---------------------------- MODULE MoneyProofs ----------------------------
(* Money, for any editors, acceptances, requests, amounts, prices and briefs. *)
(*                                                                            *)
(* The ledger: its entries are exactly those its rows account for and none is *)
(* ever changed, the balances summed from them never fall below what is still *)
(* open, the audit finds nothing, and the four balances of an editor behave   *)
(* as a Purse.                                                                *)
(*                                                                            *)
(* Quotations: stored prices survive their own form, and                      *)
(* estimates and quotes add up.  Both rest on the same facts about sums over  *)
(* finite sets, which stand between them.                                     *)
EXTENDS EarningsReconciliation, Quotation, FiniteSetTheorems, TLAPS

\* A row that has entries has an editor and an amount.
RowsSound ==
    /\ \A a \in Acceptance : acceptances[a].status \in {"pending_release", "earned"} =>
          acceptances[a].editor \in Editor /\ acceptances[a].coins \in Coins
    /\ \A r \in Request : requests[r].status # "none" =>
          requests[r].editor \in Editor /\ requests[r].amount \in Amounts

\* The inductive invariant.
LInv == TypeOK /\ RowsSound /\ LedgerMatchesRows

LEMMA InitInvariant == Init => LInv
<1> SUFFICES ASSUME Init PROVE LInv
  OBVIOUS
<1>1. /\ acceptances = [a \in Acceptance |-> [status |-> "none", editor |-> None, coins |-> 0]]
      /\ requests = [r \in Request |-> [status |-> "none", editor |-> None, amount |-> 0]]
      /\ ledger = {}
  BY DEF Init
<1>2. acceptances \in [Acceptance -> AcceptanceRow] /\ requests \in [Request -> RequestRow]
  BY <1>1 DEF AcceptanceRow, RequestRow
<1>3. /\ policy \in {"disabled", "earning", "redeeming"} /\ sandbox \in BOOLEAN
      /\ active \in SUBSET Editor /\ funded \in SUBSET Acceptance
  BY DEF Init
<1>4. TypeOK
  BY <1>1, <1>2, <1>3 DEF TypeOK
<1>5. RowsSound
  BY <1>1 DEF RowsSound
<1>6. /\ \A a \in Acceptance : EntriesOfAcceptance(a) = {}
      /\ \A r \in Request : EntriesOfRequest(r) = {}
  BY <1>1 DEF EntriesOfAcceptance, EntriesOfRequest
<1>7. LedgerMatchesRows
  BY <1>1, <1>6 DEF LedgerMatchesRows, EntriesOf
<1>8. QED
  BY <1>4, <1>5, <1>7 DEF LInv

-----------------------------------------------------------------------------
(* One row moves, and the ledger with it *)

\* A posting with an amount is an entry.
LEMMA PostingIsEntry ==
    ASSUME NEW of \in Acceptance \cup Request, NEW e \in Editor, NEW n \in Int \ {0},
           NEW word \in {"pending", "pending_closed", "credit", "reserve", "redeem", "release"},
           NEW kind \in {"pending", "credit", "reserve", "redeem", "release"}
    PROVE  Posting(of, word, kind, e, n) \in Entry
  BY DEF Posting, Entry

\* What is earned or asked for is never nothing.
LEMMA NeverNothing == \A n \in Coins \cup Amounts : n \in Int \ {0} /\ -n \in Int \ {0}
<1>1. \A n \in Coins \cup Amounts : n \in Nat \ {0}
  BY LedgerAssumption
<1>2. QED
  BY <1>1

LEMMA AcceptanceMoves ==
    ASSUME LInv, NEW a \in Acceptance, NEW row \in AcceptanceRow, NEW new \in SUBSET Entry,
           acceptances' = [acceptances EXCEPT ![a] = row],
           row.status \in {"pending_release", "earned"} =>
               row.editor \in Editor /\ row.coins \in Coins,
           ledger' = ledger \cup new, \A x \in new : x.of = a, UNCHANGED <<setting, requests>>,
           EntriesOfAcceptance(a)' = EntriesOfAcceptance(a) \cup new
    PROVE  LInv'
<1>1. /\ acceptances' \in [Acceptance -> AcceptanceRow] /\ acceptances'[a] = row
      /\ \A b \in Acceptance \ {a} : acceptances'[b] = acceptances[b]
  BY DEF LInv, TypeOK
<1>2. TypeOK'
  BY <1>1 DEF LInv, TypeOK, setting
<1>3. RowsSound'
  BY <1>1 DEF LInv, RowsSound
<1>4. \A b \in Acceptance \ {a} : EntriesOfAcceptance(b)' = EntriesOfAcceptance(b)
  BY <1>1 DEF EntriesOfAcceptance
<1>5. \A r \in Request : EntriesOfRequest(r)' = EntriesOfRequest(r)
  BY DEF EntriesOfRequest
<1>6. EntriesOf(a)' = EntriesOf(a) \cup new
  BY DEF EntriesOf
<1>7. \A x \in (Acceptance \cup Request) \ {a} : EntriesOf(x)' = EntriesOf(x)
  BY DEF EntriesOf
<1>8. LedgerMatchesRows'
  BY <1>4, <1>5, <1>6, <1>7, LedgerAssumption DEF LInv, LedgerMatchesRows
<1>9. QED
  BY <1>2, <1>3, <1>8 DEF LInv

LEMMA RequestMoves ==
    ASSUME LInv, NEW r \in Request, NEW row \in RequestRow, NEW new \in SUBSET Entry,
           requests' = [requests EXCEPT ![r] = row],
           row.status # "none" => row.editor \in Editor /\ row.amount \in Amounts,
           ledger' = ledger \cup new, \A x \in new : x.of = r, UNCHANGED <<setting, acceptances>>,
           EntriesOfRequest(r)' = EntriesOfRequest(r) \cup new
    PROVE  LInv'
<1>1. /\ requests' \in [Request -> RequestRow] /\ requests'[r] = row
      /\ \A s \in Request \ {r} : requests'[s] = requests[s]
  BY DEF LInv, TypeOK
<1>2. TypeOK'
  BY <1>1 DEF LInv, TypeOK, setting
<1>3. RowsSound'
  BY <1>1 DEF LInv, RowsSound
<1>4. \A s \in Request \ {r} : EntriesOfRequest(s)' = EntriesOfRequest(s)
  BY <1>1 DEF EntriesOfRequest
<1>5. \A a \in Acceptance : EntriesOfAcceptance(a)' = EntriesOfAcceptance(a)
  BY DEF EntriesOfAcceptance
<1>6. EntriesOf(r)' = EntriesOf(r) \cup new
  BY DEF EntriesOf
<1>7. \A x \in (Acceptance \cup Request) \ {r} : EntriesOf(x)' = EntriesOf(x)
  BY DEF EntriesOf
<1>8. LedgerMatchesRows'
  BY <1>4, <1>5, <1>6, <1>7, LedgerAssumption DEF LInv, LedgerMatchesRows
<1>9. QED
  BY <1>2, <1>3, <1>8 DEF LInv

\* Settings and accounts have no entries.
LEMMA SettingMoves ==
    ASSUME LInv, UNCHANGED <<rows, ledger>>,
           policy' \in {"disabled", "earning", "redeeming"}, sandbox' \in BOOLEAN,
           active' \in SUBSET Editor, funded' \in SUBSET Acceptance
    PROVE  LInv'
<1>1. TypeOK' /\ RowsSound'
  BY DEF LInv, TypeOK, RowsSound, rows
<1>2. /\ \A a \in Acceptance : EntriesOfAcceptance(a)' = EntriesOfAcceptance(a)
      /\ \A r \in Request : EntriesOfRequest(r)' = EntriesOfRequest(r)
  BY DEF EntriesOfAcceptance, EntriesOfRequest, rows
<1>3. LedgerMatchesRows'
  BY <1>2 DEF LInv, LedgerMatchesRows, EntriesOf
<1>4. QED
  BY <1>1, <1>3 DEF LInv

-----------------------------------------------------------------------------
(* The operations *)

LEMMA CreditInvariant ==
    ASSUME LInv, NEW a \in Acceptance, NEW e \in Editor, NEW coins \in Coins \cup {0},
           CreditAcceptance(a, e, coins)
    PROVE  LInv'
<1> DEFINE row == [status |-> IF coins = 0 THEN "pending_policy" ELSE "pending_release",
                   editor |-> e, coins |-> coins]
           new == IF coins = 0 THEN {} ELSE {Posting(a, "pending", "pending", e, coins)}
<1>1. /\ acceptances' = [acceptances EXCEPT ![a] = row] /\ ledger' = ledger \cup new
      /\ UNCHANGED <<setting, requests>> /\ acceptances[a].status = "none"
  BY DEF CreditAcceptance
<1>2. /\ row \in AcceptanceRow
      /\ row.status \in {"pending_release", "earned"} => row.editor \in Editor /\ row.coins \in Coins
  BY DEF AcceptanceRow
<1>3. coins # 0 => Posting(a, "pending", "pending", e, coins) \in Entry
  BY PostingIsEntry, LedgerAssumption
<1>4. new \in SUBSET Entry /\ \A x \in new : x.of = a
  BY <1>3 DEF Posting
<1>5. EntriesOfAcceptance(a)' = EntriesOfAcceptance(a) \cup new
  <2>1. EntriesOfAcceptance(a) = {}
    BY <1>1 DEF EntriesOfAcceptance
  <2>2. acceptances'[a] = row
    BY <1>1 DEF LInv, TypeOK
  <2>3. EntriesOfAcceptance(a)' = new
    BY <2>2, LedgerAssumption DEF EntriesOfAcceptance
  <2>4. QED
    BY <2>1, <2>3
<1> HIDE DEF row, new
<1>6. QED
  BY <1>1, <1>2, <1>4, <1>5, AcceptanceMoves

\* Writing the status of a row leaves the rest of it.
LEMMA AcceptanceStatus ==
    ASSUME NEW old \in AcceptanceRow
    PROVE  LET row == [old EXCEPT !.status = "earned"]
           IN  row \in AcceptanceRow /\ row.editor = old.editor /\ row.coins = old.coins
               /\ row.status = "earned"
  BY DEF AcceptanceRow

LEMMA RequestStatus ==
    ASSUME NEW old \in RequestRow, NEW outcome \in {"paid", "failed", "rejected"}
    PROVE  LET row == [old EXCEPT !.status = outcome]
           IN  row \in RequestRow /\ row.editor = old.editor /\ row.amount = old.amount
               /\ row.status = outcome
  BY DEF RequestRow

LEMMA ReleaseInvariant ==
    ASSUME LInv, NEW a \in Acceptance, ReleaseEarning(a)
    PROVE  LInv'
<1> DEFINE e == acceptances[a].editor
           n == acceptances[a].coins
           row == [acceptances[a] EXCEPT !.status = "earned"]
           new == Release(a, e, n)
<1>1. /\ acceptances[a].status = "pending_release" /\ acceptances[a] \in AcceptanceRow
      /\ e \in Editor /\ n \in Coins
  BY DEF ReleaseEarning, LInv, TypeOK, RowsSound
<1>2. EntriesOfAcceptance(a) = {Posting(a, "pending", "pending", e, n)}
  BY <1>1 DEF EntriesOfAcceptance
<1>3. ledger' = ledger \cup new
  <2>1. PICK entry \in ledger : /\ entry.of = a /\ entry.word = "pending"
                                /\ ledger' = ledger \cup Release(a, entry.editor, entry.amount)
    BY DEF ReleaseEarning
  <2>2. entry \in EntriesOfAcceptance(a)
    BY <2>1 DEF LInv, LedgerMatchesRows, EntriesOf
  <2>3. entry.editor = e /\ entry.amount = n
    BY <1>2, <2>2 DEF Posting
  <2>4. QED
    BY <2>1, <2>3
<1>4. acceptances' = [acceptances EXCEPT ![a] = row] /\ UNCHANGED <<setting, requests>>
  BY DEF ReleaseEarning
<1>5. row \in AcceptanceRow /\ row.editor = e /\ row.coins = n /\ row.status = "earned"
  BY <1>1, AcceptanceStatus
<1>6. n \in Int \ {0} /\ -n \in Int \ {0}
  BY <1>1, NeverNothing
<1>7. /\ Posting(a, "pending_closed", "pending", e, -n) \in Entry
      /\ Posting(a, "credit", "credit", e, n) \in Entry
  BY <1>1, <1>6, PostingIsEntry
<1>8. new \in SUBSET Entry /\ \A x \in new : x.of = a
  BY <1>7 DEF Release, Posting
<1>9. EntriesOfAcceptance(a)' = EntriesOfAcceptance(a) \cup new
  <2>1. acceptances'[a] = row
    BY <1>4 DEF LInv, TypeOK
  <2> HIDE DEF row
  <2>2. EntriesOfAcceptance(a)' = {Posting(a, "pending", "pending", e, n)} \cup new
    BY <1>5, <2>1 DEF EntriesOfAcceptance, Release, Posting
  <2>3. QED
    BY <1>2, <2>2
<1> HIDE DEF e, n, row, new
<1>10. QED
  BY <1>1, <1>3, <1>4, <1>5, <1>8, <1>9, AcceptanceMoves

LEMMA RequestInvariant ==
    ASSUME LInv, NEW e \in Editor, NEW amount \in Amounts, NEW r \in Request,
           RequestRedemption(e, amount, r)
    PROVE  LInv'
<1> DEFINE row == [status |-> "requested", editor |-> e, amount |-> amount]
           new == {Posting(r, "reserve", "reserve", e, -amount)}
<1>1. /\ requests' = [requests EXCEPT ![r] = row] /\ ledger' = ledger \cup new
      /\ UNCHANGED <<setting, acceptances>> /\ requests[r].status = "none"
  BY DEF RequestRedemption
<1>2. row \in RequestRow /\ row.editor = e /\ row.amount = amount
  BY DEF RequestRow
<1>3. Posting(r, "reserve", "reserve", e, -amount) \in Entry
  BY NeverNothing, PostingIsEntry
<1>4. new \in SUBSET Entry /\ \A x \in new : x.of = r
  BY <1>3 DEF Posting
<1>5. EntriesOfRequest(r)' = EntriesOfRequest(r) \cup new
  <2>1. EntriesOfRequest(r) = {}
    BY <1>1 DEF EntriesOfRequest
  <2>2. requests'[r] = row
    BY <1>1 DEF LInv, TypeOK
  <2>3. EntriesOfRequest(r)' = new
    BY <2>2 DEF EntriesOfRequest
  <2>4. QED
    BY <2>1, <2>3
<1> HIDE DEF row, new
<1>6. QED
  BY <1>1, <1>2, <1>4, <1>5, RequestMoves

LEMMA DecideInvariant ==
    ASSUME LInv, NEW r \in Request, NEW outcome \in {"paid", "failed", "rejected"},
           DecideRedemption(r, outcome)
    PROVE  LInv'
<1> DEFINE e == requests[r].editor
           n == requests[r].amount
           row == [requests[r] EXCEPT !.status = outcome]
           new == Outcome(r, outcome)
<1>1. /\ requests[r].status = "requested" /\ requests[r] \in RequestRow
      /\ e \in Editor /\ n \in Amounts
  BY DEF DecideRedemption, Decidable, LInv, TypeOK, RowsSound
<1>2. /\ requests' = [requests EXCEPT ![r] = row] /\ ledger' = ledger \cup new
      /\ UNCHANGED <<setting, acceptances>>
  BY DEF DecideRedemption, Kept
<1>3. row \in RequestRow /\ row.editor = e /\ row.amount = n /\ row.status = outcome
  BY <1>1, RequestStatus
<1>4. n \in Int \ {0}
  BY <1>1, NeverNothing
<1>5. /\ Posting(r, "redeem", "redeem", e, n) \in Entry
      /\ Posting(r, "release", "release", e, n) \in Entry
  BY <1>1, <1>4, PostingIsEntry
<1>6. new = IF outcome = "paid" THEN {Posting(r, "redeem", "redeem", e, n)}
            ELSE {Posting(r, "release", "release", e, n)}
  BY DEF Outcome
<1>7. new \in SUBSET Entry /\ \A x \in new : x.of = r
  BY <1>5, <1>6 DEF Posting
<1>8. EntriesOfRequest(r)' = EntriesOfRequest(r) \cup new
  <2>1. EntriesOfRequest(r) = {Posting(r, "reserve", "reserve", e, -n)}
    BY <1>1 DEF EntriesOfRequest
  <2>2. requests'[r] = row
    BY <1>2 DEF LInv, TypeOK
  <2> HIDE DEF row
  <2>3. EntriesOfRequest(r)' = {Posting(r, "reserve", "reserve", e, -n)} \cup
                               IF outcome = "paid" THEN {Posting(r, "redeem", "redeem", e, n)}
                               ELSE {Posting(r, "release", "release", e, n)}
    BY <1>3, <2>2 DEF EntriesOfRequest, Posting
  <2>4. QED
    BY <1>6, <2>1, <2>3
<1> HIDE DEF e, n, row, new
<1>9. QED
  BY <1>1, <1>2, <1>3, <1>7, <1>8, RequestMoves

LEMMA ConfigureInvariant == ASSUME LInv, Configure PROVE LInv'
<1>1. ASSUME NEW new \in {"disabled", "earning", "redeeming"}, SavePolicy(new) PROVE LInv'
  BY <1>1, SettingMoves DEF SavePolicy, LInv, TypeOK
<1>2. CASE SwitchMode
  BY <1>2, SettingMoves DEF SwitchMode, LInv, TypeOK
<1>3. ASSUME NEW e \in Editor, DeactivateEditor(e) PROVE LInv'
  BY <1>3, SettingMoves DEF DeactivateEditor, LInv, TypeOK
<1>4. ASSUME NEW a \in Acceptance, LosePayment(a) PROVE LInv'
  BY <1>4, SettingMoves DEF LosePayment, LInv, TypeOK
<1>5. QED
  BY <1>1, <1>2, <1>3, <1>4 DEF Configure

LEMMA NextInvariant == LInv /\ [Next]_vars => LInv'
<1> SUFFICES ASSUME LInv, [Next]_vars PROVE LInv'
  OBVIOUS
<1>1. CASE Configure
  BY <1>1, ConfigureInvariant
<1>2. ASSUME NEW a \in Acceptance, NEW e \in Editor, NEW coins \in Coins \cup {0},
             CreditAcceptance(a, e, coins)
      PROVE  LInv'
  BY <1>2, CreditInvariant
<1>3. ASSUME NEW a \in Acceptance, ReleaseEarning(a) PROVE LInv'
  BY <1>3, ReleaseInvariant
<1>4. ASSUME NEW e \in Editor, NEW amount \in Amounts, NEW r \in Request,
             RequestRedemption(e, amount, r)
      PROVE  LInv'
  BY <1>4, RequestInvariant
<1>5. ASSUME NEW r \in Request, NEW outcome \in {"paid", "failed", "rejected"},
             DecideRedemption(r, outcome)
      PROVE  LInv'
  BY <1>5, DecideInvariant
<1>6. CASE UNCHANGED vars
  BY <1>6, SettingMoves DEF vars, setting, LInv, TypeOK
<1>7. QED
  BY <1>1, <1>2, <1>3, <1>4, <1>5, <1>6 DEF Next, Account

-----------------------------------------------------------------------------
(* The theorems *)

\* The inductive invariant holds in every behaviour.
THEOREM LedgerInvariant == Spec => []LInv
  BY InitInvariant, NextInvariant, PTL DEF Spec

\* Rows and entries keep their types; no entry is ever for nothing
\* (nonzero_coin_entry).
THEOREM LedgerTypeOK == Spec => []TypeOK
<1>1. LInv => TypeOK
  BY DEF LInv
<1>2. QED
  BY <1>1, LedgerInvariant, PTL

\* earnings.py: the ledger holds exactly the entries its rows account for.
THEOREM LedgerLedgerMatchesRows == Spec => []LedgerMatchesRows
<1>1. LInv => LedgerMatchesRows
  BY DEF LInv
<1>2. QED
  BY <1>1, LedgerInvariant, PTL

\* CoinTransaction and decide_redemption: entries are never changed or deleted,
\* and final outcomes are final.
THEOREM LedgerLedgerOnlyGrows == Spec => LedgerOnlyGrows
<1> DEFINE Grows == /\ ledger \subseteq ledger'
                    /\ \A r \in Request : requests[r].status \in {"paid", "failed", "rejected"} =>
                          requests'[r] = requests[r]
<1>1. LInv /\ [Next]_vars => [Grows]_vars
  <2> SUFFICES ASSUME LInv, Next PROVE Grows
    OBVIOUS
  <2>1. CASE Configure
    BY <2>1 DEF Configure, SavePolicy, SwitchMode, DeactivateEditor, LosePayment, rows
  <2>2. ASSUME NEW a \in Acceptance, NEW e \in Editor, NEW coins \in Coins \cup {0},
               CreditAcceptance(a, e, coins)
        PROVE  Grows
    BY <2>2 DEF CreditAcceptance
  <2>3. ASSUME NEW a \in Acceptance, ReleaseEarning(a) PROVE Grows
    BY <2>3 DEF ReleaseEarning
  <2>4. ASSUME NEW e \in Editor, NEW amount \in Amounts, NEW r \in Request,
               RequestRedemption(e, amount, r)
        PROVE  Grows
    <3>1. \A s \in Request \ {r} : requests'[s] = requests[s]
      BY <2>4 DEF RequestRedemption, LInv, TypeOK
    <3>2. QED
      BY <2>4, <3>1 DEF RequestRedemption
  <2>5. ASSUME NEW r \in Request, NEW outcome \in {"paid", "failed", "rejected"},
               DecideRedemption(r, outcome)
        PROVE  Grows
    <3>1. \A s \in Request \ {r} : requests'[s] = requests[s]
      BY <2>5 DEF DecideRedemption, LInv, TypeOK
    <3>2. QED
      BY <2>5, <3>1 DEF DecideRedemption, Decidable, Kept
  <2>6. QED
    BY <2>1, <2>2, <2>3, <2>4, <2>5 DEF Next, Account
<1>2. QED
  BY <1>1, LedgerInvariant, PTL DEF Spec, LedgerOnlyGrows

-----------------------------------------------------------------------------
(* Sums over finite sets *)

\* The element the fold of the community modules takes next.
First(s) == CHOOSE x \in s : TRUE

\* it is the fold by which MapThenSumSet sums f over the subsets of T.
Iterates(it, f, T) ==
    it = [s \in SUBSET T |-> IF s = {} THEN 0 ELSE f[First(s)] + it[s \ {First(s)}]]

\* What it yields for T.
SumOf(f, T) == (CHOOSE it : Iterates(it, f, T))[T]

LEMMA FirstIsElement == ASSUME NEW s, s # {} PROVE First(s) \in s
  BY DEF First

\* Induction over the finite subsets of U: if some lack a property, one of them
\* lacks it and none of its strict subsets does.
LEMMA SmallestSubset ==
    ASSUME NEW U, NEW Bad, Bad \subseteq FiniteSubsetsOf(U), Bad # {}
    PROVE  \E T \in Bad : \A s \in SUBSET T : s # T => s \notin Bad
<1>1. PICK T \in Bad : \A s \in Bad : ~ (<<s, T>> \in StrictSubsetOrdering(U))
  <2>1. IsWellFoundedOn(StrictSubsetOrdering(U), FiniteSubsetsOf(U))
    BY FS_StrictSubsetOrderingWellFounded
  <2>2. QED
    BY <2>1, WFMin
<1>2. T \in SUBSET U
  BY DEF FiniteSubsetsOf
<1>3. ASSUME NEW s \in SUBSET T, s # T PROVE s \notin Bad
  <2>1. <<s, T>> \in (SUBSET U) \X (SUBSET U)
    BY <1>2
  <2>2. <<s, T>> \in StrictSubsetOrdering(U)
    BY <2>1, <1>3 DEF StrictSubsetOrdering
  <2>3. QED
    BY <2>2, <1>1
<1>4. QED
  BY <1>3

LEMMA SubsetIsFinite ==
    ASSUME NEW U, NEW T \in FiniteSubsetsOf(U), NEW s \in SUBSET T
    PROVE  s \in FiniteSubsetsOf(U)
  BY FS_Subset DEF FiniteSubsetsOf

\* The fold does not depend on the set it was started with.
LEMMA FoldIsUnique ==
    ASSUME NEW f, NEW S, NEW T, NEW g, NEW h, Iterates(g, f, S), Iterates(h, f, T)
    PROVE  \A r \in FiniteSubsetsOf(S \cap T) : g[r] = h[r]
<1> DEFINE Bad == {r \in FiniteSubsetsOf(S \cap T) : g[r] # h[r]}
<1> SUFFICES ASSUME Bad # {} PROVE FALSE
  OBVIOUS
<1>1. PICK r \in Bad : \A s \in SUBSET r : s # r => s \notin Bad
  <2>1. Bad \subseteq FiniteSubsetsOf(S \cap T)
    OBVIOUS
  <2> HIDE DEF Bad
  <2>2. QED
    BY <2>1, SmallestSubset
<1>2. r \in SUBSET S /\ r \in SUBSET T
  BY DEF FiniteSubsetsOf
<1>3. /\ g[r] = IF r = {} THEN 0 ELSE f[First(r)] + g[r \ {First(r)}]
      /\ h[r] = IF r = {} THEN 0 ELSE f[First(r)] + h[r \ {First(r)}]
  BY <1>2 DEF Iterates
<1>4. r # {}
  BY <1>3
<1>5. r \ {First(r)} \in SUBSET r /\ r \ {First(r)} # r
  BY <1>4, FirstIsElement
<1>6. r \ {First(r)} \in FiniteSubsetsOf(S \cap T)
  BY <1>5, SubsetIsFinite
<1>7. g[r \ {First(r)}] = h[r \ {First(r)}]
  BY <1>1, <1>5, <1>6
<1>8. QED
  BY <1>3, <1>4, <1>7

\* There is a fold over every finite set.
LEMMA FoldExists ==
    ASSUME NEW f, NEW U
    PROVE  \A T \in FiniteSubsetsOf(U) : \E it : Iterates(it, f, T)
<1> DEFINE Bad == {T \in FiniteSubsetsOf(U) : ~ \E it : Iterates(it, f, T)}
<1> SUFFICES ASSUME Bad # {} PROVE FALSE
  OBVIOUS
<1>1. PICK T \in Bad : \A s \in SUBSET T : s # T => s \notin Bad
  <2>1. Bad \subseteq FiniteSubsetsOf(U)
    OBVIOUS
  <2> HIDE DEF Bad
  <2>2. QED
    BY <2>1, SmallestSubset
<1> DEFINE of(s) == CHOOSE it : Iterates(it, f, s)
           below == [s \in SUBSET T |-> IF s = {} THEN 0
                                        ELSE f[First(s)] + of(s \ {First(s)})[s \ {First(s)}]]
<1>2. ASSUME NEW s \in SUBSET T, s # T PROVE Iterates(of(s), f, s)
  <2>1. s \in FiniteSubsetsOf(U)
    BY SubsetIsFinite
  <2>2. \E it : Iterates(it, f, s)
    BY <2>1, <1>1, <1>2
  <2>3. QED
    BY <2>2
<1>3. ASSUME NEW s \in SUBSET T, s # {}
      PROVE  below[s \ {First(s)}] = of(s \ {First(s)})[s \ {First(s)}]
  <2> DEFINE r == s \ {First(s)}
             t == r \ {First(r)}
  <2>1. r \in SUBSET T /\ r # T
    BY <1>3, FirstIsElement
  <2>2. Iterates(of(r), f, r)
    BY <2>1, <1>2
  <2>3. r \in SUBSET r
    OBVIOUS
  <2>4. of(r)[r] = IF r = {} THEN 0 ELSE f[First(r)] + of(r)[t]
    <3> HIDE DEF of, r
    <3> QED
      BY <2>2, <2>3 DEF Iterates
  <2>5. below[r] = IF r = {} THEN 0 ELSE f[First(r)] + of(t)[t]
    BY <2>1
  <2>6. ASSUME r = {} PROVE below[r] = of(r)[r]
    <3> HIDE DEF of, r, t, below
    <3> QED
      BY <2>4, <2>5, <2>6
  <2>7. ASSUME r # {} PROVE below[r] = of(r)[r]
    <3>1. t \in SUBSET r /\ t \in SUBSET T /\ t # T
      BY <2>1
    <3>2. Iterates(of(t), f, t)
      BY <3>1, <1>2
    <3>3. t \in FiniteSubsetsOf(r \cap t)
      BY <3>1, SubsetIsFinite DEF FiniteSubsetsOf
    <3>4. of(r)[t] = of(t)[t]
      <4> HIDE DEF of, r, t, below
      <4> QED
        BY <2>2, <3>2, <3>3, FoldIsUnique
    <3>5. QED
      <4> HIDE DEF of, r, t, below
      <4> QED
        BY <3>4, <2>4, <2>5, <2>7
  <2>8. below[r] = of(r)[r]
    <3> HIDE DEF of, below
    <3> QED
      BY <2>6, <2>7
  <2>9. QED
    BY <2>8
<1>4. Iterates(below, f, T)
  <2>1. \A s \in SUBSET T : below[s] = IF s = {} THEN 0 ELSE f[First(s)] + below[s \ {First(s)}]
    <3> SUFFICES ASSUME NEW s \in SUBSET T
                 PROVE  below[s] = IF s = {} THEN 0 ELSE f[First(s)] + below[s \ {First(s)}]
      OBVIOUS
    <3>1. below[s] = IF s = {} THEN 0 ELSE f[First(s)] + of(s \ {First(s)})[s \ {First(s)}]
      OBVIOUS
    <3> HIDE DEF of, below
    <3>2. QED
      BY <3>1, <1>3
  <2>2. below = [s \in SUBSET T |-> below[s]]
    OBVIOUS
  <2> HIDE DEF below
  <2>3. [s \in SUBSET T |-> below[s]]
        = [s \in SUBSET T |-> IF s = {} THEN 0 ELSE f[First(s)] + below[s \ {First(s)}]]
    BY <2>1
  <2>4. QED
    BY <2>2, <2>3 DEF Iterates
<1>5. QED
  BY <1>4

LEMMA SumIsFold ==
    ASSUME NEW f, NEW U, NEW T \in FiniteSubsetsOf(U), NEW it, NEW S, T \subseteq S, Iterates(it, f, S)
    PROVE  it[T] = SumOf(f, T)
<1>1. PICK own : Iterates(own, f, T) /\ SumOf(f, T) = own[T]
  <2>1. \E own : Iterates(own, f, T)
    BY FoldExists
  <2>2. QED
    BY <2>1 DEF SumOf
<1>2. T \in FiniteSubsetsOf(S \cap T)
  BY DEF FiniteSubsetsOf
<1>3. QED
  BY <1>1, <1>2, FoldIsUnique

LEMMA SumStep ==
    ASSUME NEW f, NEW U, NEW T \in FiniteSubsetsOf(U)
    PROVE  SumOf(f, T) = IF T = {} THEN 0 ELSE f[First(T)] + SumOf(f, T \ {First(T)})
<1>1. PICK it : Iterates(it, f, T)
  BY FoldExists
<1>2. it[T] = IF T = {} THEN 0 ELSE f[First(T)] + it[T \ {First(T)}]
  BY <1>1 DEF Iterates
<1>3. it[T] = SumOf(f, T)
  BY <1>1, SumIsFold
<1>4. it[T \ {First(T)}] = SumOf(f, T \ {First(T)})
  <2>1. T \ {First(T)} \in FiniteSubsetsOf(U)
    BY SubsetIsFinite
  <2>2. QED
    BY <1>1, <2>1, SumIsFold
<1>5. QED
  BY <1>2, <1>3, <1>4

LEMMA SumType ==
    ASSUME NEW U, NEW f \in [U -> Int]
    PROVE  \A T \in FiniteSubsetsOf(U) : SumOf(f, T) \in Int
<1> DEFINE Bad == {T \in FiniteSubsetsOf(U) : SumOf(f, T) \notin Int}
<1> SUFFICES ASSUME Bad # {} PROVE FALSE
  OBVIOUS
<1>1. PICK T \in Bad : \A s \in SUBSET T : s # T => s \notin Bad
  <2>1. Bad \subseteq FiniteSubsetsOf(U)
    OBVIOUS
  <2> HIDE DEF Bad
  <2>2. QED
    BY <2>1, SmallestSubset
<1>2. CASE T = {}
  <2>1. SumOf(f, T) = 0
    BY <1>2, SumStep
  <2>2. QED
    BY <2>1
<1>3. CASE T # {}
  <2>1. First(T) \in T /\ First(T) \in U
    BY <1>3, FirstIsElement DEF FiniteSubsetsOf
  <2>2. T \ {First(T)} \in FiniteSubsetsOf(U) /\ T \ {First(T)} # T
    BY <2>1, SubsetIsFinite
  <2>3. SumOf(f, T \ {First(T)}) \in Int
    BY <2>2, <1>1
  <2>4. SumOf(f, T) = f[First(T)] + SumOf(f, T \ {First(T)})
    BY <1>3, SumStep
  <2>5. QED
    BY <2>1, <2>3, <2>4
<1>4. QED
  BY <1>2, <1>3

\* Whichever element is taken out first.
LEMMA SumRemoves ==
    ASSUME NEW U, NEW f \in [U -> Int]
    PROVE  \A T \in FiniteSubsetsOf(U) : \A x \in T : SumOf(f, T) = f[x] + SumOf(f, T \ {x})
<1> DEFINE Bad == {T \in FiniteSubsetsOf(U) : \E x \in T : SumOf(f, T) # f[x] + SumOf(f, T \ {x})}
<1> SUFFICES ASSUME Bad # {} PROVE FALSE
  OBVIOUS
<1>1. PICK T \in Bad : \A s \in SUBSET T : s # T => s \notin Bad
  <2>1. Bad \subseteq FiniteSubsetsOf(U)
    OBVIOUS
  <2> HIDE DEF Bad
  <2>2. QED
    BY <2>1, SmallestSubset
<1>2. PICK x \in T : SumOf(f, T) # f[x] + SumOf(f, T \ {x})
  OBVIOUS
<1> DEFINE y == First(T)
<1>3. y \in T /\ T \in SUBSET U /\ y \in U /\ x \in U
  BY FirstIsElement DEF FiniteSubsetsOf
<1>4. SumOf(f, T) = f[y] + SumOf(f, T \ {y})
  BY <1>3, SumStep
<1>5. y # x
  BY <1>2, <1>4
<1> DEFINE rest == (T \ {x}) \ {y}
<1>6. /\ T \ {x} \in FiniteSubsetsOf(U) /\ T \ {y} \in FiniteSubsetsOf(U)
      /\ rest \in FiniteSubsetsOf(U)
  BY SubsetIsFinite
<1>7. T \ {x} \notin Bad /\ T \ {y} \notin Bad
  BY <1>1, <1>2, <1>3
<1>8. SumOf(f, T \ {x}) = f[y] + SumOf(f, rest)
  BY <1>3, <1>5, <1>6, <1>7
<1>9. SumOf(f, T \ {y}) = f[x] + SumOf(f, rest)
  <2>1. (T \ {y}) \ {x} = rest
    OBVIOUS
  <2>2. SumOf(f, T \ {y}) = f[x] + SumOf(f, (T \ {y}) \ {x})
    BY <1>3, <1>5, <1>6, <1>7
  <2>3. QED
    BY <2>1, <2>2
<1>10. f[x] \in Int /\ f[y] \in Int /\ SumOf(f, rest) \in Int
  BY <1>3, <1>6, SumType
<1> HIDE DEF y, rest, Bad
<1>11. QED
  BY <1>2, <1>4, <1>8, <1>9, <1>10

LEMMA SumAdds ==
    ASSUME NEW U, NEW f \in [U -> Int], NEW T \in FiniteSubsetsOf(U), NEW x \in U, x \notin T
    PROVE  SumOf(f, T \cup {x}) = SumOf(f, T) + f[x]
<1> DEFINE more == T \cup {x}
           same == more \ {x}
<1>1. more \in FiniteSubsetsOf(U) /\ x \in more
  BY FS_AddElement DEF FiniteSubsetsOf
<1>2. same = T
  OBVIOUS
<1>3. SumOf(f, more) = f[x] + SumOf(f, same)
  BY <1>1, SumRemoves
<1>4. SumOf(f, T) \in Int /\ f[x] \in Int
  BY SumType
<1>5. SumOf(f, more) = SumOf(f, T) + f[x]
  <2> HIDE DEF more, same
  <2> QED
    BY <1>2, <1>3, <1>4
<1>6. QED
  BY <1>5


LEMMA SumEmpty == \A f : SumOf(f, {}) = 0
  BY FS_EmptySet, SumStep DEF FiniteSubsetsOf

LEMMA SumUnion ==
    ASSUME NEW U, NEW f \in [U -> Int], NEW S \in FiniteSubsetsOf(U)
    PROVE  \A T \in FiniteSubsetsOf(U) : S \cap T = {} => SumOf(f, S \cup T) = SumOf(f, S) + SumOf(f, T)
<1> DEFINE Bad == {T \in FiniteSubsetsOf(U) : S \cap T = {} /\ SumOf(f, S \cup T) # SumOf(f, S) + SumOf(f, T)}
<1> SUFFICES ASSUME Bad # {} PROVE FALSE
  OBVIOUS
<1>1. PICK T \in Bad : \A s \in SUBSET T : s # T => s \notin Bad
  <2>1. Bad \subseteq FiniteSubsetsOf(U)
    OBVIOUS
  <2> HIDE DEF Bad
  <2>2. QED
    BY <2>1, SmallestSubset
<1>2. SumOf(f, S) \in Int
  BY SumType
<1>3. CASE T = {}
  <2> DEFINE both == S \cup T
  <2>1. SumOf(f, both) # SumOf(f, S) + SumOf(f, T)
    OBVIOUS
  <2>2. both = S /\ SumOf(f, T) = 0
    BY <1>3, SumEmpty
  <2> HIDE DEF both, Bad
  <2>3. QED
    BY <1>2, <2>1, <2>2
<1>4. CASE T # {}
  <2>1. PICK x \in T : TRUE
    BY <1>4
  <2> DEFINE rest == T \ {x}
  <2>2. x \in U /\ x \notin S /\ rest # T /\ rest \in SUBSET T
    BY DEF FiniteSubsetsOf
  <2>3. rest \in FiniteSubsetsOf(U) /\ S \cup T \in FiniteSubsetsOf(U)
    <3>1. T \in FiniteSubsetsOf(U)
      OBVIOUS
    <3>2. IsFiniteSet(S \cup T)
      BY <3>1, FS_Union DEF FiniteSubsetsOf
    <3>3. QED
      BY <2>2, <3>1, <3>2, SubsetIsFinite DEF FiniteSubsetsOf
  <2>4. SumOf(f, S \cup rest) = SumOf(f, S) + SumOf(f, rest)
    BY <1>1, <2>2, <2>3
  <2>5. SumOf(f, T) = f[x] + SumOf(f, rest)
    BY SumRemoves
  <2>6. (S \cup T) \ {x} = S \cup rest
    BY <2>2
  <2>7. SumOf(f, S \cup T) = f[x] + SumOf(f, S \cup rest)
    BY <2>3, <2>6, SumRemoves
  <2>8. f[x] \in Int /\ SumOf(f, rest) \in Int
    BY <2>2, <2>3, SumType
  <2>9. SumOf(f, S \cup T) # SumOf(f, S) + SumOf(f, T)
    OBVIOUS
  <2> HIDE DEF rest, Bad
  <2>10. QED
    BY <1>2, <2>4, <2>5, <2>7, <2>8, <2>9
<1>5. QED
  BY <1>3, <1>4

\* A set of amounts in which every negative one has a partner of its own that
\* makes up for it is not overdrawn.
Paired(f, partner, T) ==
    /\ \A x \in T : f[x] < 0 => partner[x] \in T /\ f[partner[x]] = -f[x]
    /\ \A x, y \in T : f[x] < 0 /\ f[y] < 0 /\ partner[x] = partner[y] => x = y

LEMMA PairedIsCovered ==
    ASSUME NEW U, NEW f \in [U -> Int], NEW partner
    PROVE  \A T \in FiniteSubsetsOf(U) : Paired(f, partner, T) => SumOf(f, T) >= 0
<1> DEFINE Bad == {T \in FiniteSubsetsOf(U) : Paired(f, partner, T) /\ ~(SumOf(f, T) >= 0)}
<1> SUFFICES ASSUME Bad # {} PROVE FALSE
  OBVIOUS
<1>1. PICK T \in Bad : \A s \in SUBSET T : s # T => s \notin Bad
  <2>1. Bad \subseteq FiniteSubsetsOf(U)
    OBVIOUS
  <2> HIDE DEF Bad
  <2>2. QED
    BY <2>1, SmallestSubset
<1>2. T \in SUBSET U /\ SumOf(f, T) \in Int /\ Paired(f, partner, T) /\ SumOf(f, T) < 0
  BY SumType DEF FiniteSubsetsOf
<1>3. T # {}
  BY <1>2, SumEmpty
<1>4. ASSUME NEW x \in T, f[x] < 0 PROVE FALSE
  <2> DEFINE p == partner[x]
             some == T \ {x}
             rest == some \ {p}
  <2>1. p \in T /\ f[p] = -f[x] /\ f[x] \in Int /\ p # x /\ f[p] \in Int
    BY <1>2, <1>4 DEF Paired
  <2>2. some \in FiniteSubsetsOf(U) /\ rest \in FiniteSubsetsOf(U) /\ rest # T /\ rest \in SUBSET T
    BY SubsetIsFinite
  <2>3. SumOf(f, T) = f[x] + SumOf(f, some)
    BY SumRemoves
  <2>4. SumOf(f, some) = f[p] + SumOf(f, rest)
    BY <2>1, <2>2, SumRemoves
  <2>5. Paired(f, partner, rest)
    BY <1>2, <1>4, <2>1 DEF Paired
  <2>6. SumOf(f, rest) >= 0
    BY <1>1, <2>2, <2>5
  <2>7. SumOf(f, rest) \in Int
    BY <2>2, SumType
  <2> HIDE DEF p, some, rest, Bad
  <2>8. QED
    BY <1>2, <2>1, <2>3, <2>4, <2>6, <2>7
<1>5. CASE \A x \in T : ~(f[x] < 0)
  <2>1. PICK x \in T : TRUE
    BY <1>3
  <2> DEFINE rest == T \ {x}
  <2>2. rest \in FiniteSubsetsOf(U) /\ rest # T /\ rest \in SUBSET T
    BY SubsetIsFinite
  <2>3. Paired(f, partner, rest)
    BY <1>5 DEF Paired
  <2>4. SumOf(f, rest) >= 0
    BY <1>1, <2>2, <2>3
  <2>5. SumOf(f, T) = f[x] + SumOf(f, rest)
    BY SumRemoves
  <2>6. SumOf(f, rest) \in Int /\ f[x] \in Int /\ ~(f[x] < 0)
    BY <1>2, <1>5, <2>2, SumType
  <2> HIDE DEF rest, Bad
  <2>7. QED
    BY <1>2, <2>4, <2>5, <2>6
<1>6. QED
  BY <1>4, <1>5

LEMMA SumNegates ==
    ASSUME NEW U, NEW f \in [U -> Int], NEW g \in [U -> Int], \A x \in U : g[x] = -f[x]
    PROVE  \A T \in FiniteSubsetsOf(U) : SumOf(g, T) + SumOf(f, T) = 0
<1> DEFINE Bad == {T \in FiniteSubsetsOf(U) : SumOf(g, T) + SumOf(f, T) # 0}
<1> SUFFICES ASSUME Bad # {} PROVE FALSE
  OBVIOUS
<1>1. PICK T \in Bad : \A s \in SUBSET T : s # T => s \notin Bad
  <2>1. Bad \subseteq FiniteSubsetsOf(U)
    OBVIOUS
  <2> HIDE DEF Bad
  <2>2. QED
    BY <2>1, SmallestSubset
<1>2. T # {}
  <2>1. SUFFICES ASSUME T = {} PROVE FALSE
    OBVIOUS
  <2>2. SumOf(g, T) = 0 /\ SumOf(f, T) = 0
    BY <2>1, SumEmpty
  <2>3. SumOf(g, T) + SumOf(f, T) # 0
    OBVIOUS
  <2> HIDE DEF Bad
  <2>4. QED
    BY <2>2, <2>3
<1>3. PICK x \in T : TRUE
  BY <1>2
<1> DEFINE rest == T \ {x}
<1>4. rest \in FiniteSubsetsOf(U) /\ rest # T /\ rest \in SUBSET T /\ x \in U
  BY SubsetIsFinite DEF FiniteSubsetsOf
<1>5. SumOf(g, rest) + SumOf(f, rest) = 0
  BY <1>1, <1>4
<1>6. SumOf(f, T) = f[x] + SumOf(f, rest) /\ SumOf(g, T) = g[x] + SumOf(g, rest)
  BY SumRemoves
<1>7. f[x] \in Int /\ g[x] = -f[x] /\ SumOf(f, rest) \in Int /\ SumOf(g, rest) \in Int
  BY <1>4, SumType
<1>8. SumOf(g, T) + SumOf(f, T) # 0
  OBVIOUS
<1> HIDE DEF rest, Bad
<1>9. QED
  BY <1>5, <1>6, <1>7, <1>8
-----------------------------------------------------------------------------
(* Balances *)

\* What an entry is worth; the balance of an editor over any set of entries.
Worth == [entry \in Entry |-> entry.amount]

EntriesFor(L, e, kinds) == {entry \in L : entry.editor = e /\ entry.kind \in kinds}

Balance(L, e, kinds) == SumOf(Worth, EntriesFor(L, e, kinds))

LEMMA WorthType == Worth \in [Entry -> Int]
  BY DEF Worth, Entry

\* totals computes the balances.
LEMMA FoldIsBalance ==
    ASSUME NEW T \in FiniteSubsetsOf(Entry)
    PROVE  MapThenSumSet(Amount, T) = SumOf(Worth, T)
<1> DEFINE Summing(it) == it = [s \in SUBSET T |-> IF s = {} THEN 0
                                  ELSE Amount(First(s)) + it[s \ {First(s)}]]
<1>1. MapThenSumSet(Amount, T) = (CHOOSE it : Summing(it))[T]
  BY DEF MapThenSumSet, MapThenFoldSet, First
<1>2. ASSUME NEW s \in SUBSET T, s # {} PROVE Amount(First(s)) = Worth[First(s)]
  BY <1>2, FirstIsElement DEF Amount, Worth, FiniteSubsetsOf
<1>3. ASSUME NEW it PROVE Summing(it) <=> Iterates(it, Worth, T)
  BY <1>2 DEF Iterates
<1>4. \E it : Summing(it)
  BY <1>3, FoldExists
<1> DEFINE fold == CHOOSE it : Summing(it)
<1>5. Summing(fold)
  <2> HIDE DEF Summing
  <2> QED
    BY <1>4
<1> HIDE DEF fold, Summing
<1>6. fold[T] = SumOf(Worth, T)
  BY <1>3, <1>5, SumIsFold
<1>7. QED
  BY <1>1, <1>6 DEF fold

LEMMA EntriesAreFinite ==
    ASSUME NEW L \in FiniteSubsetsOf(Entry), NEW e, NEW kinds
    PROVE  EntriesFor(L, e, kinds) \in FiniteSubsetsOf(Entry)
  BY SubsetIsFinite DEF EntriesFor

LEMMA BalanceType ==
    ASSUME NEW L \in FiniteSubsetsOf(Entry), NEW e, NEW kinds
    PROVE  Balance(L, e, kinds) \in Int
  BY EntriesAreFinite, SumType, WorthType DEF Balance

LEMMA TotalIsBalance ==
    ASSUME ledger \in FiniteSubsetsOf(Entry), NEW e, NEW kinds
    PROVE  Total(e, kinds) = Balance(ledger, e, kinds)
  BY EntriesAreFinite, FoldIsBalance DEF Total, Balance, EntriesFor

LEMMA TotalIsBalanceNext ==
    ASSUME ledger' \in FiniteSubsetsOf(Entry), NEW e, NEW kinds
    PROVE  Total(e, kinds)' = Balance(ledger', e, kinds)
<1>1. Total(e, kinds)' = MapThenSumSet(Amount, EntriesFor(ledger', e, kinds))
  BY DEF Total, EntriesFor
<1>2. QED
  BY <1>1, EntriesAreFinite, FoldIsBalance DEF Balance

LEMMA EmptyBalance == \A e, kinds : Balance({}, e, kinds) = 0
<1>1. \A e, kinds : EntriesFor({}, e, kinds) = {}
  BY DEF EntriesFor
<1>2. QED
  BY <1>1, SumEmpty DEF Balance

\* A new entry counts once, in the balances of its editor and kind.
LEMMA BalancePosts ==
    ASSUME NEW L \in FiniteSubsetsOf(Entry), NEW x \in Entry, x \notin L,
           NEW M, M = L \cup {x}, NEW e, NEW kinds
    PROVE  Balance(M, e, kinds) =
           Balance(L, e, kinds) + (IF x.editor = e /\ x.kind \in kinds THEN x.amount ELSE 0)
<1> DEFINE before == EntriesFor(L, e, kinds)
           after  == EntriesFor(M, e, kinds)
<1>1. before \in FiniteSubsetsOf(Entry) /\ x \notin before
  BY EntriesAreFinite DEF EntriesFor
<1>2. SumOf(Worth, before) \in Int /\ Worth[x] = x.amount /\ x.amount \in Int
  BY <1>1, SumType, WorthType DEF Worth, Entry
<1>3. CASE x.editor = e /\ x.kind \in kinds
  <2>1. after = before \cup {x}
    BY <1>3 DEF EntriesFor
  <2> HIDE DEF before, after
  <2>2. SumOf(Worth, after) = SumOf(Worth, before) + Worth[x]
    BY <1>1, <2>1, SumAdds, WorthType
  <2>3. QED
    BY <1>2, <1>3, <2>1, <2>2 DEF Balance, before, after
<1>4. CASE ~(x.editor = e /\ x.kind \in kinds)
  <2>1. after = before
    BY <1>4 DEF EntriesFor
  <2>2. Balance(M, e, kinds) = Balance(L, e, kinds)
    BY <2>1 DEF Balance
  <2>3. QED
    BY <1>2, <1>4, <2>2 DEF Balance
<1>5. QED
  BY <1>3, <1>4

\* Reserved is a balance too: of everything that moves reserved coins.
LEMMA BalanceSplits ==
    ASSUME NEW L \in FiniteSubsetsOf(Entry), NEW e
    PROVE  Balance(L, e, {"reserve", "redeem", "release"})
           = Balance(L, e, {"reserve"}) + Balance(L, e, {"redeem", "release"})
<1> DEFINE S == EntriesFor(L, e, {"reserve"})
           T == EntriesFor(L, e, {"redeem", "release"})
           both == EntriesFor(L, e, {"reserve", "redeem", "release"})
<1>1. S \in FiniteSubsetsOf(Entry) /\ T \in FiniteSubsetsOf(Entry)
  BY EntriesAreFinite
<1>2. S \cap T = {} /\ both = S \cup T
  BY DEF EntriesFor
<1> HIDE DEF S, T, both
<1>3. SumOf(Worth, S \cup T) = SumOf(Worth, S) + SumOf(Worth, T)
  BY <1>1, <1>2, SumUnion, WorthType
<1>4. QED
  BY <1>2, <1>3 DEF Balance, S, T, both

-----------------------------------------------------------------------------
(* What is open is covered *)

\* Entries come with rows, so those of one key are those of its row.
LEMMA EntryHasRow ==
    ASSUME LInv, NEW x \in ledger
    PROVE  \/ x.of \in Acceptance /\ x \in EntriesOfAcceptance(x.of)
           \/ x.of \in Request /\ x \in EntriesOfRequest(x.of)
  BY DEF LInv, TypeOK, Entry, LedgerMatchesRows, EntriesOf

\* The entry that a negative pending entry closes.
Opening == [x \in Entry |-> Posting(x.of, "pending", "pending", x.editor, -x.amount)]

\* Pending entries are closed by entries of their own, so those that are still
\* open can be left out.
LEMMA PendingIsPaired ==
    ASSUME LInv, ledger \in FiniteSubsetsOf(Entry), NEW e, NEW gone,
           \A o \in gone : acceptances[o.of].status # "earned"
    PROVE  /\ EntriesFor(ledger, e, {"pending"}) \ gone \in FiniteSubsetsOf(Entry)
           /\ Paired(Worth, Opening, EntriesFor(ledger, e, {"pending"}) \ gone)
<1> DEFINE T == EntriesFor(ledger, e, {"pending"})
           rest == T \ gone
<1>1. T \in FiniteSubsetsOf(Entry) /\ rest \in FiniteSubsetsOf(Entry)
  BY EntriesAreFinite, SubsetIsFinite
<1>2. ASSUME NEW x \in rest, Worth[x] < 0
      PROVE  /\ Opening[x] \in rest /\ Worth[Opening[x]] = -Worth[x]
             /\ x = Posting(x.of, "pending_closed", "pending", x.editor, x.amount)
             /\ Opening[x] = Posting(x.of, "pending", "pending", x.editor, -x.amount)
  <2>1. x \in ledger /\ x \in Entry /\ x.editor = e /\ x.kind = "pending" /\ Worth[x] = x.amount
        /\ x.amount < 0
    BY <1>1, <1>2 DEF EntriesFor, FiniteSubsetsOf, Worth
  <2>2. x.of \in Acceptance /\ x \in EntriesOfAcceptance(x.of)
    <3>1. ASSUME x.of \in Request, x \in EntriesOfRequest(x.of) PROVE FALSE
      BY <2>1, <3>1 DEF EntriesOfRequest, Posting
    <3>2. QED
      BY <2>1, <3>1, EntryHasRow
  <2> DEFINE row == acceptances[x.of]
  <2>3. row.coins \in Nat /\ row.status \in {"pending_release", "earned"}
    BY <2>2, LedgerAssumption DEF EntriesOfAcceptance, LInv, RowsSound
  <2>4. /\ row.status = "earned"
        /\ x = Posting(x.of, "pending_closed", "pending", row.editor, -row.coins)
    BY <2>1, <2>2, <2>3 DEF EntriesOfAcceptance, Release, Posting
  <2>5. x.editor = row.editor /\ x.amount = -row.coins /\ row.coins = -x.amount
    BY <2>3, <2>4 DEF Posting
  <2> HIDE DEF row
  <2>6. /\ Opening[x] = Posting(x.of, "pending", "pending", row.editor, row.coins)
        /\ Opening[x] = Posting(x.of, "pending", "pending", x.editor, -x.amount)
    BY <2>1, <2>5 DEF Opening
  <2>7. Opening[x] \in EntriesOf(x.of)
    BY <2>2, <2>4, <2>6 DEF EntriesOfAcceptance, LInv, LedgerMatchesRows, row
  <2>8. Opening[x].of = x.of
    BY <2>6 DEF Posting
  <2>9. Opening[x] \in ledger /\ Opening[x] \in Entry /\ Opening[x] \notin gone
    BY <2>4, <2>7, <2>8 DEF EntriesOf, LInv, TypeOK, row
  <2>10. Opening[x] \in rest /\ Worth[Opening[x]] = row.coins
    BY <2>1, <2>5, <2>6, <2>9 DEF EntriesFor, Posting, Worth
  <2>11. QED
    BY <2>1, <2>4, <2>5, <2>6, <2>10
<1>3. ASSUME NEW x \in rest, NEW y \in rest, Worth[x] < 0, Worth[y] < 0, Opening[x] = Opening[y]
      PROVE  x = y
  <2>1. x.of = y.of /\ x.editor = y.editor /\ -x.amount = -y.amount
    <3>1. Posting(x.of, "pending", "pending", x.editor, -x.amount)
          = Posting(y.of, "pending", "pending", y.editor, -y.amount)
      BY <1>2, <1>3
    <3>2. QED
      BY <3>1 DEF Posting
  <2>2. x.amount \in Int /\ y.amount \in Int
    BY <1>1 DEF EntriesFor, FiniteSubsetsOf, Entry
  <2>3. x.amount = y.amount
    BY <2>1, <2>2
  <2>4. QED
    BY <1>2, <1>3, <2>1, <2>3
<1>4. Paired(Worth, Opening, rest)
  BY <1>2, <1>3 DEF Paired
<1>5. QED
  BY <1>1, <1>4

LEMMA PendingIsCovered ==
    ASSUME LInv, ledger \in FiniteSubsetsOf(Entry), NEW e
    PROVE  Balance(ledger, e, {"pending"}) >= 0
<1> DEFINE T == EntriesFor(ledger, e, {"pending"})
           all == T \ {}
<1>1. all \in FiniteSubsetsOf(Entry) /\ Paired(Worth, Opening, all)
  BY PendingIsPaired
<1>2. all = T
  OBVIOUS
<1> HIDE DEF all, T
<1>3. SumOf(Worth, T) >= 0
  BY <1>1, <1>2, PairedIsCovered, WorthType
<1>4. QED
  BY <1>3 DEF Balance, T

\* The pending coins of an editor cover each acceptance that is not released.
LEMMA PendingCovers ==
    ASSUME LInv, ledger \in FiniteSubsetsOf(Entry), NEW a \in Acceptance,
           acceptances[a].status = "pending_release"
    PROVE  acceptances[a].coins <= Balance(ledger, acceptances[a].editor, {"pending"})
<1> DEFINE e == acceptances[a].editor
           n == acceptances[a].coins
           T == EntriesFor(ledger, e, {"pending"})
           open == Posting(a, "pending", "pending", e, n)
           rest == T \ {open}
<1>1. EntriesOf(a) = {open} /\ e \in Editor /\ n \in Coins /\ n \in Nat
  BY LedgerAssumption DEF LInv, LedgerMatchesRows, EntriesOfAcceptance, RowsSound
<1>2. open \in T /\ T \in FiniteSubsetsOf(Entry) /\ Worth[open] = n
  <2>1. open \in ledger /\ open \in Entry
    BY <1>1 DEF EntriesOf, LInv, TypeOK
  <2>2. QED
    BY <2>1, EntriesAreFinite DEF EntriesFor, Posting, Worth
<1>3. rest \in FiniteSubsetsOf(Entry) /\ Paired(Worth, Opening, rest)
  <2>1. \A o \in {open} : acceptances[o.of].status # "earned"
    BY DEF Posting
  <2>2. QED
    BY <2>1, PendingIsPaired
<1>4. SumOf(Worth, rest) >= 0 /\ SumOf(Worth, rest) \in Int
  BY <1>3, PairedIsCovered, SumType, WorthType
<1>5. SumOf(Worth, T) = n + SumOf(Worth, rest)
  BY <1>2, SumRemoves, WorthType
<1> HIDE DEF T, rest, n
<1>6. n <= SumOf(Worth, T)
  BY <1>1, <1>4, <1>5
<1>7. QED
  BY <1>6 DEF Balance, T, n

\* What an entry takes back.
Debt == [entry \in Entry |-> -entry.amount]

LEMMA DebtNegatesWorth ==
    /\ Debt \in [Entry -> Int]
    /\ \A x \in Entry : Debt[x] = -Worth[x]
  BY DEF Debt, Worth, Entry

\* The entry that reserved what another pays out or gives back.
Reservation == [x \in Entry |-> Posting(x.of, "reserve", "reserve", x.editor, -x.amount)]

\* The reserved coins of an editor cover each request that is not decided.
LEMMA ReservedCovers ==
    ASSUME LInv, ledger \in FiniteSubsetsOf(Entry), NEW r \in Request,
           requests[r].status = "requested"
    PROVE  requests[r].amount <=
           -Balance(ledger, requests[r].editor, {"reserve", "redeem", "release"})
<1> DEFINE e == requests[r].editor
           n == requests[r].amount
           moves == {"reserve", "redeem", "release"}
           T == EntriesFor(ledger, e, moves)
           open == Posting(r, "reserve", "reserve", e, -n)
           rest == T \ {open}
<1>1. EntriesOf(r) = {open} /\ e \in Editor /\ n \in Amounts /\ n \in Nat
  BY LedgerAssumption DEF LInv, LedgerMatchesRows, EntriesOfRequest, RowsSound
<1>2. open \in T /\ T \in FiniteSubsetsOf(Entry) /\ Debt[open] = n
  <2>1. open \in ledger /\ open \in Entry
    BY <1>1 DEF EntriesOf, LInv, TypeOK
  <2>2. -(-n) = n
    BY <1>1
  <2>3. open \in T /\ Debt[open] = -open.amount /\ open.amount = -n
    BY <2>1 DEF EntriesFor, Posting, Debt
  <2>4. QED
    BY <2>2, <2>3, EntriesAreFinite
<1>3. ASSUME NEW x \in rest, Debt[x] < 0
      PROVE  /\ Reservation[x] \in rest /\ Debt[Reservation[x]] = -Debt[x]
             /\ x = IF requests[x.of].status = "paid"
                    THEN Posting(x.of, "redeem", "redeem", x.editor, x.amount)
                    ELSE Posting(x.of, "release", "release", x.editor, x.amount)
             /\ Reservation[x] = Posting(x.of, "reserve", "reserve", x.editor, -x.amount)
  <2>1. /\ x \in ledger /\ x \in Entry /\ x.editor = e /\ x.kind \in moves
        /\ Debt[x] = -x.amount /\ x.amount \in Int
    BY <1>2 DEF EntriesFor, FiniteSubsetsOf, Debt, Entry
  <2>2. x.amount > 0
    BY <1>3, <2>1
  <2>3. x.of \in Request /\ x \in EntriesOfRequest(x.of)
    <3>1. ASSUME x.of \in Acceptance, x \in EntriesOfAcceptance(x.of) PROVE FALSE
      BY <2>1, <3>1 DEF EntriesOfAcceptance, Release, Posting
    <3>2. QED
      BY <2>1, <3>1, EntryHasRow
  <2> DEFINE row == requests[x.of]
  <2>4. row.amount \in Nat /\ row.status \in {"requested", "paid", "failed", "rejected"}
    BY <2>3, LedgerAssumption DEF EntriesOfRequest, LInv, TypeOK, RequestRow, RowsSound
  <2>5. /\ row.status # "requested"
        /\ x = IF row.status = "paid" THEN Posting(x.of, "redeem", "redeem", row.editor, row.amount)
               ELSE Posting(x.of, "release", "release", row.editor, row.amount)
    BY <2>2, <2>3, <2>4 DEF EntriesOfRequest, Posting
  <2>6. x.editor = row.editor /\ x.amount = row.amount
    BY <2>5 DEF Posting
  <2> HIDE DEF row
  <2>7. /\ Reservation[x] = Posting(x.of, "reserve", "reserve", row.editor, -row.amount)
        /\ Reservation[x] = Posting(x.of, "reserve", "reserve", x.editor, -x.amount)
    BY <2>1, <2>6 DEF Reservation
  <2>8. Reservation[x] \in EntriesOf(x.of)
    BY <2>3, <2>4, <2>5, <2>7 DEF EntriesOfRequest, LInv, LedgerMatchesRows, row
  <2>9. x.of # r
    BY <2>5 DEF row
  <2>10. Reservation[x] \in ledger /\ Reservation[x] \in Entry /\ Reservation[x] # open
    BY <2>7, <2>8, <2>9 DEF EntriesOf, Posting, LInv, TypeOK
  <2>11. Reservation[x] \in rest /\ Debt[Reservation[x]] = -(-x.amount)
    BY <2>1, <2>7, <2>10 DEF EntriesFor, Posting, Debt
  <2>12. QED
    BY <2>1, <2>5, <2>6, <2>7, <2>11 DEF row
<1>4. Paired(Debt, Reservation, rest)
  <2>1. ASSUME NEW x \in rest, NEW y \in rest, Debt[x] < 0, Debt[y] < 0, Reservation[x] = Reservation[y]
        PROVE  x = y
    <3>1. x.of = y.of /\ x.editor = y.editor /\ -x.amount = -y.amount
      <4>1. Posting(x.of, "reserve", "reserve", x.editor, -x.amount)
            = Posting(y.of, "reserve", "reserve", y.editor, -y.amount)
        BY <1>3, <2>1
      <4>2. QED
        BY <4>1 DEF Posting
    <3>2. x.amount \in Int /\ y.amount \in Int
      BY <1>2 DEF EntriesFor, FiniteSubsetsOf, Entry
    <3>3. x.amount = y.amount
      BY <3>1, <3>2
    <3>4. QED
      BY <1>3, <2>1, <3>1, <3>3
  <2>2. QED
    BY <1>3, <2>1 DEF Paired
<1>5. rest \in FiniteSubsetsOf(Entry)
  BY <1>2, SubsetIsFinite
<1>6. SumOf(Debt, rest) >= 0 /\ SumOf(Debt, rest) \in Int
  BY <1>4, <1>5, PairedIsCovered, SumType, DebtNegatesWorth
<1>7. SumOf(Debt, T) = n + SumOf(Debt, rest)
  BY <1>2, SumRemoves, DebtNegatesWorth
<1>8. SumOf(Debt, T) + SumOf(Worth, T) = 0 /\ SumOf(Worth, T) \in Int
  BY <1>2, SumNegates, SumType, DebtNegatesWorth, WorthType
<1> HIDE DEF T, rest, n
<1>9. n <= -SumOf(Worth, T)
  BY <1>1, <1>6, <1>7, <1>8
<1>10. QED
  BY <1>9 DEF Balance, T, n

-----------------------------------------------------------------------------
(* What each operation does to the balances *)

\* A ledger is a finite set of entries, and nobody can redeem what is not there.
BInv ==
    /\ LInv
    /\ ledger \in FiniteSubsetsOf(Entry)
    /\ \A a \in Acceptance : acceptances[a].status = "pending_policy" => acceptances[a].coins = 0
    /\ \A e \in Editor : Balance(ledger, e, {"credit", "reserve", "release"}) >= 0

\* The entry x has been added to the ledger.
Posts(x) ==
    \A e, kinds : Balance(ledger', e, kinds) =
        Balance(ledger, e, kinds) + (IF x.editor = e /\ x.kind \in kinds THEN x.amount ELSE 0)

LEMMA CreditPosts ==
    ASSUME BInv, NEW a \in Acceptance, NEW e \in Editor, NEW coins \in Coins,
           CreditAcceptance(a, e, coins)
    PROVE  /\ ledger' \in FiniteSubsetsOf(Entry)
           /\ Posts(Posting(a, "pending", "pending", e, coins))
<1> DEFINE x == Posting(a, "pending", "pending", e, coins)
<1>1. ledger' = ledger \cup {x} /\ EntriesOf(a) = {}
  BY LedgerAssumption DEF CreditAcceptance, BInv, LInv, LedgerMatchesRows, EntriesOfAcceptance
<1>2. x \in Entry
  BY NeverNothing, PostingIsEntry
<1>3. x \notin ledger
  BY <1>1 DEF EntriesOf, Posting
<1> HIDE DEF x
<1>4. ledger' \in FiniteSubsetsOf(Entry)
  BY <1>1, <1>2, FS_AddElement DEF BInv, FiniteSubsetsOf
<1>5. Posts(x)
  BY <1>1, <1>2, <1>3, BalancePosts DEF BInv, Posts
<1>6. QED
  BY <1>4, <1>5 DEF x

LEMMA ReleasePosts ==
    ASSUME BInv, NEW a \in Acceptance, ReleaseEarning(a)
    PROVE  /\ acceptances[a].status = "pending_release"
           /\ acceptances[a].editor \in Editor /\ acceptances[a].coins \in Coins
           /\ ledger' \in FiniteSubsetsOf(Entry)
           /\ \A e, kinds : Balance(ledger', e, kinds) = Balance(ledger, e, kinds)
                 + (IF acceptances[a].editor = e /\ "pending" \in kinds
                    THEN -acceptances[a].coins ELSE 0)
                 + (IF acceptances[a].editor = e /\ "credit" \in kinds
                    THEN acceptances[a].coins ELSE 0)
<1> DEFINE e == acceptances[a].editor
           n == acceptances[a].coins
           x == Posting(a, "pending_closed", "pending", e, -n)
           y == Posting(a, "credit", "credit", e, n)
<1>1. /\ acceptances[a].status = "pending_release" /\ e \in Editor /\ n \in Coins
      /\ EntriesOf(a) = {Posting(a, "pending", "pending", e, n)}
  BY DEF ReleaseEarning, BInv, LInv, RowsSound, LedgerMatchesRows, EntriesOfAcceptance
<1>2. ledger' = ledger \cup {x, y}
  <2>1. PICK entry \in ledger : /\ entry.of = a /\ entry.word = "pending"
                                /\ ledger' = ledger \cup Release(a, entry.editor, entry.amount)
    BY DEF ReleaseEarning
  <2>2. entry = Posting(a, "pending", "pending", e, n)
    BY <1>1, <2>1 DEF EntriesOf
  <2>3. QED
    BY <2>1, <2>2 DEF Release, Posting
<1>3. n \in Int \ {0} /\ -n \in Int \ {0}
  BY <1>1, NeverNothing
<1>4. x \in Entry /\ y \in Entry
  BY <1>1, <1>3, PostingIsEntry
<1>5. x \notin ledger /\ y \notin ledger /\ x # y
  BY <1>1 DEF EntriesOf, Posting
<1>6. x.editor = e /\ x.kind = "pending" /\ x.amount = -n /\ y.editor = e /\ y.kind = "credit" /\ y.amount = n
  BY DEF Posting
<1> HIDE DEF x, y, e, n
<1> DEFINE half == ledger \cup {x}
<1>7. half \in FiniteSubsetsOf(Entry) /\ y \notin half /\ ledger' = half \cup {y}
  BY <1>2, <1>4, <1>5, FS_AddElement DEF BInv, FiniteSubsetsOf
<1>8. ledger' \in FiniteSubsetsOf(Entry)
  BY <1>4, <1>7, FS_AddElement DEF FiniteSubsetsOf
<1>9. ASSUME NEW d, NEW kinds
      PROVE  Balance(ledger', d, kinds) = Balance(ledger, d, kinds)
                 + (IF e = d /\ "pending" \in kinds THEN -n ELSE 0)
                 + (IF e = d /\ "credit" \in kinds THEN n ELSE 0)
  <2>1. Balance(half, d, kinds) = Balance(ledger, d, kinds)
                                  + (IF e = d /\ "pending" \in kinds THEN -n ELSE 0)
    BY <1>4, <1>5, <1>6, BalancePosts DEF BInv
  <2> HIDE DEF half
  <2>2. Balance(ledger', d, kinds) = Balance(half, d, kinds)
                                           + (IF e = d /\ "credit" \in kinds THEN n ELSE 0)
    BY <1>4, <1>6, <1>7, BalancePosts
  <2>3. QED
    BY <2>1, <2>2
<1>10. QED
  BY <1>1, <1>8, <1>9 DEF e, n

LEMMA RequestPosts ==
    ASSUME BInv, NEW e \in Editor, NEW amount \in Amounts, NEW r \in Request,
           RequestRedemption(e, amount, r)
    PROVE  /\ amount <= Balance(ledger, e, {"credit", "reserve", "release"})
           /\ ledger' \in FiniteSubsetsOf(Entry)
           /\ Posts(Posting(r, "reserve", "reserve", e, -amount))
<1> DEFINE x == Posting(r, "reserve", "reserve", e, -amount)
<1>1. ledger' = ledger \cup {x} /\ EntriesOf(r) = {}
  BY DEF RequestRedemption, BInv, LInv, LedgerMatchesRows, EntriesOfRequest
<1>2. x \in Entry
  BY NeverNothing, PostingIsEntry
<1>3. x \notin ledger
  BY <1>1 DEF EntriesOf, Posting
<1> HIDE DEF x
<1>4. ledger' \in FiniteSubsetsOf(Entry)
  BY <1>1, <1>2, FS_AddElement DEF BInv, FiniteSubsetsOf
<1>5. Posts(x)
  BY <1>1, <1>2, <1>3, BalancePosts DEF BInv, Posts
<1>6. amount <= Balance(ledger, e, {"credit", "reserve", "release"})
  <2>1. Redeemable(e) = Balance(ledger, e, {"credit", "reserve", "release"})
    BY TotalIsBalance DEF BInv, Redeemable
  <2>2. Redeemable(e) >= amount
    BY DEF RequestRedemption
  <2>3. amount \in Int /\ Balance(ledger, e, {"credit", "reserve", "release"}) \in Int
    BY BalanceType, NeverNothing DEF BInv
  <2>4. QED
    BY <2>1, <2>2, <2>3
<1>7. QED
  BY <1>4, <1>5, <1>6 DEF x

LEMMA DecidePosts ==
    ASSUME BInv, NEW r \in Request, NEW outcome \in {"paid", "failed", "rejected"},
           DecideRedemption(r, outcome)
    PROVE  /\ requests[r].status = "requested"
           /\ requests[r].editor \in Editor /\ requests[r].amount \in Amounts
           /\ ledger' \in FiniteSubsetsOf(Entry)
           /\ IF outcome = "paid"
              THEN Posts(Posting(r, "redeem", "redeem", requests[r].editor, requests[r].amount))
              ELSE Posts(Posting(r, "release", "release", requests[r].editor, requests[r].amount))
<1> DEFINE e == requests[r].editor
           n == requests[r].amount
           x == IF outcome = "paid" THEN Posting(r, "redeem", "redeem", e, n)
                ELSE Posting(r, "release", "release", e, n)
<1>1. /\ requests[r].status = "requested" /\ e \in Editor /\ n \in Amounts
      /\ EntriesOf(r) = {Posting(r, "reserve", "reserve", e, -n)}
  BY DEF DecideRedemption, Decidable, BInv, LInv, RowsSound, LedgerMatchesRows, EntriesOfRequest
<1>2. ledger' = ledger \cup {x}
  BY DEF DecideRedemption, Kept, Outcome
<1>3. x \in Entry
  BY <1>1, NeverNothing, PostingIsEntry
<1>4. x \notin ledger
  BY <1>1 DEF EntriesOf, Posting
<1> HIDE DEF x
<1>5. ledger' \in FiniteSubsetsOf(Entry)
  BY <1>2, <1>3, FS_AddElement DEF BInv, FiniteSubsetsOf
<1>6. Posts(x)
  BY <1>2, <1>3, <1>4, BalancePosts DEF BInv, Posts
<1>7. QED
  BY <1>1, <1>5, <1>6 DEF x

\* A step that leaves the ledger and the rows behind it leaves all balances.
LEMMA SettingsPostNothing ==
    ASSUME BInv, UNCHANGED <<rows, ledger>>, LInv'
    PROVE  BInv'
  BY DEF BInv, rows

LEMMA RedeemableKept ==
    ASSUME BInv, NEW e \in Editor
    PROVE  /\ Balance(ledger, e, {"credit", "reserve", "release"}) \in Int
           /\ Balance(ledger, e, {"credit", "reserve", "release"}) >= 0
  BY BalanceType DEF BInv

LEMMA InitBalances == Init => BInv
<1> SUFFICES ASSUME Init PROVE BInv
  OBVIOUS
<1>1. LInv
  BY InitInvariant
<1>2. ledger = {}
  BY DEF Init
<1>3. ledger \in FiniteSubsetsOf(Entry)
  BY <1>2, FS_EmptySet DEF FiniteSubsetsOf
<1>4. \A a \in Acceptance : acceptances[a].status = "pending_policy" => acceptances[a].coins = 0
  BY DEF Init
<1>5. \A e \in Editor : Balance(ledger, e, {"credit", "reserve", "release"}) >= 0
  BY <1>2, EmptyBalance
<1>6. QED
  BY <1>1, <1>3, <1>4, <1>5 DEF BInv

LEMMA NextBalances == BInv /\ [Next]_vars => BInv'
<1> SUFFICES ASSUME BInv, [Next]_vars PROVE BInv'
  OBVIOUS
<1> DEFINE spendable == {"credit", "reserve", "release"}
<1>1. LInv'
  BY NextInvariant DEF BInv
<1>2. CASE Configure \/ UNCHANGED vars
  BY <1>1, <1>2, SettingsPostNothing
     DEF Configure, SavePolicy, SwitchMode, DeactivateEditor, LosePayment, vars, rows
<1>3. ASSUME NEW a \in Acceptance, NEW e \in Editor, NEW coins \in Coins \cup {0},
             CreditAcceptance(a, e, coins)
      PROVE  BInv'
  <2>1. \A b \in Acceptance : acceptances'[b].status = "pending_policy" => acceptances'[b].coins = 0
    BY <1>3 DEF CreditAcceptance, BInv, LInv, TypeOK
  <2>2. CASE coins = 0
    BY <1>1, <1>3, <2>1, <2>2 DEF CreditAcceptance, BInv
  <2>3. CASE coins \in Coins
    <3>1. ledger' \in FiniteSubsetsOf(Entry) /\ Posts(Posting(a, "pending", "pending", e, coins))
      BY <1>3, <2>3, CreditPosts
    <3>2. \A d \in Editor : Balance(ledger', d, spendable) >= 0
      BY <3>1, RedeemableKept DEF Posts, Posting
    <3>3. QED
      BY <1>1, <2>1, <3>1, <3>2 DEF BInv
  <2>4. QED
    BY <2>2, <2>3
<1>4. ASSUME NEW a \in Acceptance, ReleaseEarning(a) PROVE BInv'
  <2>1. \A b \in Acceptance : acceptances'[b].status = "pending_policy" => acceptances'[b].coins = 0
    BY <1>4 DEF ReleaseEarning, BInv, LInv, TypeOK, AcceptanceRow
  <2>2. /\ acceptances[a].coins \in Coins /\ ledger' \in FiniteSubsetsOf(Entry)
        /\ \A d : Balance(ledger', d, spendable) = Balance(ledger, d, spendable)
              + 0 + (IF acceptances[a].editor = d THEN acceptances[a].coins ELSE 0)
    BY <1>4, ReleasePosts
  <2>3. acceptances[a].coins \in Nat
    BY <2>2, LedgerAssumption
  <2>4. \A d \in Editor : Balance(ledger', d, spendable) >= 0
    BY <2>2, <2>3, RedeemableKept
  <2>5. QED
    BY <1>1, <2>1, <2>2, <2>4 DEF BInv
<1>5. ASSUME NEW e \in Editor, NEW amount \in Amounts, NEW r \in Request,
             RequestRedemption(e, amount, r)
      PROVE  BInv'
  <2>1. /\ amount <= Balance(ledger, e, spendable) /\ ledger' \in FiniteSubsetsOf(Entry)
        /\ Posts(Posting(r, "reserve", "reserve", e, -amount))
    BY <1>5, RequestPosts
  <2>2. amount \in Nat
    BY LedgerAssumption
  <2>3. \A d : Balance(ledger', d, spendable) =
               Balance(ledger, d, spendable) + (IF e = d THEN -amount ELSE 0)
    BY <2>1 DEF Posts, Posting
  <2>4. \A d \in Editor : Balance(ledger', d, spendable) >= 0
    BY <2>1, <2>2, <2>3, RedeemableKept
  <2>5. QED
    BY <1>1, <1>5, <2>1, <2>4 DEF BInv, RequestRedemption
<1>6. ASSUME NEW r \in Request, NEW outcome \in {"paid", "failed", "rejected"},
             DecideRedemption(r, outcome)
      PROVE  BInv'
  <2> DEFINE e == requests[r].editor
             n == requests[r].amount
  <2>1. /\ ledger' \in FiniteSubsetsOf(Entry) /\ n \in Amounts
        /\ IF outcome = "paid" THEN Posts(Posting(r, "redeem", "redeem", e, n))
           ELSE Posts(Posting(r, "release", "release", e, n))
    BY <1>6, DecidePosts
  <2>2. n \in Nat
    BY <2>1, LedgerAssumption
  <2>3. \A d \in Editor : Balance(ledger', d, spendable) >= 0
    <3> HIDE DEF e, n
    <3> QED
      BY <2>1, <2>2, RedeemableKept DEF Posts, Posting
  <2>4. QED
    BY <1>1, <1>6, <2>1, <2>3 DEF BInv, DecideRedemption
<1>7. QED
  BY <1>2, <1>3, <1>4, <1>5, <1>6 DEF Next, Account

-----------------------------------------------------------------------------
(* The audit *)

LEMMA RuleHolds == BInv => RuleFindings = {}
  BY LedgerAssumption DEF BInv, LInv, RowsSound, RuleFindings

LEMMA ShapeHolds == BInv => ShapeFindings = {}
<1> SUFFICES ASSUME BInv, NEW x \in ledger
             PROVE  /\ x.amount # 0
                    /\ x.of \in Request => x.kind \in {"reserve", "redeem", "release"}
                    /\ x.of \in Acceptance => x.kind \in {"pending", "credit"}
                    /\ x.kind = "reserve" => ~(x.amount >= 0)
                    /\ x.kind \in {"credit", "redeem", "release"} => ~(x.amount <= 0)
  BY DEF ShapeFindings
<1>1. x.amount \in Int \ {0}
  BY DEF BInv, LInv, TypeOK, Entry
<1>2. CASE x.of \in Acceptance /\ x \in EntriesOfAcceptance(x.of)
  <2>1. acceptances[x.of].coins \in Nat \ {0} /\ x.of \notin Request
    BY <1>2, LedgerAssumption DEF EntriesOfAcceptance, BInv, LInv, RowsSound
  <2>2. QED
    BY <1>1, <1>2, <2>1 DEF EntriesOfAcceptance, Release, Posting
<1>3. CASE x.of \in Request /\ x \in EntriesOfRequest(x.of)
  <2>1. requests[x.of].amount \in Nat \ {0} /\ x.of \notin Acceptance
    BY <1>3, LedgerAssumption DEF EntriesOfRequest, BInv, LInv, RowsSound
  <2>2. QED
    BY <1>1, <1>3, <2>1 DEF EntriesOfRequest, Posting
<1>4. QED
  BY <1>2, <1>3, EntryHasRow DEF BInv

LEMMA CountTwo == ASSUME NEW x, NEW y, x # y PROVE Cardinality({x, y}) = 2
<1>1. IsFiniteSet({x}) /\ Cardinality({x}) = 1
  BY FS_Singleton
<1>2. Cardinality({x} \cup {y}) = 2
  BY <1>1, FS_AddElement
<1>3. {x} \cup {y} = {x, y}
  OBVIOUS
<1>4. QED
  BY <1>2, <1>3

LEMMA CountThree ==
    ASSUME NEW x, NEW y, NEW z, x # y, x # z, y # z
    PROVE  Cardinality({x, y, z}) = 3
<1>1. IsFiniteSet({x, y}) /\ Cardinality({x, y}) = 2
  <2>1. IsFiniteSet({x} \cup {y})
    BY FS_Singleton, FS_AddElement
  <2>2. {x} \cup {y} = {x, y}
    OBVIOUS
  <2>3. QED
    BY <2>1, <2>2, CountTwo
<1>2. Cardinality({x, y} \cup {z}) = 3
  BY <1>1, FS_AddElement
<1>3. {x, y} \cup {z} = {x, y, z}
  OBVIOUS
<1>4. QED
  BY <1>2, <1>3

LEMMA AcceptanceEntriesMatch == ASSUME BInv, NEW a \in Acceptance PROVE ~AcceptanceMismatch(a)
<1> DEFINE row == acceptances[a]
           p == Posting(a, "pending", "pending", row.editor, row.coins)
           c == Posting(a, "pending_closed", "pending", row.editor, -row.coins)
           d == Posting(a, "credit", "credit", row.editor, row.coins)
<1>1. EntriesOf(a) = EntriesOfAcceptance(a) /\ row.status \in {"none", "pending_policy", "pending_release", "earned"}
  BY DEF BInv, LInv, LedgerMatchesRows, TypeOK, AcceptanceRow
<1>2. \A word : Found(a, word) = {x \in EntriesOf(a) : x.word = word}
  BY DEF Found, EntriesOf
<1>3. p.word = "pending" /\ c.word = "pending_closed" /\ d.word = "credit"
  BY DEF Posting
<1>4. p # c /\ p # d /\ c # d
  BY <1>3
<1>5. CASE row.status \in {"none", "pending_policy"}
  BY <1>1, <1>5 DEF AcceptanceMismatch, EntriesOfAcceptance
<1>6. CASE row.status = "pending_release"
  <2>1. EntriesOf(a) = {p}
    BY <1>1, <1>6 DEF EntriesOfAcceptance
  <2>2. Found(a, "pending") = {p} /\ Cardinality(EntriesOf(a)) = 1
    <3> HIDE DEF p
    <3>1. Cardinality({p}) = 1
      BY FS_Singleton
    <3>2. QED
      BY <1>2, <1>3, <2>1, <3>1
  <2>3. Matches(a, "pending", "pending", row.editor, row.coins)
    BY <2>2 DEF Matches
  <2>4. QED
    BY <1>6, <2>2, <2>3 DEF AcceptanceMismatch
<1>7. CASE row.status = "earned"
  <2>1. EntriesOf(a) = {p, c, d}
    BY <1>1, <1>7 DEF EntriesOfAcceptance, Release
  <2> HIDE DEF p, c, d
  <2>2. /\ Found(a, "pending") = {p} /\ Found(a, "pending_closed") = {c}
        /\ Found(a, "credit") = {d}
    BY <1>2, <1>3, <2>1
  <2>3. Cardinality(EntriesOf(a)) = 3
    <3>1. Cardinality({p, c, d}) = 3
      BY <1>4, CountThree
    <3>2. QED
      BY <2>1, <3>1
  <2>4. /\ Matches(a, "pending", "pending", row.editor, row.coins)
        /\ Matches(a, "pending_closed", "pending", row.editor, -row.coins)
        /\ Matches(a, "credit", "credit", row.editor, row.coins)
    BY <2>2 DEF Matches, p, c, d
  <2>5. QED
    BY <1>7, <2>3, <2>4 DEF AcceptanceMismatch
<1>8. QED
  BY <1>1, <1>5, <1>6, <1>7

LEMMA RequestEntriesMatch == ASSUME BInv, NEW r \in Request PROVE ~RedemptionMismatch(r)
<1> DEFINE row == requests[r]
           kind == IF row.status = "paid" THEN "redeem" ELSE "release"
           p == Posting(r, "reserve", "reserve", row.editor, -row.amount)
           d == Posting(r, kind, kind, row.editor, row.amount)
<1>1. EntriesOf(r) = EntriesOfRequest(r) /\ row.status \in {"none", "requested", "paid", "failed", "rejected"}
  BY DEF BInv, LInv, LedgerMatchesRows, TypeOK, RequestRow
<1>2. \A word : Found(r, word) = {x \in EntriesOf(r) : x.word = word}
  BY DEF Found, EntriesOf
<1>3. p.word = "reserve" /\ d.word = kind /\ kind # "reserve"
  BY DEF Posting
<1>4. CASE row.status = "none"
  BY <1>1, <1>4 DEF RedemptionMismatch, EntriesOfRequest
<1>5. CASE row.status = "requested"
  <2>1. EntriesOf(r) = {p}
    BY <1>1, <1>5 DEF EntriesOfRequest
  <2>2. Found(r, "reserve") = {p} /\ Cardinality(EntriesOf(r)) = 1
    <3> HIDE DEF p
    <3>1. Cardinality({p}) = 1
      BY FS_Singleton
    <3>2. QED
      BY <1>2, <1>3, <2>1, <3>1
  <2>3. Matches(r, "reserve", "reserve", row.editor, -row.amount)
    BY <2>2 DEF Matches
  <2>4. QED
    BY <1>5, <2>2, <2>3 DEF RedemptionMismatch
<1>6. CASE row.status \in {"paid", "failed", "rejected"}
  <2>1. EntriesOf(r) = {p, d}
    BY <1>1, <1>6 DEF EntriesOfRequest
  <2> HIDE DEF p, d, kind
  <2>2. Found(r, "reserve") = {p} /\ Found(r, kind) = {d}
    BY <1>2, <1>3, <2>1
  <2>3. p # d
    BY <1>3
  <2>4. Cardinality(EntriesOf(r)) = 2
    BY <2>1, <2>3, CountTwo
  <2>5. QED
    BY <1>6, <2>2, <2>4 DEF RedemptionMismatch, Matches, p, d, kind
<1>7. QED
  BY <1>1, <1>4, <1>5, <1>6

LEMMA WalletsHold == BInv => NegativeWallets = {}
<1> SUFFICES ASSUME BInv, NEW e \in Editor
             PROVE  ~(Total(e, {"pending"}) < 0 \/ Total(e, {"credit", "reserve", "release"}) < 0)
  BY DEF NegativeWallets
<1>1. /\ Total(e, {"pending"}) = Balance(ledger, e, {"pending"})
      /\ Total(e, {"credit", "reserve", "release"}) = Balance(ledger, e, {"credit", "reserve", "release"})
  BY TotalIsBalance DEF BInv
<1>2. Balance(ledger, e, {"pending"}) >= 0 /\ Balance(ledger, e, {"pending"}) \in Int
  BY PendingIsCovered, BalanceType DEF BInv
<1>3. QED
  BY <1>1, <1>2, RedeemableKept

\* In every reachable state the ledger is finite, matches its rows, and leaves
\* no editor overdrawn: what a balance sums to covers what may be taken from it.
THEOREM LedgerBalances == Spec => []BInv
  BY InitBalances, NextBalances, PTL DEF Spec

\* No editor ever has less than nothing pending or redeemable, whatever is
\* requested, decided, disabled or deactivated in between (request_redemption and
\* release_earning of operations/earnings.py).
THEOREM LedgerNothingOverdrawn == Spec => []NothingOverdrawn
<1>1. BInv => NothingOverdrawn
  <2> SUFFICES ASSUME BInv, NEW e \in Editor
               PROVE  Total(e, {"pending"}) >= 0 /\ Total(e, {"credit", "reserve", "release"}) >= 0
    BY DEF NothingOverdrawn
  <2>1. /\ Total(e, {"pending"}) = Balance(ledger, e, {"pending"})
        /\ Total(e, {"credit", "reserve", "release"})
           = Balance(ledger, e, {"credit", "reserve", "release"})
    BY TotalIsBalance DEF BInv
  <2>2. Balance(ledger, e, {"pending"}) >= 0
    BY PendingIsCovered DEF BInv
  <2>3. QED
    BY <2>1, <2>2 DEF BInv
<1>2. QED
  BY <1>1, LedgerBalances, PTL

\* The audit of earnings_reconciliation.py finds nothing, in any reachable
\* state: no entry is malformed, every acceptance and request has its entries,
\* with the amounts of its row, and no wallet is negative.
THEOREM LedgerReconciles == Spec => []EarningsReconcile
<1>1. BInv => EarningsReconcile
  BY RuleHolds, ShapeHolds, AcceptanceEntriesMatch, RequestEntriesMatch, WalletsHold
     DEF EarningsReconcile
<1>2. QED
  BY <1>1, LedgerBalances, PTL

-----------------------------------------------------------------------------
(* The refinement of Purse *)

PendingOf(L)    == [e \in Editor |-> Balance(L, e, {"pending"})]
RedeemableOf(L) == [e \in Editor |-> Balance(L, e, {"credit", "reserve", "release"})]
ReservedOf(L)   == [e \in Editor |-> -Balance(L, e, {"reserve"}) - Balance(L, e, {"redeem", "release"})]
RedeemedOf(L)   == [e \in Editor |-> Balance(L, e, {"redeem"})]

\* The four balances that Purse is about, now and after the step.
LEMMA PurseNow ==
    ASSUME BInv
    PROVE  /\ [e \in Editor |-> Total(e, {"pending"})] = PendingOf(ledger)
           /\ [e \in Editor |-> Redeemable(e)] = RedeemableOf(ledger)
           /\ [e \in Editor |-> Reserved(e)] = ReservedOf(ledger)
           /\ [e \in Editor |-> Total(e, {"redeem"})] = RedeemedOf(ledger)
<1>1. \A e, kinds : Total(e, kinds) = Balance(ledger, e, kinds)
  BY TotalIsBalance DEF BInv
<1>2. QED
  BY <1>1 DEF PendingOf, RedeemableOf, ReservedOf, RedeemedOf, Redeemable, Reserved

LEMMA PurseNext ==
    ASSUME BInv'
    PROVE  /\ [e \in Editor |-> Total(e, {"pending"})]' = PendingOf(ledger')
           /\ [e \in Editor |-> Redeemable(e)]' = RedeemableOf(ledger')
           /\ [e \in Editor |-> Reserved(e)]' = ReservedOf(ledger')
           /\ [e \in Editor |-> Total(e, {"redeem"})]' = RedeemedOf(ledger')
<1>1. \A e, kinds : Total(e, kinds)' = Balance(ledger', e, kinds)
  BY TotalIsBalanceNext DEF BInv
<1>2. QED
  BY <1>1 DEF PendingOf, RedeemableOf, ReservedOf, RedeemedOf, Redeemable, Reserved

\* Balances are integers, so a step that posts to them adds and subtracts.
LEMMA PurseTypes ==
    ASSUME BInv
    PROVE  /\ PendingOf(ledger) \in [Editor -> Int] /\ RedeemableOf(ledger) \in [Editor -> Int]
           /\ ReservedOf(ledger) \in [Editor -> Int] /\ RedeemedOf(ledger) \in [Editor -> Int]
<1>1. \A e, kinds : Balance(ledger, e, kinds) \in Int
  BY BalanceType DEF BInv
<1>2. QED
  BY <1>1 DEF PendingOf, RedeemableOf, ReservedOf, RedeemedOf

\* The step moves coins between the balances of e only.
Moves(e, pending, redeemable, reserve, outcome, redeemed) ==
    \A d \in Editor :
        /\ Balance(ledger', d, {"pending"})
           = Balance(ledger, d, {"pending"}) + (IF e = d THEN pending ELSE 0)
        /\ Balance(ledger', d, {"credit", "reserve", "release"})
           = Balance(ledger, d, {"credit", "reserve", "release"}) + (IF e = d THEN redeemable ELSE 0)
        /\ Balance(ledger', d, {"reserve"})
           = Balance(ledger, d, {"reserve"}) + (IF e = d THEN reserve ELSE 0)
        /\ Balance(ledger', d, {"redeem", "release"})
           = Balance(ledger, d, {"redeem", "release"}) + (IF e = d THEN outcome ELSE 0)
        /\ Balance(ledger', d, {"redeem"})
           = Balance(ledger, d, {"redeem"}) + (IF e = d THEN redeemed ELSE 0)

\* A balance per editor that changes for one editor only.
Changed(f, g, e, x) ==
    /\ g = [f EXCEPT ![e] = @ + x]
    /\ \A y \in Int : x + y = 0 => g = [f EXCEPT ![e] = @ - y]
    /\ x = 0 => g = f

LEMMA ChangeOne ==
    ASSUME NEW f \in [Editor -> Int], NEW g \in [Editor -> Int], NEW e \in Editor, NEW x \in Int,
           \A d \in Editor : g[d] = f[d] + (IF e = d THEN x ELSE 0)
    PROVE  Changed(f, g, e, x)
<1>1. g = [f EXCEPT ![e] = @ + x]
  OBVIOUS
<1>2. ASSUME NEW y \in Int, x + y = 0 PROVE g = [f EXCEPT ![e] = @ - y]
  <2>1. \A d \in Editor : g[d] = f[d] - (IF e = d THEN y ELSE 0)
    BY <1>2
  <2>2. QED
    BY <2>1
<1>3. x = 0 => g = f
  <2>1. x = 0 => \A d \in Editor : g[d] = f[d]
    OBVIOUS
  <2>2. QED
    BY <2>1
<1>4. QED
  BY <1>1, <1>2, <1>3 DEF Changed

LEMMA MovesInPurse ==
    ASSUME BInv, NEW e \in Editor, NEW pending \in Int, NEW redeemable \in Int, NEW reserve \in Int,
           NEW outcome \in Int, NEW redeemed \in Int,
           Moves(e, pending, redeemable, reserve, outcome, redeemed)
    PROVE  /\ Changed(PendingOf(ledger), PendingOf(ledger'), e, pending)
           /\ Changed(RedeemableOf(ledger), RedeemableOf(ledger'), e, redeemable)
           /\ Changed(RedeemedOf(ledger), RedeemedOf(ledger'), e, redeemed)
           /\ \A x \in Int : x + reserve + outcome = 0 =>
                 Changed(ReservedOf(ledger), ReservedOf(ledger'), e, x)
<1>1. \A d, kinds : Balance(ledger, d, kinds) \in Int
  BY BalanceType DEF BInv
<1>2. Changed(PendingOf(ledger), PendingOf(ledger'), e, pending)
  <2> DEFINE f == PendingOf(ledger)
             g == PendingOf(ledger')
  <2>1. f \in [Editor -> Int] /\ g \in [Editor -> Int]
    BY <1>1 DEF Moves, PendingOf
  <2>2. \A d \in Editor : g[d] = f[d] + (IF e = d THEN pending ELSE 0)
    BY DEF Moves, PendingOf
  <2> HIDE DEF f, g
  <2>3. Changed(f, g, e, pending)
    BY <2>1, <2>2, ChangeOne
  <2>4. QED
    BY <2>3 DEF f, g
<1>3. Changed(RedeemableOf(ledger), RedeemableOf(ledger'), e, redeemable)
  <2> DEFINE f == RedeemableOf(ledger)
             g == RedeemableOf(ledger')
  <2>1. f \in [Editor -> Int] /\ g \in [Editor -> Int]
    BY <1>1 DEF Moves, RedeemableOf
  <2>2. \A d \in Editor : g[d] = f[d] + (IF e = d THEN redeemable ELSE 0)
    BY DEF Moves, RedeemableOf
  <2> HIDE DEF f, g
  <2>3. Changed(f, g, e, redeemable)
    BY <2>1, <2>2, ChangeOne
  <2>4. QED
    BY <2>3 DEF f, g
<1>4. Changed(RedeemedOf(ledger), RedeemedOf(ledger'), e, redeemed)
  <2> DEFINE f == RedeemedOf(ledger)
             g == RedeemedOf(ledger')
  <2>1. f \in [Editor -> Int] /\ g \in [Editor -> Int]
    BY <1>1 DEF Moves, RedeemedOf
  <2>2. \A d \in Editor : g[d] = f[d] + (IF e = d THEN redeemed ELSE 0)
    BY DEF Moves, RedeemedOf
  <2> HIDE DEF f, g
  <2>3. Changed(f, g, e, redeemed)
    BY <2>1, <2>2, ChangeOne
  <2>4. QED
    BY <2>3 DEF f, g
<1>5. ASSUME NEW x \in Int, x + reserve + outcome = 0
      PROVE  Changed(ReservedOf(ledger), ReservedOf(ledger'), e, x)
  <2> DEFINE f == ReservedOf(ledger)
             g == ReservedOf(ledger')
  <2>1. f \in [Editor -> Int] /\ g \in [Editor -> Int]
    BY <1>1 DEF Moves, ReservedOf
  <2>2. \A d \in Editor : g[d] = f[d] + (IF e = d THEN x ELSE 0)
    BY <1>1, <1>5 DEF Moves, ReservedOf
  <2> HIDE DEF f, g
  <2>3. Changed(f, g, e, x)
    BY <2>1, <2>2, ChangeOne
  <2>4. QED
    BY <2>3 DEF f, g
<1>6. QED
  BY <1>2, <1>3, <1>4, <1>5

LEMMA CreditEarns ==
    ASSUME BInv, NEW a \in Acceptance, NEW e \in Editor, NEW coins \in Coins,
           CreditAcceptance(a, e, coins)
    PROVE  /\ PendingOf(ledger') = [PendingOf(ledger) EXCEPT ![e] = @ + coins]
           /\ RedeemableOf(ledger') = RedeemableOf(ledger)
           /\ ReservedOf(ledger') = ReservedOf(ledger)
           /\ RedeemedOf(ledger') = RedeemedOf(ledger)
<1>1. \A d, kinds : Balance(ledger', d, kinds) = Balance(ledger, d, kinds)
                       + (IF e = d /\ "pending" \in kinds THEN coins ELSE 0)
  BY CreditPosts DEF Posts, Posting
<1>2. \A d, kinds : Balance(ledger, d, kinds) \in Int
  BY BalanceType DEF BInv
<1>3. Moves(e, coins, 0, 0, 0, 0)
  BY <1>1, <1>2 DEF Moves
<1>4. coins \in Int
  BY NeverNothing
<1>5. QED
  BY <1>3, <1>4, MovesInPurse DEF Changed

LEMMA ReleaseReleases ==
    ASSUME BInv, NEW a \in Acceptance, ReleaseEarning(a)
    PROVE  \E e \in Editor, coins \in Coins :
           /\ coins <= PendingOf(ledger)[e]
           /\ PendingOf(ledger') = [PendingOf(ledger) EXCEPT ![e] = @ - coins]
           /\ RedeemableOf(ledger') = [RedeemableOf(ledger) EXCEPT ![e] = @ + coins]
           /\ ReservedOf(ledger') = ReservedOf(ledger)
           /\ RedeemedOf(ledger') = RedeemedOf(ledger)
<1> DEFINE e == acceptances[a].editor
           coins == acceptances[a].coins
<1>1. /\ e \in Editor /\ coins \in Coins /\ acceptances[a].status = "pending_release"
      /\ \A d, kinds : Balance(ledger', d, kinds) = Balance(ledger, d, kinds)
            + (IF e = d /\ "pending" \in kinds THEN -coins ELSE 0)
            + (IF e = d /\ "credit" \in kinds THEN coins ELSE 0)
  BY ReleasePosts
<1>2. coins <= PendingOf(ledger)[e]
  BY <1>1, PendingCovers DEF BInv, PendingOf
<1>3. \A d, kinds : Balance(ledger, d, kinds) \in Int
  BY BalanceType DEF BInv
<1> HIDE DEF e, coins
<1>4. coins \in Int
  BY <1>1, NeverNothing
<1>5. Moves(e, -coins, coins, 0, 0, 0)
  BY <1>1, <1>3, <1>4 DEF Moves
<1>6. -coins \in Int /\ -coins + coins = 0 /\ 0 + 0 + 0 = 0
  BY <1>4
<1>7. /\ Changed(PendingOf(ledger), PendingOf(ledger'), e, -coins)
      /\ Changed(RedeemableOf(ledger), RedeemableOf(ledger'), e, coins)
      /\ Changed(RedeemedOf(ledger), RedeemedOf(ledger'), e, 0)
      /\ Changed(ReservedOf(ledger), ReservedOf(ledger'), e, 0)
  BY <1>1, <1>4, <1>5, <1>6, MovesInPurse
<1>8. /\ PendingOf(ledger') = [PendingOf(ledger) EXCEPT ![e] = @ - coins]
      /\ RedeemableOf(ledger') = [RedeemableOf(ledger) EXCEPT ![e] = @ + coins]
      /\ ReservedOf(ledger') = ReservedOf(ledger)
      /\ RedeemedOf(ledger') = RedeemedOf(ledger)
  BY <1>4, <1>6, <1>7 DEF Changed
<1>9. QED
  BY <1>1, <1>2, <1>8

LEMMA RequestReserves ==
    ASSUME BInv, NEW e \in Editor, NEW amount \in Amounts, NEW r \in Request,
           RequestRedemption(e, amount, r)
    PROVE  /\ amount <= RedeemableOf(ledger)[e]
           /\ PendingOf(ledger') = PendingOf(ledger)
           /\ RedeemableOf(ledger') = [RedeemableOf(ledger) EXCEPT ![e] = @ - amount]
           /\ ReservedOf(ledger') = [ReservedOf(ledger) EXCEPT ![e] = @ + amount]
           /\ RedeemedOf(ledger') = RedeemedOf(ledger)
<1>1. /\ amount <= Balance(ledger, e, {"credit", "reserve", "release"})
      /\ \A d, kinds : Balance(ledger', d, kinds) = Balance(ledger, d, kinds)
                       + (IF e = d /\ "reserve" \in kinds THEN -amount ELSE 0)
  BY RequestPosts DEF Posts, Posting
<1>2. \A d, kinds : Balance(ledger, d, kinds) \in Int
  BY BalanceType DEF BInv
<1>3. amount \in Int
  BY NeverNothing
<1>4. -amount \in Int /\ -amount + amount = 0 /\ amount + -amount + 0 = 0
  BY <1>3
<1>5. Moves(e, 0, -amount, -amount, 0, 0)
  BY <1>1, <1>2, <1>3 DEF Moves
<1>6. amount <= RedeemableOf(ledger)[e]
  BY <1>1 DEF RedeemableOf
<1>7. QED
  BY <1>3, <1>4, <1>5, <1>6, MovesInPurse DEF Changed

LEMMA DecisionPaysOrReturns ==
    ASSUME BInv, NEW r \in Request, NEW outcome \in {"paid", "failed", "rejected"},
           DecideRedemption(r, outcome)
    PROVE  \E e \in Editor, amount \in Amounts :
           /\ amount <= ReservedOf(ledger)[e]
           /\ PendingOf(ledger') = PendingOf(ledger)
           /\ ReservedOf(ledger') = [ReservedOf(ledger) EXCEPT ![e] = @ - amount]
           /\ \/ /\ RedeemedOf(ledger') = [RedeemedOf(ledger) EXCEPT ![e] = @ + amount]
                 /\ RedeemableOf(ledger') = RedeemableOf(ledger)
              \/ /\ RedeemableOf(ledger') = [RedeemableOf(ledger) EXCEPT ![e] = @ + amount]
                 /\ RedeemedOf(ledger') = RedeemedOf(ledger)
<1> DEFINE e == requests[r].editor
           amount == requests[r].amount
           kind == IF outcome = "paid" THEN "redeem" ELSE "release"
<1>1. /\ e \in Editor /\ amount \in Amounts /\ requests[r].status = "requested"
      /\ \A d, kinds : Balance(ledger', d, kinds) = Balance(ledger, d, kinds)
            + (IF e = d /\ kind \in kinds THEN amount ELSE 0)
  BY DecidePosts DEF Posts, Posting
<1>2. \A d, kinds : Balance(ledger, d, kinds) \in Int
  BY BalanceType DEF BInv
<1>3. /\ amount \in Int /\ -amount \in Int /\ -amount + 0 + amount = 0
      /\ -amount + amount = 0
  <2> HIDE DEF amount
  <2>1. amount \in Int
    BY <1>1, NeverNothing
  <2>2. QED
    BY <2>1
<1>4. amount <= ReservedOf(ledger)[e]
  <2>1. amount <= -Balance(ledger, e, {"reserve", "redeem", "release"})
    BY <1>1, ReservedCovers DEF BInv
  <2>2. Balance(ledger, e, {"reserve", "redeem", "release"})
        = Balance(ledger, e, {"reserve"}) + Balance(ledger, e, {"redeem", "release"})
    BY BalanceSplits DEF BInv
  <2> HIDE DEF e, amount
  <2>3. QED
    BY <1>1, <1>2, <1>3, <2>1, <2>2 DEF ReservedOf
<1>5. kind \in {"redeem", "release"}
  OBVIOUS
<1> HIDE DEF e, amount, kind
<1>6. CASE kind = "redeem"
  <2>1. Moves(e, 0, 0, 0, amount, amount)
    BY <1>1, <1>2, <1>3, <1>6 DEF Moves
  <2>2. /\ PendingOf(ledger') = PendingOf(ledger) /\ RedeemableOf(ledger') = RedeemableOf(ledger)
        /\ ReservedOf(ledger') = [ReservedOf(ledger) EXCEPT ![e] = @ - amount]
        /\ RedeemedOf(ledger') = [RedeemedOf(ledger) EXCEPT ![e] = @ + amount]
    BY <1>1, <1>3, <2>1, MovesInPurse DEF Changed
  <2>3. QED
    BY <1>1, <1>3, <1>4, <2>2
<1>7. CASE kind = "release"
  <2>1. Moves(e, 0, amount, 0, amount, 0)
    BY <1>1, <1>2, <1>3, <1>7 DEF Moves
  <2>2. /\ PendingOf(ledger') = PendingOf(ledger) /\ RedeemedOf(ledger') = RedeemedOf(ledger)
        /\ ReservedOf(ledger') = [ReservedOf(ledger) EXCEPT ![e] = @ - amount]
        /\ RedeemableOf(ledger') = [RedeemableOf(ledger) EXCEPT ![e] = @ + amount]
    BY <1>1, <1>3, <2>1, MovesInPurse DEF Changed
  <2>3. QED
    BY <1>1, <1>3, <1>4, <2>2
<1>8. QED
  BY <1>5, <1>6, <1>7

\* Acceptances, releases, requests and decisions move an editor's coins between
\* pending, redeemable, reserved and redeemed as Purse allows, never more than
\* there are, and every other step leaves the four balances alone.
THEOREM LedgerImplementsPurse == Spec => ImplementsPurse
<1> USE DEF Abstract!Plus, Abstract!Minus
<1>1. Init => Abstract!Init
  <2> SUFFICES ASSUME Init PROVE Abstract!Init
    OBVIOUS
  <2>1. BInv /\ ledger = {}
    BY InitBalances DEF Init
  <2>2. \A e \in Editor : /\ PendingOf(ledger)[e] = 0 /\ RedeemableOf(ledger)[e] = 0
                          /\ ReservedOf(ledger)[e] = 0 /\ RedeemedOf(ledger)[e] = 0
    BY <2>1, EmptyBalance DEF PendingOf, RedeemableOf, ReservedOf, RedeemedOf
  <2>3. /\ PendingOf(ledger) = Abstract!Zero /\ RedeemableOf(ledger) = Abstract!Zero
        /\ ReservedOf(ledger) = Abstract!Zero /\ RedeemedOf(ledger) = Abstract!Zero
    BY <2>2 DEF PendingOf, RedeemableOf, ReservedOf, RedeemedOf, Abstract!Zero
  <2>4. QED
    BY <2>1, <2>3, PurseNow DEF Abstract!Init
<1>2. BInv /\ [Next]_vars => [Abstract!Next]_(Abstract!purse)
  <2> SUFFICES ASSUME BInv, [Next]_vars
               PROVE  Abstract!Next \/ UNCHANGED Abstract!purse
    OBVIOUS
  <2>1. BInv'
    BY NextBalances
  <2>2. ASSUME ledger' = ledger PROVE UNCHANGED Abstract!purse
    BY <2>1, <2>2, PurseNow, PurseNext DEF Abstract!purse
  <2>3. CASE Configure \/ UNCHANGED vars
    BY <2>2, <2>3 DEF Configure, SavePolicy, SwitchMode, DeactivateEditor, LosePayment, vars
  <2>4. ASSUME NEW a \in Acceptance, NEW e \in Editor, NEW coins \in Coins \cup {0},
               CreditAcceptance(a, e, coins)
        PROVE  Abstract!Next \/ UNCHANGED Abstract!purse
    <3>1. CASE coins = 0
      BY <2>2, <2>4, <3>1 DEF CreditAcceptance
    <3>2. CASE coins \in Coins
      <4>1. Abstract!Earn(e, coins)
        BY <2>1, <2>4, <3>2, CreditEarns, PurseNow, PurseNext DEF Abstract!Earn
      <4>2. QED
        BY <3>2, <4>1 DEF Abstract!Next
    <3>3. QED
      BY <3>1, <3>2
  <2>5. ASSUME NEW a \in Acceptance, ReleaseEarning(a) PROVE Abstract!Next
    <3>1. PICK e \in Editor, coins \in Coins :
             /\ coins <= PendingOf(ledger)[e]
             /\ PendingOf(ledger') = [PendingOf(ledger) EXCEPT ![e] = @ - coins]
             /\ RedeemableOf(ledger') = [RedeemableOf(ledger) EXCEPT ![e] = @ + coins]
             /\ ReservedOf(ledger') = ReservedOf(ledger)
             /\ RedeemedOf(ledger') = RedeemedOf(ledger)
      BY <2>5, ReleaseReleases
    <3>2. Abstract!Release(e, coins)
      BY <2>1, <3>1, PurseNow, PurseNext DEF Abstract!Release
    <3>3. QED
      BY <3>2 DEF Abstract!Next
  <2>6. ASSUME NEW e \in Editor, NEW amount \in Amounts, NEW r \in Request,
               RequestRedemption(e, amount, r)
        PROVE  Abstract!Next
    <3>1. /\ amount <= RedeemableOf(ledger)[e]
          /\ PendingOf(ledger') = PendingOf(ledger)
          /\ RedeemableOf(ledger') = [RedeemableOf(ledger) EXCEPT ![e] = @ - amount]
          /\ ReservedOf(ledger') = [ReservedOf(ledger) EXCEPT ![e] = @ + amount]
          /\ RedeemedOf(ledger') = RedeemedOf(ledger)
      BY <2>6, RequestReserves
    <3>2. Abstract!Reserve(e, amount)
      BY <2>1, <3>1, PurseNow, PurseNext DEF Abstract!Reserve
    <3>3. QED
      BY <3>2 DEF Abstract!Next
  <2>7. ASSUME NEW r \in Request, NEW outcome \in {"paid", "failed", "rejected"},
               DecideRedemption(r, outcome)
        PROVE  Abstract!Next
    <3>1. PICK e \in Editor, amount \in Amounts :
             /\ amount <= ReservedOf(ledger)[e]
             /\ PendingOf(ledger') = PendingOf(ledger)
             /\ ReservedOf(ledger') = [ReservedOf(ledger) EXCEPT ![e] = @ - amount]
             /\ \/ /\ RedeemedOf(ledger') = [RedeemedOf(ledger) EXCEPT ![e] = @ + amount]
                   /\ RedeemableOf(ledger') = RedeemableOf(ledger)
                \/ /\ RedeemableOf(ledger') = [RedeemableOf(ledger) EXCEPT ![e] = @ + amount]
                   /\ RedeemedOf(ledger') = RedeemedOf(ledger)
      BY <2>7, DecisionPaysOrReturns
    <3>2. Abstract!PayOut(e, amount) \/ Abstract!Return(e, amount)
      BY <2>1, <3>1, PurseNow, PurseNext DEF Abstract!PayOut, Abstract!Return
    <3>3. QED
      BY <3>2 DEF Abstract!Next
  <2>8. QED
    BY <2>3, <2>4, <2>5, <2>6, <2>7 DEF Next, Account
<1>3. QED
  BY <1>1, <1>2, LedgerBalances, PTL DEF Spec, ImplementsPurse, Abstract!Spec

-----------------------------------------------------------------------------
(* Quotations: the stored prices *)

\* A stored row is one its form has accepted, in minor units.
ServiceSound(row) ==
    row \in ServiceRow(MinorAmount) /\ Stored(row.price, row.currency) /\ ServiceRules(row)

PlanSound(row) ==
    /\ row \in PlanRow(MinorAmount)
    /\ \A period \in Periods : Stored(row.price[period], row.currency)
    /\ PlanRules(row)

PolicySound(row) ==
    /\ row \in PolicyRow(MinorAmount)
    /\ \A m \in PolicyAmounts(row) : Stored(m, row.currency)
    /\ PolicyRules(row)

\* The inductive invariant of the catalogue.
CatalogueSound ==
    /\ services = [s \in Service |-> services[s]]
    /\ \A s \in Service : services[s] # Null => ServiceSound(services[s])
    /\ plan # Null => PlanSound(plan)
    /\ commercePolicy # Null => PolicySound(commercePolicy)

\* A typed amount becomes a stored one ...
LEMMA TypedIsStored ==
    ASSUME NEW c, NEW a \in Entered, Typed(a, c)
    PROVE  MajorToMinor(a, c) \in MinorAmount /\ Stored(MajorToMinor(a, c), c)
<1>1. MaxPrice \in Nat /\ Null \notin Int
  BY PricingAssumption
<1>2. CASE a = Null
  BY <1>2 DEF MajorToMinor, Stored, MinorAmount
<1>3. CASE a # Null
  <2>1. a \in Nat /\ c # Null /\ MajorToMinor(a, c) <= MaxPrice
        /\ MajorToMinor(a, c) = a \div Quantum(c)
    BY <1>3 DEF Typed, Entered, MajorToMinor
  <2>2. Quantum(c) = 10 \/ Quantum(c) = 1000
    BY DEF Quantum
  <2>3. a \div Quantum(c) \in Nat
    BY <2>1, <2>2
  <2>4. QED
    BY <1>1, <2>1, <2>3 DEF Stored, MinorAmount
<1>4. QED
  BY <1>2, <1>3

\* ... and a stored one is typed back as it was.
LEMMA StoredIsTyped ==
    ASSUME NEW c, NEW m \in MinorAmount, Stored(m, c)
    PROVE  /\ Typed(MinorToMajor(m, c), c)
           /\ MajorToMinor(MinorToMajor(m, c), c) = m
<1>1. MaxPrice \in Nat /\ Null \notin Int
  BY PricingAssumption
<1>2. CASE m = Null
  BY <1>2 DEF MinorToMajor, MajorToMinor, Typed
<1>3. CASE m # Null
  <2>1. m \in Nat /\ m <= MaxPrice /\ c # Null
    BY <1>3 DEF Stored, MinorAmount
  <2>2. Quantum(c) = 10 \/ Quantum(c) = 1000
    BY DEF Quantum
  <2> DEFINE a == m * Quantum(c)
  <2>3. a \in Nat /\ a % Quantum(c) = 0 /\ a \div Quantum(c) = m
    BY <2>1, <2>2
  <2>4. MinorToMajor(m, c) = a
    BY <1>3 DEF MinorToMajor
  <2> HIDE DEF a
  <2>5. a # Null /\ a >= 0
    BY <1>1, <2>3
  <2>6. MajorToMinor(a, c) = m
    BY <2>3, <2>5 DEF MajorToMinor
  <2>7. QED
    BY <2>1, <2>3, <2>4, <2>5, <2>6 DEF Typed, Representable
<1>4. QED
  BY <1>2, <1>3

\* A form saves sound rows ...
LEMMA ServiceSaved ==
    ASSUME NEW form \in ServiceRow(Entered), NEW row, ServiceSaves(form, row)
    PROVE  ServiceSound(row)
<1>1. /\ form.price \in Entered /\ Typed(form.price, form.currency)
      /\ row = [form EXCEPT !.price = MajorToMinor(@, form.currency)] /\ ServiceRules(row)
  BY DEF ServiceSaves, ServiceAmounts, ConvertService, Convert, ServiceRow
<1>2. /\ MajorToMinor(form.price, form.currency) \in MinorAmount
      /\ Stored(MajorToMinor(form.price, form.currency), form.currency)
  BY <1>1, TypedIsStored
<1>3. row \in ServiceRow(MinorAmount) /\ row.currency = form.currency
      /\ row.price = MajorToMinor(form.price, form.currency)
  BY <1>1, <1>2 DEF ServiceRow
<1>4. QED
  BY <1>1, <1>2, <1>3 DEF ServiceSound

LEMMA PlanSaved ==
    ASSUME NEW form \in PlanRow(Entered), NEW row, PlanSaves(form, row)
    PROVE  PlanSound(row)
<1>1. /\ \A period \in Periods : form.price[period] \in Entered
                                   /\ Typed(form.price[period], form.currency)
      /\ row = [form EXCEPT !.price = [period \in Periods |->
                                          MajorToMinor(form.price[period], form.currency)]]
      /\ PlanRules(row)
  BY DEF PlanSaves, PlanAmounts, ConvertPlan, Convert, PlanRow
<1>2. \A period \in Periods :
         /\ MajorToMinor(form.price[period], form.currency) \in MinorAmount
         /\ Stored(MajorToMinor(form.price[period], form.currency), form.currency)
  BY <1>1, TypedIsStored
<1>3. row \in PlanRow(MinorAmount) /\ row.currency = form.currency
      /\ row.price = [period \in Periods |-> MajorToMinor(form.price[period], form.currency)]
  BY <1>1, <1>2 DEF PlanRow
<1>4. QED
  BY <1>1, <1>2, <1>3 DEF PlanSound

LEMMA PolicySaved ==
    ASSUME NEW form \in PolicyRow(Entered), NEW row, PolicySaves(form, row)
    PROVE  PolicySound(row)
<1> DEFINE c == form.currency
           minor(a) == MajorToMinor(a, c)
<1>1. /\ \A a \in {form.base, form.point, form.min, form.max} : a \in Entered
      /\ \A t \in Tier : form.revision[t] \in Entered
  BY DEF PolicyRow
<1>2. /\ \A a \in {form.base, form.point, form.min, form.max} : Typed(a, c)
      /\ \A t \in Tier : Typed(form.revision[t], c)
  BY DEF PolicySaves, PolicyAmounts, RevisionPrices
<1>3. /\ \A a \in {form.base, form.point, form.min, form.max} :
            minor(a) \in MinorAmount /\ Stored(minor(a), c)
      /\ \A t \in Tier : minor(form.revision[t]) \in MinorAmount /\ Stored(minor(form.revision[t]), c)
  BY <1>1, <1>2, TypedIsStored
<1>4. row = [form EXCEPT !.base = minor(@), !.point = minor(@), !.min = minor(@), !.max = minor(@),
                         !.revision = [t \in Tier |-> minor(form.revision[t])]]
  BY DEF PolicySaves, ConvertPolicy, Convert
<1> HIDE DEF minor
<1>5. /\ row \in PolicyRow(MinorAmount) /\ row.currency = c
      /\ row.base = minor(form.base) /\ row.point = minor(form.point)
      /\ row.min = minor(form.min) /\ row.max = minor(form.max)
      /\ row.revision = [t \in Tier |-> minor(form.revision[t])]
  BY <1>3, <1>4 DEF PolicyRow
<1>6. \A m \in PolicyAmounts(row) : Stored(m, row.currency)
  BY <1>3, <1>5 DEF PolicyAmounts, RevisionPrices
<1>7. QED
  BY <1>5, <1>6 DEF PolicySound, PolicySaves

\* ... and a sound row, opened in its form, is saved as it is.
LEMMA ServiceStable ==
    ASSUME NEW row, ServiceSound(row)
    PROVE  ServiceSaves(ConvertService(row, "major"), row)
<1> DEFINE form == ConvertService(row, "major")
<1>1. /\ row \in ServiceRow(MinorAmount) /\ row.price \in MinorAmount
      /\ Stored(row.price, row.currency) /\ ServiceRules(row)
  BY DEF ServiceSound, ServiceRow
<1>2. form = [row EXCEPT !.price = MinorToMajor(@, row.currency)]
  BY DEF ConvertService, Convert
<1>3. /\ form.price = MinorToMajor(row.price, row.currency)
      /\ form.currency = row.currency
      /\ [form EXCEPT !.price = row.price] = row
  BY <1>1, <1>2 DEF ServiceRow
<1> HIDE DEF form
<1>4. Typed(form.price, form.currency) /\ MajorToMinor(form.price, form.currency) = row.price
  BY <1>1, <1>3, StoredIsTyped
<1>5. row = ConvertService(form, "minor")
  BY <1>3, <1>4 DEF ConvertService, Convert
<1>6. ServiceSaves(form, row)
  BY <1>1, <1>4, <1>5 DEF ServiceSaves, ServiceAmounts
<1>7. QED
  BY <1>6 DEF form

LEMMA PlanStable ==
    ASSUME NEW row, PlanSound(row)
    PROVE  PlanSaves(ConvertPlan(row, "major"), row)
<1> DEFINE form == ConvertPlan(row, "major")
<1>1. /\ row \in PlanRow(MinorAmount) /\ PlanRules(row)
      /\ \A period \in Periods : /\ row.price[period] \in MinorAmount
                                   /\ Stored(row.price[period], row.currency)
  BY DEF PlanSound, PlanRow
<1>2. form = [row EXCEPT !.price = [period \in Periods |->
                                       MinorToMajor(row.price[period], row.currency)]]
  BY DEF ConvertPlan, Convert
<1>3. /\ \A period \in Periods : form.price[period] = MinorToMajor(row.price[period], row.currency)
      /\ form.currency = row.currency
      /\ [form EXCEPT !.price = row.price] = row
      /\ row.price = [period \in Periods |-> row.price[period]]
  BY <1>1, <1>2 DEF PlanRow
<1> HIDE DEF form
<1>4. \A period \in Periods :
         /\ Typed(form.price[period], form.currency)
         /\ MajorToMinor(form.price[period], form.currency) = row.price[period]
  BY <1>1, <1>3, StoredIsTyped
<1>5. row = ConvertPlan(form, "minor")
  <2>1. [period \in Periods |-> MajorToMinor(form.price[period], form.currency)] = row.price
    BY <1>3, <1>4
  <2>2. QED
    BY <1>3, <2>1 DEF ConvertPlan, Convert
<1>6. PlanSaves(form, row)
  BY <1>1, <1>4, <1>5 DEF PlanSaves, PlanAmounts
<1>7. QED
  BY <1>6 DEF form

LEMMA PolicyStable ==
    ASSUME NEW row, PolicySound(row)
    PROVE  PolicySaves(ConvertPolicy(row, "major"), row)
<1> DEFINE form == ConvertPolicy(row, "major")
           c == row.currency
           major(m) == MinorToMajor(m, c)
           minor(a) == MajorToMinor(a, c)
<1>1. /\ row \in PolicyRow(MinorAmount) /\ PolicyRules(row)
      /\ \A m \in {row.base, row.point, row.min, row.max} : m \in MinorAmount /\ Stored(m, c)
      /\ \A t \in Tier : row.revision[t] \in MinorAmount /\ Stored(row.revision[t], c)
  BY DEF PolicySound, PolicyRow, PolicyAmounts, RevisionPrices
<1>2. form = [row EXCEPT !.base = major(@), !.point = major(@), !.min = major(@), !.max = major(@),
                         !.revision = [t \in Tier |-> major(row.revision[t])]]
  BY DEF ConvertPolicy, Convert
<1>3. /\ \A m \in {row.base, row.point, row.min, row.max} :
            Typed(major(m), c) /\ minor(major(m)) = m
      /\ \A t \in Tier : Typed(major(row.revision[t]), c)
                         /\ minor(major(row.revision[t])) = row.revision[t]
  BY <1>1, StoredIsTyped
<1> HIDE DEF form, major
<1>4. /\ form.base = major(row.base) /\ form.point = major(row.point)
      /\ form.min = major(row.min) /\ form.max = major(row.max)
      /\ form.revision = [t \in Tier |-> major(row.revision[t])]
      /\ form.currency = c
      /\ [form EXCEPT !.base = row.base, !.point = row.point, !.min = row.min, !.max = row.max,
                      !.revision = row.revision] = row
      /\ row.revision = [t \in Tier |-> row.revision[t]]
  BY <1>1, <1>2 DEF PolicyRow
<1>5. row = ConvertPolicy(form, "minor")
  <2>1. [t \in Tier |-> minor(form.revision[t])] = row.revision
    BY <1>3, <1>4
  <2>2. /\ minor(form.base) = row.base /\ minor(form.point) = row.point
        /\ minor(form.min) = row.min /\ minor(form.max) = row.max
    BY <1>3, <1>4
  <2>3. ConvertPolicy(form, "minor")
        = [form EXCEPT !.base = minor(@), !.point = minor(@), !.min = minor(@), !.max = minor(@),
                       !.revision = [t \in Tier |-> minor(form.revision[t])]]
    BY <1>4 DEF ConvertPolicy, Convert
  <2> HIDE DEF minor
  <2>4. QED
    BY <1>4, <2>1, <2>2, <2>3
<1>6. \A a \in PolicyAmounts(form) : Typed(a, form.currency)
  BY <1>3, <1>4 DEF PolicyAmounts, RevisionPrices
<1>7. PolicySaves(form, row)
  BY <1>1, <1>5, <1>6 DEF PolicySaves
<1>8. QED
  BY <1>7 DEF form

LEMMA TestPolicySound ==
    ASSUME NEW prices \in TestPrices, ConfigureTestQuotation(prices)
    PROVE  PolicySound(TestPolicy(prices))
<1>1. prices \in [base : MinorAmount, point : MinorAmount, min : MinorAmount, max : MinorAmount]
      /\ TestCurrency \in Currency
  BY QuotationAssumption
<1>2. TestPolicy(prices) \in PolicyRow(MinorAmount)
  BY <1>1 DEF TestPolicy, PolicyRow, Contexts, MinorAmount
<1>3. TestPolicy(prices).currency = TestCurrency
  BY DEF TestPolicy
<1>4. QED
  BY <1>2, <1>3 DEF PolicySound, ConfigureTestQuotation

LEMMA InitCatalogue == QuotationInit => CatalogueSound
  BY DEF QuotationInit, CatalogueSound

LEMMA NextCatalogue == CatalogueSound /\ [QuotationNext]_quotationVars => CatalogueSound'
<1> SUFFICES ASSUME CatalogueSound, [QuotationNext]_quotationVars PROVE CatalogueSound'
  OBVIOUS
<1>1. ASSUME NEW form \in PolicyForms, SaveCommercePolicy(form) PROVE CatalogueSound'
  <2>1. form \in PolicyRow(Entered)
    BY QuotationAssumption
  <2>2. PolicySound(commercePolicy') /\ UNCHANGED <<services, plan>>
    BY <1>1, <2>1, PolicySaved DEF SaveCommercePolicy
  <2>3. QED
    BY <2>2 DEF CatalogueSound
<1>2. ASSUME NEW s \in Service, NEW form \in ServiceForms, SaveService(s, form)
      PROVE  CatalogueSound'
  <2>1. form \in ServiceRow(Entered)
    BY QuotationAssumption
  <2> DEFINE row == ConvertService(form, "minor")
  <2>2. ServiceSound(row) /\ services' = [services EXCEPT ![s] = row]
        /\ UNCHANGED <<commercePolicy, plan>>
    BY <1>2, <2>1, ServiceSaved DEF SaveService
  <2> HIDE DEF row
  <2>3. QED
    BY <2>2 DEF CatalogueSound
<1>3. ASSUME NEW form \in PlanForms, SavePlan(form) PROVE CatalogueSound'
  <2>1. form \in PlanRow(Entered)
    BY QuotationAssumption
  <2>2. PlanSound(plan') /\ UNCHANGED <<services, commercePolicy>>
    BY <1>3, <2>1, PlanSaved DEF SavePlan
  <2>3. QED
    BY <2>2 DEF CatalogueSound
<1>4. ASSUME NEW prices \in TestPrices, ConfigureTestQuotation(prices) PROVE CatalogueSound'
  <2>1. PolicySound(commercePolicy') /\ UNCHANGED <<services, plan>>
    BY <1>4, TestPolicySound DEF ConfigureTestQuotation
  <2>2. QED
    BY <2>1 DEF CatalogueSound
<1>5. ASSUME UNCHANGED <<commercePolicy, services, plan>> PROVE CatalogueSound'
  BY <1>5 DEF CatalogueSound
<1>6. CASE \E f \in Feature, form \in FeatureForms : SaveFeature(f, form)
  BY <1>5, <1>6 DEF SaveFeature
<1>7. CASE Redeploy
  BY <1>5, <1>7 DEF Redeploy, catalogue
<1>8. CASE Order
  BY <1>5, <1>8 DEF Order, SaveCustomBrief, SavePlanBrief, CreatePlanQuote, CreateCustomQuote,
                    AcceptQuote, catalogue
<1>9. CASE UNCHANGED quotationVars
  BY <1>5, <1>9 DEF quotationVars, catalogue
<1>10. QED
  BY <1>1, <1>2, <1>3, <1>4, <1>6, <1>7, <1>8, <1>9 DEF QuotationNext, Administer

LEMMA SoundIsStable == CatalogueSound => StoredPricesAreStable
<1> SUFFICES ASSUME CatalogueSound PROVE StoredPricesAreStable
  OBVIOUS
<1>1. ASSUME NEW s \in Service, services[s] # Null
      PROVE  /\ ServiceSaves(ConvertService(services[s], "major"), services[s])
             /\ services[s].active => ServiceOffered(services[s], services[s].currency)
  <2>1. ServiceSound(services[s])
    BY <1>1 DEF CatalogueSound
  <2>2. QED
    BY <2>1, ServiceStable DEF ServiceSound, ServiceOffered, ServiceAmounts
<1>2. ASSUME plan # Null
      PROVE  /\ PlanSaves(ConvertPlan(plan, "major"), plan)
             /\ plan.active => PlanOffered(plan, plan.currency)
  <2>1. PlanSound(plan)
    BY <1>2 DEF CatalogueSound
  <2>2. QED
    BY <2>1, PlanStable DEF PlanSound, PlanOffered, PlanAmounts
<1>3. ASSUME commercePolicy # Null
      PROVE  /\ PolicySaves(ConvertPolicy(commercePolicy, "major"), commercePolicy)
             /\ commercePolicy.enabled => PolicyReady(commercePolicy, TRUE)
  <2>1. PolicySound(commercePolicy)
    BY <1>3 DEF CatalogueSound
  <2>2. PolicySaves(ConvertPolicy(commercePolicy, "major"), commercePolicy)
    BY <2>1, PolicyStable
  <2>3. commercePolicy.enabled => PolicyReady(commercePolicy, TRUE)
    BY <1>3, <2>1 DEF PolicySound, PolicyReady, PolicyRules
  <2>4. QED
    BY <2>2, <2>3
<1>4. QED
  BY <1>1, <1>2, <1>3 DEF StoredPricesAreStable

\* What a catalogue form saved can be opened and saved again without a change,
\* in a currency with or without a minor unit, and what it published is still
\* sound when a quote reads it (core/money.py and the commerce forms).
THEOREM QuotationStoredPricesAreStable == QuotationSpec => []StoredPricesAreStable
<1>1. QuotationInit => CatalogueSound
  BY InitCatalogue
<1>2. CatalogueSound /\ [QuotationNext]_quotationVars => CatalogueSound'
  BY NextCatalogue
<1>3. CatalogueSound => StoredPricesAreStable
  BY SoundIsStable
<1>4. QED
  BY <1>1, <1>2, <1>3, PTL DEF QuotationSpec

-----------------------------------------------------------------------------
(* Quotations: more about sums *)

LEMMA SumIsNatural ==
    ASSUME NEW U, NEW f \in [U -> Nat]
    PROVE  \A T \in FiniteSubsetsOf(U) : SumOf(f, T) \in Nat
<1> DEFINE Bad == {T \in FiniteSubsetsOf(U) : SumOf(f, T) \notin Nat}
<1> SUFFICES ASSUME Bad # {} PROVE FALSE
  OBVIOUS
<1>1. PICK T \in Bad : \A s \in SUBSET T : s # T => s \notin Bad
  <2>1. Bad \subseteq FiniteSubsetsOf(U)
    OBVIOUS
  <2> HIDE DEF Bad
  <2>2. QED
    BY <2>1, SmallestSubset
<1>2. CASE T = {}
  BY <1>2, SumEmpty
<1>3. CASE T # {}
  <2>1. First(T) \in T /\ First(T) \in U
    BY <1>3, FirstIsElement DEF FiniteSubsetsOf
  <2>2. T \ {First(T)} \in FiniteSubsetsOf(U) /\ T \ {First(T)} # T
    BY <2>1, SubsetIsFinite
  <2>3. SumOf(f, T \ {First(T)}) \in Nat
    BY <2>2, <1>1
  <2>4. SumOf(f, T) = f[First(T)] + SumOf(f, T \ {First(T)})
    BY <1>3, SumStep
  <2>5. f[First(T)] \in Nat
    BY <2>1
  <2>6. QED
    BY <2>3, <2>4, <2>5
<1>4. QED
  BY <1>2, <1>3

LEMMA SumOfOne ==
    ASSUME NEW U, NEW f \in [U -> Int], NEW x \in U
    PROVE  SumOf(f, {x}) = f[x]
<1> DEFINE T == {x}
<1>1. T \in FiniteSubsetsOf(U) /\ T \ {x} = {}
  BY FS_Singleton DEF FiniteSubsetsOf
<1>2. SumOf(f, T) = f[x] + SumOf(f, T \ {x})
  <2>1. x \in T
    OBVIOUS
  <2> HIDE DEF T
  <2>2. QED
    BY <1>1, <2>1, SumRemoves
<1>3. SumOf(f, T \ {x}) = 0
  BY <1>1, SumEmpty
<1>4. QED
  BY <1>2, <1>3

\* The same things under other names sum up to the same.
Renamed(h, T) == {h[x] : x \in T}

LEMMA SumReindexes ==
    ASSUME NEW U, NEW V, NEW f \in [U -> Int], NEW g \in [V -> Int], NEW h \in [V -> U],
           \A x, y \in V : h[x] = h[y] => x = y, \A x \in V : f[h[x]] = g[x]
    PROVE  \A T \in FiniteSubsetsOf(V) :
              Renamed(h, T) \in FiniteSubsetsOf(U) /\ SumOf(f, Renamed(h, T)) = SumOf(g, T)
<1> DEFINE Good(T) == Renamed(h, T) \in FiniteSubsetsOf(U) /\ SumOf(f, Renamed(h, T)) = SumOf(g, T)
           Bad == {T \in FiniteSubsetsOf(V) : ~Good(T)}
<1> SUFFICES ASSUME Bad # {} PROVE FALSE
  OBVIOUS
<1>1. PICK T \in Bad : \A s \in SUBSET T : s # T => s \notin Bad
  <2>1. Bad \subseteq FiniteSubsetsOf(V)
    OBVIOUS
  <2> HIDE DEF Bad
  <2>2. QED
    BY <2>1, SmallestSubset
<1>2. T \in FiniteSubsetsOf(V) /\ ~Good(T)
  OBVIOUS
<1>3. CASE T = {}
  <2>1. Renamed(h, T) = {}
    BY <1>3 DEF Renamed
  <2>2. SumOf(f, Renamed(h, T)) = 0 /\ SumOf(g, T) = 0
    BY <1>3, <2>1, SumEmpty
  <2>3. Renamed(h, T) \in FiniteSubsetsOf(U)
    BY <2>1, FS_EmptySet DEF FiniteSubsetsOf
  <2>4. QED
    BY <1>2, <2>2, <2>3
<1>4. CASE T # {}
  <2> DEFINE x == First(T)
             rest == T \ {x}
             image == Renamed(h, T)
             y == h[x]
             others == Renamed(h, rest)
  <2>1. x \in T /\ x \in V
    BY <1>4, FirstIsElement DEF FiniteSubsetsOf
  <2>2. rest \in FiniteSubsetsOf(V) /\ rest # T /\ rest \in SUBSET T
    BY <2>1, SubsetIsFinite
  <2>3. Good(rest)
    BY <2>2, <1>1
  <2>4. image = others \cup {y} /\ y \in U /\ image \ {y} = others /\ y \in image
    BY <2>1 DEF FiniteSubsetsOf, Renamed
  <2> HIDE DEF image, y, others
  <2>5. SumOf(g, T) = g[x] + SumOf(g, rest)
    BY <1>4, SumStep
  <2>6. others \in FiniteSubsetsOf(U) /\ SumOf(f, others) = SumOf(g, rest)
    BY <2>3 DEF others
  <2>7. image \in FiniteSubsetsOf(U)
    BY <2>4, <2>6, FS_AddElement DEF FiniteSubsetsOf
  <2>8. SumOf(f, image) = f[y] + SumOf(f, image \ {y})
    BY <2>4, <2>7, SumRemoves
  <2>9. f[y] = g[x]
    BY <2>1 DEF y
  <2>10. SumOf(f, image) = SumOf(g, T)
    BY <2>4, <2>5, <2>6, <2>8, <2>9
  <2>11. QED
    BY <1>2, <2>7, <2>10 DEF image
<1>5. QED
  BY <1>3, <1>4

-----------------------------------------------------------------------------
(* Quotations: what a total is *)

AmountOf == [item \in Item |-> item.amount]

LEMMA AmountType == AmountOf \in [Item -> Nat] /\ AmountOf \in [Item -> Int]
<1>1. AmountOf \in [Item -> Nat]
  BY DEF AmountOf, Item
<1>2. QED
  BY <1>1

LEMMA QTotalIsSum ==
    ASSUME NEW T \in FiniteSubsetsOf(Item)
    PROVE  TotalOf(T) = SumOf(AmountOf, T)
<1> DEFINE Summing(it) == it = [s \in SUBSET T |-> IF s = {} THEN 0
                                  ELSE First(s).amount + it[s \ {First(s)}]]
<1>1. TotalOf(T) = (CHOOSE it : Summing(it))[T]
  BY DEF TotalOf, MapThenSumSet, MapThenFoldSet, First
<1>2. ASSUME NEW s \in SUBSET T, s # {} PROVE First(s).amount = AmountOf[First(s)]
  BY <1>2, FirstIsElement DEF AmountOf, FiniteSubsetsOf
<1>3. ASSUME NEW it PROVE Summing(it) <=> Iterates(it, AmountOf, T)
  BY <1>2 DEF Iterates
<1>4. \E it : Summing(it)
  BY <1>3, FoldExists
<1> DEFINE fold == CHOOSE it : Summing(it)
<1>5. Summing(fold)
  <2> HIDE DEF Summing
  <2> QED
    BY <1>4
<1> HIDE DEF fold, Summing
<1>6. fold[T] = SumOf(AmountOf, T)
  BY <1>3, <1>5, SumIsFold
<1>7. QED
  BY <1>1, <1>6 DEF fold

LEMMA PricesAreSummed ==
    ASSUME NEW X \in FiniteSubsetsOf(Service), NEW price \in [Service -> Int],
           \A s \in X : price[s] = services[s].price
    PROVE  MapThenSumSet(LAMBDA s : services[s].price, X) = SumOf(price, X)
<1> DEFINE Summing(it) == it = [r \in SUBSET X |-> IF r = {} THEN 0
                                  ELSE services[First(r)].price + it[r \ {First(r)}]]
<1>1. MapThenSumSet(LAMBDA s : services[s].price, X) = (CHOOSE it : Summing(it))[X]
  BY DEF MapThenSumSet, MapThenFoldSet, First
<1>2. ASSUME NEW r \in SUBSET X, r # {} PROVE services[First(r)].price = price[First(r)]
  BY <1>2, FirstIsElement
<1>3. ASSUME NEW it PROVE Summing(it) <=> Iterates(it, price, X)
  BY <1>2 DEF Iterates
<1>4. \E it : Summing(it)
  BY <1>3, FoldExists
<1> DEFINE fold == CHOOSE it : Summing(it)
<1>5. Summing(fold)
  <2> HIDE DEF Summing
  <2> QED
    BY <1>4
<1> HIDE DEF fold, Summing
<1>6. fold[X] = SumOf(price, X)
  BY <1>3, <1>5, SumIsFold
<1>7. QED
  BY <1>1, <1>6 DEF fold

\* Priced items: distinct, none of them free.
Priced(items) ==
    /\ items \in FiniteSubsetsOf(Item)
    /\ items # {}
    /\ \A item \in items : item.amount > 0
    /\ \A item, other \in items : item.id = other.id => item = other

\* Adding services that are not in it yet, each at its price.
LEMMA ExtrasAddUp ==
    ASSUME NEW items, Priced(items), NEW X \in SUBSET Service,
           \A s \in X : services[s].price \in Nat \ {0},
           \A item \in items : item.id \notin X
    PROVE  LET more == items \cup {[id |-> s, amount |-> services[s].price] : s \in X}
           IN  /\ Priced(more)
               /\ TotalOf(more) = TotalOf(items) + MapThenSumSet(LAMBDA s : services[s].price, X)
<1> DEFINE price == [s \in Service |-> IF s \in X THEN services[s].price ELSE 0]
           named == [s \in Service |-> [id |-> s, amount |-> price[s]]]
           new == {[id |-> s, amount |-> services[s].price] : s \in X}
           more == items \cup new
<1>1. X \in FiniteSubsetsOf(Service)
  <2>1. IsFiniteSet(Service)
    BY QuotationAssumption DEF IsFiniteSet
  <2>2. QED
    BY <2>1, FS_Subset DEF FiniteSubsetsOf
<1>2. price \in [Service -> Int] /\ price \in [Service -> Nat] /\ \A s \in X : price[s] = services[s].price
  OBVIOUS
<1>3. named \in [Service -> Item] /\ \A s \in Service : named[s].id = s /\ named[s].amount = price[s]
  BY <1>2 DEF Item, Ids
<1>4. /\ \A s, t \in Service : named[s] = named[t] => s = t
      /\ \A s \in Service : AmountOf[named[s]] = price[s]
  BY <1>3 DEF AmountOf
<1>5. new = Renamed(named, X)
  BY <1>2 DEF Renamed
<1>6. new \in FiniteSubsetsOf(Item) /\ SumOf(AmountOf, new) = SumOf(price, X)
  <2> HIDE DEF price, named, new
  <2> QED
    BY <1>1, <1>2, <1>3, <1>4, <1>5, AmountType, SumReindexes
<1>7. \A item \in new : item.id \in X /\ item.amount > 0 /\ item = [id |-> item.id, amount |-> services[item.id].price]
  OBVIOUS
<1>8. items \cap new = {}
  BY <1>7
<1> HIDE DEF new, price, named
<1>9. more \in FiniteSubsetsOf(Item)
  BY <1>6, FS_Union DEF Priced, FiniteSubsetsOf
<1>10. Priced(more)
  BY <1>7, <1>9 DEF Priced
<1> HIDE DEF more
<1>11. SumOf(AmountOf, more) = SumOf(AmountOf, items) + SumOf(AmountOf, new)
  <2>1. SumOf(AmountOf, items \cup new) = SumOf(AmountOf, items) + SumOf(AmountOf, new)
    BY <1>6, <1>8, AmountType, SumUnion DEF Priced
  <2>2. QED
    BY <2>1 DEF more
<1>12. TotalOf(more) = TotalOf(items) + MapThenSumSet(LAMBDA s : services[s].price, X)
  <2>1. TotalOf(more) = SumOf(AmountOf, more) /\ TotalOf(items) = SumOf(AmountOf, items)
    BY <1>9, QTotalIsSum DEF Priced
  <2>2. MapThenSumSet(LAMBDA s : services[s].price, X) = SumOf(price, X)
    BY <1>1, <1>2, PricesAreSummed
  <2>3. QED
    BY <1>6, <1>11, <2>1, <2>2
<1>13. QED
  BY <1>10, <1>12 DEF more, new

-----------------------------------------------------------------------------
(* Quotations: estimates *)

\* Halves are rounded up, and what is not negative stays so.
LEMMA HalfUpIsNatural == \A n \in Nat : HalfUp(n, 100 * 1000) \in Nat
  BY DEF HalfUp

Points(score, weight) == MapThenSumSet(LAMBDA a : score[a] * weight[a], Axis)

LEMMA ScoreIsNatural ==
    ASSUME NEW score \in [Axis -> 1..5], NEW weight \in [Axis -> 0..100]
    PROVE  Points(score, weight) \in Nat
<1> DEFINE f == [a \in Axis |-> score[a] * weight[a]]
           Summing(it) == it = [s \in SUBSET Axis |-> IF s = {} THEN 0
                                  ELSE score[First(s)] * weight[First(s)] + it[s \ {First(s)}]]
<1>1. Points(score, weight) = (CHOOSE it : Summing(it))[Axis]
  BY DEF Points, MapThenSumSet, MapThenFoldSet, First
<1>2. f \in [Axis -> Nat]
  <2>1. ASSUME NEW a \in Axis PROVE score[a] * weight[a] \in Nat
    <3>1. score[a] \in Nat /\ weight[a] \in Nat
      OBVIOUS
    <3>2. QED
      BY <3>1
  <2>2. QED
    BY <2>1
<1>3. ASSUME NEW s \in SUBSET Axis, s # {} PROVE score[First(s)] * weight[First(s)] = f[First(s)]
  BY <1>3, FirstIsElement
<1>4. ASSUME NEW it PROVE Summing(it) <=> Iterates(it, f, Axis)
  <2> HIDE DEF f
  <2> QED
    BY <1>3 DEF Iterates
<1>5. Axis \in FiniteSubsetsOf(Axis)
  <2>1. IsFiniteSet({"time"})
    BY FS_Singleton
  <2>2. IsFiniteSet({"time"} \cup {"importance"})
    BY <2>1, FS_AddElement
  <2>3. IsFiniteSet({"time"} \cup {"importance"} \cup {"complexity"})
    BY <2>2, FS_AddElement
  <2>4. Axis = {"time"} \cup {"importance"} \cup {"complexity"}
    BY DEF Axis
  <2>5. QED
    BY <2>3, <2>4 DEF FiniteSubsetsOf
<1>6. \E it : Summing(it)
  BY <1>4, <1>5, FoldExists
<1> DEFINE fold == CHOOSE it : Summing(it)
<1>7. Summing(fold)
  <2> HIDE DEF Summing
  <2> QED
    BY <1>6
<1> HIDE DEF fold, Summing, f
<1>8. fold[Axis] = SumOf(f, Axis)
  BY <1>4, <1>5, <1>7, SumIsFold
<1>9. SumOf(f, Axis) \in Nat
  BY <1>2, <1>5, SumIsNatural
<1>10. QED
  BY <1>1, <1>8, <1>9 DEF fold

LEMMA ContributionIsNatural ==
    ASSUME NEW row, row.weight \in [Axis -> 0..100], row.point \in Nat, NEW feature \in FeatureRow
    PROVE  Contribution(row, feature) \in Nat
<1> DEFINE score == feature.score
           weight == row.weight
           points == Points(score, weight)
<1>1. feature.score \in [Axis -> 1..5] /\ feature.multiplier \in Nat
  <2>1. MaxMultiplier \in Nat
    BY DEF MaxMultiplier
  <2>2. feature.score \in [Axis -> 1..5] /\ feature.multiplier \in 1..MaxMultiplier
    BY DEF FeatureRow
  <2>3. QED
    BY <2>1, <2>2
<1>2. points \in Nat
  <2>1. score \in [Axis -> 1..5] /\ weight \in [Axis -> 0..100]
    BY <1>1
  <2> HIDE DEF score, weight
  <2>2. QED
    BY <2>1, ScoreIsNatural
<1>3. Contribution(row, feature) = HalfUp(points * feature.multiplier * row.point, 100 * 1000)
  BY DEF Contribution, Points
<1> HIDE DEF points
<1>4. points * feature.multiplier \in Nat
  BY <1>1, <1>2
<1>5. points * feature.multiplier * row.point \in Nat
  BY <1>4
<1>6. QED
  BY <1>3, <1>5, HalfUpIsNatural

Wanted(row, W) == MapThenSumSet(LAMBDA f : Contribution(row, features[f]), W)

LEMMA WantsAreNatural ==
    ASSUME NEW row, row.weight \in [Axis -> 0..100], row.point \in Nat,
           features \in [Feature -> FeatureRow], NEW W \in SUBSET Feature
    PROVE  Wanted(row, W) \in Nat
<1> DEFINE g == [f \in Feature |-> Contribution(row, features[f])]
           Summing(it) == it = [s \in SUBSET W |-> IF s = {} THEN 0
                                  ELSE Contribution(row, features[First(s)]) + it[s \ {First(s)}]]
<1>1. Wanted(row, W) = (CHOOSE it : Summing(it))[W]
  BY DEF Wanted, MapThenSumSet, MapThenFoldSet, First
<1>2. g \in [Feature -> Nat]
  BY ContributionIsNatural
<1>3. ASSUME NEW s \in SUBSET W, s # {} PROVE Contribution(row, features[First(s)]) = g[First(s)]
  BY <1>3, FirstIsElement
<1>4. ASSUME NEW it PROVE Summing(it) <=> Iterates(it, g, W)
  <2> HIDE DEF g
  <2> QED
    BY <1>3 DEF Iterates
<1>5. W \in FiniteSubsetsOf(Feature)
  <2>1. IsFiniteSet(Feature)
    BY QuotationAssumption DEF IsFiniteSet
  <2>2. QED
    BY <2>1, FS_Subset DEF FiniteSubsetsOf
<1>6. \E it : Summing(it)
  BY <1>4, <1>5, FoldExists
<1> DEFINE fold == CHOOSE it : Summing(it)
<1>7. Summing(fold)
  <2> HIDE DEF Summing
  <2> QED
    BY <1>6
<1> HIDE DEF fold, Summing, g
<1>8. fold[W] = SumOf(g, W)
  BY <1>4, <1>5, <1>7, SumIsFold
<1>9. SumOf(g, W) \in Nat
  BY <1>2, <1>5, SumIsNatural
<1>10. QED
  BY <1>1, <1>8, <1>9 DEF fold

\* The clamp of a positive amount to a positive maximum is positive.
LEMMA ClampIsPositive ==
    ASSUME NEW x \in Nat \ {0}, NEW low \in Nat, NEW high \in Nat \ {0}
    PROVE  Clamp(x, low, high) \in Nat \ {0}
<1> DEFINE lower == Min({x, high})
<1>1. lower \in Nat \ {0}
  <2>1. \E m \in {x, high} : \A y \in {x, high} : m =< y
    OBVIOUS
  <2>2. lower \in {x, high}
    BY <2>1 DEF Min
  <2>3. QED
    BY <2>2
<1> HIDE DEF lower
<1>2. Max({low, lower}) \in {low, lower} /\ \A y \in {low, lower} : Max({low, lower}) >= y
  <2>1. \E m \in {low, lower} : \A y \in {low, lower} : m >= y
    BY <1>1
  <2>2. QED
    BY <2>1 DEF Max
<1>3. Clamp(x, low, high) = Max({low, lower})
  BY DEF Clamp, lower
<1>4. QED
  BY <1>1, <1>2, <1>3

LEMMA PricedAdds ==
    ASSUME NEW items, Priced(items), NEW x \in Item, x.amount > 0, \A item \in items : item.id # x.id
    PROVE  Priced(items \cup {x})
<1>1. items \cup {x} \in FiniteSubsetsOf(Item)
  BY FS_AddElement DEF Priced, FiniteSubsetsOf
<1>2. QED
  BY <1>1 DEF Priced

LEMMA PricedOne ==
    ASSUME NEW x \in Item, x.amount > 0
    PROVE  Priced({x}) /\ TotalOf({x}) = x.amount
<1>1. {x} \in FiniteSubsetsOf(Item)
  BY FS_Singleton DEF FiniteSubsetsOf
<1>2. TotalOf({x}) = AmountOf[x]
  BY <1>1, QTotalIsSum, SumOfOne, AmountType
<1>3. QED
  BY <1>1, <1>2 DEF Priced, AmountOf

\* A revision tier adds one item, or none if it is free.
LEMMA RevisionPriced ==
    ASSUME NEW row, PolicySound(row), NEW tier \in Tier, NEW items, Priced(items),
           \A item \in items : item.id # tier
    PROVE  Priced(items \cup RevisionItems(row, tier))
<1>1. row.revision[tier] \in MinorAmount
  BY DEF PolicySound, PolicyRow
<1>2. CASE row.revision[tier] \in {Null, 0}
  BY <1>2 DEF RevisionItems
<1>3. CASE row.revision[tier] \notin {Null, 0}
  <2> DEFINE x == [id |-> tier, amount |-> row.revision[tier]]
  <2>1. RevisionItems(row, tier) = {x}
    BY <1>3 DEF RevisionItems
  <2>2. x \in Item /\ x.amount > 0 /\ x.id = tier
    BY <1>1, <1>3 DEF Item, Ids, MinorAmount
  <2> HIDE DEF x
  <2>3. QED
    BY <2>1, <2>2, PricedAdds
<1>4. QED
  BY <1>2, <1>3

\* What a brief may be.
BriefSound(b) == b.wants \in SUBSET Feature /\ b.tier \in Tier

LEMMA WeightedPriced ==
    ASSUME NEW row, PolicySound(row), row.engine,
           features \in [Feature -> FeatureRow], NEW b, BriefSound(b)
    PROVE  LET items == WeightedItems(row, features, b)
           IN  Priced(items) /\ \A item \in items : item.id \notin Service
<1> DEFINE wanted == Wanted(row, b.wants)
           raw == row.base + wanted
           x == [id |-> "weighted-estimate", amount |-> Clamp(raw, row.min, row.max)]
<1>1. /\ row.weight \in [Axis -> 0..100]
      /\ row.base \in Nat \ {0} /\ row.point \in Nat /\ row.min \in Nat /\ row.max \in Nat \ {0}
  BY DEF PolicySound, PolicyRow, PolicyRules, Positive, MinorAmount
<1>2. wanted \in Nat
  BY <1>1, WantsAreNatural DEF BriefSound
<1>3. WeightedItems(row, features, b) = {x} \cup RevisionItems(row, b.tier)
  BY DEF WeightedItems, Wanted
<1> HIDE DEF wanted
<1>4. raw \in Nat \ {0}
  BY <1>1, <1>2
<1> HIDE DEF raw
<1>5. Clamp(raw, row.min, row.max) \in Nat \ {0}
  BY <1>1, <1>4, ClampIsPositive
<1>6. x \in Item /\ x.amount > 0 /\ x.id = "weighted-estimate"
  BY <1>5 DEF Item, Ids
<1>7. "weighted-estimate" \notin Service /\ b.tier \in Tier /\ b.tier # "weighted-estimate"
      /\ b.tier \notin Service
  BY QuotationAssumption DEF BriefSound
<1> HIDE DEF x
<1>8. Priced({x}) /\ \A item \in {x} : item.id # b.tier
  BY <1>6, <1>7, PricedOne
<1>9. Priced({x} \cup RevisionItems(row, b.tier))
  BY <1>7, <1>8, RevisionPriced
<1>10. \A item \in {x} \cup RevisionItems(row, b.tier) : item.id \notin Service
  BY <1>6, <1>7 DEF RevisionItems
<1>11. QED
  BY <1>3, <1>9, <1>10

LEMMA LegacyPriced ==
    ASSUME NEW row, PolicySound(row), row.base # Null, NEW b, BriefSound(b),
           \A s \in Required(services, b) : services[s].price \in Nat \ {0}
    PROVE  LET items == LegacyItems(row, services, b)
           IN  /\ Priced(items)
               /\ \A item \in items : item.id \in Service =>
                     /\ item.id \in Required(services, b)
                     /\ item.amount = services[item.id].price
<1> DEFINE x == [id |-> "base", amount |-> row.base]
           X == Required(services, b)
           sold == {x} \cup {[id |-> s, amount |-> services[s].price] : s \in X}
<1>1. row.base \in Nat \ {0}
  BY DEF PolicySound, PolicyRow, PolicyRules, MinorAmount
<1>2. x \in Item /\ x.amount > 0 /\ x.id = "base"
  BY <1>1 DEF Item, Ids
<1>3. /\ "base" \notin Service /\ "base" # b.tier /\ b.tier \in Tier /\ b.tier \notin Service
      /\ X \in SUBSET Service
  BY QuotationAssumption DEF BriefSound, Required
<1>4. LegacyItems(row, services, b) = sold \cup RevisionItems(row, b.tier)
  BY DEF LegacyItems
<1>5. /\ \A item \in sold : item.id # b.tier
      /\ \A item \in sold : item.id \in Service => item.id \in X /\ item.amount = services[item.id].price
  BY <1>2, <1>3
<1>6. \A item \in RevisionItems(row, b.tier) : item.id \notin Service
  BY <1>3 DEF RevisionItems
<1>7. Priced(sold)
  <2> HIDE DEF x
  <2>1. Priced({x})
    BY <1>2, PricedOne
  <2>2. \A item \in {x} : item.id \notin X
    BY <1>2, <1>3
  <2> HIDE DEF X
  <2>3. \A s \in X : services[s].price \in Nat \ {0}
    BY DEF X
  <2>4. QED
    BY <1>3, <2>1, <2>2, <2>3, ExtrasAddUp
<1> HIDE DEF sold, X
<1>8. Priced(sold \cup RevisionItems(row, b.tier))
  BY <1>3, <1>5, <1>7, RevisionPriced
<1>9. QED
  BY <1>4, <1>5, <1>6, <1>8 DEF X

\* What an estimate is when it is made, and stays while it is saved.
EstimateSound(e) ==
    /\ Priced(e.items) /\ TotalOf(e.items) = e.total /\ Chargeable(e.total)
    /\ e.weighted \in BOOLEAN
    /\ e.weighted => \A item \in e.items : item.id \notin Service
    /\ e.context \in {"test", "production"}

\* An item that is a service is one sold in the currency c, at its price.
SoldToday(item, c) ==
    item.id \in Service => /\ services[item.id].active
                           /\ services[item.id].currency = c
                           /\ services[item.id].price = item.amount

\* What is offered has a price.
LEMMA OfferedIsPriced ==
    ASSUME NEW row, NEW c, ServiceOffered(row, c)
    PROVE  row.active /\ row.currency = c /\ row.price \in Nat \ {0}
<1>1. MaxPrice \in Nat
  BY PricingAssumption
<1>2. QED
  BY <1>1 DEF ServiceOffered, ServiceAmounts, ServiceRules, Stored, Positive

LEMMA EstimateIsSound ==
    ASSUME CatalogueSound, features \in [Feature -> FeatureRow], NEW b, BriefSound(b),
           Estimable(commercePolicy, services, b, testing),
           Chargeable(Estimate(commercePolicy, services, features, b).total)
    PROVE  LET e == Estimate(commercePolicy, services, features, b)
           IN  /\ EstimateSound(e) /\ e.inputs = b
               /\ ~e.weighted => \A item \in e.items :
                     /\ SoldToday(item, e.currency)
                     /\ item.id \in Service => item.id \in Required(services, b)
<1> DEFINE row == commercePolicy
           e == Estimate(row, services, features, b)
<1>1. /\ row # Null /\ row.enabled /\ row.context # "unconfigured" /\ row.base # Null
      /\ ~row.engine => \A s \in Required(services, b) : ServiceOffered(services[s], row.currency)
  BY DEF Estimable, PolicyReady
<1>2. PolicySound(row)
  BY <1>1 DEF CatalogueSound
<1>3. row.engine \in BOOLEAN /\ row.context \in {"test", "production"}
  BY <1>1, <1>2 DEF PolicySound, PolicyRow, Contexts
<1>4. /\ e.items = IF row.engine THEN WeightedItems(row, features, b) ELSE LegacyItems(row, services, b)
      /\ e.total = TotalOf(e.items) /\ e.weighted = row.engine /\ e.context = row.context
      /\ e.currency = row.currency /\ e.inputs = b
  BY DEF Estimate
<1>5. CASE row.engine
  <2>1. Priced(e.items) /\ \A item \in e.items : item.id \notin Service
    BY <1>2, <1>4, <1>5, WeightedPriced
  <2> HIDE DEF e, row
  <2>2. QED
    BY <1>3, <1>4, <1>5, <2>1 DEF EstimateSound, e, row
<1>6. CASE ~row.engine
  <2>1. \A s \in Required(services, b) :
           /\ services[s].active /\ services[s].currency = row.currency
           /\ services[s].price \in Nat \ {0}
    BY <1>1, <1>6, OfferedIsPriced
  <2>2. /\ Priced(e.items)
        /\ \A item \in e.items : item.id \in Service =>
              /\ item.id \in Required(services, b)
              /\ item.amount = services[item.id].price
    BY <1>1, <1>2, <1>4, <1>6, <2>1, LegacyPriced
  <2>3. \A item \in e.items : SoldToday(item, e.currency)
    BY <1>4, <2>1, <2>2 DEF SoldToday
  <2> HIDE DEF e, row
  <2>4. QED
    BY <1>3, <1>4, <1>6, <2>2, <2>3 DEF EstimateSound, e, row
<1>7. QED
  BY <1>3, <1>5, <1>6

\* The quote keeps a weighted estimate whole, in its currency and context, and
\* what else it contains is sold today.
Honours(e, quote) ==
    /\ e # Null /\ e.weighted =>
          /\ e.items \subseteq quote.items
          /\ \A item \in quote.items \ e.items : item.id \in Service
          /\ quote.currency = e.currency
          /\ quote.context = e.context
    /\ \A item \in quote.items : SoldToday(item, quote.currency)

\* create_quote adds the extras to a sound basis.
LEMMA BasisAddsUp ==
    ASSUME NEW basis, EstimateSound(basis),
           ~basis.weighted => \A item \in basis.items :
              /\ SoldToday(item, basis.currency)
              /\ item.id \in Service => item.id \in Required(services, basis.inputs),
           NEW ids \in SUBSET Service,
           \A s \in Extras(basis, ids) : Offered(s, basis.currency)
    PROVE  LET extras == Extras(basis, ids)
               items  == basis.items \cup {[id |-> s, amount |-> services[s].price] : s \in extras}
           IN  /\ Priced(items)
               /\ TotalOf(items) = basis.total + MapThenSumSet(LAMBDA s : services[s].price, extras)
               /\ \A item \in items : SoldToday(item, basis.currency)
               /\ \A item \in items \ basis.items : item.id \in Service
<1> DEFINE extras == Extras(basis, ids)
           new == {[id |-> s, amount |-> services[s].price] : s \in extras}
           items == basis.items \cup new
<1>1. \A s \in extras : /\ services[s].active /\ services[s].currency = basis.currency
                        /\ services[s].price \in Nat \ {0}
  BY OfferedIsPriced DEF Offered
<1>2. extras \in SUBSET Service /\ \A item \in basis.items : item.id \notin extras
  BY DEF EstimateSound, Extras
<1>3. \A item \in new : item.id \in Service /\ SoldToday(item, basis.currency)
  BY <1>1, <1>2 DEF SoldToday
<1>4. \A item \in basis.items : SoldToday(item, basis.currency)
  BY DEF EstimateSound, SoldToday
<1> HIDE DEF extras
<1>5. Priced(items) /\ TotalOf(items) = TotalOf(basis.items)
                       + MapThenSumSet(LAMBDA s : services[s].price, extras)
  BY <1>1, <1>2, ExtrasAddUp DEF EstimateSound
<1>6. TotalOf(basis.items) = basis.total
  BY DEF EstimateSound
<1> HIDE DEF new
<1>7. QED
  BY <1>3, <1>4, <1>5, <1>6 DEF extras, new

\* A priced list with its total is what the audit of quotes expects.
LEMMA PricedSumsUp ==
    ASSUME NEW quote, Priced(quote.items), TotalOf(quote.items) = quote.total, Chargeable(quote.total)
    PROVE  SumsUp(quote)
  BY DEF Priced, SumsUp

\* The inductive invariant of the order.
OrderSound ==
    /\ CatalogueSound
    /\ features \in [Feature -> FeatureRow]
    /\ BriefSound(brief)
    /\ estimate # Null => EstimateSound(estimate)
    /\ made \in Nat
    /\ quotes = [q \in QuoteId |-> quotes[q]]
    /\ \A q \in 1..made : SumsUp(quotes[q])

\* The quote is the next one, and the earlier ones stay.
Appended(quote) ==
    /\ made' = made + 1
    /\ quotes'[made'] = quote
    /\ quotes' = [q \in QuoteId |-> quotes'[q]]
    /\ \A q \in 1..made : quotes'[q] = quotes[q]

LEMMA NewQuoteAppends ==
    ASSUME OrderSound, NEW quote, NewQuote(quote)
    PROVE  Appended(quote) /\ Chargeable(quote.total)
<1>1. made + 1 \in QuoteId
  BY QuotationAssumption DEF OrderSound, NewQuote, QuoteId
<1>2. /\ made' = made + 1 /\ quotes' = [quotes EXCEPT ![made + 1] = quote]
      /\ Chargeable(quote.total) /\ made \in Nat
      /\ quotes = [q \in QuoteId |-> quotes[q]]
  BY DEF NewQuote, OrderSound
<1>3. \A q \in 1..made : q # made + 1
  BY <1>2
<1>4. quotes' = [q \in QuoteId |-> IF q = made + 1 THEN quote ELSE quotes[q]]
  BY <1>2
<1>5. \A q \in 1..made : q \in QuoteId
  BY <1>1, <1>2, QuotationAssumption DEF QuoteId
<1>6. QED
  BY <1>1, <1>2, <1>3, <1>4, <1>5 DEF Appended

LEMMA CustomQuoteSound ==
    ASSUME OrderSound, NEW e, e # Null => EstimateSound(e), NEW b, BriefSound(b),
           NEW ids \in SUBSET Service, CustomQuote(e, b, ids)
    PROVE  \E quote : Appended(quote) /\ SumsUp(quote) /\ Honours(e, quote)
<1>1. PICK basis \in Basis(e, b) :
         /\ \A s \in Extras(basis, ids) : Offered(s, basis.currency)
         /\ NewQuote([kind |-> "custom",
                        items |-> basis.items \cup {[id |-> s, amount |-> services[s].price] :
                                                       s \in Extras(basis, ids)},
                        total |-> basis.total + MapThenSumSet(LAMBDA s : services[s].price,
                                                                Extras(basis, ids)),
                        currency |-> basis.currency, context |-> basis.context,
                        inputs |-> b])
  BY DEF CustomQuote
<1> DEFINE extras == Extras(basis, ids)
           items == basis.items \cup {[id |-> s, amount |-> services[s].price] : s \in extras}
           total == basis.total + MapThenSumSet(LAMBDA s : services[s].price, extras)
           quote == [kind |-> "custom", items |-> items, total |-> total,
                     currency |-> basis.currency, context |-> basis.context, inputs |-> b]
<1>2. /\ EstimateSound(basis)
      /\ ~basis.weighted => \A item \in basis.items :
            /\ SoldToday(item, basis.currency)
            /\ item.id \in Service => item.id \in Required(services, basis.inputs)
      /\ e # Null /\ e.weighted => basis = e
  <2>1. CASE Reusable(e)
    <3>1. basis = e /\ e # Null /\ e.weighted
      BY <1>1, <2>1 DEF Basis, Reusable
    <3>2. QED
      BY <3>1
  <2>2. CASE ~Reusable(e)
    <3>1. /\ Estimable(commercePolicy, services, b, testing)
          /\ Chargeable(Estimate(commercePolicy, services, features, b).total)
          /\ basis = Estimate(commercePolicy, services, features, b)
      BY <1>1, <2>2 DEF Basis
    <3>2. /\ EstimateSound(basis) /\ basis.inputs = b
          /\ ~basis.weighted => \A item \in basis.items :
                /\ SoldToday(item, basis.currency)
                /\ item.id \in Service => item.id \in Required(services, b)
      BY <3>1, EstimateIsSound DEF OrderSound
    <3>3. ~(e # Null /\ e.weighted)
      BY <2>2 DEF EstimateSound, Reusable, Priced, Chargeable
    <3>4. QED
      BY <3>2, <3>3
  <2>3. QED
    BY <2>1, <2>2
<1>3. /\ Priced(items) /\ TotalOf(items) = total
      /\ \A item \in items : SoldToday(item, basis.currency)
      /\ \A item \in items \ basis.items : item.id \in Service
  BY <1>1, <1>2, BasisAddsUp
<1>4. basis.items \subseteq items
  OBVIOUS
<1>5. NewQuote(quote)
  BY <1>1
<1>6. /\ quote.items = items /\ quote.total = total
      /\ quote.currency = basis.currency /\ quote.context = basis.context
  OBVIOUS
<1> HIDE DEF quote, items, total
<1>7. Appended(quote) /\ Chargeable(quote.total)
  BY <1>5, NewQuoteAppends
<1>8. SumsUp(quote)
  BY <1>3, <1>6, <1>7, PricedSumsUp
<1>9. Honours(e, quote)
  BY <1>2, <1>3, <1>4, <1>6 DEF Honours
<1>10. QED
  BY <1>7, <1>8, <1>9

LEMMA PlanQuoteSound ==
    ASSUME OrderSound, NEW period \in Periods, PlanQuote(period)
    PROVE  \E quote : Appended(quote) /\ SumsUp(quote) /\ quote.kind = "plan"
<1> DEFINE x == [id |-> "plan", amount |-> plan.price[period]]
           quote == [kind |-> "plan", items |-> {x}, total |-> plan.price[period],
                     currency |-> commercePolicy.currency, context |-> commercePolicy.context,
                     inputs |-> brief]
<1>1. plan.price[period] \in Nat \ {0}
  BY PricingAssumption DEF PlanQuote, PlanOffered, PlanAmounts, Stored, Positive
<1>2. x \in Item /\ x.amount > 0 /\ x.amount = plan.price[period]
  BY <1>1 DEF Item, Ids
<1>3. NewQuote(quote)
  BY DEF PlanQuote
<1>4. quote.items = {x} /\ quote.total = plan.price[period] /\ quote.kind = "plan"
  OBVIOUS
<1> HIDE DEF x, quote
<1>5. Priced(quote.items) /\ TotalOf(quote.items) = quote.total
  BY <1>2, <1>4, PricedOne
<1>6. Appended(quote) /\ Chargeable(quote.total)
  BY <1>3, NewQuoteAppends
<1>7. SumsUp(quote)
  BY <1>5, <1>6, PricedSumsUp
<1>8. QED
  BY <1>4, <1>6, <1>7

LEMMA InitOrder == QuotationInit => OrderSound
<1> SUFFICES ASSUME QuotationInit PROVE OrderSound
  OBVIOUS
<1>1. CatalogueSound
  BY InitCatalogue
<1>2. features \in [Feature -> FeatureRow]
  BY QuotationAssumption DEF QuotationInit
<1>3. BriefSound(brief)
  BY FS_EmptySet, QuotationAssumption DEF QuotationInit, BriefSound, NoBrief
<1>4. /\ estimate = Null /\ made = 0
      /\ quotes = [q \in QuoteId |-> quotes[q]]
  BY DEF QuotationInit
<1>5. \A q \in 1..made : SumsUp(quotes[q])
  BY <1>4
<1>6. QED
  BY <1>1, <1>2, <1>3, <1>4, <1>5 DEF OrderSound

\* A form's brief is one of the catalogue's features.
LEMMA FormBriefSound ==
    ASSUME NEW b \in Brief
    PROVE  BriefSound(b)
  BY FS_Subset, QuotationAssumption DEF BriefSound

LEMMA NoBriefSound == BriefSound(NoBrief)
  BY FS_EmptySet, QuotationAssumption DEF BriefSound, NoBrief

\* What a step with a quote in it does to the quotes.
LEMMA AppendedAddsUp ==
    ASSUME OrderSound, NEW quote, Appended(quote), SumsUp(quote)
    PROVE  /\ made' \in Nat
           /\ quotes' = [q \in QuoteId |-> quotes'[q]]
           /\ \A q \in 1..made' : SumsUp(quotes'[q])
<1>1. made \in Nat /\ made' = made + 1 /\ \A q \in 1..made : SumsUp(quotes[q])
  BY DEF OrderSound, Appended
<1>2. ASSUME NEW q \in 1..made' PROVE SumsUp(quotes'[q])
  <2>1. CASE q = made'
    BY <2>1 DEF Appended
  <2>2. CASE q # made'
    <3>1. q \in 1..made
      BY <1>1, <2>2
    <3>2. quotes'[q] = quotes[q] /\ SumsUp(quotes[q])
      BY <1>1, <3>1 DEF Appended
    <3>3. QED
      BY <3>2
  <2>3. QED
    BY <2>1, <2>2
<1>3. QED
  BY <1>1, <1>2 DEF Appended

\* What the handlers that quote a custom brief do: the quote honours the
\* estimate that is saved after the step.
LEMMA SaveCustomBriefSound ==
    ASSUME OrderSound, NEW b \in Brief, SaveCustomBrief(b)
    PROVE  /\ BriefSound(brief')
           /\ estimate' # Null => EstimateSound(estimate')
           /\ UNCHANGED <<quotes, made>>
                 \/ \E quote : Appended(quote) /\ SumsUp(quote) /\ Honours(estimate', quote)
<1> DEFINE saved == Estimate(commercePolicy, services, features, b)
           priced == /\ Estimable(commercePolicy, services, b, testing)
                     /\ Chargeable(saved.total)
<1>1. BriefSound(b) /\ brief' = b
  BY FormBriefSound DEF SaveCustomBrief
<1>2. CASE priced
  <2>1. EstimateSound(saved)
    BY <1>1, <1>2, EstimateIsSound DEF OrderSound
  <2>2. estimate' = saved /\ CustomQuote(saved, b, {})
    BY <1>2 DEF SaveCustomBrief
  <2> HIDE DEF saved
  <2>3. \E quote : Appended(quote) /\ SumsUp(quote) /\ Honours(saved, quote)
    BY <1>1, <2>1, <2>2, CustomQuoteSound
  <2>4. QED
    BY <1>1, <2>1, <2>2, <2>3
<1>3. CASE ~priced
  <2>1. estimate' = Null /\ UNCHANGED <<quotes, made>>
    BY <1>3 DEF SaveCustomBrief
  <2>2. QED
    BY <1>1, <2>1
<1>4. QED
  BY <1>2, <1>3

LEMMA CreateCustomQuoteSound ==
    ASSUME OrderSound, NEW ids \in SUBSET Service, CreateCustomQuote(ids)
    PROVE  \E quote : Appended(quote) /\ SumsUp(quote) /\ Honours(estimate', quote)
<1>1. CustomQuote(estimate, brief, ids) /\ estimate' = estimate
  BY DEF CreateCustomQuote
<1>2. BriefSound(brief) /\ (estimate # Null => EstimateSound(estimate))
  BY DEF OrderSound
<1>3. \E quote : Appended(quote) /\ SumsUp(quote) /\ Honours(estimate, quote)
  BY <1>1, <1>2, CustomQuoteSound
<1>4. QED
  BY <1>1, <1>3

LEMMA NextOrder == OrderSound /\ [QuotationNext]_quotationVars => OrderSound'
<1> SUFFICES ASSUME OrderSound, [QuotationNext]_quotationVars PROVE OrderSound'
  OBVIOUS
<1>1. CatalogueSound'
  BY NextCatalogue DEF OrderSound
<1>2. ASSUME UNCHANGED order, features' \in [Feature -> FeatureRow] PROVE OrderSound'
  BY <1>1, <1>2 DEF OrderSound, order
<1>3. ASSUME UNCHANGED features, BriefSound(brief'), estimate' # Null => EstimateSound(estimate'),
             UNCHANGED <<quotes, made>>
                \/ \E quote : Appended(quote) /\ SumsUp(quote)
      PROVE  OrderSound'
  <2>1. CASE UNCHANGED <<quotes, made>>
    BY <1>1, <1>3, <2>1 DEF OrderSound
  <2>2. CASE \E quote : Appended(quote) /\ SumsUp(quote)
    <3>1. /\ made' \in Nat
          /\ quotes' = [q \in QuoteId |-> quotes'[q]]
          /\ \A q \in 1..made' : SumsUp(quotes'[q])
      BY <2>2, AppendedAddsUp
    <3>2. QED
      BY <1>1, <1>3, <3>1 DEF OrderSound
  <2>3. QED
    BY <1>3, <2>1, <2>2
<1>4. features \in [Feature -> FeatureRow] /\ BriefSound(brief)
      /\ (estimate # Null => EstimateSound(estimate))
  BY DEF OrderSound
<1>5. CASE \E form \in PolicyForms : SaveCommercePolicy(form)
  BY <1>2, <1>4, <1>5 DEF SaveCommercePolicy
<1>6. CASE \E s \in Service, form \in ServiceForms : SaveService(s, form)
  BY <1>2, <1>4, <1>6 DEF SaveService
<1>7. CASE \E form \in PlanForms : SavePlan(form)
  BY <1>2, <1>4, <1>7 DEF SavePlan
<1>8. CASE \E f \in Feature, form \in FeatureForms : SaveFeature(f, form)
  <2>1. UNCHANGED order /\ features' \in [Feature -> FeatureRow]
    BY <1>4, <1>8, QuotationAssumption DEF SaveFeature
  <2>2. QED
    BY <1>2, <2>1
<1>9. CASE \E prices \in TestPrices : ConfigureTestQuotation(prices)
  BY <1>2, <1>4, <1>9 DEF ConfigureTestQuotation
<1>10. CASE Redeploy
  BY <1>2, <1>4, <1>10 DEF Redeploy, catalogue
<1>11. CASE \E b \in Brief : SaveCustomBrief(b)
  <2>1. UNCHANGED features
    BY <1>11 DEF SaveCustomBrief, catalogue
  <2>2. QED
    BY <1>3, <1>11, <2>1, SaveCustomBriefSound
<1>12. CASE SavePlanBrief
  BY <1>3, <1>12, NoBriefSound DEF SavePlanBrief, catalogue
<1>13. CASE \E period \in Periods : CreatePlanQuote(period)
  <2>1. PICK period \in Periods : PlanQuote(period)
    BY <1>13 DEF CreatePlanQuote
  <2>2. \E quote : Appended(quote) /\ SumsUp(quote)
    BY <2>1, PlanQuoteSound
  <2>3. UNCHANGED <<features, brief, estimate>>
    BY <1>13 DEF CreatePlanQuote, catalogue
  <2>4. QED
    BY <1>3, <1>4, <2>2, <2>3
<1>14. CASE \E ids \in SUBSET Service : CreateCustomQuote(ids)
  <2>1. \E quote : Appended(quote) /\ SumsUp(quote)
    BY <1>14, CreateCustomQuoteSound
  <2>2. UNCHANGED <<features, brief, estimate>>
    BY <1>14 DEF CreateCustomQuote, catalogue
  <2>3. QED
    BY <1>3, <1>4, <2>1, <2>2
<1>15. CASE \E q \in QuoteId : AcceptQuote(q)
  BY <1>3, <1>4, <1>15 DEF AcceptQuote, catalogue
<1>16. CASE UNCHANGED quotationVars
  BY <1>2, <1>4, <1>16 DEF quotationVars, catalogue
<1>17. QED
  BY <1>5, <1>6, <1>7, <1>8, <1>9, <1>10, <1>11, <1>12, <1>13, <1>14, <1>15, <1>16
     DEF QuotationNext, Administer, Order

\* A saved estimate and every quote are lists of distinct positive items that
\* add up to the total asked: create_quote of core/commerce.py, for every
\* catalogue, brief and choice of services.
THEOREM QuotationQuotesAddUp == QuotationSpec => []QuotesAddUp
<1>1. QuotationInit => OrderSound
  BY InitOrder
<1>2. OrderSound /\ [QuotationNext]_quotationVars => OrderSound'
  BY NextOrder
<1>3. OrderSound => QuotesAddUp
  BY PricedSumsUp DEF OrderSound, EstimateSound, QuotesAddUp
<1>4. QED
  BY <1>1, <1>2, <1>3, PTL DEF QuotationSpec

\* The action of EstimateIsHonoured.
LEMMA QuoteHonoursEstimate ==
    ASSUME OrderSound, QuotationNext, made' # made, quotes'[made'].kind = "custom"
    PROVE  Honours(estimate', quotes'[made'])
<1>1. CASE Administer
  BY <1>1 DEF Administer, SaveCommercePolicy, SaveService, SavePlan, SaveFeature,
              ConfigureTestQuotation, Redeploy, order
<1>2. CASE \E b \in Brief : SaveCustomBrief(b)
  <2>1. \E quote : Appended(quote) /\ Honours(estimate', quote)
    BY <1>2, SaveCustomBriefSound
  <2>2. QED
    BY <2>1 DEF Appended
<1>3. CASE SavePlanBrief
  BY <1>3 DEF SavePlanBrief
<1>4. CASE \E period \in Periods : CreatePlanQuote(period)
  <2>1. PICK period \in Periods : PlanQuote(period)
    BY <1>4 DEF CreatePlanQuote
  <2>2. \E quote : Appended(quote) /\ quote.kind = "plan"
    BY <2>1, PlanQuoteSound
  <2>3. QED
    BY <2>2 DEF Appended
<1>5. CASE \E ids \in SUBSET Service : CreateCustomQuote(ids)
  <2>1. \E quote : Appended(quote) /\ Honours(estimate', quote)
    BY <1>5, CreateCustomQuoteSound
  <2>2. QED
    BY <2>1 DEF Appended
<1>6. CASE \E q \in QuoteId : AcceptQuote(q)
  BY <1>6 DEF AcceptQuote
<1>7. QED
  BY <1>1, <1>2, <1>3, <1>4, <1>5, <1>6 DEF QuotationNext, Order

\* A custom quote contains the saved weighted estimate whole, in its currency
\* and context, and otherwise only services sold today at today's price, however
\* often the catalogue was edited since the estimate was saved.
THEOREM QuotationEstimateIsHonoured == QuotationSpec => EstimateIsHonoured
<1> DEFINE Honoured ==
      made' # made /\ quotes'[made'].kind = "custom" =>
         LET quote == quotes'[made']
         IN /\ estimate' # Null /\ estimate'.weighted =>
                  /\ estimate'.items \subseteq quote.items
                  /\ \A item \in quote.items \ estimate'.items : item.id \in Service
                  /\ quote.currency = estimate'.currency
                  /\ quote.context = estimate'.context
            /\ \A item \in quote.items : item.id \in Service =>
                  /\ services[item.id].active
                  /\ services[item.id].currency = quote.currency
                  /\ services[item.id].price = item.amount
<1>1. QuotationInit => OrderSound
  BY InitOrder
<1>2. OrderSound /\ [QuotationNext]_quotationVars => OrderSound'
  BY NextOrder
<1>3. OrderSound /\ [QuotationNext]_quotationVars => [Honoured]_(quotationVars)
  BY QuoteHonoursEstimate DEF Honours, SoldToday
<1>4. QED
  BY <1>1, <1>2, <1>3, PTL DEF QuotationSpec, EstimateIsHonoured

-----------------------------------------------------------------------------
(* Quotations: the types *)

LEMMA EstimateTyped ==
    ASSUME OrderSound, NEW b \in [wants : SUBSET Feature, tier : Tier], BriefSound(b),
           Estimable(commercePolicy, services, b, testing),
           Chargeable(Estimate(commercePolicy, services, features, b).total)
    PROVE  Estimate(commercePolicy, services, features, b) \in Snapshot
<1> DEFINE e == Estimate(commercePolicy, services, features, b)
<1>1. EstimateSound(e) /\ e.inputs = b
  BY EstimateIsSound DEF OrderSound
<1>2. e.items \in SUBSET Item /\ e.total \in Nat /\ e.weighted \in BOOLEAN
  BY <1>1, PricingAssumption DEF EstimateSound, Priced, FiniteSubsetsOf, Chargeable
<1>3. e.currency \in Currency /\ e.context \in Contexts
  BY DEF Estimate, Estimable, PolicyReady, PolicyRules, OrderSound, CatalogueSound, PolicySound,
         PolicyRow
<1>4. e = [weighted |-> e.weighted, items |-> e.items, total |-> e.total,
           currency |-> e.currency, context |-> e.context, inputs |-> b]
  BY DEF Estimate
<1> HIDE DEF e
<1>5. e \in Snapshot
  BY <1>2, <1>3, <1>4 DEF Snapshot
<1>6. QED
  BY <1>5 DEF e

LEMMA CustomQuoteTyped ==
    ASSUME OrderSound, NEW e \in Snapshot \cup {Null}, NEW b, BriefSound(b),
           b \in [wants : SUBSET Feature, tier : Tier],
           NEW ids \in SUBSET Service, CustomQuote(e, b, ids)
    PROVE  \E quote \in Quote : Appended(quote) /\ made < MaxQuotes
<1>1. PICK basis \in Basis(e, b) :
         /\ \A s \in Extras(basis, ids) : Offered(s, basis.currency)
         /\ NewQuote([kind |-> "custom",
                      items |-> basis.items \cup {[id |-> s, amount |-> services[s].price] :
                                                     s \in Extras(basis, ids)},
                      total |-> basis.total + MapThenSumSet(LAMBDA s : services[s].price,
                                                            Extras(basis, ids)),
                      currency |-> basis.currency, context |-> basis.context,
                      inputs |-> b])
  BY DEF CustomQuote
<1> DEFINE extras == Extras(basis, ids)
           new == {[id |-> s, amount |-> services[s].price] : s \in extras}
           items == basis.items \cup new
           total == basis.total + MapThenSumSet(LAMBDA s : services[s].price, extras)
           quote == [kind |-> "custom", items |-> items, total |-> total,
                     currency |-> basis.currency, context |-> basis.context, inputs |-> b]
<1>2. basis \in Snapshot
  <2>1. CASE Reusable(e)
    BY <1>1, <2>1 DEF Basis, Reusable
  <2>2. CASE ~Reusable(e)
    BY <1>1, <2>2, EstimateTyped DEF Basis
  <2>3. QED
    BY <2>1, <2>2
<1>3. extras \in SUBSET Service
  BY DEF Extras
<1>4. \A s \in extras : services[s].price \in Nat
  BY <1>1, OfferedIsPriced DEF Offered
<1>5. NewQuote(quote)
  BY <1>1
<1> HIDE DEF extras
<1>6. new \in SUBSET Item
  BY <1>3, <1>4 DEF Item, Ids
<1> HIDE DEF new
<1>7. items \in SUBSET Item
  BY <1>2, <1>6 DEF Snapshot
<1> HIDE DEF total, items
<1>8. Appended(quote) /\ Chargeable(quote.total) /\ made < MaxQuotes
  BY <1>5, NewQuoteAppends DEF NewQuote
<1>9. total \in Nat
  BY <1>8, PricingAssumption DEF Chargeable
<1>10. quote \in Quote
  BY <1>2, <1>7, <1>9 DEF Quote, Snapshot
<1>11. QED
  BY <1>8, <1>10

LEMMA PlanQuoteTyped ==
    ASSUME OrderSound, brief \in [wants : SUBSET Feature, tier : Tier],
           NEW period \in Periods, PlanQuote(period)
    PROVE  \E quote \in Quote : Appended(quote) /\ made < MaxQuotes
<1> DEFINE price == plan.price[period]
           item == [id |-> "plan", amount |-> price]
           quote == [kind |-> "plan", items |-> {item}, total |-> price,
                     currency |-> commercePolicy.currency, context |-> commercePolicy.context,
                     inputs |-> brief]
<1>1. price \in Nat
  BY PricingAssumption DEF PlanQuote, PlanOffered, PlanAmounts, Stored, Positive
<1>2. commercePolicy.currency \in Currency /\ commercePolicy.context \in Contexts
  BY DEF PlanQuote, PolicyReady, PolicyRules, OrderSound, CatalogueSound, PolicySound, PolicyRow
<1>3. NewQuote(quote)
  BY DEF PlanQuote
<1> HIDE DEF price
<1>4. item \in Item
  BY <1>1 DEF Item, Ids
<1> HIDE DEF item
<1>5. quote \in Quote
  BY <1>1, <1>2, <1>4 DEF Quote
<1> HIDE DEF quote
<1>6. QED
  BY <1>3, <1>5, NewQuoteAppends DEF NewQuote

\* The types of what an administrator does not touch.
OrderTyped ==
    /\ brief \in Brief \cup {NoBrief}
    /\ estimate \in Snapshot \cup {Null}
    /\ made \in 0..MaxQuotes
    /\ \A q \in 1..made : quotes[q] \in Quote
    /\ accepted \in 0..made

LEMMA BriefTyped == Brief \cup {NoBrief} \subseteq [wants : SUBSET Feature, tier : Tier]
  BY QuotationAssumption DEF NoBrief

LEMMA AppendedTyped ==
    ASSUME OrderSound, OrderTyped, NEW quote \in Quote, Appended(quote), made < MaxQuotes
    PROVE  made' \in 0..MaxQuotes /\ made < made' /\ \A q \in 1..made' : quotes'[q] \in Quote
<1>1. made \in Nat /\ made' = made + 1 /\ MaxQuotes \in Nat
  BY QuotationAssumption DEF OrderSound, Appended
<1>2. ASSUME NEW q \in 1..made' PROVE quotes'[q] \in Quote
  <2>1. CASE q = made'
    BY <2>1 DEF Appended
  <2>2. CASE q # made'
    <3>1. q \in 1..made
      BY <1>1, <2>2
    <3>2. QED
      BY <3>1 DEF OrderTyped, Appended
  <2>3. QED
    BY <2>1, <2>2
<1>3. QED
  BY <1>1, <1>2

LEMMA NextTyped == OrderSound /\ OrderTyped /\ [QuotationNext]_quotationVars => OrderTyped'
<1> SUFFICES ASSUME OrderSound, OrderTyped, [QuotationNext]_quotationVars PROVE OrderTyped'
  OBVIOUS
<1>1. /\ BriefSound(brief) /\ brief \in [wants : SUBSET Feature, tier : Tier]
      /\ brief \in Brief \cup {NoBrief} /\ estimate \in Snapshot \cup {Null}
      /\ made \in Nat /\ accepted \in 0..made
  BY BriefTyped DEF OrderSound, OrderTyped
<1>2. ASSUME brief' \in Brief \cup {NoBrief}, estimate' \in Snapshot \cup {Null},
             accepted' \in {0, accepted},
             UNCHANGED <<quotes, made>>
                \/ \E quote \in Quote : Appended(quote) /\ made < MaxQuotes
      PROVE  OrderTyped'
  <2>1. CASE UNCHANGED <<quotes, made>>
    BY <1>1, <1>2, <2>1 DEF OrderTyped
  <2>2. CASE \E quote \in Quote : Appended(quote) /\ made < MaxQuotes
    <3>1. made' \in 0..MaxQuotes /\ made < made' /\ \A q \in 1..made' : quotes'[q] \in Quote
      BY <2>2, AppendedTyped
    <3>2. accepted' \in 0..made'
      BY <1>1, <1>2, <3>1
    <3>3. QED
      BY <1>2, <3>1, <3>2 DEF OrderTyped
  <2>3. QED
    BY <1>2, <2>1, <2>2
<1>3. CASE UNCHANGED order
  BY <1>3 DEF order, OrderTyped
<1>4. CASE Administer
  BY <1>3, <1>4 DEF Administer, SaveCommercePolicy, SaveService, SavePlan, SaveFeature,
                    ConfigureTestQuotation, Redeploy
<1>5. ASSUME NEW b \in Brief, SaveCustomBrief(b) PROVE OrderTyped'
  <2> DEFINE saved == Estimate(commercePolicy, services, features, b)
             priced == /\ Estimable(commercePolicy, services, b, testing)
                       /\ Chargeable(saved.total)
  <2>1. BriefSound(b) /\ b \in [wants : SUBSET Feature, tier : Tier]
    BY FormBriefSound, BriefTyped
  <2>2. brief' = b /\ accepted' = 0
    BY <1>5 DEF SaveCustomBrief
  <2>3. CASE priced
    <3>1. saved \in Snapshot
      BY <2>1, <2>3, EstimateTyped
    <3>2. estimate' = saved /\ CustomQuote(saved, b, {})
      BY <1>5, <2>3 DEF SaveCustomBrief
    <3> HIDE DEF saved
    <3>3. \E quote \in Quote : Appended(quote) /\ made < MaxQuotes
      BY <2>1, <3>1, <3>2, CustomQuoteTyped
    <3>4. QED
      BY <1>2, <2>2, <3>1, <3>2, <3>3
  <2>4. CASE ~priced
    <3>1. estimate' = Null /\ UNCHANGED <<quotes, made>>
      BY <1>5, <2>4 DEF SaveCustomBrief
    <3>2. QED
      BY <1>2, <2>2, <3>1
  <2>5. QED
    BY <2>3, <2>4
<1>6. CASE SavePlanBrief
  BY <1>2, <1>6 DEF SavePlanBrief
<1>7. ASSUME NEW period \in Periods, CreatePlanQuote(period) PROVE OrderTyped'
  <2>1. \E quote \in Quote : Appended(quote) /\ made < MaxQuotes
    BY <1>1, <1>7, PlanQuoteTyped DEF CreatePlanQuote
  <2>2. QED
    BY <1>1, <1>2, <1>7, <2>1 DEF CreatePlanQuote
<1>8. ASSUME NEW ids \in SUBSET Service, CreateCustomQuote(ids) PROVE OrderTyped'
  <2>1. \E quote \in Quote : Appended(quote) /\ made < MaxQuotes
    BY <1>1, <1>8, CustomQuoteTyped DEF CreateCustomQuote
  <2>2. QED
    BY <1>1, <1>2, <1>8, <2>1 DEF CreateCustomQuote
<1>9. ASSUME NEW q \in QuoteId, AcceptQuote(q) PROVE OrderTyped'
  <2>1. accepted' = made /\ UNCHANGED <<brief, estimate, quotes, made>>
    BY <1>9 DEF AcceptQuote
  <2>2. QED
    BY <1>1, <2>1 DEF OrderTyped
<1>10. CASE UNCHANGED quotationVars
  BY <1>3, <1>10 DEF quotationVars
<1>11. QED
  BY <1>4, <1>5, <1>6, <1>7, <1>8, <1>9, <1>10 DEF QuotationNext, Order

\* Rows, estimates and quotes have the fields and values the tables of
\* core/models.py allow, and the accepted quote exists.
THEOREM QuotationTypes == QuotationSpec => []QuotationTypeOK
<1> DEFINE Bounded == testing \in BOOLEAN /\ edits \in 0..MaxEdits
<1>1. QuotationInit => OrderSound /\ OrderTyped /\ Bounded
  BY InitOrder, QuotationAssumption DEF QuotationInit, OrderTyped
<1>2. OrderSound /\ OrderTyped /\ Bounded /\ [QuotationNext]_quotationVars
      => (OrderSound /\ OrderTyped /\ Bounded)'
  <2> SUFFICES ASSUME OrderSound, OrderTyped, Bounded, [QuotationNext]_quotationVars
               PROVE  OrderSound' /\ OrderTyped' /\ Bounded'
    OBVIOUS
  <2>1. OrderSound' /\ OrderTyped'
    BY NextOrder, NextTyped
  <2>2. ASSUME Edit PROVE edits' \in 0..MaxEdits
    BY <2>2, QuotationAssumption DEF Edit
  <2>3. CASE Edit /\ testing' \in BOOLEAN
    BY <2>1, <2>2, <2>3
  <2>4. CASE UNCHANGED <<testing, edits>>
    BY <2>1, <2>4
  <2>5. QED
    BY <2>3, <2>4 DEF QuotationNext, Administer, Order, SaveCommercePolicy, SaveService, SavePlan,
       SaveFeature, ConfigureTestQuotation, Redeploy, SaveCustomBrief, SavePlanBrief,
       CreatePlanQuote, CreateCustomQuote, AcceptQuote, quotationVars
<1>3. OrderSound /\ OrderTyped /\ Bounded => QuotationTypeOK
  BY DEF OrderSound, OrderTyped, CatalogueSound, ServiceSound, PlanSound, PolicySound,
         QuotationTypeOK
<1>4. QED
  BY <1>1, <1>2, <1>3, PTL DEF QuotationSpec

=============================================================================
