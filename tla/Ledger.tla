-------------------------------- MODULE Ledger --------------------------------
(* The coin ledger of operations/earnings.py: entries for accepted work,     *)
(* their release, redemption requests and their outcome.  Balances are sums  *)
(* of entries.                                                               *)
(*                                                                           *)
(* release_earning, request_redemption and decide_redemption lock the        *)
(* earning policy first; credit_acceptance runs in the acceptance's          *)
(* transaction and only adds an entry.  Each is one action.                  *)

EXTENDS Integers, FiniteSets, FiniteSetsExt

CONSTANTS
    Editor,       \* editors, each with one wallet
    Acceptance,   \* accepted deliveries
    Request,      \* request_key of redemption forms
    Coins,        \* what earning rules award
    Amounts,      \* what an editor may ask for
    Minimum,      \* redemption_minimum
    None

ASSUME LedgerAssumption ==
    /\ Coins \subseteq Nat \ {0}
    /\ Amounts \subseteq Nat \ {0}
    /\ Minimum \in Nat \ {0}
    /\ Acceptance \cap Request = {}
    /\ None \notin Editor

VARIABLES
    policy,       \* earning_policy: which services are enabled
    sandbox,      \* the server runs with DEBUG and the sandbox payout mode
    active,       \* editors whose account is active
    funded,       \* acceptances whose order is still "confirmed"
    acceptances,  \* delivery_acceptances: earning_status, editor, saved rule
    requests,     \* redemption_requests
    ledger        \* coin_transactions; of and word make up the event key

setting == <<policy, sandbox, active, funded>>
rows    == <<acceptances, requests>>
vars    == <<setting, rows, ledger>>

AcceptanceRow == [status : {"none", "pending_policy", "pending_release", "earned"},
                  editor : Editor \cup {None}, coins : Coins \cup {0}]
RequestRow    == [status : {"none", "requested", "paid", "failed", "rejected"},
                  editor : Editor \cup {None}, amount : Amounts \cup {0}]
Entry         == [of : Acceptance \cup Request,
                  word : {"pending", "pending_closed", "credit", "reserve", "redeem", "release"},
                  kind : {"pending", "credit", "reserve", "redeem", "release"},
                  editor : Editor, amount : Int \ {0}]

TypeOK ==
    /\ policy \in {"disabled", "earning", "redeeming"}
    /\ sandbox \in BOOLEAN
    /\ active \in SUBSET Editor
    /\ funded \in SUBSET Acceptance
    /\ acceptances \in [Acceptance -> AcceptanceRow]
    /\ requests \in [Request -> RequestRow]
    /\ ledger \in SUBSET Entry

Posting(of, word, kind, editor, amount) ==
    [of |-> of, word |-> word, kind |-> kind, editor |-> editor, amount |-> amount]

\* An event key is unique: get_or_create finds it, create is refused.
Fresh(of, word) == \A entry \in ledger : <<entry.of, entry.word>> # <<of, word>>

\* totals
Amount(entry)       == entry.amount
Total(editor, kinds) ==
    MapThenSumSet(Amount, {entry \in ledger : entry.editor = editor /\ entry.kind \in kinds})

\* Mutant: coins that are reserved can be asked for again.
RedeemableReserved(editor) == Total(editor, {"credit", "release"})

Redeemable(editor) == Total(editor, {"credit", "reserve", "release"})

-----------------------------------------------------------------------------
(* Settings and accounts *)

\* Redemption needs the sandbox when it is switched on (check_policy).
SavePolicy(new) ==
    /\ new = "redeeming" => sandbox
    /\ policy' = new
    /\ UNCHANGED <<sandbox, active, funded, rows, ledger>>

SwitchMode ==
    /\ sandbox' = ~sandbox
    /\ UNCHANGED <<policy, active, funded, rows, ledger>>

DeactivateEditor(e) ==
    /\ active' = active \ {e}
    /\ UNCHANGED <<policy, sandbox, funded, rows, ledger>>

\* The order of finished work turns "failed" after all (see Checkout).
LosePayment(a) ==
    /\ acceptances[a].status # "none"
    /\ funded' = funded \ {a}
    /\ UNCHANGED <<policy, sandbox, active, rows, ledger>>

-----------------------------------------------------------------------------
(* Earnings *)

\* credit_acceptance; coins = 0: the order was agreed without an earning rule.
CreditAcceptance(a, e, coins) ==
    /\ acceptances[a].status = "none"
    /\ acceptances' = [acceptances EXCEPT ![a] =
           [status |-> IF coins = 0 THEN "pending_policy" ELSE "pending_release",
            editor |-> e, coins |-> coins]]
    /\ ledger' = IF coins = 0 THEN ledger
                 ELSE ledger \cup {Posting(a, "pending", "pending", e, coins)}
    /\ UNCHANGED <<setting, requests>>

\* Mutant: the pending entry stays open.
ReleaseOpen(a, e, coins) == {Posting(a, "credit", "credit", e, coins)}

\* The two entries of a release.
Release(a, e, coins) == {Posting(a, "pending_closed", "pending", e, -coins),
                         Posting(a, "credit", "credit", e, coins)}

\* release_earning; a repeated release changes nothing.
ReleaseEarning(a) ==
    /\ acceptances[a].status = "pending_release"
    /\ a \in funded
    /\ Fresh(a, "pending_closed") /\ Fresh(a, "credit")
    /\ \E entry \in ledger :
          /\ entry.of = a /\ entry.word = "pending"
          /\ ledger' = ledger \cup Release(a, entry.editor, entry.amount)
    /\ acceptances' = [acceptances EXCEPT ![a].status = "earned"]
    /\ UNCHANGED <<setting, requests>>

-----------------------------------------------------------------------------
(* Redemptions *)

\* request_redemption; the same request key makes one request only.
RequestRedemption(e, amount, r) ==
    /\ e \in active
    /\ policy = "redeeming" /\ sandbox
    /\ amount >= Minimum
    /\ requests[r].status = "none"
    /\ Redeemable(e) >= amount
    /\ requests' = [requests EXCEPT ![r] = [status |-> "requested", editor |-> e, amount |-> amount]]
    /\ ledger' = ledger \cup {Posting(r, "reserve", "reserve", e, -amount)}
    /\ UNCHANGED <<setting, acceptances>>

\* A final outcome stays.
Decidable(r) == requests[r].status = "requested"

\* Mutant: the outcome replaces the reservation.
RewriteReserve(r) == {entry \in ledger : ~(entry.of = r /\ entry.word = "reserve")}

\* Entries stay as they are.
Kept(r) == ledger

Outcome(r, outcome) ==
    LET row == requests[r]
    IN  IF outcome = "paid" THEN {Posting(r, "redeem", "redeem", row.editor, row.amount)}
        ELSE {Posting(r, "release", "release", row.editor, row.amount)}

\* decide_redemption; only a rejection needs no payout provider.
DecideRedemption(r, outcome) ==
    /\ Decidable(r)
    /\ outcome \in {"paid", "failed"} => sandbox
    /\ \A entry \in Outcome(r, outcome) : Fresh(r, entry.word)
    /\ ledger' = Kept(r) \cup Outcome(r, outcome)
    /\ requests' = [requests EXCEPT ![r].status = outcome]
    /\ UNCHANGED <<setting, acceptances>>

-----------------------------------------------------------------------------

Init ==
    /\ policy = "disabled"
    /\ sandbox \in BOOLEAN
    /\ active = Editor
    /\ funded = Acceptance
    /\ acceptances = [a \in Acceptance |-> [status |-> "none", editor |-> None, coins |-> 0]]
    /\ requests = [r \in Request |-> [status |-> "none", editor |-> None, amount |-> 0]]
    /\ ledger = {}

Configure ==
    \/ \E new \in {"disabled", "earning", "redeeming"} : SavePolicy(new)
    \/ SwitchMode
    \/ \E e \in Editor : DeactivateEditor(e)
    \/ \E a \in Acceptance : LosePayment(a)

Account ==
    \/ \E a \in Acceptance, e \in Editor, coins \in Coins \cup {0} : CreditAcceptance(a, e, coins)
    \/ \E a \in Acceptance : ReleaseEarning(a)
    \/ \E e \in Editor, amount \in Amounts, r \in Request : RequestRedemption(e, amount, r)
    \/ \E r \in Request, outcome \in {"paid", "failed", "rejected"} : DecideRedemption(r, outcome)

Next == Configure \/ Account

Spec == Init /\ [][Next]_vars

-----------------------------------------------------------------------------
(* Safety *)

\* The entries a row in a given state has, exactly (_acceptance_findings,
\* _redemption_findings).
EntriesOfAcceptance(a) ==
    LET row == acceptances[a]
    IN  CASE row.status = "pending_release" ->
                {Posting(a, "pending", "pending", row.editor, row.coins)}
          [] row.status = "earned" ->
                {Posting(a, "pending", "pending", row.editor, row.coins)}
                \cup Release(a, row.editor, row.coins)
          [] OTHER -> {}

EntriesOfRequest(r) ==
    LET row == requests[r]
        reserve == {Posting(r, "reserve", "reserve", row.editor, -row.amount)}
    IN  CASE row.status = "none" -> {}
          [] row.status = "requested" -> reserve
          [] row.status = "paid" ->
                reserve \cup {Posting(r, "redeem", "redeem", row.editor, row.amount)}
          [] OTHER ->
                reserve \cup {Posting(r, "release", "release", row.editor, row.amount)}

EntriesOf(row) == {entry \in ledger : entry.of = row}

\* The ledger holds exactly the entries its rows account for, each once, whoever
\* repeats a release, a request or a decision, and in whatever order
\* (acceptance_ledger_mismatch, redemption_ledger_mismatch).
LedgerMatchesRows ==
    /\ \A a \in Acceptance : EntriesOf(a) = EntriesOfAcceptance(a)
    /\ \A r \in Request : EntriesOf(r) = EntriesOfRequest(r)

\* No editor ever has less than nothing in a balance, whatever is requested,
\* decided, disabled or deactivated in between (negative_pending_wallets,
\* negative_redeemable_wallets).
NothingOverdrawn == \A e \in Editor :
    /\ Total(e, {"pending"}) >= 0
    /\ Total(e, {"credit", "reserve", "release"}) >= 0

\* PHASE_6: the ledger is append-only, and final outcomes are final.
LedgerOnlyGrows ==
    [][/\ ledger \subseteq ledger'
       /\ \A r \in Request : requests[r].status \in {"paid", "failed", "rejected"} =>
             requests'[r] = requests[r]]_vars

\* Reserved coins: asked for, not yet paid out or returned.
Reserved(e) == -Total(e, {"reserve"}) - Total(e, {"redeem", "release"})

\* The promise of this module: coins move whole between four balances.
Abstract == INSTANCE Purse WITH
    Amounts    <- Coins \cup Amounts,
    pending    <- [e \in Editor |-> Total(e, {"pending"})],
    redeemable <- [e \in Editor |-> Redeemable(e)],
    reserved   <- [e \in Editor |-> Reserved(e)],
    redeemed   <- [e \in Editor |-> Total(e, {"redeem"})]

ImplementsPurse == Abstract!Spec

=============================================================================
