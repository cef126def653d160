---------------------------- MODULE OutboxProofs ----------------------------
(* Proofs of the safety properties of Outbox, for any number of notices,     *)
(* workers, attempts and crashes.                                            *)
(*                                                                           *)
(* MailsAreBounded is not inductive: that a settlement writes "sent" only    *)
(* when a mail went out needs what the worker holds in memory (Held), and    *)
(* that rows pass the audit needs that a living worker's claim is not taken  *)
(* over (Leased).                                                            *)
EXTENDS NotificationReconciliation, TLAPS

\* A worker is idle or holds an attempt its row has counted.
Held == \A w \in Worker :
    \/ worker[w] = Idle
    \/ /\ worker[w].task \in Notice
       /\ worker[w].phase # "idle"
       /\ delivery[worker[w].task].state # "none"
       /\ delivery[worker[w].task].state = "gone" \/
              (worker[w].attempt \in 1..delivery[worker[w].task].attempts
               /\ delivery[worker[w].task].state \notin {"held", "pending"})
       /\ worker[w].phase = "claimed" => worker[w].attempt \notin mails[worker[w].task]
       /\ worker[w].phase = "mailed" => mails[worker[w].task] # {}

\* No two workers hold the same attempt.
Apart == \A v, w \in Worker :
    worker[v].task = worker[w].task /\ worker[v].attempt = worker[w].attempt
        /\ worker[v] # Idle => v = w

\* A row counts the attempts that mailed, up to the limit.
Counted(n) ==
    /\ delivery[n].attempts <= MaxAttempts
    /\ delivery[n].state # "gone" => mails[n] \subseteq 1..delivery[n].attempts
    /\ delivery[n].state = "sent" => mails[n] # {}
    /\ delivery[n].state \in {"none", "held"} => delivery[n].attempts = 0

\* Without overruns a row that is being worked on is under its lease.
Leased == ~Overrun =>
    /\ \A w \in Worker : worker[w] = Idle
          \/ delivery[worker[w].task].state = "gone"
          \/ (delivery[worker[w].task].state = "processing"
              /\ delivery[worker[w].task].lease = "running")
    /\ \A v, w \in Worker : worker[v].task = worker[w].task /\ worker[v] # Idle => v = w

\* The metadata of a row fits its state.
Audited(row) ==
    /\ row.state \in {"none", "held"} => row.error = "null" /\ row.next = "null"
    /\ row.state = "processing" => row.attempts > 0 /\ row.lease # "null"
    /\ row.state = "failed" => row.attempts > 0 /\ row.next # "null" /\ row.error = "set"
    /\ row.state = "sent" => row.attempts > 0 /\ row.sentAt = "set" /\ row.next = "null"
    /\ row.state = "cancelled" => row.error = "set"
    /\ row.state # "processing" => row.lease = "null"
    /\ row.state # "sent" => row.sentAt = "null"
    /\ row.state \in {"pending", "failed"} => row.attempts < MaxAttempts

OInv ==
    /\ TypeOK
    /\ Held
    /\ Apart
    /\ \A n \in Notice : Counted(n)
    /\ Leased
    /\ ~Overrun => \A n \in Notice : Audited(delivery[n])

-----------------------------------------------------------------------------
(* Rows *)

\* NoRow is a delivery row, and so is every row a handler makes of one.
LEMMA RowTypes ==
    /\ NoRow \in DeliveryRow
    /\ \A row \in DeliveryRow :
          /\ Claimed(row) \in DeliveryRow
          /\ Refused(row) \in DeliveryRow
          /\ Sent(row) \in DeliveryRow
          /\ Failed(row) \in DeliveryRow
PROOF
<1>1. NoRow \in DeliveryRow
  BY DEF NoRow, DeliveryRow, States
<1>2. SUFFICES ASSUME NEW row \in DeliveryRow
               PROVE  /\ Claimed(row) \in DeliveryRow
                      /\ Refused(row) \in DeliveryRow
                      /\ Sent(row) \in DeliveryRow
                      /\ Failed(row) \in DeliveryRow
  BY <1>1
<1>3. Claimed(row) \in DeliveryRow
  <2>1. row.attempts + 1 \in Nat
    BY DEF DeliveryRow
  <2> DEFINE counted == [row EXCEPT !.attempts = row.attempts + 1]
  <2>2. counted \in DeliveryRow
    BY <2>1 DEF DeliveryRow
  <2>3. [counted EXCEPT !.state = "processing", !.lease = "running", !.error = "null"] \in DeliveryRow
    <3> HIDE DEF counted
    <3> QED BY <2>2 DEF DeliveryRow, States
  <2>4. Claimed(row) = [counted EXCEPT !.state = "processing", !.lease = "running", !.error = "null"]
    BY Zenon DEF Claimed
  <2> QED BY <2>3, <2>4
<1>4. Refused(row) \in DeliveryRow
  BY DEF Refused, DeliveryRow, States
<1>5. Sent(row) \in DeliveryRow
  BY DEF Sent, DeliveryRow, States
<1>6. Failed(row) \in DeliveryRow
  <2>1. CASE row.attempts >= MaxAttempts
    BY <2>1 DEF Failed, DeliveryRow, States
  <2>2. CASE ~(row.attempts >= MaxAttempts)
    BY <2>2 DEF Failed, DeliveryRow, States
  <2> QED BY <2>1, <2>2
<1> QED BY <1>3, <1>4, <1>5, <1>6

\* What the handlers leave of a row's fields.
LEMMA RowFields == \A row \in DeliveryRow :
    /\ Claimed(row).state = "processing" /\ Claimed(row).attempts = row.attempts + 1
    /\ Claimed(row).lease = "running" /\ Claimed(row).sentAt = row.sentAt
    /\ Refused(row).state = "cancelled" /\ Refused(row).attempts = row.attempts
    /\ Sent(row).state = "sent" /\ Sent(row).attempts = row.attempts
    /\ Failed(row).state \in {"cancelled", "failed"} /\ Failed(row).attempts = row.attempts
PROOF
BY DEF Claimed, Refused, Sent, Failed, DeliveryRow

\* Auditing survives each handler's write.
LEMMA RowsAudited == \A row \in DeliveryRow : Audited(row) =>
    /\ row.state \in {"pending", "processing", "failed"} => Audited(Claimed(row)) /\ Audited(Refused(row))
    /\ row.state = "processing" => Audited(Sent(row)) /\ Audited(Failed(row))
PROOF
<1> SUFFICES ASSUME NEW row \in DeliveryRow, Audited(row)
             PROVE  /\ row.state \in {"pending", "processing", "failed"} =>
                          Audited(Claimed(row)) /\ Audited(Refused(row))
                    /\ row.state = "processing" => Audited(Sent(row)) /\ Audited(Failed(row))
  OBVIOUS
<1>1. ASSUME row.state \in {"pending", "processing", "failed"}
      PROVE  Audited(Claimed(row))
  BY <1>1 DEF Audited, Claimed, DeliveryRow
<1>2. ASSUME row.state \in {"pending", "processing", "failed"}
      PROVE  Audited(Refused(row))
  BY <1>2 DEF Audited, Refused, DeliveryRow
<1>3. ASSUME row.state = "processing"
      PROVE  Audited(Sent(row))
  BY <1>3 DEF Audited, Sent, DeliveryRow
<1>4. ASSUME row.state = "processing"
      PROVE  Audited(Failed(row))
  BY <1>4, OutboxAssumption DEF Audited, Failed, DeliveryRow
<1> QED BY <1>1, <1>2, <1>3, <1>4

-----------------------------------------------------------------------------
(* Steps *)

\* OInv looks at rows, workers and mails only.
LEMMA QuietStep ==
    ASSUME OInv, TypeOK', UNCHANGED <<delivery, worker, mails>>
    PROVE  OInv'
PROOF
BY DEF OInv, Held, Apart, Counted, Leased, Audited

\* A step that leaves workers and mails alone keeps OInv if every row stays
\* sound and no row that a worker holds changes but to be deleted.
LEMMA RowStep ==
    ASSUME OInv, TypeOK', UNCHANGED <<worker, mails>>,
           \A n \in Notice : Counted(n)',
           ~Overrun => \A n \in Notice : Audited(delivery'[n]),
           \A w \in Worker : worker[w] # Idle =>
               LET n == worker[w].task
               IN \/ delivery'[n].state = "gone"
                  \/ /\ delivery'[n].state = delivery[n].state
                     /\ delivery'[n].attempts = delivery[n].attempts
                     /\ ~Overrun => delivery'[n].lease = delivery[n].lease
    PROVE  OInv'
PROOF
<1>1. Held'
  BY DEF OInv, Held
<1>2. Apart'
  BY DEF OInv, Apart
<1>3. Leased'
  BY DEF OInv, Leased
<1> QED BY <1>1, <1>2, <1>3 DEF OInv

\* New rows: nobody works on them yet, and nothing was mailed for them.
LEMMA CreatedKeeps ==
    ASSUME OInv, NEW new \in SUBSET Notice, \A n \in new : delivery[n].state = "none",
           Created(new), UNCHANGED <<worker, mails, eligible, enabled, crashes>>,
           campaign' \in {"draft", "published", "archived", "deleted"}
    PROVE  OInv'
PROOF
<1> DEFINE row == [NoRow EXCEPT !.state = IF enabled THEN "pending" ELSE "held",
                                !.created = clock + 1]
<1>1. /\ row \in DeliveryRow
      /\ row.state \in {"pending", "held"} /\ row.attempts = 0 /\ row.next = "null"
      /\ row.lease = "null" /\ row.sentAt = "null" /\ row.error = "null"
  <2> DEFINE state == IF enabled THEN "pending" ELSE "held"
  <2>1. state \in {"pending", "held"}
    OBVIOUS
  <2>2. clock + 1 \in Nat
    BY DEF OInv, TypeOK
  <2> HIDE DEF state
  <2> QED BY <2>1, <2>2 DEF NoRow, DeliveryRow, States
<1>2. \A n \in Notice : delivery'[n] = IF n \in new THEN row ELSE delivery[n]
  BY DEF Created
<1>3. clock' \in Nat
  BY DEF Created, OInv, TypeOK
<1>4. delivery' \in [Notice -> DeliveryRow]
  <2>1. \A n \in Notice : (IF n \in new THEN row ELSE delivery[n]) \in DeliveryRow
    BY <1>1 DEF OInv, TypeOK
  <2> QED BY <2>1 DEF Created
<1>5. TypeOK'
  BY <1>3, <1>4 DEF OInv, TypeOK
<1>6. \A n \in Notice : Counted(n)'
  <2> SUFFICES ASSUME NEW n \in Notice PROVE Counted(n)'
    OBVIOUS
  <2>1. CASE n \in new
    <3>1. mails[n] = {}
      BY <2>1 DEF OInv, Counted, TypeOK, DeliveryRow
    <3>2. delivery'[n] = row /\ mails'[n] = {}
      BY <2>1, <3>1, <1>2
    <3> HIDE DEF row
    <3> QED BY <3>2, <1>1, OutboxAssumption DEF Counted
  <2>2. CASE n \notin new
    BY <2>2, <1>2 DEF OInv, Counted
  <2> QED BY <2>1, <2>2
<1>7. ASSUME ~Overrun PROVE \A n \in Notice : Audited(delivery'[n])
  <2>1. Audited(row)
    BY <1>1, OutboxAssumption DEF Audited
  <2> QED BY <2>1, <1>2, <1>7 DEF OInv
<1>8. \A w \in Worker : worker[w] # Idle => delivery'[worker[w].task] = delivery[worker[w].task]
  BY <1>2 DEF OInv, Held
<1> HIDE DEF row
<1> QED BY <1>5, <1>6, <1>7, <1>8, RowStep

\* Deleted rows owe nothing, and a worker may find its row deleted.
LEMMA DeleteKeeps == OInv /\ DeleteCampaign => OInv'
PROOF
<1> SUFFICES ASSUME OInv, DeleteCampaign PROVE OInv'
  OBVIOUS
<1> DEFINE gone == [NoRow EXCEPT !.state = "gone"]
<1>1. /\ gone \in DeliveryRow
      /\ gone.state = "gone" /\ gone.attempts = 0 /\ gone.lease = "null" /\ gone.sentAt = "null"
  BY DEF NoRow, DeliveryRow, States
<1>2. \A n \in Notice : delivery'[n] = gone \/ delivery'[n] = delivery[n]
  BY DEF DeleteCampaign
<1>3. delivery' \in [Notice -> DeliveryRow]
  <2>1. \A n \in Notice :
           (IF n \in Campaign /\ delivery[n].state # "none" THEN gone ELSE delivery[n]) \in DeliveryRow
    BY <1>1 DEF OInv, TypeOK
  <2> QED BY <2>1 DEF DeleteCampaign
<1>4. TypeOK'
  BY <1>3 DEF DeleteCampaign, OInv, TypeOK
<1> HIDE DEF gone
<1>5. \A n \in Notice : Counted(n)'
  <2> SUFFICES ASSUME NEW n \in Notice PROVE Counted(n)'
    OBVIOUS
  <2>1. CASE delivery'[n] = gone
    BY <2>1, <1>1, OutboxAssumption DEF Counted
  <2>2. CASE delivery'[n] = delivery[n]
    BY <2>2 DEF DeleteCampaign, OInv, Counted
  <2> QED BY <2>1, <2>2, <1>2
<1>6. ASSUME ~Overrun PROVE \A n \in Notice : Audited(delivery'[n])
  <2>1. Audited(gone)
    BY <1>1 DEF Audited
  <2> QED BY <2>1, <1>2, <1>6 DEF OInv
<1>7. \A w \in Worker : worker[w] # Idle =>
          \/ delivery'[worker[w].task].state = "gone"
          \/ delivery'[worker[w].task] = delivery[worker[w].task]
  BY <1>1, <1>2 DEF OInv, Held
<1>8. UNCHANGED <<worker, mails>>
  BY DEF DeleteCampaign
<1> QED BY <1>4, <1>5, <1>6, <1>7, <1>8, RowStep

\* Held rows are pristine, and no worker has one.
LEMMA ReleaseKeeps == OInv /\ ReleaseHeld => OInv'
PROOF
<1> SUFFICES ASSUME OInv, ReleaseHeld PROVE OInv'
  OBVIOUS
<1> DEFINE released(n) == [delivery[n] EXCEPT !.state = "pending", !.next = "due"]
<1>1. PICK chosen \in SUBSET {n \in Notice : delivery[n].state = "held"} :
         delivery' = [n \in Notice |-> IF n \in chosen THEN released(n) ELSE delivery[n]]
  BY DEF ReleaseHeld
<1>2. \A n \in Notice :
         /\ released(n) \in DeliveryRow
         /\ released(n).state = "pending" /\ released(n).attempts = delivery[n].attempts
         /\ released(n).lease = delivery[n].lease /\ released(n).sentAt = delivery[n].sentAt
         /\ released(n).next = "due" /\ released(n).error = delivery[n].error
  <2> SUFFICES ASSUME NEW n \in Notice
               PROVE  /\ released(n) \in DeliveryRow
                      /\ released(n).state = "pending"
                      /\ released(n).attempts = delivery[n].attempts
                      /\ released(n).lease = delivery[n].lease
                      /\ released(n).sentAt = delivery[n].sentAt
                      /\ released(n).next = "due" /\ released(n).error = delivery[n].error
    OBVIOUS
  <2>1. delivery[n] \in DeliveryRow
    BY DEF OInv, TypeOK
  <2> QED BY <2>1 DEF DeliveryRow, States
<1> HIDE DEF released
<1>3. \A n \in Notice : \/ delivery[n].state = "held" /\ delivery'[n] = released(n)
                        \/ delivery'[n] = delivery[n]
  BY <1>1
<1>4. delivery' \in [Notice -> DeliveryRow]
  <2>1. \A n \in Notice : (IF n \in chosen THEN released(n) ELSE delivery[n]) \in DeliveryRow
    BY <1>2 DEF OInv, TypeOK
  <2> QED BY <2>1, <1>1
<1>5. TypeOK'
  BY <1>4 DEF ReleaseHeld, OInv, TypeOK
<1>6. mails' = mails /\ worker' = worker
  BY DEF ReleaseHeld
<1>7. \A n \in Notice : Counted(n)'
  <2> SUFFICES ASSUME NEW n \in Notice PROVE Counted(n)'
    OBVIOUS
  <2>1. Counted(n)
    BY DEF OInv
  <2>2. CASE delivery[n].state = "held" /\ delivery'[n] = released(n)
    BY <2>1, <2>2, <1>2, <1>6 DEF Counted
  <2>3. CASE delivery'[n] = delivery[n]
    BY <2>1, <2>3, <1>6 DEF Counted
  <2> QED BY <2>2, <2>3, <1>3
<1>8. ASSUME ~Overrun PROVE \A n \in Notice : Audited(delivery'[n])
  <2> SUFFICES ASSUME NEW n \in Notice PROVE Audited(delivery'[n])
    OBVIOUS
  <2>1. Audited(delivery[n]) /\ Counted(n)
    BY <1>8 DEF OInv
  <2>2. CASE delivery[n].state = "held" /\ delivery'[n] = released(n)
    BY <2>1, <2>2, <1>2, OutboxAssumption DEF Audited, Counted
  <2> QED BY <2>1, <2>2, <1>3
<1>9. \A w \in Worker : worker[w] # Idle =>
          delivery'[worker[w].task] = delivery[worker[w].task]
  BY <1>3 DEF OInv, Held
<1> QED BY <1>5, <1>6, <1>7, <1>8, <1>9, RowStep

\* The next attempt of a row becomes due.
LEMMA BecomeDueKeeps == \A m \in Notice : OInv /\ BecomeDue(m) => OInv'
PROOF
<1> SUFFICES ASSUME NEW m \in Notice, OInv, BecomeDue(m) PROVE OInv'
  OBVIOUS
<1> DEFINE due == [delivery[m] EXCEPT !.next = "due"]
<1>1. /\ due \in DeliveryRow
      /\ due.state = delivery[m].state /\ due.attempts = delivery[m].attempts
      /\ due.lease = delivery[m].lease /\ due.sentAt = delivery[m].sentAt
      /\ due.error = delivery[m].error /\ due.next = "due"
  BY DEF OInv, TypeOK, DeliveryRow
<1>2. delivery' = [delivery EXCEPT ![m] = due]
  BY DEF BecomeDue
<1> HIDE DEF due
<1>3. \A n \in Notice : delivery'[n] = IF n = m THEN due ELSE delivery[n]
  BY <1>2 DEF OInv, TypeOK
<1>4. TypeOK'
  BY <1>1, <1>2 DEF BecomeDue, OInv, TypeOK
<1>5. mails' = mails /\ worker' = worker /\ delivery[m].next = "wait"
  BY DEF BecomeDue
<1>6. \A n \in Notice : Counted(n)'
  BY <1>1, <1>3, <1>5 DEF OInv, Counted
<1>7. ASSUME ~Overrun PROVE \A n \in Notice : Audited(delivery'[n])
  <2>1. Audited(delivery[m])
    BY <1>7 DEF OInv
  <2>2. Audited(due)
    BY <2>1, <1>1, <1>5 DEF Audited
  <2> QED BY <2>2, <1>3, <1>7 DEF OInv
<1>8. \A w \in Worker : worker[w] # Idle =>
          /\ delivery'[worker[w].task].state = delivery[worker[w].task].state
          /\ delivery'[worker[w].task].attempts = delivery[worker[w].task].attempts
          /\ delivery'[worker[w].task].lease = delivery[worker[w].task].lease
  BY <1>1, <1>3 DEF OInv, Held
<1> QED BY <1>4, <1>5, <1>6, <1>7, <1>8, RowStep

\* Without overruns no worker holds a row whose lease expires.
LEMMA ExpireKeeps == \A m \in Notice : OInv /\ ExpireLease(m) => OInv'
PROOF
<1> SUFFICES ASSUME NEW m \in Notice, OInv, ExpireLease(m) PROVE OInv'
  OBVIOUS
<1> DEFINE expired == [delivery[m] EXCEPT !.lease = "expired"]
<1>1. /\ expired \in DeliveryRow
      /\ expired.state = delivery[m].state /\ expired.attempts = delivery[m].attempts
      /\ expired.next = delivery[m].next /\ expired.sentAt = delivery[m].sentAt
      /\ expired.error = delivery[m].error /\ expired.lease = "expired"
  BY DEF OInv, TypeOK, DeliveryRow
<1>2. delivery' = [delivery EXCEPT ![m] = expired]
  BY DEF ExpireLease
<1> HIDE DEF expired
<1>3. \A n \in Notice : delivery'[n] = IF n = m THEN expired ELSE delivery[n]
  BY <1>2 DEF OInv, TypeOK
<1>4. TypeOK'
  BY <1>1, <1>2 DEF ExpireLease, OInv, TypeOK
<1>5. /\ mails' = mails /\ worker' = worker /\ delivery[m].lease = "running"
      /\ ~Overrun => \A w \in Worker : worker[w].task # m
  BY DEF ExpireLease
<1>6. \A n \in Notice : Counted(n)'
  BY <1>1, <1>3, <1>5 DEF OInv, Counted
<1>7. ASSUME ~Overrun PROVE \A n \in Notice : Audited(delivery'[n])
  <2>1. Audited(delivery[m])
    BY <1>7 DEF OInv
  <2>2. Audited(expired)
    BY <2>1, <1>1, <1>5 DEF Audited
  <2> QED BY <2>2, <1>3, <1>7 DEF OInv
<1>8. \A w \in Worker : worker[w] # Idle =>
          /\ delivery'[worker[w].task].state = delivery[worker[w].task].state
          /\ delivery'[worker[w].task].attempts = delivery[worker[w].task].attempts
          /\ ~Overrun => delivery'[worker[w].task].lease = delivery[worker[w].task].lease
  BY <1>1, <1>3, <1>5 DEF OInv, Held
<1> QED BY <1>4, <1>5, <1>6, <1>7, <1>8, RowStep

\* A worker at work has a task, an idle one has none.
LEMMA IdleApart == OInv => \A w \in Worker :
    worker[w] # Idle => worker[w].task # Idle.task
PROOF
BY OutboxAssumption DEF OInv, Held, Idle

\* A crash leaves the row, and one worker fewer to keep apart.
LEMMA CrashKeeps == \A u \in Worker : OInv /\ Crash(u) => OInv'
PROOF
<1> SUFFICES ASSUME NEW u \in Worker, OInv, Crash(u) PROVE OInv'
  OBVIOUS
<1>1. /\ \A w \in Worker : worker'[w] = IF w = u THEN Idle ELSE worker[w]
      /\ delivery' = delivery /\ mails' = mails
  <2>1. worker \in [Worker -> WorkerRow]
    BY DEF OInv, TypeOK
  <2> QED BY <2>1 DEF Crash, rows
<1>2. TypeOK'
  <2>1. Idle \in WorkerRow
    BY DEF Idle, WorkerRow
  <2>2. crashes' \in 0..MaxCrashes
    BY OutboxAssumption DEF Crash, OInv, TypeOK
  <2>3. worker' \in [Worker -> WorkerRow]
    BY <2>1 DEF Crash, OInv, TypeOK
  <2>4. UNCHANGED <<enabled, campaign, clock, delivery, eligible, mails>>
    BY DEF Crash, rows
  <2> QED BY <2>2, <2>3, <2>4 DEF OInv, TypeOK
<1>3. Held'
  BY <1>1 DEF OInv, Held
<1>4. Apart'
  BY <1>1, IdleApart DEF OInv, Apart
<1>5. \A n \in Notice : Counted(n)'
  BY <1>1 DEF OInv, Counted
<1>6. Leased'
  BY <1>1, IdleApart DEF OInv, Leased
<1>7. ~Overrun => \A n \in Notice : Audited(delivery'[n])
  BY <1>1 DEF OInv
<1> QED BY <1>2, <1>3, <1>4, <1>5, <1>6, <1>7 DEF OInv

\* A mail that goes out counts for an attempt nobody else makes.
LEMMA SendKeeps == \A u \in Worker : OInv /\ Send(u) => OInv'
PROOF
<1> SUFFICES ASSUME NEW u \in Worker, OInv, Send(u) PROVE OInv'
  OBVIOUS
<1> DEFINE n == worker[u].task
           a == worker[u].attempt
<1>1. PICK delivered \in BOOLEAN, confirmed \in BOOLEAN :
         /\ confirmed => delivered
         /\ worker' = [worker EXCEPT ![u].phase = IF confirmed THEN "mailed" ELSE "refused"]
         /\ mails' = IF delivered THEN [mails EXCEPT ![n] = @ \cup {a}] ELSE mails
  BY DEF Send
<1>2. /\ worker[u].phase = "claimed"
      /\ UNCHANGED <<enabled, campaign, clock, delivery, eligible, crashes>>
  BY DEF Send, rows
<1>3. worker[u] # Idle /\ worker[u] \in WorkerRow
  BY <1>2 DEF Idle, OInv, TypeOK
<1>4. /\ n \in Notice /\ a \in Nat
      /\ delivery[n].state \notin {"none", "held", "pending"}
      /\ delivery[n].state = "gone" \/ a \in 1..delivery[n].attempts
  BY <1>3 DEF OInv, Held, WorkerRow
<1>5. \A m \in Notice :
         mails'[m] = IF delivered /\ m = n THEN mails[m] \cup {a} ELSE mails[m]
  BY <1>1, <1>4 DEF OInv, TypeOK
<1>6. \A w \in Worker :
         /\ worker'[w].task = worker[w].task /\ worker'[w].attempt = worker[w].attempt
         /\ w # u => worker'[w] = worker[w]
  BY <1>1 DEF OInv, TypeOK, WorkerRow
<1>7. worker'[u].phase = (IF confirmed THEN "mailed" ELSE "refused") /\ worker'[u] # Idle
  BY <1>1, <1>3 DEF OInv, TypeOK, WorkerRow, Idle
<1>8. TypeOK'
  <2>1. mails' \in [Notice -> SUBSET Nat]
    BY <1>1, <1>4 DEF OInv, TypeOK
  <2>2. worker' \in [Worker -> WorkerRow]
    BY <1>1, <1>3 DEF OInv, TypeOK, WorkerRow
  <2> QED BY <1>2, <2>1, <2>2 DEF OInv, TypeOK
<1> HIDE DEF n, a
<1>9. Held'
  <2> SUFFICES ASSUME NEW w \in Worker, worker'[w] # Idle
               PROVE  /\ worker'[w].task \in Notice
                      /\ worker'[w].phase # "idle"
                      /\ delivery'[worker'[w].task].state # "none"
                      /\ delivery'[worker'[w].task].state = "gone" \/
                            (worker'[w].attempt \in 1..delivery'[worker'[w].task].attempts
                             /\ delivery'[worker'[w].task].state \notin {"held", "pending"})
                      /\ worker'[w].phase = "claimed" =>
                            worker'[w].attempt \notin mails'[worker'[w].task]
                      /\ worker'[w].phase = "mailed" => mails'[worker'[w].task] # {}
    BY DEF Held
  <2>1. CASE w = u
    BY <2>1, <1>1, <1>2, <1>4, <1>5, <1>6, <1>7 DEF n, a
  <2>2. CASE w # u
    <3>1. ~(worker[w].task = n /\ worker[w].attempt = a)
      BY <2>2, <1>3 DEF OInv, Apart, n, a
    <3>2. worker'[w] = worker[w] /\ worker[w] # Idle /\ delivery' = delivery
      BY <2>2, <1>2, <1>6
    <3>3. worker[w].task \in Notice
      BY <3>2 DEF OInv, Held
    <3>4. /\ worker[w].attempt \notin mails[worker[w].task] =>
                 worker[w].attempt \notin mails'[worker[w].task]
          /\ mails[worker[w].task] \subseteq mails'[worker[w].task]
      BY <3>1, <3>3, <1>5
    <3> QED BY <3>2, <3>4 DEF OInv, Held
  <2> QED BY <2>1, <2>2
<1>10. Apart'
  <2>1. \A w \in Worker : worker'[w] # Idle => worker[w] # Idle
    BY <1>3, <1>6
  <2> QED BY <2>1, <1>6 DEF OInv, Apart
<1>11. \A m \in Notice : Counted(m)'
  BY <1>2, <1>4, <1>5 DEF OInv, Counted
<1>12. Leased'
  <2>1. \A w \in Worker : worker'[w] # Idle => worker[w] # Idle
    BY <1>3, <1>6
  <2> QED BY <2>1, <1>2, <1>6 DEF OInv, Leased
<1>13. ~Overrun => \A m \in Notice : Audited(delivery'[m])
  BY <1>2 DEF OInv
<1> QED BY <1>8, <1>9, <1>10, <1>11, <1>12, <1>13 DEF OInv

\* A settlement writes "sent" only for a mail that went out.
LEMMA SettleKeeps == \A u \in Worker : OInv /\ Settle(u) => OInv'
PROOF
<1> SUFFICES ASSUME NEW u \in Worker, OInv, Settle(u) PROVE OInv'
  OBVIOUS
<1> DEFINE n == worker[u].task
           row == IF worker[u].phase = "mailed" THEN Sent(delivery[n]) ELSE Failed(delivery[n])
<1>1. /\ worker[u].phase \in {"mailed", "refused"}
      /\ worker[u] # Idle
      /\ worker' = [worker EXCEPT ![u] = Idle]
      /\ UNCHANGED <<enabled, campaign, clock, eligible, mails, crashes>>
      /\ IF delivery[n].state = "gone" THEN delivery' = delivery
         ELSE delivery' = [delivery EXCEPT ![n] = row]
  BY DEF Settle, Idle
<1>2. /\ n \in Notice /\ delivery[n] \in DeliveryRow /\ delivery[n].state # "none"
      /\ delivery[n].state = "gone" \/ delivery[n].state \notin {"held", "pending"}
      /\ worker[u].phase = "mailed" => mails[n] # {}
  BY <1>1 DEF OInv, Held, TypeOK
<1>3. /\ row \in DeliveryRow /\ row.attempts = delivery[n].attempts
      /\ row.state = (IF worker[u].phase = "mailed" THEN "sent" ELSE row.state)
      /\ row.state \in {"sent", "failed", "cancelled"}
      /\ worker[u].phase # "mailed" => row.state # "sent"
  BY <1>1, <1>2, RowTypes, RowFields
<1>4. ~Overrun /\ delivery[n].state # "gone" => Audited(row)
  <2>1. ~Overrun /\ delivery[n].state # "gone" =>
           Audited(delivery[n]) /\ delivery[n].state = "processing"
    BY <1>1, <1>2 DEF OInv, Leased
  <2> QED BY <2>1, <1>2, RowsAudited
<1> HIDE DEF row, n
<1>5. \A m \in Notice : delivery'[m] = IF m = n /\ delivery[n].state # "gone" THEN row ELSE delivery[m]
  BY <1>1, <1>2 DEF OInv, TypeOK
<1>6. \A w \in Worker : worker'[w] = IF w = u THEN Idle ELSE worker[w]
  BY <1>1 DEF OInv, TypeOK
<1>7. TypeOK'
  <2>1. delivery' \in [Notice -> DeliveryRow]
    BY <1>1, <1>3 DEF OInv, TypeOK
  <2>2. worker' \in [Worker -> WorkerRow]
    <3>1. Idle \in WorkerRow
      BY DEF Idle, WorkerRow
    <3> QED BY <3>1, <1>1 DEF OInv, TypeOK
  <2> QED BY <1>1, <2>1, <2>2 DEF OInv, TypeOK
<1>8. Held'
  <2> SUFFICES ASSUME NEW w \in Worker, worker'[w] # Idle
               PROVE  /\ worker'[w].task \in Notice
                      /\ worker'[w].phase # "idle"
                      /\ delivery'[worker'[w].task].state # "none"
                      /\ delivery'[worker'[w].task].state = "gone" \/
                            (worker'[w].attempt \in 1..delivery'[worker'[w].task].attempts
                             /\ delivery'[worker'[w].task].state \notin {"held", "pending"})
                      /\ worker'[w].phase = "claimed" =>
                            worker'[w].attempt \notin mails'[worker'[w].task]
                      /\ worker'[w].phase = "mailed" => mails'[worker'[w].task] # {}
    BY DEF Held
  <2>1. worker'[w] = worker[w] /\ worker[w] # Idle /\ mails' = mails
    BY <1>1, <1>6
  <2>2. CASE worker[w].task = n /\ delivery[n].state # "gone"
    <3>1. delivery'[n] = row
      BY <1>2, <1>5, <2>2
    <3> QED BY <2>1, <2>2, <3>1, <1>2, <1>3 DEF OInv, Held
  <2>3. CASE ~(worker[w].task = n /\ delivery[n].state # "gone")
    <3>1. delivery'[worker[w].task] = delivery[worker[w].task]
      BY <2>1, <2>3, <1>5 DEF OInv, Held
    <3> QED BY <2>1, <3>1 DEF OInv, Held
  <2> QED BY <2>2, <2>3
<1>9. Apart'
  BY <1>6, IdleApart DEF OInv, Apart
<1>10. \A m \in Notice : Counted(m)'
  BY <1>1, <1>2, <1>3, <1>5 DEF OInv, Counted
<1>11. Leased'
  <2> SUFFICES ASSUME ~Overrun PROVE Leased'
    BY DEF Leased
  <2>1. \A w \in Worker : worker[w] # Idle /\ w # u => worker[w].task # n
    BY <1>1 DEF OInv, Leased, n
  <2>2. \A w \in Worker : worker'[w] # Idle =>
           worker'[w] = worker[w] /\ worker[w] # Idle
           /\ delivery'[worker[w].task] = delivery[worker[w].task]
    BY <2>1, <1>5, <1>6 DEF OInv, Held
  <2> QED BY <2>2, <1>6, IdleApart DEF OInv, Leased
<1>12. ~Overrun => \A m \in Notice : Audited(delivery'[m])
  BY <1>4, <1>5 DEF OInv
<1> QED BY <1>7, <1>8, <1>9, <1>10, <1>11, <1>12 DEF OInv

\* A claim counts one attempt more, which no other worker can hold.
LEMMA ClaimKeeps == \A u \in Worker : OInv /\ Claim(u) => OInv'
PROOF
<1> SUFFICES ASSUME NEW u \in Worker, OInv, Claim(u) PROVE OInv'
  OBVIOUS
<1>1. PICK n \in Notice :
         /\ n \in Claimable
         /\ IF eligible[n]
            THEN /\ delivery' = [delivery EXCEPT ![n] = Claimed(delivery[n])]
                 /\ worker' = [worker EXCEPT ![u] =
                        [task |-> n, attempt |-> delivery[n].attempts + 1, phase |-> "claimed"]]
            ELSE /\ delivery' = [delivery EXCEPT ![n] = Refused(delivery[n])]
                 /\ worker' = worker
  BY DEF Claim, Oldest, Claimable
<1>2. /\ worker[u] = Idle
      /\ UNCHANGED <<enabled, campaign, clock, eligible, mails, crashes>>
  BY DEF Claim
<1>3. /\ delivery[n] \in DeliveryRow
      /\ delivery[n].attempts \in Nat /\ delivery[n].attempts < MaxAttempts
      /\ delivery[n].state \in {"pending", "processing", "failed"}
      /\ delivery[n].state = "processing" => delivery[n].lease = "expired"
  BY <1>1 DEF Claimable, OInv, TypeOK, DeliveryRow
<1> DEFINE row == IF eligible[n] THEN Claimed(delivery[n]) ELSE Refused(delivery[n])
           held == [task |-> n, attempt |-> delivery[n].attempts + 1, phase |-> "claimed"]
<1>4. /\ row \in DeliveryRow
      /\ row.state \in {"processing", "cancelled"}
      /\ row.attempts = (IF eligible[n] THEN delivery[n].attempts + 1 ELSE delivery[n].attempts)
      /\ eligible[n] => row.state = "processing" /\ row.lease = "running"
  BY <1>3, RowTypes, RowFields
<1>5. ~Overrun => Audited(row)
  BY <1>3, RowsAudited DEF OInv
<1>6. \A m \in Notice : delivery'[m] = IF m = n THEN row ELSE delivery[m]
  BY <1>1 DEF OInv, TypeOK
<1>7. \A w \in Worker : worker'[w] = IF w = u /\ eligible[n] THEN held ELSE worker[w]
  BY <1>1 DEF OInv, TypeOK
<1>8. held \in WorkerRow /\ held # Idle
  BY <1>3 DEF WorkerRow, Idle
<1>9. TypeOK'
  <2>1. delivery' \in [Notice -> DeliveryRow]
    BY <1>1, <1>4 DEF OInv, TypeOK
  <2>2. worker' \in [Worker -> WorkerRow]
    BY <1>1, <1>8 DEF OInv, TypeOK
  <2> QED BY <1>2, <2>1, <2>2 DEF OInv, TypeOK
<1>10. /\ held.task = n /\ held.attempt = delivery[n].attempts + 1 /\ held.phase = "claimed"
  OBVIOUS
<1>11. /\ mails[n] \subseteq 1..delivery[n].attempts
       /\ delivery[n].attempts + 1 \notin mails[n]
  BY <1>3 DEF OInv, Counted
<1> HIDE DEF row, held
<1>12. \A w \in Worker : worker[w] # Idle /\ worker[w].task = n =>
           worker[w].attempt \in 1..delivery[n].attempts /\ Overrun
  <2> SUFFICES ASSUME NEW w \in Worker, worker[w] # Idle, worker[w].task = n
               PROVE  worker[w].attempt \in 1..delivery[n].attempts /\ Overrun
    OBVIOUS
  <2>1. worker[w].attempt \in 1..delivery[n].attempts
    BY <1>3 DEF OInv, Held
  <2>2. Overrun
    BY <1>3 DEF OInv, Leased
  <2> QED BY <2>1, <2>2
<1>13. Held'
  <2> SUFFICES ASSUME NEW w \in Worker, worker'[w] # Idle
               PROVE  /\ worker'[w].task \in Notice
                      /\ worker'[w].phase # "idle"
                      /\ delivery'[worker'[w].task].state # "none"
                      /\ delivery'[worker'[w].task].state = "gone" \/
                            (worker'[w].attempt \in 1..delivery'[worker'[w].task].attempts
                             /\ delivery'[worker'[w].task].state \notin {"held", "pending"})
                      /\ worker'[w].phase = "claimed" =>
                            worker'[w].attempt \notin mails'[worker'[w].task]
                      /\ worker'[w].phase = "mailed" => mails'[worker'[w].task] # {}
    BY DEF Held
  <2>1. CASE w = u /\ eligible[n]
    <3>1. worker'[w] = held /\ delivery'[n] = row /\ mails' = mails
      BY <2>1, <1>2, <1>6, <1>7
    <3>2. delivery[n].attempts + 1 \in 1..(delivery[n].attempts + 1)
      BY <1>3
    <3> QED BY <2>1, <3>1, <3>2, <1>4, <1>10, <1>11
  <2>2. CASE ~(w = u /\ eligible[n])
    <3>1. worker'[w] = worker[w] /\ worker[w] # Idle /\ mails' = mails
      BY <2>2, <1>2, <1>7
    <3>2. CASE worker[w].task = n
      <4>1. delivery'[n] = row
        BY <1>6
      <4>2. worker[w].attempt \in 1..row.attempts
        BY <3>1, <3>2, <1>3, <1>4, <1>12
      <4> QED BY <3>1, <3>2, <4>1, <4>2, <1>4 DEF OInv, Held
    <3>3. CASE worker[w].task # n
      <4>1. delivery'[worker[w].task] = delivery[worker[w].task]
        BY <3>1, <3>3, <1>6 DEF OInv, Held
      <4> QED BY <3>1, <4>1 DEF OInv, Held
    <3> QED BY <3>2, <3>3
  <2> QED BY <2>1, <2>2
<1>14. Apart'
  <2> SUFFICES ASSUME NEW v \in Worker, NEW w \in Worker,
                      worker'[v].task = worker'[w].task, worker'[v].attempt = worker'[w].attempt,
                      worker'[v] # Idle
               PROVE  v = w
    BY DEF Apart
  <2>1. \A x \in Worker : x # u \/ ~eligible[n] => worker'[x] = worker[x]
    BY <1>7
  <2>2. ASSUME NEW x \in Worker, x # u, eligible[n]
        PROVE  ~(worker[x].task = n /\ worker[x].attempt = delivery[n].attempts + 1)
    <3>1. CASE worker[x] = Idle
      BY <3>1, OutboxAssumption DEF Idle
    <3>2. CASE worker[x] # Idle
      BY <3>2, <1>3, <1>12
    <3> QED BY <3>1, <3>2
  <2>3. eligible[n] => worker'[u] = held
    BY <1>7
  <2> QED BY <2>1, <2>2, <2>3, <1>10 DEF OInv, Apart
<1>15. \A m \in Notice : Counted(m)'
  <2> SUFFICES ASSUME NEW m \in Notice PROVE Counted(m)'
    OBVIOUS
  <2>1. CASE m = n
    <3>1. delivery'[m] = row /\ mails' = mails
      BY <2>1, <1>2, <1>6
    <3>2. row.attempts \in Nat /\ delivery[n].attempts <= row.attempts /\ row.attempts <= MaxAttempts
      BY <1>3, <1>4, OutboxAssumption
    <3>3. mails[n] \subseteq 1..row.attempts
      BY <3>2, <1>3, <1>11
    <3> QED BY <2>1, <3>1, <3>2, <3>3, <1>4 DEF Counted
  <2>2. CASE m # n
    BY <2>2, <1>2, <1>6 DEF OInv, Counted
  <2> QED BY <2>1, <2>2
<1>16. Leased'
  <2> SUFFICES ASSUME ~Overrun PROVE Leased'
    BY DEF Leased
  <2>1. \A w \in Worker : worker[w] # Idle => worker[w].task # n
    BY <1>12
  <2>2. \A w \in Worker : worker[w].task # n
    BY <2>1, <1>1, OutboxAssumption DEF Idle
  <2>3. \A w \in Worker :
           \/ w = u /\ eligible[n] /\ worker'[w] = held /\ delivery'[held.task] = row
           \/ worker'[w] = Idle
           \/ /\ worker'[w] = worker[w] /\ worker[w] # Idle
              /\ delivery'[worker[w].task] = delivery[worker[w].task]
    BY <2>2, <1>6, <1>7, <1>10 DEF OInv, Held
  <2>4. \A w \in Worker : \/ worker'[w] = Idle
                          \/ delivery'[worker'[w].task].state = "gone"
                          \/ (delivery'[worker'[w].task].state = "processing"
                              /\ delivery'[worker'[w].task].lease = "running")
    BY <2>3, <1>4 DEF OInv, Leased
  <2>5. \A v, w \in Worker : worker'[v].task = worker'[w].task /\ worker'[v] # Idle => v = w
    <3> SUFFICES ASSUME NEW v \in Worker, NEW w \in Worker,
                        worker'[v].task = worker'[w].task, worker'[v] # Idle
                 PROVE  v = w
      OBVIOUS
    <3>1. CASE eligible[n] /\ (v = u \/ w = u)
      BY <3>1, <2>2, <1>7, <1>10
    <3>2. CASE ~(eligible[n] /\ (v = u \/ w = u))
      BY <3>2, <1>7 DEF OInv, Leased
    <3> QED BY <3>1, <3>2
  <2> QED BY <2>4, <2>5 DEF Leased
<1>17. ~Overrun => \A m \in Notice : Audited(delivery'[m])
  BY <1>5, <1>6 DEF OInv
<1> QED BY <1>9, <1>13, <1>14, <1>15, <1>16, <1>17 DEF OInv

-----------------------------------------------------------------------------
(* The invariant and the properties *)

LEMMA InitHolds == Init => OInv
PROOF
<1> SUFFICES ASSUME Init PROVE OInv
  OBVIOUS
<1>1. /\ \A n \in Notice : delivery[n] = NoRow /\ mails[n] = {}
      /\ \A w \in Worker : worker[w] = Idle
  BY DEF Init
<1>2. TypeOK
  <2>1. Idle \in WorkerRow
    BY DEF Idle, WorkerRow
  <2> QED BY <2>1, RowTypes, OutboxAssumption DEF Init, TypeOK
<1>3. Held /\ Leased
  BY <1>1, OutboxAssumption DEF Held, Leased
<1>4. Apart
  BY <1>1 DEF Apart
<1> DEFINE row == NoRow
<1>5. /\ row.state = "none" /\ row.attempts = 0 /\ row.next = "null"
      /\ row.lease = "null" /\ row.sentAt = "null" /\ row.error = "null"
  BY DEF NoRow
<1>6. \A n \in Notice : delivery[n] = row
  BY <1>1
<1> HIDE DEF row
<1>7. \A n \in Notice : Counted(n)
  <2> SUFFICES ASSUME NEW n \in Notice PROVE Counted(n)
    OBVIOUS
  <2>1. delivery[n].state = "none" /\ delivery[n].attempts = 0 /\ mails[n] = {}
    BY <1>1, <1>5, <1>6
  <2> QED BY <2>1, OutboxAssumption DEF Counted
<1>8. \A n \in Notice : Audited(delivery[n])
  BY <1>5, <1>6, OutboxAssumption DEF Audited
<1> QED BY <1>2, <1>3, <1>4, <1>7, <1>8 DEF OInv

\* Every step keeps OInv.
LEMMA NextKeeps == OInv /\ [Next]_vars => OInv'
PROOF
<1> SUFFICES ASSUME OInv, [Next]_vars PROVE OInv'
  OBVIOUS
<1>1. CASE UNCHANGED vars
  <2>1. UNCHANGED <<delivery, worker, mails>> /\ TypeOK'
    BY <1>1 DEF vars, rows, OInv, TypeOK
  <2> QED BY <2>1, QuietStep
<1>2. ASSUME NEW w \in Worker, Work(w) \/ Crash(w) PROVE OInv'
  BY <1>2, ClaimKeeps, SendKeeps, SettleKeeps, CrashKeeps DEF Work
<1>3. ASSUME NEW n \in Notice, Notify(n) PROVE OInv'
  <2>1. /\ Created({n}) /\ delivery[n].state = "none"
        /\ UNCHANGED <<worker, mails, eligible, enabled, crashes>>
        /\ campaign' \in {"draft", "published", "archived", "deleted"}
    BY <1>3 DEF Notify, OInv, TypeOK
  <2> QED BY <2>1, CreatedKeeps
<1>4. ASSUME NEW n \in Notice, ChangeAccess(n) PROVE OInv'
  <2>1. UNCHANGED <<delivery, worker, mails>> /\ TypeOK'
    BY <1>4 DEF ChangeAccess, rows, OInv, TypeOK
  <2> QED BY <2>1, QuietStep
<1>5. ASSUME NEW n \in Notice, Time(n) PROVE OInv'
  BY <1>5, BecomeDueKeeps, ExpireKeeps DEF Time
<1>6. CASE Publish
  <2>1. CASE NewRecipients = {}
    <3>1. UNCHANGED <<delivery, worker, mails>> /\ TypeOK'
      BY <1>6, <2>1 DEF Publish, rows, OInv, TypeOK
    <3> QED BY <3>1, QuietStep
  <2>2. CASE NewRecipients # {}
    <3>1. /\ Created(NewRecipients)
          /\ UNCHANGED <<worker, mails, eligible, enabled, crashes>>
          /\ campaign' \in {"draft", "published", "archived", "deleted"}
      BY <1>6, <2>2 DEF Publish
    <3>2. NewRecipients \in SUBSET Notice /\ \A n \in NewRecipients : delivery[n].state = "none"
      BY OutboxAssumption DEF NewRecipients
    <3> QED BY <3>1, <3>2, CreatedKeeps
  <2> QED BY <2>1, <2>2
<1>7. CASE Unpublish \/ Archive \/ Switch
  <2>1. UNCHANGED <<delivery, worker, mails>> /\ TypeOK'
    BY <1>7 DEF Unpublish, Archive, Switch, rows, OInv, TypeOK
  <2> QED BY <2>1, QuietStep
<1>8. CASE DeleteCampaign
  BY <1>8, DeleteKeeps
<1>9. CASE ReleaseHeld
  BY <1>9, ReleaseKeeps
<1> QED BY <1>1, <1>2, <1>3, <1>4, <1>5, <1>6, <1>7, <1>8, <1>9 DEF Next

\* The inductive invariant of the outbox.
THEOREM OutboxInvariant == Spec => []OInv
PROOF BY InitHolds, NextKeeps, PTL DEF Spec

\* Every reachable state of the outbox has the types of TypeOK.
THEOREM OutboxTypeOK == Spec => []TypeOK
PROOF
<1>1. OInv => TypeOK
  BY DEF OInv
<1> QED BY <1>1, OutboxInvariant, PTL

\* However workers crash, overrun or fail, a notice is mailed at most once per
\* attempt and at most MaxAttempts times.
THEOREM OutboxMailsAreBounded == Spec => []MailsAreBounded
PROOF
<1>1. OInv => MailsAreBounded
  <2> SUFFICES ASSUME OInv PROVE MailsAreBounded
    OBVIOUS
  <2>1. \A w \in Worker : worker[w].phase = "claimed" =>
           worker[w].attempt \notin mails[worker[w].task]
    BY DEF OInv, Held, Idle
  <2> QED BY <2>1 DEF OInv, Counted, Apart, MailsAreBounded
<1> QED BY <1>1, OutboxInvariant, PTL

\* A row that says "sent" was mailed; one that was never claimed was not.
THEOREM OutboxStatesTellTheTruth == Spec => []StatesTellTheTruth
PROOF
<1>1. OInv => StatesTellTheTruth
  <2> SUFFICES ASSUME OInv, NEW n \in Notice
               PROVE  /\ delivery[n].state = "sent" => mails[n] # {}
                      /\ delivery[n].attempts = 0 /\ delivery[n].state # "gone" => mails[n] = {}
                      /\ delivery[n].state = "held" => delivery[n].attempts = 0
    BY DEF StatesTellTheTruth
  <2>1. Counted(n)
    BY DEF OInv
  <2>2. delivery[n].attempts = 0 /\ delivery[n].state # "gone" => mails[n] = {}
    BY <2>1 DEF Counted
  <2> QED BY <2>1, <2>2 DEF Counted
<1> QED BY <1>1, OutboxInvariant, PTL

\* The reconciliation report finds no inconsistent row, and at the attempt
\* limit only claims that are under way or lost, unless a worker overruns its
\* lease.
THEOREM OutboxReconciled == Spec => []OutboxReconciles
PROOF
<1>1. OInv => OutboxReconciles
  <2> SUFFICES ASSUME OInv, ~Overrun
               PROVE  /\ HeldFindings = {} /\ PendingFindings = {} /\ ProcessingFindings = {}
                      /\ FailedFindings = {} /\ SentFindings = {} /\ CancelledFindings = {}
                      /\ AtTheLimit \subseteq InState("processing")
                      /\ \A n \in ExpiredLeases, w \in Worker : worker[w].task # n
    BY DEF OutboxReconciles
  <2>1. \A n \in Notice : Audited(delivery[n]) /\ Counted(n) /\ delivery[n].attempts \in Nat
    BY DEF OInv, TypeOK, DeliveryRow
  <2>2. HeldFindings = {}
    BY <2>1 DEF HeldFindings, InState, Audited, Counted
  <2>3. PendingFindings = {} /\ CancelledFindings = {}
    BY <2>1 DEF PendingFindings, CancelledFindings, InState, Audited
  <2>4. ProcessingFindings = {} /\ FailedFindings = {} /\ SentFindings = {}
    BY <2>1 DEF ProcessingFindings, FailedFindings, SentFindings, InState, Audited
  <2>5. AtTheLimit \subseteq InState("processing")
    <3> SUFFICES ASSUME NEW n \in AtTheLimit PROVE n \in InState("processing")
      OBVIOUS
    <3>1. n \in Notice /\ delivery[n].attempts >= MaxAttempts
          /\ delivery[n].state \in {"pending", "processing", "failed"}
      BY DEF AtTheLimit, InState
    <3>2. ~(delivery[n].attempts < MaxAttempts)
      BY <2>1, <3>1, OutboxAssumption
    <3> QED BY <2>1, <3>1, <3>2 DEF Audited, InState
  <2>6. \A n \in ExpiredLeases, w \in Worker : worker[w].task # n
    BY OutboxAssumption DEF OInv, Leased, ExpiredLeases, InState, Idle
  <2> QED BY <2>2, <2>3, <2>4, <2>5, <2>6
<1> QED BY <1>1, OutboxInvariant, PTL

\* The lease keeps a second worker off the row of a living one.
THEOREM OutboxLeaseExcludes == Spec => []LeaseExcludes
PROOF
<1>1. OInv => LeaseExcludes
  BY DEF OInv, Leased, LeaseExcludes
<1> QED BY <1>1, OutboxInvariant, PTL

\* A row that is sent or given up stays so, and no copy of it goes out.
THEOREM OutboxFinalMeansFinal == Spec => FinalMeansFinal
PROOF
<1> DEFINE Final(n) ==
        ~Overrun /\ delivery[n].state \in {"sent", "cancelled"} =>
            /\ mails'[n] = mails[n]
            /\ delivery'[n].state \in {delivery[n].state, "gone"}
<1>1. OInv /\ [Next]_vars => [\A n \in Notice : Final(n)]_vars
  <2> SUFFICES ASSUME OInv, Next, NEW n \in Notice,
                      ~Overrun, delivery[n].state \in {"sent", "cancelled"}
               PROVE  /\ mails'[n] = mails[n]
                      /\ delivery'[n].state \in {delivery[n].state, "gone"}
    BY DEF vars
  <2>1. \A w \in Worker : worker[w] # Idle => worker[w].task # n
    BY DEF OInv, Leased
  <2>2. ASSUME NEW w \in Worker, Claim(w) PROVE mails'[n] = mails[n] /\ delivery'[n] = delivery[n]
    BY <2>2 DEF Claim, Oldest, Claimable, OInv, TypeOK
  <2>3. ASSUME NEW w \in Worker, Send(w) PROVE mails'[n] = mails[n] /\ delivery'[n] = delivery[n]
    <3>1. worker[w].task # n /\ worker[w].task \in Notice
      BY <2>1, <2>3 DEF Send, Idle, OInv, Held
    <3> QED BY <3>1, <2>3 DEF Send, rows, OInv, TypeOK
  <2>4. ASSUME NEW w \in Worker, Settle(w) PROVE mails'[n] = mails[n] /\ delivery'[n] = delivery[n]
    <3>1. worker[w].task # n /\ worker[w].task \in Notice
      BY <2>1, <2>4 DEF Settle, Idle, OInv, Held
    <3> QED BY <3>1, <2>4 DEF Settle, OInv, TypeOK
  <2>5. ASSUME NEW w \in Worker, Crash(w) PROVE mails'[n] = mails[n] /\ delivery'[n] = delivery[n]
    BY <2>5 DEF Crash, rows
  <2>6. ASSUME NEW m \in Notice, Notify(m) PROVE mails'[n] = mails[n] /\ delivery'[n] = delivery[n]
    BY <2>6 DEF Notify, Created
  <2>7. ASSUME NEW m \in Notice, ChangeAccess(m)
        PROVE  mails'[n] = mails[n] /\ delivery'[n] = delivery[n]
    BY <2>7 DEF ChangeAccess, rows
  <2>8. ASSUME NEW m \in Notice, Time(m)
        PROVE  mails'[n] = mails[n] /\ delivery'[n].state = delivery[n].state
    <3>1. delivery[n] \in DeliveryRow /\ delivery[m] \in DeliveryRow
      BY DEF OInv, TypeOK
    <3>2. CASE m = n
      BY <3>1, <3>2, <2>8 DEF Time, BecomeDue, ExpireLease, OInv, TypeOK, DeliveryRow
    <3>3. CASE m # n
      BY <3>3, <2>8 DEF Time, BecomeDue, ExpireLease, OInv, TypeOK
    <3> QED BY <3>2, <3>3
  <2>9. CASE Publish
    BY <2>9 DEF Publish, Created, NewRecipients, rows
  <2>10. CASE Unpublish \/ Archive \/ Switch
    BY <2>10 DEF Unpublish, Archive, Switch, rows
  <2>11. CASE DeleteCampaign
    BY <2>11 DEF DeleteCampaign, NoRow
  <2>12. CASE ReleaseHeld
    BY <2>12 DEF ReleaseHeld
  <2> QED BY <2>2, <2>3, <2>4, <2>5, <2>6, <2>7, <2>8, <2>9, <2>10, <2>11, <2>12 DEF Next, Work
<1> QED BY <1>1, OutboxInvariant, PTL DEF Spec, FinalMeansFinal

=============================================================================
