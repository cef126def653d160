------------------------------- MODULE Outbox -------------------------------
(* The e-mail outbox of operations/notifications.py: one delivery row per    *)
(* notice, the workers that claim, mail and settle rows, and the campaign    *)
(* actions of operations/notification_views.py that make and delete notices. *)
(*                                                                           *)
(* claim_delivery and each settlement are transactions that lock the row;    *)
(* the mail itself is sent between them, under a lease of ten minutes.       *)

EXTENDS Naturals

CONSTANTS
    Notice,
    Campaign,      \* the notices of one admin campaign, one per recipient
    Worker,        \* dispatch_notifications processes
    MaxAttempts,   \* NOTIFICATION_DELIVERY_MAX_ATTEMPTS
    MaxCrashes,    \* bound on worker crashes
    Overrun,       \* a worker may still be sending when its lease expires
    None

ASSUME OutboxAssumption ==
    /\ Campaign \subseteq Notice
    /\ MaxAttempts \in Nat \ {0}
    /\ MaxCrashes \in Nat
    /\ Overrun \in BOOLEAN
    /\ None \notin Notice

VARIABLES
    enabled,    \* NOTIFICATION_EMAIL_ENABLED
    campaign,   \* status of the campaign
    clock,      \* the number of creation times so far
    delivery,   \* notification_deliveries; state "none": not created yet
    eligible,   \* the recipient is active and may still see the project
    worker,     \* the row a worker holds in memory and how far it got
    mails,      \* the attempts of each notice whose mail went out
    crashes

rows == <<clock, delivery>>
vars == <<enabled, campaign, rows, eligible, worker, mails, crashes>>

States == {"none", "held", "pending", "processing", "failed", "sent", "cancelled", "gone"}
Unsent == {"held", "pending", "processing", "failed"}

\* created_at is the clock; next_attempt_at is null, in the future or reached;
\* sentAt and error: sent_at and last_error_code are set.
DeliveryRow == [state : States, created : Nat, attempts : Nat,
                next : {"null", "wait", "due"}, lease : {"null", "running", "expired"},
                sentAt : {"null", "set"}, error : {"null", "set"}]
WorkerRow   == [task : Notice \cup {None}, attempt : Nat,
                phase : {"idle", "claimed", "mailed", "refused"}]

NoRow == [state |-> "none", created |-> 0, attempts |-> 0, next |-> "null",
          lease |-> "null", sentAt |-> "null", error |-> "null"]
Idle  == [task |-> None, attempt |-> 0, phase |-> "idle"]

TypeOK ==
    /\ enabled \in BOOLEAN
    /\ campaign \in {"draft", "published", "archived", "deleted"}
    /\ clock \in Nat
    /\ delivery \in [Notice -> DeliveryRow]
    /\ eligible \in [Notice -> BOOLEAN]
    /\ worker \in [Worker -> WorkerRow]
    /\ mails \in [Notice -> SUBSET Nat]
    /\ crashes \in 0..MaxCrashes

-----------------------------------------------------------------------------
(* Notices *)

\* Notification.save: a new notice gets its delivery row with it.
Created(new) ==
    /\ clock' = clock + 1
    /\ delivery' = [n \in Notice |->
           IF n \in new
           THEN [NoRow EXCEPT !.state = IF enabled THEN "pending" ELSE "held",
                              !.created = clock + 1]
           ELSE delivery[n]]

\* notify: an event key makes one notice, however often the event is reported.
Notify(n) ==
    /\ n \notin Campaign
    /\ delivery[n].state = "none"
    /\ Created({n})
    /\ UNCHANGED <<enabled, campaign, eligible, worker, mails, crashes>>

\* The recipients the campaign has no notice for yet.
NewRecipients == {n \in Campaign : eligible[n] /\ delivery[n].state = "none"}

Publish ==
    /\ campaign \in {"draft", "archived"}
    /\ campaign' = "published"
    /\ IF NewRecipients = {} THEN UNCHANGED rows ELSE Created(NewRecipients)
    /\ UNCHANGED <<enabled, eligible, worker, mails, crashes>>

Unpublish ==
    /\ campaign = "published"
    /\ campaign' = "draft"
    /\ UNCHANGED <<enabled, rows, eligible, worker, mails, crashes>>

Archive ==
    /\ campaign \in {"draft", "published"}
    /\ campaign' = "archived"
    /\ UNCHANGED <<enabled, rows, eligible, worker, mails, crashes>>

\* Deletes the notices with their rows, also those a worker is busy with.
DeleteCampaign ==
    /\ campaign = "draft"
    /\ campaign' = "deleted"
    /\ delivery' = [n \in Notice |->
           IF n \in Campaign /\ delivery[n].state # "none"
           THEN [NoRow EXCEPT !.state = "gone"] ELSE delivery[n]]
    /\ UNCHANGED <<enabled, clock, eligible, worker, mails, crashes>>

-----------------------------------------------------------------------------
(* Workers *)

\* Mutant: the attempt limit is off by one.
ClaimableOnceMore == {n \in Notice :
    /\ \/ delivery[n].state \in {"pending", "failed"} /\ delivery[n].next # "wait"
       \/ delivery[n].state = "processing" /\ delivery[n].lease = "expired"
    /\ delivery[n].attempts <= MaxAttempts}

\* Mutant: a row that was given up counts as retryable.
ClaimableCancelled == {n \in Notice :
    /\ \/ delivery[n].state \in {"pending", "failed", "cancelled"} /\ delivery[n].next # "wait"
       \/ delivery[n].state = "processing" /\ delivery[n].lease = "expired"
    /\ delivery[n].attempts < MaxAttempts}

\* Mutant: an expired claim is not taken again.
ClaimableFresh == {n \in Notice :
    /\ delivery[n].state \in {"pending", "failed"} /\ delivery[n].next # "wait"
    /\ delivery[n].attempts < MaxAttempts}

\* _eligible, and the attempt limit of claim_delivery.
Claimable == {n \in Notice :
    /\ \/ delivery[n].state \in {"pending", "failed"} /\ delivery[n].next # "wait"
       \/ delivery[n].state = "processing" /\ delivery[n].lease = "expired"
    /\ delivery[n].attempts < MaxAttempts}

Oldest(S) == {n \in S : \A m \in S : delivery[n].created <= delivery[m].created}

Claimed(row) ==
    [row EXCEPT !.state = "processing", !.attempts = @ + 1,
                !.lease = "running", !.error = "null"]

\* Mutant: the lease of an earlier claim stays.
RefusedLeased(row) == [row EXCEPT !.state = "cancelled", !.error = "set"]

\* The recipient left or lost the project.
Refused(row) == [row EXCEPT !.state = "cancelled", !.lease = "null", !.error = "set"]

\* claim_delivery
Claim(w) ==
    /\ enabled
    /\ worker[w] = Idle
    /\ \E n \in Oldest(Claimable) :
          IF eligible[n]
          THEN /\ delivery' = [delivery EXCEPT ![n] = Claimed(delivery[n])]
               /\ worker' = [worker EXCEPT ![w] =
                      [task |-> n, attempt |-> delivery[n].attempts + 1, phase |-> "claimed"]]
          ELSE /\ delivery' = [delivery EXCEPT ![n] = Refused(delivery[n])]
               /\ UNCHANGED worker
    /\ UNCHANGED <<enabled, campaign, clock, eligible, mails, crashes>>

\* Mutant: whatever the mail server says, the mail counts as sent.
SendIgnoring(w) ==
    /\ worker[w].phase = "claimed"
    /\ worker' = [worker EXCEPT ![w].phase = "mailed"]
    /\ \E delivered \in BOOLEAN :
          mails' = IF delivered
                   THEN [mails EXCEPT ![worker[w].task] = @ \cup {worker[w].attempt}]
                   ELSE mails
    /\ UNCHANGED <<enabled, campaign, rows, eligible, crashes>>

\* EmailMessage.send.  A mail may go out and the answer still be an error.
Send(w) ==
    /\ worker[w].phase = "claimed"
    /\ \E delivered, confirmed \in BOOLEAN :
          /\ confirmed => delivered
          /\ worker' = [worker EXCEPT ![w].phase = IF confirmed THEN "mailed" ELSE "refused"]
          /\ mails' = IF delivered
                      THEN [mails EXCEPT ![worker[w].task] = @ \cup {worker[w].attempt}]
                      ELSE mails
    /\ UNCHANGED <<enabled, campaign, rows, eligible, crashes>>

Sent(row) == [row EXCEPT !.state = "sent", !.sentAt = "set", !.next = "null", !.lease = "null"]

Failed(row) ==
    [row EXCEPT !.state = IF row.attempts >= MaxAttempts THEN "cancelled" ELSE "failed",
                !.next = "wait", !.lease = "null", !.error = "set"]

\* The rest of deliver_one writes the row as it finds it now.  A row deleted in
\* the meantime ends the command with an error.
Settle(w) ==
    LET n == worker[w].task
    IN /\ worker[w].phase \in {"mailed", "refused"}
       /\ IF delivery[n].state = "gone" THEN UNCHANGED delivery
          ELSE delivery' = [delivery EXCEPT ![n] =
                   IF worker[w].phase = "mailed" THEN Sent(@) ELSE Failed(@)]
       /\ worker' = [worker EXCEPT ![w] = Idle]
       /\ UNCHANGED <<enabled, campaign, clock, eligible, mails, crashes>>

\* A worker ends between claim and settlement: its row stays as it is.
Crash(w) ==
    /\ crashes < MaxCrashes
    /\ worker[w] # Idle
    /\ crashes' = crashes + 1
    /\ worker' = [worker EXCEPT ![w] = Idle]
    /\ UNCHANGED <<enabled, campaign, rows, eligible, mails>>

-----------------------------------------------------------------------------
(* The operator, the recipients and time *)

\* release_held: the oldest held rows, up to the command's limit.
ReleaseHeld ==
    /\ enabled
    /\ \E chosen \in SUBSET {n \in Notice : delivery[n].state = "held"} :
          /\ chosen # {}
          /\ \A n \in chosen, m \in Notice \ chosen :
                delivery[m].state = "held" => delivery[n].created <= delivery[m].created
          /\ delivery' = [n \in Notice |->
                 IF n \in chosen THEN [delivery[n] EXCEPT !.state = "pending", !.next = "due"]
                 ELSE delivery[n]]
    /\ UNCHANGED <<enabled, campaign, clock, eligible, worker, mails, crashes>>

\* The deployment's setting changes.
Switch ==
    /\ enabled' = ~enabled
    /\ UNCHANGED <<campaign, rows, eligible, worker, mails, crashes>>

\* An account is deactivated or restored, an editor loses or regains a project.
ChangeAccess(n) ==
    /\ eligible' = [eligible EXCEPT ![n] = ~@]
    /\ UNCHANGED <<enabled, campaign, rows, worker, mails, crashes>>

BecomeDue(n) ==
    /\ delivery[n].next = "wait"
    /\ delivery' = [delivery EXCEPT ![n].next = "due"]
    /\ UNCHANGED <<enabled, campaign, clock, eligible, worker, mails, crashes>>

ExpireLease(n) ==
    /\ delivery[n].lease = "running"
    /\ Overrun \/ \A w \in Worker : worker[w].task # n
    /\ delivery' = [delivery EXCEPT ![n].lease = "expired"]
    /\ UNCHANGED <<enabled, campaign, clock, eligible, worker, mails, crashes>>

-----------------------------------------------------------------------------

Init ==
    /\ enabled \in BOOLEAN
    /\ campaign = "draft"
    /\ clock = 0
    /\ delivery = [n \in Notice |-> NoRow]
    /\ eligible = [n \in Notice |-> TRUE]
    /\ worker = [w \in Worker |-> Idle]
    /\ mails = [n \in Notice |-> {}]
    /\ crashes = 0

Work(w) == Claim(w) \/ Send(w) \/ Settle(w)

Time(n) == BecomeDue(n) \/ ExpireLease(n)

Next ==
    \/ \E w \in Worker : Work(w) \/ Crash(w)
    \/ \E n \in Notice : Notify(n) \/ ChangeAccess(n) \/ Time(n)
    \/ Publish \/ Unpublish \/ Archive \/ DeleteCampaign
    \/ ReleaseHeld \/ Switch

Spec == Init /\ [][Next]_vars

\* The dispatch command keeps being run, its mail calls return, time passes.
FairSpec ==
    /\ Spec
    /\ \A w \in Worker : WF_vars(Work(w))
    /\ \A n \in Notice : WF_vars(Time(n))

-----------------------------------------------------------------------------
(* Safety *)

\* Each attempt mails at most once and at most MaxAttempts attempts are made,
\* whatever crashes, expires or fails: a recipient gets a bounded number of
\* copies.  No two workers ever work on the same attempt.
MailsAreBounded ==
    /\ \A n \in Notice :
          /\ delivery[n].attempts <= MaxAttempts
          /\ delivery[n].state # "gone" => mails[n] \subseteq 1..delivery[n].attempts
    /\ \A w \in Worker : worker[w].phase = "claimed" =>
          worker[w].attempt \notin mails[worker[w].task]
    /\ \A v, w \in Worker :
          worker[v].task = worker[w].task /\ worker[v].attempt = worker[w].attempt
              /\ worker[v] # Idle => v = w

\* "sent" is never wrong, and nothing was mailed for a row that was never
\* claimed, held rows above all: their release is the owner's decision.
StatesTellTheTruth == \A n \in Notice :
    /\ delivery[n].state = "sent" => mails[n] # {}
    /\ delivery[n].attempts = 0 /\ delivery[n].state # "gone" => mails[n] = {}
    /\ delivery[n].state = "held" => delivery[n].attempts = 0

\* A lease excludes other workers while its holder lives.
LeaseExcludes == ~Overrun => \A v, w \in Worker :
    worker[v].task = worker[w].task /\ worker[v] # Idle => v = w

\* "Reprocessing a sent row does not resend it" (PHASE_7): once a row is sent or
\* given up, it stays so and no copy of it goes out, unless a worker overruns
\* its lease.
FinalMeansFinal == [][\A n \in Notice :
    ~Overrun /\ delivery[n].state \in {"sent", "cancelled"} =>
        /\ mails'[n] = mails[n]
        /\ delivery'[n].state \in {delivery[n].state, "gone"}]_vars

(* Liveness *)

\* Lost with the worker that made the last attempt (see ClaimsRecovered).
LostOnLastAttempt(n) ==
    /\ delivery[n].state = "processing"
    /\ delivery[n].attempts = MaxAttempts
    /\ \A w \in Worker : worker[w].task # n

\* As long as delivery stays enabled, every queued notice is sent, given up or
\* deleted, unless a worker died during its last attempt: no failing notice
\* starves the ones behind it, and a claim lost earlier is taken again.
EverySettled == <>[]enabled =>
    \A n \in Notice : delivery[n].state \in {"pending", "processing", "failed"} ~>
        delivery[n].state \in {"sent", "cancelled", "gone"} \/ LostOnLastAttempt(n)

-----------------------------------------------------------------------------
(* What documents say, and the code does not keep *)

\* PHASE_7: "Reprocessing a sent row does not resend it".
SentStaysSent == [][\A n \in Notice :
    delivery[n].state = "sent" => delivery'[n].state \in {"sent", "gone"}]_vars

\* PHASE_7: "stale claims can be recovered".
ClaimsRecovered == <>[]enabled =>
    \A n \in Notice : delivery[n].state = "processing" ~> delivery[n].state # "processing"

\* notification_reconciliation.py, retryable_at_or_over_attempt_limit.
NoneAtTheLimit == \A n \in Notice :
    delivery[n].state \in {"pending", "processing", "failed"} => delivery[n].attempts < MaxAttempts

=============================================================================
