----------------------------- MODULE Allocation -----------------------------
(* Editor allocation: operations/assignments.py with the two services that   *)
(* touch its rows without its lock, operations/availability.py and           *)
(* core/identity_cleanup.py, and the milestones of core/delivery.py.         *)
(*                                                                           *)
(* A handler that runs under the policy row lock and reads nothing another   *)
(* writer may change before it commits is one action.  manual_assign and     *)
(* assign_next choose an editor from rows they do not lock, so they are two: *)
(* Begin... reads and decides, Write commits; between the two only writers   *)
(* that ignore the policy lock may run.                                      *)
(*                                                                           *)
(* Operators whose comment starts with "Mutant" restate the definition below *)
(* them with a plausible bug; nothing uses them.  They show that a property  *)
(* can fail.                                                                 *)

EXTENDS Naturals, FiniteSets, FiniteSetsExt

CONSTANTS
    Project, Editor, Client, Level,
    None,              \* SQL NULL
    Owner,             \* the client of a project
    Rank,              \* the editors' joining order (created_at, id)
    Policies,          \* the policies an administrator may save
    MaxCapacity,       \* bound on workload_capacity
    MaxRevision,       \* bound on complexity reviews of a project
    MaxTerm,           \* no manual assignment once a project had this many
    MaxCrashes,        \* bound on lost worker processes
    BatchLimit,        \* process_queue(limit=...)
    Configurable,      \* editors whose configuration may change; the others
                       \* were approved before
    DeletableEditors,  \* editors whose sign-in identity may be deleted
    DeletableClients   \* clients whose sign-in identity may be deleted

Strategies == {"unset", "skip", "wait"}
Pointers   == {"unset", "preserve", "advance"}
Policy     == [manual : BOOLEAN, automatic : BOOLEAN,
               strategy : Strategies, pointer : Pointers]

\* AssignmentPolicyForm.clean: enabling a mode needs its choices.  The four
\* single-choice fields are set exactly when pointer is, here.
ValidPolicy(c) ==
    /\ c.manual \/ c.automatic => c.pointer # "unset"
    /\ c.automatic => c.strategy # "unset"

\* The seeded row: everything disabled.
DisabledPolicy ==
    [manual |-> FALSE, automatic |-> FALSE, strategy |-> "unset", pointer |-> "unset"]

ASSUME AllocationAssumption ==
    /\ IsFiniteSet(Project) /\ IsFiniteSet(Editor)
    /\ None \notin Project \cup Editor \cup Level
    /\ Owner \in [Project -> Client]
    /\ Rank \in [Editor -> Nat \ {0}]
    /\ \A e, f \in Editor : Rank[e] = Rank[f] => e = f
    /\ Policies \subseteq {c \in Policy : ValidPolicy(c)}
    /\ MaxCapacity \in Nat /\ MaxRevision \in Nat /\ MaxTerm \in Nat
    /\ MaxCrashes \in Nat /\ BatchLimit \in Nat
    /\ Configurable \subseteq Editor
    /\ DeletableEditors \subseteq Editor
    /\ DeletableClients \subseteq Client

VARIABLES
    status,      \* projects.status; editing .. revision_in_progress are one value
    paidAt,      \* order of payment_completed_at, 0 while unpaid
    complexity,  \* project_complexity: level and revision (0: no row)
    queue,       \* assignment_queue: status ("none": no row) and level
    holder,      \* editor of the assignment with ended_at NULL
    term,        \* assignments ever written for the project, the id of the last
    roster,      \* editors joined with users
    rotation,    \* round_robin_state per level; moved: sequence > 0
    policy,      \* the assignment_policy row
    txn,         \* the allocation in flight under the policy lock
    batch,       \* process_queue's project ids still to try, taken in paidAt order
    gone,        \* clients archived after identity deletion
    crashes      \* worker processes lost so far

vars == <<status, paidAt, complexity, queue, holder, term, roster, rotation,
          policy, txn, batch, gone, crashes>>

Statuses == {"payment_pending", "payment_completed", "awaiting_assignment",
             "editor_assigned", "in_delivery", "completed"}
Terminal == {"completed"}   \* nothing in the code ever writes "cancelled"

EditorRow == [active : BOOLEAN, approved : BOOLEAN, override : BOOLEAN,
              level : Level \cup {None}, capacity : 0..MaxCapacity]
Txn       == [kind : {"none", "manual", "auto"}, project : Project \cup {None},
              editor : Editor \cup {None}, batched : BOOLEAN]
NoTxn     == [kind |-> "none", project |-> None, editor |-> None, batched |-> FALSE]

TypeOK ==
    /\ status \in [Project -> Statuses]
    /\ paidAt \in [Project -> Nat]
    /\ complexity \in [Project -> [level : Level \cup {None}, revision : Nat]]
    /\ queue \in [Project -> [status : {"none", "waiting", "assigned"},
                              level : Level \cup {None}]]
    /\ holder \in [Project -> Editor \cup {None}]
    /\ term \in [Project -> Nat]
    /\ roster \in [Editor -> EditorRow]
    /\ rotation \in [Level -> [last : Editor \cup {None}, moved : BOOLEAN]]
    /\ policy \in Policy
    /\ txn \in Txn
    /\ batch \in SUBSET Project
    /\ gone \in SUBSET Client
    /\ crashes \in Nat

-----------------------------------------------------------------------------
(* Reads shared by the handlers *)

LockFree == txn = NoTxn

Current(p) == IF holder[p] = None THEN 0 ELSE term[p]

\* Mutant: only work that has been started counts.
WorkloadStarted(e) == {p \in Project : holder[p] = e /\ status[p] = "in_delivery"}

\* active_project_count
Workload(e) == {p \in Project : holder[p] = e /\ status[p] \notin Terminal}

\* Mutant: the state check is missing.
PaidProjectAnyState(p) == paidAt[p] > 0 /\ status[p] # "payment_pending"

PaidProject(p) ==
    /\ paidAt[p] > 0
    /\ status[p] \notin Terminal \cup {"payment_pending"}

\* Mutant: the editor's other work is not looked at.
EligibleBusy(e, l) ==
    /\ roster[e].approved /\ roster[e].active /\ ~roster[e].override
    /\ roster[e].level = l /\ roster[e].capacity > 0

Eligible(e, l) ==
    /\ roster[e].approved
    /\ roster[e].active
    /\ ~roster[e].override
    /\ roster[e].level = l
    /\ Workload(e) = {}
    /\ roster[e].capacity > 0

\* The editors assign_next walks through, before it asks eligibility.
Group(l) == {e \in Editor : /\ roster[e].approved /\ roster[e].active
                            /\ ~roster[e].override /\ roster[e].level = l}

\* Position in the walk: joining order, starting after the last editor served.
LastRank == Max({Rank[e] : e \in Editor} \cup {0})
\* Mutant: always first come, first served.
TurnFirst(l, e) == Rank[e]

Turn(l, e) ==
    IF rotation[l].last # None /\ Rank[e] <= Rank[rotation[l].last]
    THEN Rank[e] + LastRank
    ELSE Rank[e]

FirstTurn(S, l) == {e \in S : \A f \in S : Turn(l, e) <= Turn(l, f)}

\* The editor assign_next settles on, as a set of at most one.
Selected(l) ==
    IF policy.strategy = "wait"
    THEN {e \in FirstTurn(Group(l), l) : Eligible(e, l)}
    ELSE FirstTurn({e \in Group(l) : Eligible(e, l)}, l)

-----------------------------------------------------------------------------
(* Configuration *)

SavePolicy(new) ==
    /\ LockFree
    /\ policy' = new
    /\ UNCHANGED <<status, paidAt, complexity, queue, holder, term, roster,
                   rotation, txn, batch, gone, crashes>>

\* Mutant: open work does not protect the editor's settings.
KeepsOpenWorkAlways(e, approved, capacity) == TRUE

KeepsOpenWork(e, approved, capacity) ==
    Workload(e) # {} => /\ approved /\ capacity > 0
                        /\ capacity >= Cardinality(Workload(e))

ConfigureEditor(e, approved, level, capacity) ==
    /\ LockFree
    /\ approved => level # None
    /\ KeepsOpenWork(e, approved, capacity)
    /\ roster' = [roster EXCEPT ![e].approved = approved,
                                ![e].level = level,
                                ![e].capacity = capacity]
    /\ UNCHANGED <<status, paidAt, complexity, queue, holder, term, rotation,
                   policy, txn, batch, gone, crashes>>

ApproveProficiency(e, level) ==
    /\ LockFree
    /\ roster' = [roster EXCEPT ![e].approved = TRUE, ![e].level = level]
    /\ UNCHANGED <<status, paidAt, complexity, queue, holder, term, rotation,
                   policy, txn, batch, gone, crashes>>

\* Takes the editor row, not the policy row: only manual_assign, which holds
\* the editor row too, makes it wait.
SetAvailabilityOverride(e, unavailable) ==
    /\ ~(txn.kind = "manual" /\ txn.editor = e)
    /\ roster' = [roster EXCEPT ![e].override = unavailable]
    /\ UNCHANGED <<status, paidAt, complexity, queue, holder, term, rotation,
                   policy, txn, batch, gone, crashes>>

-----------------------------------------------------------------------------
(* Projects enter the queue *)

\* The effect of a verified payment on the project row (core/payments.py).
ConfirmPayment(p) ==
    /\ status[p] = "payment_pending"
    /\ status' = [status EXCEPT ![p] = "payment_completed"]
    /\ paidAt' = [paidAt EXCEPT ![p] = 1 + Cardinality({q \in Project : paidAt[q] > 0})]
    /\ UNCHANGED <<complexity, queue, holder, term, roster, rotation, policy,
                   txn, batch, gone, crashes>>

\* The queue row update_or_create leaves after a review.
Queued(p, level) ==
    [status |-> IF holder[p] = None THEN "waiting" ELSE "assigned", level |-> level]

Classify(p, level, expected) ==
    /\ LockFree
    /\ PaidProject(p)
    /\ complexity[p].revision = expected
    /\ expected < MaxRevision
    /\ complexity' = [complexity EXCEPT ![p] = [level |-> level, revision |-> expected + 1]]
    /\ queue' = [queue EXCEPT ![p] = Queued(p, level)]
    /\ status' = [status EXCEPT ![p] =
                    IF holder[p] = None /\ @ = "payment_completed"
                    THEN "awaiting_assignment" ELSE @]
    /\ UNCHANGED <<paidAt, holder, term, roster, rotation, policy, txn, batch,
                   gone, crashes>>

-----------------------------------------------------------------------------
(* Allocation *)

BeginManual(p, e, expected) ==
    /\ LockFree
    /\ policy.manual
    /\ PaidProject(p)
    /\ complexity[p].level # None
    /\ holder[p] # e
    /\ Current(p) = expected
    /\ Eligible(e, complexity[p].level)
    /\ term[p] < MaxTerm
    /\ txn' = [kind |-> "manual", project |-> p, editor |-> e, batched |-> FALSE]
    /\ UNCHANGED <<status, paidAt, complexity, queue, holder, term, roster,
                   rotation, policy, batch, gone, crashes>>

\* The checks of assign_next that come before the walk.
Waiting(p) ==
    /\ PaidProject(p)
    /\ holder[p] = None
    /\ queue[p].status = "waiting"
    /\ complexity[p].level # None
    /\ queue[p].level = complexity[p].level

CanAssignNext(p) ==
    /\ policy.automatic
    /\ Waiting(p)
    /\ Selected(queue[p].level) # {}

BeginAuto(p, batched) ==
    /\ LockFree
    /\ CanAssignNext(p)
    /\ \E e \in Selected(queue[p].level) :
          txn' = [kind |-> "auto", project |-> p, editor |-> e, batched |-> batched]

\* The administrator's "assign next" button, for one project.
AssignNext(p) ==
    /\ BeginAuto(p, FALSE)
    /\ UNCHANGED <<status, paidAt, complexity, queue, holder, term, roster,
                   rotation, policy, batch, gone, crashes>>

\* What a project row becomes when an assignment is written.
Staffed(s) == IF s \in {"payment_completed", "awaiting_assignment"} THEN "editor_assigned" ELSE s

\* Mutant: one pointer for all levels.
AdvanceShared(l, e) == [k \in Level |-> [last |-> e, moved |-> TRUE]]

Advance(l, e) ==
    IF txn.kind = "auto" \/ policy.pointer = "advance"
    THEN [rotation EXCEPT ![l] = [last |-> e, moved |-> TRUE]]
    ELSE rotation

\* write_assignment and the commit.
Write ==
    LET p == txn.project
        l == complexity[p].level
    IN /\ txn # NoTxn
       /\ holder' = [holder EXCEPT ![p] = txn.editor]
       /\ term' = [term EXCEPT ![p] = @ + 1]
       /\ rotation' = Advance(l, txn.editor)
       /\ status' = [status EXCEPT ![p] = Staffed(@)]
       /\ queue' = [queue EXCEPT ![p] = [status |-> "assigned", level |-> l]]
       /\ txn' = NoTxn
       /\ UNCHANGED <<paidAt, complexity, roster, policy, batch, gone, crashes>>

\* process_queue reads the oldest paid waiting rows without any lock ...
ReadQueue ==
    LET rows == {p \in Project : queue[p].status = "waiting"}
    IN /\ batch = {}
       /\ policy.automatic
       /\ rows # {}
       /\ batch' = {p \in rows :
                       Cardinality({q \in rows : paidAt[q] < paidAt[p]}) < BatchLimit}
       /\ UNCHANGED <<status, paidAt, complexity, queue, holder, term, roster,
                      rotation, policy, txn, gone, crashes>>

\* Mutant: the first refusal ends the run.
StillToTryUntilRefused(p) == IF CanAssignNext(p) THEN batch \ {p} ELSE {}

StillToTry(p) == batch \ {p}

\* ... and tries each, oldest first, in a transaction of its own; a refusal or
\* a None result moves on to the next.
TryNextInBatch ==
    \E p \in batch :
       /\ \A q \in batch : paidAt[p] <= paidAt[q]
       /\ LockFree
       /\ batch' = StillToTry(p)
       /\ \/ BeginAuto(p, TRUE)
          \/ ~CanAssignNext(p) /\ UNCHANGED txn
       /\ UNCHANGED <<status, paidAt, complexity, queue, holder, term, roster,
                      rotation, policy, gone, crashes>>

-----------------------------------------------------------------------------
(* Milestones of core/delivery.py, under the same lock *)

StartWork(p) ==
    /\ LockFree
    /\ PaidProject(p)
    /\ holder[p] # None
    /\ roster[holder[p]].active
    /\ roster[holder[p]].approved
    /\ status[p] = "editor_assigned"
    /\ status' = [status EXCEPT ![p] = "in_delivery"]
    /\ UNCHANGED <<paidAt, complexity, queue, holder, term, roster, rotation,
                   policy, txn, batch, gone, crashes>>

AcceptDelivery(p) ==
    /\ LockFree
    /\ PaidProject(p)
    /\ holder[p] # None
    /\ Owner[p] \notin gone
    /\ status[p] = "in_delivery"
    /\ status' = [status EXCEPT ![p] = "completed"]
    /\ UNCHANGED <<paidAt, complexity, queue, holder, term, roster, rotation,
                   policy, txn, batch, gone, crashes>>

-----------------------------------------------------------------------------
(* Identity deletion: row locks, but never the policy lock *)

\* What PostgreSQL rolls back: the transaction, and with it the whole
\* process_queue run when that run was the one inside assign_next.
Rollback ==
    /\ txn' = NoTxn
    /\ batch' = IF txn.batched THEN {} ELSE batch

\* What a project row becomes when its editor is removed.
Returned(s) == IF s \in Terminal THEN s ELSE "awaiting_assignment"

Requeued(row) == IF row.status = "none" THEN row ELSE [row EXCEPT !.status = "waiting"]

Forget(row, e) == IF row.last = e THEN [row EXCEPT !.last = None] ELSE row

DropEditor(e) ==
    LET Mine(p) == holder[p] = e
    IN /\ roster[e].active
       /\ e \in DeletableEditors
       /\ holder' = [p \in Project |-> IF Mine(p) THEN None ELSE holder[p]]
       /\ status' = [p \in Project |-> IF Mine(p) THEN Returned(status[p]) ELSE status[p]]
       /\ queue' = [p \in Project |-> IF Mine(p) THEN Requeued(queue[p]) ELSE queue[p]]
       /\ rotation' = [l \in Level |-> Forget(rotation[l], e)]
       /\ roster' = [roster EXCEPT ![e].active = FALSE]
       /\ UNCHANGED <<paidAt, complexity, term, policy, gone, crashes>>

\* An allocation in flight holds its project row, so the deletion of the editor
\* who is being replaced waits; deleting the editor being chosen does not wait.
ArchiveEditor(e) ==
    /\ txn # NoTxn => holder[txn.project] # e
    /\ DropEditor(e)
    /\ UNCHANGED <<txn, batch>>

\* The two may also deadlock (project row against assignment, user and rotation
\* rows); here PostgreSQL picks the allocation as the victim.
ArchiveEditorDeadlock(e) ==
    /\ txn # NoTxn
    /\ txn.editor = e \/ holder[txn.project] = e
    /\ DropEditor(e)
    /\ Rollback

DropClient(c) ==
    /\ c \in DeletableClients \ gone
    /\ gone' = gone \cup {c}
    /\ UNCHANGED <<status, paidAt, complexity, queue, holder, term, roster,
                   rotation, policy, crashes>>

\* archived_at is set on the client's projects, which waits for their row locks.
ArchiveClient(c) ==
    /\ txn # NoTxn => Owner[txn.project] # c
    /\ DropClient(c)
    /\ UNCHANGED <<txn, batch>>

ArchiveClientDeadlock(c) ==
    /\ txn # NoTxn
    /\ Owner[txn.project] = c
    /\ DropClient(c)
    /\ Rollback

\* A web worker or the process_assignments command dies.
Crash ==
    /\ crashes < MaxCrashes
    /\ crashes' = crashes + 1
    /\ \/ txn # NoTxn /\ Rollback
       \/ ~txn.batched /\ batch # {} /\ batch' = {} /\ UNCHANGED txn
    /\ UNCHANGED <<status, paidAt, complexity, queue, holder, term, roster,
                   rotation, policy, gone>>

-----------------------------------------------------------------------------

\* An editor nobody has configured yet, or one approved for a level.
Joined(level) ==
    [active |-> TRUE, approved |-> level # None, override |-> FALSE, level |-> level,
     capacity |-> IF level = None THEN 0 ELSE MaxCapacity]

Init ==
    /\ status = [p \in Project |-> "payment_pending"]
    /\ paidAt = [p \in Project |-> 0]
    /\ complexity = [p \in Project |-> [level |-> None, revision |-> 0]]
    /\ queue = [p \in Project |-> [status |-> "none", level |-> None]]
    /\ holder = [p \in Project |-> None]
    /\ term = [p \in Project |-> 0]
    /\ \E level \in [Editor -> Level \cup {None}] :
          /\ \A e \in Editor : level[e] = None <=> e \in Configurable
          /\ roster = [e \in Editor |-> Joined(level[e])]
    /\ rotation = [l \in Level |-> [last |-> None, moved |-> FALSE]]
    /\ policy = DisabledPolicy
    /\ txn = NoTxn
    /\ batch = {}
    /\ gone = {}
    /\ crashes = 0

Configure ==
    \/ \E new \in Policies : SavePolicy(new)
    \/ \E e \in Configurable, approved \in BOOLEAN, level \in Level \cup {None},
          capacity \in 0..MaxCapacity : ConfigureEditor(e, approved, level, capacity)
    \/ \E e \in Configurable, level \in Level : ApproveProficiency(e, level)
    \/ \E e \in Editor, unavailable \in BOOLEAN : SetAvailabilityOverride(e, unavailable)

Allocate ==
    \/ \E p \in Project, level \in Level, expected \in 0..MaxRevision :
          Classify(p, level, expected)
    \/ \E p \in Project, e \in Editor, expected \in 0..MaxTerm : BeginManual(p, e, expected)
    \/ \E p \in Project : AssignNext(p)
    \/ Write
    \/ ReadQueue
    \/ TryNextInBatch

Progress ==
    \E p \in Project : ConfirmPayment(p) \/ StartWork(p) \/ AcceptDelivery(p)

Delete ==
    \/ \E e \in Editor : ArchiveEditor(e) \/ ArchiveEditorDeadlock(e)
    \/ \E c \in Client : ArchiveClient(c) \/ ArchiveClientDeadlock(c)

Next == Configure \/ Allocate \/ Progress \/ Delete \/ Crash

Spec == Init /\ [][Next]_vars

-----------------------------------------------------------------------------
(* Safety *)

\* No two unfinished projects ever share an editor (PRODUCT_RULES 8: an editor
\* with one non-terminal project is busy), whatever manual and automatic
\* allocations, deletions, crashes and configuration changes interleave.
OneActiveProject ==
    \A p, q \in Project :
        /\ holder[p] # None /\ holder[p] = holder[q]
        /\ status[p] \notin Terminal /\ status[q] \notin Terminal
        => p = q

\* A queue row says "assigned" exactly while the project has an open
\* assignment (queue_assignment_mismatch in assignment_reconciliation.py).
QueueMatchesAssignment ==
    \A p \in Project : queue[p].status = "assigned" <=> holder[p] # None

\* The queue row asks for the level of the latest review, and only paid
\* projects are queued (queue_funding_or_complexity_mismatch, without its
\* terminal-and-waiting clause).
QueueMatchesReview ==
    \A p \in Project : queue[p].status # "none" =>
        /\ paidAt[p] > 0
        /\ complexity[p].revision > 0
        /\ queue[p].level = complexity[p].level

\* The project status tells whether somebody works on it: write_assignment,
\* classify, the delivery milestones and identity deletion all write it.
StatusMatchesAssignment ==
    \A p \in Project :
        IF holder[p] = None
        THEN status[p] \notin {"editor_assigned", "in_delivery"}
        ELSE status[p] \in {"editor_assigned", "in_delivery"} \cup Terminal

\* Configuration never pulls approval or capacity away from under open work
\* (editors_over_capacity, and invalid_current_assignment_state but for the
\* inactive account).
HolderStaysConfigured ==
    \A p \in Project : holder[p] # None /\ status[p] \notin Terminal =>
        /\ roster[holder[p]].approved
        /\ roster[holder[p]].capacity >= Cardinality(Workload(holder[p]))

-----------------------------------------------------------------------------
(* Action properties *)

\* Open work moves to another editor only through the administrator's
\* reassignment, and is taken away only when its holder's identity is deleted.
OnlyReassignmentMovesWork ==
    [][\A p \in Project : holder[p] # None /\ holder'[p] # holder[p] =>
          IF holder'[p] = None
          THEN roster[holder[p]].active /\ ~roster'[holder[p]].active
          ELSE txn.kind = "manual" /\ holder'[p] = txn.editor /\ status[p] \notin Terminal]_vars

\* A level's rotation position moves only with the assignment it records, in
\* the same commit, or is cleared with the editor it names (PRODUCT_RULES 8:
\* selection, assignment and pointer advancement are atomic).
PointerMovesWithAssignment ==
    [][\A l \in Level : rotation'[l].last # rotation[l].last =>
          IF rotation'[l].last = None
          THEN ~roster'[rotation[l].last].active
          ELSE \E p \in Project : /\ complexity[p].level = l
                                  /\ holder[p] # holder'[p]
                                  /\ holder'[p] = rotation'[l].last]_vars

-----------------------------------------------------------------------------
(* Liveness *)

\* The operator keeps running process_queue, and a transaction that got its
\* locks commits unless it is rolled back.
FairSpec ==
    /\ Spec
    /\ WF_vars(ReadQueue) /\ WF_vars(TryNextInBatch) /\ WF_vars(Write)

\* No project stays queued for ever while the rotation of its level always
\* points at an editor who could take it.  It needs a batch that reaches every
\* waiting row: BatchLimit at least their number.
NoStarvation ==
    \A p \in Project : []<>~CanAssignNext(p)

-----------------------------------------------------------------------------
(* What reconciliation and the product rules say, and the code does not keep *)

\* assignment_reconciliation.py: a sequence above 0 has a last editor.
RotationPointerPresent ==
    \A l \in Level : rotation[l].moved => rotation[l].last # None

\* assignment_reconciliation.py: no terminal project waits in the queue.
NoTerminalWaiting ==
    \A p \in Project : ~(status[p] \in Terminal /\ queue[p].status = "waiting")

\* PRODUCT_RULES: a deleted editor's open assignments end.
NoWorkForDeletedEditor ==
    \A p \in Project : holder[p] # None => roster[holder[p]].active

\* PRODUCT_RULES: a deleted client's projects leave all operational rosters.
NoAllocationAfterArchive ==
    [][\A p \in Project : Owner[p] \in gone /\ holder[p] = None => holder'[p] = None]_vars

\* The promise of this module to the rest of the system.
Abstract == INSTANCE Staffing WITH
    held <- holder,
    done <- {p \in Project : status[p] \in Terminal}

ImplementsStaffing == Abstract!Spec

=============================================================================
