------------------------------- MODULE Uploads -------------------------------
(* The client's files of one project: core/views.py (request_upload,         *)
(* complete_upload, remove_brief_file), core/storage.py, the command         *)
(* cleanup_archived_project_storage and the two storage reports; the         *)
(* editor's drafts are in Review.  Bytes travel between the browser and the  *)
(* object store by presigned URLs, and the database only learns of them by   *)
(* asking the store: every handler is split at its storage calls.  A worker  *)
(* that dies between two steps is a handler that gives up.                   *)

EXTENDS Naturals, FiniteSets

CONSTANTS
    File,         \* file ids; each names a row and an object key of its own
    Reference,    \* the files of category reference
    Limit,        \* INSPIRATION_UPLOAD_LIMIT
    MaxPuts,      \* bound on objects uploaded, over all keys
    MaxInFlight,  \* bound on handlers between two of their steps
    MaxFailures   \* bound on failed or lost cleanup runs

ASSUME UploadsAssumption ==
    /\ IsFiniteSet(File)
    /\ Reference \subseteq File
    /\ Limit \in Nat /\ MaxPuts \in Nat /\ MaxInFlight \in Nat /\ MaxFailures \in Nat

VARIABLES
    project,     \* payment and review progress, and archived_at
    row,         \* files rows; late: completed after its reservation ended
    live,        \* files whose reservation and upload URL have not expired
    object,      \* version the store holds under the key, 0: nothing
    puts,        \* uploads the key has seen, the id of its last version
    reserving,   \* request_upload between its checks and its insert
    completing,  \* complete_upload: 0 asked the store, else the version it saw
    removing,    \* remove_brief_file with the row locked: asked or deleted
    dangling,    \* history: bytes deleted, and no commit has recorded it yet
    job,         \* state of the project's storage cleanup
    cleaner,     \* the cleanup run in flight
    failures     \* cleanup runs that failed or were lost so far

vars == <<project, row, live, object, puts, reserving, completing, removing,
          dangling, job, cleaner, failures>>
handlers == <<reserving, completing, removing>>
cleanup  == <<job, cleaner, failures>>

Row     == [state : {"none", "pending", "ready", "rejected", "removed"},
            version : 0..MaxPuts, late : BOOLEAN]
NoRow   == [state |-> "none", version |-> 0, late |-> FALSE]
Cleaner == [running : BOOLEAN, todo : SUBSET File]
NoRun   == [running |-> FALSE, todo |-> {}]

Rows     == {f \in File : row[f].state # "none"}
Pending  == {f \in File : row[f].state = "pending"}
Ready    == {f \in File : row[f].state = "ready"}
InFlight == Cardinality(reserving) + Cardinality({f \in File : removing[f] # "none"})
            + Cardinality({p \in File \X (0..MaxPuts) : p[2] \in completing[p[1]]})

\* The tables, the store and the handlers keep their types; only a file that
\* was once completed names a version, and one the store has really issued.
TypeOK ==
    /\ project \in [stage : {"unpaid", "paid", "done"}, archived : BOOLEAN]
    /\ row \in [File -> Row]
    /\ \A f \in File : /\ row[f].state \in {"none", "pending", "rejected"} => row[f].version = 0
                       /\ row[f].state = "ready" => row[f].version > 0
                       /\ row[f].version <= puts[f]
    /\ live \in SUBSET File
    /\ puts \in [File -> 0..MaxPuts]
    /\ object \in [File -> 0..MaxPuts]
    /\ \A f \in File : object[f] \in {0, puts[f]}
    /\ reserving \in SUBSET File
    /\ completing \in [File -> SUBSET (0..MaxPuts)]
    /\ \A f \in File : \A v \in completing[f] : v <= puts[f]
    /\ removing \in [File -> {"none", "asked", "deleted"}]
    /\ dangling \in SUBSET File
    /\ job \in {"none", "pending", "processing", "retry", "completed"}
    /\ cleaner \in Cleaner
    /\ failures \in Nat

-----------------------------------------------------------------------------
(* The project, as far as its files depend on it *)

\* project_for and can_upload for a client: an archived project is hidden from
\* everybody.
MayUpload ==
    /\ ~project.archived
    /\ project.stage # "done"

Advance ==
    /\ ~project.archived
    /\ \/ project.stage = "unpaid" /\ project' = [project EXCEPT !.stage = "paid"]
       \/ project.stage = "paid" /\ project' = [project EXCEPT !.stage = "done"]
    /\ UNCHANGED <<row, live, object, puts, handlers, dangling, cleanup>>

\* The deletion of the client's identity archives the project and queues the
\* cleanup; the client's handlers already past their checks go on.
Archive ==
    /\ ~project.archived
    /\ project' = [project EXCEPT !.archived = TRUE]
    /\ job' = "pending"
    /\ UNCHANGED <<row, live, object, puts, handlers, dangling, cleaner, failures>>

-----------------------------------------------------------------------------
(* Reservation *)

RequestUpload(f) ==
    /\ InFlight < MaxInFlight
    /\ f \notin Rows \cup reserving
    /\ MayUpload
    /\ reserving' = reserving \cup {f}
    /\ UNCHANGED <<project, row, live, object, puts, completing, removing, dangling, cleanup>>

\* Mutant: reservations in progress do not count.
ReadyReferences == {f \in Reference : row[f].state = "ready"}

ActiveReferences ==
    {f \in Reference : row[f].state = "ready" \/ (row[f].state = "pending" /\ f \in live)}

\* The count and the insert share one lock of the project; the other
\* categories are not counted.
Reserve(f) ==
    /\ f \in reserving
    /\ reserving' = reserving \ {f}
    /\ IF f \in Reference /\ Cardinality(ActiveReferences) >= Limit
       THEN UNCHANGED <<row, live>>
       ELSE /\ row' = [row EXCEPT ![f].state = "pending"]
            /\ live' = live \cup {f}
    /\ UNCHANGED <<project, object, puts, completing, removing, dangling, cleanup>>

\* The expiry of a reservation and of its upload URL are the same moment.
Expire(f) ==
    /\ f \in live
    /\ live' = live \ {f}
    /\ UNCHANGED <<project, row, object, puts, handlers, dangling, cleanup>>

\* The browser uploads: the URL is good for one object under the key, and for
\* another one when that was deleted before the URL expired.
Put(f) ==
    /\ f \in live
    /\ object[f] = 0
    /\ Cardinality({p \in File \X (1..MaxPuts) : p[2] <= puts[p[1]]}) < MaxPuts
    /\ object' = [object EXCEPT ![f] = puts[f] + 1]
    /\ puts' = [puts EXCEPT ![f] = @ + 1]
    /\ UNCHANGED <<project, row, live, handlers, dangling, cleanup>>

-----------------------------------------------------------------------------
(* Completion *)

BeginComplete(f) ==
    /\ InFlight < MaxInFlight
    /\ MayUpload
    /\ f \in Pending \cap live
    /\ completing' = [completing EXCEPT ![f] = @ \cup {0}]
    /\ UNCHANGED <<project, row, live, object, puts, reserving, removing, dangling, cleanup>>

Inspect(f) ==
    /\ 0 \in completing[f]
    /\ object[f] # 0
    /\ completing' = [completing EXCEPT ![f] = (@ \ {0}) \cup {object[f]}]
    /\ UNCHANGED <<project, row, live, object, puts, reserving, removing, dangling, cleanup>>

\* No object, no answer, a worker lost, or a refused submission of a draft.
GiveUp(f) ==
    /\ \E v \in completing[f] : completing' = [completing EXCEPT ![f] = @ \ {v}]
    /\ UNCHANGED <<project, row, live, object, puts, reserving, removing, dangling, cleanup>>

\* Mutant: the update looks at nothing but the key.
CompletedAnyState(f, v) == [row[f] EXCEPT !.state = "ready", !.version = v, !.late = f \notin live]

\* filter(state="pending").update(...): anything else is left alone.
Completed(f, v) ==
    IF f \in Pending
    THEN [state |-> "ready", version |-> v, late |-> f \notin live]
    ELSE row[f]

\* The rows of a removal in progress are locked.
Complete(f) ==
    /\ removing[f] = "none"
    /\ \E v \in completing[f] \ {0} :
          /\ row' = [row EXCEPT ![f] = Completed(f, v)]
          /\ completing' = [completing EXCEPT ![f] = @ \ {v}]
    /\ UNCHANGED <<project, live, object, puts, reserving, removing, dangling, cleanup>>

\* The object is not what was announced.
Reject(f) ==
    /\ removing[f] = "none"
    /\ \E v \in completing[f] \ {0} : completing' = [completing EXCEPT ![f] = @ \ {v}]
    /\ row' = IF f \in Pending THEN [row EXCEPT ![f].state = "rejected"] ELSE row
    /\ UNCHANGED <<project, live, object, puts, reserving, removing, dangling, cleanup>>

-----------------------------------------------------------------------------
(* Removal by the client, while the order is unpaid *)

BeginRemove(f) ==
    /\ InFlight < MaxInFlight
    /\ ~project.archived
    /\ project.stage = "unpaid"
    /\ removing[f] = "none"
    /\ f \in Pending \cup Ready
    /\ removing' = [removing EXCEPT ![f] = "asked"]
    /\ UNCHANGED <<project, row, live, object, puts, reserving, completing, dangling, cleanup>>

\* delete_private_object_versions, as the store performs it.
DeleteObject(f) ==
    /\ removing[f] = "asked"
    /\ removing' = [removing EXCEPT ![f] = "deleted"]
    /\ object' = [object EXCEPT ![f] = 0]
    /\ dangling' = dangling \cup {f}
    /\ UNCHANGED <<project, row, live, puts, reserving, completing, cleanup>>

\* The row keeps the version it had.
CommitRemove(f) ==
    /\ removing[f] = "deleted"
    /\ row' = [row EXCEPT ![f].state = "removed"]
    /\ removing' = [removing EXCEPT ![f] = "none"]
    /\ dangling' = dangling \ {f}
    /\ UNCHANGED <<project, live, object, puts, reserving, completing, cleanup>>

\* The store refused, its answer was lost, or the transaction was: the row is
\* unchanged, the bytes may be gone.
FailRemove(f) ==
    /\ removing[f] # "none"
    /\ removing' = [removing EXCEPT ![f] = "none"]
    /\ UNCHANGED <<project, row, live, object, puts, reserving, completing, dangling, cleanup>>

-----------------------------------------------------------------------------
(* Cleanup of an archived project *)

\* Mutant: a failed run is not taken up again.
SelectableOnce == job = "pending"

Selectable == job \in {"pending", "retry"}

\* The recheck under the job's lock makes a second command skip the job; the
\* files are listed once, after the claim.
Claim ==
    /\ Selectable
    /\ job' = "processing"
    /\ cleaner' = [running |-> TRUE, todo |-> Rows]
    /\ UNCHANGED <<project, row, live, object, puts, handlers, dangling, failures>>

\* No row is locked.
DeleteNext(f) ==
    /\ f \in cleaner.todo
    /\ cleaner' = [cleaner EXCEPT !.todo = @ \ {f}]
    /\ object' = [object EXCEPT ![f] = 0]
    /\ dangling' = dangling \cup {f}
    /\ UNCHANGED <<project, row, live, puts, handlers, job, failures>>

\* Mutant: only files with bytes are marked.
CleanedReady(f) == IF f \in Ready THEN [row[f] EXCEPT !.state = "removed"] ELSE row[f]

\* Every row of the project, listed or not.
Cleaned(f) == IF f \in Rows THEN [row[f] EXCEPT !.state = "removed"] ELSE row[f]

CommitCleanup ==
    /\ cleaner.running /\ cleaner.todo = {}
    /\ \A f \in File : removing[f] = "none"
    /\ row' = [f \in File |-> Cleaned(f)]
    /\ dangling' = dangling \ Rows
    /\ job' = "completed"
    /\ cleaner' = NoRun
    /\ UNCHANGED <<project, live, object, puts, handlers, failures>>

FailCleanup ==
    /\ cleaner.running /\ cleaner.todo # {}
    /\ failures < MaxFailures
    /\ failures' = failures + 1
    /\ job' = "retry"
    /\ cleaner' = NoRun
    /\ UNCHANGED <<project, row, live, object, puts, handlers, dangling>>

\* The command dies: nothing selects a job that is processing.
CrashCleanup ==
    /\ cleaner.running
    /\ failures < MaxFailures
    /\ failures' = failures + 1
    /\ cleaner' = NoRun
    /\ UNCHANGED <<project, row, live, object, puts, handlers, dangling, job>>

-----------------------------------------------------------------------------
(* The storage reports *)

\* inventory_private_storage
References          == {f \in File : row[f].version # 0}
ReadyWithoutVersion == {f \in Ready : row[f].version = 0}
MissingReferences   == {f \in References : object[f] # row[f].version}

\* reconcile_ready_files asks for the exact version of every ready row.
Inaccessible == MissingReferences \cap Ready

-----------------------------------------------------------------------------

Init ==
    /\ project = [stage |-> "unpaid", archived |-> FALSE]
    /\ row = [f \in File |-> NoRow]
    /\ live = {}
    /\ object = [f \in File |-> 0]
    /\ puts = [f \in File |-> 0]
    /\ reserving = {}
    /\ completing = [f \in File |-> {}]
    /\ removing = [f \in File |-> "none"]
    /\ dangling = {}
    /\ job = "none"
    /\ cleaner = NoRun
    /\ failures = 0

Browse ==
    \E f \in File :
       \/ RequestUpload(f) \/ Reserve(f) \/ Expire(f) \/ Put(f)
       \/ BeginComplete(f) \/ Inspect(f) \/ GiveUp(f) \/ Complete(f) \/ Reject(f)
       \/ BeginRemove(f) \/ DeleteObject(f) \/ CommitRemove(f) \/ FailRemove(f)

Delete == \E f \in File : DeleteNext(f)
Clean  == Claim \/ Delete \/ CommitCleanup \/ FailCleanup \/ CrashCleanup

Next == Advance \/ Archive \/ Browse \/ Clean

Spec == Init /\ [][Next]_vars

\* The operator keeps running the command, a removal in progress ends, and the
\* store works again after MaxFailures failures.
FairSpec ==
    /\ Spec
    /\ WF_vars(Claim) /\ WF_vars(Delete)
    /\ WF_vars(CommitCleanup)
    /\ \A f \in File : WF_vars(FailRemove(f))

-----------------------------------------------------------------------------
(* Safety *)

\* However completions, removals, cleanup runs and lost answers interleave, the
\* bytes of a file a client can download are there: a version some row names is
\* missing only when the row is marked removed, or when a deletion reached the
\* store and nothing has been committed since (remove_brief_file and the
\* cleanup delete first and commit afterwards).  In particular a completion
\* that inspected the object before a removal never brings the row back.
OnlyDeletedIsMissing ==
    /\ ReadyWithoutVersion = {}
    /\ MissingReferences \subseteq {f \in File : row[f].state = "removed"} \cup dangling
    /\ Inaccessible \subseteq dangling

\* INSPIRATION_UPLOAD_LIMIT holds for the files whose completion met their
\* reservation, for concurrent requests, retries, removals and expiries.  A
\* completion that the expiry overtook is not counted while another
\* reservation takes its place: such a file is one too many.
ReferencesAreLimited ==
    Cardinality({f \in ActiveReferences : ~row[f].late}) <= Limit

\* After a finished cleanup no file of the project is ready, and none ever
\* becomes ready again, whatever was in flight when the client was deleted.
CleanedForGood ==
    job = "completed" => Ready = {}

\* A removed or rejected file is never offered again.
RemovedIsFinal ==
    [][\A f \in File : row[f].state \in {"rejected", "removed"} =>
          row'[f].state \in {row[f].state, "removed"}]_vars

\* The cleanup of an archived project is finished, unless a run died after it
\* took the job: processing is not selected again.
CleanupEnds ==
    (job # "none") ~> (job = "completed" \/ (job = "processing" /\ ~cleaner.running))

-----------------------------------------------------------------------------
(* What the documents say, and the code does not keep *)

\* DECISIONS.md: removal keeps no broken reference; the inventory counts the
\* version a removed row still names as missing.
InventoryPasses == ReadyWithoutVersion = {} /\ MissingReferences = {}

=============================================================================
