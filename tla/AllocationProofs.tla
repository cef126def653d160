-------------------------- MODULE AllocationProofs --------------------------
(* Allocation is safe for any number of projects, editors, clients, levels   *)
(* and bounds: its type invariant, its state invariants, the audit, and that *)
(* it implements Staffing; and its rotation is fair where no policy keeps    *)
(* the pointer on manual work and no editor is deleted.                      *)
EXTENDS AssignmentReconciliation, AllocationRotation, FiniteSetTheorems, WellFoundedInduction, TLAPS

\* A review row has a level exactly when it has a revision.
ReviewSound ==
    \A p \in Project : complexity[p].level # None => complexity[p].revision > 0

\* Why the two-step allocation is safe: what Begin... checked still holds when
\* Write runs, because only deletions and overrides ran in between.
TxnSound ==
    txn # NoTxn =>
        /\ txn.project \in Project
        /\ txn.editor \in Editor
        /\ txn.kind \in {"manual", "auto"}
        /\ PaidProject(txn.project)
        /\ complexity[txn.project].level # None
        /\ Workload(txn.editor) = {}
        /\ holder[txn.project] # txn.editor
        /\ txn.kind = "auto" => holder[txn.project] = None
        /\ roster[txn.editor].approved
        /\ roster[txn.editor].capacity > 0

\* Open work keeps its editor approved, with some capacity.
HolderApproved ==
    \A p \in Project : holder[p] # None /\ status[p] \notin Terminal =>
        roster[holder[p]].approved /\ roster[holder[p]].capacity > 0

\* The inductive invariant.
IInv ==
    /\ TypeOK
    /\ ReviewSound
    /\ TxnSound
    /\ HolderApproved
    /\ OneActiveProject
    /\ QueueMatchesAssignment
    /\ QueueMatchesReview
    /\ StatusMatchesAssignment

\* The rows a project owns, which most handlers leave alone.
projectVars == <<status, paidAt, complexity, queue, holder, term>>

-----------------------------------------------------------------------------
(* Lemmas about the operators *)

\* Sets of projects are finite.
LEMMA ProjectCount ==
    ASSUME NEW S \in SUBSET Project
    PROVE  IsFiniteSet(S) /\ Cardinality(S) \in Nat
<1>1. IsFiniteSet(S)
  BY AllocationAssumption, FS_Subset
<1>2. QED
  BY <1>1, FS_CardinalityType

\* What Selected returns is eligible at the level asked for.
LEMMA SelectedEligible ==
    ASSUME NEW l, NEW e \in Selected(l)
    PROVE  e \in Editor /\ Eligible(e, l)
BY DEF Selected, FirstTurn, Group

\* An editor with other work cannot be idle: whoever holds an open project has
\* it in the workload.
LEMMA WorkloadOfHolder ==
    ASSUME NEW e, Workload(e) = {}, NEW p \in Project, holder[p] = e
    PROVE  status[p] \in Terminal
BY DEF Workload

-----------------------------------------------------------------------------
(* The initial state *)

LEMMA InitInvariant == Init => IInv
<1> SUFFICES ASSUME Init PROVE IInv
  OBVIOUS
<1>1. TypeOK
  <2>1. roster \in [Editor -> EditorRow]
    <3>1. PICK level \in [Editor -> Level \cup {None}] : roster = [e \in Editor |-> Joined(level[e])]
      BY DEF Init
    <3>2. \A l \in Level \cup {None} : Joined(l) \in EditorRow
      BY AllocationAssumption DEF Joined, EditorRow
    <3>3. QED
      BY <3>1, <3>2
  <2>2. QED
    BY <2>1, AllocationAssumption
       DEF Init, TypeOK, Statuses, Policy, DisabledPolicy, Strategies, Pointers, Txn, NoTxn
<1>2. ReviewSound /\ TxnSound /\ HolderApproved /\ OneActiveProject
  BY DEF Init, ReviewSound, TxnSound, HolderApproved, OneActiveProject
<1>3. QueueMatchesAssignment /\ QueueMatchesReview /\ StatusMatchesAssignment
  BY DEF Init, QueueMatchesAssignment, QueueMatchesReview, StatusMatchesAssignment
<1>4. QED
  BY <1>1, <1>2, <1>3 DEF IInv

-----------------------------------------------------------------------------
(* Every step preserves it *)

\* The project-side conjuncts only read project rows.
LEMMA ProjectSideStutters ==
    ASSUME IInv, UNCHANGED projectVars
    PROVE  /\ ReviewSound' /\ OneActiveProject' /\ QueueMatchesAssignment'
           /\ QueueMatchesReview' /\ StatusMatchesAssignment'
BY DEF IInv, projectVars, ReviewSound, OneActiveProject, QueueMatchesAssignment,
       QueueMatchesReview, StatusMatchesAssignment

LEMMA ConfigureInvariant == IInv /\ Configure => IInv'
<1> SUFFICES ASSUME IInv, Configure PROVE IInv'
  OBVIOUS
<1> USE DEF IInv
<1>1. ReviewSound' /\ OneActiveProject' /\ QueueMatchesAssignment'
      /\ QueueMatchesReview' /\ StatusMatchesAssignment'
  BY ProjectSideStutters
     DEF Configure, SavePolicy, ConfigureEditor, ApproveProficiency, SetAvailabilityOverride, projectVars
<1>2. ASSUME NEW new \in Policies, SavePolicy(new)
      PROVE  TypeOK' /\ TxnSound' /\ HolderApproved'
  <2>1. new \in Policy
    BY AllocationAssumption
  <2>2. TypeOK'
    BY <1>2, <2>1 DEF SavePolicy, TypeOK
  <2>3. TxnSound'
    BY <1>2 DEF SavePolicy, LockFree, TxnSound
  <2>4. HolderApproved'
    BY <1>2 DEF SavePolicy, HolderApproved
  <2>5. QED
    BY <2>2, <2>3, <2>4
<1>3. ASSUME NEW e \in Editor, NEW approved \in BOOLEAN, NEW level \in Level \cup {None},
             NEW capacity \in 0..MaxCapacity, ConfigureEditor(e, approved, level, capacity)
      PROVE  TypeOK' /\ TxnSound' /\ HolderApproved'
  <2>1. TypeOK'
    <3>1. roster[e] \in EditorRow
      BY DEF TypeOK
    <3>2. [[[roster[e] EXCEPT !.approved = approved] EXCEPT !.level = level]
             EXCEPT !.capacity = capacity] \in EditorRow
      BY <3>1 DEF EditorRow
    <3>3. roster' = [roster EXCEPT ![e] =
             [[[roster[e] EXCEPT !.approved = approved] EXCEPT !.level = level]
                EXCEPT !.capacity = capacity]]
      BY <1>3 DEF ConfigureEditor, TypeOK
    <3>4. roster' \in [Editor -> EditorRow]
      BY <3>2, <3>3 DEF TypeOK
    <3>5. QED
      BY <1>3, <3>4 DEF ConfigureEditor, TypeOK
  <2>2. TxnSound'
    BY <1>3 DEF ConfigureEditor, LockFree, TxnSound
  <2>3. ASSUME NEW p \in Project, holder[p] = e, status[p] \notin Terminal
        PROVE  approved /\ capacity > 0
    BY <1>3, <2>3 DEF ConfigureEditor, KeepsOpenWork, Workload
  <2>4. HolderApproved'
    BY <1>3, <2>3 DEF ConfigureEditor, HolderApproved, TypeOK, EditorRow
  <2>5. QED
    BY <2>1, <2>2, <2>4
<1>4. ASSUME NEW e \in Editor, NEW level \in Level, ApproveProficiency(e, level)
      PROVE  TypeOK' /\ TxnSound' /\ HolderApproved'
  <2>1. TypeOK'
    BY <1>4 DEF ApproveProficiency, TypeOK, EditorRow
  <2>2. TxnSound'
    BY <1>4 DEF ApproveProficiency, LockFree, TxnSound
  <2>3. HolderApproved'
    BY <1>4 DEF ApproveProficiency, HolderApproved, TypeOK, EditorRow
  <2>4. QED
    BY <2>1, <2>2, <2>3
<1>5. ASSUME NEW e \in Editor, NEW unavailable \in BOOLEAN,
             SetAvailabilityOverride(e, unavailable)
      PROVE  TypeOK' /\ TxnSound' /\ HolderApproved'
  <2>1. TypeOK'
    BY <1>5 DEF SetAvailabilityOverride, TypeOK, EditorRow
  <2>2. TxnSound'
    BY <1>5 DEF SetAvailabilityOverride, TxnSound, TypeOK, EditorRow, PaidProject, Workload
  <2>3. HolderApproved'
    BY <1>5 DEF SetAvailabilityOverride, HolderApproved, TypeOK, EditorRow
  <2>4. QED
    BY <2>1, <2>2, <2>3
<1>6. QED
  BY <1>1, <1>2, <1>3, <1>4, <1>5, AllocationAssumption DEF Configure

LEMMA ClassifyInvariant ==
    ASSUME IInv, NEW p \in Project, NEW level \in Level, NEW expected \in 0..MaxRevision,
           Classify(p, level, expected)
    PROVE  IInv'
<1> USE DEF IInv
<1>1. level # None
  BY AllocationAssumption
<1>2. TypeOK'
  BY DEF Classify, Queued, TypeOK, Statuses
<1>3. ReviewSound'
  BY DEF Classify, ReviewSound, TypeOK
<1>4. TxnSound'
  BY DEF Classify, TxnSound, LockFree
<1>5. HolderApproved' /\ OneActiveProject'
  BY DEF Classify, HolderApproved, OneActiveProject, TypeOK, Terminal
<1>6. QueueMatchesAssignment'
  BY DEF Classify, Queued, QueueMatchesAssignment, TypeOK
<1>7. QueueMatchesReview'
  BY DEF Classify, Queued, QueueMatchesReview, PaidProject, TypeOK
<1>8. StatusMatchesAssignment'
  BY DEF Classify, StatusMatchesAssignment, TypeOK, Terminal
<1>9. QED
  BY <1>2, <1>3, <1>4, <1>5, <1>6, <1>7, <1>8

\* Both ways to open an allocation leave the project and editor rows alone and
\* establish TxnSound from what they checked.
LEMMA BeginManualInvariant ==
    ASSUME IInv, NEW p \in Project, NEW e \in Editor, NEW expected \in 0..MaxTerm,
           BeginManual(p, e, expected)
    PROVE  IInv'
<1> USE DEF IInv
<1>1. UNCHANGED projectVars /\ UNCHANGED <<roster, rotation, policy, batch, gone, crashes>>
  BY DEF BeginManual, projectVars
<1>2. TypeOK'
  BY DEF BeginManual, TypeOK, Txn
<1>3. TxnSound'
  BY DEF BeginManual, TxnSound, PaidProject, Eligible, Workload
<1>4. HolderApproved'
  BY <1>1 DEF projectVars, HolderApproved
<1>5. QED
  BY <1>1, <1>2, <1>3, <1>4, ProjectSideStutters

LEMMA BeginAutoInvariant ==
    ASSUME IInv, NEW p \in Project, NEW batched \in BOOLEAN, BeginAuto(p, batched),
           UNCHANGED projectVars, UNCHANGED <<roster, rotation, policy, gone, crashes>>,
           batch' \in SUBSET Project
    PROVE  IInv'
<1> USE DEF IInv
<1>1. PICK e \in Selected(queue[p].level) :
          txn' = [kind |-> "auto", project |-> p, editor |-> e, batched |-> batched]
  BY DEF BeginAuto
<1>2. e \in Editor /\ Eligible(e, queue[p].level)
  BY <1>1, SelectedEligible
<1>3. TypeOK'
  BY <1>1, <1>2 DEF projectVars, TypeOK, Txn
<1>4. PaidProject(p) /\ complexity[p].level # None /\ holder[p] = None
  BY DEF BeginAuto, CanAssignNext, Waiting
<1>5. None # e
  BY <1>2, AllocationAssumption
<1>6. TxnSound'
  BY <1>1, <1>2, <1>4, <1>5 DEF projectVars, TxnSound, PaidProject, Eligible, Workload
<1>7. HolderApproved'
  BY DEF projectVars, HolderApproved
<1>8. QED
  BY <1>3, <1>6, <1>7, ProjectSideStutters

LEMMA WriteInvariant == IInv /\ Write => IInv'
<1> SUFFICES ASSUME IInv, Write PROVE IInv'
  OBVIOUS
<1> DEFINE p == txn.project
           e == txn.editor
<1> USE DEF IInv
<1>1. /\ p \in Project /\ e \in Editor /\ e # None
      /\ PaidProject(p) /\ complexity[p].level # None
      /\ Workload(e) = {}
      /\ roster[e].approved /\ roster[e].capacity > 0
  BY AllocationAssumption DEF Write, TxnSound
<1>2. /\ holder' = [holder EXCEPT ![p] = e]
      /\ term' = [term EXCEPT ![p] = @ + 1]
      /\ status' = [status EXCEPT ![p] = Staffed(@)]
      /\ queue' = [queue EXCEPT ![p] = [status |-> "assigned", level |-> complexity[p].level]]
      /\ rotation' = Advance(complexity[p].level, e)
      /\ txn' = NoTxn
      /\ UNCHANGED <<paidAt, complexity, roster, policy, batch, gone, crashes>>
  BY DEF Write
<1>3. complexity[p].level \in Level
  BY <1>1 DEF TypeOK
<1>4. Staffed(status[p]) \in {"editor_assigned", "in_delivery"}
  BY <1>1 DEF Staffed, PaidProject, TypeOK, Statuses, Terminal
<1> HIDE DEF p, e
<1>5. TypeOK'
  <2>1. rotation' \in [Level -> [last : Editor \cup {None}, moved : BOOLEAN]]
    BY <1>1, <1>2, <1>3 DEF Advance, TypeOK
  <2>2. status' \in [Project -> Statuses]
    BY <1>1, <1>2, <1>4 DEF TypeOK, Statuses
  <2>3. txn' \in Txn
    BY <1>2 DEF NoTxn, Txn
  <2>4. /\ holder' \in [Project -> Editor \cup {None}]
        /\ term' \in [Project -> Nat]
        /\ queue' \in [Project -> [status : {"none", "waiting", "assigned"},
                                   level : Level \cup {None}]]
    BY <1>1, <1>2, <1>3 DEF TypeOK
  <2>5. QED
    BY <1>2, <2>1, <2>2, <2>3, <2>4 DEF TypeOK
<1>6. ReviewSound' /\ TxnSound'
  BY <1>2 DEF ReviewSound, TxnSound
<1>7. HolderApproved'
  BY <1>1, <1>2 DEF HolderApproved, TypeOK
<1>8. OneActiveProject'
  <2>1. \A q \in Project : holder[q] = e => status[q] \in Terminal
    BY <1>1, WorkloadOfHolder
  <2>2. QED
    BY <1>1, <1>2, <2>1 DEF OneActiveProject, TypeOK
<1>9. QueueMatchesAssignment' /\ StatusMatchesAssignment'
  BY <1>1, <1>2, <1>4 DEF QueueMatchesAssignment, StatusMatchesAssignment, TypeOK
<1>10. QueueMatchesReview'
  BY <1>1, <1>2 DEF QueueMatchesReview, ReviewSound, PaidProject, TypeOK
<1>11. QED
  BY <1>5, <1>6, <1>7, <1>8, <1>9, <1>10

LEMMA AllocateInvariant == IInv /\ Allocate => IInv'
<1> SUFFICES ASSUME IInv, Allocate PROVE IInv'
  OBVIOUS
<1>1. ASSUME NEW p \in Project, AssignNext(p)
      PROVE  IInv'
  BY <1>1, BeginAutoInvariant DEF AssignNext, projectVars, IInv, TypeOK
<1>2. CASE ReadQueue
  <2>1. batch' \in SUBSET Project
    BY <1>2 DEF ReadQueue
  <2>2. TypeOK'
    BY <1>2, <2>1 DEF ReadQueue, IInv, TypeOK
  <2>3. TxnSound' /\ HolderApproved'
    BY <1>2 DEF ReadQueue, IInv, TxnSound, HolderApproved, PaidProject, Workload
  <2>4. UNCHANGED projectVars
    BY <1>2 DEF ReadQueue, projectVars
  <2>5. QED
    BY <2>2, <2>3, <2>4, ProjectSideStutters DEF IInv
<1>3. CASE TryNextInBatch
  <2>1. PICK p \in batch :
           /\ batch' = StillToTry(p)
           /\ BeginAuto(p, TRUE) \/ UNCHANGED txn
           /\ UNCHANGED projectVars
           /\ UNCHANGED <<roster, rotation, policy, gone, crashes>>
    BY <1>3 DEF TryNextInBatch, projectVars
  <2>2. p \in Project /\ batch' \in SUBSET Project
    BY <2>1 DEF IInv, TypeOK, StillToTry
  <2>3. CASE BeginAuto(p, TRUE)
    BY <2>1, <2>2, <2>3, BeginAutoInvariant
  <2>4. CASE UNCHANGED txn
    <3>1. TypeOK'
      BY <2>1, <2>2, <2>4 DEF IInv, TypeOK, projectVars
    <3>2. TxnSound' /\ HolderApproved'
      BY <2>1, <2>4 DEF IInv, TxnSound, HolderApproved, PaidProject, Workload, projectVars
    <3>3. QED
      BY <2>1, <3>1, <3>2, ProjectSideStutters DEF IInv
  <2>5. QED
    BY <2>1, <2>3, <2>4
<1>4. QED
  BY <1>1, <1>2, <1>3, ClassifyInvariant, BeginManualInvariant, WriteInvariant DEF Allocate

LEMMA ProgressInvariant == IInv /\ Progress => IInv'
<1> SUFFICES ASSUME IInv, NEW p \in Project,
                    ConfirmPayment(p) \/ StartWork(p) \/ AcceptDelivery(p)
             PROVE  IInv'
  BY DEF Progress
<1> USE DEF IInv
<1>1. CASE ConfirmPayment(p)
  <2>1. 1 + Cardinality({q \in Project : paidAt[q] > 0}) \in Nat \ {0}
    BY ProjectCount
  <2>2. TypeOK'
    BY <1>1, <2>1 DEF ConfirmPayment, TypeOK, Statuses
  <2>3. holder[p] = None /\ status[p] = "payment_pending"
    BY <1>1 DEF ConfirmPayment, StatusMatchesAssignment, Terminal
  <2>4. TxnSound'
    <3> SUFFICES ASSUME txn # NoTxn PROVE TxnSound'
      BY <1>1 DEF ConfirmPayment, TxnSound
    <3>1. txn.project # p /\ txn.editor # None
      BY <2>3, AllocationAssumption DEF TxnSound, PaidProject
    <3>2. PaidProject(txn.project)'
      BY <1>1, <3>1 DEF ConfirmPayment, TxnSound, PaidProject, TypeOK
    <3>3. Workload(txn.editor)' = {}
      BY <1>1, <2>3, <3>1 DEF ConfirmPayment, TxnSound, Workload, TypeOK
    <3>4. UNCHANGED <<txn, holder, roster, complexity>>
      BY <1>1 DEF ConfirmPayment
    <3>5. QED
      BY <3>2, <3>3, <3>4 DEF TxnSound
  <2>5. ReviewSound' /\ HolderApproved' /\ OneActiveProject'
    BY <1>1, <2>3 DEF ConfirmPayment, ReviewSound, HolderApproved, OneActiveProject, TypeOK, Terminal
  <2>6. QueueMatchesAssignment' /\ QueueMatchesReview'
    <3>1. \A q \in Project : paidAt[q] > 0 => paidAt'[q] > 0
      BY <1>1, <2>1 DEF ConfirmPayment, TypeOK
    <3>2. UNCHANGED <<queue, holder, complexity>>
      BY <1>1 DEF ConfirmPayment
    <3>3. QED
      BY <3>1, <3>2 DEF QueueMatchesAssignment, QueueMatchesReview
  <2>7. StatusMatchesAssignment'
    BY <1>1, <2>3 DEF ConfirmPayment, StatusMatchesAssignment, TypeOK
  <2>8. QED
    BY <2>2, <2>4, <2>5, <2>6, <2>7
<1>2. ASSUME StartWork(p) \/ AcceptDelivery(p)
      PROVE  IInv'
  <2>1. PICK s \in {"in_delivery", "completed"} :
           /\ status' = [status EXCEPT ![p] = s]
           /\ status[p] \notin Terminal /\ holder[p] # None /\ txn = NoTxn
           /\ UNCHANGED <<paidAt, complexity, queue, holder, term, roster, rotation,
                          policy, txn, batch, gone, crashes>>
    BY <1>2 DEF StartWork, AcceptDelivery, LockFree, PaidProject
  <2>2. TypeOK' /\ TxnSound'
    BY <2>1 DEF TypeOK, Statuses, TxnSound
  <2>3. ReviewSound' /\ HolderApproved' /\ OneActiveProject'
    BY <2>1 DEF ReviewSound, HolderApproved, OneActiveProject, TypeOK, Terminal
  <2>4. QueueMatchesAssignment' /\ QueueMatchesReview' /\ StatusMatchesAssignment'
    BY <2>1 DEF QueueMatchesAssignment, QueueMatchesReview, StatusMatchesAssignment, TypeOK, Terminal
  <2>5. QED
    BY <2>2, <2>3, <2>4
<1>3. QED
  BY <1>1, <1>2

\* The deletion of an editor keeps the invariant of the rows it touches, and
\* never adds to anybody's workload.
LEMMA DropEditorInvariant ==
    ASSUME IInv, NEW e \in Editor, DropEditor(e), txn' \in Txn, batch' \in SUBSET Project
    PROVE  /\ TypeOK' /\ ReviewSound' /\ HolderApproved' /\ OneActiveProject'
           /\ QueueMatchesAssignment' /\ QueueMatchesReview' /\ StatusMatchesAssignment'
<1> USE DEF IInv
<1>1. TypeOK'
  <2>1. status' \in [Project -> Statuses]
    BY DEF DropEditor, Returned, TypeOK, Statuses
  <2>2. queue' \in [Project -> [status : {"none", "waiting", "assigned"},
                               level : Level \cup {None}]]
    BY DEF DropEditor, Requeued, TypeOK
  <2>3. rotation' \in [Level -> [last : Editor \cup {None}, moved : BOOLEAN]]
    BY DEF DropEditor, Forget, TypeOK
  <2>4. roster' \in [Editor -> EditorRow]
    BY DEF DropEditor, TypeOK, EditorRow
  <2>5. holder' \in [Project -> Editor \cup {None}]
    BY DEF DropEditor, TypeOK
  <2>6. QED
    BY <2>1, <2>2, <2>3, <2>4, <2>5 DEF DropEditor, TypeOK
<1>2. ReviewSound' /\ OneActiveProject'
  BY DEF DropEditor, Returned, ReviewSound, OneActiveProject, TypeOK, Terminal
<1>3. HolderApproved'
  BY DEF DropEditor, Returned, HolderApproved, TypeOK, EditorRow, Terminal
<1>4. QueueMatchesAssignment'
  BY AllocationAssumption DEF DropEditor, Requeued, QueueMatchesAssignment, TypeOK
<1>5. QueueMatchesReview'
  BY DEF DropEditor, Requeued, QueueMatchesReview, TypeOK
<1>6. StatusMatchesAssignment'
  BY DEF DropEditor, Returned, StatusMatchesAssignment, TypeOK, Terminal
<1>7. QED
  BY <1>1, <1>2, <1>3, <1>4, <1>5, <1>6

LEMMA DeleteInvariant == IInv /\ Delete => IInv'
<1> SUFFICES ASSUME IInv, Delete PROVE IInv'
  OBVIOUS
<1> USE DEF IInv
<1>1. NoTxn \in Txn
  BY DEF NoTxn, Txn
<1>2. ASSUME NEW e \in Editor, ArchiveEditor(e)
      PROVE  IInv'
  <2>1. DropEditor(e) /\ UNCHANGED <<txn, batch>>
    BY <1>2 DEF ArchiveEditor
  <2>2. TxnSound'
    <3> SUFFICES ASSUME txn # NoTxn PROVE TxnSound'
      BY <2>1 DEF TxnSound
    <3>1. /\ txn.project \in Project
          /\ holder[txn.project] # e
      BY <1>2 DEF ArchiveEditor, TxnSound
    <3>2. holder'[txn.project] = holder[txn.project] /\ status'[txn.project] = status[txn.project]
      BY <2>1, <3>1 DEF DropEditor
    <3>3. PaidProject(txn.project)' /\ complexity'[txn.project].level # None
      BY <2>1, <3>2 DEF DropEditor, TxnSound, PaidProject
    <3>4. Workload(txn.editor)' = {}
      BY <2>1, AllocationAssumption DEF DropEditor, TxnSound, Workload, Returned, Terminal
    <3>5. roster'[txn.editor].approved /\ roster'[txn.editor].capacity > 0
      BY <2>1 DEF DropEditor, TxnSound, TypeOK, EditorRow
    <3>6. QED
      BY <2>1, <3>2, <3>3, <3>4, <3>5 DEF TxnSound
  <2>3. QED
    BY <2>1, <2>2, DropEditorInvariant DEF TypeOK
<1>3. ASSUME NEW e \in Editor, ArchiveEditorDeadlock(e)
      PROVE  IInv'
  <2>1. DropEditor(e) /\ txn' = NoTxn /\ batch' \in SUBSET Project
    BY <1>3 DEF ArchiveEditorDeadlock, Rollback, TypeOK
  <2>2. TxnSound'
    BY <2>1 DEF TxnSound
  <2>3. QED
    BY <1>1, <2>1, <2>2, DropEditorInvariant
<1>4. ASSUME NEW c \in Client, ArchiveClient(c) \/ ArchiveClientDeadlock(c)
      PROVE  IInv'
  <2>1. /\ UNCHANGED projectVars
        /\ UNCHANGED <<roster, rotation, policy, crashes>>
        /\ gone' \in SUBSET Client
    BY <1>4 DEF ArchiveClient, ArchiveClientDeadlock, DropClient, projectVars, TypeOK
  <2>2. txn' \in {txn, NoTxn} /\ batch' \in SUBSET Project
    BY <1>4 DEF ArchiveClient, ArchiveClientDeadlock, Rollback, TypeOK
  <2>3. TypeOK'
    BY <1>1, <2>1, <2>2 DEF projectVars, TypeOK
  <2>4. TxnSound' /\ HolderApproved'
    BY <2>1, <2>2 DEF projectVars, TxnSound, HolderApproved, PaidProject, Workload
  <2>5. QED
    BY <2>1, <2>3, <2>4, ProjectSideStutters
<1>5. QED
  BY <1>2, <1>3, <1>4 DEF Delete

LEMMA CrashInvariant == IInv /\ Crash => IInv'
<1> SUFFICES ASSUME IInv, Crash PROVE IInv'
  OBVIOUS
<1> USE DEF IInv
<1>1. /\ UNCHANGED projectVars
      /\ UNCHANGED <<roster, rotation, policy, gone>>
      /\ crashes' \in Nat
  BY DEF Crash, projectVars, TypeOK
<1>2. txn' \in {txn, NoTxn} /\ batch' \in SUBSET Project
  BY DEF Crash, Rollback, TypeOK
<1>3. TypeOK'
  <2>1. NoTxn \in Txn
    BY DEF NoTxn, Txn
  <2>2. QED
    BY <1>1, <1>2, <2>1 DEF projectVars, TypeOK
<1>4. TxnSound' /\ HolderApproved'
  BY <1>1, <1>2 DEF projectVars, TxnSound, HolderApproved, PaidProject, Workload
<1>5. QED
  BY <1>1, <1>3, <1>4, ProjectSideStutters

LEMMA StutterInvariant == IInv /\ UNCHANGED vars => IInv'
<1> SUFFICES ASSUME IInv, UNCHANGED vars PROVE IInv'
  OBVIOUS
<1> USE DEF IInv
<1>1. TypeOK'
  BY DEF vars, TypeOK
<1>2. TxnSound' /\ HolderApproved'
  BY DEF vars, TxnSound, HolderApproved, PaidProject, Workload
<1>3. UNCHANGED projectVars
  BY DEF vars, projectVars
<1>4. QED
  BY <1>1, <1>2, <1>3, ProjectSideStutters

LEMMA NextInvariant == IInv /\ [Next]_vars => IInv'
BY ConfigureInvariant, AllocateInvariant, ProgressInvariant, DeleteInvariant,
   CrashInvariant, StutterInvariant DEF Next

-----------------------------------------------------------------------------
(* The invariants, for every instance *)

\* Allocation's inductive invariant holds in every reachable state.
THEOREM AllocationInvariant == Spec => []IInv
<1>1. Init => IInv
  BY InitInvariant
<1>2. IInv /\ [Next]_vars => IInv'
  BY NextInvariant
<1>3. QED
  BY <1>1, <1>2, PTL DEF Spec

\* Every row keeps the type the schema gives it.
THEOREM AllocationTypeOK == Spec => []TypeOK
<1>1. IInv => TypeOK
  BY DEF IInv
<1>2. QED
  BY <1>1, AllocationInvariant, PTL

\* No editor ever has two unfinished projects: manual_assign and assign_next
\* check the workload, and only deletions and overrides run before they write.
THEOREM AllocationOneActiveProject == Spec => []OneActiveProject
<1>1. IInv => OneActiveProject
  BY DEF IInv
<1>2. QED
  BY <1>1, AllocationInvariant, PTL

\* The queue and the assignment table agree: classify, write_assignment and
\* archive_deleted_identity keep them together.
THEOREM AllocationQueueMatchesAssignment == Spec => []QueueMatchesAssignment
<1>1. IInv => QueueMatchesAssignment
  BY DEF IInv
<1>2. QED
  BY <1>1, AllocationInvariant, PTL

\* The queue asks for the level of the latest review of a paid project.
THEOREM AllocationQueueMatchesReview == Spec => []QueueMatchesReview
<1>1. IInv => QueueMatchesReview
  BY DEF IInv
<1>2. QED
  BY <1>1, AllocationInvariant, PTL

\* The status of a project tells whether it has an editor.
THEOREM AllocationStatusMatchesAssignment == Spec => []StatusMatchesAssignment
<1>1. IInv => StatusMatchesAssignment
  BY DEF IInv
<1>2. QED
  BY <1>1, AllocationInvariant, PTL

\* Open work keeps its editor approved and within capacity: a workload is a
\* singleton, and capacity stays above zero.
THEOREM AllocationHolderStaysConfigured == Spec => []HolderStaysConfigured
<1>1. IInv => HolderStaysConfigured
  <2> SUFFICES ASSUME IInv, NEW p \in Project, holder[p] # None, status[p] \notin Terminal
               PROVE  /\ roster[holder[p]].approved
                      /\ roster[holder[p]].capacity >= Cardinality(Workload(holder[p]))
    BY DEF HolderStaysConfigured
  <2>1. roster[holder[p]].approved /\ roster[holder[p]].capacity > 0
    BY DEF IInv, HolderApproved
  <2>2. Workload(holder[p]) = {p}
    BY DEF IInv, OneActiveProject, Workload
  <2>3. Cardinality(Workload(holder[p])) = 1
    BY <2>2, FS_Singleton
  <2>4. roster[holder[p]].capacity \in Nat
    BY DEF IInv, TypeOK, EditorRow
  <2>5. QED
    BY <2>1, <2>3, <2>4
<1>2. QED
  BY <1>1, AllocationInvariant, PTL

-----------------------------------------------------------------------------
(* The audit *)

AllActive == \A e \in Editor : roster[e].active

\* What the audit needs besides IInv: saved policies were validated, a review
\* always leaves a level and a queue row, and, before the first deletion, a
\* finished project keeps its editor and a rotation that moved its place.
AuditSound ==
    /\ ValidPolicy(policy)
    /\ \A p \in Project : complexity[p].revision > 0 =>
          complexity[p].level # None /\ queue[p].status # "none"
    /\ AllActive => /\ \A p \in Project : status[p] \in Terminal => holder[p] # None
                    /\ \A l \in Level : rotation[l].moved <=> rotation[l].last # None

\* The rows AuditSound reads.
auditVars == <<status, complexity, queue, holder, roster, rotation, policy>>

LEMMA AuditStutters == AuditSound /\ UNCHANGED auditVars => AuditSound'
BY DEF AuditSound, auditVars, AllActive

LEMMA ConfigureAudit == IInv /\ AuditSound /\ Configure => AuditSound'
<1> SUFFICES ASSUME IInv, AuditSound, Configure PROVE AuditSound'
  OBVIOUS
<1>1. UNCHANGED <<status, complexity, queue, holder, rotation>>
  BY DEF Configure, SavePolicy, ConfigureEditor, ApproveProficiency, SetAvailabilityOverride
<1>2. ValidPolicy(policy')
  BY AllocationAssumption DEF AuditSound, Configure, SavePolicy, ConfigureEditor,
     ApproveProficiency, SetAvailabilityOverride
<1>3. \A e \in Editor : roster'[e].active = roster[e].active
  <2>1. ASSUME NEW e \in Editor, NEW approved \in BOOLEAN, NEW level \in Level \cup {None},
               NEW capacity \in 0..MaxCapacity, ConfigureEditor(e, approved, level, capacity)
        PROVE  \A f \in Editor : roster'[f].active = roster[f].active
    <3>1. roster[e] \in EditorRow
      BY DEF IInv, TypeOK
    <3>2. [[[roster[e] EXCEPT !.approved = approved] EXCEPT !.level = level]
             EXCEPT !.capacity = capacity].active = roster[e].active
      BY <3>1 DEF EditorRow
    <3>3. roster' = [roster EXCEPT ![e] =
             [[[roster[e] EXCEPT !.approved = approved] EXCEPT !.level = level]
                EXCEPT !.capacity = capacity]]
      BY <2>1 DEF ConfigureEditor, IInv, TypeOK
    <3>4. QED
      BY <3>2, <3>3 DEF IInv, TypeOK
  <2>2. ASSUME NEW e \in Editor, NEW level \in Level, ApproveProficiency(e, level)
        PROVE  \A f \in Editor : roster'[f].active = roster[f].active
    BY <2>2 DEF ApproveProficiency, IInv, TypeOK, EditorRow
  <2>3. ASSUME NEW e \in Editor, NEW unavailable \in BOOLEAN,
               SetAvailabilityOverride(e, unavailable)
        PROVE  \A f \in Editor : roster'[f].active = roster[f].active
    BY <2>3 DEF SetAvailabilityOverride, IInv, TypeOK, EditorRow
  <2>4. QED
    BY <2>1, <2>2, <2>3, AllocationAssumption DEF Configure, SavePolicy
<1>4. QED
  BY <1>1, <1>2, <1>3 DEF AuditSound, AllActive

LEMMA AllocateAudit == IInv /\ AuditSound /\ Allocate => AuditSound'
<1> SUFFICES ASSUME IInv, AuditSound, Allocate PROVE AuditSound'
  OBVIOUS
<1>1. ASSUME NEW p \in Project, NEW level \in Level, NEW expected \in 0..MaxRevision,
             Classify(p, level, expected)
      PROVE  AuditSound'
  <2>1. level # None
    BY AllocationAssumption
  <2>2. UNCHANGED <<holder, roster, rotation, policy>>
    BY <1>1 DEF Classify
  <2>3. \A q \in Project : complexity'[q].revision > 0 =>
           complexity'[q].level # None /\ queue'[q].status # "none"
    BY <1>1, <2>1 DEF Classify, Queued, AuditSound, IInv, TypeOK
  <2>4. \A q \in Project : status'[q] \in Terminal => status[q] \in Terminal
    BY <1>1 DEF Classify, Terminal, IInv, TypeOK
  <2>5. QED
    BY <2>2, <2>3, <2>4 DEF AuditSound, AllActive
<1>2. CASE Write
  <2>1. /\ txn.project \in Project /\ txn.editor \in Editor /\ txn.editor # None
        /\ status[txn.project] \notin Terminal
    BY <1>2, AllocationAssumption DEF Write, IInv, TxnSound, PaidProject
  <2>2. UNCHANGED <<complexity, roster, policy>>
    BY <1>2 DEF Write
  <2>3. \A q \in Project : queue[q].status # "none" => queue'[q].status # "none"
    BY <1>2, <2>1 DEF Write, IInv, TypeOK
  <2>4. \A q \in Project : status'[q] \in Terminal => status[q] \in Terminal /\ holder'[q] = holder[q]
    BY <1>2, <2>1 DEF Write, Staffed, Terminal, IInv, TypeOK
  <2>5. \A l \in Level : \/ rotation'[l] = rotation[l]
                         \/ rotation'[l].moved /\ rotation'[l].last = txn.editor
    BY <1>2, <2>1 DEF Write, Advance, IInv, TypeOK
  <2>6. QED
    BY <2>1, <2>2, <2>3, <2>4, <2>5 DEF AuditSound, AllActive
<1>3. CASE UNCHANGED auditVars
  BY <1>3, AuditStutters
<1>4. QED
  BY <1>1, <1>2, <1>3
     DEF Allocate, BeginManual, AssignNext, ReadQueue, TryNextInBatch, auditVars

LEMMA ProgressAudit == IInv /\ AuditSound /\ Progress => AuditSound'
<1> SUFFICES ASSUME IInv, AuditSound, NEW p \in Project,
                    ConfirmPayment(p) \/ StartWork(p) \/ AcceptDelivery(p)
             PROVE  AuditSound'
  BY DEF Progress
<1>1. UNCHANGED <<complexity, queue, holder, roster, rotation, policy>>
  BY DEF ConfirmPayment, StartWork, AcceptDelivery
<1>2. \A q \in Project : status'[q] \in Terminal => status[q] \in Terminal \/ holder[q] # None
  BY DEF ConfirmPayment, StartWork, AcceptDelivery, Terminal, IInv, TypeOK
<1>3. QED
  BY <1>1, <1>2 DEF AuditSound, AllActive

LEMMA DeleteAudit == IInv /\ AuditSound /\ Delete => AuditSound'
<1> SUFFICES ASSUME IInv, AuditSound, Delete PROVE AuditSound'
  OBVIOUS
<1>1. ASSUME NEW e \in Editor, DropEditor(e)
      PROVE  AuditSound'
  <2>1. ~roster'[e].active
    BY <1>1 DEF DropEditor, IInv, TypeOK, EditorRow
  <2>2. UNCHANGED <<complexity, policy>>
    BY <1>1 DEF DropEditor
  <2>3. \A q \in Project : queue[q].status # "none" => queue'[q].status # "none"
    BY <1>1 DEF DropEditor, Requeued, IInv, TypeOK
  <2>4. QED
    BY <2>1, <2>2, <2>3 DEF AuditSound, AllActive
<1>2. CASE UNCHANGED auditVars
  BY <1>2, AuditStutters
<1>3. QED
  BY <1>1, <1>2
     DEF Delete, ArchiveEditor, ArchiveEditorDeadlock, ArchiveClient, ArchiveClientDeadlock,
         DropClient, auditVars

\* While IInv and AuditSound hold the audit finds nothing it may not find.
LEMMA AuditPasses == IInv /\ AuditSound => AssignmentsReconcile
<1> SUFFICES ASSUME IInv, AuditSound PROVE AssignmentsReconcile
  OBVIOUS
<1>1. PolicyFindings = {} /\ ComplexityFindings = {}
  BY DEF PolicyFindings, ComplexityFindings, AuditSound
<1>2. QueueMismatches = {}
  BY DEF QueueMismatches, IInv, QueueMatchesAssignment
<1>3. CapacityFindings = {}
  <2> SUFFICES ASSUME NEW e \in Editor, NEW p \in Workload(e)
               PROVE  ~(Cardinality(Workload(e)) > roster[e].capacity)
    BY DEF CapacityFindings
  <2>1. p \in Project /\ holder[p] = e /\ e # None /\ status[p] \notin Terminal
    BY AllocationAssumption DEF Workload
  <2>2. Workload(e) = {p}
    BY <2>1 DEF IInv, OneActiveProject, Workload
  <2>3. Cardinality(Workload(e)) = 1
    BY <2>2, FS_Singleton
  <2>4. roster[e].capacity > 0 /\ roster[e].capacity \in Nat
    BY <2>1 DEF IInv, HolderApproved, TypeOK, EditorRow
  <2>5. QED
    BY <2>3, <2>4
<1>4. MissingQueues = {}
  BY DEF MissingQueues, AuditSound
<1>5. ASSUME AllActive
      PROVE  QueueFindings = {} /\ AssignmentFindings = {} /\ RotationFindings = {}
  <2>1. RotationFindings = {}
    BY <1>5 DEF RotationFindings, AuditSound, IInv, TypeOK
  <2>2. QueueFindings = {}
    BY <1>5 DEF QueueFindings, Funded, AuditSound, IInv, QueueMatchesAssignment,
                QueueMatchesReview, TypeOK
  <2>3. AssignmentFindings = {}
    <3> SUFFICES ASSUME NEW p \in AssignmentFindings PROVE FALSE
      OBVIOUS
    <3>1. p \in Project /\ holder[p] # None /\ holder[p] \in Editor
      BY DEF AssignmentFindings, IInv, TypeOK
    <3>2. queue[p].status = "assigned"
      BY <3>1 DEF IInv, QueueMatchesAssignment
    <3>3. Funded(p) /\ complexity[p].revision # 0 /\ queue[p].level = complexity[p].level
      BY <3>1, <3>2 DEF IInv, QueueMatchesReview, Funded
    <3>4. status[p] \notin Terminal =>
             roster[holder[p]].approved /\ roster[holder[p]].active /\ roster[holder[p]].capacity # 0
      BY <1>5, <3>1 DEF IInv, HolderApproved, AllActive, TypeOK, EditorRow
    <3>5. QED
      BY <3>1, <3>2, <3>3, <3>4 DEF AssignmentFindings
  <2>4. QED
    BY <2>1, <2>2, <2>3
<1>6. QED
  BY <1>1, <1>2, <1>3, <1>4, <1>5 DEF AssignmentsReconcile, AllActive

\* The nightly audit of allocation passes: it finds nothing before the first
\* identity deletion, and afterwards only what a deletion leaves behind.
THEOREM AllocationReconciles == Spec => []AssignmentsReconcile
<1>1. Init => AuditSound
  <2> SUFFICES ASSUME Init PROVE AuditSound
    OBVIOUS
  <2>1. ValidPolicy(policy)
    BY DEF Init, ValidPolicy, DisabledPolicy
  <2>2. \A p \in Project : complexity[p].revision = 0 /\ status[p] \notin Terminal
    BY DEF Init, Terminal
  <2>3. \A l \in Level : rotation[l].moved = FALSE /\ rotation[l].last = None
    BY DEF Init
  <2>4. QED
    BY <2>1, <2>2, <2>3 DEF AuditSound
<1>2. IInv /\ AuditSound /\ [Next]_vars => AuditSound'
  <2>1. IInv /\ AuditSound /\ Crash => AuditSound'
    BY AuditStutters DEF Crash, auditVars
  <2>2. AuditSound /\ UNCHANGED vars => AuditSound'
    BY AuditStutters DEF vars, auditVars
  <2>3. QED
    BY <2>1, <2>2, ConfigureAudit, AllocateAudit, ProgressAudit, DeleteAudit DEF Next
<1>3. Spec => []AuditSound
  BY <1>1, <1>2, AllocationInvariant, PTL DEF Spec
<1>4. QED
  BY <1>3, AuditPasses, AllocationInvariant, PTL

-----------------------------------------------------------------------------
(* The action properties *)

\* Everything but an assignment being written or an editor being deleted leaves
\* holders, rotation and finished work where they were.
LEMMA OtherStepsKeepHolders ==
    ASSUME [Next]_vars,
           ~Write,
           \A e \in Editor : ~DropEditor(e)
    PROVE  UNCHANGED <<holder, rotation>>
<1>1. CASE Configure
  BY <1>1 DEF Configure, SavePolicy, ConfigureEditor, ApproveProficiency, SetAvailabilityOverride
<1>2. CASE Allocate
  BY <1>2 DEF Allocate, Classify, BeginManual, AssignNext, ReadQueue, TryNextInBatch
<1>3. CASE Progress
  BY <1>3 DEF Progress, ConfirmPayment, StartWork, AcceptDelivery
<1>4. CASE Delete
  BY <1>4 DEF Delete, ArchiveEditor, ArchiveEditorDeadlock, ArchiveClient,
              ArchiveClientDeadlock, DropClient
<1>5. CASE Crash
  BY <1>5 DEF Crash
<1>6. CASE UNCHANGED vars
  BY <1>6 DEF vars
<1>7. QED
  BY <1>1, <1>2, <1>3, <1>4, <1>5, <1>6 DEF Next

\* Work changes hands only by reassignment or by deletion of its editor.
THEOREM AllocationOnlyReassignmentMovesWork == Spec => OnlyReassignmentMovesWork
<1> DEFINE Moves(p) ==
      holder[p] # None /\ holder'[p] # holder[p] =>
          IF holder'[p] = None
          THEN roster[holder[p]].active /\ ~roster'[holder[p]].active
          ELSE txn.kind = "manual" /\ holder'[p] = txn.editor /\ status[p] \notin Terminal
<1>1. IInv /\ [Next]_vars => \A p \in Project : Moves(p)
  <2> SUFFICES ASSUME IInv, [Next]_vars, NEW p \in Project PROVE Moves(p)
    OBVIOUS
  <2>1. CASE Write
    BY <2>1, AllocationAssumption DEF Write, IInv, TxnSound, PaidProject, TypeOK
  <2>2. ASSUME NEW e \in Editor, DropEditor(e)
        PROVE  Moves(p)
    <3>1. roster[e].active /\ ~roster'[e].active
      BY <2>2 DEF DropEditor, IInv, TypeOK, EditorRow
    <3>2. holder'[p] = IF holder[p] = e THEN None ELSE holder[p]
      BY <2>2 DEF DropEditor
    <3>3. QED
      BY <3>1, <3>2
  <2>3. CASE ~Write /\ \A e \in Editor : ~DropEditor(e)
    BY <2>3, OtherStepsKeepHolders
  <2>4. QED
    BY <2>1, <2>2, <2>3
<1>2. IInv /\ [Next]_vars => [\A p \in Project : Moves(p)]_vars
  BY <1>1
<1>3. QED
  BY <1>2, AllocationInvariant, PTL DEF Spec, OnlyReassignmentMovesWork

\* The rotation position of a level moves only together with an assignment at
\* that level, or is cleared with its editor.
THEOREM AllocationPointerMovesWithAssignment == Spec => PointerMovesWithAssignment
<1> DEFINE Moves(l) ==
      rotation'[l].last # rotation[l].last =>
          IF rotation'[l].last = None
          THEN ~roster'[rotation[l].last].active
          ELSE \E p \in Project : /\ complexity[p].level = l
                                  /\ holder[p] # holder'[p]
                                  /\ holder'[p] = rotation'[l].last
<1>1. IInv /\ [Next]_vars => \A l \in Level : Moves(l)
  <2> SUFFICES ASSUME IInv, [Next]_vars, NEW l \in Level PROVE Moves(l)
    OBVIOUS
  <2>1. CASE Write
    <3> SUFFICES ASSUME rotation'[l].last # rotation[l].last PROVE Moves(l)
      OBVIOUS
    <3>1. /\ txn.project \in Project /\ txn.editor \in Editor /\ txn.editor # None
          /\ holder[txn.project] # txn.editor
      BY <2>1, AllocationAssumption DEF Write, IInv, TxnSound
    <3>2. rotation' = Advance(complexity[txn.project].level, txn.editor)
      BY <2>1 DEF Write
    <3>3. complexity[txn.project].level = l /\ rotation'[l].last = txn.editor
      BY <3>2 DEF Advance, IInv, TypeOK
    <3>4. holder'[txn.project] = txn.editor
      BY <2>1, <3>1 DEF Write, IInv, TypeOK
    <3>5. QED
      BY <3>1, <3>3, <3>4
  <2>2. ASSUME NEW e \in Editor, DropEditor(e)
        PROVE  Moves(l)
    <3>1. ~roster'[e].active
      BY <2>2 DEF DropEditor, IInv, TypeOK, EditorRow
    <3>2. rotation'[l].last = IF rotation[l].last = e THEN None ELSE rotation[l].last
      BY <2>2 DEF DropEditor, Forget, IInv, TypeOK
    <3>3. QED
      BY <3>1, <3>2
  <2>3. CASE ~Write /\ \A e \in Editor : ~DropEditor(e)
    BY <2>3, OtherStepsKeepHolders
  <2>4. QED
    BY <2>1, <2>2, <2>3
<1>2. IInv /\ [Next]_vars => [\A l \in Level : Moves(l)]_vars
  BY <1>1
<1>3. QED
  BY <1>2, AllocationInvariant, PTL DEF Spec, PointerMovesWithAssignment

-----------------------------------------------------------------------------
(* Refinement *)

\* The projects Staffing calls done.
Finished == {p \in Project : status[p] \in Terminal}

\* No step but AcceptDelivery finishes a project, and nothing reopens one.
LEMMA OtherStepsKeepFinished ==
    ASSUME IInv, [Next]_vars, \A p \in Project : ~AcceptDelivery(p)
    PROVE  Finished' = Finished
<1>1. CASE Configure
  BY <1>1 DEF Configure, SavePolicy, ConfigureEditor, ApproveProficiency, SetAvailabilityOverride, Finished
<1>2. ASSUME NEW p \in Project, NEW level \in Level, NEW expected \in 0..MaxRevision,
             Classify(p, level, expected)
      PROVE  Finished' = Finished
  BY <1>2 DEF Classify, Finished, IInv, TypeOK, Terminal
<1>3. CASE Write
  <2>1. status[txn.project] \notin Terminal /\ Staffed(status[txn.project]) \notin Terminal
    BY <1>3 DEF Write, IInv, TxnSound, PaidProject, Staffed, Terminal
  <2>2. QED
    BY <1>3, <2>1 DEF Write, Finished, IInv, TypeOK
<1>4. CASE Allocate
  BY <1>2, <1>3, <1>4 DEF Allocate, BeginManual, AssignNext, ReadQueue, TryNextInBatch, Finished
<1>5. CASE Progress
  BY <1>5 DEF Progress, ConfirmPayment, StartWork, Finished, IInv, TypeOK, Terminal
<1>6. ASSUME NEW e \in Editor, DropEditor(e)
      PROVE  Finished' = Finished
  BY <1>6 DEF DropEditor, Returned, Finished, Terminal
<1>7. CASE Delete
  BY <1>6, <1>7 DEF Delete, ArchiveEditor, ArchiveEditorDeadlock, ArchiveClient,
                    ArchiveClientDeadlock, DropClient, Finished
<1>8. CASE Crash
  BY <1>8 DEF Crash, Finished
<1>9. CASE UNCHANGED vars
  BY <1>9 DEF vars, Finished
<1>10. QED
  BY <1>1, <1>4, <1>5, <1>7, <1>8, <1>9 DEF Next

\* The allocation service implements Staffing: whatever queues, policies,
\* rotation and half-done transactions do, only idle editors get projects.
THEOREM AllocationImplementsStaffing == Spec => ImplementsStaffing
<1>1. Init => Abstract!Init
  BY DEF Init, Abstract!Init, Terminal
<1>2. IInv /\ [Next]_vars => [Abstract!Next]_(Abstract!staffing)
  <2> SUFFICES ASSUME IInv, [Next]_vars
               PROVE  Abstract!Next \/ UNCHANGED <<holder, Finished>>
    BY DEF Abstract!staffing, Finished
  <2>1. CASE Write
    <3>1. /\ txn.project \in Project /\ txn.editor \in Editor
          /\ status[txn.project] \notin Terminal
      BY <2>1 DEF Write, IInv, TxnSound, PaidProject
    <3>2. \A q \in Project : holder[q] = txn.editor => status[q] \in Terminal
      BY <2>1, WorkloadOfHolder DEF Write, IInv, TxnSound
    <3>3. Finished' = Finished
      BY <2>1, OtherStepsKeepFinished DEF Write, AcceptDelivery, LockFree
    <3>4. holder' = [holder EXCEPT ![txn.project] = txn.editor]
      BY <2>1 DEF Write
    <3>5. Abstract!Grant(txn.project, txn.editor)
      BY <3>1, <3>2, <3>3, <3>4 DEF Abstract!Grant, Abstract!Idle, Finished
    <3>6. QED
      BY <3>1, <3>5 DEF Abstract!Next
  <2>2. ASSUME NEW e \in Editor, DropEditor(e)
        PROVE  Abstract!Next
    <3>1. Finished' = Finished
      BY <2>2 DEF DropEditor, Returned, Finished, Terminal
    <3>2. Abstract!Leave(e)
      BY <2>2, <3>1 DEF DropEditor, Abstract!Leave, Finished
    <3>3. QED
      BY <3>2 DEF Abstract!Next
  <2>3. ASSUME NEW p \in Project, AcceptDelivery(p)
        PROVE  Abstract!Next
    <3>1. status' = [status EXCEPT ![p] = "completed"] /\ UNCHANGED holder
      BY <2>3 DEF AcceptDelivery
    <3>2. Finished' = Finished \cup {p}
      BY <3>1 DEF Finished, Terminal, IInv, TypeOK
    <3>3. Abstract!Finish(p)
      BY <2>3, <3>1, <3>2 DEF AcceptDelivery, PaidProject, Abstract!Finish, Finished
    <3>4. QED
      BY <3>3 DEF Abstract!Next
  <2>4. CASE /\ ~Write
             /\ \A e \in Editor : ~DropEditor(e)
             /\ \A p \in Project : ~AcceptDelivery(p)
    BY <2>4, OtherStepsKeepHolders, OtherStepsKeepFinished
  <2>5. QED
    BY <2>1, <2>2, <2>3, <2>4
<1>3. QED
  BY <1>1, <1>2, AllocationInvariant, PTL DEF Spec, ImplementsStaffing, Abstract!Spec


-----------------------------------------------------------------------------
(* How fair the rotation is *)

\* What AllocationRotation is run under: no policy moves the pointer for a
\* manual choice, and no editor's identity is deleted.  Without either one
\* BoundedBypass fails (see README).
PointerOnlyServes ==
    /\ \A c \in Policies : c.pointer # "advance"
    /\ DeletableEditors = {}

\* The colleagues whose turn comes before e's, at e's level.
Ahead(e) == {f \in Editor \ {e} : Turn(roster[e].level, f) < Turn(roster[e].level, e)}

\* Everyone who passes e over leaves the editors ahead of e, and nobody joins.
Budget ==
    \A e \in Editor : passed[e] > 0 =>
        /\ Ready(e)
        /\ roster[e].level \in Level
        /\ passed[e] + Cardinality(Ahead(e)) < Cardinality(Editor)

\* An assignment being written serves an editor ahead of all who were ready
\* when it was decided.
InTurn ==
    txn.kind = "auto" =>
        \A e \in Editor :
            /\ passed[e] > 0 /\ e # txn.editor
            /\ roster[e].level = complexity[txn.project].level
            => Turn(roster[e].level, txn.editor) < Turn(roster[e].level, e)

\* The inductive invariant of the rotation.
Fair ==
    /\ IInv
    /\ policy \in Policies
    /\ passed \in [Editor -> Nat]
    /\ Budget
    /\ InTurn

\* A finite set of numbers that is not empty has a highest one.
LEMMA HighestExists ==
    ASSUME NEW S \in FiniteSubsetsOf(Nat), S # {}
    PROVE  Max(S) \in S /\ \A y \in S : y <= Max(S)
<1> DEFINE Highest(T) == \E x \in T : \A y \in T : x >= y
           Bad == {T \in FiniteSubsetsOf(Nat) : T # {} /\ ~Highest(T)}
<1>1. Bad = {}
  <2> SUFFICES ASSUME Bad # {} PROVE FALSE
    OBVIOUS
  <2>1. PICK T \in Bad : \A s \in Bad : ~ (<<s, T>> \in StrictSubsetOrdering(Nat))
    <3>1. IsWellFoundedOn(StrictSubsetOrdering(Nat), FiniteSubsetsOf(Nat))
      BY FS_StrictSubsetOrderingWellFounded
    <3>2. Bad \subseteq FiniteSubsetsOf(Nat)
      OBVIOUS
    <3> HIDE DEF Bad
    <3>3. QED
      BY <3>1, <3>2, WFMin
  <2>2. T \in FiniteSubsetsOf(Nat) /\ T # {} /\ ~Highest(T) /\ T \subseteq Nat /\ IsFiniteSet(T)
    BY DEF FiniteSubsetsOf
  <2>3. PICK x \in T : TRUE
    BY <2>2
  <2> DEFINE rest == T \ {x}
  <2>4. rest \in FiniteSubsetsOf(Nat) /\ <<rest, T>> \in StrictSubsetOrdering(Nat)
    BY <2>2, <2>3, FS_RemoveElement DEF FiniteSubsetsOf, StrictSubsetOrdering
  <2>5. rest \notin Bad
    BY <2>1, <2>4
  <2>6. rest = {} \/ Highest(rest)
    BY <2>4, <2>5
  <2>7. Highest(T)
    <3>1. CASE rest = {}
      BY <2>2, <2>3, <3>1
    <3>2. CASE Highest(rest)
      <4>1. PICK m \in rest : \A y \in rest : m >= y
        BY <3>2
      <4>2. \A y \in T : y = x \/ m >= y
        BY <4>1
      <4>3. m \in Nat /\ x \in Nat /\ m \in T /\ \A y \in T : y \in Nat
        BY <2>2, <2>3, <4>1
      <4>4. CASE m >= x
        BY <4>2, <4>3, <4>4
      <4>5. CASE x >= m
        <5>1. \A y \in T : x >= y
          BY <4>2, <4>3, <4>5
        <5>2. QED
          BY <5>1
      <4>6. QED
        BY <4>3, <4>4, <4>5
    <3>3. QED
      BY <2>6, <3>1, <3>2
  <2>8. QED
    BY <2>2, <2>7
<1>2. Highest(S)
  BY <1>1
<1>3. PICK x \in S : \A y \in S : x >= y
  BY <1>2
<1>4. Max(S) \in S /\ \A y \in S : Max(S) >= y
  BY <1>3 DEF Max
<1>5. S \subseteq Nat
  BY DEF FiniteSubsetsOf
<1>6. QED
  BY <1>4, <1>5

\* LastRank is a bound on the ranks, so the walk wraps behind every editor.
LEMMA RankBound ==
    /\ LastRank \in Nat
    /\ \A e \in Editor : Rank[e] \in Nat /\ 0 < Rank[e] /\ Rank[e] <= LastRank
<1> DEFINE ranks == {Rank[e] : e \in Editor} \cup {0}
<1>1. \A e \in Editor : Rank[e] \in Nat /\ 0 < Rank[e]
  BY AllocationAssumption
<1>2. ranks \in FiniteSubsetsOf(Nat)
  <2>1. IsFiniteSet({Rank[e] : e \in Editor})
    <3> DEFINE image == {Rank[e] : e \in Editor}
    <3>1. Rank \in Surjection(Editor, image)
      BY AllocationAssumption DEF Surjection
    <3> HIDE DEF image
    <3>2. IsFiniteSet(image)
      BY <3>1, AllocationAssumption, FS_Surjection
    <3>3. QED
      BY <3>2 DEF image
  <2>2. IsFiniteSet(ranks)
    BY <2>1, FS_AddElement
  <2>3. ranks \subseteq Nat
    BY <1>1
  <2>4. QED
    BY <2>2, <2>3 DEF FiniteSubsetsOf
<1>3. Max(ranks) \in ranks /\ \A y \in ranks : y <= Max(ranks)
  BY <1>2, HighestExists
<1>4. ranks \subseteq Nat /\ \A e \in Editor : Rank[e] \in ranks
  BY <1>1
<1> HIDE DEF ranks
<1>5. LastRank = Max(ranks)
  BY DEF LastRank, ranks
<1>6. QED
  BY <1>1, <1>3, <1>4, <1>5

\* Turns are numbers, and no two editors have the same.
LEMMA TurnType ==
    ASSUME IInv, NEW l \in Level, NEW e \in Editor
    PROVE  Turn(l, e) \in Nat /\ \A f \in Editor : Turn(l, f) = Turn(l, e) => f = e
<1>1. /\ LastRank \in Nat
      /\ \A f \in Editor : Rank[f] \in Nat /\ 0 < Rank[f] /\ Rank[f] <= LastRank
  BY RankBound
<1>2. \A f \in Editor : Rank[f] = Rank[e] => f = e
  BY AllocationAssumption
<1>3. rotation[l].last = None \/ rotation[l].last \in Editor
  BY DEF IInv, TypeOK
<1>4. QED
  BY <1>1, <1>2, <1>3 DEF Turn

\* Serving f puts f behind everyone, and nobody ahead of an editor who came
\* after f.
LEMMA ServingRotates ==
    ASSUME IInv, NEW l \in Level, NEW e \in Editor, NEW f \in Editor, e # f,
           rotation' = [rotation EXCEPT ![l] = [last |-> f, moved |-> TRUE]]
    PROVE  /\ ~ (Turn(l, f)' < Turn(l, e)')
           /\ Turn(l, f) < Turn(l, e) =>
                 \A g \in Editor : Turn(l, g)' < Turn(l, e)' => Turn(l, g) < Turn(l, e)
<1>1. /\ LastRank \in Nat
      /\ \A g \in Editor : Rank[g] \in Nat /\ 0 < Rank[g] /\ Rank[g] <= LastRank
  BY RankBound
<1>2. \A g, h \in Editor : Rank[g] = Rank[h] => g = h
  BY AllocationAssumption
<1>3. rotation[l].last = None \/ rotation[l].last \in Editor
  BY DEF IInv, TypeOK
<1>4. rotation'[l].last = f /\ f # None
  BY AllocationAssumption DEF IInv, TypeOK
<1>5. \A g \in Editor : Turn(l, g)' = IF Rank[g] <= Rank[f] THEN Rank[g] + LastRank ELSE Rank[g]
  BY <1>4 DEF Turn
<1>6. ~ (Turn(l, f)' < Turn(l, e)')
  BY <1>1, <1>5
<1>7. ASSUME Turn(l, f) < Turn(l, e), NEW g \in Editor, Turn(l, g)' < Turn(l, e)'
      PROVE  Turn(l, g) < Turn(l, e)
  <2>1. CASE rotation[l].last = None
    BY <1>1, <1>2, <1>5, <1>7, <2>1 DEF Turn
  <2>2. CASE rotation[l].last # None
    <3>1. Rank[rotation[l].last] \in Nat
      BY <1>1, <1>3, <2>2
    <3>2. QED
      BY <1>1, <1>2, <1>5, <1>7, <2>2, <3>1 DEF Turn
  <2>3. QED
    BY <2>1, <2>2
<1>8. QED
  BY <1>6, <1>7

\* Sets of editors are finite, and a set without e is smaller than Editor.
LEMMA EditorCount ==
    ASSUME NEW S \in SUBSET Editor
    PROVE  /\ IsFiniteSet(S) /\ Cardinality(S) \in Nat
           /\ \A e \in Editor \ S : Cardinality(S) < Cardinality(Editor)
           /\ \A T \in SUBSET S : T # S => Cardinality(T) < Cardinality(S)
<1>1. IsFiniteSet(S) /\ IsFiniteSet(Editor)
  BY AllocationAssumption, FS_Subset
<1>2. Cardinality(S) \in Nat
  BY <1>1, FS_CardinalityType
<1>3. \A e \in Editor \ S : Cardinality(S) < Cardinality(Editor)
  <2>1. \A e \in Editor \ S : S # Editor
    OBVIOUS
  <2>2. QED
    BY <1>1, <2>1, FS_Subset, FS_CardinalityType
<1>4. \A T \in SUBSET S : T # S => Cardinality(T) < Cardinality(S)
  BY <1>1, FS_Subset, FS_CardinalityType
<1>5. QED
  BY <1>1, <1>2, <1>3, <1>4

\* A step that serves nobody spends no budget.
LEMMA QuietFair ==
    ASSUME Fair, IInv', Count, policy' = policy,
           holder' = holder, rotation' = rotation,
           \A e \in Editor : roster'[e].level = roster[e].level,
           \/ txn'.kind # "auto"
           \/ txn' = txn /\ complexity' = complexity
    PROVE  Fair'
<1>1. PassedOver = {}
  BY DEF PassedOver
<1>2. /\ passed' \in [Editor -> Nat]
      /\ \A e \in Editor : passed'[e] > 0 => Ready(e)' /\ passed'[e] = passed[e]
  BY <1>1 DEF Count, Fair
<1>3. \A l, e : Turn(l, e)' = Turn(l, e)
  BY DEF Turn
<1>4. \A e \in Editor : Ahead(e)' = Ahead(e)
  BY <1>3 DEF Ahead
<1>5. Budget'
  BY <1>2, <1>4 DEF Fair, Budget
<1>6. InTurn'
  BY <1>2, <1>3 DEF Fair, InTurn
<1>7. QED
  BY <1>2, <1>5, <1>6 DEF Fair

\* assign_next decides for the editor ahead of all who are ready.
LEMMA DecisionIsInTurn ==
    ASSUME Fair, IInv', Count, NEW p \in Project, NEW batched \in BOOLEAN, BeginAuto(p, batched),
           UNCHANGED <<policy, holder, rotation, roster, complexity>>
    PROVE  Fair'
<1> DEFINE l == complexity[p].level
<1>1. PassedOver = {}
  BY DEF PassedOver
<1>2. /\ passed' \in [Editor -> Nat]
      /\ \A e \in Editor : passed'[e] > 0 => Ready(e)' /\ passed'[e] = passed[e]
  BY <1>1 DEF Count, Fair
<1>3. \A k, e : Turn(k, e)' = Turn(k, e)
  BY DEF Turn
<1>4. \A e \in Editor : Ahead(e)' = Ahead(e)
  BY <1>3 DEF Ahead
<1>5. Budget'
  BY <1>2, <1>4 DEF Fair, Budget
<1>6. l \in Level /\ queue[p].level = l
  BY DEF Fair, IInv, TypeOK, BeginAuto, CanAssignNext, Waiting
<1>7. PICK f \in Selected(l) :
         txn' = [kind |-> "auto", project |-> p, editor |-> f, batched |-> batched]
  BY <1>6 DEF BeginAuto
<1>8. f \in Editor /\ \A e \in Editor : Eligible(e, l) => Turn(l, f) <= Turn(l, e)
  BY <1>7 DEF Selected, FirstTurn, Group, Eligible
<1>9. ASSUME NEW e \in Editor, passed'[e] > 0, e # f, roster[e].level = l
      PROVE  Turn(l, f) < Turn(l, e)
  <2>1. Eligible(e, l)
    BY <1>2, <1>9 DEF Fair, Budget, Ready
  <2>2. Turn(l, e) \in Nat /\ Turn(l, f) \in Nat /\ Turn(l, f) # Turn(l, e)
    BY <1>6, <1>8, <1>9, TurnType DEF Fair
  <2>3. QED
    BY <1>8, <2>1, <2>2
<1>10. InTurn'
  BY <1>3, <1>7, <1>9 DEF InTurn
<1>11. QED
  BY <1>2, <1>5, <1>10 DEF Fair

\* Writing the assignment passes over those who are ready, each for the first
\* time or with one colleague fewer ahead.
LEMMA WriteFair ==
    ASSUME PointerOnlyServes, Fair, IInv', Count, Write
    PROVE  Fair'
<1> DEFINE p == txn.project
           f == txn.editor
           l == complexity[p].level
<1>1. /\ p \in Project /\ f \in Editor /\ f # None /\ l \in Level
      /\ txn.kind \in {"manual", "auto"} /\ PaidProject(p)
  BY AllocationAssumption DEF Write, Fair, IInv, TxnSound, TypeOK
<1>2. /\ holder' = [holder EXCEPT ![p] = f]
      /\ status' = [status EXCEPT ![p] = Staffed(@)]
      /\ rotation' = Advance(l, f)
      /\ txn' = NoTxn
      /\ UNCHANGED <<complexity, roster, policy>>
  BY DEF Write
<1>3. policy.pointer # "advance"
  BY DEF Fair, PointerOnlyServes
<1>4. InTurn'
  BY <1>2 DEF InTurn, NoTxn
<1>5. CASE txn.kind = "manual"
  <2>1. rotation' = rotation
    BY <1>2, <1>3, <1>5 DEF Advance
  <2>2. PassedOver = {}
    BY <1>5 DEF PassedOver
  <2>3. /\ passed' \in [Editor -> Nat]
        /\ \A e \in Editor : passed'[e] > 0 => Ready(e)' /\ passed'[e] = passed[e]
    BY <2>2 DEF Count, Fair
  <2>4. \A e \in Editor : Ahead(e)' = Ahead(e)
    BY <1>2, <2>1 DEF Ahead, Turn
  <2>5. Budget'
    BY <1>2, <2>3, <2>4 DEF Fair, Budget
  <2>6. QED
    BY <1>2, <1>4, <2>3, <2>5 DEF Fair
<1>6. CASE txn.kind = "auto"
  <2>1. rotation' = [rotation EXCEPT ![l] = [last |-> f, moved |-> TRUE]]
    BY <1>2, <1>6 DEF Advance
  <2>2. /\ passed' \in [Editor -> Nat]
        /\ \A e \in Editor : passed'[e] > 0 =>
              /\ Ready(e)'
              /\ \/ passed'[e] = passed[e] /\ e \notin PassedOver
                 \/ passed'[e] = passed[e] + 1 /\ e \in PassedOver
    BY DEF Count, Fair
  <2>3. PassedOver = {e \in Editor : Ready(e) /\ roster[e].level = l}
    <3>1. holder' # holder /\ holder'[txn.project] = txn.editor
      BY <1>1, <1>2, <1>6 DEF Fair, IInv, TxnSound, Write, TypeOK
    <3>2. QED
      BY <1>6, <3>1 DEF PassedOver
  <2>4. ASSUME NEW e \in Editor, e = f PROVE ~Ready(e)'
    <3>1. holder'[p] = e /\ status'[p] \notin Terminal
      BY <1>1, <1>2, <2>4 DEF Fair, IInv, TypeOK, PaidProject, Staffed, Terminal
    <3>2. Workload(e)' # {}
      BY <1>1, <3>1 DEF Workload
    <3>3. QED
      BY <3>2 DEF Ready, Eligible
  <2>5. ASSUME NEW e \in Editor, passed'[e] > 0
        PROVE  /\ Ready(e)'
               /\ roster'[e].level \in Level
               /\ passed'[e] + Cardinality(Ahead(e)') < Cardinality(Editor)
    <3>1. e # f /\ Ready(e)'
      BY <2>2, <2>4, <2>5
    <3>2. CASE roster[e].level # l
      <4>1. passed'[e] = passed[e]
        BY <2>2, <2>3, <2>5, <3>2
      <4>2. Ahead(e)' = Ahead(e)
        BY <1>2, <2>1, <3>2 DEF Ahead, Turn, Fair, IInv, TypeOK
      <4>3. QED
        BY <1>2, <2>5, <3>1, <4>1, <4>2 DEF Fair, Budget
    <3>3. CASE roster[e].level = l
      <4> DEFINE before == Ahead(e)
                 after == Ahead(e)'
      <4>1. passed[e] \in Nat
        BY DEF Fair
      <4>2. passed'[e] = passed[e] \/ passed'[e] = passed[e] + 1
        BY <2>2, <2>5
      <4>3. before \in SUBSET Editor /\ after \in SUBSET Editor /\ e \notin after
        BY DEF Ahead
      <4>4. f \notin after
        BY <1>1, <1>2, <2>1, <3>1, <3>3, ServingRotates DEF Ahead, Fair
      <4>5. CASE passed[e] = 0
        <5> DEFINE others == Editor \ {f}
        <5>1. others \in SUBSET Editor /\ f \in Editor \ others /\ after \in SUBSET others
              /\ after # others
          BY <1>1, <3>1, <4>3, <4>4
        <5> HIDE DEF after, others
        <5>2. Cardinality(others) < Cardinality(Editor) /\ Cardinality(others) \in Nat
              /\ Cardinality(after) < Cardinality(others)
          BY <5>1, EditorCount
        <5>3. Cardinality(after) \in Nat /\ Cardinality(Editor) \in Nat
          BY <4>3, EditorCount
        <5>4. passed'[e] + Cardinality(after) < Cardinality(Editor)
          BY <4>2, <4>5, <5>2, <5>3
        <5>5. QED
          BY <1>1, <1>2, <3>1, <3>3, <5>4 DEF after
      <4>6. CASE passed[e] > 0
        <5>1. Turn(l, f) < Turn(l, e)
          BY <1>6, <3>1, <3>3, <4>6 DEF Fair, InTurn
        <5>2. f \in before
          BY <1>1, <3>1, <3>3, <5>1 DEF Ahead
        <5>3. after \in SUBSET before
          BY <1>1, <1>2, <2>1, <3>1, <3>3, <5>1, ServingRotates DEF Ahead, Fair
        <5>4. passed[e] + Cardinality(before) < Cardinality(Editor)
          BY <4>6 DEF Fair, Budget
        <5> HIDE DEF before, after
        <5>5. Cardinality(after) < Cardinality(before)
          BY <4>3, <4>4, <5>2, <5>3, EditorCount
        <5>6. Cardinality(after) \in Nat /\ Cardinality(before) \in Nat /\ Cardinality(Editor) \in Nat
          BY <4>3, EditorCount
        <5>7. passed'[e] + Cardinality(after) < Cardinality(Editor)
          BY <4>1, <4>2, <5>4, <5>5, <5>6
        <5>8. QED
          BY <1>1, <1>2, <3>1, <3>3, <5>7 DEF after
      <4>7. QED
        BY <4>1, <4>5, <4>6
    <3>4. QED
      BY <3>2, <3>3
  <2>6. Budget'
    BY <2>5 DEF Budget
  <2>7. QED
    BY <1>2, <1>4, <2>2, <2>6 DEF Fair
<1>7. QED
  BY <1>1, <1>5, <1>6

LEMMA RotationInitFair == PointerOnlyServes /\ RotationInit => Fair
<1> SUFFICES ASSUME PointerOnlyServes, RotationInit PROVE Fair
  OBVIOUS
<1> USE DEF RotationInit, ConfiguredInit
<1>1. TypeOK
  <2>1. roster \in [Editor -> EditorRow]
    <3>1. PICK level \in [Editor -> Level] : roster = [e \in Editor |-> Joined(level[e])]
      OBVIOUS
    <3>2. \A l \in Level : Joined(l) \in EditorRow
      BY AllocationAssumption DEF Joined, EditorRow
    <3>3. QED
      BY <3>1, <3>2
  <2>2. QED
    BY <2>1, AllocationAssumption DEF TypeOK, Statuses, Policy, Txn, NoTxn
<1>2. ReviewSound /\ TxnSound /\ HolderApproved /\ OneActiveProject
  BY DEF ReviewSound, TxnSound, HolderApproved, OneActiveProject
<1>3. QueueMatchesAssignment /\ QueueMatchesReview /\ StatusMatchesAssignment
  BY DEF QueueMatchesAssignment, QueueMatchesReview, StatusMatchesAssignment
<1>4. Budget /\ InTurn
  BY DEF Budget, InTurn, NoTxn
<1>5. QED
  BY <1>1, <1>2, <1>3, <1>4 DEF IInv, Fair

LEMMA RotationNextFair == PointerOnlyServes /\ Fair /\ [RotationNext]_rotationVars => Fair'
<1> SUFFICES ASSUME PointerOnlyServes, Fair, [RotationNext]_rotationVars PROVE Fair'
  OBVIOUS
<1>1. CASE UNCHANGED rotationVars
  <2>1. UNCHANGED vars /\ passed' = passed
    BY <1>1 DEF rotationVars
  <2>2. IInv'
    BY <2>1, StutterInvariant DEF Fair
  <2>3. \A l, e : Turn(l, e)' = Turn(l, e) /\ Ready(e)' = Ready(e)
    BY <2>1 DEF vars, Turn, Ready, Eligible, Workload
  <2>4. \A e : Ahead(e)' = Ahead(e)
    BY <2>1, <2>3 DEF vars, Ahead
  <2>5. QED
    BY <2>1, <2>2, <2>3, <2>4 DEF vars, Fair, Budget, InTurn
<1>2. CASE RotationNext
  <2>1. Count
    BY <1>2 DEF RotationNext
  <2>2. IInv'
    <3>1. Next
      BY <1>2 DEF RotationNext, Next, Configure
    <3>2. QED
      BY <3>1, NextInvariant DEF Fair
  <2>3. ASSUME NEW p \in Project, NEW level \in Level, NEW expected \in 0..MaxRevision,
               Classify(p, level, expected)
        PROVE  Fair'
    BY <2>1, <2>2, <2>3, QuietFair DEF Classify, LockFree, NoTxn
  <2>4. ASSUME NEW p \in Project, NEW e \in Editor, NEW expected \in 0..MaxTerm,
               BeginManual(p, e, expected)
        PROVE  Fair'
    BY <2>1, <2>2, <2>4, QuietFair DEF BeginManual
  <2>5. ASSUME NEW p \in Project, AssignNext(p) PROVE Fair'
    BY <2>1, <2>2, <2>5, DecisionIsInTurn DEF AssignNext
  <2>6. CASE Write
    BY <2>1, <2>2, <2>6, WriteFair
  <2>7. CASE ReadQueue
    BY <2>1, <2>2, <2>7, QuietFair DEF ReadQueue
  <2>8. CASE TryNextInBatch
    <3>1. PICK p \in batch :
             /\ BeginAuto(p, TRUE) \/ UNCHANGED txn
             /\ UNCHANGED <<policy, holder, rotation, roster, complexity>>
      BY <2>8 DEF TryNextInBatch
    <3>2. p \in Project
      BY <3>1 DEF Fair, IInv, TypeOK
    <3>3. QED
      BY <2>1, <2>2, <3>1, <3>2, DecisionIsInTurn, QuietFair
  <2>9. CASE Progress
    BY <2>1, <2>2, <2>9, QuietFair DEF Progress, ConfirmPayment, StartWork, AcceptDelivery
  <2>10. CASE Delete
    <3>1. UNCHANGED <<policy, holder, rotation, roster, complexity>>
          /\ (txn' = txn \/ txn' = NoTxn)
      BY <2>10 DEF PointerOnlyServes, Delete, ArchiveEditor, ArchiveEditorDeadlock, DropEditor,
                   ArchiveClient, ArchiveClientDeadlock, DropClient, Rollback
    <3>2. QED
      BY <2>1, <2>2, <3>1, QuietFair DEF NoTxn
  <2>11. CASE Crash
    <3>1. UNCHANGED <<policy, holder, rotation, roster, complexity>>
          /\ (txn' = txn \/ txn' = NoTxn)
      BY <2>11 DEF Crash, Rollback
    <3>2. QED
      BY <2>1, <2>2, <3>1, QuietFair DEF NoTxn
  <2>12. ASSUME NEW e \in Editor, NEW unavailable \in BOOLEAN,
                SetAvailabilityOverride(e, unavailable)
         PROVE  Fair'
    <3>1. \A f \in Editor : roster'[f].level = roster[f].level
      BY <2>12 DEF SetAvailabilityOverride, Fair, IInv, TypeOK, EditorRow
    <3>2. QED
      BY <2>1, <2>2, <2>12, <3>1, QuietFair DEF SetAvailabilityOverride
  <2>13. QED
    BY <1>2, <2>3, <2>4, <2>5, <2>6, <2>7, <2>8, <2>9, <2>10, <2>11, <2>12 DEF RotationNext, Allocate
<1>3. QED
  BY <1>1, <1>2

\* PRODUCT_RULES 8: an editor who stays eligible is passed over at most once by
\* each colleague, whatever assignments, releases, overrides and crashes
\* happen in between (assign_next and the pointer it advances).
THEOREM RotationBoundedBypass == PointerOnlyServes => (RotationSpec => []BoundedBypass)
<1> SUFFICES ASSUME PointerOnlyServes PROVE RotationSpec => []BoundedBypass
  OBVIOUS
<1>1. RotationInit => Fair
  BY RotationInitFair
<1>2. Fair /\ [RotationNext]_rotationVars => Fair'
  BY RotationNextFair
<1>3. Fair => BoundedBypass
  <2> SUFFICES ASSUME Fair, NEW e \in Editor PROVE passed[e] < Cardinality(Editor)
    BY DEF BoundedBypass
  <2>1. passed[e] \in Nat /\ Ahead(e) \in SUBSET Editor
    BY DEF Fair, Ahead
  <2>2. Cardinality(Ahead(e)) \in Nat /\ Cardinality(Editor) \in Nat
    BY <2>1, EditorCount
  <2>3. 0 < Cardinality(Editor)
    <3>1. {} \in SUBSET Editor /\ e \in Editor \ {}
      OBVIOUS
    <3>2. Cardinality({}) = 0
      BY FS_EmptySet
    <3>3. QED
      BY <3>1, <3>2, EditorCount
  <2>4. QED
    BY <2>1, <2>2, <2>3 DEF Fair, Budget
<1>4. QED
  BY <1>1, <1>2, <1>3, PTL DEF RotationSpec

=============================================================================
