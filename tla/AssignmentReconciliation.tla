---------------------- MODULE AssignmentReconciliation ----------------------
(* The nightly audit of allocation, core/assignment_reconciliation.py: every *)
(* finding the report counts as critical, as the set of rows it counts, over *)
(* the rows of Allocation.  The report's checks on rows Allocation keeps no   *)
(* data of (review texts, policy snapshots, actors, retry counters) have no  *)
(* counterpart here.                                                         *)
EXTENDS Allocation

\* Allocation sees a verified payment only as the project's payment time.
Funded(p) == paidAt[p] > 0

\* missing_or_invalid_enabled_policy
PolicyFindings == {c \in {policy} : (c.manual \/ c.automatic) /\ ~ValidPolicy(c)}

\* malformed_complexity_reviews
ComplexityFindings == {p \in Project : complexity[p].revision > 0 /\ complexity[p].level = None}

\* queue_assignment_mismatch
QueueMismatches ==
    {p \in Project : queue[p].status # "none" /\ (queue[p].status = "assigned") # (holder[p] # None)}

\* queue_funding_or_complexity_mismatch
QueueFindings ==
    {p \in Project : queue[p].status # "none" /\
        \/ ~Funded(p)
        \/ status[p] \in Terminal /\ queue[p].status = "waiting"
        \/ complexity[p].revision = 0
        \/ complexity[p].level # queue[p].level}

\* invalid_current_assignment_state, of the open assignments
AssignmentFindings ==
    {p \in Project : holder[p] # None /\
        \/ ~Funded(p)
        \/ queue[p].status # "assigned"
        \/ complexity[p].revision = 0
        \/ queue[p].level # complexity[p].level
        \/ /\ status[p] \notin Terminal
           /\ \/ ~roster[holder[p]].approved
              \/ ~roster[holder[p]].active
              \/ roster[holder[p]].capacity = 0}

\* editors_over_capacity
CapacityFindings ==
    {e \in Editor : Workload(e) # {} /\ Cardinality(Workload(e)) > roster[e].capacity}

\* reviewed_open_projects_missing_queue
MissingQueues ==
    {p \in Project : /\ complexity[p].revision > 0
                     /\ status[p] \notin Terminal
                     /\ Funded(p)
                     /\ queue[p].status = "none"}

\* invalid_round_robin_pointer
RotationFindings == {l \in Level : rotation[l].moved # (rotation[l].last # None)}

-----------------------------------------------------------------------------

\* The audit of a system whose writers are the services alone: whatever they
\* interleave, it finds nothing while no editor's identity was deleted; after
\* a deletion it can find what the deletion leaves behind (a finished project
\* waiting, a rotation that lost its place, an assignment that raced it), but
\* still no queue row that contradicts its assignment, no project reviewed and
\* lost, no overloaded editor and no policy that was not validated.
AssignmentsReconcile ==
    /\ PolicyFindings = {} /\ ComplexityFindings = {} /\ QueueMismatches = {}
    /\ CapacityFindings = {} /\ MissingQueues = {}
    /\ (\A e \in Editor : roster[e].active) =>
          QueueFindings = {} /\ AssignmentFindings = {} /\ RotationFindings = {}

=============================================================================
