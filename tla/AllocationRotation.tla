-------------------------- MODULE AllocationRotation --------------------------
(* How fair is the rotation?  Allocation with one history variable: how often *)
(* an editor who could have taken a project of their level saw assign_next    *)
(* give it to somebody else.                                                  *)
EXTENDS Allocation

VARIABLE passed   \* per editor, since last served or last not eligible

rotationVars == <<vars, passed>>

Ready(e) == Eligible(e, roster[e].level)

\* The editors passed over by the automatic assignment this step commits.
PassedOver ==
    IF txn.kind = "auto" /\ holder' # holder /\ holder'[txn.project] = txn.editor
    THEN {f \in Editor : Ready(f) /\ roster[f].level = complexity[txn.project].level}
    ELSE {}

Count ==
    passed' = [f \in Editor |->
                  IF ~Ready(f)' \/ roster'[f].level # roster[f].level THEN 0
                  ELSE IF f \in PassedOver THEN passed[f] + 1
                  ELSE passed[f]]

\* Every editor approved for some level, a policy saved: after the first
\* administrator session, before any payment.
ConfiguredInit ==
    /\ \E level \in [Editor -> Level] :
          roster = [e \in Editor |-> Joined(level[e])]
    /\ policy \in Policies
    /\ status = [p \in Project |-> "payment_pending"]
    /\ paidAt = [p \in Project |-> 0]
    /\ complexity = [p \in Project |-> [level |-> None, revision |-> 0]]
    /\ queue = [p \in Project |-> [status |-> "none", level |-> None]]
    /\ holder = [p \in Project |-> None]
    /\ term = [p \in Project |-> 0]
    /\ rotation = [l \in Level |-> [last |-> None, moved |-> FALSE]]
    /\ txn = NoTxn
    /\ batch = {}
    /\ gone = {}
    /\ crashes = 0

RotationInit == ConfiguredInit /\ passed = [e \in Editor |-> 0]

RotationNext ==
    /\ \/ Allocate \/ Progress \/ Delete \/ Crash
       \/ \E e \in Editor, unavailable \in BOOLEAN : SetAvailabilityOverride(e, unavailable)
    /\ Count

RotationSpec == RotationInit /\ [][RotationNext]_rotationVars

\* PRODUCT_RULES 8: E1 and E2 are followed by E3 even if E1 becomes free; after
\* a cycle it is E1's turn again.  So an editor who stays eligible is passed
\* over at most once by each colleague.
BoundedBypass == \A e \in Editor : passed[e] < Cardinality(Editor)

=============================================================================
