------------------------------ MODULE Staffing ------------------------------
(* What the allocation service promises, without queues, policies, rotation  *)
(* or transactions: a project has at most one editor, an editor carries at   *)
(* most one unfinished project, and finished work is never staffed again.    *)

CONSTANTS Project, Editor, None

VARIABLES
    held,    \* the editor working on a project, or None
    done     \* projects that reached a terminal status

staffing == <<held, done>>

StaffingTypeOK ==
    /\ held \in [Project -> Editor \cup {None}]
    /\ done \in SUBSET Project

Idle(e) == \A p \in Project : held[p] = e => p \in done

Init ==
    /\ held = [p \in Project |-> None]
    /\ done = {}

\* A project gets an idle editor; any previous holder loses it.
Grant(p, e) ==
    /\ p \notin done
    /\ Idle(e)
    /\ held' = [held EXCEPT ![p] = e]
    /\ UNCHANGED done

\* An editor leaves and drops everything, finished work included.
Leave(e) ==
    /\ held' = [p \in Project |-> IF held[p] = e THEN None ELSE held[p]]
    /\ UNCHANGED done

\* The client accepts the work of the current holder.
Finish(p) ==
    /\ p \notin done
    /\ held[p] # None
    /\ done' = done \cup {p}
    /\ UNCHANGED held

Next ==
    \/ \E p \in Project, e \in Editor : Grant(p, e)
    \/ \E e \in Editor : Leave(e)
    \/ \E p \in Project : Finish(p)

Spec == Init /\ [][Next]_staffing

=============================================================================
