--------------------------- MODULE MCCorrespondence ---------------------------
(* A small instance of Correspondence for TLC.  Its three parts write        *)
(* different variables and share only what Change writes, and each property  *)
(* is about one part: a behaviour follows one of them, with every Change.    *)
EXTENDS Correspondence, TLC

VARIABLE focus

focusVars == <<vars, focus>>

FocusInit == Init /\ focus \in {"conversation", "support", "consultation"}

FocusNext ==
    /\ \/ focus = "conversation" /\ Converse
       \/ focus = "support" /\ Support
       \/ focus = "consultation" /\ Consult
       \/ Change
    /\ UNCHANGED focus

FocusSpec == FocusInit /\ [][FocusNext]_focusVars

\* Editors, administrators and keys are alike among themselves.
NameSymmetry == Permutations(Editor) \cup Permutations(Admin) \cup Permutations(Key)
=============================================================================
