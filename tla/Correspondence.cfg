SPECIFICATION FocusSpec
CONSTANTS
    Client = c1
    Editor = {e1, e2}
    Admin = {a1, a2}
    Key = {k1, k2}
    Body = {b1}
    Digits = {}
    Status = {"open", "closed"}
    Slot = {t1, t2}
    MaxForms = 2
    None = None
SYMMETRY NameSymmetry
INVARIANTS NoticesMatchRows CommunicationReconciles CallIsAnnounced
PROPERTIES RepeatsChangeNothing CompletedWasHeld
CHECK_DEADLOCK FALSE
