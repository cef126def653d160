SPECIFICATION RotationSpec
CONSTANTS
    p1 = p1 p2 = p2 p3 = p3 e1 = e1 e2 = e2 c1 = c1 l1 = l1 l2 = l2
    None = None
    Project = {p1, p2, p3}
    Editor = {e1, e2}
    Client = {c1}
    Level = {l1, l2}
    Owner <- OwnerAll
    Rank <- RankTwo
    Policies <- PreservingPolicies
    MaxCapacity = 1
    MaxRevision = 1
    MaxTerm = 1
    MaxCrashes = 1
    BatchLimit = 1
    Configurable = {}
    DeletableEditors = {}
    DeletableClients = {c1}
SYMMETRY ProjectSymmetry
INVARIANTS BoundedBypass
PROPERTIES PointerMovesWithAssignment
CHECK_DEADLOCK FALSE
