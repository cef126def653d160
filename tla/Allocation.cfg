SPECIFICATION FairSpec
CONSTANTS
    p1 = p1 p2 = p2 e1 = e1 e2 = e2 c1 = c1 c2 = c2 l1 = l1
    None = None
    Project = {p1, p2}
    Editor = {e1, e2}
    Client = {c1, c2}
    Level = {l1}
    Owner <- OwnerEach
    Rank <- RankTwo
    Policies <- BothModes
    MaxCapacity = 1
    MaxRevision = 1
    MaxTerm = 2
    MaxCrashes = 1
    BatchLimit = 2
    DeletableEditors = {e2}
    Configurable = {e1}
    DeletableClients = {c1}
INVARIANTS OneActiveProject 
PROPERTIES OnlyReassignmentMovesWork ImplementsStaffing NoStarvation
CHECK_DEADLOCK FALSE
