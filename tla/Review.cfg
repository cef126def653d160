SPECIFICATION Spec
CONSTANTS
    Editor = {e1, e2}
    File = {f1, f2, f3}
    Limit = 1
    MaxVersions = 3
    Earning = TRUE
    MaxTerm = 3
    None = None
SYMMETRY IdSymmetry
INVARIANTS DeliveryReconciles AuthorIsCredited
PROPERTIES HistoryIsKept ImplementsAgreement
CHECK_DEADLOCK FALSE
