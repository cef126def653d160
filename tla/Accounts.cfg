SPECIFICATION Spec
CONSTANTS
    Account = {u1, u2}
    Identity = {i1}
    Browser = {b1, b2}
    Syncer = {s1}
    None = None
    MaxInFlight = 2
    ProviderLogin = TRUE
SYMMETRY NameSymmetry
INVARIANTS OnlyArchivedAreReported
PROPERTIES IdentityIsImmutable  OnlyFirstSignInRevives
CHECK_DEADLOCK FALSE
