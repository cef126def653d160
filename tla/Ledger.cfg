SPECIFICATION Spec
CONSTANTS
    Editor = {e1, e2}
    Acceptance = {a1, a2}
    Request = {r1, r2}
    Coins = {2, 3}
    Amounts = {1, 2}
    Minimum = 2
    None = None
SYMMETRY IdSymmetry
INVARIANTS EarningsReconcile
PROPERTIES LedgerOnlyGrows ImplementsPurse
CHECK_DEADLOCK FALSE
