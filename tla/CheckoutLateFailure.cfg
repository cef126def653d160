SPECIFICATION Spec
CONSTANTS
    Price = {1, 2}
    Mode = {"sandbox", "razorpay_test"}
    Payment = {x1, x2}
    Notice = {n1, n2, n3}
    None = None
    MaxQuotes = 2
SYMMETRY IdSymmetry
PROPERTY SuccessIsFinal
CHECK_DEADLOCK FALSE
