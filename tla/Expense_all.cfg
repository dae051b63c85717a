\* Four submissions at once, with a memory that suspends and with one that does not.
SPECIFICATION Spec
CONSTANTS
    x1 = x1
    x2 = x2
    x3 = x3
    x4 = x4
    Submissions <- FourSubmissions
    Expenses <- SomeExpenses
INVARIANTS LimitHolds BookedOnlyValidated
SYMMETRY Symmetric
CHECK_DEADLOCK FALSE
