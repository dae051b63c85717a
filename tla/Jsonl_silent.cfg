\* A kill during append, then a restart.
SPECIFICATION Spec
CONSTANTS
    Faults <- OnlyKill
    MaxAppends = 4
INVARIANTS SilentLossDetected
CHECK_DEADLOCK FALSE
