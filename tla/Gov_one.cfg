\* One call, every kind of constraint, every fault.
SPECIFICATION Spec
CONSTANTS
    c1 = c1
    c2 = c2
    Calls <- OneCall
    Rules <- AllKinds
    Faults <- AllFaults
    Hung = {}
INVARIANTS GateHolds ReleasedOnlyIfClean DenialIsFinal EvaluationOrder
PROPERTIES ImplementsGate
CHECK_DEADLOCK FALSE
