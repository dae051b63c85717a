\* Every fault, kills and restarts at any time.
SPECIFICATION Spec
CONSTANTS
    Faults <- AllFaults
    MaxAppends = 4
INVARIANTS TypeOK ReadInOrder TornWriteCostsOne AlarmMeansLoss GapIsReported VerifyChainCatchesLoss
CHECK_DEADLOCK FALSE
