\* Two threads and two stores on one file, every fault, one restart.
SPECIFICATION FairSpec
CONSTANTS
    s1 = s1
    s2 = s2
    t1 = t1
    t2 = t2
    NoThread = NoThread
    Stores <- TwoStores
    Threads <- TwoThreads
    Faults <- AllFaults
    MaxAppends = 4
    MaxStops = 1
INVARIANTS AckedStays RowsInOrder AlarmMeansFailure GapIsReported ExportHidesNothing
PROPERTIES AppendEnds
CHECK_DEADLOCK FALSE
