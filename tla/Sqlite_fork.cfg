\* Two threads and two stores on one file, no fault.
SPECIFICATION Spec
CONSTANTS
    s1 = s1
    s2 = s2
    t1 = t1
    t2 = t2
    NoThread = NoThread
    Stores <- TwoStores
    Threads <- TwoThreads
    Faults = {}
    MaxAppends = 3
    MaxStops = 0
INVARIANTS ProcessesAppendSafely
CHECK_DEADLOCK FALSE
