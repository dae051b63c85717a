\* Two concurrent calls, one rule per enforcement point, every memory fault; whatever
\* the second call waits for may never answer.
SPECIFICATION FairSpec
CONSTANTS
    c1 = c1
    c2 = c2
    Calls <- TwoCalls
    Rules <- ThreePoints
    Faults <- MemoryFaults
    Hung <- OnlySecond
INVARIANTS OrderedTrace RecordedBeforeRouted AuditComplete
PROPERTIES Finishes
CHECK_DEADLOCK FALSE
