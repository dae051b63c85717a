\* A server with two memory objects, two session ids and two addresses; every kind of
\* guard and memory, and every fault.
SPECIFICATION SSpec
CONSTANTS
    e1 = e1
    e2 = e2
    e3 = e3
    m1 = m1
    m2 = m2
    a1 = a1
    a2 = a2
    s1 = s1
    s2 = s2
    NoSession = NoSession
    Nothing = Nothing
    Events <- ThreeEvents
    Sessions <- Pairs
    Memories <- TwoMemories
    SessionIds <- TwoIds
    Addresses <- TwoAddresses
    Settings <- Setting
    Faults <- AllFaults
INVARIANTS DropsOnlyAfterFailure AcceptedStays PlainCreateOnce GuardOfOwnMemory
SYMMETRY Symmetric
CHECK_DEADLOCK FALSE
