\* Every client, turns of one and two calls of every kind, dispatched up to twice.
SPECIFICATION Spec
CONSTANTS
    Clients <- AllClients
    Batches <- MCBatches
    MaxTurns = 2
INVARIANTS MessagesTellTruth EffectsAccounted
CHECK_DEADLOCK FALSE
