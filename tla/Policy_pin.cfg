\* Eight contents of the spec file, two predicate names and four callables, two
\* of which are lambdas.
SPECIFICATION Spec
CONSTANTS
    over = over
    lambda1 = lambda1
    lambda2 = lambda2
    stub = stub
    None = None
    FunctionName <- Names
    Files <- SomeFiles
    Builtins <- NewProcess
    Registrable <- Callables
    Extras <- TestExtras
INVARIANTS RunsOnlyRegistered PinnedGate DiffMatchesChecksum DiffRebuilds
CHECK_DEADLOCK FALSE
