\* Two calls, of one toolset or of two and of one process or of two, over one store,
\* whose session is audited against six revisions of the spec.
SPECIFICATION TSpec
CONSTANTS
    c1 = c1
    c2 = c2
    Calls <- TwoCalls
    Rules <- InForce
    Faults <- SomeFaults
    Hung <- NoCalls
    Revisions <- SomeRevisions
    MaxToolsets = 2
INVARIANTS AuditExact AlarmHasCause SchemasAgree TrailTellsLoss
CHECK_DEADLOCK FALSE
