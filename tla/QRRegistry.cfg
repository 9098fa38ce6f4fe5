SPECIFICATION SystemsSpec
CONSTANTS
    c1 = c1
    c2 = c2
    q1 = q1
    Nobody = Nobody
    Queue = {q1}
    Caller = {c1, c2}
    Config <- Configs
    Environment = {"crash", "stop", "fileFailure", "openFailure"}
    OpenFilesLocked = TRUE
    MaxCalls = 3
    MaxRestarts = 1
INVARIANT TypeOK
INVARIANT CreatedStaysCreated
INVARIANT DeletionIsDurable
INVARIANT EveryQueueRuns
PROPERTY KeepsCatalogue
PROPERTY CallsReturn
PROPERTY StopCompletes
CHECK_DEADLOCK FALSE
