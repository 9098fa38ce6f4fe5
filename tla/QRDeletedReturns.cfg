SPECIFICATION Spec
CONSTANTS
    c1 = c1
    c2 = c2
    q1 = q1
    Nobody = Nobody
    Queue = {q1}
    Caller = {c1}
    Config <- AnyConfig
    Environment = {"crash", "fileFailure"}
    OpenFilesLocked = TRUE
    MaxCalls = 3
    MaxRestarts = 1
INVARIANT DeletedStaysDeleted
CHECK_DEADLOCK FALSE
