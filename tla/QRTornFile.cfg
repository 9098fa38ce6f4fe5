SPECIFICATION Spec
CONSTANTS
    c1 = c1
    c2 = c2
    q1 = q1
    Nobody = Nobody
    Queue = {q1}
    Caller = {c1}
    Config <- Configs
    Environment = {"stop"}
    OpenFilesLocked = FALSE
    MaxCalls = 1
    MaxRestarts = 1
INVARIANT QueuesSurviveRestart
CHECK_DEADLOCK FALSE
