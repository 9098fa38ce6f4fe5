SPECIFICATION FairSpec
CONSTANTS
    a1 = a1
    Nobody = Nobody
    App = {a1}
    Environment = {}
    Buffering = {TRUE, FALSE}
    AutoFlush = TRUE
    BatchSize = 2
    MaxMessages = 1
    MaxConnections = 1
    MaxSubscriptions = 1
INVARIANT NoMessageDeclined
CHECK_DEADLOCK FALSE
