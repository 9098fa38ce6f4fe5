SPECIFICATION FairSpec
CONSTANTS
    a1 = a1
    Nobody = Nobody
    App = {a1}
    Environment = {"linkDrop", "queryTimeout", "refusal"}
    Buffering = {TRUE, FALSE}
    AutoFlush = TRUE
    BatchSize = 2
    MaxMessages = 1
    MaxConnections = 2
    MaxSubscriptions = 2
INVARIANT TypeOK
INVARIANT NoSilentLoss
PROPERTY BufferedIsHandedOver
CHECK_DEADLOCK FALSE
