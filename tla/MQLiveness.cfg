SPECIFICATION FairSpec
CONSTANTS
    s1 = s1
    Subscriber = {s1}
    Persistent = TRUE
    AsynchronousDelivery = TRUE
    FirstConsumedSubscriber = FALSE
    MaxOutstandingDeliveries = 1
    MaxDeliveryAttempts = 2
    HasDeadLetter = TRUE
    MessagesExpire = FALSE
    BufferSize = 1
    MinBuffer = 1
    ExceptionLimit = 1
    Replies = {"Consumed", "NotConsumed", "Defer"}
    Environment = {"stop", "unsubscribe", "lockTimeout", "purge", "deleteDeadLetter", "deadLetterTimeout"}
    MaxSerial = 2
    AttemptBound = 2
PROPERTY EveryMessageLeaves
PROPERTY StopCompletes
PROPERTY EndIsFinal
CHECK_DEADLOCK FALSE
