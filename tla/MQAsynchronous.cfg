SPECIFICATION Spec
CONSTANTS
    s1 = s1
    s2 = s2
    Subscriber = {s1, s2}
    Persistent = TRUE
    AsynchronousDelivery = TRUE
    FirstConsumedSubscriber = FALSE
    MaxOutstandingDeliveries = 2
    MaxDeliveryAttempts = 1
    HasDeadLetter = FALSE
    MessagesExpire = FALSE
    BufferSize = 1
    MinBuffer = 1
    ExceptionLimit = 1
    Replies = {"Consumed", "Exception", "Defer"}
    Environment = {"unsubscribe", "purge", "lockTimeout", "storeFailure", "deferredEnqueue"}
    MaxSerial = 2
    AttemptBound = 2
SYMMETRY Symmetry
INVARIANT TypeOK
INVARIANT OutstandingIsExact
INVARIANT SingleDelivery
INVARIANT DepthIsExact
INVARIANT NothingStranded
INVARIANT AttemptsAccountedFor
PROPERTY CompletedNotRetried
PROPERTY GoneStaysGone
PROPERTY KeepsContract
