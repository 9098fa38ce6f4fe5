SPECIFICATION Spec
CONSTANTS
    s1 = s1
    s2 = s2
    Subscriber = {s1, s2}
    Persistent = FALSE
    AsynchronousDelivery = TRUE
    FirstConsumedSubscriber = FALSE
    MaxOutstandingDeliveries = 2
    MaxDeliveryAttempts = 2
    HasDeadLetter = TRUE
    MessagesExpire = FALSE
    BufferSize = 1
    MinBuffer = 1
    ExceptionLimit = 1
    Replies = {"Consumed", "Exception"}
    Environment = {}
    MaxSerial = 2
    AttemptBound = 2
SYMMETRY Symmetry
PROPERTY FailedDeliveriesRetained
