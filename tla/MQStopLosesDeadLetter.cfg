SPECIFICATION Spec
CONSTANTS
    s1 = s1
    Subscriber = {s1}
    Persistent = TRUE
    AsynchronousDelivery = TRUE
    FirstConsumedSubscriber = FALSE
    MaxOutstandingDeliveries = 2
    MaxDeliveryAttempts = 2
    HasDeadLetter = TRUE
    MessagesExpire = FALSE
    BufferSize = 1
    MinBuffer = 1
    ExceptionLimit = 1
    Replies = {"DeadLetter"}
    Environment = {"stop"}
    MaxSerial = 2
    AttemptBound = 2
SYMMETRY Symmetry
PROPERTY DeadLettersKept
CHECK_DEADLOCK FALSE
