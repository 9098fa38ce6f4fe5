SPECIFICATION Spec
CONSTANTS
    s1 = s1
    s2 = s2
    Subscriber = {s1, s2}
    Persistent = FALSE
    AsynchronousDelivery = FALSE
    FirstConsumedSubscriber = TRUE
    MaxOutstandingDeliveries = 2
    MaxDeliveryAttempts = 2
    HasDeadLetter = TRUE
    MessagesExpire = TRUE
    BufferSize = 1
    MinBuffer = 1
    ExceptionLimit = 1
    Replies = {"Consumed", "NotInterested", "NotConsumed", "Exception", "Drop", "DeadLetter"}
    Environment = {"unsubscribe", "deadLetterTimeout", "lockTimeout"}
    MaxSerial = 2
    AttemptBound = 2
SYMMETRY Symmetry
PROPERTY InOrderPerSubscriber
PROPERTY FirstConsumerIsTheLast
INVARIANT DeadLetterInOnePlace
CHECK_DEADLOCK FALSE
