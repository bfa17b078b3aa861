\* One application thread beside the event loop, two publishes.
SPECIFICATION Spec
CONSTANTS
    UserThreads = {t1}
    EventLoop = loop
    Publishes = {p1, p2}
    NoPublish = NoPublish
INVARIANT
    AcquireAfterCallbackIsNull
CHECK_DEADLOCK FALSE
