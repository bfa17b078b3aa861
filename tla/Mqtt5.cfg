\* The MQTT5 client with two application threads, the event loop and two operations; a
\* stream used by three threads; two requests; two publishes that one thread acknowledges.
SPECIFICATION FairMqtt5Spec
CONSTANTS
    UserThreads = {t1, t2}
    EventLoop = loop
    NoThread = NoThread
    Ops = {o1, o2}
    NoOp = NoOp
    UseWebsocket = TRUE
    StreamThreads = {t1, t2, t3}
    RequestThreads = {t1, t2}
    Requests = {r1, r2}
    NoRequest = NoRequest
    AckThreads = {t1}
    Publishes = {p1, p2}
    NoPublish = NoPublish
INVARIANTS
    NoDanglingCore
    NoDataOutlivesCore
    SkippedOnlyAfterClose
    ImplOutlivesUse
    ConditionalLockIsSafe
    EveryRequestAnswered
    NoAckIsLostOrDoubled
PROPERTIES
    ReleasedClientIsFreed
    ImplementsGate
    ClosedIsFreed
    StreamImplementsGate
    HandleYieldedOnce
