\* The static defaults with three threads, three queries of each kind, and a channel handler
\* with two tasks.
SPECIFICATION FairServicesSpec
CONSTANTS
    UserThreads = {t1, t2, t3}
    NoThread = NoThread
    BlockingShutdown = TRUE
    Requests = {q1, q2, q3}
    Tasks = {k1, k2}
INVARIANTS
    DefaultsAreSafe
    CallbackFindsItsSubject
    HandlerOutlivesCalls
PROPERTIES
    ApiCallsReturn
    QueriesComplete
    ChannelHandlerIsFreed
