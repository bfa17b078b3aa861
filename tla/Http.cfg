\* A connection manager of two connections with two application threads, the event loop
\* and three acquisitions; an unmanaged connection with two streams and two writes.
SPECIFICATION FairHttpSpec
CONSTANTS
    UserThreads = {t1, t2}
    EventLoop = loop
    Acquisitions = {a1, a2, a3}
    NoAcquisition = NoAcquisition
    MaxConnections = 2
    Streams = {s1, s2}
    NoStream = NoStream
    Writes = {w1, w2}
INVARIANTS
    EventLoopNotBlocked
    WaitedShutdownFindsManager
    StreamOwnership
PROPERTIES
    HttpIsFreed
