\* Two S3 clients built from one config, a meta request and two writes; a stream of three
\* bytes; two hashes, HMACs or ciphers; an MQTT 3.1.1 connection with two application
\* threads, the event loop, two operations and two handlers.
SPECIFICATION MCSpec
CONSTANTS
    Subjects = {"s3", "stream", "crypto", "mqtt311"}
    Clients = {c1, c2}
    NoClient = NoClient
    Writes = {w1, w2}
    CallbackMayBeCleared = FALSE
    ShutdownAwaitsWrapper = FALSE
    Length = 3
    Capacity = 4
    MaxCalls = 5
    CryptoObjects = {o1, o2}
    Handles = {n1, n2}
    Null = Null
    Gone = Gone
    MaxUpdates = 2
    MqttUsers = {t1, t2}
    MqttLoop = loop
    Ops = {p1, p2}
    NoOp = NoOp
    Handlers = {h1, h2}
    NoHandler = NoHandler
    UseWebsocket = TRUE
INVARIANTS
    S3CallbacksFindData
    ReadsContinue
    CryptoIsSound
    CallbacksFindConnection
    NothingLeaks
PROPERTY
    ReleasedConnectionIsFreed
