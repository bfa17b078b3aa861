\* One S3 client and one meta request, which is torn down when its references are gone.
SPECIFICATION FairSystemSpec
CONSTANTS
    Clients = {c1}
    NoClient = NoClient
    Writes = {w1}
    CallbackMayBeCleared = FALSE
    ShutdownAwaitsWrapper = TRUE
PROPERTY
    CancelledRequestShutsDown
