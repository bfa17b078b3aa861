\* Three constructions from one config.
SPECIFICATION FairSpec
CONSTANTS
    Clients = {c1, c2, c3}
    NoClient = NoClient
    CallbackMayBeCleared = TRUE
INVARIANT
    BundleFreedOnce
