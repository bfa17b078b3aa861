SPECIFICATION ConfigurationSpec
CONSTANTS
    p1 = p1
    p2 = p2
    v1 = v1
    v2 = v2
    o1 = o1
    o2 = o2
    Absent = Absent
    Pointer = Pointer
    Outdated = Outdated
    NoClass = NoClass
    Nothing = Nothing
    Invalid = Invalid
    Malformed = Malformed
    Configs <- MCConfigs
    MaxCalls = 5
    Threads <- MCThreads
    Values <- MCValues
    MaxList = 1
    Objects <- MCObjects
    Names <- MCNames
    UserLists <- FeatureLists
SYMMETRY Symmetry
INVARIANTS
    FreshViewReadsAsGiven
    ClientAsConfigured
    ConnectionAsConfigured
    RawEntriesAreOwn
    EncodedAsDocumented
CHECK_DEADLOCK FALSE
