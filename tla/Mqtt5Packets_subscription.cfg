\* Two threads, two values and lists of at most one element.
SPECIFICATION Spec
CONSTANTS
    Threads = {t1, t2}
    Values = {v1, v2}
    MaxList = 1
    Absent = Absent
    Pointer = Pointer
    Outdated = Outdated
    NoClass = NoClass
INVARIANT
    SubscriptionIdentifierSent
CHECK_DEADLOCK FALSE
