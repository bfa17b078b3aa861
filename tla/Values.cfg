SPECIFICATION MCSpec
CONSTANTS
    t1 = t1
    t2 = t2
    t3 = t3
    o1 = o1
    o2 = o2
    v1 = v1
    n1 = n1
    n2 = n2
    s1 = s1
    s2 = s2
    NoThread = NoThread
    Nothing = Nothing
    Dangling = Dangling
    Zero = Zero
    Subjects = {"refs", "tls", "json"}
    Threads <- MCThreads
    Options <- MCObjects
    Contexts <- MCObjects
    Connections <- MCObjects
    NativeOptions <- MCStructs
    NativeContexts <- MCNatives
    Sources = {"CertificateFiles"}
    Versions = {"TLSv1_3"}
    Objects <- MCObjects
    Views <- MCViews
    Keys = {"a"}
    Leaves = {"string"}
    MaxNodes = 4
INVARIANTS
    LivesWhileReferenced
    NodesOwnedOnce
    TlsObjectsAreSound
PROPERTIES
    ImplementsValues
    OtherViewsStayValid
VIEW WithoutAddresses
CHECK_DEADLOCK FALSE
