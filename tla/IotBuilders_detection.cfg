SPECIFICATION BuildersSpec
CONSTANTS
    Nothing = Nothing
    Invalid = Invalid
    Configs <- MCConfigs
    MaxCalls = 5
INVARIANT
    OnlyAuthorizersDetected
CHECK_DEADLOCK FALSE
