SPECIFICATION Spec
CONSTANTS
    Configs <- MCConfigs
    SendBudget = 2
    RequestTimeout = 1
    RelayTimeout = 3
    Margin = 3
    Lifetimes = {0, 2, 5}
    DefaultLife = 6
    MaxMessages = 2
    MaxSends = 3
    MaxFaults = 2
    MaxTime = 7
INVARIANTS
    TypeOK
    AckedMeansReached
    AcceptedOnce
    OneFormPerSend
    TokenOutlivesTheSend
CHECK_DEADLOCK FALSE
