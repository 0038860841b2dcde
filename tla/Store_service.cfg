SPECIFICATION Spec
CONSTANTS
    f1 = f1
    f2 = f2
    f3 = f3
    Handles = {service}
    Fps <- MCTwoFps
    TitleOf <- MCOneTitle
    Strong <- MCTwoStrong
    Keep = 1
    Tears = FALSE
    None = None
    MaxTime = 2
    MaxRows = 3
    MaxFaults = 2
INVARIANTS TypeOK RestartAgrees RepeatsHaveAnOriginal
PROPERTIES ImplementsLedger
