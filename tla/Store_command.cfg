SPECIFICATION Spec
CONSTANTS
    f1 = f1
    f2 = f2
    f3 = f3
    service = service
    command = command
    Handles = {service, command}
    Fps <- MCTwoFps
    TitleOf <- MCOneTitle
    Strong <- MCTwoStrong
    Keep = 1
    Tears = FALSE
    None = None
    MaxTime = 2
    MaxRows = 4
    MaxFaults = 0
INVARIANTS SavedIsReadable
