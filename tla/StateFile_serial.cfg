SPECIFICATION Spec
CONSTANTS
    service = service
    command = command
    cursor = cursor
    verdict = verdict
    Handles <- MCHandles
    Keys <- MCKeys
    Prunable <- MCPrunable
    Overlap = FALSE
    StaleSweep = FALSE
    None = None
    Blank = Blank
    Garbled = Garbled
    MaxWrites = 4
    MaxSweeps = 2
    MaxFaults = 2
INVARIANTS TypeOK LatestWriteSurvives
PROPERTIES ImplementsKeyTable
