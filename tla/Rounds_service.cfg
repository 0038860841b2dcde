CONSTANTS
    f1 = f1
    f2 = f2
    f3 = f3
    b1 = b1
    b2 = b2
    Findings <- MCFindings
    TitleOf <- MCTitleOf
    Score <- MCScore
    Deadline <- MCDeadline
    Backends = {b1}
    DayLen = 2
    Slot = 1
    UrgentMin = 90
    UrgentMax = 1
    UrgentItems = 1
    DailyMin = 45
    DailyItems = 2
    ManualRuns = 0
    MaxTime = 3
    MaxFaults = 1
SPECIFICATION FairSpec
INVARIANTS
    TypeOK
    AlertedOnce
    RepeatsHaveAnOwner
PROPERTIES
    DueBriefingGoesOut
