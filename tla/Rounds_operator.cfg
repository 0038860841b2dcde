CONSTANTS
    f1 = f1
    f2 = f2
    f3 = f3
    b1 = b1
    b2 = b2
    Findings <- MCTwoFindings
    TitleOf <- MCTitleOf
    Score <- MCScore
    Deadline <- MCDeadline
    Backends = {b1, b2}
    DayLen = 2
    Slot = 1
    UrgentMin = 90
    UrgentMax = 1
    UrgentItems = 1
    DailyMin = 45
    DailyItems = 2
    ManualRuns = 1
    MaxTime = 3
    MaxFaults = 1
SPECIFICATION Spec
INVARIANTS
    UrgentWithinBudget
    OneBriefingPerSlot
    RecordsAreDelivered
