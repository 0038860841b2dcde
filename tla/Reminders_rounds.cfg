SPECIFICATION FairSpec
CONSTANTS
    e1 = e1
    e2 = e2
    e3 = e3
    Events <- MCEvents
    Opens <- MCOpens
    Closes <- MCCloses
    DayLen = 2
    Slot = 0
    Lead = 1
    Grace = 1
    ExpiryLead = 2
    MaxItems = 1
    MaxPerDay = 2
    MaxTime = 4
    MaxFaults = 2
INVARIANTS
    TypeOK
    RemindedOnce
    CardsWithinBudget
PROPERTIES
    DueRowsAreCarried
