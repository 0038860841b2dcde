SPECIFICATION ScreeningSpec
CONSTANTS
    Findings <- MCFindings
    Slots = 2
    EarlyRules = {"stated", "range"}
    LateRules = {"stated", "range", "yearless", "short", "duration"}
    HasRequired = FALSE
    HasAllowed = FALSE
    RequireOffer = FALSE
    MaxAge = 43200
INVARIANTS
    YearlessIsTheNextSuchDate
    StrongerEvidenceScoresHigher
PROPERTIES
    ReparseCorrectsTheClocks
CHECK_DEADLOCK FALSE
