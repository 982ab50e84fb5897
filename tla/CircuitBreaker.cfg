\* Two concurrent entries, two trades a day, six days.
CONSTANTS
    Callers = {c1, c2}
    MaxTrades = 2
    MaxConsecutive = 2
    MaxLoss = 3
    PdtEnabled = FALSE
    PdtLimit = 3
    Results <- MCResults
    LastDay = 6
    MaxClosed = 3
SPECIFICATION Spec
INVARIANTS
    HitDayIsTripped
    TradesBounded
    PdtNeverUndercounts
PROPERTIES
    NoEntryOnAHitDay
CHECK_DEADLOCK FALSE
