\* The stock poll and one API request handle signals of two setups.
CONSTANTS
    Setups = {s1, s2}
    Tasks = {poll, api}
    Pollers = {poll}
    MaxOrders = 2
    MaxDrops = 1
    None = None
SPECIFICATION Spec
INVARIANTS
    ParentTransmittedOnlyWithStop
    WorkingEntryIsOnTheBooks
    OneTaskNeverDuplicates
    UnsavedEntryWasCutOff
PROPERTIES
    OnlyACancelledStopSlipsThrough
    PollBracketEnds
    KeepsItsPromise
CHECK_DEADLOCK FALSE
