\* Two setups, one bracket, an operator, a lost connection and a restart.
CONSTANTS
    Setups = {s1, s2}
    Tasks = {poll, api}
    Pollers = {poll}
    MaxOrders = 1
    MaxDrops = 1
    None = None
    Operators = {o}
    MaxStarts = 1
SPECIFICATION CSpec
INVARIANT OnlyMissedEntriesOutliveTheStop
PROPERTIES
    OnlyOperatorsLift
    StopReachesTheMonitor
CHECK_DEADLOCK FALSE
