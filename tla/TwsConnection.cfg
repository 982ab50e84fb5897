\* The monitor and one operator, a switch, a lost session or a stopped TWS, a
\* late answer; five client ids.
CONSTANTS
    Monitor = monitor
    Operators = {o}
    Slots = {k1, k2, k3, k4, k5, k6, k7}
    Tries = 5
    MaxSwitches = 1
    MaxDrops = 1
    MaxSlow = 1
    None = None
SPECIFICATION TSpec
INVARIANTS
    NoSessionLeftBehind
PROPERTY ConnectedInTheEnd
