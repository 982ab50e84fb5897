\* One API task, no connection loss: what a stop reply alone can do.
CONSTANTS
    Setups = {s1}
    Tasks = {api}
    Pollers = {}
    MaxOrders = 1
    MaxDrops = 0
    None = None
SPECIFICATION Spec
PROPERTY EndedEntryIsProtectedOrFlagged
CHECK_DEADLOCK FALSE
