SPECIFICATION GSpec
CONSTANTS
    Symbols = {"x", "y"}
    Entering <- EnterX
    Managing <- ManageX
    MaxEntries = 2
    MaxDrops = 1
    MaxAsked = 1
    MaxOpen = 2
    StaleAfter = 0
PROPERTY NoEntryBesideAnUnknownPosition
PROPERTY GateOpensWhenClean
