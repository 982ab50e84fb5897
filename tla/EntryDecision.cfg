\* Two setups of a symbol and a ticket over one day; one trade a day, two
\* positions, one entry that is not recorded.
CONSTANTS
    Listed <- MCListed
    Tickets = {"k"}
    SymbolOf <- MCSymbolOf
    ConfigOf <- MCConfigOf
    TicketOf <- MCTicketOf
    Markets <- MCMarkets
    Spreads = {2}
    MaxTrades = 1
    MaxOpen = 2
    MaxExposure = 60000
    MaxAmount = 50000
    MaxRisk = 3000
    MaxLost = 1
SPECIFICATION DSpec
INVARIANTS
    FilledWithinBudget
    
    LunchOnVolume
CHECK_DEADLOCK FALSE
