\* One bracket beside one run: the pipeline, the poll timeout, one lost
\* connection, the reconciliation and the API cancel.
CONSTANTS
    Setups = {s1}
    Tasks = {poll}
    Pollers = {poll}
    MaxOrders = 1
    MaxDrops = 1
    None = None
    Runs = {monitor}
SPECIFICATION RSpec
INVARIANTS
    BooksHoldWhileConnected
PROPERTIES
    EntryBackOnTheBooks
    DeadEntryLeavesTheBooks
CHECK_DEADLOCK FALSE
