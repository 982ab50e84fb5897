\* One coroutine, quotes asked for live and then delayed, both modes.  A cached
\* answer of 1-hour bars is served past the age that makes their ATR stale.
CONSTANTS
    Tasks = {t1}
    Modes = {"paper", "live"}
    Types <- MCTypes
    LiveTtl = 0
    SignalTtl = 0
    Ttl15 = 1
    Ttl1h = 1
    StaleAfter = 0
SPECIFICATION FSpec
INVARIANTS
    AloneUnlessRaised
PROPERTY WarmInTheEnd
