SPECIFICATION SSpec
CONSTANTS
    MaxPrice = 3
    MaxSells = 2
    MaxAsleep = 2
    MaxDrops = 1
    Held = 1
INVARIANT RowCoversTws
PROPERTY LoweredOnlyByOverlap
CHECK_DEADLOCK FALSE
CONSTANT MaxRuns = 1
