SPECIFICATION ResearchSpec
INVARIANTS DuplicatesOnlyByOverlap RowsTellTheirModel BoostRestsOnRecord ArmableEntriesAreSound
PROPERTIES PromotedOnEvidenceWithinCap FreshExpireOnlyByOverlap RollbackTellsWhatItSaved DueForecastsAreJudged
CONSTANTS
  b = b
  v = v
  d1 = d1
  None = None
  Builtins = {b}
  Pool = {v}
  Order <- MCOrder
  Horizons = {d1}
  Sessions <- MCSessions
  Overlap = 1
  Learners = {"job"}
  LearningEnabled = TRUE
  MaxActive = 1
  MinSamples = 1
  MaxVariants = 1
  MaxOutcomes <- MCOutcomes
  Universes <- MCUniverses
  Watched <- MCWatched
  Ids = {"INTRADAY_MOMENTUM_ANOMALY", "DATA_QUALITY", "setup"}
  ScannerEnabled = TRUE
  Forecasters <- MCForecasters
  Default = "timesfm"
  Adapters = {"chronos"}
  Restricted = {}
  Disabled = {}
  Members = {"timesfm", "chronos"}
  Traded = {"x", "y"}
  Registered = 2
  Registry <- MCRegistry
  Rows = 1
  MinJudged = 2
  Requests <- MCRequests
  Callers = {"p", "q"}
  Fixes <- MCFixes
  NewIds <- MCNewIds
  DefaultRisk = 25
  DefaultPosition = 1000
  MaxAnalyses = 3
  MaxAnswers = 1
