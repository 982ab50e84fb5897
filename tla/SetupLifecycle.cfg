\* Every kind of setup, three changes of the facts.
SPECIFICATION LSpec
CONSTANTS
    Setups <- EverySetup
    MaxChanges = 3
INVARIANTS
    ManagementNeverEnters
PROPERTIES
    OverUnlessAsked
    EntryOnSoundFacts
    DemotionEnds
