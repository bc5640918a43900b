\* A machine with three processors and an engine that takes two workers at most,
\* one of which may come to have two lifecycles; two rounds.  A stopped engine
\* stops.
SPECIFICATION Spec
CONSTANTS
    hardwareConcurrency = 3
    Stored = {5}
    MAX_OVERRIDE = 2
    DEFAULT_MAX_WORKERS = 2
    Slots = {1, 2}
    Chains <- TwoAndOne
    MaxHeight = 1
    None = none
INVARIANTS
    SubmittingIsHeld
    CreditsAreReal
    PoolIsShown
PROPERTIES
    SlotsKeepWorking
    StopDrains
CHECK_DEADLOCK FALSE
