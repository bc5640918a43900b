\* The whole life of the supply curve, three halvings with floors (3, 1, 0), and
\* its retargets, under a clock that runs, stalls and steps back.  The admin may
\* give the whole supply away before funding.  A target is four limbs of two bytes
\* of one bit.
SPECIFICATION Spec
CONSTANTS
    Miners = {m1}
    Admin = adm
    Vault = vault
    Nobody = nobody
    TOTAL_SUPPLY_BASE = 13
    PREMINE_BASE = 1
    INITIAL_BLOCK_REWARD_BASE = 3
    HALVING_INTERVAL_BLOCKS = 2
    RETARGET_INTERVAL_BLOCKS = 3
    RETARGET_TARGET_SECONDS = 3
    ROUND_TIMEOUT_SLOTS = 1
    U64_MAX = 12
    MAX_TARGET = 255
    Byte = 2
    WordBytes = 2
    Targets = {3, 200}
    Hashes = {0}
    Transfers = {13}
    TsSteps <- ClockSteps
    MaxSlot = 4
INVARIANTS
    NeverExhausted
    PaysSchedule
    BooksBalance
    ScaleIsExact
    OrderIsNumeric
PROPERTIES
    RetargetDamped
    RetargetIsExact
    ImplementsIssuance
CHECK_DEADLOCK FALSE
