\* A miner races another one, a halving, a retarget in every second round and
\* an admin who moves the target, renounces or spends the supply, with lost
\* transactions and confirmations, copied and replayed solutions.
SPECIFICATION CSpec
CONSTANTS
    Miners = {m1, m2}
    Clients = {m1}
    Admin = adm
    Vault = vault
    Nobody = nobody
    TOTAL_SUPPLY_BASE = 4
    PREMINE_BASE = 0
    INITIAL_BLOCK_REWARD_BASE = 2
    HALVING_INTERVAL_BLOCKS = 1
    RETARGET_INTERVAL_BLOCKS = 2
    RETARGET_TARGET_SECONDS = 2
    ROUND_TIMEOUT_SLOTS = 1
    U64_MAX = 9
    MAX_TARGET = 2
    Targets = {1, 2}
    Hashes = {0, 1}
    Transfers = {4}
    TsSteps = {1}
    MaxSlot = 2
    ROUND_STALL = 1
    ADVANCE_COOLDOWN = 1
    MaxBlocks = 2
    None = none
CHECK_DEADLOCK FALSE
INVARIANTS
    WonByFreshOwnWork
    EmptyRoundsPaced
    EarningsAreReal
PROPERTIES
    ReasonsAreTrue
