\* One steady miner and one that may leave; slots may be slower or faster than seconds.
SPECIFICATION Spec
CONSTANTS
    m1 = m1
    m2 = m2
    Clients = {m1, m2}
    Steady = {m1}
    RoundTimeout = 2
    RoundStall = 3
    AdvanceCooldown = 2
PROPERTIES
    RoundsKeepClosing
