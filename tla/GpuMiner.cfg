\* One device and two endpoints, one of which may go down; two rounds.
SPECIFICATION GSpec
CONSTANTS
    Workers = {1}
    Providers = 2
    Flaky = {1}
    MaxRounds = 2
    MaxHits = 2
    MaxQueue = 2
    None = none
PROPERTIES
    SendsCurrentWork
    FollowsChain
CHECK_DEADLOCK FALSE
