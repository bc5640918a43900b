\* Stop, start and start again while the first thread is still busy.
SPECIFICATION Spec
CONSTANTS
    MaxSessions = 3
    None = None
INVARIANTS
    AtMostOneMiner
