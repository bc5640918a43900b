SPECIFICATION MSpec
CONSTANTS
    Sessions = {s, t}
    MaxSent = 2
    NoSession = NoSession
INVARIANTS
    LastWords
PROPERTIES
    KeepsMining
