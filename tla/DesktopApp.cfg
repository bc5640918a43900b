\* Two sessions, so that a thread outlives its own; a call next to the poll's.
SPECIFICATION AppSpec
CONSTANTS
    MaxSessions = 2
    None = None
    MaxCalls = 2
    MaxEvents = 1
INVARIANTS
    FlagOfNewest
    RunningNotEnded
    UnlockedIsSaved
PROPERTIES
    StoppedEnds
    WindowFollows
