\* Three solver threads and a deadline that may pass.  Threads can block for
\* ever in send, so a state without a step is expected.
SPECIFICATION Spec
CONSTANTS
    w1 = w1
    w2 = w2
    w3 = w3
    Workers = {w1, w2, w3}
    MaxTries = 2
    Deadline = TRUE
    None = None
CHECK_DEADLOCK FALSE
INVARIANTS
    CountIsExact
    ExhaustedMeans
PROPERTIES
    ReturnsUnlessStuck
