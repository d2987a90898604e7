SPECIFICATION FairSpec
CONSTANTS
    Workers <- TwoWorkers
    Monitor = TRUE
    MaxSignals = 2
    Events = {"accept_fails", "reuse"}
INVARIANTS TypeOK ThreadsTracked JoinedBeforeExit
PROPERTY StopEnds
