SPECIFICATION FairSpec
CONSTANTS
    Scripts <- OneRequest
    ServerUnits = 1
    BufferSize = 2
    Window = 2
    Events = {"http", "recv_fails", "reset"}
INVARIANTS TypeOK EndForwardsAll
PROPERTIES RelaysStreams RelayEnds
