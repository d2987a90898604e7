SPECIFICATION Spec
CONSTANTS
    Scripts <- Keepalive
    ServerUnits = 1
    BufferSize = 3
    Window = 2
    Events = {"http"}
INVARIANT StreamsIntact
