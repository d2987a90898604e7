SPECIFICATION Spec
CONSTANTS
    Ports <- MCPorts
    EventSets <- NewProfile
    CaptureTimeout = 1
    MaxArrivals = 1
INVARIANT NoTerminate
