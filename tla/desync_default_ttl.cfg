SPECIFICATION Spec
CONSTANTS
    Profiles <- DefaultAuto
    MaxLen = 1
    FakeLen = 1
    Hops <- AllHops
    InitialTtls <- CommonTtls
    FaultSets <- NoFaults
INVARIANT FakesFallShort
