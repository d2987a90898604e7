SPECIFICATION FairSpec
CONSTANTS
    Profiles <- FaultyPathProfiles
    MaxLen = 2
    FakeLen = 3
    Hops <- NearHops
    InitialTtls <- AllTtls
    FaultSets <- NoneOrAll
INVARIANTS TypeOK SeqAgrees FakesFallShort StreamIntact
PROPERTY RequestDelivered
