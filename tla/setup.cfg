SPECIFICATION FairSpec
CONSTANTS
    Ports <- MCPorts
    EventSets <- SomeFaults
    CaptureTimeout = 1
    MaxArrivals = 2
INVARIANTS TypeOK CaptureMatchesPort JoinsSniffer SnifferInsideCall NoLeak AnswersInOrder AttackUsesSynAck
PROPERTY SetupEnds
