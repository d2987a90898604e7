SPECIFICATION FairSpec
CONSTANTS
    MaxHops = 3
    MaxTtl = 4
    Fooled <- SomeFooled
    Events = {"call_fails", "raw_socket_fails", "late", "lost", "stray", "flaky", "block_page", "bad_input"}
INVARIANTS TypeOK ContextFreedOnce HopsMeasured ReportedWorked 
PROPERTY AutoconfEnds
