SPECIFICATION FairSpec
CONSTANTS
    Timeout = 2
    MaxDatagrams = 3
    Events = {"call_fails", "malformed"}
INVARIANTS TypeOK AnswerIsOurs SocketClosed WhitelistHonoured
PROPERTY LookupEnds
