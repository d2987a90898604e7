SPECIFICATION FairSpec
CONSTANTS
    Ifaces <- TwoIfaces
    AccessPoints <- HomeOrWork
    ProfileSets <- Settings
    BufferUnits = 4
    QueueLimit = 2
    MaxMessages = 6
INVARIANTS TypeOK ProfileFollowsRoute
PROPERTY RouteNoticed
