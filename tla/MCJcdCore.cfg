SPECIFICATION Spec
CONSTANTS
    p1 = p1
    p2 = p2
    NULL = NULL
    r1 = r1
    r2 = r2
    Player = {p1, p2}
    Interfaces = 2
    Connections0 <- MCConnections0
    Limit = 0
    Site = {"home", "away"}
    BannedSite = {"away"}
    Name = {"alice", "Alice", "scott", "new", "quit", "admin", "who"}
    Faulty = {"x"}
    LowerCase <- MCLowerCase
    Stored <- MCStored
    Admin = "admin"
    Banned = "scott"
    Quit = "quit"
    Who = "who"
    New = "new"
    Save = "save"
    InitFiles <- MCInitFiles
    Request = {r1, r2}
    REQ_TWO_DAYS = 1
    MaxBatch = 2
INVARIANTS
    PendingUnique
    UniqueShortLogins
    BannedStaysOut
    ScanLive
    ConnectionsAccurate
    NoWildCall
PROPERTIES
    ImplementsSessions
