CONSTANTS
    Bases = {1, 2}
    Kinds <- TwoKinds
    FirstOrders = {3}
    CatRetries = 1
    Commands = {"import", "delete", "rename"}
    MaxSteps = 3
    MaxFiles = 3
    Ids = {1, 2, 3}
    Claiming = {1, 2}
    MaxCalls = 4
    Starters = {"m1", "m2"}
    StoreNames = {1, 2}
    StoreIds = {1}
    Directories <- OldDirectories
    StoreFaults = {"crash", "io"}
    MaxStoreOps = 2
    Runners = {"tui", "cli"}
    OvpnNames = {"corp", "corp-eu"}
    WgNames = {"wg"}
    Matches <- Substrings
    MaxDaemons = 2
    MaxDrives = 2
    RouteSets <- TwoRoutes
    HomeHasV6 = TRUE
    KsRow = "watch"
    Cipher = "Modern"
    MaxRounds = 1
    MaxMoves = 4
    Sessions = {"s1", "s2"}
    Past = {"p1"}
    RetentionCount = 1
    Writers = {"s1"}
    BroadcastCapacity = 1
    JournalFaults = {"open", "write", "remove"}
    MaxEvents = 3
    Width = 4
    BaseLists <- PrivateRanges
    MaxDeclared = 2
    Threads = {"scanner", "monitor", "worker"}
    Sites = {"route", "dns", "domain", "openvpn", "clipboard"}
    Processes = {1, 2}
    IsRoot = TRUE
    Missing = {}
    Rung = 1
    MaxProfiles = 2
    MaxText = 1
    Heights = {1, 2}
    FileLines = {3}
    HelpLines <- HelpLengths
    PageSize = 1
    ScanList <- CatalogueOrder
    Wireguards = {"w"}
    TunNamed = {"w"}
    Foreign = "other"
    MaxChanges = 2
    MaxFailures = 1
    NameWidth = 4
    Budgets = {0, 8, 9, 12, 16, 18, 19, 20, 22, 23, 25, 31, 40}
SPECIFICATION PartsSpec
INVARIANTS
    PartsTypeOK
    DialogIsRight
    DiskMatchesList
    StoreRecovers
    NothingLeftBehind
    LeakIsSeen
    JournalPromises
    CidrsAreSets
    CallsEnd
    ScreenAnswers
    ScanIsHonest
    DashboardAgrees
PROPERTY StopAllStops
CHECK_DEADLOCK FALSE
