SPECIFICATION FairSpec
CONSTANTS
    Requests = {r1, r2}
    Methods = {"GET", "POST"}
    Paths <- SmallPaths
    Clients = {"k"}
    Tables <- SmallTables
    Globals <- LogAndLimit
    ParamNames = {":id"}
    Colons = {":id", "b:c"}
    DotDots = {"..", "b..c"}
    LoginPath <- Login
    MaxRequests = 1
    RedisMayFail = TRUE
INVARIANTS
    RoutedRight
    HandlersGuarded
    ParamsRight
    LimiterInv
PROPERTY WindowEnds
