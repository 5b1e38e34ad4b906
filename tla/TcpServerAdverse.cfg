SPECIFICATION TelemetryFairSpec
CONSTANTS
    Workers = {w1}
    Conns = {c1}
    Fds = {1}
    NoConn = NoConn
    ClientUnits = {"keep", "close", "bad", "upgrade", "text", "subscribe", "ping", "wsclose", "notls"}
    MaxUnits = 3
    Pipelining = FALSE
    Timeouts = "any"
    HandlerMayThrow = TRUE
    WriteMayBlock = TRUE
    MayStop = TRUE
INVARIANT HandOver
PROPERTIES
    EveryUnitServed
    ShutsDown
    IdleReaped
    Pruned
