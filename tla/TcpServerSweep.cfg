SPECIFICATION Spec
CONSTANTS
    Workers = {w1}
    Conns = {c1}
    Fds = {1}
    NoConn = NoConn
    ClientUnits = {"close"}
    MaxUnits = 1
    Pipelining = FALSE
    Timeouts = "idle"
    HandlerMayThrow = FALSE
    WriteMayBlock = FALSE
    MayStop = FALSE
INVARIANT SweepSurvives
