SPECIFICATION Spec
CONSTANTS
    Workers = {w1}
    Conns = {c1, c2}
    Fds = {1, 2}
    NoConn = NoConn
    ClientUnits = {"close"}
    MaxUnits = 1
    Pipelining = FALSE
    Timeouts = "never"
    HandlerMayThrow = FALSE
    WriteMayBlock = FALSE
    MayStop = FALSE
INVARIANT DescriptorsOwned
