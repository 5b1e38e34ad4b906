SPECIFICATION Spec
CONSTANTS
    Workers = {w1, w2}
    Conns = {c1, c2}
    Fds = {1, 2}
    NoConn = NoConn
    ClientUnits = {"keep"}
    MaxUnits = 2
    Pipelining = TRUE
    Timeouts = "idle"
    HandlerMayThrow = FALSE
    WriteMayBlock = FALSE
    MayStop = FALSE
SYMMETRY Actors
INVARIANTS
    TypeOK
    NoCrash
    DescriptorsOwned
    HandOver
    AnswersInOrder
    BooksAgree
    NobodyForgotten
