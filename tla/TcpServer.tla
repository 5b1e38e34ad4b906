----------------------------- MODULE TcpServer -----------------------------
(***************************************************************************)
(* The life of a TCP connection in the server: the epoll threads           *)
(* (TcpServer::Worker), the connection objects they keep in a map keyed by *)
(* file descriptor, the kernel's descriptor table and epoll registrations, *)
(* and the tasks handed to the thread pool, which end by re-arming or by   *)
(* closing the descriptor themselves.                                      *)
(*                                                                         *)
(* A client message is one unit (a whole request or WebSocket frame);      *)
(* fragments are the parser's business (HttpParser).  Descriptors are      *)
(* allocated lowest first, so they are reused.  The pool is the FIFO queue *)
(* of TaskQueue seen from here: a task that has been enqueued runs at some *)
(* later time, or is dropped when the pool is destroyed.  HTTP/2           *)
(* connections are not in this module.                                     *)
(***************************************************************************)
EXTENDS Integers, Sequences, FiniteSets

CONSTANTS
    Workers,          \* epoll threads
    Conns,            \* client connections, each used once
    Fds,              \* descriptor numbers
    NoConn,           \* no connection
    ClientUnits,      \* what clients send, a subset of Units
    MaxUnits,         \* bound: units per client
    Pipelining,       \* clients send before the previous unit is served
    Timeouts,         \* when 30 s may pass: "never", "idle" (nothing under way), "any"
    HandlerMayThrow,  \* a route handler, or SSL_write, may throw
    WriteMayBlock,    \* the handshake may meet a full send buffer
    MayStop           \* TcpServer::stop may be called

HttpUnits == {"keep", "close", "bad", "upgrade"}
DataUnits == {"text", "subscribe"}    \* "subscribe" is the text the dashboard sends
WsUnits == DataUnits \cup {"ping", "wsclose"}
Units == HttpUnits \cup WsUnits \cup {"notls"}

ASSUME EnoughDescriptors ==
    /\ Fds \subseteq Nat \ {0}
    /\ IsFiniteSet(Fds) /\ IsFiniteSet(Conns) /\ Cardinality(Conns) <= Cardinality(Fds)
ASSUME WorkersFinite == IsFiniteSet(Workers)
ASSUME EnvironmentOK ==
    /\ ClientUnits \subseteq Units
    /\ MaxUnits \in Nat
    /\ Timeouts \in {"never", "idle", "any"}
    /\ {Pipelining, HandlerMayThrow, WriteMayBlock, MayStop} \subseteq BOOLEAN
    /\ NoConn \notin Conns

VARIABLES
    conn,       \* per connection, the client's side and the ClientConnection object:
                \*   link    "none", "backlog" or "accepted"
                \*   peer    the client's end: "open", "eof" or "reset"
                \*   script  the units the client has sent
                \*   inq     the numbers of those in the socket's receive buffer
                \*   owner   the worker whose listening socket gets it
                \*   fd      socket_.file_descriptor_
                \*   tls     the handshake; "done" is handshakeComplete_
                \*   ws      is_websocket_
                \*   buf     readBuffer_: numbers of the units read and not consumed
                \*   stale   lastActivity_ is more than CONNECTION_TIMEOUT_SECONDS ago
                \*   served  history: numbers of the units answered (or consumed)
    fdt,        \* the kernel's descriptor table: descriptor -> connection (open file)
    reg,        \* epoll registration of the file: "none", "in", "out", "off" (one-shot fired)
    thr,        \* per epoll thread: pc, the events of this round, the descriptor
                \* and the accepted connection in hand, stale_fds
    actives,    \* Worker::active_connections_: descriptor -> object
    count,      \* TcpServer::active_connections_
    running,    \* running_
    tasks,      \* closures in the pool, queued or running
    crashed,    \* an exception has left an epoll thread: std::terminate
    stray       \* history: a descriptor was used by an object that does not own it

kernel == <<fdt, reg, stray>>
book == <<actives, count>>
vars == <<conn, kernel, thr, book, running, tasks, crashed>>

Init ==
    /\ conn \in [Conns ->
           [link : {"none"}, peer : {"open"}, script : {<< >>}, inq : {<< >>},
            owner : Workers,    \* SO_REUSEPORT: the kernel's choice
            fd : {0}, tls : IF "notls" \in ClientUnits THEN {"hello", "notls"} ELSE {"hello"},
            ws : {FALSE}, buf : {<< >>}, stale : {FALSE}, served : {<< >>}]]
    /\ fdt = [f \in Fds |-> NoConn]
    /\ reg = [c \in Conns |-> "none"]
    /\ thr = [w \in Workers |-> [pc |-> "poll", batch |-> {}, cur |-> 0, pend |-> NoConn, idle |-> {}]]
    /\ actives = [w \in Workers |-> [f \in Fds |-> NoConn]]
    /\ count = 0
    /\ running = TRUE
    /\ tasks = {}
    /\ crashed = FALSE
    /\ stray = FALSE

----------------------------------------------------------------------------
(* Clients *)

server == <<kernel, thr, book, running, tasks, crashed>>

\* The server has closed its end.
Closed(c) == conn[c].link = "accepted" /\ \A f \in Fds : fdt[f] # c

Upgraded(c) == \E i \in 1..Len(conn[c].script) : conn[c].script[i] = "upgrade"

Connect(c) ==
    /\ conn[c].link = "none"
    /\ conn' = [conn EXCEPT ![c].link = "backlog"]
    /\ UNCHANGED server

\* The client's second TLS flight.
FinishTls(c) ==
    /\ conn[c].tls = "replied" /\ conn[c].peer = "open" /\ ~Closed(c)
    /\ conn' = [conn EXCEPT ![c].tls = "finished"]
    /\ UNCHANGED server

Send(c, u) ==
    LET n == Len(conn[c].script) + 1 IN
        /\ conn[c].tls \in {"finished", "done"} /\ conn[c].peer = "open" /\ ~Closed(c)
        /\ n <= MaxUnits
        /\ Pipelining \/ Len(conn[c].served) = n - 1
        /\ u \in IF Upgraded(c) THEN WsUnits ELSE HttpUnits
        /\ conn' = [conn EXCEPT ![c] = [@ EXCEPT !.script = Append(conn[c].script, u),
                                           !.inq = Append(conn[c].inq, n)]]
        /\ UNCHANGED server

\* The client closes its end, or the connection is reset.
Leave(c, how) ==
    /\ conn[c].link = "accepted" /\ conn[c].peer = "open" /\ ~Closed(c)
    /\ conn' = [conn EXCEPT ![c].peer = how]
    /\ UNCHANGED server

----------------------------------------------------------------------------
(* The kernel, as Epoll and Socket use it, and the lifetime of objects *)

\* epoll_ctl(MOD or DEL) by worker w finds descriptor f in its set.
Registered(w, f) ==
    /\ fdt[f] # NoConn
    /\ conn[fdt[f]].owner = w
    /\ reg[fdt[f]] # "none"

\* ::close(f), called on behalf of connection c: the file leaves every epoll set.
CloseFd(c, f) ==
    /\ fdt' = [fdt EXCEPT ![f] = NoConn]
    /\ reg' = [d \in Conns |-> IF fdt[f] = d THEN "none" ELSE reg[d]]
    /\ stray' = (stray \/ fdt[f] # c)

\* A descriptor used on behalf of connection c, and nothing else of the kernel's.
UseFd(c, f) ==
    /\ stray' = (stray \/ fdt[f] # c)
    /\ UNCHANGED <<fdt, reg>>

\* A task holds a shared_ptr to the connection.
Captured(c, ts) == \E t \in ts : t.conn = c

\* epoll_ctl on behalf of connection c that succeeds.
Arm(c, f, mask) ==
    /\ reg' = [reg EXCEPT ![fdt[f]] = mask]
    /\ stray' = (stray \/ fdt[f] # c)
    /\ UNCHANGED fdt

\* modify in handleClientData: when it throws, the catch block disconnects,
\* which throws again and leaves the thread.
HandlerRearm(w, mask) ==
    LET f == thr[w].cur IN
        IF Registered(w, f)
        THEN Arm(actives[w][f], f, mask) /\ UNCHANGED crashed
        ELSE crashed' = TRUE /\ UseFd(actives[w][f], f)

\* Fault: the counter is left as it is.
DisconnectUncounted(w, f) ==
    LET c == actives[w][f] IN
        IF ~Registered(w, f)
        THEN crashed' = TRUE /\ UNCHANGED <<kernel, book>>
        ELSE /\ actives' = [actives EXCEPT ![w][f] = NoConn]
             /\ CloseFd(c, f)
             /\ UNCHANGED <<count, crashed>>

\* disconnectClient: a remove that fails leaves the thread; the erased object
\* dies here, and with it its descriptor, unless a task holds it.
Disconnect(w, f) ==
    LET c == actives[w][f] IN
        IF ~Registered(w, f)
        THEN crashed' = TRUE /\ UseFd(c, f) /\ UNCHANGED book
        ELSE /\ actives' = [actives EXCEPT ![w][f] = NoConn]
             /\ count' = IF c = NoConn THEN count ELSE count - 1
             /\ IF c # NoConn /\ ~Captured(c, tasks)
                THEN CloseFd(c, f)
                ELSE Arm(c, f, "none")
             /\ UNCHANGED crashed

----------------------------------------------------------------------------
(* Worker::run *)

WGoto(w, from, to) == thr[w].pc = from /\ thr' = [thr EXCEPT ![w].pc = to]

Backlog(w) == {c \in Conns : conn[c].link = "backlog" /\ conn[c].owner = w}

Readable(c) ==
    \/ conn[c].tls \in {"hello", "notls", "finished"}
    \/ conn[c].inq # << >>
    \/ conn[c].peer # "open"

\* What epoll_wait reports of descriptor f in w's set, if anything.
EventOf(w, f) ==
    LET c == fdt[f]
        armed == Registered(w, f) /\ reg[c] # "off"
    IN  CASE ~armed -> "none"
          [] armed /\ conn[c].peer = "reset" -> "hup"
          [] armed /\ conn[c].peer # "reset" /\ reg[c] = "in" -> IF Readable(c) THEN "in" ELSE "none"
          [] armed /\ conn[c].peer # "reset" /\ reg[c] = "out" -> "out"

\* One iteration starts: epoll_wait returns what is ready, possibly nothing,
\* and disarms the one-shot registrations it reports.
Poll(w) ==
    LET ready == {f \in Fds : EventOf(w, f) # "none"}
        listen == IF Backlog(w) # {} THEN {[fd |-> 0, ev |-> "listen"]} ELSE {}
    IN  /\ running
        /\ thr[w].pc = "poll"
        /\ thr' = [thr EXCEPT ![w] = [@ EXCEPT !.pc = "events",
                              !.batch = listen \cup {[fd |-> f, ev |-> EventOf(w, f)] : f \in ready}]]
        /\ reg' = [c \in Conns |-> IF \E f \in ready : fdt[f] = c THEN "off" ELSE reg[c]]
        /\ UNCHANGED <<conn, fdt, stray, book, running, tasks, crashed>>

\* The loop takes an event of this kind; the thread goes on at place "to".
TakeEvent(w, e, ev, to) ==
    /\ thr[w].pc = "events"
    /\ e \in thr[w].batch /\ e.ev = ev
    /\ thr' = [thr EXCEPT ![w] = [@ EXCEPT !.batch = thr[w].batch \ {e}, !.pc = to,
                                       !.cur = IF to = "events" THEN thr[w].cur ELSE e.fd]]

EventListen(w, e) ==
    /\ TakeEvent(w, e, "listen", "accept")
    /\ UNCHANGED <<conn, kernel, book, running, tasks, crashed>>

EventHup(w, e) ==
    /\ TakeEvent(w, e, "hup", "events")
    /\ Disconnect(w, e.fd)
    /\ UNCHANGED <<conn, running, tasks>>

\* EPOLLOUT alone matches no branch of the loop.
EventOut(w, e) ==
    /\ TakeEvent(w, e, "out", "events")
    /\ UNCHANGED <<conn, kernel, book, running, tasks, crashed>>

\* EPOLLIN: handleClientData looks the descriptor up and notes the activity.
EventIn(w, e) ==
    LET c == actives[w][e.fd] IN
        /\ e.ev = "in"
        /\ IF c = NoConn
           THEN TakeEvent(w, e, "in", "events") /\ UNCHANGED conn
           ELSE /\ TakeEvent(w, e, "in", IF conn[c].tls = "done" THEN "read" ELSE "handshake")
                /\ conn' = [conn EXCEPT ![c].stale = FALSE]
        /\ UNCHANGED <<kernel, book, running, tasks, crashed>>

\* Fault: a connection still in its handshake is not looked at.
SweepCollectDone(w) ==
    /\ thr[w].pc = "events" /\ thr[w].batch = {}
    /\ thr' = [thr EXCEPT ![w] = [@ EXCEPT !.pc = "sweep",
                  !.idle = {f \in Fds : /\ actives[w][f] # NoConn /\ conn[actives[w][f]].stale
                                            /\ conn[actives[w][f]].tls = "done"}]]
    /\ UNCHANGED <<conn, kernel, book, running, tasks, crashed>>

\* The batch is done: sweepIdleConnections collects the stale descriptors,
\* then disconnects them one by one.
SweepCollect(w) ==
    /\ thr[w].pc = "events" /\ thr[w].batch = {}
    /\ thr' = [thr EXCEPT ![w] = [@ EXCEPT !.pc = "sweep",
                  !.idle = {f \in Fds : actives[w][f] # NoConn /\ conn[actives[w][f]].stale}]]
    /\ UNCHANGED <<conn, kernel, book, running, tasks, crashed>>

SweepOne(w, f) ==
    /\ thr[w].pc = "sweep" /\ f \in thr[w].idle
    /\ thr' = [thr EXCEPT ![w].idle = @ \ {f}]
    /\ Disconnect(w, f)
    /\ UNCHANGED <<conn, running, tasks>>

SweepDone(w) ==
    /\ WGoto(w, "sweep", "poll")
    /\ thr[w].idle = {}
    /\ UNCHANGED <<conn, kernel, book, running, tasks, crashed>>

\* Fault: the map outlives the loop.
ExitKeepsMap(w) ==
    /\ ~running
    /\ WGoto(w, "poll", "exit")
    /\ reg' = [c \in Conns |-> IF conn[c].owner = w THEN "none" ELSE reg[c]]
    /\ UNCHANGED <<conn, fdt, stray, book, running, tasks, crashed>>

\* The loop ends: the Worker, a local of its thread, is destroyed with its map,
\* its epoll set and every object no task holds.
Exit(w) ==
    LET dying == {f \in Fds : actives[w][f] # NoConn /\ ~Captured(actives[w][f], tasks)}
        gone(c) == conn[c].owner = w \/ \E f \in dying : fdt[f] = c
    IN  /\ ~running
        /\ WGoto(w, "poll", "exit")
        /\ fdt' = [f \in Fds |-> IF f \in dying THEN NoConn ELSE fdt[f]]
        /\ reg' = [c \in Conns |-> IF gone(c) THEN "none" ELSE reg[c]]
        /\ stray' = (stray \/ \E f \in dying : fdt[f] # actives[w][f])
        /\ actives' = [actives EXCEPT ![w] = [f \in Fds |-> NoConn]]
        /\ UNCHANGED <<conn, count, running, tasks, crashed>>

----------------------------------------------------------------------------
(* Worker::handleNewConnection *)

AcceptSocket(w, c) ==
    LET f == CHOOSE g \in Fds : fdt[g] = NoConn /\ \A h \in Fds : fdt[h] = NoConn => g <= h IN
        /\ thr[w].pc = "accept" /\ c \in Backlog(w)
        /\ conn' = [conn EXCEPT ![c] = [@ EXCEPT !.link = "accepted", !.fd = f]]
        /\ fdt' = [fdt EXCEPT ![f] = c]
        /\ thr' = [thr EXCEPT ![w] = [@ EXCEPT !.pc = "register", !.cur = f, !.pend = c]]
        /\ UNCHANGED <<reg, stray, book, running, tasks, crashed>>

\* Fault: the counter is not raised.
AcceptRegisterUncounted(w) ==
    LET f == thr[w].cur
        c == thr[w].pend
    IN  /\ thr[w].pc = "register"
        /\ thr' = [thr EXCEPT ![w] = [@ EXCEPT !.pc = "accept", !.pend = NoConn]]
        /\ actives' = [actives EXCEPT ![w][f] = c]
        /\ Arm(c, f, "in")
        /\ UNCHANGED <<conn, count, running, tasks, crashed>>

\* The map entry is assigned, which destroys an object still kept under this
\* descriptor and closes the descriptor; then the counter, then epoll_.add.
AcceptRegister(w) ==
    LET f == thr[w].cur
        c == thr[w].pend
        old == actives[w][f]
    IN  /\ thr[w].pc = "register"
        /\ thr' = [thr EXCEPT ![w] = [@ EXCEPT !.pc = "accept", !.pend = NoConn]]
        /\ actives' = [actives EXCEPT ![w][f] = c]
        /\ count' = count + 1
        /\ IF old # NoConn /\ ~Captured(old, tasks)
           THEN CloseFd(old, f) /\ crashed' = TRUE
           ELSE IF fdt[f] = NoConn
                THEN crashed' = TRUE /\ UNCHANGED kernel
                ELSE Arm(c, f, "in") /\ UNCHANGED crashed
        /\ UNCHANGED <<conn, running, tasks>>

AcceptDone(w) ==
    /\ WGoto(w, "accept", "events")
    /\ Backlog(w) = {}
    /\ UNCHANGED <<conn, kernel, book, running, tasks, crashed>>

----------------------------------------------------------------------------
(* Worker::handleClientData, one step per call it makes *)

\* The connection in hand.
Here(w) == actives[w][thr[w].cur]

\* doHandshake wants the client's answer, or room to write: wait for it.
HandshakeWants(w, next, mask) ==
    /\ WGoto(w, "handshake", "events")
    /\ conn[Here(w)].tls \in {"hello", "replied"} /\ conn[Here(w)].peer = "open"
    /\ conn' = [conn EXCEPT ![Here(w)].tls = next]
    /\ HandlerRearm(w, mask)
    /\ UNCHANGED <<book, running, tasks>>

HandshakeWantsRead(w) == HandshakeWants(w, "replied", "in")
HandshakeWantsWrite(w) == WriteMayBlock /\ HandshakeWants(w, "blocked", "out")

HandshakeDone(w) ==
    /\ WGoto(w, "handshake", "read")
    /\ conn[Here(w)].tls = "finished"
    /\ conn' = [conn EXCEPT ![Here(w)].tls = "done"]
    /\ UNCHANGED <<kernel, book, running, tasks, crashed>>

\* SSL_accept fails: the exception is caught and the client disconnected.
HandshakeFails(w) ==
    LET c == conn[Here(w)] IN
        /\ WGoto(w, "handshake", "events")
        /\ c.tls = "notls" \/ (c.tls # "finished" /\ c.peer # "open")
        /\ Disconnect(w, thr[w].cur)
        /\ UNCHANGED <<conn, running, tasks>>

\* read() drains the socket into readBuffer_.
CanRead(w) == fdt[thr[w].cur] = Here(w) /\ conn[Here(w)].peer = "open"

ReadData(w) ==
    /\ WGoto(w, "read", "loop")
    /\ CanRead(w)
    /\ conn' = [conn EXCEPT ![Here(w)] = [@ EXCEPT !.buf = conn[Here(w)].buf \o conn[Here(w)].inq,
                                                !.inq = << >>]]
    /\ UNCHANGED <<kernel, book, running, tasks, crashed>>

\* The end of the stream, even behind data not yet looked at, or an error.
ReadEnd(w) ==
    /\ WGoto(w, "read", "events")
    /\ ~CanRead(w)
    /\ Disconnect(w, thr[w].cur)
    /\ UNCHANGED <<conn, running, tasks>>

\* Fault: the handler returns without re-arming.
LoopIncompleteSilent(w) ==
    /\ WGoto(w, "loop", "events")
    /\ conn[Here(w)].buf = << >>
    /\ UNCHANGED <<conn, kernel, book, running, tasks, crashed>>

\* Nothing (more) to parse: re-arm and leave the loop.
LoopIncomplete(w) ==
    /\ WGoto(w, "loop", "events")
    /\ conn[Here(w)].buf = << >>
    /\ HandlerRearm(w, "in")
    /\ UNCHANGED <<conn, book, running, tasks>>

\* The unit at the front of the buffer, as the parser of the connection's
\* current protocol sees it.  A frame is a malformed request; parseWebSocketFrame
\* finds nothing malformed: a request read as a frame has an opcode the loop
\* does not know, and is treated as a control frame.
Front(w) == Head(conn[Here(w)].buf)
FrontUnit(w) ==
    LET u == conn[Here(w)].script[Front(w)] IN
        IF conn[Here(w)].ws
        THEN IF u \in WsUnits THEN u ELSE "ping"
        ELSE IF u \in WsUnits THEN "bad" ELSE u
FrontIs(w, us) == conn[Here(w)].buf # << >> /\ FrontUnit(w) \in us

\* The front unit leaves the buffer and has been answered (or needs no answer).
ServeFront(w, upgrade) ==
    LET k == conn[Here(w)] IN
        conn' = [conn EXCEPT ![Here(w)] = [k EXCEPT !.buf = Tail(k.buf), !.ws = (k.ws \/ upgrade),
                                                    !.served = Append(k.served, Front(w))]]

\* Invalid request: 400, then disconnect.  Close frame: disconnect.  (The answer is
\* written to the descriptor that is then removed, on behalf of the same
\* connection; so it is in LoopUpgrade, with the one that is then re-armed.)
LoopDisconnect(w) ==
    /\ WGoto(w, "loop", "events")
    /\ FrontIs(w, {"bad", "wsclose"})
    /\ ServeFront(w, FALSE)
    /\ Disconnect(w, thr[w].cur)
    /\ UNCHANGED <<running, tasks>>

\* 101, switch to frames, re-arm and return.
LoopUpgrade(w) ==
    /\ WGoto(w, "loop", "events")
    /\ FrontIs(w, {"upgrade"})
    /\ ServeFront(w, TRUE)
    /\ HandlerRearm(w, "in")
    /\ UNCHANGED <<book, running, tasks>>

\* The 400 or the 101 cannot be written: the exception is caught and the client
\* disconnected, unanswered.
LoopSendThrows(w) ==
    /\ HandlerMayThrow
    /\ WGoto(w, "loop", "events")
    /\ FrontIs(w, {"bad", "upgrade"})
    /\ Disconnect(w, thr[w].cur)
    /\ UNCHANGED <<conn, running, tasks>>

\* Ping, Pong, continuation: re-arm and go on with the next frame.
LoopControl(w) ==
    /\ WGoto(w, "loop", "loop")
    /\ FrontIs(w, {"ping"})
    /\ ServeFront(w, FALSE)
    /\ HandlerRearm(w, "in")
    /\ UNCHANGED <<book, running, tasks>>

\* The front unit is consumed and its task enqueued.
Offload(w) ==
    /\ FrontIs(w, {"keep", "close"} \cup DataUnits)
    /\ conn' = [conn EXCEPT ![Here(w)].buf = Tail(@)]
    /\ tasks' = tasks \cup {[conn |-> Here(w), fd |-> thr[w].cur, w |-> w, n |-> Front(w),
                             u |-> FrontUnit(w), at |-> "queued"]}

\* Fault: the loop goes on with the next request.
LoopOffloadContinues(w) ==
    /\ WGoto(w, "loop", "loop")
    /\ Offload(w)
    /\ UNCHANGED <<kernel, book, running, crashed>>

\* Fault: the epoll thread re-arms although a task is on its way.
LoopOffloadRearms(w) ==
    /\ WGoto(w, "loop", "events")
    /\ Offload(w)
    /\ HandlerRearm(w, "in")
    /\ UNCHANGED <<book, running>>

\* A request or a data frame: offload it and return without re-arming.
LoopOffload(w) ==
    /\ WGoto(w, "loop", "events")
    /\ Offload(w)
    /\ UNCHANGED <<kernel, book, running, crashed>>

----------------------------------------------------------------------------
(* The tasks, on the pool's threads *)

Become(t, at) == tasks' = (tasks \ {t}) \cup {[t EXCEPT !.at = at]}

\* router_.handle
TaskHandle(t) ==
    /\ t.at = "queued" /\ t.u \notin DataUnits
    /\ Become(t, "handled")
    /\ UNCHANGED <<conn, kernel, thr, book, running, crashed>>

\* router_.handleWs: the dashboard's text is noted, any other is answered.
TaskHandleWs(t) ==
    /\ t.at = "queued" /\ t.u \in DataUnits
    /\ Become(t, "sent")
    /\ conn' = [conn EXCEPT ![t.conn].served = Append(@, t.n)]
    /\ IF t.u = "text" THEN UseFd(t.conn, t.fd) ELSE UNCHANGED kernel
    /\ UNCHANGED <<thr, book, running, crashed>>

\* The handler throws, or send does.
TaskThrow(t) ==
    /\ HandlerMayThrow
    /\ t.at \in {"queued", "handled"}
    /\ Become(t, "close")
    /\ UNCHANGED <<conn, kernel, thr, book, running, crashed>>

\* connection->send, to the descriptor's number, then updateActivity.
TaskSend(t) ==
    /\ t.at = "handled"
    /\ Become(t, "sent")
    /\ conn' = [conn EXCEPT ![t.conn] = [@ EXCEPT !.served = Append(conn[t.conn].served, t.n),
                                            !.stale = FALSE]]
    /\ UseFd(t.conn, t.fd)
    /\ UNCHANGED <<thr, book, running, crashed>>

\* Fault: every answer says "close".
KeepAliveNever(t) == FALSE

KeepAlive(t) == t.u \in {"keep"} \cup DataUnits

\* Keep-alive on a running server: re-arm; else close.
TaskDecide(t) ==
    /\ t.at = "sent"
    /\ Become(t, IF KeepAlive(t) /\ running THEN "rearm" ELSE "close")
    /\ UNCHANGED <<conn, kernel, thr, book, running, crashed>>

\* Fault: the task ends without re-arming.
TaskRearmForgets(t) ==
    /\ t.at = "rearm"
    /\ Become(t, "drop")
    /\ UNCHANGED <<conn, kernel, thr, book, running, crashed>>

\* modify throws when the descriptor is not in the Worker's epoll set.
TaskRearm(t) ==
    /\ t.at = "rearm"
    /\ IF Registered(t.w, t.fd)
       THEN Arm(t.conn, t.fd, "in") /\ Become(t, "drop")
       ELSE UNCHANGED kernel /\ Become(t, "close")
    /\ UNCHANGED <<conn, thr, book, running, crashed>>

\* ::shutdown and ::close the descriptor; the catch block does the same.
TaskClose(t) ==
    /\ t.at = "close"
    /\ CloseFd(t.conn, t.fd)
    /\ Become(t, "drop")
    /\ UNCHANGED <<conn, thr, book, running, crashed>>

\* start has returned and the pool is destroyed: a task still in its ring is
\* never called.
TaskDiscard(t) ==
    /\ t.at = "queued"
    /\ \A w \in Workers : thr[w].pc = "exit"
    /\ Become(t, "drop")
    /\ UNCHANGED <<conn, kernel, thr, book, running, crashed>>

\* Fault: the closure owns the connection outright.
TaskDropOwns(t) ==
    /\ t.at = "drop"
    /\ tasks' = tasks \ {t}
    /\ CloseFd(t.conn, conn[t.conn].fd)
    /\ UNCHANGED <<conn, thr, book, running, crashed>>

\* The closure is destroyed; the last reference destroys the connection.
TaskDrop(t) ==
    LET c == t.conn
        last == /\ ~Captured(c, tasks \ {t})
                /\ \A w \in Workers, f \in Fds : actives[w][f] # c
    IN  /\ t.at = "drop"
        /\ tasks' = tasks \ {t}
        /\ IF last THEN CloseFd(c, conn[c].fd) ELSE UNCHANGED kernel
        /\ UNCHANGED <<conn, thr, book, running, crashed>>

----------------------------------------------------------------------------
(* Time and the operator *)

\* The handler of connection c is running on an epoll thread.
Handling(c) == \E w \in Workers : thr[w].pc \in {"handshake", "read", "loop"} /\ Here(w) = c

\* Something is being done for c: a task, a handler, or an event is at hand.
Busy(c) ==
    \/ Captured(c, tasks)
    \/ Handling(c)
    \/ \E w \in Workers : \E e \in thr[w].batch : e.fd = conn[c].fd

\* CONNECTION_TIMEOUT_SECONDS have passed since lastActivity_.
Expire(c) ==
    /\ Timeouts = "any" \/ (Timeouts = "idle" /\ ~Busy(c))
    /\ \E w \in Workers, f \in Fds : actives[w][f] = c
    /\ ~conn[c].stale
    /\ conn' = [conn EXCEPT ![c].stale = TRUE]
    /\ UNCHANGED server

Stop ==
    /\ MayStop
    /\ running
    /\ running' = FALSE
    /\ UNCHANGED <<conn, kernel, thr, book, tasks, crashed>>

----------------------------------------------------------------------------
ClientStep(c) ==
    \/ Connect(c)
    \/ FinishTls(c)
    \/ \E u \in ClientUnits : Send(c, u)
    \/ \E how \in {"eof", "reset"} : Leave(c, how)

WorkerStep(w) ==
    \/ Poll(w)
    \/ \E e \in thr[w].batch : EventListen(w, e) \/ EventHup(w, e) \/ EventOut(w, e) \/ EventIn(w, e)
    \/ SweepCollect(w) \/ SweepDone(w) \/ \E f \in Fds : SweepOne(w, f)
    \/ Exit(w)
    \/ AcceptRegister(w) \/ AcceptDone(w) \/ \E c \in Conns : AcceptSocket(w, c)
    \/ HandshakeWantsRead(w) \/ HandshakeWantsWrite(w) \/ HandshakeDone(w) \/ HandshakeFails(w)
    \/ ReadData(w) \/ ReadEnd(w)
    \/ LoopIncomplete(w) \/ LoopDisconnect(w) \/ LoopUpgrade(w) \/ LoopSendThrows(w)
    \/ LoopControl(w) \/ LoopOffload(w)

TaskStep(t) ==
    \/ TaskHandle(t) \/ TaskHandleWs(t) \/ TaskThrow(t)
    \/ TaskSend(t)
    \/ TaskDecide(t) \/ TaskRearm(t) \/ TaskClose(t)
    \/ TaskDiscard(t) \/ TaskDrop(t)

\* An exception that nothing catches ends the process.
Next ==
    /\ ~crashed
    /\ \/ \E c \in Conns : ClientStep(c) \/ Expire(c)
       \/ \E w \in Workers : WorkerStep(w)
       \/ \E t \in tasks : TaskStep(t)
       \/ Stop

Spec == Init /\ [][Next]_vars

----------------------------------------------------------------------------
(* Properties *)

Places == {"poll", "events", "sweep", "exit", "accept", "register", "handshake", "read", "loop"}

\* Every variable holds a value of its type, and the counter of active
\* connections (unsigned) never goes below zero.
TypeOK ==
    /\ conn \in [Conns ->
           [link : {"none", "backlog", "accepted"}, peer : {"open", "eof", "reset"},
            script : Seq(Units), inq : Seq(1..MaxUnits), owner : Workers, fd : Fds \cup {0},
            tls : {"hello", "notls", "replied", "blocked", "finished", "done"},
            ws : BOOLEAN, buf : Seq(1..MaxUnits), stale : BOOLEAN, served : Seq(1..MaxUnits)]]
    /\ fdt \in [Fds -> Conns \cup {NoConn}]
    /\ reg \in [Conns -> {"none", "in", "out", "off"}]
    /\ thr \in [Workers ->
           [pc : Places, cur : Fds \cup {0}, pend : Conns \cup {NoConn}, idle : SUBSET Fds,
            batch : SUBSET [fd : Fds \cup {0}, ev : {"in", "out", "hup", "listen"}]]]
    /\ actives \in [Workers -> [Fds -> Conns \cup {NoConn}]]
    /\ count \in Nat
    /\ tasks \subseteq [conn : Conns, fd : Fds, w : Workers, n : 1..MaxUnits, u : Units,
                       at : {"queued", "handled", "sent", "rearm", "close", "drop"}]
    /\ {running, crashed, stray} \subseteq BOOLEAN

\* No epoll_ctl failure escapes an epoll thread, whatever clients that keep their
\* connections send, in whatever order they come, leave and are swept away.  (It
\* needs them: once a task has closed a descriptor its entry in the map is a trap,
\* see SweepSurvives.)
NoCrash == ~crashed

\* Documentation/Network.md:34: "idle connection reaping is handled by
\* `sweepIdleConnections()`": the sweep ends idle connections, not the process.
SweepSurvives ==
    crashed => \A w \in Workers : thr[w].pc # "sweep"

\* A descriptor is closed, written and re-armed only by the connection that
\* owns it: no double close, no use of a number the kernel has given to
\* somebody else.  (Documentation/Network.md:18: Socket is "A strict RAII
\* wrapper ... ensuring strict lifecycle management".)
DescriptorsOwned == ~stray

\* The pool's tasks that still use connection c (units are numbered from 1).
Using(c) == {t \in tasks : t.conn = c /\ t.n > 0 /\ t.at # "drop"}

\* The one-shot hand-over.  One thread at a time: the epoll thread stays out of a
\* connection while a task uses its SSL object and buffer, and two tasks of one
\* connection never run together.  TcpServer.cpp:170: "the ThreadPool will
\* re-arm epoll when finished": until then the registration is not armed.
HandOver ==
    \A c \in Conns :
        /\ Cardinality(Using(c)) + (IF Handling(c) THEN 1 ELSE 0) <= 1
        /\ Using(c) # {} => reg[c] \notin {"in", "out"}

\* Answers leave in the order of the requests, none twice, none skipped.
AnswersInOrder ==
    \A c \in Conns : \A i \in 1..Len(conn[c].served) : conn[c].served[i] = i

\* The books agree with the kernel.  The dashboard's counter is the number of
\* connections in the maps; and no descriptor leaks: an open file is being
\* accepted, or is in the map of the worker that accepted it, or is held by a
\* task.
BooksAgree ==
    /\ count = Cardinality({p \in Workers \X Fds : actives[p[1]][p[2]] # NoConn})
    /\ \A f \in Fds : fdt[f] # NoConn =>
           LET c == fdt[f] IN
               \/ \E w \in Workers : thr[w].pend = c
               \/ actives[conn[c].owner][f] = c
               \/ Captured(c, tasks)

\* A connection that is waiting for input can hear it: it is armed, or an event
\* of it is in a batch, or somebody is at work on it and will re-arm it.
NobodyForgotten ==
    \A c \in Conns :
        (conn[c].link = "accepted" /\ ~Closed(c) /\ (\A w \in Workers : thr[w].pend # c)) =>
            reg[c] = "in" \/ Busy(c) \/ \E w \in Workers : thr[w].pc = "exit"

\* A request or frame sent after the previous one was served is served in its
\* turn, whatever else fails, unless the server closes the connection.
EveryUnitServed ==
    \A c \in Conns :
        (Len(conn[c].served) < Len(conn[c].script)) ~>
            (Len(conn[c].served) = Len(conn[c].script) \/ Closed(c) \/ crashed)
============================================================================
