----------------------------- MODULE Telemetry -----------------------------
(***************************************************************************)
(* The server of TcpServer together with TelemetryBroadcaster              *)
(* (src/services/TelemetryBroadcaster.cpp), as App::run puts them          *)
(* together: a thread that once a second writes the metrics to every       *)
(* WebSocket connection that has subscribed.  It knows the connections by  *)
(* weak_ptr, and owns one while it writes to it: that shared_ptr is a      *)
(* member of tasks with number 0.                                          *)
(***************************************************************************)
EXTENDS TcpServer

VARIABLES
    clients,    \* clients_: each entry is the connection and the frame that subscribed
    cast,       \* the broadcaster's thread: pc, and the entries still to visit;
                \* it holds mutex_ unless it sleeps or has ended
    telemetry,  \* TelemetryBroadcaster::running_
    stalled     \* connections with a record that SSL_write could not get rid of

service == <<clients, cast, telemetry, stalled>>
allVars == <<vars, service>>

TelemetryInit ==
    /\ Init
    /\ clients = {}
    /\ cast = [pc |-> "sleep", todo |-> {}]
    /\ telemetry = TRUE
    /\ stalled = {}

Entry(c, n) == [conn |-> c, n |-> n]

\* Some shared_ptr to the connection is left.
Alive(c) == Captured(c, tasks) \/ \E w \in Workers, f \in Fds : actives[w][f] = c

Holds == {t \in tasks : t.n = 0}

----------------------------------------------------------------------------
(* The pool's tasks, seen with the service *)

\* handleWs finds the handler of /api/telemetry, which calls addClient: it waits
\* while the broadcaster holds mutex_.
AddClient(t) ==
    /\ t.u = "subscribe" /\ TaskHandleWs(t)
    /\ cast.pc \in {"sleep", "exit"}
    /\ clients' = clients \cup {Entry(t.conn, t.n)}
    /\ UNCHANGED <<cast, telemetry, stalled>>

PoolWork(t) ==
    \/ AddClient(t)
    \/ /\ \/ t.u # "subscribe" /\ TaskHandleWs(t)
          \/ TaskHandle(t) \/ TaskSend(t)
          \/ TaskDecide(t) \/ TaskRearm(t) \/ TaskClose(t) \/ TaskDrop(t)
          \/ cast.pc = "exit" /\ TaskDiscard(t)    \* run has returned
       /\ UNCHANGED service

PoolStep(t) == PoolWork(t) \/ (TaskThrow(t) /\ UNCHANGED service)

----------------------------------------------------------------------------
(* TelemetryBroadcaster::run *)

\* The second is over: take mutex_ and start on the list.  (A round over an empty
\* list changes nothing and is left out, except the last one.)
Wake ==
    /\ cast.pc = "sleep"
    /\ clients # {} \/ ~telemetry
    /\ cast' = [pc |-> "scan", todo |-> clients]
    /\ UNCHANGED <<vars, clients, telemetry, stalled>>

\* Fault: the entry stays.
ForgetKeeps(e) ==
    /\ cast.pc = "scan" /\ e \in cast.todo /\ Holds = {}
    /\ ~Alive(e.conn)
    /\ cast' = [cast EXCEPT !.todo = @ \ {e}]
    /\ UNCHANGED <<vars, clients, telemetry, stalled>>

\* lock() finds nothing: the entry is removed.
Forget(e) ==
    /\ cast.pc = "scan" /\ e \in cast.todo /\ Holds = {}
    /\ ~Alive(e.conn)
    /\ clients' = clients \ {e}
    /\ cast' = [cast EXCEPT !.todo = @ \ {e}]
    /\ UNCHANGED <<vars, telemetry, stalled>>

\* lock() finds the connection and keeps it alive.
Lock(e) ==
    /\ cast.pc = "scan" /\ e \in cast.todo /\ Holds = {}
    /\ Alive(e.conn)
    /\ tasks' = tasks \cup {[conn |-> e.conn, fd |-> conn[e.conn].fd, w |-> conn[e.conn].owner,
                             n |-> 0, u |-> "telemetry", at |-> "cast"]}
    /\ cast' = [cast EXCEPT !.todo = @ \ {e}]
    /\ UNCHANGED <<conn, kernel, thr, book, running, crashed, clients, telemetry, stalled>>

\* sendWebSocketMessage goes out, or leaves a record behind when the kernel's
\* buffer is full, or finds the peer gone; send returns in all three cases.
Broadcast(t) ==
    /\ t.at = "cast"
    /\ Become(t, "drop")
    /\ UseFd(t.conn, t.fd)
    /\ stalled' \in {stalled \ {t.conn}} \cup (IF WriteMayBlock THEN {stalled \cup {t.conn}} ELSE {})
    /\ UNCHANGED <<conn, thr, book, running, crashed, clients, cast, telemetry>>

\* SSL_write is refused: another message than the record left behind, or an SSL
\* object that another thread is inside.  send throws and nothing catches it.
BroadcastThrows(t) ==
    /\ t.at = "cast"
    /\ t.conn \in stalled \/ Handling(t.conn) \/ Using(t.conn) # {}
    /\ crashed' = TRUE
    /\ UNCHANGED <<conn, kernel, thr, book, running, tasks, service>>

\* The same meeting of two threads can fail on the epoll thread's side, which
\* disconnects.
ReadDisturbed(w) ==
    /\ WGoto(w, "read", "events")
    /\ \E t \in Holds : t.conn = Here(w) /\ t.at = "cast"
    /\ Disconnect(w, thr[w].cur)
    /\ UNCHANGED <<conn, running, tasks, service>>

\* The list is done and mutex_ is free again; another round while running_.
ScanEnd ==
    /\ cast.pc = "scan" /\ cast.todo = {} /\ Holds = {}
    /\ cast' = [cast EXCEPT !.pc = IF telemetry THEN "sleep" ELSE "exit"]
    /\ UNCHANGED <<vars, clients, telemetry, stalled>>

\* App::run: server_.start() has joined its threads; stop(), which then joins
\* the broadcaster.
StopTelemetry ==
    /\ telemetry
    /\ \A w \in Workers : thr[w].pc = "exit"
    /\ telemetry' = FALSE
    /\ UNCHANGED <<vars, clients, cast, stalled>>

----------------------------------------------------------------------------
Broadcaster ==
    \/ Wake \/ ScanEnd
    \/ \E e \in cast.todo : Forget(e) \/ Lock(e)
    \/ \E t \in Holds : Broadcast(t) \/ BroadcastThrows(t) \/ (TaskDrop(t) /\ UNCHANGED service)

EpollThread(w) == (WorkerStep(w) /\ UNCHANGED service) \/ ReadDisturbed(w)

Outside ==
    /\ Stop \/ \E c \in Conns : ClientStep(c) \/ Expire(c)
    /\ UNCHANGED service

\* The process has been terminated, or has shut down.
Over ==
    /\ crashed \/ (tasks = {} /\ cast.pc = "exit")
    /\ UNCHANGED allVars

TelemetryNext ==
    \/ /\ ~crashed
       /\ \/ Outside \/ StopTelemetry \/ Broadcaster
          \/ \E w \in Workers : EpollThread(w)
          \/ \E t \in tasks \ Holds : PoolStep(t)
    \/ Over

TelemetrySpec == TelemetryInit /\ [][TelemetryNext]_allVars

\* The scheduler runs every epoll thread, the broadcaster, main and every task
\* (nothing is owed to exceptions).
\* A task that waits for mutex_ finds it free again and again: the broadcaster
\* sleeps for a second with it unlocked.
TelemetryFairness ==
    /\ \A w \in Workers : WF_allVars(~crashed /\ EpollThread(w))
    /\ \A c \in Conns, n \in 1..MaxUnits :
           SF_allVars(~crashed /\ \E t \in tasks : t.conn = c /\ t.n = n /\ PoolWork(t))
    /\ WF_allVars(~crashed /\ Broadcaster)
    /\ WF_allVars(~crashed /\ StopTelemetry)

TelemetryFairSpec == TelemetrySpec /\ TelemetryFairness

----------------------------------------------------------------------------
(* Properties *)

\* TcpServer.hpp:36: stop "Stops the server and closes all active connections",
\* and App::run comes to its end: the broadcaster has been joined, and what the
\* pool still held is gone.
ShutsDown ==
    ~running ~> \/ crashed
                \/ /\ \A f \in Fds : fdt[f] = NoConn
                   /\ tasks = {} /\ cast.pc = "exit"

\* A connection idle for longer than the timeout is heard again or closed, at
\* whatever point it got stuck (a handshake waiting for EPOLLOUT, a task that
\* takes too long, a dashboard that only listens); its descriptor is not kept
\* open by a task or by the broadcaster.
IdleReaped ==
    \A c \in Conns : conn[c].stale ~> (~conn[c].stale \/ Closed(c) \/ crashed)

\* The broadcaster's list does not keep entries of connections that are gone.
Pruned ==
    \A c \in Conns :
        (~Alive(c) /\ \E e \in clients : e.conn = c) ~>
            (crashed \/ cast.pc = "exit" \/ \A e \in clients : e.conn # c)
============================================================================
