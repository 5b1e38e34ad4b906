--------------------------- MODULE Http2Session ---------------------------
(***************************************************************************)
(* HTTP/2 connections (the HTTP/2 half of ClientConnection.cpp): the epoll *)
(* thread feeds the bytes it has read to nghttp2 while it holds h2_mutex_, *)
(* the frame callback enqueues one task per finished request, and the      *)
(* pool's workers come back for the same mutex to submit the responses.    *)
(*                                                                         *)
(* The pool is TaskQueue with a bound: enqueue waits while CAPACITY tasks  *)
(* are in the ring.  nghttp2 is external: it calls the callbacks once per  *)
(* frame, in order, keeps what it could not write, and forgets the frame   *)
(* whose writing went wrong.  A connection ends                            *)
(* when its client leaves or sends something that is no frame; the object  *)
(* lives on while a task holds a shared_ptr to it.                         *)
(*                                                                         *)
(* A request is the method and path it carries: s those of stream s, Blank *)
(* those of HttpRequest(), NoRequest where there is none.                  *)
(***************************************************************************)
EXTENDS Integers, Sequences, FiniteSets, FiniteSetsExt

CONSTANTS
    Threads,      \* epoll threads
    Conns,        \* HTTP/2 connections
    Leavers,      \* those whose client may leave or send junk
    Streams,      \* stream identifiers a client may open on each
    Workloads,    \* what a client may ask for: per stream, a kind of request
    PoolWorkers,  \* threads of the pool
    CAPACITY,     \* slots of its ring
    Nobody        \* no thread, no task

\* The frames of a request: HEADERS, then perhaps DATA, then perhaps trailing
\* HEADERS; the last one has END_STREAM. None on a stream that is not opened.
FramesOf == [none |-> << >>, get |-> <<"headers">>, post |-> <<"headers", "data">>,
             trailed |-> <<"headers", "data", "trailers">>]
Shapes == DOMAIN FramesOf

NoRequest == -1
Blank == 0

ASSUME PoolPositive == CAPACITY \in Nat \ {0}
ASSUME WorkloadsKnown == Workloads \subseteq [Streams -> Shapes]
ASSUME LeaversAreConns == Leavers \subseteq Conns
ASSUME NobodyIsNobody == Nobody \notin Threads \cup PoolWorkers
ASSUME ThreadsApart == Threads \cap PoolWorkers = {}
ASSUME StreamsPositive == Streams \subseteq Nat \ {0}

VARIABLES
    shape,      \* per connection and stream, the kind of request
    framesSent, \* frames of it the client has sent
    link,       \* per connection: "open", "left" or "junk" (the client has gone, or has sent
                \* no frame but junk), "dropped" (erased from the Worker's map)
    dead,       \* connections whose ClientConnection has been destroyed
    owner,      \* per connection, the epoll thread that accepted it
    socket,     \* frames in the socket's receive buffer
    readBuffer, \* readBuffer_
    streams,    \* h2_streams_
    mutex,      \* h2_mutex_: who holds it
    epoll,      \* per epoll thread: pc, the connection and the stream in hand, its request
    ring,       \* the tasks in the pool's ring
    worker,     \* per pool thread: pc and task
    outbound,   \* responses nghttp2 holds and has not written; 0 is the SETTINGS frame
    written,    \* history: streams whose response was written
    handled,    \* history: what the router got, per connection and stream
    failed      \* history: streams whose handler threw or whose response was lost in writing

client == <<shape, framesSent, owner>>
inbound == <<socket, readBuffer, streams>>
history == <<handled, failed>>
life == <<link, dead>>
vars == <<client, life, inbound, mutex, epoll, ring, worker, outbound, written, history>>

Init ==
    /\ shape \in [Conns -> Workloads]
    /\ framesSent = [c \in Conns |-> [s \in Streams |-> 0]]
    /\ owner \in [Conns -> Threads]
    /\ socket = [c \in Conns |-> << >>]
    /\ readBuffer = [c \in Conns |-> << >>]
    /\ streams = [c \in Conns |-> [s \in Streams |-> NoRequest]]
    /\ mutex = [c \in Conns |-> Nobody]
    /\ epoll = [t \in Threads |-> [pc |-> "wait", conn |-> Nobody, stream |-> 0, req |-> NoRequest]]
    /\ ring = << >>
    /\ worker = [w \in PoolWorkers |-> [pc |-> "idle", task |-> Nobody]]
    /\ outbound = [c \in Conns |-> {0}]    \* setupHttp2Session
    /\ link = [c \in Conns |-> "open"]
    /\ dead = {}
    /\ written = [c \in Conns |-> {}]
    /\ handled = [c \in Conns |-> [s \in Streams |-> NoRequest]]
    /\ failed = [c \in Conns |-> {}]

----------------------------------------------------------------------------
(* The client: frames of different streams interleave *)

SendFrame(c, s) ==
    LET frames == FramesOf[shape[c][s]]
        n == framesSent[c][s] + 1
    IN  /\ link[c] = "open" /\ n <= Len(frames)
        /\ framesSent' = [framesSent EXCEPT ![c][s] = n]
        /\ socket' = [socket EXCEPT ![c] =
               Append(@, [stream |-> s, kind |-> frames[n], end |-> n = Len(frames)])]
        /\ UNCHANGED <<shape, owner, life, readBuffer, streams, mutex, epoll, ring, worker,
                       outbound, written, history>>

Leave(c) ==
    /\ link[c] = "open"
    /\ link' = [link EXCEPT ![c] = "left"]
    /\ UNCHANGED <<client, dead, inbound, mutex, epoll, ring, worker, outbound, written, history>>

SendJunk(c) ==
    /\ link[c] = "open"
    /\ link' = [link EXCEPT ![c] = "junk"]
    /\ socket' = [socket EXCEPT ![c] = Append(@, [stream |-> 0, kind |-> "junk", end |-> FALSE])]
    /\ UNCHANGED <<client, dead, readBuffer, streams, mutex, epoll, ring, worker, outbound, written,
                   history>>

----------------------------------------------------------------------------
(* The mutex and nghttp2 *)

Acquire(c, who) == mutex[c] = Nobody /\ mutex' = [mutex EXCEPT ![c] = who]
Release(c) == mutex' = [mutex EXCEPT ![c] = Nobody]

\* A task of the pool holds a shared_ptr to connection c.
Captured(c, tasks, threads) ==
    \/ \E i \in DOMAIN tasks : tasks[i].conn = c
    \/ \E w \in PoolWorkers : threads[w].pc # "idle" /\ threads[w].task.conn = c

\* Fault: a task holds a plain pointer, and the map is all that keeps the object.
DropOwned(c) ==
    /\ link' = [link EXCEPT ![c] = "dropped"]
    /\ dead' = dead \cup {c}

\* disconnectClient: the map lets go of the connection.
Drop(c) ==
    /\ link' = [link EXCEPT ![c] = "dropped"]
    /\ dead' = IF Captured(c, ring, worker) THEN dead ELSE dead \cup {c}

\* The closure of a task of c is destroyed, perhaps with the last reference.
LetGo(w, c) ==
    /\ worker' = [worker EXCEPT ![w] = [pc |-> "idle", task |-> Nobody]]
    /\ dead' = IF link[c] = "dropped" /\ ~Captured(c, ring, worker') THEN dead \cup {c} ELSE dead

\* The SSL object is of no use: the client has gone, or an epoll thread is in
\* SSL_read on it.
SslBroken(c) ==
    link[c] \in {"left", "dropped"} \/ \E t \in Threads : epoll[t].pc = "read" /\ epoll[t].conn = c

\* nghttp2_session_send calls h2_send_cb for what is pending until all of it is
\* written, or the socket is full (NGHTTP2_ERR_WOULDBLOCK) and the rest stays
\* pending, or SSL_write fails (NGHTTP2_ERR_CALLBACK_FAILURE): nghttp2 then
\* counts the frame in hand as written, and nobody looks at the result.
SessionSend(c, pending) ==
    \E done \in SUBSET pending :
        /\ written' = [written EXCEPT ![c] = @ \cup done]
        /\ \/ /\ outbound' = [outbound EXCEPT ![c] = pending \ done]
              /\ UNCHANGED failed
           \/ \E s \in pending \ done :
                 /\ SslBroken(c)
                 /\ outbound' = [outbound EXCEPT ![c] = pending \ (done \cup {s})]
                 /\ failed' = [failed EXCEPT ![c] = @ \cup {s}]

----------------------------------------------------------------------------
(* The epoll thread: handleClientData and processHttp2 *)

EGoto(t, from, to) == epoll[t].pc = from /\ epoll' = [epoll EXCEPT ![t].pc = to]

\* EPOLLIN: the thread is in ClientConnection::read, that is in SSL_read.
Event(t, c) ==
    /\ epoll[t].pc = "wait"
    /\ owner[c] = t /\ link[c] # "dropped"
    /\ socket[c] # << >> \/ link[c] = "left"
    /\ epoll' = [epoll EXCEPT ![t] = [@ EXCEPT !.pc = "read", !.conn = c]]
    /\ UNCHANGED <<client, life, inbound, mutex, ring, worker, outbound, written, history>>

Read(t) ==
    LET c == epoll[t].conn IN
        /\ EGoto(t, "read", "lock")
        /\ link[c] # "left"
        /\ readBuffer' = [readBuffer EXCEPT ![c] = @ \o socket[c]]
        /\ socket' = [socket EXCEPT ![c] = << >>]
        /\ UNCHANGED <<client, life, streams, mutex, ring, worker, outbound, written, history>>

\* The end of the stream; or SSL_read goes wrong because a worker is in SSL_write
\* on the same object.  Either way the connection is dropped.
ReadFails(t) ==
    LET c == epoll[t].conn IN
        /\ EGoto(t, "read", "wait")
        /\ link[c] = "left" \/ \E w \in PoolWorkers : worker[w].pc = "submit" /\ worker[w].task.conn = c
        /\ Drop(c)
        /\ UNCHANGED <<client, inbound, mutex, ring, worker, outbound, written, history>>

ProcessLock(t) ==
    /\ EGoto(t, "lock", "recv")
    /\ Acquire(epoll[t].conn, t)
    /\ UNCHANGED <<client, life, inbound, ring, worker, outbound, written, history>>

\* The request in h2_streams_ after the callbacks of a frame: HEADERS of either
\* kind start from HttpRequest(), and only a request's have :method and :path.
AfterFrame(old, f) ==
    CASE f.kind = "headers" -> f.stream
      [] f.kind = "trailers" -> Blank
      [] f.kind = "data" -> old

\* Fault: DATA goes to the request whose HEADERS came in last.
RecvFrameLatest(t) ==
    LET c == epoll[t].conn
        f == Head(readBuffer[c])
        open == {s \in Streams : streams[c][s] # NoRequest}
        req == IF f.kind = "data" THEN streams[c][Max(open)] ELSE AfterFrame(NoRequest, f)
    IN  /\ epoll[t].pc = "recv" /\ readBuffer[c] # << >> /\ f.kind # "junk"
        /\ readBuffer' = [readBuffer EXCEPT ![c] = Tail(@)]
        /\ streams' = [streams EXCEPT ![c][f.stream] = IF f.end THEN NoRequest ELSE req]
        /\ epoll' = IF f.end
                    THEN [epoll EXCEPT ![t] = [@ EXCEPT !.pc = "enqueue", !.stream = f.stream, !.req = req]]
                    ELSE epoll
        /\ UNCHANGED <<client, life, socket, mutex, ring, worker, outbound, written, history>>

\* nghttp2_session_mem_recv takes one frame; END_STREAM moves the request out.
RecvFrame(t) ==
    LET c == epoll[t].conn
        f == Head(readBuffer[c])
        req == AfterFrame(streams[c][f.stream], f)
    IN  /\ epoll[t].pc = "recv" /\ readBuffer[c] # << >> /\ f.kind # "junk"
        /\ readBuffer' = [readBuffer EXCEPT ![c] = Tail(@)]
        /\ streams' = [streams EXCEPT ![c][f.stream] = IF f.end THEN NoRequest ELSE req]
        /\ epoll' = IF f.end
                    THEN [epoll EXCEPT ![t] = [@ EXCEPT !.pc = "enqueue", !.stream = f.stream, !.req = req]]
                    ELSE epoll
        /\ UNCHANGED <<client, life, socket, mutex, ring, worker, outbound, written, history>>

\* nghttp2_session_mem_recv fails: the exception unlocks, and the connection is
\* dropped.
RecvFails(t) ==
    LET c == epoll[t].conn IN
        /\ EGoto(t, "recv", "wait")
        /\ readBuffer[c] # << >> /\ Head(readBuffer[c]).kind = "junk"
        /\ Release(c)
        /\ Drop(c)
        /\ UNCHANGED <<client, inbound, ring, worker, outbound, written, history>>

\* Fault: the ring's bound is not enforced.
EnqueueTaskUnbounded(t) ==
    /\ EGoto(t, "enqueue", "recv")
    /\ ring' = Append(ring, [conn |-> epoll[t].conn, stream |-> epoll[t].stream, req |-> epoll[t].req])
    /\ UNCHANGED <<client, life, inbound, mutex, worker, outbound, written, history>>

\* thread_pool_.enqueue in the frame callback, the mutex held; it waits for space.
EnqueueTask(t) ==
    /\ EGoto(t, "enqueue", "recv")
    /\ Len(ring) < CAPACITY
    /\ ring' = Append(ring, [conn |-> epoll[t].conn, stream |-> epoll[t].stream, req |-> epoll[t].req])
    /\ UNCHANGED <<client, life, inbound, mutex, worker, outbound, written, history>>

\* The buffer is empty: send what is pending, unlock, re-arm.
ProcessSend(t) ==
    LET c == epoll[t].conn IN
        /\ EGoto(t, "recv", "wait")
        /\ readBuffer[c] = << >>
        /\ SessionSend(c, outbound[c])
        /\ Release(c)
        /\ UNCHANGED <<client, life, inbound, ring, worker, handled>>

----------------------------------------------------------------------------
(* The pool *)

TakeTask(w) ==
    /\ worker[w].pc = "idle" /\ ring # << >>
    /\ worker' = [worker EXCEPT ![w] = [pc |-> "handle", task |-> Head(ring)]]
    /\ ring' = Tail(ring)
    /\ UNCHANGED <<client, life, inbound, mutex, epoll, outbound, written, history>>

\* router_ref.handle
HandleRequest(w) ==
    LET task == worker[w].task IN
        /\ worker[w].pc = "handle"
        /\ worker' = [worker EXCEPT ![w].pc = "lock"]
        /\ handled' = [handled EXCEPT ![task.conn][task.stream] = task.req]
        /\ UNCHANGED <<client, life, inbound, mutex, epoll, ring, outbound, written, failed>>

\* The handler throws: it is logged, and nothing is submitted.
HandlerThrows(w) ==
    LET task == worker[w].task IN
        /\ worker[w].pc = "handle"
        /\ LetGo(w, task.conn)
        /\ failed' = [failed EXCEPT ![task.conn] = @ \cup {task.stream}]
        /\ UNCHANGED <<client, link, inbound, mutex, epoll, ring, outbound, written, handled>>

SubmitLock(w) ==
    /\ worker[w].pc = "lock"
    /\ worker' = [worker EXCEPT ![w].pc = "submit"]
    /\ Acquire(worker[w].task.conn, w)
    /\ UNCHANGED <<client, life, inbound, epoll, ring, outbound, written, history>>

\* Fault: the mutex is not released on the way out.
SubmitKeepsLock(w) ==
    LET task == worker[w].task IN
        /\ worker[w].pc = "submit"
        /\ LetGo(w, task.conn)
        /\ SessionSend(task.conn, outbound[task.conn] \cup {task.stream})
        /\ UNCHANGED <<client, link, inbound, mutex, epoll, ring, handled>>

\* nghttp2_submit_response, nghttp2_session_send, unlock.
Submit(w) ==
    LET task == worker[w].task IN
        /\ worker[w].pc = "submit"
        /\ LetGo(w, task.conn)
        /\ SessionSend(task.conn, outbound[task.conn] \cup {task.stream})
        /\ Release(task.conn)
        /\ UNCHANGED <<client, link, inbound, epoll, ring, handled>>

----------------------------------------------------------------------------
ThreadStep(t) ==
    \/ \E c \in Conns : Event(t, c)
    \/ Read(t) \/ ReadFails(t)
    \/ ProcessLock(t) \/ RecvFrame(t) \/ RecvFails(t) \/ EnqueueTask(t) \/ ProcessSend(t)

PoolStep(w) ==
    TakeTask(w) \/ HandleRequest(w) \/ HandlerThrows(w) \/ SubmitLock(w) \/ Submit(w)

Ended(c, s) == framesSent[c][s] = Len(FramesOf[shape[c][s]])

\* The clients have sent everything and all threads are waiting for work.
Quiet ==
    /\ \A c \in Conns :
           link[c] = "dropped" \/ (link[c] = "open" /\ socket[c] = << >> /\ \A s \in Streams : Ended(c, s))
    /\ \A t \in Threads : epoll[t].pc = "wait"
    /\ \A w \in PoolWorkers : worker[w].pc = "idle"
    /\ ring = << >>
    /\ UNCHANGED vars

Next ==
    \/ \E c \in Conns, s \in Streams : SendFrame(c, s)
    \/ \E c \in Leavers : Leave(c) \/ SendJunk(c)
    \/ \E t \in Threads : ThreadStep(t)
    \/ \E w \in PoolWorkers : PoolStep(w)
    \/ Quiet

Spec == Init /\ [][Next]_vars

\* The scheduler runs every thread.  Nothing is assumed of the mutex beyond
\* that a thread gets it when it stays free, and nothing of clients.
Fairness ==
    /\ \A t \in Threads : WF_vars(ThreadStep(t))
    /\ \A w \in PoolWorkers : WF_vars(PoolStep(w))

FairSpec == Spec /\ Fairness

----------------------------------------------------------------------------
(* Properties *)

\* Every variable holds a value of its type, and the ring keeps its bound.
TypeOK ==
    /\ streams \in [Conns -> [Streams -> Streams \cup {NoRequest, Blank}]]
    /\ mutex \in [Conns -> Threads \cup PoolWorkers \cup {Nobody}]
    /\ \A t \in Threads : epoll[t].pc \in {"wait", "read", "lock", "recv", "enqueue"}
    /\ \A w \in PoolWorkers : worker[w].pc \in {"idle", "handle", "lock", "submit"}
    /\ Len(ring) <= CAPACITY
    /\ outbound \in [Conns -> SUBSET (Streams \cup {0})]
    /\ written \in [Conns -> SUBSET (Streams \cup {0})]
    /\ failed \in [Conns -> SUBSET (Streams \cup {0})]
    /\ link \in [Conns -> {"open", "left", "junk", "dropped"}] /\ dead \subseteq Conns

\* The threads inside nghttp2 on connection c.
Inside(c) ==
    {t \in Threads : epoll[t].conn = c /\ epoll[t].pc \in {"recv", "enqueue"}}
    \cup {w \in PoolWorkers : worker[w].pc = "submit" /\ worker[w].task.conn = c}

\* One thread at a time uses an nghttp2 session, also while the epoll thread
\* waits for the pool inside it; and nobody uses the session, or is about to,
\* once the connection has been destroyed, although the map may let go of it
\* while its tasks are under way.
SessionSafe ==
    \A c \in Conns :
        /\ Cardinality(Inside(c)) <= 1
        /\ c \in dead => Inside(c) = {} /\ ~Captured(c, ring, worker)

\* Documentation/Network.md:20: h2_mutex_ is there "to prevent background
\* ThreadPool workers from colliding with the Epoll loop when injecting multiplexed
\* HTTP/2 responses": the epoll thread is not in SSL_read while a worker is in
\* SSL_write on the same SSL object.
SslExclusive ==
    \A t \in Threads, w \in PoolWorkers :
        epoll[t].pc = "read" /\ worker[w].pc = "submit" => epoll[t].conn # worker[w].task.conn

\* However frames of several streams interleave, the router gets for a stream the
\* method and path that stream's HEADERS carried, never another stream's, and
\* nothing of the stream is left in h2_streams_. A request with trailers is the
\* exception: its second HEADERS have replaced it by HttpRequest().
RequestIntact ==
    \A c \in Conns, s \in Streams :
        handled[c][s] # NoRequest =>
            /\ streams[c][s] = NoRequest
            /\ handled[c][s] = IF shape[c][s] = "trailed" THEN Blank ELSE s

\* The client has sent a whole request on stream s.
Asked(c, s) == shape[c][s] # "none" /\ Ended(c, s)

\* The response of stream s is submitted, or its handler or its writing has failed.
Settled(c, s) == s \in written[c] \cup outbound[c] \cup failed[c]

\* Documentation/Concurrency.md:19: the semaphores "elegantly handle
\* backpressure": a full ring slows the network loop down and nothing more.
\* Every finished request gets a response submitted, unless its handler throws, its
\* writing fails or the connection ends. The code does not keep this: the loop
\* that waits for space holds the mutex the workers need to make some.
RequestsAnswered ==
    \A c \in Conns, s \in Streams : Asked(c, s) ~> (Settled(c, s) \/ link[c] # "open")

\* More requests are finished and unanswered than the workers and the ring hold.
Overloaded ==
    Cardinality({x \in Conns \X Streams : Asked(x[1], x[2]) /\ ~Settled(x[1], x[2])})
        > Cardinality(PoolWorkers) + CAPACITY

\* What the code does keep of it: as long as the unanswered requests fit into the
\* workers and the ring together, every one gets its response submitted, although
\* the epoll thread waits for a full ring inside the mutex and the workers for the
\* mutex. (Submitted, not sent: what nghttp2 holds back counts, since nobody comes
\* back to write it until the client sends again.)
AnsweredInCapacity ==
    []<>(\/ Overloaded
         \/ \A c \in Conns, s \in Streams :
                Asked(c, s) => Settled(c, s) \/ link[c] # "open")
============================================================================
