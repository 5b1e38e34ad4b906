------------------------- MODULE Http2SessionProofs -------------------------
(***************************************************************************)
(* Proofs about Http2Session for every number of epoll threads, pool       *)
(* threads, connections and streams, and every capacity of the ring.       *)
(***************************************************************************)
EXTENDS Http2Session, FiniteSetTheorems, SequenceTheorems, TLAPS

(***************************************************************************)
(* The inductive invariant.                                                *)
(***************************************************************************)

Kinds == {"headers", "data", "trailers"}
HttpRequest == Streams \cup {NoRequest, Blank}
Junk == [stream |-> 0, kind |-> "junk", end |-> FALSE]
Frame == [stream : Streams, kind : Kinds, end : BOOLEAN] \cup {Junk}
Task == [conn : Conns, stream : Streams, req : HttpRequest]

\* The client's side and the buffers,
WireType ==
    /\ shape \in [Conns -> [Streams -> Shapes]]
    /\ framesSent \in [Conns -> [Streams -> Nat]]
    /\ owner \in [Conns -> Threads]
    /\ link \in [Conns -> {"open", "left", "junk", "dropped"}]
    /\ socket \in [Conns -> Seq(Frame)]
    /\ readBuffer \in [Conns -> Seq(Frame)]

\* what the connections hold,
SessionType ==
    /\ streams \in [Conns -> [Streams -> HttpRequest]]
    /\ mutex \in [Conns -> Threads \cup PoolWorkers \cup {Nobody}]
    /\ outbound \in [Conns -> SUBSET (Streams \cup {0})]
    /\ written \in [Conns -> SUBSET (Streams \cup {0})]
    /\ failed \in [Conns -> SUBSET (Streams \cup {0})]
    /\ handled \in [Conns -> [Streams -> HttpRequest]]
    /\ dead \subseteq Conns

\* and the threads: one that is not waiting has a connection in hand, its own,
\* that the map still holds.
ThreadType ==
    /\ DOMAIN epoll = Threads
    /\ \A t \in Threads :
           /\ DOMAIN epoll[t] = {"pc", "conn", "stream", "req"}
           /\ epoll[t].pc \in {"wait", "read", "lock", "recv", "enqueue"}
           /\ epoll[t].pc # "wait" => epoll[t].conn \in Conns
           /\ epoll[t].pc = "enqueue" => epoll[t].stream \in Streams /\ epoll[t].req \in HttpRequest

PoolType ==
    /\ ring \in Seq(Task) /\ Len(ring) <= CAPACITY
    /\ DOMAIN worker = PoolWorkers
    /\ \A w \in PoolWorkers :
           /\ DOMAIN worker[w] = {"pc", "task"}
           /\ worker[w].pc \in {"idle", "handle", "lock", "submit"}
           /\ worker[w].pc # "idle" => worker[w].task \in Task

TypeInv == WireType /\ SessionType /\ ThreadType /\ PoolType

\* A thread inside an nghttp2 session holds its mutex.
Locking ==
    /\ \A t \in Threads : epoll[t].pc \in {"recv", "enqueue"} => mutex[epoll[t].conn] = t
    /\ \A w \in PoolWorkers : worker[w].pc = "submit" => mutex[worker[w].task.conn] = w

\* An epoll thread works on connections of its own that the map still holds.
Owning ==
    \A t \in Threads : epoll[t].pc # "wait" => owner[epoll[t].conn] = t /\ link[epoll[t].conn] # "dropped"

\* A connection is destroyed only when the map and the tasks have let go of it.
Dying ==
    \A c \in dead : link[c] = "dropped" /\ ~Captured(c, ring, worker)

\* Frame f is the n-th of a request of this shape on stream s.
Is(f, s, sh, n) ==
    /\ f.stream = s /\ f.kind = FramesOf[sh][n]
    /\ f.end <=> n = Len(FramesOf[sh])

\* What a connection has been sent and nghttp2 has not seen.
Pending(c) == readBuffer[c] \o socket[c]

\* The frames of stream s in q are the ones after the d-th up to the k-th, in
\* their order, whatever frames of other streams are between them.
Ordered(q, s, sh, d, k) ==
    /\ \A i \in 1..Len(q) : q[i].stream = s => \E n \in (d + 1)..k : Is(q[i], s, sh, n)
    /\ \A n \in (d + 1)..k : \E i \in 1..Len(q) : Is(q[i], s, sh, n)
    /\ \A i, j \in 1..Len(q) : \A n, m \in (d + 1)..k :
           i < j /\ Is(q[i], s, sh, n) /\ Is(q[j], s, sh, m) => n < m

\* h2_streams_ of stream s after d of len frames.
Taken(s, d, len) == IF d = 0 \/ d = len THEN NoRequest ELSE s

\* nghttp2 has seen the first d frames of every stream, and h2_streams_ agrees.
Delivery ==
    \A c \in Conns, s \in Streams :
        /\ framesSent[c][s] <= Len(FramesOf[shape[c][s]])
        /\ \E d \in 0..framesSent[c][s] :
               /\ Ordered(Pending(c), s, shape[c][s], d, framesSent[c][s])
               /\ streams[c][s] = Taken(s, d, Len(FramesOf[shape[c][s]]))

\* All frames of the stream have been seen.
Over(c, s) ==
    /\ framesSent[c][s] = Len(FramesOf[shape[c][s]])
    /\ streams[c][s] = NoRequest
    /\ \A i \in 1..Len(Pending(c)) : Pending(c)[i].stream # s

\* A request that is on its way to the router is whole, and its stream over.
Whole(c, s, req) == Over(c, s) /\ req = IF shape[c][s] = "trailed" THEN Blank ELSE s

Wholeness ==
    /\ \A t \in Threads : epoll[t].pc = "enqueue" => Whole(epoll[t].conn, epoll[t].stream, epoll[t].req)
    /\ \A i \in 1..Len(ring) : Whole(ring[i].conn, ring[i].stream, ring[i].req)
    /\ \A w \in PoolWorkers : worker[w].pc # "idle" =>
           Whole(worker[w].task.conn, worker[w].task.stream, worker[w].task.req)
    /\ \A c \in Conns, s \in Streams : handled[c][s] # NoRequest => Whole(c, s, handled[c][s])

IInv == TypeInv /\ Locking /\ Owning /\ Dying /\ Delivery /\ Wholeness

(***************************************************************************)
(* Types.                                                                  *)
(***************************************************************************)

\* The frames of a request.
LEMMA FramesFact ==
    ASSUME NEW sh \in Shapes
    PROVE  /\ sh \in {"none", "get", "post", "trailed"}
           /\ Len(FramesOf[sh]) = IF sh = "none" THEN 0 ELSE IF sh = "get" THEN 1
                                  ELSE IF sh = "post" THEN 2 ELSE 3
           /\ sh # "none" => FramesOf[sh][1] = "headers"
           /\ sh \in {"post", "trailed"} => FramesOf[sh][2] = "data"
           /\ sh = "trailed" => FramesOf[sh][3] = "trailers"
           /\ \A n \in 1..Len(FramesOf[sh]) : FramesOf[sh][n] \in Kinds
<1>1. sh \in {"none", "get", "post", "trailed"}
  BY DEF Shapes, FramesOf
<1>2. /\ FramesOf["get"] = <<"headers">> /\ FramesOf["post"] = <<"headers", "data">>
      /\ FramesOf["trailed"] = <<"headers", "data", "trailers">>
  BY DEF FramesOf
<1>3. CASE sh = "get"
  <2>1. Len(FramesOf[sh]) = 1 /\ FramesOf[sh][1] = "headers"
    BY <1>2, <1>3
  <2> QED
    BY <1>1, <1>2, <1>3, <2>1 DEF Kinds
<1>4. CASE sh = "post"
  <2>1. Len(FramesOf[sh]) = 2 /\ FramesOf[sh][1] = "headers" /\ FramesOf[sh][2] = "data"
    BY <1>2, <1>4
  <2>2. \A n \in 1..2 : n = 1 \/ n = 2
    OBVIOUS
  <2> QED
    BY <1>1, <1>2, <1>4, <2>1, <2>2 DEF Kinds
<1>5. CASE sh = "trailed"
  <2>1. /\ Len(FramesOf[sh]) = 3 /\ FramesOf[sh][1] = "headers" /\ FramesOf[sh][2] = "data"
        /\ FramesOf[sh][3] = "trailers"
    BY <1>2, <1>5
  <2>2. \A n \in 1..3 : n = 1 \/ n = 2 \/ n = 3
    OBVIOUS
  <2> QED
    BY <1>1, <1>2, <1>5, <2>1, <2>2 DEF Kinds
<1>6. CASE sh = "none"
  <2>1. Len(FramesOf[sh]) = 0
    BY <1>6 DEF FramesOf
  <2>2. 1..0 = {}
    OBVIOUS
  <2> QED
    BY <1>6, <2>1, <2>2
<1> QED
  BY <1>1, <1>3, <1>4, <1>5, <1>6

\* The variables have their types initially,
LEMMA TypeInit == Init => TypeInv
<1> SUFFICES ASSUME Init PROVE TypeInv
  OBVIOUS
<1>1. WireType
  BY WorkloadsKnown DEF Init, WireType
<1>2. SessionType
  BY DEF Init, SessionType, HttpRequest
<1>3. ThreadType
  BY DEF Init, ThreadType
<1>4. PoolType
  BY PoolPositive DEF Init, PoolType
<1> QED
  BY <1>1, <1>2, <1>3, <1>4 DEF TypeInv

\* and a step keeps those of the client's side and of the buffers,
LEMMA WireStep == TypeInv /\ [Next]_vars => WireType'
<1> SUFFICES ASSUME TypeInv, [Next]_vars PROVE WireType'
  OBVIOUS
<1> USE DEF client, inbound, history, life
<1>1. ASSUME NEW c \in Conns, NEW s \in Streams, SendFrame(c, s) PROVE WireType'
  <2> DEFINE frames == FramesOf[shape[c][s]]
             n == framesSent[c][s] + 1
             f == [stream |-> s, kind |-> frames[n], end |-> n = Len(frames)]
  <2>1. shape[c][s] \in Shapes /\ framesSent[c][s] \in Nat
    BY DEF TypeInv, WireType
  <2>2. n \in 1..Len(frames)
    BY <1>1, <2>1, FramesFact DEF SendFrame
  <2>3. frames[n] \in Kinds
    BY <2>1, <2>2, FramesFact
  <2>4. f \in [stream : Streams, kind : Kinds, end : BOOLEAN]
    <3> HIDE DEF frames, n
    <3> QED
      BY <2>3
  <2>5. f \in Frame
    BY <2>4 DEF Frame
  <2>6. /\ framesSent' = [framesSent EXCEPT ![c][s] = n] /\ socket' = [socket EXCEPT ![c] = Append(@, f)]
        /\ UNCHANGED <<shape, owner, link, readBuffer>>
    BY <1>1 DEF SendFrame
  <2>7. framesSent' \in [Conns -> [Streams -> Nat]]
    BY <2>1, <2>6 DEF TypeInv, WireType
  <2> HIDE DEF f
  <2>8. socket' \in [Conns -> Seq(Frame)]
    BY <2>5, <2>6 DEF TypeInv, WireType
  <2> QED
    BY <2>6, <2>7, <2>8 DEF TypeInv, WireType
<1>2. ASSUME NEW c \in Conns, Leave(c) PROVE WireType'
  BY <1>2 DEF Leave, TypeInv, WireType
<1>3. ASSUME NEW c \in Conns, SendJunk(c) PROVE WireType'
  <2>1. Junk \in Frame
    BY DEF Frame
  <2>2. /\ link' = [link EXCEPT ![c] = "junk"] /\ socket' = [socket EXCEPT ![c] = Append(@, Junk)]
        /\ UNCHANGED <<shape, framesSent, owner, readBuffer>>
    BY <1>3 DEF SendJunk, Junk
  <2> QED
    BY <2>1, <2>2 DEF TypeInv, WireType
<1>4. ASSUME NEW t \in Threads, Read(t) PROVE WireType'
  <2>1. epoll[t].conn \in Conns
    BY <1>4 DEF Read, EGoto, TypeInv, ThreadType
  <2> QED
    BY <1>4, <2>1 DEF Read, TypeInv, WireType
<1>5. ASSUME NEW t \in Threads, RecvFrame(t) PROVE WireType'
  <2>1. epoll[t].conn \in Conns
    BY <1>5 DEF RecvFrame, TypeInv, ThreadType
  <2>2. readBuffer[epoll[t].conn] \in Seq(Frame) /\ readBuffer[epoll[t].conn] # << >>
    BY <1>5, <2>1 DEF RecvFrame, TypeInv, WireType
  <2>3. Tail(readBuffer[epoll[t].conn]) \in Seq(Frame)
    BY <2>2
  <2>4. readBuffer' = [readBuffer EXCEPT ![epoll[t].conn] = Tail(@)] /\ UNCHANGED <<shape, framesSent, owner, link, socket>>
    BY <1>5 DEF RecvFrame
  <2> QED
    BY <2>1, <2>3, <2>4 DEF TypeInv, WireType
<1>6. ASSUME NEW t \in Threads, ReadFails(t) \/ RecvFails(t) PROVE WireType'
  BY <1>6 DEF ReadFails, RecvFails, Drop, TypeInv, WireType
<1>7. CASE UNCHANGED <<shape, framesSent, owner, link, socket, readBuffer>>
  BY <1>7 DEF TypeInv, WireType
<1>8. ASSUME NEW t \in Threads, (\E c \in Conns : Event(t, c)) \/ ProcessLock(t) \/ EnqueueTask(t) \/ ProcessSend(t)
      PROVE  UNCHANGED <<shape, framesSent, owner, link, socket, readBuffer>>
  BY <1>8 DEF Event, ProcessLock, EnqueueTask, ProcessSend
<1>9. ASSUME NEW w \in PoolWorkers, PoolStep(w)
      PROVE  UNCHANGED <<shape, framesSent, owner, link, socket, readBuffer>>
  BY <1>9 DEF PoolStep, TakeTask, HandleRequest, HandlerThrows, SubmitLock, Submit
<1>10. Quiet \/ UNCHANGED vars => UNCHANGED <<shape, framesSent, owner, link, socket, readBuffer>>
  BY DEF Quiet, vars
<1> QED
  BY <1>1, <1>2, <1>3, <1>4, <1>5, <1>6, <1>7, <1>8, <1>9, <1>10, LeaversAreConns DEF Next, ThreadStep

\* The frame at the head of a buffer.
LEMMA HeadFrame ==
    ASSUME TypeInv, NEW c \in Conns, readBuffer[c] # << >>
    PROVE  LET f == Head(readBuffer[c]) IN
           /\ f \in Frame
           /\ f.kind # "junk" => f.stream \in Streams /\ f.kind \in Kinds /\ f.end \in BOOLEAN
           /\ f.kind = "junk" => f.stream = 0
           /\ Tail(readBuffer[c]) \in Seq(Frame)
<1>1. Head(readBuffer[c]) \in Frame /\ Tail(readBuffer[c]) \in Seq(Frame)
  BY DEF TypeInv, WireType
<1> QED
  BY <1>1 DEF Frame, Junk, Kinds

\* What a frame makes of a request.
LEMMA AfterFrameType ==
    ASSUME NEW old \in HttpRequest, NEW f, f.kind \in Kinds, f.stream \in Streams
    PROVE  AfterFrame(old, f) \in HttpRequest
  BY DEF AfterFrame, HttpRequest, Kinds

\* A connection's responses: written, held or lost.
SentType ==
    /\ outbound \in [Conns -> SUBSET (Streams \cup {0})]
    /\ written \in [Conns -> SUBSET (Streams \cup {0})]
    /\ failed \in [Conns -> SUBSET (Streams \cup {0})]

LEMMA SendType ==
    ASSUME TypeInv, NEW c \in Conns, NEW pending \in SUBSET (Streams \cup {0}), SessionSend(c, pending)
    PROVE  SentType'
<1> DEFINE S == SUBSET (Streams \cup {0})
<1>1. PICK done \in SUBSET pending :
          /\ written' = [written EXCEPT ![c] = @ \cup done]
          /\ \/ outbound' = [outbound EXCEPT ![c] = pending \ done] /\ UNCHANGED failed
             \/ \E s \in pending \ done :
                   /\ outbound' = [outbound EXCEPT ![c] = pending \ (done \cup {s})]
                   /\ failed' = [failed EXCEPT ![c] = @ \cup {s}]
  BY DEF SessionSend
<1>2. outbound \in [Conns -> S] /\ written \in [Conns -> S] /\ failed \in [Conns -> S]
  BY DEF TypeInv, SessionType
<1>3. written' \in [Conns -> S]
  BY <1>1, <1>2
<1>4. CASE outbound' = [outbound EXCEPT ![c] = pending \ done] /\ UNCHANGED failed
  <2>1. outbound' \in [Conns -> S]
    BY <1>2, <1>4
  <2> QED
    BY <1>2, <1>3, <1>4, <2>1 DEF SentType
<1>5. ASSUME NEW s \in pending \ done,
             outbound' = [outbound EXCEPT ![c] = pending \ (done \cup {s})],
             failed' = [failed EXCEPT ![c] = @ \cup {s}]
      PROVE  SentType'
  <2>1. outbound' \in [Conns -> S] /\ failed' \in [Conns -> S]
    BY <1>2, <1>5
  <2> QED
    BY <1>3, <2>1 DEF SentType
<1> QED
  BY <1>1, <1>4, <1>5

\* A step keeps the types of what the connections hold,
LEMMA SessionStep == TypeInv /\ [Next]_vars => SessionType'
<1> SUFFICES ASSUME TypeInv, [Next]_vars PROVE SessionType'
  OBVIOUS
<1> USE DEF client, inbound, history, life
<1> DEFINE kept == <<streams, mutex, outbound, written, failed, handled, dead>>
<1>0. CASE UNCHANGED kept
  BY <1>0 DEF TypeInv, SessionType
<1>1. ASSUME NEW c \in Conns, (\E s \in Streams : SendFrame(c, s)) \/ Leave(c) \/ SendJunk(c) PROVE UNCHANGED kept
  BY <1>1 DEF SendFrame, Leave, SendJunk
<1>2. ASSUME NEW t \in Threads, (\E c \in Conns : Event(t, c)) \/ Read(t) \/ EnqueueTask(t) PROVE UNCHANGED kept
  BY <1>2 DEF Event, Read, EnqueueTask
<1>3. ASSUME NEW t \in Threads, ReadFails(t) PROVE SessionType'
  <2>1. epoll[t].conn \in Conns
    BY <1>3 DEF ReadFails, EGoto, TypeInv, ThreadType
  <2> QED
    BY <1>3, <2>1 DEF ReadFails, Drop, TypeInv, SessionType
<1>4. ASSUME NEW t \in Threads, ProcessLock(t) PROVE SessionType'
  BY <1>4 DEF ProcessLock, Acquire, TypeInv, SessionType
<1>5. ASSUME NEW t \in Threads, RecvFrame(t) PROVE SessionType'
  <2> DEFINE c == epoll[t].conn
             f == Head(readBuffer[c])
             req == AfterFrame(streams[c][f.stream], f)
  <2>1. c \in Conns /\ readBuffer[c] # << >> /\ f.kind # "junk"
    BY <1>5 DEF RecvFrame, TypeInv, ThreadType
  <2>2. f.stream \in Streams /\ f.kind \in Kinds
    BY <2>1, HeadFrame
  <2>3. req \in HttpRequest
    BY <2>1, <2>2, AfterFrameType DEF TypeInv, SessionType
  <2>4. streams' = [streams EXCEPT ![c][f.stream] = IF f.end THEN NoRequest ELSE req]
    BY <1>5 DEF RecvFrame
  <2>5. UNCHANGED <<mutex, outbound, written, failed, handled, dead>>
    BY <1>5 DEF RecvFrame
  <2>6. (IF f.end THEN NoRequest ELSE req) \in HttpRequest
    BY <2>3 DEF HttpRequest
  <2> HIDE DEF c, f, req
  <2>7. streams' \in [Conns -> [Streams -> HttpRequest]]
    BY <2>1, <2>2, <2>4, <2>6 DEF TypeInv, SessionType
  <2> QED
    BY <2>5, <2>7 DEF TypeInv, SessionType
<1>6. ASSUME NEW t \in Threads, RecvFails(t) PROVE SessionType'
  <2>1. epoll[t].conn \in Conns
    BY <1>6 DEF RecvFails, EGoto, TypeInv, ThreadType
  <2> QED
    BY <1>6, <2>1 DEF RecvFails, Drop, Release, TypeInv, SessionType
<1>7. ASSUME NEW t \in Threads, ProcessSend(t) PROVE SessionType'
  <2>1. epoll[t].conn \in Conns
    BY <1>7 DEF ProcessSend, EGoto, TypeInv, ThreadType
  <2>2. outbound[epoll[t].conn] \in SUBSET (Streams \cup {0})
    BY <2>1 DEF TypeInv, SessionType
  <2>3. SentType'
    BY <1>7, <2>1, <2>2, SendType DEF ProcessSend
  <2>4. mutex' \in [Conns -> Threads \cup PoolWorkers \cup {Nobody}] /\ UNCHANGED <<streams, handled, dead>>
    BY <1>7, <2>1 DEF ProcessSend, Release, TypeInv, SessionType
  <2> QED
    BY <2>3, <2>4 DEF TypeInv, SessionType, SentType
<1>8. ASSUME NEW w \in PoolWorkers, worker[w].pc # "idle"
      PROVE  worker[w].task.conn \in Conns /\ worker[w].task.stream \in Streams /\ worker[w].task.req \in HttpRequest
  BY <1>8 DEF TypeInv, PoolType, Task
<1>9. ASSUME NEW w \in PoolWorkers, TakeTask(w) PROVE UNCHANGED kept
  BY <1>9 DEF TakeTask
<1>10. ASSUME NEW w \in PoolWorkers, HandleRequest(w) PROVE SessionType'
  <2>1. worker[w].pc # "idle"
    BY <1>10 DEF HandleRequest
  <2> QED
    BY <1>8, <1>10, <2>1 DEF HandleRequest, TypeInv, SessionType
<1>11. ASSUME NEW w \in PoolWorkers, HandlerThrows(w) PROVE SessionType'
  <2>1. worker[w].pc # "idle"
    BY <1>11 DEF HandlerThrows
  <2> QED
    BY <1>8, <1>11, <2>1 DEF HandlerThrows, LetGo, TypeInv, SessionType
<1>12. ASSUME NEW w \in PoolWorkers, SubmitLock(w) PROVE SessionType'
  BY <1>12 DEF SubmitLock, Acquire, TypeInv, SessionType
<1>13. ASSUME NEW w \in PoolWorkers, Submit(w) PROVE SessionType'
  <2> DEFINE c == worker[w].task.conn
             pending == outbound[c] \cup {worker[w].task.stream}
  <2>1. c \in Conns /\ worker[w].task.stream \in Streams
    BY <1>8, <1>13 DEF Submit
  <2>2. pending \in SUBSET (Streams \cup {0})
    BY <2>1 DEF TypeInv, SessionType
  <2>3. SessionSend(c, pending)
    BY <1>13 DEF Submit
  <2>4. SentType'
    <3> HIDE DEF c, pending
    <3> QED
      BY <2>1, <2>2, <2>3, SendType
  <2>5. mutex' \in [Conns -> Threads \cup PoolWorkers \cup {Nobody}] /\ UNCHANGED <<streams, handled>>
    BY <1>13, <2>1 DEF Submit, Release, TypeInv, SessionType
  <2>6. dead' \subseteq Conns
    BY <1>13, <2>1 DEF Submit, LetGo, TypeInv, SessionType
  <2> QED
    BY <2>4, <2>5, <2>6 DEF TypeInv, SessionType, SentType
<1>14. Quiet \/ UNCHANGED vars => UNCHANGED kept
  BY DEF Quiet, vars
<1> HIDE DEF kept
<1> QED
  BY <1>0, <1>1, <1>2, <1>3, <1>4, <1>5, <1>6, <1>7, <1>9, <1>10, <1>11, <1>12, <1>13, <1>14, LeaversAreConns
  DEF Next, ThreadStep, PoolStep

\* What a step of an epoll thread does to its own place,
LEMMA EpollEffect ==
    ASSUME TypeInv, NEW t \in Threads, ThreadStep(t)
    PROVE  /\ \A u \in Threads \ {t} : epoll'[u] = epoll[u]
           /\ DOMAIN epoll' = Threads /\ DOMAIN epoll'[t] = {"pc", "conn", "stream", "req"}
           /\ worker' = worker
           /\ \/ /\ epoll[t].pc = "wait" /\ epoll'[t].pc = "read" /\ UNCHANGED ring
                 /\ epoll'[t].conn \in Conns /\ Event(t, epoll'[t].conn)
              \/ /\ epoll[t].pc # "wait" /\ epoll'[t].conn = epoll[t].conn
                 /\ \/ Read(t) /\ epoll'[t].pc = "lock"
                    \/ ReadFails(t) /\ epoll'[t].pc = "wait"
                    \/ ProcessLock(t) /\ epoll'[t].pc = "recv"
                    \/ RecvFrame(t) /\ epoll'[t].pc \in {"recv", "enqueue"}
                    \/ RecvFails(t) /\ epoll'[t].pc = "wait"
                    \/ EnqueueTask(t) /\ epoll'[t].pc = "recv"
                    \/ ProcessSend(t) /\ epoll'[t].pc = "wait"
<1> USE DEF TypeInv, ThreadType
<1>1. ASSUME NEW c \in Conns, Event(t, c)
      PROVE  /\ \A u \in Threads \ {t} : epoll'[u] = epoll[u]
             /\ DOMAIN epoll' = Threads /\ DOMAIN epoll'[t] = {"pc", "conn", "stream", "req"}
             /\ worker' = worker /\ ring' = ring
             /\ epoll[t].pc = "wait" /\ epoll'[t].pc = "read" /\ epoll'[t].conn = c
  BY <1>1 DEF Event
<1>2. CASE Read(t)
  BY <1>2 DEF Read, EGoto
<1>3. CASE ReadFails(t)
  BY <1>3 DEF ReadFails, EGoto
<1>4. CASE ProcessLock(t)
  BY <1>4 DEF ProcessLock, EGoto
<1>5. CASE RecvFrame(t)
  BY <1>5 DEF RecvFrame
<1>6. CASE RecvFails(t)
  BY <1>6 DEF RecvFails, EGoto
<1>7. CASE EnqueueTask(t)
  BY <1>7 DEF EnqueueTask, EGoto
<1>8. CASE ProcessSend(t)
  BY <1>8 DEF ProcessSend, EGoto
<1> QED
  BY <1>1, <1>2, <1>3, <1>4, <1>5, <1>6, <1>7, <1>8 DEF ThreadStep

\* and one of a pool thread to its own.
LEMMA WorkerEffect ==
    ASSUME TypeInv, NEW w \in PoolWorkers, PoolStep(w)
    PROVE  /\ \A v \in PoolWorkers \ {w} : worker'[v] = worker[v]
           /\ DOMAIN worker' = PoolWorkers /\ DOMAIN worker'[w] = {"pc", "task"}
           /\ epoll' = epoll
           /\ \/ /\ TakeTask(w) /\ worker[w].pc = "idle" /\ worker'[w].pc = "handle"
                 /\ ring # << >> /\ worker'[w].task = Head(ring) /\ ring' = Tail(ring)
              \/ /\ HandleRequest(w) /\ worker[w].pc = "handle" /\ worker'[w].pc = "lock"
                 /\ worker'[w].task = worker[w].task /\ ring' = ring
              \/ /\ HandlerThrows(w) /\ worker[w].pc = "handle" /\ worker'[w].pc = "idle" /\ ring' = ring
              \/ /\ SubmitLock(w) /\ worker[w].pc = "lock" /\ worker'[w].pc = "submit"
                 /\ worker'[w].task = worker[w].task /\ ring' = ring
              \/ /\ Submit(w) /\ worker[w].pc = "submit" /\ worker'[w].pc = "idle" /\ ring' = ring
<1> USE DEF TypeInv, PoolType
<1>1. CASE TakeTask(w)
  BY <1>1 DEF TakeTask
<1>2. CASE HandleRequest(w)
  BY <1>2 DEF HandleRequest
<1>3. CASE HandlerThrows(w)
  BY <1>3 DEF HandlerThrows, LetGo
<1>4. CASE SubmitLock(w)
  BY <1>4 DEF SubmitLock
<1>5. CASE Submit(w)
  BY <1>5 DEF Submit, LetGo
<1> QED
  BY <1>1, <1>2, <1>3, <1>4, <1>5 DEF PoolStep

\* Nobody else moves the threads.
LEMMA OthersKeepThreads ==
    ASSUME \/ \E c \in Conns, s \in Streams : SendFrame(c, s)
           \/ \E c \in Leavers : Leave(c) \/ SendJunk(c)
           \/ Quiet \/ UNCHANGED vars
    PROVE  UNCHANGED <<epoll, ring, worker, mutex>>
  BY DEF SendFrame, Leave, SendJunk, Quiet, vars

\* The threads keep their types,
LEMMA ThreadTypeStep == TypeInv /\ [Next]_vars => ThreadType'
<1> SUFFICES ASSUME TypeInv, [Next]_vars PROVE ThreadType'
  OBVIOUS
<1>1. ASSUME NEW t \in Threads, ThreadStep(t) PROVE ThreadType'
  <2>1. epoll'[t].pc \in {"wait", "read", "lock", "recv", "enqueue"} /\ (epoll'[t].pc # "wait" => epoll'[t].conn \in Conns)
    BY <1>1, EpollEffect DEF TypeInv, ThreadType
  <2>2. ASSUME epoll'[t].pc = "enqueue" PROVE epoll'[t].stream \in Streams /\ epoll'[t].req \in HttpRequest
    <3> DEFINE c == epoll[t].conn
               f == Head(readBuffer[c])
               req == AfterFrame(streams[c][f.stream], f)
    <3>1. RecvFrame(t)
      BY <1>1, <2>2, EpollEffect
    <3>2. c \in Conns /\ readBuffer[c] # << >> /\ f.kind # "junk" /\ epoll[t].pc = "recv"
      BY <3>1 DEF RecvFrame, TypeInv, ThreadType
    <3>3. f.stream \in Streams /\ f.kind \in Kinds
      BY <3>2, HeadFrame
    <3>4. req \in HttpRequest
      BY <3>2, <3>3, AfterFrameType DEF TypeInv, SessionType
    <3>5. epoll' = IF f.end THEN [epoll EXCEPT ![t] = [@ EXCEPT !.pc = "enqueue", !.stream = f.stream, !.req = req]]
                   ELSE epoll
      BY <3>1 DEF RecvFrame
    <3> HIDE DEF f, req, c
    <3>6. epoll'[t].stream = f.stream /\ epoll'[t].req = req
      BY <2>2, <3>2, <3>5 DEF TypeInv, ThreadType
    <3> QED
      BY <3>3, <3>4, <3>6
  <2> QED
    BY <1>1, <2>1, <2>2, EpollEffect DEF TypeInv, ThreadType
<1>2. ASSUME NEW w \in PoolWorkers, PoolStep(w) PROVE ThreadType'
  BY <1>2, WorkerEffect DEF TypeInv, ThreadType
<1>3. CASE UNCHANGED epoll
  BY <1>3 DEF TypeInv, ThreadType
<1> QED
  BY <1>1, <1>2, <1>3, OthersKeepThreads DEF Next

\* and so does the pool.
LEMMA PoolTypeStep == TypeInv /\ [Next]_vars => PoolType'
<1> SUFFICES ASSUME TypeInv, [Next]_vars PROVE PoolType'
  OBVIOUS
<1>1. ASSUME NEW t \in Threads, EnqueueTask(t) PROVE PoolType'
  <2> DEFINE task == [conn |-> epoll[t].conn, stream |-> epoll[t].stream, req |-> epoll[t].req]
  <2>1. task \in Task
    BY <1>1 DEF EnqueueTask, EGoto, TypeInv, ThreadType, Task
  <2>2. ring' = Append(ring, task) /\ worker' = worker /\ Len(ring) < CAPACITY
    BY <1>1 DEF EnqueueTask
  <2> HIDE DEF task
  <2>3. ring' \in Seq(Task) /\ Len(ring') = Len(ring) + 1 /\ Len(ring) \in Nat
    BY <2>1, <2>2 DEF TypeInv, PoolType
  <2>4. Len(ring') <= CAPACITY
    BY <2>2, <2>3, PoolPositive
  <2> QED
    BY <2>2, <2>3, <2>4 DEF TypeInv, PoolType
<1>2. ASSUME NEW t \in Threads, ThreadStep(t), ~EnqueueTask(t) PROVE UNCHANGED <<ring, worker>>
  BY <1>2 DEF ThreadStep, Event, Read, ReadFails, ProcessLock, RecvFrame, RecvFails, ProcessSend
<1>3. ASSUME NEW w \in PoolWorkers, PoolStep(w) PROVE PoolType'
  <2>1. CASE TakeTask(w)
    <3>1. ring # << >> /\ worker'[w].pc = "handle" /\ worker'[w].task = Head(ring) /\ ring' = Tail(ring)
      BY <1>3, <2>1, WorkerEffect DEF TakeTask
    <3>2. Head(ring) \in Task /\ ring' \in Seq(Task) /\ Len(ring') = Len(ring) - 1 /\ Len(ring) \in Nat
      BY <3>1 DEF TypeInv, PoolType
    <3>3. Len(ring') <= CAPACITY
      BY <3>2, PoolPositive DEF TypeInv, PoolType
    <3> QED
      BY <1>3, <3>1, <3>2, <3>3, WorkerEffect, ZenonT(60) DEF TypeInv, PoolType
  <2>2. CASE ~TakeTask(w)
    <3>1. /\ worker'[w].pc \in {"idle", "handle", "lock", "submit"} /\ ring' = ring
          /\ worker'[w].pc # "idle" => worker'[w].task \in Task
      BY <1>3, <2>2, WorkerEffect DEF TypeInv, PoolType
    <3> QED
      BY <1>3, <3>1, WorkerEffect DEF TypeInv, PoolType
  <2> QED
    BY <2>1, <2>2
<1>4. CASE UNCHANGED <<ring, worker>>
  BY <1>4 DEF TypeInv, PoolType
<1> QED
  BY <1>1, <1>2, <1>3, <1>4, OthersKeepThreads DEF Next

(***************************************************************************)
(* The mutex and the lifetime of a connection.                             *)
(***************************************************************************)

\* The mutex is taken by who finds it free and given back by who holds it.
LEMMA LockingStep == TypeInv /\ Locking /\ [Next]_vars => Locking'
<1> SUFFICES ASSUME TypeInv, Locking, [Next]_vars PROVE Locking'
  OBVIOUS
<1> DEFINE InRecv(t) == epoll[t].pc \in {"recv", "enqueue"}
           InSubmit(w) == worker[w].pc = "submit"
<1>0. /\ \A t \in Threads : t # Nobody /\ t \notin PoolWorkers
      /\ \A w \in PoolWorkers : w # Nobody /\ w \notin Threads
      /\ \A t \in Threads : InRecv(t) => epoll[t].conn \in Conns
      /\ \A w \in PoolWorkers : InSubmit(w) => worker[w].task.conn \in Conns
      /\ DOMAIN mutex = Conns
  BY NobodyIsNobody, ThreadsApart DEF TypeInv, ThreadType, PoolType, Task, SessionType
<1>1. ASSUME NEW t \in Threads, ThreadStep(t), mutex' = mutex,
             epoll[t].pc \in {"recv", "enqueue"} \/ epoll'[t].pc \notin {"recv", "enqueue"}
      PROVE  Locking'
  BY <1>1, EpollEffect DEF Locking
<1>2. ASSUME NEW t \in Threads, (\E c \in Conns : Event(t, c)) \/ Read(t) \/ ReadFails(t) PROVE Locking'
  <2>1. mutex' = mutex
    BY <1>2 DEF Event, Read, ReadFails
  <2>2. epoll'[t].pc \notin {"recv", "enqueue"}
    BY <1>2 DEF Event, Read, ReadFails, EGoto, TypeInv, ThreadType
  <2> QED
    BY <1>1, <1>2, <2>1, <2>2 DEF ThreadStep
<1>3. ASSUME NEW t \in Threads, ProcessLock(t) PROVE Locking'
  <2> DEFINE c == epoll[t].conn
  <2>1. /\ mutex[c] = Nobody /\ mutex' = [mutex EXCEPT ![c] = t] /\ c \in Conns
        /\ epoll'[t].conn = c
    BY <1>3 DEF ProcessLock, EGoto, Acquire, TypeInv, ThreadType
  <2>2. (\A u \in Threads \ {t} : epoll'[u] = epoll[u]) /\ worker' = worker
    BY <1>3, EpollEffect DEF ThreadStep
  <2> HIDE DEF c
  <2>3. mutex'[c] = t /\ \A d \in Conns \ {c} : mutex'[d] = mutex[d]
    BY <1>0, <2>1
  <2> QED
    BY <1>0, <2>1, <2>2, <2>3 DEF Locking
<1>4. ASSUME NEW t \in Threads, RecvFrame(t) PROVE Locking'
  BY <1>1, <1>4 DEF ThreadStep, RecvFrame
<1>5. ASSUME NEW t \in Threads, EnqueueTask(t) PROVE Locking'
  BY <1>1, <1>5 DEF ThreadStep, EnqueueTask, EGoto
<1>6. ASSUME NEW t \in Threads, RecvFails(t) \/ ProcessSend(t) PROVE Locking'
  <2> DEFINE c == epoll[t].conn
  <2>1. mutex' = [mutex EXCEPT ![c] = Nobody] /\ InRecv(t) /\ c \in Conns /\ epoll'[t].pc = "wait"
    BY <1>6 DEF RecvFails, ProcessSend, Release, EGoto, TypeInv, ThreadType
  <2>2. (\A u \in Threads \ {t} : epoll'[u] = epoll[u]) /\ worker' = worker
    BY <1>6, EpollEffect DEF ThreadStep
  <2>3. mutex[c] = t
    BY <2>1 DEF Locking
  <2> HIDE DEF c
  <2>4. \A d \in Conns \ {c} : mutex'[d] = mutex[d]
    BY <1>0, <2>1
  <2> QED
    BY <1>0, <2>1, <2>2, <2>3, <2>4 DEF Locking
<1>7. ASSUME NEW w \in PoolWorkers, TakeTask(w) \/ HandleRequest(w) \/ HandlerThrows(w) PROVE Locking'
  <2>1. mutex' = mutex
    BY <1>7 DEF TakeTask, HandleRequest, HandlerThrows
  <2>2. worker'[w].pc # "submit"
    BY <1>7, WorkerEffect DEF PoolStep, TakeTask, HandleRequest, HandlerThrows
  <2> QED
    BY <1>7, <2>1, <2>2, WorkerEffect DEF PoolStep, Locking
<1>8. ASSUME NEW w \in PoolWorkers, SubmitLock(w) PROVE Locking'
  <2> DEFINE c == worker[w].task.conn
  <2>1. /\ mutex[c] = Nobody /\ mutex' = [mutex EXCEPT ![c] = w] /\ c \in Conns
        /\ worker'[w].task = worker[w].task
    BY <1>8 DEF SubmitLock, Acquire, TypeInv, PoolType, Task
  <2>2. (\A v \in PoolWorkers \ {w} : worker'[v] = worker[v]) /\ epoll' = epoll
    BY <1>8, WorkerEffect DEF PoolStep
  <2> HIDE DEF c
  <2>3. mutex'[c] = w /\ \A d \in Conns \ {c} : mutex'[d] = mutex[d]
    BY <1>0, <2>1
  <2> QED
    BY <1>0, <2>1, <2>2, <2>3 DEF Locking, c
<1>9. ASSUME NEW w \in PoolWorkers, Submit(w) PROVE Locking'
  <2> DEFINE c == worker[w].task.conn
  <2>1. mutex' = [mutex EXCEPT ![c] = Nobody] /\ InSubmit(w)
    BY <1>9 DEF Submit, Release
  <2>2. (\A v \in PoolWorkers \ {w} : worker'[v] = worker[v]) /\ epoll' = epoll /\ worker'[w].pc = "idle"
    BY <1>9, <2>1, WorkerEffect DEF PoolStep, TakeTask, HandleRequest, HandlerThrows, SubmitLock
  <2>3. mutex[c] = w
    BY <2>1 DEF Locking
  <2> HIDE DEF c
  <2>4. \A d \in Conns \ {c} : mutex'[d] = mutex[d]
    BY <1>0, <2>1
  <2> QED
    BY <1>0, <2>1, <2>2, <2>3, <2>4 DEF Locking
<1>10. CASE UNCHANGED <<epoll, ring, worker, mutex>>
  BY <1>10 DEF Locking
<1> QED
  BY <1>2, <1>3, <1>4, <1>5, <1>6, <1>7, <1>8, <1>9, <1>10, OthersKeepThreads DEF Next, ThreadStep, PoolStep

\* Only the owner drops a connection, and then it waits.
LEMMA OwningStep == TypeInv /\ Owning /\ [Next]_vars => Owning'
<1> SUFFICES ASSUME TypeInv, Owning, [Next]_vars PROVE Owning'
  OBVIOUS
<1> USE DEF client, inbound, history, life
<1>0. DOMAIN link = Conns /\ \A t \in Threads : epoll[t].pc # "wait" => epoll[t].conn \in Conns
  BY DEF TypeInv, ThreadType, WireType
<1>1. ASSUME NEW c \in Conns, (\E s \in Streams : SendFrame(c, s)) \/ Leave(c) \/ SendJunk(c) PROVE Owning'
  <2>1. owner' = owner /\ epoll' = epoll /\ \A d \in Conns : link'[d] = link[d] \/ link'[d] \in {"left", "junk"}
    BY <1>0, <1>1 DEF SendFrame, Leave, SendJunk
  <2> QED
    BY <1>0, <2>1 DEF Owning
<1>2. ASSUME NEW t \in Threads, ThreadStep(t), ~ReadFails(t), ~RecvFails(t) PROVE Owning'
  <2>1. link' = link /\ owner' = owner
    BY <1>2 DEF ThreadStep, Event, Read, ProcessLock, RecvFrame, EnqueueTask, ProcessSend
  <2>2. epoll'[t].pc # "wait" => owner[epoll'[t].conn] = t /\ link[epoll'[t].conn] # "dropped"
    BY <1>2, EpollEffect DEF Event, Owning
  <2> QED
    BY <1>2, <2>1, <2>2, EpollEffect DEF Owning
<1>3. ASSUME NEW t \in Threads, ReadFails(t) \/ RecvFails(t) PROVE Owning'
  <2>1. /\ epoll[t].pc # "wait" /\ epoll'[t].pc = "wait" /\ owner' = owner
        /\ link' = [link EXCEPT ![epoll[t].conn] = "dropped"]
    BY <1>3 DEF ReadFails, RecvFails, EGoto, Drop, TypeInv, ThreadType
  <2>2. owner[epoll[t].conn] = t
    BY <2>1 DEF Owning
  <2>3. \A d \in Conns : d # epoll[t].conn => link'[d] = link[d]
    BY <1>0, <2>1
  <2>4. \A u \in Threads \ {t} : epoll'[u] = epoll[u]
    BY <1>3, EpollEffect DEF ThreadStep
  <2> QED
    BY <1>0, <2>1, <2>2, <2>3, <2>4 DEF Owning
<1>4. ASSUME NEW w \in PoolWorkers, PoolStep(w) PROVE UNCHANGED <<epoll, owner, link>>
  BY <1>4 DEF PoolStep, TakeTask, HandleRequest, HandlerThrows, SubmitLock, Submit
<1>5. Quiet \/ UNCHANGED vars => UNCHANGED <<epoll, owner, link>>
  BY DEF Quiet, vars
<1>6. CASE UNCHANGED <<epoll, owner, link>>
  BY <1>6 DEF Owning
<1> QED
  BY <1>1, <1>2, <1>3, <1>4, <1>5, <1>6, LeaversAreConns DEF Next

\* The last reference decides.
LEMMA DyingStep == TypeInv /\ Owning /\ Dying /\ [Next]_vars => Dying'
<1> SUFFICES ASSUME TypeInv, Owning, Dying, [Next]_vars PROVE Dying'
  OBVIOUS
<1> USE DEF client, inbound, history, life
<1>0. DOMAIN link = Conns /\ dead \subseteq Conns /\ \A t \in Threads : epoll[t].pc # "wait" => epoll[t].conn \in Conns
  BY DEF TypeInv, ThreadType, WireType, SessionType
<1>1. ASSUME NEW c \in Conns, (\E s \in Streams : SendFrame(c, s)) \/ Leave(c) \/ SendJunk(c) PROVE Dying'
  <2>1. UNCHANGED <<dead, ring, worker>> /\ \A d \in Conns : link[d] = "dropped" => link'[d] = link[d]
    BY <1>0, <1>1 DEF SendFrame, Leave, SendJunk
  <2> QED
    BY <1>0, <2>1 DEF Dying, Captured
<1>2. ASSUME NEW t \in Threads, ThreadStep(t), ~ReadFails(t), ~RecvFails(t), ~EnqueueTask(t)
      PROVE  UNCHANGED <<dead, link, ring, worker>>
  BY <1>2 DEF ThreadStep, Event, Read, ProcessLock, RecvFrame, ProcessSend
<1>3. ASSUME NEW t \in Threads, ReadFails(t) \/ RecvFails(t) PROVE Dying'
  <2> DEFINE c == epoll[t].conn
  <2>1. /\ link' = [link EXCEPT ![c] = "dropped"] /\ UNCHANGED <<ring, worker>>
        /\ dead' = IF Captured(c, ring, worker) THEN dead ELSE dead \cup {c}
        /\ c \in Conns
    BY <1>0, <1>3 DEF ReadFails, RecvFails, EGoto, Drop
  <2> HIDE DEF c
  <2>2. \A d \in Conns : link'[d] = IF d = c THEN "dropped" ELSE link[d]
    BY <1>0, <2>1
  <2> QED
    BY <1>0, <2>1, <2>2 DEF Dying, Captured
<1>4. ASSUME NEW t \in Threads, EnqueueTask(t) PROVE Dying'
  <2> DEFINE c == epoll[t].conn
             task == [conn |-> c, stream |-> epoll[t].stream, req |-> epoll[t].req]
  <2>1. ring' = Append(ring, task) /\ UNCHANGED <<dead, link, worker>> /\ link[c] # "dropped"
    BY <1>4 DEF EnqueueTask, EGoto, Owning
  <2>2. task.conn = c
    OBVIOUS
  <2> HIDE DEF task, c
  <2>3. \A i \in DOMAIN ring' : ring'[i] = task \/ (i \in DOMAIN ring /\ ring'[i] = ring[i])
    BY <2>1 DEF TypeInv, PoolType
  <2>4. \A d : Captured(d, ring', worker') => Captured(d, ring, worker) \/ d = c
    BY <2>1, <2>2, <2>3 DEF Captured
  <2> QED
    BY <2>1, <2>4 DEF Dying
<1>5. ASSUME NEW w \in PoolWorkers, TakeTask(w) PROVE Dying'
  <2>1. /\ ring # << >> /\ worker'[w].task = Head(ring) /\ ring' = Tail(ring)
        /\ (\A v \in PoolWorkers \ {w} : worker'[v] = worker[v])
    BY <1>5, WorkerEffect DEF PoolStep, TakeTask
  <2>2. UNCHANGED <<dead, link>>
    BY <1>5 DEF TakeTask
  <2>3. ring \in Seq(Task)
    BY DEF TypeInv, PoolType
  <2>4. 1 \in DOMAIN ring /\ Head(ring) = ring[1]
    BY <2>1, <2>3
  <2>5. \A i \in DOMAIN ring' : i + 1 \in DOMAIN ring /\ ring'[i] = ring[i + 1]
    BY <2>1, <2>3
  <2>6. \A d : Captured(d, ring', worker') => Captured(d, ring, worker)
    BY <2>1, <2>4, <2>5 DEF Captured
  <2> QED
    BY <2>2, <2>6 DEF Dying
<1>6. ASSUME NEW w \in PoolWorkers, HandleRequest(w) \/ SubmitLock(w) PROVE Dying'
  <2>1. /\ worker[w].pc # "idle" /\ worker'[w].task = worker[w].task
        /\ (\A v \in PoolWorkers \ {w} : worker'[v] = worker[v])
    BY <1>6 DEF HandleRequest, SubmitLock, TypeInv, PoolType
  <2>2. UNCHANGED <<dead, link, ring>>
    BY <1>6 DEF HandleRequest, SubmitLock
  <2>3. \A d : Captured(d, ring', worker') => Captured(d, ring, worker)
    BY <2>1, <2>2 DEF Captured
  <2> QED
    BY <2>2, <2>3 DEF Dying
<1>7. ASSUME NEW w \in PoolWorkers, HandlerThrows(w) \/ Submit(w) PROVE Dying'
  <2> DEFINE c == worker[w].task.conn
  <2>1. /\ worker'[w].pc = "idle" /\ (\A v \in PoolWorkers \ {w} : worker'[v] = worker[v])
    BY <1>7 DEF HandlerThrows, Submit, LetGo, TypeInv, PoolType
  <2>2. /\ UNCHANGED <<link, ring>>
        /\ dead' = IF link[c] = "dropped" /\ ~Captured(c, ring, worker') THEN dead \cup {c} ELSE dead
    BY <1>7 DEF HandlerThrows, Submit, LetGo
  <2>3. \A d : Captured(d, ring, worker') => Captured(d, ring, worker)
    BY <2>1 DEF Captured
  <2> HIDE DEF c
  <2> QED
    BY <2>2, <2>3 DEF Dying
<1>8. Quiet \/ UNCHANGED vars => UNCHANGED <<dead, link, ring, worker>>
  BY DEF Quiet, vars
<1>9. CASE UNCHANGED <<dead, link, ring, worker>>
  BY <1>9 DEF Dying, Captured
<1> QED
  BY <1>1, <1>2, <1>3, <1>4, <1>5, <1>6, <1>7, <1>8, <1>9, LeaversAreConns DEF Next, PoolStep

(***************************************************************************)
(* Frames.                                                                 *)
(***************************************************************************)

\* A request has no two frames of one kind.
LEMMA FrameNumber ==
    ASSUME NEW sh \in Shapes, NEW s, NEW f, NEW n \in 1..Len(FramesOf[sh]), NEW m \in 1..Len(FramesOf[sh]),
           Is(f, s, sh, n), Is(f, s, sh, m)
    PROVE  n = m
<1>1. CASE sh = "get"
  BY <1>1, FramesFact
<1>2. CASE sh = "post"
  <2>1. n \in {1, 2} /\ m \in {1, 2} /\ FramesOf[sh][1] = "headers" /\ FramesOf[sh][2] = "data"
    BY <1>2, FramesFact
  <2>2. FramesOf[sh][n] = FramesOf[sh][m]
    BY DEF Is
  <2> QED
    BY <2>1, <2>2
<1>3. CASE sh = "trailed"
  <2>1. /\ n \in {1, 2, 3} /\ m \in {1, 2, 3}
        /\ FramesOf[sh][1] = "headers" /\ FramesOf[sh][2] = "data" /\ FramesOf[sh][3] = "trailers"
    BY <1>3, FramesFact
  <2>2. FramesOf[sh][n] = FramesOf[sh][m]
    BY DEF Is
  <2> QED
    BY <2>1, <2>2
<1>4. sh # "none"
  BY FramesFact
<1> QED
  BY <1>1, <1>2, <1>3, <1>4, FramesFact

\* The next frame of a stream goes to the end,
LEMMA OrderedAppend ==
    ASSUME NEW q \in Seq(Frame), NEW f \in Frame, NEW sh \in Shapes, NEW s, NEW k \in Nat, NEW d \in 0..k,
           k + 1 <= Len(FramesOf[sh]), Ordered(q, s, sh, d, k), Is(f, s, sh, k + 1)
    PROVE  Ordered(Append(q, f), s, sh, d, k + 1)
<1> DEFINE p == Append(q, f)
<1>0. Len(q) \in Nat /\ Len(FramesOf[sh]) \in Nat
  BY FramesFact
<1>1. /\ Len(p) = Len(q) + 1 /\ p[Len(q) + 1] = f
      /\ \A i \in 1..Len(q) : p[i] = q[i]
  OBVIOUS
<1>2. \A i \in 1..Len(p) : i \in 1..Len(q) \/ i = Len(q) + 1
  BY <1>0, <1>1
<1> HIDE DEF p
<1>3. \A i \in 1..Len(p) : p[i].stream = s => \E n \in (d + 1)..(k + 1) : Is(p[i], s, sh, n)
  <2>1. ASSUME NEW i \in 1..Len(q), p[i].stream = s PROVE \E n \in (d + 1)..(k + 1) : Is(p[i], s, sh, n)
    <3>1. PICK n \in (d + 1)..k : Is(q[i], s, sh, n)
      BY <1>1, <2>1 DEF Ordered
    <3> QED
      BY <1>1, <3>1
  <2>2. k + 1 \in (d + 1)..(k + 1)
    OBVIOUS
  <2> QED
    BY <1>1, <1>2, <2>1, <2>2
<1>4. \A n \in (d + 1)..(k + 1) : \E i \in 1..Len(p) : Is(p[i], s, sh, n)
  <2>1. ASSUME NEW n \in (d + 1)..k PROVE \E i \in 1..Len(p) : Is(p[i], s, sh, n)
    <3>1. PICK i \in 1..Len(q) : Is(q[i], s, sh, n)
      BY DEF Ordered
    <3>2. i \in 1..Len(p)
      BY <1>0, <1>1
    <3> QED
      BY <1>1, <3>1, <3>2
  <2>2. Len(q) + 1 \in 1..Len(p)
    BY <1>0, <1>1
  <2>3. \A n \in (d + 1)..(k + 1) : n \in (d + 1)..k \/ n = k + 1
    OBVIOUS
  <2> QED
    BY <1>1, <2>1, <2>2, <2>3
<1>5. ASSUME NEW i \in 1..Len(p), NEW j \in 1..Len(p), NEW n \in (d + 1)..(k + 1), NEW m \in (d + 1)..(k + 1),
             i < j, Is(p[i], s, sh, n), Is(p[j], s, sh, m)
      PROVE  n < m
  <2>1. n \in 1..Len(FramesOf[sh]) /\ m \in 1..Len(FramesOf[sh]) /\ k + 1 \in 1..Len(FramesOf[sh])
    BY <1>0
  <2>2. ASSUME NEW x \in 1..Len(q), NEW y \in 1..Len(FramesOf[sh]), Is(q[x], s, sh, y) PROVE y \in (d + 1)..k
    <3>1. PICK z \in (d + 1)..k : Is(q[x], s, sh, z)
      BY <2>2 DEF Ordered, Is
    <3>2. z \in 1..Len(FramesOf[sh])
      BY <1>0
    <3> QED
      BY <2>2, <3>1, <3>2, FrameNumber
  <2>3. i \in 1..Len(q)
    BY <1>0, <1>1, <1>5
  <2>4. n \in (d + 1)..k
    BY <1>1, <1>5, <2>1, <2>2, <2>3
  <2>5. CASE j \in 1..Len(q)
    BY <1>1, <1>5, <2>1, <2>2, <2>3, <2>4, <2>5 DEF Ordered
  <2>6. CASE j = Len(q) + 1
    <3>1. m = k + 1
      BY <1>1, <1>5, <2>1, <2>6, FrameNumber
    <3> QED
      BY <2>4, <3>1
  <2> QED
    BY <1>2, <2>5, <2>6
<1> QED
  BY <1>3, <1>4, <1>5 DEF Ordered, p

\* and a frame of another stream changes nothing there,
LEMMA OrderedAppendOther ==
    ASSUME NEW q \in Seq(Frame), NEW f \in Frame, NEW sh, NEW s, NEW k \in Nat, NEW d \in 0..k,
           Ordered(q, s, sh, d, k), f.stream # s
    PROVE  Ordered(Append(q, f), s, sh, d, k)
<1> DEFINE p == Append(q, f)
<1>0. Len(q) \in Nat
  OBVIOUS
<1>1. /\ Len(p) = Len(q) + 1 /\ p[Len(q) + 1] = f
      /\ \A i \in 1..Len(q) : p[i] = q[i] /\ i \in 1..Len(p)
  OBVIOUS
<1>2. \A i \in 1..Len(p) : i \in 1..Len(q) \/ i = Len(q) + 1
  BY <1>0, <1>1
<1> HIDE DEF p
<1>3. \A i \in 1..Len(p) : p[i].stream = s => i \in 1..Len(q) /\ p[i] = q[i]
  BY <1>1, <1>2
<1>4. \A i \in 1..Len(p) : p[i].stream = s => \E n \in (d + 1)..k : Is(p[i], s, sh, n)
  BY <1>3 DEF Ordered
<1>5. \A n \in (d + 1)..k : \E i \in 1..Len(p) : Is(p[i], s, sh, n)
  BY <1>1 DEF Ordered
<1>6. \A i \in 1..Len(p) : \A n : Is(p[i], s, sh, n) => i \in 1..Len(q) /\ Is(q[i], s, sh, n)
  BY <1>3 DEF Is
<1>7. \A i, j \in 1..Len(p) : \A n, m \in (d + 1)..k :
          i < j /\ Is(p[i], s, sh, n) /\ Is(p[j], s, sh, m) => n < m
  BY <1>6 DEF Ordered
<1> QED
  BY <1>4, <1>5, <1>7 DEF Ordered, p

\* nor one that is taken from the front.
LEMMA OrderedTailOther ==
    ASSUME NEW q \in Seq(Frame), q # << >>, NEW sh, NEW s, NEW k \in Nat, NEW d \in 0..k,
           Ordered(q, s, sh, d, k), q[1].stream # s
    PROVE  Ordered(Tail(q), s, sh, d, k)
<1> DEFINE p == Tail(q)
<1>0. Len(q) \in Nat \ {0}
  BY EmptySeq
<1>1. /\ Len(p) = Len(q) - 1
      /\ \A i \in 1..Len(p) : p[i] = q[i + 1] /\ i + 1 \in 1..Len(q)
  BY <1>0
<1> HIDE DEF p
<1>2. \A i \in 1..Len(q) : q[i].stream = s => i - 1 \in 1..Len(p) /\ p[i - 1] = q[i]
  <2>1. ASSUME NEW i \in 1..Len(q), i # 1 PROVE i - 1 \in 1..Len(p) /\ (i - 1) + 1 = i
    BY <1>0, <1>1, <2>1
  <2> QED
    BY <1>1, <2>1
<1>3. \A i \in 1..Len(p) : p[i].stream = s => \E n \in (d + 1)..k : Is(p[i], s, sh, n)
  BY <1>1 DEF Ordered
<1>4. \A n \in (d + 1)..k : \E i \in 1..Len(p) : Is(p[i], s, sh, n)
  <2>1. ASSUME NEW n \in (d + 1)..k PROVE \E i \in 1..Len(p) : Is(p[i], s, sh, n)
    <3>1. PICK i \in 1..Len(q) : Is(q[i], s, sh, n)
      BY DEF Ordered
    <3>2. q[i].stream = s
      BY <3>1 DEF Is
    <3> QED
      BY <1>2, <3>1, <3>2
  <2> QED
    BY <2>1
<1>5. ASSUME NEW i \in 1..Len(p), NEW j \in 1..Len(p), NEW n \in (d + 1)..k, NEW m \in (d + 1)..k,
             i < j, Is(p[i], s, sh, n), Is(p[j], s, sh, m)
      PROVE  n < m
  <2>1. i + 1 \in 1..Len(q) /\ j + 1 \in 1..Len(q) /\ i + 1 < j + 1 /\ p[i] = q[i + 1] /\ p[j] = q[j + 1]
    BY <1>1, <1>5
  <2> QED
    BY <1>5, <2>1 DEF Ordered
<1> QED
  BY <1>3, <1>4, <1>5 DEF Ordered, p

\* The first frame of a stream in the queue is the next one of it.
LEMMA OrderedTake ==
    ASSUME NEW q \in Seq(Frame), q # << >>, NEW sh \in Shapes, NEW s, NEW k \in Nat, NEW d \in 0..k,
           k <= Len(FramesOf[sh]), Ordered(q, s, sh, d, k), q[1].stream = s
    PROVE  /\ d + 1 <= k /\ Is(q[1], s, sh, d + 1)
           /\ Ordered(Tail(q), s, sh, d + 1, k)
<1> DEFINE p == Tail(q)
<1>0. Len(q) \in Nat \ {0} /\ Len(FramesOf[sh]) \in Nat /\ 1 \in 1..Len(q)
  BY EmptySeq, FramesFact
<1>1. /\ Len(p) = Len(q) - 1
      /\ \A i \in 1..Len(p) : p[i] = q[i + 1] /\ i + 1 \in 1..Len(q)
  BY <1>0
<1> HIDE DEF p
<1>2. PICK h \in (d + 1)..k : Is(q[1], s, sh, h)
  BY <1>0 DEF Ordered
<1>3. \A n \in (d + 1)..k : n \in 1..Len(FramesOf[sh])
  BY <1>0
<1>4. h = d + 1
  <2>1. d + 1 \in (d + 1)..k
    BY <1>2
  <2>2. PICK i \in 1..Len(q) : Is(q[i], s, sh, d + 1)
    BY <2>1 DEF Ordered
  <2>3. CASE i = 1
    BY <1>2, <1>3, <2>1, <2>2, <2>3, FrameNumber
  <2>4. CASE i # 1
    <3>1. 1 < i
      BY <2>4
    <3>2. h < d + 1
      BY <1>0, <1>2, <2>1, <2>2, <3>1 DEF Ordered
    <3> QED
      BY <1>2, <3>2
  <2> QED
    BY <2>3, <2>4
<1>5. ASSUME NEW i \in 1..Len(p), NEW n \in (d + 1)..k, Is(p[i], s, sh, n) PROVE n \in (d + 2)..k
  <2>1. i + 1 \in 1..Len(q) /\ 1 < i + 1 /\ Is(q[i + 1], s, sh, n) /\ h \in (d + 1)..k
    BY <1>1, <1>5
  <2>2. h < n
    BY <1>0, <1>2, <2>1 DEF Ordered
  <2> QED
    BY <1>4, <2>2
<1>6. (d + 1) + 1 = d + 2 /\ \A n \in (d + 2)..k : n \in (d + 1)..k /\ n # d + 1
  OBVIOUS
<1>7. \A i \in 1..Len(p) : p[i].stream = s => \E n \in (d + 2)..k : Is(p[i], s, sh, n)
  <2>1. ASSUME NEW i \in 1..Len(p), p[i].stream = s PROVE \E n \in (d + 2)..k : Is(p[i], s, sh, n)
    <3>1. PICK n \in (d + 1)..k : Is(p[i], s, sh, n)
      BY <1>1, <2>1 DEF Ordered
    <3> QED
      BY <1>5, <3>1
  <2> QED
    BY <2>1
<1>8. ASSUME NEW n \in (d + 2)..k PROVE \E i \in 1..Len(p) : Is(p[i], s, sh, n)
  <2>1. PICK i \in 1..Len(q) : Is(q[i], s, sh, n)
    BY <1>6 DEF Ordered
  <2>2. i # 1
    <3>1. SUFFICES ASSUME i = 1 PROVE FALSE
      OBVIOUS
    <3>2. h = n
      BY <1>2, <1>3, <1>6, <2>1, <3>1, FrameNumber
    <3> QED
      BY <1>4, <1>6, <3>2
  <2>3. i - 1 \in 1..Len(p) /\ (i - 1) + 1 = i
    BY <1>0, <1>1, <2>2
  <2> QED
    BY <1>1, <2>1, <2>3
<1>9. ASSUME NEW i \in 1..Len(p), NEW j \in 1..Len(p), NEW n \in (d + 2)..k, NEW m \in (d + 2)..k,
             i < j, Is(p[i], s, sh, n), Is(p[j], s, sh, m)
      PROVE  n < m
  <2>1. i + 1 \in 1..Len(q) /\ j + 1 \in 1..Len(q) /\ i + 1 < j + 1 /\ p[i] = q[i + 1] /\ p[j] = q[j + 1]
    BY <1>1, <1>9
  <2> QED
    BY <1>6, <1>9, <2>1 DEF Ordered
<1>10. Ordered(p, s, sh, d + 1, k)
  BY <1>6, <1>7, <1>8, <1>9 DEF Ordered
<1> QED
  BY <1>2, <1>4, <1>10 DEF p

\* Sequences: where a buffer and what follows it meet.
LEMMA ConcatAppend ==
    ASSUME NEW a \in Seq(Frame), NEW b \in Seq(Frame), NEW f \in Frame
    PROVE  a \o Append(b, f) = Append(a \o b, f)
  OBVIOUS

LEMMA ConcatTail ==
    ASSUME NEW a \in Seq(Frame), NEW b \in Seq(Frame), a # << >>
    PROVE  /\ Tail(a) \o b = Tail(a \o b) /\ Head(a) = (a \o b)[1]
           /\ a \o b # << >> /\ a \o b \in Seq(Frame)
<1>1. Len(a) \in Nat \ {0} /\ Len(b) \in Nat
  BY EmptySeq
<1>2. /\ a \o b \in Seq(Frame) /\ Len(a \o b) = Len(a) + Len(b)
      /\ \A i \in 1..(Len(a) + Len(b)) : (a \o b)[i] = IF i <= Len(a) THEN a[i] ELSE b[i - Len(a)]
  BY ConcatProperties
<1>3. a \o b # << >>
  BY <1>1, <1>2
<1>4. Tail(a \o b) \in Seq(Frame) /\ Tail(a) \in Seq(Frame) /\ Tail(a) \o b \in Seq(Frame)
  BY <1>2, <1>3, ConcatProperties
<1>5. Len(Tail(a) \o b) = Len(a) + Len(b) - 1 /\ Len(Tail(a \o b)) = Len(a) + Len(b) - 1
  BY <1>1, <1>2, <1>3, ConcatProperties
<1>6. ASSUME NEW i \in 1..(Len(a) + Len(b) - 1) PROVE (Tail(a) \o b)[i] = Tail(a \o b)[i]
  <2>1. Tail(a \o b)[i] = (a \o b)[i + 1]
    BY <1>1, <1>2, <1>3
  <2>2. Tail(a) \in Seq(Frame) /\ Len(Tail(a)) = Len(a) - 1
    BY <1>1
  <2>3. (Tail(a) \o b)[i] = IF i <= Len(a) - 1 THEN Tail(a)[i] ELSE b[i - (Len(a) - 1)]
    BY <1>1, <2>2, ConcatProperties
  <2>4. i <= Len(a) - 1 => Tail(a)[i] = a[i + 1]
    BY <1>1
  <2>5. i + 1 \in 1..(Len(a) + Len(b)) /\ (i + 1) - Len(a) = i - (Len(a) - 1)
    BY <1>1
  <2> QED
    BY <1>1, <1>2, <2>1, <2>3, <2>4, <2>5
<1>7. Tail(a) \o b = Tail(a \o b)
  BY <1>4, <1>5, <1>6, SeqEqual
<1>8. Head(a) = (a \o b)[1]
  BY <1>1, <1>2
<1> QED
  BY <1>2, <1>3, <1>7, <1>8

LEMMA PendingSeq ==
    ASSUME TypeInv, NEW c \in Conns
    PROVE  Pending(c) \in Seq(Frame)
<1>1. readBuffer[c] \in Seq(Frame) /\ socket[c] \in Seq(Frame)
  BY DEF TypeInv, WireType
<1> QED
  BY <1>1, ConcatProperties DEF Pending

\* What the steps do to the frames that nghttp2 has not seen.
LEMMA SendEffect ==
    ASSUME TypeInv, NEW c \in Conns, NEW s \in Streams, SendFrame(c, s)
    PROVE  LET k == framesSent[c][s] IN
           /\ k \in Nat /\ k + 1 <= Len(FramesOf[shape[c][s]]) /\ shape' = shape /\ streams' = streams
           /\ framesSent'[c][s] = k + 1
           /\ \A e \in Conns, x \in Streams : <<e, x>> # <<c, s>> => framesSent'[e][x] = framesSent[e][x]
           /\ \A e \in Conns \ {c} : Pending(e)' = Pending(e)
           /\ \E f \in Frame : Is(f, s, shape[c][s], k + 1) /\ Pending(c)' = Append(Pending(c), f)
<1> DEFINE k == framesSent[c][s]
           sh == shape[c][s]
           f == [stream |-> s, kind |-> FramesOf[sh][k + 1], end |-> k + 1 = Len(FramesOf[sh])]
<1>1. k \in Nat /\ sh \in Shapes /\ socket[c] \in Seq(Frame) /\ readBuffer[c] \in Seq(Frame)
  BY DEF TypeInv, WireType
<1>2. /\ k + 1 <= Len(FramesOf[sh]) /\ framesSent' = [framesSent EXCEPT ![c][s] = k + 1]
      /\ socket' = [socket EXCEPT ![c] = Append(@, f)] /\ UNCHANGED <<shape, streams, readBuffer>>
  BY DEF SendFrame
<1>3. Is(f, s, sh, k + 1)
  BY DEF Is
<1>4. f \in Frame
  <2>1. FramesOf[sh][k + 1] \in Kinds
    BY <1>1, <1>2, FramesFact, SMTT(40)
  <2>2. f \in [stream : Streams, kind : Kinds, end : BOOLEAN]
    <3> HIDE DEF sh, k
    <3> QED
      BY <2>1
  <2> QED
    BY <2>2 DEF Frame
<1> HIDE DEF f
<1>5. socket'[c] = Append(socket[c], f) /\ \A e \in Conns \ {c} : socket'[e] = socket[e]
  BY <1>2 DEF TypeInv, WireType
<1>6. Pending(c)' = Append(Pending(c), f)
  BY <1>1, <1>2, <1>4, <1>5, ConcatAppend, ZenonT(60) DEF Pending
<1>7. \A e \in Conns \ {c} : Pending(e)' = Pending(e)
  BY <1>2, <1>5 DEF Pending
<1>8. /\ framesSent'[c][s] = k + 1
      /\ \A e \in Conns, x \in Streams : <<e, x>> # <<c, s>> => framesSent'[e][x] = framesSent[e][x]
  BY <1>2 DEF TypeInv, WireType
<1> QED
  BY <1>1, <1>2, <1>3, <1>4, <1>6, <1>7, <1>8

LEMMA JunkEffect ==
    ASSUME TypeInv, NEW c \in Conns, SendJunk(c)
    PROVE  /\ UNCHANGED <<shape, streams, framesSent>>
           /\ \A e \in Conns \ {c} : Pending(e)' = Pending(e)
           /\ Junk \in Frame /\ Junk.stream \notin Streams /\ Pending(c)' = Append(Pending(c), Junk)
<1>1. Junk \in Frame /\ Junk.stream = 0
  BY DEF Junk, Frame
<1>2. socket' = [socket EXCEPT ![c] = Append(@, Junk)] /\ UNCHANGED <<shape, streams, framesSent, readBuffer>>
  BY DEF SendJunk, Junk, client
<1>3. socket[c] \in Seq(Frame) /\ readBuffer[c] \in Seq(Frame)
  BY DEF TypeInv, WireType
<1>4. socket'[c] = Append(socket[c], Junk) /\ \A e \in Conns \ {c} : socket'[e] = socket[e]
  BY <1>2 DEF TypeInv, WireType
<1>5. Pending(c)' = Append(Pending(c), Junk)
  BY <1>1, <1>2, <1>3, <1>4, ConcatAppend DEF Pending
<1>6. \A e \in Conns \ {c} : Pending(e)' = Pending(e)
  BY <1>2, <1>4 DEF Pending
<1> QED
  BY <1>1, <1>2, <1>5, <1>6, StreamsPositive

LEMMA RecvEffect ==
    ASSUME TypeInv, NEW t \in Threads, RecvFrame(t), NEW c, c = epoll[t].conn
    PROVE  LET f == Pending(c)[1]
           IN  /\ c \in Conns /\ Pending(c) # << >> /\ f = Head(readBuffer[c])
               /\ f.stream \in Streams /\ f.kind \in Kinds
               /\ Pending(c)' = Tail(Pending(c))
               /\ \A e \in Conns \ {c} : Pending(e)' = Pending(e)
               /\ UNCHANGED <<shape, framesSent>>
               /\ streams'[c][f.stream] = IF f.end THEN NoRequest ELSE AfterFrame(streams[c][f.stream], f)
               /\ \A e \in Conns, x \in Streams : <<e, x>> # <<c, f.stream>> => streams'[e][x] = streams[e][x]
<1> DEFINE f == Head(readBuffer[c])
<1>1. c \in Conns /\ readBuffer[c] # << >> /\ f.kind # "junk"
  BY DEF RecvFrame, TypeInv, ThreadType
<1>2. /\ readBuffer' = [readBuffer EXCEPT ![c] = Tail(@)] /\ UNCHANGED <<shape, framesSent, socket>>
      /\ streams' = [streams EXCEPT ![c][f.stream] =
                         IF f.end THEN NoRequest ELSE AfterFrame(streams[c][f.stream], f)]
  BY DEF RecvFrame, client
<1>3. f.stream \in Streams /\ f.kind \in Kinds
  BY <1>1, HeadFrame
<1>4. readBuffer[c] \in Seq(Frame) /\ socket[c] \in Seq(Frame)
  BY <1>1 DEF TypeInv, WireType
<1>5. Pending(c) # << >> /\ f = Pending(c)[1] /\ Tail(readBuffer[c]) \o socket[c] = Tail(Pending(c))
  BY <1>1, <1>4, ConcatTail DEF Pending
<1>6. readBuffer'[c] = Tail(readBuffer[c]) /\ \A e \in Conns \ {c} : readBuffer'[e] = readBuffer[e]
  BY <1>1, <1>2 DEF TypeInv, WireType
<1>7. readBuffer'[c] \o socket'[c] = Tail(Pending(c))
  BY <1>2, <1>5, <1>6
<1>8. \A e \in Conns \ {c} : readBuffer'[e] \o socket'[e] = Pending(e)
  BY <1>2, <1>6 DEF Pending
<1> DEFINE v == IF f.end THEN NoRequest ELSE AfterFrame(streams[c][f.stream], f)
<1>9. streams' = [streams EXCEPT ![c][f.stream] = v]
  BY <1>2
<1> HIDE DEF f, v
<1>10. /\ streams'[c][f.stream] = v
       /\ \A e \in Conns, x \in Streams : <<e, x>> # <<c, f.stream>> => streams'[e][x] = streams[e][x]
  BY <1>1, <1>3, <1>9 DEF TypeInv, SessionType
<1>11. Pending(c)' = Tail(Pending(c)) /\ \A e \in Conns \ {c} : Pending(e)' = Pending(e)
  BY <1>7, <1>8 DEF Pending
<1>12. streams'[c][f.stream] = IF f.end THEN NoRequest ELSE AfterFrame(streams[c][f.stream], f)
  BY <1>10 DEF v
<1>13. f = Head(readBuffer[c])
  BY DEF f
<1>14. UNCHANGED <<shape, framesSent>>
  BY <1>2
<1>15. /\ Pending(c)[1].stream \in Streams /\ Pending(c)[1].kind \in Kinds
       /\ \A e \in Conns, x \in Streams : <<e, x>> # <<c, Pending(c)[1].stream>> => streams'[e][x] = streams[e][x]
  BY <1>3, <1>5, <1>10
<1>16. streams'[c][Pending(c)[1].stream] =
           IF Pending(c)[1].end THEN NoRequest ELSE AfterFrame(streams[c][Pending(c)[1].stream], Pending(c)[1])
  BY <1>5, <1>12
<1> QED
  BY <1>1, <1>5, <1>11, <1>13, <1>14, <1>15, <1>16

\* The other steps leave them alone.
LEMMA OtherEffect ==
    ASSUME TypeInv, [Next]_vars,
           ~ \E c \in Conns, s \in Streams : SendFrame(c, s),
           ~ \E c \in Leavers : SendJunk(c),
           ~ \E t \in Threads : RecvFrame(t)
    PROVE  /\ UNCHANGED <<shape, streams, framesSent>>
           /\ \A e \in Conns : Pending(e)' = Pending(e)
<1> USE DEF client, inbound, history, life
<1>1. ASSUME NEW t \in Threads, Read(t)
      PROVE  UNCHANGED <<shape, streams, framesSent>> /\ \A e \in Conns : Pending(e)' = Pending(e)
  <2> DEFINE c == epoll[t].conn
  <2>1. /\ UNCHANGED <<shape, streams, framesSent>> /\ c \in Conns
        /\ readBuffer' = [readBuffer EXCEPT ![c] = @ \o socket[c]] /\ socket' = [socket EXCEPT ![c] = << >>]
    BY <1>1 DEF Read, EGoto, TypeInv, ThreadType
  <2> HIDE DEF c
  <2>2. readBuffer[c] \in Seq(Frame) /\ socket[c] \in Seq(Frame) /\ DOMAIN readBuffer = Conns /\ DOMAIN socket = Conns
    BY <2>1 DEF TypeInv, WireType
  <2>3. /\ readBuffer'[c] = readBuffer[c] \o socket[c] /\ socket'[c] = << >>
        /\ \A e \in Conns \ {c} : readBuffer'[e] = readBuffer[e] /\ socket'[e] = socket[e]
    BY <2>1, <2>2
  <2>4. readBuffer[c] \o socket[c] \in Seq(Frame)
    BY <2>2, ConcatProperties
  <2>5. readBuffer'[c] \o socket'[c] = readBuffer[c] \o socket[c]
    BY <2>3, <2>4, ConcatEmptySeq
  <2> QED
    BY <2>1, <2>3, <2>5 DEF Pending
<1>2. CASE UNCHANGED <<shape, streams, framesSent, socket, readBuffer>>
  BY <1>2 DEF Pending
<1>3. ASSUME NEW t \in Threads, ThreadStep(t), ~Read(t)
      PROVE  UNCHANGED <<shape, streams, framesSent, socket, readBuffer>>
  BY <1>3 DEF ThreadStep, Event, ReadFails, ProcessLock, RecvFails, EnqueueTask, ProcessSend
<1>4. ASSUME NEW w \in PoolWorkers, PoolStep(w)
      PROVE  UNCHANGED <<shape, streams, framesSent, socket, readBuffer>>
  BY <1>4 DEF PoolStep, TakeTask, HandleRequest, HandlerThrows, SubmitLock, Submit
<1>5. ASSUME NEW c \in Leavers, Leave(c)
      PROVE  UNCHANGED <<shape, streams, framesSent, socket, readBuffer>>
  BY <1>5 DEF Leave
<1>6. Quiet \/ UNCHANGED vars => UNCHANGED <<shape, streams, framesSent, socket, readBuffer>>
  BY DEF Quiet, vars
<1> QED
  BY <1>1, <1>2, <1>3, <1>4, <1>5, <1>6 DEF Next

(***************************************************************************)
(* Streams.                                                                *)
(***************************************************************************)

\* What the next frame makes of a stream.
LEMMA AfterTaken ==
    ASSUME NEW sh \in Shapes, NEW d \in Nat, d + 1 <= Len(FramesOf[sh]), NEW s, NEW f,
           f.stream = s, f.kind = FramesOf[sh][d + 1]
    PROVE  LET len == Len(FramesOf[sh])
               req == AfterFrame(Taken(s, d, len), f)
           IN  /\ d + 1 < len => req = Taken(s, d + 1, len)
               /\ d + 1 = len => /\ Taken(s, d + 1, len) = NoRequest
                                 /\ req = IF sh = "trailed" THEN Blank ELSE s
<1>1. CASE sh = "get"
  <2>1. Len(FramesOf[sh]) = 1 /\ FramesOf[sh][1] = "headers"
    BY <1>1, FramesFact
  <2>2. d = 0
    BY <2>1
  <2> QED
    BY <1>1, <2>1, <2>2 DEF Taken, AfterFrame
<1>2. CASE sh = "post"
  <2>1. Len(FramesOf[sh]) = 2 /\ FramesOf[sh][1] = "headers" /\ FramesOf[sh][2] = "data"
    BY <1>2, FramesFact
  <2>2. d = 0 \/ d = 1
    BY <2>1
  <2> QED
    BY <1>2, <2>1, <2>2 DEF Taken, AfterFrame
<1>3. CASE sh = "trailed"
  <2>1. /\ Len(FramesOf[sh]) = 3 /\ FramesOf[sh][1] = "headers" /\ FramesOf[sh][2] = "data"
        /\ FramesOf[sh][3] = "trailers"
    BY <1>3, FramesFact
  <2>2. d = 0 \/ d = 1 \/ d = 2
    BY <2>1
  <2> QED
    BY <1>3, <2>1, <2>2 DEF Taken, AfterFrame
<1>4. sh # "none"
  BY FramesFact
<1> QED
  BY <1>1, <1>2, <1>3, <1>4, FramesFact

\* A frame that nghttp2 takes is the next one of its stream.
LEMMA TakesNext ==
    ASSUME TypeInv, Delivery, NEW c \in Conns, NEW s \in Streams, Pending(c) # << >>, Pending(c)[1].stream = s
    PROVE  LET sh == shape[c][s]
               len == Len(FramesOf[sh])
               k == framesSent[c][s]
               f == Pending(c)[1]
           IN  /\ k \in Nat /\ k <= len /\ len \in Nat /\ sh \in Shapes
               /\ \E d \in Nat : /\ d + 1 <= k
                                 /\ streams[c][s] = Taken(s, d, len) /\ f.kind = FramesOf[sh][d + 1]
                                 /\ f.end <=> d + 1 = len
                                 /\ Ordered(Tail(Pending(c)), s, sh, d + 1, k)
<1> DEFINE sh == shape[c][s]
           len == Len(FramesOf[sh])
           k == framesSent[c][s]
<1>1. k \in Nat /\ sh \in Shapes /\ Pending(c) \in Seq(Frame)
  BY PendingSeq DEF TypeInv, WireType
<1>2. len \in Nat
  BY <1>1, FramesFact
<1>3. k <= len
  BY DEF Delivery
<1>4. PICK d \in 0..k : Ordered(Pending(c), s, sh, d, k) /\ streams[c][s] = Taken(s, d, len)
  BY DEF Delivery
<1> HIDE DEF sh, k
<1>5. d + 1 <= k /\ Is(Pending(c)[1], s, sh, d + 1) /\ Ordered(Tail(Pending(c)), s, sh, d + 1, k)
  BY <1>1, <1>3, <1>4, OrderedTake
<1>6. Pending(c)[1].kind = FramesOf[sh][d + 1] /\ (Pending(c)[1].end <=> d + 1 = len)
  BY <1>5 DEF Is
<1> QED
  BY <1>1, <1>2, <1>3, <1>4, <1>5, <1>6 DEF sh, k

\* Every frame counts once and in its order.
LEMMA DeliveryStep == TypeInv /\ Delivery /\ [Next]_vars => Delivery'
<1> SUFFICES ASSUME TypeInv, Delivery, [Next]_vars PROVE Delivery'
  OBVIOUS
<1> DEFINE Deliver(c, s) ==
        /\ framesSent[c][s] <= Len(FramesOf[shape[c][s]])
        /\ \E d \in 0..framesSent[c][s] :
               /\ Ordered(Pending(c), s, shape[c][s], d, framesSent[c][s])
               /\ streams[c][s] = Taken(s, d, Len(FramesOf[shape[c][s]]))
<1>1. \A c \in Conns, s \in Streams : Deliver(c, s)
  BY DEF Delivery
<1>2. SUFFICES \A c \in Conns, s \in Streams : Deliver(c, s)'
  BY DEF Delivery
<1>3. ASSUME NEW c \in Conns, NEW s \in Streams, shape' = shape, framesSent'[c][s] = framesSent[c][s],
             streams'[c][s] = streams[c][s], Pending(c)' = Pending(c)
      PROVE  Deliver(c, s)'
  BY <1>1, <1>3
<1>4. ASSUME NEW c \in Conns, NEW s \in Streams, shape' = shape, framesSent'[c][s] = framesSent[c][s],
             streams'[c][s] = streams[c][s], NEW f \in Frame, f.stream # s, Pending(c)' = Append(Pending(c), f)
      PROVE  Deliver(c, s)'
  <2>1. Pending(c) \in Seq(Frame) /\ framesSent[c][s] \in Nat
    BY PendingSeq DEF TypeInv, WireType
  <2>2. PICK d \in 0..framesSent[c][s] : /\ Ordered(Pending(c), s, shape[c][s], d, framesSent[c][s])
                                         /\ streams[c][s] = Taken(s, d, Len(FramesOf[shape[c][s]]))
    BY <1>1
  <2>3. Ordered(Append(Pending(c), f), s, shape[c][s], d, framesSent[c][s])
    BY <1>4, <2>1, <2>2, OrderedAppendOther
  <2> QED
    BY <1>1, <1>4, <2>2, <2>3
<1>5. ASSUME NEW c \in Conns, NEW s \in Streams, SendFrame(c, s) PROVE \A e \in Conns, x \in Streams : Deliver(e, x)'
  <2> DEFINE k == framesSent[c][s]
             sh == shape[c][s]
  <2>1. PICK f \in Frame : Is(f, s, sh, k + 1) /\ Pending(c)' = Append(Pending(c), f)
    BY <1>5, SendEffect
  <2>2. /\ k \in Nat /\ k + 1 <= Len(FramesOf[sh]) /\ shape' = shape /\ streams' = streams
        /\ framesSent'[c][s] = k + 1
        /\ \A e \in Conns, x \in Streams : <<e, x>> # <<c, s>> => framesSent'[e][x] = framesSent[e][x]
        /\ \A e \in Conns \ {c} : Pending(e)' = Pending(e)
    BY <1>5, SendEffect
  <2>3. ASSUME NEW e \in Conns \ {c}, NEW x \in Streams PROVE Deliver(e, x)'
    BY <1>3, <2>2
  <2>4. ASSUME NEW x \in Streams \ {s} PROVE Deliver(c, x)'
    <3>1. f.stream # x
      BY <2>1 DEF Is
    <3> QED
      BY <1>4, <2>1, <2>2, <3>1
  <2>5. Deliver(c, s)'
    <3>1. Pending(c) \in Seq(Frame) /\ sh \in Shapes
      BY PendingSeq DEF TypeInv, WireType
    <3>2. PICK d \in 0..k : Ordered(Pending(c), s, sh, d, k) /\ streams[c][s] = Taken(s, d, Len(FramesOf[sh]))
      BY <1>1
    <3>3. d \in 0..(k + 1)
      BY <2>2
    <3>4. shape'[c][s] = sh
      BY <2>2
    <3> HIDE DEF k, sh
    <3>5. Ordered(Append(Pending(c), f), s, sh, d, k + 1)
      BY <2>1, <2>2, <3>1, <3>2, OrderedAppend
    <3> QED
      BY <2>1, <2>2, <3>2, <3>3, <3>4, <3>5
  <2> QED
    BY <2>3, <2>4, <2>5
<1>6. ASSUME NEW c \in Conns, SendJunk(c) PROVE \A e \in Conns, x \in Streams : Deliver(e, x)'
  <2>1. /\ UNCHANGED <<shape, streams, framesSent>>
        /\ \A e \in Conns \ {c} : Pending(e)' = Pending(e)
        /\ Junk \in Frame /\ Junk.stream \notin Streams /\ Pending(c)' = Append(Pending(c), Junk)
    BY <1>6, JunkEffect
  <2>2. ASSUME NEW e \in Conns, NEW x \in Streams PROVE Deliver(e, x)'
    <3>1. CASE e = c
      BY <1>4, <2>1, <3>1
    <3>2. CASE e # c
      BY <1>3, <2>1, <3>2
    <3> QED
      BY <3>1, <3>2
  <2> QED
    BY <2>2
<1>7. ASSUME NEW t \in Threads, RecvFrame(t) PROVE \A e \in Conns, x \in Streams : Deliver(e, x)'
  <2>1. PICK c : c = epoll[t].conn
    OBVIOUS
  <2> DEFINE q == Pending(c)
             s == q[1].stream
             sh == shape[c][s]
             len == Len(FramesOf[sh])
             k == framesSent[c][s]
  <2>2. /\ c \in Conns /\ q # << >> /\ s \in Streams
        /\ Pending(c)' = Tail(q) /\ \A e \in Conns \ {c} : Pending(e)' = Pending(e)
        /\ UNCHANGED <<shape, framesSent>>
        /\ streams'[c][s] = IF q[1].end THEN NoRequest ELSE AfterFrame(streams[c][s], q[1])
        /\ \A e \in Conns, x \in Streams : <<e, x>> # <<c, s>> => streams'[e][x] = streams[e][x]
    BY <1>7, <2>1, RecvEffect
  <2>3. q \in Seq(Frame)
    BY <2>2, PendingSeq
  <2>4. ASSUME NEW e \in Conns \ {c}, NEW x \in Streams PROVE Deliver(e, x)'
    <3>1. streams'[e][x] = streams[e][x] /\ framesSent'[e][x] = framesSent[e][x] /\ Pending(e)' = Pending(e) /\ shape' = shape
      BY <2>2
    <3> QED
      BY <1>3, <3>1
  <2>5. ASSUME NEW x \in Streams, x # s PROVE Deliver(c, x)'
    <3>1. framesSent[c][x] \in Nat
      BY <2>2 DEF TypeInv, WireType
    <3>2. PICK d \in 0..framesSent[c][x] : /\ Ordered(q, x, shape[c][x], d, framesSent[c][x])
                                           /\ streams[c][x] = Taken(x, d, Len(FramesOf[shape[c][x]]))
      BY <1>1, <2>2
    <3>3. Ordered(Tail(q), x, shape[c][x], d, framesSent[c][x])
      <4> HIDE DEF q
      <4> QED
        BY <2>2, <2>3, <2>5, <3>1, <3>2, OrderedTailOther DEF s
    <3>4. streams'[c][x] = streams[c][x]
      BY <2>2, <2>5
    <3>5. framesSent[c][x] <= Len(FramesOf[shape[c][x]])
      BY <1>1, <2>2
    <3>6. Pending(c)' = Tail(q) /\ UNCHANGED <<shape, framesSent>>
      BY <2>2
    <3> HIDE DEF q, s
    <3> QED
      BY <3>2, <3>3, <3>4, <3>5, <3>6
  <2>6. ASSUME NEW x, x = s PROVE Deliver(c, x)'
    <3>1. /\ k \in Nat /\ k <= len /\ len \in Nat /\ sh \in Shapes
          /\ \E d \in Nat : /\ d + 1 <= k
                            /\ streams[c][s] = Taken(s, d, len) /\ q[1].kind = FramesOf[sh][d + 1]
                            /\ q[1].end <=> d + 1 = len
                            /\ Ordered(Tail(q), s, sh, d + 1, k)
      BY <2>2, TakesNext
    <3>2. PICK d \in Nat : /\ d + 1 <= k
                           /\ streams[c][s] = Taken(s, d, len) /\ q[1].kind = FramesOf[sh][d + 1]
                           /\ q[1].end <=> d + 1 = len
                           /\ Ordered(Tail(q), s, sh, d + 1, k)
      BY <3>1
    <3>3. d + 1 <= len
      BY <3>1, <3>2
    <3>4. /\ d + 1 < len => AfterFrame(Taken(s, d, len), q[1]) = Taken(s, d + 1, len)
          /\ d + 1 = len => Taken(s, d + 1, len) = NoRequest
      <4>1. q[1].stream = s
        OBVIOUS
      <4> HIDE DEF sh, s, q
      <4> QED
        BY <3>1, <3>2, <3>3, <4>1, AfterTaken
    <3>5. streams'[c][s] = Taken(s, d + 1, len)
      <4>1. d + 1 < len \/ d + 1 = len
        BY <3>1, <3>3
      <4>2. d + 1 < len => d + 1 # len
        BY <3>1
      <4>3. CASE d + 1 < len
        BY <2>2, <3>2, <3>4, <4>2, <4>3
      <4>4. CASE d + 1 = len
        BY <2>2, <3>2, <3>4, <4>4
      <4> QED
        BY <4>1, <4>3, <4>4
    <3>6. d + 1 \in 0..k
      BY <3>1, <3>2
    <3>7. Pending(c)' = Tail(q) /\ UNCHANGED <<shape, framesSent>>
      BY <2>2
    <3>8. framesSent'[c][x] = k /\ shape'[c][x] = sh /\ streams'[c][x] = Taken(x, d + 1, len)
      BY <2>6, <3>5, <3>7
    <3>9. Ordered(Tail(q), x, sh, d + 1, k) /\ len = Len(FramesOf[sh])
      BY <2>6, <3>2
    <3> HIDE DEF q, s, sh, k, len
    <3> QED
      BY <3>1, <3>6, <3>7, <3>8, <3>9
  <2>7. ASSUME NEW e \in Conns, NEW x \in Streams PROVE Deliver(e, x)'
    <3>1. CASE e # c
      BY <2>4, <3>1
    <3>2. CASE e = c /\ x # s
      BY <2>5, <3>2
    <3>3. CASE e = c /\ x = s
      BY <2>6, <3>3
    <3> QED
      BY <3>1, <3>2, <3>3
  <2> QED
    BY <2>7
<1>8. CASE UNCHANGED <<shape, streams, framesSent>> /\ \A e \in Conns : Pending(e)' = Pending(e)
  BY <1>3, <1>8
<1> HIDE DEF Deliver
<1> QED
  BY <1>5, <1>6, <1>7, <1>8, OtherEffect, LeaversAreConns

\* A stream that is over stays so: its client has nothing left to send on it.
LEMMA OverStays ==
    ASSUME TypeInv, [Next]_vars, NEW c \in Conns, NEW s \in Streams, Over(c, s)
    PROVE  Over(c, s)' /\ shape'[c][s] = shape[c][s]
<1>0. Pending(c) \in Seq(Frame)
  BY PendingSeq
<1>1. ASSUME shape' = shape, framesSent'[c][s] = framesSent[c][s], streams'[c][s] = streams[c][s],
             Pending(c)' = Pending(c)
      PROVE  Over(c, s)' /\ shape'[c][s] = shape[c][s]
  BY <1>1 DEF Over
<1>2. ASSUME shape' = shape, framesSent'[c][s] = framesSent[c][s], streams'[c][s] = streams[c][s],
             NEW f \in Frame, f.stream # s, Pending(c)' = Append(Pending(c), f)
      PROVE  Over(c, s)' /\ shape'[c][s] = shape[c][s]
  <2> DEFINE q == Pending(c)
             p == Append(q, f)
  <2>1. \A i \in 1..Len(p) : p[i] = f \/ (i \in 1..Len(q) /\ p[i] = q[i])
    BY <1>0
  <2>2. \A i \in 1..Len(p) : p[i].stream # s
    BY <1>2, <2>1 DEF Over
  <2> HIDE DEF p, q
  <2> QED
    BY <1>2, <2>2 DEF Over, p, q
<1>3. ASSUME NEW e \in Conns, NEW x \in Streams, SendFrame(e, x)
      PROVE  Over(c, s)' /\ shape'[c][s] = shape[c][s]
  <2>1. <<e, x>> # <<c, s>>
    <3>1. /\ framesSent[e][x] \in Nat /\ framesSent[e][x] + 1 <= Len(FramesOf[shape[e][x]])
          /\ shape[e][x] \in Shapes
      BY <1>3, SendEffect DEF TypeInv, WireType
    <3>2. Len(FramesOf[shape[e][x]]) \in Nat
      BY <3>1, FramesFact
    <3>3. framesSent[e][x] # Len(FramesOf[shape[e][x]])
      BY <3>1, <3>2
    <3> QED
      BY <3>3 DEF Over
  <2>2. shape' = shape /\ streams' = streams /\ framesSent'[c][s] = framesSent[c][s]
    BY <1>3, <2>1, SendEffect
  <2>3. CASE e # c
    BY <1>1, <1>3, <2>2, <2>3, SendEffect
  <2>4. CASE e = c
    <3>1. PICK f \in Frame : Is(f, x, shape[c][x], framesSent[c][x] + 1) /\ Pending(c)' = Append(Pending(c), f)
      BY <1>3, <2>4, SendEffect
    <3>2. f.stream # s
      BY <2>1, <2>4, <3>1 DEF Is
    <3> QED
      BY <1>2, <2>2, <3>1, <3>2
  <2> QED
    BY <2>3, <2>4
<1>4. ASSUME NEW e \in Conns, SendJunk(e) PROVE Over(c, s)' /\ shape'[c][s] = shape[c][s]
  <2>1. CASE e = c
    BY <1>2, <1>4, <2>1, JunkEffect
  <2>2. CASE e # c
    BY <1>1, <1>4, <2>2, JunkEffect
  <2> QED
    BY <2>1, <2>2
<1>5. ASSUME NEW t \in Threads, RecvFrame(t) PROVE Over(c, s)' /\ shape'[c][s] = shape[c][s]
  <2>1. PICK e : e = epoll[t].conn
    OBVIOUS
  <2>2. /\ e \in Conns /\ Pending(e) # << >>
        /\ Pending(e)' = Tail(Pending(e))
        /\ \A x \in Conns \ {e} : Pending(x)' = Pending(x)
        /\ UNCHANGED <<shape, framesSent>>
        /\ \A x \in Conns, y \in Streams : <<x, y>> # <<e, Pending(e)[1].stream>> => streams'[x][y] = streams[x][y]
    BY <1>5, <2>1, RecvEffect
  <2>3. CASE e # c
    BY <1>1, <2>2, <2>3
  <2>4. CASE e = c
    <3> DEFINE q == Pending(c)
               p == Tail(q)
    <3>1. Len(q) \in Nat \ {0}
      BY <1>0, <2>2, <2>4, EmptySeq
    <3>2. q[1].stream # s /\ \A i \in 1..Len(p) : p[i] = q[i + 1] /\ i + 1 \in 1..Len(q)
      BY <1>0, <2>2, <2>4, <3>1 DEF Over
    <3>3. streams'[c][s] = streams[c][s] /\ Pending(c)' = p
      BY <2>2, <2>4, <3>2
    <3>4. \A i \in 1..Len(p) : p[i].stream # s
      BY <3>2 DEF Over
    <3> HIDE DEF p, q
    <3> QED
      BY <2>2, <3>3, <3>4 DEF Over
  <2> QED
    BY <2>3, <2>4
<1>6. CASE UNCHANGED <<shape, streams, framesSent>> /\ \A e \in Conns : Pending(e)' = Pending(e)
  BY <1>1, <1>6
<1> QED
  BY <1>3, <1>4, <1>5, <1>6, OtherEffect, LeaversAreConns

\* What is on its way to the router stays whole.
LEMMA WholenessStep == TypeInv /\ Delivery /\ Wholeness /\ [Next]_vars => Wholeness'
<1> SUFFICES ASSUME TypeInv, Delivery, Wholeness, [Next]_vars PROVE Wholeness'
  OBVIOUS
<1> DEFINE E == \A t \in Threads : epoll[t].pc = "enqueue" => Whole(epoll[t].conn, epoll[t].stream, epoll[t].req)
           R == \A i \in 1..Len(ring) : Whole(ring[i].conn, ring[i].stream, ring[i].req)
           W == \A w \in PoolWorkers : worker[w].pc # "idle" =>
                    Whole(worker[w].task.conn, worker[w].task.stream, worker[w].task.req)
           H == \A c \in Conns, s \in Streams : handled[c][s] # NoRequest => Whole(c, s, handled[c][s])
<1>1. SUFFICES E' /\ R' /\ W' /\ H'
  BY DEF Wholeness
<1>2. E /\ R /\ W /\ H
  BY DEF Wholeness
<1>3. ASSUME NEW c \in Conns, NEW s \in Streams, NEW req, Whole(c, s, req) PROVE Whole(c, s, req)'
  BY <1>3, OverStays DEF Whole
<1>4. /\ \A t \in Threads : epoll[t].pc = "enqueue" => epoll[t].conn \in Conns /\ epoll[t].stream \in Streams
      /\ \A i \in 1..Len(ring) : ring[i].conn \in Conns /\ ring[i].stream \in Streams
      /\ \A w \in PoolWorkers : worker[w].pc # "idle" =>
             worker[w].task.conn \in Conns /\ worker[w].task.stream \in Streams
  <2>1. \A i \in 1..Len(ring) : ring[i] \in Task
    BY DEF TypeInv, PoolType
  <2> QED
    BY <2>1 DEF TypeInv, ThreadType, PoolType, Task
<1>5. ASSUME epoll' = epoll PROVE E'
  BY <1>2, <1>3, <1>4, <1>5
<1>6. ASSUME ring' = ring PROVE R'
  BY <1>2, <1>3, <1>4, <1>6
<1>7. ASSUME worker' = worker PROVE W'
  BY <1>2, <1>3, <1>4, <1>7
<1>8. ASSUME handled' = handled PROVE H'
  BY <1>2, <1>3, <1>8
<1>9. ASSUME NEW t \in Threads, ThreadStep(t) PROVE E' /\ R' /\ W' /\ H'
  <2>1. handled' = handled /\ worker' = worker
    BY <1>9 DEF ThreadStep, Event, Read, ReadFails, ProcessLock, RecvFrame, RecvFails, EnqueueTask, ProcessSend,
                history
  <2>2. \A u \in Threads \ {t} : epoll'[u] = epoll[u]
    BY <1>9, EpollEffect
  <2>3. ASSUME epoll'[t].pc # "enqueue" PROVE E'
    BY <1>2, <1>3, <1>4, <2>2, <2>3
  <2>4. CASE RecvFrame(t) /\ epoll'[t].pc = "enqueue"
    <3>1. PICK c : c = epoll[t].conn
      OBVIOUS
    <3>2. PICK f : f = Pending(c)[1]
      OBVIOUS
    <3>3. PICK s : s = f.stream
      OBVIOUS
    <3>4. /\ c \in Conns /\ Pending(c) # << >> /\ f = Head(readBuffer[c]) /\ s \in Streams
          /\ Pending(c)' = Tail(Pending(c)) /\ UNCHANGED <<shape, framesSent>>
          /\ streams'[c][s] = IF f.end THEN NoRequest ELSE AfterFrame(streams[c][s], f)
      BY <2>4, <3>1, <3>2, <3>3, RecvEffect
    <3> DEFINE req == AfterFrame(streams[c][s], f)
               sh == shape[c][s]
               len == Len(FramesOf[sh])
               k == framesSent[c][s]
    <3>5. /\ epoll[t].pc = "recv" /\ ring' = ring
          /\ epoll' = IF f.end THEN [epoll EXCEPT ![t] = [@ EXCEPT !.pc = "enqueue", !.stream = s, !.req = req]] ELSE epoll
      BY <2>4, <3>1, <3>3, <3>4 DEF RecvFrame
    <3>6. f.end /\ epoll'[t].conn = c /\ epoll'[t].stream = s /\ epoll'[t].req = req
      <4> HIDE DEF req
      <4> QED
        BY <2>4, <3>1, <3>5 DEF TypeInv, ThreadType
    <3>7. /\ k \in Nat /\ k <= len /\ len \in Nat /\ sh \in Shapes
          /\ \E d \in Nat : /\ d + 1 <= k
                            /\ streams[c][s] = Taken(s, d, len) /\ f.kind = FramesOf[sh][d + 1]
                            /\ f.end <=> d + 1 = len
                            /\ Ordered(Tail(Pending(c)), s, sh, d + 1, k)
      <4>1. Pending(c)[1].stream = s
        BY <3>2, <3>3
      <4>2. /\ k \in Nat /\ k <= len /\ len \in Nat /\ sh \in Shapes
            /\ \E d \in Nat : /\ d + 1 <= k
                              /\ streams[c][s] = Taken(s, d, len) /\ Pending(c)[1].kind = FramesOf[sh][d + 1]
                              /\ Pending(c)[1].end <=> d + 1 = len
                              /\ Ordered(Tail(Pending(c)), s, sh, d + 1, k)
        BY <3>4, <4>1, TakesNext
      <4> HIDE DEF k, len, sh
      <4> QED
        BY <3>2, <4>2
    <3>8. PICK d \in Nat : /\ d + 1 <= k
                           /\ streams[c][s] = Taken(s, d, len) /\ f.kind = FramesOf[sh][d + 1]
                           /\ f.end <=> d + 1 = len
                           /\ Ordered(Tail(Pending(c)), s, sh, d + 1, k)
      BY <3>7
    <3>9. d + 1 = len /\ k = len
      BY <3>6, <3>7, <3>8
    <3>10. req = IF sh = "trailed" THEN Blank ELSE s
      <4>1. AfterFrame(Taken(s, d, len), f) = IF sh = "trailed" THEN Blank ELSE s
        <5> HIDE DEF sh
        <5> QED
          BY <3>3, <3>7, <3>8, <3>9, AfterTaken
      <4> QED
        BY <3>8, <4>1
    <3>11. \A i \in 1..Len(Tail(Pending(c))) : Tail(Pending(c))[i].stream # s
      <4>1. \A n : n \notin ((d + 1) + 1)..k
        BY <3>7, <3>9
      <4> QED
        BY <3>8, <4>1 DEF Ordered
    <3>12. framesSent'[c][s] = Len(FramesOf[shape'[c][s]]) /\ streams'[c][s] = NoRequest /\ shape'[c][s] = sh
      BY <3>4, <3>6, <3>9
    <3>13. Over(c, s)'
      BY <3>4, <3>11, <3>12 DEF Over
    <3> HIDE DEF req, sh
    <3>14. ASSUME NEW x, x = req PROVE Whole(c, s, x)'
      BY <3>10, <3>12, <3>13, <3>14 DEF Whole
    <3>15. Whole(epoll[t].conn, epoll[t].stream, epoll[t].req)'
      BY <3>6, <3>14
    <3>16. E'
      BY <1>2, <1>3, <1>4, <2>2, <3>15
    <3> QED
      BY <1>6, <1>7, <1>8, <2>1, <3>5, <3>16
  <2>5. CASE EnqueueTask(t)
    <3> DEFINE task == [conn |-> epoll[t].conn, stream |-> epoll[t].stream, req |-> epoll[t].req]
    <3>1. ring' = Append(ring, task) /\ epoll[t].pc = "enqueue" /\ epoll'[t].pc = "recv"
      BY <2>5 DEF EnqueueTask, EGoto, TypeInv, ThreadType
    <3>2. task.conn \in Conns /\ task.stream \in Streams /\ Whole(task.conn, task.stream, task.req)
      BY <1>2, <1>4, <3>1
    <3> HIDE DEF task
    <3>3. \A i \in 1..Len(ring') : ring'[i] = task \/ (i \in 1..Len(ring) /\ ring'[i] = ring[i])
      BY <3>1 DEF TypeInv, PoolType
    <3>4. ASSUME NEW i \in 1..Len(ring') PROVE Whole(ring[i].conn, ring[i].stream, ring[i].req)'
      <4>1. PICK x : x = ring'[i]
        OBVIOUS
      <4>2. x.conn \in Conns /\ x.stream \in Streams /\ Whole(x.conn, x.stream, x.req)
        BY <1>2, <1>4, <3>2, <3>3, <4>1
      <4>3. Whole(x.conn, x.stream, x.req)'
        BY <1>3, <4>2
      <4> QED
        BY <4>1, <4>3
    <3>5. R'
      BY <3>4
    <3> QED
      BY <1>7, <1>8, <2>1, <2>3, <3>1, <3>5
  <2>6. CASE ~EnqueueTask(t) /\ epoll'[t].pc # "enqueue"
    <3>1. ring' = ring
      BY <1>9, <2>6 DEF ThreadStep, Event, Read, ReadFails, ProcessLock, RecvFrame, RecvFails, ProcessSend
    <3> QED
      BY <1>6, <1>7, <1>8, <2>1, <2>3, <2>6, <3>1
  <2>7. epoll'[t].pc = "enqueue" => RecvFrame(t)
    BY <1>9, EpollEffect
  <2> QED
    BY <2>4, <2>5, <2>6, <2>7
<1>10. ASSUME NEW w \in PoolWorkers, PoolStep(w) PROVE E' /\ R' /\ W' /\ H'
  <2>1. epoll' = epoll /\ \A v \in PoolWorkers \ {w} : worker'[v] = worker[v]
    BY <1>10, WorkerEffect
  <2>2. ASSUME worker'[w].pc # "idle" => /\ worker'[w].task.conn \in Conns /\ worker'[w].task.stream \in Streams
                                         /\ Whole(worker'[w].task.conn, worker'[w].task.stream, worker'[w].task.req)
        PROVE  W'
    <3>1. ASSUME NEW v \in PoolWorkers, worker'[v].pc # "idle"
          PROVE  Whole(worker[v].task.conn, worker[v].task.stream, worker[v].task.req)'
      <4>1. PICK x : x = worker'[v].task
        OBVIOUS
      <4>2. x.conn \in Conns /\ x.stream \in Streams /\ Whole(x.conn, x.stream, x.req)
        BY <1>2, <1>4, <2>1, <2>2, <3>1, <4>1
      <4>3. Whole(x.conn, x.stream, x.req)'
        BY <1>3, <4>2
      <4> QED
        BY <4>1, <4>3
    <3> QED
      BY <3>1
  <2>3. CASE TakeTask(w)
    <3>1. ring # << >> /\ worker'[w].task = Head(ring) /\ ring' = Tail(ring)
      BY <1>10, <2>3, WorkerEffect DEF TakeTask
    <3>2. handled' = handled
      BY <2>3 DEF TakeTask, history
    <3>3. 1 \in 1..Len(ring) /\ Head(ring) = ring[1]
      BY <3>1 DEF TypeInv, PoolType
    <3>4. \A i \in 1..Len(ring') : i + 1 \in 1..Len(ring) /\ ring'[i] = ring[i + 1]
      BY <3>1 DEF TypeInv, PoolType
    <3>5. W'
      BY <1>2, <1>4, <2>2, <3>1, <3>3
    <3>6. ASSUME NEW i \in 1..Len(ring') PROVE Whole(ring[i].conn, ring[i].stream, ring[i].req)'
      <4>1. PICK x : x = ring'[i]
        OBVIOUS
      <4>2. x.conn \in Conns /\ x.stream \in Streams /\ Whole(x.conn, x.stream, x.req)
        BY <1>2, <1>4, <3>4, <4>1
      <4>3. Whole(x.conn, x.stream, x.req)'
        BY <1>3, <4>2
      <4> QED
        BY <4>1, <4>3
    <3>7. R'
      BY <3>6
    <3> QED
      BY <1>5, <1>8, <2>1, <3>2, <3>5, <3>7
  <2>4. CASE HandleRequest(w)
    <3>1. PICK x : x = worker[w].task
      OBVIOUS
    <3>2. /\ worker[w].pc = "handle" /\ worker'[w].task = x /\ ring' = ring
          /\ handled' = [handled EXCEPT ![x.conn][x.stream] = x.req]
      BY <2>4, <3>1 DEF HandleRequest, TypeInv, PoolType
    <3>3. x.conn \in Conns /\ x.stream \in Streams /\ Whole(x.conn, x.stream, x.req)
      BY <1>2, <1>4, <3>1, <3>2
    <3>4. W'
      BY <2>2, <3>2, <3>3
    <3>5. \A c \in Conns, s \in Streams :
              handled'[c][s] = IF c = x.conn /\ s = x.stream THEN x.req ELSE handled[c][s]
      BY <3>2, <3>3 DEF TypeInv, SessionType
    <3>6. H'
      BY <1>2, <1>3, <3>3, <3>5
    <3> QED
      BY <1>5, <1>6, <2>1, <3>2, <3>4, <3>6
  <2>5. CASE HandlerThrows(w) \/ Submit(w)
    <3>1. worker'[w].pc = "idle" /\ ring' = ring /\ handled' = handled
      BY <2>5 DEF HandlerThrows, Submit, LetGo, TypeInv, PoolType, history
    <3> QED
      BY <1>5, <1>6, <1>8, <2>1, <2>2, <3>1
  <2>6. CASE SubmitLock(w)
    <3>1. worker[w].pc # "idle" /\ worker'[w].task = worker[w].task /\ ring' = ring /\ handled' = handled
      BY <2>6 DEF SubmitLock, TypeInv, PoolType, history
    <3>2. W'
      BY <1>2, <1>4, <2>2, <3>1
    <3> QED
      BY <1>5, <1>6, <1>8, <2>1, <3>1, <3>2
  <2> QED
    BY <1>10, <2>3, <2>4, <2>5, <2>6 DEF PoolStep
<1>11. ASSUME \/ \E c \in Conns, s \in Streams : SendFrame(c, s)
              \/ \E c \in Leavers : Leave(c) \/ SendJunk(c)
              \/ Quiet \/ UNCHANGED vars
       PROVE  E' /\ R' /\ W' /\ H'
  <2>1. UNCHANGED <<epoll, ring, worker, handled>>
    BY <1>11 DEF SendFrame, Leave, SendJunk, Quiet, vars, history
  <2> QED
    BY <1>5, <1>6, <1>7, <1>8, <2>1
<1> HIDE DEF E, R, W, H
<1> QED
  BY <1>9, <1>10, <1>11 DEF Next

(***************************************************************************)
(* The theorems.                                                           *)
(***************************************************************************)

\* The inductive invariant holds initially.
LEMMA InvInit == Init => IInv
<1> SUFFICES ASSUME Init PROVE IInv
  OBVIOUS
<1>1. TypeInv
  BY TypeInit
<1>2. /\ \A t \in Threads : epoll[t].pc = "wait"
      /\ \A w \in PoolWorkers : worker[w].pc = "idle"
      /\ ring = << >> /\ dead = {} /\ \A c \in Conns, s \in Streams : handled[c][s] = NoRequest
  BY DEF Init
<1>3. Locking /\ Owning /\ Dying
  BY <1>2 DEF Locking, Owning, Dying
<1>4. Delivery
  <2>1. SUFFICES ASSUME NEW c \in Conns, NEW s \in Streams
                 PROVE  /\ framesSent[c][s] <= Len(FramesOf[shape[c][s]])
                        /\ Ordered(Pending(c), s, shape[c][s], 0, framesSent[c][s])
                        /\ streams[c][s] = Taken(s, 0, Len(FramesOf[shape[c][s]]))
                        /\ 0 \in 0..framesSent[c][s]
    BY DEF Delivery
  <2>2. framesSent[c][s] = 0 /\ streams[c][s] = NoRequest /\ socket[c] = << >> /\ readBuffer[c] = << >>
    BY DEF Init
  <2>3. shape[c][s] \in Shapes
    BY <1>1 DEF TypeInv, WireType
  <2>4. Len(FramesOf[shape[c][s]]) \in Nat
    BY <2>3, FramesFact
  <2>5. Pending(c) = << >>
    BY <2>2 DEF Pending
  <2>6. Ordered(Pending(c), s, shape[c][s], 0, 0)
    BY <2>5 DEF Ordered
  <2> QED
    BY <2>2, <2>4, <2>6 DEF Taken
<1>5. Wholeness
  BY <1>2 DEF Wholeness
<1> QED
  BY <1>1, <1>3, <1>4, <1>5 DEF IInv

\* Every behaviour of the HTTP/2 connections keeps the inductive invariant.
THEOREM Invariance == Spec => []IInv
<1>1. TypeInv /\ [Next]_vars => TypeInv'
  BY WireStep, SessionStep, ThreadTypeStep, PoolTypeStep DEF TypeInv
<1>2. IInv /\ [Next]_vars => IInv'
  BY <1>1, LockingStep, OwningStep, DyingStep, DeliveryStep, WholenessStep DEF IInv
<1> QED
  BY InvInit, <1>2, PTL DEF Spec

\* Every variable keeps its type and the ring of the pool its bound, although the
\* frame callback enqueues from inside nghttp2.
THEOREM TypeCorrect == Spec => []TypeOK
<1>1. TypeInv => TypeOK
  BY DEF TypeInv, SessionType, ThreadType, PoolType, WireType, TypeOK, HttpRequest
<1> QED
  BY Invariance, <1>1, PTL DEF IInv

\* h2_mutex_ and the shared_ptr of the tasks: one thread at a time is inside a
\* session, and none inside, or on its way to, one that has been destroyed.
THEOREM SessionSafeHolds == Spec => []SessionSafe
<1>1. IInv => SessionSafe
  <2> SUFFICES ASSUME IInv, NEW c \in Conns
               PROVE  /\ Cardinality(Inside(c)) <= 1
                      /\ c \in dead => Inside(c) = {} /\ ~Captured(c, ring, worker)
    BY DEF SessionSafe
  <2>1. \A x \in Inside(c) : x = mutex[c]
    BY DEF IInv, Locking, Inside
  <2>2. Inside(c) \subseteq {mutex[c]}
    BY <2>1
  <2>3. IsFiniteSet({mutex[c]}) /\ Cardinality({mutex[c]}) = 1
    BY FS_Singleton
  <2>4. Cardinality(Inside(c)) <= 1
    BY <2>2, <2>3, FS_Subset
  <2>5. ASSUME c \in dead PROVE Inside(c) = {} /\ ~Captured(c, ring, worker)
    <3>1. link[c] = "dropped" /\ ~Captured(c, ring, worker)
      BY <2>5 DEF IInv, Dying
    <3>2. \A t \in Threads : epoll[t].pc \in {"recv", "enqueue"} => epoll[t].conn # c
      BY <3>1 DEF IInv, Owning
    <3>3. \A w \in PoolWorkers : worker[w].pc = "submit" => worker[w].task.conn # c
      BY <3>1 DEF Captured
    <3> QED
      BY <3>1, <3>2, <3>3 DEF Inside
  <2> QED
    BY <2>4, <2>5
<1> QED
  BY Invariance, <1>1, PTL

\* The frame callbacks: however the frames of a connection's streams interleave
\* and however they are cut into reads, the router gets each request with its own
\* method and path, and the stream is gone from h2_streams_ by then.
THEOREM RequestIntactHolds == Spec => []RequestIntact
<1>1. IInv => RequestIntact
  BY DEF IInv, Wholeness, Whole, Over, RequestIntact
<1> QED
  BY Invariance, <1>1, PTL
============================================================================
