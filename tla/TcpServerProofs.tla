-------------------------- MODULE TcpServerProofs --------------------------
(***************************************************************************)
(* Proofs about TcpServer in a calm environment, for any number of epoll   *)
(* threads, connections, descriptors and units: no task closes a           *)
(* descriptor behind the back of the epoll thread.  That is the case when  *)
(* clients ask for keep-alive and send no control frames, handlers do not  *)
(* throw, 30 seconds pass only while nothing is under way, and nobody      *)
(* stops the server.  Pipelining, malformed requests, upgrades, data       *)
(* frames, close frames, resets, failed handshakes and idle timeouts are   *)
(* all in it; outside it the run TcpServerClose shows what goes wrong.     *)
(***************************************************************************)
EXTENDS TcpServerTypes

Calm ==
    /\ "close" \notin ClientUnits /\ "ping" \notin ClientUnits
    /\ Timeouts # "any"
    /\ ~HandlerMayThrow /\ ~MayStop

Quiet == running /\ ~crashed /\ ~stray /\ \A w \in Workers : thr[w].pc # "exit"

\* A connection is in the map of its worker exactly while it is registered.
Mapped ==
    /\ \A w \in Workers, f \in Fds : actives[w][f] # NoConn =>
           /\ fdt[f] = actives[w][f] /\ conn[actives[w][f]].owner = w /\ reg[actives[w][f]] # "none"
    /\ \A c \in Conns : reg[c] # "none" => conn[c].fd \in Fds /\ actives[conn[c].owner][conn[c].fd] = c

\* A task holds an open connection, and has its one-shot registration until it
\* re-arms it.
Held(t) ==
    /\ t.at # "close" /\ t.u \in {"keep"} \cup DataUnits
    /\ fdt[t.fd] = t.conn /\ conn[t.conn].owner = t.w
    /\ t.at # "drop" => /\ reg[t.conn] = "off" /\ ~conn[t.conn].stale
                        /\ \A s \in tasks : s.conn = t.conn /\ s.at # "drop" => s = t

\* No task is at work on connection c.
Idle(c) == \A t \in tasks : t.conn = c => t.at = "drop"

\* The connection just accepted is known to nobody else.
Pending(w) ==
    /\ thr[w].pend # NoConn => thr[w].pc = "register"
    /\ thr[w].pc = "register" =>
           LET c == thr[w].pend IN
               fdt[thr[w].cur] = c /\ conn[c].owner = w /\ reg[c] = "none" /\ ~Captured(c, tasks)

\* An event at hand has the registration of its connection, and nobody else has it.
Batched(w) ==
    /\ thr[w].pc \in {"poll", "sweep"} => thr[w].batch = {}
    /\ \A e \in thr[w].batch : e.ev # "listen" =>
           /\ actives[w][e.fd] # NoConn /\ reg[actives[w][e.fd]] = "off" /\ Idle(actives[w][e.fd])
           /\ \A d \in thr[w].batch : d.fd = e.fd => d = e

\* So has a handler.
Handled(w) ==
    thr[w].pc \in Serving =>
        /\ reg[Here(w)] = "off" /\ Idle(Here(w)) /\ ~conn[Here(w)].stale
        /\ \A e \in thr[w].batch : e.fd # thr[w].cur

\* What the sweep has collected stays as it is.
Swept(w) ==
    /\ thr[w].idle # {} => thr[w].pc = "sweep"
    /\ \A f \in thr[w].idle : actives[w][f] # NoConn /\ conn[actives[w][f]].stale

AtHand(w) == Pending(w) /\ Batched(w) /\ Handled(w) /\ Swept(w)

\* Every open file is known to somebody, and every entry is counted once.
Known ==
    /\ count = Cardinality(Entries)
    /\ \A f \in Fds : fdt[f] # NoConn =>
           \/ \E w \in Workers : thr[w].pend = fdt[f]
           \/ actives[conn[fdt[f]].owner][f] = fdt[f]
           \/ Captured(fdt[f], tasks)

Life ==
    /\ Quiet /\ Mapped /\ Known
    /\ \A t \in tasks : Held(t)
    /\ \A w \in Workers : AtHand(w)

(***************************************************************************)
(* The order of the units.                                                 *)
(***************************************************************************)

\* Units are numbered in the order they were sent: the answered ones, m with a
\* task, those in the buffer and those in the socket.
InLine(served, m, buf, inq, script) ==
    /\ \A i \in 1..Len(served) : served[i] = i
    /\ \A i \in 1..Len(buf) : buf[i] = Len(served) + m + i
    /\ \A i \in 1..Len(inq) : inq[i] = Len(served) + m + Len(buf) + i
    /\ Len(script) = Len(served) + m + Len(buf) + Len(inq)

Waiting(t) == t.at \in {"queued", "handled"}
InTask(c) == IF \E t \in tasks : t.conn = c /\ Waiting(t) THEN 1 ELSE 0
Numbered(c) ==
    LET k == conn[c] IN
        /\ InLine(k.served, InTask(c), k.buf, k.inq, k.script)
        /\ \A t \in tasks : t.conn = c /\ Waiting(t) => t.n = Len(k.served) + 1

\* Frames follow the upgrade, and a connection reads frames once it has answered it.
Upgrading(c) ==
    LET k == conn[c] IN
        /\ \A i \in 1..Len(k.script) : k.script[i] \in ClientUnits
        /\ \A i, j \in 1..Len(k.script) : i < j /\ k.script[i] = "upgrade" => k.script[j] \in WsUnits
        /\ k.ws => \E i \in 1..Len(k.served) : k.script[i] = "upgrade"

Order == \A c \in Conns : Numbered(c) /\ Upgrading(c)

IInv == TypeInv /\ Life /\ Order

(***************************************************************************)
(* What a step leaves alone.                                               *)
(***************************************************************************)

\* An entry of a map is an open connection of that worker.
LEMMA Entry ==
    ASSUME TypeInv, Life, NEW w \in Workers, NEW f \in Fds, actives[w][f] # NoConn
    PROVE  LET c == actives[w][f] IN
           /\ c \in Conns /\ fdt[f] = c /\ conn[c].owner = w /\ conn[c].fd = f /\ conn[c].link = "accepted"
           /\ reg[c] # "none" /\ Registered(w, f)
<1>1. actives[w][f] \in Conns
  BY DEF TypeInv, BookType
<1>2. fdt[f] = actives[w][f] /\ conn[actives[w][f]].owner = w /\ reg[actives[w][f]] # "none"
  BY DEF Life, Mapped
<1>3. conn[fdt[f]].link = "accepted" /\ conn[fdt[f]].fd = f
  BY <1>1, <1>2, EnvironmentOK DEF TypeInv, FilesType
<1> QED
  BY <1>1, <1>2, <1>3, EnvironmentOK DEF Registered

\* What the rest of the system does while thread v stays where it is, and with its
\* map: the connections of v that no task is at work on are left alone.
Apart(v) ==
    /\ thr'[v] = thr[v] /\ actives'[v] = actives[v]
    /\ \A c \in Conns : conn[c].owner = v =>
           /\ conn'[c].owner = v
           /\ Idle(c) => reg'[c] = reg[c] /\ conn'[c].stale = conn[c].stale /\ Idle(c)'
           /\ ~Captured(c, tasks) => ~Captured(c, tasks')
    /\ \A f \in Fds : fdt[f] \in Conns /\ conn[fdt[f]].owner = v /\ ~Captured(fdt[f], tasks) => fdt'[f] = fdt[f]

LEMMA AtHandKept ==
    ASSUME TypeInv, Life, NEW v \in Workers, Apart(v)
    PROVE  AtHand(v)'
<1>1. ThrType(v) /\ AtHand(v)
  BY DEF TypeInv, ThreadsType, Life
<1>2. thr'[v] = thr[v] /\ actives'[v] = actives[v]
  BY DEF Apart
<1>3. ASSUME NEW f \in Fds, NEW c, c = actives[v][f], c # NoConn, Idle(c)
      PROVE  c \in Conns /\ reg'[c] = reg[c] /\ conn'[c].stale = conn[c].stale /\ Idle(c)'
  <2>1. c \in Conns /\ conn[c].owner = v
    BY <1>3, Entry
  <2> QED
    BY <1>3, <2>1 DEF Apart
<1>4. Pending(v)'
  <2>1. CASE thr[v].pc = "register"
    <3>1. PICK c, f : c = thr[v].pend /\ f = thr[v].cur
      OBVIOUS
    <3>2. /\ c \in Conns /\ f \in Fds /\ fdt[f] = c /\ conn[c].owner = v /\ reg[c] = "none" /\ ~Captured(c, tasks)
      BY <1>1, <2>1, <3>1 DEF ThrType, AtHand, Pending
    <3>3. Idle(c)
      BY <3>2 DEF Captured, Idle
    <3>4. reg'[c] = "none" /\ fdt'[f] = c /\ conn'[c].owner = v /\ ~Captured(c, tasks')
      BY <3>2, <3>3 DEF Apart
    <3> QED
      BY <1>2, <2>1, <3>1, <3>4 DEF Pending
  <2>2. CASE thr[v].pc # "register"
    BY <1>1, <1>2, <2>2 DEF AtHand, Pending
  <2> QED
    BY <2>1, <2>2
<1>5. Batched(v)'
  <2>1. ASSUME NEW e \in thr[v].batch, e.ev # "listen"
        PROVE  actives[v][e.fd] # NoConn /\ reg'[actives[v][e.fd]] = "off" /\ Idle(actives[v][e.fd])'
    <3>1. e.fd \in Fds
      BY <1>1, <2>1 DEF ThrType
    <3>2. actives[v][e.fd] # NoConn /\ reg[actives[v][e.fd]] = "off" /\ Idle(actives[v][e.fd])
      BY <1>1, <2>1 DEF AtHand, Batched
    <3>3. PICK c : c = actives[v][e.fd]
      OBVIOUS
    <3>4. reg'[c] = reg[c] /\ Idle(c)'
      BY <1>3, <3>1, <3>2, <3>3
    <3> QED
      BY <1>2, <3>2, <3>3, <3>4 DEF Idle
  <2> QED
    BY <1>1, <1>2, <2>1 DEF AtHand, Batched, Idle
<1>6. Handled(v)'
  <2> SUFFICES ASSUME thr[v].pc \in Serving
               PROVE  Handled(v)'
    BY <1>2 DEF Handled
  <2>1. thr[v].cur \in Fds /\ Here(v) \in Conns
    BY InHand
  <2>2. PICK c : c = Here(v)
    OBVIOUS
  <2>3. reg[c] = "off" /\ Idle(c) /\ ~conn[c].stale /\ c = actives[v][thr[v].cur] /\ c # NoConn
    BY <1>1, <2>1, <2>2, EnvironmentOK DEF AtHand, Handled, Here
  <2>4. reg'[c] = "off" /\ Idle(c)' /\ ~conn'[c].stale
    BY <1>3, <2>1, <2>3
  <2>5. Here(v)' = c
    BY <1>2, <2>3 DEF Here
  <2> QED
    BY <1>1, <1>2, <2>4, <2>5 DEF AtHand, Handled, Idle
<1>7. Swept(v)'
  <2>1. ASSUME NEW f \in thr[v].idle PROVE actives[v][f] # NoConn /\ conn'[actives[v][f]].stale
    <3>1. f \in Fds /\ actives[v][f] # NoConn /\ conn[actives[v][f]].stale
      BY <1>1, <2>1 DEF ThrType, AtHand, Swept
    <3>2. Idle(actives[v][f])
      BY <3>1 DEF Life, Held, Idle
    <3> QED
      BY <1>3, <3>1, <3>2
  <2> QED
    BY <1>1, <1>2, <2>1 DEF AtHand, Swept
<1> QED
  BY <1>4, <1>5, <1>6, <1>7 DEF AtHand

LEMMA MappedKept ==
    ASSUME TypeInv, Life, actives' = actives,
           \A c \in Conns : /\ conn'[c].owner = conn[c].owner /\ (reg'[c] = "none" <=> reg[c] = "none")
                            /\ reg[c] # "none" => conn'[c].fd = conn[c].fd,
           \A w \in Workers, f \in Fds : actives[w][f] # NoConn => fdt'[f] = fdt[f]
    PROVE  Mapped'
<1>1. ASSUME NEW w \in Workers, NEW f \in Fds, actives[w][f] # NoConn
      PROVE  /\ fdt'[f] = actives[w][f] /\ conn'[actives[w][f]].owner = w /\ reg'[actives[w][f]] # "none"
  <2>1. actives[w][f] \in Conns /\ fdt[f] = actives[w][f] /\ conn[actives[w][f]].owner = w /\ reg[actives[w][f]] # "none"
    BY <1>1, Entry
  <2> QED
    BY <1>1, <2>1
<1>2. \A c \in Conns : reg'[c] # "none" => conn'[c].fd \in Fds /\ actives[conn'[c].owner][conn'[c].fd] = c
  BY DEF Life, Mapped
<1> QED
  BY <1>1, <1>2 DEF Mapped

LEMMA HeldKept ==
    ASSUME TypeInv, Life, NEW t \in tasks, fdt'[t.fd] = fdt[t.fd], conn'[t.conn].owner = conn[t.conn].owner,
           t.at # "drop" => reg'[t.conn] = reg[t.conn] /\ conn'[t.conn].stale = conn[t.conn].stale,
           \A s \in tasks' : s.conn = t.conn /\ s.at # "drop" => s \in tasks
    PROVE  Held(t)'
<1>1. Held(t)
  BY DEF Life
<1> QED
  BY <1>1 DEF Held

LEMMA KnownKept ==
    ASSUME TypeInv, Life, UNCHANGED book, \A w \in Workers : thr'[w].pend = thr[w].pend,
           \A c \in Conns : conn'[c].owner = conn[c].owner /\ (Captured(c, tasks) => Captured(c, tasks')),
           fdt' = fdt
    PROVE  Known'
<1>1. actives' = actives /\ count' = count
  BY DEF book
<1>2. Entries' = Entries
  BY <1>1 DEF Entries
<1>3. ASSUME NEW f \in Fds, fdt[f] # NoConn
      PROVE  \/ \E w \in Workers : thr'[w].pend = fdt[f]
             \/ actives[conn'[fdt[f]].owner][f] = fdt[f]
             \/ Captured(fdt[f], tasks')
  <2>1. fdt[f] \in Conns
    BY <1>3 DEF TypeInv, FilesType
  <2> QED
    BY <1>3, <2>1 DEF Life, Known
<1>4. count' = Cardinality(Entries')
  BY <1>1, <1>2 DEF Life, Known
<1> QED
  BY <1>1, <1>3, <1>4 DEF Known

\* A step of thread w that concerns only connections of its own that no task is
\* at work on, and leaves the books and the descriptors alone.
Inner(w) ==
    /\ Turns(w) /\ thr'[w].pc # "exit" /\ thr'[w].pend = thr[w].pend
    /\ UNCHANGED <<fdt, book, running, tasks, crashed>> /\ ~stray'
    /\ \A c \in Conns :
           /\ Ident(c)
           /\ \/ reg'[c] = reg[c] /\ conn'[c].stale = conn[c].stale
              \/ conn[c].owner = w /\ Idle(c) /\ reg[c] # "none" /\ reg'[c] # "none"

LEMMA InnerStep ==
    ASSUME TypeInv, Life, NEW w \in Workers, Inner(w), AtHand(w)'
    PROVE  Life'
<1>1. /\ fdt' = fdt /\ actives' = actives /\ tasks' = tasks /\ ~stray' /\ running' = running
      /\ crashed' = crashed /\ UNCHANGED book
  BY DEF Inner, book
<1>2. \A v \in Workers \ {w} : thr'[v] = thr[v]
  BY DEF Inner, Turns
<1>3. \A c \in Conns : conn'[c].owner = conn[c].owner /\ conn'[c].fd = conn[c].fd
  BY DEF Inner, Ident, Life, Quiet
<1>4. Quiet'
  BY <1>1, <1>2 DEF Life, Quiet, Inner
<1>5. Mapped'
  BY <1>1, <1>3, MappedKept DEF Inner
<1>6. Known'
  BY <1>1, <1>2, <1>3, KnownKept DEF Inner
<1>7. ASSUME NEW t \in tasks PROVE Held(t)'
  <2>1. t.conn \in Conns
    BY DEF TypeInv, Tasks
  <2>2. t.at # "drop" => ~Idle(t.conn)
    BY DEF Idle
  <2>3. t.at # "drop" => reg'[t.conn] = reg[t.conn] /\ conn'[t.conn].stale = conn[t.conn].stale
    BY <2>1, <2>2 DEF Inner
  <2> QED
    BY <1>1, <1>3, <2>1, <2>3, HeldKept
<1>8. ASSUME NEW v \in Workers \ {w} PROVE AtHand(v)'
  <2>1. \A c \in Conns : conn[c].owner = v => /\ reg'[c] = reg[c] /\ conn'[c].stale = conn[c].stale
                                             /\ Idle(c)' <=> Idle(c)
    BY <1>1 DEF Inner, Idle
  <2>2. Apart(v)
    BY <1>1, <1>2, <1>3, <2>1 DEF Apart
  <2> QED
    BY <2>2, AtHandKept
<1> QED
  BY <1>1, <1>4, <1>5, <1>6, <1>7, <1>8 DEF Life

(***************************************************************************)
(* The steps of an epoll thread that leave the books alone.                *)
(***************************************************************************)

\* The thread has nothing in hand afterwards, and only events it had before, of
\* connections that are left alone.
LEMMA Unburdened ==
    ASSUME TypeInv, Life, NEW w \in Workers, actives'[w] = actives[w], tasks' = tasks,
           thr'[w].pc \in {"poll", "events", "accept", "sweep"}, thr'[w].pend = NoConn, thr'[w].idle = {},
           thr'[w].batch \subseteq thr[w].batch, thr'[w].pc \in {"poll", "sweep"} => thr'[w].batch = {},
           \A e \in thr'[w].batch : e.ev # "listen" => reg'[actives[w][e.fd]] = reg[actives[w][e.fd]]
    PROVE  AtHand(w)'
<1>1. Batched(w)
  BY DEF Life, AtHand
<1>2. Pending(w)' /\ Handled(w)' /\ Swept(w)'
  BY DEF Pending, Handled, Swept, Serving
<1>3. Batched(w)'
  <2>1. ASSUME NEW e \in thr'[w].batch, e.ev # "listen"
        PROVE  /\ actives'[w][e.fd] # NoConn /\ reg'[actives'[w][e.fd]] = "off" /\ Idle(actives[w][e.fd])
               /\ \A d \in thr'[w].batch : d.fd = e.fd => d = e
    BY <1>1, <2>1 DEF Batched
  <2> QED
    BY <2>1 DEF Batched, Idle
<1> QED
  BY <1>2, <1>3 DEF AtHand

\* What a thread that is not in the middle of an accept or a sweep has in hand.
LEMMA Spare ==
    ASSUME TypeInv, Life, NEW w \in Workers
    PROVE  /\ thr[w].pc # "register" => thr[w].pend = NoConn
           /\ thr[w].pc # "sweep" => thr[w].idle = {}
  BY DEF Life, AtHand, Pending, Swept

\* The threads' moves that change no connection and no registration.
LEMMA MovesLife ==
    ASSUME TypeInv, Life, NEW w \in Workers, NEW from, NEW to,
           from \in {"sweep", "accept"}, to \in {"poll", "events"}, WGoto(w, from, to), from = "sweep" => thr[w].idle = {},
           to = "poll" => from = "sweep",
           UNCHANGED <<conn, kernel, book, running, tasks, crashed>>
    PROVE  Life'
<1>1. /\ Turns(w) /\ thr[w].pc = from /\ thr'[w].pc = to /\ thr'[w].batch = thr[w].batch
      /\ thr'[w].pend = thr[w].pend /\ thr'[w].idle = thr[w].idle
  BY WGotoIs
<1>2. thr[w].pend = NoConn /\ thr[w].idle = {}
  BY <1>1, Spare
<1>3. from = "sweep" => thr[w].batch = {}
  BY <1>1 DEF Life, AtHand, Batched
<1>4. fdt' = fdt /\ reg' = reg /\ stray' = stray /\ actives' = actives
  BY DEF kernel, book
<1>5. Inner(w)
  BY <1>1, <1>4 DEF Inner, Ident, Life, Quiet
<1>6. AtHand(w)'
  BY <1>1, <1>2, <1>3, <1>4, Unburdened
<1> QED
  BY <1>5, <1>6, InnerStep

LEMMA EventLife ==
    ASSUME TypeInv, Life, NEW w \in Workers, NEW e, EventListen(w, e) \/ EventOut(w, e)
    PROVE  Life'
<1>1. PICK ev, to : TakeEvent(w, e, ev, to) /\ to \in {"accept", "events"}
  BY DEF EventListen, EventOut
<1>2. /\ Turns(w) /\ thr[w].pc = "events" /\ thr'[w].pc = to /\ thr'[w].batch = thr[w].batch \ {e}
      /\ thr'[w].pend = thr[w].pend /\ thr'[w].idle = thr[w].idle
  BY <1>1, TakeEventIs
<1>3. thr[w].pend = NoConn /\ thr[w].idle = {}
  BY <1>2, Spare
<1>4. UNCHANGED <<conn, kernel, book, running, tasks, crashed>>
  BY DEF EventListen, EventOut
<1>5. fdt' = fdt /\ reg' = reg /\ stray' = stray /\ actives' = actives
  BY <1>4 DEF kernel, book
<1>6. Inner(w)
  BY <1>1, <1>2, <1>4, <1>5 DEF Inner, Ident, Life, Quiet
<1>7. AtHand(w)'
  BY <1>1, <1>2, <1>3, <1>4, <1>5, Unburdened
<1> QED
  BY <1>6, <1>7, InnerStep

LEMMA SweepCollectLife ==
    ASSUME TypeInv, Life, NEW w \in Workers, SweepCollect(w)
    PROVE  Life'
<1>1. /\ Turns(w) /\ thr[w].pc = "events" /\ thr[w].batch = {} /\ thr'[w].pc = "sweep"
      /\ thr'[w].pend = thr[w].pend /\ thr'[w].batch = thr[w].batch
      /\ thr'[w].idle = {f \in Fds : actives[w][f] # NoConn /\ conn[actives[w][f]].stale}
  BY SweepCollectIs
<1>2. UNCHANGED <<conn, kernel, book, running, tasks, crashed>>
  BY DEF SweepCollect
<1>3. fdt' = fdt /\ reg' = reg /\ stray' = stray /\ actives' = actives
  BY <1>2 DEF kernel, book
<1>4. Inner(w)
  BY <1>1, <1>2, <1>3 DEF Inner, Ident, Life, Quiet
<1>5. thr[w].pend = NoConn
  BY <1>1, Spare
<1>6. Pending(w)' /\ Batched(w)' /\ Handled(w)'
  BY <1>1, <1>5 DEF Pending, Batched, Handled, Serving
<1>7. Swept(w)'
  BY <1>1, <1>2, <1>3 DEF Swept
<1> QED
  BY <1>4, <1>6, <1>7, InnerStep DEF AtHand

\* A handler takes over from the event.
LEMMA EventInLife ==
    ASSUME TypeInv, Life, NEW w \in Workers, NEW e, EventIn(w, e)
    PROVE  Life'
<1>1. e \in thr[w].batch /\ e.ev = "in" /\ thr[w].pc = "events"
  BY DEF EventIn, TakeEvent
<1>2. e.fd \in Fds
  BY <1>1 DEF TypeInv, ThreadsType, ThrType
<1>3. PICK c : c = actives[w][e.fd]
  OBVIOUS
<1>4. /\ c # NoConn /\ reg[c] = "off" /\ Idle(c) /\ \A d \in thr[w].batch : d.fd = e.fd => d = e
  BY <1>1, <1>3 DEF Life, AtHand, Batched
<1>5. c \in Conns /\ conn[c].owner = w
  BY <1>2, <1>3, <1>4, Entry
<1>6. PICK to \in {"read", "handshake"} : TakeEvent(w, e, "in", to)
  BY <1>3, <1>4 DEF EventIn
<1>7. conn' = [conn EXCEPT ![c].stale = FALSE] /\ UNCHANGED <<kernel, book, running, tasks, crashed>>
  BY <1>3, <1>4 DEF EventIn
<1>8. /\ Turns(w) /\ thr'[w].pc = to /\ thr'[w].batch = thr[w].batch \ {e} /\ thr'[w].cur = e.fd
      /\ thr'[w].pend = thr[w].pend /\ thr'[w].idle = thr[w].idle
  BY <1>6, TakeEventIs
<1>9. thr[w].pend = NoConn /\ thr[w].idle = {}
  BY <1>1, Spare
<1>10. fdt' = fdt /\ reg' = reg /\ stray' = stray /\ actives' = actives
  BY <1>7 DEF kernel, book
<1>11. Changes(c) /\ Ident(c) /\ conn'[c].stale = FALSE
  BY <1>5, <1>7, StaleIs
<1>12. \A d \in Conns : Ident(d) /\ (d # c => conn'[d].stale = conn[d].stale)
  BY <1>11 DEF Changes, Ident
<1>13. Inner(w)
  BY <1>4, <1>5, <1>6, <1>7, <1>8, <1>10, <1>12 DEF Inner, Life, Quiet
<1>14. Pending(w)' /\ Swept(w)'
  BY <1>8, <1>9 DEF Pending, Swept
<1>15. Batched(w)'
  <2>1. ASSUME NEW d \in thr'[w].batch, d.ev # "listen"
        PROVE  /\ actives'[w][d.fd] # NoConn /\ reg'[actives'[w][d.fd]] = "off" /\ Idle(actives[w][d.fd])
               /\ \A x \in thr'[w].batch : x.fd = d.fd => x = d
    BY <1>8, <1>10, <2>1 DEF Life, AtHand, Batched
  <2>2. thr'[w].pc \notin {"poll", "sweep"}
    BY <1>6, <1>8
  <2> QED
    BY <1>7, <1>10, <2>1, <2>2 DEF Batched, Idle
<1>16. Handled(w)'
  <2>1. Here(w)' = c
    BY <1>3, <1>8, <1>10 DEF Here
  <2>2. reg'[c] = "off" /\ Idle(c)' /\ ~conn'[c].stale
    BY <1>4, <1>7, <1>10, <1>11 DEF Idle
  <2>3. \A d \in thr'[w].batch : d.fd # thr'[w].cur
    BY <1>4, <1>8
  <2> QED
    BY <2>1, <2>2, <2>3 DEF Handled, Idle
<1> QED
  BY <1>13, <1>14, <1>15, <1>16, InnerStep DEF AtHand

\* What a handler has in hand.
LEMMA HandFacts ==
    ASSUME TypeInv, Life, NEW w \in Workers, thr[w].pc \in Serving, NEW c, c = Here(w)
    PROVE  /\ thr[w].cur \in Fds /\ c \in Conns /\ c = actives[w][thr[w].cur] /\ c # NoConn
           /\ fdt[thr[w].cur] = c /\ conn[c].owner = w /\ conn[c].fd = thr[w].cur /\ conn[c].link = "accepted"
           /\ Registered(w, thr[w].cur)
           /\ reg[c] = "off" /\ Idle(c) /\ ~conn[c].stale
           /\ \A e \in thr[w].batch : e.fd # thr[w].cur
           /\ thr[w].pend = NoConn /\ thr[w].idle = {}
<1>1. thr[w].cur \in Fds /\ c \in Conns /\ c = actives[w][thr[w].cur] /\ c # NoConn
  BY InHand, EnvironmentOK DEF Here
<1>2. /\ fdt[thr[w].cur] = c /\ conn[c].owner = w /\ conn[c].fd = thr[w].cur /\ conn[c].link = "accepted"
      /\ Registered(w, thr[w].cur)
  BY <1>1, Entry
<1>3. /\ reg[c] = "off" /\ Idle(c) /\ ~conn[c].stale /\ \A e \in thr[w].batch : e.fd # thr[w].cur
  BY DEF Life, AtHand, Handled
<1>4. thr[w].pend = NoConn /\ thr[w].idle = {}
  BY Spare DEF Serving
<1> QED
  BY <1>1, <1>2, <1>3, <1>4

\* The handler goes on with the connection it has.
LEMMA ServingLife ==
    ASSUME TypeInv, Life, NEW w \in Workers, HandshakeDone(w) \/ ReadData(w)
    PROVE  Life'
<1>1. PICK from \in Serving, to \in Serving : WGoto(w, from, to)
  BY DEF HandshakeDone, ReadData, Serving
<1>2. /\ Turns(w) /\ thr[w].pc = from /\ thr'[w].pc = to /\ thr'[w].batch = thr[w].batch
      /\ thr'[w].cur = thr[w].cur /\ thr'[w].pend = thr[w].pend /\ thr'[w].idle = thr[w].idle
  BY <1>1, WGotoIs
<1>3. PICK c : c = Here(w)
  OBVIOUS
<1>4. c \in Conns /\ thr[w].pend = NoConn /\ thr[w].idle = {}
  BY <1>2, <1>3, HandFacts
<1>5. UNCHANGED <<kernel, book, running, tasks, crashed>>
  BY DEF HandshakeDone, ReadData
<1>6. fdt' = fdt /\ reg' = reg /\ stray' = stray /\ actives' = actives
  BY <1>5 DEF kernel, book
<1>7. Changes(c) /\ Ident(c) /\ conn'[c].stale = conn[c].stale
  <2>1. CASE HandshakeDone(w)
    BY <1>3, <1>4, <2>1, TlsIs DEF HandshakeDone
  <2>2. CASE ReadData(w)
    <3>1. conn' = [conn EXCEPT ![c] = [@ EXCEPT !.buf = conn[c].buf \o conn[c].inq, !.inq = << >>]]
      BY <1>3, <2>2 DEF ReadData
    <3> QED
      BY <1>4, <3>1, ReadIs DEF Ends
  <2> QED
    BY <2>1, <2>2
<1>8. \A d \in Conns : Ident(d) /\ conn'[d].stale = conn[d].stale
  BY <1>7 DEF Changes, Ident
<1>9. Inner(w)
  BY <1>1, <1>2, <1>5, <1>6, <1>8 DEF Inner, Serving, Life, Quiet
<1>10. Pending(w)' /\ Swept(w)'
  BY <1>1, <1>2, <1>4 DEF Pending, Swept, Serving
<1>11. Batched(w)'
  <2>1. Batched(w) /\ thr'[w].pc \notin {"poll", "sweep"}
    BY <1>1, <1>2 DEF Life, AtHand, Serving
  <2> QED
    BY <1>2, <1>5, <1>6, <2>1 DEF Batched, Idle
<1>12. Handled(w)'
  <2>1. Handled(w) /\ Here(w)' = c
    BY <1>2, <1>3, <1>6 DEF Life, AtHand, Here
  <2> QED
    BY <1>2, <1>3, <1>4, <1>5, <1>6, <1>8, <2>1 DEF Handled, Idle
<1> QED
  BY <1>9, <1>10, <1>11, <1>12, InnerStep DEF AtHand

\* The handler re-arms the registration it has, and returns.
LEMMA RearmIs ==
    ASSUME TypeInv, Life, NEW w \in Workers, NEW mask, thr[w].pc \in Serving, HandlerRearm(w, mask),
           NEW c, c = Here(w)
    PROVE  reg' = [reg EXCEPT ![c] = mask] /\ fdt' = fdt /\ ~stray' /\ crashed' = crashed
<1>1. fdt[thr[w].cur] = c /\ actives[w][thr[w].cur] = c /\ Registered(w, thr[w].cur)
  BY HandFacts
<1>2. Arm(c, thr[w].cur, mask) /\ crashed' = crashed
  BY <1>1 DEF HandlerRearm
<1> QED
  BY <1>1, <1>2 DEF Arm, Life, Quiet

LEMMA RearmLife ==
    ASSUME TypeInv, Life, NEW w \in Workers, NEW from \in Serving, NEW mask \in {"in", "out"},
           WGoto(w, from, "events"), HandlerRearm(w, mask), UNCHANGED <<book, running, tasks>>,
           \A d \in Conns : Ident(d) /\ conn'[d].stale = conn[d].stale
    PROVE  Life'
<1>1. /\ Turns(w) /\ thr[w].pc = from /\ thr'[w].pc = "events" /\ thr'[w].batch = thr[w].batch
      /\ thr'[w].pend = thr[w].pend /\ thr'[w].idle = thr[w].idle
  BY WGotoIs
<1>2. PICK c : c = Here(w)
  OBVIOUS
<1>3. /\ c \in Conns /\ thr[w].pend = NoConn /\ thr[w].idle = {} /\ conn[c].owner = w /\ Idle(c) /\ reg[c] = "off"
      /\ fdt[thr[w].cur] = c /\ thr[w].cur \in Fds /\ conn[c].fd = thr[w].cur
      /\ \A e \in thr[w].batch : e.fd # thr[w].cur
  BY <1>1, <1>2, HandFacts
<1>4. reg' = [reg EXCEPT ![c] = mask] /\ fdt' = fdt /\ ~stray' /\ crashed' = crashed
  BY <1>1, <1>2, RearmIs
<1>5. actives' = actives
  BY DEF book
<1>6. reg'[c] = mask /\ \A d \in Conns \ {c} : reg'[d] = reg[d]
  BY <1>3, <1>4 DEF TypeInv, FilesType
<1>7. Inner(w)
  BY <1>1, <1>3, <1>4, <1>6 DEF Inner
<1>8. ASSUME NEW e \in thr[w].batch, e.ev # "listen" PROVE reg'[actives[w][e.fd]] = reg[actives[w][e.fd]]
  <2>1. e.fd \in Fds /\ actives[w][e.fd] # NoConn
    BY <1>8 DEF TypeInv, ThreadsType, ThrType, Life, AtHand, Batched
  <2>2. actives[w][e.fd] \in Conns /\ conn[actives[w][e.fd]].fd = e.fd
    BY <2>1, Entry
  <2>3. actives[w][e.fd] # c
    BY <1>3, <1>8, <2>2
  <2> QED
    BY <1>6, <2>2, <2>3
<1>9. AtHand(w)'
  BY <1>1, <1>3, <1>5, <1>8, Unburdened
<1> QED
  BY <1>7, <1>9, InnerStep

LEMMA RearmsLife ==
    ASSUME TypeInv, Life, NEW w \in Workers,
           \/ HandshakeWantsRead(w) \/ HandshakeWantsWrite(w) \/ LoopIncomplete(w) \/ LoopUpgrade(w)
    PROVE  Life'
<1>1. PICK from \in Serving, mask \in {"in", "out"} :
          WGoto(w, from, "events") /\ HandlerRearm(w, mask) /\ UNCHANGED <<book, running, tasks>>
  BY DEF HandshakeWantsRead, HandshakeWantsWrite, HandshakeWants, LoopIncomplete, LoopUpgrade, Serving
<1>2. thr[w].pc \in Serving
  BY <1>1 DEF WGoto
<1>3. PICK c \in Conns : c = Here(w)
  BY <1>2, InHand
<1>4. CASE LoopIncomplete(w)
  <2>1. \A d \in Conns : Ident(d) /\ conn'[d].stale = conn[d].stale
    BY <1>4 DEF LoopIncomplete, Ident
  <2> QED
    BY <1>1, <2>1, RearmLife
<1>5. CASE HandshakeWantsRead(w) \/ HandshakeWantsWrite(w) \/ LoopUpgrade(w)
  <2>1. Changes(c) /\ Ident(c) /\ conn'[c].stale = conn[c].stale
    <3>1. CASE LoopUpgrade(w)
      BY <1>3, <3>1, ServeIs DEF LoopUpgrade, Ends
    <3>2. CASE HandshakeWantsRead(w) \/ HandshakeWantsWrite(w)
      <4>1. PICK x : conn' = [conn EXCEPT ![c].tls = x]
        BY <1>3, <3>2 DEF HandshakeWantsRead, HandshakeWantsWrite, HandshakeWants
      <4> QED
        BY <4>1, TlsIs
    <3> QED
      BY <1>5, <3>1, <3>2
  <2>2. \A d \in Conns : Ident(d) /\ conn'[d].stale = conn[d].stale
    BY <2>1 DEF Changes, Ident
  <2> QED
    BY <1>1, <2>2, RearmLife
<1> QED
  BY <1>4, <1>5

\* epoll_wait takes the registrations it reports.
LEMMA PollLife ==
    ASSUME TypeInv, Life, NEW w \in Workers, Poll(w)
    PROVE  Life'
<1> DEFINE ready == {f \in Fds : EventOf(w, f) # "none"}
<1>1. /\ Turns(w) /\ thr[w].pc = "poll" /\ thr'[w].pc = "events"
      /\ thr'[w].pend = thr[w].pend /\ thr'[w].idle = thr[w].idle
      /\ thr'[w].batch = (IF Backlog(w) # {} THEN {[fd |-> 0, ev |-> "listen"]} ELSE {})
                         \cup {[fd |-> f, ev |-> EventOf(w, f)] : f \in ready}
      /\ reg' = [c \in Conns |-> IF \E f \in ready : fdt[f] = c THEN "off" ELSE reg[c]]
  BY PollIs
<1>2. ASSUME NEW f \in ready
      PROVE  /\ f \in Fds /\ EventOf(w, f) \in {"in", "out", "hup"} /\ fdt[f] \in Conns /\ actives[w][f] = fdt[f]
             /\ conn[fdt[f]].owner = w /\ reg[fdt[f]] \notin {"none", "off"} /\ Idle(fdt[f])
  <2>1. f \in Fds /\ EventOf(w, f) \in {"in", "out", "hup"} /\ Registered(w, f) /\ reg[fdt[f]] # "off"
    BY EventOfIs
  <2>2. fdt[f] \in Conns /\ conn[fdt[f]].owner = w /\ reg[fdt[f]] # "none" /\ conn[fdt[f]].fd = f
    BY <2>1 DEF Registered, TypeInv, FilesType
  <2>3. actives[w][f] = fdt[f]
    BY <2>2 DEF Life, Mapped
  <2>4. Idle(fdt[f])
    BY <2>1 DEF Life, Held, Idle
  <2> QED
    BY <2>1, <2>2, <2>3, <2>4
<1> HIDE DEF ready
<1>3. UNCHANGED <<conn, fdt, stray, book, running, tasks, crashed>> /\ actives' = actives
  BY DEF Poll, book
<1>4. thr[w].pend = NoConn /\ thr[w].idle = {}
  BY <1>1, Spare
<1>5. \A c \in Conns : \/ reg'[c] = reg[c]
                       \/ conn[c].owner = w /\ Idle(c) /\ reg[c] # "none" /\ reg'[c] = "off"
  BY <1>1, <1>2
<1>6. Inner(w)
  BY <1>1, <1>3, <1>5 DEF Inner, Ident, Life, Quiet
<1>7. Pending(w)' /\ Handled(w)' /\ Swept(w)'
  BY <1>1, <1>4 DEF Pending, Handled, Swept, Serving
<1>8. Batched(w)'
  <2>1. ASSUME NEW e \in thr'[w].batch, e.ev # "listen"
        PROVE  e.fd \in ready /\ e = [fd |-> e.fd, ev |-> EventOf(w, e.fd)]
    BY <1>1, <2>1
  <2>2. ASSUME NEW f \in ready
        PROVE  actives'[w][f] # NoConn /\ reg'[actives'[w][f]] = "off" /\ Idle(actives[w][f])
    BY <1>1, <1>2, <1>3, EnvironmentOK
  <2>3. ASSUME NEW e \in thr'[w].batch, e.ev # "listen", NEW d \in thr'[w].batch, d.fd = e.fd PROVE d = e
    <3>1. CASE d.ev = "listen"
      <4>1. d.fd \in ready
        BY <2>1, <2>3
      <4>2. d.fd \in Fds /\ d.fd # 0
        BY <1>2, <4>1, EnoughDescriptors
      <4>3. d = [fd |-> 0, ev |-> "listen"] \/ \E f \in ready : d = [fd |-> f, ev |-> EventOf(w, f)]
        BY <1>1
      <4> QED
        BY <1>2, <3>1, <4>2, <4>3
    <3>2. CASE d.ev # "listen"
      BY <2>1, <2>3, <3>2
    <3> QED
      BY <3>1, <3>2
  <2> QED
    BY <1>1, <1>3, <2>1, <2>2, <2>3 DEF Batched, Idle
<1> QED
  BY <1>6, <1>7, <1>8, InnerStep DEF AtHand

(***************************************************************************)
(* A connection is disconnected.                                           *)
(***************************************************************************)

LEMMA DisconnectIs ==
    ASSUME TypeInv, Life, NEW w \in Workers, NEW f \in Fds, NEW c, c = actives[w][f], c # NoConn, Disconnect(w, f)
    PROVE  /\ actives' = [actives EXCEPT ![w][f] = NoConn] /\ count' = count - 1 /\ crashed' = crashed /\ ~stray'
           /\ reg' = [d \in Conns |-> IF d = c THEN "none" ELSE reg[d]]
           /\ \/ ~Captured(c, tasks) /\ fdt' = [fdt EXCEPT ![f] = NoConn]
              \/ Captured(c, tasks) /\ fdt' = fdt
<1>1. Registered(w, f) /\ c \in Conns /\ fdt[f] = c
  BY Entry
<1>2. actives' = [actives EXCEPT ![w][f] = NoConn] /\ count' = count - 1 /\ crashed' = crashed
  BY <1>1 DEF Disconnect
<1>3. CASE ~Captured(c, tasks)
  <2>1. CloseFd(c, f)
    BY <1>1, <1>3 DEF Disconnect
  <2>2. /\ ~stray' /\ fdt' = [fdt EXCEPT ![f] = NoConn]
        /\ reg' = [d \in Conns |-> IF d = c THEN "none" ELSE reg[d]]
    BY <1>1, <2>1 DEF CloseFd, Life, Quiet
  <2> QED
    BY <1>2, <1>3, <2>2
<1>4. CASE Captured(c, tasks)
  <2>0. Arm(c, f, "none")
    BY <1>1, <1>4 DEF Disconnect
  <2>1. reg' = [reg EXCEPT ![c] = "none"] /\ fdt' = fdt /\ ~stray'
    BY <1>1, <2>0 DEF Arm, Life, Quiet
  <2>2. reg' = [d \in Conns |-> IF d = c THEN "none" ELSE reg[d]]
    BY <1>1, <2>1 DEF TypeInv, FilesType
  <2> QED
    BY <1>2, <1>4, <2>1, <2>2 DEF Life, Quiet
<1> QED
  BY <1>3, <1>4

LEMMA GoneLife ==
    ASSUME TypeInv, Life, NEW w \in Workers, NEW f \in Fds, NEW c, c = actives[w][f], c # NoConn, Idle(c),
           Disconnect(w, f), UNCHANGED <<running, tasks>>,
           \A d \in Conns : Ident(d) /\ conn'[d].stale = conn[d].stale,
           Turns(w), thr'[w].pc \in {"events", "sweep"}, thr[w].pc # "register", thr'[w].pend = thr[w].pend,
           thr'[w].batch \subseteq thr[w].batch, thr'[w].pc = "sweep" => thr'[w].batch = {},
           \A e \in thr'[w].batch : e.fd # f,
           thr'[w].idle \subseteq thr[w].idle \ {f}, thr'[w].idle # {} => thr'[w].pc = "sweep"
    PROVE  Life'
<1>1. /\ actives' = [actives EXCEPT ![w][f] = NoConn] /\ count' = count - 1 /\ crashed' = crashed /\ ~stray'
      /\ reg' = [d \in Conns |-> IF d = c THEN "none" ELSE reg[d]]
      /\ \/ ~Captured(c, tasks) /\ fdt' = [fdt EXCEPT ![f] = NoConn]
         \/ Captured(c, tasks) /\ fdt' = fdt
  BY DisconnectIs
<1>2. c \in Conns /\ fdt[f] = c /\ conn[c].owner = w /\ conn[c].fd = f /\ reg[c] # "none"
  BY Entry
<1>3. /\ actives'[w][f] = NoConn
      /\ \A v \in Workers, g \in Fds : v # w \/ g # f => actives'[v][g] = actives[v][g]
      /\ \A v \in Workers : v # w => actives'[v] = actives[v]
  BY <1>1 DEF TypeInv, BookType
<1>4. reg'[c] = "none" /\ \A d \in Conns \ {c} : reg'[d] = reg[d]
  BY <1>1, <1>2
<1>5. \A g \in Fds : g # f => fdt'[g] = fdt[g]
  BY <1>1 DEF TypeInv, FilesType
<1>6. fdt'[f] = NoConn \/ (Captured(c, tasks) /\ fdt'[f] = c)
  BY <1>1, <1>2 DEF TypeInv, FilesType
<1>7. \A d \in Conns : conn'[d].owner = conn[d].owner /\ conn'[d].fd = conn[d].fd
  BY DEF Ident
<1>8. tasks' = tasks /\ running' = running /\ \A v \in Workers \ {w} : thr'[v] = thr[v]
  BY DEF Turns
<1>9. Quiet'
  BY <1>1, <1>8 DEF Life, Quiet
<1>10. Mapped'
  <2>1. ASSUME NEW v \in Workers, NEW g \in Fds, actives'[v][g] # NoConn
        PROVE  /\ fdt'[g] = actives'[v][g] /\ conn'[actives'[v][g]].owner = v /\ reg'[actives'[v][g]] # "none"
    <3>1. actives'[v][g] = actives[v][g] /\ actives[v][g] # NoConn /\ (v # w \/ g # f)
      BY <1>3, <2>1
    <3>2. PICK d : d = actives[v][g]
      OBVIOUS
    <3>3. d \in Conns /\ fdt[g] = d /\ conn[d].owner = v /\ conn[d].fd = g /\ reg[d] # "none"
      BY <3>1, <3>2, Entry
    <3>4. d # c
      BY <1>2, <3>1, <3>3
    <3>5. g # f
      BY <1>2, <3>3, <3>4
    <3> QED
      BY <1>4, <1>5, <1>7, <3>1, <3>2, <3>3, <3>4, <3>5
  <2>2. ASSUME NEW d \in Conns, reg'[d] # "none"
        PROVE  conn'[d].fd \in Fds /\ actives'[conn'[d].owner][conn'[d].fd] = d
    <3>1. d # c /\ reg[d] # "none"
      BY <1>4, <2>2
    <3>2. conn[d].fd \in Fds /\ actives[conn[d].owner][conn[d].fd] = d
      BY <3>1 DEF Life, Mapped
    <3>3. conn[d].owner \in Workers
      BY DEF TypeInv, ConnsType, ConnType
    <3>4. conn[d].owner # w \/ conn[d].fd # f
      BY <3>1, <3>2
    <3> QED
      BY <1>3, <1>7, <3>2, <3>3, <3>4
  <2> QED
    BY <2>1, <2>2 DEF Mapped
<1>11. ASSUME NEW t \in tasks PROVE Held(t)'
  <2>1. t.conn \in Conns /\ t.fd \in Fds /\ fdt[t.fd] = t.conn
    BY DEF TypeInv, Tasks, Life, Held
  <2>2. fdt'[t.fd] = fdt[t.fd]
    <3>1. CASE t.fd = f
      BY <1>2, <1>6, <1>1, <2>1, <3>1 DEF Captured
    <3> QED
      BY <1>5, <2>1, <3>1
  <2>3. t.at # "drop" => t.conn # c
    BY DEF Idle
  <2> QED
    BY <1>4, <1>7, <1>8, <2>1, <2>2, <2>3, HeldKept
<1>12. Known'
  <2>1. count' - Cardinality(Entries') = count - Cardinality(Entries) /\ BookType'
    BY <1>1, BookLess
  <2>2. count' = Cardinality(Entries')
    <3>1. PICK x, y : x = Cardinality(Entries) /\ y = Cardinality(Entries')
      OBVIOUS
    <3>2. x \in Nat /\ count = x
      BY <3>1, EntriesFinite DEF Life, Known
    <3>3. y \in Nat
      <4>1. Entries' \subseteq Entries
        BY <1>3 DEF Entries
      <4> QED
        BY <3>1, <4>1, EntriesFinite, FS_Subset, FS_CardinalityType
    <3>4. count' \in Nat
      BY <2>1 DEF BookType
    <3> QED
      BY <2>1, <3>1, <3>2, <3>3, <3>4
  <2>3. ASSUME NEW g \in Fds, fdt'[g] # NoConn
        PROVE  \/ \E v \in Workers : thr'[v].pend = fdt'[g]
               \/ actives'[conn'[fdt'[g]].owner][g] = fdt'[g]
               \/ Captured(fdt'[g], tasks')
    <3>1. CASE g = f
      BY <1>6, <1>8, <2>3, <3>1
    <3>2. CASE g # f
      <4>1. fdt'[g] = fdt[g] /\ fdt[g] \in Conns
        BY <1>5, <2>3, <3>2 DEF TypeInv, FilesType
      <4>2. \A v \in Workers : thr'[v].pend = thr[v].pend
        BY <1>8
      <4>3. conn[fdt[g]].owner \in Workers
        BY <4>1 DEF TypeInv, ConnsType, ConnType
      <4>4. actives'[conn[fdt[g]].owner][g] = actives[conn[fdt[g]].owner][g]
        BY <1>3, <3>2, <4>3
      <4> QED
        BY <1>7, <1>8, <2>3, <4>1, <4>2, <4>4 DEF Life, Known
    <3> QED
      BY <3>1, <3>2
  <2> QED
    BY <2>2, <2>3 DEF Known
<1>13. ASSUME NEW v \in Workers \ {w} PROVE AtHand(v)'
  <2>1. \A d \in Conns : conn[d].owner = v => d # c /\ (Idle(d)' <=> Idle(d))
    BY <1>2, <1>8 DEF Idle
  <2>2. \A g \in Fds : fdt[g] \in Conns /\ conn[fdt[g]].owner = v => fdt'[g] = fdt[g]
    BY <1>2, <1>5
  <2>3. Apart(v)
    BY <1>3, <1>4, <1>7, <1>8, <2>1, <2>2 DEF Apart
  <2> QED
    BY <2>3, AtHandKept
<1>14. AtHand(w)'
  <2>1. thr[w].pend = NoConn
    BY Spare
  <2>2. Pending(w)' /\ Handled(w)'
    BY <2>1 DEF Pending, Handled, Serving
  <2>3. Batched(w)'
    <3>1. ASSUME NEW e \in thr'[w].batch, e.ev # "listen"
          PROVE  /\ actives'[w][e.fd] = actives[w][e.fd] /\ actives[w][e.fd] # NoConn
                 /\ reg'[actives[w][e.fd]] = "off" /\ Idle(actives[w][e.fd])
                 /\ \A d \in thr'[w].batch : d.fd = e.fd => d = e
      <4>1. /\ e.fd \in Fds /\ actives[w][e.fd] # NoConn /\ reg[actives[w][e.fd]] = "off" /\ Idle(actives[w][e.fd])
            /\ \A d \in thr[w].batch : d.fd = e.fd => d = e
        BY <3>1 DEF TypeInv, ThreadsType, ThrType, Life, AtHand, Batched
      <4>2. actives[w][e.fd] \in Conns /\ conn[actives[w][e.fd]].fd = e.fd
        BY <4>1, Entry
      <4>3. actives[w][e.fd] # c
        BY <1>2, <3>1, <4>2
      <4> QED
        BY <1>3, <1>4, <3>1, <4>1, <4>2, <4>3
    <3> QED
      BY <1>8, <3>1 DEF Batched, Idle
  <2>4. Swept(w)'
    <3>1. ASSUME NEW g \in thr'[w].idle
          PROVE  /\ actives'[w][g] = actives[w][g] /\ actives[w][g] # NoConn /\ conn'[actives[w][g]].stale
      <4>1. g \in Fds /\ g # f /\ actives[w][g] # NoConn /\ conn[actives[w][g]].stale
        BY <3>1 DEF TypeInv, ThreadsType, ThrType, Life, AtHand, Swept
      <4>2. actives[w][g] \in Conns
        BY <4>1, Entry
      <4> QED
        BY <1>3, <4>1, <4>2
    <3> QED
      BY <3>1 DEF Swept
  <2> QED
    BY <2>2, <2>3, <2>4 DEF AtHand
<1> QED
  BY <1>8, <1>9, <1>10, <1>11, <1>12, <1>13, <1>14 DEF Life

LEMMA EventHupLife ==
    ASSUME TypeInv, Life, NEW w \in Workers, NEW e, EventHup(w, e)
    PROVE  Life'
<1>1. TakeEvent(w, e, "hup", "events") /\ Disconnect(w, e.fd) /\ UNCHANGED <<conn, running, tasks>>
  BY DEF EventHup
<1>2. /\ Turns(w) /\ thr[w].pc = "events" /\ e \in thr[w].batch /\ e.ev = "hup"
      /\ thr'[w].pc = "events" /\ thr'[w].batch = thr[w].batch \ {e}
      /\ thr'[w].pend = thr[w].pend /\ thr'[w].idle = thr[w].idle
  BY <1>1, TakeEventIs
<1>3. PICK c, f : c = actives[w][e.fd] /\ f = e.fd
  OBVIOUS
<1>4. f \in Fds /\ c # NoConn /\ Idle(c) /\ \A d \in thr[w].batch : d.fd = f => d = e
  BY <1>2, <1>3 DEF TypeInv, ThreadsType, ThrType, Life, AtHand, Batched
<1>5. thr[w].idle = {} /\ \A d \in Conns : Ident(d) /\ conn'[d].stale = conn[d].stale
  BY <1>1, <1>2, Spare DEF Ident
<1> QED
  BY <1>1, <1>2, <1>3, <1>4, <1>5, GoneLife

LEMMA SweepOneLife ==
    ASSUME TypeInv, Life, NEW w \in Workers, NEW f \in Fds, SweepOne(w, f)
    PROVE  Life'
<1>1. /\ Turns(w) /\ thr[w].pc = "sweep" /\ f \in thr[w].idle /\ thr'[w].pc = thr[w].pc
      /\ thr'[w].pend = thr[w].pend /\ thr'[w].batch = thr[w].batch /\ thr'[w].idle = thr[w].idle \ {f}
  BY SweepOneIs
<1>2. Disconnect(w, f) /\ UNCHANGED <<conn, running, tasks>>
  BY DEF SweepOne
<1>3. PICK c : c = actives[w][f]
  OBVIOUS
<1>4. c # NoConn /\ conn[c].stale /\ thr[w].batch = {}
  BY <1>1, <1>3 DEF Life, AtHand, Swept, Batched
<1>5. Idle(c)
  BY <1>4 DEF Life, Held, Idle
<1>6. \A d \in Conns : Ident(d) /\ conn'[d].stale = conn[d].stale
  BY <1>2 DEF Ident
<1> QED
  BY <1>1, <1>2, <1>3, <1>4, <1>5, <1>6, GoneLife

\* The handler gives the connection up.
LEMMA GivesUpLife ==
    ASSUME TypeInv, Life, NEW w \in Workers, HandshakeFails(w) \/ LoopSendThrows(w) \/ ReadEnd(w) \/ LoopDisconnect(w)
    PROVE  Life'
<1>1. PICK from \in Serving : WGoto(w, from, "events")
  BY DEF HandshakeFails, LoopSendThrows, ReadEnd, LoopDisconnect, Serving
<1>2. Disconnect(w, thr[w].cur) /\ UNCHANGED <<running, tasks>>
  BY DEF HandshakeFails, LoopSendThrows, ReadEnd, LoopDisconnect
<1>3. /\ Turns(w) /\ thr[w].pc = from /\ thr'[w].pc = "events" /\ thr'[w].batch = thr[w].batch
      /\ thr'[w].pend = thr[w].pend /\ thr'[w].idle = thr[w].idle
  BY <1>1, WGotoIs
<1>4. PICK c, f : c = Here(w) /\ f = thr[w].cur
  OBVIOUS
<1>5. /\ f \in Fds /\ c \in Conns /\ c = actives[w][f] /\ c # NoConn /\ Idle(c)
      /\ \A e \in thr[w].batch : e.fd # f
      /\ thr[w].idle = {}
  BY <1>3, <1>4, HandFacts
<1>6. \A d \in Conns : Ident(d) /\ conn'[d].stale = conn[d].stale
  <2>1. CASE LoopDisconnect(w)
    <3>1. Changes(c) /\ Ident(c) /\ conn'[c].stale = conn[c].stale
      BY <1>4, <1>5, <2>1, ServeIs DEF LoopDisconnect, Ends
    <3> QED
      BY <3>1 DEF Changes, Ident
  <2>2. CASE HandshakeFails(w) \/ LoopSendThrows(w) \/ ReadEnd(w)
    BY <2>2 DEF HandshakeFails, LoopSendThrows, ReadEnd, Ident
  <2> QED
    BY <2>1, <2>2
<1>7. thr[w].pc # "register"
  BY <1>3 DEF Serving
<1> QED
  BY <1>2, <1>3, <1>4, <1>5, <1>6, <1>7, GoneLife

(***************************************************************************)
(* A connection is accepted.                                               *)
(***************************************************************************)

\* Nobody knows a connection that has not been accepted.
LEMMA Unknown ==
    ASSUME TypeInv, Life, NEW c \in Conns, conn[c].link # "accepted"
    PROVE  /\ reg[c] = "none" /\ ~Captured(c, tasks) /\ Idle(c)
           /\ \A w \in Workers : thr[w].pend # c
           /\ \A f \in Fds : fdt[f] # c
<1>1. \A f \in Fds : fdt[f] # c
  BY EnvironmentOK DEF TypeInv, FilesType
<1>2. ~Captured(c, tasks)
  BY <1>1 DEF Captured, Life, Held, TypeInv, Tasks
<1>3. reg[c] = "none"
  <2> SUFFICES ASSUME reg[c] # "none" PROVE FALSE
    OBVIOUS
  <2>1. conn[c].fd \in Fds /\ conn[c].owner \in Workers /\ actives[conn[c].owner][conn[c].fd] = c /\ c # NoConn
    BY EnvironmentOK DEF Life, Mapped, TypeInv, ConnsType, ConnType
  <2> QED
    BY <1>1, <2>1, Entry
<1>4. ASSUME NEW w \in Workers, thr[w].pend = c PROVE FALSE
  <2>1. thr[w].pc = "register" /\ fdt[thr[w].cur] = c
    BY <1>4, EnvironmentOK DEF Life, AtHand, Pending
  <2>2. thr[w].cur \in Fds
    BY <2>1 DEF TypeInv, ThreadsType, ThrType
  <2> QED
    BY <1>1, <2>1, <2>2
<1> QED
  BY <1>1, <1>2, <1>3, <1>4 DEF Captured, Idle

LEMMA AcceptSocketLife ==
    ASSUME TypeInv, Life, NEW w \in Workers, NEW c \in Conns, AcceptSocket(w, c)
    PROVE  Life'
<1>1. PICK f \in Fds :
          /\ fdt[f] = NoConn /\ fdt' = [fdt EXCEPT ![f] = c]
          /\ conn[c].link = "backlog" /\ conn[c].owner = w
          /\ Changes(c) /\ conn'[c].link = "accepted" /\ conn'[c].fd = f /\ conn'[c].owner = conn[c].owner
          /\ Flow(c) /\ Ends(c)
          /\ Turns(w) /\ thr[w].pc = "accept" /\ thr'[w].pc = "register" /\ thr'[w].cur = f /\ thr'[w].pend = c
          /\ thr'[w].batch = thr[w].batch /\ thr'[w].idle = thr[w].idle
  BY AcceptSocketIs
<1>2. /\ reg[c] = "none" /\ ~Captured(c, tasks) /\ Idle(c) /\ \A g \in Fds : fdt[g] # c
  BY <1>1, Unknown
<1>3. /\ reg' = reg /\ stray' = stray /\ actives' = actives /\ count' = count /\ running' = running
      /\ tasks' = tasks /\ crashed' = crashed
  BY DEF AcceptSocket, book
<1>4. fdt'[f] = c /\ \A g \in Fds \ {f} : fdt'[g] = fdt[g]
  BY <1>1 DEF TypeInv, FilesType
<1>5. \A d \in Conns : /\ conn'[d].owner = conn[d].owner /\ conn'[d].stale = conn[d].stale
                       /\ d # c => conn'[d].fd = conn[d].fd
  BY <1>1 DEF Changes, Ends
<1>6. \A v \in Workers \ {w} : thr'[v] = thr[v]
  BY <1>1 DEF Turns
<1>7. thr[w].pend = NoConn /\ thr[w].idle = {}
  BY <1>1, Spare
<1>8. Quiet'
  BY <1>1, <1>3, <1>6 DEF Life, Quiet
<1>9. Mapped'
  <2>1. \A v \in Workers, g \in Fds : actives[v][g] # NoConn => fdt'[g] = fdt[g]
    BY <1>1, <1>4 DEF Life, Mapped
  <2> QED
    BY <1>2, <1>3, <1>5, <2>1, MappedKept
<1>10. ASSUME NEW t \in tasks PROVE Held(t)'
  <2>1. t.conn \in Conns /\ t.fd \in Fds /\ fdt[t.fd] = t.conn
    BY DEF TypeInv, Tasks, Life, Held
  <2>2. fdt'[t.fd] = fdt[t.fd]
    BY <1>1, <1>4, <2>1, EnvironmentOK
  <2> QED
    BY <1>3, <1>5, <2>1, <2>2, HeldKept
<1>11. Known'
  <2>1. count' = Cardinality(Entries')
    <3>1. Entries' = Entries
      BY <1>3 DEF Entries
    <3> QED
      BY <1>3, <3>1 DEF Life, Known
  <2>2. ASSUME NEW g \in Fds, fdt'[g] # NoConn
        PROVE  \/ \E v \in Workers : thr'[v].pend = fdt'[g]
               \/ actives'[conn'[fdt'[g]].owner][g] = fdt'[g]
               \/ Captured(fdt'[g], tasks')
    <3>1. CASE g = f
      BY <1>1, <1>4, <3>1
    <3>2. CASE g # f
      <4>1. fdt'[g] = fdt[g] /\ fdt[g] \in Conns
        BY <1>4, <2>2, <3>2 DEF TypeInv, FilesType
      <4>2. \A v \in Workers : thr[v].pend = fdt[g] => thr'[v].pend = fdt[g]
        BY <1>6, <1>7, <4>1, EnvironmentOK
      <4> QED
        BY <1>3, <1>5, <2>2, <4>1, <4>2 DEF Life, Known
    <3> QED
      BY <3>1, <3>2
  <2> QED
    BY <2>1, <2>2 DEF Known
<1>12. ASSUME NEW v \in Workers \ {w} PROVE AtHand(v)'
  <2>1. \A g \in Fds : fdt[g] \in Conns => fdt'[g] = fdt[g]
    BY <1>1, <1>4, EnvironmentOK
  <2>2. \A d \in Conns : Idle(d)' <=> Idle(d)
    BY <1>3 DEF Idle
  <2>3. Apart(v)
    BY <1>3, <1>5, <1>6, <2>1, <2>2 DEF Apart
  <2> QED
    BY <2>3, AtHandKept
<1>13. AtHand(w)'
  <2>1. Pending(w)'
    BY <1>1, <1>2, <1>3, <1>4 DEF Pending
  <2>2. Batched(w)'
    BY <1>1, <1>3 DEF Life, AtHand, Batched, Idle
  <2>3. Handled(w)' /\ Swept(w)'
    BY <1>1, <1>7 DEF Handled, Swept, Serving
  <2> QED
    BY <2>1, <2>2, <2>3 DEF AtHand
<1> QED
  BY <1>3, <1>8, <1>9, <1>10, <1>11, <1>12, <1>13 DEF Life

LEMMA AcceptRegisterLife ==
    ASSUME TypeInv, Life, NEW w \in Workers, AcceptRegister(w)
    PROVE  Life'
<1>1. PICK c, f : c = thr[w].pend /\ f = thr[w].cur
  OBVIOUS
<1>2. /\ Turns(w) /\ thr[w].pc = "register" /\ thr'[w].pc = "accept" /\ thr'[w].pend = NoConn
      /\ thr'[w].batch = thr[w].batch /\ thr'[w].idle = thr[w].idle
      /\ f \in Fds /\ c \in Conns
      /\ actives' = [actives EXCEPT ![w][f] = c] /\ count' = count + 1
  BY <1>1, AcceptRegisterIs
<1>3. /\ fdt[f] = c /\ conn[c].owner = w /\ reg[c] = "none" /\ ~Captured(c, tasks) /\ Idle(c)
  BY <1>1, <1>2 DEF Life, AtHand, Pending, Captured, Idle
<1>4. conn[c].fd = f
  BY <1>2, <1>3, EnvironmentOK DEF TypeInv, FilesType
<1>5. actives[w][f] = NoConn
  <2>1. actives[w][f] # NoConn => fdt[f] = actives[w][f] /\ reg[actives[w][f]] # "none"
    BY <1>2, Entry
  <2> QED
    BY <1>3, <2>1
<1>6. Arm(c, f, "in") /\ crashed' = crashed /\ UNCHANGED <<conn, running, tasks>>
  BY <1>1, <1>2, <1>3, <1>5, EnvironmentOK DEF AcceptRegister
<1>7. reg'[c] = "in" /\ (\A d \in Conns \ {c} : reg'[d] = reg[d]) /\ fdt' = fdt /\ ~stray'
  BY <1>2, <1>3, <1>6 DEF Arm, Life, Quiet, TypeInv, FilesType
<1>8. /\ actives'[w][f] = c
      /\ \A v \in Workers, g \in Fds : v # w \/ g # f => actives'[v][g] = actives[v][g]
      /\ \A v \in Workers : v # w => actives'[v] = actives[v]
  BY <1>2 DEF TypeInv, BookType
<1>9. conn' = conn /\ tasks' = tasks /\ running' = running /\ \A v \in Workers \ {w} : thr'[v] = thr[v]
  BY <1>2, <1>6 DEF Turns
<1>10. Quiet'
  BY <1>2, <1>6, <1>7, <1>9 DEF Life, Quiet
<1>11. Mapped'
  <2>1. ASSUME NEW v \in Workers, NEW g \in Fds, actives'[v][g] # NoConn
        PROVE  /\ fdt'[g] = actives'[v][g] /\ conn'[actives'[v][g]].owner = v /\ reg'[actives'[v][g]] # "none"
    <3>1. CASE v = w /\ g = f
      BY <1>3, <1>7, <1>8, <1>9, <3>1
    <3>2. CASE v # w \/ g # f
      <4>1. actives'[v][g] = actives[v][g] /\ actives[v][g] # NoConn
        BY <1>8, <2>1, <3>2
      <4>2. PICK d : d = actives[v][g]
        OBVIOUS
      <4>3. d \in Conns /\ fdt[g] = d /\ conn[d].owner = v /\ reg[d] # "none"
        BY <4>1, <4>2, Entry
      <4> QED
        BY <1>3, <1>7, <1>9, <4>1, <4>2, <4>3
    <3> QED
      BY <3>1, <3>2
  <2>2. ASSUME NEW d \in Conns, reg'[d] # "none"
        PROVE  conn'[d].fd \in Fds /\ actives'[conn'[d].owner][conn'[d].fd] = d
    <3>1. CASE d = c
      BY <1>2, <1>3, <1>4, <1>8, <1>9, <3>1
    <3>2. CASE d # c
      <4>1. conn[d].fd \in Fds /\ actives[conn[d].owner][conn[d].fd] = d /\ conn[d].owner \in Workers
        BY <1>7, <2>2, <3>2 DEF Life, Mapped, TypeInv, ConnsType, ConnType
      <4>2. conn[d].owner # w \/ conn[d].fd # f
        BY <1>5, <4>1, EnvironmentOK
      <4> QED
        BY <1>8, <1>9, <4>1, <4>2
    <3> QED
      BY <3>1, <3>2
  <2> QED
    BY <2>1, <2>2 DEF Mapped
<1>12. ASSUME NEW t \in tasks PROVE Held(t)'
  <2>1. t.conn \in Conns /\ t.conn # c
    BY <1>3 DEF TypeInv, Tasks, Captured
  <2> QED
    BY <1>7, <1>9, <2>1, HeldKept
<1>13. Known'
  <2>1. count' - Cardinality(Entries') = count - Cardinality(Entries) /\ BookType'
    BY <1>2, <1>5, BookMore
  <2>2. count' = Cardinality(Entries')
    <3>1. PICK x, y : x = Cardinality(Entries) /\ y = Cardinality(Entries')
      OBVIOUS
    <3>2. x \in Nat /\ count = x
      BY <3>1, EntriesFinite DEF Life, Known
    <3>3. y \in Nat
      <4>1. Entries' \subseteq Workers \X Fds
        BY DEF Entries
      <4> QED
        BY <3>1, <4>1, EnoughDescriptors, WorkersFinite, FS_Product, FS_Subset, FS_CardinalityType
    <3>4. count' \in Nat
      BY <2>1 DEF BookType
    <3> QED
      BY <2>1, <3>1, <3>2, <3>3, <3>4
  <2>3. ASSUME NEW g \in Fds, fdt'[g] # NoConn
        PROVE  \/ \E v \in Workers : thr'[v].pend = fdt'[g]
               \/ actives'[conn'[fdt'[g]].owner][g] = fdt'[g]
               \/ Captured(fdt'[g], tasks')
    <3>1. CASE g = f
      BY <1>3, <1>7, <1>8, <1>9, <3>1
    <3>2. CASE g # f
      <4>1. fdt'[g] = fdt[g] /\ fdt[g] \in Conns /\ conn[fdt[g]].fd = g
        BY <1>7, <2>3 DEF TypeInv, FilesType
      <4>2. fdt[g] # c /\ conn[fdt[g]].owner \in Workers
        BY <1>4, <3>2, <4>1 DEF TypeInv, ConnsType, ConnType
      <4>3. \A v \in Workers : thr[v].pend = fdt[g] => thr'[v].pend = fdt[g]
        BY <1>1, <1>9, <4>2
      <4>4. actives'[conn[fdt[g]].owner][g] = actives[conn[fdt[g]].owner][g]
        BY <1>8, <3>2, <4>2
      <4> QED
        BY <1>7, <1>9, <2>3, <4>1, <4>3, <4>4 DEF Life, Known
    <3> QED
      BY <3>1, <3>2
  <2> QED
    BY <2>2, <2>3 DEF Known
<1>14. ASSUME NEW v \in Workers \ {w} PROVE AtHand(v)'
  <2>1. \A d \in Conns : (conn[d].owner = v => d # c) /\ (Idle(d)' <=> Idle(d))
    BY <1>3, <1>9 DEF Idle
  <2>2. Apart(v)
    BY <1>7, <1>8, <1>9, <2>1 DEF Apart
  <2> QED
    BY <2>2, AtHandKept
<1>15. AtHand(w)'
  <2>1. Pending(w)' /\ Handled(w)'
    BY <1>2 DEF Pending, Handled, Serving
  <2>2. Batched(w)'
    <3>1. ASSUME NEW e \in thr[w].batch, e.ev # "listen"
          PROVE  /\ actives'[w][e.fd] = actives[w][e.fd] /\ actives[w][e.fd] # NoConn
                 /\ reg'[actives[w][e.fd]] = "off" /\ Idle(actives[w][e.fd])
                 /\ \A d \in thr[w].batch : d.fd = e.fd => d = e
      <4>1. /\ e.fd \in Fds /\ actives[w][e.fd] # NoConn /\ reg[actives[w][e.fd]] = "off" /\ Idle(actives[w][e.fd])
            /\ \A d \in thr[w].batch : d.fd = e.fd => d = e
        BY <3>1 DEF TypeInv, ThreadsType, ThrType, Life, AtHand, Batched
      <4>2. actives[w][e.fd] \in Conns /\ actives[w][e.fd] # c /\ e.fd # f
        BY <1>3, <1>5, <4>1, Entry
      <4> QED
        BY <1>7, <1>8, <3>1, <4>1, <4>2
    <3> QED
      BY <1>2, <1>9, <3>1 DEF Batched, Idle
  <2>3. Swept(w)'
    <3>1. thr[w].idle = {}
      BY <1>2, Spare
    <3> QED
      BY <1>2, <3>1 DEF Swept
  <2> QED
    BY <2>1, <2>2, <2>3 DEF AtHand
<1> QED
  BY <1>9, <1>10, <1>11, <1>12, <1>13, <1>14, <1>15 DEF Life

(***************************************************************************)
(* The client and the clock.                                               *)
(***************************************************************************)

LEMMA ServerStays ==
    ASSUME UNCHANGED server
    PROVE  /\ fdt' = fdt /\ reg' = reg /\ stray' = stray /\ thr' = thr /\ actives' = actives /\ count' = count
           /\ running' = running /\ tasks' = tasks /\ crashed' = crashed /\ UNCHANGED book
  BY DEF server, kernel, book

LEMMA ClientLife ==
    ASSUME Calm, TypeInv, Life, NEW c \in Conns, ClientStep(c) \/ Expire(c)
    PROVE  Life'
<1>1. /\ UNCHANGED server /\ Changes(c) /\ conn'[c].owner = conn[c].owner /\ conn'[c].fd = conn[c].fd
      /\ \/ conn'[c].stale = conn[c].stale
         \/ Expire(c) /\ conn'[c].stale = TRUE
  BY ClientIs
<1>2. /\ fdt' = fdt /\ reg' = reg /\ stray' = stray /\ thr' = thr /\ actives' = actives /\ count' = count
      /\ running' = running /\ tasks' = tasks /\ crashed' = crashed /\ UNCHANGED book
  BY <1>1, ServerStays
<1>3. \A d \in Conns : /\ conn'[d].owner = conn[d].owner /\ conn'[d].fd = conn[d].fd
                       /\ d # c => conn'[d].stale = conn[d].stale
  BY <1>1 DEF Changes
<1>4. Quiet'
  BY <1>2 DEF Life, Quiet
<1>5. Mapped'
  BY <1>2, <1>3, MappedKept
<1>6. Known'
  BY <1>2, <1>3, KnownKept
<1>7. CASE conn'[c].stale = conn[c].stale
  <2>1. \A d \in Conns : conn'[d].stale = conn[d].stale /\ (Idle(d)' <=> Idle(d))
    BY <1>2, <1>3, <1>7 DEF Idle
  <2>2. ASSUME NEW t \in tasks PROVE Held(t)'
    <3>1. t.conn \in Conns
      BY DEF TypeInv, Tasks
    <3> QED
      BY <1>2, <1>3, <2>1, <3>1, HeldKept
  <2>3. ASSUME NEW v \in Workers PROVE AtHand(v)'
    <3>1. Apart(v)
      BY <1>2, <1>3, <2>1 DEF Apart
    <3> QED
      BY <3>1, AtHandKept
  <2> QED
    BY <1>2, <1>4, <1>5, <1>6, <2>2, <2>3 DEF Life
<1>8. CASE Expire(c) /\ conn'[c].stale = TRUE
  <2>1. ~Busy(c)
    BY <1>8 DEF Expire, Calm
  <2>2. ASSUME NEW t \in tasks PROVE Held(t)'
    <3>1. t.conn \in Conns /\ t.conn # c
      BY <2>1 DEF TypeInv, Tasks, Busy, Captured
    <3> QED
      BY <1>2, <1>3, <3>1, HeldKept
  <2>3. ASSUME NEW v \in Workers PROVE AtHand(v)'
    <3>1. AtHand(v) /\ ThrType(v)
      BY DEF Life, TypeInv, ThreadsType
    <3>2. Pending(v)' 
      <4>1. thr[v].pc = "register" => thr[v].pend \in Conns
        BY <3>1 DEF ThrType
      <4> QED
        BY <1>2, <1>3, <3>1, <4>1 DEF AtHand, Pending
    <3>3. Batched(v)'
      BY <1>2, <3>1 DEF AtHand, Batched, Idle
    <3>4. Handled(v)'
      <4>1. thr[v].pc \in Serving => Here(v) \in Conns /\ Here(v) # c
        BY <2>1, InHand DEF Busy, Handling, Serving
      <4>2. Here(v)' = Here(v)
        BY <1>2 DEF Here
      <4> QED
        BY <1>2, <1>3, <3>1, <4>1, <4>2 DEF AtHand, Handled, Idle
    <3>5. Swept(v)'
      <4>1. ASSUME NEW f \in thr[v].idle PROVE actives[v][f] # NoConn /\ conn'[actives[v][f]].stale
        <5>1. f \in Fds /\ actives[v][f] # NoConn /\ conn[actives[v][f]].stale
          BY <3>1, <4>1 DEF ThrType, AtHand, Swept
        <5>2. actives[v][f] \in Conns
          BY <5>1, Entry
        <5> QED
          BY <1>3, <1>8, <5>1, <5>2
      <4> QED
        BY <1>2, <3>1, <4>1 DEF AtHand, Swept
    <3> QED
      BY <3>2, <3>3, <3>4, <3>5 DEF AtHand
  <2> QED
    BY <1>2, <1>4, <1>5, <1>6, <2>2, <2>3 DEF Life
<1> QED
  BY <1>1, <1>7, <1>8

(***************************************************************************)
(* The loop over the buffer.                                               *)
(***************************************************************************)

LEMMA SeqTypes ==
    ASSUME TypeInv, NEW c \in Conns
    PROVE  /\ conn[c].script \in Seq(Units) /\ conn[c].inq \in Seq(1..MaxUnits)
           /\ conn[c].buf \in Seq(1..MaxUnits) /\ conn[c].served \in Seq(1..MaxUnits)
           /\ Len(conn[c].script) \in Nat /\ Len(conn[c].inq) \in Nat
           /\ Len(conn[c].buf) \in Nat /\ Len(conn[c].served) \in Nat
<1>1. /\ conn[c].script \in Seq(Units) /\ conn[c].inq \in Seq(1..MaxUnits)
      /\ conn[c].buf \in Seq(1..MaxUnits) /\ conn[c].served \in Seq(1..MaxUnits)
  BY DEF TypeInv, ConnsType, ConnType
<1> QED
  BY <1>1

\* The front of the buffer is the next unit to be answered, and it is what the
\* client sent in the protocol the connection is in.
LEMMA FrontFacts ==
    ASSUME Calm, TypeInv, Life, Order, NEW w \in Workers, thr[w].pc = "loop", NEW c, c = Here(w), conn[c].buf # << >>
    PROVE  /\ c \in Conns /\ InTask(c) = 0
           /\ Head(conn[c].buf) = Len(conn[c].served) + 1
           /\ Head(conn[c].buf) \in 1..Len(conn[c].script)
           /\ FrontUnit(w) \notin {"ping", "close"}
<1>1. c \in Conns /\ Idle(c)
  BY HandFacts DEF Serving
<1>2. InTask(c) = 0
  BY <1>1 DEF Idle, InTask, Waiting
<1>3. PICK n, b, q, s : n = Len(conn[c].served) /\ b = Len(conn[c].buf) /\ q = Len(conn[c].inq) /\ s = Len(conn[c].script)
  OBVIOUS
<1>4. n \in Nat /\ b \in Nat /\ q \in Nat /\ s \in Nat /\ b # 0
  BY <1>1, <1>3, SeqTypes, EmptySeq
<1>5. Numbered(c) /\ Upgrading(c)
  BY <1>1 DEF Order
<1>6. s = n + b + q /\ conn[c].buf[1] = n + 1
  BY <1>2, <1>3, <1>4, <1>5 DEF Numbered, InLine
<1>7. Head(conn[c].buf) = n + 1
  BY <1>1, <1>6, SeqTypes
<1>8. n + 1 \in 1..s
  BY <1>4, <1>6
<1>9. PICK u : u = conn[c].script[n + 1]
  OBVIOUS
<1>10. u \in ClientUnits /\ u # "ping" /\ u # "close"
  BY <1>3, <1>5, <1>8, <1>9 DEF Upgrading, Calm
<1>11. conn[c].ws => u \in WsUnits
  <2> SUFFICES ASSUME conn[c].ws PROVE u \in WsUnits
    OBVIOUS
  <2>1. PICK i \in 1..n : conn[c].script[i] = "upgrade"
    BY <1>3, <1>5 DEF Upgrading
  <2>2. i \in 1..s /\ i < n + 1
    BY <1>4, <1>8
  <2> QED
    BY <1>3, <1>5, <1>8, <1>9, <2>1, <2>2 DEF Upgrading
<1>12. FrontUnit(w) = IF conn[c].ws THEN IF u \in WsUnits THEN u ELSE "ping" ELSE IF u \in WsUnits THEN "bad" ELSE u
  BY <1>7, <1>9 DEF FrontUnit, Front
<1>13. FrontUnit(w) \notin {"ping", "close"}
  <2>1. CASE conn[c].ws
    BY <1>10, <1>11, <1>12, <2>1
  <2>2. CASE ~conn[c].ws
    BY <1>10, <1>12, <2>2
  <2> QED
    BY <2>1, <2>2
<1> QED
  BY <1>1, <1>2, <1>3, <1>7, <1>8, <1>13

LEMMA NoControl ==
    ASSUME Calm, TypeInv, Life, Order, NEW w \in Workers
    PROVE  ~LoopControl(w)
<1> SUFFICES ASSUME LoopControl(w) PROVE FALSE
  OBVIOUS
<1>1. PICK c : c = Here(w)
  OBVIOUS
<1>2. thr[w].pc = "loop" /\ conn[c].buf # << >> /\ FrontUnit(w) = "ping"
  BY <1>1 DEF LoopControl, WGoto, FrontIs
<1> QED
  BY <1>1, <1>2, FrontFacts

\* The registration goes over from the handler to the task.
LEMMA OffloadLife ==
    ASSUME Calm, TypeInv, Life, Order, NEW w \in Workers, LoopOffload(w)
    PROVE  Life'
<1>1. PICK c : c = Here(w)
  OBVIOUS
<1>2. /\ c \in Conns /\ thr[w].pc = "loop" /\ conn[c].buf # << >> /\ conn' = [conn EXCEPT ![c].buf = Tail(@)]
  BY <1>1, OffloadIs
<1>3. PICK s \in Tasks : /\ tasks' = tasks \cup {s} /\ s.conn = c /\ s.fd = thr[w].cur /\ s.w = w
                         /\ s.u = FrontUnit(w) /\ s.at = "queued" /\ s.u \in {"keep", "close"} \cup DataUnits
  BY <1>1, OffloadIs
<1>4. s.u \in {"keep"} \cup DataUnits
  BY <1>1, <1>2, <1>3, FrontFacts
<1>5. WGoto(w, "loop", "events") /\ UNCHANGED <<kernel, book, running, crashed>>
  BY DEF LoopOffload
<1>6. /\ Turns(w) /\ thr'[w].pc = "events" /\ thr'[w].batch = thr[w].batch
      /\ thr'[w].pend = thr[w].pend /\ thr'[w].idle = thr[w].idle
  BY <1>5, WGotoIs
<1>7. /\ fdt[thr[w].cur] = c /\ conn[c].owner = w /\ conn[c].fd = thr[w].cur /\ thr[w].cur \in Fds
      /\ reg[c] = "off" /\ Idle(c) /\ ~conn[c].stale
      /\ \A e \in thr[w].batch : e.fd # thr[w].cur
      /\ thr[w].pend = NoConn /\ thr[w].idle = {}
  BY <1>1, <1>2, HandFacts DEF Serving
<1>8. fdt' = fdt /\ reg' = reg /\ stray' = stray /\ actives' = actives /\ count' = count /\ UNCHANGED book
  BY <1>5 DEF kernel, book
<1>9. Changes(c) /\ Ident(c) /\ conn'[c].stale = conn[c].stale
  BY <1>2, TakenIs DEF Ends
<1>10. \A d \in Conns : conn'[d].owner = conn[d].owner /\ conn'[d].fd = conn[d].fd /\ conn'[d].stale = conn[d].stale
  BY <1>9 DEF Changes, Ident
<1>11. \A v \in Workers \ {w} : thr'[v] = thr[v]
  BY <1>6 DEF Turns
<1>12. \A d \in Conns : /\ Captured(d, tasks) => Captured(d, tasks')
                        /\ d # c => (Captured(d, tasks') => Captured(d, tasks)) /\ (Idle(d) => Idle(d)')
  BY <1>3 DEF Captured, Idle
<1>13. Quiet'
  BY <1>5, <1>6, <1>8, <1>11 DEF Life, Quiet
<1>14. Mapped'
  BY <1>8, <1>10, MappedKept
<1>15. Known'
  BY <1>6, <1>8, <1>10, <1>11, <1>12, KnownKept
<1>16. ASSUME NEW t \in tasks' PROVE Held(t)'
  <2>1. CASE t \in tasks
    <3>1. t.conn \in Conns
      BY <2>1 DEF TypeInv, Tasks
    <3>2. CASE t.conn # c
      <4>1. \A x \in tasks' : x.conn = t.conn /\ x.at # "drop" => x \in tasks
        BY <1>3, <3>2
      <4> QED
        BY <1>8, <1>10, <2>1, <3>1, <4>1, HeldKept
    <3>3. CASE t.conn = c
      <4>1. t.at = "drop" /\ Held(t)
        BY <1>7, <2>1, <3>3 DEF Idle, Life
      <4> QED
        BY <1>8, <1>10, <3>1, <4>1 DEF Held
    <3> QED
      BY <3>2, <3>3
  <2>2. CASE t = s
    <3>1. \A x \in tasks' : x.conn = t.conn /\ x.at # "drop" => x = t
      BY <1>3, <1>7, <2>2 DEF Idle
    <3>2. reg'[c] = "off" /\ ~conn'[c].stale /\ fdt'[s.fd] = c /\ conn'[c].owner = w
      BY <1>2, <1>3, <1>7, <1>8, <1>10
    <3> QED
      BY <1>3, <1>4, <2>2, <3>1, <3>2 DEF Held
  <2> QED
    BY <1>3, <2>1, <2>2
<1>17. ASSUME NEW v \in Workers \ {w} PROVE AtHand(v)'
  <2>1. \A d \in Conns : conn[d].owner = v => d # c
    BY <1>7
  <2>2. Apart(v)
    BY <1>8, <1>10, <1>11, <1>12, <2>1 DEF Apart
  <2> QED
    BY <2>2, AtHandKept
<1>18. AtHand(w)'
  <2>1. Pending(w)' /\ Handled(w)' /\ Swept(w)'
    BY <1>6, <1>7 DEF Pending, Handled, Swept, Serving
  <2>2. Batched(w)'
    <3>1. ASSUME NEW e \in thr[w].batch, e.ev # "listen"
          PROVE  /\ actives[w][e.fd] # NoConn /\ reg[actives[w][e.fd]] = "off"
                 /\ \A t \in tasks' : t.conn = actives[w][e.fd] => t.at = "drop"
                 /\ \A d \in thr[w].batch : d.fd = e.fd => d = e
      <4>1. /\ e.fd \in Fds /\ actives[w][e.fd] # NoConn /\ reg[actives[w][e.fd]] = "off" /\ Idle(actives[w][e.fd])
            /\ \A d \in thr[w].batch : d.fd = e.fd => d = e
        BY <3>1 DEF TypeInv, ThreadsType, ThrType, Life, AtHand, Batched
      <4>2. conn[actives[w][e.fd]].fd = e.fd
        BY <4>1, Entry
      <4>3. actives[w][e.fd] # c
        BY <1>7, <3>1, <4>2
      <4> QED
        BY <1>3, <4>1, <4>3 DEF Idle
    <3> QED
      BY <1>6, <1>8, <3>1 DEF Batched, Idle
  <2> QED
    BY <2>1, <2>2 DEF AtHand
<1> QED
  BY <1>13, <1>14, <1>15, <1>16, <1>17, <1>18 DEF Life

(***************************************************************************)
(* The tasks.                                                              *)
(***************************************************************************)

\* A task that has the registration of its connection goes on, or gives it back.
LEMMA BecomeLife ==
    ASSUME TypeInv, Life, NEW t \in tasks, t.at # "drop", NEW at \in Ats \ {"close"}, Become(t, at),
           fdt' = fdt, ~stray', thr' = thr, UNCHANGED <<book, running, crashed>>,
           \A d \in Conns : /\ conn'[d].owner = conn[d].owner /\ conn'[d].fd = conn[d].fd
                            /\ d # t.conn => conn'[d].stale = conn[d].stale /\ reg'[d] = reg[d],
           ~conn'[t.conn].stale, reg'[t.conn] # "none", at # "drop" => reg'[t.conn] = "off"
    PROVE  Life'
<1>1. PICK s \in Tasks : /\ tasks' = (tasks \ {t}) \cup {s} /\ s.conn = t.conn /\ s.fd = t.fd
                         /\ s.w = t.w /\ s.u = t.u /\ s.at = at
  BY BecomeIs
<1>2. t.conn \in Conns /\ t.fd \in Fds /\ Held(t)
  BY DEF TypeInv, Tasks, Life
<1>3. actives' = actives /\ count' = count
  BY DEF book
<1>4. \A x \in tasks : x.conn = t.conn /\ x.at # "drop" => x = t
  BY <1>2 DEF Held
<1>5. \A d \in Conns : /\ Captured(d, tasks') <=> Captured(d, tasks)
                       /\ d # t.conn => (Idle(d) => Idle(d)')
                       /\ d = t.conn => ~Idle(d)
  BY <1>1 DEF Captured, Idle
<1>6. Quiet'
  BY DEF Life, Quiet
<1>7. reg[t.conn] # "none"
  BY <1>2 DEF Held
<1>8. Mapped'
  BY <1>3, <1>7, MappedKept
<1>9. Known'
  BY <1>5, KnownKept
<1>10. ASSUME NEW x \in tasks' PROVE Held(x)'
  <2>1. CASE x = s
    <3>1. \A y \in tasks' : y.conn = x.conn /\ y.at # "drop" => y = x
      BY <1>1, <1>4, <2>1
    <3> QED
      BY <1>1, <1>2, <2>1, <3>1 DEF Held
  <2>2. CASE x \in tasks /\ x # t
    <3>1. x.conn \in Conns /\ Held(x)
      BY <2>2 DEF TypeInv, Tasks, Life
    <3>2. CASE x.conn # t.conn
      <4>1. \A y \in tasks' : y.conn = x.conn /\ y.at # "drop" => y \in tasks
        BY <1>1, <3>2
      <4> QED
        BY <2>2, <3>1, <3>2, <4>1, HeldKept
    <3>3. CASE x.conn = t.conn
      <4>1. x.at = "drop"
        BY <1>4, <2>2, <3>3
      <4> QED
        BY <3>1, <4>1 DEF Held
    <3> QED
      BY <3>2, <3>3
  <2> QED
    BY <1>1, <2>1, <2>2
<1>11. ASSUME NEW v \in Workers PROVE AtHand(v)'
  <2>1. Apart(v)
    BY <1>3, <1>5 DEF Apart
  <2> QED
    BY <2>1, AtHandKept
<1> QED
  BY <1>6, <1>8, <1>9, <1>10, <1>11 DEF Life

LEMMA TaskWorkLife ==
    ASSUME Calm, TypeInv, Life, NEW t \in tasks,
           TaskHandle(t) \/ TaskHandleWs(t) \/ TaskSend(t) \/ TaskDecide(t) \/ TaskRearm(t)
    PROVE  Life'
<1>1. t.conn \in Conns /\ t.fd \in Fds /\ t.w \in Workers /\ Held(t)
  BY DEF TypeInv, Tasks, Life
<1>2. thr' = thr /\ UNCHANGED <<book, running, crashed>> /\ t.at # "drop"
  BY DEF TaskHandle, TaskHandleWs, TaskSend, TaskDecide, TaskRearm
<1>3. fdt[t.fd] = t.conn /\ conn[t.conn].owner = t.w /\ reg[t.conn] = "off" /\ ~conn[t.conn].stale
  BY <1>1, <1>2 DEF Held
<1>4. Registered(t.w, t.fd)
  BY <1>1, <1>3, EnvironmentOK DEF Registered
<1>5. ~stray
  BY DEF Life, Quiet
<1>6. ASSUME NEW at \in Ats \ {"close", "drop"}, Become(t, at), UNCHANGED <<fdt, reg>>, ~stray',
             \A d \in Conns : /\ Ident(d)
                              /\ d # t.conn => conn'[d].stale = conn[d].stale,
             ~conn'[t.conn].stale
      PROVE  Life'
  BY <1>1, <1>2, <1>3, <1>6, BecomeLife DEF Ident
<1>7. CASE TaskHandle(t)
  <2>1. Become(t, "handled") /\ conn' = conn /\ UNCHANGED kernel
    BY <1>7 DEF TaskHandle
  <2> QED
    BY <1>3, <1>5, <1>6, <2>1 DEF kernel, Ident, Ats
<1>8. CASE TaskHandleWs(t)
  <2>1. Become(t, "sent") /\ conn' = [conn EXCEPT ![t.conn].served = Append(@, t.n)]
    BY <1>8 DEF TaskHandleWs
  <2>4. UNCHANGED <<fdt, reg>> /\ ~stray'
    BY <1>3, <1>5, <1>8 DEF TaskHandleWs, UseFd, kernel
  <2>2. Changes(t.conn) /\ Ident(t.conn) /\ Ends(t.conn)
    BY <1>1, <2>1, ServedIs
  <2>3. /\ \A d \in Conns : Ident(d) /\ (d # t.conn => conn'[d].stale = conn[d].stale)
        /\ ~conn'[t.conn].stale
    BY <1>3, <2>2 DEF Changes, Ident, Ends
  <2> QED
    BY <1>6, <2>1, <2>3, <2>4 DEF Ats
<1>9. CASE TaskSend(t)
  <2>1. /\ Become(t, "sent") /\ UNCHANGED <<fdt, reg>>
        /\ conn' = [conn EXCEPT ![t.conn] = [@ EXCEPT !.served = Append(conn[t.conn].served, t.n), !.stale = FALSE]]
    BY <1>9 DEF TaskSend, UseFd
  <2>2. ~stray'
    BY <1>3, <1>5, <1>9 DEF TaskSend, UseFd
  <2>3. Changes(t.conn) /\ Ident(t.conn) /\ conn'[t.conn].stale = FALSE
    BY <1>1, <2>1, SentIs
  <2>4. /\ \A d \in Conns : Ident(d) /\ (d # t.conn => conn'[d].stale = conn[d].stale)
        /\ ~conn'[t.conn].stale
    BY <2>3 DEF Changes, Ident
  <2> QED
    BY <1>6, <2>1, <2>2, <2>4 DEF Ats
<1>10. CASE TaskDecide(t)
  <2>1. Become(t, "rearm") /\ conn' = conn /\ UNCHANGED kernel
    BY <1>1, <1>10 DEF TaskDecide, KeepAlive, Held, Life, Quiet
  <2> QED
    BY <1>3, <1>5, <1>6, <2>1 DEF kernel, Ident, Ats
<1>11. CASE TaskRearm(t)
  <2>1. Arm(t.conn, t.fd, "in") /\ Become(t, "drop") /\ conn' = conn
    BY <1>4, <1>11 DEF TaskRearm
  <2>2. reg' = [reg EXCEPT ![t.conn] = "in"] /\ fdt' = fdt /\ ~stray'
    BY <1>3, <1>5, <2>1 DEF Arm
  <2>3. reg'[t.conn] = "in" /\ \A d \in Conns : d # t.conn => reg'[d] = reg[d]
    BY <1>1, <2>2 DEF TypeInv, FilesType
  <2>4. ~conn'[t.conn].stale /\ "drop" \in Ats \ {"close"}
    BY <1>3, <2>1 DEF Ats
  <2> QED
    BY <1>2, <2>1, <2>2, <2>3, <2>4, BecomeLife
<1> QED
  BY <1>7, <1>8, <1>9, <1>10, <1>11

\* The closure dies, and a connection that was disconnected meanwhile with it.
LEMMA TaskDropLife ==
    ASSUME TypeInv, Life, NEW t \in tasks, TaskDrop(t)
    PROVE  Life'
<1>1. PICK c : c = t.conn
  OBVIOUS
<1>2. c \in Conns /\ t.fd \in Fds /\ Held(t)
  BY <1>1 DEF TypeInv, Tasks, Life
<1>3. fdt[t.fd] = c /\ conn[c].fd = t.fd
  BY <1>1, <1>2, EnvironmentOK DEF Held, TypeInv, FilesType
<1>4. PICK last : last <=> (~Captured(c, tasks \ {t}) /\ \A w \in Workers, f \in Fds : actives[w][f] # c)
  OBVIOUS
<1>5. /\ t.at = "drop" /\ tasks' = tasks \ {t} /\ UNCHANGED <<conn, thr, book, running, crashed>>
      /\ IF last THEN CloseFd(c, t.fd) ELSE UNCHANGED kernel
  BY <1>1, <1>3, <1>4 DEF TaskDrop
<1>6. /\ \A g \in Fds : fdt'[g] = IF last /\ g = t.fd THEN NoConn ELSE fdt[g]
      /\ \A d \in Conns : reg'[d] = IF last /\ d = c THEN "none" ELSE reg[d]
      /\ ~stray'
  <2>1. CASE last
    <3>1. CloseFd(c, t.fd)
      BY <1>5, <2>1
    <3> QED
      BY <1>2, <1>3, <2>1, <3>1 DEF CloseFd, TypeInv, FilesType, Life, Quiet
  <2>2. CASE ~last
    <3>1. UNCHANGED kernel
      BY <1>5, <2>2
    <3> QED
      BY <2>2, <3>1 DEF kernel, Life, Quiet
  <2> QED
    BY <2>1, <2>2
<1>7. last => reg[c] = "none"
  <2> SUFFICES ASSUME last, reg[c] # "none" PROVE FALSE
    OBVIOUS
  <2>1. conn[c].owner \in Workers /\ conn[c].fd \in Fds /\ actives[conn[c].owner][conn[c].fd] = c
    BY <1>2 DEF Life, Mapped, TypeInv, ConnsType, ConnType
  <2> QED
    BY <1>4, <2>1
<1>8. \A d \in Conns : reg'[d] = reg[d]
  BY <1>6, <1>7
<1>9. actives' = actives /\ count' = count /\ conn' = conn /\ thr' = thr /\ running' = running /\ crashed' = crashed
  BY <1>5 DEF book
<1>10. Quiet'
  BY <1>6, <1>9 DEF Life, Quiet
<1>11. Mapped'
  <2>1. ASSUME NEW w \in Workers, NEW f \in Fds, actives[w][f] # NoConn PROVE fdt'[f] = fdt[f]
    <3>1. fdt[f] = actives[w][f]
      BY <2>1, Entry
    <3> QED
      BY <1>3, <1>4, <1>6, <3>1
  <2> QED
    BY <1>8, <1>9, <2>1, MappedKept
<1>12. ASSUME NEW s \in tasks \ {t} PROVE Held(s)'
  <2>1. s.conn \in Conns /\ s.fd \in Fds /\ fdt[s.fd] = s.conn
    BY DEF TypeInv, Tasks, Life, Held
  <2>2. last => s.conn # c
    BY <1>4 DEF Captured
  <2>3. fdt'[s.fd] = fdt[s.fd]
    BY <1>3, <1>6, <2>1, <2>2
  <2>4. \A x \in tasks' : x.conn = s.conn /\ x.at # "drop" => x \in tasks
    BY <1>5
  <2> QED
    BY <1>8, <1>9, <2>1, <2>3, <2>4, HeldKept
<1>13. Known'
  <2>1. count' = Cardinality(Entries')
    <3>1. Entries' = Entries
      BY <1>9 DEF Entries
    <3> QED
      BY <1>9, <3>1 DEF Life, Known
  <2>2. ASSUME NEW g \in Fds, fdt'[g] # NoConn
        PROVE  \/ \E v \in Workers : thr'[v].pend = fdt'[g]
               \/ actives'[conn'[fdt'[g]].owner][g] = fdt'[g]
               \/ Captured(fdt'[g], tasks')
    <3>1. fdt'[g] = fdt[g] /\ fdt[g] \in Conns /\ (last => g # t.fd)
      BY <1>6, <2>2 DEF TypeInv, FilesType
    <3>2. CASE fdt[g] # c
      <4>1. Captured(fdt[g], tasks) => Captured(fdt[g], tasks')
        BY <1>1, <1>5, <3>2 DEF Captured
      <4> QED
        BY <1>9, <2>2, <3>1, <4>1 DEF Life, Known
    <3>3. CASE fdt[g] = c
      <4>1. g = t.fd
        BY <1>3, <3>1, <3>3, EnvironmentOK DEF TypeInv, FilesType
      <4>2. ~last
        BY <3>1, <4>1
      <4>3. CASE Captured(c, tasks \ {t})
        BY <1>5, <3>1, <3>3, <4>3
      <4>4. CASE \E w \in Workers, f \in Fds : actives[w][f] = c
        <5>1. PICK w \in Workers, f \in Fds : actives[w][f] = c
          BY <4>4
        <5>2. conn[c].owner = w /\ conn[c].fd = f
          BY <1>2, <5>1, Entry, EnvironmentOK
        <5> QED
          BY <1>3, <1>9, <3>1, <3>3, <4>1, <5>1, <5>2
      <4> QED
        BY <1>4, <4>2, <4>3, <4>4
    <3> QED
      BY <3>2, <3>3
  <2> QED
    BY <2>1, <2>2 DEF Known
<1>14. ASSUME NEW v \in Workers PROVE AtHand(v)'
  <2>1. \A d \in Conns : /\ Idle(d) => Idle(d)'
                         /\ ~Captured(d, tasks) => ~Captured(d, tasks')
    BY <1>5 DEF Idle, Captured
  <2>2. \A g \in Fds : ~Captured(fdt[g], tasks) => fdt'[g] = fdt[g]
    BY <1>1, <1>3, <1>6 DEF Captured
  <2>3. Apart(v)
    BY <1>8, <1>9, <2>1, <2>2 DEF Apart
  <2> QED
    BY <2>3, AtHandKept
<1> QED
  BY <1>5, <1>10, <1>11, <1>12, <1>13, <1>14 DEF Life

(***************************************************************************)
(* Every step.                                                             *)
(***************************************************************************)

LEMMA LifeInit == Init => Life
<1> SUFFICES ASSUME Init PROVE Life
  OBVIOUS
<1>1. /\ \A c \in Conns : reg[c] = "none"
      /\ \A f \in Fds : fdt[f] = NoConn
      /\ \A w \in Workers : /\ thr[w].pc = "poll" /\ thr[w].batch = {} /\ thr[w].pend = NoConn /\ thr[w].idle = {}
                            /\ \A f \in Fds : actives[w][f] = NoConn
      /\ count = 0 /\ running /\ tasks = {} /\ ~crashed /\ ~stray
  BY DEF Init
<1>2. Quiet /\ Mapped
  BY <1>1 DEF Quiet, Mapped
<1>3. Known
  <2>1. Entries = {}
    BY <1>1 DEF Entries
  <2> QED
    BY <1>1, <2>1, FS_EmptySet DEF Known
<1>4. ASSUME NEW w \in Workers PROVE AtHand(w)
  BY <1>1 DEF AtHand, Pending, Batched, Handled, Swept, Serving
<1> QED
  BY <1>1, <1>2, <1>3, <1>4 DEF Life

LEMMA WorkerLife ==
    ASSUME Calm, TypeInv, Life, Order, NEW w \in Workers, WorkerStep(w)
    PROVE  Life'
<1>1. ASSUME Exit(w) PROVE FALSE
  BY <1>1 DEF Exit, Life, Quiet
<1>2. ASSUME LoopControl(w) PROVE FALSE
  BY <1>2, NoControl
<1>3. ASSUME SweepDone(w) \/ AcceptDone(w) PROVE Life'
  BY <1>3, MovesLife DEF SweepDone, AcceptDone
<1>4. ASSUME \E e \in thr[w].batch : EventListen(w, e) \/ EventHup(w, e) \/ EventOut(w, e) \/ EventIn(w, e) PROVE Life'
  BY <1>4, EventLife, EventHupLife, EventInLife
<1>5. ASSUME Poll(w) \/ SweepCollect(w) \/ \E f \in Fds : SweepOne(w, f) PROVE Life'
  BY <1>5, PollLife, SweepCollectLife, SweepOneLife
<1>6. ASSUME AcceptRegister(w) \/ \E c \in Conns : AcceptSocket(w, c) PROVE Life'
  BY <1>6, AcceptRegisterLife, AcceptSocketLife
<1>7. ASSUME \/ HandshakeWantsRead(w) \/ HandshakeWantsWrite(w) \/ HandshakeDone(w) \/ HandshakeFails(w)
             \/ ReadData(w) \/ ReadEnd(w) \/ LoopSendThrows(w)
             \/ LoopIncomplete(w) \/ LoopDisconnect(w) \/ LoopUpgrade(w) \/ LoopOffload(w)
      PROVE  Life'
  BY <1>7, RearmsLife, ServingLife, GivesUpLife, OffloadLife
<1> HIDE DEF Life
<1> QED
  BY <1>1, <1>2, <1>3, <1>4, <1>5, <1>6, <1>7 DEF WorkerStep

LEMMA TaskLife ==
    ASSUME Calm, TypeInv, Life, NEW t \in tasks, TaskStep(t)
    PROVE  Life'
<1>1. ASSUME TaskThrow(t) \/ TaskClose(t) \/ TaskDiscard(t) PROVE FALSE
  <2>1. t.at # "close" /\ t.w \in Workers /\ \A w \in Workers : thr[w].pc # "exit"
    BY DEF TypeInv, Tasks, Life, Held, Quiet
  <2> QED
    BY <1>1, <2>1 DEF TaskThrow, TaskClose, TaskDiscard, Calm
<1> HIDE DEF Life
<1> QED
  BY <1>1, TaskWorkLife, TaskDropLife DEF TaskStep

LEMMA LifeStays ==
    ASSUME Life, UNCHANGED vars
    PROVE  Life'
<1>1. /\ conn' = conn /\ fdt' = fdt /\ reg' = reg /\ stray' = stray /\ thr' = thr /\ actives' = actives
      /\ count' = count /\ running' = running /\ tasks' = tasks /\ crashed' = crashed
  BY DEF vars, kernel, book
<1>2. Quiet' /\ Mapped' /\ \A t \in tasks : Held(t)'
  BY <1>1 DEF Life, Quiet, Mapped, Held
<1>3. Known'
  BY <1>1 DEF Life, Known, Entries, Captured
<1>4. ASSUME NEW w \in Workers PROVE AtHand(w)'
  BY <1>1 DEF Life, AtHand, Pending, Batched, Handled, Swept, Idle, Here, Captured
<1> QED
  BY <1>1, <1>2, <1>3, <1>4 DEF Life

LEMMA LifeStep ==
    ASSUME Calm, TypeInv, Life, Order, [Next]_vars
    PROVE  Life'
<1>1. ASSUME Stop PROVE FALSE
  BY <1>1 DEF Stop, Calm
<1> HIDE DEF Life, Order, TypeInv, Calm
<1> QED
  BY <1>1, ClientLife, WorkerLife, TaskLife, LifeStays DEF Next

(***************************************************************************)
(* The order of the units, step by step.                                   *)
(***************************************************************************)

LEMMA LineSend ==
    ASSUME NEW a \in Seq(Int), NEW m \in {0, 1}, NEW b \in Seq(Int), NEW q \in Seq(Int), NEW s \in Seq(Units),
           NEW u \in Units, InLine(a, m, b, q, s)
    PROVE  InLine(a, m, b, Append(q, Len(s) + 1), Append(s, u))
<1>1. Len(a) \in Nat /\ Len(b) \in Nat /\ Len(q) \in Nat /\ Len(s) \in Nat
  OBVIOUS
<1>2. PICK n : n = Len(s) + 1
  OBVIOUS
<1>3. n \in Int /\ n = Len(a) + m + Len(b) + Len(q) + 1
  BY <1>1, <1>2 DEF InLine
<1>4. Len(Append(q, n)) = Len(q) + 1 /\ Len(Append(s, u)) = n
  BY <1>1, <1>2, <1>3, AppendProperties
<1>5. \A i \in 1..(Len(q) + 1) : Append(q, n)[i] = IF i = Len(q) + 1 THEN n ELSE q[i]
  BY <1>1, <1>3, AppendProperties
<1>6. \A i \in 1..(Len(q) + 1) : i # Len(q) + 1 => i \in 1..Len(q)
  BY <1>1
<1>7. \A i \in 1..(Len(q) + 1) : Append(q, n)[i] = Len(a) + m + Len(b) + i
  BY <1>1, <1>3, <1>5, <1>6 DEF InLine
<1> QED
  BY <1>1, <1>2, <1>3, <1>4, <1>7 DEF InLine

LEMMA LineRead ==
    ASSUME NEW a \in Seq(Int), NEW m \in {0, 1}, NEW b \in Seq(Int), NEW q \in Seq(Int), NEW s \in Seq(Units),
           InLine(a, m, b, q, s)
    PROVE  InLine(a, m, b \o q, << >>, s)
<1>1. Len(a) \in Nat /\ Len(b) \in Nat /\ Len(q) \in Nat /\ Len(s) \in Nat
  OBVIOUS
<1>2. Len(b \o q) = Len(b) + Len(q)
  BY ConcatProperties
<1>3. ASSUME NEW i \in 1..(Len(b) + Len(q)) PROVE (b \o q)[i] = Len(a) + m + i
  <2>1. CASE i <= Len(b)
    <3>1. i \in 1..Len(b) /\ (b \o q)[i] = b[i]
      BY <1>1, <2>1, ConcatProperties
    <3> QED
      BY <3>1 DEF InLine
  <2>2. CASE i > Len(b)
    <3>1. i - Len(b) \in 1..Len(q) /\ (b \o q)[i] = q[i - Len(b)]
      BY <1>1, <2>2, ConcatProperties
    <3>2. q[i - Len(b)] = Len(a) + m + Len(b) + (i - Len(b))
      BY <3>1 DEF InLine
    <3> QED
      BY <1>1, <3>1, <3>2
  <2> QED
    BY <1>1, <2>1, <2>2
<1>4. Len(<< >>) = 0
  OBVIOUS
<1> QED
  BY <1>1, <1>2, <1>3, <1>4 DEF InLine

\* The front of the buffer is answered at once,
LEMMA LineServe ==
    ASSUME NEW a \in Seq(Int), NEW b \in Seq(Int), NEW q \in Seq(Int), NEW s \in Seq(Units),
           b # << >>, InLine(a, 0, b, q, s)
    PROVE  InLine(Append(a, Head(b)), 0, Tail(b), q, s)
<1>1. Len(a) \in Nat /\ Len(b) \in Nat \ {0} /\ Len(q) \in Nat /\ Len(s) \in Nat
  BY EmptySeq
<1>2. /\ Head(b) = b[1] /\ Tail(b) \in Seq(Int) /\ Len(Tail(b)) = Len(b) - 1
      /\ \A i \in 1..(Len(b) - 1) : Tail(b)[i] = b[i + 1]
  BY HeadTailProperties
<1>3. PICK n : n = Head(b)
  OBVIOUS
<1>4. n = Len(a) + 1 /\ n \in Int
  BY <1>1, <1>2, <1>3 DEF InLine
<1>5. /\ Len(Append(a, n)) = Len(a) + 1
      /\ \A i \in 1..(Len(a) + 1) : Append(a, n)[i] = IF i = Len(a) + 1 THEN n ELSE a[i]
  BY <1>1, <1>4, AppendProperties
<1>6. \A i \in 1..(Len(a) + 1) : i # Len(a) + 1 => i \in 1..Len(a)
  BY <1>1
<1>7. \A i \in 1..(Len(a) + 1) : Append(a, n)[i] = i
  BY <1>4, <1>5, <1>6 DEF InLine
<1>8. \A i \in 1..(Len(b) - 1) : Tail(b)[i] = (Len(a) + 1) + 0 + i
  <2>1. \A i \in 1..(Len(b) - 1) : i + 1 \in 1..Len(b)
    BY <1>1
  <2> QED
    BY <1>1, <1>2, <2>1 DEF InLine
<1>9. \A i \in 1..Len(q) : q[i] = (Len(a) + 1) + 0 + (Len(b) - 1) + i
  BY <1>1 DEF InLine
<1>10. Len(s) = (Len(a) + 1) + 0 + (Len(b) - 1) + Len(q)
  BY <1>1 DEF InLine
<1> QED
  BY <1>2, <1>3, <1>5, <1>7, <1>8, <1>9, <1>10 DEF InLine

\* or goes to a task
LEMMA LineTake ==
    ASSUME NEW a \in Seq(Int), NEW b \in Seq(Int), NEW q \in Seq(Int), NEW s \in Seq(Units),
           b # << >>, InLine(a, 0, b, q, s)
    PROVE  InLine(a, 1, Tail(b), q, s)
<1>1. Len(a) \in Nat /\ Len(b) \in Nat \ {0} /\ Len(q) \in Nat /\ Len(s) \in Nat
  BY EmptySeq
<1>2. /\ Len(Tail(b)) = Len(b) - 1
      /\ \A i \in 1..(Len(b) - 1) : Tail(b)[i] = b[i + 1]
  BY HeadTailProperties
<1>3. \A i \in 1..(Len(b) - 1) : Tail(b)[i] = Len(a) + 1 + i
  <2>1. \A i \in 1..(Len(b) - 1) : i + 1 \in 1..Len(b)
    BY <1>1
  <2> QED
    BY <1>1, <1>2, <2>1 DEF InLine
<1>4. \A i \in 1..Len(q) : q[i] = Len(a) + 1 + (Len(b) - 1) + i
  BY <1>1 DEF InLine
<1>5. Len(s) = Len(a) + 1 + (Len(b) - 1) + Len(q)
  BY <1>1 DEF InLine
<1> QED
  BY <1>2, <1>3, <1>4, <1>5 DEF InLine

\* that answers it.
LEMMA LineAnswer ==
    ASSUME NEW a \in Seq(Int), NEW b \in Seq(Int), NEW q \in Seq(Int), NEW s \in Seq(Units),
           InLine(a, 1, b, q, s), NEW n, n = Len(a) + 1
    PROVE  InLine(Append(a, n), 0, b, q, s)
<1>1. Len(a) \in Nat /\ Len(b) \in Nat /\ Len(q) \in Nat /\ Len(s) \in Nat
  OBVIOUS
<1>2. /\ Len(Append(a, n)) = Len(a) + 1
      /\ \A i \in 1..(Len(a) + 1) : Append(a, n)[i] = IF i = Len(a) + 1 THEN n ELSE a[i]
  BY <1>1, AppendProperties
<1>3. \A i \in 1..(Len(a) + 1) : i # Len(a) + 1 => i \in 1..Len(a)
  BY <1>1
<1>4. \A i \in 1..(Len(a) + 1) : Append(a, n)[i] = i
  BY <1>2, <1>3 DEF InLine
<1>5. \A i \in 1..Len(b) : b[i] = (Len(a) + 1) + 0 + i
  BY <1>1 DEF InLine
<1>6. \A i \in 1..Len(q) : q[i] = (Len(a) + 1) + 0 + Len(b) + i
  BY <1>1 DEF InLine
<1>7. Len(s) = (Len(a) + 1) + 0 + Len(b) + Len(q)
  BY <1>1 DEF InLine
<1> QED
  BY <1>2, <1>4, <1>5, <1>6, <1>7 DEF InLine

\* Connection d has the same unit with a task, or none, before and after.
SameWork(d) ==
    /\ \A t \in tasks : t.conn = d /\ Waiting(t) => \E s \in tasks' : s.conn = d /\ Waiting(s)
    /\ \A s \in tasks' : s.conn = d /\ Waiting(s) => \E t \in tasks : t.conn = d /\ Waiting(t) /\ t.n = s.n

LEMMA InTaskKept ==
    ASSUME NEW d, SameWork(d)
    PROVE  InTask(d)' = InTask(d)
<1>1. (\E s \in tasks' : s.conn = d /\ Waiting(s)) <=> (\E t \in tasks : t.conn = d /\ Waiting(t))
  BY DEF SameWork
<1> QED
  BY <1>1 DEF InTask, Waiting

LEMMA OrderKept ==
    ASSUME Order, NEW d \in Conns, Flow(d), SameWork(d)
    PROVE  Numbered(d)' /\ Upgrading(d)'
<1>1. Numbered(d) /\ Upgrading(d)
  BY DEF Order
<1>2. InTask(d)' = InTask(d)
  BY InTaskKept
<1>3. Numbered(d)'
  <2>1. \A s \in tasks' : s.conn = d /\ Waiting(s) => s.n = Len(conn[d].served) + 1
    BY <1>1 DEF SameWork, Numbered
  <2>2. InLine(conn[d].served, InTask(d), conn[d].buf, conn[d].inq, conn[d].script)
    BY <1>1 DEF Numbered
  <2> QED
    BY <1>2, <2>1, <2>2 DEF Numbered, Flow, InLine, Waiting
<1>4. Upgrading(d)'
  BY <1>1 DEF Upgrading, Flow
<1> QED
  BY <1>3, <1>4

\* A step that touches one connection.
LEMMA OrderOne ==
    ASSUME Order, NEW c \in Conns, Changes(c), \A d \in Conns \ {c} : SameWork(d), Numbered(c)', Upgrading(c)'
    PROVE  Order'
<1>1. ASSUME NEW d \in Conns \ {c} PROVE Numbered(d)' /\ Upgrading(d)'
  <2>1. Flow(d)
    BY DEF Changes, Flow
  <2> QED
    BY <2>1, OrderKept
<1> QED
  BY <1>1 DEF Order

\* A step that moves no unit.
LEMMA OrderSame ==
    ASSUME Order, \A d \in Conns : Flow(d), \A d \in Conns : SameWork(d)
    PROVE  Order'
BY OrderKept DEF Order

LEMMA TasksSame ==
    ASSUME tasks' = tasks
    PROVE  \A d : SameWork(d)
BY DEF SameWork

LEMMA FlowSame ==
    ASSUME conn' = conn
    PROVE  \A d : Flow(d)
BY DEF Flow

\* The answers that are out let nothing else be taken for an upgrade.
LEMMA UpgradingKept ==
    ASSUME TypeInv, Order, NEW c \in Conns, conn'[c].script = conn[c].script,
           conn'[c].ws => conn[c].ws,
           Len(conn'[c].served) \in Nat, Len(conn'[c].served) >= Len(conn[c].served)
    PROVE  Upgrading(c)'
<1>1. Upgrading(c) /\ Len(conn[c].served) \in Nat
  BY SeqTypes DEF Order
<1>2. \A i \in 1..Len(conn[c].served) : i \in 1..Len(conn'[c].served)
  BY <1>1
<1> QED
  BY <1>1, <1>2 DEF Upgrading

LEMMA SeqOfInts ==
    ASSUME TypeInv, NEW c \in Conns
    PROVE  conn[c].served \in Seq(Int) /\ conn[c].buf \in Seq(Int) /\ conn[c].inq \in Seq(Int) /\ conn[c].script \in Seq(Units)
<1>1. ASSUME NEW s \in Seq(1..MaxUnits) PROVE s \in Seq(Int)
  <2>1. Len(s) \in Nat /\ s \in [1..Len(s) -> 1..MaxUnits]
    BY LenProperties
  <2>2. s \in [1..Len(s) -> Int]
    BY <2>1
  <2> QED
    BY <2>1, <2>2, SeqDef
<1> QED
  BY <1>1, SeqTypes

LEMMA SendOrder ==
    ASSUME TypeInv, Order, NEW c \in Conns, NEW u \in ClientUnits, Send(c, u)
    PROVE  Order'
<1>1. /\ UNCHANGED server /\ Changes(c)
      /\ conn'[c].buf = conn[c].buf /\ conn'[c].served = conn[c].served /\ conn'[c].ws = conn[c].ws
  BY ClientIs DEF ClientStep
<1>2. PICK n, s, q : n = Len(conn[c].script) + 1 /\ s = conn[c].script /\ q = conn[c].inq
  OBVIOUS
<1>3. /\ u \in Units /\ u \in (IF Upgraded(c) THEN WsUnits ELSE HttpUnits)
      /\ conn'[c].script = Append(s, u) /\ conn'[c].inq = Append(q, n)
  BY <1>2, SendIs
<1>4. \A d : SameWork(d)
  BY <1>1, TasksSame DEF server
<1>5. Numbered(c) /\ Upgrading(c) /\ s \in Seq(Units) /\ Len(s) \in Nat
  BY <1>2, SeqTypes DEF Order
<1>6. InTask(c)' = InTask(c) /\ tasks' = tasks
  BY <1>1, <1>4, InTaskKept DEF server
<1>7. Numbered(c)'
  <2>1. InTask(c) \in {0, 1}
    BY DEF InTask
  <2>2. InLine(conn[c].served, InTask(c), conn[c].buf, q, s)
    BY <1>2, <1>5 DEF Numbered
  <2>3. InLine(conn[c].served, InTask(c), conn[c].buf, Append(q, n), Append(s, u))
    BY <1>2, <1>3, <2>1, <2>2, LineSend, SeqOfInts
  <2>4. \A t \in tasks : t.conn = c /\ Waiting(t) => t.n = Len(conn[c].served) + 1
    BY <1>5 DEF Numbered
  <2> QED
    BY <1>1, <1>3, <1>6, <2>3, <2>4 DEF Numbered, Waiting, InLine
<1>8. Upgrading(c)'
  <2>1. /\ Len(Append(s, u)) = Len(s) + 1
        /\ \A i \in 1..(Len(s) + 1) : Append(s, u)[i] = IF i = Len(s) + 1 THEN u ELSE s[i]
    BY <1>3, <1>5, AppendProperties
  <2>2. \A i \in 1..(Len(s) + 1) : i # Len(s) + 1 => i \in 1..Len(s)
    BY <1>5
  <2>3. /\ \A i \in 1..Len(s) : s[i] \in ClientUnits
        /\ \A i, j \in 1..Len(s) : i < j /\ s[i] = "upgrade" => s[j] \in WsUnits
    BY <1>2, <1>5 DEF Upgrading
  <2>4. (\E i \in 1..Len(s) : s[i] = "upgrade") => u \in WsUnits
    BY <1>2, <1>3 DEF Upgraded
  <2>5. \A i \in 1..(Len(s) + 1) : Append(s, u)[i] \in ClientUnits
    BY <2>1, <2>2, <2>3
  <2>6. ASSUME NEW i \in 1..(Len(s) + 1), NEW j \in 1..(Len(s) + 1), i < j, Append(s, u)[i] = "upgrade"
        PROVE  Append(s, u)[j] \in WsUnits
    <3>1. i # Len(s) + 1 /\ i \in 1..Len(s) /\ s[i] = "upgrade"
      BY <1>5, <2>1, <2>2, <2>6
    <3> QED
      BY <2>1, <2>2, <2>3, <2>4, <2>6, <3>1
  <2>7. conn[c].ws => \E i \in 1..Len(conn[c].served) : Append(s, u)[i] = "upgrade"
    <3> SUFFICES ASSUME conn[c].ws PROVE \E i \in 1..Len(conn[c].served) : Append(s, u)[i] = "upgrade"
      OBVIOUS
    <3>1. PICK i \in 1..Len(conn[c].served) : s[i] = "upgrade"
      BY <1>2, <1>5 DEF Upgrading
    <3>2. i \in 1..Len(s)
      <4>1. Len(conn[c].served) <= Len(s)
        <5>1. Len(conn[c].buf) \in Nat /\ Len(q) \in Nat /\ Len(conn[c].served) \in Nat /\ InTask(c) \in {0, 1}
          BY <1>2, SeqTypes DEF InTask
        <5>2. Len(s) = Len(conn[c].served) + InTask(c) + Len(conn[c].buf) + Len(q)
          BY <1>2, <1>5 DEF Numbered, InLine
        <5> QED
          BY <5>1, <5>2
      <4> QED
        BY <1>5, <4>1, SeqTypes
    <3>3. Append(s, u)[i] = s[i]
      BY <1>5, <2>1, <3>2
    <3> QED
      BY <3>1, <3>3
  <2>8. conn'[c].ws => \E i \in 1..Len(conn'[c].served) : conn'[c].script[i] = "upgrade"
    BY <1>1, <1>3, <2>7
  <2> QED
    BY <1>3, <2>1, <2>5, <2>6, <2>8 DEF Upgrading
<1> QED
  BY <1>1, <1>4, <1>7, <1>8, OrderOne

LEMMA ClientOrder ==
    ASSUME TypeInv, Order, NEW c \in Conns, ClientStep(c) \/ Expire(c)
    PROVE  Order'
<1>1. CASE \E u \in ClientUnits : Send(c, u)
  BY <1>1, SendOrder
<1>2. CASE ~\E u \in ClientUnits : Send(c, u)
  <2>1. UNCHANGED server /\ Changes(c) /\ Flow(c)
    BY <1>2, ClientIs DEF Flow
  <2>2. \A d \in Conns : Flow(d)
    BY <2>1 DEF Changes, Flow
  <2> QED
    BY <2>1, <2>2, OrderSame, TasksSame DEF server
<1> QED
  BY <1>1, <1>2

LEMMA ReadOrder ==
    ASSUME TypeInv, Order, NEW w \in Workers, ReadData(w)
    PROVE  Order'
<1>1. PICK c : c = Here(w)
  OBVIOUS
<1>2. /\ thr[w].pc = "read" /\ tasks' = tasks
      /\ conn' = [conn EXCEPT ![c] = [@ EXCEPT !.buf = conn[c].buf \o conn[c].inq, !.inq = << >>]]
  BY <1>1 DEF ReadData, WGoto
<1>3. c \in Conns
  BY <1>1, <1>2, InHand DEF Serving
<1>4. /\ Changes(c) /\ conn'[c].buf = conn[c].buf \o conn[c].inq /\ conn'[c].inq = << >>
      /\ conn'[c].script = conn[c].script /\ conn'[c].served = conn[c].served /\ conn'[c].ws = conn[c].ws
  BY <1>2, <1>3, ReadIs
<1>5. \A d : SameWork(d)
  BY <1>2, TasksSame
<1>6. Numbered(c) /\ InTask(c)' = InTask(c) /\ InTask(c) \in {0, 1}
  BY <1>3, <1>5, InTaskKept DEF Order, InTask
<1>7. InLine(conn[c].served, InTask(c), conn[c].buf \o conn[c].inq, << >>, conn[c].script)
  BY <1>3, <1>6, LineRead, SeqOfInts DEF Numbered
<1>8. Numbered(c)'
  <2>1. \A t \in tasks : t.conn = c /\ Waiting(t) => t.n = Len(conn[c].served) + 1
    BY <1>6 DEF Numbered
  <2> QED
    BY <1>2, <1>4, <1>6, <1>7, <2>1 DEF Numbered, Waiting, InLine
<1>9. Upgrading(c)'
  BY <1>3, <1>4, UpgradingKept, SeqTypes
<1> QED
  BY <1>3, <1>4, <1>5, <1>8, <1>9, OrderOne

\* The front unit is answered by the epoll thread.
LEMMA ServeOrder ==
    ASSUME Calm, TypeInv, Life, Order, NEW w \in Workers, thr[w].pc = "loop", NEW c, c = Here(w),
           conn[c].buf # << >>, NEW up, ServeFront(w, up), tasks' = tasks,
           conn[c].ws \/ up => conn[c].ws \/ conn[c].script[Head(conn[c].buf)] = "upgrade"
    PROVE  Order'
<1>1. PICK n : n = Head(conn[c].buf)
  OBVIOUS
<1>2. c \in Conns /\ InTask(c) = 0 /\ n = Len(conn[c].served) + 1 /\ n \in 1..Len(conn[c].script)
  BY <1>1, FrontFacts
<1>3. /\ Changes(c) /\ conn'[c].buf = Tail(conn[c].buf)
      /\ conn'[c].served = Append(conn[c].served, n) /\ conn'[c].ws = (conn[c].ws \/ up)
      /\ conn'[c].script = conn[c].script /\ conn'[c].inq = conn[c].inq
  BY <1>1, <1>2, ServeIs
<1>4. \A d : SameWork(d)
  BY TasksSame
<1>5. Numbered(c) /\ Upgrading(c) /\ InTask(c)' = 0 /\ Len(conn[c].served) \in Nat
  BY <1>2, <1>4, InTaskKept, SeqTypes DEF Order
<1>6. Numbered(c)'
  <2>1. InLine(Append(conn[c].served, n), 0, Tail(conn[c].buf), conn[c].inq, conn[c].script)
    BY <1>1, <1>2, <1>5, LineServe, SeqOfInts DEF Numbered
  <2>2. \A t \in tasks' : ~(t.conn = c /\ Waiting(t))
    BY <1>2 DEF InTask
  <2>3. InLine(conn'[c].served, InTask(c)', conn'[c].buf, conn'[c].inq, conn'[c].script)
    BY <1>3, <1>5, <2>1
  <2> QED
    BY <2>2, <2>3 DEF Numbered, Waiting, InLine
<1>7. Upgrading(c)'
  <2>1. Len(Append(conn[c].served, n)) = Len(conn[c].served) + 1
    BY <1>1, <1>2, SeqTypes, FrontIn, AppendProperties
  <2>2. n \in 1..(Len(conn[c].served) + 1) /\ \A i \in 1..Len(conn[c].served) : i \in 1..(Len(conn[c].served) + 1)
    BY <1>2, <1>5
  <2>3. conn'[c].ws => conn[c].ws \/ conn[c].script[n] = "upgrade"
    BY <1>1, <1>3
  <2>4. conn'[c].ws => \E i \in 1..Len(conn'[c].served) : conn'[c].script[i] = "upgrade"
    BY <1>3, <1>5, <2>1, <2>2, <2>3 DEF Upgrading
  <2> QED
    BY <1>3, <1>5, <2>4, SMTT(40) DEF Upgrading
<1> QED
  BY <1>2, <1>3, <1>4, <1>6, <1>7, OrderOne

LEMMA AnswersOrder ==
    ASSUME Calm, TypeInv, Life, Order, NEW w \in Workers, LoopDisconnect(w) \/ LoopUpgrade(w)
    PROVE  Order'
<1>1. PICK c : c = Here(w)
  OBVIOUS
<1>2. CASE LoopDisconnect(w)
  <2>1. thr[w].pc = "loop" /\ conn[c].buf # << >> /\ ServeFront(w, FALSE) /\ tasks' = tasks
    BY <1>1, <1>2 DEF LoopDisconnect, WGoto, FrontIs
  <2>2. conn[c].ws \/ FALSE => conn[c].ws \/ conn[c].script[Head(conn[c].buf)] = "upgrade"
    OBVIOUS
  <2> QED
    BY <1>1, <2>1, <2>2, ServeOrder
<1>3. CASE LoopUpgrade(w)
  <2>1. thr[w].pc = "loop" /\ conn[c].buf # << >> /\ ServeFront(w, TRUE) /\ tasks' = tasks /\ FrontUnit(w) = "upgrade"
    BY <1>1, <1>3 DEF LoopUpgrade, WGoto, FrontIs
  <2>2. conn[c].script[Head(conn[c].buf)] = "upgrade"
    BY <1>1, <2>1 DEF FrontUnit, Front, WsUnits, DataUnits
  <2> QED
    BY <1>1, <2>1, <2>2, ServeOrder
<1> QED
  BY <1>2, <1>3

LEMMA OffloadOrder ==
    ASSUME Calm, TypeInv, Life, Order, NEW w \in Workers, LoopOffload(w)
    PROVE  Order'
<1>1. PICK c : c = Here(w)
  OBVIOUS
<1>2. c \in Conns /\ thr[w].pc = "loop" /\ conn[c].buf # << >> /\ conn' = [conn EXCEPT ![c].buf = Tail(@)]
  BY <1>1, OffloadIs
<1>3. PICK s \in Tasks : /\ tasks' = tasks \cup {s} /\ s.conn = c /\ s.n = Head(conn[c].buf) /\ s.at = "queued"
  BY <1>1, OffloadIs
<1>4. InTask(c) = 0 /\ s.n = Len(conn[c].served) + 1
  BY <1>1, <1>2, <1>3, FrontFacts
<1>5. /\ Changes(c) /\ conn'[c].buf = Tail(conn[c].buf)
      /\ conn'[c].script = conn[c].script /\ conn'[c].inq = conn[c].inq
      /\ conn'[c].served = conn[c].served /\ conn'[c].ws = conn[c].ws
  BY <1>2, TakenIs
<1>6. \A d \in Conns \ {c} : SameWork(d)
  BY <1>3 DEF SameWork
<1>7. Numbered(c)'
  <2>1. InLine(conn[c].served, 0, conn[c].buf, conn[c].inq, conn[c].script)
    BY <1>2, <1>4 DEF Order, Numbered
  <2>2. InLine(conn[c].served, 1, Tail(conn[c].buf), conn[c].inq, conn[c].script)
    BY <1>2, <2>1, LineTake, SeqOfInts
  <2>3. InTask(c)' = 1
    BY <1>3 DEF InTask, Waiting
  <2>4. \A t \in tasks' : t.conn = c /\ Waiting(t) => t.n = Len(conn[c].served) + 1
    BY <1>3, <1>4 DEF InTask
  <2> QED
    BY <1>5, <2>2, <2>3, <2>4 DEF Numbered, Waiting, InLine
<1>8. Upgrading(c)'
  BY <1>2, <1>5, UpgradingKept, SeqTypes
<1> QED
  BY <1>2, <1>5, <1>6, <1>7, <1>8, OrderOne

\* The other steps of the epoll threads move no unit.
LEMMA WorkerOrder ==
    ASSUME Calm, TypeInv, Life, Order, NEW w \in Workers, WorkerStep(w)
    PROVE  Order'
<1>1. ASSUME tasks' = tasks, \A d \in Conns : Flow(d) PROVE Order'
  BY <1>1, OrderSame, TasksSame
<1>2. ASSUME tasks' = tasks, conn' = conn PROVE Order'
  BY <1>1, <1>2, FlowSame
<1>3. ASSUME NEW c \in Conns, tasks' = tasks, Changes(c), Flow(c) PROVE Order'
  <2>1. \A d \in Conns : Flow(d)
    BY <1>3 DEF Changes, Flow
  <2> QED
    BY <1>1, <1>3, <2>1
<1>4. ASSUME Exit(w) \/ LoopControl(w) PROVE FALSE
  BY <1>4, NoControl DEF Exit, Life, Quiet
<1>5. ASSUME \E e \in thr[w].batch : EventIn(w, e) PROVE Order'
  <2>1. PICK e \in thr[w].batch : EventIn(w, e)
    BY <1>5
  <2>2. PICK c : c = actives[w][e.fd]
    OBVIOUS
  <2>3. tasks' = tasks /\ (conn' = conn \/ (c # NoConn /\ conn' = [conn EXCEPT ![c].stale = FALSE]))
    <3>1. CASE c = NoConn
      BY <2>1, <2>2, <3>1 DEF EventIn
    <3>2. CASE c # NoConn
      BY <2>1, <2>2, <3>2 DEF EventIn
    <3> QED
      BY <3>1, <3>2
  <2>4. CASE conn' = conn
    BY <1>2, <2>3, <2>4
  <2>5. CASE c # NoConn /\ conn' = [conn EXCEPT ![c].stale = FALSE]
    <3>1. e.fd \in Fds
      BY <2>1 DEF EventIn, TypeInv, ThreadsType, ThrType
    <3>2. c \in Conns
      BY <2>2, <2>5, <3>1 DEF TypeInv, BookType
    <3>3. Changes(c) /\ Flow(c)
      BY <2>5, <3>2, StaleIs
    <3> QED
      BY <1>3, <2>3, <3>2, <3>3
  <2> QED
    BY <2>3, <2>4, <2>5
<1>6. ASSUME \E c \in Conns : AcceptSocket(w, c) PROVE Order'
  <2>1. PICK c \in Conns : AcceptSocket(w, c)
    BY <1>6
  <2>2. Changes(c) /\ Flow(c) /\ tasks' = tasks
    BY <2>1, AcceptSocketIs DEF AcceptSocket
  <2> QED
    BY <1>3, <2>2
<1>7. ASSUME HandshakeWantsRead(w) \/ HandshakeWantsWrite(w) \/ HandshakeDone(w) PROVE Order'
  <2>1. PICK c : c = Here(w)
    OBVIOUS
  <2>2. PICK next : conn' = [conn EXCEPT ![c].tls = next] /\ thr[w].pc = "handshake" /\ tasks' = tasks
    BY <1>7, <2>1 DEF HandshakeWantsRead, HandshakeWantsWrite, HandshakeWants, HandshakeDone, WGoto
  <2>3. c \in Conns
    BY <2>1, <2>2, InHand DEF Serving
  <2>4. Changes(c) /\ Flow(c)
    BY <2>2, <2>3, TlsIs
  <2> QED
    BY <1>3, <2>2, <2>3, <2>4
<1>8. ASSUME \/ Poll(w) \/ SweepCollect(w) \/ SweepDone(w) \/ AcceptRegister(w) \/ AcceptDone(w)
             \/ HandshakeFails(w) \/ LoopSendThrows(w) \/ ReadEnd(w) \/ LoopIncomplete(w)
             \/ \E f \in Fds : SweepOne(w, f)
             \/ \E e \in thr[w].batch : EventListen(w, e) \/ EventHup(w, e) \/ EventOut(w, e)
      PROVE  Order'
  <2>1. tasks' = tasks /\ conn' = conn
    BY <1>8 DEF Poll, SweepCollect, SweepDone, AcceptRegister, AcceptDone, HandshakeFails, LoopSendThrows, ReadEnd, LoopIncomplete,
                SweepOne, EventListen, EventHup, EventOut
  <2> QED
    BY <1>2, <2>1
<1> HIDE DEF Order
<1> QED
  BY <1>4, <1>5, <1>6, <1>7, <1>8, ReadOrder, AnswersOrder, OffloadOrder DEF WorkerStep

\* A task answers the unit it was given.
LEMMA AnswerOrder ==
    ASSUME TypeInv, Life, Order, NEW t \in tasks, NEW c, c = t.conn, Waiting(t), Become(t, "sent"),
           Changes(c), conn'[c].served = Append(conn[c].served, t.n), conn'[c].script = conn[c].script,
           conn'[c].inq = conn[c].inq, conn'[c].buf = conn[c].buf, conn'[c].ws = conn[c].ws
    PROVE  Order'
<1>1. PICK s \in Tasks : tasks' = (tasks \ {t}) \cup {s} /\ s.conn = c /\ s.at = "sent"
  BY BecomeIs DEF Ats
<1>2. c \in Conns /\ t.n \in 1..MaxUnits /\ Len(conn[c].served) \in Nat
  BY SeqTypes DEF TypeInv, Tasks
<1>3. \A x \in tasks : x.conn = c /\ Waiting(x) => x = t
  BY DEF Life, Held, Waiting
<1>4. \A x \in tasks' : ~(x.conn = c /\ Waiting(x))
  BY <1>1, <1>3 DEF Waiting
<1>5. InTask(c) = 1 /\ InTask(c)' = 0
  <2>1. InTask(c) = 1
    BY DEF InTask
  <2>2. InTask(c)' = 0
    BY <1>4 DEF InTask, Waiting
  <2> QED
    BY <2>1, <2>2
<1>6. Numbered(c) /\ t.n = Len(conn[c].served) + 1
  BY <1>2 DEF Order, Numbered
<1>7. Numbered(c)'
  <2>1. InLine(Append(conn[c].served, t.n), 0, conn[c].buf, conn[c].inq, conn[c].script)
    BY <1>2, <1>5, <1>6, LineAnswer, SeqOfInts DEF Numbered
  <2>2. InLine(conn'[c].served, InTask(c)', conn'[c].buf, conn'[c].inq, conn'[c].script)
    BY <1>5, <2>1
  <2> QED
    BY <1>4, <2>2 DEF Numbered, Waiting, InLine
<1>8. Upgrading(c)'
  <2>1. Len(Append(conn[c].served, t.n)) = Len(conn[c].served) + 1
    BY <1>2, SeqTypes, AppendProperties
  <2> QED
    BY <1>2, <2>1, UpgradingKept
<1>9. \A d \in Conns \ {c} : SameWork(d)
  BY <1>1 DEF SameWork
<1> QED
  BY <1>2, <1>7, <1>8, <1>9, OrderOne

LEMMA TaskOrder ==
    ASSUME Calm, TypeInv, Life, Order, NEW t \in tasks, TaskStep(t)
    PROVE  Order'
<1>1. PICK c : c = t.conn
  OBVIOUS
<1>2. c \in Conns /\ Held(t)
  BY <1>1 DEF TypeInv, Tasks, Life
<1>3. ASSUME TaskThrow(t) \/ TaskClose(t) \/ TaskDiscard(t) PROVE FALSE
  <2>1. t.at # "close" /\ t.w \in Workers /\ \A w \in Workers : thr[w].pc # "exit"
    BY DEF TypeInv, Tasks, Life, Held, Quiet
  <2> QED
    BY <1>3, <2>1 DEF TaskThrow, TaskClose, TaskDiscard, Calm
<1>4. ASSUME TaskHandleWs(t) PROVE Order'
  <2>1. Waiting(t) /\ Become(t, "sent") /\ conn' = [conn EXCEPT ![c].served = Append(@, t.n)]
    BY <1>1, <1>4 DEF TaskHandleWs, Waiting
  <2>2. /\ Changes(c) /\ conn'[c].served = Append(conn[c].served, t.n) /\ conn'[c].script = conn[c].script
        /\ conn'[c].inq = conn[c].inq /\ conn'[c].buf = conn[c].buf /\ conn'[c].ws = conn[c].ws
    BY <1>2, <2>1, ServedIs
  <2> QED
    BY <1>1, <2>1, <2>2, AnswerOrder
<1>5. ASSUME TaskSend(t) PROVE Order'
  <2>1. /\ Waiting(t) /\ Become(t, "sent")
        /\ conn' = [conn EXCEPT ![c] = [@ EXCEPT !.served = Append(conn[c].served, t.n), !.stale = FALSE]]
    BY <1>1, <1>5 DEF TaskSend, Waiting
  <2>2. /\ Changes(c) /\ conn'[c].served = Append(conn[c].served, t.n) /\ conn'[c].script = conn[c].script
        /\ conn'[c].inq = conn[c].inq /\ conn'[c].buf = conn[c].buf /\ conn'[c].ws = conn[c].ws
    BY <1>2, <2>1, SentIs
  <2> QED
    BY <1>1, <2>1, <2>2, AnswerOrder
<1>6. ASSUME conn' = conn, \A d \in Conns : SameWork(d) PROVE Order'
  BY <1>6, OrderSame, FlowSame
<1>7. ASSUME NEW at \in Ats, Become(t, at), conn' = conn, Waiting(t) <=> at \in {"queued", "handled"}
      PROVE  Order'
  <2>1. PICK s \in Tasks : tasks' = (tasks \ {t}) \cup {s} /\ s.conn = t.conn /\ s.n = t.n /\ s.at = at
    BY <1>7, BecomeIs
  <2>2. Waiting(s) <=> Waiting(t)
    BY <1>7, <2>1 DEF Waiting
  <2>3. \A d \in Conns : SameWork(d)
    BY <2>1, <2>2 DEF SameWork
  <2> QED
    BY <1>6, <1>7, <2>3
<1>8. ASSUME TaskHandle(t) PROVE Order'
  BY <1>7, <1>8 DEF TaskHandle, Ats, Waiting
<1>9. ASSUME TaskDecide(t) \/ TaskRearm(t) PROVE Order'
  <2>1. PICK at \in {"rearm", "close", "drop"} : Become(t, at)
    BY <1>9 DEF TaskDecide, TaskRearm
  <2>2. conn' = conn /\ ~Waiting(t) /\ at \in Ats /\ at \notin {"queued", "handled"}
    BY <1>9, <2>1 DEF TaskDecide, TaskRearm, Waiting, Ats
  <2> QED
    BY <1>7, <2>1, <2>2
<1>10. ASSUME TaskDrop(t) PROVE Order'
  <2>1. tasks' = tasks \ {t} /\ ~Waiting(t) /\ conn' = conn
    BY <1>10 DEF TaskDrop, Waiting
  <2>2. \A d \in Conns : SameWork(d)
    BY <2>1 DEF SameWork
  <2> QED
    BY <1>6, <2>1, <2>2
<1> HIDE DEF Order
<1> QED
  BY <1>3, <1>4, <1>5, <1>8, <1>9, <1>10 DEF TaskStep

LEMMA OrderInit == Init => Order
<1> SUFFICES ASSUME Init, NEW c \in Conns PROVE Numbered(c) /\ Upgrading(c)
  BY DEF Order
<1>1. conn[c].script = << >> /\ conn[c].inq = << >> /\ conn[c].buf = << >> /\ conn[c].served = << >> /\ conn[c].ws = FALSE
  BY DEF Init
<1>2. tasks = {} /\ InTask(c) = 0
  BY DEF Init, InTask
<1>3. Len(<< >>) = 0
  OBVIOUS
<1>4. Numbered(c)
  BY <1>1, <1>2, <1>3 DEF Numbered, InLine
<1>5. Upgrading(c)
  BY <1>1, <1>3 DEF Upgrading
<1> QED
  BY <1>4, <1>5

LEMMA OrderStep ==
    ASSUME Calm, TypeInv, Life, Order, [Next]_vars
    PROVE  Order'
<1>1. ASSUME Stop PROVE FALSE
  BY <1>1 DEF Stop, Calm
<1>2. ASSUME UNCHANGED vars PROVE Order'
  <2>1. conn' = conn /\ tasks' = tasks
    BY <1>2 DEF vars
  <2> QED
    BY <2>1, OrderSame, FlowSame, TasksSame
<1> HIDE DEF Life, Order, TypeInv, Calm
<1> QED
  BY <1>1, <1>2, ClientOrder, WorkerOrder, TaskOrder DEF Next

(***************************************************************************)
(* Without blocked writes, somebody has every registration that has fired. *)
(***************************************************************************)

\* An event of connection c is at hand, or its handler runs, or a task is at work.
Attended(c) ==
    LET w == conn[c].owner IN
        \/ \E e \in thr[w].batch : e.ev # "listen" /\ e.fd = conn[c].fd
        \/ thr[w].pc \in Serving /\ thr[w].cur = conn[c].fd
        \/ ~Idle(c)

Heard ==
    /\ \A w \in Workers : \A e \in thr[w].batch : e.ev # "out"
    /\ \A c \in Conns : reg[c] # "out" /\ (reg[c] = "off" => Attended(c))

LEMMA HeardTurn ==
    ASSUME TypeInv, Heard, NEW w \in Workers, Turns(w),
           \A e \in thr'[w].batch : e.ev # "out",
           \A d \in Conns : ~Idle(d) => ~Idle(d)',
           \A d \in Conns : reg[d] # "none" => Ident(d),
           \A d \in Conns : reg'[d] \in {reg[d], "in", "none"} \/ (reg'[d] = "off" /\ Attended(d)'),
           \A d \in Conns : conn[d].owner = w /\ reg[d] = "off" /\ reg'[d] = "off" =>
               /\ \A e \in thr[w].batch : e.ev # "listen" /\ e.fd = conn[d].fd => Attended(d)'
               /\ thr[w].pc \in Serving /\ thr[w].cur = conn[d].fd => Attended(d)'
    PROVE  Heard'
<1>1. \A v \in Workers \ {w} : thr'[v] = thr[v]
  BY DEF Turns
<1>2. \A v \in Workers : \A e \in thr'[v].batch : e.ev # "out"
  BY <1>1 DEF Heard
<1>3. ASSUME NEW d \in Conns PROVE reg'[d] # "out"
  BY DEF Heard
<1>4. ASSUME NEW d \in Conns, reg'[d] = "off", ~Attended(d)' PROVE FALSE
  <2>1. reg[d] = "off" /\ Attended(d) /\ Ident(d)
    BY <1>4 DEF Heard
  <2>2. conn[d].owner \in Workers
    BY DEF TypeInv, ConnsType, ConnType
  <2>3. CASE ~Idle(d)
    BY <1>4, <2>3 DEF Attended
  <2>4. CASE Idle(d)
    <3>1. CASE conn[d].owner = w
      BY <1>4, <2>1, <2>4, <3>1 DEF Attended
    <3>2. CASE conn[d].owner # w
      <4>1. thr'[conn[d].owner] = thr[conn[d].owner]
        BY <1>1, <2>2, <3>2
      <4>2. conn'[d].owner = conn[d].owner /\ conn'[d].fd = conn[d].fd
        BY <2>1 DEF Ident
      <4> QED
        BY <1>4, <2>1, <2>4, <4>1, <4>2 DEF Attended
    <3> QED
      BY <3>1, <3>2
  <2> QED
    BY <2>3, <2>4
<1> QED
  BY <1>2, <1>3, <1>4 DEF Heard

\* Two registered connections of a worker have different descriptors.
LEMMA OwnFd ==
    ASSUME Life, NEW d \in Conns, reg[d] # "none"
    PROVE  conn[d].fd \in Fds /\ actives[conn[d].owner][conn[d].fd] = d
BY DEF Life, Mapped

LEMMA IdleSame ==
    ASSUME tasks' = tasks
    PROVE  \A d : Idle(d)' <=> Idle(d)
BY DEF Idle

\* The thread was in no handler, keeps its events and takes no registration.
LEMMA HeardMoves ==
    ASSUME TypeInv, Heard, NEW w \in Workers, Turns(w), tasks' = tasks, thr[w].pc \notin Serving,
           \A e \in thr[w].batch : e.ev # "listen" => e \in thr'[w].batch, thr'[w].batch \subseteq thr[w].batch,
           \A d \in Conns : reg[d] # "none" => Ident(d),
           \A d \in Conns : reg'[d] \in {reg[d], "in", "none"}
    PROVE  Heard'
<1>1. \A e \in thr'[w].batch : e.ev # "out"
  BY DEF Heard
<1>2. ASSUME NEW d \in Conns, conn[d].owner = w, reg[d] = "off", NEW e \in thr[w].batch, e.ev # "listen", e.fd = conn[d].fd
      PROVE  Attended(d)'
  <2>1. e \in thr'[w].batch /\ conn'[d].owner = w /\ conn'[d].fd = e.fd
    BY <1>2 DEF Ident
  <2> QED
    BY <1>2, <2>1 DEF Attended
<1> QED
  BY <1>1, <1>2, HeardTurn, IdleSame

\* The connection with descriptor f, in hand or not, is given up.
LEMMA HeardGone ==
    ASSUME TypeInv, Life, Heard, NEW w \in Workers, NEW f \in Fds, NEW c, c = actives[w][f], c # NoConn,
           Turns(w), tasks' = tasks, thr[w].pc \in Serving => thr[w].cur = f,
           reg' = [d \in Conns |-> IF d = c THEN "none" ELSE reg[d]] \/ reg' = [reg EXCEPT ![c] = "in"],
           \A d \in Conns : Ident(d),
           \A e \in thr[w].batch : e.fd # f => e \in thr'[w].batch, thr'[w].batch \subseteq thr[w].batch
    PROVE  Heard'
<1>1. \A e \in thr'[w].batch : e.ev # "out"
  BY DEF Heard
<1>2. c \in Conns
  BY DEF TypeInv, BookType
<1>3. reg'[c] \in {"none", "in"} /\ \A d \in Conns \ {c} : reg'[d] = reg[d]
  BY <1>2 DEF TypeInv, FilesType
<1>4. \A d \in Conns : reg'[d] \in {reg[d], "in", "none"}
  BY <1>3
<1>5. ASSUME NEW d \in Conns, conn[d].owner = w, reg[d] = "off", reg'[d] = "off"
      PROVE  conn[d].fd # f
  BY <1>3, <1>5, OwnFd
<1>6. ASSUME NEW d \in Conns, conn[d].owner = w, reg[d] = "off", reg'[d] = "off",
             NEW e \in thr[w].batch, e.ev # "listen", e.fd = conn[d].fd
      PROVE  Attended(d)'
  <2>1. e \in thr'[w].batch /\ conn'[d].owner = w /\ conn'[d].fd = e.fd
    BY <1>5, <1>6 DEF Ident
  <2> QED
    BY <1>6, <2>1 DEF Attended
<1> QED
  BY <1>1, <1>4, <1>5, <1>6, HeardTurn, IdleSame

LEMMA PollHeard ==
    ASSUME TypeInv, Life, Heard, NEW w \in Workers, Poll(w)
    PROVE  Heard'
<1> DEFINE ready == {f \in Fds : EventOf(w, f) # "none"}
<1>1. /\ Turns(w) /\ thr[w].pc = "poll"
      /\ thr'[w].batch = (IF Backlog(w) # {} THEN {[fd |-> 0, ev |-> "listen"]} ELSE {})
                         \cup {[fd |-> f, ev |-> EventOf(w, f)] : f \in ready}
      /\ reg' = [c \in Conns |-> IF \E f \in ready : fdt[f] = c THEN "off" ELSE reg[c]]
  BY PollIs
<1>2. ASSUME NEW f \in ready
      PROVE  /\ f \in Fds /\ EventOf(w, f) \in {"in", "hup"} /\ fdt[f] \in Conns
             /\ conn[fdt[f]].owner = w /\ conn[fdt[f]].fd = f
  <2>1. f \in Fds /\ EventOf(w, f) \in {"in", "out", "hup"} /\ Registered(w, f) /\ reg[fdt[f]] # "off"
    BY EventOfIs
  <2>2. fdt[f] \in Conns /\ conn[fdt[f]].owner = w /\ conn[fdt[f]].fd = f
    BY <2>1 DEF Registered, TypeInv, FilesType
  <2>3. reg[fdt[f]] = "in"
    BY <2>1, <2>2 DEF Heard, Registered, TypeInv, FilesType
  <2>4. EventOf(w, f) # "out"
    <3>1. CASE conn[fdt[f]].peer = "reset"
      BY <2>1, <2>3, <3>1 DEF EventOf
    <3>2. CASE conn[fdt[f]].peer # "reset"
      BY <2>1, <2>3, <3>2 DEF EventOf
    <3> QED
      BY <3>1, <3>2
  <2> QED
    BY <2>1, <2>2, <2>4
<1> HIDE DEF ready
<1>3. tasks' = tasks /\ conn' = conn
  BY DEF Poll
<1>4. thr[w].batch = {} /\ thr[w].pc \notin Serving
  BY <1>1 DEF Life, AtHand, Batched, Serving
<1>5. \A e \in thr'[w].batch : e.ev # "out"
  <2> SUFFICES ASSUME NEW e \in thr'[w].batch PROVE e.ev # "out"
    OBVIOUS
  <2>1. e = [fd |-> 0, ev |-> "listen"] \/ \E f \in ready : e = [fd |-> f, ev |-> EventOf(w, f)]
    BY <1>1
  <2> QED
    BY <1>2, <2>1
<1>6. ASSUME NEW d \in Conns, NEW f \in ready, fdt[f] = d PROVE Attended(d)'
  <2>1. conn'[d].owner = w /\ conn'[d].fd = f
    BY <1>2, <1>3, <1>6
  <2>2. PICK e : e = [fd |-> f, ev |-> EventOf(w, f)]
    OBVIOUS
  <2>3. e \in thr'[w].batch /\ e.ev # "listen" /\ e.fd = f
    BY <1>1, <1>2, <2>2
  <2> QED
    BY <2>1, <2>3 DEF Attended
<1>7. \A d \in Conns : reg'[d] \in {reg[d], "in", "none"} \/ (reg'[d] = "off" /\ Attended(d)')
  BY <1>1, <1>6
<1>8. \A d \in Conns : Ident(d)
  BY <1>3 DEF Ident
<1> QED
  BY <1>1, <1>3, <1>4, <1>5, <1>7, <1>8, HeardTurn, IdleSame

LEMMA EventInHeard ==
    ASSUME TypeInv, Life, Heard, NEW w \in Workers, NEW e \in thr[w].batch, EventIn(w, e)
    PROVE  Heard'
<1>1. PICK c : c = actives[w][e.fd]
  OBVIOUS
<1>2. e.ev = "in" /\ e.fd \in Fds /\ c # NoConn
  BY <1>1 DEF EventIn, Life, AtHand, Batched, TypeInv, ThreadsType, ThrType
<1>3. c \in Conns
  BY <1>1, <1>2 DEF TypeInv, BookType
<1>4. /\ TakeEvent(w, e, "in", IF conn[c].tls = "done" THEN "read" ELSE "handshake")
      /\ conn' = [conn EXCEPT ![c].stale = FALSE] /\ UNCHANGED kernel /\ tasks' = tasks
  BY <1>1, <1>2 DEF EventIn
<1>5. PICK to \in Serving : TakeEvent(w, e, "in", to)
  BY <1>4 DEF Serving
<1>6. /\ Turns(w) /\ thr[w].pc = "events" /\ thr'[w].pc = to /\ thr'[w].batch = thr[w].batch \ {e} /\ thr'[w].cur = e.fd
  <2>1. to # "events"
    BY DEF Serving
  <2> QED
    BY <1>5, <2>1, TakeEventIs
<1>7. \A d \in Conns : Ident(d)
  <2>1. Changes(c) /\ Ident(c)
    BY <1>3, <1>4, StaleIs
  <2> QED
    BY <2>1 DEF Changes, Ident
<1>8. ASSUME NEW d \in Conns, conn[d].owner = w, NEW x \in thr[w].batch, x.ev # "listen", x.fd = conn[d].fd
      PROVE  Attended(d)'
  <2>1. conn'[d].owner = w /\ conn'[d].fd = x.fd
    BY <1>7, <1>8 DEF Ident
  <2>2. CASE x = e
    BY <1>6, <2>1, <2>2 DEF Attended
  <2>3. CASE x # e
    <3>1. x \in thr'[w].batch
      BY <1>6, <2>3
    <3> QED
      BY <1>8, <2>1, <3>1 DEF Attended
  <2> QED
    BY <2>2, <2>3
<1>9. reg' = reg /\ thr[w].pc \notin Serving
  BY <1>4, <1>6 DEF kernel, Serving
<1>10. \A x \in thr'[w].batch : x.ev # "out"
  BY <1>6 DEF Heard
<1>11. \A d \in Conns : reg'[d] \in {reg[d], "in", "none"}
  BY <1>9
<1> QED
  BY <1>4, <1>6, <1>7, <1>8, <1>9, <1>10, <1>11, HeardTurn, IdleSame

LEMMA ServingHeard ==
    ASSUME TypeInv, Heard, NEW w \in Workers, HandshakeDone(w) \/ ReadData(w)
    PROVE  Heard'
<1>1. PICK from \in Serving, to \in Serving : WGoto(w, from, to)
  BY DEF HandshakeDone, ReadData, Serving
<1>2. /\ Turns(w) /\ thr[w].pc = from /\ thr'[w].pc = to /\ thr'[w].batch = thr[w].batch /\ thr'[w].cur = thr[w].cur
  BY <1>1, WGotoIs
<1>3. PICK c \in Conns : c = Here(w)
  BY <1>2, InHand
<1>4. tasks' = tasks /\ reg' = reg
  BY DEF HandshakeDone, ReadData, kernel
<1>5. Changes(c) /\ Ident(c)
  <2>1. CASE HandshakeDone(w)
    BY <1>3, <2>1, TlsIs DEF HandshakeDone
  <2>2. CASE ReadData(w)
    BY <1>3, <2>2, ReadIs DEF ReadData
  <2> QED
    BY <2>1, <2>2
<1>6. \A d \in Conns : Ident(d)
  BY <1>5 DEF Changes, Ident
<1>7. ASSUME NEW d \in Conns, conn[d].owner = w,
             \/ \E e \in thr[w].batch : e.ev # "listen" /\ e.fd = conn[d].fd
             \/ thr[w].cur = conn[d].fd
      PROVE  Attended(d)'
  <2>1. conn'[d].owner = w /\ conn'[d].fd = conn[d].fd
    BY <1>6, <1>7 DEF Ident
  <2> QED
    BY <1>2, <1>7, <2>1 DEF Attended
<1>8. \A e \in thr'[w].batch : e.ev # "out"
  BY <1>2 DEF Heard
<1>9. \A d \in Conns : reg'[d] \in {reg[d], "in", "none"}
  BY <1>4
<1> QED
  BY <1>2, <1>4, <1>6, <1>7, <1>8, <1>9, HeardTurn, IdleSame

LEMMA OffloadHeard ==
    ASSUME TypeInv, Life, Heard, NEW w \in Workers, LoopOffload(w)
    PROVE  Heard'
<1>1. PICK c : c = Here(w)
  OBVIOUS
<1>2. c \in Conns /\ thr[w].pc = "loop" /\ conn' = [conn EXCEPT ![c].buf = Tail(@)]
  BY <1>1, OffloadIs
<1>3. PICK s \in Tasks : tasks' = tasks \cup {s} /\ s.conn = c /\ s.at = "queued"
  BY <1>1, OffloadIs
<1>4. WGoto(w, "loop", "events") /\ UNCHANGED kernel
  BY DEF LoopOffload
<1>5. Turns(w) /\ thr'[w].pc = "events" /\ thr'[w].batch = thr[w].batch /\ reg' = reg
  BY <1>4, WGotoIs DEF kernel
<1>6. Changes(c) /\ Ident(c)
  BY <1>2, TakenIs
<1>7. \A d \in Conns : Ident(d)
  BY <1>6 DEF Changes, Ident
<1>8. \A d \in Conns : ~Idle(d) => ~Idle(d)'
  BY <1>3 DEF Idle
<1>9. ~Idle(c)'
  BY <1>3 DEF Idle
<1>10. ASSUME NEW d \in Conns, conn[d].owner = w, reg[d] = "off", NEW e \in thr[w].batch, e.ev # "listen", e.fd = conn[d].fd
       PROVE  Attended(d)'
  <2>1. e \in thr'[w].batch /\ conn'[d].owner = w /\ conn'[d].fd = e.fd
    BY <1>5, <1>7, <1>10 DEF Ident
  <2> QED
    BY <1>10, <2>1 DEF Attended
<1>11. ASSUME NEW d \in Conns, conn[d].owner = w, reg[d] = "off", thr[w].cur = conn[d].fd
       PROVE  Attended(d)'
  <2>1. d = c
    BY <1>1, <1>11, OwnFd DEF Here
  <2> QED
    BY <1>9, <2>1 DEF Attended
<1>12. \A e \in thr'[w].batch : e.ev # "out"
  BY <1>5 DEF Heard
<1>13. \A d \in Conns : reg'[d] \in {reg[d], "in", "none"}
  BY <1>5
<1> QED
  BY <1>5, <1>7, <1>8, <1>10, <1>11, <1>12, <1>13, HeardTurn

LEMMA WorkerHeard ==
    ASSUME Calm, ~WriteMayBlock, TypeInv, Life, Order, Heard, NEW w \in Workers, WorkerStep(w)
    PROVE  Heard'
<1>1. ASSUME Exit(w) \/ LoopControl(w) \/ HandshakeWantsWrite(w) PROVE FALSE
  BY <1>1, NoControl DEF Exit, Life, Quiet, HandshakeWantsWrite
<1>2. ASSUME \E e \in thr[w].batch : EventOut(w, e) PROVE FALSE
  BY <1>2 DEF EventOut, TakeEvent, Heard
<1>3. ASSUME SweepDone(w) \/ AcceptDone(w) PROVE Heard'
  <2>1. PICK from \in {"sweep", "accept"}, to \in {"poll", "events"} : WGoto(w, from, to)
    BY <1>3 DEF SweepDone, AcceptDone
  <2>2. Turns(w) /\ thr[w].pc = from /\ thr'[w].batch = thr[w].batch
    BY <2>1, WGotoIs
  <2>3. tasks' = tasks /\ conn' = conn /\ reg' = reg
    BY <1>3 DEF SweepDone, AcceptDone, kernel
  <2> QED
    BY <2>2, <2>3, HeardMoves DEF Ident, Serving
<1>4. ASSUME SweepCollect(w) PROVE Heard'
  <2>1. Turns(w) /\ thr[w].pc = "events" /\ thr'[w].batch = thr[w].batch
    BY <1>4, SweepCollectIs
  <2>2. tasks' = tasks /\ conn' = conn /\ reg' = reg
    BY <1>4 DEF SweepCollect, kernel
  <2> QED
    BY <2>1, <2>2, HeardMoves DEF Ident, Serving
<1>5. ASSUME NEW e \in thr[w].batch, EventListen(w, e) PROVE Heard'
  <2>1. TakeEvent(w, e, "listen", "accept") /\ tasks' = tasks /\ conn' = conn /\ reg' = reg
    BY <1>5 DEF EventListen, kernel
  <2>2. Turns(w) /\ thr[w].pc = "events" /\ e.ev = "listen" /\ thr'[w].batch = thr[w].batch \ {e}
    BY <2>1, TakeEventIs
  <2> QED
    BY <2>1, <2>2, HeardMoves DEF Ident, Serving
<1>6. ASSUME NEW c \in Conns, AcceptSocket(w, c) PROVE Heard'
  <2>1. /\ conn[c].link = "backlog" /\ Changes(c)
        /\ Turns(w) /\ thr[w].pc = "accept" /\ thr'[w].batch = thr[w].batch
    BY <1>6, AcceptSocketIs
  <2>2. tasks' = tasks /\ reg' = reg
    BY <1>6 DEF AcceptSocket
  <2>3. reg[c] = "none"
    BY <2>1, Unknown
  <2>4. \A d \in Conns : reg[d] # "none" => Ident(d)
    BY <2>1, <2>3 DEF Changes, Ident
  <2> QED
    BY <2>1, <2>2, <2>4, HeardMoves DEF Serving
<1>7. ASSUME AcceptRegister(w) PROVE Heard'
  <2>1. PICK c, f : c = thr[w].pend /\ f = thr[w].cur
    OBVIOUS
  <2>2. Turns(w) /\ thr[w].pc = "register" /\ thr'[w].batch = thr[w].batch /\ f \in Fds /\ c \in Conns
    BY <1>7, <2>1, AcceptRegisterIs
  <2>3. fdt[f] = c /\ reg[c] = "none"
    BY <2>1, <2>2 DEF Life, AtHand, Pending
  <2>4. actives[w][f] = NoConn
    BY <2>2, <2>3, Entry
  <2>5. Arm(c, f, "in") /\ conn' = conn /\ tasks' = tasks
    BY <1>7, <2>1, <2>2, <2>3, <2>4, EnvironmentOK DEF AcceptRegister
  <2>6. \A d \in Conns : reg'[d] \in {reg[d], "in", "none"}
    BY <2>2, <2>3, <2>5 DEF Arm, TypeInv, FilesType
  <2> QED
    BY <2>2, <2>5, <2>6, HeardMoves DEF Ident, Serving
<1>8. ASSUME NEW e \in thr[w].batch, EventHup(w, e) PROVE Heard'
  <2>1. TakeEvent(w, e, "hup", "events") /\ Disconnect(w, e.fd) /\ conn' = conn /\ tasks' = tasks
    BY <1>8 DEF EventHup
  <2>2. Turns(w) /\ thr[w].pc = "events" /\ e.ev = "hup" /\ thr'[w].batch = thr[w].batch \ {e}
    BY <2>1, TakeEventIs
  <2>3. PICK c, f : c = actives[w][e.fd] /\ f = e.fd
    OBVIOUS
  <2>4. f \in Fds /\ c # NoConn
    BY <2>2, <2>3 DEF TypeInv, ThreadsType, ThrType, Life, AtHand, Batched
  <2>5. reg' = [d \in Conns |-> IF d = c THEN "none" ELSE reg[d]]
    BY <2>1, <2>3, <2>4, DisconnectIs
  <2> QED
    BY <2>1, <2>2, <2>3, <2>4, <2>5, HeardGone DEF Ident, Serving
<1>9. ASSUME NEW f \in Fds, SweepOne(w, f) PROVE Heard'
  <2>1. Turns(w) /\ thr[w].pc = "sweep" /\ f \in thr[w].idle /\ thr'[w].batch = thr[w].batch
    BY <1>9, SweepOneIs
  <2>2. Disconnect(w, f) /\ conn' = conn /\ tasks' = tasks
    BY <1>9 DEF SweepOne
  <2>3. PICK c : c = actives[w][f]
    OBVIOUS
  <2>4. c # NoConn
    BY <2>1, <2>3 DEF Life, AtHand, Swept
  <2>5. reg' = [d \in Conns |-> IF d = c THEN "none" ELSE reg[d]]
    BY <2>2, <2>3, <2>4, DisconnectIs
  <2> QED
    BY <2>1, <2>2, <2>3, <2>4, <2>5, HeardGone DEF Ident, Serving
<1>10. ASSUME \/ HandshakeFails(w) \/ LoopSendThrows(w) \/ ReadEnd(w) \/ LoopDisconnect(w)
              \/ HandshakeWantsRead(w) \/ LoopIncomplete(w) \/ LoopUpgrade(w)
       PROVE  Heard'
  <2>1. PICK from \in Serving : WGoto(w, from, "events")
    BY <1>10 DEF HandshakeFails, LoopSendThrows, ReadEnd, LoopDisconnect, HandshakeWantsRead, HandshakeWants, LoopIncomplete,
                 LoopUpgrade, Serving
  <2>2. Turns(w) /\ thr[w].pc \in Serving /\ thr'[w].batch = thr[w].batch
    BY <2>1, WGotoIs
  <2>3. PICK c, f : c = Here(w) /\ f = thr[w].cur
    OBVIOUS
  <2>4. f \in Fds /\ c \in Conns /\ c = actives[w][f] /\ c # NoConn
    BY <2>2, <2>3, HandFacts
  <2>5. tasks' = tasks
    BY <1>10 DEF HandshakeFails, LoopSendThrows, ReadEnd, LoopDisconnect, HandshakeWantsRead, HandshakeWants, LoopIncomplete, LoopUpgrade
  <2>6. reg' = [d \in Conns |-> IF d = c THEN "none" ELSE reg[d]] \/ reg' = [reg EXCEPT ![c] = "in"]
    <3>1. CASE Disconnect(w, f)
      BY <2>3, <2>4, <3>1, DisconnectIs
    <3>2. CASE HandlerRearm(w, "in")
      BY <2>2, <2>3, <3>2, RearmIs
    <3> QED
      BY <1>10, <2>3, <3>1, <3>2 DEF HandshakeFails, LoopSendThrows, ReadEnd, LoopDisconnect, HandshakeWantsRead, HandshakeWants,
                                     LoopIncomplete, LoopUpgrade
  <2>7. \A d \in Conns : Ident(d)
    <3>1. CASE LoopDisconnect(w) \/ LoopUpgrade(w)
      <4>1. PICK up : ServeFront(w, up)
        BY <3>1 DEF LoopDisconnect, LoopUpgrade
      <4>2. Changes(c) /\ Ident(c)
        BY <2>3, <2>4, <4>1, ServeIs
      <4> QED
        BY <4>2 DEF Changes, Ident
    <3>2. CASE HandshakeWantsRead(w)
      <4>1. conn' = [conn EXCEPT ![c].tls = "replied"]
        BY <2>3, <3>2 DEF HandshakeWantsRead, HandshakeWants
      <4>2. Changes(c) /\ Ident(c)
        BY <2>4, <4>1, TlsIs
      <4> QED
        BY <4>2 DEF Changes, Ident
    <3>3. CASE HandshakeFails(w) \/ LoopSendThrows(w) \/ ReadEnd(w) \/ LoopIncomplete(w)
      BY <3>3 DEF HandshakeFails, LoopSendThrows, ReadEnd, LoopIncomplete, Ident
    <3> QED
      BY <1>10, <3>1, <3>2, <3>3
  <2> QED
    BY <2>2, <2>3, <2>4, <2>5, <2>6, <2>7, HeardGone
<1> HIDE DEF Heard, Life, Order, TypeInv
<1> QED
  BY <1>1, <1>2, <1>3, <1>4, <1>5, <1>6, <1>7, <1>8, <1>9, <1>10, PollHeard, EventInHeard, ServingHeard, OffloadHeard
     DEF WorkerStep

\* The threads stay where they are, and the connections with their registrations.
LEMMA HeardKept ==
    ASSUME Heard, thr' = thr,
           \A d \in Conns : conn'[d].owner = conn[d].owner /\ conn'[d].fd = conn[d].fd,
           \A d \in Conns : reg'[d] \in {"in", "none"} \/ (reg'[d] = reg[d] /\ (~Idle(d) => ~Idle(d)'))
    PROVE  Heard'
<1>1. ASSUME NEW d \in Conns, reg'[d] = "off" PROVE Attended(d)'
  <2>1. reg[d] = "off" /\ Attended(d) /\ (~Idle(d) => ~Idle(d)')
    BY <1>1 DEF Heard
  <2>2. CASE ~Idle(d)
    BY <2>1, <2>2 DEF Attended
  <2>3. CASE Idle(d)
    BY <2>1, <2>3 DEF Attended
  <2> QED
    BY <2>2, <2>3
<1> QED
  BY <1>1 DEF Heard

LEMMA TaskHeard ==
    ASSUME Calm, TypeInv, Life, Heard, NEW t \in tasks, TaskStep(t)
    PROVE  Heard'
<1>1. t.conn \in Conns /\ t.fd \in Fds /\ t.w \in Workers /\ Held(t)
  BY DEF TypeInv, Tasks, Life
<1>2. ASSUME TaskThrow(t) \/ TaskClose(t) \/ TaskDiscard(t) PROVE FALSE
  <2>1. t.at # "close" /\ \A w \in Workers : thr[w].pc # "exit"
    BY <1>1 DEF Life, Held, Quiet
  <2> QED
    BY <1>1, <1>2, <2>1 DEF TaskThrow, TaskClose, TaskDiscard, Calm
<1>3. thr' = thr
  BY DEF TaskStep, TaskHandle, TaskHandleWs, TaskThrow, TaskSend, TaskDecide, TaskRearm, TaskClose, TaskDiscard, TaskDrop
<1>4. \A d \in Conns : conn'[d].owner = conn[d].owner /\ conn'[d].fd = conn[d].fd
  <2>1. CASE TaskHandleWs(t)
    <3>1. Changes(t.conn) /\ Ident(t.conn)
      BY <1>1, <2>1, ServedIs DEF TaskHandleWs
    <3> QED
      BY <3>1 DEF Changes, Ident
  <2>2. CASE TaskSend(t)
    <3>1. Changes(t.conn) /\ Ident(t.conn)
      BY <1>1, <2>2, SentIs DEF TaskSend
    <3> QED
      BY <3>1 DEF Changes, Ident
  <2>3. CASE ~TaskHandleWs(t) /\ ~TaskSend(t)
    <3>1. conn' = conn
      BY <2>3 DEF TaskStep, TaskHandle, TaskThrow, TaskDecide, TaskRearm, TaskClose, TaskDiscard, TaskDrop
    <3> QED
      BY <3>1
  <2> QED
    BY <2>1, <2>2, <2>3
<1>5. ASSUME TaskHandle(t) \/ TaskHandleWs(t) \/ TaskSend(t) \/ TaskDecide(t)
      PROVE  \A d \in Conns : reg'[d] = reg[d] /\ (~Idle(d) => ~Idle(d)')
  <2>1. PICK at \in Ats \ {"drop"} : Become(t, at)
    BY <1>5 DEF TaskHandle, TaskHandleWs, TaskSend, TaskDecide, Ats
  <2>2. PICK s \in Tasks : tasks' = (tasks \ {t}) \cup {s} /\ s.conn = t.conn /\ s.at # "drop"
    BY <2>1, BecomeIs
  <2>3. reg' = reg
    BY <1>5 DEF TaskHandle, TaskHandleWs, TaskSend, TaskDecide, UseFd, kernel
  <2> QED
    BY <2>2, <2>3 DEF Idle
<1>6. ASSUME TaskRearm(t)
      PROVE  \A d \in Conns : reg'[d] \in {"in", "none"} \/ (reg'[d] = reg[d] /\ (~Idle(d) => ~Idle(d)'))
  <2>1. fdt[t.fd] = t.conn /\ Registered(t.w, t.fd)
    BY <1>1, <1>6, EnvironmentOK DEF TaskRearm, Held, Registered
  <2>2. Arm(t.conn, t.fd, "in") /\ Become(t, "drop")
    BY <1>6, <2>1 DEF TaskRearm
  <2>3. PICK s \in Tasks : tasks' = (tasks \ {t}) \cup {s} /\ s.conn = t.conn
    BY <2>2, BecomeIs DEF Ats
  <2>4. reg'[t.conn] = "in" /\ \A d \in Conns \ {t.conn} : reg'[d] = reg[d]
    BY <1>1, <2>1, <2>2 DEF Arm, TypeInv, FilesType
  <2>5. \A d \in Conns \ {t.conn} : ~Idle(d) => ~Idle(d)'
    BY <2>3 DEF Idle
  <2> QED
    BY <2>4, <2>5
<1>7. ASSUME TaskDrop(t)
      PROVE  \A d \in Conns : reg'[d] \in {"in", "none"} \/ (reg'[d] = reg[d] /\ (~Idle(d) => ~Idle(d)'))
  <2>1. t.at = "drop" /\ tasks' = tasks \ {t}
    BY <1>7 DEF TaskDrop
  <2>2. \A d \in Conns : ~Idle(d) => ~Idle(d)'
    BY <2>1 DEF Idle
  <2>3. CloseFd(t.conn, conn[t.conn].fd) \/ UNCHANGED kernel
    BY <1>7 DEF TaskDrop
  <2>4. \A d \in Conns : reg'[d] = "none" \/ reg'[d] = reg[d]
    BY <2>3 DEF CloseFd, kernel
  <2> QED
    BY <2>2, <2>4
<1> QED
  BY <1>2, <1>3, <1>4, <1>5, <1>6, <1>7, HeardKept DEF TaskStep

LEMMA HeardStep ==
    ASSUME Calm, ~WriteMayBlock, TypeInv, Life, Order, Heard, [Next]_vars
    PROVE  Heard'
<1>1. ASSUME Stop PROVE FALSE
  BY <1>1 DEF Stop, Calm
<1>2. ASSUME NEW c \in Conns, ClientStep(c) \/ Expire(c) PROVE Heard'
  <2>1. UNCHANGED server /\ Changes(c) /\ conn'[c].owner = conn[c].owner /\ conn'[c].fd = conn[c].fd
    BY <1>2, ClientIs
  <2>2. thr' = thr /\ reg' = reg /\ tasks' = tasks
    BY <2>1 DEF server, kernel
  <2>3. \A d \in Conns : conn'[d].owner = conn[d].owner /\ conn'[d].fd = conn[d].fd
    BY <2>1 DEF Changes
  <2> QED
    BY <2>2, <2>3, HeardKept, IdleSame
<1>3. ASSUME UNCHANGED vars PROVE Heard'
  <2>1. thr' = thr /\ reg' = reg /\ tasks' = tasks /\ conn' = conn
    BY <1>3 DEF vars, kernel
  <2> QED
    BY <2>1, HeardKept, IdleSame
<1> HIDE DEF Life, Order, TypeInv, Calm, Heard
<1> QED
  BY <1>1, <1>2, <1>3, WorkerHeard, TaskHeard DEF Next

(***************************************************************************)
(* The theorems.                                                           *)
(***************************************************************************)

\* The inductive invariant: who has the registration of each connection, which
\* file, map entry and task belong together, and where each unit is.
THEOREM Invariance ==
    ASSUME Calm
    PROVE  Spec => []IInv
<1> DEFINE All == IInv /\ ConnFlags /\ ProcessFlags
<1>1. Init => All
  BY TypeInit, LifeInit, OrderInit DEF IInv
<1>2. All /\ [Next]_vars => All'
  <2> SUFFICES ASSUME All, [Next]_vars PROVE All'
    OBVIOUS
  <2>1. TypeInv /\ Life /\ Order
    BY DEF IInv
  <2>2. TypeInv' /\ ConnFlags' /\ ProcessFlags'
    BY <2>1, TypeStep
  <2>3. Life' /\ Order'
    BY <2>1, LifeStep, OrderStep
  <2> HIDE DEF TypeInv, Life, Order, ConnFlags, ProcessFlags
  <2> QED
    BY <2>2, <2>3 DEF IInv
<1> HIDE DEF All
<1>3. Spec => []All
  BY <1>1, <1>2, PTL DEF Spec
<1>4. All => IInv
  BY DEF All
<1> QED
  BY <1>3, <1>4, PTL

\* No epoll_ctl of an epoll thread (Epoll.cpp throws when one fails) misses its
\* descriptor, so no exception leaves Worker::run.
THEOREM NoCrashHolds ==
    ASSUME Calm
    PROVE  Spec => []NoCrash
<1>1. IInv => NoCrash
  BY DEF IInv, Life, Quiet, NoCrash
<1> QED
  BY <1>1, Invariance, PTL

\* send, modify and close are called with the number of a descriptor only while
\* the kernel gives that number to the connection that calls them.
THEOREM DescriptorsOwnedHolds ==
    ASSUME Calm
    PROVE  Spec => []DescriptorsOwned
<1>1. IInv => DescriptorsOwned
  BY DEF IInv, Life, Quiet, DescriptorsOwned
<1> QED
  BY <1>1, Invariance, PTL

\* EPOLLONESHOT and the re-arming at the end of a task (TcpServer.cpp) let one
\* thread at a time into a connection.
THEOREM HandOverHolds ==
    ASSUME Calm
    PROVE  Spec => []HandOver
<1>1. ASSUME IInv, NEW c \in Conns
      PROVE  /\ Cardinality(Using(c)) + (IF Handling(c) THEN 1 ELSE 0) <= 1
             /\ Using(c) # {} => reg[c] \notin {"in", "out"}
  <2>1. TypeInv /\ Life
    BY <1>1 DEF IInv
  <2>2. \A t \in Using(c) : reg[c] = "off" /\ \A s \in Using(c) : s = t
    BY <2>1 DEF Using, Life, Held
  <2>3. Handling(c) => Using(c) = {}
    <3> SUFFICES ASSUME NEW w \in Workers, thr[w].pc \in Serving, Here(w) = c PROVE Using(c) = {}
      BY DEF Handling, Serving
    <3>1. Idle(c)
      BY <2>1 DEF Life, AtHand, Handled
    <3> QED
      BY <3>1 DEF Idle, Using
  <2>4. CASE Using(c) = {}
    <3>1. Cardinality(Using(c)) = 0
      BY <2>4, FS_EmptySet
    <3> QED
      BY <2>4, <3>1
  <2>5. CASE Using(c) # {}
    <3>1. PICK t : t \in Using(c)
      BY <2>5
    <3>2. Using(c) = {t}
      BY <2>2, <3>1
    <3>3. Cardinality(Using(c)) = 1
      BY <3>2, FS_Singleton
    <3> QED
      BY <2>2, <2>3, <2>5, <3>1, <3>3
  <2> QED
    BY <2>4, <2>5
<1>2. IInv => HandOver
  BY <1>1 DEF HandOver
<1> QED
  BY <1>2, Invariance, PTL

\* handleClientData answers or offloads the front of readBuffer_ only, and stays
\* out of the connection until the task has sent its answer.
THEOREM AnswersInOrderHolds ==
    ASSUME Calm
    PROVE  Spec => []AnswersInOrder
<1>1. IInv => AnswersInOrder
  BY DEF IInv, Order, Numbered, InLine, AnswersInOrder
<1> QED
  BY <1>1, Invariance, PTL

\* TcpServer::active_connections_ counts the entries of the workers' maps, and
\* every open descriptor is in a map, being accepted or held by a task.
THEOREM BooksAgreeHolds ==
    ASSUME Calm
    PROVE  Spec => []BooksAgree
<1>1. IInv => BooksAgree
  BY DEF IInv, Life, Known, Entries, BooksAgree
<1> QED
  BY <1>1, Invariance, PTL

\* One-shot registrations are always given back: whoever has one (a batch of
\* epoll_wait, handleClientData, a task) re-arms or disconnects.  A client that
\* makes SSL_accept wait for room to write is the exception (TcpServer.cpp looks
\* for no EPOLLOUT), so its environment is left out here.
THEOREM NobodyForgottenHolds ==
    ASSUME Calm, ~WriteMayBlock
    PROVE  Spec => []NobodyForgotten
<1>1. Init => Heard
  BY DEF Init, Heard
<1>2. Heard /\ IInv /\ [Next]_vars => Heard'
  BY HeardStep DEF IInv
<1>3. Spec => []Heard
  BY <1>1, <1>2, Invariance, PTL DEF Spec
<1>4. ASSUME IInv, Heard, NEW c \in Conns, ~Closed(c), conn[c].link = "accepted", \A w \in Workers : thr[w].pend # c
      PROVE  reg[c] = "in" \/ Busy(c)
  <2>1. TypeInv /\ Life
    BY <1>4 DEF IInv
  <2>2. PICK f \in Fds : fdt[f] = c
    BY <1>4 DEF Closed
  <2>3. conn[c].fd = f /\ conn[c].owner \in Workers
    BY <2>1, <2>2, EnvironmentOK DEF TypeInv, FilesType, ConnsType, ConnType
  <2>4. CASE Captured(c, tasks)
    BY <2>4 DEF Busy
  <2>5. CASE ~Captured(c, tasks)
    <3>1. actives[conn[c].owner][f] = c
      BY <1>4, <2>1, <2>2, <2>5, EnvironmentOK DEF Life, Known
    <3>2. reg[c] # "none"
      BY <2>1, <2>3, <3>1, EnvironmentOK DEF Life, Mapped
    <3>3. reg[c] \in {"in", "off"}
      BY <1>4, <2>1, <3>2 DEF Heard, TypeInv, FilesType
    <3>4. Idle(c)
      BY <2>5 DEF Captured, Idle
    <3>5. CASE reg[c] = "off"
      <4>1. PICK w \in Workers : w = conn[c].owner
        BY <2>3
      <4>2. \/ \E e \in thr[w].batch : e.fd = f
            \/ thr[w].pc \in Serving /\ thr[w].cur = f
        BY <1>4, <2>3, <3>4, <3>5, <4>1 DEF Heard, Attended
      <4>3. CASE \E e \in thr[w].batch : e.fd = f
        BY <2>3, <4>3 DEF Busy
      <4>4. CASE thr[w].pc \in Serving /\ thr[w].cur = f
        <5>1. Handling(c)
          BY <3>1, <4>1, <4>4 DEF Handling, Here, Serving
        <5> QED
          BY <5>1 DEF Busy
      <4> QED
        BY <4>2, <4>3, <4>4
    <3> QED
      BY <3>3, <3>5
  <2> QED
    BY <2>4, <2>5
<1>5. IInv /\ Heard => NobodyForgotten
  BY <1>4 DEF NobodyForgotten
<1> QED
  BY <1>3, <1>5, Invariance, PTL
============================================================================
