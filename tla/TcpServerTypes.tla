--------------------------- MODULE TcpServerTypes ---------------------------
(***************************************************************************)
(* Proof that TcpServer keeps its types, in every environment and for any  *)
(* number of epoll threads, connections and descriptors, and the lemmas on *)
(* what each step changes that the other proofs use.                       *)
(***************************************************************************)
EXTENDS TcpServer, NatLemmas, FiniteSetTheorems, SequenceTheorems, TLAPS

(***************************************************************************)
(* In every environment.                                                   *)
(***************************************************************************)

\* k is the function (or record) on S.
Fcn(k, S) == k = [x \in S |-> k[x]]

ConnFields == {"link", "peer", "script", "inq", "owner", "fd", "tls", "ws", "buf", "stale", "served"}
ConnType(k) ==
    /\ DOMAIN k = ConnFields /\ Fcn(k, ConnFields)
    /\ k.link \in {"none", "backlog", "accepted"} /\ k.peer \in {"open", "eof", "reset"}
    /\ k.script \in Seq(Units) /\ k.inq \in Seq(1..MaxUnits) /\ k.owner \in Workers
    /\ k.fd \in Fds \cup {0} /\ k.tls \in {"hello", "notls", "replied", "blocked", "finished", "done"}
    /\ k.buf \in Seq(1..MaxUnits) /\ k.served \in Seq(1..MaxUnits)

Serving == {"handshake", "read", "loop"}
Events == [fd : Fds \cup {0}, ev : {"in", "out", "hup", "listen"}]
ThrFields == {"pc", "batch", "cur", "pend", "idle"}

\* A handler has a connection in hand, and so has the step after accept.
ThrType(w) ==
    LET k == thr[w] IN
        /\ DOMAIN k = ThrFields /\ Fcn(k, ThrFields)
        /\ k.pc \in Places /\ k.cur \in Fds \cup {0} /\ k.pend \in Conns \cup {NoConn} /\ k.idle \subseteq Fds
        /\ k.batch \subseteq Events /\ \A e \in k.batch : e.ev # "listen" => e.fd \in Fds
        /\ k.pc \in Serving => k.cur \in Fds /\ actives[w][k.cur] \in Conns
        /\ k.pc = "register" => k.cur \in Fds /\ k.pend \in Conns

\* An open file belongs to the connection that was accepted with it.
FilesType ==
    /\ fdt \in [Fds -> Conns \cup {NoConn}] /\ reg \in [Conns -> {"none", "in", "out", "off"}]
    /\ \A f \in Fds : fdt[f] # NoConn => conn[fdt[f]].link = "accepted" /\ conn[fdt[f]].fd = f

\* The entries of all maps.  Each has been counted.
Entries == {p \in Workers \X Fds : actives[p[1]][p[2]] # NoConn}
BookType ==
    /\ actives \in [Workers -> [Fds -> Conns \cup {NoConn}]]
    /\ count \in Nat /\ Cardinality(Entries) <= count

Tasks == [conn : Conns, fd : Fds, w : Workers, n : 1..MaxUnits, u : Units,
          at : {"queued", "handled", "sent", "rearm", "close", "drop"}]

ConnsType == DOMAIN conn = Conns /\ Fcn(conn, Conns) /\ \A c \in Conns : ConnType(conn[c])
ThreadsType == DOMAIN thr = Workers /\ Fcn(thr, Workers) /\ \A w \in Workers : ThrType(w)

TypeInv == ConnsType /\ ThreadsType /\ FilesType /\ BookType /\ tasks \subseteq Tasks

(***************************************************************************)
(* Frames: what a step leaves alone.                                       *)
(***************************************************************************)

\* Connection c changes, and no other.
Changes(c) ==
    /\ DOMAIN conn' = Conns /\ Fcn(conn', Conns)
    /\ DOMAIN conn'[c] = ConnFields /\ Fcn(conn'[c], ConnFields)
    /\ \A d \in Conns \ {c} : conn'[d] = conn[d]

Ident(c) == conn'[c].link = conn[c].link /\ conn'[c].owner = conn[c].owner /\ conn'[c].fd = conn[c].fd
Flow(c) ==
    /\ conn'[c].script = conn[c].script /\ conn'[c].inq = conn[c].inq /\ conn'[c].buf = conn[c].buf
    /\ conn'[c].served = conn[c].served /\ conn'[c].ws = conn[c].ws
Ends(c) == conn'[c].peer = conn[c].peer /\ conn'[c].tls = conn[c].tls /\ conn'[c].stale = conn[c].stale

\* Thread w moves, and no other.
Turns(w) ==
    /\ DOMAIN thr' = Workers /\ Fcn(thr', Workers)
    /\ DOMAIN thr'[w] = ThrFields /\ Fcn(thr'[w], ThrFields)
    /\ \A v \in Workers \ {w} : thr'[v] = thr[v]

\* Connections keep their worker, and accepted ones their descriptor.
Steady ==
    \A c \in Conns :
        /\ conn'[c].owner = conn[c].owner
        /\ conn[c].link = "accepted" => conn'[c].link = "accepted" /\ conn'[c].fd = conn[c].fd

LEMMA WGotoIs ==
    ASSUME TypeInv, NEW w \in Workers, NEW from, NEW to, WGoto(w, from, to)
    PROVE  /\ Turns(w) /\ thr[w].pc = from /\ thr'[w].pc = to /\ thr'[w].batch = thr[w].batch
           /\ thr'[w].cur = thr[w].cur /\ thr'[w].pend = thr[w].pend /\ thr'[w].idle = thr[w].idle
  BY DEF Fcn, WGoto, TypeInv, ThreadsType, ThrType, Turns, ThrFields

LEMMA TakeEventIs ==
    ASSUME TypeInv, NEW w \in Workers, NEW e, NEW ev, NEW to, TakeEvent(w, e, ev, to)
    PROVE  /\ Turns(w) /\ thr[w].pc = "events" /\ e \in thr[w].batch /\ e.ev = ev
           /\ thr'[w].pc = to /\ thr'[w].batch = thr[w].batch \ {e}
           /\ thr'[w].cur = (IF to = "events" THEN thr[w].cur ELSE e.fd)
           /\ thr'[w].pend = thr[w].pend /\ thr'[w].idle = thr[w].idle
  BY DEF Fcn, TakeEvent, TypeInv, ThreadsType, ThrType, Turns, ThrFields

\* The record of connection c is replaced by another one.
LEMMA Replaced ==
    ASSUME TypeInv, NEW c \in Conns, NEW k, DOMAIN k = ConnFields, Fcn(k, ConnFields),
           conn' = [conn EXCEPT ![c] = k]
    PROVE  Changes(c) /\ conn'[c] = k
<1>1. DOMAIN conn = Conns /\ Fcn(conn, Conns)
  BY DEF TypeInv, ConnsType
<1>2. DOMAIN conn' = Conns /\ conn'[c] = k /\ \A d \in Conns \ {c} : conn'[d] = conn[d]
  BY <1>1
<1>3. Fcn(conn', Conns)
  BY <1>1 DEF Fcn
<1> QED
  BY <1>2, <1>3 DEF Changes

\* The client's steps, and the clock's.
LEMMA ClientIs ==
    ASSUME TypeInv, NEW c \in Conns, ClientStep(c) \/ Expire(c)
    PROVE  /\ UNCHANGED server /\ Changes(c) /\ conn'[c].owner = conn[c].owner /\ conn'[c].fd = conn[c].fd
           /\ conn'[c].buf = conn[c].buf /\ conn'[c].served = conn[c].served /\ conn'[c].ws = conn[c].ws
           /\ \/ conn[c].link = "none" /\ conn'[c].link = "backlog"
              \/ conn'[c].link = conn[c].link
           /\ \/ conn'[c].script = conn[c].script /\ conn'[c].inq = conn[c].inq
              \/ \E u \in ClientUnits : Send(c, u)
           /\ \/ conn'[c].stale = conn[c].stale
              \/ Expire(c) /\ conn'[c].stale = TRUE
           /\ \/ conn'[c].tls = conn[c].tls
              \/ conn'[c].tls = "finished"
           /\ \/ conn'[c].peer = conn[c].peer
              \/ conn'[c].peer \in {"eof", "reset"}
<1>1. DOMAIN conn = Conns /\ DOMAIN conn[c] = ConnFields
  BY DEF TypeInv, ConnsType, ConnType
<1>2. CASE Connect(c)
  BY <1>1, <1>2 DEF Fcn, Connect, Changes, ConnFields
<1>3. CASE FinishTls(c)
  BY <1>1, <1>3 DEF Fcn, FinishTls, Changes, ConnFields
<1>4. ASSUME NEW u \in ClientUnits, Send(c, u) PROVE UNCHANGED server /\ Changes(c) /\ Ident(c) /\ Ends(c)
             /\ conn'[c].buf = conn[c].buf /\ conn'[c].served = conn[c].served /\ conn'[c].ws = conn[c].ws
  <2>1. PICK k : k = [conn[c] EXCEPT !.script = Append(conn[c].script, u),
                                     !.inq = Append(conn[c].inq, Len(conn[c].script) + 1)]
    OBVIOUS
  <2>2. UNCHANGED server /\ conn' = [conn EXCEPT ![c] = k]
    BY <1>4, <2>1 DEF Send
  <2>3. Fcn(conn[c], ConnFields)
    BY DEF TypeInv, ConnsType, ConnType
  <2>4. DOMAIN k = ConnFields /\ Fcn(k, ConnFields)
    BY <1>1, <2>1, <2>3 DEF Fcn
  <2>5. \A x \in ConnFields \ {"script", "inq"} : k[x] = conn[c][x]
    BY <1>1, <2>1
  <2> HIDE <2>1
  <2>6. Changes(c) /\ conn'[c] = k
    BY <2>2, <2>4, Replaced
  <2> QED
    BY <2>2, <2>5, <2>6 DEF ConnFields, Ident, Ends
<1>5. ASSUME NEW how \in {"eof", "reset"}, Leave(c, how)
      PROVE  /\ UNCHANGED server /\ Changes(c) /\ Ident(c) /\ Flow(c)
             /\ conn'[c].peer = how /\ conn'[c].tls = conn[c].tls /\ conn'[c].stale = conn[c].stale
  BY <1>1, <1>5 DEF Fcn, Leave, Changes, ConnFields, Ident, Flow
<1>6. CASE Expire(c)
  <2>1. /\ UNCHANGED server /\ Changes(c) /\ Ident(c) /\ Flow(c)
        /\ conn'[c].peer = conn[c].peer /\ conn'[c].tls = conn[c].tls
    BY <1>1, <1>6 DEF Fcn, Expire, Changes, ConnFields, Ident, Flow
  <2>2. conn'[c].stale = TRUE
    BY <1>1, <1>6 DEF Expire, ConnFields
  <2> QED
    BY <1>6, <2>1, <2>2 DEF Ident, Flow
<1> QED
  BY <1>2, <1>3, <1>4, <1>5, <1>6 DEF ClientStep, Ident, Flow, Ends

\* What the client sends.
LEMMA SendIs ==
    ASSUME TypeInv, NEW c \in Conns, NEW u \in ClientUnits, Send(c, u)
    PROVE  LET n == Len(conn[c].script) + 1 IN
           /\ n \in 1..MaxUnits /\ u \in Units /\ u \in (IF Upgraded(c) THEN WsUnits ELSE HttpUnits)
           /\ conn'[c].script = Append(conn[c].script, u) /\ conn'[c].inq = Append(conn[c].inq, n)
<1>1. DOMAIN conn = Conns /\ DOMAIN conn[c] = ConnFields /\ conn[c].script \in Seq(Units)
  BY DEF TypeInv, ConnsType, ConnType
<1>2. Len(conn[c].script) \in Nat
  BY <1>1
<1>3. conn'[c].script = Append(conn[c].script, u) /\ conn'[c].inq = Append(conn[c].inq, Len(conn[c].script) + 1)
  BY <1>1 DEF Send, ConnFields
<1>4. Len(conn[c].script) + 1 \in 1..MaxUnits
  BY <1>2, EnvironmentOK DEF Send
<1>5. u \in Units /\ u \in (IF Upgraded(c) THEN WsUnits ELSE HttpUnits)
  BY EnvironmentOK DEF Send
<1> QED
  BY <1>3, <1>4, <1>5

\* The updates that the server makes to a connection.
LEMMA StaleIs ==
    ASSUME TypeInv, NEW c \in Conns, NEW b, conn' = [conn EXCEPT ![c].stale = b]
    PROVE  /\ Changes(c) /\ Ident(c) /\ Flow(c) /\ conn'[c].stale = b
           /\ conn'[c].peer = conn[c].peer /\ conn'[c].tls = conn[c].tls
  BY ZenonT(60) DEF Fcn, TypeInv, ConnsType, ConnType, Changes, ConnFields, Ident, Flow

LEMMA TlsIs ==
    ASSUME TypeInv, NEW c \in Conns, NEW x, conn' = [conn EXCEPT ![c].tls = x]
    PROVE  /\ Changes(c) /\ Ident(c) /\ Flow(c) /\ conn'[c].tls = x
           /\ conn'[c].peer = conn[c].peer /\ conn'[c].stale = conn[c].stale
  BY ZenonT(60) DEF Fcn, TypeInv, ConnsType, ConnType, Changes, ConnFields, Ident, Flow

LEMMA ReadIs ==
    ASSUME TypeInv, NEW c \in Conns,
           conn' = [conn EXCEPT ![c] = [@ EXCEPT !.buf = conn[c].buf \o conn[c].inq, !.inq = << >>]]
    PROVE  /\ Changes(c) /\ Ident(c) /\ Ends(c)
           /\ conn'[c].buf = conn[c].buf \o conn[c].inq /\ conn'[c].inq = << >>
           /\ conn'[c].script = conn[c].script /\ conn'[c].served = conn[c].served /\ conn'[c].ws = conn[c].ws
<1>1. DOMAIN conn = Conns /\ Fcn(conn, Conns) /\ DOMAIN conn[c] = ConnFields /\ Fcn(conn[c], ConnFields)
  BY DEF TypeInv, ConnsType, ConnType
<1>2. Fcn(conn', Conns) /\ Fcn(conn'[c], ConnFields)
  BY <1>1 DEF Fcn
<1>3. /\ DOMAIN conn' = Conns /\ DOMAIN conn'[c] = ConnFields /\ \A d \in Conns \ {c} : conn'[d] = conn[d]
      /\ Ident(c) /\ Ends(c)
      /\ conn'[c].buf = conn[c].buf \o conn[c].inq /\ conn'[c].inq = << >>
      /\ conn'[c].script = conn[c].script /\ conn'[c].served = conn[c].served /\ conn'[c].ws = conn[c].ws
  BY <1>1 DEF ConnFields, Ident, Ends
<1> QED
  BY <1>2, <1>3 DEF Changes

LEMMA TakenIs ==
    ASSUME TypeInv, NEW c \in Conns, conn' = [conn EXCEPT ![c].buf = Tail(@)]
    PROVE  /\ Changes(c) /\ Ident(c) /\ Ends(c) /\ conn'[c].buf = Tail(conn[c].buf)
           /\ conn'[c].script = conn[c].script /\ conn'[c].inq = conn[c].inq
           /\ conn'[c].served = conn[c].served /\ conn'[c].ws = conn[c].ws
  BY ZenonT(60) DEF Fcn, TypeInv, ConnsType, ConnType, Changes, ConnFields, Ident, Ends

LEMMA ServeIs ==
    ASSUME TypeInv, NEW w, NEW c \in Conns, c = Here(w), NEW up, ServeFront(w, up)
    PROVE  /\ Changes(c) /\ Ident(c) /\ Ends(c) /\ conn'[c].buf = Tail(conn[c].buf)
           /\ conn'[c].served = Append(conn[c].served, Head(conn[c].buf)) /\ conn'[c].ws = (conn[c].ws \/ up)
           /\ conn'[c].script = conn[c].script /\ conn'[c].inq = conn[c].inq
<1>1. conn' = [conn EXCEPT ![c] = [conn[c] EXCEPT !.buf = Tail(conn[c].buf), !.ws = (conn[c].ws \/ up),
                                                !.served = Append(conn[c].served, Head(conn[c].buf))]]
  BY DEF ServeFront, Front
<1>2. DOMAIN conn = Conns /\ DOMAIN conn[c] = ConnFields /\ Fcn(conn[c], ConnFields)
  BY DEF TypeInv, ConnsType, ConnType
<1>3. PICK k : k = [conn[c] EXCEPT !.buf = Tail(conn[c].buf), !.ws = (conn[c].ws \/ up),
                                   !.served = Append(conn[c].served, Head(conn[c].buf))]
  OBVIOUS
<1>4. DOMAIN k = ConnFields /\ Fcn(k, ConnFields)
  BY <1>2, <1>3 DEF Fcn
<1>5. /\ \A x \in ConnFields \ {"buf", "ws", "served"} : k[x] = conn[c][x]
      /\ k.buf = Tail(conn[c].buf) /\ k.served = Append(conn[c].served, Head(conn[c].buf))
  BY <1>2, <1>3 DEF ConnFields
<1>6. k.ws = (conn[c].ws \/ up)
  BY <1>2, <1>3 DEF ConnFields
<1>7. Changes(c) /\ conn'[c] = k
  BY <1>1, <1>3, <1>4, Replaced
<1> HIDE <1>1, <1>3
<1> QED
  BY <1>5, <1>6, <1>7 DEF ConnFields, Ident, Ends

LEMMA ServedIs ==
    ASSUME TypeInv, NEW c \in Conns, NEW n, conn' = [conn EXCEPT ![c].served = Append(@, n)]
    PROVE  /\ Changes(c) /\ Ident(c) /\ Ends(c) /\ conn'[c].served = Append(conn[c].served, n)
           /\ conn'[c].script = conn[c].script /\ conn'[c].inq = conn[c].inq
           /\ conn'[c].buf = conn[c].buf /\ conn'[c].ws = conn[c].ws
  BY ZenonT(60) DEF Fcn, TypeInv, ConnsType, ConnType, Changes, ConnFields, Ident, Ends

LEMMA SentIs ==
    ASSUME TypeInv, NEW c \in Conns, NEW n, 
           conn' = [conn EXCEPT ![c] = [@ EXCEPT !.served = Append(conn[c].served, n), !.stale = FALSE]]
    PROVE  /\ Changes(c) /\ Ident(c) /\ conn'[c].served = Append(conn[c].served, n)
           /\ conn'[c].script = conn[c].script /\ conn'[c].inq = conn[c].inq
           /\ conn'[c].buf = conn[c].buf /\ conn'[c].ws = conn[c].ws
           /\ conn'[c].peer = conn[c].peer /\ conn'[c].tls = conn[c].tls /\ conn'[c].stale = FALSE
<1>1. DOMAIN conn = Conns /\ Fcn(conn, Conns) /\ DOMAIN conn[c] = ConnFields /\ Fcn(conn[c], ConnFields)
  BY DEF TypeInv, ConnsType, ConnType
<1>2. Fcn(conn', Conns) /\ Fcn(conn'[c], ConnFields)
  BY <1>1 DEF Fcn
<1>3. /\ DOMAIN conn' = Conns /\ DOMAIN conn'[c] = ConnFields /\ \A d \in Conns \ {c} : conn'[d] = conn[d]
      /\ Ident(c) /\ conn'[c].served = Append(conn[c].served, n)
      /\ conn'[c].script = conn[c].script /\ conn'[c].inq = conn[c].inq
      /\ conn'[c].buf = conn[c].buf /\ conn'[c].ws = conn[c].ws
      /\ conn'[c].peer = conn[c].peer /\ conn'[c].tls = conn[c].tls /\ conn'[c].stale = FALSE
  BY <1>1 DEF ConnFields, Ident
<1> QED
  BY <1>2, <1>3 DEF Changes

\* While a connection waits in the backlog there is a descriptor for it, and the
\* lowest is taken.
LEMMA FreeFd ==
    ASSUME TypeInv, NEW c \in Conns, conn[c].link = "backlog"
    PROVE  LET f == CHOOSE g \in Fds : fdt[g] = NoConn /\ \A h \in Fds : fdt[h] = NoConn => g <= h
           IN  f \in Fds /\ fdt[f] = NoConn
<1> DEFINE free == {g \in Fds : fdt[g] = NoConn}
<1>1. free # {}
  <2> SUFFICES ASSUME free = {} PROVE FALSE
    OBVIOUS
  <2>1. \A g \in Fds : fdt[g] \in Conns /\ fdt[g] # c /\ conn[fdt[g]].fd = g
    BY DEF TypeInv, FilesType
  <2>2. fdt \in [Fds -> Conns \ {c}]
    BY <2>1 DEF TypeInv, FilesType
  <2>3. /\ IsFiniteSet(Conns \ {c}) /\ Cardinality(Conns \ {c}) = Cardinality(Conns) - 1
        /\ Cardinality(Conns) \in Nat /\ Cardinality(Fds) \in Nat /\ Cardinality(Conns) <= Cardinality(Fds)
    BY EnoughDescriptors, FS_RemoveElement, FS_CardinalityType
  <2>4. Cardinality(Conns \ {c}) < Cardinality(Fds)
    BY <2>3
  <2>5. \E x, y \in Fds : x # y /\ fdt[x] = fdt[y]
    BY <2>2, <2>3, <2>4, EnoughDescriptors, FS_PigeonHole
  <2> QED
    BY <2>1, <2>5
<1>2. free \subseteq Nat
  BY EnoughDescriptors
<1> HIDE DEF free
<1>3. \E g \in free : \A h \in free : g <= h
  BY <1>1, <1>2, LeastOf
<1>4. \E g \in Fds : fdt[g] = NoConn /\ \A h \in Fds : fdt[h] = NoConn => g <= h
  BY <1>3 DEF free
<1> QED
  BY <1>4

LEMMA AcceptSocketIs ==
    ASSUME TypeInv, NEW w \in Workers, NEW c \in Conns, AcceptSocket(w, c)
    PROVE  \E f \in Fds :
               /\ fdt[f] = NoConn /\ fdt' = [fdt EXCEPT ![f] = c]
               /\ conn[c].link = "backlog" /\ conn[c].owner = w
               /\ Changes(c) /\ conn'[c].link = "accepted" /\ conn'[c].fd = f /\ conn'[c].owner = conn[c].owner
               /\ Flow(c) /\ Ends(c)
               /\ Turns(w) /\ thr[w].pc = "accept" /\ thr'[w].pc = "register" /\ thr'[w].cur = f /\ thr'[w].pend = c
               /\ thr'[w].batch = thr[w].batch /\ thr'[w].idle = thr[w].idle
<1> DEFINE f == CHOOSE g \in Fds : fdt[g] = NoConn /\ \A h \in Fds : fdt[h] = NoConn => g <= h
<1>1. conn[c].link = "backlog" /\ conn[c].owner = w
  BY DEF AcceptSocket, Backlog
<1>2. f \in Fds /\ fdt[f] = NoConn
  BY <1>1, FreeFd
<1>3. /\ thr[w].pc = "accept" /\ conn' = [conn EXCEPT ![c] = [@ EXCEPT !.link = "accepted", !.fd = f]]
      /\ fdt' = [fdt EXCEPT ![f] = c]
      /\ thr' = [thr EXCEPT ![w] = [@ EXCEPT !.pc = "register", !.cur = f, !.pend = c]]
  BY DEF AcceptSocket
<1> HIDE DEF f
<1>4. /\ Changes(c) /\ conn'[c].link = "accepted" /\ conn'[c].fd = f /\ conn'[c].owner = conn[c].owner
      /\ Flow(c) /\ Ends(c)
  <2>1. PICK k : k = [conn[c] EXCEPT !.link = "accepted", !.fd = f]
    OBVIOUS
  <2>2. DOMAIN conn[c] = ConnFields /\ Fcn(conn[c], ConnFields)
    BY DEF TypeInv, ConnsType, ConnType
  <2>3. DOMAIN k = ConnFields /\ Fcn(k, ConnFields)
    BY <2>1, <2>2 DEF Fcn
  <2>4. k.link = "accepted" /\ k.fd = f /\ \A x \in ConnFields \ {"link", "fd"} : k[x] = conn[c][x]
    BY <2>1, <2>2 DEF ConnFields
  <2>5. conn' = [conn EXCEPT ![c] = k]
    BY <1>3, <2>1
  <2>6. Changes(c) /\ conn'[c] = k
    BY <2>3, <2>5, Replaced
  <2> QED
    BY <2>4, <2>6 DEF ConnFields, Flow, Ends
<1>5. /\ Turns(w) /\ thr'[w].pc = "register" /\ thr'[w].cur = f /\ thr'[w].pend = c
      /\ thr'[w].batch = thr[w].batch /\ thr'[w].idle = thr[w].idle
  BY <1>3 DEF Fcn, TypeInv, ThreadsType, ThrType, Turns, ThrFields
<1> QED
  BY <1>1, <1>2, <1>3, <1>4, <1>5

(***************************************************************************)
(* Types, in every environment.                                            *)
(***************************************************************************)

LEMMA ConnOne ==
    ASSUME TypeInv, NEW c \in Conns, Changes(c), ConnType(conn'[c]), conn'[c].owner = conn[c].owner,
           conn[c].link = "accepted" => conn'[c].link = "accepted" /\ conn'[c].fd = conn[c].fd
    PROVE  ConnsType' /\ Steady
<1>1. \A d \in Conns \ {c} : conn'[d] = conn[d] /\ ConnType(conn[d])
  BY DEF Changes, TypeInv, ConnsType
<1>2. \A d \in Conns : ConnType(conn'[d])
  BY <1>1
<1>3. DOMAIN conn' = Conns
  BY DEF Changes
<1> QED
  BY <1>1, <1>2, <1>3 DEF Changes, ConnsType, Steady

LEMMA ConnSame ==
    ASSUME TypeInv, conn' = conn
    PROVE  ConnsType' /\ Steady
  BY DEF TypeInv, ConnsType, Steady

\* A connection in hand, and the unit at the front of its buffer.
LEMMA InHand ==
    ASSUME TypeInv, NEW w \in Workers, thr[w].pc \in Serving
    PROVE  thr[w].cur \in Fds /\ Here(w) \in Conns
  BY DEF TypeInv, ThreadsType, ThrType, Here

LEMMA FrontIn ==
    ASSUME TypeInv, NEW c \in Conns, conn[c].buf # << >>
    PROVE  Head(conn[c].buf) \in 1..MaxUnits /\ Tail(conn[c].buf) \in Seq(1..MaxUnits)
<1>1. conn[c].buf \in Seq(1..MaxUnits)
  BY DEF TypeInv, ConnsType, ConnType
<1> QED
  BY <1>1, HeadTailProperties

LEMMA ClientConns ==
    ASSUME TypeInv, NEW c \in Conns, ClientStep(c) \/ Expire(c)
    PROVE  ConnsType' /\ Steady
<1>1. /\ Changes(c) /\ conn'[c].owner = conn[c].owner /\ conn'[c].fd = conn[c].fd
      /\ conn'[c].buf = conn[c].buf /\ conn'[c].served = conn[c].served
      /\ (conn[c].link = "none" /\ conn'[c].link = "backlog") \/ conn'[c].link = conn[c].link
      /\ conn'[c].tls = conn[c].tls \/ conn'[c].tls = "finished"
      /\ conn'[c].peer = conn[c].peer \/ conn'[c].peer \in {"eof", "reset"}
  BY ClientIs
<1>2. ConnType(conn[c])
  BY DEF TypeInv, ConnsType
<1>3. conn'[c].script \in Seq(Units) /\ conn'[c].inq \in Seq(1..MaxUnits)
  <2>1. conn[c].script \in Seq(Units) /\ conn[c].inq \in Seq(1..MaxUnits)
    BY <1>2 DEF ConnType
  <2>2. ASSUME NEW u \in ClientUnits, Send(c, u)
        PROVE  conn'[c].script \in Seq(Units) /\ conn'[c].inq \in Seq(1..MaxUnits)
    <3>1. LET n == Len(conn[c].script) + 1 IN
          /\ n \in 1..MaxUnits /\ u \in Units
          /\ conn'[c].script = Append(conn[c].script, u) /\ conn'[c].inq = Append(conn[c].inq, n)
      BY <2>2, SendIs
    <3> QED
      BY <2>1, <3>1, AppendProperties
  <2>3. \/ conn'[c].script = conn[c].script /\ conn'[c].inq = conn[c].inq
        \/ \E u \in ClientUnits : Send(c, u)
    BY ClientIs
  <2> QED
    BY <2>1, <2>2, <2>3
<1>4. ConnType(conn'[c])
  BY <1>1, <1>2, <1>3 DEF ConnType, Changes
<1> QED
  BY <1>1, <1>4, ConnOne

LEMMA WorkerConns ==
    ASSUME TypeInv, NEW w \in Workers, WorkerStep(w)
    PROVE  ConnsType' /\ Steady
<1>1. ASSUME NEW c \in Conns, AcceptSocket(w, c) PROVE ConnsType' /\ Steady
  <2>1. PICK f \in Fds : /\ conn[c].link = "backlog" /\ Changes(c) /\ conn'[c].link = "accepted"
                         /\ conn'[c].fd = f /\ conn'[c].owner = conn[c].owner /\ Flow(c) /\ Ends(c)
    BY <1>1, AcceptSocketIs
  <2>2. ConnType(conn'[c])
    BY <2>1 DEF TypeInv, ConnsType, ConnType, Flow, Ends, Changes
  <2> QED
    BY <2>1, <2>2, ConnOne
<1>2. ASSUME NEW e \in thr[w].batch, EventIn(w, e) PROVE ConnsType' /\ Steady
  <2>1. PICK c : c = actives[w][e.fd]
    OBVIOUS
  <2>2. CASE c = NoConn
    BY <1>2, <2>1, <2>2, ConnSame DEF EventIn
  <2>3. CASE c # NoConn
    <3>1. conn' = [conn EXCEPT ![c].stale = FALSE] /\ e.ev = "in"
      BY <1>2, <2>1, <2>3 DEF EventIn
    <3>2. c \in Conns
      BY <2>1, <2>3, <3>1 DEF TypeInv, ThreadsType, ThrType, BookType
    <3>3. Changes(c) /\ Ident(c) /\ Flow(c) /\ conn'[c].peer = conn[c].peer /\ conn'[c].tls = conn[c].tls
      BY <3>1, <3>2, StaleIs
    <3>4. ConnType(conn'[c])
      BY <3>2, <3>3 DEF TypeInv, ConnsType, ConnType, Ident, Flow, Changes
    <3> QED
      BY <3>2, <3>3, <3>4, ConnOne DEF Ident
  <2> QED
    BY <2>2, <2>3
<1>3. ASSUME NEW x \in {"replied", "blocked", "done"}, thr[w].pc = "handshake", conn' = [conn EXCEPT ![Here(w)].tls = x]
      PROVE  ConnsType' /\ Steady
  <2>1. PICK c \in Conns : c = Here(w)
    BY <1>3, InHand DEF Serving
  <2>2. /\ Changes(c) /\ Ident(c) /\ Flow(c) /\ conn'[c].tls = x
        /\ conn'[c].peer = conn[c].peer /\ conn'[c].stale = conn[c].stale
    BY <1>3, <2>1, TlsIs
  <2>3. ConnType(conn'[c])
    BY <2>2 DEF TypeInv, ConnsType, ConnType, Ident, Flow, Changes
  <2> QED
    BY <2>2, <2>3, ConnOne DEF Ident
<1>4. HandshakeWantsRead(w) \/ HandshakeWantsWrite(w) \/ HandshakeDone(w) => ConnsType' /\ Steady
  BY <1>3 DEF HandshakeWantsRead, HandshakeWantsWrite, HandshakeWants, HandshakeDone, WGoto
<1>5. CASE ReadData(w)
  <2>1. thr[w].pc = "read"
    BY <1>5 DEF ReadData, WGoto
  <2>2. PICK c \in Conns : c = Here(w)
    BY <2>1, InHand DEF Serving
  <2>3. conn' = [conn EXCEPT ![c] = [@ EXCEPT !.buf = conn[c].buf \o conn[c].inq, !.inq = << >>]]
    BY <1>5, <2>2 DEF ReadData
  <2>4. /\ Changes(c) /\ Ident(c) /\ Ends(c) /\ conn'[c].buf = conn[c].buf \o conn[c].inq /\ conn'[c].inq = << >>
        /\ conn'[c].script = conn[c].script /\ conn'[c].served = conn[c].served
    BY <2>3, ReadIs
  <2>5. conn'[c].buf \in Seq(1..MaxUnits) /\ conn'[c].inq \in Seq(1..MaxUnits)
    <3>1. conn[c].buf \in Seq(1..MaxUnits) /\ conn[c].inq \in Seq(1..MaxUnits)
      BY DEF TypeInv, ConnsType, ConnType
    <3>2. conn[c].buf \o conn[c].inq \in Seq(1..MaxUnits)
      BY <3>1, ConcatProperties
    <3> QED
      BY <2>4, <3>2, EmptySeq
  <2>6. ConnType(conn'[c])
    BY <2>4, <2>5 DEF TypeInv, ConnsType, ConnType, Ident, Ends, Changes
  <2> QED
    BY <2>4, <2>6, ConnOne DEF Ident
<1>6. ASSUME NEW up, thr[w].pc = "loop", conn[Here(w)].buf # << >>, ServeFront(w, up) PROVE ConnsType' /\ Steady
  <2>1. PICK c \in Conns : c = Here(w)
    BY <1>6, InHand DEF Serving
  <2>2. /\ Changes(c) /\ Ident(c) /\ Ends(c) /\ conn'[c].buf = Tail(conn[c].buf)
        /\ conn'[c].served = Append(conn[c].served, Head(conn[c].buf))
        /\ conn'[c].script = conn[c].script /\ conn'[c].inq = conn[c].inq
    BY <1>6, <2>1, ServeIs
  <2>3. conn'[c].buf \in Seq(1..MaxUnits) /\ conn'[c].served \in Seq(1..MaxUnits)
    <3>1. Head(conn[c].buf) \in 1..MaxUnits /\ Tail(conn[c].buf) \in Seq(1..MaxUnits)
      BY <1>6, <2>1, FrontIn
    <3>2. conn[c].served \in Seq(1..MaxUnits)
      BY DEF TypeInv, ConnsType, ConnType
    <3> QED
      BY <2>2, <3>1, <3>2, AppendProperties
  <2>4. ConnType(conn'[c])
    BY <2>2, <2>3 DEF TypeInv, ConnsType, ConnType, Ident, Ends, Changes
  <2> QED
    BY <2>2, <2>4, ConnOne DEF Ident
<1>7. LoopDisconnect(w) \/ LoopUpgrade(w) \/ LoopControl(w) => ConnsType' /\ Steady
  BY <1>6 DEF LoopDisconnect, LoopUpgrade, LoopControl, FrontIs, WGoto
<1>8. CASE LoopOffload(w)
  <2>1. thr[w].pc = "loop" /\ conn[Here(w)].buf # << >> /\ conn' = [conn EXCEPT ![Here(w)].buf = Tail(@)]
    BY <1>8 DEF LoopOffload, Offload, FrontIs, WGoto
  <2>2. PICK c \in Conns : c = Here(w)
    BY <2>1, InHand DEF Serving
  <2>3. /\ Changes(c) /\ Ident(c) /\ Ends(c) /\ conn'[c].buf = Tail(conn[c].buf)
        /\ conn'[c].script = conn[c].script /\ conn'[c].inq = conn[c].inq /\ conn'[c].served = conn[c].served
    BY <2>1, <2>2, TakenIs
  <2>4. Tail(conn[c].buf) \in Seq(1..MaxUnits)
    BY <2>1, <2>2, FrontIn
  <2>5. ConnType(conn'[c])
    BY <2>3, <2>4 DEF TypeInv, ConnsType, ConnType, Ident, Ends, Changes
  <2> QED
    BY <2>3, <2>5, ConnOne DEF Ident
<1>9. ASSUME \/ Poll(w) \/ SweepCollect(w) \/ SweepDone(w) \/ \E f \in Fds : SweepOne(w, f)
             \/ \E e \in thr[w].batch : EventListen(w, e) \/ EventHup(w, e) \/ EventOut(w, e)
             \/ Exit(w) \/ AcceptRegister(w) \/ AcceptDone(w) \/ HandshakeFails(w) \/ LoopSendThrows(w) \/ ReadEnd(w) \/ LoopIncomplete(w)
      PROVE  conn' = conn
  BY <1>9 DEF Poll, SweepCollect, SweepDone, SweepOne, EventListen, EventHup, EventOut, Exit, AcceptRegister,
         AcceptDone, HandshakeFails, LoopSendThrows, ReadEnd, LoopIncomplete
<1>10. conn' = conn => ConnsType' /\ Steady
  BY ConnSame
<1> HIDE DEF ConnsType, Steady
<1> QED
  BY <1>1, <1>2, <1>4, <1>5, <1>7, <1>8, <1>9, <1>10 DEF WorkerStep

LEMMA TaskConns ==
    ASSUME TypeInv, NEW t \in tasks, TaskStep(t)
    PROVE  ConnsType' /\ Steady
<1>1. PICK c \in Conns : c = t.conn
  BY DEF TypeInv, Tasks
<1>2. t.n \in 1..MaxUnits /\ ConnType(conn[c])
  BY <1>1 DEF TypeInv, Tasks, ConnsType
<1>3. Append(conn[c].served, t.n) \in Seq(1..MaxUnits)
  BY <1>2, AppendProperties DEF ConnType
<1>4. CASE TaskHandleWs(t)
  <2>1. /\ Changes(c) /\ Ident(c) /\ Ends(c) /\ conn'[c].served = Append(conn[c].served, t.n)
        /\ conn'[c].script = conn[c].script /\ conn'[c].inq = conn[c].inq /\ conn'[c].buf = conn[c].buf
    BY <1>1, <1>4, ServedIs DEF TaskHandleWs
  <2>2. ConnType(conn'[c])
    BY <1>2, <1>3, <2>1 DEF ConnType, Ident, Ends, Changes
  <2> QED
    BY <2>1, <2>2, ConnOne DEF Ident
<1>5. CASE TaskSend(t)
  <2>1. /\ Changes(c) /\ Ident(c) /\ conn'[c].served = Append(conn[c].served, t.n)
        /\ conn'[c].script = conn[c].script /\ conn'[c].inq = conn[c].inq /\ conn'[c].buf = conn[c].buf
        /\ conn'[c].peer = conn[c].peer /\ conn'[c].tls = conn[c].tls
    BY <1>1, <1>5, SentIs DEF TaskSend
  <2>2. ConnType(conn'[c])
    BY <1>2, <1>3, <2>1 DEF ConnType, Ident, Changes
  <2> QED
    BY <2>1, <2>2, ConnOne DEF Ident
<1>6. TaskHandle(t) \/ TaskThrow(t) \/ TaskDecide(t) \/ TaskRearm(t) \/ TaskClose(t) \/ TaskDiscard(t) \/ TaskDrop(t)
        => conn' = conn
  BY DEF TaskHandle, TaskThrow, TaskDecide, TaskRearm, TaskClose, TaskDiscard, TaskDrop
<1> QED
  BY <1>4, <1>5, <1>6, ConnSame DEF TaskStep

\* What a step other than accept may do to the kernel's tables.
Files == [Fds -> Conns \cup {NoConn}]
Masks == [Conns -> {"none", "in", "out", "off"}]
Shrinks == fdt' \in Files /\ reg' \in Masks /\ \A f \in Fds : fdt'[f] # NoConn => fdt'[f] = fdt[f]

LEMMA FilesShrink ==
    ASSUME TypeInv, Steady, Shrinks
    PROVE  FilesType'
  BY DEF TypeInv, FilesType, Steady, Shrinks, Files, Masks

LEMMA KernelKept ==
    ASSUME TypeInv, UNCHANGED kernel
    PROVE  Shrinks
  BY DEF TypeInv, FilesType, kernel, Shrinks, Files, Masks

LEMMA CloseShrinks ==
    ASSUME TypeInv, NEW c, NEW f, CloseFd(c, f)
    PROVE  Shrinks
  BY DEF TypeInv, FilesType, CloseFd, Shrinks, Files, Masks

LEMMA UseShrinks ==
    ASSUME TypeInv, NEW c, NEW f, UseFd(c, f)
    PROVE  Shrinks
  BY DEF TypeInv, FilesType, UseFd, Shrinks, Files, Masks

LEMMA ArmShrinks ==
    ASSUME TypeInv, NEW c, NEW f, NEW mask \in {"in", "out", "none"}, Arm(c, f, mask)
    PROVE  Shrinks
  BY DEF TypeInv, FilesType, Arm, Shrinks, Files, Masks

LEMMA RearmShrinks ==
    ASSUME TypeInv, NEW w, NEW mask \in {"in", "out"}, HandlerRearm(w, mask)
    PROVE  Shrinks
  BY ArmShrinks, UseShrinks DEF HandlerRearm

LEMMA DisconnectShrinks ==
    ASSUME TypeInv, NEW w, NEW f, Disconnect(w, f)
    PROVE  Shrinks
<1>1. CASE ~Registered(w, f)
  BY <1>1, UseShrinks DEF Disconnect
<1>2. CASE Registered(w, f) /\ actives[w][f] # NoConn /\ ~Captured(actives[w][f], tasks)
  BY <1>2, CloseShrinks DEF Disconnect
<1>3. CASE Registered(w, f) /\ ~(actives[w][f] # NoConn /\ ~Captured(actives[w][f], tasks))
  <2>1. Arm(actives[w][f], f, "none")
    BY <1>3 DEF Disconnect
  <2> QED
    BY <2>1, ArmShrinks
<1> QED
  BY <1>1, <1>2, <1>3

LEMMA WorkerFiles ==
    ASSUME TypeInv, NEW w \in Workers, WorkerStep(w)
    PROVE  FilesType'
<1>1. Steady
  BY WorkerConns
<1>2. ASSUME NEW c \in Conns, AcceptSocket(w, c) PROVE FilesType'
  <2>1. PICK f \in Fds : /\ fdt[f] = NoConn /\ fdt' = [fdt EXCEPT ![f] = c]
                         /\ conn'[c].link = "accepted" /\ conn'[c].fd = f
    BY <1>2, AcceptSocketIs
  <2>2. reg' = reg
    BY <1>2 DEF AcceptSocket
  <2>3. \A g \in Fds \ {f} : fdt'[g] = fdt[g]
    BY <2>1 DEF TypeInv, FilesType
  <2>4. fdt'[f] = c /\ fdt' \in [Fds -> Conns \cup {NoConn}]
    BY <2>1 DEF TypeInv, FilesType
  <2>5. ASSUME NEW g \in Fds \ {f}, fdt'[g] # NoConn
        PROVE  conn'[fdt'[g]].link = "accepted" /\ conn'[fdt'[g]].fd = g
    BY <1>1, <2>3, <2>5 DEF TypeInv, FilesType, Steady
  <2> QED
    BY <2>1, <2>2, <2>4, <2>5 DEF TypeInv, FilesType
<1>3. CASE Poll(w)
  <2>1. fdt' = fdt /\ reg' = [c \in Conns |-> IF \E f \in {f \in Fds : EventOf(w, f) # "none"} : fdt[f] = c THEN "off" ELSE reg[c]]
    BY <1>3 DEF Poll
  <2>2. Shrinks
    BY <2>1 DEF TypeInv, FilesType, Shrinks, Files, Masks
  <2> QED
    BY <1>1, <2>2, FilesShrink
<1>4. CASE Exit(w)
  <2> DEFINE dying == {f \in Fds : actives[w][f] # NoConn /\ ~Captured(actives[w][f], tasks)}
             gone(c) == conn[c].owner = w \/ \E f \in dying : fdt[f] = c
  <2>1. /\ fdt' = [f \in Fds |-> IF f \in dying THEN NoConn ELSE fdt[f]]
        /\ reg' = [c \in Conns |-> IF gone(c) THEN "none" ELSE reg[c]]
    BY <1>4 DEF Exit
  <2> HIDE DEF dying, gone
  <2>2. Shrinks
    BY <2>1 DEF TypeInv, FilesType, Shrinks, Files, Masks
  <2> QED
    BY <1>1, <2>2, FilesShrink
<1>5. CASE AcceptRegister(w)
  <2>1. (\E c, f : CloseFd(c, f) \/ Arm(c, f, "in")) \/ UNCHANGED kernel
    BY <1>5 DEF AcceptRegister
  <2> QED
    BY <1>1, <2>1, FilesShrink, CloseShrinks, ArmShrinks, KernelKept
<1>6. ASSUME \/ HandshakeWantsRead(w) \/ HandshakeWantsWrite(w) \/ LoopIncomplete(w) \/ LoopUpgrade(w) \/ LoopControl(w)
      PROVE  FilesType'
  <2>1. \E mask \in {"in", "out"} : HandlerRearm(w, mask)
    BY <1>6 DEF HandshakeWantsRead, HandshakeWantsWrite, HandshakeWants, LoopIncomplete, LoopUpgrade, LoopControl
  <2> QED
    BY <1>1, <2>1, FilesShrink, RearmShrinks
<1>7. ASSUME \/ \E e \in thr[w].batch : EventHup(w, e)
             \/ \E f \in Fds : SweepOne(w, f)
             \/ HandshakeFails(w) \/ LoopSendThrows(w) \/ ReadEnd(w) \/ LoopDisconnect(w)
      PROVE  FilesType'
  <2>1. \E f : Disconnect(w, f)
    BY <1>7 DEF EventHup, SweepOne, HandshakeFails, LoopSendThrows, ReadEnd, LoopDisconnect
  <2> QED
    BY <1>1, <2>1, FilesShrink, DisconnectShrinks
<1>8. ASSUME \/ \E e \in thr[w].batch : EventListen(w, e) \/ EventOut(w, e) \/ EventIn(w, e)
             \/ SweepCollect(w) \/ SweepDone(w) \/ AcceptDone(w)
             \/ HandshakeDone(w) \/ ReadData(w) \/ LoopOffload(w)
      PROVE  FilesType'
  <2>1. UNCHANGED kernel
    BY <1>8 DEF EventListen, EventOut, EventIn, SweepCollect, SweepDone, AcceptDone, HandshakeDone, ReadData, LoopOffload
  <2> QED
    BY <1>1, <2>1, FilesShrink, KernelKept
<1> HIDE DEF FilesType
<1> QED
  BY <1>2, <1>3, <1>4, <1>5, <1>6, <1>7, <1>8 DEF WorkerStep

LEMMA TaskFiles ==
    ASSUME TypeInv, NEW t \in tasks, TaskStep(t)
    PROVE  FilesType'
<1>1. Steady
  BY TaskConns
<1>2. CASE TaskSend(t) \/ (TaskHandleWs(t) /\ t.u = "text")
  <2>1. UseFd(t.conn, t.fd)
    BY <1>2 DEF TaskSend, TaskHandleWs
  <2> QED
    BY <1>1, <2>1, UseShrinks, FilesShrink
<1>3. CASE ~(TaskSend(t) \/ (TaskHandleWs(t) /\ t.u = "text"))
  <2>1. (\E c, f : CloseFd(c, f) \/ Arm(c, f, "in")) \/ UNCHANGED kernel
    BY <1>3 DEF TaskStep, TaskHandle, TaskHandleWs, TaskThrow, TaskDecide, TaskRearm, TaskClose, TaskDiscard, TaskDrop
  <2> QED
    BY <1>1, <2>1, FilesShrink, CloseShrinks, ArmShrinks, KernelKept
<1> QED
  BY <1>2, <1>3

\* Only the row of worker w changes in the maps.
RowOf(w) == \A v \in Workers \ {w} : actives'[v] = actives[v]

LEMMA ThrOne ==
    ASSUME TypeInv, NEW w \in Workers, Turns(w), RowOf(w), ThrType(w)'
    PROVE  ThreadsType'
<1>1. ASSUME NEW v \in Workers \ {w} PROVE ThrType(v)'
  <2>1. thr'[v] = thr[v] /\ actives'[v] = actives[v] /\ ThrType(v)
    BY DEF Turns, RowOf, TypeInv, ThreadsType
  <2> QED
    BY <2>1 DEF ThrType
<1> QED
  BY <1>1 DEF ThreadsType, Turns

LEMMA ThrSame ==
    ASSUME TypeInv, thr' = thr, actives' = actives
    PROVE  ThreadsType'
  BY DEF TypeInv, ThreadsType, ThrType

LEMMA BookKept ==
    ASSUME TypeInv, NEW w \in Workers, UNCHANGED book
    PROVE  RowOf(w) /\ actives' = actives /\ BookType'
  BY DEF TypeInv, book, RowOf, BookType, Entries

LEMMA DisconnectRow ==
    ASSUME TypeInv, NEW w \in Workers, NEW f, Disconnect(w, f)
    PROVE  RowOf(w)
  BY DEF TypeInv, BookType, Disconnect, RowOf, book

\* A move to a place where the thread has nothing in hand.
Free == Places \ (Serving \cup {"register"})
LEMMA ThrGoto ==
    ASSUME TypeInv, NEW w \in Workers, NEW from, NEW to \in Free, WGoto(w, from, to), RowOf(w)
    PROVE  ThreadsType'
<1>1. /\ Turns(w) /\ thr'[w].pc = to /\ thr'[w].batch = thr[w].batch
      /\ thr'[w].cur = thr[w].cur /\ thr'[w].pend = thr[w].pend /\ thr'[w].idle = thr[w].idle
  BY WGotoIs
<1>2. ThrType(w)
  BY DEF TypeInv, ThreadsType
<1>3. ThrType(w)'
  BY <1>1, <1>2 DEF ThrType, Turns, Free
<1> QED
  BY <1>1, <1>3, ThrOne

\* The handler goes on.
LEMMA ThrServing ==
    ASSUME TypeInv, NEW w \in Workers, NEW from \in Serving, NEW to \in Serving, WGoto(w, from, to), UNCHANGED book
    PROVE  ThreadsType'
<1>1. /\ Turns(w) /\ thr[w].pc = from /\ thr'[w].pc = to /\ thr'[w].batch = thr[w].batch
      /\ thr'[w].cur = thr[w].cur /\ thr'[w].pend = thr[w].pend /\ thr'[w].idle = thr[w].idle
  BY WGotoIs
<1>2. ThrType(w) /\ actives' = actives /\ RowOf(w)
  BY BookKept DEF TypeInv, ThreadsType
<1>3. ThrType(w)'
  BY <1>1, <1>2 DEF ThrType, Turns, Serving, Places
<1> QED
  BY <1>1, <1>2, <1>3, ThrOne

\* The thread takes an event.
LEMMA ThrTake ==
    ASSUME TypeInv, NEW w \in Workers, NEW e, NEW ev, NEW to, TakeEvent(w, e, ev, to), RowOf(w),
           to \in Free \/ (ev = "in" /\ to \in Serving /\ actives' = actives /\ actives[w][e.fd] # NoConn)
    PROVE  ThreadsType'
<1>1. /\ Turns(w) /\ e \in thr[w].batch /\ e.ev = ev /\ thr'[w].pc = to /\ thr'[w].batch = thr[w].batch \ {e}
      /\ thr'[w].cur = (IF to = "events" THEN thr[w].cur ELSE e.fd)
      /\ thr'[w].pend = thr[w].pend /\ thr'[w].idle = thr[w].idle
  BY TakeEventIs
<1>2. ThrType(w)
  BY DEF TypeInv, ThreadsType
<1>3. e.fd \in Fds \cup {0} /\ (ev = "in" => e.fd \in Fds)
  BY <1>1, <1>2 DEF ThrType, Events
<1>4. to \in Serving => e.fd \in Fds /\ actives'[w][e.fd] \in Conns
  BY <1>3 DEF TypeInv, BookType, Free
<1>5. /\ DOMAIN thr'[w] = ThrFields /\ Fcn(thr'[w], ThrFields)
      /\ thr'[w].pc \in Places /\ thr'[w].cur \in Fds \cup {0} /\ thr'[w].pend \in Conns \cup {NoConn}
      /\ thr'[w].idle \subseteq Fds
  BY <1>1, <1>2, <1>3 DEF ThrType, Turns, Free, Serving, Places
<1>6. thr'[w].batch \subseteq Events /\ \A d \in thr'[w].batch : d.ev # "listen" => d.fd \in Fds
  BY <1>1, <1>2 DEF ThrType
<1>7. /\ thr'[w].pc \in Serving => thr'[w].cur \in Fds /\ actives'[w][thr'[w].cur] \in Conns
      /\ thr'[w].pc # "register"
  BY <1>1, <1>4 DEF Serving, Free
<1>8. ThrType(w)'
  BY <1>5, <1>6, <1>7 DEF ThrType
<1> QED
  BY <1>1, <1>8, ThrOne

LEMMA PollIs ==
    ASSUME TypeInv, NEW w \in Workers, Poll(w)
    PROVE  LET ready == {f \in Fds : EventOf(w, f) # "none"} IN
           /\ Turns(w) /\ thr[w].pc = "poll" /\ thr'[w].pc = "events"
           /\ thr'[w].cur = thr[w].cur /\ thr'[w].pend = thr[w].pend /\ thr'[w].idle = thr[w].idle
           /\ thr'[w].batch = (IF Backlog(w) # {} THEN {[fd |-> 0, ev |-> "listen"]} ELSE {})
                              \cup {[fd |-> f, ev |-> EventOf(w, f)] : f \in ready}
           /\ reg' = [c \in Conns |-> IF \E f \in ready : fdt[f] = c THEN "off" ELSE reg[c]]
<1> DEFINE ready == {f \in Fds : EventOf(w, f) # "none"}
           new == (IF Backlog(w) # {} THEN {[fd |-> 0, ev |-> "listen"]} ELSE {})
                    \cup {[fd |-> f, ev |-> EventOf(w, f)] : f \in ready}
<1>1. /\ thr[w].pc = "poll" /\ thr' = [thr EXCEPT ![w] = [@ EXCEPT !.pc = "events", !.batch = new]]
      /\ reg' = [c \in Conns |-> IF \E f \in ready : fdt[f] = c THEN "off" ELSE reg[c]]
  BY DEF Poll
<1> HIDE DEF ready, new
<1>2. /\ Turns(w) /\ thr'[w].pc = "events" /\ thr'[w].batch = new
      /\ thr'[w].cur = thr[w].cur /\ thr'[w].pend = thr[w].pend /\ thr'[w].idle = thr[w].idle
  BY <1>1 DEF Fcn, TypeInv, ThreadsType, ThrType, Turns, ThrFields
<1> QED
  BY <1>1, <1>2 DEF ready, new

\* What epoll_wait can say of a descriptor.
LEMMA EventOfIs ==
    ASSUME TypeInv, NEW w \in Workers, NEW f \in Fds, EventOf(w, f) # "none"
    PROVE  EventOf(w, f) \in {"in", "out", "hup"} /\ Registered(w, f) /\ reg[fdt[f]] # "off"
<1>1. Registered(w, f) => fdt[f] \in Conns /\ reg[fdt[f]] \in {"none", "in", "out", "off"}
  BY DEF TypeInv, FilesType, Registered
<1>2. Registered(w, f) /\ reg[fdt[f]] # "off"
  BY DEF EventOf
<1>3. reg[fdt[f]] \in {"in", "out"}
  BY <1>1, <1>2 DEF Registered
<1> QED
  BY <1>2, <1>3 DEF EventOf

LEMMA SweepCollectIs ==
    ASSUME TypeInv, NEW w \in Workers, SweepCollect(w)
    PROVE  /\ Turns(w) /\ thr[w].pc = "events" /\ thr[w].batch = {} /\ thr'[w].pc = "sweep"
           /\ thr'[w].cur = thr[w].cur /\ thr'[w].pend = thr[w].pend /\ thr'[w].batch = thr[w].batch
           /\ thr'[w].idle = {f \in Fds : actives[w][f] # NoConn /\ conn[actives[w][f]].stale}
<1> DEFINE new == {f \in Fds : actives[w][f] # NoConn /\ conn[actives[w][f]].stale}
<1>1. thr[w].pc = "events" /\ thr[w].batch = {} /\ thr' = [thr EXCEPT ![w] = [@ EXCEPT !.pc = "sweep", !.idle = new]]
  BY DEF SweepCollect
<1> HIDE DEF new
<1>2. /\ Turns(w) /\ thr'[w].pc = "sweep" /\ thr'[w].idle = new
      /\ thr'[w].cur = thr[w].cur /\ thr'[w].pend = thr[w].pend /\ thr'[w].batch = thr[w].batch
  BY <1>1 DEF Fcn, TypeInv, ThreadsType, ThrType, Turns, ThrFields
<1> QED
  BY <1>1, <1>2 DEF new

LEMMA SweepOneIs ==
    ASSUME TypeInv, NEW w \in Workers, NEW f \in Fds, SweepOne(w, f)
    PROVE  /\ Turns(w) /\ thr[w].pc = "sweep" /\ f \in thr[w].idle /\ thr'[w].pc = thr[w].pc
           /\ thr'[w].cur = thr[w].cur /\ thr'[w].pend = thr[w].pend /\ thr'[w].batch = thr[w].batch
           /\ thr'[w].idle = thr[w].idle \ {f}
  BY DEF Fcn, SweepOne, TypeInv, ThreadsType, ThrType, Turns, ThrFields

LEMMA AcceptRegisterIs ==
    ASSUME TypeInv, NEW w \in Workers, AcceptRegister(w)
    PROVE  /\ Turns(w) /\ thr[w].pc = "register" /\ thr'[w].pc = "accept" /\ thr'[w].pend = NoConn
           /\ thr'[w].cur = thr[w].cur /\ thr'[w].batch = thr[w].batch /\ thr'[w].idle = thr[w].idle
           /\ thr[w].cur \in Fds /\ thr[w].pend \in Conns
           /\ actives' = [actives EXCEPT ![w][thr[w].cur] = thr[w].pend] /\ count' = count + 1 /\ RowOf(w)
<1>1. /\ thr[w].pc = "register" /\ thr' = [thr EXCEPT ![w] = [@ EXCEPT !.pc = "accept", !.pend = NoConn]]
      /\ actives' = [actives EXCEPT ![w][thr[w].cur] = thr[w].pend] /\ count' = count + 1
  BY DEF AcceptRegister
<1>2. ThrType(w) /\ DOMAIN thr = Workers /\ actives \in [Workers -> [Fds -> Conns \cup {NoConn}]]
  BY DEF TypeInv, ThreadsType, BookType
<1>3. thr[w].cur \in Fds /\ thr[w].pend \in Conns
  BY <1>1, <1>2 DEF ThrType
<1>4. /\ Turns(w) /\ thr'[w].pc = "accept" /\ thr'[w].pend = NoConn
      /\ thr'[w].cur = thr[w].cur /\ thr'[w].batch = thr[w].batch /\ thr'[w].idle = thr[w].idle
  BY <1>1, <1>2 DEF Fcn, ThrType, Turns, ThrFields
<1>5. RowOf(w)
  BY <1>1, <1>2 DEF RowOf
<1> QED
  BY <1>1, <1>3, <1>4, <1>5

LEMMA WorkerThreads ==
    ASSUME TypeInv, NEW w \in Workers, WorkerStep(w)
    PROVE  ThreadsType'
<1>1. /\ {"poll", "events", "sweep", "exit", "accept"} \subseteq Free
      /\ "handshake" \in Serving /\ "read" \in Serving /\ "loop" \in Serving
  BY DEF Free, Places, Serving
<1>2. ThrType(w)
  BY DEF TypeInv, ThreadsType
<1>3. CASE Poll(w)
  <2> DEFINE ready == {f \in Fds : EventOf(w, f) # "none"}
  <2>1. /\ Turns(w) /\ thr'[w].pc = "events"
        /\ thr'[w].cur = thr[w].cur /\ thr'[w].pend = thr[w].pend /\ thr'[w].idle = thr[w].idle
        /\ thr'[w].batch = (IF Backlog(w) # {} THEN {[fd |-> 0, ev |-> "listen"]} ELSE {})
                           \cup {[fd |-> f, ev |-> EventOf(w, f)] : f \in ready}
    BY <1>3, PollIs
  <2>2. \A f \in ready : f \in Fds /\ EventOf(w, f) \in {"in", "out", "hup"}
    BY EventOfIs
  <2> HIDE DEF ready
  <2>3. \A e \in thr'[w].batch : e \in Events /\ (e.ev # "listen" => e.fd \in Fds)
    BY <2>1, <2>2 DEF Events
  <2>4. ThrType(w)'
    BY <1>2, <2>1, <2>3 DEF ThrType, Turns, Places, Serving
  <2>5. RowOf(w)
    BY <1>3, BookKept DEF Poll
  <2> QED
    BY <2>1, <2>4, <2>5, ThrOne
<1>4. CASE SweepCollect(w)
  <2>1. /\ Turns(w) /\ thr'[w].pc = "sweep" /\ thr'[w].cur = thr[w].cur /\ thr'[w].pend = thr[w].pend
        /\ thr'[w].batch = thr[w].batch /\ thr'[w].idle \subseteq Fds
    BY <1>4, SweepCollectIs
  <2>2. ThrType(w)'
    BY <1>2, <2>1 DEF ThrType, Turns, Places, Serving
  <2>3. RowOf(w)
    BY <1>4, BookKept DEF SweepCollect
  <2> QED
    BY <2>1, <2>2, <2>3, ThrOne
<1>5. ASSUME NEW f \in Fds, SweepOne(w, f) PROVE ThreadsType'
  <2>1. /\ Turns(w) /\ thr[w].pc = "sweep" /\ thr'[w].pc = thr[w].pc /\ thr'[w].cur = thr[w].cur
        /\ thr'[w].pend = thr[w].pend /\ thr'[w].batch = thr[w].batch /\ thr'[w].idle \subseteq thr[w].idle
    BY <1>5, SweepOneIs
  <2>2. ThrType(w)'
    BY <1>2, <2>1 DEF ThrType, Turns, Places, Serving
  <2>3. RowOf(w)
    BY <1>5, DisconnectRow DEF SweepOne
  <2> QED
    BY <2>1, <2>2, <2>3, ThrOne
<1>6. ASSUME NEW c \in Conns, AcceptSocket(w, c) PROVE ThreadsType'
  <2>1. PICK f \in Fds : /\ Turns(w) /\ thr'[w].pc = "register" /\ thr'[w].cur = f /\ thr'[w].pend = c
                         /\ thr'[w].batch = thr[w].batch /\ thr'[w].idle = thr[w].idle
    BY <1>6, AcceptSocketIs
  <2>2. ThrType(w)'
    BY <1>2, <2>1 DEF ThrType, Turns, Places, Serving
  <2>3. RowOf(w)
    BY <1>6, BookKept DEF AcceptSocket
  <2> QED
    BY <2>1, <2>2, <2>3, ThrOne
<1>7. CASE AcceptRegister(w)
  <2>1. /\ Turns(w) /\ thr'[w].pc = "accept" /\ thr'[w].pend = NoConn /\ RowOf(w)
        /\ thr'[w].cur = thr[w].cur /\ thr'[w].batch = thr[w].batch /\ thr'[w].idle = thr[w].idle
    BY <1>7, AcceptRegisterIs
  <2>2. ThrType(w)'
    BY <1>2, <2>1 DEF ThrType, Turns, Places, Serving
  <2> QED
    BY <2>1, <2>2, ThrOne
<1>8. ASSUME NEW e \in thr[w].batch, EventListen(w, e) \/ EventOut(w, e) PROVE ThreadsType'
  <2>1. RowOf(w)
    BY <1>8, BookKept DEF EventListen, EventOut
  <2> QED
    BY <1>1, <1>8, <2>1, ThrTake DEF EventListen, EventOut
<1>9. ASSUME NEW e \in thr[w].batch, EventHup(w, e) PROVE ThreadsType'
  <2>1. RowOf(w)
    BY <1>9, DisconnectRow DEF EventHup
  <2> QED
    BY <1>1, <1>9, <2>1, ThrTake DEF EventHup
<1>10. ASSUME NEW e \in thr[w].batch, EventIn(w, e) PROVE ThreadsType'
  <2>1. RowOf(w) /\ actives' = actives
    BY <1>10, BookKept DEF EventIn
  <2>2. \/ TakeEvent(w, e, "in", "events")
        \/ /\ actives[w][e.fd] # NoConn
           /\ TakeEvent(w, e, "in", "read") \/ TakeEvent(w, e, "in", "handshake")
    BY <1>10 DEF EventIn
  <2> QED
    BY <1>1, <2>1, <2>2, ThrTake
<1>11. ASSUME \/ SweepDone(w) \/ AcceptDone(w) \/ LoopIncomplete(w) \/ LoopUpgrade(w) \/ LoopOffload(w)
              \/ HandshakeWantsRead(w) \/ HandshakeWantsWrite(w)
       PROVE  ThreadsType'
  <2>1. UNCHANGED book
    BY <1>11 DEF SweepDone, AcceptDone, LoopIncomplete, LoopUpgrade, LoopOffload, HandshakeWantsRead,
                 HandshakeWantsWrite, HandshakeWants
  <2>2. \E from : WGoto(w, from, "poll") \/ WGoto(w, from, "events")
    BY <1>11 DEF SweepDone, AcceptDone, LoopIncomplete, LoopUpgrade, LoopOffload, HandshakeWantsRead,
                 HandshakeWantsWrite, HandshakeWants
  <2> QED
    BY <1>1, <2>1, <2>2, BookKept, ThrGoto
<1>12. ASSUME HandshakeFails(w) \/ LoopSendThrows(w) \/ ReadEnd(w) \/ LoopDisconnect(w) PROVE ThreadsType'
  <2>1. \E f : Disconnect(w, f)
    BY <1>12 DEF HandshakeFails, LoopSendThrows, ReadEnd, LoopDisconnect
  <2>2. \E from : WGoto(w, from, "events")
    BY <1>12 DEF HandshakeFails, LoopSendThrows, ReadEnd, LoopDisconnect
  <2> QED
    BY <1>1, <2>1, <2>2, DisconnectRow, ThrGoto
<1>13. CASE Exit(w)
  <2>1. RowOf(w)
    BY <1>13 DEF Exit, RowOf, TypeInv, BookType
  <2> QED
    BY <1>1, <1>13, <2>1, ThrGoto DEF Exit
<1>14. ASSUME HandshakeDone(w) \/ ReadData(w) \/ LoopControl(w) PROVE ThreadsType'
  <2>1. UNCHANGED book
    BY <1>14 DEF HandshakeDone, ReadData, LoopControl
  <2>2. WGoto(w, "handshake", "read") \/ WGoto(w, "read", "loop") \/ WGoto(w, "loop", "loop")
    BY <1>14 DEF HandshakeDone, ReadData, LoopControl
  <2> QED
    BY <1>1, <2>1, <2>2, ThrServing
<1> HIDE DEF ThreadsType
<1> QED
  BY <1>3, <1>4, <1>5, <1>6, <1>7, <1>8, <1>9, <1>10, <1>11, <1>12, <1>13, <1>14 DEF WorkerStep

(***************************************************************************)
(* The books.                                                              *)
(***************************************************************************)

LEMMA EntriesFinite ==
    ASSUME TypeInv
    PROVE  IsFiniteSet(Entries) /\ Cardinality(Entries) \in Nat
<1>1. IsFiniteSet(Workers \X Fds)
  BY EnoughDescriptors, WorkersFinite, FS_Product
<1>2. Entries \subseteq Workers \X Fds
  BY DEF Entries
<1> QED
  BY <1>1, <1>2, FS_Subset, FS_CardinalityType

\* An entry leaves the maps, and is counted out.
LEMMA BookLess ==
    ASSUME TypeInv, NEW w \in Workers, NEW f \in Fds, actives' = [actives EXCEPT ![w][f] = NoConn],
           count' = IF actives[w][f] = NoConn THEN count ELSE count - 1
    PROVE  BookType' /\ count' - Cardinality(Entries') = count - Cardinality(Entries)
<1>1. actives \in [Workers -> [Fds -> Conns \cup {NoConn}]] /\ count \in Nat /\ Cardinality(Entries) <= count
  BY DEF TypeInv, BookType
<1>2. actives' \in [Workers -> [Fds -> Conns \cup {NoConn}]]
  BY <1>1
<1>3. Entries' = Entries \ {<<w, f>>}
  <2>1. \A p \in Workers \X Fds : actives'[p[1]][p[2]] = IF p = <<w, f>> THEN NoConn ELSE actives[p[1]][p[2]]
    BY <1>1
  <2> QED
    BY <2>1 DEF Entries
<1>4. IsFiniteSet(Entries) /\ Cardinality(Entries) \in Nat
  BY EntriesFinite
<1>5. CASE actives[w][f] = NoConn
  <2>1. Entries' = Entries
    BY <1>3, <1>5 DEF Entries
  <2> QED
    BY <1>1, <1>2, <1>4, <1>5, <2>1 DEF BookType
<1>6. CASE actives[w][f] # NoConn
  <2>1. <<w, f>> \in Entries
    BY <1>6 DEF Entries
  <2>2. Cardinality(Entries') = Cardinality(Entries) - 1 /\ Cardinality(Entries') \in Nat
    BY <1>3, <1>4, <2>1, FS_RemoveElement, FS_CardinalityType
  <2>3. count' = count - 1
    BY <1>6
  <2>4. count' \in Nat /\ Cardinality(Entries') <= count' /\ count' - Cardinality(Entries') = count - Cardinality(Entries)
    BY <1>1, <1>4, <2>2, <2>3
  <2> QED
    BY <1>2, <2>4 DEF BookType
<1> QED
  BY <1>5, <1>6

\* An entry joins them.
LEMMA BookMore ==
    ASSUME TypeInv, NEW w \in Workers, NEW f \in Fds, NEW c \in Conns,
           actives' = [actives EXCEPT ![w][f] = c], count' = count + 1
    PROVE  BookType' /\ (actives[w][f] = NoConn => count' - Cardinality(Entries') = count - Cardinality(Entries))
<1>1. actives \in [Workers -> [Fds -> Conns \cup {NoConn}]] /\ count \in Nat /\ Cardinality(Entries) <= count
  BY DEF TypeInv, BookType
<1>2. actives' \in [Workers -> [Fds -> Conns \cup {NoConn}]]
  BY <1>1
<1>3. Entries' = Entries \cup {<<w, f>>}
  <2>1. \A p \in Workers \X Fds : actives'[p[1]][p[2]] = IF p = <<w, f>> THEN c ELSE actives[p[1]][p[2]]
    BY <1>1
  <2> QED
    BY <2>1, EnvironmentOK DEF Entries
<1>4. IsFiniteSet(Entries) /\ Cardinality(Entries) \in Nat
  BY EntriesFinite
<1>5. Cardinality(Entries') = IF <<w, f>> \in Entries THEN Cardinality(Entries) ELSE Cardinality(Entries) + 1
  BY <1>3, <1>4, FS_AddElement
<1>6. actives[w][f] = NoConn => <<w, f>> \notin Entries
  BY DEF Entries
<1>7. count' \in Nat /\ Cardinality(Entries') <= count'
  BY <1>1, <1>4, <1>5
<1>8. actives[w][f] = NoConn => count' - Cardinality(Entries') = count - Cardinality(Entries)
  BY <1>1, <1>4, <1>5, <1>6
<1> QED
  BY <1>2, <1>7, <1>8 DEF BookType

LEMMA DisconnectBook ==
    ASSUME TypeInv, NEW w \in Workers, NEW f \in Fds, Disconnect(w, f)
    PROVE  BookType'
<1>1. CASE ~Registered(w, f)
  BY <1>1, BookKept DEF Disconnect
<1>2. CASE Registered(w, f)
  BY <1>2, BookLess DEF Disconnect
<1> QED
  BY <1>1, <1>2

LEMMA WorkerBook ==
    ASSUME TypeInv, NEW w \in Workers, WorkerStep(w)
    PROVE  BookType'
<1>1. ThrType(w)
  BY DEF TypeInv, ThreadsType
<1>2. CASE AcceptRegister(w)
  BY <1>2, AcceptRegisterIs, BookMore
<1>3. CASE Exit(w)
  <2>1. actives \in [Workers -> [Fds -> Conns \cup {NoConn}]] /\ count \in Nat /\ Cardinality(Entries) <= count
    BY DEF TypeInv, BookType
  <2>2. actives' = [actives EXCEPT ![w] = [f \in Fds |-> NoConn]] /\ count' = count
    BY <1>3 DEF Exit
  <2>3. Entries' \subseteq Entries /\ actives' \in [Workers -> [Fds -> Conns \cup {NoConn}]]
    BY <2>1, <2>2 DEF Entries
  <2>4. Cardinality(Entries') <= Cardinality(Entries) /\ Cardinality(Entries') \in Nat /\ Cardinality(Entries) \in Nat
    BY <2>3, EntriesFinite, FS_Subset, FS_CardinalityType
  <2>5. Cardinality(Entries') <= count'
    BY <2>1, <2>2, <2>4
  <2> QED
    BY <2>1, <2>2, <2>3, <2>5 DEF BookType
<1>4. ASSUME NEW e \in thr[w].batch, EventHup(w, e) PROVE BookType'
  <2>1. e.fd \in Fds
    BY <1>1, <1>4 DEF EventHup, TakeEvent, ThrType
  <2> QED
    BY <1>4, <2>1, DisconnectBook DEF EventHup
<1>5. ASSUME NEW f \in Fds, SweepOne(w, f) PROVE BookType'
  BY <1>5, DisconnectBook DEF SweepOne
<1>6. ASSUME HandshakeFails(w) \/ LoopSendThrows(w) \/ ReadEnd(w) \/ LoopDisconnect(w) PROVE BookType'
  <2>1. thr[w].pc \in Serving /\ Disconnect(w, thr[w].cur)
    BY <1>6 DEF HandshakeFails, LoopSendThrows, ReadEnd, LoopDisconnect, WGoto, Serving
  <2> QED
    BY <2>1, InHand, DisconnectBook
<1>7. ASSUME \/ Poll(w) \/ SweepCollect(w) \/ SweepDone(w) \/ AcceptDone(w)
             \/ \E e \in thr[w].batch : EventListen(w, e) \/ EventOut(w, e) \/ EventIn(w, e)
             \/ \E c \in Conns : AcceptSocket(w, c)
             \/ HandshakeWantsRead(w) \/ HandshakeWantsWrite(w) \/ HandshakeDone(w) \/ ReadData(w)
             \/ LoopIncomplete(w) \/ LoopUpgrade(w) \/ LoopControl(w) \/ LoopOffload(w)
      PROVE  BookType'
  <2>1. UNCHANGED book
    BY <1>7 DEF Poll, SweepCollect, SweepDone, AcceptDone, EventListen, EventOut, EventIn, AcceptSocket,
                HandshakeWantsRead, HandshakeWantsWrite, HandshakeWants, HandshakeDone, ReadData,
                LoopIncomplete, LoopUpgrade, LoopControl, LoopOffload
  <2> QED
    BY <2>1, BookKept
<1> HIDE DEF BookType
<1> QED
  BY <1>2, <1>3, <1>4, <1>5, <1>6, <1>7 DEF WorkerStep

(***************************************************************************)
(* The tasks and the flags.                                                *)
(***************************************************************************)

Ats == {"queued", "handled", "sent", "rearm", "close", "drop"}

LEMMA BecomeIs ==
    ASSUME TypeInv, NEW t \in tasks, NEW at \in Ats, Become(t, at)
    PROVE  \E s \in Tasks : /\ tasks' = (tasks \ {t}) \cup {s} /\ s.conn = t.conn /\ s.fd = t.fd
                            /\ s.w = t.w /\ s.n = t.n /\ s.u = t.u /\ s.at = at
<1>1. t \in Tasks
  BY DEF TypeInv
<1> DEFINE s == [t EXCEPT !.at = at]
<1>2. s \in Tasks /\ s.conn = t.conn /\ s.fd = t.fd /\ s.w = t.w /\ s.n = t.n /\ s.u = t.u /\ s.at = at
  BY <1>1 DEF Tasks, Ats
<1>3. tasks' = (tasks \ {t}) \cup {s}
  BY DEF Become
<1> QED
  BY <1>2, <1>3

LEMMA OffloadIs ==
    ASSUME TypeInv, NEW w \in Workers, LoopOffload(w), NEW c, c = Here(w)
    PROVE  /\ c \in Conns /\ thr[w].pc = "loop" /\ conn[c].buf # << >> /\ conn' = [conn EXCEPT ![c].buf = Tail(@)]
           /\ \E s \in Tasks : /\ tasks' = tasks \cup {s} /\ s.conn = c /\ s.fd = thr[w].cur /\ s.w = w
                               /\ s.n = Head(conn[c].buf) /\ s.u = FrontUnit(w) /\ s.at = "queued"
                               /\ s.u \in {"keep", "close"} \cup DataUnits
<1>1. thr[w].pc = "loop" /\ conn[c].buf # << >> /\ conn' = [conn EXCEPT ![c].buf = Tail(@)]
  BY DEF LoopOffload, WGoto, Offload, FrontIs
<1>2. c \in Conns /\ thr[w].cur \in Fds
  BY <1>1, InHand DEF Serving
<1>3. Head(conn[c].buf) \in 1..MaxUnits
  BY <1>1, <1>2, FrontIn
<1> DEFINE s == [conn |-> c, fd |-> thr[w].cur, w |-> w, n |-> Head(conn[c].buf), u |-> FrontUnit(w), at |-> "queued"]
<1>4. FrontUnit(w) \in {"keep", "close"} \cup DataUnits /\ tasks' = tasks \cup {s}
  BY DEF LoopOffload, Offload, FrontIs, Front
<1>5. s \in Tasks
  BY <1>2, <1>3, <1>4 DEF Tasks, Units, HttpUnits, WsUnits, DataUnits
<1> QED
  BY <1>1, <1>2, <1>4, <1>5

LEMMA WorkerTasks ==
    ASSUME TypeInv, NEW w \in Workers, WorkerStep(w)
    PROVE  tasks' \subseteq Tasks
<1>1. CASE LoopOffload(w)
  BY <1>1, OffloadIs DEF TypeInv
<1>2. CASE ~LoopOffload(w)
  <2>1. tasks' = tasks
    BY <1>2 DEF WorkerStep, Poll, SweepCollect, SweepDone, SweepOne, EventListen, EventHup, EventOut, EventIn, Exit,
            AcceptRegister, AcceptDone, AcceptSocket, HandshakeWantsRead, HandshakeWantsWrite, HandshakeWants,
            HandshakeDone, HandshakeFails, LoopSendThrows, ReadData, ReadEnd, LoopIncomplete, LoopDisconnect, LoopUpgrade, LoopControl
  <2> QED
    BY <2>1 DEF TypeInv
<1> QED
  BY <1>1, <1>2

LEMMA TaskTasks ==
    ASSUME TypeInv, NEW t \in tasks, TaskStep(t)
    PROVE  tasks' \subseteq Tasks
<1>1. CASE TaskDrop(t)
  BY <1>1 DEF TaskDrop, TypeInv
<1>2. CASE ~TaskDrop(t)
  <2>1. \E at \in Ats : Become(t, at)
    BY <1>2 DEF TaskStep, TaskHandle, TaskHandleWs, TaskThrow, TaskSend, TaskDecide, TaskRearm, TaskClose, TaskDiscard, Ats
  <2> QED
    BY <2>1, BecomeIs DEF TypeInv
<1> QED
  BY <1>1, <1>2

\* The flags of connections, and those of the process.
ConnFlags == \A c \in Conns : conn[c].ws \in BOOLEAN /\ conn[c].stale \in BOOLEAN
ProcessFlags == running \in BOOLEAN /\ crashed \in BOOLEAN /\ stray \in BOOLEAN

LEMMA FlagsOne ==
    ASSUME ConnFlags, NEW c \in Conns, Changes(c), conn'[c].ws \in BOOLEAN, conn'[c].stale \in BOOLEAN
    PROVE  ConnFlags'
<1>1. ASSUME NEW d \in Conns \ {c} PROVE conn'[d].ws \in BOOLEAN /\ conn'[d].stale \in BOOLEAN
  BY Zenon DEF ConnFlags, Changes
<1> QED
  BY <1>1, Zenon DEF ConnFlags

LEMMA ClientFlags ==
    ASSUME TypeInv, ConnFlags, NEW c \in Conns, ClientStep(c) \/ Expire(c)
    PROVE  ConnFlags'
<1>1. Changes(c) /\ conn'[c].ws = conn[c].ws /\ (conn'[c].stale = conn[c].stale \/ conn'[c].stale = TRUE)
  BY ClientIs
<1>2. conn'[c].ws \in BOOLEAN /\ conn'[c].stale \in BOOLEAN
  BY <1>1, Zenon DEF ConnFlags
<1> QED
  BY <1>1, <1>2, FlagsOne

LEMMA WorkerFlags ==
    ASSUME TypeInv, ConnFlags, NEW w \in Workers, WorkerStep(w)
    PROVE  ConnFlags'
<1>0. conn' = conn => ConnFlags'
  BY Zenon DEF ConnFlags
<1>1. ASSUME NEW c \in Conns, AcceptSocket(w, c) PROVE ConnFlags'
  <2>1. Changes(c) /\ conn'[c].ws = conn[c].ws /\ conn'[c].stale = conn[c].stale
    BY <1>1, AcceptSocketIs DEF Flow, Ends
  <2>2. conn'[c].ws \in BOOLEAN /\ conn'[c].stale \in BOOLEAN
    BY <2>1, Zenon DEF ConnFlags
  <2> QED
    BY <2>1, <2>2, FlagsOne
<1>2. ASSUME NEW e \in thr[w].batch, EventIn(w, e) PROVE ConnFlags'
  <2>1. PICK c : c = actives[w][e.fd]
    OBVIOUS
  <2>2. CASE c = NoConn
    BY <1>0, <1>2, <2>1, <2>2 DEF EventIn
  <2>3. CASE c # NoConn
    <3>1. conn' = [conn EXCEPT ![c].stale = FALSE] /\ e.ev = "in"
      BY <1>2, <2>1, <2>3 DEF EventIn
    <3>2. c \in Conns
      BY <2>1, <2>3, <3>1 DEF TypeInv, ThreadsType, ThrType, BookType
    <3>3. Changes(c) /\ conn'[c].ws = conn[c].ws /\ conn'[c].stale = FALSE
      BY <3>1, <3>2, StaleIs DEF Flow
    <3>4. conn'[c].ws \in BOOLEAN /\ conn'[c].stale \in BOOLEAN
      BY <3>2, <3>3, Zenon DEF ConnFlags
    <3> QED
      BY <3>2, <3>3, <3>4, FlagsOne
  <2> QED
    BY <2>2, <2>3
<1>3. ASSUME NEW x, thr[w].pc = "handshake", conn' = [conn EXCEPT ![Here(w)].tls = x] PROVE ConnFlags'
  <2>1. PICK c \in Conns : c = Here(w)
    BY <1>3, InHand DEF Serving
  <2>2. Changes(c) /\ conn'[c].ws = conn[c].ws /\ conn'[c].stale = conn[c].stale
    BY <1>3, <2>1, TlsIs DEF Flow
  <2>3. conn'[c].ws \in BOOLEAN /\ conn'[c].stale \in BOOLEAN
    BY <2>2, Zenon DEF ConnFlags
  <2> QED
    BY <2>2, <2>3, FlagsOne
<1>4. HandshakeWantsRead(w) \/ HandshakeWantsWrite(w) \/ HandshakeDone(w) => ConnFlags'
  BY <1>3 DEF HandshakeWantsRead, HandshakeWantsWrite, HandshakeWants, HandshakeDone, WGoto
<1>5. CASE ReadData(w)
  <2>1. PICK c \in Conns : c = Here(w)
    BY <1>5, InHand DEF Serving, ReadData, WGoto
  <2>2. conn' = [conn EXCEPT ![c] = [@ EXCEPT !.buf = conn[c].buf \o conn[c].inq, !.inq = << >>]]
    BY <1>5, <2>1 DEF ReadData
  <2>3. Changes(c) /\ conn'[c].ws = conn[c].ws /\ conn'[c].stale = conn[c].stale
    BY <2>2, ReadIs DEF Ends
  <2>4. conn'[c].ws \in BOOLEAN /\ conn'[c].stale \in BOOLEAN
    BY <2>3, Zenon DEF ConnFlags
  <2> QED
    BY <2>3, <2>4, FlagsOne
<1>6. ASSUME NEW up \in BOOLEAN, thr[w].pc = "loop", ServeFront(w, up) PROVE ConnFlags'
  <2>1. PICK c \in Conns : c = Here(w)
    BY <1>6, InHand DEF Serving
  <2>2. Changes(c) /\ conn'[c].ws = (conn[c].ws \/ up) /\ conn'[c].stale = conn[c].stale
    BY <1>6, <2>1, ServeIs DEF Ends
  <2>3. conn'[c].ws \in BOOLEAN /\ conn'[c].stale \in BOOLEAN
    BY <2>2, Zenon DEF ConnFlags
  <2> QED
    BY <2>2, <2>3, FlagsOne
<1>7. LoopDisconnect(w) \/ LoopUpgrade(w) \/ LoopControl(w) => ConnFlags'
  BY <1>6 DEF LoopDisconnect, LoopUpgrade, LoopControl, WGoto
<1>8. CASE LoopOffload(w)
  <2>1. PICK c : c = Here(w)
    OBVIOUS
  <2>2. c \in Conns /\ conn' = [conn EXCEPT ![c].buf = Tail(@)]
    BY <1>8, <2>1, OffloadIs
  <2>3. Changes(c) /\ conn'[c].ws = conn[c].ws /\ conn'[c].stale = conn[c].stale
    BY <2>2, TakenIs DEF Ends
  <2>4. conn'[c].ws \in BOOLEAN /\ conn'[c].stale \in BOOLEAN
    BY <2>2, <2>3, Zenon DEF ConnFlags
  <2> QED
    BY <2>2, <2>3, <2>4, FlagsOne
<1>9. ASSUME \/ Poll(w) \/ SweepCollect(w) \/ SweepDone(w) \/ \E f \in Fds : SweepOne(w, f)
             \/ \E e \in thr[w].batch : EventListen(w, e) \/ EventHup(w, e) \/ EventOut(w, e)
             \/ Exit(w) \/ AcceptRegister(w) \/ AcceptDone(w) \/ HandshakeFails(w) \/ LoopSendThrows(w) \/ ReadEnd(w) \/ LoopIncomplete(w)
      PROVE  conn' = conn
  BY <1>9 DEF Poll, SweepCollect, SweepDone, SweepOne, EventListen, EventHup, EventOut, Exit, AcceptRegister,
         AcceptDone, HandshakeFails, LoopSendThrows, ReadEnd, LoopIncomplete
<1> HIDE DEF ConnFlags
<1> QED
  BY <1>0, <1>1, <1>2, <1>4, <1>5, <1>7, <1>8, <1>9 DEF WorkerStep

LEMMA TaskFlags ==
    ASSUME TypeInv, ConnFlags, NEW t \in tasks, TaskStep(t)
    PROVE  ConnFlags'
<1>1. PICK c \in Conns : c = t.conn
  BY DEF TypeInv, Tasks
<1>2. conn' = conn \/ /\ Changes(c) /\ conn'[c].ws = conn[c].ws
                      /\ conn'[c].stale = conn[c].stale \/ conn'[c].stale = FALSE
  <2>1. CASE TaskHandleWs(t)
    BY <1>1, <2>1, ServedIs DEF TaskHandleWs, Ends
  <2>2. CASE TaskSend(t)
    BY <1>1, <2>2, SentIs DEF TaskSend
  <2> QED
    BY <2>1, <2>2 DEF TaskStep, TaskHandle, TaskThrow, TaskDecide, TaskRearm, TaskClose, TaskDiscard, TaskDrop
<1>3. CASE conn' = conn
  BY <1>3, Zenon DEF ConnFlags
<1>4. CASE /\ Changes(c) /\ conn'[c].ws = conn[c].ws
           /\ conn'[c].stale = conn[c].stale \/ conn'[c].stale = FALSE
  <2>1. conn'[c].ws \in BOOLEAN /\ conn'[c].stale \in BOOLEAN
    BY <1>4, Zenon DEF ConnFlags
  <2> QED
    BY <1>4, <2>1, FlagsOne
<1> QED
  BY <1>2, <1>3, <1>4

LEMMA StrayBool ==
    ASSUME stray \in BOOLEAN
    PROVE  /\ \A c, f : CloseFd(c, f) => stray' \in BOOLEAN
           /\ \A c, f, mask : Arm(c, f, mask) => stray' \in BOOLEAN
           /\ \A c, f : UseFd(c, f) => stray' \in BOOLEAN
           /\ UNCHANGED kernel => stray' \in BOOLEAN
           /\ stray' = stray => stray' \in BOOLEAN
<1>1. ASSUME NEW c, NEW f, CloseFd(c, f) PROVE stray' \in BOOLEAN
  BY <1>1, Zenon DEF CloseFd
<1>2. ASSUME NEW c, NEW f, NEW mask, Arm(c, f, mask) PROVE stray' \in BOOLEAN
  BY <1>2, Zenon DEF Arm
<1>3. UNCHANGED kernel => stray' = stray
  BY DEF kernel
<1>4. stray' = stray => stray' \in BOOLEAN
  BY Zenon
<1>5. ASSUME NEW c, NEW f, UseFd(c, f) PROVE stray' \in BOOLEAN
  BY <1>5, Zenon DEF UseFd
<1> QED
  BY <1>1, <1>2, <1>3, <1>4, <1>5

\* What the calls of an epoll thread do to the flags of the process.
LEMMA CallFlags ==
    ASSUME ProcessFlags
    PROVE  /\ \A w, f : Disconnect(w, f) => stray' \in BOOLEAN /\ crashed' \in BOOLEAN
           /\ \A w, mask : HandlerRearm(w, mask) => stray' \in BOOLEAN /\ crashed' \in BOOLEAN
<1>1. stray \in BOOLEAN /\ (crashed' = crashed \/ crashed' = TRUE => crashed' \in BOOLEAN)
  BY Zenon DEF ProcessFlags
<1>2. ASSUME NEW w, NEW f, Disconnect(w, f) PROVE stray' \in BOOLEAN /\ crashed' \in BOOLEAN
  <2>1. \E c : UseFd(c, f) \/ CloseFd(c, f) \/ Arm(c, f, "none")
    BY <1>2, Zenon DEF Disconnect
  <2>2. crashed' = crashed \/ crashed' = TRUE
    BY <1>2, Zenon DEF Disconnect
  <2> QED
    BY <1>1, <2>1, <2>2, StrayBool
<1>3. ASSUME NEW w, NEW mask, HandlerRearm(w, mask) PROVE stray' \in BOOLEAN /\ crashed' \in BOOLEAN
  <2>1. \E c, f : UseFd(c, f) \/ Arm(c, f, mask)
    BY <1>3, Zenon DEF HandlerRearm
  <2>2. crashed' = crashed \/ crashed' = TRUE
    BY <1>3, Zenon DEF HandlerRearm
  <2> QED
    BY <1>1, <2>1, <2>2, StrayBool
<1> QED
  BY <1>2, <1>3

LEMMA WorkerProcess ==
    ASSUME ProcessFlags, NEW w \in Workers, WorkerStep(w)
    PROVE  ProcessFlags'
<1>1. running \in BOOLEAN /\ crashed \in BOOLEAN /\ stray \in BOOLEAN
  BY DEF ProcessFlags
<1>2. running' \in BOOLEAN
  BY <1>1, Zenon DEF WorkerStep, Poll, SweepCollect, SweepDone, SweepOne, EventListen, EventHup, EventOut, EventIn, Exit,
            AcceptRegister, AcceptDone, AcceptSocket, HandshakeWantsRead, HandshakeWantsWrite, HandshakeWants,
            HandshakeDone, HandshakeFails, LoopSendThrows, ReadData, ReadEnd, LoopIncomplete, LoopDisconnect, LoopUpgrade, LoopControl, LoopOffload
<1>3. ASSUME \/ \E mask : HandlerRearm(w, mask)
             \/ \E f : Disconnect(w, f)
      PROVE  crashed' \in BOOLEAN /\ stray' \in BOOLEAN
  BY <1>3, CallFlags
<1>4. ASSUME \/ LoopIncomplete(w) \/ LoopUpgrade(w) \/ LoopControl(w) \/ HandshakeWantsRead(w) \/ HandshakeWantsWrite(w)
             \/ \E e \in thr[w].batch : EventHup(w, e)
             \/ \E f \in Fds : SweepOne(w, f)
             \/ HandshakeFails(w) \/ LoopSendThrows(w) \/ ReadEnd(w) \/ LoopDisconnect(w)
      PROVE  crashed' \in BOOLEAN /\ stray' \in BOOLEAN
  BY <1>3, <1>4 DEF LoopIncomplete, LoopUpgrade, LoopControl, HandshakeWantsRead, HandshakeWantsWrite, HandshakeWants,
                    EventHup, SweepOne, HandshakeFails, LoopSendThrows, ReadEnd, LoopDisconnect
<1>5. ASSUME Exit(w) PROVE crashed' \in BOOLEAN /\ stray' \in BOOLEAN
  <2>1. crashed' = crashed
    BY <1>5 DEF Exit
  <2>2. \E b \in BOOLEAN : stray' = (stray \/ b)
    BY <1>5, Zenon DEF Exit
  <2> QED
    BY <1>1, <2>1, <2>2, Zenon
<1>6. ASSUME AcceptRegister(w) PROVE crashed' \in BOOLEAN /\ stray' \in BOOLEAN
  <2>1. crashed' = crashed \/ crashed' = TRUE
    BY <1>6, Zenon DEF AcceptRegister
  <2>2. (\E c, f : CloseFd(c, f) \/ Arm(c, f, "in")) \/ UNCHANGED kernel
    BY <1>6 DEF AcceptRegister
  <2>3. crashed' \in BOOLEAN
    BY <1>1, <2>1, Zenon
  <2> QED
    BY <1>1, <2>2, <2>3, StrayBool
<1>7. ASSUME \/ Poll(w) \/ SweepCollect(w) \/ SweepDone(w) \/ AcceptDone(w)
             \/ \E e \in thr[w].batch : EventListen(w, e) \/ EventOut(w, e) \/ EventIn(w, e)
             \/ \E c \in Conns : AcceptSocket(w, c)
             \/ HandshakeDone(w) \/ ReadData(w) \/ LoopOffload(w)
      PROVE  crashed' \in BOOLEAN /\ stray' \in BOOLEAN
  <2>1. crashed' = crashed /\ stray' = stray
    BY <1>7 DEF Poll, SweepCollect, SweepDone, AcceptDone, EventListen, EventOut, EventIn, AcceptSocket,
                HandshakeDone, ReadData, LoopOffload, kernel
  <2> QED
    BY <1>1, <2>1, Zenon
<1>8. crashed' \in BOOLEAN /\ stray' \in BOOLEAN
  BY <1>4, <1>5, <1>6, <1>7 DEF WorkerStep
<1> QED
  BY <1>2, <1>8, Zenon DEF ProcessFlags

LEMMA TaskProcess ==
    ASSUME ProcessFlags, NEW t \in tasks, TaskStep(t)
    PROVE  ProcessFlags'
<1>1. running \in BOOLEAN /\ crashed \in BOOLEAN /\ stray \in BOOLEAN
  BY DEF ProcessFlags
<1>2. running' = running /\ crashed' = crashed
  BY DEF TaskStep, TaskHandle, TaskHandleWs, TaskThrow, TaskSend, TaskDecide, TaskRearm, TaskClose, TaskDiscard, TaskDrop
<1>3. CASE TaskSend(t) \/ (TaskHandleWs(t) /\ t.u = "text")
  <2>1. UseFd(t.conn, t.fd)
    BY <1>3 DEF TaskSend, TaskHandleWs
  <2>2. stray' \in BOOLEAN
    BY <1>1, <2>1, StrayBool
  <2> QED
    BY <1>1, <1>2, <2>2, Zenon DEF ProcessFlags
<1>4. CASE ~(TaskSend(t) \/ (TaskHandleWs(t) /\ t.u = "text"))
  <2>1. (\E c, f : CloseFd(c, f) \/ Arm(c, f, "in")) \/ UNCHANGED kernel
    BY <1>4 DEF TaskStep, TaskHandle, TaskHandleWs, TaskThrow, TaskDecide, TaskRearm, TaskClose, TaskDiscard, TaskDrop
  <2>2. stray' \in BOOLEAN
    BY <1>1, <2>1, StrayBool
  <2> QED
    BY <1>1, <1>2, <2>2, Zenon DEF ProcessFlags
<1> QED
  BY <1>3, <1>4

(***************************************************************************)
(* The type invariant.                                                     *)
(***************************************************************************)

LEMMA TypeInit == Init => TypeInv /\ ConnFlags /\ ProcessFlags
<1> SUFFICES ASSUME Init PROVE TypeInv /\ ConnFlags /\ ProcessFlags
  OBVIOUS
<1>1. conn \in [Conns ->
           [link : {"none"}, peer : {"open"}, script : {<< >>}, inq : {<< >>}, owner : Workers, fd : {0},
            tls : IF "notls" \in ClientUnits THEN {"hello", "notls"} ELSE {"hello"},
            ws : {FALSE}, buf : {<< >>}, stale : {FALSE}, served : {<< >>}]]
  BY DEF Init
<1>2. << >> \in Seq(Units) /\ << >> \in Seq(1..MaxUnits)
  BY EmptySeq
<1>3. ASSUME NEW c \in Conns
      PROVE  /\ DOMAIN conn[c] = ConnFields /\ conn[c].link = "none" /\ conn[c].peer = "open" /\ conn[c].script = << >>
             /\ conn[c].inq = << >> /\ conn[c].owner \in Workers /\ conn[c].fd = 0 /\ conn[c].tls \in {"hello", "notls"}
             /\ conn[c].buf = << >> /\ conn[c].served = << >>
  BY <1>1 DEF ConnFields
<1>4. ConnFlags
  <2>1. ASSUME NEW c \in Conns PROVE conn[c].ws = FALSE /\ conn[c].stale = FALSE
    BY <1>1
  <2> QED
    BY <2>1, Zenon DEF ConnFlags
<1>5. ConnsType
  <2>1. Fcn(conn, Conns) /\ \A c \in Conns : Fcn(conn[c], ConnFields)
    BY <1>1 DEF Fcn, ConnFields
  <2> QED
    BY <1>1, <1>2, <1>3, <2>1 DEF ConnsType, ConnType
<1>6. thr = [w \in Workers |-> [pc |-> "poll", batch |-> {}, cur |-> 0, pend |-> NoConn, idle |-> {}]]
  BY DEF Init
<1>7. ThreadsType
  BY <1>6 DEF Fcn, ThreadsType, ThrType, ThrFields, Places, Serving, Events
<1>8. /\ fdt = [f \in Fds |-> NoConn] /\ reg = [c \in Conns |-> "none"] /\ tasks = {} /\ count = 0
      /\ actives = [w \in Workers |-> [f \in Fds |-> NoConn]]
  BY DEF Init
<1>9. FilesType /\ tasks \subseteq Tasks
  BY <1>8 DEF FilesType
<1>10. Entries = {}
  BY <1>8 DEF Entries
<1>11. BookType
  BY <1>8, <1>10, FS_EmptySet DEF BookType
<1>12. ProcessFlags
  BY Zenon DEF Init, ProcessFlags
<1> QED
  BY <1>4, <1>5, <1>7, <1>9, <1>11, <1>12 DEF TypeInv

LEMMA ServerKept ==
    ASSUME TypeInv, ProcessFlags, ConnsType', Steady, UNCHANGED server
    PROVE  TypeInv' /\ ProcessFlags'
<1>1. UNCHANGED kernel /\ UNCHANGED book /\ thr' = thr /\ tasks' = tasks
  BY DEF server
<1>2. FilesType'
  BY <1>1, KernelKept, FilesShrink
<1>3. BookType' /\ actives' = actives
  BY <1>1 DEF TypeInv, BookType, Entries, book
<1>4. ThreadsType'
  BY <1>1, <1>3, ThrSame
<1>5. ProcessFlags'
  <2>1. running' = running /\ crashed' = crashed /\ stray' = stray
    BY DEF server, kernel
  <2> QED
    BY <2>1, Zenon DEF ProcessFlags
<1> QED
  BY <1>1, <1>2, <1>3, <1>4, <1>5 DEF TypeInv

LEMMA TypeStep ==
    ASSUME TypeInv, ConnFlags, ProcessFlags, [Next]_vars
    PROVE  TypeInv' /\ ConnFlags' /\ ProcessFlags'
<1>1. CASE UNCHANGED vars
  <2>1. conn' = conn /\ UNCHANGED server
    BY <1>1 DEF vars, server
  <2>2. ConnFlags'
    BY <2>1, Zenon DEF ConnFlags
  <2> QED
    BY <2>1, <2>2, ConnSame, ServerKept
<1>2. ASSUME NEW c \in Conns, ClientStep(c) \/ Expire(c) PROVE TypeInv' /\ ConnFlags' /\ ProcessFlags'
  <2>1. UNCHANGED server
    BY <1>2, ClientIs
  <2> QED
    BY <1>2, <2>1, ClientConns, ClientFlags, ServerKept
<1>3. ASSUME NEW w \in Workers, WorkerStep(w) PROVE TypeInv' /\ ConnFlags' /\ ProcessFlags'
  <2>1. ConnsType' /\ FilesType' /\ ThreadsType' /\ BookType' /\ tasks' \subseteq Tasks
    BY <1>3, WorkerConns, WorkerFiles, WorkerThreads, WorkerBook, WorkerTasks
  <2> QED
    BY <1>3, <2>1, WorkerFlags, WorkerProcess DEF TypeInv
<1>4. ASSUME NEW t \in tasks, TaskStep(t) PROVE TypeInv' /\ ConnFlags' /\ ProcessFlags'
  <2>1. thr' = thr /\ UNCHANGED book
    BY <1>4 DEF TaskStep, TaskHandle, TaskHandleWs, TaskThrow, TaskSend, TaskDecide, TaskRearm, TaskClose, TaskDiscard, TaskDrop
  <2>2. BookType' /\ actives' = actives
    BY <2>1 DEF TypeInv, BookType, Entries, book
  <2>3. ConnsType' /\ FilesType' /\ ThreadsType' /\ tasks' \subseteq Tasks
    BY <1>4, <2>1, <2>2, TaskConns, TaskFiles, ThrSame, TaskTasks
  <2> QED
    BY <1>4, <2>2, <2>3, TaskFlags, TaskProcess DEF TypeInv
<1>5. CASE Stop
  <2>1. conn' = conn /\ UNCHANGED kernel /\ thr' = thr /\ UNCHANGED book /\ tasks' = tasks
    BY <1>5 DEF Stop
  <2>2. FilesType' /\ ConnsType'
    BY <2>1, ConnSame, KernelKept, FilesShrink
  <2>3. BookType' /\ actives' = actives
    BY <2>1 DEF TypeInv, BookType, Entries, book
  <2>4. ThreadsType'
    BY <2>1, <2>3, ThrSame
  <2>5. ConnFlags'
    BY <2>1, Zenon DEF ConnFlags
  <2>6. running' = FALSE /\ crashed' = crashed /\ stray' = stray
    BY <1>5 DEF Stop, kernel
  <2>7. ProcessFlags'
    BY <2>6, Zenon DEF ProcessFlags
  <2> QED
    BY <2>1, <2>2, <2>3, <2>4, <2>5, <2>7 DEF TypeInv
<1> HIDE DEF TypeInv, ConnFlags, ProcessFlags
<1> QED
  BY <1>1, <1>2, <1>3, <1>4, <1>5 DEF Next

LEMMA TypeGives ==
    ASSUME TypeInv, ConnFlags, ProcessFlags
    PROVE  TypeOK
<1> DEFINE K == [link : {"none", "backlog", "accepted"}, peer : {"open", "eof", "reset"},
            script : Seq(Units), inq : Seq(1..MaxUnits), owner : Workers, fd : Fds \cup {0},
            tls : {"hello", "notls", "replied", "blocked", "finished", "done"},
            ws : BOOLEAN, buf : Seq(1..MaxUnits), stale : BOOLEAN, served : Seq(1..MaxUnits)]
           T == [pc : Places, cur : Fds \cup {0}, pend : Conns \cup {NoConn}, idle : SUBSET Fds,
            batch : SUBSET [fd : Fds \cup {0}, ev : {"in", "out", "hup", "listen"}]]
<1>1. ASSUME NEW c \in Conns PROVE conn[c] \in K
  <2>1. ConnType(conn[c])
    BY DEF TypeInv, ConnsType
  <2>2. conn[c].ws \in BOOLEAN /\ conn[c].stale \in BOOLEAN
    BY Zenon DEF ConnFlags
  <2> QED
    BY <2>1, <2>2 DEF Fcn, ConnType, ConnFields
<1>2. ASSUME NEW w \in Workers PROVE thr[w] \in T
  <2>1. ThrType(w)
    BY DEF TypeInv, ThreadsType
  <2> QED
    BY <2>1 DEF Fcn, ThrType, ThrFields, Events
<1> HIDE DEF K, T
<1>3. conn \in [Conns -> K] /\ thr \in [Workers -> T]
  BY <1>1, <1>2 DEF Fcn, TypeInv, ConnsType, ThreadsType
<1>4. {running, crashed, stray} \subseteq BOOLEAN
  BY Zenon DEF ProcessFlags
<1>5. /\ fdt \in [Fds -> Conns \cup {NoConn}] /\ reg \in [Conns -> {"none", "in", "out", "off"}]
      /\ actives \in [Workers -> [Fds -> Conns \cup {NoConn}]] /\ count \in Nat /\ tasks \subseteq Tasks
  BY DEF TypeInv, FilesType, BookType
<1> QED
  BY <1>3, <1>4, <1>5 DEF TypeOK, K, T, Tasks

\* In every environment - clients that close, reset, pipeline or time out, handlers
\* that throw, a server that is stopped - every variable keeps to its type: the
\* counter of active connections (Worker::disconnectClient, handleNewConnection)
\* does not wrap below zero, the lowest descriptor accept returns exists, and a
\* handler has a connection in hand.
THEOREM TypeCorrect == Spec => []TypeOK
<1>1. Init => TypeInv /\ ConnFlags /\ ProcessFlags
  BY TypeInit
<1>2. TypeInv /\ ConnFlags /\ ProcessFlags /\ [Next]_vars => (TypeInv /\ ConnFlags /\ ProcessFlags)'
  BY TypeStep
<1>3. TypeInv /\ ConnFlags /\ ProcessFlags => TypeOK
  BY TypeGives
<1> QED
  BY <1>1, <1>2, <1>3, PTL DEF Spec
============================================================================
