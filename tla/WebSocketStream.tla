-------------------------- MODULE WebSocketStream --------------------------
(***************************************************************************)
(* A connection that leaves HTTP: the upgrade in handleClientData, and the *)
(* frames that ClientConnection reads (parseWebSocketFrame) and writes     *)
(* (sendWebSocketMessage) afterwards, on the byte stream and the buffer of *)
(* HttpParser.  The first frames may be in the buffer together with the    *)
(* request, and a frame is cut anywhere.                                   *)
(*                                                                         *)
(* Bytes are scaled down: BYTE values instead of 256, length fields of     *)
(* MIDDLE and LONG bytes instead of 2 and 8.  The marks 126 and 127, the   *)
(* masking bit and the width of size_t follow from these.                  *)
(***************************************************************************)
EXTENDS HttpParser

CONSTANTS
    UpgradeRequest, NoUpgrade,  \* messages: an upgrade, and one that lacks something
    Frames,    \* frames a client may send, see EncodeFrame
    MaxFrames, \* bound: frames of one connection
    Key,       \* the masking key, four bytes
    Payloads,  \* what the server may send
    MaxSends   \* bound: messages it sends

\* The bytes, spelt so that they can follow the words of a request.
Octets == <<"b0", "b1", "b2", "b3", "b4", "b5", "b6", "b7">>
BYTE == Len(Octets)
HALF == BYTE \div 2
MIDDLE == 1
LONG == 2
SIZE == BYTE ^ LONG            \* size_t and uint64_t
MAX_STRING == SIZE \div 2 - 1  \* std::string::max_size

ASSUME KeyBytes == Key \in [1..4 -> 0..(BYTE - 1)]
ASSUME BoundsNat == MaxFrames \in Nat /\ MaxSends \in Nat
ASSUME UpgradeSpelt == {UpgradeRequest, NoUpgrade} \subseteq AnyMessage

\* A string of bytes.
ByteString(p) == p \in Seq(0..(BYTE - 1)) /\ Len(p) <= MAX_STRING

ASSUME PayloadsFit == \A p \in Payloads : ByteString(p)

\* What EncodeFrame can write: the length fits the form that is chosen for it.
FrameFits(f) ==
    /\ f.fin \in BOOLEAN /\ f.masked \in BOOLEAN
    /\ f.form \in {0, MIDDLE, LONG} /\ f.op \in 0..(HALF - 1)
    /\ f.claim \in 0..(SIZE - 1) /\ ByteString(f.payload)
    /\ f.form = 0 => f.claim < HALF - 2
    /\ f.form = MIDDLE => f.claim < BYTE ^ MIDDLE

ASSUME FramesFit == \A f \in Frames : FrameFits(f)

VARIABLES
    ws,        \* "off" before the upgrade; then "none", "parsing", "Incomplete" or "closed"
    frames,    \* the frames that follow the upgrade request
    received,  \* history: the frames read, in order
    messages,  \* history: the payloads the server was asked to send
    out        \* the frames it has written, as bytes

socket == <<ws, frames, received>>
server == <<messages, out>>
wsVars == <<vars, socket, server>>

----------------------------------------------------------------------------
(* The client *)

Octet(n) == Octets[n + 1]
Value(byte) == CHOOSE n \in 0..(BYTE - 1) : Octet(n) = byte

\* n in k bytes, the most significant first, and back.
BigEndian(n, k) == [i \in 1..k |-> Octet((n \div BYTE ^ (k - i)) % BYTE)]
FromBytes(bytes) ==
    LET upTo[i \in 0..Len(bytes)] ==
            IF i = 0 THEN 0 ELSE (upTo[i - 1] * BYTE + Value(bytes[i])) % SIZE
    IN  upTo[Len(bytes)]

\* The exclusive or of two bytes, bit by bit.
Xor(a, b) ==
    LET differ(bit) == ((a \div bit) + (b \div bit)) % 2
    IN  differ(1) + 2 * differ(2) + 4 * differ(4)

Mark(form, n) ==
    CASE form = 0 -> n
      [] form = MIDDLE -> HALF - 2
      [] form = LONG -> HALF - 1

\* A frame as a client writes it.  The length it claims may exceed its payload.
EncodeFrame(f) ==
    <<Octet(f.op + IF f.fin THEN HALF ELSE 0),
      Octet(Mark(f.form, f.claim) + IF f.masked THEN HALF ELSE 0)>>
    \o BigEndian(f.claim, f.form)
    \o (IF f.masked THEN [i \in 1..4 |-> Octet(Key[i])] ELSE << >>)
    \o [i \in DOMAIN f.payload |->
           Octet(IF f.masked THEN Xor(f.payload[i], Key[((i - 1) % 4) + 1]) ELSE f.payload[i])]

FramesWire(fs) == FlattenSeq([i \in DOMAIN fs |-> EncodeFrame(fs[i])])

\* A connection of plain requests, or one whose last request asks for the
\* upgrade and is followed by frames.
WsInit ==
    /\ ParserInit
    /\ \/ /\ sent \in UNION {[1..n -> Messages \cup {NoUpgrade}] : n \in 1..MaxMessages}
          /\ frames = << >>
       \/ /\ sent \in {<<UpgradeRequest>>, <<NoUpgrade, UpgradeRequest>>}
          /\ frames \in UNION {[1..n -> Frames] : n \in 0..MaxFrames}
    /\ tail = FramesWire(frames)
    /\ ws = "off"
    /\ received = << >>
    /\ messages = << >>
    /\ out = << >>

----------------------------------------------------------------------------
(* handleClientData, before the upgrade *)

\* "Upgrade: websocket", "Connection: Upgrade" and a key.
Upgrades(headers) ==
    /\ Header(headers, "Upgrade") = "websocket"
    /\ Header(headers, "Connection") = "Upgrade"
    /\ Header(headers, "Sec-WebSocket-Key") # ""

Http ==
    /\ ws = "off"
    /\ \/ \E n \in 1..Len(Wire) : Receive(n)
       \/ Parse
       \/ ~Upgrades(request.headers) /\ Deliver
    /\ UNCHANGED <<socket, server>>

\* The 101 is sent, the request consumed and the registration re-armed; frames
\* that are in the buffer already wait for the next event.
UpgradeToWebSocket ==
    /\ ws = "off" /\ Upgrades(request.headers)
    /\ Deliver
    /\ ws' = "none"
    /\ UNCHANGED <<frames, received, server>>

----------------------------------------------------------------------------
(* parseWebSocketFrame *)

Masked(d) == Value(d[2]) >= HALF
Extension(d) ==
    LET mark == Value(d[2]) % HALF
    IN  CASE mark = HALF - 2 -> MIDDLE
          [] mark = HALF - 1 -> LONG
          [] OTHER -> 0
PayloadLen(d) ==
    IF Extension(d) = 0 THEN Value(d[2]) % HALF ELSE FromBytes(SubSeq(d, 3, 2 + Extension(d)))

HeaderLen(d) == 2 + Extension(d) + IF Masked(d) THEN 4 ELSE 0

\* A frame is there: the four tests for more data pass, the last with size_t's arithmetic.
Whole(d) ==
    /\ Len(d) >= 2
    /\ Len(d) >= 2 + Extension(d)
    /\ Len(d) >= HeaderLen(d)
    /\ Len(d) >= (HeaderLen(d) + PayloadLen(d)) % SIZE

\* Fault: the key is applied from the start of the buffer, not of the payload.
DecodeFromStart(d) ==
    LET h == HeaderLen(d)
        unmask(i) == IF Masked(d) THEN Xor(Value(d[h + i]), Value(d[h - 3 + ((h + i - 1) % 4)]))
                                  ELSE Value(d[h + i])
    IN  [fin |-> Value(d[1]) >= HALF, op |-> Value(d[1]) % HALF,
         payload |-> [i \in 1..PayloadLen(d) |-> unmask(i)]]

\* The frame at the head of d, unmasked with the key it brings.
Decode(d) ==
    LET h == HeaderLen(d)
        unmask(i) == IF Masked(d) THEN Xor(Value(d[h + i]), Value(d[h - 3 + ((i - 1) % 4)]))
                                  ELSE Value(d[h + i])
    IN  [fin |-> Value(d[1]) >= HALF, op |-> Value(d[1]) % HALF,
         payload |-> [i \in 1..PayloadLen(d) |-> unmask(i)]]

----------------------------------------------------------------------------
(* handleClientData, after the upgrade *)

ReceiveFrames(n) ==
    /\ ws \in {"none", "Incomplete"}
    /\ arrived + n <= Len(Wire)
    /\ arrived' = arrived + n
    /\ ws' = "parsing"
    /\ UNCHANGED <<sent, tail, base, delivered, parser, request, result, frames, received, server>>

FrameIncomplete ==
    /\ ws = "parsing" /\ ~Whole(Data)
    /\ ws' = "Incomplete"
    /\ UNCHANGED <<vars, frames, received, server>>

\* The length is one that only the wrapped sum fits: payload.resize throws, and
\* the catch block disconnects.
FrameThrows ==
    /\ ws = "parsing" /\ Whole(Data) /\ PayloadLen(Data) > MAX_STRING
    /\ ws' = "closed"
    /\ UNCHANGED <<vars, frames, received, server>>

\* The opcodes, scaled: Text and Binary are 1, Close is 2, the others go on.
TEXT == 1
CLOSE == 2

\* Close disconnects; Text is handed to the pool, whose task re-arms, and what is
\* left in the buffer waits for the next event; other frames are dropped and
\* the loop goes on.
FrameComplete ==
    LET f == Decode(Data) IN
        /\ ws = "parsing" /\ Whole(Data) /\ PayloadLen(Data) <= MAX_STRING
        /\ received' = Append(received, f)
        /\ base' = base + HeaderLen(Data) + PayloadLen(Data)
        /\ ws' = CASE f.op = CLOSE -> "closed" [] f.op = TEXT -> "none" [] OTHER -> "parsing"
        /\ UNCHANGED <<sent, tail, arrived, delivered, parser, request, result, frames, server>>

----------------------------------------------------------------------------
(* sendWebSocketMessage *)

\* Fault: the first form is used up to and including its mark.
FormForOver(n) ==
    CASE n <= HALF - 2 -> 0
      [] n > HALF - 2 /\ n < BYTE ^ MIDDLE -> MIDDLE
      [] OTHER -> LONG

\* The shortest form that holds the length.
FormFor(n) ==
    CASE n < HALF - 2 -> 0
      [] n >= HALF - 2 /\ n < BYTE ^ MIDDLE -> MIDDLE
      [] OTHER -> LONG

SendMessage(payload) ==
    LET n == Len(payload) IN
        /\ ws # "off" /\ Len(messages) < MaxSends
        /\ messages' = Append(messages, payload)
        /\ out' = Append(out, <<Octet(HALF + TEXT), Octet(Mark(FormFor(n), n))>>
                              \o BigEndian(n, FormFor(n))
                              \o [i \in 1..n |-> Octet(payload[i])])
        /\ UNCHANGED <<vars, socket>>

WsFinished ==
    /\ \/ ws = "off" /\ Finished
       \/ ws = "closed" /\ UNCHANGED vars
       \/ ws \in {"none", "Incomplete"} /\ arrived = Len(Wire) /\ UNCHANGED vars
    /\ UNCHANGED <<socket, server>>

WsNext ==
    \/ Http
    \/ UpgradeToWebSocket
    \/ \E n \in 1..Len(Wire) : ReceiveFrames(n)
    \/ FrameIncomplete
    \/ FrameThrows
    \/ FrameComplete
    \/ \E payload \in Payloads : SendMessage(payload)
    \/ WsFinished

WsSpec == WsInit /\ [][WsNext]_wsVars

----------------------------------------------------------------------------
(* Properties *)

\* A frame that brings as much as it claims.
Sound(f) == f.claim = Len(f.payload)

\* The frame the server is waiting for, and the byte at which it ends.
NextFrame == frames[Len(received) + 1]
FrameEnd == Extent(Len(sent)) + Len(FramesWire(SubSeq(frames, 1, Len(received) + 1)))

\* However the stream is cut, and whatever came in one read with the upgrade
\* request, the frames read are those that were sent, in order and unmasked; a
\* frame that claims more than it brings is never taken for one;
\* parseWebSocketFrame answers Incomplete only when the next frame is not all
\* there; and the connection is closed only on Close or on a claim no string can
\* hold.  (Frames that came with the upgrade request or behind a Text frame are
\* not looked at before the next event: UpgradeToWebSocket, FrameComplete.)
FramesRight ==
    /\ \A i \in DOMAIN received :
           /\ i \in DOMAIN frames /\ Sound(frames[i])
           /\ received[i] = [fin |-> frames[i].fin, op |-> frames[i].op, payload |-> frames[i].payload]
    /\ ws = "Incomplete" /\ Len(received) < Len(frames) /\ Sound(NextFrame) => arrived < FrameEnd
    /\ ws = "closed" => \/ received # << >> /\ Last(received).op = CLOSE
                        \/ ~Sound(NextFrame) /\ NextFrame.claim > MAX_STRING

\* What sendWebSocketMessage writes for a payload of any length is one frame
\* that reads back as the payload, also at the bounds of the three forms and
\* with other frames behind it.
MessagesDecode ==
    \A i \in DOMAIN out :
        LET d == FlattenSeq(SubSeq(out, i, Len(out))) IN
            /\ Whole(d) /\ HeaderLen(d) + PayloadLen(d) = Len(out[i])
            /\ Decode(d) = [fin |-> TRUE, op |-> TEXT, payload |-> messages[i]]
============================================================================
