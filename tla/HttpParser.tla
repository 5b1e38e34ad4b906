---------------------------- MODULE HttpParser ----------------------------
(***************************************************************************)
(* http::HttpParser (src/http/HttpParser.cpp) and the code that drives it: *)
(* the parser is called again and again on a growing buffer, at every      *)
(* fragmentation of the byte stream, and keeps its place in state_,        *)
(* consumed_ and the chunk counters between calls.                         *)
(*                                                                         *)
(* A byte is a token.  "CR" and "LF" are themselves; one token stands for  *)
(* a whole word (a method and target, a header's name, a number), so that  *)
(* the limits are small; "pad" makes a line longer.                        *)
(***************************************************************************)
EXTENDS Integers, Sequences, SequencesExt, FiniteSetsExt

CONSTANTS
    MAX_REQUEST_LINE, MAX_HEADER_SIZE, MAX_HEADERS, MAX_BODY_SIZE, MAX_CHUNK_LINE_SIZE,
    Messages,      \* what a client may send, see Encode
    MaxMessages,   \* bound: messages on one connection
    FreshRequest   \* each call of parse gets a new HttpRequest, as in handleClientData

Limits == {MAX_REQUEST_LINE, MAX_HEADER_SIZE, MAX_HEADERS, MAX_BODY_SIZE, MAX_CHUNK_LINE_SIZE}

ASSUME LimitsPositive == Limits \subseteq Nat \ {0}
ASSUME FreshRequestBool == FreshRequest \in BOOLEAN
ASSUME MaxMessagesNat == MaxMessages \in Nat

\* A message as its sender means it, see Encode.
AnyMessage ==
    [line : Seq(STRING), headers : Seq(Seq(STRING)), body : Seq(STRING), chunked : BOOLEAN,
     chunks : Seq([size : Seq(STRING), data : Seq(STRING)]), trailers : Seq(Seq(STRING))]

ASSUME MessagesSpelt == Messages \subseteq AnyMessage

VARIABLES
    sent,            \* the messages on the wire
    tail,            \* what follows them, when the last one leaves HTTP
    arrived,         \* how many bytes of the stream have been read from the socket
    base,            \* how many have been consumed from readBuffer_
    state,           \* state_
    consumed,        \* consumed_
    bodySize,        \* bodySize_
    chunkSize, chunkBytesRead,  \* chunkSize_, chunkBytesRead_
    body,            \* body_
    request,         \* the HttpRequest passed to parse
    result,          \* "none", "parsing", or what parse returned
    delivered        \* history: the requests handed on, in order

chunks == <<chunkSize, chunkBytesRead, body>>
parser == <<state, consumed, bodySize, chunks>>
stream == <<sent, tail, arrived, base, delivered>>
vars == <<stream, parser, request, result>>

States == {"RequestLine", "Headers", "Body", "ChunkSize", "ChunkData", "ChunkDataCrlf",
           "ChunkTrailer", "Complete", "Error"}
Results == {"none", "parsing", "Incomplete", "Complete", "Invalid"}

----------------------------------------------------------------------------
(* The client *)

CRLF == <<"CR", "LF">>
Line(s) == s \o CRLF
LinesOf(ss) == FlattenSeq([i \in DOMAIN ss |-> Line(ss[i])])

\* A number as it is spelt in a Content-Length header or a chunk-size line.
Number ==
    [s \in {"0", "1", "2", "3", "9"} |->
        CASE s = "0" -> 0 [] s = "1" -> 1 [] s = "2" -> 2 [] s = "3" -> 3 [] s = "9" -> 9]

\* A message as its sender means it: a request line, header lines and a body,
\* plain or in chunks; each chunk is a size line and its data, trailers follow
\* the last chunk.
Encode(m) ==
    Line(m.line) \o LinesOf(m.headers) \o CRLF \o
    IF m.chunked
    THEN FlattenSeq([i \in DOMAIN m.chunks |-> Line(m.chunks[i].size) \o m.chunks[i].data \o CRLF])
         \o Line(<<"0">>) \o LinesOf(m.trailers) \o CRLF
    ELSE m.body

\* The request the sender means.
Meaning(m) ==
    [line |-> m.line, headers |-> m.headers,
     body |-> IF m.chunked THEN FlattenSeq([i \in DOMAIN m.chunks |-> m.chunks[i].data]) ELSE m.body]

\* The byte stream of a connection.
Wire == FlattenSeq([i \in DOMAIN sent |-> Encode(sent[i])]) \o tail

\* HttpRequest's default constructor.
NoRequest == [line |-> << >>, headers |-> << >>, body |-> << >>]

\* A connection with nothing read yet.
ParserInit ==
    /\ arrived = 0
    /\ base = 0
    /\ state = "RequestLine"
    /\ consumed = 0
    /\ bodySize = 0
    /\ chunkSize = 0
    /\ chunkBytesRead = 0
    /\ body = << >>
    /\ request = NoRequest
    /\ result = "none"
    /\ delivered = << >>

Init ==
    /\ sent \in UNION {[1..n -> Messages] : n \in 1..MaxMessages}
    /\ tail = << >>
    /\ ParserInit

----------------------------------------------------------------------------
(* The caller: handleClientData *)

\* A fragment is read into the buffer and parse is called.
Receive(n) ==
    /\ result \in {"none", "Incomplete"}
    /\ arrived + n <= Len(Wire)
    /\ arrived' = arrived + n
    /\ result' = "parsing"
    /\ request' = IF FreshRequest THEN NoRequest ELSE request
    /\ UNCHANGED <<sent, tail, base, delivered, parser>>

\* Fault: consumed_ is not reset.
DeliverNoReset ==
    /\ result = "Complete"
    /\ delivered' = Append(delivered, request)
    /\ base' = base + consumed
    /\ state' = "RequestLine"
    /\ result' = "none"
    /\ UNCHANGED <<sent, tail, arrived, consumed, bodySize, chunks, request>>

\* Complete: the request is handed on; consumeParsedRequest, reset.
Deliver ==
    /\ result = "Complete"
    /\ delivered' = Append(delivered, request)
    /\ base' = base + consumed
    /\ state' = "RequestLine"
    /\ consumed' = 0
    /\ bodySize' = 0
    /\ chunkSize' = 0
    /\ chunkBytesRead' = 0
    /\ body' = << >>
    /\ result' = "none"
    /\ UNCHANGED <<sent, tail, arrived, request>>

\* Invalid: 400 and disconnect; or the client has nothing more to send.
Finished ==
    /\ result = "Invalid" \/ (result \in {"none", "Incomplete"} /\ arrived = Len(Wire))
    /\ UNCHANGED vars

----------------------------------------------------------------------------
(* What parse and its helpers see *)

\* data, and data.substr(consumed_)
Data == SubSeq(Wire, base + 1, arrived)
Remaining == SubSeq(Data, consumed + 1, Len(Data))

\* Where "\r\n" and "\r\n\r\n" occur; find returns the first place, from 0.
Crlfs(s) == {i \in 1..(Len(s) - 1) : s[i] = "CR" /\ s[i + 1] = "LF"}
Blanks(s) == {i \in Crlfs(s) : i + 2 \in Crlfs(s)}
Find(places) == Min(places) - 1

\* The lines of s, up to the first empty one: each ends at the first "\r\n" from
\* the position at which it begins.
LinesIn(s) ==
    LET End(p) == Min({i \in Crlfs(s) : i >= p})
        from[p \in 1..(Len(s) + 1)] ==
            IF (\A i \in Crlfs(s) : i < p) \/ End(p) = p THEN << >>
            ELSE <<SubSeq(s, p, End(p) - 1)>> \o from[End(p) + 2]
    IN  from[1]

\* request.header(name): the first value under this name, empty if there is none.
Header(headers, name) ==
    LET is == {i \in DOMAIN headers : headers[i][1] = name}
    IN  IF is = {} THEN "" ELSE headers[Min(is)][2]

\* A line with a colon, a valid name and a valid value: the words are the name,
\* the value, "" if nothing follows the colon, and padding; a line of one word has
\* no colon.
Names == {"Host", "Content-Length", "Transfer-Encoding", "Upgrade", "Connection", "Sec-WebSocket-Key"}
WellFormed(line) == Len(line) >= 2 /\ line[1] \in Names

\* parseRequestLine accepts a known method, a target and "HTTP/1.1".
ValidRequestLine(line) == line # << >> /\ line[1] = "GET"

\* Fault: a second Content-Length is not compared with the first.
ValidHeadersLax(lines) ==
    Len(lines) <= MAX_HEADERS /\ \A i \in DOMAIN lines : WellFormed(lines[i])

\* parseHeaders: every line is well formed, there are not too many, and a
\* repeated Content-Length is that of the first one, unless this is empty.
ValidHeaders(lines) ==
    /\ Len(lines) <= MAX_HEADERS
    /\ \A i \in DOMAIN lines : WellFormed(lines[i])
    /\ \A i \in DOMAIN lines :
           lines[i][1] = "Content-Length" => Header(lines, "Content-Length") \in {"", lines[i][2]}

----------------------------------------------------------------------------
(* parse: one action per handler; "parsing" goes on until one returns *)

In(st) == result = "parsing" /\ state = st

Fail ==
    /\ state' = "Error"
    /\ result' = "Invalid"
    /\ UNCHANGED <<stream, consumed, bodySize, chunks, request>>

Incomplete ==
    /\ result' = "Incomplete"
    /\ UNCHANGED <<stream, parser, request>>

\* Fault: the limit is taken to be one byte less while the line is incomplete.
AwaitDelimiterStrict(places, limit) ==
    /\ places = {}
    /\ IF Len(Remaining) >= limit THEN Fail ELSE Incomplete

\* No delimiter yet: fail once more has come than a legal line or block can have.
AwaitDelimiter(places, limit) ==
    /\ places = {}
    /\ IF Len(Remaining) > limit THEN Fail ELSE Incomplete

\* The request is complete.
Return(req) ==
    /\ state' = "Complete"
    /\ result' = "Complete"
    /\ request' = req
    /\ UNCHANGED stream

HandleRequestLine ==
    LET ends == Crlfs(Remaining)
        line == SubSeq(Remaining, 1, Find(ends))
        legal == Find(ends) <= MAX_REQUEST_LINE /\ ValidRequestLine(line)
    IN  /\ In("RequestLine")
        /\ \/ AwaitDelimiter(ends, MAX_REQUEST_LINE)
           \/ ends # {} /\ ~legal /\ Fail
           \/ /\ ends # {} /\ legal
              /\ request' = [NoRequest EXCEPT !.line = line]
              /\ consumed' = consumed + Find(ends) + 2
              /\ state' = "Headers"
              /\ UNCHANGED <<stream, bodySize, chunks, result>>

\* The framing the headers ask for: "bad", "chunked", "none" or a length.
Framing(headers) ==
    LET cl == Header(headers, "Content-Length")
        te == Header(headers, "Transfer-Encoding")
    IN  CASE cl # "" /\ te # "" -> "bad"
          [] cl = "" /\ te # "" -> IF te = "chunked" THEN "chunked" ELSE "bad"
          [] cl = "" /\ te = "" -> "none"
          [] cl # "" /\ te = "" ->
                IF cl \in DOMAIN Number /\ Number[cl] <= MAX_BODY_SIZE THEN "length" ELSE "bad"

\* No framing header, or a length of zero.
NoBody(headers) ==
    \/ Framing(headers) = "none"
    \/ Framing(headers) = "length" /\ Number[Header(headers, "Content-Length")] = 0

\* Headers accepted: what follows depends on the framing.
BeginBody(req, end) ==
    /\ consumed' = consumed + end
    /\ \/ /\ Framing(req.headers) = "chunked"
          /\ request' = req
          /\ body' = << >> /\ chunkSize' = 0 /\ chunkBytesRead' = 0
          /\ state' = "ChunkSize"
          /\ UNCHANGED <<stream, bodySize, result>>
       \/ /\ Framing(req.headers) = "length"
          /\ ~NoBody(req.headers)
          /\ bodySize' = Number[Header(req.headers, "Content-Length")]
          /\ request' = req
          /\ state' = "Body"
          /\ UNCHANGED <<stream, chunks, result>>
       \/ /\ NoBody(req.headers)
          /\ bodySize' = 0
          /\ Return([req EXCEPT !.body = << >>])
          /\ UNCHANGED chunks

HandleHeaders ==
    LET ends == Blanks(Remaining)
        lines == LinesIn(SubSeq(Remaining, 1, Find(ends) + 4))
        req == [request EXCEPT !.headers = @ \o lines]
        legal == /\ Find(ends) <= MAX_HEADER_SIZE
                 /\ ValidHeaders(lines)
                 /\ Framing(req.headers) # "bad"
    IN  /\ In("Headers")
        /\ \/ AwaitDelimiter(ends, MAX_HEADER_SIZE)
           \/ ends # {} /\ ~legal /\ Fail
           \/ ends # {} /\ legal /\ BeginBody(req, Find(ends) + 4)

HandleBody ==
    LET available == Len(Data) - consumed IN
        /\ In("Body")
        /\ \/ available < bodySize /\ Incomplete
           \/ /\ available >= bodySize
              /\ consumed' = consumed + bodySize
              /\ Return([request EXCEPT !.body = SubSeq(Remaining, 1, bodySize)])
              /\ UNCHANGED <<bodySize, chunks>>

\* Fault: only the chunk is compared with the limit, not the whole body.
FitsBodyOneChunk(n) == n <= MAX_BODY_SIZE

\* chunkSize_ > MAX_BODY_SIZE || body_.size() > MAX_BODY_SIZE - chunkSize_ fails.
FitsBody(n) == n <= MAX_BODY_SIZE /\ Len(body) <= MAX_BODY_SIZE - n

\* The size line, its extension cut off, and what it announces.
HandleChunkSize ==
    LET ends == Crlfs(Remaining)
        size == Remaining[1]
        legal == /\ Find(ends) \in 1..MAX_CHUNK_LINE_SIZE
                 /\ size \in DOMAIN Number
                 /\ FitsBody(Number[size])
    IN  /\ In("ChunkSize")
        /\ \/ AwaitDelimiter(ends, MAX_CHUNK_LINE_SIZE)
           \/ ends # {} /\ ~legal /\ Fail
           \/ /\ ends # {} /\ legal
              /\ chunkSize' = Number[size]
              /\ chunkBytesRead' = 0
              /\ consumed' = consumed + Find(ends) + 2
              /\ state' = IF Number[size] = 0 THEN "ChunkTrailer" ELSE "ChunkData"
              /\ UNCHANGED <<stream, bodySize, body, request, result>>

\* Whatever part of the chunk has come is copied at once.
HandleChunkData ==
    LET n == Min({Len(Data) - consumed, chunkSize - chunkBytesRead}) IN
        /\ In("ChunkData")
        /\ body' = body \o SubSeq(Remaining, 1, n)
        /\ consumed' = consumed + n
        /\ chunkBytesRead' = chunkBytesRead + n
        /\ \/ /\ chunkBytesRead + n < chunkSize
              /\ result' = "Incomplete"
              /\ UNCHANGED state
           \/ /\ chunkBytesRead + n >= chunkSize
              /\ state' = "ChunkDataCrlf"
              /\ UNCHANGED result
        /\ UNCHANGED <<stream, bodySize, chunkSize, request>>

HandleChunkDataCrlf ==
    /\ In("ChunkDataCrlf")
    /\ \/ Len(Remaining) < 2 /\ Incomplete
       \/ Len(Remaining) >= 2 /\ 1 \notin Crlfs(Remaining) /\ Fail
       \/ /\ 1 \in Crlfs(Remaining)
          /\ consumed' = consumed + 2
          /\ state' = "ChunkSize"
          /\ UNCHANGED <<stream, bodySize, chunks, request, result>>

\* The body is moved into the request.
ReturnChunked(end) ==
    /\ consumed' = consumed + end
    /\ Return([request EXCEPT !.body = body])
    /\ body' = << >>
    /\ UNCHANGED <<bodySize, chunkSize, chunkBytesRead>>

\* An empty line at once, or trailers, which are checked and dropped.
HandleChunkTrailer ==
    LET ends == Blanks(Remaining)
        lines == LinesIn(SubSeq(Remaining, 1, Find(ends) + 2))
        legal == Len(lines) <= MAX_HEADERS /\ \A i \in DOMAIN lines : WellFormed(lines[i])
    IN  /\ In("ChunkTrailer")
        /\ \/ 1 \in Crlfs(Remaining) /\ ReturnChunked(2)
           \/ 1 \notin Crlfs(Remaining) /\ AwaitDelimiter(ends, MAX_HEADER_SIZE)
           \/ 1 \notin Crlfs(Remaining) /\ ends # {} /\ ~legal /\ Fail
           \/ 1 \notin Crlfs(Remaining) /\ ends # {} /\ legal /\ ReturnChunked(Find(ends) + 4)

Parse ==
    \/ HandleRequestLine
    \/ HandleHeaders
    \/ HandleBody
    \/ HandleChunkSize
    \/ HandleChunkData
    \/ HandleChunkDataCrlf
    \/ HandleChunkTrailer

Next ==
    \/ \E n \in 1..Len(Wire) : Receive(n)
    \/ Parse
    \/ Deliver
    \/ Finished

Spec == Init /\ [][Next]_vars

----------------------------------------------------------------------------
(* Properties *)

\* Every variable holds a value of its type; what parse has returned is what
\* state_ says, so an error is not forgotten; and the guards "consumed_ >
\* data.size()" at the head of every handler never hold: the parser does not run
\* ahead of the buffer, also when it is called again after the buffer was consumed.
TypeOK ==
    /\ arrived \in 0..Len(Wire) /\ base \in 0..arrived
    /\ state \in States /\ result \in Results
    /\ consumed \in 0..(arrived - base)
    /\ {bodySize, chunkSize, chunkBytesRead} \subseteq Nat
    /\ state = "Complete" <=> result = "Complete"
    /\ state = "Error" <=> result = "Invalid"

\* The bytes the first k messages take.
Extent(k) == Len(FlattenSeq([i \in 1..k |-> Encode(sent[i])]))

\* The message the parser is working on.
Current == sent[Len(delivered) + 1]

\* A block of lines short enough to be accepted however it is cut: three bytes
\* of the delimiter may come before the fourth.
Roomy(lines) == Len(LinesOf(lines)) - 2 + 3 <= MAX_HEADER_SIZE

HasHeader(m, name) == \E i \in DOMAIN m.headers : m.headers[i][1] = name

\* A line has no line break in it.
Unbroken(line) == Range(line) \cap {"CR", "LF"} = {}

\* A message that must be accepted: of the grammar, its framing headers one of
\* the three kinds and true of its body, within the limits (strictly, for one
\* byte of the delimiter may come before the other), with a header.
Legal(m) ==
    /\ m.line # << >> /\ m.line[1] = "GET" /\ Len(m.line) < MAX_REQUEST_LINE /\ Unbroken(m.line)
    /\ Len(m.headers) \in 1..MAX_HEADERS /\ Roomy(m.headers)
    /\ Len(m.trailers) <= MAX_HEADERS /\ Roomy(m.trailers)
    /\ \A h \in Range(m.headers) \cup Range(m.trailers) : WellFormed(h) /\ Unbroken(h)
    /\ m.chunked <=> HasHeader(m, "Transfer-Encoding")
    /\ \A h \in Range(m.headers) :
           /\ h[1] = "Content-Length" =>
                  ~m.chunked /\ h[2] \in DOMAIN Number /\ Number[h[2]] = Len(m.body)
           /\ h[1] = "Transfer-Encoding" => h[2] = "chunked"
    /\ ~m.chunked => (m.body # << >> => HasHeader(m, "Content-Length"))
    /\ m.chunked => Len(<<"0">>) < MAX_CHUNK_LINE_SIZE
    /\ \A c \in Range(m.chunks) :
           /\ Len(c.size) \in 1..(MAX_CHUNK_LINE_SIZE - 1) /\ Unbroken(c.size)
           /\ c.size[1] \in DOMAIN Number /\ Number[c.size[1]] = Len(c.data) /\ c.data # << >>
    /\ Len(Meaning(m).body) <= MAX_BODY_SIZE

\* parse goes by the first framing header of a name and takes an empty one for
\* none: a message with an empty Content-Length before another, or with unlike
\* Transfer-Encodings, is accepted without what the rest of them say.  Where it
\* ends is then a matter of opinion, and its body may be read as a request.
Ambiguous(m) ==
    \E h \in Range(m.headers) :
        \/ h[1] = "Content-Length" /\ Header(m.headers, h[1]) = ""
        \/ h[1] = "Transfer-Encoding" /\ (Header(m.headers, h[1]) = "" \/ Header(m.headers, h[1]) # h[2])

\* None of the first k messages is.
Clear(k) == \A i \in 1..k : i \in DOMAIN sent => ~Ambiguous(sent[i])

\* What a call of parse may return for message m if it was given a new HttpRequest
\* while it worked on it: the body is there, the request line or the headers may
\* be gone, and nothing comes from another message.
LeftOf(req, m) ==
    /\ req.body = Meaning(m).body
    /\ req.line \in {m.line, << >>}
    /\ req.headers \in {m.headers, << >>}

\* However the stream is cut and whoever calls parse, the requests handed on are
\* the legal ones that were sent, in order, each with its own body and with
\* nothing of its neighbours'; up to a message that is ambiguous. (Proved for both
\* callers; with one HttpRequest per message FragmentSafe says more.)
NothingMixed ==
    \A i \in DOMAIN delivered :
        Clear(i) => i \in DOMAIN sent /\ Legal(sent[i]) /\ LeftOf(delivered[i], sent[i])

\* Documentation/HTTP.md:7: "a fragment-safe state machine ... safely handling
\* network fragmentation and Chunked Transfer Encoding".  However the stream is
\* cut, the requests handed on are the legal ones that were sent, in order,
\* with their own request line, headers and body; up to a message that is
\* ambiguous.
FragmentSafe ==
    \A i \in DOMAIN delivered :
        Clear(i) => i \in DOMAIN sent /\ Legal(sent[i]) /\ delivered[i] = Meaning(sent[i])

\* A legal request is never answered with 400, however it is cut.
LegalAccepted == result = "Invalid" /\ Clear(Len(delivered)) => ~Legal(Current)

\* parse never asks for more when the whole of a legal request is in the buffer.
WholeIsComplete ==
    result = "Incomplete" /\ Clear(Len(delivered)) /\ Legal(Current)
        => arrived < Extent(Len(delivered) + 1)

\* A legal request gets through: it is neither refused nor waited for in vain, if
\* no ambiguous message was before it.
LegalGetsThrough == LegalAccepted /\ WholeIsComplete

\* "strict memory limits": what parse waits for, and the body it assembles, are
\* bounded by the limits.
MemoryBounded ==
    /\ Len(body) <= MAX_BODY_SIZE /\ Len(request.body) <= MAX_BODY_SIZE
    /\ result = "Incomplete" => Len(Remaining) <= Max(Limits)
============================================================================
