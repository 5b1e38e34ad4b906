------------------------- MODULE HttpParserProofs -------------------------
(***************************************************************************)
(* Proofs about HttpParser and WebSocketStream for every choice of the     *)
(* limits, every set of messages and frames, every sequence of them and    *)
(* every fragmentation: first that the parser keeps within the buffer and  *)
(* the limits, then that it stays in step with a stream of legal messages  *)
(* and finds in it what their sender means, last that frames are read and  *)
(* written right on a connection that leaves HTTP.                         *)
(***************************************************************************)
EXTENDS WebSocketStream, NatLemmas, SequenceTheorems

(***************************************************************************)
(* The inductive invariant.                                                *)
(***************************************************************************)

\* The provers do not know that a literal is a member of STRING.
Token == STRING \cup {"CR", "LF", "0", "b0", "b1", "b2", "b3", "b4", "b5", "b6", "b7"}

Typed ==
    /\ sent \in Seq(AnyMessage) /\ tail \in Seq(Token)
    /\ TypeOK
    /\ body \in Seq(Token)
    /\ DOMAIN request = {"line", "headers", "body"} /\ request.body \in Seq(Token)

\* The body that has been announced fits, and so does a chunk that has come in part.
Bounded ==
    /\ MemoryBounded
    /\ bodySize <= MAX_BODY_SIZE
    /\ state = "ChunkData" =>
           /\ chunkBytesRead <= chunkSize
           /\ Len(body) + (chunkSize - chunkBytesRead) <= MAX_BODY_SIZE

IInv == Typed /\ Bounded

(***************************************************************************)
(* The byte stream.                                                        *)
(***************************************************************************)

\* A function on 1..n with values in S is a sequence over S.
LEMMA SeqOver ==
    ASSUME NEW S, NEW n \in Nat, NEW f \in [1..n -> S]
    PROVE  f \in Seq(S) /\ Len(f) = n
  BY SeqDef

\* The step of FlattenSeq.
Flat(ss, f, k) == IF k = 1 THEN ss[k] ELSE f[k - 1] \o ss[k]

\* FlattenSeq's function is defined by its steps.
LEMMA FlatExists ==
    ASSUME NEW ss
    PROVE  \A n \in Nat : \E f : f = [k \in 1..n |-> Flat(ss, f, k)]
<1> DEFINE T == {n \in Nat : ~ \E f : f = [k \in 1..n |-> Flat(ss, f, k)]}
<1>1. SUFFICES ASSUME T # {} PROVE FALSE
  OBVIOUS
<1>2. PICK n \in T : \A m \in T : n <= m
  <2>1. T \subseteq Nat
    OBVIOUS
  <2> HIDE DEF T
  <2> QED
    BY <1>1, <2>1, LeastOf
<1>3. n # 0
  <2>1. SUFFICES ASSUME n = 0 PROVE \E f : f = [k \in 1..n |-> Flat(ss, f, k)]
    OBVIOUS
  <2> DEFINE f == [k \in 1..n |-> << >>]
  <2>2. \A k \in 1..n : f[k] = Flat(ss, f, k)
    BY <2>1
  <2>3. f = [k \in 1..n |-> Flat(ss, f, k)]
    BY <2>2
  <2> QED
    BY <2>3
<1>4. PICK f : f = [k \in 1..(n - 1) |-> Flat(ss, f, k)]
  BY <1>2, <1>3
<1> DEFINE g == [k \in 1..n |-> IF k < n THEN f[k] ELSE Flat(ss, f, n)]
<1>5. ASSUME NEW k \in 1..n PROVE g[k] = Flat(ss, g, k)
  <2>1. k = 1 \/ (k - 1 \in 1..n /\ g[k - 1] = f[k - 1])
    OBVIOUS
  <2>2. g[k] = Flat(ss, f, k)
    BY <1>4
  <2> QED
    BY <2>1, <2>2 DEF Flat
<1>6. g = [k \in 1..n |-> Flat(ss, g, k)]
  BY <1>5
<1> HIDE DEF g
<1> QED
  BY <1>6

\* What FlattenSeq puts together is a sequence.
LEMMA FlattenType ==
    ASSUME NEW S, NEW ss \in Seq(Seq(S))
    PROVE  FlattenSeq(ss) \in Seq(S)
<1>1. CASE Len(ss) = 0
  <2>1. ss = << >>
    BY <1>1
  <2>2. FlattenSeq(ss) = ss
    BY <1>1 DEF FlattenSeq
  <2> QED
    BY <2>1, <2>2, EmptySeq
<1>2. CASE Len(ss) # 0
  <2> DEFINE flat == CHOOSE f : f = [k \in 1..Len(ss) |-> Flat(ss, f, k)]
             T == {k \in 1..Len(ss) : flat[k] \notin Seq(S)}
  <2>1. FlattenSeq(ss) = flat[Len(ss)]
    BY <1>2 DEF FlattenSeq, Flat
  <2>2. flat = [k \in 1..Len(ss) |-> Flat(ss, flat, k)]
    <3>1. Len(ss) \in Nat
      OBVIOUS
    <3>2. \E f : f = [k \in 1..Len(ss) |-> Flat(ss, f, k)]
      BY <3>1, FlatExists
    <3> QED
      BY <3>2
  <2> HIDE DEF flat
  <2>3. SUFFICES ASSUME T # {} PROVE FALSE
    BY <1>2, <2>1
  <2>4. PICK n \in T : \A m \in T : n <= m
    <3>1. T \subseteq Nat
      OBVIOUS
    <3> HIDE DEF T
    <3> QED
      BY <2>3, <3>1, LeastOf
  <2>5. flat[n] = Flat(ss, flat, n) /\ flat[n] \notin Seq(S) /\ n \in 1..Len(ss)
    BY <2>2
  <2>6. ss[n] \in Seq(S)
    BY <2>5, ElementOfSeq
  <2>7. n # 1
    BY <2>5, <2>6 DEF Flat
  <2>8. n - 1 \in 1..Len(ss) /\ n - 1 \notin T
    BY <2>4, <2>7
  <2>9. flat[n - 1] \in Seq(S)
    BY <2>8
  <2>10. flat[n - 1] \o ss[n] \in Seq(S)
    BY <2>6, <2>9, ConcatProperties
  <2> QED
    BY <2>5, <2>7, <2>10 DEF Flat
<1> QED
  BY <1>1, <1>2

LEMMA LineType ==
    ASSUME NEW s \in Seq(Token)
    PROVE  Line(s) \in Seq(Token)
<1>1. CRLF \in Seq(Token)
  BY DEF CRLF, Token
<1> QED
  BY <1>1, ConcatProperties DEF Line

LEMMA LinesType ==
    ASSUME NEW ss \in Seq(Seq(Token))
    PROVE  LinesOf(ss) \in Seq(Token)
<1>1. \A i \in 1..Len(ss) : Line(ss[i]) \in Seq(Token)
  BY LineType
<1>2. DOMAIN ss = 1..Len(ss) /\ Len(ss) \in Nat
  OBVIOUS
<1>3. [i \in DOMAIN ss |-> Line(ss[i])] \in Seq(Seq(Token))
  BY <1>1, <1>2, SeqOver
<1> QED
  BY <1>3, FlattenType DEF LinesOf

\* The fields of a message, over tokens.
LEMMA MessageIs ==
    ASSUME NEW m \in AnyMessage
    PROVE  /\ m.line \in Seq(Token) /\ m.body \in Seq(Token) /\ m.chunked \in BOOLEAN
           /\ m.headers \in Seq(Seq(Token)) /\ m.trailers \in Seq(Seq(Token))
           /\ m.chunks \in Seq([size : Seq(Token), data : Seq(Token)])
<1>1. Seq(STRING) \subseteq Seq(Token)
  BY SeqMonotonic DEF Token
<1>2. Seq(Seq(STRING)) \subseteq Seq(Seq(Token))
  BY <1>1, SeqMonotonic
<1>3. [size : Seq(STRING), data : Seq(STRING)] \subseteq [size : Seq(Token), data : Seq(Token)]
  BY <1>1
<1>4. Seq([size : Seq(STRING), data : Seq(STRING)]) \subseteq Seq([size : Seq(Token), data : Seq(Token)])
  BY <1>3, SeqMonotonic
<1> QED
  BY <1>1, <1>2, <1>4 DEF AnyMessage

\* A message is spelt as a sequence of tokens.
LEMMA EncodeType ==
    ASSUME NEW m \in AnyMessage
    PROVE  Encode(m) \in Seq(Token)
<1>1. /\ m.line \in Seq(Token) /\ m.body \in Seq(Token) /\ m.chunked \in BOOLEAN
      /\ m.headers \in Seq(Seq(Token)) /\ m.trailers \in Seq(Seq(Token))
      /\ m.chunks \in Seq([size : Seq(Token), data : Seq(Token)])
  BY MessageIs
<1>2. CRLF \in Seq(Token) /\ <<"0">> \in Seq(Token)
  BY DEF CRLF, Token
<1>3. Line(m.line) \o LinesOf(m.headers) \o CRLF \in Seq(Token)
  BY <1>1, <1>2, LineType, LinesType, ConcatProperties
<1> DEFINE pieces == [i \in DOMAIN m.chunks |-> Line(m.chunks[i].size) \o m.chunks[i].data \o CRLF]
<1>4. pieces \in Seq(Seq(Token))
  <2>1. ASSUME NEW i \in 1..Len(m.chunks)
        PROVE  Line(m.chunks[i].size) \o m.chunks[i].data \o CRLF \in Seq(Token)
    <3>1. m.chunks[i].size \in Seq(Token) /\ m.chunks[i].data \in Seq(Token)
      <4>1. m.chunks[i] \in [size : Seq(Token), data : Seq(Token)]
        BY <1>1, ElementOfSeq
      <4> QED
        BY <4>1
    <3> QED
      BY <1>2, <3>1, LineType, ConcatProperties
  <2>2. DOMAIN m.chunks = 1..Len(m.chunks) /\ Len(m.chunks) \in Nat
    BY <1>1
  <2> QED
    BY <2>1, <2>2, SeqOver
<1>5. FlattenSeq(pieces) \in Seq(Token)
  BY <1>4, FlattenType
<1> HIDE DEF pieces
<1>6. FlattenSeq(pieces) \o Line(<<"0">>) \o LinesOf(m.trailers) \o CRLF \in Seq(Token)
  BY <1>1, <1>2, <1>5, LineType, LinesType, ConcatProperties
<1>7. Encode(m) = Line(m.line) \o LinesOf(m.headers) \o CRLF \o
                  IF m.chunked THEN FlattenSeq(pieces) \o Line(<<"0">>) \o LinesOf(m.trailers) \o CRLF
                  ELSE m.body
  BY DEF Encode, pieces
<1>8. CASE m.chunked
  BY <1>3, <1>6, <1>7, <1>8, ConcatProperties
<1>9. CASE ~m.chunked
  BY <1>1, <1>3, <1>7, <1>9, ConcatProperties
<1> QED
  BY <1>8, <1>9

\* So is what a client sends.
LEMMA WireType ==
    ASSUME sent \in Seq(AnyMessage), tail \in Seq(Token)
    PROVE  Wire \in Seq(Token)
<1>1. \A i \in 1..Len(sent) : Encode(sent[i]) \in Seq(Token)
  BY EncodeType
<1>2. DOMAIN sent = 1..Len(sent) /\ Len(sent) \in Nat
  OBVIOUS
<1>3. [i \in DOMAIN sent |-> Encode(sent[i])] \in Seq(Seq(Token))
  BY <1>1, <1>2, SeqOver
<1>4. FlattenSeq([i \in DOMAIN sent |-> Encode(sent[i])]) \in Seq(Token)
  BY <1>3, FlattenType
<1> QED
  BY <1>4, ConcatProperties DEF Wire

(***************************************************************************)
(* What the handlers see.                                                  *)
(***************************************************************************)

LEMMA NumberNat == \A s \in DOMAIN Number : Number[s] \in Nat
  BY DEF Number

\* Every limit is a number, and the largest is at least as large as each.
LEMMA LimitsAre ==
    /\ Limits \subseteq Nat \ {0} /\ Max(Limits) \in Nat \ {0}
    /\ \A n \in Limits : n <= Max(Limits)
<1> DEFINE sum == MAX_REQUEST_LINE + MAX_HEADER_SIZE + MAX_HEADERS + MAX_BODY_SIZE + MAX_CHUNK_LINE_SIZE
<1>1. /\ MAX_REQUEST_LINE \in Nat \ {0} /\ MAX_HEADER_SIZE \in Nat \ {0} /\ MAX_HEADERS \in Nat \ {0}
      /\ MAX_BODY_SIZE \in Nat \ {0} /\ MAX_CHUNK_LINE_SIZE \in Nat \ {0}
  BY LimitsPositive DEF Limits
<1>2. sum \in Nat /\ Limits \subseteq 1..sum /\ Limits # {}
  BY <1>1 DEF Limits
<1> HIDE DEF sum
<1>3. Max(Limits) \in Limits /\ \A n \in Limits : n <= Max(Limits)
  BY <1>2, MaxOf
<1> QED
  BY <1>3, LimitsPositive

\* A stretch of a sequence is one.
LEMMA SubSeqIs ==
    ASSUME NEW S, NEW s \in Seq(S), NEW m \in Nat \ {0}, NEW n \in Nat, n <= Len(s)
    PROVE  /\ SubSeq(s, m, n) \in Seq(S)
           /\ Len(SubSeq(s, m, n)) = (IF m <= n THEN n - m + 1 ELSE 0)
<1>1. \A i \in m..n : s[i] \in S
  BY ElementOfSeq
<1> QED
  BY <1>1, SubSeqProperties

\* data holds what has arrived and is not consumed.
LEMMA RemainingIs ==
    ASSUME Typed
    PROVE  /\ Wire \in Seq(Token) /\ Len(Data) = arrived - base
           /\ Remaining \in Seq(Token) /\ Len(Remaining) = arrived - base - consumed
           /\ arrived \in Nat /\ base \in Nat /\ consumed \in Nat /\ Len(Wire) \in Nat
           /\ arrived <= Len(Wire) /\ base <= arrived /\ consumed <= arrived - base
<1>1. Wire \in Seq(Token)
  BY WireType DEF Typed
<1>2. /\ arrived \in Nat /\ base \in Nat /\ consumed \in Nat /\ Len(Wire) \in Nat
      /\ arrived <= Len(Wire) /\ base <= arrived /\ consumed <= arrived - base
  <2>1. Len(Wire) \in Nat
    BY <1>1, LenProperties
  <2> QED
    BY <2>1 DEF Typed, TypeOK
<1>3. Data \in Seq(Token) /\ Len(Data) = arrived - base
  BY <1>1, <1>2, SubSeqIs DEF Data
<1>4. Remaining \in Seq(Token) /\ Len(Remaining) = arrived - base - consumed
  <2>1. consumed + 1 \in Nat \ {0} /\ Len(Data) \in Nat
    BY <1>2, <1>3
  <2> QED
    BY <1>2, <1>3, <2>1, SubSeqIs DEF Remaining
<1> QED
  BY <1>1, <1>2, <1>3, <1>4

\* find returns a place that leaves room for the delimiter.
LEMMA FindCrlf ==
    ASSUME NEW S, NEW s \in Seq(S), Crlfs(s) # {}
    PROVE  Find(Crlfs(s)) \in Nat /\ Find(Crlfs(s)) + 2 <= Len(s)
<1>1. Crlfs(s) \subseteq Nat /\ \A i \in Crlfs(s) : 1 <= i /\ i + 1 <= Len(s)
  BY DEF Crlfs
<1>2. Min(Crlfs(s)) \in Crlfs(s)
  BY <1>1, MinOf
<1> QED
  BY <1>1, <1>2 DEF Find

LEMMA FindBlank ==
    ASSUME NEW S, NEW s \in Seq(S), Blanks(s) # {}
    PROVE  Find(Blanks(s)) \in Nat /\ Find(Blanks(s)) + 4 <= Len(s)
<1>1. /\ Crlfs(s) \subseteq Nat /\ \A i \in Crlfs(s) : 1 <= i /\ i + 1 <= Len(s)
  BY DEF Crlfs
<1>2. Blanks(s) \subseteq Nat /\ \A i \in Blanks(s) : 1 <= i /\ i + 3 <= Len(s)
  BY <1>1 DEF Blanks
<1>3. Min(Blanks(s)) \in Blanks(s)
  BY <1>2, MinOf
<1> QED
  BY <1>2, <1>3 DEF Find

(***************************************************************************)
(* The steps.                                                              *)
(***************************************************************************)

\* A request with a body that fits.
Fits(req) ==
    /\ DOMAIN req = {"line", "headers", "body"}
    /\ req.body \in Seq(Token) /\ Len(req.body) <= MAX_BODY_SIZE

\* A handler takes k bytes of what remains.
LEMMA Takes ==
    ASSUME IInv, UNCHANGED stream, NEW k \in Nat, k <= Len(Remaining), consumed' = consumed + k,
           state' \in States, result' \in Results,
           state' = "Complete" <=> result' = "Complete", state' = "Error" <=> result' = "Invalid",
           bodySize' \in Nat, bodySize' <= MAX_BODY_SIZE, chunkSize' \in Nat, chunkBytesRead' \in Nat,
           body' \in Seq(Token), Len(body') <= MAX_BODY_SIZE, Fits(request'),
           state' = "ChunkData" => /\ chunkBytesRead' <= chunkSize'
                                   /\ Len(body') + (chunkSize' - chunkBytesRead') <= MAX_BODY_SIZE,
           result' = "Incomplete" => Len(Remaining) - k <= Max(Limits)
    PROVE  IInv'
<1>1. /\ Wire \in Seq(Token) /\ Len(Remaining) = arrived - base - consumed
      /\ arrived \in Nat /\ base \in Nat /\ consumed \in Nat /\ Len(Wire) \in Nat
      /\ arrived <= Len(Wire) /\ base <= arrived /\ consumed <= arrived - base
  BY RemainingIs DEF IInv
<1>2. /\ Wire' = Wire /\ UNCHANGED <<sent, tail, arrived, base>>
  BY DEF Wire, stream
<1>3. TypeOK'
  BY <1>1, <1>2 DEF TypeOK
<1>4. Typed'
  BY <1>2, <1>3 DEF IInv, Typed, Fits
<1>5. Len(Remaining)' = arrived - base - (consumed + k)
  <2>1. (Len(Remaining) = arrived - base - consumed)'
    BY <1>4, RemainingIs, PTL
  <2> QED
    BY <1>2, <2>1
<1>6. MemoryBounded'
  BY <1>1, <1>5 DEF MemoryBounded, Fits
<1> QED
  BY <1>4, <1>6 DEF IInv, Bounded

\* parse returns with nothing changed but the state and the result.
LEMMA FailStep ==
    ASSUME IInv, Fail
    PROVE  IInv'
<1>1. Len(Remaining) \in Nat /\ consumed \in Nat
  BY RemainingIs DEF IInv
<1>2. /\ bodySize \in Nat /\ bodySize <= MAX_BODY_SIZE /\ chunkSize \in Nat /\ chunkBytesRead \in Nat
      /\ body \in Seq(Token) /\ Len(body) <= MAX_BODY_SIZE /\ Fits(request)
  BY DEF IInv, Typed, Bounded, TypeOK, MemoryBounded, Fits
<1>3. consumed' = consumed + 0 /\ state' = "Error" /\ result' = "Invalid"
      /\ UNCHANGED <<stream, bodySize, chunkSize, chunkBytesRead, body, request>>
  BY <1>1 DEF Fail, chunks
<1>4. "Error" \in States /\ "Invalid" \in Results
  BY DEF States, Results
<1> QED
  BY <1>1, <1>2, <1>3, <1>4, Takes

LEMMA IncompleteStep ==
    ASSUME IInv, result = "parsing", Incomplete, Len(Remaining) <= Max(Limits)
    PROVE  IInv'
<1>1. Len(Remaining) \in Nat /\ consumed \in Nat
  BY RemainingIs DEF IInv
<1>2. /\ bodySize \in Nat /\ bodySize <= MAX_BODY_SIZE /\ chunkSize \in Nat /\ chunkBytesRead \in Nat
      /\ body \in Seq(Token) /\ Len(body) <= MAX_BODY_SIZE /\ Fits(request)
      /\ state \in States /\ state # "Complete" /\ state # "Error"
      /\ state = "ChunkData" => /\ chunkBytesRead <= chunkSize
                                /\ Len(body) + (chunkSize - chunkBytesRead) <= MAX_BODY_SIZE
  BY DEF IInv, Typed, Bounded, TypeOK, MemoryBounded, Fits
<1>3. consumed' = consumed + 0 /\ result' = "Incomplete"
      /\ UNCHANGED <<stream, state, bodySize, chunkSize, chunkBytesRead, body, request>>
  BY <1>1 DEF Incomplete, parser, chunks
<1>4. "Incomplete" \in Results
  BY DEF Results
<1> QED
  BY <1>1, <1>2, <1>3, <1>4, Takes

LEMMA AwaitStep ==
    ASSUME IInv, result = "parsing", NEW places, NEW limit \in Limits, AwaitDelimiter(places, limit)
    PROVE  IInv'
<1>1. CASE Fail
  BY <1>1, FailStep
<1>2. CASE Incomplete /\ ~(Len(Remaining) > limit)
  <2>1. Len(Remaining) <= Max(Limits)
    BY <1>2, RemainingIs, LimitsAre DEF IInv
  <2> QED
    BY <1>2, <2>1, IncompleteStep
<1> QED
  BY <1>1, <1>2 DEF AwaitDelimiter

\* What every handler starts from.
LEMMA Before ==
    ASSUME IInv, result = "parsing"
    PROVE  /\ bodySize \in Nat /\ bodySize <= MAX_BODY_SIZE /\ chunkSize \in Nat /\ chunkBytesRead \in Nat
           /\ body \in Seq(Token) /\ Len(body) \in Nat /\ Len(body) <= MAX_BODY_SIZE /\ Fits(request)
           /\ state = "ChunkData" => /\ chunkBytesRead <= chunkSize
                                     /\ Len(body) + (chunkSize - chunkBytesRead) <= MAX_BODY_SIZE
           /\ consumed \in Nat /\ Remaining \in Seq(Token) /\ Len(Remaining) \in Nat
           /\ Len(Data) - consumed = Len(Remaining)
           /\ MAX_BODY_SIZE \in Nat \ {0}
<1>1. MAX_BODY_SIZE \in Nat \ {0}
  BY LimitsPositive DEF Limits
<1>2. /\ consumed \in Nat /\ Remaining \in Seq(Token) /\ Len(Remaining) \in Nat
      /\ Len(Data) - consumed = Len(Remaining)
  BY RemainingIs DEF IInv
<1> QED
  BY <1>1, <1>2 DEF IInv, Typed, Bounded, TypeOK, MemoryBounded, Fits

LEMMA RequestLineStep ==
    ASSUME IInv, HandleRequestLine
    PROVE  IInv'
<1> DEFINE ends == Crlfs(Remaining)
           line == SubSeq(Remaining, 1, Find(ends))
<1>1. result = "parsing" /\ state = "RequestLine"
  BY DEF HandleRequestLine, In
<1>2. CASE AwaitDelimiter(ends, MAX_REQUEST_LINE)
  BY <1>1, <1>2, AwaitStep DEF Limits
<1>3. CASE Fail
  BY <1>3, FailStep
<1>4. CASE /\ ends # {} /\ request' = [NoRequest EXCEPT !.line = line]
           /\ consumed' = consumed + Find(ends) + 2 /\ state' = "Headers"
           /\ UNCHANGED <<stream, bodySize, chunks, result>>
  <2>1. Find(ends) \in Nat /\ Find(ends) + 2 <= Len(Remaining)
    BY <1>1, <1>4, Before, FindCrlf
  <2>2. Fits(request')
    BY <1>1, <1>4, Before, EmptySeq DEF Fits, NoRequest
  <2> HIDE DEF ends
  <2>3. Find(ends) + 2 \in Nat /\ consumed' = consumed + (Find(ends) + 2)
    <3>1. consumed \in Nat
      BY <1>1, Before
    <3> QED
      BY <1>4, <2>1, <3>1
  <2>4. "Headers" \in States /\ "parsing" \in Results
    BY DEF States, Results
  <2>5. UNCHANGED <<stream, result, bodySize, chunkSize, chunkBytesRead, body>> /\ state' = "Headers"
    BY <1>4 DEF chunks
  <2> QED
    BY <1>1, <2>1, <2>2, <2>3, <2>4, <2>5, Before, Takes
<1> QED
  BY <1>2, <1>3, <1>4 DEF HandleRequestLine

LEMMA HeadersStep ==
    ASSUME IInv, HandleHeaders
    PROVE  IInv'
<1> DEFINE ends == Blanks(Remaining)
           lines == LinesIn(SubSeq(Remaining, 1, Find(ends) + 4))
           req == [request EXCEPT !.headers = @ \o lines]
<1>1. result = "parsing" /\ state = "Headers"
  BY DEF HandleHeaders, In
<1>2. CASE AwaitDelimiter(ends, MAX_HEADER_SIZE)
  BY <1>1, <1>2, AwaitStep DEF Limits
<1>3. CASE Fail
  BY <1>3, FailStep
<1>4. CASE ends # {} /\ BeginBody(req, Find(ends) + 4)
  <2>1. PICK end : end = Find(ends) + 4
    OBVIOUS
  <2>2. end \in Nat /\ end <= Len(Remaining)
    <3>1. Find(ends) \in Nat /\ Find(ends) + 4 <= Len(Remaining)
      BY <1>1, <1>4, Before, FindBlank
    <3> HIDE DEF ends
    <3> QED
      BY <2>1, <3>1
  <2>3. Fits(req) /\ Fits([req EXCEPT !.body = << >>])
    <3> HIDE DEF lines
    <3> QED
      BY <1>1, Before, EmptySeq DEF Fits
  <2>4. PICK q : q = req
    OBVIOUS
  <2>5. BeginBody(q, end) /\ Fits(q) /\ Fits([q EXCEPT !.body = << >>])
    BY <1>4, <2>1, <2>3, <2>4
  <2> HIDE DEF req, lines, ends
  <2>6. CASE Framing(q.headers) = "chunked" /\ request' = q
             /\ body' = << >> /\ chunkSize' = 0 /\ chunkBytesRead' = 0
             /\ state' = "ChunkSize" /\ UNCHANGED <<stream, bodySize, result>>
    <3>1. << >> \in Seq(Token) /\ Len(<< >>) <= MAX_BODY_SIZE
      BY <1>1, Before, EmptySeq
    <3>2. "ChunkSize" \in States /\ "parsing" \in Results
      BY DEF States, Results
    <3>3. consumed' = consumed + end
      BY <2>5 DEF BeginBody
    <3> QED
      BY <1>1, <2>2, <2>5, <2>6, <3>1, <3>2, <3>3, Before, Takes
  <2>7. CASE /\ Framing(q.headers) = "length" /\ bodySize' = Number[Header(q.headers, "Content-Length")]
             /\ request' = q /\ state' = "Body" /\ UNCHANGED <<stream, chunks, result>>
    <3>1. bodySize' \in Nat /\ bodySize' <= MAX_BODY_SIZE
      BY <2>7, NumberNat DEF Framing
    <3>2. "Body" \in States /\ "parsing" \in Results
      BY DEF States, Results
    <3>3. consumed' = consumed + end /\ UNCHANGED <<stream, result, chunkSize, chunkBytesRead, body>>
      BY <2>5, <2>7 DEF BeginBody, chunks
    <3> QED
      BY <1>1, <2>2, <2>5, <2>7, <3>1, <3>2, <3>3, Before, Takes
  <2>8. CASE bodySize' = 0 /\ Return([q EXCEPT !.body = << >>]) /\ UNCHANGED chunks
    <3>1. "Complete" \in States /\ "Complete" \in Results
      BY DEF States, Results
    <3>2. /\ consumed' = consumed + end /\ UNCHANGED <<stream, chunkSize, chunkBytesRead, body>>
          /\ state' = "Complete" /\ result' = "Complete" /\ request' = [q EXCEPT !.body = << >>]
      BY <2>5, <2>8 DEF BeginBody, chunks, Return
    <3>3. Fits(request')
      BY <2>5, <3>2
    <3>4. bodySize' \in Nat /\ bodySize' <= MAX_BODY_SIZE
      BY <1>1, <2>8, Before
    <3> QED
      BY <1>1, <2>2, <3>4, <3>1, <3>2, <3>3, Before, Takes
  <2> QED
    BY <2>5, <2>6, <2>7, <2>8 DEF BeginBody
<1> QED
  BY <1>2, <1>3, <1>4 DEF HandleHeaders

LEMMA BodyStep ==
    ASSUME IInv, HandleBody
    PROVE  IInv'
<1>1. result = "parsing" /\ state = "Body"
  BY DEF HandleBody, In
<1>2. CASE Len(Data) - consumed < bodySize /\ Incomplete
  <2>1. Len(Remaining) <= MAX_BODY_SIZE /\ MAX_BODY_SIZE \in Limits
    BY <1>1, <1>2, Before DEF Limits
  <2>2. Len(Remaining) <= Max(Limits)
    BY <1>1, <2>1, Before, LimitsAre
  <2> QED
    BY <1>1, <1>2, <2>2, IncompleteStep
<1>3. CASE /\ Len(Data) - consumed >= bodySize /\ consumed' = consumed + bodySize
           /\ Return([request EXCEPT !.body = SubSeq(Remaining, 1, bodySize)])
           /\ UNCHANGED <<bodySize, chunks>>
  <2>1. PICK b : b = SubSeq(Remaining, 1, bodySize)
    OBVIOUS
  <2>2. b \in Seq(Token) /\ Len(b) = bodySize
    BY <1>1, <1>3, <2>1, Before, SubSeqIs
  <2>3. Fits([request EXCEPT !.body = b])
    BY <1>1, <2>2, Before DEF Fits
  <2>4. /\ UNCHANGED <<stream, bodySize, chunkSize, chunkBytesRead, body>>
        /\ state' = "Complete" /\ result' = "Complete" /\ Fits(request')
    BY <1>3, <2>1, <2>3 DEF chunks, Return
  <2>5. "Complete" \in States /\ "Complete" \in Results
    BY DEF States, Results
  <2> QED
    BY <1>1, <1>3, <2>4, <2>5, Before, Takes
<1> QED
  BY <1>2, <1>3 DEF HandleBody

LEMMA ChunkSizeStep ==
    ASSUME IInv, HandleChunkSize
    PROVE  IInv'
<1> DEFINE ends == Crlfs(Remaining)
           size == Remaining[1]
<1>1. result = "parsing" /\ state = "ChunkSize"
  BY DEF HandleChunkSize, In
<1>2. CASE AwaitDelimiter(ends, MAX_CHUNK_LINE_SIZE)
  BY <1>1, <1>2, AwaitStep DEF Limits
<1>3. CASE Fail
  BY <1>3, FailStep
<1>4. CASE /\ ends # {} /\ size \in DOMAIN Number /\ FitsBody(Number[size])
           /\ chunkSize' = Number[size] /\ chunkBytesRead' = 0 /\ consumed' = consumed + Find(ends) + 2
           /\ state' = IF Number[size] = 0 THEN "ChunkTrailer" ELSE "ChunkData"
           /\ UNCHANGED <<stream, bodySize, body, request, result>>
  <2>1. Find(ends) \in Nat /\ Find(ends) + 2 <= Len(Remaining)
    BY <1>1, <1>4, Before, FindCrlf
  <2>2. /\ chunkSize' \in Nat /\ chunkBytesRead' = 0
        /\ chunkSize' <= MAX_BODY_SIZE /\ Len(body) <= MAX_BODY_SIZE - chunkSize'
    BY <1>4, NumberNat DEF FitsBody
  <2> HIDE DEF ends, size
  <2>3. Find(ends) + 2 \in Nat /\ consumed' = consumed + (Find(ends) + 2)
    <3>1. consumed \in Nat
      BY <1>1, Before
    <3> QED
      BY <1>4, <2>1, <3>1
  <2>4. state' \in States /\ state' # "Complete" /\ state' # "Error" /\ result' = "parsing" /\ "parsing" \in Results
    BY <1>1, <1>4 DEF States, Results
  <2>5. chunkBytesRead' <= chunkSize' /\ Len(body') + (chunkSize' - chunkBytesRead') <= MAX_BODY_SIZE
    BY <1>1, <1>4, <2>2, Before, SMTT(40)
  <2>6. UNCHANGED <<stream, bodySize, body, request>>
    BY <1>4
  <2> QED
    BY <1>1, <2>1, <2>2, <2>3, <2>4, <2>5, <2>6, Before, Takes
<1> QED
  BY <1>2, <1>3, <1>4 DEF HandleChunkSize

LEMMA ChunkDataStep ==
    ASSUME IInv, HandleChunkData
    PROVE  IInv'
<1> DEFINE n == Min({Len(Data) - consumed, chunkSize - chunkBytesRead})
<1>1. result = "parsing" /\ state = "ChunkData"
  BY DEF HandleChunkData, In
<1>2. /\ n \in Nat /\ n <= Len(Remaining) /\ n <= chunkSize - chunkBytesRead
      /\ n = Len(Remaining) \/ n = chunkSize - chunkBytesRead
  <2>1. Len(Data) - consumed \in Nat /\ chunkSize - chunkBytesRead \in Nat /\ Len(Data) - consumed = Len(Remaining)
    BY <1>1, Before
  <2> QED
    BY <2>1, MinPair
<1> HIDE DEF n
<1>3. /\ body' = body \o SubSeq(Remaining, 1, n) /\ consumed' = consumed + n
      /\ chunkBytesRead' = chunkBytesRead + n /\ UNCHANGED <<stream, bodySize, chunkSize, request>>
      /\ \/ chunkBytesRead + n < chunkSize /\ result' = "Incomplete" /\ state' = state
         \/ chunkBytesRead + n >= chunkSize /\ state' = "ChunkDataCrlf" /\ result' = result
  BY DEF HandleChunkData, n
<1>4. body' \in Seq(Token) /\ Len(body') = Len(body) + n
  <2>1. SubSeq(Remaining, 1, n) \in Seq(Token) /\ Len(SubSeq(Remaining, 1, n)) = n
    BY <1>1, <1>2, Before, SubSeqIs
  <2> QED
    BY <1>1, <1>3, <2>1, Before, ConcatProperties
<1>5. /\ chunkBytesRead' \in Nat /\ chunkBytesRead' <= chunkSize' /\ Len(body') <= MAX_BODY_SIZE
      /\ Len(body') + (chunkSize' - chunkBytesRead') <= MAX_BODY_SIZE
  <2>1. /\ chunkSize \in Nat /\ chunkBytesRead \in Nat /\ Len(body) \in Nat /\ MAX_BODY_SIZE \in Nat
        /\ Len(body) + (chunkSize - chunkBytesRead) <= MAX_BODY_SIZE
    BY <1>1, Before
  <2>2. chunkBytesRead' = chunkBytesRead + n /\ chunkSize' = chunkSize
    BY <1>3
  <2> QED
    BY <1>2, <1>4, <2>1, <2>2
<1>6. result' = "Incomplete" => Len(Remaining) - n <= Max(Limits)
  <2>1. result' = "Incomplete" => n # chunkSize - chunkBytesRead
    BY <1>1, <1>2, <1>3, Before, SMTT(40)
  <2> QED
    BY <1>1, <1>2, <2>1, Before, LimitsAre
<1>7. /\ state' \in States /\ result' \in Results /\ state' # "Complete" /\ result' # "Complete"
      /\ state' # "Error" /\ result' # "Invalid"
  BY <1>1, <1>3 DEF States, Results
<1> QED
  BY <1>1, <1>2, <1>3, <1>4, <1>5, <1>6, <1>7, Before, Takes

LEMMA ChunkDataCrlfStep ==
    ASSUME IInv, HandleChunkDataCrlf
    PROVE  IInv'
<1>1. result = "parsing" /\ state = "ChunkDataCrlf"
  BY DEF HandleChunkDataCrlf, In
<1>2. CASE Len(Remaining) < 2 /\ Incomplete
  <2>1. Len(Remaining) <= Max(Limits)
    BY <1>1, <1>2, Before, LimitsAre
  <2> QED
    BY <1>1, <1>2, <2>1, IncompleteStep
<1>3. CASE Fail
  BY <1>3, FailStep
<1>4. CASE /\ 1 \in Crlfs(Remaining) /\ consumed' = consumed + 2 /\ state' = "ChunkSize"
           /\ UNCHANGED <<stream, bodySize, chunks, request, result>>
  <2>1. 2 <= Len(Remaining)
    BY <1>1, <1>4, Before DEF Crlfs
  <2>2. "ChunkSize" \in States /\ "parsing" \in Results
    BY DEF States, Results
  <2>3. UNCHANGED <<stream, bodySize, chunkSize, chunkBytesRead, body, request, result>>
    BY <1>4 DEF chunks
  <2> QED
    BY <1>1, <1>4, <2>1, <2>2, <2>3, Before, Takes
<1> QED
  BY <1>2, <1>3, <1>4 DEF HandleChunkDataCrlf

LEMMA ReturnChunkedStep ==
    ASSUME IInv, result = "parsing", NEW end \in Nat, end <= Len(Remaining), ReturnChunked(end)
    PROVE  IInv'
<1>1. /\ consumed' = consumed + end /\ body' = << >> /\ UNCHANGED <<stream, bodySize, chunkSize, chunkBytesRead>>
      /\ state' = "Complete" /\ result' = "Complete" /\ request' = [request EXCEPT !.body = body]
  BY DEF ReturnChunked, Return
<1>2. Fits(request')
  BY <1>1, Before DEF Fits
<1>3. << >> \in Seq(Token) /\ Len(<< >>) <= MAX_BODY_SIZE
  BY Before, EmptySeq
<1>4. "Complete" \in States /\ "Complete" \in Results
  BY DEF States, Results
<1> QED
  BY <1>1, <1>2, <1>3, <1>4, Before, Takes

LEMMA ChunkTrailerStep ==
    ASSUME IInv, HandleChunkTrailer
    PROVE  IInv'
<1> DEFINE ends == Blanks(Remaining)
<1>1. result = "parsing"
  BY DEF HandleChunkTrailer, In
<1>2. CASE 1 \in Crlfs(Remaining) /\ ReturnChunked(2)
  <2>1. 2 <= Len(Remaining)
    BY <1>1, <1>2, Before DEF Crlfs
  <2> QED
    BY <1>1, <1>2, <2>1, ReturnChunkedStep
<1>3. CASE AwaitDelimiter(ends, MAX_HEADER_SIZE)
  BY <1>1, <1>3, AwaitStep DEF Limits
<1>4. CASE Fail
  BY <1>4, FailStep
<1>5. CASE ends # {} /\ ReturnChunked(Find(ends) + 4)
  <2>1. Find(ends) \in Nat /\ Find(ends) + 4 <= Len(Remaining)
    BY <1>1, <1>5, Before, FindBlank
  <2> HIDE DEF ends
  <2>2. Find(ends) + 4 \in Nat
    BY <2>1
  <2> QED
    BY <1>1, <1>5, <2>1, <2>2, ReturnChunkedStep
<1> QED
  BY <1>2, <1>3, <1>4, <1>5 DEF HandleChunkTrailer

\* A read makes the buffer longer.
LEMMA ReceiveStep ==
    ASSUME IInv, NEW n \in Nat, Receive(n)
    PROVE  IInv'
<1>1. /\ result \in {"none", "Incomplete"} /\ arrived + n <= Len(Wire) /\ arrived' = arrived + n
      /\ result' = "parsing" /\ request' = (IF FreshRequest THEN NoRequest ELSE request)
      /\ UNCHANGED <<sent, tail, base, state, consumed, bodySize, chunkSize, chunkBytesRead, body>>
  BY DEF Receive, parser, chunks
<1>2. Wire' = Wire
  BY <1>1 DEF Wire
<1>3. /\ arrived \in Nat /\ base \in Nat /\ consumed \in Nat /\ Len(Wire) \in Nat
      /\ base <= arrived /\ consumed <= arrived - base
  BY RemainingIs DEF IInv
<1>4. Fits(request) /\ Fits(NoRequest)
  <2>1. MAX_BODY_SIZE \in Nat \ {0}
    BY LimitsPositive DEF Limits
  <2>2. Fits(NoRequest)
    BY <2>1, EmptySeq DEF Fits, NoRequest
  <2> QED
    BY <2>2 DEF IInv, Typed, Bounded, MemoryBounded, Fits
<1>5. Fits(request')
  BY <1>1, <1>4
<1>6. TypeOK'
  BY <1>1, <1>2, <1>3 DEF IInv, Typed, TypeOK, Results
<1> QED
  BY <1>1, <1>5, <1>6 DEF IInv, Typed, Bounded, MemoryBounded, Fits

\* consume and reset leave the parser at the first byte of the next request.
LEMMA DeliverStep ==
    ASSUME IInv, Deliver
    PROVE  IInv'
<1>1. Wire' = Wire
  BY DEF Deliver, Wire
<1>2. /\ arrived \in Nat /\ base \in Nat /\ consumed \in Nat /\ Len(Wire) \in Nat
      /\ arrived <= Len(Wire) /\ base <= arrived /\ consumed <= arrived - base
  BY RemainingIs DEF IInv
<1>3. TypeOK'
  BY <1>1, <1>2 DEF Deliver, IInv, Typed, TypeOK, States, Results
<1>4. MAX_BODY_SIZE \in Nat \ {0} /\ << >> \in Seq(Token) /\ Len(<< >>) = 0
  BY LimitsPositive, EmptySeq DEF Limits
<1> QED
  BY <1>3, <1>4 DEF Deliver, IInv, Typed, Bounded, MemoryBounded

\* A connection begins within the limits.
LEMMA InvStart ==
    ASSUME ParserInit, sent \in Seq(AnyMessage), tail \in Seq(Token)
    PROVE  IInv
<1>1. Len(Wire) \in Nat
  BY WireType, LenProperties
<1>2. TypeOK
  BY <1>1 DEF ParserInit, TypeOK, States, Results
<1>3. MAX_BODY_SIZE \in Nat \ {0} /\ << >> \in Seq(Token) /\ Len(<< >>) = 0
  BY LimitsPositive, EmptySeq DEF Limits
<1>4. body = << >> /\ request = NoRequest /\ bodySize = 0 /\ state = "RequestLine" /\ result = "none"
  BY DEF ParserInit
<1> QED
  BY <1>2, <1>3, <1>4 DEF IInv, Typed, Bounded, MemoryBounded, NoRequest

\* A stream of HTTP messages and nothing else.
PlainStream == sent \in Seq(Messages) /\ tail = << >>

\* The stream of Init is one.
LEMMA InitIs ==
    ASSUME Init
    PROVE  PlainStream /\ ParserInit /\ sent \in Seq(AnyMessage) /\ tail \in Seq(Token)
<1>1. PICK n \in 1..MaxMessages : sent \in [1..n -> Messages]
  BY DEF Init
<1>2. n \in Nat
  BY MaxMessagesNat
<1>3. sent \in Seq(Messages)
  BY <1>1, <1>2, SeqOver
<1>4. sent \in Seq(AnyMessage)
  BY <1>3, MessagesSpelt, SeqMonotonic
<1> QED
  BY <1>3, <1>4, EmptySeq DEF Init, PlainStream

\* parse does not touch the stream.
LEMMA ParseIs ==
    ASSUME Parse
    PROVE  UNCHANGED stream /\ result = "parsing"
  BY DEF Parse, In, HandleRequestLine, HandleHeaders, HandleBody, HandleChunkSize, HandleChunkData,
         HandleChunkDataCrlf, HandleChunkTrailer, AwaitDelimiter, Fail, Incomplete, BeginBody,
         Return, ReturnChunked

\* What is on the wire stays.
LEMMA StaysPlain == Spec => []PlainStream
<1>1. PlainStream /\ [Next]_vars => PlainStream'
  <2> SUFFICES ASSUME PlainStream, [Next]_vars PROVE PlainStream'
    OBVIOUS
  <2>1. CASE Parse
    BY <2>1, ParseIs DEF stream, PlainStream
  <2> QED
    BY <2>1 DEF Next, Receive, Deliver, Finished, vars, stream, PlainStream
<1>2. Init => PlainStream
  BY InitIs
<1> QED
  BY <1>1, <1>2, PTL DEF Spec

\* parse keeps within the buffer and the limits.
LEMMA ParseStep ==
    ASSUME IInv, Parse
    PROVE  IInv'
  BY RequestLineStep, HeadersStep, BodyStep, ChunkSizeStep, ChunkDataStep, ChunkDataCrlfStep,
     ChunkTrailerStep DEF Parse

\* A step of somebody else.
LEMMA InvSame ==
    ASSUME IInv, UNCHANGED vars
    PROVE  IInv'
<1>1. /\ UNCHANGED <<sent, tail, arrived, base, state, consumed, bodySize, chunkSize, chunkBytesRead, body>>
      /\ UNCHANGED <<request, result>>
  BY DEF vars, stream, parser, chunks
<1>2. Wire' = Wire /\ Remaining' = Remaining
  BY <1>1 DEF Wire, Remaining, Data
<1> QED
  BY <1>1, <1>2 DEF IInv, Typed, TypeOK, Bounded, MemoryBounded

(***************************************************************************)
(* The theorems.                                                           *)
(***************************************************************************)

\* The inductive invariant holds of every behaviour of the parser.
THEOREM Invariance == Spec => []IInv
<1>1. IInv /\ [Next]_vars => IInv'
  <2> SUFFICES ASSUME IInv, [Next]_vars PROVE IInv'
    OBVIOUS
  <2>1. ASSUME NEW n \in 1..Len(Wire), Receive(n) PROVE IInv'
    <3>1. n \in Nat
      BY RemainingIs DEF IInv
    <3> QED
      BY <2>1, <3>1, ReceiveStep
  <2>2. CASE Parse
    BY <2>2, ParseStep
  <2>3. CASE Deliver
    BY <2>3, DeliverStep
  <2> QED
    BY <2>1, <2>2, <2>3, InvSame DEF Next, Finished
<1>2. Init => IInv
  BY InitIs, InvStart
<1> QED
  BY <1>1, <1>2, PTL DEF Spec

\* HttpParser::parse: however the stream is cut, consumed_ never passes the end of
\* the buffer that the caller hands over, consumes and hands over again, and the
\* state after a return is the one the result speaks of.
THEOREM TypeCorrect == Spec => []TypeOK
<1>1. IInv => TypeOK
  BY DEF IInv, Typed
<1> QED
  BY <1>1, Invariance, PTL

\* HttpParser's limits, whatever they are set to, bound what parse waits for and
\* the body it assembles, from one Content-Length or from any number of chunks.
THEOREM MemoryBoundedHolds == Spec => []MemoryBounded
<1>1. IInv => MemoryBounded
  BY DEF IInv, Bounded
<1> QED
  BY <1>1, Invariance, PTL

(***************************************************************************)
(* Where the parser is in the stream.                                      *)
(***************************************************************************)

\* t is in s, from the byte after the p-th.
At(s, p, t) == p + Len(t) <= Len(s) /\ \A i \in 1..Len(t) : s[p + i] = t[i]

\* The bytes the first k parts take.
Reach(parts, k) == Len(FlattenSeq([i \in 1..k |-> parts[i]]))

Parts == [i \in DOMAIN sent |-> Encode(sent[i])]
Pieces(m) == [i \in DOMAIN m.chunks |-> Line(m.chunks[i].size) \o m.chunks[i].data \o CRLF]
Contents(m) == [i \in DOMAIN m.chunks |-> m.chunks[i].data]

\* Where in a message the request line, the headers, j chunks and the last
\* size line end.
LineEnd(m) == Len(m.line) + 2
BlockEnd(m) == LineEnd(m) + Len(LinesOf(m.headers)) + 2
ChunkEnd(m, j) == BlockEnd(m) + Reach(Pieces(m), j)
LastEnd(m) == ChunkEnd(m, Len(m.chunks)) + 3

\* What the first j chunks bring.
Brought(m, j) == FlattenSeq([i \in 1..j |-> Contents(m)[i]])

\* The parser is where its state says in message m, and has what came before.
ChunkProgress(m) ==
    /\ state \in {"ChunkSize", "ChunkData", "ChunkDataCrlf", "ChunkTrailer"} => m.chunked
    /\ state = "ChunkSize" =>
           \E j \in 0..Len(m.chunks) : consumed = ChunkEnd(m, j) /\ body = Brought(m, j)
    /\ state = "ChunkData" =>
           \E j \in 1..Len(m.chunks) :
               /\ chunkSize = Len(m.chunks[j].data) /\ chunkBytesRead <= chunkSize
               /\ consumed = ChunkEnd(m, j - 1) + Len(m.chunks[j].size) + 2 + chunkBytesRead
               /\ body = Brought(m, j - 1) \o SubSeq(m.chunks[j].data, 1, chunkBytesRead)
    /\ state = "ChunkDataCrlf" =>
           \E j \in 1..Len(m.chunks) : consumed + 2 = ChunkEnd(m, j) /\ body = Brought(m, j)
    /\ state = "ChunkTrailer" => consumed = LastEnd(m) /\ body = Brought(m, Len(m.chunks))

Progress(m) ==
    /\ state = "RequestLine" => consumed = 0
    /\ state = "Headers" => consumed = LineEnd(m) /\ request.headers = << >>
    /\ state = "Body" => consumed = BlockEnd(m) /\ ~m.chunked /\ bodySize = Len(m.body)
    /\ ChunkProgress(m)
    /\ state = "Complete" => consumed = Len(Encode(m)) /\ request.body = Meaning(m).body
    /\ state # "Error"
    /\ result = "Incomplete" => arrived < base + Len(Encode(m))

\* One HttpRequest for all calls keeps what earlier calls stored.
Kept(m) ==
    /\ state = "Headers" => request = [NoRequest EXCEPT !.line = m.line]
    /\ state \in {"Body", "ChunkSize", "ChunkData", "ChunkDataCrlf", "ChunkTrailer"} =>
           request.line = m.line /\ request.headers = m.headers
    /\ state = "Complete" => request = Meaning(m)

LegalBefore(k) == \A i \in 1..k : i \in DOMAIN sent /\ Legal(sent[i])

\* As long as the messages delivered are legal, the parser is in step with the
\* stream, and in a legal message it is where it should be.
InStep ==
    /\ delivered \in Seq(Range(delivered))
    /\ LegalBefore(Len(delivered)) =>
           /\ base = Extent(Len(delivered))
           /\ ~FreshRequest => \A i \in DOMAIN delivered : delivered[i] = Meaning(sent[i])
           /\ result # "none" => Len(delivered) + 1 \in DOMAIN sent
           /\ result = "none" => state = "RequestLine" /\ consumed = 0
           /\ result # "none" /\ Legal(Current) => Progress(Current) /\ (~FreshRequest => Kept(Current))

(***************************************************************************)
(* Where the parts of a flattened sequence are.                            *)
(***************************************************************************)

\* The two parts of what is at a place are there too.
LEMMA AtParts ==
    ASSUME NEW S, NEW s \in Seq(S), NEW a \in Seq(S), NEW b \in Seq(S), NEW p \in Nat, At(s, p, a \o b)
    PROVE  At(s, p, a) /\ At(s, p + Len(a), b)
<1>1. /\ Len(a) \in Nat /\ Len(b) \in Nat /\ Len(a \o b) = Len(a) + Len(b)
      /\ \A i \in 1..Len(a) : (a \o b)[i] = a[i]
      /\ \A i \in 1..Len(b) : (a \o b)[Len(a) + i] = b[i]
  BY ConcatProperties, LenProperties
<1>2. Len(s) \in Nat /\ p + (Len(a) + Len(b)) <= Len(s)
  BY <1>1, LenProperties DEF At
<1>3. \A i \in 1..(Len(a) + Len(b)) : s[p + i] = (a \o b)[i]
  BY <1>1 DEF At
<1>4. ASSUME NEW i \in 1..Len(a) PROVE s[p + i] = a[i]
  <2>1. i \in 1..(Len(a) + Len(b))
    BY <1>1
  <2> QED
    BY <1>1, <1>3, <2>1
<1>5. ASSUME NEW i \in 1..Len(b) PROVE s[p + Len(a) + i] = b[i]
  <2>1. Len(a) + i \in 1..(Len(a) + Len(b)) /\ p + (Len(a) + i) = p + Len(a) + i
    BY <1>1
  <2> QED
    BY <1>1, <1>3, <2>1
<1> QED
  BY <1>1, <1>2, <1>4, <1>5 DEF At

\* What is in a part is in the whole.
LEMMA AtWithin ==
    ASSUME NEW S, NEW s \in Seq(S), NEW t \in Seq(S), NEW u \in Seq(S), NEW p \in Nat, NEW q \in Nat,
           At(s, p, t), At(t, q, u)
    PROVE  At(s, p + q, u)
<1>1. Len(s) \in Nat /\ Len(t) \in Nat /\ Len(u) \in Nat /\ p + Len(t) <= Len(s) /\ q + Len(u) <= Len(t)
  BY LenProperties DEF At
<1>2. ASSUME NEW i \in 1..Len(u) PROVE s[p + q + i] = u[i]
  <2>1. q + i \in 1..Len(t) /\ p + (q + i) = p + q + i
    BY <1>1
  <2> QED
    BY <2>1 DEF At
<1> QED
  BY <1>1, <1>2 DEF At

\* A concatenation has its two parts one after the other.
LEMMA AtConcat ==
    ASSUME NEW S, NEW a \in Seq(S), NEW b \in Seq(S)
    PROVE  At(a \o b, 0, a) /\ At(a \o b, Len(a), b)
<1>1. a \o b \in Seq(S)
  BY ConcatProperties
<1>2. At(a \o b, 0, a \o b)
  BY <1>1, LenProperties DEF At
<1>3. 0 + Len(a) = Len(a)
  BY LenProperties
<1> QED
  BY <1>1, <1>2, <1>3, AtParts

\* f flattens the first n parts of ss.
Flattens(f, ss, n) == \A k \in 1..n : f[k] = Flat(ss, f, k)

\* The first n parts are the same.
Agree(ss, tt, n) == \A k \in 1..n : ss[k] = tt[k]

\* The functions behind two flattenings that begin alike are alike there.
LEMMA FlatSame ==
    ASSUME NEW n \in Nat, NEW m \in Nat, n <= m, NEW ss, NEW tt, Agree(ss, tt, n),
           NEW f, Flattens(f, ss, n), NEW g, Flattens(g, tt, m)
    PROVE  Agree(f, g, n)
<1> DEFINE T == {k \in 1..n : f[k] # g[k]}
<1>1. SUFFICES ASSUME T # {} PROVE FALSE
  BY DEF Agree
<1>2. PICK k \in T : \A j \in T : k <= j
  <2>1. T \subseteq Nat
    OBVIOUS
  <2> HIDE DEF T
  <2> QED
    BY <1>1, <2>1, LeastOf
<1>3. k \in 1..n /\ k \in 1..m /\ f[k] # g[k]
  OBVIOUS
<1>6. f[k] = Flat(ss, f, k) /\ g[k] = Flat(tt, g, k) /\ ss[k] = tt[k]
  BY <1>3 DEF Flattens, Agree
<1>4. CASE k = 1
  BY <1>3, <1>4, <1>6 DEF Flat
<1>5. CASE k # 1
  <2>1. k - 1 \in 1..n /\ k - 1 \notin T
    BY <1>2, <1>5
  <2> QED
    BY <1>3, <1>5, <1>6, <2>1 DEF Flat
<1> QED
  BY <1>4, <1>5

\* FlattenSeq is its last step.
LEMMA FlattenDef ==
    ASSUME NEW ss, Len(ss) \in Nat \ {0}
    PROVE  \E f : Flattens(f, ss, Len(ss)) /\ FlattenSeq(ss) = f[Len(ss)]
<1> DEFINE flat == CHOOSE f : f = [k \in 1..Len(ss) |-> Flat(ss, f, k)]
<1>1. FlattenSeq(ss) = flat[Len(ss)]
  BY DEF FlattenSeq, Flat
<1>2. flat = [k \in 1..Len(ss) |-> Flat(ss, flat, k)]
  <2>1. \E f : f = [k \in 1..Len(ss) |-> Flat(ss, f, k)]
    BY FlatExists
  <2> QED
    BY <2>1
<1>3. \A k \in 1..Len(ss) : [i \in 1..Len(ss) |-> Flat(ss, flat, i)][k] = Flat(ss, flat, k)
  OBVIOUS
<1> HIDE DEF flat
<1>4. \A k \in 1..Len(ss) : flat[k] = Flat(ss, flat, k)
  BY <1>2, <1>3, Zenon
<1> QED
  BY <1>1, <1>4 DEF Flattens

\* The first k parts.
First(ss, k) == [i \in 1..k |-> ss[i]]

\* The first k parts are k.
LEMMA FirstIs ==
    ASSUME NEW S, NEW ss \in Seq(S), NEW k \in 0..Len(ss)
    PROVE  First(ss, k) \in Seq(S) /\ Len(First(ss, k)) = k /\ \A i \in 1..k : First(ss, k)[i] = ss[i]
<1>1. k \in Nat /\ \A i \in 1..k : ss[i] \in S
  BY ElementOfSeq, LenProperties
<1>2. First(ss, k) \in [1..k -> S]
  BY <1>1 DEF First
<1>3. First(ss, k) \in Seq(S) /\ Len(First(ss, k)) = k
  BY <1>1, <1>2, SeqOver
<1> QED
  BY <1>3 DEF First

\* All of it.
LEMMA FirstAll ==
    ASSUME NEW S, NEW ss \in Seq(S)
    PROVE  First(ss, Len(ss)) = ss
<1>1. ss = [i \in 1..Len(ss) |-> ss[i]]
  BY LenProperties
<1> QED
  BY <1>1 DEF First

\* FlattenSeq appends one part after the other.
LEMMA FlattenStep ==
    ASSUME NEW S, NEW ss \in Seq(Seq(S)), NEW k \in 0..(Len(ss) - 1)
    PROVE  FlattenSeq(First(ss, k + 1)) = FlattenSeq(First(ss, k)) \o ss[k + 1]
<1>1. Len(ss) \in Nat /\ k \in Nat /\ k + 1 \in 1..Len(ss) /\ k + 1 \in 0..Len(ss) /\ k \in 0..Len(ss)
  BY LenProperties
<1>2. ss[k + 1] \in Seq(S)
  BY <1>1, ElementOfSeq
<1>3. /\ Len(First(ss, k + 1)) = k + 1 /\ \A i \in 1..(k + 1) : First(ss, k + 1)[i] = ss[i]
  BY <1>1, FirstIs
<1>4. /\ First(ss, k) \in Seq(Seq(S)) /\ Len(First(ss, k)) = k /\ \A i \in 1..k : First(ss, k)[i] = ss[i]
  BY <1>1, FirstIs
<1> DEFINE A == First(ss, k + 1)
           B == First(ss, k)
<1>5. PICK g : Flattens(g, A, Len(A)) /\ FlattenSeq(A) = g[Len(A)]
  <2>1. Len(A) \in Nat \ {0}
    BY <1>1, <1>3
  <2> HIDE DEF A
  <2> QED
    BY <2>1, FlattenDef
<1>6. CASE k = 0
  <2>1. FlattenSeq(B) = << >>
    <3>1. B = << >>
      BY <1>4, <1>6, EmptySeq
    <3> QED
      BY <1>4, <1>6, <3>1 DEF FlattenSeq
  <2>2. FlattenSeq(A) = ss[1]
    <3>1. g[1] = A[1]
      BY <1>3, <1>5, <1>6 DEF Flat, Flattens
    <3>2. Len(A) = 1 /\ A[1] = ss[1]
      BY <1>3, <1>6
    <3> HIDE DEF A
    <3> QED
      BY <1>5, <3>1, <3>2
  <2>3. << >> \o ss[1] = ss[1]
    BY <1>2, <1>6, ConcatEmptySeq
  <2> QED
    BY <1>6, <2>1, <2>2, <2>3
<1>7. CASE k # 0
  <2>1. PICK f : Flattens(f, B, Len(B)) /\ FlattenSeq(B) = f[Len(B)]
    <3>1. Len(B) \in Nat \ {0}
      BY <1>1, <1>4, <1>7
    <3> HIDE DEF B
    <3> QED
      BY <3>1, FlattenDef
  <2>2. Flattens(f, B, k) /\ FlattenSeq(B) = f[k]
    BY <1>4, <2>1
  <2>3. Flattens(g, A, k + 1) /\ FlattenSeq(A) = g[k + 1]
    BY <1>3, <1>5
  <2>4. Agree(B, A, k)
    <3> SUFFICES ASSUME NEW i \in 1..k PROVE B[i] = A[i]
      BY DEF Agree
    <3>1. i \in 1..(k + 1)
      BY <1>1
    <3>2. A[i] = ss[i] /\ B[i] = ss[i]
      BY <1>3, <1>4, <3>1
    <3> QED
      BY <3>2
  <2> HIDE DEF A, B
  <2>5. Agree(f, g, k)
    <3>1. k + 1 \in Nat /\ k <= k + 1
      BY <1>1
    <3> QED
      BY <1>1, <2>2, <2>3, <2>4, <3>1, FlatSame
  <2>6. g[k + 1] = g[k] \o A[k + 1]
    <3>1. k + 1 \in 1..(k + 1)
      BY <1>1
    <3>2. g[k + 1] = Flat(A, g, k + 1)
      BY <2>3, <3>1 DEF Flattens
    <3>3. k + 1 # 1 /\ (k + 1) - 1 = k
      BY <1>1, <1>7
    <3> QED
      BY <3>2, <3>3 DEF Flat
  <2>7. A[k + 1] = ss[k + 1]
    BY <1>1, <1>3 DEF A
  <2>8. FlattenSeq(A) = FlattenSeq(B) \o ss[k + 1]
    <3>1. k \in 1..k
      BY <1>1, <1>7
    <3>2. f[k] = g[k]
      BY <2>5, <3>1 DEF Agree
    <3> QED
      BY <2>2, <2>3, <2>6, <2>7, <3>2, Zenon
  <2> QED
    BY <2>8 DEF A, B
<1> QED
  BY <1>6, <1>7

\* Reach counts the parts up.
LEMMA ReachIs ==
    ASSUME NEW S, NEW ss \in Seq(Seq(S))
    PROVE  /\ Reach(ss, 0) = 0 /\ Reach(ss, Len(ss)) = Len(FlattenSeq(ss))
           /\ \A k \in 0..Len(ss) : Reach(ss, k) \in Nat /\ FlattenSeq(First(ss, k)) \in Seq(S)
           /\ \A k \in 0..(Len(ss) - 1) : Reach(ss, k + 1) = Reach(ss, k) + Len(ss[k + 1])
<1>1. \A k : Reach(ss, k) = Len(FlattenSeq(First(ss, k)))
  BY DEF Reach, First
<1>2. ASSUME NEW k \in 0..Len(ss) PROVE FlattenSeq(First(ss, k)) \in Seq(S) /\ Reach(ss, k) \in Nat
  BY <1>1, FirstIs, FlattenType, LenProperties
<1>3. Reach(ss, 0) = 0
  <2>1. Len(ss) \in Nat /\ 0 \in 0..Len(ss)
    BY LenProperties
  <2>2. First(ss, 0) \in Seq(Seq(S)) /\ Len(First(ss, 0)) = 0
    BY <2>1, FirstIs
  <2>3. FlattenSeq(First(ss, 0)) = First(ss, 0)
    BY <2>2 DEF FlattenSeq
  <2> QED
    BY <1>1, <2>2, <2>3
<1>4. Reach(ss, Len(ss)) = Len(FlattenSeq(ss))
  BY <1>1, FirstAll
<1>5. ASSUME NEW k \in 0..(Len(ss) - 1) PROVE Reach(ss, k + 1) = Reach(ss, k) + Len(ss[k + 1])
  <2>1. Len(ss) \in Nat /\ k + 1 \in 1..Len(ss) /\ k \in 0..Len(ss)
    BY LenProperties
  <2>2. ss[k + 1] \in Seq(S)
    BY <2>1, ElementOfSeq
  <2>3. FlattenSeq(First(ss, k + 1)) = FlattenSeq(First(ss, k)) \o ss[k + 1]
    BY FlattenStep
  <2> QED
    BY <1>1, <1>2, <2>1, <2>2, <2>3, ConcatProperties
<1> QED
  BY <1>2, <1>3, <1>4, <1>5

\* The parts follow one another.
LEMMA ReachUp ==
    ASSUME NEW S, NEW ss \in Seq(Seq(S)), NEW j \in 0..Len(ss), NEW k \in j..Len(ss)
    PROVE  Reach(ss, j) <= Reach(ss, k)
<1> DEFINE T == {n \in j..Len(ss) : ~(Reach(ss, j) <= Reach(ss, n))}
<1>0. Len(ss) \in Nat /\ \A n \in 0..Len(ss) : Reach(ss, n) \in Nat
  BY ReachIs, LenProperties
<1>1. SUFFICES ASSUME T # {} PROVE FALSE
  OBVIOUS
<1>2. PICK n \in T : \A i \in T : n <= i
  <2>1. T \subseteq Nat
    BY <1>0
  <2> HIDE DEF T
  <2> QED
    BY <1>1, <2>1, LeastOf
<1>3. n \in j..Len(ss) /\ n # j
  BY <1>0
<1>4. n - 1 \in j..Len(ss) /\ n - 1 \notin T /\ n - 1 \in 0..(Len(ss) - 1)
  BY <1>0, <1>2, <1>3
<1>5. Reach(ss, n) = Reach(ss, n - 1) + Len(ss[n])
  <2>1. \A i \in 0..(Len(ss) - 1) : Reach(ss, i + 1) = Reach(ss, i) + Len(ss[i + 1])
    BY ReachIs
  <2>2. (n - 1) + 1 = n
    BY <1>0, <1>3
  <2> QED
    BY <1>4, <2>1, <2>2
<1>6. Len(ss[n]) \in Nat
  BY <1>0, <1>3, ElementOfSeq, LenProperties
<1>7. Reach(ss, j) \in Nat /\ Reach(ss, n - 1) \in Nat /\ Reach(ss, j) <= Reach(ss, n - 1) /\ ~(Reach(ss, j) <= Reach(ss, n))
  BY <1>0, <1>2, <1>4
<1> QED
  BY <1>5, <1>6, <1>7

\* A part stays where it is when more follow: by the least number of parts for which
\* it does not.
LEMMA FlattenAtFirst ==
    ASSUME NEW S, NEW ss \in Seq(Seq(S)), NEW k \in 0..(Len(ss) - 1), NEW m \in (k + 1)..Len(ss)
    PROVE  At(FlattenSeq(First(ss, m)), Reach(ss, k), ss[k + 1])
<1> DEFINE G(n) == At(FlattenSeq(First(ss, n)), Reach(ss, k), ss[k + 1])
           T == {n \in (k + 1)..Len(ss) : ~G(n)}
<1>0. /\ Len(ss) \in Nat /\ \A n \in 0..Len(ss) : Reach(ss, n) \in Nat /\ FlattenSeq(First(ss, n)) \in Seq(S)
      /\ ss[k + 1] \in Seq(S) /\ Reach(ss, k) \in Nat
  BY ReachIs, LenProperties, ElementOfSeq
<1>1. SUFFICES ASSUME T # {} PROVE FALSE
  OBVIOUS
<1>2. PICK n \in T : \A i \in T : n <= i
  <2>1. T \subseteq Nat
    BY <1>0
  <2> HIDE DEF T
  <2> QED
    BY <1>1, <2>1, LeastOf
<1>3. n \in (k + 1)..Len(ss) /\ ~G(n)
  OBVIOUS
<1>4. n - 1 \in 0..(Len(ss) - 1) /\ n - 1 \in 0..Len(ss) /\ (n - 1) + 1 = n /\ n \in 1..Len(ss)
  BY <1>0, <1>3
<1>5. ss[n] \in Seq(S)
  BY <1>4, ElementOfSeq
<1>6. FlattenSeq(First(ss, n)) = FlattenSeq(First(ss, n - 1)) \o ss[n]
  <2>1. FlattenSeq(First(ss, (n - 1) + 1)) = FlattenSeq(First(ss, n - 1)) \o ss[(n - 1) + 1]
    BY <1>4, FlattenStep
  <2> QED
    BY <1>4, <2>1
<1>7. FlattenSeq(First(ss, n)) \in Seq(S) /\ FlattenSeq(First(ss, n - 1)) \in Seq(S)
  BY <1>0, <1>4
<1>8. CASE n = k + 1
  <2>1. Reach(ss, k) = Len(FlattenSeq(First(ss, n - 1)))
    BY <1>8 DEF Reach, First
  <2>2. At(FlattenSeq(First(ss, n)), Len(FlattenSeq(First(ss, n - 1))), ss[n])
    BY <1>5, <1>6, <1>7, AtConcat
  <2> QED
    BY <1>3, <1>8, <2>1, <2>2
<1>9. CASE n # k + 1
  <2>1. n - 1 \in (k + 1)..Len(ss) /\ n \in Nat
    BY <1>0, <1>3, <1>9
  <2>2. G(n - 1)
    <3>1. n - 1 \notin T
      <4> HIDE DEF T
      <4> QED
        BY <1>2, <2>1
    <3> HIDE DEF G
    <3> QED
      BY <2>1, <3>1
  <2>3. At(FlattenSeq(First(ss, n)), 0, FlattenSeq(First(ss, n - 1)))
    BY <1>5, <1>6, <1>7, AtConcat
  <2>4. At(FlattenSeq(First(ss, n)), 0 + Reach(ss, k), ss[k + 1])
    BY <1>0, <1>7, <2>2, <2>3, AtWithin
  <2>5. 0 + Reach(ss, k) = Reach(ss, k)
    BY <1>0
  <2> QED
    BY <1>3, <2>4, <2>5
<1> QED
  BY <1>8, <1>9

\* Part k + 1 begins where the first k end.
LEMMA FlattenAt ==
    ASSUME NEW S, NEW ss \in Seq(Seq(S)), NEW k \in 0..(Len(ss) - 1)
    PROVE  At(FlattenSeq(ss), Reach(ss, k), ss[k + 1])
<1>1. Len(ss) \in (k + 1)..Len(ss)
  BY LenProperties
<1>2. At(FlattenSeq(First(ss, Len(ss))), Reach(ss, k), ss[k + 1])
  BY <1>1, FlattenAtFirst
<1> QED
  BY <1>2, FirstAll

\* Every place lies in a part.
LEMMA Located ==
    ASSUME NEW S, NEW ss \in Seq(Seq(S)), NEW p \in 1..Len(FlattenSeq(ss))
    PROVE  \E k \in 1..Len(ss) : /\ Reach(ss, k - 1) < p /\ p <= Reach(ss, k)
                                 /\ FlattenSeq(ss)[p] = ss[k][p - Reach(ss, k - 1)]
<1> DEFINE T == {k \in 0..Len(ss) : p <= Reach(ss, k)}
<1>0. /\ Len(ss) \in Nat /\ \A n \in 0..Len(ss) : Reach(ss, n) \in Nat
      /\ Reach(ss, 0) = 0 /\ Reach(ss, Len(ss)) = Len(FlattenSeq(ss))
  BY ReachIs, LenProperties
<1>1. PICK k \in T : \A j \in T : k <= j
  <2>1. T \subseteq Nat
    BY <1>0
  <2>2. Len(ss) \in T
    BY <1>0
  <2> HIDE DEF T
  <2> QED
    BY <2>1, <2>2, LeastOf
<1>2. k \in 0..Len(ss) /\ p <= Reach(ss, k) /\ k # 0
  BY <1>0
<1>3. k \in 1..Len(ss) /\ k - 1 \in 0..Len(ss) /\ k - 1 \in 0..(Len(ss) - 1) /\ k - 1 \notin T /\ (k - 1) + 1 = k
  BY <1>0, <1>1, <1>2
<1>4. Reach(ss, k - 1) < p
  <2>1. ~(p <= Reach(ss, k - 1)) /\ Reach(ss, k - 1) \in Nat /\ p \in Int
    BY <1>0, <1>3
  <2> HIDE DEF T
  <2> QED
    BY <2>1
<1>5. Reach(ss, k) = Reach(ss, k - 1) + Len(ss[k]) /\ At(FlattenSeq(ss), Reach(ss, k - 1), ss[k])
  <2>1. \A i \in 0..(Len(ss) - 1) : Reach(ss, i + 1) = Reach(ss, i) + Len(ss[i + 1])
    BY ReachIs
  <2>2. At(FlattenSeq(ss), Reach(ss, k - 1), ss[(k - 1) + 1])
    BY <1>3, FlattenAt
  <2> QED
    BY <1>3, <2>1, <2>2
<1>6. Len(ss[k]) \in Nat
  BY <1>3, ElementOfSeq, LenProperties
<1>7. FlattenSeq(ss)[p] = ss[k][p - Reach(ss, k - 1)]
  <2>1. Reach(ss, k - 1) \in Nat
    BY <1>0, <1>3
  <2>2. p - Reach(ss, k - 1) \in 1..Len(ss[k]) /\ Reach(ss, k - 1) + (p - Reach(ss, k - 1)) = p
    BY <1>2, <1>4, <1>5, <1>6, <2>1
  <2> QED
    BY <1>5, <2>2 DEF At
<1> QED
  BY <1>2, <1>3, <1>4, <1>7

(***************************************************************************)
(* Lines, and how they are found.                                          *)
(***************************************************************************)

\* A line and its line break.
LEMMA LineIs ==
    ASSUME NEW l \in Seq(Token)
    PROVE  /\ Line(l) \in Seq(Token) /\ Len(l) \in Nat /\ Len(Line(l)) = Len(l) + 2
           /\ \A i \in 1..Len(l) : Line(l)[i] = l[i]
           /\ Line(l)[Len(l) + 1] = "CR" /\ Line(l)[Len(l) + 2] = "LF"
<1>1. CRLF \in Seq(Token) /\ Len(CRLF) = 2 /\ CRLF[1] = "CR" /\ CRLF[2] = "LF"
  BY DEF CRLF, Token
<1>2. /\ Len(l) \in Nat /\ Len(l \o CRLF) = Len(l) + Len(CRLF)
      /\ \A i \in 1..Len(l) : (l \o CRLF)[i] = l[i]
      /\ \A i \in 1..Len(CRLF) : (l \o CRLF)[Len(l) + i] = CRLF[i]
  <2>1. ASSUME NEW c \in Seq(Token)
        PROVE  /\ Len(l) \in Nat /\ Len(l \o c) = Len(l) + Len(c)
               /\ \A i \in 1..Len(l) : (l \o c)[i] = l[i]
               /\ \A i \in 1..Len(c) : (l \o c)[Len(l) + i] = c[i]
    BY ConcatProperties, LenProperties
  <2> QED
    BY <1>1, <2>1
<1>3. (l \o CRLF)[Len(l) + 1] = "CR" /\ (l \o CRLF)[Len(l) + 2] = "LF"
  BY <1>1, <1>2
<1> QED
  BY <1>1, <1>2, <1>3, LineType DEF Line

\* No byte of an unbroken line is one of a line break.
LEMMA UnbrokenIs ==
    ASSUME NEW l \in Seq(Token), Unbroken(l)
    PROVE  \A i \in 1..Len(l) : l[i] # "CR" /\ l[i] # "LF"
<1> SUFFICES ASSUME NEW i \in 1..Len(l) PROVE l[i] # "CR" /\ l[i] # "LF"
  OBVIOUS
<1>1. i \in DOMAIN l
  OBVIOUS
<1>2. l[i] \in Range(l)
  BY <1>1 DEF Range
<1> QED
  BY <1>2 DEF Unbroken

\* s and t are the same as far as both go.
Sees(s, t) == \A i \in 1..Len(s) : i <= Len(t) => s[i] = t[i]

\* Crlfs and Blanks, place by place.
LEMMA CrlfsIn ==
    ASSUME NEW s \in Seq(Token)
    PROVE  /\ Crlfs(s) \subseteq Nat \ {0} /\ Blanks(s) \subseteq Crlfs(s)
           /\ \A i \in Nat : i \in Crlfs(s) <=> /\ i >= 1 /\ i + 1 <= Len(s)
                                               /\ s[i] = "CR" /\ s[i + 1] = "LF"
           /\ \A i \in Nat : i \in Blanks(s) <=> i \in Crlfs(s) /\ i + 2 \in Crlfs(s)
<1>1. Len(s) \in Nat
  BY LenProperties
<1> QED
  BY <1>1 DEF Crlfs, Blanks

\* The first line break is the one that ends the line, once all of it is there.
LEMMA FirstBreak ==
    ASSUME NEW l \in Seq(Token), Unbroken(l), NEW s \in Seq(Token), Sees(s, Line(l))
    PROVE  /\ Len(s) < Len(l) + 2 => Crlfs(s) = {}
           /\ Len(s) >= Len(l) + 2 => Crlfs(s) # {} /\ Find(Crlfs(s)) = Len(l) /\ SubSeq(s, 1, Len(l)) = l
<1>1. /\ Len(l) \in Nat /\ Len(s) \in Nat /\ Len(Line(l)) = Len(l) + 2
      /\ \A i \in 1..Len(l) : Line(l)[i] = l[i]
      /\ Line(l)[Len(l) + 1] = "CR" /\ Line(l)[Len(l) + 2] = "LF"
  BY LineIs, LenProperties
<1>2. \A i \in 1..Len(s) : i <= Len(l) => s[i] = l[i] /\ s[i] # "CR"
  BY <1>1, UnbrokenIs DEF Sees
<1>3. ASSUME NEW i \in Crlfs(s) PROVE i > Len(l) /\ i + 1 <= Len(s) /\ i \in Nat
  <2>1. i \in Nat /\ i >= 1 /\ i + 1 <= Len(s) /\ s[i] = "CR"
    <3>1. i \in Nat
      BY CrlfsIn
    <3> QED
      BY <3>1, CrlfsIn
  <2> QED
    BY <1>1, <1>2, <2>1
<1>4. Len(s) < Len(l) + 2 => Crlfs(s) = {}
  BY <1>1, <1>3
<1>5. ASSUME Len(s) >= Len(l) + 2
      PROVE  Crlfs(s) # {} /\ Find(Crlfs(s)) = Len(l) /\ SubSeq(s, 1, Len(l)) = l
  <2>1. s[Len(l) + 1] = "CR" /\ s[Len(l) + 2] = "LF"
    BY <1>1, <1>5 DEF Sees
  <2>2. Len(l) + 1 \in Crlfs(s)
    <3>1. Len(l) + 1 \in Nat /\ Len(l) + 1 >= 1 /\ (Len(l) + 1) + 1 = Len(l) + 2
      BY <1>1
    <3> QED
      BY <1>1, <1>5, <2>1, <3>1, CrlfsIn
  <2>3. \A k \in 1..((Len(l) + 1) - 1) : k \notin Crlfs(s)
    BY <1>1, <1>3
  <2>4. Min(Crlfs(s)) = Len(l) + 1
    BY <2>2, <2>3, CrlfsIn, MinIs
  <2>5. Find(Crlfs(s)) = Len(l)
    BY <1>1, <2>4 DEF Find
  <2>6. SubSeq(s, 1, Len(l)) \in Seq(Token) /\ Len(SubSeq(s, 1, Len(l))) = Len(l)
    BY <1>1, <1>5, SubSeqIs
  <2>7. \A i \in 1..Len(l) : SubSeq(s, 1, Len(l))[i] = l[i]
    <3>1. \A i \in 1..Len(l) : s[i] \in Token
      BY <1>1, <1>5, ElementOfSeq
    <3>2. \A i \in 1..Len(l) : SubSeq(s, 1, Len(l))[i] = s[i]
      BY <1>1, <1>5
    <3> QED
      BY <1>1, <1>2, <1>5, <3>2
  <2>8. SubSeq(s, 1, Len(l)) = l
    BY <2>6, <2>7, SeqEqual
  <2> QED
    BY <2>2, <2>5, <2>8
<1> QED
  BY <1>4, <1>5

\* A block of lines as parts.
AsLines(hs) == [i \in DOMAIN hs |-> Line(hs[i])]

\* Lines that are neither empty nor broken.
Block(hs) == \A i \in 1..Len(hs) : Len(hs[i]) >= 1 /\ Unbroken(hs[i])

\* The lines of a block as parts of it.
LEMMA AsLinesIs ==
    ASSUME NEW hs \in Seq(Seq(Token))
    PROVE  /\ AsLines(hs) \in Seq(Seq(Token)) /\ Len(AsLines(hs)) = Len(hs)
           /\ \A i \in 1..Len(hs) : AsLines(hs)[i] = Line(hs[i])
           /\ LinesOf(hs) = FlattenSeq(AsLines(hs)) /\ LinesOf(hs) \in Seq(Token)
<1>1. \A i \in 1..Len(hs) : Line(hs[i]) \in Seq(Token)
  BY LineType
<1>2. DOMAIN hs = 1..Len(hs) /\ Len(hs) \in Nat
  OBVIOUS
<1>3. AsLines(hs) \in Seq(Seq(Token)) /\ Len(AsLines(hs)) = Len(hs)
  BY <1>1, <1>2, SeqOver DEF AsLines
<1>4. \A i \in 1..Len(hs) : AsLines(hs)[i] = Line(hs[i])
  BY <1>2 DEF AsLines
<1> QED
  BY <1>3, <1>4, LinesType DEF LinesOf, AsLines

\* Where the lines of a block begin and end.
LEMMA BlockPlaces ==
    ASSUME NEW hs \in Seq(Seq(Token)), NEW k \in 1..Len(hs)
    PROVE  /\ Reach(AsLines(hs), k - 1) \in Nat /\ Len(hs[k]) \in Nat /\ hs[k] \in Seq(Token)
           /\ Reach(AsLines(hs), k) = Reach(AsLines(hs), k - 1) + Len(hs[k]) + 2
           /\ Reach(AsLines(hs), k) <= Len(LinesOf(hs)) /\ Len(LinesOf(hs)) \in Nat
           /\ \A i \in 1..Len(hs[k]) : LinesOf(hs)[Reach(AsLines(hs), k - 1) + i] = hs[k][i]
           /\ LinesOf(hs)[Reach(AsLines(hs), k) - 1] = "CR" /\ LinesOf(hs)[Reach(AsLines(hs), k)] = "LF"
<1> DEFINE L == AsLines(hs)
           r == Reach(L, k - 1)
<1>1. /\ L \in Seq(Seq(Token)) /\ Len(L) = Len(hs) /\ L[k] = Line(hs[k]) /\ LinesOf(hs) = FlattenSeq(L)
      /\ LinesOf(hs) \in Seq(Token)
  BY AsLinesIs
<1>2. Len(hs) \in Nat /\ k \in 1..Len(hs) /\ hs[k] \in Seq(Token)
  BY ElementOfSeq, LenProperties
<1>3. k - 1 \in 0..(Len(L) - 1) /\ (k - 1) + 1 = k /\ k \in 0..Len(L) /\ Len(L) \in k..Len(L) /\ k - 1 \in 0..Len(L)
  BY <1>1, <1>2
<1>4. /\ Len(hs[k]) \in Nat /\ Len(Line(hs[k])) = Len(hs[k]) + 2
      /\ \A i \in 1..Len(hs[k]) : Line(hs[k])[i] = hs[k][i]
      /\ Line(hs[k])[Len(hs[k]) + 1] = "CR" /\ Line(hs[k])[Len(hs[k]) + 2] = "LF"
  BY <1>2, LineIs
<1> HIDE DEF L
<1>5. r \in Nat /\ Reach(L, k) \in Nat /\ Reach(L, Len(L)) = Len(LinesOf(hs))
  BY <1>1, <1>3, ReachIs
<1>6. Reach(L, k) = r + Len(L[k])
  <2>1. \A i \in 0..(Len(L) - 1) : Reach(L, i + 1) = Reach(L, i) + Len(L[i + 1])
    BY <1>1, ReachIs
  <2>2. Reach(L, (k - 1) + 1) = Reach(L, k - 1) + Len(L[(k - 1) + 1])
    BY <1>3, <2>1
  <2> QED
    BY <1>3, <2>2
<1>7. Reach(L, k) <= Len(LinesOf(hs))
  BY <1>1, <1>3, <1>5, ReachUp
<1>8. At(LinesOf(hs), r, Line(hs[k]))
  <2>1. At(FlattenSeq(L), Reach(L, k - 1), L[(k - 1) + 1])
    BY <1>1, <1>3, FlattenAt
  <2> QED
    BY <1>1, <1>3, <2>1
<1> HIDE DEF r
<1>9. /\ \A i \in 1..Len(hs[k]) : LinesOf(hs)[r + i] = hs[k][i]
      /\ LinesOf(hs)[r + (Len(hs[k]) + 1)] = "CR" /\ LinesOf(hs)[r + (Len(hs[k]) + 2)] = "LF"
  <2>1. \A i \in 1..(Len(hs[k]) + 2) : LinesOf(hs)[r + i] = Line(hs[k])[i]
    BY <1>4, <1>8 DEF At
  <2>2. Len(hs[k]) + 1 \in 1..(Len(hs[k]) + 2) /\ Len(hs[k]) + 2 \in 1..(Len(hs[k]) + 2)
    BY <1>4
  <2>3. \A i \in 1..Len(hs[k]) : i \in 1..(Len(hs[k]) + 2)
    BY <1>4
  <2> QED
    BY <1>4, <2>1, <2>2, <2>3
<1>10. Reach(L, k) = r + (Len(hs[k]) + 2) /\ Reach(L, k) - 1 = r + (Len(hs[k]) + 1)
  <2>1. Reach(L, k) = r + (Len(hs[k]) + 2) /\ r \in Nat /\ Len(hs[k]) \in Nat
    BY <1>1, <1>4, <1>5, <1>6
  <2> QED
    BY <2>1
<1>11. Len(LinesOf(hs)) \in Nat
  BY <1>1, LenProperties
<1>12. Reach(L, k) = r + Len(hs[k]) + 2
  BY <1>4, <1>5, <1>10
<1> QED
  BY <1>2, <1>4, <1>5, <1>7, <1>9, <1>10, <1>11, <1>12 DEF r, L

\* A carriage return ends a line, and a line follows or the block ends.
LEMMA BlockBreaks ==
    ASSUME NEW hs \in Seq(Seq(Token)), Block(hs), NEW p \in 1..Len(LinesOf(hs)), LinesOf(hs)[p] = "CR"
    PROVE  \/ p + 1 = Len(LinesOf(hs))
           \/ p + 2 <= Len(LinesOf(hs)) /\ LinesOf(hs)[p + 2] # "CR"
<1> DEFINE L == AsLines(hs)
<1>1. /\ L \in Seq(Seq(Token)) /\ Len(L) = Len(hs) /\ LinesOf(hs) = FlattenSeq(L)
      /\ \A i \in 1..Len(hs) : L[i] = Line(hs[i])
  BY AsLinesIs
<1>2. PICK k \in 1..Len(hs) : /\ Reach(L, k - 1) < p /\ p <= Reach(L, k)
                              /\ LinesOf(hs)[p] = L[k][p - Reach(L, k - 1)]
  <2>1. p \in 1..Len(FlattenSeq(L))
    BY <1>1
  <2> HIDE DEF L
  <2>2. \E k \in 1..Len(L) : /\ Reach(L, k - 1) < p /\ p <= Reach(L, k)
                            /\ FlattenSeq(L)[p] = L[k][p - Reach(L, k - 1)]
    BY <1>1, <2>1, Located
  <2> QED
    BY <1>1, <2>2
<1>3. /\ Reach(L, k - 1) \in Nat /\ Len(hs[k]) \in Nat /\ hs[k] \in Seq(Token) /\ Len(LinesOf(hs)) \in Nat
      /\ Reach(L, k) = Reach(L, k - 1) + Len(hs[k]) + 2 /\ Reach(L, k) <= Len(LinesOf(hs))
      /\ \A i \in 1..Len(hs[k]) : LinesOf(hs)[Reach(L, k - 1) + i] = hs[k][i]
      /\ LinesOf(hs)[Reach(L, k) - 1] = "CR" /\ LinesOf(hs)[Reach(L, k)] = "LF"
  BY BlockPlaces
<1>4. \A i \in 1..Len(hs[k]) : hs[k][i] # "CR"
  BY <1>3, UnbrokenIs DEF Block
<1>5. p \in Nat /\ Len(hs) \in Nat
  BY <1>3, LenProperties
<1>6. p + 1 = Reach(L, k)
  <2>1. p # Reach(L, k)
    BY <1>3
  <2>2. ~(p <= Reach(L, k - 1) + Len(hs[k]))
    <3>1. SUFFICES ASSUME p <= Reach(L, k - 1) + Len(hs[k]) PROVE FALSE
      OBVIOUS
    <3> HIDE DEF L
    <3>2. p - Reach(L, k - 1) \in 1..Len(hs[k]) /\ Reach(L, k - 1) + (p - Reach(L, k - 1)) = p
      <4>1. Reach(L, k - 1) \in Nat /\ Len(hs[k]) \in Nat /\ Reach(L, k - 1) < p
        BY <1>2, <1>3
      <4> QED
        BY <1>5, <3>1, <4>1, SMTT(40)
    <3> QED
      BY <1>3, <1>4, <3>2
  <2> HIDE DEF L
  <2>3. /\ Reach(L, k - 1) \in Nat /\ Len(hs[k]) \in Nat /\ p <= Reach(L, k)
        /\ Reach(L, k) = Reach(L, k - 1) + Len(hs[k]) + 2
    BY <1>2, <1>3
  <2>4. \A r, n \in Nat : ~(p <= r + n) /\ p <= r + n + 2 /\ p # r + n + 2 => p + 1 = r + n + 2
    BY <1>5
  <2> QED
    BY <2>1, <2>2, <2>3, <2>4
<1>7. CASE k = Len(hs)
  <2>1. Reach(L, k) = Len(LinesOf(hs))
    BY <1>1, <1>7, ReachIs
  <2> QED
    BY <1>6, <2>1
<1>8. CASE k # Len(hs)
  <2>1. k + 1 \in 1..Len(hs) /\ (k + 1) - 1 = k
    BY <1>5, <1>8
  <2>2. /\ Reach(L, k) \in Nat /\ Len(hs[k + 1]) \in Nat /\ hs[k + 1] \in Seq(Token)
        /\ Reach(L, k + 1) = Reach(L, k) + Len(hs[k + 1]) + 2 /\ Reach(L, k + 1) <= Len(LinesOf(hs))
        /\ \A i \in 1..Len(hs[k + 1]) : LinesOf(hs)[Reach(L, k) + i] = hs[k + 1][i]
    <3>1. /\ Reach(L, (k + 1) - 1) \in Nat /\ Len(hs[k + 1]) \in Nat /\ hs[k + 1] \in Seq(Token)
          /\ Reach(L, k + 1) = Reach(L, (k + 1) - 1) + Len(hs[k + 1]) + 2 /\ Reach(L, k + 1) <= Len(LinesOf(hs))
          /\ \A i \in 1..Len(hs[k + 1]) : LinesOf(hs)[Reach(L, (k + 1) - 1) + i] = hs[k + 1][i]
      BY <2>1, BlockPlaces
    <3> QED
      BY <2>1, <3>1
  <2>3. Len(hs[k + 1]) >= 1 /\ Unbroken(hs[k + 1])
    BY <2>1 DEF Block
  <2>4. 1 \in 1..Len(hs[k + 1]) /\ hs[k + 1][1] # "CR"
    <3>1. 1 \in 1..Len(hs[k + 1])
      BY <2>2, <2>3
    <3> QED
      BY <2>2, <2>3, <3>1, UnbrokenIs
  <2>5. LinesOf(hs)[Reach(L, k) + 1] # "CR"
    BY <2>2, <2>3, <2>4
  <2> HIDE DEF L
  <2>6. p + 2 = Reach(L, k) + 1 /\ p + 2 <= Len(LinesOf(hs))
    BY <1>3, <1>5, <1>6, <2>2, <2>3, SMTT(40)
  <2> QED
    BY <2>5, <2>6
<1> QED
  BY <1>7, <1>8

\* A block with the empty line after it.
Closed(hs) == LinesOf(hs) \o CRLF

\* Where the empty line is.
LEMMA ClosedIs ==
    ASSUME NEW hs \in Seq(Seq(Token))
    PROVE  /\ Closed(hs) \in Seq(Token) /\ Len(LinesOf(hs)) \in Nat /\ Len(Closed(hs)) = Len(LinesOf(hs)) + 2
           /\ \A i \in 1..Len(LinesOf(hs)) : Closed(hs)[i] = LinesOf(hs)[i]
           /\ Closed(hs)[Len(LinesOf(hs)) + 1] = "CR" /\ Closed(hs)[Len(LinesOf(hs)) + 2] = "LF"
<1>1. LinesOf(hs) \in Seq(Token)
  BY AsLinesIs
<1>2. Closed(hs) = Line(LinesOf(hs))
  BY DEF Closed, Line
<1> QED
  BY <1>1, <1>2, LineIs

\* The first empty line is the one that ends the block, once all of it is there.
LEMMA FirstBlank ==
    ASSUME NEW hs \in Seq(Seq(Token)), Block(hs), Len(hs) >= 1, NEW s \in Seq(Token), Sees(s, Closed(hs))
    PROVE  /\ Len(s) < Len(Closed(hs)) => Blanks(s) = {}
           /\ Len(s) >= Len(Closed(hs)) =>
                  /\ Blanks(s) # {} /\ Find(Blanks(s)) = Len(LinesOf(hs)) - 2
                  /\ Len(LinesOf(hs)) >= 3
                  /\ SubSeq(s, 1, Len(LinesOf(hs)) + 2) = Closed(hs)
                  /\ SubSeq(s, 1, Len(LinesOf(hs))) = LinesOf(hs)
<1> DEFINE t == Closed(hs)
           n == Len(LinesOf(hs))
<1>1. /\ t \in Seq(Token) /\ n \in Nat /\ Len(t) = n + 2 /\ Len(s) \in Nat
      /\ \A i \in 1..n : t[i] = LinesOf(hs)[i]
      /\ t[n + 1] = "CR" /\ t[n + 2] = "LF"
  BY ClosedIs, LenProperties
<1>2. n >= 3 /\ t[n - 1] = "CR" /\ t[n] = "LF"
  <2>1. Len(hs) \in 1..Len(hs)
    BY LenProperties
  <2>2. /\ Reach(AsLines(hs), Len(hs) - 1) \in Nat /\ Len(hs[Len(hs)]) \in Nat
        /\ Reach(AsLines(hs), Len(hs)) = Reach(AsLines(hs), Len(hs) - 1) + Len(hs[Len(hs)]) + 2
        /\ LinesOf(hs)[Reach(AsLines(hs), Len(hs)) - 1] = "CR" /\ LinesOf(hs)[Reach(AsLines(hs), Len(hs))] = "LF"
    BY <2>1, BlockPlaces
  <2>3. Reach(AsLines(hs), Len(hs)) = n
    BY AsLinesIs, ReachIs
  <2>4. Len(hs[Len(hs)]) >= 1
    BY <2>1 DEF Block
  <2>5. n >= 3
    BY <1>1, <2>2, <2>3, <2>4
  <2>6. n - 1 \in 1..n /\ n \in 1..n
    BY <1>1, <2>5
  <2> QED
    BY <1>1, <2>2, <2>3, <2>5, <2>6
<1>3. \A i \in 1..Len(s) : i <= n + 2 => s[i] = t[i]
  BY <1>1 DEF Sees
<1>4. ASSUME NEW i \in Blanks(s) PROVE i >= n - 1 /\ i + 3 <= Len(s) /\ i \in Nat
  <2>1. /\ i \in Nat /\ i >= 1 /\ i + 1 <= Len(s) /\ s[i] = "CR"
        /\ (i + 2) + 1 <= Len(s) /\ s[i + 2] = "CR"
    <3>1. i \in Nat /\ i \in Crlfs(s) /\ i + 2 \in Crlfs(s)
      BY CrlfsIn
    <3>2. i + 2 \in Nat
      BY <3>1
    <3> QED
      BY <3>1, <3>2, CrlfsIn
  <2>2. SUFFICES ASSUME i < n - 1 PROVE FALSE
    BY <1>1, <2>1
  <2>3. i \in 1..n /\ i + 2 \in 1..n /\ i \in 1..Len(s) /\ i + 2 \in 1..Len(s) /\ i + 1 # n
    BY <1>1, <2>1, <2>2
  <2>4. s[i] = LinesOf(hs)[i] /\ s[i + 2] = LinesOf(hs)[i + 2]
    BY <1>1, <1>3, <2>3
  <2> QED
    BY <2>1, <2>3, <2>4, BlockBreaks
<1>5. Len(s) < n + 2 => Blanks(s) = {}
  BY <1>1, <1>4
<1>6. ASSUME Len(s) >= n + 2
      PROVE  Blanks(s) # {} /\ Find(Blanks(s)) = n - 2
  <2>1. s[n - 1] = "CR" /\ s[n] = "LF" /\ s[n + 1] = "CR" /\ s[n + 2] = "LF"
    <3>1. n - 1 \in 1..Len(s) /\ n \in 1..Len(s) /\ n + 1 \in 1..Len(s) /\ n + 2 \in 1..Len(s)
          /\ n - 1 <= n + 2 /\ n <= n + 2 /\ n + 1 <= n + 2
      BY <1>1, <1>2, <1>6
    <3> HIDE DEF n, t
    <3> QED
      BY <1>1, <1>2, <1>3, <3>1
  <2>2. n - 1 \in Nat /\ n + 1 \in Nat /\ (n - 1) + 1 = n /\ (n + 1) + 1 = n + 2 /\ (n - 1) + 2 = n + 1
        /\ n - 1 >= 1 /\ n + 1 >= 1
    BY <1>1, <1>2
  <2>3. n - 1 \in Crlfs(s) /\ n + 1 \in Crlfs(s)
    BY <1>1, <1>6, <2>1, <2>2, CrlfsIn, SMTT(40)
  <2>4. n - 1 \in Blanks(s)
    BY <2>2, <2>3, CrlfsIn
  <2>5. \A k \in 1..((n - 1) - 1) : k \notin Blanks(s)
    BY <1>1, <1>2, <1>4
  <2>6. Blanks(s) \subseteq Nat \ {0}
    BY CrlfsIn
  <2>7. Min(Blanks(s)) = n - 1
    BY <2>4, <2>5, <2>6, MinIs
  <2> QED
    BY <1>1, <2>4, <2>7 DEF Find
<1>7. ASSUME Len(s) >= n + 2, NEW q \in Seq(Token), Len(q) <= n + 2, \A i \in 1..Len(q) : q[i] = t[i]
      PROVE  SubSeq(s, 1, Len(q)) = q
  <2>1. Len(q) \in Nat /\ Len(q) <= Len(s)
    BY <1>1, <1>7, LenProperties
  <2>2. SubSeq(s, 1, Len(q)) \in Seq(Token) /\ Len(SubSeq(s, 1, Len(q))) = Len(q)
    BY <2>1, SubSeqIs
  <2>3. \A i \in 1..Len(q) : SubSeq(s, 1, Len(q))[i] = s[i]
    BY <2>1
  <2>4. \A i \in 1..Len(q) : SubSeq(s, 1, Len(q))[i] = q[i]
    BY <1>1, <1>3, <1>7, <2>1, <2>3
  <2> QED
    BY <2>2, <2>4, SeqEqual
<1>8. ASSUME Len(s) >= n + 2 PROVE SubSeq(s, 1, n + 2) = t /\ SubSeq(s, 1, n) = LinesOf(hs)
  <2>1. LinesOf(hs) \in Seq(Token) /\ n <= n + 2
    BY <1>1, AsLinesIs
  <2>2. Len(t) <= n + 2 /\ \A i \in 1..Len(t) : t[i] = t[i]
    BY <1>1
  <2>3. SubSeq(s, 1, Len(t)) = t
    BY <1>1, <1>7, <1>8, <2>2
  <2>4. SubSeq(s, 1, n) = LinesOf(hs)
    BY <1>1, <1>7, <1>8, <2>1
  <2> QED
    BY <1>1, <2>3, <2>4
<1> QED
  BY <1>1, <1>2, <1>5, <1>6, <1>8

\* The step of LinesIn.
NextBreak(s, p) == Min({i \in Crlfs(s) : i >= p})
FromStep(s, f, p) ==
    IF (\A i \in Crlfs(s) : i < p) \/ NextBreak(s, p) = p THEN << >>
    ELSE <<SubSeq(s, p, NextBreak(s, p) - 1)>> \o f[NextBreak(s, p) + 2]

\* The next line break leaves room for what follows.
LEMMA NextBreakIs ==
    ASSUME NEW s \in Seq(Token), NEW p \in Nat, ~(\A i \in Crlfs(s) : i < p)
    PROVE  NextBreak(s, p) \in Nat /\ NextBreak(s, p) >= p /\ NextBreak(s, p) + 2 <= Len(s) + 1
<1> DEFINE T == {i \in Crlfs(s) : i >= p}
<1>1. Crlfs(s) \subseteq Nat /\ \A i \in Crlfs(s) : i + 1 <= Len(s)
  <2>1. Len(s) \in Nat
    BY LenProperties
  <2> QED
    BY <2>1 DEF Crlfs
<1>2. T \subseteq Nat /\ T # {}
  <2>1. PICK i \in Crlfs(s) : ~(i < p)
    OBVIOUS
  <2>2. i \in T
    BY <1>1, <2>1
  <2> QED
    BY <1>1, <2>2
<1>3. Min(T) \in T
  <2> HIDE DEF T
  <2> QED
    BY <1>2, MinOf
<1>4. Min(T) \in Nat /\ Min(T) >= p /\ Min(T) + 1 <= Len(s)
  BY <1>1, <1>3
<1>5. Len(s) \in Nat
  BY LenProperties
<1>6. NextBreak(s, p) = Min(T)
  BY DEF NextBreak
<1> HIDE DEF T
<1> QED
  BY <1>4, <1>5, <1>6

\* The function LinesIn is defined with exists: a step looks only further on.
LEMMA FromExists ==
    ASSUME NEW s \in Seq(Token)
    PROVE  \E f : f = [p \in 1..(Len(s) + 1) |-> FromStep(s, f, p)]
<1> DEFINE N == Len(s) + 2
           Has(d) == \E f : f = [p \in (N - d)..(N - 1) |-> FromStep(s, f, p)]
           T == {d \in 0..(N - 1) : ~Has(d)}
<1>1. Len(s) \in Nat /\ N \in Nat /\ N - 1 \in 0..(N - 1) /\ N - (N - 1) = 1 /\ N - 1 = Len(s) + 1
  BY LenProperties
<1>2. SUFFICES Has(N - 1)
  BY <1>1
<1>3. SUFFICES ASSUME T # {} PROVE FALSE
  BY <1>1
<1>4. PICK d \in T : \A e \in T : d <= e
  <2>1. T \subseteq Nat
    BY <1>1
  <2> HIDE DEF T
  <2> QED
    BY <1>3, <2>1, LeastOf
<1>5. d \in 0..(N - 1) /\ ~Has(d)
  OBVIOUS
<1>6. d # 0
  <2>1. SUFFICES ASSUME d = 0 PROVE Has(d)
    BY <1>5
  <2> DEFINE f == [p \in (N - d)..(N - 1) |-> << >>]
  <2>2. \A p \in (N - d)..(N - 1) : FALSE
    BY <1>1, <2>1
  <2>3. \A p \in (N - d)..(N - 1) : f[p] = FromStep(s, f, p)
    BY <2>2
  <2>4. f = [p \in (N - d)..(N - 1) |-> FromStep(s, f, p)]
    BY <2>3
  <2> QED
    BY <2>4
<1>7. PICK f : f = [p \in (N - (d - 1))..(N - 1) |-> FromStep(s, f, p)]
  <2>1. d - 1 \in 0..(N - 1) /\ d - 1 \notin T
    <3>1. d - 1 \in 0..(N - 1) /\ ~(d <= d - 1)
      <4> HIDE DEF T
      <4> QED
        BY <1>1, <1>5, <1>6
    <3> HIDE DEF T
    <3> QED
      BY <1>4, <3>1
  <2> QED
    BY <2>1
<1> DEFINE g == [p \in (N - d)..(N - 1) |-> IF p = N - d THEN FromStep(s, f, p) ELSE f[p]]
<1>8. ASSUME NEW p \in (N - d)..(N - 1) PROVE g[p] = FromStep(s, g, p)
  <2>0. p \in Nat /\ N - d \in Nat /\ (p # N - d => p \in (N - (d - 1))..(N - 1))
    BY <1>1, <1>5
  <2>1. g[p] = FromStep(s, f, p)
    <3>1. CASE p = N - d
      BY <3>1
    <3>2. CASE p # N - d
      <4>1. p \in (N - (d - 1))..(N - 1)
        BY <2>0, <3>2
      <4>2. f[p] = FromStep(s, f, p)
        <5> HIDE DEF g, Has, T
        <5>1. [q \in (N - (d - 1))..(N - 1) |-> FromStep(s, f, q)][p] = FromStep(s, f, p)
          BY <4>1
        <5> HIDE DEF N
        <5> QED
          BY <1>7, <5>1, Zenon
      <4> QED
        BY <3>2, <4>2
    <3> QED
      BY <3>1, <3>2
  <2>2. CASE \A i \in Crlfs(s) : i < p
    BY <2>1, <2>2 DEF FromStep
  <2>3. CASE ~(\A i \in Crlfs(s) : i < p)
    <3>1. NextBreak(s, p) \in Nat /\ NextBreak(s, p) >= p /\ NextBreak(s, p) + 2 <= Len(s) + 1
      BY <2>0, <2>3, NextBreakIs
    <3>2. NextBreak(s, p) + 2 \in (N - d)..(N - 1) /\ NextBreak(s, p) + 2 # N - d
      BY <1>1, <1>5, <2>0, <3>1
    <3>3. g[NextBreak(s, p) + 2] = f[NextBreak(s, p) + 2]
      BY <3>2
    <3> HIDE DEF g
    <3> QED
      BY <2>1, <3>3 DEF FromStep
  <2> QED
    BY <2>2, <2>3
<1>9. g = [p \in (N - d)..(N - 1) |-> FromStep(s, g, p)]
  BY <1>8
<1> HIDE DEF g
<1> QED
  BY <1>5, <1>9

\* LinesIn, by its steps.
LEMMA LinesInDef ==
    ASSUME NEW s \in Seq(Token)
    PROVE  \E f : LinesIn(s) = f[1] /\ \A p \in 1..(Len(s) + 1) : f[p] = FromStep(s, f, p)
<1> DEFINE from == CHOOSE f : f = [p \in 1..(Len(s) + 1) |-> FromStep(s, f, p)]
<1>1. LinesIn(s) = from[1]
  BY DEF LinesIn, FromStep, NextBreak
<1>2. from = [p \in 1..(Len(s) + 1) |-> FromStep(s, from, p)]
  BY FromExists
<1>3. \A p \in 1..(Len(s) + 1) : [q \in 1..(Len(s) + 1) |-> FromStep(s, from, q)][p] = FromStep(s, from, p)
  OBVIOUS
<1> HIDE DEF from
<1>4. \A p \in 1..(Len(s) + 1) : from[p] = FromStep(s, from, p)
  BY <1>2, <1>3, Zenon
<1> QED
  BY <1>1, <1>4

\* A line of a block, and the one line break in it.
LEMMA NextInBlock ==
    ASSUME NEW hs \in Seq(Seq(Token)), Block(hs), NEW k \in 1..Len(hs),
           NEW s \in Seq(Token), At(s, 0, LinesOf(hs))
    PROVE  LET r == Reach(AsLines(hs), k - 1) IN
               /\ ~(\A i \in Crlfs(s) : i < r + 1)
               /\ NextBreak(s, r + 1) = r + Len(hs[k]) + 1
               /\ SubSeq(s, r + 1, r + Len(hs[k])) = hs[k]
<1> DEFINE r == Reach(AsLines(hs), k - 1)
           n == Len(hs[k])
           e == r + n + 1
<1>1. /\ r \in Nat /\ n \in Nat /\ hs[k] \in Seq(Token) /\ Len(LinesOf(hs)) \in Nat
      /\ Reach(AsLines(hs), k) = r + n + 2 /\ Reach(AsLines(hs), k) <= Len(LinesOf(hs))
      /\ \A i \in 1..n : LinesOf(hs)[r + i] = hs[k][i]
      /\ LinesOf(hs)[Reach(AsLines(hs), k) - 1] = "CR" /\ LinesOf(hs)[Reach(AsLines(hs), k)] = "LF"
  BY BlockPlaces
<1>2. n >= 1 /\ \A i \in 1..n : hs[k][i] # "CR"
  BY <1>1, UnbrokenIs DEF Block
<1> HIDE DEF r, n
<1>3. /\ Len(s) \in Nat /\ Len(LinesOf(hs)) <= Len(s) /\ \A i \in 1..Len(LinesOf(hs)) : s[i] = LinesOf(hs)[i]
  <2>1. Len(s) \in Nat
    BY LenProperties
  <2> QED
    BY <1>1, <2>1 DEF At
<1>4. e \in Nat /\ e >= 1 /\ e + 1 <= Len(s) /\ e + 1 <= Len(LinesOf(hs)) /\ (r + n + 2) - 1 = e /\ r + n + 2 = e + 1
  BY <1>1, <1>3, SMTT(40)
<1>5. s[e] = "CR" /\ s[e + 1] = "LF"
  <2>1. LinesOf(hs)[e] = "CR" /\ LinesOf(hs)[e + 1] = "LF"
    BY <1>1, <1>4
  <2>2. e \in 1..Len(LinesOf(hs)) /\ e + 1 \in 1..Len(LinesOf(hs))
    BY <1>1, <1>4
  <2> HIDE DEF e
  <2> QED
    BY <1>3, <2>1, <2>2
<1>6. e \in Crlfs(s)
  <2> HIDE DEF e
  <2> QED
    BY <1>4, <1>5, CrlfsIn
<1>7. ASSUME NEW i \in 1..n PROVE s[r + i] = hs[k][i]
  <2>1. r + i \in 1..Len(LinesOf(hs))
    BY <1>1
  <2> QED
    BY <1>1, <1>3, <2>1
<1> DEFINE T == {i \in Crlfs(s) : i >= r + 1}
<1>8. e \in T /\ T \subseteq Nat \ {0}
  BY <1>1, <1>2, <1>4, <1>6, CrlfsIn
<1>9. ASSUME NEW i \in 1..(e - 1) PROVE i \notin T
  <2>1. SUFFICES ASSUME i \in Crlfs(s), i >= r + 1 PROVE FALSE
    OBVIOUS
  <2>2. i - r \in 1..n /\ r + (i - r) = i
    <3>1. i \in Nat /\ i <= r + n
      BY <1>1, <1>4
    <3> QED
      BY <1>1, <2>1, <3>1, SMTT(40)
  <2>3. s[i] # "CR"
    BY <1>2, <1>7, <2>2
  <2>4. s[i] = "CR"
    <3>1. i \in Nat
      BY <1>1, <1>4
    <3> QED
      BY <2>1, <3>1, CrlfsIn
  <2> QED
    BY <2>3, <2>4
<1>10. Min(T) = e
  <2> HIDE DEF T, e
  <2> QED
    BY <1>8, <1>9, MinIs
<1>11. ~(\A i \in Crlfs(s) : i < r + 1) /\ NextBreak(s, r + 1) = e
  BY <1>1, <1>2, <1>4, <1>6, <1>10 DEF NextBreak
<1>12. SubSeq(s, r + 1, r + n) = hs[k]
  <2>1. r + 1 \in Nat \ {0} /\ r + n \in Nat /\ r + n <= Len(s) /\ r + 1 <= r + n /\ (r + n) - (r + 1) + 1 = n
    BY <1>1, <1>2, <1>4
  <2>2. SubSeq(s, r + 1, r + n) \in Seq(Token) /\ Len(SubSeq(s, r + 1, r + n)) = n
    BY <2>1, SubSeqIs
  <2>3. ASSUME NEW i \in 1..n PROVE SubSeq(s, r + 1, r + n)[i] = hs[k][i]
    <3>1. SubSeq(s, r + 1, r + n)[i] = s[(r + 1) + i - 1]
      <4>1. \A j \in (r + 1)..(r + n) : s[j] \in Token
        <5>1. \A j \in (r + 1)..(r + n) : j \in 1..Len(s)
          BY <1>1, <1>3, <2>1
        <5> QED
          BY <5>1, ElementOfSeq
      <4>2. \A j \in 1..((r + n) - (r + 1) + 1) : SubSeq(s, r + 1, r + n)[j] = s[(r + 1) + j - 1]
        BY <1>1, <2>1, <4>1, SubSeqProperties
      <4> QED
        BY <2>1, <4>2
    <3>2. (r + 1) + i - 1 = r + i
      BY <1>1
    <3> QED
      BY <1>7, <3>1, <3>2
  <2> QED
    BY <1>1, <2>2, <2>3, SeqEqual DEF n
<1> QED
  BY <1>11, <1>12 DEF r, n

\* The lines of a block are found again, with or without the empty line after it.
LEMMA LinesInBlock ==
    ASSUME NEW hs \in Seq(Seq(Token)), Block(hs), NEW s, s = LinesOf(hs) \/ s = Closed(hs)
    PROVE  LinesIn(s) = hs
<1> DEFINE R(k) == Reach(AsLines(hs), k)
           N == Len(hs)
           W == Len(LinesOf(hs))
<1>1. /\ s \in Seq(Token) /\ Len(s) \in Nat /\ At(s, 0, LinesOf(hs)) /\ LinesOf(hs) \in Seq(Token)
      /\ W \in Nat /\ W <= Len(s) /\ Len(s) <= W + 2
      /\ Len(s) > W => /\ Len(s) = W + 2 /\ s[W + 1] = "CR" /\ s[W + 2] = "LF"
  <2>1. LinesOf(hs) \in Seq(Token) /\ CRLF \in Seq(Token)
    BY AsLinesIs DEF CRLF, Token
  <2>2. CASE s = LinesOf(hs)
    BY <2>1, <2>2, LenProperties DEF At
  <2>3. CASE s = Closed(hs)
    <3>1. At(Closed(hs), 0, LinesOf(hs))
      BY <2>1, AtConcat DEF Closed
    <3> QED
      BY <2>1, <2>3, <3>1, ClosedIs
  <2> QED
    BY <2>2, <2>3
<1>2. /\ N \in Nat /\ R(0) = 0 /\ R(N) = W /\ \A k \in 0..N : R(k) \in Nat
  BY AsLinesIs, ReachIs, LenProperties
<1>3. PICK f : LinesIn(s) = f[1] /\ \A p \in 1..(Len(s) + 1) : f[p] = FromStep(s, f, p)
  BY <1>1, LinesInDef
<1>4. f[W + 1] = << >>
  <2>1. W + 1 \in 1..(Len(s) + 1)
    BY <1>1
  <2>2. f[W + 1] = FromStep(s, f, W + 1)
    BY <1>3, <2>1
  <2>3. CASE Len(s) = W
    <3>1. \A i \in Crlfs(s) : i < W + 1
      BY <1>1, <2>3 DEF Crlfs
    <3> QED
      BY <2>2, <3>1 DEF FromStep
  <2>4. CASE Len(s) # W
    <3>1. Len(s) = W + 2 /\ s[W + 1] = "CR" /\ s[W + 2] = "LF" /\ W + 1 \in Nat /\ (W + 1) + 1 = W + 2 /\ W + 1 >= 1
      BY <1>1, <2>4
    <3>2. W + 1 \in Crlfs(s)
      BY <1>1, <3>1, CrlfsIn
    <3> DEFINE T == {i \in Crlfs(s) : i >= W + 1}
    <3>3. W + 1 \in T /\ T \subseteq Nat \ {0} /\ \A i \in 1..((W + 1) - 1) : i \notin T
      BY <1>1, <3>1, <3>2, CrlfsIn
    <3>4. Min(T) = W + 1
      <4> HIDE DEF T, W
      <4> QED
        BY <3>3, MinIs
    <3>5. NextBreak(s, W + 1) = W + 1
      BY <3>4 DEF NextBreak
    <3> QED
      BY <2>2, <3>5 DEF FromStep
  <2> QED
    BY <2>3, <2>4
<1> DEFINE T == {d \in 0..N : f[R(N - d) + 1] # SubSeq(hs, N - d + 1, N)}
<1>5. SUFFICES ASSUME T # {} PROVE FALSE
  <2>1. N \in 0..N /\ N - N = 0 /\ R(N - N) + 1 = 1 /\ N - N + 1 = 1
    BY <1>2
  <2>2. SubSeq(hs, 1, N) = hs
    BY <1>2
  <2> SUFFICES ASSUME T = {} PROVE LinesIn(s) = hs
    OBVIOUS
  <2>3. f[R(N - N) + 1] = SubSeq(hs, N - N + 1, N)
    BY <2>1
  <2> QED
    BY <1>3, <2>1, <2>2, <2>3
<1>6. PICK d \in T : \A e \in T : d <= e
  <2>1. T \subseteq Nat
    BY <1>2
  <2> HIDE DEF T
  <2> QED
    BY <1>5, <2>1, LeastOf
<1>7. d \in 0..N /\ f[R(N - d) + 1] # SubSeq(hs, N - d + 1, N)
  OBVIOUS
<1>8. d # 0
  <2>1. SUFFICES ASSUME d = 0 PROVE FALSE
    OBVIOUS
  <2>2. N - d = N /\ SubSeq(hs, N + 1, N) = << >>
    BY <1>2, <2>1
  <2> QED
    BY <1>2, <1>4, <1>7, <2>2
<1> DEFINE k == N - d + 1
<1>9. d - 1 \in 0..N /\ d - 1 \notin T /\ k \in 1..N /\ k - 1 = N - d /\ N - (d - 1) = k /\ k \in 0..N /\ k - 1 \in 0..N
  <2>1. d - 1 \in 0..N /\ ~(d <= d - 1) /\ k \in 1..N /\ k - 1 = N - d /\ N - (d - 1) = k /\ k \in 0..N
        /\ k - 1 \in 0..N
    <3> HIDE DEF T
    <3> QED
      BY <1>2, <1>7, <1>8, SMTT(40)
  <2>2. d - 1 \notin T
    <3> HIDE DEF T
    <3> QED
      BY <1>6, <2>1
  <2> QED
    BY <2>1, <2>2
<1>10. f[R(k) + 1] = SubSeq(hs, k + 1, N)
  BY <1>9
<1> HIDE DEF T, k
<1>11. /\ ~(\A i \in Crlfs(s) : i < R(k - 1) + 1)
       /\ NextBreak(s, R(k - 1) + 1) = R(k - 1) + Len(hs[k]) + 1
       /\ SubSeq(s, R(k - 1) + 1, R(k - 1) + Len(hs[k])) = hs[k]
  BY <1>1, <1>9, NextInBlock
<1>12. /\ R(k - 1) \in Nat /\ Len(hs[k]) \in Nat /\ R(k) = R(k - 1) + Len(hs[k]) + 2 /\ R(k) <= W
       /\ hs[k] \in Seq(Token)
  BY <1>9, BlockPlaces
<1>13. Len(hs[k]) >= 1
  BY <1>9 DEF Block
<1> HIDE DEF R
<1>14. f[R(k - 1) + 1] = <<hs[k]>> \o SubSeq(hs, k + 1, N)
  <2>1. R(k - 1) + 1 \in 1..(Len(s) + 1)
    BY <1>1, <1>12, SMTT(40)
  <2>2. f[R(k - 1) + 1] = FromStep(s, f, R(k - 1) + 1)
    BY <1>3, <2>1
  <2>3. R(k - 1) + Len(hs[k]) + 1 # R(k - 1) + 1 /\ (R(k - 1) + Len(hs[k]) + 1) - 1 = R(k - 1) + Len(hs[k])
        /\ (R(k - 1) + Len(hs[k]) + 1) + 2 = R(k) + 1
    BY <1>12, <1>13, SMTT(40)
  <2> QED
    BY <1>10, <1>11, <2>2, <2>3 DEF FromStep
<1>15. <<hs[k]>> \o SubSeq(hs, k + 1, N) = SubSeq(hs, k, N)
  <2>1. N \in k..Len(hs) /\ k \in 1..Len(hs)
    BY <1>2, <1>9
  <2> QED
    BY <2>1, SubSeqRecursiveFirst
<1> QED
  BY <1>7, <1>9, <1>14, <1>15 DEF k

(***************************************************************************)
(* Where the parts of a message are.                                       *)
(***************************************************************************)

\* Concatenation over tokens.
LEMMA TokenConcat ==
    /\ \A a, b \in Seq(Token) : a \o b \in Seq(Token) /\ Len(a \o b) = Len(a) + Len(b)
    /\ \A a, b, c \in Seq(Token) : (a \o b) \o c = a \o (b \o c)
<1>1. ASSUME NEW a \in Seq(Token), NEW b \in Seq(Token)
      PROVE  a \o b \in Seq(Token) /\ Len(a \o b) = Len(a) + Len(b)
  BY ConcatProperties
<1>2. ASSUME NEW a \in Seq(Token), NEW b \in Seq(Token), NEW c \in Seq(Token)
      PROVE  (a \o b) \o c = a \o (b \o c)
  BY ConcatAssociative
<1> QED
  BY <1>1, <1>2, Zenon

\* The chunks of a message.
LEMMA ChunksAre ==
    ASSUME NEW m \in AnyMessage
    PROVE  /\ Len(m.chunks) \in Nat /\ DOMAIN m.chunks = 1..Len(m.chunks)
           /\ \A j \in 1..Len(m.chunks) :
                  /\ m.chunks[j].size \in Seq(Token) /\ m.chunks[j].data \in Seq(Token)
                  /\ Len(m.chunks[j].size) \in Nat /\ Len(m.chunks[j].data) \in Nat
           /\ Pieces(m) \in Seq(Seq(Token)) /\ Len(Pieces(m)) = Len(m.chunks)
           /\ Contents(m) \in Seq(Seq(Token)) /\ Len(Contents(m)) = Len(m.chunks)
<1>1. m.chunks \in Seq([size : Seq(Token), data : Seq(Token)])
  BY MessageIs
<1>2. Len(m.chunks) \in Nat /\ DOMAIN m.chunks = 1..Len(m.chunks)
  BY <1>1
<1>3. ASSUME NEW j \in 1..Len(m.chunks) PROVE m.chunks[j].size \in Seq(Token) /\ m.chunks[j].data \in Seq(Token)
  <2>1. m.chunks[j] \in [size : Seq(Token), data : Seq(Token)]
    BY <1>1, ElementOfSeq
  <2> QED
    BY <2>1
<1>4. CRLF \in Seq(Token)
  BY DEF CRLF, Token
<1>5. \A j \in 1..Len(m.chunks) : Line(m.chunks[j].size) \o m.chunks[j].data \o CRLF \in Seq(Token)
  BY <1>3, <1>4, LineType, ConcatProperties
<1>6. Pieces(m) \in Seq(Seq(Token)) /\ Len(Pieces(m)) = Len(m.chunks)
  BY <1>2, <1>5, SeqOver DEF Pieces
<1>7. Contents(m) \in Seq(Seq(Token)) /\ Len(Contents(m)) = Len(m.chunks)
  BY <1>2, <1>3, SeqOver DEF Contents
<1> QED
  BY <1>2, <1>3, <1>6, <1>7, LenProperties

\* The bytes after the headers.
Rest(m) ==
    IF m.chunked THEN FlattenSeq(Pieces(m)) \o Line(<<"0">>) \o LinesOf(m.trailers) \o CRLF ELSE m.body

\* The request line, the headers and the rest follow each other.
LEMMA EncodeIs ==
    ASSUME NEW m \in AnyMessage
    PROVE  /\ Rest(m) \in Seq(Token) /\ LineEnd(m) \in Nat /\ BlockEnd(m) \in Nat
           /\ BlockEnd(m) = LineEnd(m) + Len(Closed(m.headers))
           /\ Len(Encode(m)) = BlockEnd(m) + Len(Rest(m))
           /\ At(Encode(m), 0, Line(m.line)) /\ At(Encode(m), LineEnd(m), Closed(m.headers))
           /\ At(Encode(m), BlockEnd(m), Rest(m))
<1> DEFINE l == Line(m.line)
           h == LinesOf(m.headers)
           c == Closed(m.headers)
<1>1. l \in Seq(Token) /\ h \in Seq(Token) /\ Len(l) = Len(m.line) + 2 /\ Len(m.line) \in Nat
  BY MessageIs, LineIs, LinesType
<1>2. c \in Seq(Token) /\ Len(h) \in Nat /\ Len(c) = Len(h) + 2
  BY MessageIs, ClosedIs
<1>3. CRLF \in Seq(Token) /\ <<"0">> \in Seq(Token)
  BY DEF CRLF, Token
<1>4. Rest(m) \in Seq(Token)
  <2>1. FlattenSeq(Pieces(m)) \in Seq(Token)
    BY ChunksAre, FlattenType
  <2>2. LinesOf(m.trailers) \in Seq(Token) /\ Line(<<"0">>) \in Seq(Token) /\ m.body \in Seq(Token)
    BY <1>3, MessageIs, LinesType, LineType
  <2>3. FlattenSeq(Pieces(m)) \o Line(<<"0">>) \o LinesOf(m.trailers) \o CRLF \in Seq(Token)
    BY <1>3, <2>1, <2>2, ConcatProperties
  <2> QED
    BY <2>2, <2>3 DEF Rest
<1>5. Encode(m) = l \o h \o CRLF \o Rest(m)
  BY DEF Encode, Rest, Pieces
<1>6. l \o h \o CRLF = l \o c
  BY <1>1, <1>3, ConcatAssociative, SMTT(40) DEF Closed
<1>7. Encode(m) = (l \o c) \o Rest(m)
  BY <1>5, <1>6
<1>8. LineEnd(m) = Len(l) /\ LineEnd(m) \in Nat /\ BlockEnd(m) = Len(l) + Len(c) /\ BlockEnd(m) \in Nat
  <2>1. BlockEnd(m) = (Len(m.line) + 2) + Len(h) + 2 /\ LineEnd(m) = Len(m.line) + 2
    BY DEF LineEnd, BlockEnd
  <2>2. \A a, b \in Nat : /\ a + 2 \in Nat /\ (a + 2) + b + 2 \in Nat
                         /\ (a + 2) + b + 2 = (a + 2) + (b + 2)
    OBVIOUS
  <2>3. Len(m.line) \in Nat /\ Len(h) \in Nat /\ Len(l) = Len(m.line) + 2 /\ Len(c) = Len(h) + 2
    BY <1>1, <1>2
  <2> HIDE DEF l, h, c
  <2> QED
    BY <2>1, <2>2, <2>3, ZenonT(60)
<1> HIDE DEF l, h, c
<1>9. l \o c \in Seq(Token) /\ Len(l \o c) = BlockEnd(m)
  BY <1>1, <1>2, <1>8, ConcatProperties
<1>10. /\ Encode(m) \in Seq(Token) /\ Len(Encode(m)) = BlockEnd(m) + Len(Rest(m))
       /\ At(Encode(m), 0, l \o c) /\ At(Encode(m), BlockEnd(m), Rest(m))
  BY <1>4, <1>7, <1>9, ConcatProperties, AtConcat
<1>11. At(Encode(m), 0, l) /\ At(Encode(m), 0 + Len(l), c)
  BY <1>1, <1>2, <1>10, AtParts
<1>12. 0 + Len(l) = LineEnd(m)
  BY <1>8
<1>13. BlockEnd(m) = LineEnd(m) + Len(c)
  BY <1>8
<1> QED
  BY <1>4, <1>8, <1>10, <1>11, <1>12, <1>13 DEF l, c

\* A chunk's size line, its data and the line break after them.
LEMMA PieceAt ==
    ASSUME NEW m \in AnyMessage, m.chunked, NEW j \in 1..Len(m.chunks)
    PROVE  /\ ChunkEnd(m, j - 1) \in Nat
           /\ ChunkEnd(m, j) = ChunkEnd(m, j - 1) + Len(m.chunks[j].size) + 2 + Len(m.chunks[j].data) + 2
           /\ At(Encode(m), ChunkEnd(m, j - 1), Line(m.chunks[j].size))
           /\ At(Encode(m), ChunkEnd(m, j - 1) + Len(m.chunks[j].size) + 2, m.chunks[j].data)
           /\ At(Encode(m), ChunkEnd(m, j - 1) + Len(m.chunks[j].size) + 2 + Len(m.chunks[j].data), CRLF)
<1> DEFINE ps == Pieces(m)
           l == Line(m.chunks[j].size)
           d == m.chunks[j].data
           r == Reach(ps, j - 1)
           z == FlattenSeq(ps)
           tl == Line(<<"0">>) \o LinesOf(m.trailers) \o CRLF
<1>1. /\ ps \in Seq(Seq(Token)) /\ Len(ps) = Len(m.chunks) /\ Len(m.chunks) \in Nat
      /\ m.chunks[j].size \in Seq(Token) /\ d \in Seq(Token) /\ Len(m.chunks[j].size) \in Nat /\ Len(d) \in Nat
  BY ChunksAre
<1>2. l \in Seq(Token) /\ Len(l) = Len(m.chunks[j].size) + 2
  BY <1>1, LineIs
<1>3. CRLF \in Seq(Token) /\ Len(CRLF) = 2 /\ <<"0">> \in Seq(Token)
  BY DEF CRLF, Token
<1>4. ps[j] = l \o d \o CRLF
  BY ChunksAre DEF Pieces
<1>5. l \o d \in Seq(Token) /\ Len(l \o d) = Len(l) + Len(d)
  BY <1>1, <1>2, ConcatProperties
<1>6. ps[j] \in Seq(Token) /\ Len(ps[j]) = (Len(l) + Len(d)) + 2
  <2> HIDE DEF ps, l, d
  <2>1. (l \o d) \o CRLF \in Seq(Token) /\ Len((l \o d) \o CRLF) = Len(l \o d) + Len(CRLF)
    <3>1. l \o d \in Seq(Token) /\ CRLF \in Seq(Token)
      BY <1>3, <1>5
    <3> QED
      BY <3>1, TokenConcat, Zenon
  <2> QED
    BY <1>3, <1>4, <1>5, <2>1
<1>7. j - 1 \in 0..(Len(ps) - 1) /\ (j - 1) + 1 = j /\ j - 1 \in 0..Len(ps)
  BY <1>1
<1>8. z \in Seq(Token)
  BY <1>1, FlattenType
<1>9. At(Rest(m), 0, z) /\ Rest(m) \in Seq(Token)
  <2>1. LinesOf(m.trailers) \in Seq(Token) /\ Line(<<"0">>) \in Seq(Token)
    BY <1>3, MessageIs, LinesType, LineType
  <2>2. z \o Line(<<"0">>) \in Seq(Token) /\ z \o Line(<<"0">>) \o LinesOf(m.trailers) \in Seq(Token)
    BY <1>8, <2>1, ConcatProperties
  <2>3. Rest(m) = z \o Line(<<"0">>) \o LinesOf(m.trailers) \o CRLF
    BY DEF Rest
  <2>4. Rest(m) \in Seq(Token) /\ At(Rest(m), 0, z \o Line(<<"0">>) \o LinesOf(m.trailers))
    BY <1>3, <2>2, <2>3, AtConcat, ConcatProperties
  <2>5. At(Rest(m), 0, z \o Line(<<"0">>))
    BY <2>1, <2>2, <2>4, AtParts
  <2> QED
    BY <1>8, <2>1, <2>4, <2>5, AtParts
<1>10. At(z, r, ps[j]) /\ r \in Nat
  <2> HIDE DEF ps
  <2>1. At(FlattenSeq(ps), Reach(ps, j - 1), ps[(j - 1) + 1])
    BY <1>1, <1>7, FlattenAt
  <2>2. Reach(ps, j - 1) \in Nat
    BY <1>1, <1>7, ReachIs
  <2> QED
    BY <1>7, <2>1, <2>2
<1>11. Reach(ps, j) = r + Len(ps[j])
  <2> HIDE DEF ps
  <2>1. \A i \in 0..(Len(ps) - 1) : Reach(ps, i + 1) = Reach(ps, i) + Len(ps[i + 1])
    BY <1>1, ReachIs
  <2>2. Reach(ps, (j - 1) + 1) = Reach(ps, j - 1) + Len(ps[(j - 1) + 1])
    BY <1>7, <2>1
  <2> QED
    BY <1>7, <2>2
<1>12. /\ Encode(m) \in Seq(Token) /\ BlockEnd(m) \in Nat /\ At(Encode(m), BlockEnd(m), Rest(m))
  BY EncodeType, EncodeIs
<1> DEFINE e == ChunkEnd(m, j - 1)
<1>13. e = BlockEnd(m) + r /\ e \in Nat /\ ChunkEnd(m, j) = BlockEnd(m) + Reach(ps, j)
  BY <1>10, <1>12 DEF ChunkEnd
<1>14. ChunkEnd(m, j) = e + Len(m.chunks[j].size) + 2 + Len(d) + 2
  <2>2. BlockEnd(m) \in Nat /\ r \in Nat /\ Len(m.chunks[j].size) \in Nat /\ Len(d) \in Nat
    BY <1>1, <1>10, <1>12
  <2> HIDE DEF e, r, ps, l, d
  <2>3. ChunkEnd(m, j) = BlockEnd(m) + (r + (((Len(m.chunks[j].size) + 2) + Len(d)) + 2))
    BY <1>2, <1>6, <1>11, <1>13
  <2> QED
    <3>1. e = BlockEnd(m) + r
      BY <1>13
    <3>2. ChunkEnd(m, j) = (BlockEnd(m) + r) + Len(m.chunks[j].size) + 2 + Len(d) + 2
      BY <2>2, <2>3, SMTT(40)
    <3> QED
      BY <3>1, <3>2, Zenon
<1> HIDE DEF ps, l, d, r, z, e
<1>15. At(Encode(m), e, ps[j])
  <2>1. At(Encode(m), BlockEnd(m) + 0, z)
    BY <1>8, <1>9, <1>12, AtWithin
  <2>2. BlockEnd(m) + 0 = BlockEnd(m)
    BY <1>12
  <2>3. At(Encode(m), BlockEnd(m) + r, ps[j])
    BY <1>6, <1>8, <1>10, <1>12, <2>1, <2>2, AtWithin
  <2> QED
    BY <1>13, <2>3
<1>16. At(Encode(m), e, l \o d) /\ At(Encode(m), e + Len(l \o d), CRLF)
  <2>1. At(Encode(m), e, (l \o d) \o CRLF) /\ CRLF \in Seq(Token) /\ l \o d \in Seq(Token)
    BY <1>3, <1>4, <1>5, <1>15
  <2>2. Encode(m) \in Seq(Token) /\ e \in Nat
    BY <1>12, <1>13
  <2> QED
    BY <2>1, <2>2, AtParts
<1>17. At(Encode(m), e, l) /\ At(Encode(m), e + Len(l), d)
  BY <1>1, <1>2, <1>12, <1>13, <1>16, AtParts
<1>18. /\ e + Len(l) = e + Len(m.chunks[j].size) + 2
       /\ e + Len(l \o d) = e + Len(m.chunks[j].size) + 2 + Len(d)
  <2>1. \A a, x, y \in Nat : a + (x + 2) = a + x + 2 /\ a + ((x + 2) + y) = a + x + 2 + y
    OBVIOUS
  <2>2. e \in Nat /\ Len(m.chunks[j].size) \in Nat /\ Len(d) \in Nat
    BY <1>1, <1>13
  <2> QED
    BY <1>2, <1>5, <2>1, <2>2
<1> QED
  BY <1>13, <1>14, <1>16, <1>17, <1>18 DEF e, l, d

\* The last size line and the trailers.
LEMMA LastAt ==
    ASSUME NEW m \in AnyMessage, m.chunked
    PROVE  /\ ChunkEnd(m, Len(m.chunks)) \in Nat /\ LastEnd(m) = ChunkEnd(m, Len(m.chunks)) + 3
           /\ At(Encode(m), ChunkEnd(m, Len(m.chunks)), Line(<<"0">>))
           /\ At(Encode(m), LastEnd(m), Closed(m.trailers))
           /\ Len(Encode(m)) = LastEnd(m) + Len(Closed(m.trailers))
           /\ ChunkEnd(m, 0) = BlockEnd(m)
<1> DEFINE z == FlattenSeq(Pieces(m))
           o == Line(<<"0">>)
           t == LinesOf(m.trailers)
           c == Closed(m.trailers)
<1>1. z \in Seq(Token) /\ Len(z) \in Nat
  BY ChunksAre, FlattenType, LenProperties
<1>2. <<"0">> \in Seq(Token) /\ Len(<<"0">>) = 1 /\ CRLF \in Seq(Token)
  BY DEF CRLF, Token
<1>3. o \in Seq(Token) /\ Len(o) = 3
  <2>1. \A l \in Seq(Token) : Line(l) \in Seq(Token) /\ Len(Line(l)) = Len(l) + 2
    BY LineIs
  <2>2. o \in Seq(Token) /\ Len(o) = Len(<<"0">>) + 2
    BY <1>2, <2>1
  <2> QED
    BY <1>2, <2>2
<1>4. t \in Seq(Token) /\ c \in Seq(Token) /\ Len(c) \in Nat
  BY MessageIs, LinesType, ClosedIs, LenProperties
<1>5. Rest(m) = z \o o \o t \o CRLF
  BY DEF Rest
<1>6. z \o o \in Seq(Token) /\ Len(z \o o) = Len(z) + 3
  <2> HIDE DEF z, o
  <2>1. z \o o \in Seq(Token) /\ Len(z \o o) = Len(z) + Len(o)
    <3>1. z \in Seq(Token) /\ o \in Seq(Token)
      BY <1>1, <1>3
    <3> QED
      BY <3>1, TokenConcat, Zenon
  <2> QED
    BY <1>3, <2>1
<1>7. Rest(m) = (z \o o) \o c
  <2>1. c = t \o CRLF
    BY DEF Closed
  <2> HIDE DEF z, o, t, c
  <2>2. ((z \o o) \o t) \o CRLF = (z \o o) \o (t \o CRLF)
    <3>1. z \o o \in Seq(Token) /\ t \in Seq(Token) /\ CRLF \in Seq(Token)
      BY <1>2, <1>4, <1>6
    <3> QED
      BY <3>1, TokenConcat, Zenon
  <2> QED
    BY <1>5, <2>1, <2>2
<1> HIDE DEF z, o, t, c
<1>8. /\ Rest(m) \in Seq(Token) /\ Len(Rest(m)) = Len(z) + 3 + Len(c)
      /\ At(Rest(m), 0, z \o o) /\ At(Rest(m), Len(z) + 3, c)
  <2>1. (z \o o) \o c \in Seq(Token) /\ Len((z \o o) \o c) = Len(z \o o) + Len(c)
    BY <1>4, <1>6, ConcatProperties
  <2>2. At((z \o o) \o c, 0, z \o o) /\ At((z \o o) \o c, Len(z \o o), c)
    BY <1>4, <1>6, AtConcat
  <2> QED
    BY <1>6, <1>7, <2>1, <2>2
<1>9. At(Rest(m), 0 + Len(z), o)
  BY <1>1, <1>3, <1>8, AtParts
<1>10. 0 + Len(z) = Len(z)
  BY <1>1
<1>11. /\ Encode(m) \in Seq(Token) /\ BlockEnd(m) \in Nat /\ At(Encode(m), BlockEnd(m), Rest(m))
       /\ Len(Encode(m)) = BlockEnd(m) + Len(Rest(m))
  BY EncodeType, EncodeIs
<1>12. At(Encode(m), BlockEnd(m) + Len(z), o) /\ At(Encode(m), BlockEnd(m) + (Len(z) + 3), c)
  BY <1>1, <1>3, <1>4, <1>8, <1>9, <1>10, <1>11, AtWithin
<1>13. Reach(Pieces(m), Len(m.chunks)) = Len(z) /\ Reach(Pieces(m), 0) = 0
  BY ChunksAre, ReachIs DEF z
<1>14. /\ ChunkEnd(m, Len(m.chunks)) = BlockEnd(m) + Len(z) /\ ChunkEnd(m, 0) = BlockEnd(m)
       /\ ChunkEnd(m, Len(m.chunks)) \in Nat
  BY <1>1, <1>11, <1>13 DEF ChunkEnd
<1>15. LastEnd(m) = BlockEnd(m) + (Len(z) + 3)
  BY <1>1, <1>11, <1>14 DEF LastEnd
<1>16. Len(Encode(m)) = LastEnd(m) + Len(c)
  BY <1>1, <1>4, <1>8, <1>11, <1>15
<1> QED
  BY <1>12, <1>14, <1>15, <1>16 DEF LastEnd, o, c

(***************************************************************************)
(* The stream of messages.                                                 *)
(***************************************************************************)

\* The stream is its messages, flattened.
LEMMA PartsAre ==
    ASSUME sent \in Seq(AnyMessage), tail \in Seq(Token)
    PROVE  /\ Parts \in Seq(Seq(Token)) /\ Len(Parts) = Len(sent) /\ Len(sent) \in Nat
           /\ \A i \in 1..Len(sent) : Parts[i] = Encode(sent[i]) /\ sent[i] \in AnyMessage
           /\ Wire = FlattenSeq(Parts) \o tail
           /\ \A k \in 0..Len(sent) : Extent(k) = Reach(Parts, k)
<1>1. \A i \in 1..Len(sent) : sent[i] \in AnyMessage /\ Encode(sent[i]) \in Seq(Token)
  BY EncodeType
<1>2. DOMAIN sent = 1..Len(sent) /\ Len(sent) \in Nat
  OBVIOUS
<1>3. Parts \in Seq(Seq(Token)) /\ Len(Parts) = Len(sent)
  BY <1>1, <1>2, SeqOver DEF Parts
<1>4. \A i \in 1..Len(sent) : Parts[i] = Encode(sent[i])
  BY <1>2 DEF Parts
<1>5. Wire = FlattenSeq(Parts) \o tail
  BY DEF Wire, Parts
<1>8. ASSUME NEW k \in 0..Len(sent) PROVE Extent(k) = Reach(Parts, k)
  <2>1. \A i \in 1..k : i \in 1..Len(sent)
    BY <1>2
  <2>2. [i \in 1..k |-> Parts[i]] = [i \in 1..k |-> Encode(sent[i])]
    BY <1>4, <2>1
  <2> QED
    BY <2>2 DEF Extent, Reach
<1> QED
  BY <1>1, <1>2, <1>3, <1>4, <1>5, <1>8

\* Where each message is in the stream.
LEMMA ExtentIs ==
    ASSUME sent \in Seq(AnyMessage), tail \in Seq(Token)
    PROVE  /\ Len(sent) \in Nat /\ Extent(0) = 0 /\ Len(Wire) = Extent(Len(sent)) + Len(tail)
           /\ At(Wire, Extent(Len(sent)), tail)
           /\ \A k \in 0..Len(sent) : Extent(k) \in Nat
           /\ \A k \in 0..(Len(sent) - 1) :
                  /\ sent[k + 1] \in AnyMessage /\ Encode(sent[k + 1]) \in Seq(Token)
                  /\ Extent(k + 1) = Extent(k) + Len(Encode(sent[k + 1]))
                  /\ At(Wire, Extent(k), Encode(sent[k + 1]))
<1>1. /\ Parts \in Seq(Seq(Token)) /\ Len(Parts) = Len(sent) /\ Len(sent) \in Nat
      /\ \A i \in 1..Len(sent) : Parts[i] = Encode(sent[i]) /\ sent[i] \in AnyMessage
      /\ Wire = FlattenSeq(Parts) \o tail
      /\ \A k \in 0..Len(sent) : Extent(k) = Reach(Parts, k)
  BY PartsAre
<1>2. /\ Reach(Parts, 0) = 0 /\ Reach(Parts, Len(sent)) = Len(FlattenSeq(Parts))
      /\ \A k \in 0..Len(sent) : Reach(Parts, k) \in Nat
      /\ \A k \in 0..(Len(sent) - 1) : Reach(Parts, k + 1) = Reach(Parts, k) + Len(Parts[k + 1])
  BY <1>1, ReachIs
<1>3. 0 \in 0..Len(sent) /\ Len(sent) \in 0..Len(sent)
  BY <1>1
<1>4. Extent(0) = 0 /\ Extent(Len(sent)) = Len(FlattenSeq(Parts)) /\ \A k \in 0..Len(sent) : Extent(k) \in Nat
  BY <1>1, <1>2, <1>3
<1>5. /\ FlattenSeq(Parts) \in Seq(Token) /\ Wire \in Seq(Token)
      /\ At(Wire, 0, FlattenSeq(Parts)) /\ At(Wire, Len(FlattenSeq(Parts)), tail)
      /\ Len(Wire) = Len(FlattenSeq(Parts)) + Len(tail)
  <2>1. FlattenSeq(Parts) \in Seq(Token)
    BY <1>1, FlattenType
  <2> QED
    BY <1>1, <2>1, AtConcat, ConcatProperties
<1>6. ASSUME NEW k \in 0..(Len(sent) - 1)
      PROVE  /\ sent[k + 1] \in AnyMessage /\ Encode(sent[k + 1]) \in Seq(Token)
             /\ Extent(k + 1) = Extent(k) + Len(Encode(sent[k + 1]))
             /\ At(Wire, Extent(k), Encode(sent[k + 1]))
  <2>1. k + 1 \in 1..Len(sent) /\ k \in 0..Len(sent) /\ k + 1 \in 0..Len(sent) /\ k \in 0..(Len(Parts) - 1)
    BY <1>1
  <2>2. sent[k + 1] \in AnyMessage /\ Parts[k + 1] = Encode(sent[k + 1])
    BY <1>1, <2>1
  <2>3. Encode(sent[k + 1]) \in Seq(Token)
    BY <2>2, EncodeType
  <2>4. Extent(k) = Reach(Parts, k) /\ Extent(k + 1) = Reach(Parts, k + 1)
    BY <1>1, <2>1
  <2>5. At(FlattenSeq(Parts), Reach(Parts, k), Parts[k + 1])
    BY <1>1, <2>1, FlattenAt
  <2>6. Reach(Parts, k) \in Nat /\ Reach(Parts, k + 1) = Reach(Parts, k) + Len(Parts[k + 1])
    BY <1>2, <2>1
  <2>7. At(Wire, 0 + Reach(Parts, k), Parts[k + 1])
    BY <1>5, <2>2, <2>3, <2>5, <2>6, AtWithin
  <2>8. 0 + Reach(Parts, k) = Reach(Parts, k)
    BY <2>6
  <2> QED
    BY <2>2, <2>3, <2>4, <2>6, <2>7, <2>8
<1> QED
  BY <1>1, <1>4, <1>5, <1>6

\* What the handlers see of the stream.
LEMMA RemainingAt ==
    ASSUME Typed, NEW i \in 1..Len(Remaining)
    PROVE  Remaining[i] = Wire[base + consumed + i]
<1>1. /\ Wire \in Seq(Token) /\ Len(Data) = arrived - base /\ Len(Remaining) = arrived - base - consumed
      /\ arrived \in Nat /\ base \in Nat /\ consumed \in Nat /\ Len(Wire) \in Nat
      /\ arrived <= Len(Wire) /\ base <= arrived /\ consumed <= arrived - base
  BY RemainingIs
<1>2. \A j \in (base + 1)..arrived : Wire[j] \in Token
  <2>1. \A j \in (base + 1)..arrived : j \in 1..Len(Wire)
    BY <1>1
  <2> QED
    BY <1>1, <2>1, ElementOfSeq
<1>3. /\ Data \in Seq(Token)
      /\ \A j \in 1..(arrived - (base + 1) + 1) : Data[j] = Wire[(base + 1) + j - 1]
  <2>1. base + 1 \in Int /\ arrived \in Int
    BY <1>1
  <2> QED
    BY <1>2, <2>1, SubSeqProperties DEF Data
<1>4. ASSUME NEW j \in 1..Len(Data) PROVE Data[j] = Wire[base + j] /\ Data[j] \in Token
  <2>1. j \in 1..(arrived - (base + 1) + 1) /\ (base + 1) + j - 1 = base + j
    BY <1>1
  <2> QED
    BY <1>3, <2>1, ElementOfSeq
<1>5. \A j \in (consumed + 1)..Len(Data) : Data[j] \in Token
  BY <1>1, <1>4
<1>6. \A j \in 1..(Len(Data) - (consumed + 1) + 1) : Remaining[j] = Data[(consumed + 1) + j - 1]
  <2>1. consumed + 1 \in Int /\ Len(Data) \in Int
    BY <1>1
  <2> QED
    BY <1>5, <2>1, SubSeqProperties DEF Remaining
<1>7. /\ i \in 1..(Len(Data) - (consumed + 1) + 1) /\ (consumed + 1) + i - 1 = consumed + i
      /\ consumed + i \in 1..Len(Data) /\ base + (consumed + i) = base + consumed + i
  BY <1>1
<1> QED
  BY <1>4, <1>6, <1>7

\* What remains begins with the part of the current message at which the parser is.
LEMMA SeesPart ==
    ASSUME Typed, NEW n \in 0..(Len(sent) - 1), base = Extent(n),
           NEW t \in Seq(Token), At(Encode(sent[n + 1]), consumed, t)
    PROVE  /\ Sees(Remaining, t)
           /\ Len(Remaining) < Len(t) => arrived < base + Len(Encode(sent[n + 1]))
           /\ consumed + Len(t) <= Len(Encode(sent[n + 1]))
<1>1. sent \in Seq(AnyMessage) /\ tail \in Seq(Token)
  BY DEF Typed
<1>2. /\ Encode(sent[n + 1]) \in Seq(Token) /\ At(Wire, Extent(n), Encode(sent[n + 1])) /\ Len(sent) \in Nat
  BY <1>1, ExtentIs
<1>3. /\ Wire \in Seq(Token) /\ Len(Remaining) = arrived - base - consumed
      /\ arrived \in Nat /\ base \in Nat /\ consumed \in Nat
  BY RemainingIs
<1>4. At(Wire, base + consumed, t)
  BY <1>2, <1>3, AtWithin
<1>5. ASSUME NEW i \in 1..Len(Remaining), i <= Len(t) PROVE Remaining[i] = t[i]
  <2>1. Remaining[i] = Wire[base + consumed + i]
    BY RemainingAt
  <2>2. i \in 1..Len(t)
    BY <1>5, <1>3, LenProperties
  <2> QED
    BY <1>4, <2>1, <2>2 DEF At
<1>6. consumed + Len(t) <= Len(Encode(sent[n + 1])) /\ Len(t) \in Nat /\ Len(Encode(sent[n + 1])) \in Nat
  BY <1>2, LenProperties DEF At
<1>7. Len(Remaining) < Len(t) => arrived < base + Len(Encode(sent[n + 1]))
  BY <1>3, <1>6, SMTT(40)
<1> QED
  BY <1>5, <1>6, <1>7 DEF Sees

(***************************************************************************)
(* What the handlers find in a legal message.                              *)
(***************************************************************************)

\* s has all of t.
LEMMA SeesAll ==
    ASSUME NEW s \in Seq(Token), NEW t \in Seq(Token), Sees(s, t), NEW n \in Nat, n <= Len(s), n <= Len(t)
    PROVE  SubSeq(s, 1, n) = SubSeq(t, 1, n)
<1>1. Len(s) \in Nat /\ Len(t) \in Nat
  BY LenProperties
<1>2. /\ SubSeq(s, 1, n) \in Seq(Token) /\ Len(SubSeq(s, 1, n)) = n
      /\ SubSeq(t, 1, n) \in Seq(Token) /\ Len(SubSeq(t, 1, n)) = n
  BY <1>1, SubSeqIs
<1>3. \A i \in 1..n : SubSeq(s, 1, n)[i] = s[i] /\ SubSeq(t, 1, n)[i] = t[i]
  BY <1>1
<1>4. \A i \in 1..n : s[i] = t[i]
  BY <1>1 DEF Sees
<1> QED
  BY <1>2, <1>3, <1>4, SeqEqual

\* The lines of a legal message and their limits.
LEMMA LegalLines ==
    ASSUME NEW m \in AnyMessage, Legal(m)
    PROVE  /\ Unbroken(m.line) /\ ValidRequestLine(m.line) /\ Len(m.line) < MAX_REQUEST_LINE
           /\ Block(m.headers) /\ Len(m.headers) \in 1..MAX_HEADERS
           /\ Len(LinesOf(m.headers)) + 1 <= MAX_HEADER_SIZE
           /\ Block(m.trailers) /\ Len(m.trailers) <= MAX_HEADERS
           /\ Len(LinesOf(m.trailers)) + 1 <= MAX_HEADER_SIZE
           /\ \A i \in 1..Len(m.headers) : WellFormed(m.headers[i])
           /\ \A i \in 1..Len(m.trailers) : WellFormed(m.trailers[i])
           /\ Len(Meaning(m).body) <= MAX_BODY_SIZE
           /\ m.chunked => 1 < MAX_CHUNK_LINE_SIZE
<1>1. m.headers \in Seq(Seq(Token)) /\ m.trailers \in Seq(Seq(Token))
  BY MessageIs
<1>2. ASSUME NEW hs \in {m.headers, m.trailers}, NEW i \in 1..Len(hs)
      PROVE  WellFormed(hs[i]) /\ Unbroken(hs[i]) /\ Len(hs[i]) >= 1
  <2>1. i \in DOMAIN hs /\ hs[i] \in Seq(Token)
    BY <1>1, ElementOfSeq
  <2>2. hs[i] \in Range(hs)
    BY <2>1 DEF Range
  <2>3. WellFormed(hs[i]) /\ Unbroken(hs[i])
    BY <2>2 DEF Legal
  <2>4. Len(hs[i]) \in Nat
    BY <2>1, LenProperties
  <2> QED
    BY <2>3, <2>4 DEF WellFormed
<1>3. Block(m.headers) /\ Block(m.trailers)
  BY <1>2 DEF Block
<1>4. /\ Len(LinesOf(m.headers)) \in Nat /\ Len(LinesOf(m.trailers)) \in Nat
  BY <1>1, ClosedIs
<1>5. Len(LinesOf(m.headers)) + 1 <= MAX_HEADER_SIZE /\ Len(LinesOf(m.trailers)) + 1 <= MAX_HEADER_SIZE
  BY <1>4 DEF Legal, Roomy
<1>6. ValidRequestLine(m.line)
  BY DEF Legal, ValidRequestLine
<1> QED
  BY <1>2, <1>3, <1>5, <1>6 DEF Legal

\* A number is spelt in one way.
LEMMA NumberOne == \A s, t \in DOMAIN Number : Number[s] = Number[t] => s = t
  BY DEF Number

\* The value of a header is that of one of the lines with its name.
LEMMA HeaderIs ==
    ASSUME NEW hs \in Seq(Seq(Token)), NEW name
    PROVE  \/ Header(hs, name) = "" /\ \A i \in 1..Len(hs) : hs[i][1] # name
           \/ \E i \in 1..Len(hs) : hs[i][1] = name /\ Header(hs, name) = hs[i][2]
<1> DEFINE T == {i \in DOMAIN hs : hs[i][1] = name}
<1>1. DOMAIN hs = 1..Len(hs) /\ Len(hs) \in Nat
  OBVIOUS
<1>2. Header(hs, name) = IF T = {} THEN "" ELSE hs[Min(T)][2]
  BY DEF Header
<1>3. CASE T = {}
  BY <1>1, <1>2, <1>3
<1>4. CASE T # {}
  <2>1. T \subseteq Nat
    BY <1>1
  <2>2. Min(T) \in T
    <3> HIDE DEF T
    <3> QED
      BY <1>4, <2>1, MinOf
  <2>3. Min(T) \in 1..Len(hs) /\ hs[Min(T)][1] = name
    BY <1>1, <2>2
  <2> HIDE DEF T
  <2> QED
    BY <1>2, <1>4, <2>3
<1> QED
  BY <1>3, <1>4

\* The headers of a legal message are accepted and say how its body is framed.
LEMMA LegalFraming ==
    ASSUME NEW m \in AnyMessage, Legal(m)
    PROVE  /\ ValidHeaders(m.headers)
           /\ m.chunked => Framing(m.headers) = "chunked"
           /\ ~m.chunked => \/ Framing(m.headers) = "none" /\ m.body = << >>
                            \/ /\ Framing(m.headers) = "length"
                               /\ Number[Header(m.headers, "Content-Length")] = Len(m.body)
<1> DEFINE hs == m.headers
           cl == Header(hs, "Content-Length")
           te == Header(hs, "Transfer-Encoding")
<1>1. /\ hs \in Seq(Seq(Token)) /\ DOMAIN hs = 1..Len(hs) /\ m.chunked \in BOOLEAN /\ m.body \in Seq(Token)
  BY MessageIs
<1>2. ASSUME NEW i \in 1..Len(hs)
      PROVE  /\ hs[i][1] = "Content-Length" =>
                    ~m.chunked /\ hs[i][2] \in DOMAIN Number /\ Number[hs[i][2]] = Len(m.body)
             /\ hs[i][1] = "Transfer-Encoding" => hs[i][2] = "chunked" /\ m.chunked
  <2>1. hs[i] \in Range(hs)
    BY <1>1 DEF Range
  <2>2. hs[i][1] = "Transfer-Encoding" => m.chunked
    BY <1>1 DEF Legal, HasHeader
  <2> QED
    BY <2>1, <2>2 DEF Legal
<1>3. ValidHeaders(hs)
  <2>1. Len(hs) <= MAX_HEADERS /\ \A i \in DOMAIN hs : WellFormed(hs[i])
    <3>1. Len(hs) \in 1..MAX_HEADERS /\ \A i \in 1..Len(hs) : WellFormed(hs[i])
      BY LegalLines
    <3>2. MAX_HEADERS \in Nat
      BY LimitsPositive DEF Limits
    <3> QED
      BY <1>1, <3>1, <3>2
  <2>2. ASSUME NEW i \in DOMAIN hs, hs[i][1] = "Content-Length"
        PROVE  Header(hs, "Content-Length") \in {"", hs[i][2]}
    <3>1. \/ cl = "" /\ \A j \in 1..Len(hs) : hs[j][1] # "Content-Length"
          \/ \E j \in 1..Len(hs) : hs[j][1] = "Content-Length" /\ cl = hs[j][2]
      BY <1>1, HeaderIs, ZenonT(60)
    <3> HIDE DEF cl
    <3>2. cl \in {"", hs[i][2]}
      BY <1>1, <1>2, <2>2, <3>1, NumberOne
    <3> QED
      BY <3>2 DEF cl
  <2> QED
    BY <2>1, <2>2 DEF ValidHeaders
<1>4. "" \notin DOMAIN Number
  BY DEF Number
<1>5. \/ cl = "" /\ \A i \in 1..Len(hs) : hs[i][1] # "Content-Length"
      \/ cl \in DOMAIN Number /\ Number[cl] = Len(m.body) /\ ~m.chunked
  <2>1. \/ cl = "" /\ \A i \in 1..Len(hs) : hs[i][1] # "Content-Length"
        \/ \E i \in 1..Len(hs) : hs[i][1] = "Content-Length" /\ cl = hs[i][2]
    BY <1>1, HeaderIs, ZenonT(60)
  <2> HIDE DEF cl
  <2> QED
    BY <1>2, <2>1
<1>6. \/ te = "" /\ \A i \in 1..Len(hs) : hs[i][1] # "Transfer-Encoding"
      \/ te = "chunked" /\ m.chunked
  <2>1. \/ te = "" /\ \A i \in 1..Len(hs) : hs[i][1] # "Transfer-Encoding"
        \/ \E i \in 1..Len(hs) : hs[i][1] = "Transfer-Encoding" /\ te = hs[i][2]
    BY <1>1, HeaderIs, ZenonT(60)
  <2> HIDE DEF te
  <2> QED
    BY <1>2, <2>1
<1> HIDE DEF cl, te
<1>7. CASE m.chunked
  <2>1. cl = "" /\ te = "chunked"
    <3>1. \E i \in 1..Len(hs) : hs[i][1] = "Transfer-Encoding"
      BY <1>1, <1>7 DEF Legal, HasHeader
    <3>2. te = "chunked"
      BY <1>6, <3>1
    <3>3. cl = ""
      BY <1>5, <1>7
    <3> QED
      BY <3>2, <3>3
  <2>2. Framing(hs) = "chunked"
    BY <2>1 DEF Framing, cl, te
  <2> QED
    BY <1>3, <1>7, <2>2
<1>8. CASE ~m.chunked
  <2>1. te = ""
    BY <1>6, <1>8
  <2>2. CASE cl = ""
    <3>1. Framing(hs) = "none"
      BY <2>1, <2>2 DEF Framing, cl, te
    <3>2. \A i \in 1..Len(hs) : hs[i][1] # "Content-Length"
      BY <1>4, <1>5, <2>2
    <3>3. m.body = << >>
      BY <1>1, <1>8, <3>2 DEF Legal, HasHeader
    <3> QED
      BY <1>3, <1>8, <3>1, <3>3
  <2>3. CASE cl # ""
    <3>1. cl \in DOMAIN Number /\ Number[cl] = Len(m.body)
      BY <1>5, <2>3
    <3>2. Len(m.body) <= MAX_BODY_SIZE
      <4>1. Meaning(m).body = m.body
        BY <1>8 DEF Meaning
      <4> QED
        BY <4>1, LegalLines
    <3>3. Number[cl] <= MAX_BODY_SIZE
      BY <3>1, <3>2
    <3>4. Framing(hs) = "length"
      BY <2>1, <2>3, <3>1, <3>3 DEF Framing, cl, te
    <3> QED
      BY <1>3, <1>8, <3>1, <3>4 DEF cl
  <2> QED
    BY <2>2, <2>3
<1> QED
  BY <1>1, <1>7, <1>8

\* A chunk of a legal message.
LEMMA LegalChunk ==
    ASSUME NEW m \in AnyMessage, Legal(m), NEW j \in 1..Len(m.chunks)
    PROVE  /\ Unbroken(m.chunks[j].size) /\ Len(m.chunks[j].size) \in 1..(MAX_CHUNK_LINE_SIZE - 1)
           /\ m.chunks[j].size[1] \in DOMAIN Number
           /\ Number[m.chunks[j].size[1]] = Len(m.chunks[j].data) /\ Len(m.chunks[j].data) > 0
<1>1. j \in DOMAIN m.chunks /\ m.chunks[j].data \in Seq(Token)
  BY ChunksAre
<1>2. m.chunks[j] \in Range(m.chunks)
  BY <1>1 DEF Range
<1>3. /\ Unbroken(m.chunks[j].size) /\ Len(m.chunks[j].size) \in 1..(MAX_CHUNK_LINE_SIZE - 1)
      /\ m.chunks[j].size[1] \in DOMAIN Number
      /\ Number[m.chunks[j].size[1]] = Len(m.chunks[j].data) /\ m.chunks[j].data # << >>
  BY <1>2 DEF Legal
<1>4. Len(m.chunks[j].data) \in Nat /\ Len(m.chunks[j].data) # 0
  BY <1>1, <1>3, EmptySeq, LenProperties
<1> QED
  BY <1>3, <1>4

\* The data of the chunks adds up to the body.
LEMMA BroughtIs ==
    ASSUME NEW m \in AnyMessage
    PROVE  /\ Brought(m, 0) = << >>
           /\ \A j \in 0..Len(m.chunks) : Brought(m, j) \in Seq(Token) /\ Len(Brought(m, j)) \in Nat
           /\ \A j \in 1..Len(m.chunks) : Brought(m, j) = Brought(m, j - 1) \o m.chunks[j].data
           /\ m.chunked => Meaning(m).body = Brought(m, Len(m.chunks))
<1> DEFINE cs == Contents(m)
<1>1. cs \in Seq(Seq(Token)) /\ Len(cs) = Len(m.chunks) /\ Len(m.chunks) \in Nat
  BY ChunksAre
<1>2. \A j : Brought(m, j) = FlattenSeq(First(cs, j))
  BY DEF Brought, First
<1>3. \A j \in 1..Len(m.chunks) : cs[j] = m.chunks[j].data
  BY ChunksAre DEF Contents
<1>4. Meaning(m).body = IF m.chunked THEN FlattenSeq(cs) ELSE m.body
  BY DEF Meaning, Contents
<1> HIDE DEF cs
<1>5. ASSUME NEW j \in 0..Len(m.chunks) PROVE Brought(m, j) \in Seq(Token) /\ Len(Brought(m, j)) \in Nat
  BY <1>1, <1>2, ReachIs, LenProperties
<1>6. Brought(m, 0) = << >>
  <2>1. 0 \in 0..Len(m.chunks)
    BY <1>1
  <2>2. Len(Brought(m, 0)) = 0
    BY <1>1, <1>2, ReachIs DEF Reach, First
  <2> QED
    BY <1>5, <2>1, <2>2, EmptySeq
<1>7. ASSUME NEW j \in 1..Len(m.chunks) PROVE Brought(m, j) = Brought(m, j - 1) \o m.chunks[j].data
  <2>1. j - 1 \in 0..(Len(cs) - 1) /\ (j - 1) + 1 = j
    BY <1>1
  <2>2. FlattenSeq(First(cs, (j - 1) + 1)) = FlattenSeq(First(cs, j - 1)) \o cs[(j - 1) + 1]
    BY <1>1, <2>1, FlattenStep
  <2> QED
    BY <1>2, <1>3, <2>1, <2>2
<1>8. Brought(m, Len(m.chunks)) = FlattenSeq(cs)
  BY <1>1, <1>2, FirstAll
<1> QED
  BY <1>4, <1>5, <1>6, <1>7, <1>8

\* The chunks so far fit into a body.
LEMMA BroughtFits ==
    ASSUME NEW m \in AnyMessage, Legal(m), m.chunked, NEW j \in 0..Len(m.chunks)
    PROVE  Len(Brought(m, j)) <= MAX_BODY_SIZE
<1> DEFINE cs == Contents(m)
<1>1. cs \in Seq(Seq(Token)) /\ Len(cs) = Len(m.chunks) /\ Len(m.chunks) \in Nat
  BY ChunksAre
<1>2. \A i : Len(Brought(m, i)) = Reach(cs, i)
  BY DEF Brought, Reach
<1>3. Len(m.chunks) \in j..Len(cs)
  BY <1>1
<1>4. Reach(cs, j) <= Reach(cs, Len(m.chunks))
  <2> HIDE DEF cs
  <2> QED
    BY <1>1, <1>3, ReachUp
<1>5. Len(Brought(m, Len(m.chunks))) <= MAX_BODY_SIZE
  BY LegalLines, BroughtIs
<1>6. Len(Brought(m, j)) \in Nat /\ Len(Brought(m, Len(m.chunks))) \in Nat /\ MAX_BODY_SIZE \in Nat
  <2>1. Len(m.chunks) \in 0..Len(m.chunks)
    BY <1>1
  <2> QED
    BY <2>1, BroughtIs, LimitsPositive DEF Limits
<1> HIDE DEF cs
<1> QED
  BY <1>2, <1>4, <1>5, <1>6

(***************************************************************************)
(* The steps keep the parser in step with the stream.                      *)
(***************************************************************************)

\* A handler works on message m, and those before it were legal.
Working(m) ==
    /\ IInv /\ result = "parsing" /\ m = Current /\ m \in AnyMessage
    /\ Len(delivered) \in 0..(Len(sent) - 1) /\ base = Extent(Len(delivered))

\* What a handler finds if m is legal too.
Serving(m) ==
    /\ IInv /\ result = "parsing" /\ m = Current /\ Legal(m)
    /\ Len(delivered) \in 0..(Len(sent) - 1) /\ base = Extent(Len(delivered))
    /\ m \in AnyMessage /\ Progress(m) /\ (~FreshRequest => Kept(m))

\* Message m is as far as the new state says.
Served(m) == Progress(m) /\ (~FreshRequest => Kept(m))

\* The history is a sequence.
LEMMA DeliveredIs ==
    ASSUME InStep
    PROVE  Len(delivered) \in Nat /\ DOMAIN delivered = 1..Len(delivered)
  BY LenProperties DEF InStep

\* A handler works on a message that was sent.
LEMMA WorkingIs ==
    ASSUME IInv, InStep, result = "parsing", LegalBefore(Len(delivered)), NEW m, m = Current
    PROVE  Working(m)
<1>1. sent \in Seq(AnyMessage) /\ tail \in Seq(Token)
  BY DEF IInv, Typed
<1>2. base = Extent(Len(delivered)) /\ Len(delivered) + 1 \in DOMAIN sent
  BY DEF InStep
<1>3. Len(delivered) \in Nat /\ DOMAIN sent = 1..Len(sent) /\ Len(sent) \in Nat
  BY <1>1, DeliveredIs, LenProperties
<1>4. Len(delivered) \in 0..(Len(sent) - 1)
  BY <1>2, <1>3
<1>5. m \in AnyMessage
  BY <1>1, <1>4, ExtentIs DEF Current
<1> QED
  BY <1>2, <1>4, <1>5 DEF Working

\* A handler finds a legal message where its state says.
LEMMA ServingIs ==
    ASSUME IInv, InStep, result = "parsing", LegalBefore(Len(delivered)), NEW m, m = Current, Legal(m)
    PROVE  Serving(m)
<1>1. Working(m)
  BY WorkingIs
<1>2. Progress(m) /\ (~FreshRequest => Kept(m))
  BY DEF InStep
<1> QED
  BY <1>1, <1>2 DEF Working, Serving

\* A handler that brings a legal message further keeps the invariant.
LEMMA HandlerKeeps ==
    ASSUME IInv, InStep, UNCHANGED stream, result = "parsing", result' # "none",
           \A m : Serving(m) => Served(m)'
    PROVE  InStep'
<1>1. UNCHANGED <<sent, tail, arrived, base, delivered>>
  BY DEF stream
<1>2. delivered' \in Seq(Range(delivered'))
  BY <1>1 DEF InStep
<1> SUFFICES ASSUME LegalBefore(Len(delivered))'
             PROVE  /\ base' = Extent(Len(delivered))'
                    /\ ~FreshRequest => \A i \in DOMAIN delivered' : delivered'[i] = Meaning(sent'[i])
                    /\ Len(delivered') + 1 \in DOMAIN sent'
                    /\ Legal(Current)' => Progress(Current)' /\ (~FreshRequest => Kept(Current)')
  BY <1>2 DEF InStep
<1>3. LegalBefore(Len(delivered))
  BY <1>1 DEF LegalBefore
<1>4. /\ base = Extent(Len(delivered)) /\ Len(delivered) + 1 \in DOMAIN sent
      /\ ~FreshRequest => \A i \in DOMAIN delivered : delivered[i] = Meaning(sent[i])
  BY <1>3 DEF InStep
<1>5. Extent(Len(delivered))' = Extent(Len(delivered)) /\ Current' = Current
  BY <1>1 DEF Extent, Current
<1>6. ASSUME Legal(Current)' PROVE Progress(Current)' /\ (~FreshRequest => Kept(Current)')
  <2>1. PICK m : m = Current
    OBVIOUS
  <2>2. Legal(m)
    BY <1>5, <1>6, <2>1 DEF Legal, Roomy, HasHeader, Unbroken
  <2>3. Served(m)'
    BY <1>3, <2>1, <2>2, ServingIs
  <2>4. Current' = m
    BY <1>5, <2>1
  <2> QED
    BY <2>3, <2>4 DEF Served, Progress, ChunkProgress, Kept
<1> QED
  BY <1>1, <1>4, <1>5, <1>6

\* parse asks for more, and the message is not all there.
LEMMA WaitKeeps ==
    ASSUME NEW m, Serving(m), Incomplete, arrived < base + Len(Encode(m))
    PROVE  Served(m)'
<1>1. /\ result' = "Incomplete" /\ UNCHANGED <<sent, arrived, base, state, consumed, bodySize>>
      /\ UNCHANGED <<chunkSize, chunkBytesRead, body, request>>
  BY DEF Incomplete, stream, parser, chunks
<1> QED
  BY <1>1 DEF Serving, Served, Progress, ChunkProgress, Kept

\* The part of m at which the parser is.
LEMMA WorkingSees ==
    ASSUME NEW m, Working(m), NEW t \in Seq(Token), At(Encode(m), consumed, t)
    PROVE  /\ Remaining \in Seq(Token) /\ Len(Remaining) \in Nat /\ Sees(Remaining, t) /\ consumed \in Nat
           /\ Len(Remaining) < Len(t) => arrived < base + Len(Encode(m))
<1>1. Typed /\ m = sent[Len(delivered) + 1] /\ Len(delivered) \in 0..(Len(sent) - 1)
  BY DEF Working, IInv, Current
<1>2. base = Extent(Len(delivered)) /\ At(Encode(sent[Len(delivered) + 1]), consumed, t)
  BY <1>1 DEF Working
<1>3. /\ Sees(Remaining, t)
      /\ Len(Remaining) < Len(t) => arrived < base + Len(Encode(m))
  BY <1>1, <1>2, SeesPart
<1> QED
  BY <1>1, <1>3, RemainingIs

\* The same of a legal message.
LEMMA ServingSees ==
    ASSUME NEW m, Serving(m), NEW t \in Seq(Token), At(Encode(m), consumed, t)
    PROVE  /\ Remaining \in Seq(Token) /\ Len(Remaining) \in Nat /\ Sees(Remaining, t) /\ consumed \in Nat
           /\ Len(Remaining) < Len(t) => arrived < base + Len(Encode(m))
<1>1. Working(m)
  BY DEF Serving, Working
<1> QED
  BY <1>1, WorkingSees

\* handleRequestLine waits for a legal line or takes it.
LEMMA RequestLineKeeps ==
    ASSUME IInv, InStep, HandleRequestLine
    PROVE  InStep'
<1> DEFINE ends == Crlfs(Remaining)
           line == SubSeq(Remaining, 1, Find(ends))
           legal == Find(ends) <= MAX_REQUEST_LINE /\ ValidRequestLine(line)
           Advance == /\ request' = [NoRequest EXCEPT !.line = line]
                      /\ consumed' = consumed + Find(ends) + 2
                      /\ state' = "Headers"
                      /\ UNCHANGED <<stream, bodySize, chunks, result>>
<1>1. /\ result = "parsing" /\ state = "RequestLine"
      /\ \/ AwaitDelimiter(ends, MAX_REQUEST_LINE)
         \/ ends # {} /\ ~legal /\ Fail
         \/ ends # {} /\ legal /\ Advance
  BY DEF HandleRequestLine, In
<1>2. UNCHANGED stream /\ result' # "none"
  BY <1>1 DEF AwaitDelimiter, Fail, Incomplete
<1>3. ASSUME NEW m, Serving(m) PROVE Served(m)'
  <2>1. m \in AnyMessage /\ Legal(m) /\ consumed = 0
    BY <1>1, <1>3 DEF Serving, Progress
  <2>2. m.line \in Seq(Token) /\ Line(m.line) \in Seq(Token) /\ Len(m.line) \in Nat /\ Len(Line(m.line)) = Len(m.line) + 2
    BY <2>1, MessageIs, LineIs
  <2>3. At(Encode(m), consumed, Line(m.line))
    BY <2>1, EncodeIs
  <2>4. /\ Remaining \in Seq(Token) /\ Len(Remaining) \in Nat /\ Sees(Remaining, Line(m.line))
        /\ Len(Remaining) < Len(m.line) + 2 => arrived < base + Len(Encode(m))
    BY <1>3, <2>2, <2>3, ServingSees
  <2>5. Unbroken(m.line) /\ ValidRequestLine(m.line) /\ Len(m.line) < MAX_REQUEST_LINE /\ MAX_REQUEST_LINE \in Nat
    BY <2>1, LegalLines, LimitsPositive DEF Limits
  <2>6. /\ Len(Remaining) < Len(m.line) + 2 => ends = {}
        /\ Len(Remaining) >= Len(m.line) + 2 =>
               ends # {} /\ Find(ends) = Len(m.line) /\ SubSeq(Remaining, 1, Len(m.line)) = m.line
    BY <2>2, <2>4, <2>5, FirstBreak
  <2> HIDE DEF ends
  <2>7. CASE Len(Remaining) < Len(m.line) + 2
    <3>1. AwaitDelimiter(ends, MAX_REQUEST_LINE)
      BY <1>1, <2>6, <2>7
    <3>2. ~(Len(Remaining) > MAX_REQUEST_LINE)
      BY <2>2, <2>4, <2>5, <2>7
    <3>3. Incomplete
      BY <3>1, <3>2 DEF AwaitDelimiter
    <3> QED
      BY <1>3, <2>4, <2>7, <3>3, WaitKeeps
  <2>8. CASE Len(Remaining) >= Len(m.line) + 2
    <3>1. ends # {} /\ Find(ends) = Len(m.line) /\ line = m.line
      BY <2>6, <2>8
    <3>2. legal
      <4>1. Find(ends) <= MAX_REQUEST_LINE
        BY <2>2, <2>5, <3>1
      <4>2. ValidRequestLine(line)
        BY <2>5, <3>1
      <4> QED
        BY <4>1, <4>2
    <3>3. Advance
      BY <1>1, <3>1, <3>2 DEF AwaitDelimiter
    <3>4. consumed' = LineEnd(m) /\ state' = "Headers" /\ request' = [NoRequest EXCEPT !.line = m.line]
          /\ result' = "parsing"
      BY <1>1, <2>1, <2>2, <3>1, <3>3, SMTT(40) DEF LineEnd
    <3>5. request'.headers = << >>
      BY <3>4 DEF NoRequest
    <3> QED
      BY <3>4, <3>5 DEF Served, Progress, ChunkProgress, Kept
  <2> QED
    BY <2>2, <2>4, <2>7, <2>8
<1> QED
  BY <1>1, <1>2, <1>3, HandlerKeeps

\* handleHeaders waits for a legal block or takes it, and finds the framing its
\* sender means.
LEMMA HeadersKeeps ==
    ASSUME IInv, InStep, HandleHeaders
    PROVE  InStep'
<1> DEFINE ends == Blanks(Remaining)
           lines == LinesIn(SubSeq(Remaining, 1, Find(ends) + 4))
           req == [request EXCEPT !.headers = @ \o lines]
           legal == /\ Find(ends) <= MAX_HEADER_SIZE
                    /\ ValidHeaders(lines)
                    /\ Framing(req.headers) # "bad"
<1>1. /\ result = "parsing" /\ state = "Headers"
      /\ \/ AwaitDelimiter(ends, MAX_HEADER_SIZE)
         \/ ends # {} /\ ~legal /\ Fail
         \/ ends # {} /\ legal /\ BeginBody(req, Find(ends) + 4)
  BY DEF HandleHeaders, In
<1>2. UNCHANGED stream /\ result' # "none"
  BY <1>1 DEF AwaitDelimiter, Fail, Incomplete, BeginBody, Return
<1>3. ASSUME NEW m, Serving(m) PROVE Served(m)'
  <2> DEFINE n == Len(LinesOf(m.headers))
             hs == m.headers
  <2>1. m \in AnyMessage /\ Legal(m) /\ consumed = LineEnd(m) /\ request.headers = << >>
        /\ (~FreshRequest => request = [NoRequest EXCEPT !.line = m.line])
    BY <1>1, <1>3 DEF Serving, Progress, Kept
  <2>2. hs \in Seq(Seq(Token)) /\ Closed(hs) \in Seq(Token) /\ n \in Nat /\ Len(Closed(hs)) = n + 2
    BY <2>1, MessageIs, ClosedIs
  <2>3. At(Encode(m), consumed, Closed(hs)) /\ BlockEnd(m) = LineEnd(m) + Len(Closed(hs)) /\ LineEnd(m) \in Nat
        /\ Len(Encode(m)) = BlockEnd(m) + Len(Rest(m))
    BY <2>1, EncodeIs
  <2>4. /\ Remaining \in Seq(Token) /\ Len(Remaining) \in Nat /\ Sees(Remaining, Closed(hs))
        /\ Len(Remaining) < n + 2 => arrived < base + Len(Encode(m))
    BY <1>3, <2>2, <2>3, ServingSees
  <2>5. /\ Block(hs) /\ Len(hs) >= 1 /\ n + 1 <= MAX_HEADER_SIZE /\ MAX_HEADER_SIZE \in Nat
    BY <2>1, LegalLines, LimitsPositive DEF Limits
  <2>6. /\ Len(Remaining) < n + 2 => ends = {}
        /\ Len(Remaining) >= n + 2 =>
               /\ ends # {} /\ Find(ends) = n - 2 /\ SubSeq(Remaining, 1, n + 2) = Closed(hs)
    BY <2>2, <2>4, <2>5, FirstBlank
  <2>7. CASE Len(Remaining) < n + 2
    <3>1. AwaitDelimiter(ends, MAX_HEADER_SIZE)
      BY <1>1, <2>6, <2>7
    <3>2. ~(Len(Remaining) > MAX_HEADER_SIZE)
      BY <2>2, <2>4, <2>5, <2>7
    <3>3. Incomplete
      BY <3>1, <3>2 DEF AwaitDelimiter
    <3> QED
      BY <1>3, <2>4, <2>7, <3>3, WaitKeeps
  <2>8. CASE Len(Remaining) >= n + 2
    <3>1. ends # {} /\ Find(ends) = n - 2 /\ Find(ends) + 4 = n + 2
      BY <2>2, <2>6, <2>8
    <3>2. SubSeq(Remaining, 1, Find(ends) + 4) = Closed(hs)
      BY <2>6, <2>8, <3>1
    <3>3. lines = hs
      BY <2>2, <2>5, <3>2, LinesInBlock
    <3> HIDE DEF lines, ends
    <3>4. DOMAIN request = {"line", "headers", "body"}
      BY DEF IInv, Typed
    <3>5. req = [request EXCEPT !.headers = hs] /\ req.headers = hs
      <4>1. << >> \o hs = hs
        BY <2>2, ConcatEmptySeq
      <4> QED
        BY <2>1, <3>3, <3>4, <4>1
    <3>6. /\ ValidHeaders(hs)
          /\ m.chunked => Framing(hs) = "chunked"
          /\ ~m.chunked => \/ Framing(hs) = "none" /\ m.body = << >>
                           \/ /\ Framing(hs) = "length"
                              /\ Number[Header(hs, "Content-Length")] = Len(m.body)
      BY <2>1, LegalFraming
    <3>7. legal
      <4>1. Find(ends) <= MAX_HEADER_SIZE
        BY <2>2, <2>5, <3>1
      <4>2. ValidHeaders(lines)
        BY <3>3, <3>6
      <4>3. Framing(hs) # "bad" /\ m.chunked \in BOOLEAN
        BY <2>1, <3>6, MessageIs
      <4>4. Framing(req.headers) # "bad"
        BY <3>5, <4>3
      <4> QED
        BY <4>1, <4>2, <4>4
    <3>8. BeginBody(req, n + 2)
      BY <1>1, <3>1, <3>7 DEF AwaitDelimiter
    <3>9. PICK q : q = req
      OBVIOUS
    <3>10. /\ BeginBody(q, n + 2) /\ q.headers = hs /\ DOMAIN q = {"line", "headers", "body"}
           /\ ~FreshRequest => q.line = m.line
           /\ m.chunked \in BOOLEAN /\ m.body \in Seq(Token) /\ Len(m.body) \in Nat
      <4>1. m.chunked \in BOOLEAN /\ m.body \in Seq(Token) /\ Len(m.body) \in Nat
        BY <2>1, MessageIs, LenProperties
      <4>2. ~FreshRequest => req.line = m.line
        BY <2>1, <3>4, <3>5 DEF NoRequest
      <4> QED
        BY <3>4, <3>5, <3>8, <3>9, <4>1, <4>2
    <3> HIDE DEF req
    <3>11. consumed' = BlockEnd(m)
      <4>1. consumed' = consumed + (n + 2)
        BY <3>10 DEF BeginBody
      <4> QED
        BY <2>1, <2>2, <2>3, <4>1
    <3>12. CASE Framing(hs) = "chunked"
      <4>1. m.chunked
        BY <3>6, <3>10, <3>12
      <4>2. request' = q /\ body' = << >> /\ state' = "ChunkSize" /\ result' = "parsing"
        BY <1>1, <3>10, <3>12 DEF BeginBody, NoBody
      <4>3. ChunkEnd(m, 0) = BlockEnd(m) /\ Brought(m, 0) = << >> /\ 0 \in 0..Len(m.chunks)
        <5>1. Len(m.chunks) \in Nat
          BY <2>1, ChunksAre
        <5>2. 0 \in 0..Len(m.chunks)
          BY <5>1
        <5> QED
          BY <2>1, <4>1, <5>2, LastAt, BroughtIs
      <4> QED
        BY <3>10, <3>11, <4>1, <4>2, <4>3 DEF Served, Progress, ChunkProgress, Kept
    <3>13. CASE Framing(hs) # "chunked" /\ ~NoBody(hs)
      <4>1. ~m.chunked /\ Framing(hs) = "length" /\ Number[Header(hs, "Content-Length")] = Len(m.body)
        BY <3>6, <3>13 DEF NoBody
      <4>2. request' = q /\ bodySize' = Len(m.body) /\ state' = "Body" /\ result' = "parsing"
        BY <1>1, <3>10, <3>13, <4>1 DEF BeginBody
      <4> QED
        BY <3>10, <3>11, <4>1, <4>2 DEF Served, Progress, ChunkProgress, Kept
    <3>14. CASE Framing(hs) # "chunked" /\ NoBody(hs)
      <4>1. ~m.chunked /\ Len(m.body) = 0
        BY <3>6, <3>14, EmptySeq DEF NoBody
      <4>2. m.body = << >>
        BY <3>10, <4>1, EmptySeq
      <4>3. request' = [q EXCEPT !.body = << >>] /\ state' = "Complete" /\ result' = "Complete"
        BY <3>10, <3>14 DEF BeginBody, Return
      <4>4. Len(Encode(m)) = BlockEnd(m)
        <5>1. Len(Rest(m)) = 0
          BY <4>1 DEF Rest
        <5> QED
          BY <2>2, <2>3, <5>1
      <4>5. ~FreshRequest => request' = Meaning(m)
        <5>1. Meaning(m) = [line |-> m.line, headers |-> hs, body |-> << >>]
          BY <4>1, <4>2 DEF Meaning
        <5> QED
          BY <3>10, <4>3, <5>1
      <4>6. request'.body = Meaning(m).body
        BY <3>10, <4>1, <4>2, <4>3 DEF Meaning
      <4> QED
        BY <3>11, <4>3, <4>4, <4>5, <4>6 DEF Served, Progress, ChunkProgress, Kept
    <3> QED
      BY <3>12, <3>13, <3>14
  <2> QED
    BY <2>2, <2>4, <2>7, <2>8
<1> QED
  BY <1>1, <1>2, <1>3, HandlerKeeps

\* handleBody waits for the body or takes it.
LEMMA BodyKeeps ==
    ASSUME IInv, InStep, HandleBody
    PROVE  InStep'
<1> DEFINE Finish == /\ consumed' = consumed + bodySize
                     /\ Return([request EXCEPT !.body = SubSeq(Remaining, 1, bodySize)])
                     /\ UNCHANGED <<bodySize, chunks>>
<1>1. /\ result = "parsing" /\ state = "Body"
      /\ \/ Len(Data) - consumed < bodySize /\ Incomplete
         \/ Len(Data) - consumed >= bodySize /\ Finish
  BY DEF HandleBody, In
<1>2. UNCHANGED stream /\ result' # "none"
  BY <1>1 DEF Incomplete, Return
<1>3. ASSUME NEW m, Serving(m) PROVE Served(m)'
  <2>1. m \in AnyMessage /\ Legal(m) /\ consumed = BlockEnd(m) /\ ~m.chunked /\ bodySize = Len(m.body)
        /\ (~FreshRequest => request.line = m.line /\ request.headers = m.headers)
    BY <1>1, <1>3 DEF Serving, Progress, Kept
  <2>2. m.body \in Seq(Token) /\ Len(m.body) \in Nat
    BY <2>1, MessageIs, LenProperties
  <2>3. At(Encode(m), consumed, m.body) /\ Len(Encode(m)) = BlockEnd(m) + Len(m.body)
    BY <2>1, EncodeIs DEF Rest
  <2>4. /\ Remaining \in Seq(Token) /\ Len(Remaining) \in Nat /\ Sees(Remaining, m.body)
        /\ Len(Remaining) < Len(m.body) => arrived < base + Len(Encode(m))
    BY <1>3, <2>2, <2>3, ServingSees
  <2>5. Len(Data) - consumed = Len(Remaining)
    BY <1>1, Before
  <2>6. CASE Len(Remaining) < bodySize
    <3>1. Incomplete
      BY <1>1, <2>1, <2>2, <2>4, <2>5, <2>6
    <3> QED
      BY <1>3, <2>1, <2>4, <2>6, <3>1, WaitKeeps
  <2>7. CASE Len(Remaining) >= bodySize
    <3>1. Finish
      BY <1>1, <2>1, <2>2, <2>4, <2>5, <2>7
    <3>2. SubSeq(Remaining, 1, bodySize) = SubSeq(m.body, 1, Len(m.body))
      BY <2>1, <2>2, <2>4, <2>7, SeesAll
    <3>3. SubSeq(Remaining, 1, bodySize) = m.body
      BY <2>2, <3>2, SubSeqFull
    <3>4. /\ request' = [request EXCEPT !.body = m.body] /\ state' = "Complete" /\ result' = "Complete"
          /\ consumed' = Len(Encode(m))
      BY <2>1, <2>3, <3>1, <3>3 DEF Return
    <3>5. DOMAIN request = {"line", "headers", "body"}
      BY DEF IInv, Typed
    <3>6. ~FreshRequest => request' = Meaning(m)
      <4>1. Meaning(m) = [line |-> m.line, headers |-> m.headers, body |-> m.body]
        BY <2>1 DEF Meaning
      <4> QED
        BY <2>1, <3>4, <3>5, <4>1
    <3>7. request'.body = Meaning(m).body
      BY <2>1, <3>4, <3>5 DEF Meaning
    <3> QED
      BY <3>4, <3>6, <3>7 DEF Served, Progress, ChunkProgress, Kept
  <2> QED
    BY <2>1, <2>2, <2>4, <2>6, <2>7
<1> QED
  BY <1>1, <1>2, <1>3, HandlerKeeps

\* handleChunkSize takes the size line of a chunk, or the last one.
LEMMA ChunkSizeKeeps ==
    ASSUME IInv, InStep, HandleChunkSize
    PROVE  InStep'
<1> DEFINE ends == Crlfs(Remaining)
           size == Remaining[1]
           legal == /\ Find(ends) \in 1..MAX_CHUNK_LINE_SIZE
                    /\ size \in DOMAIN Number
                    /\ FitsBody(Number[size])
           Advance == /\ chunkSize' = Number[size]
                      /\ chunkBytesRead' = 0
                      /\ consumed' = consumed + Find(ends) + 2
                      /\ state' = IF Number[size] = 0 THEN "ChunkTrailer" ELSE "ChunkData"
                      /\ UNCHANGED <<stream, bodySize, body, request, result>>
<1>1. /\ result = "parsing" /\ state = "ChunkSize"
      /\ \/ AwaitDelimiter(ends, MAX_CHUNK_LINE_SIZE)
         \/ ends # {} /\ ~legal /\ Fail
         \/ ends # {} /\ legal /\ Advance
  BY DEF HandleChunkSize, In
<1>2. UNCHANGED stream /\ result' # "none"
  BY <1>1 DEF AwaitDelimiter, Fail, Incomplete
<1>3. ASSUME NEW m, Serving(m) PROVE Served(m)'
  <2>1. m \in AnyMessage /\ Legal(m) /\ m.chunked
        /\ (~FreshRequest => request.line = m.line /\ request.headers = m.headers)
    BY <1>1, <1>3 DEF Serving, Progress, ChunkProgress, Kept
  <2>2. PICK j \in 0..Len(m.chunks) : consumed = ChunkEnd(m, j) /\ body = Brought(m, j)
    BY <1>1, <1>3 DEF Serving, Progress, ChunkProgress
  <2>3. Len(m.chunks) \in Nat /\ MAX_CHUNK_LINE_SIZE \in Nat /\ MAX_BODY_SIZE \in Nat
    BY <2>1, ChunksAre, LimitsPositive DEF Limits
  <2>4. ASSUME NEW l \in Seq(Token), Unbroken(l), Len(l) \in 1..(MAX_CHUNK_LINE_SIZE - 1),
               At(Encode(m), consumed, Line(l)), l[1] \in DOMAIN Number, FitsBody(Number[l[1]])
        PROVE  \/ Served(m)'
               \/ /\ chunkSize' = Number[l[1]] /\ chunkBytesRead' = 0 /\ consumed' = consumed + Len(l) + 2
                  /\ state' = (IF Number[l[1]] = 0 THEN "ChunkTrailer" ELSE "ChunkData")
                  /\ UNCHANGED <<body, request, result>>
    <3>1. Line(l) \in Seq(Token) /\ Len(l) \in Nat /\ Len(Line(l)) = Len(l) + 2 /\ Line(l)[1] = l[1]
      BY <2>4, LineIs
    <3>2. /\ Remaining \in Seq(Token) /\ Len(Remaining) \in Nat /\ Sees(Remaining, Line(l))
          /\ Len(Remaining) < Len(l) + 2 => arrived < base + Len(Encode(m))
      BY <1>3, <2>4, <3>1, ServingSees
    <3>3. /\ Len(Remaining) < Len(l) + 2 => ends = {}
          /\ Len(Remaining) >= Len(l) + 2 => ends # {} /\ Find(ends) = Len(l)
      BY <2>4, <3>2, FirstBreak
    <3> HIDE DEF ends
    <3>4. CASE Len(Remaining) < Len(l) + 2
      <4>1. AwaitDelimiter(ends, MAX_CHUNK_LINE_SIZE)
        BY <1>1, <3>3, <3>4
      <4>2. ~(Len(Remaining) > MAX_CHUNK_LINE_SIZE)
        BY <2>3, <2>4, <3>1, <3>2, <3>4
      <4>3. Incomplete
        BY <4>1, <4>2 DEF AwaitDelimiter
      <4> QED
        BY <1>3, <3>2, <3>4, <4>3, WaitKeeps
    <3>5. CASE Len(Remaining) >= Len(l) + 2
      <4>1. ends # {} /\ Find(ends) = Len(l)
        BY <3>3, <3>5
      <4>2. size = l[1]
        <5>1. 1 \in 1..Len(Remaining) /\ 1 <= Len(Line(l))
          BY <3>1, <3>2, <3>5
        <5> QED
          BY <3>1, <3>2, <5>1 DEF Sees
      <4>3. Find(ends) \in 1..MAX_CHUNK_LINE_SIZE
        BY <2>3, <2>4, <3>1, <4>1
      <4> HIDE DEF size
      <4>4. legal
        BY <2>4, <4>2, <4>3
      <4>5. Advance
        BY <1>1, <4>1, <4>4 DEF AwaitDelimiter
      <4> QED
        BY <4>1, <4>2, <4>5
    <3> QED
      BY <3>1, <3>2, <3>4, <3>5
  <2>5. CASE j = Len(m.chunks)
    <3> DEFINE l == <<"0">>
    <3>1. l \in Seq(Token) /\ Len(l) = 1 /\ l[1] = "0"
      BY DEF Token
    <3>2. Unbroken(l)
      BY DEF Unbroken, Range
    <3>3. Len(l) \in 1..(MAX_CHUNK_LINE_SIZE - 1)
      BY <2>1, <2>3, <3>1, LegalLines
    <3>4. At(Encode(m), consumed, Line(l)) /\ ChunkEnd(m, Len(m.chunks)) \in Nat
          /\ LastEnd(m) = ChunkEnd(m, Len(m.chunks)) + 3
      BY <2>1, <2>2, <2>5, LastAt
    <3>5. l[1] \in DOMAIN Number /\ Number[l[1]] = 0
      BY <3>1 DEF Number
    <3>6. FitsBody(Number[l[1]])
      <4>1. Len(body) <= MAX_BODY_SIZE /\ Len(body) \in Nat
        BY <1>1, Before
      <4> HIDE DEF l
      <4> QED
        BY <2>3, <3>5, <4>1 DEF FitsBody
    <3> HIDE DEF l
    <3>7. CASE /\ consumed' = consumed + Len(l) + 2
               /\ state' = (IF Number[l[1]] = 0 THEN "ChunkTrailer" ELSE "ChunkData")
               /\ UNCHANGED <<body, request, result>>
      <4>1. consumed' = LastEnd(m) /\ state' = "ChunkTrailer" /\ body' = Brought(m, Len(m.chunks))
            /\ result' = "parsing" /\ request' = request
        BY <1>1, <2>2, <2>5, <3>1, <3>4, <3>5, <3>7
      <4> QED
        BY <2>1, <4>1 DEF Served, Progress, ChunkProgress, Kept
    <3> QED
      BY <2>4, <3>1, <3>2, <3>3, <3>4, <3>5, <3>6, <3>7
  <2>6. CASE j # Len(m.chunks)
    <3> DEFINE k == j + 1
               l == m.chunks[k].size
               d == m.chunks[k].data
    <3>1. k \in 1..Len(m.chunks) /\ k - 1 = j /\ k \in 0..Len(m.chunks)
      BY <2>2, <2>3, <2>6
    <3> HIDE DEF k
    <3>2. l \in Seq(Token) /\ d \in Seq(Token) /\ Len(l) \in Nat /\ Len(d) \in Nat
      BY <2>1, <3>1, ChunksAre
    <3>3. /\ Unbroken(l) /\ Len(l) \in 1..(MAX_CHUNK_LINE_SIZE - 1) /\ l[1] \in DOMAIN Number
          /\ Number[l[1]] = Len(d) /\ Len(d) > 0
      BY <2>1, <3>1, LegalChunk
    <3>4. At(Encode(m), consumed, Line(l)) /\ ChunkEnd(m, k - 1) \in Nat
      BY <2>1, <2>2, <3>1, PieceAt
    <3>5. FitsBody(Number[l[1]])
      <4>1. Brought(m, k) = body \o d /\ body \in Seq(Token) /\ Len(body) \in Nat
        BY <2>1, <2>2, <3>1, BroughtIs
      <4>2. Len(body \o d) = Len(body) + Len(d)
        BY <3>2, <4>1, TokenConcat
      <4>3. Len(Brought(m, k)) <= MAX_BODY_SIZE
        BY <2>1, <3>1, BroughtFits
      <4> HIDE DEF l, d
      <4> QED
        BY <2>3, <3>2, <3>3, <4>1, <4>2, <4>3 DEF FitsBody
    <3>6. CASE /\ chunkSize' = Number[l[1]] /\ chunkBytesRead' = 0 /\ consumed' = consumed + Len(l) + 2
               /\ state' = (IF Number[l[1]] = 0 THEN "ChunkTrailer" ELSE "ChunkData")
               /\ UNCHANGED <<body, request, result>>
      <4>1. /\ consumed' = ChunkEnd(m, k - 1) + Len(l) + 2 + chunkBytesRead'
            /\ chunkSize' = Len(d) /\ chunkBytesRead' = 0 /\ chunkBytesRead' <= chunkSize'
            /\ state' = "ChunkData" /\ result' = "parsing" /\ request' = request /\ body' = body
        <5> HIDE DEF l, d
        <5> QED
          BY <1>1, <2>2, <3>1, <3>2, <3>3, <3>4, <3>6
      <4>2. body' = Brought(m, k - 1) \o SubSeq(d, 1, chunkBytesRead')
        <5>1. SubSeq(d, 1, 0) = << >> /\ body \o << >> = body
          <6>1. body \in Seq(Token)
            BY <1>1, Before
          <6> QED
            BY <6>1, SubSeqEmpty, ConcatEmptySeq
        <5> QED
          BY <2>2, <3>1, <4>1, <5>1
      <4> QED
        BY <2>1, <3>1, <4>1, <4>2 DEF Served, Progress, ChunkProgress, Kept
    <3> QED
      BY <2>4, <3>2, <3>3, <3>4, <3>5, <3>6
  <2> QED
    BY <2>5, <2>6
<1> QED
  BY <1>1, <1>2, <1>3, HandlerKeeps

\* The data of a chunk from the byte after the n-th.
LEMMA DropAt ==
    ASSUME NEW s \in Seq(Token), NEW d \in Seq(Token), NEW p \in Nat, At(s, p, d), NEW n \in 0..Len(d)
    PROVE  /\ SubSeq(d, n + 1, Len(d)) \in Seq(Token) /\ Len(SubSeq(d, n + 1, Len(d))) = Len(d) - n
           /\ At(s, p + n, SubSeq(d, n + 1, Len(d)))
           /\ \A k \in 0..(Len(d) - n) :
                  SubSeq(d, 1, n) \o SubSeq(SubSeq(d, n + 1, Len(d)), 1, k) = SubSeq(d, 1, n + k)
<1> DEFINE u == SubSeq(d, n + 1, Len(d))
<1>1. Len(d) \in Nat /\ Len(s) \in Nat /\ n \in Nat
  BY LenProperties
<1>2. \A i \in (n + 1)..Len(d) : d[i] \in Token
  <2>1. \A i \in (n + 1)..Len(d) : i \in 1..Len(d)
    BY <1>1
  <2> QED
    BY <2>1, ElementOfSeq
<1>3. /\ u \in Seq(Token) /\ Len(u) = IF n + 1 <= Len(d) THEN Len(d) - (n + 1) + 1 ELSE 0
      /\ \A i \in 1..(Len(d) - (n + 1) + 1) : u[i] = d[(n + 1) + i - 1]
  <2>1. n + 1 \in Int /\ Len(d) \in Int
    BY <1>1
  <2> QED
    BY <1>2, <2>1, SubSeqProperties
<1> HIDE DEF u
<1>4. Len(u) = Len(d) - n
  BY <1>1, <1>3
<1>5. ASSUME NEW i \in 1..(Len(d) - n) PROVE u[i] = d[n + i]
  <2>1. i \in 1..(Len(d) - (n + 1) + 1) /\ (n + 1) + i - 1 = n + i
    BY <1>1
  <2> QED
    BY <1>3, <2>1
<1>6. At(s, p + n, u)
  <2>1. p + Len(d) <= Len(s) /\ \A i \in 1..Len(d) : s[p + i] = d[i]
    BY DEF At
  <2>2. ASSUME NEW i \in 1..Len(u) PROVE s[p + n + i] = u[i]
    <3>1. n + i \in 1..Len(d) /\ p + (n + i) = p + n + i /\ i \in 1..(Len(d) - n)
      BY <1>1, <1>4
    <3> QED
      BY <1>5, <2>1, <3>1
  <2>3. p + n + Len(u) <= Len(s)
    BY <1>1, <1>4, <2>1
  <2> QED
    BY <2>2, <2>3 DEF At
<1>7. ASSUME NEW k \in 0..(Len(d) - n) PROVE SubSeq(d, 1, n) \o SubSeq(u, 1, k) = SubSeq(d, 1, n + k)
  <2> DEFINE a == SubSeq(d, 1, n)
             b == SubSeq(u, 1, k)
             c == SubSeq(d, 1, n + k)
  <2>1. k \in Nat /\ n + k \in Nat /\ n + k <= Len(d) /\ k <= Len(u) /\ n <= Len(d)
    BY <1>1, <1>4
  <2>2. /\ a \in Seq(Token) /\ Len(a) = n /\ b \in Seq(Token) /\ Len(b) = k /\ c \in Seq(Token) /\ Len(c) = n + k
    <3>1. a \in Seq(Token) /\ Len(a) = n
      BY <1>1, <2>1, SubSeqIs
    <3>2. b \in Seq(Token) /\ Len(b) = k
      BY <1>3, <2>1, SubSeqIs
    <3>3. c \in Seq(Token) /\ Len(c) = n + k
      BY <2>1, SubSeqIs
    <3> QED
      BY <3>1, <3>2, <3>3
  <2>3. \A i \in 1..n : a[i] = d[i]
    BY <1>1, <2>1
  <2>4. \A i \in 1..k : b[i] = u[i]
    BY <1>3, <1>4, <2>1
  <2>5. \A i \in 1..(n + k) : c[i] = d[i]
    BY <1>1, <2>1
  <2> HIDE DEF a, b, c
  <2>6. a \o b \in Seq(Token) /\ Len(a \o b) = n + k
    BY <2>2, TokenConcat
  <2>7. ASSUME NEW i \in 1..(n + k) PROVE (a \o b)[i] = c[i]
    <3>1. (a \o b)[i] = IF i <= n THEN a[i] ELSE b[i - n]
      BY <2>2, ConcatProperties
    <3>2. CASE i <= n
      BY <1>1, <2>1, <2>3, <2>5, <3>1, <3>2
    <3>3. CASE ~(i <= n)
      <4>1. i - n \in 1..k /\ n + (i - n) = i /\ i - n \in 1..(Len(d) - n)
        BY <1>1, <2>1, <3>3
      <4> QED
        BY <1>5, <2>4, <2>5, <3>1, <3>3, <4>1
    <3> QED
      BY <3>2, <3>3
  <2>8. a \o b = c
    BY <2>2, <2>6, <2>7, SeqEqual
  <2> QED
    BY <2>8 DEF a, b, c
<1> QED
  BY <1>3, <1>4, <1>6, <1>7 DEF u

\* handleChunkData takes what is there of the chunk, and no more than the chunk.
LEMMA ChunkDataKeeps ==
    ASSUME IInv, InStep, HandleChunkData
    PROVE  InStep'
<1> DEFINE n == Min({Len(Data) - consumed, chunkSize - chunkBytesRead})
<1>1. /\ result = "parsing" /\ state = "ChunkData" /\ n \in Nat /\ chunkBytesRead \in Nat /\ chunkSize \in Nat
      /\ n = IF Len(Remaining) <= chunkSize - chunkBytesRead THEN Len(Remaining) ELSE chunkSize - chunkBytesRead
  <2>1. result = "parsing" /\ state = "ChunkData"
    BY DEF HandleChunkData, In
  <2>2. /\ Len(Data) - consumed = Len(Remaining) /\ Len(Remaining) \in Nat /\ chunkSize - chunkBytesRead \in Nat
        /\ chunkBytesRead \in Nat /\ chunkSize \in Nat
    BY <2>1, Before
  <2>3. \A a, b \in Nat : Min({a, b}) = (IF a <= b THEN a ELSE b) /\ Min({a, b}) \in Nat
    BY MinPair
  <2> QED
    BY <2>1, <2>2, <2>3
<1> HIDE DEF n
<1>2. /\ body' = body \o SubSeq(Remaining, 1, n) /\ consumed' = consumed + n
      /\ chunkBytesRead' = chunkBytesRead + n /\ UNCHANGED <<stream, bodySize, chunkSize, request>>
      /\ \/ chunkBytesRead + n < chunkSize /\ result' = "Incomplete" /\ state' = state
         \/ chunkBytesRead + n >= chunkSize /\ state' = "ChunkDataCrlf" /\ result' = result
  BY DEF HandleChunkData, n
<1>3. UNCHANGED stream /\ result' # "none"
  BY <1>1, <1>2
<1>4. ASSUME NEW m, Serving(m) PROVE Served(m)'
  <2>1. m \in AnyMessage /\ Legal(m) /\ m.chunked
        /\ (~FreshRequest => request.line = m.line /\ request.headers = m.headers)
    BY <1>1, <1>4 DEF Serving, Progress, ChunkProgress, Kept
  <2>2. PICK j \in 1..Len(m.chunks) :
               /\ chunkSize = Len(m.chunks[j].data) /\ chunkBytesRead <= chunkSize
               /\ consumed = ChunkEnd(m, j - 1) + Len(m.chunks[j].size) + 2 + chunkBytesRead
               /\ body = Brought(m, j - 1) \o SubSeq(m.chunks[j].data, 1, chunkBytesRead)
    BY <1>1, <1>4 DEF Serving, Progress, ChunkProgress
  <2> DEFINE d == m.chunks[j].data
             z == Len(m.chunks[j].size)
             p == ChunkEnd(m, j - 1) + z + 2
             u == SubSeq(d, chunkBytesRead + 1, Len(d))
  <2>3. d \in Seq(Token) /\ z \in Nat /\ Len(d) \in Nat /\ Encode(m) \in Seq(Token)
    BY <2>1, ChunksAre, EncodeType
  <2>4. At(Encode(m), p, d) /\ p \in Nat /\ ChunkEnd(m, j) = p + Len(d) + 2 /\ ChunkEnd(m, j - 1) \in Nat
    <3>1. /\ ChunkEnd(m, j - 1) \in Nat /\ At(Encode(m), p, d)
          /\ ChunkEnd(m, j) = ChunkEnd(m, j - 1) + z + 2 + Len(d) + 2
      BY <2>1, PieceAt
    <3> HIDE DEF d, z
    <3>2. p \in Nat /\ ChunkEnd(m, j) = p + Len(d) + 2
      BY <2>3, <3>1
    <3> QED
      BY <3>1, <3>2
  <2>5. chunkBytesRead \in 0..Len(d) /\ consumed = p + chunkBytesRead /\ chunkSize = Len(d)
    BY <1>1, <2>2, <2>3
  <2> HIDE DEF d, z, p
  <2>6. /\ u \in Seq(Token) /\ Len(u) = Len(d) - chunkBytesRead /\ At(Encode(m), consumed, u)
        /\ \A k \in 0..(Len(d) - chunkBytesRead) :
               SubSeq(d, 1, chunkBytesRead) \o SubSeq(u, 1, k) = SubSeq(d, 1, chunkBytesRead + k)
    BY <2>3, <2>4, <2>5, DropAt
  <2> HIDE DEF u
  <2>7. /\ Remaining \in Seq(Token) /\ Len(Remaining) \in Nat /\ Sees(Remaining, u)
        /\ Len(Remaining) < Len(u) => arrived < base + Len(Encode(m))
    BY <1>4, <2>6, ServingSees
  <2>8. n <= Len(Remaining) /\ n <= Len(u) /\ n \in 0..(Len(d) - chunkBytesRead)
    BY <1>1, <2>3, <2>5, <2>6, <2>7
  <2>9. SubSeq(Remaining, 1, n) = SubSeq(u, 1, n)
    BY <1>1, <2>6, <2>7, <2>8, SeesAll
  <2> DEFINE b == Brought(m, j - 1)
  <2>10. b \in Seq(Token) /\ Brought(m, j) = b \o d
    <3>1. j - 1 \in 0..Len(m.chunks)
      BY <2>1, <2>2, ChunksAre
    <3> QED
      BY <2>1, <3>1, BroughtIs DEF d
  <2>11. body = b \o SubSeq(d, 1, chunkBytesRead)
    BY <2>2 DEF d
  <2> HIDE DEF b
  <2>12. body' = b \o SubSeq(d, 1, chunkBytesRead + n)
    <3>1. SubSeq(d, 1, chunkBytesRead) \in Seq(Token) /\ SubSeq(u, 1, n) \in Seq(Token)
      BY <1>1, <2>3, <2>5, <2>6, <2>8, SubSeqIs
    <3>2. (b \o SubSeq(d, 1, chunkBytesRead)) \o SubSeq(u, 1, n) = b \o (SubSeq(d, 1, chunkBytesRead) \o SubSeq(u, 1, n))
      BY <2>10, <3>1, TokenConcat
    <3>3. SubSeq(d, 1, chunkBytesRead) \o SubSeq(u, 1, n) = SubSeq(d, 1, chunkBytesRead + n)
      BY <2>6, <2>8
    <3> QED
      BY <1>2, <2>9, <2>11, <3>2, <3>3
  <2>13. consumed' = p + (chunkBytesRead + n) /\ chunkBytesRead' = chunkBytesRead + n
    <3>1. consumed' = consumed + n /\ chunkBytesRead' = chunkBytesRead + n
      BY <1>2
    <3>2. p \in Nat /\ consumed = p + chunkBytesRead /\ n \in Nat /\ chunkBytesRead \in Nat
      BY <1>1, <2>4, <2>5
    <3>3. (p + chunkBytesRead) + n = p + (chunkBytesRead + n)
      BY <3>2
    <3> QED
      BY <3>1, <3>2, <3>3
  <2>14. CASE chunkBytesRead + n < chunkSize
    <3>1. result' = "Incomplete" /\ state' = "ChunkData"
      BY <1>1, <1>2, <2>14
    <3>2. n # chunkSize - chunkBytesRead
      BY <1>1, <2>14
    <3>3. Len(Remaining) < Len(u)
      BY <1>1, <2>5, <2>6, <2>7, <3>2
    <3>4. arrived' < base' + Len(Encode(m))
      BY <1>2, <2>7, <3>3 DEF stream
    <3>5. /\ chunkSize' = Len(m.chunks[j].data) /\ chunkBytesRead' <= chunkSize'
          /\ consumed' = ChunkEnd(m, j - 1) + Len(m.chunks[j].size) + 2 + chunkBytesRead'
          /\ body' = Brought(m, j - 1) \o SubSeq(m.chunks[j].data, 1, chunkBytesRead')
      <4>1. chunkSize' = Len(d) /\ chunkBytesRead' <= chunkSize'
        BY <1>1, <1>2, <2>5, <2>14
      <4>2. consumed' = p + chunkBytesRead' /\ body' = b \o SubSeq(d, 1, chunkBytesRead')
        BY <2>12, <2>13
      <4> QED
        BY <4>1, <4>2 DEF d, p, z, b
    <3> QED
      BY <1>2, <2>1, <3>1, <3>4, <3>5 DEF Served, Progress, ChunkProgress, Kept
  <2>15. CASE chunkBytesRead + n >= chunkSize
    <3>1. result' = "parsing" /\ state' = "ChunkDataCrlf"
      BY <1>1, <1>2, <2>15
    <3>2. chunkBytesRead + n = Len(d)
      BY <1>1, <2>3, <2>5, <2>8, <2>15
    <3>3. body' = Brought(m, j)
      BY <2>3, <2>10, <2>12, <3>2, SubSeqFull
    <3>4. consumed' + 2 = ChunkEnd(m, j)
      BY <2>4, <2>13, <3>2
    <3> QED
      BY <1>2, <2>1, <2>2, <3>1, <3>3, <3>4 DEF Served, Progress, ChunkProgress, Kept
  <2> QED
    BY <1>1, <2>14, <2>15
<1> QED
  BY <1>1, <1>3, <1>4, HandlerKeeps

\* A line break at once is seen as soon as both bytes of it are there.
LEMMA BreakFirst ==
    ASSUME NEW s \in Seq(Token), NEW t \in Seq(Token), Sees(s, t), Len(t) >= 2
    PROVE  /\ t[1] = "CR" /\ t[2] = "LF" /\ Len(s) >= 2 => 1 \in Crlfs(s)
           /\ Len(s) < 2 => Crlfs(s) = {} /\ Blanks(s) = {}
           /\ t[1] # "CR" => 1 \notin Crlfs(s)
<1>1. Len(s) \in Nat /\ Len(t) \in Nat
  BY LenProperties
<1>2. /\ Crlfs(s) \subseteq Nat \ {0} /\ Blanks(s) \subseteq Crlfs(s)
      /\ \A i \in Nat : i \in Crlfs(s) <=> i >= 1 /\ i + 1 <= Len(s) /\ s[i] = "CR" /\ s[i + 1] = "LF"
  BY CrlfsIn
<1>3. ASSUME Len(s) >= 2 PROVE s[1] = t[1] /\ s[2] = t[2]
  BY <1>1, <1>3 DEF Sees
<1>4. 1 \in Crlfs(s) <=> 2 <= Len(s) /\ s[1] = "CR" /\ s[2] = "LF"
  BY <1>1, <1>2
<1>5. ASSUME Len(s) < 2 PROVE Crlfs(s) = {} /\ Blanks(s) = {}
  BY <1>1, <1>2, <1>5
<1> QED
  BY <1>1, <1>3, <1>4, <1>5

\* handleChunkDataCrlf takes the line break after a chunk.
LEMMA ChunkDataCrlfKeeps ==
    ASSUME IInv, InStep, HandleChunkDataCrlf
    PROVE  InStep'
<1> DEFINE Advance == /\ consumed' = consumed + 2
                      /\ state' = "ChunkSize"
                      /\ UNCHANGED <<stream, bodySize, chunks, request, result>>
<1>1. /\ result = "parsing" /\ state = "ChunkDataCrlf"
      /\ \/ Len(Remaining) < 2 /\ Incomplete
         \/ Len(Remaining) >= 2 /\ 1 \notin Crlfs(Remaining) /\ Fail
         \/ 1 \in Crlfs(Remaining) /\ Advance
  BY DEF HandleChunkDataCrlf, In
<1>2. UNCHANGED stream /\ result' # "none"
  BY <1>1 DEF Fail, Incomplete
<1>3. ASSUME NEW m, Serving(m) PROVE Served(m)'
  <2>1. m \in AnyMessage /\ Legal(m) /\ m.chunked
        /\ (~FreshRequest => request.line = m.line /\ request.headers = m.headers)
    BY <1>1, <1>3 DEF Serving, Progress, ChunkProgress, Kept
  <2>2. PICK j \in 1..Len(m.chunks) : consumed + 2 = ChunkEnd(m, j) /\ body = Brought(m, j)
    BY <1>1, <1>3 DEF Serving, Progress, ChunkProgress
  <2>3. CRLF \in Seq(Token) /\ Len(CRLF) = 2 /\ CRLF[1] = "CR" /\ CRLF[2] = "LF"
    BY DEF CRLF, Token
  <2>4. At(Encode(m), consumed, CRLF)
    <3> DEFINE e == ChunkEnd(m, j - 1) + Len(m.chunks[j].size) + 2 + Len(m.chunks[j].data)
    <3>1. At(Encode(m), e, CRLF) /\ ChunkEnd(m, j) = e + 2 /\ ChunkEnd(m, j - 1) \in Nat
      BY <2>1, PieceAt
    <3>2. Len(m.chunks[j].size) \in Nat /\ Len(m.chunks[j].data) \in Nat
      BY <2>1, ChunksAre
    <3>3. e \in Nat
      <4>1. \A a, b, c \in Nat : a + b + 2 + c \in Nat
        OBVIOUS
      <4>2. PICK a \in Nat, b \in Nat, c \in Nat :
                  a = ChunkEnd(m, j - 1) /\ b = Len(m.chunks[j].size) /\ c = Len(m.chunks[j].data)
        BY <3>1, <3>2, Zenon
      <4> QED
        BY <4>1, <4>2, Zenon
    <3>4. consumed \in Nat
      BY <1>1, Before
    <3> HIDE DEF e
    <3>5. consumed = e
      BY <2>2, <3>1, <3>3, <3>4
    <3> QED
      BY <3>1, <3>5
  <2>5. /\ Remaining \in Seq(Token) /\ Len(Remaining) \in Nat /\ Sees(Remaining, CRLF)
        /\ Len(Remaining) < 2 => arrived < base + Len(Encode(m))
    BY <1>3, <2>3, <2>4, ServingSees
  <2>6. (Len(Remaining) >= 2 => 1 \in Crlfs(Remaining)) /\ (Len(Remaining) < 2 => Crlfs(Remaining) = {})
    BY <2>3, <2>5, BreakFirst
  <2>7. CASE Len(Remaining) < 2
    <3>1. Incomplete
      BY <1>1, <2>5, <2>6, <2>7
    <3> QED
      BY <1>3, <2>5, <2>7, <3>1, WaitKeeps
  <2>8. CASE Len(Remaining) >= 2
    <3>1. Advance
      BY <1>1, <2>5, <2>6, <2>8
    <3>2. /\ consumed' = ChunkEnd(m, j) /\ body' = Brought(m, j) /\ state' = "ChunkSize"
          /\ result' = "parsing" /\ request' = request
      BY <1>1, <2>2, <3>1 DEF chunks
    <3>3. j \in 0..Len(m.chunks)
      BY <2>1, ChunksAre
    <3> QED
      BY <2>1, <3>2, <3>3 DEF Served, Progress, ChunkProgress, Kept
  <2> QED
    BY <2>5, <2>7, <2>8
<1> QED
  BY <1>1, <1>2, <1>3, HandlerKeeps

\* The last chunk and the trailers have come, and parse returns.
LEMMA ReturnServes ==
    ASSUME NEW m, Serving(m), state = "ChunkTrailer", ReturnChunked(Len(Closed(m.trailers)))
    PROVE  Served(m)'
<1>1. /\ m \in AnyMessage /\ m.chunked /\ consumed = LastEnd(m) /\ body = Brought(m, Len(m.chunks))
      /\ ~FreshRequest => request.line = m.line /\ request.headers = m.headers
  BY DEF Serving, Progress, ChunkProgress, Kept
<1>2. /\ consumed' = consumed + Len(Closed(m.trailers)) /\ state' = "Complete" /\ result' = "Complete"
      /\ request' = [request EXCEPT !.body = body]
  BY DEF ReturnChunked, Return
<1>3. consumed' = Len(Encode(m))
  BY <1>1, <1>2, LastAt
<1>4. ASSUME ~FreshRequest PROVE request' = Meaning(m)
  <2>1. DOMAIN request = {"line", "headers", "body"}
    BY DEF Serving, IInv, Typed
  <2>2. Meaning(m).body = body
    BY <1>1, BroughtIs
  <2>3. Meaning(m) = [line |-> m.line, headers |-> m.headers, body |-> body]
    BY <2>2 DEF Meaning
  <2> QED
    BY <1>1, <1>2, <1>4, <2>1, <2>3
<1>5. request'.body = Meaning(m).body
  <2>1. DOMAIN request = {"line", "headers", "body"}
    BY DEF Serving, IInv, Typed
  <2>2. Meaning(m).body = body
    BY <1>1, BroughtIs
  <2> QED
    BY <1>2, <2>1, <2>2
<1> QED
  BY <1>2, <1>3, <1>4, <1>5 DEF Served, Progress, ChunkProgress, Kept

\* handleChunkTrailer takes an empty line at once, or trailers and an empty line.
LEMMA ChunkTrailerKeeps ==
    ASSUME IInv, InStep, HandleChunkTrailer
    PROVE  InStep'
<1> DEFINE ends == Blanks(Remaining)
           lines == LinesIn(SubSeq(Remaining, 1, Find(ends) + 2))
           legal == Len(lines) <= MAX_HEADERS /\ \A i \in DOMAIN lines : WellFormed(lines[i])
           at1 == 1 \in Crlfs(Remaining)
<1>1. /\ result = "parsing" /\ state = "ChunkTrailer"
      /\ \/ at1 /\ ReturnChunked(2)
         \/ ~at1 /\ AwaitDelimiter(ends, MAX_HEADER_SIZE)
         \/ ~at1 /\ ends # {} /\ ~legal /\ Fail
         \/ ~at1 /\ ends # {} /\ legal /\ ReturnChunked(Find(ends) + 4)
  BY DEF HandleChunkTrailer, In
<1>2. UNCHANGED stream /\ result' # "none"
  BY <1>1 DEF AwaitDelimiter, Fail, Incomplete, ReturnChunked, Return
<1>3. ASSUME NEW m, Serving(m) PROVE Served(m)'
  <2> DEFINE hs == m.trailers
             n == Len(LinesOf(hs))
  <2>1. m \in AnyMessage /\ Legal(m) /\ m.chunked /\ consumed = LastEnd(m)
    BY <1>1, <1>3 DEF Serving, Progress, ChunkProgress
  <2>2. hs \in Seq(Seq(Token)) /\ Closed(hs) \in Seq(Token) /\ n \in Nat /\ Len(Closed(hs)) = n + 2
    BY <2>1, MessageIs, ClosedIs
  <2>3. At(Encode(m), consumed, Closed(hs))
    BY <2>1, LastAt
  <2>4. /\ Remaining \in Seq(Token) /\ Len(Remaining) \in Nat /\ Sees(Remaining, Closed(hs))
        /\ Len(Remaining) < n + 2 => arrived < base + Len(Encode(m))
    BY <1>3, <2>2, <2>3, ServingSees
  <2>5. /\ Block(hs) /\ Len(hs) <= MAX_HEADERS /\ n + 1 <= MAX_HEADER_SIZE /\ MAX_HEADER_SIZE \in Nat
        /\ \A i \in 1..Len(hs) : WellFormed(hs[i])
    BY <2>1, LegalLines, LimitsPositive DEF Limits
  <2>6. /\ Closed(hs)[1] = "CR" /\ Closed(hs)[2] = "LF" /\ Len(Remaining) >= 2 => at1
        /\ Len(Remaining) < 2 => ~at1 /\ ends = {}
        /\ Closed(hs)[1] # "CR" => ~at1
    BY <2>2, <2>4, BreakFirst
  <2> HIDE DEF at1, ends
  \* The trailers are not all there.
  <2>7. ASSUME ~at1, ends = {}, Len(Remaining) < n + 2 PROVE Served(m)'
    <3>1. AwaitDelimiter(ends, MAX_HEADER_SIZE)
      BY <1>1, <2>7
    <3>2. ~(Len(Remaining) > MAX_HEADER_SIZE)
      BY <2>2, <2>4, <2>5, <2>7
    <3>3. Incomplete
      BY <3>1, <3>2 DEF AwaitDelimiter
    <3> QED
      BY <1>3, <2>4, <2>7, <3>3, WaitKeeps
  <2>8. CASE Len(hs) = 0
    <3>1. n = 0
      <4>1. LinesOf(hs) = FlattenSeq(AsLines(hs)) /\ AsLines(hs) \in Seq(Seq(Token)) /\ Len(AsLines(hs)) = 0
        BY <2>2, <2>8, AsLinesIs
      <4>2. Reach(AsLines(hs), 0) = 0 /\ Reach(AsLines(hs), Len(AsLines(hs))) = Len(FlattenSeq(AsLines(hs)))
        BY <4>1, ReachIs
      <4> QED
        BY <4>1, <4>2
    <3>2. Closed(hs)[1] = "CR" /\ Closed(hs)[2] = "LF" /\ Len(Closed(hs)) = 2
      <4>1. Closed(hs)[n + 1] = "CR" /\ Closed(hs)[n + 2] = "LF"
        BY <2>2, ClosedIs
      <4> QED
        BY <2>2, <3>1, <4>1
    <3>3. CASE Len(Remaining) < 2
      BY <2>6, <2>7, <3>1, <3>3
    <3>4. CASE Len(Remaining) >= 2
      <4>1. at1
        BY <2>6, <3>2, <3>4
      <4>2. ReturnChunked(Len(Closed(hs)))
        BY <1>1, <3>2, <4>1
      <4> QED
        BY <1>1, <1>3, <4>2, ReturnServes
    <3> QED
      BY <2>4, <3>3, <3>4
  <2>9. CASE Len(hs) # 0
    <3>1. Len(hs) \in Nat /\ Len(hs) >= 1 /\ 1 \in 1..Len(hs)
      <4>1. Len(hs) \in Nat
        BY <2>2, LenProperties
      <4> QED
        BY <2>9, <4>1
    <3>2. Closed(hs)[1] # "CR"
      <4>1. Reach(AsLines(hs), 0) = 0
        BY <2>2, AsLinesIs, ReachIs
      <4>2. /\ hs[1] \in Seq(Token) /\ Len(hs[1]) \in Nat /\ Reach(AsLines(hs), 1) <= n
            /\ Reach(AsLines(hs), 1) = Reach(AsLines(hs), 0) + Len(hs[1]) + 2
            /\ \A i \in 1..Len(hs[1]) : LinesOf(hs)[Reach(AsLines(hs), 0) + i] = hs[1][i]
        <5>1. 1 - 1 = 0
          OBVIOUS
        <5> QED
          BY <2>2, <3>1, <5>1, BlockPlaces, SMTT(40)
      <4>3. Len(hs[1]) >= 1 /\ Unbroken(hs[1])
        BY <2>5, <3>1 DEF Block
      <4>4. 1 \in 1..Len(hs[1]) /\ 1 \in 1..n /\ 0 + 1 = 1
        <5> HIDE DEF n
        <5> QED
          BY <2>2, <4>1, <4>2, <4>3
      <4>5. hs[1][1] # "CR"
        BY <4>2, <4>3, <4>4, UnbrokenIs
      <4>6. LinesOf(hs)[1] = hs[1][1]
        BY <4>1, <4>2, <4>4
      <4>7. Closed(hs)[1] = LinesOf(hs)[1]
        BY <2>2, <4>4, ClosedIs
      <4> QED
        BY <4>5, <4>6, <4>7
    <3>3. ~at1
      BY <2>6, <3>2
    <3>4. /\ Len(Remaining) < n + 2 => ends = {}
          /\ Len(Remaining) >= n + 2 =>
                 ends # {} /\ Find(ends) = n - 2 /\ SubSeq(Remaining, 1, n) = LinesOf(hs)
      BY <2>2, <2>4, <2>5, <3>1, FirstBlank DEF ends
    <3>5. CASE Len(Remaining) < n + 2
      BY <2>7, <3>3, <3>4, <3>5
    <3>6. CASE Len(Remaining) >= n + 2
      <4>1. ends # {} /\ Find(ends) + 2 = n /\ Find(ends) + 4 = Len(Closed(hs))
        BY <2>2, <3>4, <3>6
      <4>2. lines = hs
        <5>1. SubSeq(Remaining, 1, Find(ends) + 2) = LinesOf(hs)
          BY <3>4, <3>6, <4>1
        <5> QED
          BY <2>2, <2>5, <5>1, LinesInBlock
      <4>3. legal
        <5>1. DOMAIN hs = 1..Len(hs)
          BY <2>2, LenProperties
        <5> HIDE DEF lines
        <5> QED
          BY <2>5, <4>2, <5>1
      <4>4. ReturnChunked(Len(Closed(hs)))
        <5> HIDE DEF legal
        <5>1. ReturnChunked(Find(ends) + 4)
          BY <1>1, <3>3, <4>1, <4>3 DEF AwaitDelimiter
        <5> QED
          BY <4>1, <5>1
      <4> QED
        BY <1>1, <1>3, <4>4, ReturnServes
    <3> QED
      BY <2>2, <2>4, <3>5, <3>6
  <2> QED
    BY <2>8, <2>9
<1> QED
  BY <1>1, <1>2, <1>3, HandlerKeeps

\* A read: there is a message to which its bytes belong.
LEMMA ReceiveKeeps ==
    ASSUME IInv, InStep, NEW n \in Nat \ {0}, Receive(n), tail = << >> \/ Len(delivered) # Len(sent)
    PROVE  InStep'
<1>1. /\ result \in {"none", "Incomplete"} /\ arrived + n <= Len(Wire) /\ result' = "parsing"
      /\ request' = (IF FreshRequest THEN NoRequest ELSE request)
      /\ UNCHANGED <<sent, base, delivered, state, consumed, bodySize, chunkSize, chunkBytesRead, body>>
  BY DEF Receive, parser, chunks
<1>2. delivered' \in Seq(Range(delivered'))
  BY <1>1 DEF InStep
<1> SUFFICES ASSUME LegalBefore(Len(delivered))'
             PROVE  /\ base' = Extent(Len(delivered))'
                    /\ ~FreshRequest => \A i \in DOMAIN delivered' : delivered'[i] = Meaning(sent'[i])
                    /\ Len(delivered') + 1 \in DOMAIN sent'
                    /\ Legal(Current)' => Progress(Current)' /\ (~FreshRequest => Kept(Current)')
  BY <1>1, <1>2 DEF InStep
<1>3. LegalBefore(Len(delivered))
  BY <1>1 DEF LegalBefore
<1>4. /\ base = Extent(Len(delivered))
      /\ ~FreshRequest => \A i \in DOMAIN delivered : delivered[i] = Meaning(sent[i])
  BY <1>3 DEF InStep
<1>5. Extent(Len(delivered))' = Extent(Len(delivered)) /\ Current' = Current
  BY <1>1 DEF Extent, Current
<1>6. Len(delivered) + 1 \in DOMAIN sent
  <2>1. CASE result = "Incomplete"
    BY <1>3, <2>1 DEF InStep
  <2>2. CASE result = "none"
    <3>1. sent \in Seq(AnyMessage) /\ tail \in Seq(Token) /\ Typed
      BY DEF IInv, Typed
    <3>2. Len(sent) \in Nat /\ DOMAIN sent = 1..Len(sent) /\ Len(Wire) = Extent(Len(sent)) + Len(tail)
          /\ Extent(Len(sent)) \in Nat
      <4>1. Len(sent) \in Nat
        BY <3>1, LenProperties
      <4>2. Len(sent) \in 0..Len(sent)
        BY <4>1
      <4> QED
        BY <3>1, <4>2, ExtentIs, LenProperties
    <3>3. Len(delivered) \in Nat
      BY DeliveredIs
    <3>4. Len(delivered) <= Len(sent)
      <4>1. CASE Len(delivered) = 0
        BY <3>2, <4>1
      <4>2. CASE Len(delivered) # 0
        <5>1. Len(delivered) \in 1..Len(delivered)
          BY <3>3, <4>2
        <5>2. Len(delivered) \in DOMAIN sent
          BY <1>3, <5>1 DEF LegalBefore
        <5> QED
          BY <3>2, <5>2
      <4> QED
        BY <4>1, <4>2
    <3>5. base # Len(Wire)
      <4>1. base \in Nat /\ arrived \in Nat /\ base <= arrived /\ Len(Wire) \in Nat
        BY <3>1, RemainingIs
      <4> QED
        BY <1>1, <4>1
    <3>6. Len(delivered) # Len(sent)
      <4>1. ASSUME tail = << >> PROVE Extent(Len(sent)) = Len(Wire)
        <5>1. Len(tail) = 0
          BY <4>1, EmptySeq
        <5> QED
          BY <3>2, <5>1
      <4> QED
        BY <1>4, <3>5, <4>1
    <3> QED
      BY <3>2, <3>3, <3>4, <3>6
  <2> QED
    BY <1>1, <2>1, <2>2
<1>7. ASSUME Legal(Current)' PROVE Progress(Current)' /\ (~FreshRequest => Kept(Current)')
  <2>1. PICK m : m = Current
    OBVIOUS
  <2>2. Legal(Current)
    BY <1>5, <1>7 DEF Legal, Roomy, HasHeader, Unbroken
  <2>3. Current' = m
    BY <1>5, <2>1
  <2>4. CASE result = "Incomplete"
    <3>1. Progress(m) /\ (~FreshRequest => Kept(m))
      BY <1>3, <2>1, <2>2, <2>4 DEF InStep
    <3>2. state = "Headers" => request'.headers = << >>
      BY <1>1, <3>1 DEF Progress, NoRequest
    <3>3. Progress(m)'
      <4>1. state # "Complete"
        BY <2>4 DEF IInv, Typed, TypeOK
      <4> QED
        BY <1>1, <3>1, <3>2, <4>1 DEF Progress, ChunkProgress
    <3>4. ~FreshRequest => Kept(m)'
      BY <1>1, <3>1 DEF Kept
    <3> QED
      BY <2>3, <3>3, <3>4 DEF Progress, ChunkProgress, Kept
  <2>5. CASE result = "none"
    <3>1. state' = "RequestLine" /\ consumed' = 0 /\ result' = "parsing"
      BY <1>1, <1>3, <2>5 DEF InStep
    <3> QED
      BY <3>1 DEF Progress, ChunkProgress, Kept
  <2> QED
    BY <1>1, <2>4, <2>5
<1> QED
  BY <1>1, <1>4, <1>5, <1>6, <1>7

\* The requests handed on, when one more is.
LEMMA DeliverLen ==
    ASSUME InStep, Deliver
    PROVE  /\ Len(delivered') = Len(delivered) + 1 /\ DOMAIN delivered' = 1..(Len(delivered) + 1)
           /\ \A i \in 1..Len(delivered) : delivered'[i] = delivered[i]
           /\ delivered'[Len(delivered) + 1] = request
           /\ delivered' \in Seq(Range(delivered'))
<1> DEFINE S == Range(delivered) \cup {request}
<1>1. delivered \in Seq(S)
  <2>1. delivered \in Seq(Range(delivered)) /\ Range(delivered) \subseteq S
    BY DEF InStep
  <2> QED
    BY <2>1, SeqMonotonic
<1>2. request \in S /\ Len(delivered) \in Nat
  BY DeliveredIs
<1> HIDE DEF S
<1>3. PICK d : d = delivered'
  OBVIOUS
<1>4. /\ d \in Seq(S) /\ Len(d) = Len(delivered) + 1
      /\ \A i \in 1..Len(delivered) : d[i] = delivered[i]
      /\ d[Len(delivered) + 1] = request
  <2>1. d = Append(delivered, request)
    BY <1>3 DEF Deliver
  <2> QED
    BY <1>1, <1>2, <2>1, AppendProperties
<1>5. DOMAIN d = 1..Len(d) /\ Len(d) \in Nat /\ d = [i \in 1..Len(d) |-> d[i]]
  BY <1>4, LenProperties
<1>6. d \in Seq(Range(d))
  <2>1. \A i \in 1..Len(d) : d[i] \in Range(d)
    BY <1>5 DEF Range
  <2>2. d \in [1..Len(d) -> Range(d)]
    BY <1>5, <2>1
  <2> QED
    BY <1>5, <2>2, SeqOver
<1> QED
  BY <1>3, <1>4, <1>5, <1>6

\* consume takes the message off the buffer, and the next one comes.
LEMMA DeliverKeeps ==
    ASSUME IInv, InStep, Deliver
    PROVE  InStep'
<1> DEFINE n == Len(delivered)
<1>1. /\ result = "Complete" /\ delivered' = Append(delivered, request) /\ base' = base + consumed
      /\ state' = "RequestLine" /\ consumed' = 0 /\ result' = "none" /\ UNCHANGED sent
  BY DEF Deliver
<1>2. n \in Nat /\ DOMAIN delivered = 1..n
  BY DeliveredIs
<1>3. /\ Len(delivered') = n + 1 /\ DOMAIN delivered' = 1..(n + 1)
      /\ \A i \in 1..n : delivered'[i] = delivered[i]
      /\ delivered'[n + 1] = request
      /\ delivered' \in Seq(Range(delivered'))
  BY DeliverLen
<1> HIDE DEF n
<1> SUFFICES ASSUME LegalBefore(Len(delivered))'
             PROVE  /\ base' = Extent(Len(delivered))'
                    /\ ~FreshRequest => \A i \in DOMAIN delivered' : delivered'[i] = Meaning(sent'[i])
  BY <1>1, <1>3 DEF InStep
<1>5. LegalBefore(n) /\ n + 1 \in DOMAIN sent /\ Legal(sent[n + 1])
  <2>1. \A i \in 1..(n + 1) : i \in DOMAIN sent /\ Legal(sent[i])
    BY <1>1, <1>3 DEF LegalBefore
  <2>2. n + 1 \in 1..(n + 1) /\ \A i \in 1..n : i \in 1..(n + 1)
    BY <1>2
  <2> QED
    BY <2>1, <2>2 DEF LegalBefore
<1>6. /\ base = Extent(n)
      /\ ~FreshRequest => \A i \in DOMAIN delivered : delivered[i] = Meaning(sent[i])
      /\ Progress(sent[n + 1]) /\ (~FreshRequest => Kept(sent[n + 1]))
  BY <1>1, <1>5 DEF InStep, Current, n
<1>7. state = "Complete"
  BY <1>1 DEF IInv, Typed, TypeOK
<1>8. consumed = Len(Encode(sent[n + 1])) /\ (~FreshRequest => request = Meaning(sent[n + 1]))
  BY <1>6, <1>7 DEF Progress, Kept
<1>9. base' = Extent(n + 1)
  <2>1. sent \in Seq(AnyMessage) /\ tail \in Seq(Token)
    BY DEF IInv, Typed
  <2>2. n \in 0..(Len(sent) - 1)
    BY <1>2, <1>5, <2>1, LenProperties
  <2>3. Extent(n + 1) = Extent(n) + Len(Encode(sent[n + 1]))
    BY <2>1, <2>2, ExtentIs
  <2> QED
    BY <1>1, <1>6, <1>8, <2>3
<1>10. Extent(Len(delivered))' = Extent(n + 1)
  BY <1>1, <1>3 DEF Extent
<1>11. ASSUME ~FreshRequest, NEW i \in 1..(n + 1) PROVE delivered'[i] = Meaning(sent'[i])
  <2>1. CASE i = n + 1
    BY <1>1, <1>3, <1>8, <1>11, <2>1
  <2>2. CASE i # n + 1
    <3>1. i \in 1..n
      BY <1>2, <2>2
    <3> QED
      BY <1>1, <1>2, <1>3, <1>6, <1>11, <3>1
  <2> QED
    BY <2>1, <2>2
<1> QED
  BY <1>3, <1>9, <1>10, <1>11

\* A new connection is in step.
LEMMA InStepStart ==
    ASSUME ParserInit, sent \in Seq(AnyMessage), tail \in Seq(Token)
    PROVE  InStep
<1>1. delivered = << >> /\ base = 0 /\ state = "RequestLine" /\ consumed = 0 /\ result = "none"
  BY DEF ParserInit
<1>2. Len(delivered) = 0 /\ DOMAIN delivered = {} /\ delivered \in Seq(Range(delivered))
  BY <1>1, EmptySeq
<1>3. Extent(0) = 0
  BY ExtentIs
<1> QED
  BY <1>1, <1>2, <1>3 DEF InStep

\* parse stays in step.
LEMMA ParseKeeps ==
    ASSUME IInv, InStep, Parse
    PROVE  InStep'
  BY RequestLineKeeps, HeadersKeeps, BodyKeeps, ChunkSizeKeeps, ChunkDataKeeps, ChunkDataCrlfKeeps,
     ChunkTrailerKeeps DEF Parse

\* A step of somebody else.
LEMMA InStepSame ==
    ASSUME InStep, UNCHANGED vars
    PROVE  InStep'
<1>1. /\ UNCHANGED <<sent, tail, arrived, base, state, consumed, bodySize, chunkSize, chunkBytesRead, body>>
      /\ UNCHANGED <<request, result, delivered>>
  BY DEF vars, stream, parser, chunks
<1>2. /\ Extent(Len(delivered))' = Extent(Len(delivered)) /\ Current' = Current
      /\ LegalBefore(Len(delivered))' = LegalBefore(Len(delivered))
  BY <1>1 DEF Extent, Current, LegalBefore
<1>3. ASSUME NEW m PROVE Progress(m)' = Progress(m) /\ Kept(m)' = Kept(m)
  BY <1>1 DEF Progress, ChunkProgress, Kept
<1>4. PICK m : m = Current
  OBVIOUS
<1>5. Progress(Current)' = Progress(m)' /\ Kept(Current)' = Kept(m)' /\ Legal(Current)' = Legal(m)
  BY <1>2, <1>4 DEF Progress, ChunkProgress, Kept
<1> QED
  BY <1>1, <1>2, <1>3, <1>4, <1>5 DEF InStep

\* However the stream is cut, and whatever is on it: as long as the messages
\* handed on are legal, each was handed on as its sender means it, the buffer
\* begins with the next message, and in a legal message parse is where its state_
\* says it is (HttpParser.cpp, its handlers; Worker::handleClientData).
THEOREM StaysInStep == Spec => []InStep
<1>1. IInv /\ InStep /\ PlainStream /\ [Next]_vars => InStep'
  <2> SUFFICES ASSUME IInv, InStep, PlainStream, [Next]_vars PROVE InStep'
    OBVIOUS
  <2>1. ASSUME NEW n \in 1..Len(Wire), Receive(n) PROVE InStep'
    <3>1. n \in Nat \ {0}
      BY RemainingIs DEF IInv
    <3> QED
      BY <2>1, <3>1, ReceiveKeeps DEF PlainStream
  <2>2. CASE Parse
    BY <2>2, ParseKeeps
  <2>3. CASE Deliver
    BY <2>3, DeliverKeeps
  <2> QED
    BY <2>1, <2>2, <2>3, InStepSame DEF Next, Finished
<1>2. Init => InStep
  BY InitIs, InStepStart
<1> QED
  BY <1>1, <1>2, Invariance, StaysPlain, PTL DEF Spec

\* In a state in which the messages handed on were legal, the next one gets
\* through if it is legal.
LEMMA InStepGetsThrough ==
    ASSUME IInv, InStep, LegalBefore(Len(delivered))
    PROVE  LegalGetsThrough
<1>1. base = Extent(Len(delivered)) /\ (result # "none" => Len(delivered) + 1 \in DOMAIN sent)
  BY DEF InStep
<1>2. ASSUME result = "Invalid", Legal(Current) PROVE FALSE
  <2>1. state = "Error"
    BY <1>2 DEF IInv, Typed, TypeOK
  <2>2. Progress(Current)
    BY <1>2 DEF InStep
  <2> QED
    BY <2>1, <2>2 DEF Progress
<1>3. ASSUME result = "Incomplete", Legal(Current) PROVE arrived < Extent(Len(delivered) + 1)
  <2>1. arrived < base + Len(Encode(sent[Len(delivered) + 1]))
    BY <1>3 DEF InStep, Progress, Current
  <2>2. sent \in Seq(AnyMessage) /\ tail \in Seq(Token)
    BY DEF IInv, Typed
  <2>3. Len(delivered) \in 0..(Len(sent) - 1)
    BY <1>1, <1>3, <2>2, DeliveredIs, LenProperties
  <2>4. Extent(Len(delivered) + 1) = Extent(Len(delivered)) + Len(Encode(sent[Len(delivered) + 1]))
    BY <2>2, <2>3, ExtentIs
  <2> QED
    BY <1>1, <2>1, <2>4
<1> QED
  BY <1>2, <1>3 DEF LegalGetsThrough, LegalAccepted, WholeIsComplete

(***************************************************************************)
(* A message whose head is at fault is never handed on.                    *)
(***************************************************************************)

\* The request line or the headers are at fault, however the message is cut: the
\* line is not one of HTTP/1.1 or too long, or the headers are too long, too many,
\* ill-formed, or contradict each other about the body.
Refused(m) ==
    /\ Unbroken(m.line)
    /\ \/ ~ValidRequestLine(m.line)
       \/ Len(m.line) > MAX_REQUEST_LINE
       \/ /\ Len(m.headers) >= 1 /\ Block(m.headers)
          /\ \/ Len(LinesOf(m.headers)) - 2 > MAX_HEADER_SIZE
             \/ ~ValidHeaders(m.headers)
             \/ Framing(m.headers) = "bad"

\* The parser does not get past the head of such a message.
Stopped(m) ==
    /\ state \in {"RequestLine", "Headers", "Error"}
    /\ state = "RequestLine" => consumed = 0
    /\ state = "Headers" => /\ consumed = LineEnd(m) /\ request.headers = << >>
                            /\ ValidRequestLine(m.line) /\ Len(m.line) <= MAX_REQUEST_LINE

\* It is so as long as the messages before it were legal.
Stops == LegalBefore(Len(delivered)) /\ result # "none" /\ Refused(Current) => Stopped(Current)

\* handleRequestLine goes on only if the line is not at fault.
LEMMA LineStops ==
    ASSUME NEW m, Working(m), Refused(m), Stopped(m), HandleRequestLine
    PROVE  Stopped(m)'
<1> DEFINE ends == Crlfs(Remaining)
           line == SubSeq(Remaining, 1, Find(ends))
           legal == Find(ends) <= MAX_REQUEST_LINE /\ ValidRequestLine(line)
           Advance == /\ request' = [NoRequest EXCEPT !.line = line]
                      /\ consumed' = consumed + Find(ends) + 2
                      /\ state' = "Headers"
                      /\ UNCHANGED <<stream, bodySize, chunks, result>>
<1>1. /\ state = "RequestLine" /\ consumed = 0
      /\ \/ AwaitDelimiter(ends, MAX_REQUEST_LINE)
         \/ ends # {} /\ ~legal /\ Fail
         \/ ends # {} /\ legal /\ Advance
  BY DEF HandleRequestLine, In, Stopped
<1>2. CASE Fail
  BY <1>2 DEF Fail, Stopped
<1>3. CASE Incomplete
  BY <1>1, <1>3 DEF Incomplete, parser, Stopped
<1>4. CASE ends # {} /\ legal /\ Advance
  <2>1. m \in AnyMessage /\ Unbroken(m.line)
    BY DEF Working, Refused
  <2>2. m.line \in Seq(Token) /\ Line(m.line) \in Seq(Token) /\ Len(m.line) \in Nat
    BY <2>1, MessageIs, LineIs
  <2>3. At(Encode(m), consumed, Line(m.line))
    BY <1>1, <2>1, EncodeIs
  <2>4. Remaining \in Seq(Token) /\ Len(Remaining) \in Nat /\ Sees(Remaining, Line(m.line))
    BY <2>2, <2>3, WorkingSees
  <2>5. /\ Len(Remaining) < Len(m.line) + 2 => ends = {}
        /\ Len(Remaining) >= Len(m.line) + 2 =>
               Find(ends) = Len(m.line) /\ SubSeq(Remaining, 1, Len(m.line)) = m.line
    BY <2>1, <2>2, <2>4, FirstBreak
  <2> HIDE DEF ends
  <2>6. Find(ends) = Len(m.line) /\ line = m.line
    BY <1>4, <2>2, <2>4, <2>5
  <2>7. state' = "Headers" /\ consumed' = LineEnd(m)
    BY <1>1, <1>4, <2>2, <2>6 DEF LineEnd
  <2>8. request'.headers = << >>
    BY <1>4 DEF NoRequest
  <2>9. ValidRequestLine(m.line) /\ Len(m.line) <= MAX_REQUEST_LINE
    BY <1>4, <2>6
  <2> QED
    BY <2>7, <2>8, <2>9 DEF Stopped
<1> QED
  BY <1>1, <1>2, <1>3, <1>4 DEF AwaitDelimiter

\* handleHeaders does not go on.
LEMMA HeadersStop ==
    ASSUME NEW m, Working(m), Refused(m), Stopped(m), HandleHeaders
    PROVE  Stopped(m)'
<1> DEFINE ends == Blanks(Remaining)
           lines == LinesIn(SubSeq(Remaining, 1, Find(ends) + 4))
           req == [request EXCEPT !.headers = @ \o lines]
           legal == /\ Find(ends) <= MAX_HEADER_SIZE
                    /\ ValidHeaders(lines)
                    /\ Framing(req.headers) # "bad"
<1>1. /\ state = "Headers"
      /\ \/ AwaitDelimiter(ends, MAX_HEADER_SIZE)
         \/ ends # {} /\ ~legal /\ Fail
         \/ ends # {} /\ legal
  BY DEF HandleHeaders, In
<1>2. /\ consumed = LineEnd(m) /\ request.headers = << >> /\ ValidRequestLine(m.line)
      /\ Len(m.line) <= MAX_REQUEST_LINE
  BY <1>1 DEF Stopped
<1>3. CASE Fail
  BY <1>3 DEF Fail, Stopped
<1>4. CASE Incomplete
  <2>1. UNCHANGED <<state, consumed, request>>
    BY <1>4 DEF Incomplete, parser
  <2> QED
    BY <1>1, <1>2, <2>1 DEF Stopped
<1>5. ASSUME ends # {}, legal PROVE FALSE
  <2> DEFINE hs == m.headers
             n == Len(LinesOf(hs))
  <2>1. m \in AnyMessage
    BY DEF Working
  <2>2. hs \in Seq(Seq(Token)) /\ m.line \in Seq(Token) /\ Closed(hs) \in Seq(Token) /\ n \in Nat
        /\ Len(Closed(hs)) = n + 2
    BY <2>1, MessageIs, ClosedIs
  <2>3. MAX_REQUEST_LINE \in Nat /\ Len(m.line) \in Nat /\ MAX_HEADER_SIZE \in Nat
    BY <2>2, LimitsPositive, LenProperties DEF Limits
  <2>4. /\ Len(hs) >= 1 /\ Block(hs)
        /\ n - 2 > MAX_HEADER_SIZE \/ ~ValidHeaders(hs) \/ Framing(hs) = "bad"
    BY <1>2, <2>3 DEF Refused
  <2>5. At(Encode(m), consumed, Closed(hs))
    BY <1>2, <2>1, EncodeIs
  <2>6. Remaining \in Seq(Token) /\ Len(Remaining) \in Nat /\ Sees(Remaining, Closed(hs))
    BY <2>2, <2>5, WorkingSees
  <2>7. /\ Len(Remaining) < n + 2 => ends = {}
        /\ Len(Remaining) >= n + 2 => Find(ends) = n - 2 /\ SubSeq(Remaining, 1, n + 2) = Closed(hs)
    BY <2>2, <2>4, <2>6, FirstBlank
  <2>8. Find(ends) = n - 2 /\ Find(ends) + 4 = n + 2 /\ SubSeq(Remaining, 1, n + 2) = Closed(hs)
    <3> HIDE DEF ends, legal
    <3> QED
      BY <1>5, <2>2, <2>6, <2>7
  <2>9. lines = hs
    <3>1. SubSeq(Remaining, 1, Find(ends) + 4) = Closed(hs)
      BY <2>8
    <3> QED
      BY <2>2, <2>4, <3>1, LinesInBlock
  <2> HIDE DEF lines, ends
  <2>10. req.headers = hs
    <3>1. DOMAIN request = {"line", "headers", "body"}
      BY DEF Working, IInv, Typed
    <3>2. << >> \o hs = hs
      BY <2>2, ConcatEmptySeq
    <3> QED
      BY <1>2, <2>9, <3>1, <3>2
  <2> HIDE DEF req
  <2>11. ValidHeaders(hs) /\ Framing(hs) # "bad" /\ n - 2 <= MAX_HEADER_SIZE
    BY <1>5, <2>8, <2>9, <2>10
  <2> QED
    BY <2>2, <2>3, <2>4, <2>11
<1> QED
  BY <1>1, <1>3, <1>4, <1>5 DEF AwaitDelimiter

\* No handler gets past the head.
LEMMA ParseStops ==
    ASSUME IInv, InStep, Stops, Parse
    PROVE  Stops'
<1>1. UNCHANGED stream /\ result = "parsing"
  BY ParseIs
<1>2. UNCHANGED <<sent, delivered>>
  BY <1>1 DEF stream
<1> SUFFICES ASSUME LegalBefore(Len(delivered))', Refused(Current)' PROVE Stopped(Current)'
  BY DEF Stops
<1>3. PICK m : m = Current
  OBVIOUS
<1>4. Current' = m /\ LegalBefore(Len(delivered)) /\ Refused(m)
  BY <1>2, <1>3 DEF Current, LegalBefore
<1>5. Working(m) /\ Stopped(m)
  BY <1>1, <1>3, <1>4, WorkingIs DEF Stops
<1>6. CASE HandleRequestLine \/ HandleHeaders
  BY <1>4, <1>5, <1>6, LineStops, HeadersStop DEF Stopped
<1>7. CASE state \notin {"RequestLine", "Headers"}
  BY <1>1, <1>5, <1>7 DEF Stopped, Working, IInv, Typed, TypeOK
<1> QED
  BY <1>6, <1>7 DEF Parse, HandleBody, HandleChunkSize, HandleChunkData, HandleChunkDataCrlf,
                    HandleChunkTrailer, In

\* Nor does a further call, with a new HttpRequest or not.
LEMMA ReceiveStops ==
    ASSUME IInv, InStep, Stops, NEW n, Receive(n)
    PROVE  Stops'
<1>1. /\ result \in {"none", "Incomplete"} /\ UNCHANGED <<sent, delivered, state, consumed>>
      /\ request' = (IF FreshRequest THEN NoRequest ELSE request)
  BY DEF Receive, parser
<1> SUFFICES ASSUME LegalBefore(Len(delivered))', Refused(Current)' PROVE Stopped(Current)'
  BY DEF Stops
<1>2. PICK m : m = Current
  OBVIOUS
<1>3. Current' = m /\ LegalBefore(Len(delivered)) /\ Refused(m)
  BY <1>1, <1>2 DEF Current, LegalBefore
<1>4. CASE result = "none"
  <2>1. state' = "RequestLine" /\ consumed' = 0
    BY <1>1, <1>3, <1>4 DEF InStep
  <2> QED
    BY <2>1 DEF Stopped
<1>5. CASE result = "Incomplete"
  <2>1. Stopped(m)
    BY <1>2, <1>3, <1>5 DEF Stops
  <2>2. Stopped(m)'
    BY <1>1, <2>1 DEF Stopped, NoRequest
  <2> QED
    BY <1>3, <2>2 DEF Stopped
<1> QED
  BY <1>1, <1>4, <1>5

\* Nor a step of somebody else.
LEMMA StopsSame ==
    ASSUME Stops, UNCHANGED vars
    PROVE  Stops'
<1>1. UNCHANGED <<sent, delivered, state, consumed, request, result>>
  BY DEF vars, stream, parser
<1> QED
  BY <1>1 DEF Stops, Stopped, LegalBefore, Current

\* However the stream is cut, a message whose request line or headers are at fault
\* is not handed on as long as those before it were legal: parse stops in its head
\* (parseRequestLine, parseHeaders and the framing checks of handleHeaders).
THEOREM StopsInHead == Spec => []Stops
<1>1. Init => Stops
  BY DEF Init, ParserInit, Stops
<1>2. IInv /\ InStep /\ Stops /\ [Next]_vars => Stops'
  <2> SUFFICES ASSUME IInv, InStep, Stops, [Next]_vars PROVE Stops'
    OBVIOUS
  <2>1. CASE Deliver
    BY <2>1 DEF Deliver, Stops
  <2> QED
    BY <2>1, ParseStops, ReceiveStops, StopsSame DEF Next, Finished
<1> QED
  BY <1>1, <1>2, Invariance, StaysInStep, PTL DEF Spec

(***************************************************************************)
(* What a request keeps of its message when it is handed on.               *)
(***************************************************************************)

\* parse may lose the request line or the headers of the request it works on, when
\* it gets a new HttpRequest with each call, but it does not invent any.
Late == {"Body", "ChunkSize", "ChunkData", "ChunkDataCrlf", "ChunkTrailer", "Complete"}
OwnParts(m) ==
    /\ state \in Late \cup {"Headers"} => request.line \in {m.line, << >>}
    /\ state \in Late => request.headers \in {m.headers, << >>}
Own == LegalBefore(Len(delivered)) /\ result # "none" /\ Legal(Current) => OwnParts(Current)

\* The headers handleHeaders finds are those of the message.
LEMMA HeadersFound ==
    ASSUME NEW m, Serving(m), state = "Headers", Blanks(Remaining) # {}
    PROVE  /\ LinesIn(SubSeq(Remaining, 1, Find(Blanks(Remaining)) + 4)) = m.headers
           /\ request.headers = << >> /\ m.headers \in Seq(Seq(Token))
<1> DEFINE n == Len(LinesOf(m.headers))
           hs == m.headers
           ends == Blanks(Remaining)
<1>1. m \in AnyMessage /\ Legal(m) /\ consumed = LineEnd(m) /\ request.headers = << >>
  BY DEF Serving, Progress
<1>2. hs \in Seq(Seq(Token)) /\ Closed(hs) \in Seq(Token) /\ n \in Nat /\ Len(Closed(hs)) = n + 2
  BY <1>1, MessageIs, ClosedIs
<1>3. At(Encode(m), consumed, Closed(hs))
  BY <1>1, EncodeIs
<1>4. Remaining \in Seq(Token) /\ Len(Remaining) \in Nat /\ Sees(Remaining, Closed(hs))
  BY <1>2, <1>3, ServingSees
<1>5. Block(hs) /\ Len(hs) >= 1
  BY <1>1, LegalLines
<1>6. /\ Len(Remaining) < n + 2 => ends = {}
      /\ Len(Remaining) >= n + 2 => Find(ends) = n - 2 /\ SubSeq(Remaining, 1, n + 2) = Closed(hs)
  BY <1>2, <1>4, <1>5, FirstBlank
<1>7. Find(ends) = n - 2 /\ SubSeq(Remaining, 1, n + 2) = Closed(hs)
  BY <1>2, <1>4, <1>6
<1>8. Find(ends) + 4 = n + 2
  BY <1>2, <1>7
<1> QED
  BY <1>1, <1>2, <1>5, <1>7, <1>8, LinesInBlock

\* The line handleRequestLine finds is that of the message.
LEMMA LineFound ==
    ASSUME NEW m, Serving(m), state = "RequestLine", Crlfs(Remaining) # {}
    PROVE  SubSeq(Remaining, 1, Find(Crlfs(Remaining))) = m.line
<1>1. m \in AnyMessage /\ Legal(m) /\ consumed = 0 /\ Unbroken(m.line)
  BY DEF Serving, Progress, Legal
<1>2. m.line \in Seq(Token) /\ Line(m.line) \in Seq(Token) /\ Len(m.line) \in Nat
  BY <1>1, MessageIs, LineIs
<1>3. At(Encode(m), consumed, Line(m.line))
  BY <1>1, EncodeIs
<1>4. Remaining \in Seq(Token) /\ Len(Remaining) \in Nat /\ Sees(Remaining, Line(m.line))
  BY <1>2, <1>3, ServingSees
<1>5. /\ Len(Remaining) < Len(m.line) + 2 => Crlfs(Remaining) = {}
      /\ Len(Remaining) >= Len(m.line) + 2 =>
             Find(Crlfs(Remaining)) = Len(m.line) /\ SubSeq(Remaining, 1, Len(m.line)) = m.line
  BY <1>1, <1>2, <1>4, FirstBreak
<1> QED
  BY <1>2, <1>4, <1>5

\* parse takes nothing from elsewhere.
LEMMA ParseOwn ==
    ASSUME IInv, InStep, Own, Parse
    PROVE  Own'
<1>1. UNCHANGED stream /\ result = "parsing"
  BY ParseIs
<1>2. UNCHANGED <<sent, delivered>>
  BY <1>1 DEF stream
<1> SUFFICES ASSUME LegalBefore(Len(delivered))', Legal(Current)' PROVE OwnParts(Current)'
  BY DEF Own
<1>3. PICK m : m = Current
  OBVIOUS
<1>4. Current' = m /\ LegalBefore(Len(delivered)) /\ Legal(m)
  BY <1>2, <1>3 DEF Current, LegalBefore
<1>5. Serving(m) /\ OwnParts(m)
  BY <1>1, <1>3, <1>4, ServingIs DEF Own
<1>6. DOMAIN request = {"line", "headers", "body"}
  BY DEF IInv, Typed
<1> SUFFICES OwnParts(m)'
  BY <1>4 DEF OwnParts
<1>7. CASE HandleHeaders
  <2> DEFINE ends == Blanks(Remaining)
             lines == LinesIn(SubSeq(Remaining, 1, Find(ends) + 4))
             req == [request EXCEPT !.headers = @ \o lines]
  <2>1. /\ state = "Headers"
        /\ \/ AwaitDelimiter(ends, MAX_HEADER_SIZE)
           \/ Fail
           \/ ends # {} /\ BeginBody(req, Find(ends) + 4)
    BY <1>7 DEF HandleHeaders, In
  <2>2. request.line \in {m.line, << >>}
    BY <1>5, <2>1 DEF OwnParts
  <2>3. CASE AwaitDelimiter(ends, MAX_HEADER_SIZE) \/ Fail
    <3>1. state' \notin Late /\ UNCHANGED request
      BY <2>1, <2>3 DEF AwaitDelimiter, Fail, Incomplete, parser, Late
    <3> QED
      BY <2>2, <3>1 DEF OwnParts
  <2>4. CASE ends # {} /\ BeginBody(req, Find(ends) + 4)
    <3>1. lines = m.headers /\ request.headers = << >> /\ << >> \o m.headers = m.headers
      BY <1>5, <2>1, <2>4, HeadersFound, ConcatEmptySeq
    <3> HIDE DEF lines, ends
    <3>2. req.headers = m.headers /\ DOMAIN req = {"line", "headers", "body"} /\ req.line = request.line
      BY <1>6, <3>1
    <3> HIDE DEF req
    <3>3. request' = req \/ request' = [req EXCEPT !.body = << >>]
      BY <2>4 DEF BeginBody, Return
    <3>4. request'.headers = m.headers /\ request'.line = request.line
      BY <3>2, <3>3
    <3> QED
      BY <2>2, <3>4 DEF OwnParts
  <2> QED
    BY <2>1, <2>3, <2>4
<1>8. CASE HandleRequestLine
  <2> DEFINE ends == Crlfs(Remaining)
             line == SubSeq(Remaining, 1, Find(ends))
  <2>1. /\ state = "RequestLine"
        /\ \/ AwaitDelimiter(ends, MAX_REQUEST_LINE)
           \/ Fail
           \/ /\ ends # {} /\ request' = [NoRequest EXCEPT !.line = line]
              /\ state' = "Headers"
    BY <1>8 DEF HandleRequestLine, In
  <2>2. CASE AwaitDelimiter(ends, MAX_REQUEST_LINE) \/ Fail
    <3>1. state' \notin Late \cup {"Headers"}
      BY <2>1, <2>2 DEF AwaitDelimiter, Fail, Incomplete, parser, Late
    <3> QED
      BY <3>1 DEF OwnParts
  <2>3. CASE ends # {} /\ request' = [NoRequest EXCEPT !.line = line] /\ state' = "Headers"
    <3>1. line = m.line
      BY <1>5, <2>1, <2>3, LineFound
    <3> HIDE DEF line
    <3>2. request'.line = m.line /\ state' \notin Late
      BY <2>3, <3>1 DEF NoRequest, Late
    <3> QED
      BY <3>2 DEF OwnParts
  <2> QED
    BY <2>1, <2>2, <2>3
<1>9. CASE state \in Late /\ \E b : request' = request \/ request' = [request EXCEPT !.body = b]
  <2>1. request'.headers = request.headers /\ request'.line = request.line
    BY <1>6, <1>9
  <2> QED
    BY <1>5, <1>9, <2>1 DEF OwnParts
<1>10. CASE HandleBody
  <2>1. state \in Late /\ \E b : request' = request \/ request' = [request EXCEPT !.body = b]
    BY <1>10 DEF HandleBody, In, Incomplete, Return, Late
  <2> QED
    BY <1>9, <2>1
<1>11. CASE HandleChunkSize
  BY <1>9, <1>11 DEF HandleChunkSize, In, AwaitDelimiter, Fail, Incomplete, Late
<1>12. CASE HandleChunkData
  BY <1>9, <1>12 DEF HandleChunkData, In, Late
<1>13. CASE HandleChunkDataCrlf
  BY <1>9, <1>13 DEF HandleChunkDataCrlf, In, Fail, Incomplete, Late
<1>14. CASE HandleChunkTrailer
  <2>1. state \in Late /\ \E b : request' = request \/ request' = [request EXCEPT !.body = b]
    BY <1>14 DEF HandleChunkTrailer, In, AwaitDelimiter, Fail, Incomplete, ReturnChunked, Return, Late
  <2> QED
    BY <1>9, <2>1
<1> QED
  BY <1>7, <1>8, <1>10, <1>11, <1>12, <1>13, <1>14 DEF Parse

\* Nor does a further call.
LEMMA ReceiveOwn ==
    ASSUME IInv, InStep, Own, NEW n, Receive(n)
    PROVE  Own'
<1>1. /\ result \in {"none", "Incomplete"} /\ UNCHANGED <<sent, delivered, state>>
      /\ request' = (IF FreshRequest THEN NoRequest ELSE request)
  BY DEF Receive, parser
<1> SUFFICES ASSUME LegalBefore(Len(delivered))', Legal(Current)' PROVE OwnParts(Current)'
  BY DEF Own
<1>2. PICK m : m = Current
  OBVIOUS
<1>3. Current' = m /\ LegalBefore(Len(delivered)) /\ Legal(m)
  BY <1>1, <1>2 DEF Current, LegalBefore
<1> SUFFICES OwnParts(m)'
  BY <1>3 DEF OwnParts
<1>4. CASE result = "none"
  <2>1. state' = "RequestLine"
    BY <1>1, <1>3, <1>4 DEF InStep
  <2> QED
    BY <2>1 DEF OwnParts, Late
<1>5. CASE result = "Incomplete"
  <2>1. OwnParts(m)
    BY <1>2, <1>3, <1>5 DEF Own
  <2>2. NoRequest.headers = << >> /\ NoRequest.line = << >>
    BY DEF NoRequest
  <2>3. (request'.headers = << >> /\ request'.line = << >>) \/ request' = request
    BY <1>1, <2>2
  <2> QED
    BY <1>1, <2>1, <2>3 DEF OwnParts
<1> QED
  BY <1>1, <1>4, <1>5

\* Nor a step of somebody else.
LEMMA OwnSame ==
    ASSUME Own, UNCHANGED vars
    PROVE  Own'
<1>1. UNCHANGED <<sent, delivered, state, request, result>>
  BY DEF vars, stream, parser
<1> QED
  BY <1>1 DEF Own, OwnParts, LegalBefore, Current

\* What has been handed on as long as the messages were legal: each with what is
\* left of its message, all of it if one HttpRequest served for it.
AllLeft ==
    \A i \in DOMAIN delivered :
        LegalBefore(i) => /\ LeftOf(delivered[i], sent[i])
                          /\ ~FreshRequest => delivered[i] = Meaning(sent[i])

\* One more is handed on.
LEMMA DeliverLeft ==
    ASSUME IInv, InStep, Own, AllLeft, Deliver
    PROVE  AllLeft'
<1> DEFINE n == Len(delivered)
<1>1. n \in Nat /\ DOMAIN delivered = 1..n
  BY DeliveredIs
<1>2. /\ Len(delivered') = n + 1 /\ DOMAIN delivered' = 1..(n + 1)
      /\ \A i \in 1..n : delivered'[i] = delivered[i]
      /\ delivered'[n + 1] = request
  BY DeliverLen
<1>3. UNCHANGED sent /\ result = "Complete" /\ state = "Complete"
  BY DEF Deliver, IInv, Typed, TypeOK
<1> HIDE DEF n
<1> SUFFICES ASSUME NEW i \in 1..(n + 1), LegalBefore(i)
             PROVE  /\ LeftOf(delivered'[i], sent[i])
                    /\ ~FreshRequest => delivered'[i] = Meaning(sent[i])
  BY <1>2, <1>3 DEF AllLeft, LeftOf, LegalBefore
<1>4. CASE i = n + 1
  <2>1. LegalBefore(n) /\ n + 1 \in DOMAIN sent /\ Legal(sent[n + 1])
    <3>1. n + 1 \in 1..(n + 1) /\ \A j \in 1..n : j \in 1..(n + 1)
      BY <1>1
    <3> QED
      BY <1>4, <3>1 DEF LegalBefore
  <2>2. /\ Progress(sent[n + 1]) /\ OwnParts(sent[n + 1])
        /\ ~FreshRequest => Kept(sent[n + 1])
    BY <1>3, <2>1 DEF InStep, Own, Current, n
  <2>3. LeftOf(request, sent[n + 1]) /\ (~FreshRequest => request = Meaning(sent[n + 1]))
    BY <1>3, <2>2 DEF Progress, OwnParts, Late, LeftOf, Kept
  <2> QED
    BY <1>2, <1>4, <2>3
<1>5. CASE i # n + 1
  <2>1. i \in 1..n
    BY <1>1, <1>5
  <2> QED
    BY <1>1, <1>2, <2>1 DEF AllLeft
<1> QED
  BY <1>4, <1>5

\* However the stream is cut, and whether parse is given one HttpRequest for each
\* message or a new one with each call, nothing of one message is handed on with
\* another.
THEOREM StaysOwn == Spec => [](Own /\ AllLeft)
<1>1. Init => Own /\ AllLeft
  BY EmptySeq DEF Init, ParserInit, Own, AllLeft
<1>2. IInv /\ InStep /\ Own /\ AllLeft /\ [Next]_vars => Own' /\ AllLeft'
  <2> SUFFICES ASSUME IInv, InStep, Own, AllLeft, [Next]_vars PROVE Own' /\ AllLeft'
    OBVIOUS
  <2>1. ASSUME UNCHANGED <<sent, delivered>> PROVE AllLeft'
    BY <2>1 DEF AllLeft, LegalBefore, LeftOf
  <2>2. CASE Deliver
    BY <2>2, DeliverLeft DEF Deliver, Own
  <2>3. ASSUME NEW n, Receive(n) PROVE Own' /\ AllLeft'
    BY <2>1, <2>3, ReceiveOwn DEF Receive
  <2>4. CASE Parse
    <3>1. UNCHANGED stream
      BY <2>4, ParseIs
    <3> QED
      BY <2>1, <2>4, <3>1, ParseOwn DEF stream
  <2>5. CASE UNCHANGED vars
    BY <2>1, <2>5, OwnSame DEF vars, stream
  <2> QED
    BY <2>2, <2>3, <2>4, <2>5 DEF Next, Finished
<1> QED
  BY <1>1, <1>2, Invariance, StaysInStep, PTL DEF Spec

(***************************************************************************)
(* The theorems about what is handed on.                                   *)
(***************************************************************************)

\* A client that sends legal messages, messages with a head at fault, and messages
\* whose framing headers parse does not compare.
Client == \A m \in Messages : Legal(m) \/ Refused(m) \/ Ambiguous(m)

\* What is clear up to the next message is clear up to this one.
LEMMA ClearDown ==
    ASSUME NEW n \in Nat, NEW k \in 0..n, Clear(n)
    PROVE  Clear(k)
  BY DEF Clear

\* Its legal messages only are handed on, up to one that is ambiguous.
LEMMA LegalDelivered ==
    ASSUME Client
    PROVE  Spec => [](\A k \in 0..Len(delivered) : Clear(k) => LegalBefore(k))
<1> DEFINE B == \A k \in 0..Len(delivered) : Clear(k) => LegalBefore(k)
<1>1. Init => B
  <2> SUFFICES ASSUME Init PROVE B
    OBVIOUS
  <2>1. Len(delivered) = 0
    BY EmptySeq DEF Init, ParserInit
  <2> QED
    BY <2>1 DEF LegalBefore
<1>2. IInv /\ PlainStream /\ InStep /\ Stops /\ B /\ [Next]_vars => B'
  <2> SUFFICES ASSUME IInv, PlainStream, InStep, Stops, B, [Next]_vars PROVE B'
    OBVIOUS
  <2>1. ASSUME UNCHANGED <<sent, delivered>> PROVE B'
    BY <2>1 DEF LegalBefore, Clear
  <2>2. CASE Deliver
    <3> DEFINE n == Len(delivered)
    <3>1. UNCHANGED sent /\ result = "Complete"
      BY <2>2 DEF Deliver
    <3>2. Len(delivered') = n + 1 /\ n \in Nat
      BY <2>2, DeliveredIs, DeliverLen
    <3> SUFFICES ASSUME NEW k \in 0..(n + 1), Clear(k) PROVE LegalBefore(k)
      BY <3>1, <3>2 DEF Clear, LegalBefore
    <3>3. CASE k \in 0..n
      BY <3>3
    <3>4. CASE k = n + 1
      <4>1. Clear(n) /\ LegalBefore(n)
        BY <3>2, <3>4, ClearDown
      <4>2. n + 1 \in DOMAIN sent
        BY <3>1, <4>1 DEF InStep
      <4>3. sent[n + 1] \in Messages
        <5>1. sent \in Seq(Messages)
          BY DEF PlainStream
        <5> QED
          BY <4>2, <5>1, ElementOfSeq, LenProperties
      <4>4. ~Refused(sent[n + 1])
        BY <3>1, <4>1 DEF Stops, Stopped, Current, IInv, Typed, TypeOK
      <4>5. ~Ambiguous(sent[n + 1])
        <5>1. n + 1 \in 1..(n + 1)
          BY <3>2
        <5> QED
          BY <3>4, <4>2, <5>1 DEF Clear
      <4>6. Legal(sent[n + 1])
        BY <4>3, <4>4, <4>5 DEF Client
      <4> HIDE DEF n
      <4> QED
        BY <3>2, <3>4, <4>1, <4>2, <4>6 DEF LegalBefore
    <3> QED
      BY <3>2, <3>3, <3>4
  <2>3. ASSUME NEW n, Receive(n) PROVE UNCHANGED <<sent, delivered>>
    BY <2>3 DEF Receive
  <2>4. CASE Parse
    <3>1. UNCHANGED stream
      BY <2>4, ParseIs
    <3> QED
      BY <2>1, <3>1 DEF stream
  <2>5. CASE UNCHANGED vars
    BY <2>1, <2>5 DEF vars, stream
  <2> QED
    BY <2>1, <2>2, <2>3, <2>4, <2>5 DEF Next, Finished
<1> HIDE DEF B
<1>3. Spec => []B
  BY <1>1, <1>2, Invariance, StaysPlain, StaysInStep, StopsInHead, PTL DEF Spec
<1> QED
  BY <1>3 DEF B

\* Documentation/HTTP.md:7, "safely handling network fragmentation and Chunked
\* Transfer Encoding": however the stream is cut and whatever the limits are, the
\* legal messages of such a client are handed on in order, each with its own body
\* and nothing of another, and none that is at fault in its head, also as
\* handleClientData calls parse, with a new HttpRequest each time; and complete, as
\* the client means them, if one HttpRequest lives as long as the message.
THEOREM FragmentSafeHolds ==
    ASSUME Client
    PROVE  Spec => [](NothingMixed /\ (~FreshRequest => FragmentSafe))
<1> DEFINE B == \A k \in 0..Len(delivered) : Clear(k) => LegalBefore(k)
<1>1. InStep /\ AllLeft /\ B => NothingMixed /\ (~FreshRequest => FragmentSafe)
  <2> SUFFICES ASSUME InStep, AllLeft, B, NEW i \in DOMAIN delivered, Clear(i)
               PROVE  /\ i \in DOMAIN sent /\ Legal(sent[i]) /\ LeftOf(delivered[i], sent[i])
                      /\ ~FreshRequest => delivered[i] = Meaning(sent[i])
    BY DEF NothingMixed, FragmentSafe
  <2>1. Len(delivered) \in Nat /\ i \in 1..Len(delivered)
    BY DeliveredIs
  <2>2. LegalBefore(i)
    BY <2>1
  <2>3. i \in DOMAIN sent /\ Legal(sent[i])
    BY <2>1, <2>2 DEF LegalBefore
  <2> QED
    BY <2>2, <2>3 DEF AllLeft
<1>2. Spec => []B
  BY LegalDelivered
<1> HIDE DEF B
<1> QED
  BY <1>1, <1>2, StaysInStep, StaysOwn, PTL

\* A legal request is not answered with 400 nor waited for when it is all there,
\* however the stream is cut, also as handleClientData calls parse, with a new
\* HttpRequest each time.
THEOREM LegalGetsThroughHolds ==
    ASSUME Client
    PROVE  Spec => []LegalGetsThrough
<1> DEFINE B == \A k \in 0..Len(delivered) : Clear(k) => LegalBefore(k)
<1>1. IInv /\ InStep /\ B => LegalGetsThrough
  <2> SUFFICES ASSUME IInv, InStep, B PROVE LegalGetsThrough
    OBVIOUS
  <2>1. CASE Clear(Len(delivered))
    <3>1. Len(delivered) \in 0..Len(delivered)
      BY DeliveredIs
    <3> QED
      BY <2>1, <3>1, InStepGetsThrough
  <2>2. CASE ~Clear(Len(delivered))
    BY <2>2 DEF LegalGetsThrough, LegalAccepted, WholeIsComplete
  <2> QED
    BY <2>1, <2>2
<1>2. Spec => []B
  BY LegalDelivered
<1> HIDE DEF B
<1> QED
  BY <1>1, <1>2, Invariance, StaysInStep, PTL

(***************************************************************************)
(* Frames: what a reader makes of the bytes of one, when it is at the head *)
(* of what has come.                                                       *)
(***************************************************************************)

\* The scaled widths.
LEMMA Widths ==
    BYTE = 8 /\ HALF = 4 /\ MIDDLE = 1 /\ LONG = 2 /\ SIZE = 64 /\ MAX_STRING = 31 /\ BYTE ^ MIDDLE = 8
<1>1. BYTE = 8
  BY DEF BYTE, Octets
<1>2. 8 ^ 2 = 64 /\ 8 ^ 1 = 8
  BY SMT
<1>3. HALF = 4 /\ MIDDLE = 1 /\ LONG = 2
  BY <1>1 DEF HALF, MIDDLE, LONG
<1>4. SIZE = 64
  BY <1>1, <1>2, <1>3 DEF SIZE
<1> QED
  BY <1>1, <1>2, <1>3, <1>4 DEF MAX_STRING

\* What the bytes are spelt with.
Octal == {"b0", "b1", "b2", "b3", "b4", "b5", "b6", "b7"}

\* A byte that is written is read again.
LEMMA OctetIs ==
    ASSUME NEW n \in 0..7
    PROVE  Octet(n) \in Octal /\ Value(Octet(n)) = n
<1>1. \A i, j \in 0..7 : Octets[i + 1] = Octets[j + 1] => i = j
  BY DEF Octets
<1>2. \A i \in 0..7 : Octets[i + 1] \in Octal
  BY DEF Octets, Octal
<1>3. 0..(BYTE - 1) = 0..7
  BY Widths
<1> QED
  BY <1>1, <1>2, <1>3 DEF Octet, Value

\* A key applied twice is not applied.
LEMMA XorTwice ==
    ASSUME NEW a \in 0..7, NEW b \in 0..7
    PROVE  Xor(a, b) \in 0..7 /\ Xor(Xor(a, b), b) = a
  BY DEF Xor

\* A length in one byte and in two, and back.
LEMMA OneByte ==
    ASSUME NEW n \in 0..7, NEW s \in Seq(Token), Len(s) = 1, s[1] = Octet(n)
    PROVE  FromBytes(s) = n
<1> DEFINE step(f, i) == IF i = 0 THEN 0 ELSE (f[i - 1] * BYTE + Value(s[i])) % SIZE
           g == [i \in 0..1 |-> IF i = 0 THEN 0 ELSE n]
           isFrom(f) == f = [i \in 0..Len(s) |-> step(f, i)]
<1>1. Value(s[1]) = n
  BY OctetIs
<1>2. isFrom(g)
  <2>1. g[0] = 0 /\ g[1] = n
    OBVIOUS
  <2>2. step(g, 0) = 0 /\ step(g, 1) = n
    BY <1>1, <2>1, Widths
  <2>3. \A i \in 0..1 : g[i] = step(g, i)
    BY <2>1, <2>2
  <2> QED
    BY <2>3
<1>3. \A f : isFrom(f) => f[1] = n
  <2> SUFFICES ASSUME NEW f, isFrom(f) PROVE f[1] = n
    OBVIOUS
  <2>1. f[0] = 0
    OBVIOUS
  <2>2. f[1] = (f[0] * BYTE + Value(s[1])) % SIZE
    OBVIOUS
  <2> QED
    BY <1>1, <2>1, <2>2, Widths
<1>4. FromBytes(s) = (CHOOSE f : isFrom(f))[1]
  BY DEF FromBytes
<1> HIDE DEF isFrom
<1>5. isFrom(CHOOSE f : isFrom(f))
  BY <1>2
<1> QED
  BY <1>3, <1>4, <1>5

LEMMA TwoBytes ==
    ASSUME NEW n \in 0..63, NEW s \in Seq(Token), Len(s) = 2,
           s[1] = Octet((n \div 8) % 8), s[2] = Octet(n % 8)
    PROVE  FromBytes(s) = n
<1> DEFINE hi == (n \div 8) % 8
           lo == n % 8
           step(f, i) == IF i = 0 THEN 0 ELSE (f[i - 1] * BYTE + Value(s[i])) % SIZE
           g == [i \in 0..2 |-> IF i = 0 THEN 0 ELSE IF i = 1 THEN hi ELSE n]
           isFrom(f) == f = [i \in 0..Len(s) |-> step(f, i)]
<1>0. hi \in 0..7 /\ lo \in 0..7 /\ hi * 8 + lo = n
  OBVIOUS
<1>1. Value(s[1]) = hi /\ Value(s[2]) = lo
  BY <1>0, OctetIs
<1>2. isFrom(g)
  <2>1. g[0] = 0 /\ g[1] = hi /\ g[2] = n
    OBVIOUS
  <2> HIDE DEF hi, lo, g
  <2>2. step(g, 0) = 0 /\ step(g, 1) = (0 * 8 + hi) % 64 /\ step(g, 2) = (hi * 8 + lo) % 64
    BY <1>1, <2>1, Widths
  <2>4. (0 * 8 + hi) % 64 = hi /\ n % 64 = n
    BY <1>0
  <2>3. \A i \in 0..2 : g[i] = step(g, i)
    <3>1. g[0] = step(g, 0) /\ g[1] = step(g, 1) /\ g[2] = step(g, 2)
      BY <1>0, <2>1, <2>2, <2>4
    <3> HIDE DEF step
    <3> QED
      BY <3>1
  <2> QED
    BY <2>3 DEF g
<1> HIDE DEF hi, lo
<1>6. (0 * 8 + hi) % 64 = hi /\ n % 64 = n
  BY <1>0
<1>3. \A f : isFrom(f) => f[2] = n
  <2> SUFFICES ASSUME NEW f, isFrom(f) PROVE f[2] = n
    OBVIOUS
  <2>1. f[0] = 0
    OBVIOUS
  <2>2. f[1] = (f[0] * BYTE + Value(s[1])) % SIZE
    OBVIOUS
  <2>3. f[2] = (f[1] * BYTE + Value(s[2])) % SIZE
    OBVIOUS
  <2>4. f[1] = (0 * 8 + hi) % 64 /\ f[2] = (f[1] * 8 + lo) % 64
    BY <1>1, <2>1, <2>2, <2>3, Widths
  <2> HIDE DEF isFrom
  <2> QED
    BY <1>0, <1>6, <2>4
<1>4. FromBytes(s) = (CHOOSE f : isFrom(f))[2]
  BY DEF FromBytes
<1> HIDE DEF isFrom
<1>5. isFrom(CHOOSE f : isFrom(f))
  BY <1>2
<1> QED
  BY <1>3, <1>4, <1>5

\* The four parts of a frame, and where its payload begins.
Marks(f) ==
    <<Octet(f.op + IF f.fin THEN HALF ELSE 0),
      Octet(Mark(f.form, f.claim) + IF f.masked THEN HALF ELSE 0)>>
KeyPart(f) == IF f.masked THEN [i \in 1..4 |-> Octet(Key[i])] ELSE << >>
Cover(f) ==
    [i \in DOMAIN f.payload |->
        Octet(IF f.masked THEN Xor(f.payload[i], Key[((i - 1) % 4) + 1]) ELSE f.payload[i])]
HeadLen(f) == 2 + f.form + IF f.masked THEN 4 ELSE 0

\* The payload and the key are bytes, masked or not.
LEMMA PayloadIs ==
    ASSUME NEW f, FrameFits(f)
    PROVE  /\ Len(f.payload) \in 0..31 /\ DOMAIN f.payload = 1..Len(f.payload)
           /\ \A i \in 1..4 : Key[i] \in 0..7
           /\ \A i \in 1..Len(f.payload) :
                  /\ f.payload[i] \in 0..7 /\ Key[((i - 1) % 4) + 1] \in 0..7
                  /\ Xor(f.payload[i], Key[((i - 1) % 4) + 1]) \in 0..7
<1>1. f.payload \in Seq(0..7)
  BY Widths DEF FrameFits, ByteString
<1>5. Len(f.payload) <= 31
  BY Widths DEF FrameFits, ByteString
<1>2. \A i \in 1..4 : Key[i] \in 0..7
  BY KeyBytes, Widths
<1>3. Len(f.payload) \in 0..31 /\ DOMAIN f.payload = 1..Len(f.payload)
  <2>1. Len(f.payload) \in Nat
    BY <1>1, LenProperties
  <2>2. \A n \in Nat : n <= 31 => n \in 0..31
    OBVIOUS
  <2>3. Len(f.payload) \in 0..31
    BY <1>5, <2>1, <2>2
  <2> QED
    BY <1>1, <2>3, LenProperties
<1>4. ASSUME NEW i \in 1..Len(f.payload)
      PROVE  f.payload[i] \in 0..7 /\ Key[((i - 1) % 4) + 1] \in 0..7
  <2>1. i \in Nat /\ i >= 1
    BY <1>3
  <2>2. ((i - 1) % 4) + 1 \in 1..4
    BY <2>1
  <2>3. f.payload[i] \in 0..7
    BY <1>1, ElementOfSeq
  <2> QED
    BY <1>2, <2>2, <2>3
<1> QED
  BY <1>2, <1>3, <1>4, XorTwice

LEMMA FrameBytes ==
    ASSUME NEW f, FrameFits(f)
    PROVE  /\ Marks(f) \in Seq(Octal) /\ Len(Marks(f)) = 2
           /\ BigEndian(f.claim, f.form) \in Seq(Octal) /\ Len(BigEndian(f.claim, f.form)) = f.form
           /\ KeyPart(f) \in Seq(Octal) /\ Len(KeyPart(f)) = IF f.masked THEN 4 ELSE 0
           /\ Cover(f) \in Seq(Octal) /\ Len(Cover(f)) = Len(f.payload)
           /\ f.form \in {0, 1, 2} /\ f.claim \in 0..63
           /\ EncodeFrame(f) = Marks(f) \o BigEndian(f.claim, f.form) \o KeyPart(f) \o Cover(f)
<1>1. /\ f.form \in {0, 1, 2} /\ f.op \in 0..3 /\ f.claim \in 0..63 /\ (f.form = 0 => f.claim < 2)
      /\ f.fin \in BOOLEAN /\ f.masked \in BOOLEAN
  BY Widths DEF FrameFits
<1>2. Marks(f) \in Seq(Octal) /\ Len(Marks(f)) = 2
  <2>1. Mark(f.form, f.claim) \in 0..3
    BY <1>1, Widths DEF Mark
  <2>2. f.op + (IF f.fin THEN HALF ELSE 0) \in 0..7
    BY <1>1, Widths
  <2>3. Mark(f.form, f.claim) + (IF f.masked THEN HALF ELSE 0) \in 0..7
    BY <2>1, Widths
  <2>4. Octet(f.op + IF f.fin THEN HALF ELSE 0) \in Octal
    BY <2>2, OctetIs
  <2>5. Octet(Mark(f.form, f.claim) + IF f.masked THEN HALF ELSE 0) \in Octal
    BY <2>3, OctetIs
  <2> QED
    BY <2>4, <2>5 DEF Marks
<1>3. BigEndian(f.claim, f.form) \in Seq(Octal) /\ Len(BigEndian(f.claim, f.form)) = f.form
  <2>1. ASSUME NEW i \in 1..f.form PROVE (f.claim \div BYTE ^ (f.form - i)) % BYTE \in 0..7
    <3>1. f.form - i = 0 \/ f.form - i = 1
      BY <1>1
    <3>2. 8 ^ 0 = 1 /\ 8 ^ 1 = 8
      BY SMT
    <3>3. BYTE ^ (f.form - i) = 1 \/ BYTE ^ (f.form - i) = 8
      BY <3>1, <3>2, Widths
    <3>4. (f.claim \div 1) % 8 \in 0..7 /\ (f.claim \div 8) % 8 \in 0..7
      BY <1>1
    <3> QED
      BY <3>3, <3>4, Widths
  <2>2. f.form \in Nat
    BY <1>1
  <2>3. BigEndian(f.claim, f.form) \in [1..f.form -> Octal]
    BY <2>1, OctetIs DEF BigEndian
  <2> QED
    BY <2>2, <2>3, SeqOver
<1>4. KeyPart(f) \in Seq(Octal) /\ Len(KeyPart(f)) = IF f.masked THEN 4 ELSE 0
  <2>1. CASE f.masked
    <3>1. KeyPart(f) \in [1..4 -> Octal]
      BY <2>1, PayloadIs, OctetIs DEF KeyPart
    <3> QED
      BY <2>1, <3>1, SeqOver
  <2>2. CASE ~f.masked
    BY <2>2, EmptySeq DEF KeyPart
  <2> QED
    BY <2>1, <2>2
<1>5. Cover(f) \in Seq(Octal) /\ Len(Cover(f)) = Len(f.payload)
  <2>1. Len(f.payload) \in Nat /\ DOMAIN f.payload = 1..Len(f.payload)
    BY PayloadIs
  <2>2. Cover(f) \in [1..Len(f.payload) -> Octal]
    BY <2>1, PayloadIs, OctetIs DEF Cover
  <2> QED
    BY <2>1, <2>2, SeqOver
<1>6. EncodeFrame(f) = Marks(f) \o BigEndian(f.claim, f.form) \o KeyPart(f) \o Cover(f)
  BY DEF EncodeFrame, Marks, KeyPart, Cover
<1> QED
  BY <1>1, <1>2, <1>3, <1>4, <1>5, <1>6

LEMMA FramePartsAre ==
    ASSUME NEW f, FrameFits(f)
    PROVE  /\ Marks(f) \in Seq(Token) /\ Len(Marks(f)) = 2
           /\ BigEndian(f.claim, f.form) \in Seq(Token) /\ Len(BigEndian(f.claim, f.form)) = f.form
           /\ KeyPart(f) \in Seq(Token) /\ Len(KeyPart(f)) = IF f.masked THEN 4 ELSE 0
           /\ Cover(f) \in Seq(Token) /\ Len(Cover(f)) = Len(f.payload)
           /\ f.form \in {0, 1, 2} /\ f.claim \in 0..63
           /\ EncodeFrame(f) = Marks(f) \o BigEndian(f.claim, f.form) \o KeyPart(f) \o Cover(f)
           /\ EncodeFrame(f) \in Seq(Octal)
<1>1. Octal \subseteq Token
  BY DEF Octal, Token
<1>2. Seq(Octal) \subseteq Seq(Token)
  BY <1>1, SeqMonotonic
<1>3. \A a, b \in Seq(Octal) : a \o b \in Seq(Octal)
  BY ConcatProperties
<1>4. EncodeFrame(f) \in Seq(Octal)
  <2>1. Marks(f) \o BigEndian(f.claim, f.form) \in Seq(Octal)
    BY <1>3, FrameBytes
  <2>2. Marks(f) \o BigEndian(f.claim, f.form) \o KeyPart(f) \in Seq(Octal)
    BY <1>3, <2>1, FrameBytes
  <2> QED
    BY <1>3, <2>2, FrameBytes
<1> QED
  BY <1>2, <1>4, FrameBytes

\* Where they are.
LEMMA EncodeFrameIs ==
    ASSUME NEW f, FrameFits(f)
    PROVE  /\ EncodeFrame(f) \in Seq(Token) /\ HeadLen(f) \in Nat
           /\ Len(EncodeFrame(f)) = HeadLen(f) + Len(f.payload)
           /\ At(EncodeFrame(f), 0, Marks(f)) /\ At(EncodeFrame(f), 2, BigEndian(f.claim, f.form))
           /\ At(EncodeFrame(f), 2 + f.form, KeyPart(f)) /\ At(EncodeFrame(f), HeadLen(f), Cover(f))
<1> DEFINE a == Marks(f)
           b == BigEndian(f.claim, f.form)
           c == KeyPart(f)
           e == Cover(f)
<1>1. /\ a \in Seq(Token) /\ b \in Seq(Token) /\ c \in Seq(Token) /\ e \in Seq(Token)
      /\ Len(a) = 2 /\ Len(b) = f.form /\ Len(c) = (IF f.masked THEN 4 ELSE 0)
      /\ EncodeFrame(f) = a \o b \o c \o e /\ f.form \in {0, 1, 2} /\ Len(e) = Len(f.payload)
      /\ f.masked \in BOOLEAN
  BY FramePartsAre DEF FrameFits
<1> HIDE DEF a, b, c, e
<1>2. /\ a \o b \in Seq(Token) /\ a \o b \o c \in Seq(Token) /\ EncodeFrame(f) \in Seq(Token)
      /\ Len(a \o b) = 2 + f.form /\ Len(a \o b \o c) = HeadLen(f) /\ Len(EncodeFrame(f)) = HeadLen(f) + Len(e)
      /\ HeadLen(f) \in Nat
  <2>1. a \o b \in Seq(Token) /\ Len(a \o b) = 2 + f.form
    <3>1. a \o b \in Seq(Token) /\ Len(a \o b) = Len(a) + Len(b)
      BY <1>1, TokenConcat
    <3> QED
      BY <1>1, <3>1
  <2>2. a \o b \o c \in Seq(Token) /\ Len(a \o b \o c) = HeadLen(f)
    <3>1. a \o b \o c \in Seq(Token) /\ Len(a \o b \o c) = Len(a \o b) + Len(c)
      BY <1>1, <2>1, TokenConcat
    <3> QED
      BY <1>1, <2>1, <3>1 DEF HeadLen
  <2>3. EncodeFrame(f) \in Seq(Token) /\ Len(EncodeFrame(f)) = HeadLen(f) + Len(e)
    BY <1>1, <2>2, TokenConcat
  <2> QED
    BY <1>1, <2>1, <2>2, <2>3 DEF HeadLen
<1>3. At(EncodeFrame(f), 0, a \o b \o c) /\ At(EncodeFrame(f), HeadLen(f), e)
  BY <1>1, <1>2, AtConcat
<1>4. At(EncodeFrame(f), 0, a \o b) /\ At(EncodeFrame(f), 0 + (2 + f.form), c)
  BY <1>1, <1>2, <1>3, AtParts
<1>5. At(EncodeFrame(f), 0, a) /\ At(EncodeFrame(f), 0 + 2, b)
  BY <1>1, <1>2, <1>4, AtParts
<1>6. 0 + (2 + f.form) = 2 + f.form /\ 0 + 2 = 2
  BY <1>1
<1> QED
  BY <1>1, <1>2, <1>3, <1>4, <1>5, <1>6 DEF a, b, c, e

\* A length that one byte holds is that byte.
LEMMA LowByte == \A n \in 0..63 : (n \div 1) % 8 = n % 8 /\ (n < 8 => n % 8 = n /\ n \in 0..7)
  OBVIOUS

\* The first two bytes of a frame tell its kind and where its payload begins.
LEMMA HeadReads ==
    ASSUME NEW f, FrameFits(f), NEW d \in Seq(Token), Sees(d, EncodeFrame(f)), Len(d) >= 2
    PROVE  /\ Masked(d) = f.masked /\ Extension(d) = f.form /\ HeaderLen(d) = HeadLen(f)
           /\ (Value(d[1]) >= HALF) = f.fin /\ Value(d[1]) % HALF = f.op
           /\ Value(d[2]) % HALF = Mark(f.form, f.claim)
<1>1. /\ f.form \in {0, 1, 2} /\ f.op \in 0..3 /\ f.claim \in 0..63 /\ (f.form = 0 => f.claim < 2)
      /\ f.fin \in BOOLEAN /\ f.masked \in BOOLEAN
  BY Widths DEF FrameFits
<1> DEFINE one == f.op + IF f.fin THEN HALF ELSE 0
           mark == Mark(f.form, f.claim)
           two == mark + IF f.masked THEN HALF ELSE 0
<1>2. d[1] = Octet(one) /\ d[2] = Octet(two)
  <2>1. At(EncodeFrame(f), 0, Marks(f)) /\ Len(Marks(f)) = 2 /\ EncodeFrame(f) \in Seq(Token)
    BY EncodeFrameIs, FramePartsAre
  <2>2. Marks(f)[1] = Octet(one) /\ Marks(f)[2] = Octet(two)
    BY DEF Marks
  <2> HIDE DEF one, two
  <2>3. Len(EncodeFrame(f)) \in Nat /\ Len(EncodeFrame(f)) >= 2
    BY <2>1, LenProperties DEF At
  <2>4. EncodeFrame(f)[1] = Octet(one) /\ EncodeFrame(f)[2] = Octet(two)
    <3>1. \A i \in 1..2 : EncodeFrame(f)[0 + i] = Marks(f)[i]
      BY <2>1 DEF At
    <3>2. EncodeFrame(f)[0 + 1] = Marks(f)[1] /\ EncodeFrame(f)[0 + 2] = Marks(f)[2]
      BY <3>1
    <3> QED
      BY <2>2, <3>2
  <2>5. Len(d) \in Nat
    OBVIOUS
  <2>6. d[1] = EncodeFrame(f)[1] /\ d[2] = EncodeFrame(f)[2]
    BY <2>3, <2>5 DEF Sees
  <2> QED
    BY <2>4, <2>6
<1>3. mark \in 0..3 /\ (f.form = 0 => mark < 2) /\ (f.form = 1 => mark = 2) /\ (f.form = 2 => mark = 3)
  <2>1. CASE f.form = 0
    <3>1. mark = f.claim
      BY <2>1, Widths DEF Mark
    <3>2. \A n \in 0..63 : n < 2 => n \in 0..3
      OBVIOUS
    <3>3. f.form # 1 /\ f.form # 2
      BY <2>1
    <3>4. mark < 2 /\ mark \in 0..3
      BY <1>1, <2>1, <3>1, <3>2
    <3> HIDE DEF mark
    <3> QED
      BY <3>3, <3>4
  <2>2. CASE f.form = 1
    BY <2>2, Widths DEF Mark
  <2>3. CASE f.form = 2
    BY <2>3, Widths DEF Mark
  <2> QED
    BY <1>1, <2>1, <2>2, <2>3
<1> HIDE DEF mark
<1>4. one \in 0..7 /\ two \in 0..7
  BY <1>1, <1>3, Widths
<1>5. Value(d[1]) = one /\ Value(d[2]) = two
  BY <1>2, <1>4, OctetIs
<1>6. (one >= HALF <=> f.fin) /\ one % HALF = f.op /\ (two >= HALF <=> f.masked) /\ two % HALF = mark
  BY <1>1, <1>3, Widths
<1> HIDE DEF one, two
<1>7. (Value(d[1]) >= HALF) = f.fin /\ Masked(d) = f.masked
  <2>1. (Value(d[1]) >= HALF <=> f.fin) /\ (Masked(d) <=> f.masked)
    BY <1>5, <1>6 DEF Masked
  <2>2. (Value(d[1]) >= HALF) \in BOOLEAN /\ Masked(d) \in BOOLEAN
    BY <1>4, <1>5, Widths DEF Masked
  <2> QED
    BY <1>1, <2>1, <2>2
<1>8. Extension(d) = f.form
  BY <1>1, <1>3, <1>5, <1>6, Widths DEF Extension
<1> QED
  BY <1>5, <1>6, <1>7, <1>8 DEF HeaderLen, HeadLen, mark

\* The length that a frame claims is read once its length field is there.
LEMMA LengthReads ==
    ASSUME NEW f, FrameFits(f), NEW d \in Seq(Token), Sees(d, EncodeFrame(f)), Len(d) >= 2 + f.form
    PROVE  PayloadLen(d) = f.claim
<1>1. /\ f.form \in {0, 1, 2} /\ f.claim \in 0..63 /\ (f.form = 0 => f.claim < 2)
      /\ (f.form = 1 => f.claim < 8)
  BY Widths DEF FrameFits
<1>2. Len(d) \in Nat /\ Len(d) >= 2
  BY <1>1
<1>3. Extension(d) = f.form /\ Value(d[2]) % HALF = Mark(f.form, f.claim)
  BY <1>2, HeadReads
<1>4. ASSUME NEW i \in 1..f.form PROVE d[2 + i] = Octet((f.claim \div BYTE ^ (f.form - i)) % BYTE)
  <2>1. /\ At(EncodeFrame(f), 2, BigEndian(f.claim, f.form)) /\ Len(BigEndian(f.claim, f.form)) = f.form
        /\ EncodeFrame(f) \in Seq(Token)
    BY EncodeFrameIs, FramePartsAre
  <2>2. 2 + f.form <= Len(EncodeFrame(f)) /\ EncodeFrame(f)[2 + i] = BigEndian(f.claim, f.form)[i]
    BY <2>1 DEF At
  <2>3. Len(EncodeFrame(f)) \in Nat
    BY <2>1
  <2>4. 2 + i \in 1..Len(d) /\ 2 + i <= Len(EncodeFrame(f))
    BY <1>1, <1>2, <2>2, <2>3
  <2>5. d[2 + i] = BigEndian(f.claim, f.form)[i]
    BY <2>2, <2>4 DEF Sees
  <2> QED
    BY <2>5 DEF BigEndian
<1>5. 8 ^ 0 = 1 /\ 8 ^ 1 = 8
  BY SMT
<1>6. CASE f.form = 0
  BY <1>1, <1>3, <1>6, Widths DEF PayloadLen, Mark
<1>7. CASE f.form = 1
  <2>1. PayloadLen(d) = FromBytes(SubSeq(d, 3, 3))
    BY <1>3, <1>7 DEF PayloadLen
  <2>2. SubSeq(d, 3, 3) \in Seq(Token) /\ Len(SubSeq(d, 3, 3)) = 1 /\ SubSeq(d, 3, 3)[1] = d[3]
    BY <1>2, <1>7
  <2>3. d[3] = Octet(f.claim)
    <3>1. d[2 + 1] = Octet((f.claim \div BYTE ^ (f.form - 1)) % BYTE)
      BY <1>4, <1>7
    <3>2. BYTE ^ (f.form - 1) = 1
      BY <1>5, <1>7, Widths
    <3>3. (f.claim \div 1) % 8 = f.claim
      BY <1>1, <1>7, LowByte
    <3> QED
      BY <3>1, <3>2, <3>3, Widths
  <2>4. f.claim \in 0..7
    BY <1>1, <1>7, LowByte
  <2> QED
    BY <2>1, <2>2, <2>3, <2>4, OneByte
<1>8. CASE f.form = 2
  <2>1. PayloadLen(d) = FromBytes(SubSeq(d, 3, 4))
    BY <1>3, <1>8 DEF PayloadLen
  <2>2. /\ SubSeq(d, 3, 4) \in Seq(Token) /\ Len(SubSeq(d, 3, 4)) = 2
        /\ SubSeq(d, 3, 4)[1] = d[3] /\ SubSeq(d, 3, 4)[2] = d[4]
    BY <1>2, <1>8
  <2>3. d[3] = Octet((f.claim \div 8) % 8) /\ d[4] = Octet(f.claim % 8)
    <3>1. /\ d[2 + 1] = Octet((f.claim \div BYTE ^ (f.form - 1)) % BYTE)
          /\ d[2 + 2] = Octet((f.claim \div BYTE ^ (f.form - 2)) % BYTE)
      BY <1>4, <1>8
    <3>2. BYTE ^ (f.form - 1) = 8 /\ BYTE ^ (f.form - 2) = 1
      BY <1>5, <1>8, Widths
    <3>3. (f.claim \div 1) % 8 = f.claim % 8
      BY <1>1, LowByte
    <3> QED
      BY <3>1, <3>2, <3>3, Widths
  <2> QED
    BY <1>1, <2>1, <2>2, <2>3, TwoBytes
<1> QED
  BY <1>1, <1>6, <1>7, <1>8

\* What parseWebSocketFrame makes of a frame at the head of the buffer: it is not
\* taken before all of it is there, and then as it was meant, unmasked.
LEMMA FrameReads ==
    ASSUME NEW f, FrameFits(f), NEW d \in Seq(Token), Sees(d, EncodeFrame(f))
    PROVE  /\ Whole(d) => HeaderLen(d) = HeadLen(f) /\ PayloadLen(d) = f.claim
           /\ Whole(d) /\ f.claim <= 31 => Len(d) >= HeadLen(f) + f.claim
           /\ Sound(f) /\ Len(d) >= Len(EncodeFrame(f)) =>
                  Whole(d) /\ Decode(d) = [fin |-> f.fin, op |-> f.op, payload |-> f.payload]
           /\ Sound(f) => f.claim <= 31 /\ Len(EncodeFrame(f)) = HeadLen(f) + f.claim
<1>1. /\ f.form \in {0, 1, 2} /\ f.claim \in 0..63 /\ f.masked \in BOOLEAN
      /\ Len(EncodeFrame(f)) = HeadLen(f) + Len(f.payload) /\ Len(f.payload) \in 0..31
      /\ EncodeFrame(f) \in Seq(Token) /\ DOMAIN f.payload = 1..Len(f.payload)
  BY EncodeFrameIs, FramePartsAre, PayloadIs DEF FrameFits
<1>2. HeadLen(f) \in 2..8 /\ HeadLen(f) >= 2 + f.form /\ (f.masked => HeadLen(f) = 6 + f.form)
  BY <1>1 DEF HeadLen
<1>3. Len(d) \in Nat
  OBVIOUS
<1>4. Len(d) >= 2 => Extension(d) = f.form /\ HeaderLen(d) = HeadLen(f)
  BY HeadReads
<1>5. Len(d) >= 2 + f.form => PayloadLen(d) = f.claim
  BY LengthReads
<1>6. Whole(d) => /\ HeaderLen(d) = HeadLen(f) /\ PayloadLen(d) = f.claim
                  /\ Len(d) >= (HeadLen(f) + f.claim) % 64
  BY <1>4, <1>5, Widths DEF Whole
<1>7. \A n \in 0..63 : \A h \in 2..8 : n <= 31 => (h + n) % 64 = h + n
  OBVIOUS
<1>8. f.claim <= 31 => (HeadLen(f) + f.claim) % 64 = HeadLen(f) + f.claim
  BY <1>1, <1>2, <1>7
<1>9. Whole(d) /\ f.claim <= 31 => Len(d) >= HeadLen(f) + f.claim
  BY <1>6, <1>8
<1>10. Sound(f) => f.claim = Len(f.payload) /\ f.claim <= 31 /\ Len(EncodeFrame(f)) = HeadLen(f) + f.claim
  <2>1. \A n \in 0..31 : n <= 31
    OBVIOUS
  <2> QED
    BY <1>1, <2>1 DEF Sound
<1>11. ASSUME Sound(f), Len(d) >= Len(EncodeFrame(f))
       PROVE  Whole(d) /\ Decode(d) = [fin |-> f.fin, op |-> f.op, payload |-> f.payload]
  <2>1. Len(d) >= HeadLen(f) /\ Len(d) >= HeadLen(f) + f.claim
    BY <1>1, <1>2, <1>3, <1>10, <1>11
  <2>2. Len(d) >= 2 /\ Len(d) >= 2 + f.form
    BY <1>1, <1>2, <1>3, <2>1
  <2>3. /\ Masked(d) = f.masked /\ Extension(d) = f.form /\ HeaderLen(d) = HeadLen(f)
        /\ (Value(d[1]) >= HALF) = f.fin /\ Value(d[1]) % HALF = f.op /\ PayloadLen(d) = f.claim
    BY <1>5, <2>2, HeadReads
  <2>4. Whole(d)
    BY <1>8, <1>10, <1>11, <2>1, <2>2, <2>3, Widths DEF Whole
  <2>5. ASSUME NEW p \in Nat, NEW t \in Seq(Token), At(EncodeFrame(f), p, t), NEW i \in 1..Len(t)
        PROVE  d[p + i] = t[i]
    <3>1. EncodeFrame(f)[p + i] = t[i] /\ p + i \in 1..Len(EncodeFrame(f))
      BY <1>1, <2>5 DEF At
    <3>2. p + i \in 1..Len(d) /\ p + i <= Len(EncodeFrame(f))
      BY <1>1, <1>3, <1>11, <3>1
    <3> QED
      BY <3>1, <3>2 DEF Sees
  <2>6. ASSUME NEW i \in 1..Len(f.payload)
        PROVE  d[HeadLen(f) + i] = Cover(f)[i]
    BY <1>2, <2>5, EncodeFrameIs, FramePartsAre
  <2>7. ASSUME NEW i \in 1..4, f.masked
        PROVE  Value(d[HeadLen(f) - 4 + i]) = Key[i]
    <3>1. d[(2 + f.form) + i] = KeyPart(f)[i]
      <4>1. At(EncodeFrame(f), 2 + f.form, KeyPart(f)) /\ KeyPart(f) \in Seq(Token) /\ Len(KeyPart(f)) = 4
        BY <2>7, EncodeFrameIs, FramePartsAre
      <4>2. 2 + f.form \in Nat
        BY <1>1
      <4> QED
        BY <2>5, <4>1, <4>2
    <3>2. KeyPart(f)[i] = Octet(Key[i])
      BY <2>7 DEF KeyPart
    <3>3. HeadLen(f) - 4 + i = (2 + f.form) + i
      BY <1>1, <1>2, <2>7
    <3> QED
      BY <3>1, <3>2, <3>3, PayloadIs, OctetIs
  <2>8. ASSUME NEW i \in 1..Len(f.payload)
        PROVE  f.payload[i] = IF Masked(d) THEN Xor(Value(d[HeaderLen(d) + i]),
                                                    Value(d[HeaderLen(d) - 3 + ((i - 1) % 4)]))
                                           ELSE Value(d[HeaderLen(d) + i])
    <3>1. /\ f.payload[i] \in 0..7 /\ Key[((i - 1) % 4) + 1] \in 0..7
          /\ Xor(f.payload[i], Key[((i - 1) % 4) + 1]) \in 0..7
      BY PayloadIs
    <3>2. d[HeaderLen(d) + i] = Cover(f)[i]
      BY <2>3, <2>6
    <3>3. CASE f.masked
      <4>1. Cover(f)[i] = Octet(Xor(f.payload[i], Key[((i - 1) % 4) + 1]))
        BY <1>1, <3>3 DEF Cover
      <4>2. ((i - 1) % 4) + 1 \in 1..4 /\ HeadLen(f) - 4 + (((i - 1) % 4) + 1) = HeadLen(f) - 3 + ((i - 1) % 4)
        <5>1. i - 1 \in Nat
          BY <1>1
        <5>2. (i - 1) % 4 \in 0..3
          BY <5>1
        <5> QED
          BY <1>2, <5>2
      <4>3. Value(d[HeaderLen(d) - 3 + ((i - 1) % 4)]) = Key[((i - 1) % 4) + 1]
        BY <2>3, <2>7, <3>3, <4>2
      <4>4. Value(d[HeaderLen(d) + i]) = Xor(f.payload[i], Key[((i - 1) % 4) + 1])
        BY <3>1, <3>2, <4>1, OctetIs
      <4>5. Xor(Xor(f.payload[i], Key[((i - 1) % 4) + 1]), Key[((i - 1) % 4) + 1]) = f.payload[i]
        BY <3>1, XorTwice
      <4> QED
        BY <2>3, <3>3, <4>3, <4>4, <4>5
    <3>4. CASE ~f.masked
      <4>1. Cover(f)[i] = Octet(f.payload[i])
        BY <1>1, <3>4 DEF Cover
      <4> QED
        BY <2>3, <3>1, <3>2, <3>4, <4>1, OctetIs
    <3> QED
      BY <3>3, <3>4
  <2>9. f.payload = [i \in 1..PayloadLen(d) |->
                        IF Masked(d) THEN Xor(Value(d[HeaderLen(d) + i]), Value(d[HeaderLen(d) - 3 + ((i - 1) % 4)]))
                                     ELSE Value(d[HeaderLen(d) + i])]
    <3>1. PayloadLen(d) = Len(f.payload)
      BY <1>10, <1>11, <2>3
    <3>2. f.payload \in Seq(0..7)
      BY Widths DEF FrameFits, ByteString
    <3>3. f.payload = [i \in 1..Len(f.payload) |-> f.payload[i]]
      BY <1>1, <3>2
    <3> QED
      BY <2>8, <3>1, <3>3
  <2>10. Decode(d) = [fin |-> f.fin, op |-> f.op, payload |-> f.payload]
    BY <2>3, <2>9 DEF Decode
  <2> QED
    BY <2>4, <2>10
<1> QED
  BY <1>6, <1>9, <1>10, <1>11

(***************************************************************************)
(* What the server writes.                                                 *)
(***************************************************************************)

\* The frame sendWebSocketMessage means to write.
ServerFrame(p) ==
    [fin |-> TRUE, op |-> TEXT, form |-> FormFor(Len(p)), masked |-> FALSE, claim |-> Len(p), payload |-> p]

\* It writes this frame, in a form that holds the length.
LEMMA ServerFrameIs ==
    ASSUME NEW p \in Payloads
    PROVE  /\ FrameFits(ServerFrame(p)) /\ Sound(ServerFrame(p))
           /\ <<Octet(HALF + TEXT), Octet(Mark(FormFor(Len(p)), Len(p)))>>
              \o BigEndian(Len(p), FormFor(Len(p))) \o [i \in 1..Len(p) |-> Octet(p[i])]
              = EncodeFrame(ServerFrame(p))
<1> DEFINE f == ServerFrame(p)
           n == Len(p)
<1>1. p \in Seq(0..7) /\ ByteString(p)
  BY PayloadsFit, Widths DEF ByteString
<1>2. n <= 31
  BY <1>1, Widths DEF ByteString
<1>3. n \in Nat /\ DOMAIN p = 1..n
  BY <1>1, LenProperties
<1>4. /\ f.fin = TRUE /\ f.op = TEXT /\ f.form = FormFor(n) /\ f.masked = FALSE /\ f.claim = n
      /\ f.payload = p
  BY DEF ServerFrame
<1> HIDE DEF f, n
<1>5. /\ FormFor(n) \in {0, 1, 2} /\ (FormFor(n) = 0 => n < 2) /\ (FormFor(n) = 1 => n < 8)
  BY <1>2, <1>3, Widths DEF FormFor
<1>6. n \in 0..63
  BY <1>2, <1>3
<1>7. FrameFits(f)
  <2>1. 0..(SIZE - 1) = 0..63 /\ TEXT \in 0..(HALF - 1) /\ HALF - 2 = 2
    BY Widths DEF TEXT
  <2> QED
    BY <1>1, <1>4, <1>5, <1>6, <2>1, Widths DEF FrameFits
<1>8. Sound(f)
  BY <1>4 DEF Sound, n
<1>9. /\ Marks(f) = <<Octet(HALF + TEXT), Octet(Mark(FormFor(n), n))>>
      /\ KeyPart(f) = << >> /\ Cover(f) = [i \in 1..n |-> Octet(p[i])]
  <2>1. TEXT + HALF = HALF + TEXT /\ TEXT + HALF \in Int
    BY Widths DEF TEXT
  <2>2. Mark(FormFor(n), n) + 0 = Mark(FormFor(n), n)
    <3>1. Mark(FormFor(n), n) \in Int
      BY <1>5, <1>6, Widths DEF Mark
    <3> QED
      BY <3>1
  <2>3. Marks(f) = <<Octet(HALF + TEXT), Octet(Mark(FormFor(n), n))>>
    BY <1>4, <2>1, <2>2 DEF Marks
  <2> QED
    BY <1>3, <1>4, <2>3 DEF KeyPart, Cover
<1>10. Marks(f) \o BigEndian(n, FormFor(n)) \o << >> = Marks(f) \o BigEndian(n, FormFor(n))
  <2>1. Marks(f) \o BigEndian(n, FormFor(n)) \in Seq(Token)
    BY <1>4, <1>7, FramePartsAre, TokenConcat
  <2> QED
    BY <2>1, ConcatEmptySeq
<1>11. EncodeFrame(f) = Marks(f) \o BigEndian(n, FormFor(n)) \o << >> \o Cover(f)
  BY <1>4, <1>7, <1>9, FramePartsAre
<1> QED
  BY <1>7, <1>8, <1>9, <1>10, <1>11 DEF f, n

\* Every message asked for has been written as its frame.
Written ==
    /\ messages \in Seq(Payloads) /\ out \in Seq(Seq(Token)) /\ Len(out) = Len(messages)
    /\ \A i \in 1..Len(out) : out[i] = EncodeFrame(ServerFrame(messages[i]))

LEMMA WrittenStays == WsSpec => []Written
<1>1. WsInit => Written
  BY EmptySeq DEF WsInit, Written
<1>2. Written /\ [WsNext]_wsVars => Written'
  <2> SUFFICES ASSUME Written, [WsNext]_wsVars PROVE Written'
    OBVIOUS
  <2>1. CASE UNCHANGED server
    BY <2>1 DEF Written, server
  <2>2. ASSUME NEW p \in Payloads, SendMessage(p) PROVE Written'
    <3>1. messages' = Append(messages, p) /\ out' = Append(out, EncodeFrame(ServerFrame(p)))
      BY <2>2, ServerFrameIs DEF SendMessage
    <3>2. EncodeFrame(ServerFrame(p)) \in Seq(Token)
      BY ServerFrameIs, EncodeFrameIs
    <3>3. messages \in Seq(Payloads) /\ out \in Seq(Seq(Token)) /\ Len(out) = Len(messages) /\ Len(out) \in Nat
      BY DEF Written
    <3>4. /\ messages' \in Seq(Payloads) /\ Len(messages') = Len(messages) + 1
          /\ messages'[Len(messages) + 1] = p /\ \A i \in 1..Len(messages) : messages'[i] = messages[i]
      BY <3>1, <3>3, AppendProperties
    <3>5. /\ out' \in Seq(Seq(Token)) /\ Len(out') = Len(out) + 1
          /\ out'[Len(out) + 1] = EncodeFrame(ServerFrame(p)) /\ \A i \in 1..Len(out) : out'[i] = out[i]
      BY <3>1, <3>2, <3>3, AppendProperties
    <3>6. ASSUME NEW i \in 1..Len(out') PROVE out'[i] = EncodeFrame(ServerFrame(messages'[i]))
      <4>1. i \in 1..Len(out) \/ i = Len(out) + 1
        BY <3>3, <3>5
      <4> QED
        BY <3>3, <3>4, <3>5, <4>1 DEF Written
    <3> QED
      BY <3>3, <3>4, <3>5, <3>6 DEF Written
  <2>3. CASE Http
    BY <2>1, <2>3 DEF Http
  <2>4. CASE UpgradeToWebSocket
    BY <2>1, <2>4 DEF UpgradeToWebSocket
  <2>5. ASSUME NEW n, ReceiveFrames(n) PROVE UNCHANGED server
    BY <2>5 DEF ReceiveFrames
  <2>6. CASE FrameIncomplete \/ FrameThrows
    BY <2>1, <2>6 DEF FrameIncomplete, FrameThrows
  <2>7. CASE FrameComplete
    BY <2>1, <2>7 DEF FrameComplete
  <2>8. CASE WsFinished
    BY <2>1, <2>8 DEF WsFinished
  <2>9. CASE UNCHANGED wsVars
    BY <2>1, <2>9 DEF wsVars
  <2> QED
    BY <2>1, <2>2, <2>3, <2>4, <2>5, <2>6, <2>7, <2>8, <2>9 DEF WsNext
<1> QED
  BY <1>1, <1>2, PTL DEF WsSpec

\* A frame at the head of a stream is seen there.
LEMMA HeadSeen ==
    ASSUME NEW ss \in Seq(Seq(Token)), Len(ss) >= 1
    PROVE  /\ FlattenSeq(ss) \in Seq(Token) /\ Sees(FlattenSeq(ss), ss[1])
           /\ Len(FlattenSeq(ss)) >= Len(ss[1])
<1>1. FlattenSeq(ss) \in Seq(Token) /\ Len(ss) \in Nat
  BY FlattenType
<1>2. ss[1] \in Seq(Token)
  BY <1>1, ElementOfSeq
<1>3. At(FlattenSeq(ss), 0, ss[1])
  <2>1. 0 \in 0..(Len(ss) - 1) /\ Reach(ss, 0) = 0 /\ 0 + 1 = 1
    BY <1>1, ReachIs
  <2>2. At(FlattenSeq(ss), Reach(ss, 0), ss[0 + 1])
    BY <2>1, FlattenAt
  <2> QED
    BY <2>1, <2>2
<1>4. Len(FlattenSeq(ss)) \in Nat /\ Len(ss[1]) \in Nat
  BY <1>1, <1>2
<1>5. 0 + Len(ss[1]) <= Len(FlattenSeq(ss)) /\ \A i \in 1..Len(ss[1]) : FlattenSeq(ss)[0 + i] = ss[1][i]
  BY <1>3 DEF At
<1>6. ASSUME NEW i \in 1..Len(FlattenSeq(ss)), i <= Len(ss[1]) PROVE FlattenSeq(ss)[i] = ss[1][i]
  <2>1. i \in 1..Len(ss[1]) /\ 0 + i = i
    BY <1>4, <1>6
  <2> QED
    BY <1>5, <2>1
<1> QED
  BY <1>1, <1>4, <1>5, <1>6 DEF Sees

\* src/network/ClientConnection.cpp, sendWebSocketMessage: each message is written
\* as one frame that reads back as the message, whatever its length and whatever
\* is written behind it.
THEOREM MessagesDecodeHolds == WsSpec => []MessagesDecode
<1>1. Written => MessagesDecode
  <2> SUFFICES ASSUME Written, NEW i \in DOMAIN out
               PROVE  LET d == FlattenSeq(SubSeq(out, i, Len(out))) IN
                          /\ Whole(d) /\ HeaderLen(d) + PayloadLen(d) = Len(out[i])
                          /\ Decode(d) = [fin |-> TRUE, op |-> TEXT, payload |-> messages[i]]
    BY DEF MessagesDecode
  <2> DEFINE ss == SubSeq(out, i, Len(out))
             d == FlattenSeq(ss)
             f == ServerFrame(messages[i])
  <2>1. out \in Seq(Seq(Token)) /\ i \in 1..Len(out) /\ Len(out) \in Nat /\ messages[i] \in Payloads
    BY ElementOfSeq DEF Written
  <2>2. ss \in Seq(Seq(Token)) /\ Len(ss) >= 1 /\ ss[1] = out[i]
    BY <2>1
  <2>3. out[i] = EncodeFrame(f)
    BY <2>1 DEF Written
  <2>4. FrameFits(f) /\ Sound(f) /\ f.fin = TRUE /\ f.op = TEXT /\ f.payload = messages[i]
    BY <2>1, ServerFrameIs DEF ServerFrame
  <2> HIDE DEF ss, f
  <2>5. d \in Seq(Token) /\ Sees(d, EncodeFrame(f)) /\ Len(d) >= Len(EncodeFrame(f))
    BY <2>2, <2>3, HeadSeen
  <2> HIDE DEF d
  <2>6. Whole(d) /\ Decode(d) = [fin |-> f.fin, op |-> f.op, payload |-> f.payload]
    BY <2>4, <2>5, FrameReads
  <2>7. HeaderLen(d) = HeadLen(f) /\ PayloadLen(d) = f.claim /\ Len(EncodeFrame(f)) = HeadLen(f) + f.claim
    BY <2>4, <2>5, <2>6, FrameReads
  <2> QED
    BY <2>3, <2>4, <2>6, <2>7 DEF d, ss
<1> QED
  BY <1>1, WrittenStays, PTL

(***************************************************************************)
(* The invariant of a connection that leaves HTTP.                         *)
(***************************************************************************)

FrameSeqs == UNION {[1..n -> Frames] : n \in 0..MaxFrames}

\* A claim that all the client sends does not fill.
Unfilled(f) == \A fs \in FrameSeqs : Len(FramesWire(fs)) < HeadLen(f) + f.claim

\* A client that sends legal requests and requests with a head at fault, asks for
\* the upgrade in the one that it means to, and sends frames that bring what they
\* claim, or claim what no string can hold or more than will ever come.
WsClient ==
    /\ \A m \in Messages \cup {NoUpgrade, UpgradeRequest} : Legal(m) \/ Refused(m)
    /\ \A m \in Messages \cup {NoUpgrade} : ~Upgrades(m.headers)
    /\ Upgrades(UpgradeRequest.headers)
    /\ \A f \in Frames : Sound(f) \/ f.claim > MAX_STRING \/ Unfilled(f)

\* The stream: only the last request asks for the upgrade, and frames follow only
\* such a request.
WsStream ==
    /\ frames \in FrameSeqs /\ tail = FramesWire(frames)
    /\ \A i \in 1..Len(sent) : Legal(sent[i]) \/ Refused(sent[i])
    /\ \A i \in 1..Len(sent) : Upgrades(sent[i].headers) => i = Len(sent)
    /\ frames = << >> \/ Upgrades(sent[Len(sent)].headers)

\* All requests were handed on and the connection is still one of HTTP: there is
\* nothing more, or the upgrade's headers were lost and frames come.
Over ==
    /\ base = Extent(Len(sent)) /\ consumed = 0
    /\ state \in {"RequestLine", "Error"} /\ result # "Complete"
    /\ ~FreshRequest => result = "none" /\ tail = << >>

\* What has been read of the frames, and where the next begins.
FrameParts == [i \in DOMAIN frames |-> EncodeFrame(frames[i])]
Content(f) == [fin |-> f.fin, op |-> f.op, payload |-> f.payload]
Reading ==
    /\ Len(delivered) = Len(sent) /\ result = "none" /\ consumed = 0
    /\ received \in Seq({Content(f) : f \in Frames}) /\ Len(received) <= Len(frames)
    /\ base = Extent(Len(sent)) + Reach(FrameParts, Len(received))
    /\ FramesRight

\* What has been handed on: legal requests, with what is left of them, or as their
\* sender means them.
HandedOn ==
    /\ delivered \in Seq(Range(delivered)) /\ Len(delivered) <= Len(sent) /\ LegalBefore(Len(delivered))
    /\ AllLeft

WsInv ==
    /\ IInv /\ WsStream /\ HandedOn
    /\ ws = "off" => /\ received = << >>
                     /\ Len(delivered) < Len(sent) => InStep /\ Stops /\ Own
                     /\ Len(delivered) = Len(sent) => Over
    /\ ws # "off" => Reading

\* The frames on the wire.
LEMMA FramesAre ==
    ASSUME WsStream
    PROVE  /\ frames \in Seq(Frames) /\ Len(frames) \in Nat /\ DOMAIN frames = 1..Len(frames)
           /\ \A i \in 1..Len(frames) : FrameFits(frames[i]) /\ frames[i] \in Frames
           /\ FrameParts \in Seq(Seq(Octal)) /\ FrameParts \in Seq(Seq(Token)) /\ Len(FrameParts) = Len(frames)
           /\ \A i \in 1..Len(frames) : FrameParts[i] = EncodeFrame(frames[i])
           /\ tail = FlattenSeq(FrameParts) /\ tail \in Seq(Octal)
<1>1. PICK n \in 0..MaxFrames : frames \in [1..n -> Frames]
  BY DEF WsStream, FrameSeqs
<1>2. n \in Nat
  BY BoundsNat
<1>3. frames \in Seq(Frames) /\ Len(frames) = n
  BY <1>1, <1>2, SeqOver
<1>4. Len(frames) \in Nat /\ DOMAIN frames = 1..Len(frames)
  BY <1>3, LenProperties
<1>5. \A i \in 1..Len(frames) : FrameFits(frames[i]) /\ frames[i] \in Frames
  BY <1>3, ElementOfSeq, FramesFit
<1>6. \A i \in 1..Len(frames) : EncodeFrame(frames[i]) \in Seq(Octal) /\ EncodeFrame(frames[i]) \in Seq(Token)
  BY <1>5, FramePartsAre, EncodeFrameIs
<1>7. FrameParts \in [1..Len(frames) -> Seq(Octal)] /\ FrameParts \in [1..Len(frames) -> Seq(Token)]
  BY <1>4, <1>6 DEF FrameParts
<1>8. FrameParts \in Seq(Seq(Octal)) /\ FrameParts \in Seq(Seq(Token)) /\ Len(FrameParts) = Len(frames)
  BY <1>4, <1>7, SeqOver
<1>9. \A i \in 1..Len(frames) : FrameParts[i] = EncodeFrame(frames[i])
  BY <1>4 DEF FrameParts
<1>10. tail = FlattenSeq(FrameParts)
  BY DEF WsStream, FramesWire, FrameParts
<1> QED
  BY <1>3, <1>4, <1>5, <1>8, <1>9, <1>10, FlattenType

\* What the buffer holds: the bytes of the stream from base on.
LEMMA DataIs ==
    ASSUME IInv
    PROVE  /\ Data \in Seq(Token) /\ Len(Data) = arrived - base
           /\ \A i \in 1..Len(Data) : Data[i] = Wire[base + i]
           /\ Wire \in Seq(Token) /\ arrived \in Nat /\ base \in Nat /\ base <= arrived
           /\ arrived <= Len(Wire) /\ Len(Wire) \in Nat
<1>1. /\ Wire \in Seq(Token) /\ Len(Data) = arrived - base
      /\ arrived \in Nat /\ base \in Nat /\ Len(Wire) \in Nat /\ arrived <= Len(Wire) /\ base <= arrived
  BY RemainingIs DEF IInv
<1>2. base + 1 \in Nat \ {0}
  BY <1>1
<1>3. Data \in Seq(Token)
  BY <1>1, <1>2, SubSeqIs DEF Data
<1>4. \A i \in 1..Len(Data) : Data[i] = Wire[base + i]
  BY <1>1, SubSeqProperties DEF Data
<1> QED
  BY <1>1, <1>3, <1>4

\* While frames are read, the buffer begins with the next one.
LEMMA BufferSees ==
    ASSUME IInv, WsStream, Reading, Len(received) < Len(frames)
    PROVE  /\ FrameFits(NextFrame) /\ NextFrame \in Frames /\ Sees(Data, EncodeFrame(NextFrame))
           /\ Len(EncodeFrame(NextFrame)) \in Nat
           /\ FrameEnd = base + Len(EncodeFrame(NextFrame))
           /\ base + Len(EncodeFrame(NextFrame)) = Extent(Len(sent)) + Reach(FrameParts, Len(received) + 1)
<1> DEFINE k == Len(received)
<1>1. sent \in Seq(AnyMessage) /\ tail \in Seq(Token)
  BY DEF IInv, Typed
<1>2. k \in Nat /\ k + 1 \in 1..Len(frames) /\ k \in 0..(Len(frames) - 1) /\ k + 1 \in 0..Len(frames)
  <2>1. k \in Nat
    BY LenProperties DEF Reading
  <2> QED
    BY <2>1, FramesAre
<1>3. /\ FrameFits(NextFrame) /\ NextFrame \in Frames /\ FrameParts[k + 1] = EncodeFrame(NextFrame)
      /\ FrameParts \in Seq(Seq(Token)) /\ Len(FrameParts) = Len(frames) /\ tail = FlattenSeq(FrameParts)
  BY <1>2, FramesAre DEF NextFrame
<1>4. EncodeFrame(NextFrame) \in Seq(Token) /\ Len(EncodeFrame(NextFrame)) \in Nat
  BY <1>3, EncodeFrameIs, LenProperties
<1>5. base = Extent(Len(sent)) + Reach(FrameParts, k)
  BY DEF Reading
<1> HIDE DEF k
<1>6. /\ Reach(FrameParts, k) \in Nat
      /\ Reach(FrameParts, k + 1) = Reach(FrameParts, k) + Len(EncodeFrame(NextFrame))
  BY <1>2, <1>3, ReachIs
<1>7. Extent(Len(sent)) \in Nat /\ At(Wire, Extent(Len(sent)), tail)
  <2>1. Len(sent) \in 0..Len(sent)
    BY <1>1, LenProperties
  <2> QED
    BY <1>1, <2>1, ExtentIs
<1>8. At(Wire, base, EncodeFrame(NextFrame))
  <2>1. At(tail, Reach(FrameParts, k), EncodeFrame(NextFrame))
    BY <1>2, <1>3, FlattenAt
  <2>2. Wire \in Seq(Token)
    BY DataIs
  <2> QED
    BY <1>1, <1>4, <1>5, <1>6, <1>7, <2>1, <2>2, AtWithin
<1>9. Sees(Data, EncodeFrame(NextFrame))
  <2>1. \A i \in 1..Len(EncodeFrame(NextFrame)) : Wire[base + i] = EncodeFrame(NextFrame)[i]
    BY <1>8 DEF At
  <2>2. Len(Data) \in Nat
    BY DataIs, LenProperties
  <2>3. ASSUME NEW i \in 1..Len(Data), i <= Len(EncodeFrame(NextFrame))
        PROVE  Data[i] = EncodeFrame(NextFrame)[i]
    <3>1. i \in 1..Len(EncodeFrame(NextFrame))
      BY <1>4, <2>2, <2>3
    <3> QED
      BY <2>1, <3>1, DataIs
  <2> QED
    BY <2>3 DEF Sees
<1>10. FrameEnd = Extent(Len(sent)) + Reach(FrameParts, k + 1)
  <2> DEFINE fs == SubSeq(frames, 1, k + 1)
  <2>1. /\ Len(fs) = k + 1 /\ fs \in Seq(Frames) /\ DOMAIN fs = 1..(k + 1)
        /\ \A i \in 1..(k + 1) : fs[i] = frames[i]
    BY <1>2, FramesAre, SubSeqProperties
  <2> HIDE DEF fs
  <2>2. [i \in DOMAIN fs |-> EncodeFrame(fs[i])] = [i \in 1..(k + 1) |-> FrameParts[i]]
    <3>1. \A i \in 1..(k + 1) : i \in 1..Len(frames)
      BY <1>2, FramesAre
    <3> QED
      BY <2>1, <3>1, FramesAre
  <2>3. Len(FramesWire(fs)) = Reach(FrameParts, k + 1)
    BY <2>2 DEF FramesWire, Reach
  <2> QED
    BY <2>3 DEF FrameEnd, fs, k
<1> QED
  BY <1>3, <1>4, <1>5, <1>6, <1>7, <1>9, <1>10 DEF k

\* After the last frame it is empty.
LEMMA BufferEmpty ==
    ASSUME IInv, WsStream, Reading, ~(Len(received) < Len(frames))
    PROVE  Len(Data) = 0
<1>1. sent \in Seq(AnyMessage) /\ tail \in Seq(Token)
  BY DEF IInv, Typed
<1>2. Len(received) \in Nat /\ Len(received) <= Len(frames) /\ Len(frames) \in Nat
  BY LenProperties, FramesAre DEF Reading
<1>3. Len(received) = Len(FrameParts)
  BY <1>2, FramesAre
<1>4. Reach(FrameParts, Len(received)) = Len(tail)
  BY <1>3, ReachIs, FramesAre
<1>5. base = Len(Wire)
  BY <1>1, <1>4, ExtentIs DEF Reading
<1> QED
  BY <1>5, DataIs

(***************************************************************************)
(* Before the upgrade.                                                     *)
(***************************************************************************)

\* Bytes of frames have no line break: after the requests parse waits for one in
\* vain, or gives up.
LEMMA OverParse ==
    ASSUME IInv, WsStream, Over, Parse
    PROVE  Over'
<1>1. UNCHANGED stream /\ result = "parsing"
  BY ParseIs
<1>2. UNCHANGED <<sent, base>> /\ Extent(Len(sent))' = Extent(Len(sent))
  BY <1>1 DEF stream, Extent
<1>3. state = "RequestLine" /\ consumed = 0 /\ base = Extent(Len(sent))
  BY <1>1 DEF Over, IInv, Typed, TypeOK
<1>4. HandleRequestLine
  BY <1>3 DEF Parse, HandleHeaders, HandleBody, HandleChunkSize, HandleChunkData, HandleChunkDataCrlf,
              HandleChunkTrailer, In
<1>5. Remaining \in Seq(Token) /\ Len(Remaining) \in Nat
  BY RemainingIs, LenProperties DEF IInv
<1>6. ASSUME NEW i \in 1..Len(Remaining) PROVE Remaining[i] # "CR"
  <2>1. sent \in Seq(AnyMessage) /\ tail \in Seq(Token) /\ Typed
    BY DEF IInv, Typed
  <2>2. Remaining[i] = Wire[base + consumed + i]
    BY <2>1, RemainingAt
  <2>3. /\ Len(Remaining) = arrived - base - consumed /\ arrived <= Len(Wire)
        /\ arrived \in Nat /\ base \in Nat /\ Len(Wire) \in Nat
    BY <2>1, RemainingIs
  <2>4. Len(Wire) = Extent(Len(sent)) + Len(tail) /\ At(Wire, Extent(Len(sent)), tail) /\ Len(tail) \in Nat
    BY <2>1, ExtentIs, LenProperties
  <2>5. i \in 1..Len(tail) /\ base + consumed + i = base + i
    BY <1>3, <2>3, <2>4
  <2>6. Remaining[i] = tail[i]
    BY <1>3, <2>2, <2>4, <2>5 DEF At
  <2>7. tail[i] \in Octal
    BY <2>5, FramesAre, ElementOfSeq
  <2> QED
    BY <2>6, <2>7 DEF Octal
<1>7. Crlfs(Remaining) = {}
  <2>1. \A i \in 1..(Len(Remaining) - 1) : i \in 1..Len(Remaining)
    BY <1>5
  <2> QED
    BY <1>6, <2>1 DEF Crlfs
<1>8. AwaitDelimiter(Crlfs(Remaining), MAX_REQUEST_LINE)
  BY <1>4, <1>7 DEF HandleRequestLine
<1>9. consumed' = consumed /\ state' \in {state, "Error"} /\ result' \in {"Incomplete", "Invalid"}
  BY <1>8 DEF AwaitDelimiter, Fail, Incomplete, parser
<1> QED
  BY <1>1, <1>2, <1>3, <1>9 DEF Over

\* A call that brings them.
LEMMA OverReceive ==
    ASSUME IInv, Over, NEW n \in Nat \ {0}, Receive(n)
    PROVE  Over'
<1>1. /\ result \in {"none", "Incomplete"} /\ UNCHANGED <<sent, tail, base, state, consumed>>
      /\ result' = "parsing" /\ arrived + n <= Len(Wire)
  BY DEF Receive, parser
<1>2. Extent(Len(sent))' = Extent(Len(sent))
  BY <1>1 DEF Extent
<1>3. tail # << >>
  <2>1. /\ sent \in Seq(AnyMessage) /\ tail \in Seq(Token)
    BY DEF IInv, Typed
  <2>2. Len(Wire) = Extent(Len(sent)) + Len(tail) /\ arrived \in Nat /\ base \in Nat /\ base <= arrived
    BY <2>1, ExtentIs, DataIs
  <2>3. ASSUME tail = << >> PROVE FALSE
    <3>1. Len(tail) = 0
      BY <2>3, EmptySeq
    <3>2. base = Extent(Len(sent))
      BY DEF Over
    <3> QED
      BY <1>1, <2>2, <3>1, <3>2
  <2> QED
    BY <2>3
<1> QED
  BY <1>1, <1>2, <1>3 DEF Over

\* What does not change with the frames, the requests and the stream.
LEMMA StreamSame ==
    ASSUME UNCHANGED <<sent, tail, frames>>
    PROVE  /\ WsStream => WsStream'
           /\ Extent(Len(sent))' = Extent(Len(sent)) /\ FrameParts' = FrameParts /\ Wire' = Wire
           /\ UNCHANGED delivered /\ HandedOn => HandedOn'
           /\ UNCHANGED received => NextFrame' = NextFrame /\ FrameEnd' = FrameEnd
<1>1. WsStream => WsStream'
  BY DEF WsStream
<1>2. Extent(Len(sent))' = Extent(Len(sent)) /\ FrameParts' = FrameParts /\ Wire' = Wire
  BY DEF Extent, FrameParts, Wire
<1>3. UNCHANGED delivered /\ HandedOn => HandedOn'
  BY DEF HandedOn, LegalBefore, AllLeft
<1>4. UNCHANGED received => NextFrame' = NextFrame /\ FrameEnd' = FrameEnd
  BY DEF NextFrame, FrameEnd, Extent
<1> QED
  BY <1>1, <1>2, <1>3, <1>4

\* A read of a part of a request.
LEMMA HttpReceive ==
    ASSUME WsInv, ws = "off", NEW n \in Nat \ {0}, Receive(n), UNCHANGED socket
    PROVE  WsInv'
<1>1. UNCHANGED <<sent, tail, frames, delivered, received, ws>>
  BY DEF Receive, socket
<1>2. WsStream' /\ HandedOn'
  BY <1>1, StreamSame DEF WsInv
<1>3. IInv'
  BY ReceiveStep DEF WsInv
<1>4. CASE Len(delivered) < Len(sent)
  <2>1. IInv /\ InStep /\ Stops /\ Own
    BY <1>4 DEF WsInv
  <2>2. Len(delivered) # Len(sent)
    <3>1. Len(sent) \in Nat
      BY <2>1, LenProperties DEF IInv, Typed
    <3> QED
      BY <1>4, <3>1
  <2>3. InStep' /\ Stops' /\ Own'
    BY <2>1, <2>2, ReceiveKeeps, ReceiveStops, ReceiveOwn
  <2> QED
    BY <1>1, <1>2, <1>3, <2>2, <2>3 DEF WsInv
<1>5. CASE ~(Len(delivered) < Len(sent))
  <2>1. Len(delivered) = Len(sent)
    <3>1. Len(sent) \in Nat /\ Len(delivered) \in Nat /\ Len(delivered) <= Len(sent)
      BY LenProperties DEF WsInv, HandedOn, IInv, Typed
    <3> QED
      BY <1>5, <3>1
  <2>2. Over'
    BY <2>1, OverReceive DEF WsInv
  <2> QED
    BY <1>1, <1>2, <1>3, <1>5, <2>2 DEF WsInv
<1> QED
  BY <1>4, <1>5

\* A handler of parse.
LEMMA HttpParse ==
    ASSUME WsInv, ws = "off", Parse, UNCHANGED socket
    PROVE  WsInv'
<1>1. UNCHANGED <<sent, tail, frames, delivered, received, ws>>
  BY ParseIs DEF stream, socket
<1>2. WsStream' /\ HandedOn'
  BY <1>1, StreamSame DEF WsInv
<1>3. IInv'
  BY ParseStep DEF WsInv
<1>4. Len(sent) \in Nat /\ Len(delivered) \in Nat /\ Len(delivered) <= Len(sent)
  BY LenProperties DEF WsInv, HandedOn, IInv, Typed
<1>5. CASE Len(delivered) < Len(sent)
  <2>1. InStep' /\ Stops' /\ Own'
    BY <1>5, ParseKeeps, ParseStops, ParseOwn DEF WsInv
  <2> QED
    BY <1>1, <1>2, <1>3, <1>4, <1>5, <2>1 DEF WsInv
<1>6. CASE Len(delivered) = Len(sent)
  <2>1. Over'
    BY <1>6, OverParse DEF WsInv
  <2> QED
    BY <1>1, <1>2, <1>3, <1>4, <1>6, <2>1 DEF WsInv
<1> QED
  BY <1>4, <1>5, <1>6

\* A request that is handed on is the next one, and brings its own headers or none.
LEMMA Delivers ==
    ASSUME WsInv, ws = "off", Deliver
    PROVE  /\ IInv' /\ InStep' /\ HandedOn' /\ UNCHANGED <<sent, tail>>
           /\ Len(delivered) \in Nat /\ Len(sent) \in Nat /\ Len(delivered) + 1 \in 1..Len(sent)
           /\ Len(delivered') = Len(delivered) + 1 /\ base' = Extent(Len(delivered))'
           /\ request.headers \in {sent[Len(delivered) + 1].headers, << >>}
           /\ ~FreshRequest => request.headers = sent[Len(delivered) + 1].headers
           /\ state' = "RequestLine" /\ consumed' = 0 /\ result' = "none"
<1>1. /\ result = "Complete" /\ state' = "RequestLine" /\ consumed' = 0 /\ result' = "none"
      /\ UNCHANGED <<sent, tail>>
  BY DEF Deliver
<1>2. Len(sent) \in Nat /\ Len(delivered) \in Nat /\ Len(delivered) <= Len(sent) /\ DOMAIN sent = 1..Len(sent)
  BY LenProperties DEF WsInv, HandedOn, IInv, Typed
<1>3. Len(delivered) < Len(sent)
  <2>1. Len(delivered) # Len(sent)
    BY <1>1 DEF WsInv, Over
  <2> QED
    BY <1>2, <2>1
<1>4. IInv /\ InStep /\ Stops /\ Own /\ LegalBefore(Len(delivered)) /\ state = "Complete"
  BY <1>1, <1>3 DEF WsInv, HandedOn, IInv, Typed, TypeOK
<1>5. Len(delivered) + 1 \in 1..Len(sent)
  BY <1>2, <1>3
<1>6. Legal(sent[Len(delivered) + 1])
  <2>1. ~Refused(Current)
    BY <1>1, <1>4 DEF Stops, Stopped
  <2> QED
    BY <1>5, <2>1 DEF WsInv, WsStream, Current
<1>7. IInv' /\ InStep'
  BY <1>4, DeliverStep, DeliverKeeps
<1>8. Len(delivered') = Len(delivered) + 1 /\ delivered' \in Seq(Range(delivered'))
  BY <1>4, DeliverLen
<1>9. LegalBefore(Len(delivered))'
  <2>1. \A i \in 1..(Len(delivered) + 1) : i \in DOMAIN sent /\ Legal(sent[i])
    BY <1>2, <1>4, <1>5, <1>6 DEF LegalBefore
  <2> QED
    BY <1>1, <1>8, <2>1 DEF LegalBefore
<1>10. base' = Extent(Len(delivered))' /\ AllLeft'
  BY <1>4, <1>7, <1>9, DeliverLeft DEF InStep, WsInv, HandedOn
<1>11. HandedOn'
  BY <1>1, <1>2, <1>5, <1>8, <1>9, <1>10 DEF HandedOn
<1>12. request.headers \in {sent[Len(delivered) + 1].headers, << >>}
  BY <1>1, <1>4, <1>6 DEF Own, OwnParts, Late, Current
<1>13. ~FreshRequest => request.headers = sent[Len(delivered) + 1].headers
  <2>1. ~FreshRequest => request = Meaning(sent[Len(delivered) + 1])
    BY <1>1, <1>4, <1>6 DEF InStep, Kept, Current
  <2> QED
    BY <2>1 DEF Meaning
<1> QED
  BY <1>1, <1>2, <1>5, <1>7, <1>8, <1>10, <1>11, <1>12, <1>13

\* One that does not ask for the upgrade.
LEMMA HttpDeliver ==
    ASSUME WsInv, ws = "off", ~Upgrades(request.headers), Deliver, UNCHANGED socket
    PROVE  WsInv'
<1>1. /\ IInv' /\ InStep' /\ HandedOn' /\ UNCHANGED <<sent, tail, frames, received, ws>> /\ result' = "none"
      /\ Len(delivered) \in Nat /\ Len(sent) \in Nat /\ Len(delivered') = Len(delivered) + 1
  BY Delivers DEF socket
<1>2. WsStream'
  BY <1>1, StreamSame DEF WsInv
<1>3. Stops' /\ Own'
  BY <1>1 DEF Stops, Own
<1>4. ASSUME Len(delivered) + 1 = Len(sent) PROVE Over'
  <2>1. base' = Extent(Len(sent))'
    BY <1>1, <1>4, Delivers DEF Extent
  <2>2. ASSUME ~FreshRequest PROVE tail' = << >>
    <3>1. request.headers = sent[Len(sent)].headers
      BY <1>4, <2>2, Delivers
    <3>2. frames = << >>
      BY <3>1 DEF WsInv, WsStream
    <3>3. /\ WsStream /\ FrameParts \in Seq(Seq(Token)) /\ Len(FrameParts) = 0 /\ tail = FlattenSeq(FrameParts)
          /\ tail \in Seq(Octal)
      BY <3>2, FramesAre, EmptySeq DEF WsInv
    <3>4. Len(tail) = 0
      BY <3>3, ReachIs
    <3> QED
      BY <1>1, <3>3, <3>4, EmptySeq
  <2> QED
    BY <1>1, <2>1, <2>2, Delivers DEF Over
<1> QED
  BY <1>1, <1>2, <1>3, <1>4 DEF WsInv

\* One that does: it is the last, and the frames begin where it ends.
LEMMA UpgradeStep ==
    ASSUME WsInv, UpgradeToWebSocket
    PROVE  WsInv'
<1>1. ws = "off" /\ Upgrades(request.headers) /\ Deliver /\ ws' = "none" /\ UNCHANGED <<frames, received>>
  BY DEF UpgradeToWebSocket
<1>2. /\ IInv' /\ HandedOn' /\ UNCHANGED <<sent, tail>> /\ result' = "none" /\ consumed' = 0
      /\ Len(delivered) + 1 \in 1..Len(sent) /\ Len(delivered') = Len(delivered) + 1
      /\ base' = Extent(Len(delivered))'
      /\ request.headers \in {sent[Len(delivered) + 1].headers, << >>}
  BY <1>1, Delivers
<1>3. ~Upgrades(<< >>)
  <2>1. {i \in DOMAIN << >> : << >>[i][1] = "Upgrade"} = {}
    BY EmptySeq
  <2>2. Header(<< >>, "Upgrade") = ""
    BY <2>1 DEF Header
  <2> QED
    BY <2>2 DEF Upgrades
<1>4. Len(delivered) + 1 = Len(sent)
  BY <1>1, <1>2, <1>3 DEF WsInv, WsStream
<1>5. WsStream'
  BY <1>1, <1>2, StreamSame DEF WsInv
<1>6. received' = << >> /\ Len(received') = 0
  BY <1>1, EmptySeq DEF WsInv
<1>7. Len(frames') \in Nat /\ FrameParts \in Seq(Seq(Token))
  BY <1>1, FramesAre DEF WsInv
<1>8. base' = Extent(Len(sent))' + Reach(FrameParts, Len(received))'
  <2>1. Extent(Len(delivered))' = Extent(Len(sent))
    BY <1>2, <1>4 DEF Extent
  <2>2. Extent(Len(sent))' = Extent(Len(sent)) /\ FrameParts' = FrameParts
    BY <1>1, <1>2, StreamSame
  <2>3. Reach(FrameParts, 0) = 0
    BY <1>7, ReachIs
  <2>4. Reach(FrameParts, Len(received))' = 0
    BY <1>6, <2>2, <2>3 DEF Reach
  <2>5. Extent(Len(sent)) \in Nat
    <3>1. sent \in Seq(AnyMessage) /\ tail \in Seq(Token)
      BY DEF WsInv, IInv, Typed
    <3>2. Len(sent) \in 0..Len(sent)
      BY <3>1, LenProperties
    <3> QED
      BY <3>1, <3>2, ExtentIs
  <2> QED
    BY <1>2, <2>1, <2>2, <2>4, <2>5
<1>9. FramesRight'
  BY <1>1, <1>6, EmptySeq DEF FramesRight
<1>10. Reading'
  BY <1>2, <1>4, <1>6, <1>7, <1>8, <1>9, EmptySeq DEF Reading
<1> QED
  BY <1>1, <1>2, <1>5, <1>10 DEF WsInv

(***************************************************************************)
(* After the upgrade.                                                      *)
(***************************************************************************)

\* The buffer grows, or its head is taken off, and the parser is at rest.
LEMMA BufferMoves ==
    ASSUME IInv, result = "none", consumed = 0,
           UNCHANGED <<sent, tail, delivered, parser, request, result>>,
           arrived' \in Nat, base' \in Nat, base' <= arrived', arrived' <= Len(Wire)
    PROVE  IInv'
<1>1. UNCHANGED <<state, consumed, bodySize, chunkSize, chunkBytesRead, body>>
  BY DEF parser, chunks
<1>2. Wire' = Wire /\ Len(Wire) \in Nat
  BY DataIs DEF Wire
<1>3. TypeOK'
  <2>1. arrived' \in 0..Len(Wire') /\ base' \in 0..arrived' /\ consumed' \in 0..(arrived' - base')
    <3>1. \A a, b, n \in Nat : b <= a /\ a <= n => a \in 0..n /\ b \in 0..a /\ 0 \in 0..(a - b)
      OBVIOUS
    <3>2. arrived' \in 0..Len(Wire) /\ base' \in 0..arrived' /\ 0 \in 0..(arrived' - base')
      BY <1>2, <3>1
    <3> QED
      BY <1>1, <1>2, <3>2
  <2>2. /\ state \in States /\ result \in Results /\ {bodySize, chunkSize, chunkBytesRead} \subseteq Nat
        /\ (state = "Complete" <=> result = "Complete") /\ (state = "Error" <=> result = "Invalid")
    BY DEF IInv, Typed, TypeOK
  <2> QED
    BY <1>1, <2>1, <2>2 DEF TypeOK
<1> QED
  BY <1>1, <1>3 DEF IInv, Typed, Bounded, MemoryBounded

\* A read of a part of a frame.
LEMMA FramesReceive ==
    ASSUME WsInv, NEW n \in Nat, ReceiveFrames(n)
    PROVE  WsInv'
<1>1. /\ ws \in {"none", "Incomplete"} /\ ws' = "parsing" /\ arrived' = arrived + n /\ arrived + n <= Len(Wire)
      /\ UNCHANGED <<sent, tail, base, delivered, parser, request, result, frames, received>>
  BY DEF ReceiveFrames
<1>2. IInv /\ WsStream /\ HandedOn /\ Reading
  BY <1>1 DEF WsInv
<1>3. IInv'
  <2>1. result = "none" /\ consumed = 0
    BY <1>2 DEF Reading
  <2>2. arrived' \in Nat /\ base' \in Nat /\ base' <= arrived' /\ arrived' <= Len(Wire)
    BY <1>1, <1>2, DataIs
  <2> QED
    BY <1>1, <1>2, <2>1, <2>2, BufferMoves
<1>4. /\ WsStream' /\ HandedOn' /\ Extent(Len(sent))' = Extent(Len(sent)) /\ FrameParts' = FrameParts
      /\ NextFrame' = NextFrame /\ FrameEnd' = FrameEnd
  BY <1>1, <1>2, StreamSame
<1>5. Reading'
  <2>1. FramesRight'
    BY <1>1, <1>2, <1>4 DEF Reading, FramesRight
  <2>2. Reach(FrameParts, Len(received))' = Reach(FrameParts, Len(received))
    BY <1>1, <1>4 DEF Reach
  <2>3. consumed' = consumed
    BY <1>1 DEF parser
  <2> QED
    BY <1>1, <1>2, <1>4, <2>1, <2>2, <2>3 DEF Reading
<1> QED
  BY <1>1, <1>3, <1>4, <1>5 DEF WsInv

\* A step that leaves the buffer and the history alone.
LEMMA FramesRest ==
    ASSUME WsInv, ws # "off", UNCHANGED <<vars, frames, received>>, ws' # "off", FramesRight'
    PROVE  WsInv'
<1>1. UNCHANGED <<sent, tail, base, arrived, delivered, consumed, result>>
  BY DEF vars, stream, parser
<1>2. IInv'
  BY InvSame DEF WsInv
<1>3. /\ WsStream' /\ HandedOn' /\ Extent(Len(sent))' = Extent(Len(sent)) /\ FrameParts' = FrameParts
  BY <1>1, StreamSame DEF WsInv
<1>4. Reading'
  <2>1. Reach(FrameParts, Len(received))' = Reach(FrameParts, Len(received))
    BY <1>1, <1>3 DEF Reach
  <2> QED
    BY <1>1, <1>3, <2>1 DEF Reading, WsInv
<1> QED
  BY <1>2, <1>3, <1>4 DEF WsInv

\* A frame that is there is not waited for.
LEMMA FrameWaits ==
    ASSUME WsInv, FrameIncomplete
    PROVE  WsInv'
<1>1. ws = "parsing" /\ ~Whole(Data) /\ ws' = "Incomplete" /\ UNCHANGED <<vars, frames, received>>
  BY DEF FrameIncomplete
<1>2. IInv /\ WsStream /\ Reading
  BY <1>1 DEF WsInv
<1>3. ASSUME Len(received) < Len(frames), Sound(NextFrame) PROVE arrived < FrameEnd
  <2>1. /\ FrameFits(NextFrame) /\ Sees(Data, EncodeFrame(NextFrame)) /\ Len(EncodeFrame(NextFrame)) \in Nat
        /\ FrameEnd = base + Len(EncodeFrame(NextFrame))
    BY <1>2, <1>3, BufferSees
  <2>2. Data \in Seq(Token) /\ Len(Data) = arrived - base /\ arrived \in Nat /\ base \in Nat
    BY <1>2, DataIs
  <2>3. ~(Len(Data) >= Len(EncodeFrame(NextFrame)))
    BY <1>1, <1>3, <2>1, <2>2, FrameReads
  <2> QED
    BY <2>1, <2>2, <2>3
<1>4. UNCHANGED <<sent, tail, arrived>>
  BY <1>1 DEF vars, stream
<1>5. NextFrame' = NextFrame /\ FrameEnd' = FrameEnd
  BY <1>1, <1>4, StreamSame
<1>6. FramesRight'
  BY <1>1, <1>2, <1>3, <1>4, <1>5 DEF FramesRight, Reading
<1> QED
  BY <1>1, <1>6, FramesRest

\* Where a frame is taken for whole, there is one.
LEMMA WholeIsThere ==
    ASSUME IInv, WsStream, Reading, Whole(Data)
    PROVE  Len(received) < Len(frames)
<1>1. Len(Data) >= 2
  BY DEF Whole
<1> QED
  BY <1>1, BufferEmpty

\* resize throws only on a claim that no string can hold.
LEMMA FrameRefused ==
    ASSUME WsInv, FrameThrows
    PROVE  WsInv'
<1>1. /\ ws = "parsing" /\ Whole(Data) /\ PayloadLen(Data) > MAX_STRING /\ ws' = "closed"
      /\ UNCHANGED <<vars, frames, received>>
  BY DEF FrameThrows
<1>2. IInv /\ WsStream /\ Reading
  BY <1>1 DEF WsInv
<1>3. FrameFits(NextFrame) /\ Sees(Data, EncodeFrame(NextFrame)) /\ Data \in Seq(Token)
  BY <1>1, <1>2, WholeIsThere, BufferSees, DataIs
<1>4. PayloadLen(Data) = NextFrame.claim
  BY <1>1, <1>3, FrameReads
<1>5. NextFrame.claim > MAX_STRING /\ ~Sound(NextFrame)
  <2>1. Sound(NextFrame) => NextFrame.claim <= 31
    BY <1>3, FrameReads
  <2>2. NextFrame.claim \in 0..63
    BY <1>3, FramePartsAre
  <2>3. \A n \in 0..63 : n > 31 => ~(n <= 31)
    OBVIOUS
  <2> QED
    BY <1>1, <1>4, <2>1, <2>2, <2>3, Widths
<1>6. UNCHANGED <<sent, tail, arrived>>
  BY <1>1 DEF vars, stream
<1>7. NextFrame' = NextFrame /\ FrameEnd' = FrameEnd
  BY <1>1, <1>6, StreamSame
<1>8. FramesRight'
  BY <1>1, <1>2, <1>5, <1>6, <1>7 DEF FramesRight, Reading, Sound
<1> QED
  BY <1>1, <1>8, FramesRest

\* What a client sends is not enough for a claim it does not fill.
LEMMA TakenIsSound ==
    ASSUME WsClient, IInv, WsStream, Reading, Whole(Data), PayloadLen(Data) <= MAX_STRING
    PROVE  /\ Len(received) < Len(frames) /\ Sound(NextFrame)
           /\ HeaderLen(Data) + PayloadLen(Data) = Len(EncodeFrame(NextFrame))
           /\ Len(Data) >= Len(EncodeFrame(NextFrame)) /\ Decode(Data) = Content(NextFrame)
<1> DEFINE f == NextFrame
<1>1. Len(received) < Len(frames)
  BY WholeIsThere
<1>2. FrameFits(f) /\ f \in Frames /\ Sees(Data, EncodeFrame(f)) /\ Data \in Seq(Token)
  BY <1>1, BufferSees, DataIs
<1> HIDE DEF f
<1>3. HeaderLen(Data) = HeadLen(f) /\ PayloadLen(Data) = f.claim
  BY <1>2, FrameReads
<1>4. f.claim <= 31 /\ f.claim \in 0..63 /\ HeadLen(f) \in Nat
  BY <1>2, <1>3, Widths, FramePartsAre, EncodeFrameIs
<1>5. Len(Data) >= HeadLen(f) + f.claim
  BY <1>2, <1>4, FrameReads
<1>6. Len(Data) <= Len(tail) /\ Len(Data) \in Nat /\ Len(tail) \in Nat
  <2>1. sent \in Seq(AnyMessage) /\ tail \in Seq(Token)
    BY DEF IInv, Typed
  <2>2. Len(sent) \in 0..Len(sent) /\ Len(tail) \in Nat
    BY <2>1, LenProperties
  <2>3. Len(Wire) = Extent(Len(sent)) + Len(tail) /\ Extent(Len(sent)) \in Nat
    BY <2>1, <2>2, ExtentIs
  <2>4. Len(received) \in 0..Len(FrameParts)
    BY <1>1, FramesAre, LenProperties DEF Reading
  <2>5. base = Extent(Len(sent)) + Reach(FrameParts, Len(received)) /\ Reach(FrameParts, Len(received)) \in Nat
    BY <2>4, FramesAre, ReachIs DEF Reading
  <2> QED
    BY <2>2, <2>3, <2>5, DataIs
<1>7. ~(f.claim > MAX_STRING)
  <2>1. \A n \in 0..63 : n <= 31 => ~(n > 31)
    OBVIOUS
  <2> QED
    BY <1>4, <2>1, Widths
<1>8. ~Unfilled(f)
  <2>1. Len(FramesWire(frames)) = Len(tail) /\ frames \in FrameSeqs
    BY DEF WsStream
  <2>2. \A a, b, c \in Int : a <= b /\ a >= c => ~(b < c)
    OBVIOUS
  <2>3. HeadLen(f) + f.claim \in Int
    <3>1. \A a \in Nat : \A n \in 0..63 : a + n \in Int
      OBVIOUS
    <3> QED
      BY <1>4, <3>1
  <2>4. ~(Len(tail) < HeadLen(f) + f.claim)
    BY <1>5, <1>6, <2>2, <2>3
  <2> QED
    BY <2>1, <2>4 DEF Unfilled
<1>9. Sound(f)
  BY <1>2, <1>7, <1>8 DEF WsClient
<1>10. Len(EncodeFrame(f)) = HeadLen(f) + f.claim
  BY <1>2, <1>9, FrameReads
<1>11. Decode(Data) = Content(f)
  BY <1>2, <1>5, <1>9, <1>10, FrameReads DEF Content
<1> QED
  BY <1>1, <1>3, <1>5, <1>9, <1>10, <1>11 DEF f

\* A frame is taken as it was sent, and the next one begins where it ends.
LEMMA FrameTaken ==
    ASSUME WsClient, WsInv, FrameComplete
    PROVE  WsInv'
<1> DEFINE k == Len(received)
           f == NextFrame
<1>1. /\ ws = "parsing" /\ Whole(Data) /\ PayloadLen(Data) <= MAX_STRING
      /\ received' = Append(received, Decode(Data))
      /\ base' = base + HeaderLen(Data) + PayloadLen(Data)
      /\ ws' = CASE Decode(Data).op = CLOSE -> "closed" [] Decode(Data).op = TEXT -> "none" [] OTHER -> "parsing"
      /\ UNCHANGED <<sent, tail, arrived, delivered, parser, request, result, frames>>
  BY DEF FrameComplete
<1>2. IInv /\ WsStream /\ HandedOn /\ Reading
  BY <1>1 DEF WsInv
<1>3. /\ k < Len(frames) /\ Sound(f) /\ HeaderLen(Data) + PayloadLen(Data) = Len(EncodeFrame(f))
      /\ Len(Data) >= Len(EncodeFrame(f)) /\ Decode(Data) = Content(f)
  BY <1>1, <1>2, TakenIsSound
<1>4. /\ f \in Frames /\ FrameFits(f) /\ Len(EncodeFrame(f)) \in Nat
      /\ base + Len(EncodeFrame(f)) = Extent(Len(sent)) + Reach(FrameParts, k + 1)
  BY <1>2, <1>3, BufferSees
<1>5. /\ Len(Data) = arrived - base /\ arrived \in Nat /\ base \in Nat /\ arrived <= Len(Wire)
  BY <1>2, DataIs
<1>6. base' = base + Len(EncodeFrame(f))
  <2>1. HeaderLen(Data) \in Int /\ PayloadLen(Data) \in Int
    <3>1. Data \in Seq(Token) /\ Sees(Data, EncodeFrame(f))
      BY <1>2, <1>3, BufferSees, DataIs
    <3>2. HeaderLen(Data) = HeadLen(f) /\ PayloadLen(Data) = f.claim
      BY <1>1, <1>4, <3>1, FrameReads
    <3>3. HeadLen(f) \in Nat /\ f.claim \in 0..63
      BY <1>4, EncodeFrameIs, FramePartsAre
    <3>4. \A n \in 0..63 : n \in Int
      OBVIOUS
    <3> QED
      BY <3>2, <3>3, <3>4
  <2> QED
    BY <1>1, <1>3, <1>5, <2>1
<1>7. IInv'
  <2>1. result = "none" /\ consumed = 0
    BY <1>2 DEF Reading
  <2>2. arrived' \in Nat /\ base' \in Nat /\ base' <= arrived' /\ arrived' <= Len(Wire)
    BY <1>1, <1>3, <1>4, <1>5, <1>6
  <2> QED
    BY <1>1, <1>2, <2>1, <2>2, BufferMoves
<1>8. WsStream' /\ HandedOn' /\ Extent(Len(sent))' = Extent(Len(sent)) /\ FrameParts' = FrameParts
  BY <1>1, <1>2, StreamSame
<1> HIDE DEF k
<1>9. /\ received' \in Seq({Content(g) : g \in Frames}) /\ Len(received') = k + 1 /\ k \in Nat
      /\ received'[k + 1] = Content(f) /\ \A i \in 1..k : received'[i] = received[i]
  <2>1. received \in Seq({Content(g) : g \in Frames}) /\ Content(f) \in {Content(g) : g \in Frames}
    BY <1>2, <1>4 DEF Reading
  <2>2. received' = Append(received, Content(f))
    BY <1>1, <1>3
  <2> QED
    BY <2>1, <2>2, AppendProperties, LenProperties DEF k
<1>10. k + 1 \in 1..Len(frames) /\ f = frames[k + 1] /\ DOMAIN received' = 1..(k + 1) /\ DOMAIN received = 1..k
       /\ DOMAIN frames = 1..Len(frames) /\ k + 1 <= Len(frames)
  <2>1. Len(frames) \in Nat /\ DOMAIN frames = 1..Len(frames)
    BY <1>2, FramesAre
  <2>2. DOMAIN received' = 1..(k + 1) /\ DOMAIN received = 1..k
    BY <1>2, <1>9, LenProperties DEF Reading, k
  <2> QED
    BY <1>3, <1>9, <2>1, <2>2 DEF NextFrame, k
<1>11. ASSUME NEW i \in DOMAIN received'
       PROVE  i \in DOMAIN frames' /\ Sound(frames'[i]) /\ received'[i] = Content(frames'[i])
  <2>1. CASE i = k + 1
    BY <1>1, <1>3, <1>9, <1>10, <2>1
  <2>2. CASE i # k + 1
    <3>1. i \in 1..k
      BY <1>9, <1>10, <2>2
    <3>2. i \in DOMAIN frames /\ Sound(frames[i]) /\ received[i] = Content(frames[i])
      BY <1>2, <1>10, <3>1 DEF Reading, FramesRight, Content
    <3> QED
      BY <1>1, <1>9, <3>1, <3>2
  <2> QED
    BY <2>1, <2>2
<1>12. ws' \in {"closed", "none", "parsing"} /\ (ws' = "closed" => f.op = CLOSE)
  <2>1. Decode(Data).op = f.op
    BY <1>3 DEF Content
  <2> QED
    BY <1>1, <2>1
<1>13. f.op = CLOSE => received' # << >> /\ Last(received').op = CLOSE
  <2>1. received' # << >>
    BY <1>9, EmptySeq
  <2>2. Last(received') = Content(f)
    BY <1>9 DEF Last
  <2> QED
    BY <2>1, <2>2 DEF Content
<1>14. FramesRight'
  BY <1>11, <1>12, <1>13 DEF FramesRight, Content, Sound
<1>15. Reading'
  <2>1. Reach(FrameParts, Len(received))' = Reach(FrameParts, k + 1)
    BY <1>8, <1>9 DEF Reach
  <2>2. consumed' = consumed
    BY <1>1 DEF parser
  <2> QED
    BY <1>1, <1>2, <1>4, <1>6, <1>8, <1>9, <1>10, <1>14, <2>1, <2>2 DEF Reading
<1> QED
  BY <1>7, <1>8, <1>12, <1>15 DEF WsInv

\* A step that leaves the connection alone.
LEMMA WsSame ==
    ASSUME WsInv, UNCHANGED <<vars, socket>>
    PROVE  WsInv'
<1>1. UNCHANGED <<vars, frames, received, ws, sent, tail, arrived, delivered, request, result, state, base, consumed>>
  BY DEF socket, vars, stream, parser
<1>2. CASE ws # "off"
  <2>1. NextFrame' = NextFrame /\ FrameEnd' = FrameEnd
    BY <1>1, StreamSame
  <2>2. FramesRight'
    BY <1>1, <1>2, <2>1 DEF WsInv, Reading, FramesRight
  <2> QED
    BY <1>1, <1>2, <2>2, FramesRest
<1>3. CASE ws = "off"
  <2>1. IInv' /\ WsStream' /\ HandedOn' /\ Extent(Len(sent))' = Extent(Len(sent))
    BY <1>1, InvSame, StreamSame DEF WsInv
  <2>2. Len(delivered) < Len(sent) => InStep' /\ Stops' /\ Own'
    <3>1. Own => Own'
      BY <1>1 DEF Own, OwnParts, LegalBefore, Current
    <3> QED
      BY <1>1, <1>3, <3>1, InStepSame, StopsSame DEF WsInv
  <2>3. Len(delivered) = Len(sent) => Over'
    BY <1>1, <1>3, <2>1 DEF WsInv, Over
  <2> QED
    BY <1>1, <1>3, <2>1, <2>2, <2>3 DEF WsInv
<1> QED
  BY <1>2, <1>3

(***************************************************************************)
(* The theorems about a connection that may leave HTTP.                    *)
(***************************************************************************)

\* The stream of a new connection.
LEMMA WsInitIs ==
    ASSUME WsClient, WsInit
    PROVE  WsStream /\ sent \in Seq(AnyMessage) /\ tail \in Seq(Token) /\ Len(sent) \in Nat \ {0}
<1> DEFINE M == Messages \cup {NoUpgrade, UpgradeRequest}
<1>1. frames \in FrameSeqs /\ tail = FramesWire(frames)
  <2>1. << >> \in FrameSeqs
    <3>1. << >> \in [1..0 -> Frames]
      OBVIOUS
    <3>2. 0 \in 0..MaxFrames
      BY BoundsNat
    <3> QED
      BY <3>1, <3>2 DEF FrameSeqs
  <2> QED
    BY <2>1 DEF WsInit, FrameSeqs
<1>2. M \subseteq AnyMessage
  BY MessagesSpelt, UpgradeSpelt
<1> SUFFICES /\ sent \in Seq(M) /\ Len(sent) \in Nat \ {0}
             /\ \A i \in 1..Len(sent) : Upgrades(sent[i].headers) => i = Len(sent)
             /\ frames = << >> \/ Upgrades(sent[Len(sent)].headers)
  <2>1. ASSUME sent \in Seq(M) PROVE sent \in Seq(AnyMessage)
    BY <1>2, <2>1, SeqMonotonic
  <2>2. ASSUME sent \in Seq(M), NEW i \in 1..Len(sent) PROVE Legal(sent[i]) \/ Refused(sent[i])
    <3>1. sent[i] \in M
      BY <2>2, ElementOfSeq
    <3> QED
      BY <3>1 DEF WsClient
  <2>3. ASSUME sent \in Seq(M), \A i \in 1..Len(sent) : Upgrades(sent[i].headers) => i = Len(sent),
               frames = << >> \/ Upgrades(sent[Len(sent)].headers)
        PROVE  WsStream
    BY <1>1, <2>2, <2>3 DEF WsStream
  <2>4. ASSUME WsStream PROVE tail \in Seq(Token)
    BY <2>4, FramesAre, FlattenType
  <2> HIDE DEF M
  <2> QED
    BY <2>1, <2>3, <2>4
<1>3. CASE frames = << >> /\ sent \in UNION {[1..n -> Messages \cup {NoUpgrade}] : n \in 1..MaxMessages}
  <2>1. PICK n \in 1..MaxMessages : sent \in [1..n -> Messages \cup {NoUpgrade}]
    BY <1>3
  <2>2. n \in Nat /\ n # 0
    BY MaxMessagesNat
  <2>3. sent \in Seq(Messages \cup {NoUpgrade}) /\ Len(sent) = n
    BY <2>1, <2>2, SeqOver
  <2>4. sent \in Seq(M)
    <3>1. Messages \cup {NoUpgrade} \subseteq M
      OBVIOUS
    <3> HIDE DEF M
    <3> QED
      BY <2>3, <3>1, SeqMonotonic
  <2>5. \A i \in 1..Len(sent) : sent[i] \in Messages \cup {NoUpgrade}
    BY <2>3, ElementOfSeq
  <2>6. \A i \in 1..Len(sent) : ~Upgrades(sent[i].headers)
    BY <2>5 DEF WsClient
  <2> QED
    BY <1>3, <2>2, <2>3, <2>4, <2>6
<1>4. CASE sent = <<UpgradeRequest>>
  <2>1. Upgrades(UpgradeRequest.headers)
    BY DEF WsClient
  <2> QED
    BY <1>4, <2>1
<1>5. CASE sent = <<NoUpgrade, UpgradeRequest>>
  <2>1. Upgrades(UpgradeRequest.headers) /\ ~Upgrades(NoUpgrade.headers)
    BY DEF WsClient
  <2>2. sent \in Seq(M) /\ Len(sent) = 2 /\ sent[1] = NoUpgrade /\ sent[2] = UpgradeRequest
    BY <1>5
  <2>3. ASSUME NEW i \in 1..2, Upgrades(sent[i].headers) PROVE i = 2
    BY <2>1, <2>2, <2>3
  <2> QED
    BY <2>1, <2>2, <2>3
<1> QED
  BY <1>3, <1>4, <1>5 DEF WsInit

\* The invariant holds of every behaviour with such a client, whether parse is
\* given one HttpRequest for each request or a new one with each call.
THEOREM WsInvariance ==
    ASSUME WsClient
    PROVE  WsSpec => []WsInv
<1>1. WsInit => WsInv
  <2> SUFFICES ASSUME WsInit PROVE WsInv
    OBVIOUS
  <2>1. ParserInit /\ ws = "off" /\ received = << >>
    BY DEF WsInit
  <2>2. delivered = << >> /\ result = "none" /\ Len(delivered) = 0 /\ DOMAIN delivered = {}
    BY <2>1, EmptySeq DEF ParserInit
  <2>3. WsStream /\ sent \in Seq(AnyMessage) /\ tail \in Seq(Token) /\ Len(sent) \in Nat \ {0}
    BY WsInitIs
  <2>4. IInv /\ InStep
    BY <2>1, <2>3, InvStart, InStepStart
  <2>5. Stops /\ Own
    BY <2>2 DEF Stops, Own
  <2>6. HandedOn
    BY <2>2, <2>3, EmptySeq DEF HandedOn, LegalBefore, AllLeft
  <2> QED
    BY <2>1, <2>2, <2>3, <2>4, <2>5, <2>6 DEF WsInv
<1>2. WsInv /\ [WsNext]_wsVars => WsInv'
  <2> SUFFICES ASSUME WsInv, [WsNext]_wsVars PROVE WsInv'
    OBVIOUS
  <2>1. Len(Wire) \in Nat
    BY DataIs DEF WsInv
  <2>2. CASE Http
    <3>1. ASSUME NEW n \in 1..Len(Wire), Receive(n), ws = "off", UNCHANGED socket PROVE WsInv'
      BY <2>1, <3>1, HttpReceive
    <3>2. CASE Parse /\ ws = "off" /\ UNCHANGED socket
      BY <3>2, HttpParse
    <3>3. CASE ~Upgrades(request.headers) /\ Deliver /\ ws = "off" /\ UNCHANGED socket
      BY <3>3, HttpDeliver
    <3> QED
      BY <2>2, <3>1, <3>2, <3>3 DEF Http
  <2>3. CASE UpgradeToWebSocket
    BY <2>3, UpgradeStep
  <2>4. ASSUME NEW n \in 1..Len(Wire), ReceiveFrames(n) PROVE WsInv'
    BY <2>1, <2>4, FramesReceive
  <2>5. CASE FrameIncomplete \/ FrameThrows \/ FrameComplete
    BY <2>5, FrameWaits, FrameRefused, FrameTaken
  <2>6. ASSUME NEW p, SendMessage(p) PROVE WsInv'
    BY <2>6, WsSame DEF SendMessage
  <2>7. CASE WsFinished
    <3>1. UNCHANGED <<vars, socket>>
      BY <2>7 DEF WsFinished, Finished
    <3> QED
      BY <3>1, WsSame
  <2>8. CASE UNCHANGED wsVars
    BY <2>8, WsSame DEF wsVars
  <2> QED
    BY <2>2, <2>3, <2>4, <2>5, <2>6, <2>7, <2>8 DEF WsNext
<1> QED
  BY <1>1, <1>2, PTL DEF WsSpec

\* parseWebSocketFrame and handleClientData: however the stream is cut, and whatever
\* came in one read with the upgrade request, the frames read are those that were
\* sent, in order and unmasked, the parser answers Incomplete only while the next
\* frame is not all there, and the connection is closed only on Close or on a claim
\* that no string can hold.
THEOREM FramesRightHolds ==
    ASSUME WsClient
    PROVE  WsSpec => []FramesRight
<1>1. WsInv => FramesRight
  <2> SUFFICES ASSUME WsInv PROVE FramesRight
    OBVIOUS
  <2>1. CASE ws = "off"
    <3>1. received = << >> /\ DOMAIN received = {}
      BY <2>1, EmptySeq DEF WsInv
    <3> QED
      BY <2>1, <3>1 DEF FramesRight
  <2>2. CASE ws # "off"
    BY <2>2 DEF WsInv, Reading
  <2> QED
    BY <2>1, <2>2
<1> QED
  BY <1>1, WsInvariance, PTL

\* What holds of the parser on a stream of requests holds on one that leaves HTTP:
\* the bytes behind the upgrade are never taken for a request, also when the server
\* has lost the headers that ask for it, nothing of one request is handed on with
\* another, no limit is passed and consumed_ stays within the buffer while frames
\* are taken off it.  With one HttpRequest for each message, the requests are
\* complete and none is refused or waited for in vain.
THEOREM StreamSafe ==
    ASSUME WsClient
    PROVE  WsSpec => [](/\ TypeOK /\ MemoryBounded /\ NothingMixed
                        /\ ~FreshRequest => FragmentSafe /\ LegalGetsThrough)
<1>1. WsInv => TypeOK /\ MemoryBounded
  BY DEF WsInv, IInv, Typed, Bounded
<1>2. WsInv => NothingMixed /\ (~FreshRequest => FragmentSafe)
  <2> SUFFICES ASSUME WsInv, NEW i \in DOMAIN delivered
               PROVE  /\ i \in DOMAIN sent /\ Legal(sent[i]) /\ LeftOf(delivered[i], sent[i])
                      /\ ~FreshRequest => delivered[i] = Meaning(sent[i])
    BY DEF NothingMixed, FragmentSafe
  <2>1. HandedOn
    BY DEF WsInv
  <2>2. DOMAIN delivered = 1..Len(delivered) /\ Len(delivered) \in Nat
    BY <2>1, LenProperties DEF HandedOn
  <2>3. LegalBefore(i)
    BY <2>1, <2>2 DEF HandedOn, LegalBefore
  <2>4. i \in DOMAIN sent /\ Legal(sent[i])
    BY <2>1, <2>2 DEF HandedOn, LegalBefore
  <2> QED
    BY <2>1, <2>3, <2>4 DEF HandedOn, AllLeft
<1>3. WsInv /\ ~FreshRequest => LegalGetsThrough
  <2> SUFFICES ASSUME WsInv, ~FreshRequest PROVE LegalGetsThrough
    OBVIOUS
  <2>1. CASE result = "none"
    BY <2>1 DEF LegalGetsThrough, LegalAccepted, WholeIsComplete
  <2>2. CASE result # "none"
    <3>1. ws = "off" /\ Len(delivered) # Len(sent)
      BY <2>2 DEF WsInv, Reading, Over
    <3>2. Len(delivered) < Len(sent)
      <4>1. Len(sent) \in Nat /\ Len(delivered) \in Nat /\ Len(delivered) <= Len(sent)
        BY LenProperties DEF WsInv, HandedOn, IInv, Typed
      <4> QED
        BY <3>1, <4>1
    <3> QED
      BY <3>1, <3>2, InStepGetsThrough DEF WsInv, HandedOn
  <2> QED
    BY <2>1, <2>2
<1> QED
  BY <1>1, <1>2, <1>3, WsInvariance, PTL
============================================================================
