--------------------------- MODULE MCHttpParser ---------------------------
(* Small instances of HttpParser and WebSocketStream: limits of a few bytes, *)
(* and messages and frames at, below and above them.                        *)
EXTENDS WebSocketStream

Host == <<"Host", "h">>
ContentLength(n) == <<"Content-Length", n>>
Chunked == <<"Transfer-Encoding", "chunked">>
Gzip == <<"Transfer-Encoding", "gzip">>
Chunk(size, data) == [size |-> size, data |-> data]

Plain(line, headers, data) ==
    [line |-> line, headers |-> headers, body |-> data, chunked |-> FALSE, chunks |-> << >>,
     trailers |-> << >>]
InChunks(headers, pieces, trailers) ==
    [line |-> <<"GET">>, headers |-> headers, body |-> << >>, chunked |-> TRUE, chunks |-> pieces,
     trailers |-> trailers]

LegalMessages == {
    Plain(<<"GET", "pad">>, <<Host>>, << >>),
    Plain(<<"GET">>, <<ContentLength("2")>>, <<"x", "y">>),
    Plain(<<"GET">>, <<ContentLength("0"), ContentLength("0")>>, << >>),
    InChunks(<<Chunked>>, <<Chunk(<<"2">>, <<"x", "y">>), Chunk(<<"1", "pad">>, <<"z">>)>>, << >>),
    Plain(<<"GET">>, <<<<"Host", "">>>>, << >>),
    InChunks(<<Chunked>>, << >>, <<Host>>)}

\* The first decides, or counts as none.
AmbiguousMessages == {
    Plain(<<"GET">>, <<ContentLength(""), ContentLength("2")>>, <<"x", "y">>),
    InChunks(<<Chunked, Gzip>>, << >>, << >>)}

IllegalMessages == {
    Plain(<<"junk">>, <<Host>>, << >>),
    Plain(<<"GET", "pad", "pad", "pad", "pad">>, <<Host>>, << >>),
    Plain(<<"GET">>, <<<<"junk">>>>, << >>),
    Plain(<<"GET">>, <<Host, Host, Host, Host>>, << >>),
    Plain(<<"GET">>, <<Host, Host, Host, Host, Host>>, << >>),
    Plain(<<"GET">>, <<ContentLength("1"), ContentLength("2")>>, <<"x", "y">>),
    Plain(<<"GET">>, <<ContentLength("9")>>, <<"x">>),
    Plain(<<"GET">>, <<Gzip>>, << >>),
    InChunks(<<Chunked, ContentLength("0")>>, << >>, << >>),
    InChunks(<<Chunked>>, <<Chunk(<<"junk">>, <<"x">>)>>, << >>),
    InChunks(<<Chunked>>, <<Chunk(<<"1", "pad", "pad", "pad">>, <<"x">>)>>, << >>),
    InChunks(<<Chunked>>, <<Chunk(<<"1">>, <<"x", "x">>)>>, << >>),
    InChunks(<<Chunked>>, <<Chunk(<<"2">>, <<"x", "x">>), Chunk(<<"2">>, <<"y", "y">>)>>, << >>),
    InChunks(<<Chunked>>, << >>, <<<<"junk">>>>),
    InChunks(<<Chunked>>, << >>, <<Host, Host, Host, Host, Host>>)}

AllMessages == LegalMessages \cup IllegalMessages \cup AmbiguousMessages

Upgrade == <<"Upgrade", "websocket">>
Connection == <<"Connection", "Upgrade">>
WsKey == <<"Sec-WebSocket-Key", "k">>
WsRequest == Plain(<<"GET">>, <<Upgrade, Connection, WsKey>>, << >>)
Keyless == Plain(<<"GET">>, <<Upgrade, Connection>>, << >>)

\* Opcodes 1 and 3: a Text frame and a Ping; payloads of every form's bounds.
Text(form, masked, payload) ==
    [fin |-> TRUE, op |-> 1, form |-> form, masked |-> masked, claim |-> Len(payload), payload |-> payload]
Bytes(n) == [i \in 1..n |-> (i + 2) % BYTE]

WsFrames ==
    {Text(0, TRUE, Bytes(1)), Text(MIDDLE, TRUE, Bytes(7)), Text(LONG, TRUE, Bytes(8)),
     Text(MIDDLE, FALSE, Bytes(2)), [Text(0, TRUE, << >>) EXCEPT !.op = 2],
     [Text(0, TRUE, Bytes(1)) EXCEPT !.op = 3, !.fin = FALSE]}
    \cup {[Text(LONG, TRUE, << >>) EXCEPT !.claim = n] : n \in {30, 56, 62}}

WsKeyBytes == <<5, 0, 3, 6>>
WsPayloads == {Bytes(n) : n \in {0, 1, 2, 7, 8}}
============================================================================
