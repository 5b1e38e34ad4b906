# A verification of the C++ HTTP server

TLA+ models of the server in `src/`: its thread pool, its epoll connection
handling with the telemetry broadcaster, its HTTP/1.1 parser and WebSocket frames,
its HTTP/2 sessions, its router with the middleware, and the user endpoints on
MongoDB. TLC checks every module on small instances. TLAPS proves the safety
properties of the thread pool with its refinement, of the connection handling, the parser,
the WebSocket frames, the HTTP/2 sessions, the router and the user endpoints, for every
number of threads, connections and requests, every capacity and limit, every workload and
every fragmentation of a stream: every safety invariant that a passing run checks is also the statement
of a theorem, under the hypotheses given with it.

## The system

| Component (source) | State | Operations | What makes it correct |
|---|---|---|---|
| `ThreadPool` (`src/concurrency`) | ring of `CAPACITY` slots, `head_`, `tail_`, spinlock, two counting semaphores, `pending_tasks_`, `stop_` | `enqueue`, the worker loop, the destructor | a FIFO queue: nothing lost, overwritten or run twice; a full ring delays producers and nothing more; the destructor returns |
| `TcpServer`, `Worker` (`src/network`) | per epoll thread the map `active_connections_` from descriptors to connections; a global counter; `running_` | accept, event dispatch, `handleClientData`, disconnect, idle sweep, `stop` | one thread at a time in a connection; descriptors stay with their owner; nobody is left without a registration; answers in order |
| `Epoll`, `Socket` | one-shot registrations; ownership of a descriptor | add, modify, remove, wait; accept, close | as the kernel answers them |
| `ClientConnection` | TLS state, `readBuffer_`, parser, `is_websocket_`, `lastActivity_` | handshake, read, send, upgrade, consume | used by one thread at a time |
| the HTTP/2 half of it | nghttp2 session, `h2_streams_`, `h2_mutex_` | `processHttp2`, callbacks, `submitHttp2Response` | session used under the mutex; requests of different streams stay apart; requests are answered as long as workers and ring hold them |
| `HttpParser`, `ReadBuffer` | `state_`, `consumed_`, body and chunk counters | `parse`, `reset`, `append`, `consume` | the result does not depend on fragmentation; memory is bounded |
| `Router` | `routes_`, `global_middlewares_` | `handle`, `serveFiles`, `matchDynamicPath` | the first route with path and method answers; guards run before handlers; parameters are the route's own |
| `RateLimiter`, `AuthMiddleware` | a counter per client in Redis | INCR, EXPIRE, compare; verify a token | a window admits at most `max_requests`, and ends |
| `TelemetryBroadcaster` (`src/services`) | `clients_`: weak pointers to WebSocket connections; `mutex_`; `running_`; a thread | `addClient`, `start`, `stop`, `run` | forgets connections that are gone, keeps none open, ends when it is stopped |
| `UserController`, `UserRepository`, `User`, `MongoPool` | the collection `test_db.users`; the entries of the pool | create, login, list, get, update, delete | answers say what was done; no hash is exchanged for another; every request ends although entries are few |
| `JwtUtils`, `CryptoUtils` | none (a secret) | issue and verify tokens; hash and verify passwords | a token that verifies comes from a login |
| `App` | the routing table | set-up; start and stop of server and broadcaster | registered endpoints are reachable; `run` returns |
| `WebSocketUtils`, `SslManager`, `Logger`, `EnvParser` | none that the above depends on | wrappers of libraries | not modelled |

How they interact. Each epoll thread owns a `Worker` with its own listening
socket (`SO_REUSEPORT`) and map. A registration is one-shot
(`EPOLLONESHOT`): an event disarms it, and either the epoll thread re-arms it, or
it hands the request to the pool and the task re-arms it or closes the
descriptor at its end. That hand-over is the whole of the synchronisation
between the epoll thread and the pool for HTTP/1.1 and WebSocket connections; HTTP/2
connections have a mutex instead, because several tasks of one connection run at
the same time. Tasks call the router, the router the middleware, and the
middleware shares its counters with all other requests through Redis. The
broadcaster's thread writes to subscribed connections from outside all of this: it
neither takes part in the hand-over nor holds a lock that the others know. The user handlers
share the collection and nothing else; a command is atomic, but a list is read through a cursor that
others write between.

What is hard: the interleavings of producers, workers and the destructor at the
semaphores; the hand-over of a connection between two threads with a timeout, a
hang-up or `stop` in between; descriptor numbers the kernel reuses at once; state
that the parser keeps from call to call; waiting for the pool while a mutex is
held; two Redis calls that should be one, and a reply that is lost; a database that fails after the command
took effect, or is written to while a cursor is open; a weak pointer that is locked while the connection is being closed;
a length field that makes a sum wrap. The list with source lines is
`hazards` in `PROJECT.json`.

## Modules

| Module | Models |
|---|---|
| `TaskQueue` | the abstract FIFO queue of tasks: `Put`, `Take`, `Finish`, `Close` |
| `ThreadPool` | every statement of `enqueue`, of the worker loop and of the destructor that another thread can observe; implements `TaskQueue` |
| `ThreadPoolProofs` | its inductive invariant and theorems |
| `NatLemmas` | least and greatest members of sets of numbers, for the proofs of several modules |
| `TcpServer`, `MCTcpServer` | epoll threads, connections, kernel, pool tasks; the symmetry set |
| `TcpServerTypes`, `TcpServerProofs` | type correctness in every environment; the safety properties in a calm one |
| `Telemetry` | `TcpServer` together with the broadcaster and `App::run`'s order of starting and stopping |
| `HttpParser` | the parser, `readBuffer_` and the callers |
| `WebSocketStream`, `MCHttpParser` | `HttpParser` continued: the upgrade, and the frames read and written after it; the messages and frames that are sent |
| `HttpParserProofs` | theorems about both: bounds, requests whole and in order, frames read and written right |
| `Http2Session`, `MCHttp2`, `Http2SessionProofs` | sessions, mutex, bounded ring, pool workers, the end of a connection; theorems |
| `Router`, `MCRouter`, `RouterProofs` | routing and middleware; small tables; theorems |
| `Users`, `MCUsers`, `UsersProofs` | the user endpoints down to the database; requests of every kind; theorems |

Definitions under a comment "Fault:" are variants of the definition that follows
them; nothing in the specifications uses them, and each is the change that makes some property
fail. Where an action changes several fields of one record, it is written as one
`EXCEPT` inside another (`[f EXCEPT ![x] = [@ EXCEPT !.a = ..., !.b = ...]]`): the
prover does not translate several updates below one index faithfully.

### ThreadPool

`ppc`, `wpc` and `dpc` say where each producer, worker and the destructor is. An
action is one atomic operation of the code: acquire or release of a semaphore,
the spinlock's test-and-set, the write or read of a slot, the advance of an index
with the unlock, the change of `pending_tasks_`. `queue` and `finished` are
history: they follow what the ring holds and what has run, and are the abstract
state in the refinement to `TaskQueue` (`held` is `task`, `closed` is
`dpc = "done"`). The destructor begins only when no call of `enqueue`
is under way, and none begins after it: anything else would be a use of a dying object. `PendingExact` says
what `pending_tasks_` counts: it goes up before the call waits for a slot and down before the
task is run, so blocked calls are counted and running tasks are not, while
`Documentation/Concurrency.md` (lines 24 and 28) has it go up after the insertion and down after the
execution. The atomics are sequentially consistent in the
model; the spinlock's acquire and release order justifies it for the data they
guard.

### TcpServer

A connection (`conn[c]`) holds both ends: what the client has sent and the
`ClientConnection` object. `fdt` is the kernel's descriptor table, `reg` the epoll
registration of the open file, so that closing the last descriptor removes the
registration, as the kernel does; `accept` takes the lowest free number. A worker goes
through its loop: `Poll`, one action per event (`EventListen`, `EventHup`,
`EventOut`, `EventIn`), the handler (`Handshake…`, `Read…`, `Loop…`), the sweep, and
`Exit`. Tasks go through `TaskHandle`/`TaskHandleWs`/`TaskThrow`, `TaskSend`,
`TaskDecide`, then `TaskRearm`, `TaskClose` or `TaskDiscard`, and `TaskDrop`
releases the `shared_ptr`. A remove or modify that finds no registration throws;
where no `try` surrounds it the exception leaves the thread and `crashed` is set. A `send` of
the epoll thread that throws (the 400 and the 101) is caught, and the connection dropped
(`LoopSendThrows`). Every use of a number, by whichever thread, goes through `UseFd`, which notes
in `stray` that the kernel has given the number to somebody else.

Abstractions: a unit is a whole request or frame (the parser has its own module).
`send` is atomic. `lastActivity_` is an atomic flag `stale`; in the code it is an
unsynchronised time stamp. The pool is unbounded here: its bound matters only
where a lock is held, which is the HTTP/2 case. The `Worker` that a task refers to
after `stop` is a dead object in the code; the model lets the task go on with an
empty epoll set.

### Telemetry

`TcpServer` with four variables more: the list, the broadcaster's thread, its
`running_`, and the connections whose last record could not be written. An entry of `clients_`
is a connection and the number of the frame that subscribed it, since a client may subscribe
twice. `Alive` is what `weak_ptr::lock` finds out: some task or some Worker's map
still owns the connection. While the broadcaster writes it owns the connection too; that
`shared_ptr` is a member of `tasks` with number 0, so that closing waits for it
as it waits for tasks. `mutex_` is held from `Wake` to `ScanEnd`, and
`AddClient` waits for it. When the broadcaster is inside `SSL_write` while the epoll thread
or a task uses the same SSL object, or writes a new message over a record that is still pending,
the outcome is undefined or an error: `BroadcastThrows` is the failure on its side,
where nothing catches the exception and the process ends (`crashed`), and
`ReadDisturbed` the failure on the other side. The properties are stated up to `crashed`;
the hazard is listed with its lines.
`StopTelemetry` follows `App::run`: the server's threads have been joined first.

### HttpParser

The stream is a sequence of tokens, `CR` and `LF` being themselves and one token
standing for a word, a number or a method with its target, so that every limit can be
a small number and every cut of the stream is explored (`Receive(n)`). Positions
are kept as in the code: `base` is how much `readBuffer_` has consumed, `consumed`
is `consumed_`, and `Data`, `Remaining` are computed from them. Every handler is an
action that takes the parser from one state to the next, or returns. `Legal` and
`Meaning` state, independently of the handlers, which messages must be accepted and
what they mean. `parse` goes by the first framing header of a name, and
an empty `Content-Length` does not count when a second one comes
(`HttpParser.cpp:526`): such a message is `Ambiguous`, the code accepts it, and where it ends
is a matter of opinion. The parser's promises are made up to the first
of these (`Clear`). `FreshRequest` chooses the caller: `FALSE` is the caller of the
unit tests, that keeps one `HttpRequest`; `TRUE` is `handleClientData`, that makes one per call. For the
second, `FragmentSafe` fails, and what is left of it is `NothingMixed`: a part may be missing, and none is a
neighbour's (`LeftOf`).

### WebSocketStream

The same stream and buffer go on after the upgrade, so a frame may be in the buffer together with
the request, or be cut at any byte. Bytes are scaled: 8 values instead of 256, length fields of
1 and 2 bytes instead of 2 and 8, and `size_t` as wide as the longest of them; the
marks 126 and 127, the mask bit and the limit of `std::string` follow from that, and
so does everything that can go wrong with them. `Xor` works on the three bits of such a byte. `Whole` is the sequence of tests for more data, the last one
computed modulo the width: a claimed length close to the maximum makes the sum wrap and the
test pass, and what then stops the frame is `payload.resize`, which throws
(`FrameThrows`). A Text frame goes to the pool and ends the loop; what is left in
the buffer waits for the next event. `SendMessage` is `sendWebSocketMessage`.

### Http2Session

The epoll thread reads, takes `h2_mutex_`, and goes through the frames;
at `END_STREAM` it enqueues a task from within the callback, waiting for space with
the mutex held. A worker runs the handler, takes the mutex, submits the response and sends.
A request is the number of the stream whose HEADERS made it, or `Blank`, so that a mix-up of two
streams shows. nghttp2 is external: it calls the callbacks in order, and keeps what it could not
write; when the SSL connection is broken the send callback fails, nobody looks at the result, and the
response is lost (`failed`). The server's SETTINGS frame is stream 0 in `outbound`. A client in `Leavers`
may leave or send junk at any moment; the epoll thread then erases the
connection (`Drop`), and the object is destroyed when the last task lets go of it (`LetGo`).

### Router

`handle` step by step for concurrent requests: the global middlewares in order, the
scan of the table, the route's guards, the handler. A path is a sequence of
segments. INCR, EXPIRE and the comparison are separate steps, since other requests
act in between; any Redis call may throw, before or after Redis has carried it out, and the limiter
then lets the request through. When it was the INCR that made the key, or the EXPIRE, that went
wrong, the counter has no time to live and nobody comes to set one: `lost` records it, and
`LimiterInv` and `WindowEnds` say that this is the only way to such a
counter. The key's expiry is `Elapse`. A segment is a word: `ParamNames` are those that begin with a
colon, `Colons` those that have one anywhere (which is what makes a pattern dynamic), `DotDots` those
that contain `..`. The file system is external: a file handler refuses the last
and else answers what the file system says. The limit is a constant; the
application sets it to 100000, where the comment beside it in `App.cpp` says 5.

First match wins, and `App.cpp:20` registers the file mount at `/` before the
controllers: `GET /api/users` and `GET /api/users/:id` are answered by the file handler. The run has
such a mount among its routes.

### Users

A request goes through `RequireAuth`, the controller's checks (`Refuse`), the wait for an entry
of the `MongoPool`, one command of the database and the return. The command of a list opens a
cursor (`OpenCursor`), which then takes one document after the other (`CursorNext`) while other requests
write, until it is through, full or fails (`CursorEnd`, `CursorFails`); `view` is history, the documents that were
there at some time meanwhile and the users who stayed all the time. A
document is a function from fields to values, because `$set` adds fields and documents made
elsewhere may lack some; `Ill` is a value that is not a string, which `get_string`
throws on. Exceptions are followed to where they are caught: in the repository
(the answer says "not found" or holds the users read so far), in `createUser` (500), or nowhere, and
the task closes the connection (status 0). A command may fail before or after it took effect.
A token is its place in the sequence of those issued; the cryptography is represented by what it
promises. Lists are sorted by `_id` or not at all.

The keys of an update reach `$set` as they are, and there a dot is a path. `Dotted` gives the
keys that are paths, with the field they lead into: `SetFields` makes that field if it is
missing, and if it holds a string the database refuses the update (`Rejects`, `UpdateRejected`), as it or
`from_json` may refuse others (`MayReject`). The filter of `updateUser` takes out `password_hash`
and not `password_hash.x`: a user with a hash is safe, since the
update is refused (and answered 404, although he exists); one without gets a `password_hash` that is no
string, and is found neither by id nor at a login from then on. `HashKept` is what remains true.
Creating a user is not guarded: the lambda at `UserController.cpp:25` captures `requireAuth` and does
not call it, although a comment of the tests has a token pass it there.

## Runs

Passing runs:

| Run | Instance | Shows |
|---|---|---|
| `ThreadPool` | 2 producers of 3 tasks, 2 workers, 2 slots, destructor at any moment between calls of `enqueue` | mutual exclusion, slots never overwritten or read empty, exact accounting of slots, tokens and `pending_tasks_`, refinement of `TaskQueue`, every task runs while the pool lives, the destructor returns |
| `TcpServerSafety` | 2 epoll threads, 2 keep-alive clients that pipeline 2 requests, leave by FIN or reset, idle timeouts, 2 descriptors | as long as no task closes a descriptor, no exception ends a thread, descriptors are used by their owners, a connection is with one thread at a time and its registration armed only when nobody has it (`HandOver`), answers in order, counter, map and descriptor table agree (`BooksAgree`), nobody is forgotten |
| `TcpServerAdverse` | `Telemetry`: 1 epoll thread, the broadcaster, 1 client that sends any 3 units one at a time, throwing handlers, blocked writes, timeouts in the middle of a task, `stop` | the hand-over under all of these; every unit is served or the connection closed; a connection that got stuck is reaped; the broadcaster forgets dead connections; after `stop` all descriptors are closed, the tasks gone and the broadcaster joined |
| `HttpParser` | limits 3, 14, 3, 3, 3; every pair of messages of `AllMessages`, ambiguous ones included, or an upgrade with up to 2 frames, every fragmentation; 2 messages sent | up to the first ambiguous message, legal requests are delivered unchanged and in order, nothing else is; none is refused or waited for in vain; memory bounded before the upgrade; the frames read are the frames sent; messages of every length form read back |
| `Http2Session` | 1 connection whose client may leave or send junk, 2 streams of every shape or 4 plain ones, 2 workers, 1 slot | the session is used under the mutex and not after its end (`SessionSafe`), every stream's request is its own, every request of a connection that stays is answered unless more are unanswered than workers and ring hold (`AnsweredInCapacity`) |
| `Router` | 2 requests on every table of up to two overlapping routes, limit 1, Redis failing before or after a call took effect | first match wins, guards before handlers, parameters right, the window admits one and its key expires (`LimiterInv`), windows end, up to a lost reply |
| `Users` | 3 requests out of 15 kinds, collections with an ordinary user and one made by hand, or none; 2 entries in the pool; failing commands | answers are truthful, lists right although others write while the cursor is open, tokens come from logins, the hash and identity of a user stay (`HashKept`), every request ends |

Runs that find a disagreement between the code and what the repository says of it:

| Run | Property | What the run shows |
|---|---|---|
| `TcpServerClose` | `DescriptorsOwned` | the task for a `Connection: close` response calls `::close(client_fd)` while the `Socket` in the map keeps the number; the next accepted client gets it, and the first owner closes or re-arms it under the second |
| `TcpServerSweep` | `SweepSurvives` | after such a response the entry stays in `active_connections_` with a closed descriptor; when the sweep finds it idle, `epoll_.remove` throws, nothing catches it, and the process ends |
| `HttpParserServer` | `FragmentSafe` | with a new `HttpRequest` per call, a request in two reads loses what the first call stored |
| `Http2Backpressure` | `RequestsAnswered` | `enqueue` waits for space with `h2_mutex_` held, and the workers that would make space wait for the mutexes |
| `Http2Ssl` | `SslExclusive` | the epoll thread is in `SSL_read` without `h2_mutex_` while a worker holding it is in `SSL_write` on the same SSL object |

The steps are described in `findings` of `PROJECT.json`, with the
sentences of the documentation they disagree with. Four more findings go with passing runs, which
show what the code does where a document, a comment or a test says something else: what
`pending_tasks_` counts (`ThreadPool`), the file mount that hides `GET /api/users` (`Router`), keys with
dots and the unguarded creation of users (`Users`).

### Bounds

Two of everything that races (producers, workers, connections, requests), because
every property relates at most two threads to one resource, and few enough resources
(ring slots, descriptors) that waiting, reuse and wrap-around happen: three tasks per producer take the indices around a ring of two
several times. The HTTP parser's limits are the smallest at which messages below, at and above each
of them exist, with two messages so that one is parsed after the reset of the other.
Two WebSocket frames suffice to have one behind another in the buffer; the frames cover
the three length forms at and around their limits, the longest claim and the wrap.
Three requests in `Users` are a write, a login and a request with the token, or two that race and
a third that reads; two entries in the pool let one write while another's cursor is open, and make the third
wait. In `Http2Session` two workers and one slot hold three requests, and the fourth plain stream is
the one too many, with which `AnsweredInCapacity` promises nothing and the threads may end up waiting for
each other (hence no check for deadlock there); of streams with longer requests there are two, whose frames interleave.
`TcpServerSafety` restricts what clients send to keep-alive requests so that
two connections and two threads fit; `TcpServerAdverse` has the full alphabet and one
connection. The restriction leaves out of the first what `TcpServerClose` shows (with `close` units
descriptors do not stay with their owners) and `TcpServerSweep` (nor does the process), and one thing more: after a Ping the loop
re-arms and goes on, so that a Text frame in the same read goes to the pool with the
registration armed, and `HandOver` fails for clients that pipeline control frames before data frames.
`stop` is left out of the first too: it clears the maps without taking the connections off the counter, so `BooksAgree`
ends with it.
`TcpServerAdverse` has no pipelining, so that at most one unit of the client is under way and the order of answers
is no question there (`AnswersInOrder` is checked in the first run only):
a request that is already in `readBuffer_` when the task re-arms gets no event of its own,
and `EveryUnitServed` would not hold for it either. The loop has no branch for `EPOLLOUT`, so a
handshake that asked for it stays where it is; what the run shows is that the
idle sweep ends it (`IdleReaped`). `Legal` in `HttpParser` asks for at least one header and for
lines below the limits by the length of a delimiter: a request without headers, and
lines at the limit, are treated differently according to the fragmentation, and
are listed as hazards. The symmetry in `TcpServerSafety` permutes connections and
threads, which no definition tells apart; that run checks no liveness.

### Fairness

Weak fairness, of what the operating system's scheduler runs: in `ThreadPool` of each
producer's call once it has begun, each worker and the destructor; in
`Telemetry` of each epoll thread, the broadcaster and `main`; in `Http2Session` of each
thread; in `Router` of the handling of a request that has arrived and of the expiry of
a key with a time to live; in `Users` of the handling of a request that has arrived. In
`Telemetry` the tasks of the pool have strong fairness: a task that subscribes waits for
`mutex_`, which the broadcaster gives up for a second in every round, and the
scheduler lets it have the lock in one of those. The step in which a handler throws is not
among those the fairness is of (`PoolWork`): no task is rescued by failing. Nothing is owed by clients, the clock, the operator or a
producer that has not called. Elsewhere weak fairness is enough for locks and semaphores,
because the contenders are finitely many and every one makes finitely many calls.

## Proofs

Each proof module holds an inductive invariant, a lemma per action or per part of the
invariant, a theorem that the specification keeps the invariant (`Invariance`), and from it
the properties that the runs check. The constants are arbitrary, up to the named
assumptions of the modules, which TLC evaluates in the runs.

| Module | Theorems (`Spec => []...`) |
|---|---|
| `ThreadPoolProofs` | `TypeCorrect` (`TypeOK`), `LockExcludes` (`MutualExclusion`), `SlotsSafe` (`SlotDiscipline`), `NothingLost` (`Accounting`), `PoolImplementsQueue` (`Spec => ImplementsTaskQueue`) |
| `TcpServerTypes` | `TypeCorrect` (`TypeOK`), in every environment |
| `TcpServerProofs` | `NoCrashHolds`, `DescriptorsOwnedHolds`, `HandOverHolds`, `AnswersInOrderHolds`, `BooksAgreeHolds`, `NobodyForgottenHolds`, in a calm environment |
| `Http2SessionProofs` | `TypeCorrect` (`TypeOK`), `SessionSafeHolds`, `RequestIntactHolds` |
| `RouterProofs` | `RoutedRightHolds`, `HandlersGuardedHolds`, `ParamsRightHolds`, `LimiterInvHolds` |
| `UsersProofs` | `AnswersTruthfulHolds`, `ListsRightHolds`, `LoginSoundHolds`, and the action property `HashKeptHolds` |
| `HttpParserProofs` | `TypeCorrect` (`TypeOK`), `MemoryBoundedHolds`, `StaysInStep` (`InStep`), `StopsInHead` (`Stops`), `StaysOwn` (`Own`, `AllLeft`), `FragmentSafeHolds` (`NothingMixed`, and `FragmentSafe` with one `HttpRequest` per message), `LegalGetsThroughHolds`; of `WsSpec`: `MessagesDecodeHolds`, `WsInvariance` (`WsInv`), `FramesRightHolds`, `StreamSafe` (the parser's properties) |

### ThreadPool

Assumed: `ThreadsFinite`, `CapacityPositive`, `MaxTasksNat`, `NoTaskIsNone`.

The inductive invariant `IInv` is the conjunction of `TypeOK`, `CallBegun`,
`MutualExclusion`, `SpaceConserved`, `TokensConserved`, `PendingExact`,
`ShutdownBalance` and `RingContents`. `SlotDiscipline` is not inductive: that the slot at
`tail` is free when a producer writes follows from where the queue lies in the
ring (`RingContents`) and from the number of admitted producers and free slots
adding up to `CAPACITY` (`SpaceConserved`); that the slot at `head` is full when a
worker takes follows from `TokensConserved` as long as all tokens stand for tasks.
The destructor's tokens do not, and `ShutdownBalance` covers that: they are released
only after `stop_` is set, and the workers that passed the check before still have a
task each (`Committed <= Len(queue)`). The counts are cardinalities of sets of threads at given
places; a few lemmas say how they change when one thread moves, and each
action's proof cites them. For the refinement a second invariant relates a task in
hand to the place of its worker.

### TcpServer

Assumed: `EnoughDescriptors`, `WorkersFinite`, `EnvironmentOK`. `EnoughDescriptors` says that
there are at least as many descriptor numbers as connections: `accept` does not run out.

`TcpServerTypes` needs no more than that. Its invariant is `TypeInv` (an open file belongs to the connection that
was accepted with it, a handler's connection is in the map, every entry of a map has been
counted) with `ConnFlags` and `ProcessFlags`, which keep the Boolean fields apart from the
rest because no one of the provers handles both.

`TcpServerProofs` assumes a calm environment in addition:

    Calm == no "close" and no "ping" in ClientUnits, Timeouts # "any",
            ~HandlerMayThrow, ~MayStop

It covers any number of epoll threads, connections, descriptors and units, pipelining, malformed requests,
upgrades, data and close frames, resets, failed and blocked handshakes and idle
timeouts. Each of the exclusions is there because a property fails without it:
with `close` units a task closes the descriptor that the map still has (`DescriptorsOwned`, run `TcpServerClose`),
and so it does when a handler throws (the epoll thread's next `remove` finds nothing: `NoCrash`);
when the sweep erases a connection whose task takes longer than the timeout, the task's re-arming fails, it closes
the number, and the `Socket` closes it again (`DescriptorsOwned`); after a
Ping the loop goes on with the registration armed (`HandOver`); `stop` clears the maps and
not the counter (`BooksAgree`). `HandOver` holds outside `Calm` too for clients that
send one unit at a time; that is model-checked (`TcpServerAdverse`).

The invariant is `TypeInv /\ Life /\ Order`. `HandOver` is not inductive: whether a
step may arm a registration depends on where all the other holders of the connection are, events that
`epoll_wait` has returned and the loop has not looked at among them. `Life` says
for each of them what it holds: the map and the registrations agree
(`Mapped`); a task that is at work has the registration, alone (`Held`); so have an event in the batch
(`Batched`) and a handler (`Handled`); the connection that has just been accepted is known
to nobody else (`Pending`); what the sweep has collected stays idle until it is
erased (`Swept`); every open file is in a map, pending or with a task, and the counter is
the number of entries (`Known`). With these, `Quiet` (no exception,
no use of a descriptor by anybody but its owner) is inductive. `Order` is `Numbered`, that answered units, the one with a
task, the buffer and the socket hold the numbers 1, 2, ... in this order, and `Upgrading`,
that frames follow the upgrade, so that the loop never takes a request for a frame.
`NobodyForgotten` needs `Heard` in addition (a disarmed registration is with an event, a
handler or a task), and `~WriteMayBlock`: a handshake that waits for `EPOLLOUT` is woken, and
nothing in the loop answers to that.

### Http2Session

Assumed: `PoolPositive`, `WorkloadsKnown`, `LeaversAreConns`, `NobodyIsNobody`, `ThreadsApart`, `StreamsPositive`.

The invariant is `TypeInv`, `Locking` (who is inside a session has its mutex), `Owning` (an epoll
thread works on connections of its own that the map still has), `Dying` (a destroyed
connection has been erased and no task has it), `Delivery` and `Wholeness`. `SessionSafe` follows from the first four.
`RequestIntact` speaks of the moment of handling only; what makes it true is the
order of frames before that: `Delivery` says that nghttp2 has seen the first `d` frames of every stream, that the
rest are in the buffers in order, whatever frames of other streams are between them, and
that `h2_streams_` agrees with `d`; `Wholeness` carries the complete request
from the callback through the ring and the worker to the router.

### Router

Assumed: `RequestsFinite`, `PathsAreSegments`, `TablesAreRoutes`, `NamesHaveColons`, `MaxRequestsPositive`, `GlobalsKnown`, `RedisMayFailBool`.

The invariant is `TypeInv`, `Counting`, `Limited`, `KeyWillExpire`, `Searching`, `Guarding`, `Binding` and
`RoutedRight`. The limiter: no two requests of one window got the same number from INCR (`Counting`), and
who got past the comparison has one within the limit (`Limited`); so they are at most as many as
there are numbers. An INCR that took effect and threw has used up its number. The search: the routes before the one at hand do not answer
(`Searching`). `matchDynamicPath` is compared with its reference definition for all patterns and paths;
the loop of `splitPath` is a recursive function.

### Users

Assumed: `PoolSizePositive`, `AsksKnown`, `DbMayFailBool`, `PagesAreNumbers`, `CollectionsInOrder`.

The invariant says of the collection that ids ascend (`Collection`) and that no two requests have made the same user
(`MadeOnce`), of every request what it may
have found at the point where it is (`Fresh`, `Ran`, `Verifying`, `Carried`, `Truthful`,
`Listed`) and of every token that it was issued for the password of the user it names
(`Tokens`). The history variable `ever` keeps every version of every document: an answer is about a document as it was when
the command ran, and others may have changed or deleted it since. For the lists, `Seen` says what `view` knows
of the collection while the cursor is open, and `Looking` where the cursor is: what it has
passed is in order, and everybody who stayed is among that or behind it (`Passed`); when it is left, it is full, has failed,
has met a document it cannot read, or has nobody left to come to (`Ended`). From that the rows of the
answer, which are what it passed without the first `skip`, are right (`RowsRight`), for all values of skip and
limit, negative ones too.

### HttpParser

Assumed: `LimitsPositive`, `FreshRequestBool`, `MaxMessagesNat`, `MessagesSpelt`.

The first two theorems are for every set of messages, sent in any order and cut anywhere, with either
caller. `MemoryBounded` needs the length of a plain body to be within the limit from the headers on, and the
assembled body together with what is missing of the current chunk (`Bounded`); `TypeOK` needs that a
delimiter that was found lies in the buffer with its last byte (`FindCrlf`, `FindBlank`).

`FragmentSafe` and `LegalGetsThrough` speak of what parse returns, and need to know where in the message it is
before that. `InStep` says so: while the messages handed on are legal, `base` is where the next one begins,
and if that one is legal, `state` tells how much of it `consumed` covers (its line, its
headers, the first `k` chunks with what was read of the next, the trailers), that no call has
failed, and, with one `HttpRequest` per message, that what has been stored is what these
parts mean. A handler's search for a delimiter in what has arrived finds the end of the line
or of the block and nothing before or behind it, because the lines have no break in
them (`Unbroken`); when it finds none, what has arrived is shorter than the part, so that
the limit it is compared with is not passed. `StaysInStep` is this, for all messages, legal or not, and both
callers. It says nothing of a message that is not legal; for one whose request line or
header block is at fault `Stops` does: the parser never leaves its head. So

    Client == every message is Legal, or Ambiguous, or Refused: its line is not of the grammar or
              too long, or its header block is too long, malformed or contradicts itself about the body

is the hypothesis of both theorems, which promise something up to the first ambiguous message. Both cover both callers:
`LegalGetsThroughHolds` as it stands, since with a new `HttpRequest` per call the parser loses what it
had stored and still finds the end of every message; `FragmentSafeHolds` with `FragmentSafe` for one `HttpRequest`
per message, and with `NothingMixed` for the server's caller too, for whom `FragmentSafe` does not hold (run `HttpParserServer`). The
invariant for the latter is `Own`: what has been stored so far is of the message at hand, or missing.
`Client` is true of all legal and ambiguous messages
of the run and of nine of its fifteen illegal ones. The other six are at fault in a
chunk or a trailer, and only the run covers them. A message exactly at a limit is neither `Legal` nor
`Refused`: whether it is accepted depends on the cut.

The proof found three conditions that `Legal` has to state and that the messages of the run met by
accident: lines have no break in them, a chunk's size line is not empty, and
`MAX_CHUNK_LINE_SIZE` leaves room for the last one, `0`.

### WebSocketStream

Assumed in addition: `KeyBytes`, `BoundsNat`, `UpgradeSpelt`, `PayloadsFit`, `FramesFit`. The scale of the bytes (8 values, fields of
one and two) is fixed; the key, the payloads, the frames and their number are not.

Both properties rest on `FrameReads`: when a frame is at the head of the buffer, with whatever behind
it, or when a part of it is all there is, what `HeaderLen`, `PayloadLen`, `Whole` and
`Decode` say of the buffer is what was written. It needs that `Octet` and `Value` are inverse,
that big-endian fields read back, that `Xor` with the same byte twice is the identity, and for
`Whole` that the sum of the lengths does not wrap unless the claim is more than a string can hold.

`MessagesDecodeHolds` has no further hypothesis. Its invariant `Written` says that each
entry of `out` is the frame of the payload in `messages`; `ServerFrameIs` that the form chosen is one that holds the length.

`FramesRightHolds` is for these clients, and for both callers:

    WsClient == every message, the upgrade included, is Legal or Refused (none is Ambiguous); UpgradeRequest asks for the upgrade and
                no other does; every frame brings what it claims, or claims more than a string can hold,
                or more than everything the client sends would fill

A frame that claims more than it brings, with enough behind it, is taken together with what follows: there
is no end of a frame but its length. The messages and frames of the run satisfy `WsClient`, up to the six
messages above and the ambiguous ones. `FramesRight` is not inductive: `WsInv` adds that `readBuffer_` begins with the first frame that
has not been read (`Reading`) and, before the upgrade, that the parser is in step
(`InStep`, `Stops`) and has no header of another request (`Own`): only the request that asks
for the upgrade starts it. What `FramesRight` says of waiting is about `parseWebSocketFrame`: it asks for more only
when no whole frame is there. After the upgrade and after a Text frame `handleClientData` returns without
calling it, and what is in the buffer waits for the next event. When `handleClientData`'s fresh `HttpRequest` has lost the
headers of the upgrade, the connection stays with HTTP and the frames are parsed as a request; they contain
no line break, and nothing is ever made of them (`Over`). `StreamSafe` carries the parser's own
properties over to this specification, the one that the run checks.

### How recursion is reasoned about

The prover has no induction over data. Recursive functions that are left (`splitPath`,
`LinesIn`, `FlattenSeq`) get their type and their step from a least
counterexample instead: if some index had no value of the right type, there would be a
least one (`NatLemmas!LeastOf`), and its predecessor has. `FromBytes` takes two steps at most: the
function with its values is given, and is the only one that solves the recursive equation.

### Only model-checked

- The liveness properties (`EveryTaskRuns`, `DestructorReturns`, `EveryUnitServed`, `ShutsDown`, `IdleReaped`,
  `Pruned`, `AnsweredInCapacity`, `WindowEnds`, `EveryRequestEnds`): the prover handles neither fairness nor `ENABLED`.
- `FragmentSafe` for messages at fault in a chunk or a trailer, see above: the invariant would need a
  second account of where the parser is in a message, up to its fault.
- `HandOver` while the broadcaster writes too (`TelemetrySpec`), and outside `Calm`: the
  theorems are about `TcpServer`'s own specification.

The other way round, `NothingMixed` for the server's caller is proved and no run checks it.

## Not modelled

- `WebSocketUtils`: one pure function (SHA-1 and Base64 of the key). `SslManager`, `Logger`,
  `EnvParser`, the signal handler and the configuration in `App`: start-up and output.
- The cryptography of `JwtUtils` and `CryptoUtils`, nghttp2, Redis, MongoDB and the file system: they are
  external, modelled by what the code relies on.
- Serialisation of responses, percent-decoding, the splitting of query strings and the
  numbers that the broadcaster sends. Sorting of users by other fields than `_id`.
- The part of a response that `send` drops when the kernel's buffer is full: the rest of the connection
  goes on as if it had been written, and no state of the program records it.
- Bodies of HTTP/2 requests: the code registers no callback that would store them.
- Data races inside OpenSSL beyond the outcome that a call fails.
- Creation and binding of the listening socket; a failing `accept` or `epoll_wait`; `total_requests_`.
- The order in which `App`'s members are destroyed after `run` has returned.

## Plan

Done, in this order: `ThreadPool` with `TaskQueue` and its proofs, `TcpServer`,
`HttpParser`, `Http2Session`, `Router`; then `Telemetry`, `WebSocketStream`, `Users`
and the end of HTTP/2 connections; then the proofs about `Router`, `Http2Session`, `Users`,
`TcpServer` and the bounds of `HttpParser`; then those about fragmentation and about
WebSocket frames.

Next, to prove:

1. `HandOver` beyond `Calm`: for clients that do not pipeline, with
   closing responses, throwing handlers and `stop`, as `TcpServerAdverse` checks it.
2. The same for `TelemetrySpec`: that the broadcaster's share of a connection leaves the
   invariant of `TcpServer` alone.
3. `Stops` for faults in chunks and trailers.
