------------------------------- MODULE Router -------------------------------
(***************************************************************************)
(* http::Router::handle with its middleware (src/http/Router.cpp,          *)
(* src/middlewares/): requests are routed at the same time on the pool's   *)
(* threads; the routing table is fixed by then, and what the requests      *)
(* share is the rate limiter's counters in Redis.                          *)
(*                                                                         *)
(* A path is the sequence of the segments its slashes separate: "/a//x" is *)
(* <<"a", "", "x">> and "/s/" is <<"s", "">>.                              *)
(***************************************************************************)
EXTENDS Integers, Sequences, FiniteSets, FiniteSetsExt

CONSTANTS
    Requests,      \* requests, each handled once
    Methods, Paths, Clients,  \* what they ask for, and X-Forwarded-For
    Tables,        \* the routing tables: sequences of [method, path, isPrefix, middlewares]
    Globals,       \* global_middlewares_, a sequence of "log" and "limit"
    ParamNames,    \* segments that start with ':'
    Colons,        \* segments with a ':' in them
    DotDots,       \* segments with ".." in them
    LoginPath,     \* the path that the rate limiter watches
    MaxRequests,   \* max_requests
    RedisMayFail   \* a Redis call may throw

ASSUME RequestsFinite == IsFiniteSet(Requests)
ASSUME PathsAreSegments == Paths \subseteq Seq(STRING)
ASSUME TablesAreRoutes ==
    Tables \subseteq Seq([method : STRING, path : Seq(STRING), isPrefix : BOOLEAN, middlewares : Seq(STRING)])
ASSUME MaxRequestsPositive == MaxRequests \in Nat \ {0}
ASSUME NamesHaveColons == ParamNames \subseteq Colons
ASSUME GlobalsKnown == \A i \in 1..Len(Globals) : Globals[i] \in {"log", "limit"}
ASSUME RedisMayFailBool == RedisMayFail \in BOOLEAN

VARIABLES
    routes,   \* routes_
    job,      \* per request: pc, the request, the loop variables of handle, the response
              \* status, "by": the route whose handler was called, "count": what
              \* incr returned, "window": when
    redis     \* per client: count, expires (a time to live is set), window (how many
              \* there were before), lost (history: Redis failed on the calls that
              \* create the key, and nobody is left to give it a time to live)

vars == <<routes, job, redis>>

NoParams == [n \in {} |-> ""]

Init ==
    /\ routes \in Tables
    /\ job = [r \in Requests |->
           [pc |-> "idle", method |-> "", path |-> << >>, client |-> "", token |-> FALSE,
            i |-> 1, j |-> 1, pathFound |-> FALSE, params |-> NoParams, status |-> 200,
            by |-> 0, count |-> 0, window |-> 0]]
    /\ redis = [c \in Clients |-> [count |-> 0, expires |-> FALSE, window |-> 0, lost |-> FALSE]]

----------------------------------------------------------------------------
(* Paths *)

\* splitPath: segment after segment is kept unless it is empty.
SplitPath(path) ==
    LET kept[k \in 0..Len(path)] ==
            IF k = 0 THEN << >>
            ELSE IF path[k] # "" THEN Append(kept[k - 1], path[k]) ELSE kept[k - 1]
    IN  kept[Len(path)]

\* Fault: segments beyond the pattern's last are ignored.
MatchDynamicPathShort(pattern, path) ==
    LET ps == SplitPath(pattern)
        ss == SplitPath(path)
    IN  \/ pattern = path
        \/ /\ \E k \in 1..Len(pattern) : pattern[k] \in Colons
           /\ Len(ps) <= Len(ss)
           /\ \A k \in 1..Len(ps) : ps[k] \in ParamNames \/ ps[k] = ss[k]

\* The path itself, or, when the pattern has a ':' anywhere, as many segments,
\* equal where the pattern has no parameter.
MatchDynamicPath(pattern, path) ==
    LET ps == SplitPath(pattern)
        ss == SplitPath(path)
    IN  \/ pattern = path
        \/ /\ \E k \in 1..Len(pattern) : pattern[k] \in Colons
           /\ Len(ps) = Len(ss)
           /\ \A k \in 1..Len(ps) : ps[k] \in ParamNames \/ ps[k] = ss[k]

\* Fault: the parameters of an earlier route are kept.
SetParamsKeeping(params, pattern, path) ==
    LET ps == SplitPath(pattern)
        places(n) == {k \in 1..Len(ps) : ps[k] = n}
        names == IF pattern = path THEN {} ELSE {n \in ParamNames : places(n) # {}}
    IN  [n \in DOMAIN params \cup names |->
            IF n \in DOMAIN params THEN params[n] ELSE SplitPath(path)[Max(places(n))]]

\* setParam for each parameter of a pattern that matched, over what is there.
SetParams(params, pattern, path) ==
    LET ps == SplitPath(pattern)
        places(n) == {k \in 1..Len(ps) : ps[k] = n}
        names == IF pattern = path THEN {} ELSE {n \in ParamNames : places(n) # {}}
    IN  [n \in DOMAIN params \cup names |->
            IF n \in names THEN SplitPath(path)[Max(places(n))] ELSE params[n]]

\* path().rfind(mountPoint, 0) == 0, where a mount point ends with a slash.
MatchPrefix(mount, path) ==
    /\ Len(path) >= Len(mount)
    /\ \A k \in 1..(Len(mount) - 1) : path[k] = mount[k]

Matches(route, path) ==
    IF route.isPrefix THEN MatchPrefix(route.path, path) ELSE MatchDynamicPath(route.path, path)

\* What is left of the path below the mount point.
RelativePath(mount, path) == SubSeq(path, Len(mount), Len(path))

----------------------------------------------------------------------------
(* Requests, and the global middlewares *)

Arrive(r, method, path, client, token) ==
    /\ job[r].pc = "idle"
    /\ job' = [job EXCEPT ![r] = [@ EXCEPT !.pc = "global", !.method = method, !.path = path,
                                              !.client = client, !.token = token]]
    /\ UNCHANGED <<routes, redis>>

\* A middleware of the list has returned true.
Passed(r) == job' = [job EXCEPT ![r] = [@ EXCEPT !.pc = "global", !.j = job[r].j + 1]]

\* The response is returned with this status.
Respond(r, status) == job' = [job EXCEPT ![r] = [@ EXCEPT !.pc = "done", !.status = status]]

\* Logging passes everything, and so does the limiter off its path.
RunGlobal(r) ==
    /\ job[r].pc = "global" /\ job[r].j <= Len(Globals)
    /\ IF Globals[job[r].j] = "limit" /\ job[r].path = LoginPath
       THEN job' = [job EXCEPT ![r].pc = "incr"]
       ELSE Passed(r)
    /\ UNCHANGED <<routes, redis>>

GlobalsDone(r) ==
    /\ job[r].pc = "global" /\ job[r].j > Len(Globals)
    /\ job' = [job EXCEPT ![r].pc = "scan"]
    /\ UNCHANGED <<routes, redis>>

----------------------------------------------------------------------------
(* The rate limiter *)

\* Fault: the time to live is set when the limit is passed, not at the start.
IncrExpiresLate(r) ==
    LET c == job[r].client
        n == redis[c].count + 1
    IN  /\ job[r].pc = "incr"
        /\ redis' = [redis EXCEPT ![c].count = n]
        /\ job' = [job EXCEPT ![r] = [@ EXCEPT !.pc = IF n > MaxRequests THEN "expire" ELSE "compare",
                                           !.count = n, !.window = redis[c].window]]
        /\ UNCHANGED routes

\* INCR, which is atomic and creates the key; the first one goes on to expire.
Incr(r) ==
    LET c == job[r].client
        n == redis[c].count + 1
    IN  /\ job[r].pc = "incr"
        /\ redis' = [redis EXCEPT ![c].count = n]
        /\ job' = [job EXCEPT ![r] = [@ EXCEPT !.pc = IF n = 1 THEN "expire" ELSE "compare",
                                           !.count = n, !.window = redis[c].window]]
        /\ UNCHANGED routes

SetExpire(r) ==
    /\ job[r].pc = "expire"
    /\ redis' = [redis EXCEPT ![job[r].client].expires = TRUE]
    /\ job' = [job EXCEPT ![r].pc = "compare"]
    /\ UNCHANGED routes

\* A Redis error is caught and the request let through. The call that throws may
\* have been carried out all the same, its reply being what was lost: who has
\* created the key then does not know, and does not go on to expire.
RedisFails(r) ==
    LET c == job[r].client
    IN  /\ RedisMayFail
        /\ \/ job[r].pc = "incr" /\ UNCHANGED redis
           \/ /\ job[r].pc = "incr"
              /\ redis' = [redis EXCEPT ![c] = [@ EXCEPT !.count = redis[c].count + 1,
                                                         !.lost = IF redis[c].count = 0 THEN TRUE ELSE redis[c].lost]]
           \/ job[r].pc = "expire" /\ redis' = [redis EXCEPT ![c].lost = TRUE]
           \/ job[r].pc = "expire" /\ redis' = [redis EXCEPT ![c].expires = TRUE]
        /\ Passed(r)
        /\ UNCHANGED routes

\* Fault: one too many.
OverLimitLate(count) == count > MaxRequests + 1

OverLimit(count) == count > MaxRequests

Compare(r) ==
    /\ job[r].pc = "compare"
    /\ IF OverLimit(job[r].count) THEN Respond(r, 429) ELSE Passed(r)
    /\ UNCHANGED <<routes, redis>>

\* The time to live is over and Redis drops the key.
Elapse(c) ==
    /\ redis[c].count > 0 /\ redis[c].expires
    /\ redis' = [redis EXCEPT ![c] = [@ EXCEPT !.count = 0, !.expires = FALSE, !.window = redis[c].window + 1]]
    /\ UNCHANGED <<routes, job>>

----------------------------------------------------------------------------
(* The loop over routes_ *)

Route(r) == routes[job[r].i]

\* The parameters after matchDynamicPath has matched.
ParamsAfter(r) ==
    IF Route(r).isPrefix THEN job[r].params ELSE SetParams(job[r].params, Route(r).path, job[r].path)

Scanning(r) == job[r].pc = "scan" /\ job[r].i <= Len(routes)

ScanNoMatch(r) ==
    /\ Scanning(r) /\ ~Matches(Route(r), job[r].path)
    /\ job' = [job EXCEPT ![r].i = @ + 1]
    /\ UNCHANGED <<routes, redis>>

\* The parameters are set also when the method is another one.
ScanOtherMethod(r) ==
    /\ Scanning(r) /\ Matches(Route(r), job[r].path) /\ Route(r).method # job[r].method
    /\ job' = [job EXCEPT ![r] = [@ EXCEPT !.i = job[r].i + 1, !.pathFound = TRUE, !.params = ParamsAfter(r)]]
    /\ UNCHANGED <<routes, redis>>

ScanFound(r) ==
    /\ Scanning(r) /\ Matches(Route(r), job[r].path) /\ Route(r).method = job[r].method
    /\ job' = [job EXCEPT ![r] = [@ EXCEPT !.pc = "guard", !.j = 1, !.pathFound = TRUE,
                                       !.params = ParamsAfter(r)]]
    /\ UNCHANGED <<routes, redis>>

\* No route left: 405 when some route has the path, else 404.
ScanEnd(r) ==
    /\ job[r].pc = "scan" /\ job[r].i > Len(routes)
    /\ Respond(r, IF job[r].pathFound THEN 405 ELSE 404)
    /\ UNCHANGED <<routes, redis>>

\* Fault: a request without a token is answered 401 and goes on.
RunGuardGoesOn(r) ==
    /\ job[r].pc = "guard" /\ job[r].j <= Len(Route(r).middlewares)
    /\ job' = [job EXCEPT ![r].j = @ + 1]
    /\ UNCHANGED <<routes, redis>>

\* A route's own middlewares: requireAuth, which wants a valid token.
RunGuard(r) ==
    /\ job[r].pc = "guard" /\ job[r].j <= Len(Route(r).middlewares)
    /\ IF job[r].token THEN job' = [job EXCEPT ![r].j = @ + 1] ELSE Respond(r, 401)
    /\ UNCHANGED <<routes, redis>>

\* What the handler answers: a file handler refuses ".." anywhere below the mount
\* point and else says what the file system says, which may throw (0: handle is
\* left and nothing is sent). "//etc/x" below "/" is an absolute path: the file
\* then looked for is not in the directory, with the same answers. An endpoint's
\* handler is the application's business.
Answers(route, path) ==
    CASE ~route.isPrefix -> {200}
      [] route.isPrefix /\ \E k \in 1..Len(RelativePath(route.path, path)) :
                               RelativePath(route.path, path)[k] \in DotDots -> {403}
      [] OTHER -> {200, 404, 500, 0}

CallHandler(r) ==
    /\ job[r].pc = "guard" /\ job[r].j > Len(Route(r).middlewares)
    /\ \E status \in Answers(Route(r), job[r].path) :
           job' = [job EXCEPT ![r] = [@ EXCEPT !.pc = "done", !.status = status, !.by = job[r].i]]
    /\ UNCHANGED <<routes, redis>>

----------------------------------------------------------------------------
Handle(r) ==
    \/ RunGlobal(r) \/ GlobalsDone(r)
    \/ Incr(r) \/ SetExpire(r) \/ RedisFails(r) \/ Compare(r)
    \/ ScanNoMatch(r) \/ ScanOtherMethod(r) \/ ScanFound(r) \/ ScanEnd(r)
    \/ RunGuard(r) \/ CallHandler(r)

Finished ==
    /\ \A r \in Requests : job[r].pc = "done"
    /\ UNCHANGED vars

Next ==
    \/ \E r \in Requests :
           \/ \E m \in Methods, p \in Paths, c \in Clients, t \in BOOLEAN : Arrive(r, m, p, c, t)
           \/ Handle(r)
    \/ \E c \in Clients : Elapse(c)
    \/ Finished

Spec == Init /\ [][Next]_vars

\* The pool's threads run and time passes; nobody has to send a request.
Fairness ==
    /\ \A r \in Requests : WF_vars(Handle(r))
    /\ \A c \in Clients : WF_vars(Elapse(c))

FairSpec == Spec /\ Fairness

----------------------------------------------------------------------------
(* Properties *)

\* The path is the pattern with each parameter filled by one segment, taking
\* repeated and trailing slashes as one where the pattern has a ':'.
Stands(pattern, path) ==
    LET ps == SplitPath(pattern)
        ss == SplitPath(path)
    IN  IF \A k \in 1..Len(pattern) : pattern[k] \notin Colons
        THEN path = pattern
        ELSE /\ Len(ps) = Len(ss)
             /\ ss = [k \in 1..Len(ps) |-> IF ps[k] \in ParamNames THEN ss[k] ELSE ps[k]]

\* The routes that have the path, and those that have the method too.
Hits(r) ==
    {k \in 1..Len(routes) :
        IF routes[k].isPrefix THEN MatchPrefix(routes[k].path, job[r].path)
                              ELSE Stands(routes[k].path, job[r].path)}
Mine(r) == {k \in Hits(r) : routes[k].method = job[r].method}

\* Whatever the order of registration, a request is answered by the first route
\* that has its path and its method; 405 when only other methods have the path,
\* 404 when nothing has it.
RoutedRight ==
    \A r \in Requests : job[r].pc = "done" /\ job[r].status # 429 =>
        IF Mine(r) # {}
        THEN job[r].by = Min(Mine(r)) \/ (job[r].by = 0 /\ job[r].status = 401)
        ELSE job[r].by = 0 /\ job[r].status = IF Hits(r) # {} THEN 405 ELSE 404

\* Documentation/HTTP.md:9: "If all middleware returns `true`, the request is
\* passed to the primary endpoint handler": a guarded handler has only ever
\* seen requests with a token, and a watched one only requests the limiter let
\* through.
HandlersGuarded ==
    \A r \in Requests : job[r].by # 0 =>
        /\ routes[job[r].by].middlewares # << >> => job[r].token
        /\ job[r].path = LoginPath /\ (\E k \in 1..Len(Globals) : Globals[k] = "limit")
               => job[r].count <= MaxRequests

\* The handler finds every parameter of its own route, with the segment of its
\* own path, whatever an earlier route of another method has left behind. The
\* exception is the path that is the pattern to the letter ("/a/:id" itself):
\* matchDynamicPath has returned before it sets anything (Router.cpp:57).
ParamsRight ==
    \A r \in Requests : job[r].by # 0 =>
        LET route == routes[job[r].by]
            ps == SplitPath(route.path)
        IN  ~route.isPrefix /\ route.path # job[r].path =>
                \A k \in 1..Len(ps) : ps[k] \in ParamNames =>
                    /\ ps[k] \in DOMAIN job[r].params
                    /\ \E l \in k..Len(ps) :
                           ps[l] = ps[k] /\ job[r].params[ps[k]] = SplitPath(job[r].path)[l]

\* The requests of client c that its n-th window let through.
Admitted(c, n) ==
    {r \in Requests : /\ job[r].client = c /\ job[r].window = n /\ job[r].count > 0
                      /\ job[r].pc \notin {"expire", "compare"} /\ job[r].status # 429}

\* However the steps of concurrent requests interleave, a window lets at most
\* max_requests through of those that INCR gave a number; who gets a Redis error
\* instead passes uncounted.
WithinLimit ==
    \A c \in Clients, n \in 0..Cardinality(Requests) :
        Cardinality(Admitted(c, n)) <= MaxRequests

\* A counter that has no time to live yet will get one from the request that
\* created it: no client is locked out for good, unless Redis fails on one of the
\* two calls of that request, the INCR it carried out or the EXPIRE it did not.
KeyWillExpire ==
    \A c \in Clients : redis[c].count > 0 /\ ~redis[c].expires =>
        redis[c].lost \/ \E r \in Requests : job[r].pc = "expire" /\ job[r].client = c

\* Both, at every interleaving of INCR, EXPIRE, the comparison and the clock.
LimiterInv == WithinLimit /\ KeyWillExpire

\* The window ends, unless Redis failed on the calls that create the key.
WindowEnds ==
    \A c \in Clients : (redis[c].count > 0) ~> (redis[c].count = 0 \/ redis[c].lost)
============================================================================
