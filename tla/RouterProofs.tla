---------------------------- MODULE RouterProofs ----------------------------
(***************************************************************************)
(* Proofs about Router for every routing table, every number of requests   *)
(* and clients, every list of global middlewares and every limit.          *)
(***************************************************************************)
EXTENDS Router, NatLemmas, FiniteSetTheorems, SequenceTheorems, TLAPS

(***************************************************************************)
(* The inductive invariant.                                                *)
(***************************************************************************)

Waiting == {"idle", "global", "incr", "expire", "compare"}

\* The variables are tables of records,
Shape ==
    /\ routes \in Tables
    /\ DOMAIN job = Requests
    /\ \A r \in Requests : DOMAIN job[r] =
           {"pc", "method", "path", "client", "token", "i", "j", "pathFound", "params", "status",
            "by", "count", "window"}
    /\ DOMAIN redis = Clients
    /\ \A c \in Clients : DOMAIN redis[c] = {"count", "expires", "window", "lost"}

\* and their fields have these types.
JobType(r) ==
    /\ job[r].pc \in Waiting \cup {"scan", "guard", "done"}
    /\ job[r].path \in Seq(STRING)
    /\ job[r].pc # "idle" => job[r].client \in Clients
    /\ job[r].i \in Nat \ {0} /\ job[r].j \in Nat \ {0}
    /\ job[r].status \in Nat /\ job[r].by \in Nat
    /\ job[r].count \in Nat /\ job[r].window \in Nat

TypeInv ==
    /\ Shape
    /\ \A r \in Requests : JobType(r)
    /\ \A c \in Clients : redis[c].count \in Nat /\ redis[c].window \in Nat

\* What INCR has returned is at most what the counter has reached in that
\* window, and no two requests of one window got the same number.
Counting ==
    /\ \A r \in Requests : job[r].count > 0 =>
           /\ job[r].client \in Clients
           /\ job[r].pc # "idle"
           /\ job[r].window <= redis[job[r].client].window
           /\ job[r].window = redis[job[r].client].window => job[r].count <= redis[job[r].client].count
    /\ \A r, q \in Requests :
           /\ r # q /\ job[r].count > 0 /\ job[q].count > 0
           /\ job[r].client = job[q].client /\ job[r].window = job[q].window
           => job[r].count # job[q].count

\* Who got past the limiter has a number within the limit.
Limited ==
    \A r \in Requests :
        /\ job[r].pc \notin {"expire", "compare"} /\ job[r].status # 429 => job[r].count <= MaxRequests
        /\ job[r].pc = "expire" => job[r].count = 1

\* The routes before the one at hand do not answer the request, and pathFound
\* remembers whether one of them had the path.
Searching ==
    \A r \in Requests :
        /\ job[r].pc \in Waiting => job[r].i = 1 /\ job[r].pathFound = FALSE
        /\ job[r].pc \in {"scan", "guard"} => \A k \in 1..(job[r].i - 1) : k \notin Mine(r)
        /\ job[r].pc = "scan" =>
               /\ job[r].i <= Len(routes) + 1
               /\ job[r].pathFound <=> \E k \in 1..(job[r].i - 1) : k \in Hits(r)
        /\ job[r].pc = "guard" => job[r].i \in Mine(r)
        /\ job[r].pc # "done" => job[r].by = 0 /\ job[r].status = 200
        /\ job[r].by # 0 => job[r].status # 429

\* The guards that have been passed wanted a token.
Guarding ==
    \A r \in Requests :
        /\ job[r].pc = "guard" /\ job[r].j > 1 => job[r].token
        /\ job[r].by # 0 /\ routes[job[r].by].middlewares # << >> => job[r].token

\* The parameters are those of route n, which may be behind a file mount or equal
\* to the path.
ParamsOf(r, n) ==
    LET route == routes[n]
        ps == SplitPath(route.path)
    IN  ~route.isPrefix /\ route.path # job[r].path =>
            \A k \in 1..Len(ps) : ps[k] \in ParamNames =>
                /\ ps[k] \in DOMAIN job[r].params
                /\ \E l \in k..Len(ps) :
                       ps[l] = ps[k] /\ job[r].params[ps[k]] = SplitPath(job[r].path)[l]

Binding ==
    \A r \in Requests :
        /\ job[r].pc = "guard" => ParamsOf(r, job[r].i)
        /\ job[r].by # 0 => ParamsOf(r, job[r].by)

IInv ==
    /\ TypeInv /\ Counting /\ Limited /\ KeyWillExpire
    /\ Searching /\ Guarding /\ Binding /\ RoutedRight

(***************************************************************************)
(* Paths.                                                                  *)
(***************************************************************************)

\* The step of splitPath's loop.
Kept(path, f, k) ==
    IF k = 0 THEN << >>
    ELSE IF path[k] # "" THEN Append(f[k - 1], path[k]) ELSE f[k - 1]

\* The loop defines what it has kept after every segment.
LEMMA KeptExists ==
    ASSUME NEW path \in Seq(STRING)
    PROVE  \A n \in 0..Len(path) : \E f : f = [k \in 0..n |-> Kept(path, f, k)]
<1> DEFINE T == {n \in 0..Len(path) : ~ \E f : f = [k \in 0..n |-> Kept(path, f, k)]}
<1>1. SUFFICES ASSUME T # {} PROVE FALSE
  OBVIOUS
<1>2. PICK n \in T : \A m \in T : n <= m
  <2>1. T \subseteq Nat
    OBVIOUS
  <2> HIDE DEF T
  <2> QED
    BY <1>1, <2>1, LeastOf
<1>3. n # 0
  <2>1. SUFFICES ASSUME n = 0 PROVE \E f : f = [k \in 0..n |-> Kept(path, f, k)]
    OBVIOUS
  <2> DEFINE f == [k \in 0..n |-> << >>]
  <2>2. \A k \in 0..n : k = 0
    BY <2>1
  <2>3. f = [k \in 0..n |-> Kept(path, f, k)]
    BY <2>2 DEF Kept
  <2> QED
    BY <2>3
<1>4. PICK f : f = [k \in 0..(n - 1) |-> Kept(path, f, k)]
  BY <1>2, <1>3
<1> DEFINE g == [k \in 0..n |-> IF k < n THEN f[k] ELSE Kept(path, f, n)]
<1>5. ASSUME NEW k \in 0..n PROVE g[k] = Kept(path, g, k)
  <2>1. k = 0 \/ (k - 1 \in 0..n /\ g[k - 1] = f[k - 1])
    OBVIOUS
  <2>2. g[k] = Kept(path, f, k)
    BY <1>4
  <2> QED
    BY <2>1, <2>2 DEF Kept
<1>6. g = [k \in 0..n |-> Kept(path, g, k)]
  BY <1>5
<1> HIDE DEF g
<1> QED
  BY <1>6

\* splitPath returns a sequence of segments.
LEMMA SplitPathType ==
    ASSUME NEW path \in Seq(STRING)
    PROVE  SplitPath(path) \in Seq(STRING)
<1> DEFINE kept == CHOOSE f : f = [k \in 0..Len(path) |-> Kept(path, f, k)]
           T == {k \in 0..Len(path) : kept[k] \notin Seq(STRING)}
<1>1. SplitPath(path) = kept[Len(path)]
  BY DEF SplitPath, Kept
<1>2. kept = [k \in 0..Len(path) |-> Kept(path, kept, k)]
  <2>1. \E f : f = [k \in 0..Len(path) |-> Kept(path, f, k)]
    BY KeptExists
  <2> QED
    BY <2>1
<1> HIDE DEF kept
<1>3. SUFFICES ASSUME T # {} PROVE FALSE
  BY <1>1
<1>4. PICK n \in T : \A m \in T : n <= m
  <2>1. T \subseteq Nat
    OBVIOUS
  <2> HIDE DEF T
  <2> QED
    BY <1>3, <2>1, LeastOf
<1>5. kept[n] = Kept(path, kept, n)
  BY <1>2
<1>6. kept[n] \notin Seq(STRING)
  OBVIOUS
<1>7. n # 0
  BY <1>5, <1>6, EmptySeq DEF Kept
<1>8. n - 1 \in 0..Len(path) /\ n - 1 \notin T
  BY <1>4, <1>7
<1>9. kept[n - 1] \in Seq(STRING) /\ path[n] \in STRING
  BY <1>7, <1>8
<1>10. Append(kept[n - 1], path[n]) \in Seq(STRING)
  BY <1>9
<1> QED
  BY <1>5, <1>6, <1>7, <1>9, <1>10 DEF Kept

\* A pattern matches exactly the paths it stands for.
LEMMA MatchStands ==
    ASSUME NEW pattern \in Seq(STRING), NEW path \in Seq(STRING)
    PROVE  MatchDynamicPath(pattern, path) <=> Stands(pattern, path)
<1> DEFINE ps == SplitPath(pattern)
           ss == SplitPath(path)
<1>1. ps \in Seq(STRING) /\ ss \in Seq(STRING)
  BY SplitPathType
<1>2. pattern = path => ps = ss
  OBVIOUS
<1>3. MatchDynamicPath(pattern, path)
        <=> \/ pattern = path
            \/ /\ \E k \in 1..Len(pattern) : pattern[k] \in Colons
               /\ Len(ps) = Len(ss)
               /\ \A k \in 1..Len(ps) : ps[k] \in ParamNames \/ ps[k] = ss[k]
  BY DEF MatchDynamicPath
<1>4. Stands(pattern, path)
        <=> IF \A k \in 1..Len(pattern) : pattern[k] \notin Colons
            THEN path = pattern
            ELSE /\ Len(ps) = Len(ss)
                 /\ ss = [k \in 1..Len(ps) |-> IF ps[k] \in ParamNames THEN ss[k] ELSE ps[k]]
  BY DEF Stands
<1> HIDE DEF ps, ss
<1>5. ASSUME Len(ps) = Len(ss)
      PROVE  (\A k \in 1..Len(ps) : ps[k] \in ParamNames \/ ps[k] = ss[k])
               <=> ss = [k \in 1..Len(ps) |-> IF ps[k] \in ParamNames THEN ss[k] ELSE ps[k]]
  BY <1>1, <1>5
<1> QED
  BY <1>1, <1>2, <1>3, <1>4, <1>5

\* Matches finds the routes that have the path.
LEMMA MatchesHits ==
    ASSUME TypeInv, NEW r \in Requests, NEW k \in 1..Len(routes)
    PROVE  /\ routes[k].path \in Seq(STRING) /\ routes[k].isPrefix \in BOOLEAN
           /\ routes[k].middlewares \in Seq(STRING)
           /\ Matches(routes[k], job[r].path) <=> k \in Hits(r)
<1>1. routes \in Seq([method : STRING, path : Seq(STRING), isPrefix : BOOLEAN, middlewares : Seq(STRING)])
  BY TablesAreRoutes DEF TypeInv, Shape
<1>2. routes[k] \in [method : STRING, path : Seq(STRING), isPrefix : BOOLEAN, middlewares : Seq(STRING)]
  BY <1>1, ElementOfSeq
<1>3. routes[k].path \in Seq(STRING) /\ job[r].path \in Seq(STRING)
  BY <1>2 DEF TypeInv, JobType
<1>4. MatchDynamicPath(routes[k].path, job[r].path) <=> Stands(routes[k].path, job[r].path)
  BY <1>3, MatchStands
<1>5. Matches(routes[k], job[r].path)
        <=> IF routes[k].isPrefix THEN MatchPrefix(routes[k].path, job[r].path)
                                  ELSE Stands(routes[k].path, job[r].path)
  BY <1>4 DEF Matches
<1>6. k \in Hits(r)
        <=> IF routes[k].isPrefix THEN MatchPrefix(routes[k].path, job[r].path)
                                  ELSE Stands(routes[k].path, job[r].path)
  BY DEF Hits
<1> QED
  BY <1>2, <1>5, <1>6

\* The table is a sequence.
LEMMA RoutesSeq ==
    ASSUME TypeInv
    PROVE  Len(routes) \in Nat
<1>1. routes \in Seq([method : STRING, path : Seq(STRING), isPrefix : BOOLEAN, middlewares : Seq(STRING)])
  BY TablesAreRoutes DEF TypeInv, Shape
<1> QED
  BY <1>1

\* Hits and Mine depend on the table and on what is asked for.
LEMMA SameHits ==
    ASSUME routes' = routes, NEW r \in Requests,
           job'[r].path = job[r].path, job'[r].method = job[r].method
    PROVE  Hits(r)' = Hits(r) /\ Mine(r)' = Mine(r)
<1>1. Hits(r)' = Hits(r)
  BY DEF Hits
<1> QED
  BY <1>1 DEF Mine

(***************************************************************************)
(* Types.                                                                  *)
(***************************************************************************)

LEMMA TypeInit == Init => TypeInv
<1> SUFFICES ASSUME Init PROVE TypeInv
  OBVIOUS
<1>1. << >> \in Seq(STRING)
  OBVIOUS
<1>2. Shape
  BY DEF Init, Shape
<1>3. ASSUME NEW r \in Requests PROVE JobType(r)
  <2>1. /\ job[r].pc = "idle" /\ job[r].path = << >> /\ job[r].i = 1 /\ job[r].j = 1
        /\ job[r].status = 200 /\ job[r].by = 0 /\ job[r].count = 0 /\ job[r].window = 0
    BY DEF Init
  <2> QED
    BY <1>1, <2>1 DEF JobType, Waiting
<1>4. \A c \in Clients : redis[c].count \in Nat /\ redis[c].window \in Nat
  BY DEF Init
<1> QED
  BY <1>2, <1>3, <1>4 DEF TypeInv

\* What the steps with a choice in them leave: the fields K of the request and
\* the other requests stay.
Stays(r, K) ==
    /\ Shape' /\ routes' = routes /\ redis' = redis
    /\ \A k \in K : job'[r][k] = job[r][k]
    /\ \A q \in Requests \ {r} : job'[q] = job[q]

Asked == {"method", "path", "client", "token", "i", "pathFound", "params", "by", "count", "window"}

LEMMA PassedIs ==
    ASSUME TypeInv, NEW r \in Requests, Passed(r), UNCHANGED <<routes, redis>>
    PROVE  Stays(r, Asked \cup {"status"}) /\ job'[r].pc = "global" /\ job'[r].j = job[r].j + 1
  BY DEF Passed, TypeInv, Shape, Stays, Asked

LEMMA RespondIs ==
    ASSUME TypeInv, NEW r \in Requests, NEW status, Respond(r, status), UNCHANGED <<routes, redis>>
    PROVE  Stays(r, Asked \cup {"j"}) /\ job'[r].pc = "done" /\ job'[r].status = status
  BY DEF Respond, TypeInv, Shape, Stays, Asked

LEMMA RunGlobalIs ==
    ASSUME TypeInv, NEW r \in Requests, RunGlobal(r)
    PROVE  /\ job[r].pc = "global" /\ Stays(r, Asked \cup {"status"})
           /\ job'[r].pc \in {"incr", "global"}
           /\ job'[r].j = job[r].j \/ job'[r].j = job[r].j + 1
<1>1. job[r].pc = "global" /\ UNCHANGED <<routes, redis>>
  BY DEF RunGlobal
<1>2. job' = [job EXCEPT ![r].pc = "incr"] \/ Passed(r)
  BY DEF RunGlobal
<1>3. CASE job' = [job EXCEPT ![r].pc = "incr"]
  BY <1>1, <1>3 DEF TypeInv, Shape, Stays, Asked
<1> QED
  BY <1>1, <1>2, <1>3, PassedIs

LEMMA CompareIs ==
    ASSUME TypeInv, NEW r \in Requests, Compare(r)
    PROVE  /\ job[r].pc = "compare" /\ Stays(r, Asked)
           /\ \/ /\ job'[r].pc = "global" /\ job'[r].j = job[r].j + 1 /\ job'[r].status = job[r].status
                 /\ ~OverLimit(job[r].count)
              \/ /\ job'[r].pc = "done" /\ job'[r].status = 429 /\ job'[r].j = job[r].j
                 /\ OverLimit(job[r].count)
<1>1. job[r].pc = "compare" /\ UNCHANGED <<routes, redis>>
  BY DEF Compare
<1>2. CASE OverLimit(job[r].count)
  <2>1. Respond(r, 429)
    BY <1>2 DEF Compare
  <2> QED
    BY <1>1, <1>2, <2>1, RespondIs DEF Stays
<1>3. CASE ~OverLimit(job[r].count)
  <2>1. Passed(r)
    BY <1>3 DEF Compare
  <2> QED
    BY <1>1, <1>3, <2>1, PassedIs DEF Stays
<1> QED
  BY <1>2, <1>3

LEMMA RunGuardIs ==
    ASSUME TypeInv, NEW r \in Requests, RunGuard(r)
    PROVE  /\ job[r].pc = "guard" /\ Stays(r, Asked)
           /\ \/ /\ job'[r].pc = "guard" /\ job'[r].j = job[r].j + 1 /\ job'[r].status = job[r].status
                 /\ job[r].token
              \/ job'[r].pc = "done" /\ job'[r].status = 401 /\ job'[r].j = job[r].j
<1>1. job[r].pc = "guard" /\ UNCHANGED <<routes, redis>>
  BY DEF RunGuard
<1>2. CASE job[r].token
  <2>1. job' = [job EXCEPT ![r].j = @ + 1]
    BY <1>2 DEF RunGuard
  <2> QED
    BY <1>1, <1>2, <2>1 DEF TypeInv, Shape, Stays, Asked
<1>3. CASE ~job[r].token
  <2>1. Respond(r, 401)
    BY <1>3 DEF RunGuard
  <2> QED
    BY <1>1, <2>1, RespondIs DEF Stays
<1> QED
  BY <1>2, <1>3

\* The failed call of a request: Redis has carried it out or not.
FailedCall(r) ==
    LET c == job[r].client
    IN  \/ job[r].pc = "incr" /\ UNCHANGED redis
        \/ /\ job[r].pc = "incr"
           /\ redis' = [redis EXCEPT ![c] = [@ EXCEPT !.count = redis[c].count + 1,
                                                      !.lost = IF redis[c].count = 0 THEN TRUE ELSE redis[c].lost]]
        \/ job[r].pc = "expire" /\ redis' = [redis EXCEPT ![c].lost = TRUE]
        \/ job[r].pc = "expire" /\ redis' = [redis EXCEPT ![c].expires = TRUE]

LEMMA RedisFailsIs ==
    ASSUME TypeInv, NEW r \in Requests, RedisFails(r)
    PROVE  /\ FailedCall(r) /\ Shape' /\ routes' = routes
           /\ job[r].client \in Clients /\ job[r].pc \in {"incr", "expire"}
           /\ job'[r].pc = "global" /\ job'[r].j = job[r].j + 1
           /\ \A k \in Asked \cup {"status"} : job'[r][k] = job[r][k]
           /\ \A q \in Requests \ {r} : job'[q] = job[q]
           /\ \A c \in Clients : redis'[c].count \in Nat /\ redis'[c].window = redis[c].window
<1>1. Passed(r) /\ routes' = routes
  BY DEF RedisFails
<1>2. FailedCall(r)
  BY DEF RedisFails, FailedCall
<1>3. job[r].pc \in {"incr", "expire"}
  BY <1>2 DEF FailedCall
<1>4. job[r].client \in Clients
  BY <1>3 DEF TypeInv, JobType
<1>5. /\ DOMAIN job' = Requests
      /\ \A q \in Requests : DOMAIN job'[q] = DOMAIN job[q]
      /\ job'[r].pc = "global" /\ job'[r].j = job[r].j + 1
      /\ \A k \in Asked \cup {"status"} : job'[r][k] = job[r][k]
      /\ \A q \in Requests \ {r} : job'[q] = job[q]
  BY <1>1 DEF Passed, TypeInv, Shape, Asked
<1>6. /\ DOMAIN redis' = Clients
      /\ \A c \in Clients : DOMAIN redis'[c] = {"count", "expires", "window", "lost"}
      /\ \A c \in Clients : redis'[c].count \in Nat /\ redis'[c].window = redis[c].window
  <2> DEFINE c0 == job[r].client
  <2> USE DEF TypeInv, Shape
  <2>1. CASE UNCHANGED redis
    BY <2>1
  <2>2. CASE redis' = [redis EXCEPT ![c0] = [@ EXCEPT !.count = redis[c0].count + 1,
                                                      !.lost = IF redis[c0].count = 0 THEN TRUE
                                                               ELSE redis[c0].lost]]
    BY <1>4, <2>2
  <2>3. CASE redis' = [redis EXCEPT ![c0].lost = TRUE]
    BY <1>4, <2>3
  <2>4. CASE redis' = [redis EXCEPT ![c0].expires = TRUE]
    BY <1>4, <2>4
  <2> QED
    BY <1>2, <2>1, <2>2, <2>3, <2>4 DEF FailedCall
<1>7. Shape'
  BY <1>1, <1>5, <1>6 DEF TypeInv, Shape
<1> QED
  BY <1>1, <1>2, <1>3, <1>4, <1>5, <1>6, <1>7

\* A step of one request leaves the shape and the other jobs as they are.
LEMMA OneMoves ==
    ASSUME TypeInv, NEW r \in Requests,
           Handle(r) \/ \E m \in Methods, p \in Paths, c \in Clients, t \in BOOLEAN : Arrive(r, m, p, c, t)
    PROVE  Shape' /\ \A q \in Requests \ {r} : job'[q] = job[q]
<1> USE DEF TypeInv, Shape
<1>1. ASSUME NEW m \in Methods, NEW p \in Paths, NEW c \in Clients, NEW t \in BOOLEAN, Arrive(r, m, p, c, t)
      PROVE  Shape' /\ \A q \in Requests \ {r} : job'[q] = job[q]
  BY <1>1 DEF Arrive
<1>2. CASE RunGlobal(r)
  BY <1>2, RunGlobalIs DEF Stays, Asked
<1>3. CASE GlobalsDone(r)
  BY <1>3 DEF GlobalsDone
<1>4. CASE Incr(r)
  BY <1>4 DEF Incr
<1>5. CASE SetExpire(r)
  BY <1>5 DEF SetExpire
<1>6. CASE RedisFails(r)
  BY <1>6, RedisFailsIs
<1>7. CASE Compare(r)
  BY <1>7, CompareIs DEF Stays, Asked
<1>8. CASE ScanNoMatch(r)
  BY <1>8 DEF ScanNoMatch
<1>9. CASE ScanOtherMethod(r)
  BY <1>9 DEF ScanOtherMethod
<1>10. CASE ScanFound(r)
  BY <1>10 DEF ScanFound
<1>11. CASE ScanEnd(r)
  BY <1>11 DEF ScanEnd, Respond
<1>12. CASE RunGuard(r)
  BY <1>12, RunGuardIs DEF Stays, Asked
<1>13. CASE CallHandler(r)
  BY <1>13 DEF CallHandler
<1> QED
  BY <1>1, <1>2, <1>3, <1>4, <1>5, <1>6, <1>7, <1>8, <1>9, <1>10, <1>11, <1>12, <1>13 DEF Handle

LEMMA TypeStep == TypeInv /\ [Next]_vars => TypeInv'
<1> SUFFICES ASSUME TypeInv, [Next]_vars PROVE TypeInv'
  OBVIOUS
<1> DEFINE Counters == \A c \in Clients : redis[c].count \in Nat /\ redis[c].window \in Nat
<1>1. ASSUME NEW r \in Requests, Shape', \A q \in Requests \ {r} : job'[q] = job[q], JobType(r)', Counters'
      PROVE  TypeInv'
  BY <1>1 DEF TypeInv, JobType
<1>2. ASSUME NEW r \in Requests, NEW m \in Methods, NEW p \in Paths, NEW c \in Clients, NEW t \in BOOLEAN,
             Arrive(r, m, p, c, t)
      PROVE  TypeInv'
  <2>1. p \in Seq(STRING)
    BY PathsAreSegments
  <2>2. JobType(r)' /\ Counters'
    BY <1>2, <2>1 DEF Arrive, TypeInv, Shape, JobType, Waiting
  <2> QED
    BY <1>1, <1>2, <2>2, OneMoves
<1>3. ASSUME NEW r \in Requests, RunGlobal(r) PROVE TypeInv'
  <2>1. /\ redis' = redis /\ job[r].pc = "global" /\ job'[r].pc \in {"incr", "global"}
        /\ job'[r].j = job[r].j \/ job'[r].j = job[r].j + 1
        /\ \A k \in {"path", "client", "i", "status", "by", "count", "window"} : job'[r][k] = job[r][k]
    BY <1>3, RunGlobalIs DEF Stays, Asked
  <2>2. JobType(r) /\ Counters
    BY DEF TypeInv
  <2>3. job'[r].j \in Nat \ {0}
    BY <2>1, <2>2 DEF JobType
  <2>4. JobType(r)' /\ Counters'
    BY <2>1, <2>2, <2>3 DEF JobType, Waiting
  <2> QED
    BY <1>1, <1>3, <2>4, OneMoves DEF Handle
<1>4. ASSUME NEW r \in Requests, GlobalsDone(r) PROVE TypeInv'
  <2>1. JobType(r)' /\ Counters'
    BY <1>4 DEF GlobalsDone, TypeInv, Shape, JobType, Waiting
  <2> QED
    BY <1>1, <1>4, <2>1, OneMoves DEF Handle
<1>5. ASSUME NEW r \in Requests, Incr(r) PROVE TypeInv'
  <2>1. JobType(r)' /\ Counters'
    BY <1>5 DEF Incr, TypeInv, Shape, JobType, Waiting
  <2> QED
    BY <1>1, <1>5, <2>1, OneMoves DEF Handle
<1>6. ASSUME NEW r \in Requests, SetExpire(r) PROVE TypeInv'
  <2>1. JobType(r)' /\ Counters'
    BY <1>6 DEF SetExpire, TypeInv, Shape, JobType, Waiting
  <2> QED
    BY <1>1, <1>6, <2>1, OneMoves DEF Handle
<1>7. ASSUME NEW r \in Requests, RedisFails(r) PROVE TypeInv'
  <2>1. JobType(r)' /\ Counters'
    <3>1. /\ job'[r].pc = "global" /\ job[r].pc # "idle" /\ job'[r].j = job[r].j + 1
          /\ \A k \in {"path", "client", "i", "status", "by", "count", "window"} : job'[r][k] = job[r][k]
          /\ \A c \in Clients : redis'[c].count \in Nat /\ redis'[c].window = redis[c].window
      BY <1>7, RedisFailsIs DEF Asked
    <3>2. JobType(r) /\ Counters
      BY DEF TypeInv
    <3>3. job'[r].j \in Nat \ {0}
      BY <3>1, <3>2 DEF JobType
    <3>4. JobType(r)'
      BY <3>1, <3>2, <3>3 DEF JobType, Waiting
    <3> QED
      BY <3>1, <3>2, <3>4
  <2> QED
    BY <1>1, <1>7, <2>1, OneMoves DEF Handle
<1>8. ASSUME NEW r \in Requests, Compare(r) PROVE TypeInv'
  <2>1. JobType(r)' /\ Counters'
    <3>1. CASE Passed(r)
      BY <1>8, <3>1 DEF Compare, Passed, TypeInv, Shape, JobType, Waiting
    <3>2. CASE Respond(r, 429)
      BY <1>8, <3>2 DEF Compare, Respond, TypeInv, Shape, JobType, Waiting
    <3> QED
      BY <1>8, <3>1, <3>2 DEF Compare
  <2> QED
    BY <1>1, <1>8, <2>1, OneMoves DEF Handle
<1>9. ASSUME NEW r \in Requests, ScanNoMatch(r) PROVE TypeInv'
  <2>1. JobType(r)' /\ Counters'
    BY <1>9 DEF ScanNoMatch, TypeInv, Shape, JobType, Waiting
  <2> QED
    BY <1>1, <1>9, <2>1, OneMoves DEF Handle
<1>10. ASSUME NEW r \in Requests, ScanOtherMethod(r) PROVE TypeInv'
  <2>1. JobType(r)' /\ Counters'
    BY <1>10 DEF ScanOtherMethod, TypeInv, Shape, JobType, Waiting
  <2> QED
    BY <1>1, <1>10, <2>1, OneMoves DEF Handle
<1>11. ASSUME NEW r \in Requests, ScanFound(r) PROVE TypeInv'
  <2>1. /\ job'[r].pc = "guard" /\ job'[r].j = 1 /\ redis' = redis
        /\ \A k \in {"path", "client", "i", "status", "by", "count", "window"} : job'[r][k] = job[r][k]
    BY <1>11 DEF ScanFound, TypeInv, Shape
  <2>2. job[r].pc = "scan"
    BY <1>11 DEF ScanFound, Scanning
  <2>3. JobType(r)' /\ Counters'
    BY <2>1, <2>2 DEF TypeInv, JobType, Waiting
  <2> QED
    BY <1>1, <1>11, <2>3, OneMoves DEF Handle
<1>12. ASSUME NEW r \in Requests, ScanEnd(r) PROVE TypeInv'
  <2>1. JobType(r)' /\ Counters'
    BY <1>12 DEF ScanEnd, Respond, TypeInv, Shape, JobType, Waiting
  <2> QED
    BY <1>1, <1>12, <2>1, OneMoves DEF Handle
<1>13. ASSUME NEW r \in Requests, RunGuard(r) PROVE TypeInv'
  <2>1. /\ job[r].pc = "guard" /\ Stays(r, Asked) /\ job'[r].pc \in {"guard", "done"}
        /\ job'[r].j \in {job[r].j, job[r].j + 1} /\ job'[r].status \in {job[r].status, 401}
    BY <1>13, RunGuardIs
  <2>2. JobType(r)' /\ Counters'
    <3>1. /\ redis' = redis /\ job'[r].path = job[r].path /\ job'[r].client = job[r].client
          /\ job'[r].i = job[r].i /\ job'[r].by = job[r].by
          /\ job'[r].count = job[r].count /\ job'[r].window = job[r].window
      BY <2>1 DEF Stays, Asked
    <3>2. JobType(r) /\ Counters
      BY DEF TypeInv
    <3>3. job[r].j \in Nat \ {0} /\ job[r].status \in Nat
      BY <3>2 DEF JobType
    <3>4. job'[r].j \in Nat \ {0}
      BY <2>1, <3>3
    <3>5. job'[r].status \in Nat
      BY <2>1, <3>3
    <3> QED
      BY <2>1, <3>1, <3>2, <3>4, <3>5 DEF JobType, Waiting
  <2> QED
    BY <1>1, <1>13, <2>2, OneMoves DEF Handle
<1>14. ASSUME NEW r \in Requests, CallHandler(r) PROVE TypeInv'
  <2>1. PICK status \in Answers(Route(r), job[r].path) :
            job' = [job EXCEPT ![r] = [@ EXCEPT !.pc = "done", !.status = status, !.by = job[r].i]]
    BY <1>14 DEF CallHandler
  <2>2. status \in Nat
    BY <2>1 DEF Answers
  <2>3. /\ job'[r].pc = "done" /\ job'[r].status = status /\ job'[r].by = job[r].i
        /\ \A k \in {"path", "client", "i", "j", "count", "window"} : job'[r][k] = job[r][k]
    BY <2>1 DEF TypeInv, Shape
  <2>4. redis' = redis /\ job[r].pc # "idle"
    BY <1>14 DEF CallHandler
  <2>5. JobType(r)' /\ Counters'
    BY <2>2, <2>3, <2>4 DEF TypeInv, JobType
  <2> QED
    BY <1>1, <1>14, <2>5, OneMoves DEF Handle
<1>15. ASSUME NEW c \in Clients, Elapse(c) PROVE TypeInv'
  BY <1>15 DEF Elapse, TypeInv, Shape, JobType
<1>16. CASE UNCHANGED vars
  BY <1>16 DEF vars, TypeInv, Shape, JobType
<1> QED
  BY <1>2, <1>3, <1>4, <1>5, <1>6, <1>7, <1>8, <1>9, <1>10, <1>11, <1>12, <1>13, <1>14, <1>15, <1>16
  DEF Next, Handle, Finished

(***************************************************************************)
(* The rate limiter.                                                       *)
(***************************************************************************)

\* The steps that have nothing to do with the limiter.
Elsewhere(r) ==
    \/ RunGlobal(r) \/ GlobalsDone(r) \/ Compare(r) \/ ScanNoMatch(r) \/ ScanOtherMethod(r)
    \/ ScanFound(r) \/ ScanEnd(r) \/ RunGuard(r) \/ CallHandler(r)

LEMMA ElsewhereKeeps ==
    ASSUME TypeInv, NEW r \in Requests, Elsewhere(r)
    PROVE  /\ redis' = redis
           /\ job[r].pc # "idle" /\ job'[r].pc # "idle" /\ job'[r].pc # "expire" /\ job[r].pc # "expire"
           /\ \A q \in Requests : /\ job'[q].count = job[q].count
                                  /\ job'[q].client = job[q].client
                                  /\ job'[q].window = job[q].window
<1> USE DEF TypeInv, Shape
<1>1. CASE RunGlobal(r)
  BY <1>1, RunGlobalIs DEF Stays, Asked
<1>2. CASE GlobalsDone(r)
  BY <1>2 DEF GlobalsDone
<1>3. CASE Compare(r)
  BY <1>3, CompareIs DEF Stays, Asked
<1>4. CASE ScanNoMatch(r)
  BY <1>4 DEF ScanNoMatch, Scanning
<1>5. CASE ScanOtherMethod(r)
  BY <1>5 DEF ScanOtherMethod, Scanning
<1>6. CASE ScanFound(r)
  BY <1>6 DEF ScanFound, Scanning
<1>7. CASE ScanEnd(r)
  BY <1>7 DEF ScanEnd, Respond
<1>8. CASE RunGuard(r)
  BY <1>8, RunGuardIs DEF Stays, Asked
<1>9. CASE CallHandler(r)
  BY <1>9 DEF CallHandler
<1> QED
  BY <1>1, <1>2, <1>3, <1>4, <1>5, <1>6, <1>7, <1>8, <1>9 DEF Elsewhere

\* What a step of the limiter itself changes.
LEMMA IncrEffect ==
    ASSUME TypeInv, NEW r \in Requests, Incr(r)
    PROVE  LET c == job[r].client IN
           /\ c \in Clients /\ job[r].pc = "incr"
           /\ redis'[c].count = redis[c].count + 1 /\ redis'[c].window = redis[c].window
           /\ redis'[c].expires = redis[c].expires /\ redis'[c].lost = redis[c].lost
           /\ \A d \in Clients \ {c} : redis'[d] = redis[d]
           /\ job'[r].count = redis[c].count + 1 /\ job'[r].window = redis[c].window
           /\ job'[r].client = c /\ job'[r].status = job[r].status
           /\ job'[r].pc = IF redis[c].count = 0 THEN "expire" ELSE "compare"
           /\ \A q \in Requests \ {r} : job'[q] = job[q]
<1>1. job[r].client \in Clients /\ redis[job[r].client].count \in Nat
  BY DEF Incr, TypeInv, JobType
<1> QED
  BY <1>1 DEF Incr, TypeInv, Shape

\* What both sorts of step at the end of a call change: the counter grows only
\* when INCR was carried out, and the key that this creates is lost.
LEMMA ExpireEffect ==
    ASSUME TypeInv, NEW r \in Requests, SetExpire(r) \/ RedisFails(r)
    PROVE  LET c == job[r].client IN
           /\ c \in Clients /\ job[r].pc \in {"incr", "expire"}
           /\ job'[r].pc \in {"compare", "global"}
           /\ job[r].pc = "expire" => redis'[c].expires \/ redis'[c].lost
           /\ \A d \in Clients : /\ redis[d].count \in Nat /\ redis'[d].count \in Nat
                                 /\ redis'[d].count >= redis[d].count
                                 /\ redis[d].count = 0 /\ redis'[d].count > 0 => redis'[d].lost
                                 /\ redis'[d].window = redis[d].window
                                 /\ redis[d].expires => redis'[d].expires
                                 /\ redis[d].lost => redis'[d].lost
           /\ \A q \in Requests \ {r} : job'[q] = job[q]
           /\ job'[r].count = job[r].count /\ job'[r].window = job[r].window
           /\ job'[r].client = c /\ job'[r].status = job[r].status
<1>1. job[r].client \in Clients
  BY RedisFailsIs DEF SetExpire, TypeInv, JobType
<1>2. CASE SetExpire(r)
  BY <1>1, <1>2 DEF SetExpire, TypeInv, Shape
<1>3. CASE RedisFails(r)
  <2>1. /\ job[r].pc \in {"incr", "expire"} /\ job'[r].pc = "global"
        /\ job'[r].count = job[r].count /\ job'[r].window = job[r].window
        /\ job'[r].client = job[r].client /\ job'[r].status = job[r].status
        /\ \A q \in Requests \ {r} : job'[q] = job[q]
        /\ \A d \in Clients : redis'[d].count \in Nat /\ redis'[d].window = redis[d].window
    BY <1>3, RedisFailsIs DEF Asked
  <2>2. FailedCall(r)
    BY <1>3, RedisFailsIs
  <2>3. /\ job[r].pc = "expire" => redis'[job[r].client].expires \/ redis'[job[r].client].lost
        /\ \A d \in Clients : /\ redis[d].count \in Nat
                              /\ redis'[d].count >= redis[d].count
                              /\ redis[d].count = 0 /\ redis'[d].count > 0 => redis'[d].lost
                              /\ redis[d].expires => redis'[d].expires
                              /\ redis[d].lost => redis'[d].lost
    <3> USE DEF TypeInv, Shape
    <3>1. CASE job[r].pc = "incr" /\ UNCHANGED redis
      BY <3>1
    <3>2. CASE job[r].pc = "incr" /\ redis' = [redis EXCEPT ![job[r].client] =
                   [@ EXCEPT !.count = redis[job[r].client].count + 1,
                             !.lost = IF redis[job[r].client].count = 0 THEN TRUE
                                     ELSE redis[job[r].client].lost]]
      BY <1>1, <3>2
    <3>3. CASE job[r].pc = "expire" /\ redis' = [redis EXCEPT ![job[r].client].lost = TRUE]
      BY <1>1, <3>3
    <3>4. CASE job[r].pc = "expire" /\ redis' = [redis EXCEPT ![job[r].client].expires = TRUE]
      BY <1>1, <3>4
    <3> QED
      BY <2>2, <3>1, <3>2, <3>3, <3>4 DEF FailedCall
  <2> QED
    BY <1>1, <2>1, <2>3
<1> QED
  BY <1>2, <1>3

LEMMA CountingStep == TypeInv /\ Counting /\ [Next]_vars => Counting'
<1> SUFFICES ASSUME TypeInv, Counting, [Next]_vars PROVE Counting'
  OBVIOUS
<1>1. ASSUME redis' = redis,
             \A q \in Requests : /\ job'[q].count = job[q].count
                                 /\ job'[q].count > 0 =>
                                        /\ job'[q].client = job[q].client /\ job'[q].window = job[q].window
                                        /\ job'[q].pc # "idle"
      PROVE  Counting'
  BY <1>1 DEF Counting, TypeInv, JobType
<1>2. ASSUME NEW r \in Requests, NEW m \in Methods, NEW p \in Paths, NEW c \in Clients, NEW t \in BOOLEAN,
             Arrive(r, m, p, c, t)
      PROVE  Counting'
  <2>1. /\ redis' = redis /\ job[r].pc = "idle" /\ job'[r].count = job[r].count
        /\ \A q \in Requests \ {r} : job'[q] = job[q]
    BY <1>2 DEF Arrive, TypeInv, Shape
  <2>2. job[r].count = 0
    BY <2>1 DEF Counting, TypeInv, JobType
  <2> QED
    BY <1>1, <2>1, <2>2 DEF Counting
<1>3. ASSUME NEW r \in Requests, Elsewhere(r) PROVE Counting'
  <2>1. \A q \in Requests \ {r} : job'[q] = job[q]
    BY <1>3, OneMoves DEF Handle, Elsewhere
  <2> QED
    BY <1>1, <1>3, <2>1, ElsewhereKeeps DEF Counting
<1>4. ASSUME NEW r \in Requests, Incr(r) PROVE Counting'
  <2> DEFINE c == job[r].client
  <2>1. /\ c \in Clients
        /\ redis'[c].count = redis[c].count + 1 /\ redis'[c].window = redis[c].window
        /\ \A d \in Clients \ {c} : redis'[d] = redis[d]
        /\ job'[r].count = redis[c].count + 1 /\ job'[r].window = redis[c].window
        /\ job'[r].client = c /\ job'[r].pc # "idle"
        /\ \A q \in Requests \ {r} : job'[q] = job[q]
    BY <1>4, IncrEffect
  <2>2. redis[c].count \in Nat /\ redis[c].window \in Nat
    BY <2>1 DEF TypeInv
  <2> HIDE DEF c
  <2>3. ASSUME NEW q \in Requests, job'[q].count > 0
        PROVE  /\ job'[q].client \in Clients /\ job'[q].pc # "idle"
               /\ job'[q].window <= redis'[job'[q].client].window
               /\ job'[q].window = redis'[job'[q].client].window
                    => job'[q].count <= redis'[job'[q].client].count
    <3>1. CASE q = r
      BY <2>1, <2>2, <3>1
    <3>2. CASE q # r
      <4>1. /\ job[q].client \in Clients /\ job[q].pc # "idle"
            /\ job[q].window <= redis[job[q].client].window
            /\ job[q].window = redis[job[q].client].window => job[q].count <= redis[job[q].client].count
        BY <2>1, <2>3, <3>2 DEF Counting
      <4>2. job[q].count \in Nat /\ job'[q] = job[q]
        BY <2>1, <3>2 DEF TypeInv, JobType
      <4> QED
        BY <2>1, <2>2, <4>1, <4>2
    <3> QED
      BY <3>1, <3>2
  <2>4. ASSUME NEW q \in Requests \ {r}, job'[q].count > 0,
               job'[q].client = c, job'[q].window = redis[c].window
        PROVE  job'[q].count # job'[r].count
    <3>1. job[q].count <= redis[c].count /\ job[q].count \in Nat
      BY <2>1, <2>4 DEF Counting, TypeInv, JobType
    <3> QED
      BY <2>1, <2>2, <3>1
  <2> QED
    BY <2>1, <2>3, <2>4 DEF Counting
<1>5. ASSUME NEW r \in Requests, SetExpire(r) \/ RedisFails(r) PROVE Counting'
  <2>1. /\ job[r].pc # "idle" /\ job'[r].pc # "idle"
        /\ \A q \in Requests : /\ job'[q].count = job[q].count /\ job'[q].window = job[q].window
                               /\ job'[q].client = job[q].client
                               /\ job[q].pc # "idle" => job'[q].pc # "idle"
        /\ \A d \in Clients : /\ redis[d].count \in Nat /\ redis'[d].count \in Nat
                              /\ redis'[d].count >= redis[d].count
                              /\ redis'[d].window = redis[d].window
    BY <1>5, ExpireEffect
  <2>2. \A q \in Requests : job[q].count \in Nat
    BY DEF TypeInv, JobType
  <2>3. ASSUME NEW q \in Requests, job'[q].count > 0
        PROVE  /\ job'[q].client \in Clients /\ job'[q].pc # "idle"
               /\ job'[q].window <= redis'[job'[q].client].window
               /\ job'[q].window = redis'[job'[q].client].window
                    => job'[q].count <= redis'[job'[q].client].count
    <3>1. /\ job[q].client \in Clients /\ job[q].pc # "idle"
          /\ job[q].window <= redis[job[q].client].window
          /\ job[q].window = redis[job[q].client].window => job[q].count <= redis[job[q].client].count
      BY <2>1, <2>3 DEF Counting
    <3> QED
      BY <2>1, <2>2, <3>1
  <2> QED
    BY <2>1, <2>3 DEF Counting
<1>6. ASSUME NEW c \in Clients, Elapse(c) PROVE Counting'
  <2>1. /\ redis'[c].count = 0 /\ redis'[c].window = redis[c].window + 1 /\ redis[c].window \in Nat
        /\ \A d \in Clients \ {c} : redis'[d] = redis[d]
        /\ job' = job
    BY <1>6 DEF Elapse, TypeInv, Shape
  <2> QED
    BY <2>1 DEF Counting, TypeInv, JobType
<1>7. CASE UNCHANGED vars
  BY <1>7 DEF vars, Counting
<1> QED
  BY <1>2, <1>3, <1>4, <1>5, <1>6, <1>7 DEF Next, Handle, Elsewhere, Finished

LEMMA ExpiryStep == TypeInv /\ KeyWillExpire /\ [Next]_vars => KeyWillExpire'
<1> SUFFICES ASSUME TypeInv, KeyWillExpire, [Next]_vars PROVE KeyWillExpire'
  OBVIOUS
<1>1. ASSUME redis' = redis,
             \A q \in Requests : job[q].pc = "expire" => job'[q].pc = "expire" /\ job'[q].client = job[q].client
      PROVE  KeyWillExpire'
  BY <1>1 DEF KeyWillExpire
<1>2. ASSUME NEW r \in Requests, NEW m \in Methods, NEW p \in Paths, NEW c \in Clients, NEW t \in BOOLEAN,
             Arrive(r, m, p, c, t)
      PROVE  KeyWillExpire'
  <2>1. redis' = redis /\ job[r].pc = "idle" /\ \A q \in Requests \ {r} : job'[q] = job[q]
    BY <1>2 DEF Arrive, TypeInv, Shape
  <2> QED
    BY <1>1, <2>1
<1>3. ASSUME NEW r \in Requests, Elsewhere(r) PROVE KeyWillExpire'
  <2>1. \A q \in Requests \ {r} : job'[q] = job[q]
    BY <1>3, OneMoves DEF Handle, Elsewhere
  <2> QED
    BY <1>1, <1>3, <2>1, ElsewhereKeeps
<1>4. ASSUME NEW r \in Requests, Incr(r) PROVE KeyWillExpire'
  <2> DEFINE c == job[r].client
  <2>1. /\ c \in Clients /\ job[r].pc = "incr" /\ job'[r].client = c
        /\ redis'[c].expires = redis[c].expires /\ redis'[c].lost = redis[c].lost
        /\ \A d \in Clients \ {c} : redis'[d] = redis[d]
        /\ job'[r].pc = IF redis[c].count = 0 THEN "expire" ELSE "compare"
        /\ \A q \in Requests \ {r} : job'[q] = job[q]
    BY <1>4, IncrEffect
  <2>2. redis[c].count \in Nat
    BY <2>1 DEF TypeInv
  <2> HIDE DEF c
  <2>3. \A q \in Requests : job[q].pc = "expire" => job'[q] = job[q]
    BY <2>1
  <2>4. CASE redis[c].count = 0
    BY <2>1, <2>3, <2>4 DEF KeyWillExpire
  <2>5. CASE redis[c].count > 0
    BY <2>1, <2>3, <2>5 DEF KeyWillExpire
  <2> QED
    BY <2>2, <2>4, <2>5
<1>5. ASSUME NEW r \in Requests, SetExpire(r) \/ RedisFails(r) PROVE KeyWillExpire'
  BY <1>5, ExpireEffect DEF KeyWillExpire
<1>6. ASSUME NEW c \in Clients, Elapse(c) PROVE KeyWillExpire'
  <2>1. redis'[c].count = 0 /\ (\A d \in Clients \ {c} : redis'[d] = redis[d]) /\ job' = job
    BY <1>6 DEF Elapse, TypeInv, Shape
  <2> QED
    BY <2>1 DEF KeyWillExpire
<1>7. CASE UNCHANGED vars
  BY <1>7 DEF vars, KeyWillExpire
<1> QED
  BY <1>2, <1>3, <1>4, <1>5, <1>6, <1>7 DEF Next, Handle, Elsewhere, Finished

LEMMA LimitedStep == TypeInv /\ Searching /\ Limited /\ [Next]_vars => Limited'
<1> SUFFICES ASSUME TypeInv, Searching, Limited, [Next]_vars PROVE Limited'
  OBVIOUS
<1> DEFINE Fine(r) ==
        /\ job[r].pc \notin {"expire", "compare"} /\ job[r].status # 429 => job[r].count <= MaxRequests
        /\ job[r].pc = "expire" => job[r].count = 1
<1>1. ASSUME NEW r \in Requests, \A q \in Requests \ {r} : job'[q] = job[q], Fine(r)' PROVE Limited'
  BY <1>1 DEF Limited
<1>2. ASSUME NEW r \in Requests, NEW m \in Methods, NEW p \in Paths, NEW c \in Clients, NEW t \in BOOLEAN,
             Arrive(r, m, p, c, t)
      PROVE  Limited'
  <2>1. /\ job[r].pc = "idle" /\ job'[r].pc = "global" /\ job'[r].status = job[r].status
        /\ job'[r].count = job[r].count /\ \A q \in Requests \ {r} : job'[q] = job[q]
    BY <1>2 DEF Arrive, TypeInv, Shape
  <2>2. Fine(r)'
    BY <2>1 DEF Limited
  <2> QED
    BY <1>1, <2>1, <2>2
<1>3. ASSUME NEW r \in Requests, Elsewhere(r), ~Compare(r) PROVE Limited'
  <2>1. \A q \in Requests \ {r} : job'[q] = job[q]
    BY <1>3, OneMoves DEF Handle, Elsewhere
  <2>2. job[r].pc \in {"global", "scan", "guard"}
    BY <1>3 DEF Elsewhere, RunGlobal, GlobalsDone, Scanning, ScanNoMatch, ScanOtherMethod, ScanFound, ScanEnd,
                RunGuard, CallHandler
  <2>3. job[r].status # 429
    BY <2>2 DEF Searching
  <2>4. job[r].count <= MaxRequests
    BY <2>2, <2>3 DEF Limited
  <2>5. Fine(r)'
    BY <1>3, <2>4, ElsewhereKeeps
  <2> QED
    BY <1>1, <2>1, <2>5
<1>4. ASSUME NEW r \in Requests, Compare(r) PROVE Limited'
  <2>1. /\ job'[r].count = job[r].count /\ job'[r].pc # "expire"
        /\ \A q \in Requests \ {r} : job'[q] = job[q]
    BY <1>4, ElsewhereKeeps, OneMoves DEF Handle, Elsewhere
  <2>2. job[r].count > MaxRequests => job'[r].status = 429
    BY <1>4, CompareIs DEF OverLimit
  <2>3. job[r].count \in Nat
    BY DEF TypeInv, JobType
  <2>4. Fine(r)'
    BY <2>1, <2>2, <2>3, MaxRequestsPositive
  <2> QED
    BY <1>1, <2>1, <2>4
<1>5. ASSUME NEW r \in Requests, Incr(r) PROVE Limited'
  <2>1. /\ job[r].client \in Clients /\ job'[r].count = redis[job[r].client].count + 1
        /\ job'[r].pc = IF redis[job[r].client].count = 0 THEN "expire" ELSE "compare"
        /\ \A q \in Requests \ {r} : job'[q] = job[q]
    BY <1>5, IncrEffect
  <2>2. Fine(r)'
    BY <2>1
  <2> QED
    BY <1>1, <2>1, <2>2
<1>6. ASSUME NEW r \in Requests, SetExpire(r) \/ RedisFails(r) PROVE Limited'
  <2>1. /\ job[r].pc \in {"incr", "expire"} /\ job'[r].pc \in {"compare", "global"}
        /\ job'[r].count = job[r].count /\ job'[r].status = job[r].status
        /\ \A q \in Requests \ {r} : job'[q] = job[q]
    BY <1>6, ExpireEffect
  <2>2. Fine(r)'
    BY <2>1, MaxRequestsPositive DEF Limited
  <2> QED
    BY <1>1, <2>1, <2>2
<1>7. CASE UNCHANGED job
  BY <1>7 DEF Limited
<1> QED
  BY <1>2, <1>3, <1>4, <1>5, <1>6, <1>7 DEF Next, Handle, Elsewhere, Finished, Elapse, vars

(***************************************************************************)
(* The scan of the routing table.                                          *)
(***************************************************************************)

\* The invariants of the scan for one request.
Search(r) ==
    /\ job[r].pc \in Waiting => job[r].i = 1 /\ job[r].pathFound = FALSE
    /\ job[r].pc \in {"scan", "guard"} => \A k \in 1..(job[r].i - 1) : k \notin Mine(r)
    /\ job[r].pc = "scan" =>
           /\ job[r].i <= Len(routes) + 1
           /\ job[r].pathFound <=> \E k \in 1..(job[r].i - 1) : k \in Hits(r)
    /\ job[r].pc = "guard" => job[r].i \in Mine(r)
    /\ job[r].pc # "done" => job[r].by = 0 /\ job[r].status = 200
    /\ job[r].by # 0 => job[r].status # 429

Routed(r) ==
    job[r].pc = "done" /\ job[r].status # 429 =>
        IF Mine(r) # {}
        THEN job[r].by = Min(Mine(r)) \/ (job[r].by = 0 /\ job[r].status = 401)
        ELSE job[r].by = 0 /\ job[r].status = IF Hits(r) # {} THEN 405 ELSE 404

LEMMA SearchIs == (Searching <=> \A r \in Requests : Search(r)) /\ (RoutedRight <=> \A r \in Requests : Routed(r))
  BY DEF Searching, RoutedRight, Search, Routed

\* An untouched request keeps both.
LEMMA SearchKept ==
    ASSUME NEW q \in Requests, routes' = routes, job'[q] = job[q], Search(q), Routed(q)
    PROVE  Search(q)' /\ Routed(q)'
<1>1. Hits(q)' = Hits(q) /\ Mine(q)' = Mine(q)
  BY SameHits
<1> QED
  BY <1>1 DEF Search, Routed

\* One step further in the table.
LEMMA ScanOn ==
    ASSUME TypeInv, NEW r \in Requests, Search(r), job[r].pc = "scan", job[r].i <= Len(routes),
           job[r].i \notin Mine(r), routes' = routes,
           job'[r].pc = "scan", job'[r].i = job[r].i + 1, job'[r].by = job[r].by,
           job'[r].path = job[r].path, job'[r].method = job[r].method, job'[r].status = job[r].status,
           job'[r].pathFound <=> (job[r].pathFound \/ job[r].i \in Hits(r))
    PROVE  Search(r)' /\ Routed(r)'
<1>1. Hits(r)' = Hits(r) /\ Mine(r)' = Mine(r)
  BY SameHits
<1>2. job[r].i \in Nat \ {0} /\ Len(routes) \in Nat
  BY RoutesSeq DEF TypeInv, JobType
<1>3. \A k : k \in 1..(job'[r].i - 1) <=> k \in 1..(job[r].i - 1) \/ k = job[r].i
  BY <1>2
<1>4. \A k \in 1..(job'[r].i - 1) : k \notin Mine(r)
  BY <1>3 DEF Search
<1>5. job'[r].pathFound <=> \E k \in 1..(job'[r].i - 1) : k \in Hits(r)
  BY <1>3 DEF Search
<1>6. job'[r].i <= Len(routes) + 1
  BY <1>2
<1>7. job'[r].by = 0 /\ job'[r].status = 200
  BY DEF Search
<1> QED
  BY <1>1, <1>4, <1>5, <1>6, <1>7 DEF Search, Routed, Waiting

\* Up to the first route there is nothing to remember.
LEMMA ScanNotBegun ==
    ASSUME TypeInv, NEW r \in Requests, Search(r), job[r].pc \in Waiting, routes' = routes,
           job'[r].pc \in Waiting \cup {"scan"}, job'[r].i = job[r].i, job'[r].pathFound = job[r].pathFound,
           job'[r].by = job[r].by, job'[r].status = job[r].status
    PROVE  Search(r)' /\ Routed(r)'
<1>1. /\ job'[r].i = 1 /\ job'[r].pathFound = FALSE /\ job'[r].by = 0 /\ job'[r].status = 200
      /\ Len(routes) \in Nat /\ job'[r].pc # "done" /\ job'[r].pc # "guard"
  BY RoutesSeq DEF Search, Waiting
<1>2. \A k : k \notin 1..(job'[r].i - 1)
  BY <1>1
<1>3. job'[r].i <= Len(routes') + 1
  BY <1>1
<1> QED
  BY <1>1, <1>2, <1>3 DEF Search, Routed

\* The steps up to the scan.
LEMMA WaitingStep ==
    ASSUME TypeInv, NEW r \in Requests, Search(r),
           \/ \E m \in Methods, p \in Paths, c \in Clients, t \in BOOLEAN : Arrive(r, m, p, c, t)
           \/ RunGlobal(r) \/ GlobalsDone(r) \/ Incr(r) \/ SetExpire(r) \/ RedisFails(r) \/ Compare(r)
    PROVE  Search(r)' /\ Routed(r)'
<1> DEFINE Same == /\ routes' = routes /\ job'[r].i = job[r].i /\ job'[r].pathFound = job[r].pathFound
                   /\ job'[r].by = job[r].by /\ job'[r].status = job[r].status
                   /\ job[r].pc \in Waiting /\ job'[r].pc \in Waiting \cup {"scan"}
<1>1. ASSUME NEW m \in Methods, NEW p \in Paths, NEW c \in Clients, NEW t \in BOOLEAN, Arrive(r, m, p, c, t)
      PROVE  Same
  BY <1>1 DEF Arrive, TypeInv, Shape, Waiting
<1>2. CASE RunGlobal(r)
  <2>1. Same
    BY <1>2, RunGlobalIs DEF Stays, Asked, Waiting
  <2> QED
    BY <2>1, ScanNotBegun
<1>3. CASE GlobalsDone(r)
  <2>1. Same
    BY <1>3 DEF GlobalsDone, TypeInv, Shape, Waiting
  <2> QED
    BY <2>1, ScanNotBegun
<1>4. CASE Incr(r)
  <2>1. Same
    BY <1>4 DEF Incr, TypeInv, Shape, Waiting
  <2> QED
    BY <2>1, ScanNotBegun
<1>5. CASE SetExpire(r)
  <2>1. Same
    BY <1>5 DEF SetExpire, TypeInv, Shape, Waiting
  <2> QED
    BY <2>1, ScanNotBegun
<1>6. CASE RedisFails(r)
  <2>1. Same
    BY <1>6 DEF RedisFails, Passed, TypeInv, Shape, Waiting
  <2> QED
    BY <2>1, ScanNotBegun
<1>7. CASE Compare(r) /\ Passed(r)
  <2>1. Same
    BY <1>7 DEF Compare, Passed, TypeInv, Shape, Waiting
  <2> QED
    BY <2>1, ScanNotBegun
<1>8. CASE Compare(r) /\ Respond(r, 429)
  <2>1. job'[r].pc = "done" /\ job'[r].status = 429 /\ job'[r].by = job[r].by /\ job[r].pc = "compare"
    BY <1>8 DEF Compare, Respond, TypeInv, Shape
  <2>2. job'[r].by = 0
    BY <2>1 DEF Search
  <2> QED
    BY <2>1, <2>2 DEF Search, Routed, Waiting
<1> HIDE DEF Same
<1>9. Compare(r) => Passed(r) \/ Respond(r, 429)
  BY DEF Compare
<1>10. ASSUME \E m \in Methods, p \in Paths, c \in Clients, t \in BOOLEAN : Arrive(r, m, p, c, t)
       PROVE  Search(r)' /\ Routed(r)'
  <2>1. Same
    BY <1>1, <1>10
  <2> QED
    BY <2>1, ScanNotBegun DEF Same
<1> QED
  BY <1>2, <1>3, <1>4, <1>5, <1>6, <1>7, <1>8, <1>9, <1>10

\* The steps of the scan itself.
LEMMA ScanStep ==
    ASSUME TypeInv, NEW r \in Requests, Search(r),
           ScanNoMatch(r) \/ ScanOtherMethod(r) \/ ScanFound(r) \/ ScanEnd(r)
    PROVE  Search(r)' /\ Routed(r)'
<1> DEFINE i == job[r].i
<1>1. i \in Nat \ {0} /\ Len(routes) \in Nat
  BY RoutesSeq DEF TypeInv, JobType
<1>2. ASSUME Scanning(r)
      PROVE  /\ job[r].pc = "scan" /\ i <= Len(routes)
             /\ Matches(Route(r), job[r].path) <=> i \in Hits(r)
  <2>1. i \in 1..Len(routes)
    BY <1>1, <1>2 DEF Scanning
  <2> HIDE DEF i
  <2>2. Matches(routes[i], job[r].path) <=> i \in Hits(r)
    BY <2>1, MatchesHits
  <2> QED
    BY <1>2, <2>2 DEF Scanning, Route, i
<1>3. \A k : k \in Mine(r) <=> k \in Hits(r) /\ routes[k].method = job[r].method
  BY DEF Mine
<1>4. CASE ScanNoMatch(r)
  <2>1. /\ routes' = routes /\ job'[r].pc = "scan" /\ job'[r].i = i + 1 /\ job'[r].by = job[r].by
        /\ job'[r].path = job[r].path /\ job'[r].method = job[r].method /\ job'[r].status = job[r].status
        /\ job'[r].pathFound = job[r].pathFound
    BY <1>4 DEF ScanNoMatch, Scanning, TypeInv, Shape
  <2>2. i \notin Hits(r) /\ i \notin Mine(r)
    BY <1>2, <1>3, <1>4 DEF ScanNoMatch
  <2> QED
    BY <1>2, <1>4, <2>1, <2>2, ScanOn DEF ScanNoMatch
<1>5. CASE ScanOtherMethod(r)
  <2>1. /\ routes' = routes /\ job'[r].pc = "scan" /\ job'[r].i = i + 1 /\ job'[r].by = job[r].by
        /\ job'[r].path = job[r].path /\ job'[r].method = job[r].method /\ job'[r].status = job[r].status
        /\ job'[r].pathFound = TRUE
    BY <1>5 DEF ScanOtherMethod, Scanning, TypeInv, Shape
  <2>2. i \in Hits(r) /\ i \notin Mine(r)
    BY <1>2, <1>3, <1>5 DEF ScanOtherMethod, Route
  <2> QED
    BY <1>2, <1>5, <2>1, <2>2, ScanOn DEF ScanOtherMethod
<1>6. CASE ScanFound(r)
  <2>1. /\ routes' = routes /\ job'[r].pc = "guard" /\ job'[r].i = i /\ job'[r].by = job[r].by
        /\ job'[r].path = job[r].path /\ job'[r].method = job[r].method /\ job'[r].status = job[r].status
    BY <1>6 DEF ScanFound, Scanning, TypeInv, Shape
  <2>2. i \in Mine(r) /\ job[r].pc = "scan"
    BY <1>2, <1>3, <1>6 DEF ScanFound, Route
  <2>3. Mine(r)' = Mine(r)
    BY <2>1, SameHits
  <2> QED
    BY <2>1, <2>2, <2>3 DEF Search, Routed, Waiting
<1>7. CASE ScanEnd(r)
  <2>1. /\ routes' = routes /\ job'[r].pc = "done" /\ job'[r].by = job[r].by
        /\ job'[r].path = job[r].path /\ job'[r].method = job[r].method
        /\ job'[r].status = IF job[r].pathFound THEN 405 ELSE 404
        /\ job[r].pc = "scan" /\ i > Len(routes)
    BY <1>7 DEF ScanEnd, Respond, TypeInv, Shape
  <2>2. Hits(r)' = Hits(r) /\ Mine(r)' = Mine(r)
    BY <2>1, SameHits
  <2>3. \A k \in Hits(r) : k \in 1..(i - 1)
    BY <1>1, <2>1 DEF Hits
  <2>4. Mine(r) = {} /\ (job[r].pathFound <=> Hits(r) # {}) /\ job[r].by = 0
    BY <1>3, <2>1, <2>3 DEF Search
  <2> QED
    BY <2>1, <2>2, <2>4 DEF Search, Routed, Waiting
<1> QED
  BY <1>4, <1>5, <1>6, <1>7

\* The steps behind it.
LEMMA GuardStep ==
    ASSUME TypeInv, NEW r \in Requests, Search(r), RunGuard(r) \/ CallHandler(r)
    PROVE  Search(r)' /\ Routed(r)'
<1> DEFINE i == job[r].i
<1>1. job[r].pc = "guard"
  BY DEF RunGuard, CallHandler
<1>2. i \in Mine(r) /\ (\A k \in 1..(i - 1) : k \notin Mine(r)) /\ job[r].by = 0 /\ job[r].status = 200
  BY <1>1 DEF Search
<1>3. CASE RunGuard(r)
  <2>1. /\ routes' = routes /\ job'[r].i = i /\ job'[r].by = job[r].by
        /\ job'[r].path = job[r].path /\ job'[r].method = job[r].method
        /\ \/ job'[r].pc = "guard" /\ job'[r].status = job[r].status
           \/ job'[r].pc = "done" /\ job'[r].status = 401
    BY <1>1, <1>3, RunGuardIs DEF Stays, Asked
  <2>2. Mine(r)' = Mine(r)
    BY <2>1, SameHits
  <2> QED
    BY <1>2, <2>1, <2>2 DEF Search, Routed, Waiting
<1>4. CASE CallHandler(r)
  <2>1. PICK status \in Answers(Route(r), job[r].path) :
            job' = [job EXCEPT ![r] = [@ EXCEPT !.pc = "done", !.status = status, !.by = job[r].i]]
    BY <1>4 DEF CallHandler
  <2>2. status # 429
    BY <2>1 DEF Answers
  <2>3. /\ routes' = routes /\ job'[r].by = i /\ job'[r].pc = "done" /\ job'[r].status = status
        /\ job'[r].path = job[r].path /\ job'[r].method = job[r].method
    <3>1. routes' = routes
      BY <1>4 DEF CallHandler
    <3> QED
      BY <2>1, <3>1 DEF TypeInv, Shape
  <2>4. Mine(r)' = Mine(r)
    BY <2>3, SameHits
  <2>5. Mine(r) \subseteq Nat \ {0}
    BY RoutesSeq DEF Mine, Hits
  <2>6. i = Min(Mine(r))
    <3> HIDE DEF i
    <3> QED
      BY <1>2, <2>5, MinIs
  <2> QED
    BY <1>2, <2>2, <2>3, <2>4, <2>6 DEF Search, Routed, Waiting
<1> QED
  BY <1>3, <1>4

\* The search is kept by every step.
LEMMA SearchStep ==
    TypeInv /\ Searching /\ RoutedRight /\ [Next]_vars => Searching' /\ RoutedRight'
<1> SUFFICES ASSUME TypeInv, Searching, RoutedRight, [Next]_vars PROVE Searching' /\ RoutedRight'
  OBVIOUS
<1>1. \A q \in Requests : Search(q) /\ Routed(q)
  BY SearchIs
<1>2. SUFFICES \A q \in Requests : Search(q)' /\ Routed(q)'
  BY DEF Searching, RoutedRight, Search, Routed
<1>3. ASSUME NEW r \in Requests,
             Handle(r) \/ \E m \in Methods, p \in Paths, c \in Clients, t \in BOOLEAN : Arrive(r, m, p, c, t)
      PROVE  \A q \in Requests : Search(q)' /\ Routed(q)'
  <2>1. Search(r)' /\ Routed(r)'
    BY <1>1, <1>3, WaitingStep, ScanStep, GuardStep DEF Handle
  <2>2. \A q \in Requests \ {r} : job'[q] = job[q]
    BY <1>3, OneMoves
  <2>3. routes' = routes
    BY <1>3 DEF Handle, Arrive, RunGlobal, GlobalsDone, Incr, SetExpire, RedisFails, Compare, ScanNoMatch,
                ScanOtherMethod, ScanFound, ScanEnd, RunGuard, CallHandler
  <2> QED
    BY <1>1, <2>1, <2>2, <2>3, SearchKept
<1>4. CASE UNCHANGED <<routes, job>>
  BY <1>1, <1>4, SearchKept
<1> QED
  BY <1>3, <1>4 DEF Next, Elapse, Finished, vars

(***************************************************************************)
(* Guards and parameters.                                                  *)
(***************************************************************************)

\* setParam binds every parameter of the pattern to a segment of the path that
\* stands where the pattern has the name, the last one if it has it twice.
LEMMA SetParamsBinds ==
    ASSUME NEW pattern \in Seq(STRING), NEW path \in Seq(STRING), NEW params, pattern # path,
           NEW k \in 1..Len(SplitPath(pattern)), SplitPath(pattern)[k] \in ParamNames
    PROVE  LET ps == SplitPath(pattern)
               new == SetParams(params, pattern, path)
           IN  /\ ps[k] \in DOMAIN new
               /\ \E l \in k..Len(ps) : ps[l] = ps[k] /\ new[ps[k]] = SplitPath(path)[l]
<1> DEFINE ps == SplitPath(pattern)
           places(n) == {j \in 1..Len(ps) : ps[j] = n}
           names == {n \in ParamNames : places(n) # {}}
           new == SetParams(params, pattern, path)
           n0 == ps[k]
           l0 == Max(places(n0))
<1>1. ps \in Seq(STRING) /\ Len(ps) \in Nat
  BY SplitPathType
<1>2. new = [n \in DOMAIN params \cup names |->
                 IF n \in names THEN SplitPath(path)[Max(places(n))] ELSE params[n]]
  BY DEF SetParams
<1>3. k \in places(n0) /\ places(n0) \subseteq 1..Len(ps)
  OBVIOUS
<1>4. n0 \in names
  BY <1>3
<1>5. l0 \in places(n0) /\ k <= l0
  <2> HIDE DEF ps, places, n0
  <2> QED
    BY <1>1, <1>3, MaxOf
<1>6. l0 \in k..Len(ps) /\ ps[l0] = ps[k]
  <2>1. l0 \in 1..Len(ps) /\ ps[l0] = n0
    BY <1>5
  <2> HIDE DEF l0
  <2> QED
    BY <1>1, <1>5, <2>1
<1>7. n0 \in DOMAIN new /\ new[n0] = SplitPath(path)[l0]
  <2> HIDE DEF names, new, places, n0
  <2> QED
    BY <1>2, <1>4
<1> HIDE DEF l0
<1> QED
  BY <1>6, <1>7

\* The guards and the parameters of one request.
Bound(r) ==
    /\ job[r].pc = "guard" => ParamsOf(r, job[r].i) /\ (job[r].j > 1 => job[r].token)
    /\ job[r].by # 0 =>
           /\ ParamsOf(r, job[r].by)
           /\ routes[job[r].by].middlewares # << >> => job[r].token

\* Before a route is found nothing is bound.
LEMMA NotYetBound ==
    ASSUME TypeInv, NEW r \in Requests, Search(r),
           \/ \E m \in Methods, p \in Paths, c \in Clients, t \in BOOLEAN : Arrive(r, m, p, c, t)
           \/ RunGlobal(r) \/ GlobalsDone(r) \/ Incr(r) \/ SetExpire(r) \/ RedisFails(r) \/ Compare(r)
           \/ ScanNoMatch(r) \/ ScanOtherMethod(r) \/ ScanEnd(r)
    PROVE  Bound(r)'
<1> DEFINE Quiet == job[r].pc \notin {"guard", "done"} /\ job'[r].pc # "guard" /\ job'[r].by = job[r].by
<1> SUFFICES Quiet
  BY DEF Search, Bound
<1> USE DEF TypeInv, Shape
<1>1. ASSUME NEW m \in Methods, NEW p \in Paths, NEW c \in Clients, NEW t \in BOOLEAN, Arrive(r, m, p, c, t)
      PROVE  Quiet
  BY <1>1 DEF Arrive
<1>2. CASE RunGlobal(r)
  BY <1>2, RunGlobalIs DEF Stays, Asked
<1>3. CASE GlobalsDone(r)
  BY <1>3 DEF GlobalsDone
<1>4. CASE Incr(r)
  BY <1>4 DEF Incr
<1>5. CASE SetExpire(r)
  BY <1>5 DEF SetExpire
<1>6. CASE RedisFails(r)
  BY <1>6, RedisFailsIs DEF Asked
<1>7. CASE Compare(r)
  BY <1>7, CompareIs DEF Stays, Asked
<1>8. CASE ScanNoMatch(r)
  BY <1>8 DEF ScanNoMatch, Scanning
<1>9. CASE ScanOtherMethod(r)
  BY <1>9 DEF ScanOtherMethod, Scanning
<1>10. CASE ScanEnd(r)
  BY <1>10 DEF ScanEnd, Respond
<1> QED
  BY <1>1, <1>2, <1>3, <1>4, <1>5, <1>6, <1>7, <1>8, <1>9, <1>10

\* The route that is found binds its parameters.
LEMMA FoundBound ==
    ASSUME TypeInv, NEW r \in Requests, Search(r), ScanFound(r)
    PROVE  Bound(r)'
<1> DEFINE i == job[r].i
           path == job[r].path
<1>1. /\ routes' = routes /\ job'[r].pc = "guard" /\ job'[r].i = i /\ job'[r].j = 1
      /\ job'[r].by = job[r].by /\ job'[r].path = path /\ job'[r].params = ParamsAfter(r)
  BY DEF ScanFound, TypeInv, Shape
<1>2. job[r].pc = "scan" /\ i \in 1..Len(routes)
  BY RoutesSeq DEF ScanFound, Scanning, TypeInv, JobType
<1>3. routes[i].path \in Seq(STRING) /\ path \in Seq(STRING)
  <2> HIDE DEF i
  <2> QED
    BY <1>2, MatchesHits DEF TypeInv, JobType
<1>4. ~routes[i].isPrefix => job'[r].params = SetParams(job[r].params, routes[i].path, path)
  BY <1>1 DEF ParamsAfter, Route
<1>5. ParamsOf(r, i)'
  <2> DEFINE ps == SplitPath(routes[i].path)
  <2>1. SUFFICES ASSUME ~routes[i].isPrefix, routes[i].path # path,
                        NEW k \in 1..Len(ps), ps[k] \in ParamNames
                 PROVE  /\ ps[k] \in DOMAIN job'[r].params
                        /\ \E l \in k..Len(ps) :
                               ps[l] = ps[k] /\ job'[r].params[ps[k]] = SplitPath(path)[l]
    BY <1>1 DEF ParamsOf
  <2> HIDE DEF i, path
  <2> QED
    BY <1>3, <1>4, <2>1, SetParamsBinds
<1>6. job[r].by = 0
  BY <1>2 DEF Search
<1> QED
  BY <1>1, <1>5, <1>6 DEF Bound

\* Nothing of it changes on the way to the handler.
LEMMA StaysBound ==
    ASSUME TypeInv, NEW r \in Requests, Search(r), Bound(r), RunGuard(r) \/ CallHandler(r)
    PROVE  Bound(r)'
<1> DEFINE i == job[r].i
<1>1. job[r].pc = "guard"
  BY DEF RunGuard, CallHandler
<1>2. job[r].by = 0 /\ ParamsOf(r, i) /\ (job[r].j > 1 => job[r].token) /\ i \in 1..Len(routes)
  BY <1>1 DEF Search, Bound, Mine, Hits
<1>3. routes[i].middlewares \in Seq(STRING) /\ job[r].j \in Nat \ {0}
  <2> HIDE DEF i
  <2> QED
    BY <1>2, MatchesHits DEF TypeInv, JobType
<1>4. CASE RunGuard(r)
  <2>1. /\ routes' = routes /\ job'[r].i = i /\ job'[r].by = job[r].by /\ job'[r].path = job[r].path
        /\ job'[r].params = job[r].params /\ job'[r].token = job[r].token
        /\ job'[r].pc = "done" \/ job[r].token
    BY <1>4, RunGuardIs DEF Stays, Asked
  <2>2. ParamsOf(r, i)'
    BY <1>2, <2>1 DEF ParamsOf
  <2> QED
    BY <1>2, <2>1, <2>2 DEF Bound
<1>5. CASE CallHandler(r)
  <2>1. PICK status \in Answers(Route(r), job[r].path) :
            job' = [job EXCEPT ![r] = [@ EXCEPT !.pc = "done", !.status = status, !.by = job[r].i]]
    BY <1>5 DEF CallHandler
  <2>2. routes' = routes /\ job[r].j > Len(routes[i].middlewares)
    BY <1>5 DEF CallHandler, Route
  <2>3. /\ job'[r].by = i /\ job'[r].i = i /\ job'[r].path = job[r].path /\ job'[r].pc = "done"
        /\ job'[r].params = job[r].params /\ job'[r].token = job[r].token
    BY <2>1 DEF TypeInv, Shape
  <2>4. ParamsOf(r, i)'
    BY <1>2, <2>2, <2>3 DEF ParamsOf
  <2>5. routes[i].middlewares # << >> => job[r].j > 1
    <3> HIDE DEF i
    <3>1. ASSUME routes[i].middlewares # << >> PROVE Len(routes[i].middlewares) \in Nat \ {0}
      BY <1>3, <3>1, EmptySeq
    <3> QED
      BY <1>3, <2>2, <3>1
  <2> QED
    BY <1>2, <2>2, <2>3, <2>4, <2>5 DEF Bound
<1> QED
  BY <1>4, <1>5

\* Guards and parameters are kept by every step.
LEMMA BoundStep ==
    TypeInv /\ Searching /\ Guarding /\ Binding /\ [Next]_vars => Guarding' /\ Binding'
<1> SUFFICES ASSUME TypeInv, Searching, Guarding, Binding, [Next]_vars PROVE Guarding' /\ Binding'
  OBVIOUS
<1>1. \A q \in Requests : Search(q) /\ Bound(q)
  BY SearchIs DEF Guarding, Binding, Bound
<1>2. SUFFICES \A q \in Requests : Bound(q)'
  BY DEF Guarding, Binding, Bound
<1>3. ASSUME NEW q \in Requests, routes' = routes, job'[q] = job[q] PROVE Bound(q)'
  <2>1. \A n : ParamsOf(q, n)' <=> ParamsOf(q, n)
    BY <1>3 DEF ParamsOf
  <2> QED
    BY <1>1, <1>3, <2>1 DEF Bound
<1>4. ASSUME NEW r \in Requests,
             Handle(r) \/ \E m \in Methods, p \in Paths, c \in Clients, t \in BOOLEAN : Arrive(r, m, p, c, t)
      PROVE  \A q \in Requests : Bound(q)'
  <2>1. Bound(r)'
    BY <1>1, <1>4, NotYetBound, FoundBound, StaysBound DEF Handle
  <2>2. \A q \in Requests \ {r} : job'[q] = job[q]
    BY <1>4, OneMoves
  <2>3. routes' = routes
    BY <1>4 DEF Handle, Arrive, RunGlobal, GlobalsDone, Incr, SetExpire, RedisFails, Compare, ScanNoMatch,
                ScanOtherMethod, ScanFound, ScanEnd, RunGuard, CallHandler
  <2> QED
    BY <1>3, <2>1, <2>2, <2>3
<1>5. CASE UNCHANGED <<routes, job>>
  BY <1>3, <1>5
<1> QED
  BY <1>4, <1>5 DEF Next, Elapse, Finished, vars

(***************************************************************************)
(* The theorems.                                                           *)
(***************************************************************************)

\* The inductive invariant holds initially.
LEMMA InvInit == Init => IInv
<1> SUFFICES ASSUME Init PROVE IInv
  OBVIOUS
<1>1. TypeInv
  BY TypeInit
<1>2. ASSUME NEW r \in Requests
      PROVE  /\ job[r].pc = "idle" /\ job[r].i = 1 /\ job[r].pathFound = FALSE /\ job[r].status = 200
             /\ job[r].by = 0 /\ job[r].count = 0
  BY DEF Init
<1>3. \A c \in Clients : redis[c].count = 0
  BY DEF Init
<1>4. Counting
  <2>1. \A r \in Requests : job[r].count = 0
    BY <1>2
  <2> QED
    BY <2>1 DEF Counting
<1>5. Limited
  <2>1. \A r \in Requests : job[r].count = 0 /\ job[r].pc = "idle"
    BY <1>2
  <2> QED
    BY <2>1, MaxRequestsPositive DEF Limited
<1>6. KeyWillExpire
  BY <1>3 DEF KeyWillExpire
<1>7. Searching
  BY <1>2, ZenonT(60) DEF Searching, Waiting
<1>8. Guarding /\ Binding
  BY <1>2 DEF Guarding, Binding
<1>9. RoutedRight
  <2>1. \A r \in Requests : job[r].pc # "done"
    BY <1>2
  <2> QED
    BY <2>1 DEF RoutedRight
<1> QED
  BY <1>1, <1>4, <1>5, <1>6, <1>7, <1>8, <1>9 DEF IInv

\* Every behaviour of handle keeps the inductive invariant.
THEOREM Invariance == Spec => []IInv
<1>1. IInv /\ [Next]_vars => IInv'
  BY TypeStep, CountingStep, LimitedStep, ExpiryStep, SearchStep, BoundStep DEF IInv
<1> QED
  BY InvInit, <1>1, PTL DEF Spec

\* Router::handle: for every table and every request, whatever the middlewares
\* and the other requests do, the answer comes from the first route that has the
\* path and the method, or it is 401, 405, 404 or 429 as it should be.
THEOREM RoutedRightHolds == Spec => []RoutedRight
<1>1. IInv => RoutedRight
  BY DEF IInv
<1> QED
  BY Invariance, <1>1, PTL

\* Router::handle: no handler behind a guard is called for a request without a
\* valid token, and none behind the limiter for one that is over the limit.
THEOREM HandlersGuardedHolds == Spec => []HandlersGuarded
<1>1. IInv => HandlersGuarded
  <2> SUFFICES ASSUME IInv, NEW r \in Requests, job[r].by # 0
               PROVE  /\ routes[job[r].by].middlewares # << >> => job[r].token
                      /\ job[r].count <= MaxRequests
    BY DEF HandlersGuarded
  <2>1. job[r].pc = "done" /\ job[r].status # 429
    BY DEF IInv, Searching
  <2> QED
    BY <2>1 DEF IInv, Guarding, Limited
<1> QED
  BY Invariance, <1>1, PTL

\* Router::matchDynamicPath: the handler that is called finds every parameter of
\* its own route bound to a segment of its own path.
THEOREM ParamsRightHolds == Spec => []ParamsRight
<1>1. IInv => ParamsRight
  BY DEF IInv, Binding, ParamsRight, ParamsOf
<1> QED
  BY Invariance, <1>1, PTL

\* RateLimiter: at most max_requests requests of a client pass in one window,
\* and every counter gets its time to live unless a Redis call failed.
THEOREM LimiterInvHolds == Spec => []LimiterInv
<1>1. IInv => LimiterInv
  <2> SUFFICES ASSUME IInv, NEW c \in Clients, NEW n \in 0..Cardinality(Requests)
               PROVE  Cardinality(Admitted(c, n)) <= MaxRequests
    BY DEF IInv, LimiterInv, WithinLimit
  <2> DEFINE A == Admitted(c, n)
             number == [r \in A |-> job[r].count]
  <2>1. \A r \in A : job[r].count \in 1..MaxRequests
    BY MaxRequestsPositive DEF IInv, Limited, TypeInv, JobType, Admitted
  <2>2. \A r, q \in A : r # q => job[r].count # job[q].count
    BY DEF IInv, Counting, Admitted
  <2>3. number \in Injection(A, 1..MaxRequests)
    <3> HIDE DEF A
    <3> QED
      BY <2>1, <2>2 DEF Injection, IsInjective
  <2>4. IsFiniteSet(1..MaxRequests) /\ Cardinality(1..MaxRequests) = MaxRequests
    BY MaxRequestsPositive, FS_Interval
  <2> HIDE DEF A, number
  <2>5. Cardinality(A) <= Cardinality(1..MaxRequests)
    BY <2>3, <2>4, FS_Injection
  <2> QED
    BY <2>4, <2>5 DEF A
<1> QED
  BY Invariance, <1>1, PTL
============================================================================
