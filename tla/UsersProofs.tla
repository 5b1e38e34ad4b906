---------------------------- MODULE UsersProofs ----------------------------
(***************************************************************************)
(* Proofs about Users for every collection, every number of requests and   *)
(* entries of the pool, and every set of payloads.                         *)
(***************************************************************************)
EXTENDS Users, NatLemmas, FiniteSetTheorems, SequenceTheorems, TLAPS

(***************************************************************************)
(* The inductive invariant.                                                *)
(***************************************************************************)

\* The documents of a collection stand in the order of their ids.
InOrder(coll) ==
    /\ \A i \in 1..Len(coll) : "_id" \in DOMAIN coll[i] /\ coll[i]["_id"] \in Nat
    /\ \A i, j \in 1..Len(coll) : i < j => coll[i]["_id"] < coll[j]["_id"]

Collection ==
    /\ docs \in Seq(ever) /\ next \in Nat \ {0}
    /\ InOrder(docs)
    /\ \A i \in 1..Len(docs) : docs[i]["_id"] < next

\* The jobs are a table of records, and a request that has come asks something.
Fields == {"pc", "ask", "bearer", "found", "status", "rows", "at", "did", "failed", "made"}
Places == {"idle", "auth", "check", "command", "cursor", "return", "verify", "done"}

JobType ==
    /\ DOMAIN job = Requests
    /\ \A r \in Requests :
           /\ DOMAIN job[r] = Fields
           /\ job[r].pc \in Places
           /\ job[r].pc # "idle" => job[r].ask \in Asks
           /\ job[r].bearer \in 0..Len(tokens)
           /\ job[r].at \in Seq(ever) /\ InOrder(job[r].at)

\* An id is made once.
MadeOnce ==
    \A r \in Requests :
        /\ job[r].made \in Nat /\ job[r].made < next
        /\ job[r].made # 0 => \A q \in Requests \ {r} : job[q].made # job[r].made

\* Until the command has run there is no result,
Fresh(r) ==
    job[r].pc \in {"idle", "auth", "check", "command"} =>
        /\ job[r].found = << >> /\ job[r].rows = << >> /\ job[r].at = << >>
        /\ job[r].status = 0 /\ job[r].did = FALSE /\ job[r].failed = FALSE

\* The user made for request a, and where he was not before.
Created(a, at, made) ==
    /\ made # 0 /\ WithId(at, made) = {}
    /\ \E d \in ever : /\ d["_id"] = made
                       /\ d["name"] = a.body.fields["name"] /\ "password_hash" \in DOMAIN d
                       /\ VerifyPassword(a.body.fields["password"], d["password_hash"])
                       /\ RoleOf(d) = RoleAsked(a)

\* then there are the documents it found in the collection as it was,
Ran(r) ==
    LET a == job[r].ask
        found == job[r].found
        mine == WithId(job[r].at, a.id)
    IN  job[r].pc = "return" /\ a.op # "list" =>
            /\ job[r].failed => found = << >>
            /\ ~job[r].failed => (job[r].did <=> found # << >>)
            /\ a.op = "create" /\ found # << >> => Created(a, job[r].at, job[r].made)
            /\ a.op = "login" /\ found # << >> =>
                   \E d \in ever : found = <<d>> /\ d["name"] = a.body.fields["name"]
            /\ a.op \in {"get", "update", "delete"} =>
                   \/ /\ found = << >>
                      /\ \/ job[r].failed
                         \/ mine = {}
                         \/ a.op = "update" /\ \A i \in mine : MayReject(a, job[r].at[i])
                   \/ \E i \in mine : found = <<job[r].at[i]>>

\* and a login goes on with the one it found.
Verifying(r) ==
    job[r].pc = "verify" =>
        /\ job[r].ask.op = "login"
        /\ \E d \in ever : /\ job[r].found = <<d>> /\ d["name"] = job[r].ask.body.fields["name"]
                           /\ "password_hash" \in DOMAIN d

\* What is known of the collection while a cursor is open,
HasIds(S) == IsFiniteSet(S) /\ \A d \in S : "_id" \in DOMAIN d /\ d["_id"] \in Nat

Seen(r) ==
    /\ DOMAIN view[r] = {"during", "stay"}
    /\ HasIds(view[r].during) /\ view[r].stay \subseteq Nat
    /\ job[r].pc = "cursor" => /\ job[r].ask.op = "list"
                               /\ ToSetOf(docs) \subseteq view[r].during
                               /\ view[r].stay \subseteq Ids(docs)

\* and of the documents it has passed: they are in order, there are not too many
\* of them, and those who stayed are among them or behind them.
Passed(p, found, during, stay) ==
    /\ found \in Seq(during)
    /\ \A k, l \in 1..Len(found) : k < l => Before(p, found[k]["_id"], found[l]["_id"])
    /\ p.limit > 0 => Len(found) <= Skip(p) + p.limit
    /\ \A id \in stay : \/ \E k \in 1..Len(found) : found[k]["_id"] = id
                        \/ \A k \in 1..Len(found) : Before(p, found[k]["_id"], id)

\* Why the cursor has been left.
Ended(p, found, during, stay, failed) ==
    \/ Full(p, Len(found))
    \/ failed
    \/ \E d \in during : ~Listable(d)
    \/ \A id \in stay : \E k \in 1..Len(found) : found[k]["_id"] = id

Looking(r) ==
    job[r].ask.op = "list" /\ job[r].pc \in {"cursor", "return"} =>
        /\ Passed(job[r].ask.page, job[r].found, view[r].during, view[r].stay)
        /\ job[r].pc = "return" =>
               Ended(job[r].ask.page, job[r].found, view[r].during, view[r].stay, job[r].failed)

\* A guarded operation went through requireAuth.
Carried(r) ==
    job[r].ask.op \in Guarded =>
        job[r].pc \in {"idle", "auth"} \/ (Done(r) /\ job[r].status = 401) \/ job[r].bearer # 0

\* The answer of one request is what AnswersTruthful
Truthful(r) ==
    Done(r) =>
        LET a == job[r].ask
            s == job[r].status
            at == job[r].at
            mine == WithId(at, a.id)
        IN  /\ a.op \in {"create", "update", "delete"} /\ ~job[r].failed
                   => (job[r].did <=> s \in {200, 201})
            /\ a.op \in {"create", "update", "delete"} /\ s \in {200, 201} => job[r].did
            /\ s = 201 => Created(a, at, job[r].made)
            /\ s = 404 => \/ job[r].failed
                          \/ \A i \in mine : \/ a.op = "get" /\ ~Readable(at[i])
                                             \/ a.op = "update" /\ MayReject(a, at[i])
            /\ a.op = "get" /\ s = 200 => \E i \in mine : job[r].rows = <<SafeJson(at[i])>>

\* and ListsRight say.
Ahead(p, rows, id) == \A k \in DOMAIN rows : Before(p, id, rows[k]._id)
Behind(p, rows, id) == \A k \in DOMAIN rows : Before(p, rows[k]._id, id)

RowsRight(p, rows, during, stay, failed) ==
    /\ \A k \in DOMAIN rows : \E d \in during : rows[k] = SafeJson(d)
    /\ \A k, l \in DOMAIN rows : k < l => Before(p, rows[k]._id, rows[l]._id)
    /\ p.limit > 0 => Len(rows) <= p.limit
    /\ rows # << >> => Cardinality({id \in {d["_id"] : d \in during} : Ahead(p, rows, id)}) >= Skip(p)
    /\ \A id \in stay :
           \/ \E k \in DOMAIN rows : rows[k]._id = id
           \/ Ahead(p, rows, id) /\ Cardinality({i \in stay : Ahead(p, rows, i)}) <= Skip(p)
           \/ /\ Behind(p, rows, id)
              /\ \/ p.limit > 0 /\ Len(rows) = p.limit
                 \/ failed
                 \/ \E d \in during : ~Listable(d)

Listed(r) ==
    Done(r) /\ job[r].ask.op = "list" /\ job[r].status = 200 =>
        RowsRight(job[r].ask.page, job[r].rows, view[r].during, view[r].stay, job[r].failed)

\* Every token was given to a login that has been answered.
Issued(i) ==
    LET fields == job[tokens[i].by].ask.body.fields IN
        /\ tokens[i].by \in Requests /\ job[tokens[i].by].pc = "done"
        /\ \E d \in ever : /\ d["_id"] = tokens[i].id /\ RoleOf(d) = tokens[i].role
                           /\ d["name"] = fields["name"]
                           /\ "password_hash" \in DOMAIN d
                           /\ VerifyPassword(fields["password"], d["password_hash"])

Tokens ==
    /\ tokens \in Seq(ToSetOf(tokens))
    /\ \A i \in 1..Len(tokens) : DOMAIN tokens[i] = {"id", "role", "live", "by"} /\ Issued(i)

JobInv(r) ==
    /\ Fresh(r) /\ Ran(r) /\ Verifying(r) /\ Seen(r) /\ Looking(r)
    /\ Carried(r) /\ Truthful(r) /\ Listed(r)

IInv ==
    /\ Collection /\ JobType /\ MadeOnce /\ Tokens
    /\ DOMAIN view = Requests
    /\ \A r \in Requests : JobInv(r)

(***************************************************************************)
(* Sequences.                                                              *)
(***************************************************************************)

LEMMA LenOf ==
    ASSUME NEW m \in Nat, NEW S, NEW f \in [1..m -> S]
    PROVE  f \in Seq(S) /\ DOMAIN f = 1..m /\ Len(f) = m
  OBVIOUS

LEMMA SeqMono ==
    ASSUME NEW S, NEW T, S \subseteq T, NEW s \in Seq(S)
    PROVE  s \in Seq(T)
  OBVIOUS

\* A sequence is one of its own elements.
LEMMA OwnRange ==
    ASSUME NEW S, NEW s \in Seq(S)
    PROVE  s \in Seq(ToSetOf(s)) /\ ToSetOf(s) \subseteq S /\ DOMAIN s = 1..Len(s) /\ Len(s) \in Nat
<1>1. DOMAIN s = 1..Len(s) /\ Len(s) \in Nat
  OBVIOUS
<1>2. s \in [1..Len(s) -> ToSetOf(s)]
  BY <1>1 DEF ToSetOf
<1>3. s \in Seq(ToSetOf(s))
  BY <1>1, <1>2
<1>4. ToSetOf(s) \subseteq S
  BY <1>1 DEF ToSetOf
<1> QED
  BY <1>1, <1>3, <1>4

LEMMA RemoveAtIs ==
    ASSUME NEW S, NEW s \in Seq(S), NEW x \in 1..Len(s)
    PROVE  /\ RemoveAt(s, x) \in Seq(S) /\ Len(RemoveAt(s, x)) = Len(s) - 1
           /\ \A j \in 1..(Len(s) - 1) : RemoveAt(s, x)[j] = IF j < x THEN s[j] ELSE s[j + 1]
<1> DEFINE a == SubSeq(s, 1, x - 1)
           b == SubSeq(s, x + 1, Len(s))
<1>1. Len(s) \in Nat
  OBVIOUS
<1>2. a \in Seq(S) /\ Len(a) = x - 1 /\ \A j \in 1..(x - 1) : a[j] = s[j]
  BY <1>1
<1>3. b \in Seq(S) /\ Len(b) = Len(s) - x /\ \A j \in 1..(Len(s) - x) : b[j] = s[x + j]
  BY <1>1
<1>4. RemoveAt(s, x) = a \o b
  BY DEF RemoveAt
<1> HIDE DEF a, b
<1>5. /\ a \o b \in Seq(S) /\ Len(a \o b) = Len(a) + Len(b)
      /\ \A j \in 1..(Len(a) + Len(b)) : (a \o b)[j] = IF j <= Len(a) THEN a[j] ELSE b[j - Len(a)]
  BY <1>2, <1>3, ConcatProperties
<1>6. Len(a) + Len(b) = Len(s) - 1
  BY <1>1, <1>2, <1>3
<1>7. ASSUME NEW j \in 1..(Len(s) - 1) PROVE (a \o b)[j] = IF j < x THEN s[j] ELSE s[j + 1]
  <2>1. (a \o b)[j] = IF j <= Len(a) THEN a[j] ELSE b[j - Len(a)]
    BY <1>5, <1>6
  <2>2. CASE j < x
    BY <1>2, <2>1, <2>2
  <2>3. CASE ~(j < x)
    <3>1. j - (x - 1) \in 1..(Len(s) - x) /\ x + (j - (x - 1)) = j + 1 /\ ~(j <= x - 1)
      BY <1>1, <2>3
    <3> QED
      BY <1>2, <1>3, <2>1, <2>3, <3>1
  <2> QED
    BY <2>2, <2>3
<1> QED
  BY <1>4, <1>5, <1>6, <1>7

(***************************************************************************)
(* The collection.                                                         *)
(***************************************************************************)

\* An id belongs to at most one document.
LEMMA WithIdOne ==
    ASSUME NEW S, NEW coll \in Seq(S), InOrder(coll), NEW id, NEW i \in WithId(coll, id), NEW j \in WithId(coll, id)
    PROVE  i = j
<1>1. i \in 1..Len(coll) /\ j \in 1..Len(coll) /\ coll[i]["_id"] = coll[j]["_id"]
  BY DEF WithId
<1>2. coll[i]["_id"] \in Nat
  BY <1>1 DEF InOrder
<1>3. ~(i < j) /\ ~(j < i)
  BY <1>1, <1>2 DEF InOrder
<1> QED
  BY <1>1, <1>3

\* Document d has the hash of document e, or e has none and d one that nothing matches.
SameHash(d, e) ==
    /\ "password_hash" \in DOMAIN e =>
           "password_hash" \in DOMAIN d /\ d["password_hash"] = e["password_hash"]
    /\ "password_hash" \in DOMAIN d \ DOMAIN e => d["password_hash"] = Ill

\* What an update leaves alone: $set refuses a path into what is there and no object.
LEMMA SetFieldsKeeps ==
    ASSUME NEW a, NEW d, "_id" \in DOMAIN d, ~Rejects(a, d)
    PROVE  LET e == SetFields(d, Updates(a)) IN
           "_id" \in DOMAIN e /\ e["_id"] = d["_id"] /\ SameHash(e, d)
<1> DEFINE u == Updates(a)
           plain == DOMAIN u \ DOMAIN Dotted
           entered == {Dotted[p] : p \in Paths(u)}
           e == SetFields(d, u)
<1>1. "_id" \notin DOMAIN u /\ "password_hash" \notin DOMAIN u
  BY DEF Updates, Restrict
<1>2. \A k \in entered : k \in DOMAIN d => d[k] = Ill
  BY DEF Rejects
<1> HIDE DEF u
<1>3. e = [k \in DOMAIN d \cup plain \cup entered |->
               IF k \in plain THEN u[k] ELSE IF k \in entered THEN Ill ELSE d[k]]
  BY DEF SetFields
<1> HIDE DEF entered, e
<1>4. /\ DOMAIN e = DOMAIN d \cup plain \cup entered
      /\ \A k \in DOMAIN d : k \notin plain => e[k] = d[k]
      /\ \A k \in DOMAIN e \ DOMAIN d : k \notin plain => e[k] = Ill
  BY <1>2, <1>3
<1>5. "_id" \in DOMAIN e /\ e["_id"] = d["_id"] /\ SameHash(e, d)
  BY <1>1, <1>4 DEF SameHash
<1> QED
  BY <1>5 DEF u, e

\* Every document of the collection after a command was there before, with the
\* same hash, or is new.
Origin(j) ==
    \/ \E i \in 1..Len(docs) : docs'[j]["_id"] = docs[i]["_id"] /\ SameHash(docs'[j], docs[i])
    \/ docs'[j]["_id"] = next

LEMMA EffectKeeps ==
    ASSUME Collection, NEW r, job[r].ask \in Asks, Apply(r)
    PROVE  /\ docs' \in Seq(ever') /\ ever \subseteq ever' /\ next' \in Nat \ {0} /\ next <= next'
           /\ InOrder(docs') /\ \A j \in 1..Len(docs') : docs'[j]["_id"] < next' /\ Origin(j)
<1> DEFINE a == job[r].ask
<1>1. /\ docs' = Effect(a) /\ next' = (IF a.op = "create" THEN next + 1 ELSE next) /\ ever' = ever \cup ToSetOf(docs')
      /\ a.op = "update" => \A i \in WithId(docs, a.id) : ~Rejects(a, docs[i])
  BY DEF Apply
<1>2. a.op \in Ops /\ docs \in Seq(ever) /\ Len(docs) \in Nat /\ next \in Nat \ {0}
  BY AsksKnown DEF Collection
<1>3. /\ \A i \in 1..Len(docs) : "_id" \in DOMAIN docs[i] /\ docs[i]["_id"] \in Nat /\ docs[i]["_id"] < next
      /\ \A i, j \in 1..Len(docs) : i < j => docs[i]["_id"] < docs[j]["_id"]
  BY DEF Collection, InOrder
<1> HIDE DEF a
<1>4. next' \in Nat \ {0} /\ next <= next' /\ ever \subseteq ever'
  BY <1>1, <1>2
<1>5. ASSUME NEW S, docs' \in Seq(S) PROVE docs' \in Seq(ever')
  <2>1. docs' \in Seq(ToSetOf(docs'))
    BY <1>5, OwnRange
  <2>2. ToSetOf(docs') \subseteq ever'
    BY <1>1
  <2> QED
    BY <2>1, <2>2, SeqMono
<1>6. CASE a.op = "create"
  <2> DEFINE d == NewDoc(a)
  <2>1. docs' = Append(docs, d) /\ next' = next + 1
    BY <1>1, <1>6 DEF Effect
  <2>2. "_id" \in DOMAIN d /\ d["_id"] = next
    BY DEF NewDoc
  <2> HIDE DEF d
  <2>3. docs' \in Seq(ever \cup {d})
    BY <1>2, <2>1
  <2>4. /\ Len(docs') = Len(docs) + 1 /\ docs'[Len(docs) + 1] = d
        /\ \A j \in 1..Len(docs) : docs'[j] = docs[j]
    BY <1>2, <2>1
  <2>5. \A j \in 1..Len(docs') : j \in 1..Len(docs) \/ j = Len(docs) + 1
    BY <1>2, <2>4
  <2>6. \A j \in 1..Len(docs') : "_id" \in DOMAIN docs'[j] /\ docs'[j]["_id"] \in Nat /\ docs'[j]["_id"] < next'
    BY <1>2, <1>3, <2>1, <2>2, <2>4, <2>5
  <2>7. \A i, j \in 1..Len(docs') : i < j => docs'[i]["_id"] < docs'[j]["_id"]
    <3>1. ASSUME NEW i \in 1..Len(docs'), NEW j \in 1..Len(docs'), i < j
          PROVE  docs'[i]["_id"] < docs'[j]["_id"]
      <4>1. i \in 1..Len(docs)
        BY <1>2, <2>4, <3>1
      <4> QED
        BY <1>3, <2>2, <2>4, <2>5, <3>1, <4>1
    <3> QED
      BY <3>1
  <2>8. \A j \in 1..Len(docs') : Origin(j)
    BY <2>2, <2>4, <2>5 DEF Origin, SameHash
  <2> QED
    BY <1>4, <1>5, <2>3, <2>6, <2>7, <2>8 DEF InOrder
<1>7. ASSUME Len(docs') = Len(docs), next' = next,
             \A j \in 1..Len(docs) : /\ "_id" \in DOMAIN docs'[j] /\ docs'[j]["_id"] = docs[j]["_id"]
                                     /\ SameHash(docs'[j], docs[j])
      PROVE  InOrder(docs') /\ \A j \in 1..Len(docs') : docs'[j]["_id"] < next' /\ Origin(j)
  BY <1>3, <1>7 DEF InOrder, Origin
<1>8. CASE a.op = "update"
  <2> DEFINE f(i) == IF docs[i]["_id"] = a.id THEN SetFields(docs[i], Updates(a)) ELSE docs[i]
  <2>1. docs' = [i \in DOMAIN docs |-> f(i)] /\ next' = next
    BY <1>1, <1>8 DEF Effect
  <2>2. \A i \in 1..Len(docs) : /\ "_id" \in DOMAIN f(i) /\ f(i)["_id"] = docs[i]["_id"]
                                /\ SameHash(f(i), docs[i])
    <3>1. ASSUME NEW i \in 1..Len(docs), docs[i]["_id"] = a.id
          PROVE  LET e == SetFields(docs[i], Updates(a)) IN
                 "_id" \in DOMAIN e /\ e["_id"] = docs[i]["_id"] /\ SameHash(e, docs[i])
      <4>1. i \in WithId(docs, a.id)
        BY <1>2, <3>1 DEF WithId
      <4>2. ~Rejects(a, docs[i]) /\ "_id" \in DOMAIN docs[i]
        BY <1>1, <1>3, <1>8, <4>1
      <4> QED
        BY <4>2, SetFieldsKeeps
    <3>2. \A i \in 1..Len(docs) : SameHash(docs[i], docs[i])
      BY DEF SameHash
    <3> QED
      BY <1>3, <3>1, <3>2
  <2> HIDE DEF f
  <2>3. docs' = [i \in 1..Len(docs) |-> f(i)]
    BY <1>2, <2>1
  <2>4. docs' \in Seq({f(i) : i \in 1..Len(docs)}) /\ Len(docs') = Len(docs) /\ \A i \in 1..Len(docs) : docs'[i] = f(i)
    BY <1>2, <2>3
  <2> QED
    BY <1>4, <1>5, <1>7, <2>1, <2>2, <2>4
<1>9. CASE docs' = docs /\ next' = next
  <2>1. \A i \in 1..Len(docs) : SameHash(docs[i], docs[i])
    BY DEF SameHash
  <2> QED
    BY <1>2, <1>3, <1>4, <1>5, <1>7, <1>9, <2>1
<1>10. CASE a.op = "delete" /\ WithId(docs, a.id) # {}
  <2> DEFINE x == CHOOSE i \in WithId(docs, a.id) : TRUE
  <2>1. docs' = RemoveAt(docs, x) /\ next' = next
    BY <1>1, <1>10 DEF Effect
  <2>2. x \in 1..Len(docs)
    BY <1>2, <1>10 DEF WithId
  <2> HIDE DEF x
  <2>3. /\ docs' \in Seq(ever) /\ Len(docs') = Len(docs) - 1
        /\ \A j \in 1..(Len(docs) - 1) : docs'[j] = IF j < x THEN docs[j] ELSE docs[j + 1]
    BY <1>2, <2>1, <2>2, RemoveAtIs
  <2>4. ASSUME NEW j \in 1..Len(docs')
        PROVE  \E i \in 1..Len(docs) : docs'[j] = docs[i] /\ (j < x => i = j) /\ (~(j < x) => i = j + 1)
    <3>1. j \in 1..Len(docs) /\ j + 1 \in 1..Len(docs)
      BY <1>2, <2>3
    <3> QED
      BY <2>3, <3>1
  <2>5. \A j \in 1..Len(docs') : "_id" \in DOMAIN docs'[j] /\ docs'[j]["_id"] \in Nat /\ docs'[j]["_id"] < next'
    BY <1>3, <2>1, <2>4
  <2>6. ASSUME NEW i \in 1..Len(docs'), NEW j \in 1..Len(docs'), i < j
        PROVE  docs'[i]["_id"] < docs'[j]["_id"]
    <3>1. PICK k \in 1..Len(docs) : docs'[i] = docs[k] /\ (i < x => k = i) /\ (~(i < x) => k = i + 1)
      BY <2>4
    <3>2. PICK l \in 1..Len(docs) : docs'[j] = docs[l] /\ (j < x => l = j) /\ (~(j < x) => l = j + 1)
      BY <2>4
    <3>3. k < l
      BY <2>2, <2>6, <3>1, <3>2
    <3> QED
      BY <1>3, <3>1, <3>2, <3>3
  <2>7. \A j \in 1..Len(docs') : Origin(j)
    BY <2>4 DEF Origin, SameHash
  <2> QED
    BY <1>4, <1>5, <2>3, <2>5, <2>6, <2>7 DEF InOrder
<1>11. a.op \in {"login", "list", "get"} \/ (a.op = "delete" /\ WithId(docs, a.id) = {})
         => docs' = docs /\ next' = next
  BY <1>1 DEF Effect
<1> QED
  BY <1>2, <1>6, <1>8, <1>9, <1>10, <1>11 DEF Ops

\* The steps that run a command, and all the others.
LEMMA CollectionStep ==
    ASSUME Collection, JobType, [Next]_vars
    PROVE  /\ Collection' /\ ever \subseteq ever' /\ next <= next'
           /\ \A i \in DOMAIN docs : \A j \in WithId(docs', docs[i]["_id"]) :
                  WithId(docs', docs[i]["_id"]) = {j} /\ SameHash(docs'[j], docs[i])
<1> DEFINE Kept == \A i \in DOMAIN docs : \A j \in WithId(docs', docs[i]["_id"]) :
                       WithId(docs', docs[i]["_id"]) = {j} /\ SameHash(docs'[j], docs[i])
<1>1. ASSUME docs' \in Seq(ever'), next' \in Nat \ {0}, InOrder(docs'), next <= next',
             \A j \in 1..Len(docs') : docs'[j]["_id"] < next' /\ Origin(j)
      PROVE  Collection' /\ Kept
  <2>1. Collection'
    BY <1>1 DEF Collection, InOrder
  <2>2. ASSUME NEW i \in DOMAIN docs, NEW j \in WithId(docs', docs[i]["_id"])
        PROVE  WithId(docs', docs[i]["_id"]) = {j} /\ SameHash(docs'[j], docs[i])
    <3>1. \A k \in WithId(docs', docs[i]["_id"]) : k = j
      BY <1>1, WithIdOne
    <3>2. docs \in Seq(ever) /\ i \in 1..Len(docs) /\ docs[i]["_id"] < next /\ docs[i]["_id"] \in Nat /\ next \in Nat
      BY DEF Collection, InOrder
    <3>3. j \in 1..Len(docs') /\ docs'[j]["_id"] = docs[i]["_id"]
      BY <1>1 DEF WithId
    <3>4. docs[i]["_id"] # next
      BY <3>2
    <3>5. PICK k \in 1..Len(docs) : docs'[j]["_id"] = docs[k]["_id"] /\ SameHash(docs'[j], docs[k])
      BY <1>1, <3>3, <3>4 DEF Origin
    <3>6. k \in WithId(docs, docs[i]["_id"]) /\ i \in WithId(docs, docs[i]["_id"])
      <4>1. docs[k]["_id"] = docs[i]["_id"]
        BY <3>3, <3>5
      <4>2. k \in DOMAIN docs
        BY <3>2, <3>5
      <4> QED
        BY <4>1, <4>2 DEF WithId
    <3>7. k = i
      BY <3>2, <3>6, WithIdOne DEF Collection
    <3> QED
      BY <3>1, <3>5, <3>7
  <2> QED
    BY <2>1, <2>2
<1>2. ASSUME NEW r \in Requests, job[r].pc = "command", Apply(r) PROVE Collection' /\ ever \subseteq ever' /\ next <= next' /\ Kept
  <2>1. job[r].ask \in Asks
    BY <1>2 DEF JobType
  <2>2. /\ docs' \in Seq(ever') /\ ever \subseteq ever' /\ next' \in Nat \ {0} /\ next <= next'
        /\ InOrder(docs') /\ \A j \in 1..Len(docs') : docs'[j]["_id"] < next' /\ Origin(j)
    BY <1>2, <2>1, EffectKeeps
  <2> QED
    BY <1>1, <2>2
<1>3. ASSUME docs' = docs, next' = next, ever' = ever PROVE Collection' /\ ever \subseteq ever' /\ next <= next' /\ Kept
  <2>1. docs \in Seq(ever) /\ next \in Nat \ {0} /\ InOrder(docs) /\ \A j \in 1..Len(docs) : docs[j]["_id"] < next
    BY DEF Collection
  <2>2. \A j \in 1..Len(docs') : Origin(j)
    BY <1>3 DEF Origin, SameHash
  <2>3. docs' \in Seq(ever') /\ next' \in Nat \ {0} /\ InOrder(docs') /\ \A j \in 1..Len(docs') : docs'[j]["_id"] < next'
    BY <1>3, <2>1
  <2>4. next <= next' /\ ever \subseteq ever'
    BY <1>3, <2>1
  <2> HIDE DEF Kept
  <2> QED
    BY <1>1, <2>2, <2>3, <2>4
<1>4. ASSUME NEW r \in Requests, Command(r) \/ CommandFails(r)
      PROVE  job[r].pc = "command" /\ (Apply(r) \/ (docs' = docs /\ next' = next /\ ever' = ever))
  BY <1>4 DEF Command, CommandFails, store
<1>5. ASSUME NEW r \in Requests,
             \/ \E a \in Asks, bearer \in 0..Len(tokens) : Arrive(r, a, bearer)
             \/ Handle(r) /\ ~Command(r) /\ ~CommandFails(r)
      PROVE  docs' = docs /\ next' = next /\ ever' = ever
  BY <1>5 DEF Arrive, Handle, RequireAuth, Refuse, HashFails, Acquire, UpdateRejected, OpenCursor, CursorNext,
             CursorEnd, CursorFails, Return, VerifyLogin, shared, store
<1>6. ASSUME NEW i, TokenExpires(i) PROVE docs' = docs /\ next' = next /\ ever' = ever
  BY <1>6 DEF TokenExpires, store
<1>7. Finished \/ UNCHANGED vars => docs' = docs /\ next' = next /\ ever' = ever
  BY DEF Finished, vars
<1> HIDE DEF Kept
<1>8. Collection' /\ ever \subseteq ever' /\ next <= next' /\ Kept
  BY <1>2, <1>3, <1>4, <1>5, <1>6, <1>7 DEF Next, Handle
<1> QED
  BY <1>8 DEF Kept

(***************************************************************************)
(* What a cursor sees.                                                     *)
(***************************************************************************)

LEMMA SubSeqIs ==
    ASSUME NEW S, NEW s \in Seq(S), NEW m \in Int, NEW n \in Int, 1 <= m, n <= Len(s)
    PROVE  LET t == SubSeq(s, m, n) IN
           /\ t \in Seq(S) /\ Len(t) = (IF m <= n THEN n - m + 1 ELSE 0)
           /\ \A k \in 1..Len(t) : t[k] = s[m + k - 1]
<1>1. CASE m <= n
  BY <1>1, SubSeqProperties
<1>2. CASE ~(m <= n)
  BY <1>2, SubSeqProperties
<1> QED
  BY <1>1, <1>2

\* The order of a list is strict.
LEMMA BeforeIs ==
    ASSUME NEW p
    PROVE  /\ \A i, j, k \in Int : Before(p, i, j) /\ Before(p, j, k) => Before(p, i, k)
           /\ \A i, j \in Int : i # j => Before(p, i, j) \/ Before(p, j, i)
           /\ \A i, j \in Int : Before(p, i, j) => ~Before(p, j, i) /\ i # j
<1>1. CASE p.sort /\ p.desc
  BY <1>1 DEF Before
<1>2. CASE ~(p.sort /\ p.desc)
  BY <1>2 DEF Before
<1> QED
  BY <1>1, <1>2

\* The documents of a collection are finitely many and have ids.
LEMMA RangeHasIds ==
    ASSUME NEW S, NEW coll \in Seq(S), InOrder(coll)
    PROVE  HasIds(ToSetOf(coll)) /\ Ids(coll) \subseteq Nat
<1>1. DOMAIN coll = 1..Len(coll) /\ Len(coll) \in Nat
  OBVIOUS
<1>2. IsFiniteSet(1..Len(coll))
  BY <1>1, FS_Interval
<1>3. coll \in Surjection(1..Len(coll), ToSetOf(coll))
  <2>1. coll \in [1..Len(coll) -> ToSetOf(coll)]
    BY <1>1 DEF ToSetOf
  <2> QED
    BY <1>1, <2>1 DEF Surjection, ToSetOf
<1>4. IsFiniteSet(ToSetOf(coll))
  BY <1>2, <1>3, FS_Surjection
<1> QED
  BY <1>1, <1>4 DEF HasIds, ToSetOf, Ids, InOrder

\* While there is a document ahead, one of them is the next.
LEMMA NextThere ==
    ASSUME Collection, NEW p, NEW found,
           NEW ahead, ahead = {i \in DOMAIN docs :
                                  found # << >> => Before(p, found[Len(found)]["_id"], docs[i]["_id"])}
    PROVE  /\ NextPlaces(p, found) = {i \in ahead : \A j \in ahead : i = j \/ Before(p, docs[i]["_id"], docs[j]["_id"])}
           /\ NextPlaces(p, found) = {} => ahead = {}
<1>1. docs \in Seq(ever) /\ DOMAIN docs = 1..Len(docs) /\ Len(docs) \in Nat
  BY DEF Collection
<1>2. \A i, j \in 1..Len(docs) : i < j => docs[i]["_id"] < docs[j]["_id"]
  BY DEF Collection, InOrder
<1>3. \A i \in 1..Len(docs) : docs[i]["_id"] \in Nat
  BY DEF Collection, InOrder
<1>4. NextPlaces(p, found) = {i \in ahead : \A j \in ahead : i = j \/ Before(p, docs[i]["_id"], docs[j]["_id"])}
  BY DEF NextPlaces
<1>5. ahead \subseteq 1..Len(docs) /\ ahead \subseteq Nat
  BY <1>1
<1>6. ASSUME ahead # {} PROVE NextPlaces(p, found) # {}
  <2>1. CASE p.sort /\ p.desc
    <3>1. PICK m \in ahead : \A y \in ahead : y <= m
      BY <1>1, <1>5, <1>6, MaxOf
    <3>2. \A y \in ahead : m = y \/ Before(p, docs[m]["_id"], docs[y]["_id"])
      BY <1>2, <1>3, <1>5, <2>1, <3>1 DEF Before
    <3> QED
      BY <1>4, <3>2
  <2>2. CASE ~(p.sort /\ p.desc)
    <3>1. PICK m \in ahead : \A y \in ahead : m <= y
      BY <1>5, <1>6, LeastOf
    <3>2. \A y \in ahead : m = y \/ Before(p, docs[m]["_id"], docs[y]["_id"])
      BY <1>2, <1>5, <2>2, <3>1 DEF Before
    <3> QED
      BY <1>4, <3>2
  <2> QED
    BY <2>1, <2>2
<1> QED
  BY <1>4, <1>6

\* What is ahead of the last one passed is behind all of them, and the other way round.
LEMMA AheadIs ==
    ASSUME NEW p, NEW during, HasIds(during), NEW stay, NEW found, Passed(p, found, during, stay), NEW x \in Nat
    PROVE  (found # << >> => Before(p, found[Len(found)]["_id"], x)) <=> \A k \in 1..Len(found) : Before(p, found[k]["_id"], x)
<1> DEFINE n == Len(found)
<1>1. found \in Seq(during) /\ n \in Nat /\ (found # << >> <=> n # 0)
  BY EmptySeq DEF Passed
<1>2. \A k \in 1..n : found[k]["_id"] \in Nat
  BY <1>1 DEF HasIds
<1>3. \A k \in 1..n : k < n => Before(p, found[k]["_id"], found[n]["_id"])
  BY <1>1 DEF Passed
<1> HIDE DEF n
<1>4. ASSUME n # 0, Before(p, found[n]["_id"], x), NEW k \in 1..n PROVE Before(p, found[k]["_id"], x)
  <2>1. n \in 1..n /\ found[n]["_id"] \in Int /\ found[k]["_id"] \in Int /\ x \in Int
    BY <1>1, <1>2, <1>4
  <2>2. k = n \/ Before(p, found[k]["_id"], found[n]["_id"])
    BY <1>1, <1>3
  <2> QED
    BY <1>4, <2>1, <2>2, BeforeIs
<1>5. n # 0 => n \in 1..n
  BY <1>1
<1>6. n = 0 => 1..n = {}
  OBVIOUS
<1> QED
  BY <1>1, <1>4, <1>5, <1>6 DEF n

\* A cursor passes one more document.
LEMMA PassesOne ==
    ASSUME Collection, NEW p, p.skip \in Int, p.limit \in Int, NEW during, HasIds(during), NEW stay, NEW found,
           ToSetOf(docs) \subseteq during, stay \subseteq Ids(docs),
           Passed(p, found, during, stay), ~Full(p, Len(found)), NEW i \in NextPlaces(p, found)
    PROVE  Passed(p, Append(found, docs[i]), during, stay) /\ docs[i] \in during
<1> DEFINE n == Len(found)
           new == Append(found, docs[i])
           ahead == {j \in DOMAIN docs : found # << >> => Before(p, found[Len(found)]["_id"], docs[j]["_id"])}
<1>1. docs \in Seq(ever) /\ DOMAIN docs = 1..Len(docs) /\ \A j \in DOMAIN docs : docs[j]["_id"] \in Nat
  BY DEF Collection, InOrder
<1>2. i \in ahead /\ \A j \in ahead : i = j \/ Before(p, docs[i]["_id"], docs[j]["_id"])
  <2>1. NextPlaces(p, found) = {m \in ahead : \A j \in ahead : m = j \/ Before(p, docs[m]["_id"], docs[j]["_id"])}
    BY DEF NextPlaces
  <2> HIDE DEF ahead
  <2> QED
    BY <2>1
<1>3. \A j \in DOMAIN docs : j \in ahead <=> \A k \in 1..n : Before(p, found[k]["_id"], docs[j]["_id"])
  <2>1. \A j \in DOMAIN docs : (found # << >> => Before(p, found[Len(found)]["_id"], docs[j]["_id"]))
                                <=> \A k \in 1..n : Before(p, found[k]["_id"], docs[j]["_id"])
    BY <1>1, AheadIs
  <2> QED
    BY <2>1
<1> HIDE DEF ahead
<1>4. i \in DOMAIN docs /\ docs[i] \in during
  BY <1>1, <1>2 DEF ToSetOf, ahead
<1>5. found \in Seq(during) /\ n \in Nat
  BY DEF Passed
<1>6. new \in Seq(during) /\ Len(new) = n + 1 /\ new[n + 1] = docs[i] /\ \A k \in 1..n : new[k] = found[k]
  BY <1>4, <1>5
<1>7. \A k \in 1..(n + 1) : k \in 1..n \/ k = n + 1
  BY <1>5
<1>8. \A k \in 1..n : Before(p, found[k]["_id"], docs[i]["_id"])
  BY <1>2, <1>3, <1>4
<1>9. ASSUME NEW k \in 1..(n + 1), NEW l \in 1..(n + 1), k < l PROVE Before(p, new[k]["_id"], new[l]["_id"])
  <2>1. k \in 1..n
    BY <1>5, <1>9
  <2>2. CASE l \in 1..n
    BY <1>6, <1>9, <2>1, <2>2 DEF Passed
  <2>3. CASE l = n + 1
    BY <1>6, <1>8, <2>1, <2>3
  <2> QED
    BY <1>7, <2>2, <2>3
<1>10. p.limit > 0 => Len(new) <= Skip(p) + p.limit
  <2>1. Skip(p) \in Int
    BY DEF Skip
  <2> HIDE DEF n, new
  <2> QED
    BY <1>5, <1>6, <2>1 DEF Full, n
<1>11. ASSUME NEW id \in stay
       PROVE  \/ \E k \in 1..(n + 1) : new[k]["_id"] = id
              \/ \A k \in 1..(n + 1) : Before(p, new[k]["_id"], id)
  <2>1. CASE \E k \in 1..n : found[k]["_id"] = id
    BY <1>5, <1>6, <2>1
  <2>2. CASE \A k \in 1..n : Before(p, found[k]["_id"], id)
    <3>1. PICK j \in DOMAIN docs : docs[j]["_id"] = id
      BY DEF Ids
    <3>2. j \in ahead
      BY <1>3, <2>2, <3>1
    <3>3. CASE i = j
      <4>1. n + 1 \in 1..(n + 1)
        BY <1>5
      <4> QED
        BY <1>6, <3>1, <3>3, <4>1
    <3>4. CASE Before(p, docs[i]["_id"], docs[j]["_id"])
      BY <1>6, <1>7, <2>2, <3>1, <3>4
    <3> QED
      BY <1>2, <3>2, <3>3, <3>4
  <2> QED
    BY <2>1, <2>2 DEF Passed
<1> HIDE DEF n, new
<1>12. Passed(p, new, during, stay)
  BY <1>6, <1>9, <1>10, <1>11 DEF Passed
<1> QED
  BY <1>4, <1>12 DEF new

\* A cursor with nothing ahead has passed all who stayed.
LEMMA PassedAll ==
    ASSUME Collection, NEW p, NEW during, HasIds(during), NEW stay, NEW found, stay \subseteq Ids(docs),
           Passed(p, found, during, stay), NextPlaces(p, found) = {}
    PROVE  \A id \in stay : \E k \in 1..Len(found) : found[k]["_id"] = id
<1> DEFINE ahead == {j \in DOMAIN docs : found # << >> => Before(p, found[Len(found)]["_id"], docs[j]["_id"])}
<1>1. docs \in Seq(ever) /\ \A j \in DOMAIN docs : docs[j]["_id"] \in Nat
  BY DEF Collection, InOrder
<1>2. ahead = {}
  BY NextThere
<1>3. \A j \in DOMAIN docs : ~\A k \in 1..Len(found) : Before(p, found[k]["_id"], docs[j]["_id"])
  <2>1. \A j \in DOMAIN docs : (found # << >> => Before(p, found[Len(found)]["_id"], docs[j]["_id"]))
                                <=> \A k \in 1..Len(found) : Before(p, found[k]["_id"], docs[j]["_id"])
    BY <1>1, AheadIs
  <2> QED
    BY <1>2, <2>1
<1> QED
  BY <1>3 DEF Passed, Ids

\* A cursor may be looked at later: it has seen more, and fewer have stayed.
LEMMA PassedLater ==
    ASSUME NEW p, NEW found, NEW during, NEW stay, Passed(p, found, during, stay),
           NEW later, during \subseteq later, NEW left, left \subseteq stay
    PROVE  Passed(p, found, later, left)
<1>1. found \in Seq(later)
  BY SeqMono DEF Passed
<1> QED
  BY <1>1 DEF Passed

\* The first c documents passed have c ids.
FirstIds(found, c) == {found[k]["_id"] : k \in 1..c}

LEMMA CountPassed ==
    ASSUME NEW p, NEW during, HasIds(during), NEW stay, NEW found, Passed(p, found, during, stay),
           NEW c \in Nat, c <= Len(found)
    PROVE  IsFiniteSet(FirstIds(found, c)) /\ Cardinality(FirstIds(found, c)) = c
<1> DEFINE F == {found[k]["_id"] : k \in 1..c}
           f == [k \in 1..c |-> found[k]["_id"]]
<1>1. found \in Seq(during) /\ \A k \in 1..c : k \in 1..Len(found) /\ found[k] \in during
  BY DEF Passed
<1>2. \A k \in 1..c : found[k]["_id"] \in Int
  BY <1>1 DEF HasIds
<1>3. ASSUME NEW k \in 1..c, NEW l \in 1..c, k # l PROVE f[k] # f[l]
  <2>1. k < l \/ l < k
    BY <1>3
  <2>2. Before(p, found[k]["_id"], found[l]["_id"]) \/ Before(p, found[l]["_id"], found[k]["_id"])
    BY <1>1, <2>1 DEF Passed
  <2>3. found[k]["_id"] # found[l]["_id"]
    BY <1>2, <2>2, BeforeIs
  <2> QED
    BY <2>3
<1>4. f \in [1..c -> F] /\ \A y \in F : \E k \in 1..c : f[k] = y
  OBVIOUS
<1> HIDE DEF f, F
<1>5. f \in Bijection(1..c, F)
  BY <1>3, <1>4 DEF Bijection, Injection, Surjection, IsInjective
<1>6. ExistsBijection(1..c, F)
  BY <1>5 DEF ExistsBijection
<1>7. Cardinality(F) = c
  BY <1>6, FS_CountingElements
<1>8. IsFiniteSet(F)
  BY <1>6, FS_NatBijection
<1> QED
  BY <1>7, <1>8 DEF F, FirstIds

\* A set of documents has finitely many ids.
LEMMA IdsFinite ==
    ASSUME NEW during, HasIds(during)
    PROVE  IsFiniteSet({d["_id"] : d \in during})
<1> DEFINE I == {d["_id"] : d \in during}
           g == [d \in during |-> d["_id"]]
<1>1. g \in [during -> I] /\ \A y \in I : \E d \in during : g[d] = y
  OBVIOUS
<1> HIDE DEF g, I
<1>2. g \in Surjection(during, I)
  BY <1>1 DEF Surjection
<1>3. IsFiniteSet(I)
  BY <1>2, FS_Surjection DEF HasIds
<1> QED
  BY <1>3 DEF I

\* What the documents passed make of the rows.
LEMMA RowsAre ==
    ASSUME NEW p, p.skip \in Int, p.limit \in Int, NEW during, HasIds(during), NEW stay, stay \subseteq Nat,
           NEW found, Passed(p, found, during, stay), NEW failed, Ended(p, found, during, stay, failed),
           NEW users, users = SubSeq(found, Skip(p) + 1, Len(found)),
           NEW rows, rows = [k \in DOMAIN users |-> SafeJson(users[k])]
    PROVE  RowsRight(p, rows, during, stay, failed)
<1> DEFINE n == Len(found)
           s == Skip(p)
           m == IF s < n THEN n - s ELSE 0
           id(k) == found[k]["_id"]
<1>1. s \in Nat /\ n \in Nat /\ m \in Nat /\ found \in Seq(during)
  BY DEF Skip, Passed
<1>2. \A k \in 1..n : found[k] \in during /\ id(k) \in Int
  BY <1>1 DEF HasIds
<1>3. users \in Seq(during) /\ Len(users) = m /\ \A k \in 1..m : users[k] = found[s + k]
  <2>1. /\ users \in Seq(during) /\ Len(users) = (IF s + 1 <= n THEN n - (s + 1) + 1 ELSE 0)
        /\ \A k \in 1..Len(users) : users[k] = found[s + 1 + k - 1]
    <3>1. s + 1 \in Int /\ n \in Int /\ 1 <= s + 1 /\ n <= Len(found)
      BY <1>1
    <3> QED
      BY <1>1, <3>1, SubSeqIs
  <2> HIDE DEF s, n
  <2>2. Len(users) = m
    BY <1>1, <2>1
  <2>3. \A k \in 1..m : s + 1 + k - 1 = s + k
    BY <1>1
  <2> QED
    BY <2>1, <2>2, <2>3
<1> HIDE DEF s, n
<1>4. \A k \in 1..m : s + k \in 1..n /\ rows[k] = SafeJson(found[s + k])
  <2>1. \A k \in 1..m : s + k \in 1..n
    BY <1>1
  <2> QED
    BY <1>3, <2>1
<1> HIDE DEF m
<1>5. DOMAIN rows = 1..m /\ Len(rows) = m
  <2>1. DOMAIN users = 1..m
    BY <1>3
  <2>2. rows = [k \in 1..m |-> SafeJson(users[k])]
    BY <2>1
  <2> DEFINE T == {SafeJson(users[k]) : k \in 1..m}
  <2>3. rows \in [1..m -> T]
    BY <2>2
  <2>4. m \in Nat
    BY <1>1
  <2> HIDE DEF T
  <2>5. \A f \in [1..m -> T] : DOMAIN f = 1..m /\ Len(f) = m
    BY <2>4, LenOf
  <2> QED
    BY <2>3, <2>5
<1>6. \A k \in 1..m : rows[k]._id = id(s + k)
  <2>1. \A d : SafeJson(d)._id = d["_id"]
    BY DEF SafeJson
  <2> QED
    BY <1>4, <2>1
<1>7. \A k, l \in 1..n : k < l => Before(p, id(k), id(l))
  BY DEF Passed, n
<1>8. p.limit > 0 => n <= s + p.limit
  BY DEF Passed, n, s
<1>9. \A x \in stay : \/ \E k \in 1..n : id(k) = x
                      \/ \A k \in 1..n : Before(p, id(k), x)
  BY DEF Passed, n
<1>10. \/ p.limit > 0 /\ n >= s + p.limit
       \/ failed
       \/ \E d \in during : ~Listable(d)
       \/ \A x \in stay : \E k \in 1..n : id(k) = x
  BY DEF Ended, Full, n, s
<1>11. ASSUME NEW c \in Nat, c <= n
       PROVE  IsFiniteSet({id(k) : k \in 1..c}) /\ Cardinality({id(k) : k \in 1..c}) = c
  <2>1. c <= Len(found)
    BY <1>11 DEF n
  <2>2. IsFiniteSet(FirstIds(found, c)) /\ Cardinality(FirstIds(found, c)) = c
    BY <2>1, CountPassed
  <2> QED
    BY <2>2 DEF FirstIds
<1> HIDE DEF id
<1>12. \A k \in 1..m : \E d \in during : rows[k] = SafeJson(d)
  BY <1>2, <1>4
<1>13. \A k, l \in 1..m : k < l => Before(p, rows[k]._id, rows[l]._id)
  <2>1. ASSUME NEW k \in 1..m, NEW l \in 1..m, k < l PROVE Before(p, rows[k]._id, rows[l]._id)
    <3>1. s + k < s + l
      BY <1>1, <2>1
    <3> QED
      BY <1>4, <1>6, <1>7, <3>1
  <2> QED
    BY <2>1
<1>14. p.limit > 0 => m <= p.limit
  BY <1>1, <1>8 DEF m
<1>15. rows # << >> => m # 0
  BY <1>3
<1>16. ASSUME NEW k \in 1..s, k \in 1..n PROVE Ahead(p, rows, id(k))
  <2>1. \A l \in 1..m : k < s + l
    BY <1>1
  <2> QED
    BY <1>4, <1>5, <1>6, <1>7, <1>16, <2>1 DEF Ahead
<1>17. m # 0 => s <= n /\ 1 \in 1..m /\ s + 1 \in 1..n
  BY <1>1 DEF m
<1>18. ASSUME m # 0
       PROVE  Cardinality({x \in {d["_id"] : d \in during} : Ahead(p, rows, x)}) >= s
  <2> DEFINE I == {d["_id"] : d \in during}
             A == {x \in I : Ahead(p, rows, x)}
             F == {id(k) : k \in 1..s}
  <2>1. IsFiniteSet(I)
    BY IdsFinite
  <2>2. F \subseteq A
    <3>1. \A k \in 1..s : k \in 1..n
      BY <1>1, <1>17, <1>18
    <3>2. \A k \in 1..s : id(k) \in I
      BY <1>2, <3>1 DEF id
    <3> QED
      BY <1>16, <3>1, <3>2
  <2>3. Cardinality(F) = s
    BY <1>1, <1>11, <1>17, <1>18
  <2>4. A \subseteq I
    OBVIOUS
  <2> HIDE DEF I, A, F
  <2>5. IsFiniteSet(A)
    BY <2>1, <2>4, FS_Subset
  <2>6. Cardinality(F) <= Cardinality(A) /\ Cardinality(A) \in Nat
    BY <2>2, <2>5, FS_Subset, FS_CardinalityType
  <2>7. Cardinality(A) >= s
    BY <1>1, <2>3, <2>6
  <2> QED
    BY <2>7 DEF A, I
<1>19. ASSUME m # 0 PROVE Cardinality({x \in stay : Ahead(p, rows, x)}) <= s
  <2> DEFINE A == {x \in stay : Ahead(p, rows, x)}
             F == {id(k) : k \in 1..s}
  <2>1. ASSUME NEW x \in A PROVE x \in F
    <3>1. x \in stay /\ x \in Int /\ \A k \in 1..m : Before(p, x, id(s + k))
      <4>1. x \in stay /\ Ahead(p, rows, x)
        OBVIOUS
      <4>2. \A k \in 1..m : Before(p, x, rows[k]._id)
        BY <1>5, <4>1 DEF Ahead
      <4>3. \A k \in 1..m : Before(p, x, id(s + k))
        <5> HIDE DEF A
        <5> QED
          BY <1>6, <4>2
      <4> QED
        BY <4>1, <4>3
    <3>2. s + 1 \in 1..n /\ Before(p, x, id(s + 1)) /\ id(s + 1) \in Int
      BY <1>2, <1>17, <1>19, <3>1
    <3>3. ~Before(p, id(s + 1), x)
      BY <3>1, <3>2, BeforeIs
    <3>4. PICK k \in 1..n : id(k) = x
      BY <1>9, <3>1, <3>2, <3>3
    <3>5. ASSUME ~(k <= s) PROVE FALSE
      <4>1. k - s \in 1..m /\ s + (k - s) = k
        BY <1>1, <3>4, <3>5 DEF m
      <4>2. Before(p, x, id(k))
        BY <3>1, <4>1
      <4> QED
        BY <3>1, <3>4, <4>2, BeforeIs
    <3>6. k \in 1..s
      BY <1>1, <3>4, <3>5
    <3> QED
      BY <3>4, <3>6
  <2>2. IsFiniteSet(F) /\ Cardinality(F) = s
    BY <1>1, <1>11, <1>17, <1>19
  <2> HIDE DEF A, F
  <2>3. Cardinality(A) <= Cardinality(F)
    BY <2>1, <2>2, FS_Subset
  <2> QED
    BY <2>2, <2>3 DEF A
<1>20. ASSUME m = 0, \A x \in stay : \E k \in 1..n : id(k) = x
       PROVE  Cardinality({x \in stay : Ahead(p, rows, x)}) <= s
  <2> DEFINE A == {x \in stay : Ahead(p, rows, x)}
             F == {id(k) : k \in 1..n}
  <2>1. A \subseteq F
    BY <1>20
  <2>2. IsFiniteSet(F) /\ Cardinality(F) = n
    <3>1. n \in Nat /\ n <= n
      BY <1>1
    <3> QED
      BY <1>11, <3>1
  <2> HIDE DEF A, F
  <2>3. IsFiniteSet(A) /\ Cardinality(A) <= n
    BY <2>1, <2>2, FS_Subset
  <2>4. Cardinality(A) \in Nat
    BY <2>3, FS_CardinalityType
  <2>5. n <= s
    BY <1>1, <1>20 DEF m
  <2>6. Cardinality(A) <= s
    BY <1>1, <2>3, <2>4, <2>5
  <2> QED
    BY <2>6 DEF A
<1>21. ASSUME NEW x \in stay
       PROVE  \/ \E k \in DOMAIN rows : rows[k]._id = x
              \/ Ahead(p, rows, x) /\ Cardinality({i \in stay : Ahead(p, rows, i)}) <= s
              \/ /\ Behind(p, rows, x)
                 /\ \/ p.limit > 0 /\ Len(rows) = p.limit
                    \/ failed
                    \/ \E d \in during : ~Listable(d)
  <2>1. CASE m # 0 /\ \E k \in 1..n : id(k) = x
    <3>1. PICK k \in 1..n : id(k) = x
      BY <2>1
    <3>2. CASE k <= s
      <4>1. k \in 1..s
        BY <1>1, <3>2
      <4> QED
        BY <1>16, <1>19, <2>1, <3>1, <4>1
    <3>3. CASE ~(k <= s)
      <4>1. k - s \in 1..m /\ s + (k - s) = k
        BY <1>1, <3>1, <3>3 DEF m
      <4> QED
        BY <1>5, <1>6, <3>1, <4>1
    <3> QED
      BY <3>2, <3>3
  <2>2. CASE m = 0
    <3>1. Ahead(p, rows, x) /\ Behind(p, rows, x)
      BY <1>5, <2>2 DEF Ahead, Behind
    <3>2. ~(p.limit > 0 /\ n >= s + p.limit)
      BY <1>1, <2>2 DEF m
    <3> QED
      BY <1>10, <1>20, <2>2, <3>1, <3>2
  <2>3. CASE m # 0 /\ ~\E k \in 1..n : id(k) = x
    <3>1. \A k \in 1..n : Before(p, id(k), x)
      BY <1>9, <2>3
    <3>2. Behind(p, rows, x)
      BY <1>4, <1>5, <1>6, <3>1 DEF Behind
    <3>3. p.limit > 0 /\ n >= s + p.limit => m = p.limit
      BY <1>1, <1>8, <2>3 DEF m
    <3> QED
      BY <1>5, <1>10, <2>3, <3>2, <3>3
  <2> QED
    BY <2>1, <2>2, <2>3
<1> QED
  BY <1>5, <1>12, <1>13, <1>14, <1>15, <1>18, <1>21 DEF RowsRight, s

\* A step that other requests watch leaves what their cursors know right.
Watched(q) ==
    /\ DOMAIN view'[q] = {"during", "stay"} /\ HasIds(view'[q].during)
    /\ view[q].during \subseteq view'[q].during /\ view'[q].stay \subseteq view[q].stay
    /\ job[q].pc # "cursor" => view'[q] = view[q]
    /\ job[q].pc = "cursor" => /\ ToSetOf(docs') \subseteq view'[q].during
                               /\ view'[q].stay \subseteq Ids(docs')

LEMMA StillWatched ==
    ASSUME NEW q \in Requests, JobInv(q), docs' = docs, view'[q] = view[q]
    PROVE  Watched(q)
  BY DEF JobInv, Seen, Watched

LEMMA ApplyWatched ==
    ASSUME IInv, Collection', NEW r, Apply(r)
    PROVE  DOMAIN view' = Requests /\ \A q \in Requests : Watched(q)
<1>1. view' = [q \in Requests |-> IF job[q].pc = "cursor"
                   THEN [during |-> view[q].during \cup ToSetOf(docs'), stay |-> view[q].stay \cap Ids(docs')]
                   ELSE view[q]]
  BY DEF Apply
<1>2. HasIds(ToSetOf(docs'))
  BY RangeHasIds DEF Collection
<1>3. ASSUME NEW q \in Requests PROVE Watched(q)
  <2>1. HasIds(view[q].during) /\ DOMAIN view[q] = {"during", "stay"}
    BY DEF IInv, JobInv, Seen
  <2>2. HasIds(view[q].during \cup ToSetOf(docs'))
    <3>1. IsFiniteSet(view[q].during \cup ToSetOf(docs'))
      BY <1>2, <2>1, FS_Union DEF HasIds
    <3> QED
      BY <1>2, <2>1, <3>1 DEF HasIds
  <2>3. CASE job[q].pc = "cursor"
    <3>1. view'[q] = [during |-> view[q].during \cup ToSetOf(docs'), stay |-> view[q].stay \cap Ids(docs')]
      BY <1>1, <2>3
    <3> QED
      BY <2>2, <2>3, <3>1 DEF Watched
  <2>4. CASE job[q].pc # "cursor"
    BY <1>1, <2>1, <2>4 DEF Watched
  <2> QED
    BY <2>3, <2>4
<1> QED
  BY <1>1, <1>3

(***************************************************************************)
(* Requests.                                                               *)
(***************************************************************************)

\* What is not touched stays right while the history grows.
LEMMA Untouched ==
    ASSUME JobType, NEW q \in Requests, job'[q] = job[q], ever \subseteq ever', Watched(q), JobInv(q)
    PROVE  JobInv(q)' /\ job'[q].at \in Seq(ever')
<1>1. Fresh(q)'
  BY DEF JobInv, Fresh
<1>2. Ran(q)'
  BY DEF JobInv, Ran, Created
<1>3. Verifying(q)'
  BY DEF JobInv, Verifying
<1>4. Carried(q)'
  BY DEF JobInv, Carried, Done
<1>5. Truthful(q)'
  BY DEF JobInv, Truthful, Done, Created
<1>6. Seen(q)'
  BY DEF JobInv, Seen, Watched
<1>7. Listed(q)'
  <2>1. CASE job[q].pc = "done"
    <3>1. view'[q] = view[q]
      BY <2>1 DEF Watched
    <3> QED
      BY <3>1 DEF JobInv, Listed, Done
  <2>2. CASE job[q].pc # "done"
    BY <2>2 DEF Listed, Done
  <2> QED
    BY <2>1, <2>2
<1>8. Looking(q)'
  <2>1. CASE job[q].pc = "cursor"
    <3>1. job[q].ask.op = "list" => Passed(job[q].ask.page, job[q].found, view[q].during, view[q].stay)
      BY <2>1 DEF JobInv, Looking
    <3>2. job[q].ask.op = "list" => Passed(job[q].ask.page, job[q].found, view'[q].during, view'[q].stay)
      BY <3>1, PassedLater DEF Watched
    <3> QED
      BY <2>1, <3>2 DEF Looking
  <2>2. CASE job[q].pc # "cursor"
    <3>1. view'[q] = view[q]
      BY <2>2 DEF Watched
    <3> QED
      BY <3>1 DEF JobInv, Looking
  <2> QED
    BY <2>1, <2>2
<1>9. job'[q].at \in Seq(ever')
  BY SeqMono DEF JobType
<1> QED
  BY <1>1, <1>2, <1>3, <1>4, <1>5, <1>6, <1>7, <1>8, <1>9 DEF JobInv

\* A step of request r leaves the table of jobs a table, and the other jobs alone.
Elsewhere(r) ==
    /\ DOMAIN job' = Requests /\ DOMAIN job'[r] = Fields
    /\ \A q \in Requests \ {r} : job'[q] = job[q]

\* The ids made go on.
Makes(r) ==
    \/ job'[r].made = job[r].made \/ job'[r].made = 0
    \/ job'[r].made = next /\ next' = next + 1

\* It is enough to look at the request that moves.
LEMMA OneMoves ==
    ASSUME IInv, Collection', NEW r \in Requests, Elsewhere(r), ever \subseteq ever', next <= next',
           \A q \in Requests \ {r} : Watched(q),
           Len(tokens') \in Nat, Len(tokens) <= Len(tokens'),
           job'[r].pc \in Places, job'[r].pc # "idle" => job'[r].ask \in Asks,
           job'[r].bearer \in 0..Len(tokens), job'[r].at \in Seq(ever'), InOrder(job'[r].at),
           Makes(r), JobInv(r)'
    PROVE  JobType' /\ MadeOnce' /\ \A q \in Requests : JobInv(q)'
<1>0. JobType /\ MadeOnce /\ (\A q \in Requests : JobInv(q)) /\ Len(tokens) \in Nat
  BY DEF IInv, Tokens
<1>1. \A q \in Requests \ {r} : JobInv(q)' /\ job'[q].at \in Seq(ever') /\ job'[q] = job[q]
  BY <1>0, Untouched DEF Elsewhere
<1>2. \A q \in Requests : JobInv(q)'
  BY <1>1
<1>3. ASSUME NEW q \in Requests
      PROVE  /\ DOMAIN job'[q] = Fields
             /\ job'[q].pc \in Places
             /\ job'[q].pc # "idle" => job'[q].ask \in Asks
             /\ job'[q].bearer \in 0..Len(tokens')
             /\ job'[q].at \in Seq(ever') /\ InOrder(job'[q].at)
  <2>1. 0..Len(tokens) \subseteq 0..Len(tokens')
    BY <1>0
  <2>2. CASE q = r
    BY <2>1, <2>2 DEF Elsewhere
  <2>3. CASE q # r
    BY <1>0, <1>1, <2>1, <2>3 DEF JobType
  <2> QED
    BY <2>2, <2>3
<1>4. JobType'
  BY <1>3 DEF JobType, Elsewhere, InOrder
<1>5. MadeOnce'
  <2>1. /\ next \in Nat \ {0} /\ next' \in Nat \ {0}
        /\ \A q \in Requests : job[q].made \in Nat /\ job[q].made < next
        /\ \A p, q \in Requests : p # q /\ job[p].made # 0 => job[q].made # job[p].made
    BY <1>0 DEF IInv, Collection, MadeOnce
  <2>2. \A q \in Requests \ {r} : job'[q].made = job[q].made
    BY <1>1
  <2>3. job'[r].made \in Nat /\ job'[r].made < next'
    BY <2>1 DEF Makes
  <2>4. job'[r].made # 0 => \A q \in Requests \ {r} : job[q].made # job'[r].made
    BY <2>1 DEF Makes
  <2>5. ASSUME NEW p \in Requests, NEW q \in Requests \ {p}, job'[p].made # 0
        PROVE  job'[q].made # job'[p].made
    BY <2>1, <2>2, <2>4, <2>5
  <2>6. \A q \in Requests : job'[q].made \in Nat /\ job'[q].made < next'
    BY <2>1, <2>2, <2>3
  <2> QED
    BY <2>5, <2>6 DEF MadeOnce
<1> QED
  BY <1>2, <1>4, <1>5

\* Tokens belong to logins that have been answered, and so to no request that moves.
LEMMA TokensStay ==
    ASSUME JobType, Tokens, NEW r \in Requests, job[r].pc # "done", Elsewhere(r), ever \subseteq ever'
    PROVE  /\ \A i \in 1..Len(tokens) : tokens[i].by \in Requests \ {r}
           /\ tokens' = tokens => Tokens'
<1>1. \A i \in 1..Len(tokens) : tokens[i].by \in Requests \ {r} /\ job'[tokens[i].by] = job[tokens[i].by]
  BY DEF Tokens, Issued, Elsewhere
<1>2. ASSUME tokens' = tokens PROVE Tokens'
  <2>1. \A i \in 1..Len(tokens) : Issued(i)'
    BY <1>1, <1>2 DEF Tokens, Issued
  <2> QED
    BY <1>2, <2>1 DEF Tokens
<1> QED
  BY <1>1, <1>2

\* The rest of the invariant after a step of r.
Advanced ==
    /\ JobType' /\ MadeOnce' /\ Tokens' /\ DOMAIN view' = Requests
    /\ \A q \in Requests : JobInv(q)'

\* A step that issues no token,
LEMMA Moves ==
    ASSUME IInv, Collection', NEW r \in Requests, Elsewhere(r), ever \subseteq ever', next <= next',
           DOMAIN view' = Requests, \A q \in Requests \ {r} : Watched(q), tokens' = tokens, job[r].pc # "done",
           job'[r].pc \in Places, job'[r].ask \in Asks, job'[r].bearer \in 0..Len(tokens),
           job'[r].at \in Seq(ever'), InOrder(job'[r].at), Makes(r), JobInv(r)'
    PROVE  Advanced
<1>1. Len(tokens') \in Nat /\ Len(tokens) <= Len(tokens')
  BY DEF IInv, Tokens
<1>2. JobType' /\ MadeOnce' /\ \A q \in Requests : JobInv(q)'
  BY <1>1, OneMoves
<1>3. Tokens'
  BY TokensStay DEF IInv
<1> QED
  BY <1>2, <1>3 DEF Advanced

\* and leaves the database and what was asked alone.
LEMMA Quiet ==
    ASSUME IInv, NEW r \in Requests, Elsewhere(r), UNCHANGED store, tokens' = tokens,
           job[r].pc # "done", job'[r].pc \in Places, job'[r].ask \in Asks, job'[r].bearer \in 0..Len(tokens),
           job'[r].at \in Seq(ever), InOrder(job'[r].at), job'[r].made = job[r].made, JobInv(r)'
    PROVE  Advanced
<1>1. docs' = docs /\ next' = next /\ ever' = ever /\ view' = view
  BY DEF store
<1>2. Collection'
  BY <1>1 DEF IInv, Collection, InOrder
<1>3. \A q \in Requests \ {r} : Watched(q)
  BY <1>1, StillWatched DEF IInv
<1>4. DOMAIN view' = Requests /\ next <= next'
  BY <1>1 DEF IInv, Collection
<1> QED
  BY <1>1, <1>2, <1>3, <1>4, Moves DEF Makes

(***************************************************************************)
(* The steps of a request.                                                 *)
(***************************************************************************)

\* The new job of r, field by field.
Same(r) ==
    /\ job'[r].ask = job[r].ask /\ job'[r].bearer = job[r].bearer /\ job'[r].made = job[r].made
    /\ job'[r].rows = job[r].rows /\ job'[r].did = job[r].did

LEMMA RespondIs ==
    ASSUME JobType, NEW r \in Requests, NEW from, NEW s, Respond(r, from, s)
    PROVE  /\ Elsewhere(r) /\ job[r].pc = from /\ job'[r].pc = "done" /\ job'[r].status = s /\ Same(r)
           /\ job'[r].found = job[r].found /\ job'[r].at = job[r].at /\ job'[r].failed = job[r].failed
  BY DEF Respond, JobType, Elsewhere, Fields, Same

LEMMA GotoIs ==
    ASSUME JobType, NEW r \in Requests, NEW from, NEW to, Goto(r, from, to)
    PROVE  /\ Elsewhere(r) /\ job[r].pc = from /\ job'[r].pc = to /\ job'[r].status = job[r].status /\ Same(r)
           /\ job'[r].found = job[r].found /\ job'[r].at = job[r].at /\ job'[r].failed = job[r].failed
  BY DEF Goto, JobType, Elsewhere, Fields, Same

\* What is known of a job that has not been answered.
LEMMA JobIs ==
    ASSUME IInv, NEW r \in Requests, job[r].pc # "idle"
    PROVE  /\ job[r].ask \in Asks /\ job[r].ask.op \in Ops
           /\ job[r].ask.page.skip \in Int /\ job[r].ask.page.limit \in Int
           /\ job[r].bearer \in 0..Len(tokens) /\ job[r].at \in Seq(ever) /\ InOrder(job[r].at)
           /\ job[r].ask.op \in Guarded /\ job[r].pc \notin {"auth", "done"} => job[r].bearer # 0
<1>1. job[r].ask \in Asks /\ job[r].bearer \in 0..Len(tokens) /\ job[r].at \in Seq(ever) /\ InOrder(job[r].at)
  BY DEF IInv, JobType
<1>2. job[r].ask.op \in Guarded /\ job[r].pc \notin {"auth", "done"} => job[r].bearer # 0
  BY DEF IInv, JobInv, Carried, Done
<1> QED
  BY <1>1, <1>2, AsksKnown, PagesAreNumbers

\* A collection without documents.
LEMMA EmptyIs ==
    ASSUME NEW S
    PROVE  << >> \in Seq(S) /\ InOrder(<< >>) /\ \A id : WithId(<< >>, id) = {}
  BY DEF InOrder, WithId

\* A request that comes, or goes on without an answer.
LEMMA MovesOn ==
    ASSUME IInv, NEW r \in Requests, Elsewhere(r), UNCHANGED store, tokens' = tokens,
           job[r].pc \in {"idle", "auth", "check"}, job'[r].pc \in {"auth", "check", "command"},
           job'[r].ask \in Asks, job'[r].bearer \in 0..Len(tokens),
           job'[r].ask.op \in Guarded /\ job'[r].pc # "auth" => job'[r].bearer # 0,
           job'[r].found = job[r].found, job'[r].rows = job[r].rows, job'[r].at = job[r].at,
           job'[r].status = job[r].status, job'[r].did = job[r].did, job'[r].failed = job[r].failed,
           job'[r].made = job[r].made
    PROVE  Advanced
<1>1. /\ job[r].found = << >> /\ job[r].rows = << >> /\ job[r].at = << >>
      /\ job[r].status = 0 /\ job[r].did = FALSE /\ job[r].failed = FALSE
  BY DEF IInv, JobInv, Fresh
<1>2. Fresh(r)'
  BY <1>1 DEF Fresh
<1>3. Ran(r)' /\ Verifying(r)' /\ Truthful(r)' /\ Listed(r)' /\ Looking(r)'
  BY DEF Ran, Verifying, Truthful, Listed, Looking, Done
<1>4. Carried(r)'
  BY DEF Carried
<1>5. Seen(r)'
  BY DEF IInv, JobInv, Seen, store
<1>6. JobInv(r)'
  BY <1>2, <1>3, <1>4, <1>5 DEF JobInv
<1>7. job'[r].at \in Seq(ever) /\ InOrder(job'[r].at)
  BY <1>1, EmptyIs
<1>8. job[r].pc # "done" /\ job'[r].pc \in Places
  BY DEF Places
<1> QED
  BY <1>6, <1>7, <1>8, Quiet

\* A request that is refused before the repository is called has changed nothing.
LEMMA Refused ==
    ASSUME IInv, NEW r \in Requests, NEW from \in {"auth", "check"}, NEW s \in {0, 400, 401, 404, 500},
           from = "auth" => s = 401, Respond(r, from, s), UNCHANGED store, tokens' = tokens
    PROVE  Advanced
<1>1. /\ Elsewhere(r) /\ job[r].pc = from /\ job'[r].pc = "done" /\ job'[r].status = s
      /\ job'[r].ask = job[r].ask /\ job'[r].bearer = job[r].bearer /\ job'[r].made = job[r].made
      /\ job'[r].rows = job[r].rows /\ job'[r].did = job[r].did
      /\ job'[r].at = job[r].at /\ job'[r].failed = job[r].failed
  BY RespondIs DEF IInv, Same
<1>2. job[r].rows = << >> /\ job[r].at = << >> /\ job[r].did = FALSE /\ job[r].failed = FALSE
  BY <1>1 DEF IInv, JobInv, Fresh
<1>3. /\ job[r].ask \in Asks /\ job[r].bearer \in 0..Len(tokens)
      /\ job[r].ask.op \in Guarded /\ from # "auth" => job[r].bearer # 0
  BY <1>1, JobIs
<1>4. Fresh(r)' /\ Ran(r)' /\ Verifying(r)' /\ Looking(r)' /\ Listed(r)'
  BY <1>1 DEF Fresh, Ran, Verifying, Looking, Listed, Done
<1>5. Carried(r)'
  BY <1>1, <1>3 DEF Carried, Done
<1>6. Truthful(r)'
  <2>1. WithId(job'[r].at, job'[r].ask.id) = {}
    BY <1>1, <1>2, EmptyIs
  <2>2. s # 200 /\ s # 201
    OBVIOUS
  <2> QED
    BY <1>1, <1>2, <2>1, <2>2 DEF Truthful, Done
<1>7. Seen(r)'
  BY <1>1 DEF IInv, JobInv, Seen, store
<1>8. JobInv(r)'
  BY <1>4, <1>5, <1>6, <1>7 DEF JobInv
<1>9. job'[r].at \in Seq(ever) /\ InOrder(job'[r].at)
  BY <1>1, <1>2, EmptyIs
<1>10. job[r].pc # "done" /\ job'[r].pc \in Places
  BY <1>1 DEF Places
<1> QED
  BY <1>1, <1>3, <1>8, <1>9, <1>10, Quiet

LEMMA ArriveStep ==
    ASSUME IInv, NEW r \in Requests, NEW a \in Asks, NEW bearer \in 0..Len(tokens), Arrive(r, a, bearer)
    PROVE  Advanced
<1>1. /\ job[r].pc = "idle" /\ UNCHANGED store /\ tokens' = tokens /\ Elsewhere(r)
      /\ job'[r].pc = (IF a.op \in Guarded THEN "auth" ELSE "check") /\ job'[r].ask = a /\ job'[r].bearer = bearer
      /\ job'[r].found = job[r].found /\ job'[r].rows = job[r].rows /\ job'[r].at = job[r].at
      /\ job'[r].status = job[r].status /\ job'[r].did = job[r].did /\ job'[r].failed = job[r].failed
      /\ job'[r].made = job[r].made
  BY DEF Arrive, shared, store, IInv, JobType, Elsewhere, Fields
<1>2. job'[r].ask.op \in Guarded => job'[r].pc = "auth"
  BY <1>1
<1> QED
  BY <1>1, <1>2, MovesOn

LEMMA RequireAuthStep ==
    ASSUME IInv, NEW r \in Requests, RequireAuth(r)
    PROVE  Advanced
<1>1. UNCHANGED store /\ tokens' = tokens
  BY DEF RequireAuth, shared, store
<1>2. CASE VerifyToken(job[r].bearer)
  <2>1. Goto(r, "auth", "check") /\ job[r].bearer # 0
    BY <1>2 DEF RequireAuth, VerifyToken
  <2>2. /\ Elsewhere(r) /\ job[r].pc = "auth" /\ job'[r].pc = "check" /\ job'[r].status = job[r].status
        /\ job'[r].ask = job[r].ask /\ job'[r].bearer = job[r].bearer /\ job'[r].found = job[r].found
        /\ job'[r].rows = job[r].rows /\ job'[r].at = job[r].at /\ job'[r].made = job[r].made
        /\ job'[r].did = job[r].did /\ job'[r].failed = job[r].failed
    BY <2>1, GotoIs DEF IInv, Same
  <2>3. job[r].ask \in Asks /\ job[r].bearer \in 0..Len(tokens)
    BY <2>2, JobIs
  <2> QED
    BY <1>1, <2>1, <2>2, <2>3, MovesOn
<1>3. CASE ~VerifyToken(job[r].bearer)
  <2>1. Respond(r, "auth", 401)
    BY <1>3 DEF RequireAuth
  <2> QED
    BY <1>1, <2>1, Refused
<1> QED
  BY <1>2, <1>3

LEMMA RefuseStep ==
    ASSUME IInv, NEW r \in Requests, Refuse(r) \/ HashFails(r)
    PROVE  Advanced
<1>1. UNCHANGED store /\ tokens' = tokens
  BY DEF Refuse, HashFails, shared, store
<1>2. \E s \in {0, 400, 401, 404, 500} : Respond(r, "check", s)
  BY DEF Refuse, HashFails
<1> QED
  BY <1>1, <1>2, Refused

LEMMA AcquireStep ==
    ASSUME IInv, NEW r \in Requests, Acquire(r)
    PROVE  Advanced
<1>1. UNCHANGED store /\ tokens' = tokens /\ Goto(r, "check", "command")
  BY DEF Acquire, store
<1>2. /\ Elsewhere(r) /\ job[r].pc = "check" /\ job'[r].pc = "command" /\ job'[r].status = job[r].status
      /\ job'[r].ask = job[r].ask /\ job'[r].bearer = job[r].bearer /\ job'[r].found = job[r].found
      /\ job'[r].rows = job[r].rows /\ job'[r].at = job[r].at /\ job'[r].made = job[r].made
      /\ job'[r].did = job[r].did /\ job'[r].failed = job[r].failed
  BY <1>1, GotoIs DEF IInv, Same
<1>3. job[r].ask \in Asks /\ job[r].bearer \in 0..Len(tokens) /\ (job[r].ask.op \in Guarded => job[r].bearer # 0)
  BY <1>2, JobIs
<1> QED
  BY <1>1, <1>2, <1>3, MovesOn

\* A command that has run: what remains to be shown is what it found.
LEMMA CommandRan ==
    ASSUME IInv, Collection', NEW r \in Requests, Elsewhere(r), ever \subseteq ever', next <= next',
           DOMAIN view' = Requests, \A q \in Requests : Watched(q), tokens' = tokens, Makes(r),
           job[r].pc = "command", job[r].ask.op # "list",
           job'[r].pc = "return", job'[r].ask = job[r].ask, job'[r].bearer = job[r].bearer,
           job'[r].at = docs, Ran(r)'
    PROVE  Advanced
<1>1. job[r].ask \in Asks /\ job[r].bearer \in 0..Len(tokens) /\ (job[r].ask.op \in Guarded => job[r].bearer # 0)
  BY JobIs
<1>2. docs \in Seq(ever') /\ InOrder(docs)
  BY SeqMono DEF IInv, Collection
<1>3. Fresh(r)' /\ Verifying(r)' /\ Truthful(r)' /\ Listed(r)' /\ Looking(r)'
  BY DEF Fresh, Verifying, Truthful, Listed, Looking, Done
<1>4. Carried(r)'
  BY <1>1 DEF Carried
<1>5. Seen(r)'
  BY DEF IInv, JobInv, Seen, Watched
<1>6. JobInv(r)'
  BY <1>3, <1>4, <1>5 DEF JobInv
<1>7. job[r].pc # "done" /\ job'[r].pc \in Places
  BY DEF Places
<1> QED
  BY <1>1, <1>2, <1>6, <1>7, Moves

LEMMA CommandStep ==
    ASSUME IInv, Collection', NEW r \in Requests, Command(r), ever \subseteq ever', next <= next'
    PROVE  Advanced
<1> DEFINE a == job[r].ask
<1>1. PICK found \in Matches(a) :
          job' = [job EXCEPT ![r] = [@ EXCEPT !.pc = "return", !.found = found, !.at = docs, !.did = (found # << >>),
                                              !.made = IF job[r].ask.op = "create" THEN next ELSE 0]]
  BY DEF Command
<1>2. /\ job[r].pc = "command" /\ a.op # "list" /\ tokens' = tokens
      /\ docs' = Effect(a) /\ ever' = ever \cup ToSetOf(docs')
      /\ next' = (IF a.op = "create" THEN next + 1 ELSE next) /\ Apply(r)
  BY DEF Command, Apply
<1>3. /\ Elsewhere(r) /\ job'[r].pc = "return" /\ job'[r].ask = a /\ job'[r].bearer = job[r].bearer
      /\ job'[r].found = found /\ job'[r].at = docs /\ job'[r].failed = job[r].failed
      /\ job'[r].made = (IF a.op = "create" THEN next ELSE 0)
  BY <1>1 DEF IInv, JobType, Elsewhere, Fields
<1>4. job'[r].did = (found # << >>)
  BY <1>1 DEF IInv, JobType, Fields
<1>5. job[r].failed = FALSE
  BY <1>2 DEF IInv, JobInv, Fresh
<1>6. a \in Asks /\ a.op \in Ops
  BY <1>2, JobIs
<1>7. /\ docs \in Seq(ever) /\ Len(docs) \in Nat /\ DOMAIN docs = 1..Len(docs) /\ next \in Nat \ {0}
      /\ \A i \in 1..Len(docs) : docs[i]["_id"] \in Nat /\ docs[i]["_id"] < next
  BY DEF IInv, Collection, InOrder
<1>8. ASSUME a.op = "create"
      PROVE  \E d \in ever' : /\ d["_id"] = next
                              /\ d["name"] = a.body.fields["name"] /\ "password_hash" \in DOMAIN d
                              /\ VerifyPassword(a.body.fields["password"], d["password_hash"])
                              /\ RoleOf(d) = RoleAsked(a)
  <2> DEFINE d == NewDoc(a)
  <2>1. docs' = Append(docs, d)
    BY <1>2, <1>8 DEF Effect
  <2>2. /\ d["name"] = a.body.fields["name"] /\ "password_hash" \in DOMAIN d /\ d["_id"] = next
        /\ VerifyPassword(a.body.fields["password"], d["password_hash"]) /\ RoleOf(d) = RoleAsked(a)
    BY DEF NewDoc, VerifyPassword, HashPassword, RoleOf
  <2> HIDE DEF d, a
  <2>3. Len(docs) + 1 \in DOMAIN docs' /\ docs'[Len(docs) + 1] = d
    BY <1>7, <2>1
  <2>4. d \in ever'
    BY <1>2, <2>3 DEF ToSetOf
  <2> QED
    BY <2>2, <2>4
<1>9. next # 0 /\ WithId(docs, next) = {}
  <2>1. \A i \in 1..Len(docs) : docs[i]["_id"] # next
    BY <1>7
  <2> QED
    BY <1>7, <2>1 DEF WithId
<1>10. ASSUME a.op = "login"
       PROVE  found # << >> => \E d \in ever' : found = <<d>> /\ d["name"] = a.body.fields["name"]
  <2> DEFINE S == {d \in ToSetOf(docs) : d["name"] = a.body.fields["name"]}
  <2>1. found \in (IF S = {} THEN {<< >>} ELSE {<<d>> : d \in S})
    BY <1>10 DEF Matches
  <2>2. S \subseteq ever' /\ \A d \in S : d["name"] = a.body.fields["name"]
    BY <1>2, <1>7, OwnRange
  <2> HIDE DEF S
  <2> QED
    BY <2>1, <2>2
<1>11. ASSUME a.op \in {"get", "update", "delete"}
       PROVE  \/ found = << >> /\ WithId(docs, a.id) = {}
              \/ \E i \in WithId(docs, a.id) : found = <<docs[i]>>
  <2> DEFINE S == {docs[i] : i \in WithId(docs, a.id)}
  <2>1. found \in (IF S = {} THEN {<< >>} ELSE {<<d>> : d \in S})
    BY <1>11 DEF Matches
  <2>2. (S = {} <=> WithId(docs, a.id) = {}) /\ \A d \in S : \E i \in WithId(docs, a.id) : d = docs[i]
    OBVIOUS
  <2> HIDE DEF S
  <2> QED
    BY <2>1, <2>2
<1> HIDE DEF a
<1>12. Ran(r)'
  <2>1. job'[r].failed = FALSE /\ (job'[r].did <=> found # << >>)
    BY <1>3, <1>4, <1>5
  <2>2. a.op = "create" => Created(job[r].ask, job[r].at, job[r].made)'
    BY <1>3, <1>8, <1>9 DEF Created
  <2> QED
    BY <1>3, <1>10, <1>11, <2>1, <2>2 DEF Ran
<1>13. Makes(r)
  BY <1>2, <1>3 DEF Makes
<1>14. DOMAIN view' = Requests /\ \A q \in Requests : Watched(q)
  BY <1>2, ApplyWatched
<1> QED
  BY <1>2, <1>3, <1>12, <1>13, <1>14, CommandRan DEF a

LEMMA UpdateRejectedStep ==
    ASSUME IInv, NEW r \in Requests, UpdateRejected(r)
    PROVE  Advanced
<1> DEFINE a == job[r].ask
           mine == WithId(docs, a.id)
<1>1. /\ job[r].pc = "command" /\ a.op = "update" /\ docs' = docs /\ next' = next /\ ever' = ever /\ view' = view
      /\ tokens' = tokens /\ job' = [job EXCEPT ![r] = [@ EXCEPT !.pc = "return", !.at = docs]]
  BY DEF UpdateRejected, shared, store
<1>2. /\ Elsewhere(r) /\ job'[r].pc = "return" /\ job'[r].ask = a /\ job'[r].bearer = job[r].bearer
      /\ job'[r].found = job[r].found /\ job'[r].at = docs /\ job'[r].failed = job[r].failed
      /\ job'[r].did = job[r].did /\ job'[r].made = job[r].made
  BY <1>1 DEF IInv, JobType, Elsewhere, Fields
<1>3. job[r].found = << >> /\ job[r].failed = FALSE /\ job[r].did = FALSE
  BY <1>1 DEF IInv, JobInv, Fresh
<1>4. \A i \in mine : MayReject(a, docs[i])
  <2>1. CASE a.body.kind = "strange"
    BY <2>1 DEF MayReject, Rejects
  <2>2. CASE \E i \in mine : MayReject(a, docs[i])
    <3>1. PICK i \in mine : MayReject(a, docs[i])
      BY <2>2
    <3>2. docs \in Seq(ever) /\ InOrder(docs)
      BY DEF IInv, Collection
    <3>3. \A j \in mine : j = i
      BY <3>2, WithIdOne
    <3> QED
      BY <3>1, <3>3
  <2> QED
    BY <2>1, <2>2 DEF UpdateRejected
<1>5. Ran(r)'
  <2> HIDE DEF a
  <2>1. mine = WithId(job'[r].at, job'[r].ask.id)
    BY <1>2
  <2>2. \A i \in WithId(job'[r].at, job'[r].ask.id) : MayReject(job'[r].ask, job'[r].at[i])
    BY <1>2, <1>4
  <2> QED
    BY <1>1, <1>2, <1>3, <2>2 DEF Ran
<1>6. Collection' /\ next <= next' /\ ever \subseteq ever' /\ DOMAIN view' = Requests
  BY <1>1 DEF IInv, Collection, InOrder
<1>7. \A q \in Requests : Watched(q)
  BY <1>1, StillWatched DEF IInv
<1> QED
  BY <1>1, <1>2, <1>5, <1>6, <1>7, CommandRan DEF Makes

LEMMA CommandFailsStep ==
    ASSUME IInv, Collection', NEW r \in Requests, CommandFails(r), ever \subseteq ever', next <= next'
    PROVE  Advanced
<1> DEFINE a == job[r].ask
<1>1. PICK applied \in BOOLEAN :
          /\ job' = [job EXCEPT ![r] = [@ EXCEPT !.pc = "return", !.at = docs, !.did = applied, !.failed = TRUE]]
          /\ IF applied THEN Apply(r) ELSE UNCHANGED store
  BY DEF CommandFails
<1>2. job[r].pc = "command" /\ a.op # "list" /\ tokens' = tokens
  BY DEF CommandFails
<1>3. /\ Elsewhere(r) /\ job'[r].pc = "return" /\ job'[r].ask = a /\ job'[r].bearer = job[r].bearer
      /\ job'[r].found = job[r].found /\ job'[r].at = docs /\ job'[r].failed = TRUE /\ job'[r].made = job[r].made
  BY <1>1 DEF IInv, JobType, Elsewhere, Fields
<1>4. job[r].found = << >>
  BY <1>2 DEF IInv, JobInv, Fresh
<1>5. Ran(r)'
  BY <1>3, <1>4 DEF Ran
<1>6. DOMAIN view' = Requests /\ \A q \in Requests : Watched(q)
  <2>1. CASE Apply(r)
    BY <2>1, ApplyWatched
  <2>2. CASE UNCHANGED store
    BY <2>2, StillWatched DEF IInv, store
  <2> QED
    BY <1>1, <2>1, <2>2
<1> QED
  BY <1>2, <1>3, <1>5, <1>6, CommandRan DEF Makes

(***************************************************************************)
(* The steps of a list.                                                    *)
(***************************************************************************)

LEMMA OpenCursorStep ==
    ASSUME IInv, NEW r \in Requests, OpenCursor(r)
    PROVE  Advanced
<1> DEFINE p == job[r].ask.page
<1>1. /\ job[r].ask.op = "list" /\ Goto(r, "command", "cursor") /\ docs' = docs /\ next' = next /\ ever' = ever
      /\ tokens' = tokens /\ view' = [view EXCEPT ![r] = [during |-> ToSetOf(docs), stay |-> Ids(docs)]]
  BY DEF OpenCursor
<1>2. /\ Elsewhere(r) /\ job[r].pc = "command" /\ job'[r].pc = "cursor" /\ job'[r].ask = job[r].ask
      /\ job'[r].bearer = job[r].bearer /\ job'[r].found = job[r].found /\ job'[r].at = job[r].at
      /\ job'[r].made = job[r].made
  BY <1>1, GotoIs DEF IInv, Same
<1>3. /\ DOMAIN view' = Requests /\ \A q \in Requests \ {r} : view'[q] = view[q]
      /\ view'[r] = [during |-> ToSetOf(docs), stay |-> Ids(docs)]
  BY <1>1 DEF IInv
<1>4. /\ DOMAIN view'[r] = {"during", "stay"} /\ view'[r].during = ToSetOf(docs) /\ view'[r].stay = Ids(docs)
  BY <1>3
<1>5. /\ job[r].ask \in Asks /\ p.skip \in Int /\ p.limit \in Int /\ job[r].bearer \in 0..Len(tokens)
      /\ job[r].at \in Seq(ever) /\ InOrder(job[r].at) /\ job[r].bearer # 0
  BY <1>1, <1>2, JobIs DEF Guarded
<1>6. docs \in Seq(ever) /\ InOrder(docs)
  BY DEF IInv, Collection
<1>7. Seen(r)'
  <2>1. HasIds(ToSetOf(docs)) /\ Ids(docs) \subseteq Nat
    BY <1>6, RangeHasIds
  <2> QED
    BY <1>1, <1>2, <1>4, <2>1 DEF Seen
<1>8. Passed(p, << >>, ToSetOf(docs), Ids(docs))
  <2>1. Len(<< >>) = 0 /\ << >> \in Seq(ToSetOf(docs)) /\ 1..0 = {}
    OBVIOUS
  <2>2. p.limit > 0 => 0 <= Skip(p) + p.limit
    BY <1>5 DEF Skip
  <2> QED
    BY <2>1, <2>2 DEF Passed
<1>9. job[r].found = << >>
  BY <1>2 DEF IInv, JobInv, Fresh
<1>10. Looking(r)'
  BY <1>2, <1>4, <1>8, <1>9 DEF Looking
<1>11. Fresh(r)' /\ Ran(r)' /\ Verifying(r)' /\ Truthful(r)' /\ Listed(r)'
  BY <1>2 DEF Fresh, Ran, Verifying, Truthful, Listed, Done
<1>12. Carried(r)'
  BY <1>2, <1>5 DEF Carried
<1>13. JobInv(r)'
  BY <1>7, <1>10, <1>11, <1>12 DEF JobInv
<1>14. Collection' /\ next <= next'
  BY <1>1 DEF IInv, Collection, InOrder
<1>15. \A q \in Requests \ {r} : Watched(q)
  BY <1>1, <1>3, StillWatched DEF IInv
<1>16. job[r].pc # "done" /\ job'[r].pc \in Places
  BY <1>2 DEF Places
<1> QED
  BY <1>1, <1>2, <1>3, <1>5, <1>13, <1>14, <1>15, <1>16, Moves DEF Makes

\* A cursor that is open: what remains to be shown is what it has passed.
LEMMA CursorMoved ==
    ASSUME IInv, NEW r \in Requests, Elsewhere(r), UNCHANGED store, tokens' = tokens, job[r].pc = "cursor",
           job'[r].pc \in {"cursor", "return"}, job'[r].ask = job[r].ask, job'[r].bearer = job[r].bearer,
           job'[r].at = job[r].at, job'[r].made = job[r].made,
           Passed(job[r].ask.page, job'[r].found, view[r].during, view[r].stay),
           job'[r].pc = "return" =>
               Ended(job[r].ask.page, job'[r].found, view[r].during, view[r].stay, job'[r].failed)
    PROVE  Advanced
<1>1. /\ job[r].ask \in Asks /\ job[r].bearer \in 0..Len(tokens) /\ job[r].at \in Seq(ever) /\ InOrder(job[r].at)
      /\ job[r].ask.op \in Guarded => job[r].bearer # 0
  BY JobIs
<1>2. view' = view /\ docs' = docs /\ job[r].ask.op = "list"
  BY DEF store, IInv, JobInv, Seen
<1>3. Seen(r)'
  BY <1>2 DEF IInv, JobInv, Seen
<1>4. Looking(r)'
  BY <1>2 DEF Looking
<1>5. Fresh(r)' /\ Ran(r)' /\ Verifying(r)' /\ Truthful(r)' /\ Listed(r)'
  BY <1>2 DEF Fresh, Ran, Verifying, Truthful, Listed, Done
<1>6. Carried(r)'
  BY <1>1 DEF Carried
<1>7. JobInv(r)'
  BY <1>3, <1>4, <1>5, <1>6 DEF JobInv
<1>8. job[r].pc # "done" /\ job'[r].pc \in Places
  BY DEF Places
<1> QED
  BY <1>1, <1>7, <1>8, Quiet

\* What is known of a cursor that is open.
LEMMA CursorIs ==
    ASSUME IInv, NEW r \in Requests, job[r].pc = "cursor"
    PROVE  /\ Collection /\ HasIds(view[r].during) /\ ToSetOf(docs) \subseteq view[r].during
           /\ view[r].stay \subseteq Ids(docs)
           /\ Passed(job[r].ask.page, job[r].found, view[r].during, view[r].stay)
           /\ job[r].ask.page.skip \in Int /\ job[r].ask.page.limit \in Int
<1>1. job[r].ask.page.skip \in Int /\ job[r].ask.page.limit \in Int
  BY JobIs
<1> QED
  BY <1>1 DEF IInv, JobInv, Seen, Looking

LEMMA CursorNextStep ==
    ASSUME IInv, NEW r \in Requests, CursorNext(r)
    PROVE  Advanced
<1> DEFINE p == job[r].ask.page
           found == job[r].found
<1>1. job[r].pc = "cursor" /\ ~Full(p, Len(found)) /\ UNCHANGED store /\ tokens' = tokens
  BY DEF CursorNext, shared
<1>2. PICK i \in NextPlaces(p, found) :
          job' = [job EXCEPT ![r] = IF Len(found) < Skip(p) \/ Listable(docs[i])
                                       THEN [@ EXCEPT !.found = Append(found, docs[i])]
                                       ELSE [@ EXCEPT !.pc = "return"]]
  BY DEF CursorNext
<1>3. /\ Collection /\ HasIds(view[r].during) /\ ToSetOf(docs) \subseteq view[r].during
      /\ view[r].stay \subseteq Ids(docs)
      /\ Passed(p, found, view[r].during, view[r].stay) /\ p.skip \in Int /\ p.limit \in Int
  BY <1>1, CursorIs
<1>4. Passed(p, Append(found, docs[i]), view[r].during, view[r].stay) /\ docs[i] \in view[r].during
  BY <1>1, <1>3, PassesOne
<1>5. DOMAIN job = Requests /\ DOMAIN job[r] = Fields
  BY DEF IInv, JobType
<1>6. CASE Len(found) < Skip(p) \/ Listable(docs[i])
  <2>1. /\ Elsewhere(r) /\ job'[r].pc = "cursor" /\ job'[r].ask = job[r].ask /\ job'[r].bearer = job[r].bearer
        /\ job'[r].at = job[r].at /\ job'[r].made = job[r].made /\ job'[r].found = Append(found, docs[i])
    BY <1>1, <1>2, <1>5, <1>6 DEF Elsewhere, Fields
  <2> QED
    BY <1>1, <1>4, <2>1, CursorMoved
<1>7. CASE ~(Len(found) < Skip(p) \/ Listable(docs[i]))
  <2>1. /\ Elsewhere(r) /\ job'[r].pc = "return" /\ job'[r].ask = job[r].ask /\ job'[r].bearer = job[r].bearer
        /\ job'[r].at = job[r].at /\ job'[r].made = job[r].made /\ job'[r].found = found
    BY <1>1, <1>2, <1>5, <1>7 DEF Elsewhere, Fields
  <2>2. Ended(p, found, view[r].during, view[r].stay, job'[r].failed)
    BY <1>4, <1>7 DEF Ended
  <2> QED
    BY <1>1, <1>3, <2>1, <2>2, CursorMoved
<1> QED
  BY <1>6, <1>7

LEMMA CursorEndStep ==
    ASSUME IInv, NEW r \in Requests, CursorEnd(r) \/ CursorFails(r)
    PROVE  Advanced
<1> DEFINE p == job[r].ask.page
           found == job[r].found
<1>1. job[r].pc = "cursor" /\ UNCHANGED store /\ tokens' = tokens
  BY DEF CursorEnd, CursorFails, Goto, shared
<1>2. /\ Elsewhere(r) /\ job'[r].pc = "return" /\ job'[r].ask = job[r].ask /\ job'[r].bearer = job[r].bearer
      /\ job'[r].at = job[r].at /\ job'[r].made = job[r].made /\ job'[r].found = found
      /\ CursorFails(r) => job'[r].failed
  <2>1. DOMAIN job = Requests /\ DOMAIN job[r] = Fields
    BY DEF IInv, JobType
  <2>2. CursorFails(r) => job' = [job EXCEPT ![r] = [@ EXCEPT !.pc = "return", !.failed = TRUE]]
    BY DEF CursorFails
  <2>3. CursorEnd(r) => job' = [job EXCEPT ![r].pc = "return"]
    BY DEF CursorEnd, Goto
  <2>4. CASE CursorFails(r)
    BY <2>1, <2>2, <2>4 DEF Elsewhere, Fields
  <2>5. CASE CursorEnd(r) /\ ~CursorFails(r)
    BY <2>1, <2>3, <2>5 DEF Elsewhere, Fields
  <2> QED
    BY <2>4, <2>5
<1>3. /\ Collection /\ HasIds(view[r].during) /\ view[r].stay \subseteq Ids(docs)
      /\ Passed(p, found, view[r].during, view[r].stay)
  BY <1>1, CursorIs
<1>4. Ended(p, found, view[r].during, view[r].stay, job'[r].failed)
  <2>1. CASE CursorFails(r)
    BY <1>2, <2>1 DEF Ended
  <2>2. CASE Full(p, Len(found))
    BY <2>2 DEF Ended
  <2>3. CASE NextPlaces(p, found) = {}
    BY <1>3, <2>3, PassedAll DEF Ended
  <2> QED
    BY <2>1, <2>2, <2>3 DEF CursorEnd
<1> QED
  BY <1>1, <1>2, <1>3, <1>4, CursorMoved

(***************************************************************************)
(* The answers.                                                            *)
(***************************************************************************)

\* The repository returns: a login goes on, every other request is answered.
LEMMA ReturnIs ==
    ASSUME IInv, NEW r \in Requests, Return(r)
    PROVE  LET op == job[r].ask.op
               users == UsersOf(job[r].ask, job[r].found)
           IN  /\ Elsewhere(r) /\ job[r].pc = "return" /\ tokens' = tokens /\ UNCHANGED store
               /\ job'[r].pc = (IF MayVerify(op, users) THEN "verify" ELSE "done")
               /\ job'[r].status = (IF MayVerify(op, users) THEN 0 ELSE Status(op, users, job[r].found))
               /\ MayVerify(op, users) => job'[r].found = job[r].found
               /\ job'[r].rows = (IF op \in {"list", "get"} THEN [i \in DOMAIN users |-> SafeJson(users[i])] ELSE << >>)
               /\ job'[r].ask = job[r].ask /\ job'[r].bearer = job[r].bearer /\ job'[r].at = job[r].at
               /\ job'[r].did = job[r].did /\ job'[r].failed = job[r].failed /\ job'[r].made = job[r].made
  BY DEF Return, IInv, JobType, Elsewhere, Fields, store

LEMMA ReturnStep ==
    ASSUME IInv, NEW r \in Requests, Return(r)
    PROVE  Advanced
<1> DEFINE a == job[r].ask
           at == job[r].at
           found == job[r].found
           users == UsersOf(a, found)
           mine == WithId(at, a.id)
<1>1. /\ Elsewhere(r) /\ job[r].pc = "return" /\ tokens' = tokens /\ UNCHANGED store
      /\ job'[r].pc = (IF MayVerify(a.op, users) THEN "verify" ELSE "done")
      /\ job'[r].status = (IF MayVerify(a.op, users) THEN 0 ELSE Status(a.op, users, found))
      /\ MayVerify(a.op, users) => job'[r].found = found
      /\ job'[r].rows = (IF a.op \in {"list", "get"} THEN [i \in DOMAIN users |-> SafeJson(users[i])] ELSE << >>)
      /\ job'[r].ask = a /\ job'[r].bearer = job[r].bearer /\ job'[r].at = at
      /\ job'[r].did = job[r].did /\ job'[r].failed = job[r].failed /\ job'[r].made = job[r].made
  BY ReturnIs
<1>2. /\ a \in Asks /\ a.op \in Ops /\ a.page.skip \in Int /\ a.page.limit \in Int
      /\ job[r].bearer \in 0..Len(tokens) /\ at \in Seq(ever) /\ InOrder(at)
      /\ a.op \in Guarded => job[r].bearer # 0
  BY <1>1, JobIs
<1>3. ever' = ever /\ docs' = docs /\ view' = view
  BY <1>1 DEF store
<1>4. a.op # "list" => /\ job[r].failed => found = << >>
                       /\ ~job[r].failed => (job[r].did <=> found # << >>)
  BY <1>1 DEF IInv, JobInv, Ran
<1>5. a.op = "create" /\ found # << >> => Created(a, at, job[r].made)
  BY <1>1 DEF IInv, JobInv, Ran
<1>6. a.op = "login" /\ found # << >> => \E d \in ever : found = <<d>> /\ d["name"] = a.body.fields["name"]
  BY <1>1 DEF IInv, JobInv, Ran
<1>7. a.op \in {"get", "update", "delete"} =>
          \/ /\ found = << >>
             /\ \/ job[r].failed
                \/ mine = {}
                \/ a.op = "update" /\ \A i \in mine : MayReject(a, at[i])
          \/ \E i \in mine : found = <<at[i]>>
  BY <1>1 DEF IInv, JobInv, Ran
<1>8. a.op = "list" => /\ Passed(a.page, found, view[r].during, view[r].stay)
                       /\ Ended(a.page, found, view[r].during, view[r].stay, job[r].failed)
  BY <1>1 DEF IInv, JobInv, Looking
<1>9. HasIds(view[r].during) /\ view[r].stay \subseteq Nat
  BY DEF IInv, JobInv, Seen
<1>10. Carried(r)'
  BY <1>1, <1>2 DEF Carried
<1>11. Fresh(r)' /\ Ran(r)' /\ Looking(r)'
  BY <1>1 DEF Fresh, Ran, Looking
<1>12. Seen(r)'
  BY <1>1, <1>3 DEF IInv, JobInv, Seen
<1>13. ASSUME JobInv(r)' PROVE Advanced
  <2>1. job'[r].at \in Seq(ever) /\ InOrder(job'[r].at) /\ job'[r].ask \in Asks /\ job'[r].bearer \in 0..Len(tokens)
    BY <1>1, <1>2
  <2>2. job'[r].pc \in Places /\ job[r].pc # "done"
    BY <1>1 DEF Places
  <2> QED
    BY <1>1, <1>13, <2>1, <2>2, Quiet
<1> HIDE DEF a, at, found, users, mine
<1>14. ASSUME a.op # "list", NEW x, found = <<x>>
       PROVE  (users = << >> /\ ~Readable(x)) \/ users = <<x>>
  <2>1. found # << >> /\ found[1] = x
    BY <1>14
  <2> QED
    BY <1>14, <2>1 DEF UsersOf, users
<1>15. a.op # "list" /\ found = << >> => users = << >>
  BY DEF UsersOf, users
<1>16. CASE MayVerify(a.op, users)
  <2>1. a.op = "login" /\ users # << >> /\ "password_hash" \in DOMAIN users[1]
    BY <1>16 DEF MayVerify
  <2>2. PICK d \in ever : found = <<d>> /\ d["name"] = a.body.fields["name"]
    BY <1>6, <1>15, <2>1
  <2>3. users[1] = d
    BY <1>14, <2>1, <2>2
  <2>4. job'[r].pc = "verify" /\ job'[r].status = 0 /\ job'[r].found = <<d>>
    BY <1>1, <1>16, <2>1, <2>2
  <2>5. Verifying(r)'
    BY <1>1, <1>3, <2>1, <2>2, <2>3, <2>4 DEF Verifying
  <2>6. Truthful(r)' /\ Listed(r)'
    BY <2>4 DEF Truthful, Listed, Done
  <2> QED
    BY <1>10, <1>11, <1>12, <1>13, <2>5, <2>6 DEF JobInv
<1>17. CASE ~MayVerify(a.op, users)
  <2>1. job'[r].pc = "done" /\ job'[r].status = Status(a.op, users, found)
    BY <1>1, <1>17
  <2>2. Verifying(r)'
    BY <2>1 DEF Verifying
  <2>3. /\ a.op = "create" => job'[r].status = IF found # << >> THEN 201 ELSE 500
        /\ a.op = "list" => job'[r].status = 200
        /\ a.op = "get" => job'[r].status = IF users # << >> THEN 200 ELSE 404
        /\ a.op = "login" => job'[r].status = 401
        /\ a.op \in {"update", "delete"} => job'[r].status = IF found # << >> THEN 200 ELSE 404
    BY <2>1 DEF Status
  <2>4. a.op \in {"create", "update", "delete"} => (job'[r].status \in {200, 201} <=> found # << >>)
    BY <2>3
  <2>5. a.op \in {"create", "update", "delete"} /\ ~job'[r].failed => (job'[r].did <=> job'[r].status \in {200, 201})
    BY <1>1, <1>4, <2>4
  <2>6. a.op \in {"create", "update", "delete"} /\ job'[r].status \in {200, 201} => job'[r].did
    BY <1>1, <1>4, <2>4
  <2>7. job'[r].status = 201 => a.op = "create" /\ found # << >>
    BY <1>2, <2>3 DEF Ops
  <2>8. ASSUME job'[r].status = 404
        PROVE  \/ job'[r].failed
               \/ \A i \in mine : \/ a.op = "get" /\ ~Readable(at[i])
                                  \/ a.op = "update" /\ MayReject(a, at[i])
    <3>1. a.op \in {"get", "update", "delete"}
      BY <1>2, <2>3, <2>8 DEF Ops
    <3>2. CASE ~\E i \in mine : found = <<at[i]>>
      BY <1>1, <1>7, <3>1, <3>2
    <3>3. CASE \E i \in mine : found = <<at[i]>>
      <4>1. PICK i \in mine : found = <<at[i]>>
        BY <3>3
      <4>2. a.op = "get" /\ users = << >>
        BY <2>3, <2>8, <3>1, <4>1
      <4>3. ~Readable(at[i])
        BY <1>14, <4>1, <4>2
      <4>4. \A j \in mine : j = i
        BY <1>2, <4>1, WithIdOne DEF mine
      <4> QED
        BY <4>2, <4>3, <4>4
    <3> QED
      BY <3>2, <3>3
  <2>9. ASSUME a.op = "get", job'[r].status = 200
        PROVE  \E i \in mine : job'[r].rows = <<SafeJson(at[i])>>
    <3>1. users # << >>
      BY <2>3, <2>9
    <3>2. PICK i \in mine : found = <<at[i]>>
      BY <1>7, <1>15, <2>9, <3>1
    <3>3. users = <<at[i]>>
      BY <1>14, <2>9, <3>1, <3>2
    <3>4. job'[r].rows = [k \in DOMAIN users |-> SafeJson(users[k])]
      BY <1>1, <2>9
    <3>5. job'[r].rows = <<SafeJson(at[i])>>
      BY <3>3, <3>4
    <3> QED
      BY <3>5
  <2>10. job'[r].status = 201 => Created(job[r].ask, job[r].at, job[r].made)'
    BY <1>1, <1>3, <1>5, <2>7 DEF Created
  <2>11. Truthful(r)'
    BY <1>1, <2>5, <2>6, <2>8, <2>9, <2>10 DEF Truthful, Done, mine
  <2>12. Listed(r)'
    <3>1. CASE a.op = "list"
      <4>1. users = SubSeq(found, Skip(a.page) + 1, Len(found)) /\ job'[r].rows = [k \in DOMAIN users |-> SafeJson(users[k])]
        BY <1>1, <3>1 DEF UsersOf, users
      <4>2. RowsRight(a.page, job'[r].rows, view[r].during, view[r].stay, job[r].failed)
        <5>1. Passed(a.page, found, view[r].during, view[r].stay) /\ Ended(a.page, found, view[r].during, view[r].stay, job[r].failed)
          BY <1>8, <3>1
        <5> DEFINE rows == job'[r].rows
        <5>2. users = SubSeq(found, Skip(a.page) + 1, Len(found)) /\ rows = [k \in DOMAIN users |-> SafeJson(users[k])]
          BY <4>1
        <5> HIDE DEF rows
        <5>3. RowsRight(a.page, rows, view[r].during, view[r].stay, job[r].failed)
          BY <1>2, <1>9, <5>1, <5>2, RowsAre
        <5> QED
          BY <5>3 DEF rows
      <4> QED
        BY <1>1, <1>3, <4>2 DEF Listed
    <3>2. CASE a.op # "list"
      BY <1>1, <3>2 DEF Listed
    <3> QED
      BY <3>1, <3>2
  <2> QED
    BY <1>10, <1>11, <1>12, <1>13, <2>2, <2>11, <2>12 DEF JobInv
<1> QED
  BY <1>16, <1>17

\* A login whose password is right gets the token of the user it has read.
LEMMA VerifyLoginStep ==
    ASSUME IInv, NEW r \in Requests, VerifyLogin(r)
    PROVE  Advanced
<1> DEFINE a == job[r].ask
           ok == VerifyPassword(a.body.fields["password"], job[r].found[1]["password_hash"])
           s == IF ok THEN 200 ELSE 401
<1>1. Respond(r, "verify", s) /\ docs' = docs /\ next' = next /\ ever' = ever /\ view' = view
  BY DEF VerifyLogin, store
<1>2. s \in {200, 401}
  OBVIOUS
<1> HIDE DEF s
<1>3. /\ Elsewhere(r) /\ job[r].pc = "verify" /\ job'[r].pc = "done" /\ job'[r].status = s
      /\ job'[r].ask = a /\ job'[r].bearer = job[r].bearer /\ job'[r].found = job[r].found
      /\ job'[r].at = job[r].at /\ job'[r].made = job[r].made
  BY <1>1, RespondIs DEF IInv, Same
<1>4. PICK d \in ever : job[r].found = <<d>> /\ d["name"] = a.body.fields["name"] /\ "password_hash" \in DOMAIN d
  BY <1>3 DEF IInv, JobInv, Verifying
<1>5. a.op = "login" /\ a \in Asks /\ job[r].bearer \in 0..Len(tokens) /\ job[r].at \in Seq(ever) /\ InOrder(job[r].at)
  BY <1>3, JobIs DEF IInv, JobInv, Verifying
<1>6. Fresh(r)' /\ Ran(r)' /\ Verifying(r)' /\ Looking(r)'
  BY <1>3 DEF Fresh, Ran, Verifying, Looking
<1>7. Carried(r)'
  BY <1>3, <1>5 DEF Carried, Guarded
<1>8. Truthful(r)' /\ Listed(r)'
  BY <1>2, <1>3, <1>5 DEF Truthful, Listed, Done
<1>9. Seen(r)'
  BY <1>1, <1>3 DEF IInv, JobInv, Seen
<1>10. ASSUME Len(tokens') \in Nat, Len(tokens) <= Len(tokens')
       PROVE  JobType' /\ MadeOnce' /\ DOMAIN view' = Requests /\ \A q \in Requests : JobInv(q)'
  <2>1. JobInv(r)'
    BY <1>6, <1>7, <1>8, <1>9 DEF JobInv
  <2>2. Collection' /\ next <= next' /\ DOMAIN view' = Requests
    BY <1>1 DEF IInv, Collection, InOrder
  <2>3. \A q \in Requests \ {r} : Watched(q)
    BY <1>1, StillWatched DEF IInv
  <2>4. job'[r].pc \in Places
    BY <1>3 DEF Places
  <2> QED
    BY <1>1, <1>3, <1>5, <1>10, <2>1, <2>2, <2>3, <2>4, OneMoves DEF Makes
<1>11. CASE ~ok
  <2>1. tokens' = tokens
    BY <1>11 DEF VerifyLogin
  <2>2. Len(tokens') \in Nat /\ Len(tokens) <= Len(tokens')
    BY <2>1 DEF IInv, Tokens
  <2> QED
    BY <1>1, <1>3, <1>10, <2>1, <2>2, TokensStay DEF IInv, Advanced
<1>12. CASE ok
  <2> DEFINE tok == [id |-> d["_id"], role |-> RoleOf(d), live |-> TRUE, by |-> r]
             n == Len(tokens)
  <2>1. tokens' = Append(tokens, tok)
    BY <1>4, <1>12 DEF VerifyLogin, GenerateToken
  <2>2. /\ DOMAIN tok = {"id", "role", "live", "by"} /\ tok.id = d["_id"]
        /\ tok.role = RoleOf(d) /\ tok.by = r
    OBVIOUS
  <2>3. VerifyPassword(a.body.fields["password"], d["password_hash"])
    BY <1>4, <1>12
  <2> HIDE DEF tok, ok
  <2>4. tokens \in Seq(ToSetOf(tokens)) /\ n \in Nat
    BY DEF IInv, Tokens
  <2>5. /\ tokens' \in Seq(ToSetOf(tokens) \cup {tok}) /\ Len(tokens') = n + 1 /\ tokens'[n + 1] = tok
        /\ \A i \in 1..n : tokens'[i] = tokens[i]
    BY <2>1, <2>4
  <2> HIDE DEF n
  <2>6. tokens' \in Seq(ToSetOf(tokens'))
    BY <2>5, OwnRange
  <2>7. \A i \in 1..n : tokens[i].by \in Requests \ {r}
    BY <1>1, <1>3, TokensStay DEF IInv, n
  <2>8. \A i \in 1..n : DOMAIN tokens[i] = {"id", "role", "live", "by"} /\ Issued(i)
    BY DEF IInv, Tokens, n
  <2>9. \A i \in 1..n : DOMAIN tokens'[i] = {"id", "role", "live", "by"} /\ Issued(i)'
    <3>1. ASSUME NEW i \in 1..n PROVE Issued(i)'
      <4>1. tokens'[i] = tokens[i] /\ job'[tokens[i].by] = job[tokens[i].by] /\ Issued(i)
        BY <1>3, <2>5, <2>7, <2>8 DEF Elsewhere
      <4> QED
        BY <1>1, <4>1 DEF Issued
    <3> QED
      BY <2>5, <2>8, <3>1
  <2>10. ASSUME NEW i, i = n + 1 PROVE DOMAIN tokens'[i] = {"id", "role", "live", "by"} /\ Issued(i)'
    <3>1. tokens'[i] = tok
      BY <2>5, <2>10
    <3>2. d \in ever'
      BY <1>1
    <3> QED
      BY <1>3, <1>4, <2>2, <2>3, <3>1, <3>2 DEF Issued
  <2>11. \A i \in 1..Len(tokens') : i \in 1..n \/ i = n + 1
    BY <2>4, <2>5
  <2>12. Tokens'
    BY <2>6, <2>9, <2>10, <2>11 DEF Tokens
  <2>13. Len(tokens') \in Nat /\ Len(tokens) <= Len(tokens')
    BY <2>4, <2>5 DEF n
  <2> QED
    BY <1>10, <2>12, <2>13 DEF Advanced
<1> QED
  BY <1>11, <1>12

\* A step of no request.
LEMMA AllStay ==
    ASSUME IInv, job' = job, docs' = docs, next' = next, ever' = ever, view' = view, Len(tokens') = Len(tokens)
    PROVE  JobType' /\ MadeOnce' /\ DOMAIN view' = Requests /\ \A q \in Requests : JobInv(q)'
<1>1. JobType' /\ MadeOnce' /\ DOMAIN view' = Requests
  BY DEF IInv, JobType, MadeOnce, InOrder
<1>2. \A q \in Requests : Watched(q)
  BY StillWatched DEF IInv
<1>3. \A q \in Requests : JobInv(q)'
  BY <1>2, Untouched DEF IInv
<1> QED
  BY <1>1, <1>3

LEMMA TokenExpiresStep ==
    ASSUME IInv, NEW t \in DOMAIN tokens, TokenExpires(t)
    PROVE  Advanced
<1>1. tokens \in Seq(ToSetOf(tokens)) /\ \A i \in 1..Len(tokens) : DOMAIN tokens[i] = {"id", "role", "live", "by"} /\ Issued(i)
  BY DEF IInv, Tokens
<1>2. /\ t \in 1..Len(tokens) /\ tokens' = [tokens EXCEPT ![t].live = FALSE] /\ job' = job
      /\ docs' = docs /\ next' = next /\ ever' = ever /\ view' = view
  BY <1>1 DEF TokenExpires, store
<1>3. /\ Len(tokens') = Len(tokens) /\ DOMAIN tokens' = 1..Len(tokens)
      /\ \A i \in 1..Len(tokens) : /\ DOMAIN tokens'[i] = {"id", "role", "live", "by"} /\ tokens'[i].id = tokens[i].id
                                    /\ tokens'[i].role = tokens[i].role /\ tokens'[i].by = tokens[i].by
  BY <1>1, <1>2
<1>4. tokens' \in Seq(ToSetOf(tokens'))
  <2>1. tokens' \in Seq(ToSetOf(tokens) \cup {[tokens[t] EXCEPT !.live = FALSE]})
    BY <1>1, <1>2
  <2> QED
    BY <2>1, OwnRange
<1>5. \A i \in 1..Len(tokens) : Issued(i)'
  BY <1>1, <1>2, <1>3 DEF Issued
<1>6. Tokens'
  BY <1>3, <1>4, <1>5 DEF Tokens
<1>7. JobType' /\ MadeOnce' /\ DOMAIN view' = Requests /\ \A q \in Requests : JobInv(q)'
  BY <1>2, <1>3, AllStay
<1> QED
  BY <1>6, <1>7 DEF Advanced

(***************************************************************************)
(* The theorems.                                                           *)
(***************************************************************************)

LEMMA Start ==
    ASSUME Init
    PROVE  IInv
<1>1. docs \in Collections /\ next = Len(docs) + 1 /\ ever = ToSetOf(docs) /\ tokens = << >>
  BY DEF Init
<1>2. /\ docs \in Seq(ToSetOf(docs))
      /\ \A i \in 1..Len(docs) : "_id" \in DOMAIN docs[i] /\ docs[i]["_id"] \in 1..Len(docs)
      /\ \A i, j \in 1..Len(docs) : i < j => docs[i]["_id"] < docs[j]["_id"]
  BY <1>1, CollectionsInOrder
<1>3. Len(docs) \in Nat
  BY <1>2
<1>4. Collection
  BY <1>1, <1>2, <1>3 DEF Collection, InOrder
<1>5. /\ DOMAIN job = Requests
      /\ \A r \in Requests : /\ DOMAIN job[r] = Fields /\ job[r].pc = "idle" /\ job[r].found = << >>
                               /\ job[r].status = 0 /\ job[r].rows = << >> /\ job[r].at = << >>
                               /\ job[r].did = FALSE /\ job[r].failed = FALSE
                               /\ job[r].bearer = 0 /\ job[r].made = 0
  BY DEF Init, Fields
<1>6. JobType
  <2>1. Len(tokens) = 0
    BY <1>1
  <2>2. ASSUME NEW r \in Requests
        PROVE  /\ DOMAIN job[r] = Fields /\ job[r].pc \in Places /\ job[r].pc = "idle"
               /\ job[r].bearer \in 0..Len(tokens)
    BY <1>5, <2>1 DEF Places
  <2>3. ASSUME NEW r \in Requests
        PROVE  job[r].at \in Seq(ever) /\ InOrder(job[r].at)
    BY <1>5, EmptyIs DEF InOrder
  <2> QED
    BY <1>5, <2>2, <2>3 DEF JobType
<1>7. Tokens
  BY <1>1 DEF Tokens
<1>8. MadeOnce
  BY <1>1, <1>3, <1>5 DEF MadeOnce
<1>9. DOMAIN view = Requests /\ \A r \in Requests : view[r] = [during |-> {}, stay |-> {}]
  BY DEF Init
<1>10. ASSUME NEW r \in Requests PROVE JobInv(r)
  <2>1. Seen(r)
    BY <1>5, <1>9, FS_EmptySet DEF Seen, HasIds
  <2>2. Fresh(r) /\ Ran(r) /\ Verifying(r) /\ Looking(r) /\ Carried(r) /\ Truthful(r) /\ Listed(r)
    BY <1>5 DEF Fresh, Ran, Verifying, Looking, Carried, Truthful, Listed, Done
  <2> QED
    BY <2>1, <2>2 DEF JobInv
<1> QED
  BY <1>4, <1>6, <1>7, <1>8, <1>9, <1>10 DEF IInv

LEMMA Step ==
    ASSUME IInv, [Next]_vars
    PROVE  IInv'
<1>1. Collection' /\ ever \subseteq ever' /\ next <= next'
  BY CollectionStep DEF IInv
<1>2. ASSUME NEW r \in Requests, NEW a \in Asks, NEW bearer \in 0..Len(tokens), Arrive(r, a, bearer) PROVE Advanced
  BY <1>2, ArriveStep
<1>3. ASSUME NEW r \in Requests, Handle(r) PROVE Advanced
  <2>1. Command(r) \/ CommandFails(r) => Advanced
    BY <1>1, CommandStep, CommandFailsStep
  <2>2. RequireAuth(r) \/ Refuse(r) \/ HashFails(r) \/ Acquire(r) \/ UpdateRejected(r) => Advanced
    BY RequireAuthStep, RefuseStep, AcquireStep, UpdateRejectedStep
  <2>3. OpenCursor(r) \/ CursorNext(r) \/ CursorEnd(r) \/ CursorFails(r) => Advanced
    BY OpenCursorStep, CursorNextStep, CursorEndStep
  <2>4. Return(r) \/ VerifyLogin(r) => Advanced
    BY ReturnStep, VerifyLoginStep
  <2> QED
    BY <1>3, <2>1, <2>2, <2>3, <2>4 DEF Handle
<1>4. ASSUME NEW t \in DOMAIN tokens, TokenExpires(t) PROVE Advanced
  BY <1>4, TokenExpiresStep
<1>5. ASSUME UNCHANGED vars PROVE Advanced
  <2>1. JobType' /\ MadeOnce' /\ DOMAIN view' = Requests /\ \A q \in Requests : JobInv(q)'
    BY <1>5, AllStay DEF vars
  <2>2. Tokens'
    BY <1>5 DEF IInv, Tokens, Issued, vars
  <2> QED
    BY <2>1, <2>2 DEF Advanced
<1>6. Finished => UNCHANGED vars
  BY DEF Finished
<1>7. Advanced
  BY <1>2, <1>3, <1>4, <1>5, <1>6 DEF Next
<1> QED
  BY <1>1, <1>7 DEF Advanced, IInv

\* The inductive invariant holds of every behaviour of the user endpoints.
THEOREM Invariance == Spec => []IInv
<1>1. Init => IInv
  BY Start
<1>2. IInv /\ [Next]_vars => IInv'
  BY Step
<1> QED
  BY <1>1, <1>2, PTL DEF Spec

\* For every collection and any number of requests at the same time, what a
\* response says of one user is what the command did, and a user created is a new
\* one with the name, the password and the role asked for (UserController.cpp).
THEOREM AnswersTruthfulHolds == Spec => []AnswersTruthful
<1>1. ASSUME IInv PROVE AnswersTruthful
  <2>1. ASSUME NEW r \in Requests, Done(r)
        PROVE  LET a == job[r].ask
                   s == job[r].status
                   at == job[r].at
                   mine == WithId(at, a.id)
               IN  /\ a.op \in {"create", "update", "delete"} /\ ~job[r].failed
                          => (job[r].did <=> s \in {200, 201})
                   /\ a.op \in {"create", "update", "delete"} /\ s \in {200, 201} => job[r].did
                   /\ s = 201 => Created(a, at, job[r].made)
                   /\ s = 404 => \/ job[r].failed
                                 \/ \A i \in mine : \/ a.op = "get" /\ ~Readable(at[i])
                                                    \/ a.op = "update" /\ MayReject(a, at[i])
                   /\ a.op = "get" /\ s = 200 => \E i \in mine : job[r].rows = <<SafeJson(at[i])>>
    BY <1>1, <2>1 DEF IInv, JobInv, Truthful
  <2>2. \A r \in Requests : job[r].made # 0 => \A q \in Requests \ {r} : job[q].made # job[r].made
    BY <1>1 DEF IInv, MadeOnce
  <2> QED
    BY <2>1, <2>2 DEF AnswersTruthful, Created
<1> QED
  BY <1>1, Invariance, PTL

\* For every page that can be asked for, and whatever other requests write while
\* the cursor of getAllUsers is open, its rows are as ListsRight says
\* (UserRepository.cpp).
THEOREM ListsRightHolds == Spec => []ListsRight
<1>1. IInv => ListsRight
  BY DEF IInv, JobInv, Listed, ListsRight, RowsRight, Ahead, Behind, Done
<1> QED
  BY <1>1, Invariance, PTL

\* Every token was issued for the password of the user it names, and no guarded
\* operation ran without one (UserController::loginUser, requireAuth).
THEOREM LoginSoundHolds == Spec => []LoginSound
<1>1. ASSUME IInv PROVE LoginSound
  <2>1. DOMAIN tokens = 1..Len(tokens) /\ Len(tokens) \in Nat /\ \A i \in 1..Len(tokens) : Issued(i)
    BY <1>1 DEF IInv, Tokens
  <2>2. ASSUME NEW r \in Requests, job[r].ask.op \in Guarded
        PROVE  \/ job[r].pc \in {"idle", "auth"} \/ (Done(r) /\ job[r].status = 401)
               \/ job[r].bearer \in DOMAIN tokens
    <3>1. job[r].pc \in {"idle", "auth"} \/ (Done(r) /\ job[r].status = 401) \/ job[r].bearer # 0
      BY <1>1, <2>2 DEF IInv, JobInv, Carried
    <3>2. job[r].bearer \in 0..Len(tokens)
      BY <1>1 DEF IInv, JobType
    <3> QED
      BY <2>1, <3>1, <3>2
  <2> QED
    BY <2>1, <2>2 DEF LoginSound, Issued
<1> QED
  BY <1>1, Invariance, PTL

\* No step of any behaviour, whatever keys are sent, changes the id of a user who
\* stays or the hash he has, or gives one who has none a hash that is a string
\* (UserController::updateUser, UserRepository::updateUser).
THEOREM HashKeptHolds == Spec => HashKept
<1> DEFINE Kept == \A i \in DOMAIN docs : \A j \in WithId(docs', docs[i]["_id"]) :
                       /\ WithId(docs', docs[i]["_id"]) = {j}
                       /\ "password_hash" \in DOMAIN docs[i] =>
                              /\ "password_hash" \in DOMAIN docs'[j]
                              /\ docs'[j]["password_hash"] = docs[i]["password_hash"]
                       /\ "password_hash" \in DOMAIN docs'[j] \ DOMAIN docs[i] => docs'[j]["password_hash"] = Ill
<1>1. IInv /\ [Next]_vars => [Kept]_vars
  BY CollectionStep DEF IInv, SameHash
<1> HIDE DEF Kept
<1>2. Spec => [][Kept]_vars
  BY <1>1, Invariance, PTL DEF Spec
<1> QED
  BY <1>2 DEF HashKept, Kept
============================================================================
