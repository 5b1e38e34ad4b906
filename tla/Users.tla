------------------------------- MODULE Users -------------------------------
(***************************************************************************)
(* The user endpoints: UserController, UserRepository, AuthMiddleware and  *)
(* JwtUtils (src/controllers/, src/repositories/, src/middlewares/,        *)
(* src/utils/), run for several requests at a time on the pool's threads.  *)
(* They share the collection test_db.users, the entries of the MongoPool   *)
(* and the tokens that have been handed out.                               *)
(*                                                                         *)
(* A document is a function from its fields to their values; Ill stands    *)
(* for a value that is not a string.  A command of the database is atomic, *)
(* except find, whose cursor other requests write between.  A token is     *)
(* known by its place in the sequence of those issued; 0 is a header that  *)
(* is missing, malformed or not signed here.                               *)
(***************************************************************************)
EXTENDS Integers, Sequences, FiniteSets, Functions, SequencesExt, FiniteSetsExt

CONSTANTS
    Requests,     \* requests, each handled once
    Asks,         \* what they may ask: op, id, page, body
    Collections,  \* what the collection may hold at the start
    PoolSize,     \* entries of mongocxx::pool
    Ill,          \* a JSON value that is not a string
    Dotted,       \* keys with a dot, each with the field its path leads into
    DbMayFail     \* a command may throw, before or after it has taken effect

Ops == {"create", "login", "list", "get", "update", "delete"}
ASSUME PoolSizePositive == PoolSize \in Nat \ {0}
ASSUME AsksKnown == \A a \in Asks : a.op \in Ops
ASSUME DbMayFailBool == DbMayFail \in BOOLEAN
ASSUME PagesAreNumbers == \A a \in Asks : a.page.skip \in Int /\ a.page.limit \in Int

VARIABLES
    docs,    \* the collection, in the order of insertion
    next,    \* the next ObjectId
    free,    \* entries left in the MongoPool
    tokens,  \* tokens issued: id, role, live (less than 24 hours old), by (history: the
             \* request that logged in)
    job,     \* per request: pc, ask, bearer, found (the documents the command returned or
             \* matched), status (0: none sent), rows (the users in the body), and as
             \* history: at (the collection as the command saw it), did, failed, made
             \* (the id of the user created, 0: none)
    ever,    \* history: every version of every document
    view     \* history, per list: during (every version of a document the collection
             \* held while the cursor was open), stay (the ids it held all the time)

vars == <<docs, next, free, tokens, job, ever, view>>

ToSetOf(s) == {s[i] : i \in DOMAIN s}

\* ObjectIds grow, and insertion keeps the order.
ASSUME CollectionsInOrder ==
    \A coll \in Collections :
        /\ coll \in Seq(ToSetOf(coll))
        /\ \A i \in 1..Len(coll) : "_id" \in DOMAIN coll[i] /\ coll[i]["_id"] \in 1..Len(coll)
        /\ \A i, j \in 1..Len(coll) : i < j => coll[i]["_id"] < coll[j]["_id"]

Init ==
    /\ docs \in Collections
    /\ next = Len(docs) + 1
    /\ free = PoolSize
    /\ tokens = << >>
    /\ job = [r \in Requests |->
           [pc |-> "idle", ask |-> CHOOSE a \in Asks : TRUE, bearer |-> 0, found |-> << >>,
            status |-> 0, rows |-> << >>, at |-> << >>, did |-> FALSE, failed |-> FALSE,
            made |-> 0]]
    /\ ever = ToSetOf(docs)
    /\ view = [r \in Requests |-> [during |-> {}, stay |-> {}]]

----------------------------------------------------------------------------
(* Payloads and documents *)

Has(a, field) == field \in DOMAIN a.body.fields
IsString(a, field) == Has(a, field) /\ a.body.fields[field] # Ill

\* CryptoUtils: the salt makes two hashes of a password differ, which nothing
\* here can tell.
HashPassword(password) == <<password>>
VerifyPassword(password, hash) == hash = <<password>>

\* Fault: "password_hash" is not taken out.
UpdatesUnfiltered(a) == Restrict(a.body.fields, DOMAIN a.body.fields \ {"_id", "password"})

\* What is left of an update when the sensitive fields are taken out: keys of
\* exactly these names.
Updates(a) ==
    Restrict(a.body.fields, DOMAIN a.body.fields \ {"_id", "password", "password_hash"})

\* The document insert_one stores.
RoleAsked(a) == IF Has(a, "role") THEN a.body.fields["role"] ELSE "user"
NewDoc(a) ==
    [_id |-> next, name |-> a.body.fields["name"],
     password_hash |-> HashPassword(a.body.fields["password"]), role |-> RoleAsked(a)]

\* $set: a key with a dot is a path, and the field it leads into is an object
\* from then on.
Paths(fields) == DOMAIN fields \cap DOMAIN Dotted
SetFields(doc, fields) ==
    LET plain == DOMAIN fields \ DOMAIN Dotted
        entered == {Dotted[p] : p \in Paths(fields)}
    IN  [k \in DOMAIN doc \cup plain \cup entered |->
            IF k \in plain THEN fields[k] ELSE IF k \in entered THEN Ill ELSE doc[k]]

\* from_json or $set refuses the update: a body it cannot take ("strange"), a
\* field set as a whole and along a path, a path into a string or an ObjectId;
Rejects(a, doc) ==
    \/ a.body.kind = "strange"
    \/ \E p \in Paths(Updates(a)) :
           \/ Dotted[p] \in DOMAIN Updates(a)
           \/ Dotted[p] \in DOMAIN doc /\ doc[Dotted[p]] # Ill

\* and a path into another value, when that is no object.
MayReject(a, doc) ==
    Rejects(a, doc) \/ \E p \in Paths(Updates(a)) : Dotted[p] \in DOMAIN doc

\* get_string throws for a field that is not a string; a list reads no hash.
Listable(doc) == doc["name"] # Ill /\ ("role" \in DOMAIN doc => doc["role"] # Ill)
Readable(doc) == Listable(doc) /\ ("password_hash" \in DOMAIN doc => doc["password_hash"] # Ill)

\* models::User, and its toSafeJson.
RoleOf(doc) == IF "role" \in DOMAIN doc THEN doc["role"] ELSE "user"
SafeJson(doc) == [_id |-> doc["_id"], name |-> doc["name"], role |-> RoleOf(doc)]

\* The options of a find; numbers that are not positive set none.  Sorting is
\* by _id, which grows along the collection.
Skip(p) == IF p.skip > 0 THEN p.skip ELSE 0
Before(p, i, j) == IF p.sort /\ p.desc THEN i > j ELSE i < j

\* Fault: the limit counts from the start of the collection.
FullFromStart(p, n) == p.limit > 0 /\ n >= p.limit

\* The n documents the cursor has passed are all it is to pass.
Full(p, n) == p.limit > 0 /\ n >= Skip(p) + p.limit

\* The place of the next document: the first behind the last one passed.
NextPlaces(p, found) ==
    LET ahead == {i \in DOMAIN docs :
                     found # << >> => Before(p, found[Len(found)]["_id"], docs[i]["_id"])}
    IN  {i \in ahead : \A j \in ahead : i = j \/ Before(p, docs[i]["_id"], docs[j]["_id"])}

WithId(coll, id) == {i \in DOMAIN coll : coll[i]["_id"] = id}

\* The collection after the command of request a has taken effect.
Effect(a) ==
    CASE a.op = "create" -> Append(docs, NewDoc(a))
      [] a.op = "update" -> [i \in DOMAIN docs |-> IF docs[i]["_id"] = a.id
                                                   THEN SetFields(docs[i], Updates(a))
                                                   ELSE docs[i]]
      [] a.op = "delete" -> IF WithId(docs, a.id) = {} THEN docs
                            ELSE RemoveAt(docs, CHOOSE i \in WithId(docs, a.id) : TRUE)
      [] OTHER -> docs

\* What the command may return: find_one takes any of the documents that match.
Matches(a) ==
    LET one(S) == IF S = {} THEN {<< >>} ELSE {<<d>> : d \in S}
    IN  CASE a.op = "create" -> {<<NewDoc(a)>>}
          [] a.op = "login" -> one({d \in ToSetOf(docs) : d["name"] = a.body.fields["name"]})
          [] OTHER -> one({docs[i] : i \in WithId(docs, a.id)})

----------------------------------------------------------------------------
(* Before the repository is called *)

store == <<docs, next, ever, view>>
shared == <<store, free, tokens>>

Goto(r, from, to) == job[r].pc = from /\ job' = [job EXCEPT ![r].pc = to]
Respond(r, from, status) ==
    job[r].pc = from /\ job' = [job EXCEPT ![r] = [@ EXCEPT !.pc = "done", !.status = status]]

\* The lambdas that call the requireAuth they capture; the one of create
\* captures it and does not.
Guarded == {"list", "get", "update", "delete"}

Arrive(r, a, bearer) ==
    /\ job[r].pc = "idle"
    /\ job' = [job EXCEPT ![r] = [@ EXCEPT !.pc = IF a.op \in Guarded THEN "auth" ELSE "check",
                          !.ask = a, !.bearer = bearer]]
    /\ UNCHANGED shared

VerifyToken(bearer) == bearer # 0 /\ tokens[bearer].live

RequireAuth(r) ==
    /\ IF VerifyToken(job[r].bearer) THEN Goto(r, "auth", "check") ELSE Respond(r, "auth", 401)
    /\ UNCHANGED shared

\* 400: no body, no JSON, a field missing, nothing to update, a bad number.
BadRequest(a) ==
    \/ a.op \in {"create", "login", "update"} /\ a.body.kind \in {"missing", "broken"}
    \/ a.op = "create" /\ ~(Has(a, "name") /\ IsString(a, "password"))
    \/ a.op = "login" /\ ~(Has(a, "name") /\ Has(a, "password"))
    \/ a.op = "update" /\ a.body.kind \in {"object", "strange"} /\ DOMAIN Updates(a) = {}
    \/ a.op = "list" /\ ~a.page.valid

\* An exception leaves the controller: the task closes the connection.
Escapes(a) ==
    /\ ~BadRequest(a)
    /\ \/ a.op = "login" /\ ~(IsString(a, "name") /\ IsString(a, "password"))
       \/ a.op = "update" /\ a.body.kind = "other"

\* An exception is caught in createUser.
Caught(a) ==
    /\ a.op = "create" /\ ~BadRequest(a)
    /\ ~IsString(a, "name") \/ (Has(a, "role") /\ ~IsString(a, "role"))

\* bsoncxx::oid throws before an entry is acquired; 0 is no ObjectId.
BadId(a) == a.op \in {"get", "update", "delete"} /\ a.id = 0 /\ ~BadRequest(a) /\ ~Escapes(a)

Fit(a) == ~BadRequest(a) /\ ~Escapes(a) /\ ~Caught(a) /\ ~BadId(a)

Refuse(r) ==
    /\ \/ BadRequest(job[r].ask) /\ Respond(r, "check", 400)
       \/ Escapes(job[r].ask) /\ Respond(r, "check", 0)
       \/ Caught(job[r].ask) /\ Respond(r, "check", 500)
       \/ BadId(job[r].ask) /\ Respond(r, "check", 404)
    /\ UNCHANGED shared

\* hashPassword finds no memory.
HashFails(r) ==
    /\ Fit(job[r].ask) /\ job[r].ask.op = "create"
    /\ Respond(r, "check", 500)
    /\ UNCHANGED shared

----------------------------------------------------------------------------
(* The repository *)

\* MongoPool::acquire waits for an entry.
Acquire(r) ==
    /\ Goto(r, "check", "command")
    /\ Fit(job[r].ask)
    /\ free > 0
    /\ free' = free - 1
    /\ UNCHANGED <<store, tokens>>

Ids(coll) == {coll[i]["_id"] : i \in DOMAIN coll}

\* The command of request r takes effect; the cursors that are open may see it.
Apply(r) ==
    LET a == job[r].ask IN
        /\ a.op = "update" => \A i \in WithId(docs, a.id) : ~Rejects(a, docs[i])
        /\ docs' = Effect(a)
        /\ next' = IF a.op = "create" THEN next + 1 ELSE next
        /\ ever' = ever \cup ToSetOf(docs')
        /\ view' = [q \in Requests |-> IF job[q].pc = "cursor"
                         THEN [during |-> view[q].during \cup ToSetOf(docs'),
                               stay |-> view[q].stay \cap Ids(docs')]
                         ELSE view[q]]

Command(r) ==
    /\ job[r].pc = "command" /\ job[r].ask.op # "list"
    /\ \E found \in Matches(job[r].ask) :
           job' = [job EXCEPT ![r] = [@ EXCEPT !.pc = "return", !.found = found, !.at = docs,
                              !.did = (found # << >>),
                              !.made = IF job[r].ask.op = "create" THEN next ELSE 0]]
    /\ Apply(r)
    /\ UNCHANGED <<free, tokens>>

\* The update throws because of what the client has sent.
UpdateRejected(r) ==
    LET a == job[r].ask IN
        /\ job[r].pc = "command" /\ a.op = "update"
        /\ a.body.kind = "strange" \/ \E i \in WithId(docs, a.id) : MayReject(a, docs[i])
        /\ job' = [job EXCEPT ![r] = [@ EXCEPT !.pc = "return", !.at = docs]]
        /\ UNCHANGED shared

\* The command throws because of the database, before or after it has been done.
CommandFails(r) ==
    /\ DbMayFail
    /\ job[r].pc = "command" /\ job[r].ask.op # "list"
    /\ \E applied \in BOOLEAN :
           /\ job' = [job EXCEPT ![r] = [@ EXCEPT !.pc = "return", !.at = docs, !.did = applied,
                                 !.failed = TRUE]]
           /\ IF applied THEN Apply(r) ELSE UNCHANGED store
    /\ UNCHANGED <<free, tokens>>

\* getAllUsers: find,
OpenCursor(r) ==
    /\ job[r].ask.op = "list"
    /\ Goto(r, "command", "cursor")
    /\ view' = [view EXCEPT ![r] = [during |-> ToSetOf(docs), stay |-> Ids(docs)]]
    /\ UNCHANGED <<docs, next, ever, free, tokens>>

\* then one document after the other (the server passes over the first ones);
\* a document that cannot be converted ends the loop with an exception.
CursorNext(r) ==
    LET p == job[r].ask.page
        found == job[r].found
    IN  /\ job[r].pc = "cursor"
        /\ ~Full(p, Len(found))
        /\ \E i \in NextPlaces(p, found) :
               job' = [job EXCEPT ![r] = IF Len(found) < Skip(p) \/ Listable(docs[i])
                                            THEN [@ EXCEPT !.found = Append(found, docs[i])]
                                            ELSE [@ EXCEPT !.pc = "return"]]
        /\ UNCHANGED shared

CursorEnd(r) ==
    /\ Goto(r, "cursor", "return")
    /\ Full(job[r].ask.page, Len(job[r].found)) \/ NextPlaces(job[r].ask.page, job[r].found) = {}
    /\ UNCHANGED shared

\* The database fails; the catch block keeps what has been read so far.
CursorFails(r) ==
    /\ DbMayFail
    /\ job[r].pc = "cursor"
    /\ job' = [job EXCEPT ![r] = [@ EXCEPT !.pc = "return", !.failed = TRUE]]
    /\ UNCHANGED shared

\* Fault: an update is reported done although nothing matched.
StatusUnmatched(op, users, found) ==
    CASE op = "create" -> IF found # << >> THEN 201 ELSE 500
      [] op = "list" -> 200
      [] op = "get" -> IF users # << >> THEN 200 ELSE 404
      [] op = "login" -> 401
      [] op \in {"update", "delete"} -> 200

\* The status the controller sends for what the repository has returned.
Status(op, users, found) ==
    CASE op = "create" -> IF found # << >> THEN 201 ELSE 500
      [] op = "list" -> 200
      [] op = "get" -> IF users # << >> THEN 200 ELSE 404
      [] op = "login" -> 401
      [] op \in {"update", "delete"} -> IF found # << >> THEN 200 ELSE 404

\* A login that has found a user with a password.
MayVerify(op, users) ==
    op = "login" /\ users # << >> /\ "password_hash" \in DOMAIN users[1]

\* Fault: the entry is not given back after an exception.
ReleaseLeaks(r) == free' = IF job[r].failed THEN free ELSE free + 1

\* The entry is a local of the try block: its destructor gives it back.
Release(r) == free' = free + 1

\* The users the function of the repository returns.
UsersOf(a, found) ==
    IF a.op = "list" THEN SubSeq(found, Skip(a.page) + 1, Len(found))
    ELSE IF found # << >> /\ Readable(found[1]) THEN found ELSE << >>

\* The function of the repository returns, its entry goes back to the pool,
\* and the controller answers; a login goes on with the user it has read.
Return(r) ==
    LET op == job[r].ask.op
        users == UsersOf(job[r].ask, job[r].found)
    IN  /\ job[r].pc = "return"
        /\ Release(r)
        /\ job' = [job EXCEPT ![r] = [@ EXCEPT !.pc = IF MayVerify(op, users) THEN "verify" ELSE "done",
                              !.status = IF MayVerify(op, users) THEN 0
                                            ELSE Status(op, users, job[r].found),
                              !.found = IF MayVerify(op, users) THEN job[r].found ELSE << >>,
                              !.rows = IF op \in {"list", "get"}
                                          THEN [i \in DOMAIN users |-> SafeJson(users[i])]
                                          ELSE << >>]]
        /\ UNCHANGED <<store, tokens>>

----------------------------------------------------------------------------
(* Logging in *)

\* Fault: the role the client asks for.
GenerateTokenAsked(r, user) ==
    tokens' = Append(tokens, [id |-> user["_id"], live |-> TRUE, by |-> r,
                              role |-> IF Has(job[r].ask, "role")
                                       THEN job[r].ask.body.fields["role"] ELSE RoleOf(user)])

GenerateToken(r, user) ==
    tokens' = Append(tokens, [id |-> user["_id"], role |-> RoleOf(user), live |-> TRUE, by |-> r])

VerifyLogin(r) ==
    LET user == job[r].found[1]
        ok == VerifyPassword(job[r].ask.body.fields["password"], user["password_hash"])
    IN  /\ Respond(r, "verify", IF ok THEN 200 ELSE 401)
        /\ IF ok THEN GenerateToken(r, user) ELSE UNCHANGED tokens
        /\ UNCHANGED <<store, free>>

\* 24 hours have passed since token i was issued.
TokenExpires(i) ==
    /\ tokens[i].live
    /\ tokens' = [tokens EXCEPT ![i].live = FALSE]
    /\ UNCHANGED <<store, free, job>>

----------------------------------------------------------------------------
Handle(r) ==
    \/ RequireAuth(r) \/ Refuse(r) \/ HashFails(r)
    \/ Acquire(r) \/ Command(r) \/ UpdateRejected(r) \/ CommandFails(r)
    \/ OpenCursor(r) \/ CursorNext(r) \/ CursorEnd(r) \/ CursorFails(r)
    \/ Return(r) \/ VerifyLogin(r)

Finished ==
    /\ \A r \in Requests : job[r].pc = "done"
    /\ UNCHANGED vars

Next ==
    \/ \E r \in Requests :
           \/ \E a \in Asks, bearer \in 0..Len(tokens) : Arrive(r, a, bearer)
           \/ Handle(r)
    \/ \E i \in DOMAIN tokens : TokenExpires(i)
    \/ Finished

Spec == Init /\ [][Next]_vars

\* The pool's threads run; nobody has to send a request.
Fairness == \A r \in Requests : WF_vars(Handle(r))

FairSpec == Spec /\ Fairness

----------------------------------------------------------------------------
(* Properties *)

Done(r) == job[r].pc = "done"

\* A response about one user says what has been done: success means that the
\* command took effect on that user; the user created is a new one that no other
\* request has made, with the name, the hash of the password and the role asked
\* for; "not found" means that there was no such user when the command ran, that
\* the database failed, that the document cannot be read, or that it (or from_json)
\* refused the update; a request refused before has changed nothing.
AnswersTruthful ==
    \A r \in Requests : Done(r) =>
        LET a == job[r].ask
            s == job[r].status
            at == job[r].at
            mine == WithId(at, a.id)
        IN  /\ a.op \in {"create", "update", "delete"} /\ ~job[r].failed
                   => (job[r].did <=> s \in {200, 201})
            /\ a.op \in {"create", "update", "delete"} /\ s \in {200, 201} => job[r].did
            /\ s = 201 => /\ \E d \in ever : /\ d["_id"] = job[r].made
                                             /\ d["name"] = a.body.fields["name"]
                                             /\ "password_hash" \in DOMAIN d
                                             /\ VerifyPassword(a.body.fields["password"], d["password_hash"])
                                             /\ RoleOf(d) = RoleAsked(a)
                          /\ WithId(at, job[r].made) = {}
                          /\ \A q \in Requests \ {r} : job[q].made # job[r].made
            /\ s = 404 => \/ job[r].failed
                          \/ \A i \in mine : \/ a.op = "get" /\ ~Readable(at[i])
                                             \/ a.op = "update" /\ MayReject(a, at[i])
            /\ a.op = "get" /\ s = 200 => \E i \in mine : job[r].rows = <<SafeJson(at[i])>>

\* What a list may be relied on for while other requests write: every row is a
\* user the collection held while the cursor was open, each user comes once and
\* in order, behind as many as were to be skipped and no more rows than the limit;
\* and a user who stayed is on it, unless skipping or the limit (or an error of
\* the database or a document that cannot be read) leaves him out.
ListsRight ==
    \A r \in Requests : Done(r) /\ job[r].ask.op = "list" /\ job[r].status = 200 =>
        LET p == job[r].ask.page
            rows == job[r].rows
            during == view[r].during
            stay == view[r].stay
            ahead(id) == \A k \in DOMAIN rows : Before(p, id, rows[k]._id)
            behind(id) == \A k \in DOMAIN rows : Before(p, rows[k]._id, id)
        IN  /\ \A k \in DOMAIN rows : \E d \in during : rows[k] = SafeJson(d)
            /\ \A k, l \in DOMAIN rows : k < l => Before(p, rows[k]._id, rows[l]._id)
            /\ p.limit > 0 => Len(rows) <= p.limit
            /\ rows # << >> => Cardinality({id \in {d["_id"] : d \in during} : ahead(id)}) >= Skip(p)
            /\ \A id \in stay :
                   \/ \E k \in DOMAIN rows : rows[k]._id = id
                   \/ ahead(id) /\ Cardinality({i \in stay : ahead(i)}) <= Skip(p)
                   \/ /\ behind(id)
                      /\ \/ p.limit > 0 /\ Len(rows) = p.limit
                         \/ job[r].failed
                         \/ \E d \in during : ~Listable(d)

\* Every token names a user who at some time had the name and the password of
\* the login it was given for, and the role that user had; and a request for a
\* guarded operation goes on, or gets any answer but 401, only if it carried such
\* a token.  Creating a user is not a guarded operation: UserController.cpp:25-27
\* captures requireAuth and makes no call of it, although the test
\* UserControllerTests.cpp:93-94 speaks of the auth middleware there.
LoginSound ==
    /\ \A i \in DOMAIN tokens :
           LET fields == job[tokens[i].by].ask.body.fields IN
               \E d \in ever :
                   /\ d["_id"] = tokens[i].id /\ RoleOf(d) = tokens[i].role
                   /\ d["name"] = fields["name"]
                   /\ "password_hash" \in DOMAIN d
                   /\ VerifyPassword(fields["password"], d["password_hash"])
    /\ \A r \in Requests :
           job[r].ask.op \in Guarded =>
               \/ job[r].pc \in {"idle", "auth"} \/ (Done(r) /\ job[r].status = 401)
               \/ job[r].bearer \in DOMAIN tokens

\* What the filter of updateUser does achieve, whatever keys clients send: no
\* sequence of requests changes the identity of a user who stays or the hash he
\* has, and one who has none never gets a hash that a password could match. (He may
\* get one that is no string, through a dotted key; the comment at
\* UserController.cpp:130, "Prevent updating sensitive fields manually", promises more.)
HashKept ==
    [][\A i \in DOMAIN docs : \A j \in WithId(docs', docs[i]["_id"]) :
           /\ WithId(docs', docs[i]["_id"]) = {j}
           /\ "password_hash" \in DOMAIN docs[i] =>
                  /\ "password_hash" \in DOMAIN docs'[j]
                  /\ docs'[j]["password_hash"] = docs[i]["password_hash"]
           /\ "password_hash" \in DOMAIN docs'[j] \ DOMAIN docs[i] => docs'[j]["password_hash"] = Ill]_vars

\* Every request is answered, or its connection closed, although there are fewer
\* entries in the MongoPool than threads that want one and commands may throw:
\* again and again none is under way, and each comes once.
EveryRequestEnds ==
    []<>(\A r \in Requests : job[r].pc = "idle" \/ Done(r))
============================================================================
