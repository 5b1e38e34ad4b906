------------------------------ MODULE MCUsers ------------------------------
(* A small instance of Users: a collection with an ordinary user and one     *)
(* made by hand (no password, no role), or an empty one, and requests with   *)
(* payloads of every kind.                                                   *)
EXTENDS Users, TLC

Body(kind, fields) == [kind |-> kind, fields |-> fields]
None == << >>
AnyPage == [valid |-> TRUE, limit |-> 0, skip |-> 0, sort |-> FALSE, desc |-> FALSE]
Ask(op, id, body) == [op |-> op, id |-> id, page |-> AnyPage, body |-> body]
List(page) == [op |-> "list", id |-> 0, page |-> page, body |-> Body("missing", None)]

Ann == [_id |-> 1, name |-> "ann", password_hash |-> HashPassword("pw"), role |-> "admin"]
Bare == [_id |-> 2, name |-> "ann"]
SmallCollections == {<< >>, <<Ann, Bare>>}
SmallDotted == "password_hash.x" :> "password_hash"

SmallAsks == {
    Ask("create", 0, Body("object", "name" :> "ann" @@ "password" :> "other")),
    Ask("create", 0, Body("object", "name" :> "bob" @@ "password" :> "pw" @@ "role" :> "admin")),
    Ask("create", 0, Body("object", "name" :> Ill @@ "password" :> "pw")),
    Ask("login", 0, Body("object", "name" :> "ann" @@ "password" :> "pw" @@ "role" :> "root")),
    Ask("login", 0, Body("object", "name" :> "ann" @@ "password" :> Ill)),
    Ask("get", 0, Body("missing", None)),
    Ask("get", 1, Body("missing", None)),
    Ask("update", 1, Body("object", "name" :> Ill @@ "password_hash" :> <<"mine">>)),
    Ask("update", 2, Body("object", "name" :> "eve" @@ "password_hash.x" :> "mine")),
    Ask("update", 2, Body("strange", "name" :> "eve")),
    Ask("update", 1, Body("object", "_id" :> 7)),
    Ask("update", 1, Body("other", None)),
    Ask("delete", 1, Body("missing", None)),
    List([AnyPage EXCEPT !.limit = 1, !.skip = 1]),
    List([AnyPage EXCEPT !.skip = -1, !.sort = TRUE, !.desc = TRUE])}
============================================================================
