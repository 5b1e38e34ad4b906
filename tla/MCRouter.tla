------------------------------ MODULE MCRouter ------------------------------
(* Small instances of Router: every table of at most two routes out of a few *)
(* that overlap in path and method; one is the file mount at the root that    *)
(* App.cpp:20 registers before all others.                                    *)
EXTENDS Router

R(method, path, guards) ==
    [method |-> method, path |-> path, isPrefix |-> FALSE, middlewares |-> guards]
Mount(path) == [method |-> "GET", path |-> path, isPrefix |-> TRUE, middlewares |-> << >>]

\* serveFiles("/", public_dir), which comes first in App::App.
AppMount == Mount(<<"">>)

Candidates == {
    R("POST", <<"login">>, << >>),
    R("POST", <<"a", ":id">>, <<"auth">>),
    R("GET", <<":id", "x">>, <<"auth">>),
    R("GET", <<"a", ":id">>, << >>),
    R("GET", <<"b:c">>, << >>),
    AppMount}

SmallTables == UNION {[1..n -> Candidates] : n \in 0..2}
SmallPaths == {<<"login">>, <<"a", "", "x">>, <<"b:c", "b..c">>, <<"b:c", "">>}
LogAndLimit == <<"log", "limit">>
Login == <<"login">>
============================================================================
