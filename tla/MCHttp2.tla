------------------------------ MODULE MCHttp2 ------------------------------
(* Small instances of Http2Session.  A client opens two streams of any shape, *)
(* or as many as there are with plain requests: one more than two workers     *)
(* and a ring of one slot hold together.                                      *)
EXTENDS Http2Session

Plain == [Streams -> {"get"}]
Mixed == {f \in [Streams -> Shapes] :
              \A s \in Streams : (s \in {1, 2}) <=> (f[s] # "none")}
MixedOrMany == Plain \cup Mixed
============================================================================
