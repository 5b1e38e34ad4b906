---------------------------- MODULE MCTcpServer ----------------------------
(* Small instances of TcpServer.                                           *)
EXTENDS TcpServer, TLC

Actors == Permutations(Conns) \cup Permutations(Workers)
============================================================================
