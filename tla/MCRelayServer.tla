---------------------------- MODULE MCRelayServer ----------------------------
(* Values for TLC: two clients are enough for their streams to interleave   *)
(* and for a descriptor to be reused.                                       *)
EXTENDS RelayServer

CONSTANTS c1, c2

MCClients == {c1, c2}
=============================================================================
