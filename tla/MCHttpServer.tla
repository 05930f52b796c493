---------------------------- MODULE MCHttpServer ----------------------------
(* Values for TLC: two connections, so that children and their signals      *)
(* overlap.                                                                 *)
EXTENDS HttpServer

CONSTANTS c1, c2

MCConns == {c1, c2}
=============================================================================
