--------------------------- MODULE MCKokoroDaemon ---------------------------
(* A small instance of KokoroDaemon for TLC: two requests, two segments with  *)
(* room for one of them, a queue of one, and one command.                     *)
EXTENDS KokoroDaemon
=============================================================================
