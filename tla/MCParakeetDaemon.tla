-------------------------- MODULE MCParakeetDaemon --------------------------
(* A small instance of ParakeetDaemon for TLC: two sessions, the first with   *)
(* two phrases and the second with one, over two processes.                   *)
EXTENDS ParakeetDaemon
=============================================================================
