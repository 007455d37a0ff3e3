---------------------------- MODULE MCSupervisor ----------------------------
(* Small instances of Supervisor for TLC.                                   *)
EXTENDS Supervisor, TLC

\* Launches are interchangeable, and so are the versions that start.
MCSymmetry == Permutations(Launch) \cup Permutations(Versions \ Broken)
=============================================================================
