------------------------------ MODULE MCSyncTxn ------------------------------
(* Small instances of SyncTxn for TLC.                                      *)
EXTENDS SyncTxn, TLC

\* Paths are interchangeable, and so are contents of the same author.
MCSymmetry ==
  Permutations(Paths) \cup Permutations(Dev) \cup Permutations(User)
=============================================================================
