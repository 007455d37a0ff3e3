---------------------------- MODULE MCKnownGood ----------------------------
(* Small instances of KnownGood for TLC.                                   *)
EXTENDS KnownGood, TLC

\* The script and the optional settings file; the profile is handled exactly
\* as the script is.
MCMembers == <<"script", "settings">>
MCOptional == {"settings"}

\* The contents are interchangeable.
MCSymmetry == Permutations(Contents)
=============================================================================
