--------------------------- MODULE MCWorkingTrees ---------------------------
(***************************************************************************)
(* Instances of WorkingTrees for TLC.                                      *)
(***************************************************************************)
EXTENDS WorkingTrees, TLC

CONSTANTS pushos, site, builder, reviewer, s1, s2, s3

TwoSessions   == {s1, s2}
ThreeSessions == {s1, s2, s3}
TwoRoles      == {builder, reviewer}

OfTwo   == Permutations(TwoSessions) \cup Permutations(TwoRoles)
OfThree == Permutations(ThreeSessions) \cup Permutations(TwoRoles)
=============================================================================
