--------------------------- MODULE MCStorageWriter ---------------------------
(***************************************************************************)
(* Instances of StorageWriter for TLC.                                     *)
(***************************************************************************)
EXTENDS StorageWriter

CONSTANTS r1, r2

TwoRuns == {r1, r2}
=============================================================================
