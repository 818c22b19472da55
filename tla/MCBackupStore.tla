--------------------------- MODULE MCBackupStore ---------------------------
(***************************************************************************)
(* Instances of BackupStore for TLC.                                       *)
(***************************************************************************)
EXTENDS BackupStore, TLC

CONSTANTS k1, k2

TwoKeys == {k1, k2}
=============================================================================
