-------------------------- MODULE MCBackupRestore --------------------------
(***************************************************************************)
(* Two runs of one script are enough for the races over one name: three    *)
(* would add no step that two cannot do to each other.                     *)
(***************************************************************************)
EXTENDS BackupRestore, TLC

CONSTANTS b1, b2, r1, r2, source, restored

MCTwoBackups == {b1, b2}
MCTwoRestores == {r1, r2}
MCName == {source, restored}
Symmetry == Permutations(MCTwoBackups) \cup Permutations(MCTwoRestores)
=============================================================================
