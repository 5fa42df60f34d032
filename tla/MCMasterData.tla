---------------------------- MODULE MCMasterData ----------------------------
(* Small instances of MasterData: one vehicle from before vehicle types    *)
(* and one still to be registered.                                         *)
EXTENDS MasterData, TLC

CONSTANTS v1, v2, s1, s2, p1, p2, l1, l2, x1, x2

Symmetry == Permutations({s1, s2}) \cup Permutations({p1, p2}) \cup Permutations({l1, l2})
              \cup Permutations({x1, x2})
=============================================================================
