---------------------------- MODULE MCRoleGrants ----------------------------
(* Small instances of RoleGrants.                                          *)
EXTENDS RoleGrants, TLC

CONSTANTS a1, a2, p1, p2, s1, s2, s3

Symmetry == Permutations({a1, a2}) \cup Permutations({p1, p2}) \cup Permutations({s1, s2, s3})
=============================================================================
