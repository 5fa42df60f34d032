---------------------------- MODULE MCAuthSession ----------------------------
(* Two users of one tab: one's identity under the other's token.           *)
EXTENDS AuthSession, TLC

CONSTANTS a, b, s1

MCTwoUsers == {a, b}
MCSlots == {s1}
MCRegister == {"register"}
Symmetry == Permutations(MCTwoUsers)
=============================================================================
