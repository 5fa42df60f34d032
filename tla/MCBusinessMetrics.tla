------------------------- MODULE MCBusinessMetrics -------------------------
(* Instances of BusinessMetrics for TLC; tasks are alike, and so are the   *)
(* requests.                                                               *)
EXTENDS BusinessMetrics, TLC

Symmetry == Permutations(Task) \cup Permutations(Session)
=============================================================================
