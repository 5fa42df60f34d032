------------------------- MODULE MCWeighingRequests -------------------------
(***************************************************************************)
(* Two sessions on one task: two is enough for every pair of operations to *)
(* interleave at every statement, and tasks share no row.  Under the lower *)
(* limit every gross weight is too heavy, so trucks are weighed again;     *)
(* under the higher one they pass.                                         *)
(***************************************************************************)
EXTENDS WeighingRequests

CONSTANTS t1, s1, s2

MCTask == {t1}
MCSession == {s1, s2}
MCRawWeight == {10, 20}
MCRawLimit == {10, 20}
=============================================================================
