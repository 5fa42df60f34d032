-------------------------- MODULE MCWeighingLedger --------------------------
(***************************************************************************)
(* One task weighed from scratch beside one legacy task.  Tasks share no   *)
(* row, so a second new task would only repeat the first.  Four weights    *)
(* leave room for a tare, a gross exactly at the limit, one above it and   *)
(* one not above the tare, under either of two limits.                     *)
(***************************************************************************)
EXTENDS WeighingLedger

CONSTANTS t1, t2

MCTask == {t1, t2}
MCLegacy == {t2}
MCRawWeight == {10, 20, 30, 40}
MCRawLimit == {20, 30}
=============================================================================
