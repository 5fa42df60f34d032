---------------------------- MODULE MCWorkbench ----------------------------
(***************************************************************************)
(* One task, one page and everybody else.  A tare, a gross weight that is  *)
(* too heavy and a reweighing that is not; two loads and two requests      *)
(* under way, so that each may be overtaken and an action the page has     *)
(* given up be executed before or after the one that repeats it.           *)
(***************************************************************************)
EXTENDS Workbench, TLC

CONSTANTS t1, l1, l2, a1, a2

MCTask == {t1}
MCRawWeight == {10, 20, 30}
MCRawLimit == {20}
MCWeights == [TARE |-> {10}, GROSS |-> {30}, REWEIGH |-> {20}]
MCLoad == {l1, l2}
MCCall == {a1, a2}
Symmetry == Permutations(MCLoad) \cup Permutations(MCCall)
=============================================================================
