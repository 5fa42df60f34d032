---------------------------- MODULE MCStatistics ----------------------------
(***************************************************************************)
(* One task weighed from scratch beside one of a previous version: tasks   *)
(* share no row, every figure is a set of them, and every property speaks  *)
(* of one at a time, so in a behaviour only one of them is moved.  A day   *)
(* is two instants of twelve hours, a month two days; the four instants    *)
(* lie in three days of two months.                                        *)
(***************************************************************************)
EXTENDS Statistics

CONSTANTS t1, t2

VARIABLE moved   \* the task that transactions are about

MCTask == {t1, t2}
MCLegacy == {t2}
MCRawWeight == {10, 20, 30}
MCRawLimit == {20}
MCQuestion == {"dashboard", "daily", "monthly", "summary"}

MCInit == Init /\ moved \in Task

MCNext ==
  /\ \/ Tick \/ AskDashboard \/ AskDaily \/ AskMonthly \/ AskSummary \/ ReadFigure \/ Answer
     \/ Transaction(moved)
  /\ UNCHANGED moved

MCSpec == MCInit /\ [][MCNext]_<<vars, moved>>
=============================================================================
