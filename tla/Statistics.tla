----------------------------- MODULE Statistics -----------------------------
(***************************************************************************)
(* The numbers the system shows about its tasks: DashboardService,         *)
(* ReportService, AnalyticsService, ExportService and the lists of tasks   *)
(* and fees, over the tasks of WeighingLedger and a clock.                 *)
(*                                                                         *)
(* Every count and every sum is one SQL statement over a set of tasks, and *)
(* is here that set: the weight and the fee of a completed task never      *)
(* change.  The statements of one answer run one after the other under     *)
(* READ COMMITTED, so the ledger may move between them.  Times are UTC     *)
(* instants; a business day is DayLength of them and begins Offset before  *)
(* the UTC day does (UTC+8).                                               *)
(***************************************************************************)
EXTENDS Integers, Sequences, FiniteSets

CONSTANTS Task, Legacy, RawWeight, RawLimit, MaxReadings,  \* as in WeighingLedger
          DayLength, Offset, MonthDays,   \* instants per day, its shift, days per month
          MaxNow,                         \* bound: the last instant
          Question                        \* the answers that are asked for

ASSUME CalendarAssumption == /\ {DayLength, MonthDays} \subseteq Nat \ {0}
                             /\ Offset \in Nat /\ Offset < DayLength /\ MaxNow \in Nat
ASSUME LegacyAssumption == Legacy \subseteq Task
ASSUME WeightAssumption == RawWeight \subseteq Nat /\ RawLimit \subseteq Nat
ASSUME BoundAssumption == MaxReadings \in Nat \ {0}
ASSUME QuestionAssumption == Question \subseteq {"dashboard", "daily", "monthly", "summary"}

VARIABLES
  status, deleted, allowed, tare, verdict, readings, version, payment, reversal, audit,
  now,        \* the clock
  created, completed, billed,  \* created_at, completed_at and the fee's created_at
  recorded,   \* recorded_at of each of a task's readings
  query       \* the answer being computed

Ledger == INSTANCE WeighingLedger

rows == <<status, deleted, allowed, tare, verdict, readings, version, payment, reversal, audit>>
times == <<created, completed, billed, recorded>>
vars == <<rows, now, times, query>>

Instant == 0 .. MaxNow
Never == -1
Figure == {"created", "completed", "pending", "weight", "income", "status", "cargo",
           "vehicles", "lifetime", "analytics", "overweight"}
NoQuery == [op |-> "none", from |-> 0, to |-> 0, plan |-> <<>>, done |-> 0,
            got |-> [f \in Figure |-> {}]]
-----------------------------------------------------------------------------
(* _business_day_bounds, _local_day_start_utc, monthly: half-open periods. *)
DayOf(time) == (time + Offset) \div DayLength
DayStart(day) == day * DayLength - Offset
MonthStart(month) == DayStart(month * MonthDays)
Days == 0 .. DayOf(MaxNow)
Months == 0 .. DayOf(MaxNow) \div MonthDays
-----------------------------------------------------------------------------
(***************************************************************************)
(* Deliberate faults, for testing the properties; no specification uses    *)
(* them.                                                                   *)
(***************************************************************************)
WithinInclusive(time, from, to) == time # Never /\ from <= time /\ time <= to
WithinToday(time, from, to) ==   \* the day is asked of the clock again
  time # Never /\ DayOf(time) = DayOf(now)
LastOverload(t) ==
  LET over == {i \in 1 .. Len(readings[t]) : readings[t][i].kind \in {"GROSS", "REWEIGH"}
                                             /\ readings[t][i].weight > allowed[t]}
  IN IF over = {} THEN 0 ELSE CHOOSE i \in over : \A j \in over : j <= i
-----------------------------------------------------------------------------
Within(time, from, to) == time # Never /\ from <= time /\ time < to

(* deleted_at IS NULL and task_is_not_reversed.                            *)
Counted(t) == status[t] # "ABSENT" /\ ~deleted[t] /\ reversal[t] = "NONE"

CompletedIn(from, to) ==
  {t \in Task : Counted(t) /\ status[t] = "COMPLETED" /\ Within(completed[t], from, to)}
CreatedIn(from, to) == {t \in Task : Counted(t) /\ Within(created[t], from, to)}
Pending == {t \in Task : Counted(t) /\ status[t] \notin {"COMPLETED", "CANCELLED"}}
IncomeIn(from, to) == {t \in CompletedIn(from, to) : payment[t] \notin {"NONE", "WAIVED"}}

(* AnalyticsService._completed_tasks has no condition on deleted_at.       *)
AnalyticsCompletedIn(from, to) ==
  {t \in Task : status[t] = "COMPLETED" /\ reversal[t] = "NONE"
                /\ Within(completed[t], from, to)}

(* The index of the first reading above the task's snapshot of the limit,  *)
(* whatever the task's result became later; 0 if there is none.            *)
FirstOverload(t) ==
  LET over == {i \in 1 .. Len(readings[t]) : readings[t][i].kind \in {"GROSS", "REWEIGH"}
                                             /\ readings[t][i].weight > allowed[t]}
  IN IF over = {} THEN 0 ELSE CHOOSE i \in over : \A j \in over : i <= j
OverloadTime(t) == LET i == FirstOverload(t) IN IF i = 0 THEN Never ELSE recorded[t][i]
OverweightIn(from, to) ==
  {t \in Task : reversal[t] = "NONE" /\ Within(OverloadTime(t), from, to)}

(* The Excel export, a vehicle's history and a task's detail by number     *)
(* keep every row; the lists of tasks and fees leave out deleted ones.     *)
Exported(t) == status[t] # "ABSENT"
Findable(t) == status[t] # "ABSENT"
Listed(t) == status[t] # "ABSENT" /\ ~deleted[t]
FeesIn(from, to) ==
  {t \in Task : payment[t] # "NONE" /\ ~deleted[t] /\ Within(billed[t], from, to)}

Statement(f, from, to) ==
  CASE f = "created" -> CreatedIn(from, to)
    [] f = "pending" -> Pending
    [] f = "income" -> IncomeIn(from, to)
    [] f = "status" -> {t \in Task : Counted(t)}
    [] f = "lifetime" -> CompletedIn(0, MaxNow + 1)
    [] f = "analytics" -> AnalyticsCompletedIn(from, to)
    [] f = "overweight" -> OverweightIn(from, to)
    [] OTHER -> CompletedIn(from, to)   \* completed, weight, cargo, vehicles
-----------------------------------------------------------------------------
(* Legacy tasks were completed before the first instant ended.             *)
Init ==
  /\ Ledger!Init
  /\ now = 0
  /\ created = [t \in Task |-> IF t \in Legacy THEN 0 ELSE Never]
  /\ completed = created
  /\ billed = [t \in Task |-> Never]
  /\ recorded = [t \in Task |-> [i \in 1 .. Len(readings[t]) |-> 0]]
  /\ query = NoQuery

Tick == now < MaxNow /\ now' = now + 1 /\ UNCHANGED <<rows, times, query>>

(* complete_task takes completed_at, then the fee its created_at, and then *)
(* commits: midnight may pass between any two.                             *)
Stamps(t) == {s \in {now - 1, now} \cap Nat :
                \A i \in 1 .. Len(recorded[t]) : recorded[t][i] <= s}

Transaction(t) ==
  /\ Ledger!TaskStep(t)
  /\ created' = IF status[t] = "ABSENT" THEN [created EXCEPT ![t] = now] ELSE created
  /\ recorded' = IF readings'[t] = readings[t] THEN recorded
                 ELSE [recorded EXCEPT ![t] = Append(@, now)]
  /\ IF status'[t] # status[t] /\ status'[t] = "COMPLETED"
       THEN \E s \in Stamps(t), f \in Stamps(t) :
              /\ s <= f
              /\ completed' = [completed EXCEPT ![t] = s]
              /\ billed' = [billed EXCEPT ![t] = f]
       ELSE UNCHANGED <<completed, billed>>
  /\ UNCHANGED <<now, query>>
-----------------------------------------------------------------------------
Ask(op, from, to, plan) ==
  /\ query = NoQuery /\ op \in Question
  /\ query' = [NoQuery EXCEPT !.op = op, !.from = from, !.to = to, !.plan = plan]
  /\ UNCHANGED <<rows, now, times>>

(* The bounds of today are taken once, before the first statement.         *)
AskDashboard ==
  Ask("dashboard", DayStart(DayOf(now)), DayStart(DayOf(now) + 1),
      <<"created", "completed", "pending", "weight", "income", "status", "cargo", "lifetime">>)

ReportPlan == <<"created", "completed", "weight", "income", "cargo", "vehicles">>
AskDaily == \E d \in Days : Ask("daily", DayStart(d), DayStart(d + 1), ReportPlan)
AskMonthly == \E m \in Months : Ask("monthly", MonthStart(m), MonthStart(m + 1), ReportPlan)

AskSummary ==
  Ask("summary", DayStart(DayOf(now)), DayStart(DayOf(now) + 1), <<"analytics", "overweight">>)

ReadFigure ==
  LET f == query.plan[query.done + 1] IN
  /\ query.done < Len(query.plan)
  /\ query' = [query EXCEPT !.done = @ + 1,
                            !.got[f] = Statement(f, query.from, query.to)]
  /\ UNCHANGED <<rows, now, times>>

Answer ==
  /\ query # NoQuery /\ query.done = Len(query.plan)
  /\ query' = NoQuery
  /\ UNCHANGED <<rows, now, times>>

Next ==
  \/ Tick \/ AskDashboard \/ AskDaily \/ AskMonthly \/ AskSummary \/ ReadFigure \/ Answer
  \/ \E t \in Task : Transaction(t)

Spec == Init /\ [][Next]_vars
-----------------------------------------------------------------------------
(* The columns of times follow the rows they belong to.                    *)
TypeOK ==
  /\ now \in Instant
  /\ \A t \in Task :
       /\ created[t] \in Instant \cup {Never} /\ (created[t] = Never <=> status[t] = "ABSENT")
       /\ completed[t] \in Instant \cup {Never}
       /\ completed[t] # Never <=> status[t] = "COMPLETED"
       /\ billed[t] \in Instant \cup {Never}
       /\ recorded[t] \in Seq(Instant) /\ Len(recorded[t]) = Len(readings[t])
  /\ query.got \in [Figure -> SUBSET Task] /\ query.done \in 0 .. Len(query.plan)

(* Every completed task, and every fee, falls into exactly one business    *)
(* day, also at the instant where two days meet, and a month's report      *)
(* counts exactly the tasks of its days' reports.                          *)
Once(f(_, _), t) == Cardinality({d \in Days : t \in f(DayStart(d), DayStart(d + 1))}) = 1
ReportsPartition ==
  /\ \A t \in CompletedIn(0, MaxNow + 1) : Once(CompletedIn, t)
  /\ \A t \in FeesIn(0, MaxNow + 1) : Once(FeesIn, t)
  /\ \A m \in Months :
       CompletedIn(MonthStart(m), MonthStart(m + 1)) =
         UNION {CompletedIn(DayStart(d), DayStart(d + 1)) :
                  d \in m * MonthDays .. (m + 1) * MonthDays - 1}

(* An overweight event stays the event it was: no later reweigh, change of *)
(* status or payment moves it to another reading or day.                   *)
OverweightEventFixed ==
  [][\A t \in Task : FirstOverload(t) # 0 =>
       FirstOverload(t)' = FirstOverload(t) /\ OverloadTime(t)' = OverloadTime(t)]_<<rows, times>>

(* Whatever commits between the statements of one answer, and whether the  *)
(* day ends meanwhile, a task counted by an earlier figure is missing from *)
(* a later one only because it was reversed, or, in the income, because    *)
(* its fee was waived or it never had one.                                 *)
OverCompleted == {"completed", "weight", "income", "cargo", "vehicles", "lifetime"}
FiguresLoseOnlyReversed ==
  \A i, j \in 1 .. query.done :
    LET a == query.plan[i]
        b == query.plan[j] IN
    i < j /\ a \in OverCompleted /\ b \in OverCompleted =>
      \A t \in query.got[a] \ query.got[b] :
        reversal[t] # "NONE" \/ (b = "income" /\ payment[t] \in {"NONE", "WAIVED"})

(* What any figure has counted can be traced afterwards: the task is in    *)
(* the Excel export and can be found, also when a reversal has taken it    *)
(* out of the statistics since, and if it was counted as completed it is   *)
(* in the task list, which a deletion would have taken it from.            *)
FiguresAreTraceable ==
  \A f \in Figure : \A t \in query.got[f] :
    Exported(t) /\ Findable(t) /\ (f \in OverCompleted => Listed(t))
=============================================================================
