-------------------------- MODULE StatisticsProofs --------------------------
(***************************************************************************)
(* The figures of dashboard, reports and analytics for every set of tasks, *)
(* every calendar and every interleaving of an answer's statements with    *)
(* the ledger's transactions and with the clock.                           *)
(*                                                                         *)
(* The rows move as WeighingLedger says, so its invariant holds here       *)
(* (LedgerHolds) and with it what never changes about a counted task       *)
(* (RowsMove).  The times follow the rows (TypeOK).  What an answer has    *)
(* collected so far stays true of the tasks in it (Collected), so a later  *)
(* statement of the same answer can lose none of them silently.            *)
(***************************************************************************)
EXTENDS Statistics, FiniteSetTheorems, TLAPS

(* The answers' statements in their order.                                 *)
DashboardPlan == <<"created", "completed", "pending", "weight", "income", "status", "cargo", "lifetime">>
SummaryPlan == <<"analytics", "overweight">>
Plans == {<<>>, DashboardPlan, ReportPlan, SummaryPlan}

QueryType == [op : Question \cup {"none"}, from : Int, to : Int, plan : Plans, done : Nat,
              got : [Figure -> SUBSET Task]]

ColumnsType ==
  /\ created \in [Task -> Instant \cup {Never}] /\ completed \in [Task -> Instant \cup {Never}]
  /\ billed \in [Task -> Instant \cup {Never}] /\ recorded \in [Task -> Seq(Instant)]
  /\ query \in QueryType

(* A task that an answer has counted is still a row, and one counted as    *)
(* completed still is, in the period of the answer.                        *)
CompletedFigure == OverCompleted \ {"lifetime"}
Collected ==
  \A f \in Figure : \A t \in query.got[f] :
    /\ status[t] # "ABSENT"
    /\ f \in OverCompleted => status[t] = "COMPLETED" /\ ~deleted[t]
    /\ f \in CompletedFigure => Within(completed[t], query.from, query.to)

SInv == TypeOK /\ ColumnsType /\ Collected /\ FiguresLoseOnlyReversed
-----------------------------------------------------------------------------
(* WeighingLedgerProofs speaks of the rows as this module's Ledger does.   *)
LP == INSTANCE WeighingLedgerProofs

LEMMA SameValues ==
  /\ Ledger!Ticks = LP!Ticks /\ Ledger!Limits = LP!Limits
  /\ Ledger!vars = LP!vars /\ Ledger!rowVars = LP!rowVars
  /\ Ledger!VerdictType = LP!VerdictType /\ Ledger!ReadingType = LP!ReadingType
  /\ Ledger!LegacyHistory = LP!LegacyHistory
BY DEF Ledger!Ticks, LP!Ticks, Ledger!Limits, LP!Limits, Ledger!vars, LP!vars,
       Ledger!rowVars, LP!rowVars, Ledger!VerdictType, LP!VerdictType,
       Ledger!ReadingType, LP!ReadingType, Ledger!LegacyHistory, LP!LegacyHistory,
       Ledger!ReadingKind, LP!ReadingKind, Ledger!Verdicts, LP!Verdicts,
       Ledger!QuantizeTons, LP!QuantizeTons, Ledger!RawPerTick, LP!RawPerTick,
       Ledger!Weighable, LP!Weighable, Ledger!IsNormal, LP!IsNormal

LEMMA SameInit == Ledger!Init <=> LP!Init
BY SameValues
   DEF Ledger!Init, LP!Init, Ledger!PastVerdict, LP!PastVerdict, Ledger!PastReadings,
       LP!PastReadings, Ledger!Unweighed, LP!Unweighed, Ledger!NoAudit, LP!NoAudit,
       Ledger!AuditAction, LP!AuditAction, Ledger!WeightVerdict, LP!WeightVerdict,
       Ledger!Parts, LP!Parts, Ledger!IsNormal, LP!IsNormal, Ledger!Reading, LP!Reading

LEMMA SameTaskStep == \A t \in Task : Ledger!TaskStep(t) <=> LP!TaskStep(t)
<1> SUFFICES ASSUME NEW t \in Task PROVE Ledger!TaskStep(t) <=> LP!TaskStep(t)
  OBVIOUS
<1>1. /\ Ledger!AuditAction = LP!AuditAction
      /\ \A action : Ledger!Logged(t, action) = LP!Logged(t, action)
      /\ Ledger!Live(t) <=> LP!Live(t)
      /\ \A ticks : Ledger!Storable(ticks) <=> LP!Storable(ticks)
      /\ \A raw : Ledger!QuantizeTons(raw) = LP!QuantizeTons(raw)
      /\ \A ticks : Ledger!RawOf(ticks) = LP!RawOf(ticks)
      /\ \A kind, ticks : Ledger!Reading(kind, ticks) = LP!Reading(kind, ticks)
  BY DEF Ledger!AuditAction, LP!AuditAction, Ledger!Logged, LP!Logged, Ledger!Live, LP!Live,
         Ledger!Storable, LP!Storable, Ledger!QuantizeTons, LP!QuantizeTons,
         Ledger!RawPerTick, LP!RawPerTick, Ledger!RawOf, LP!RawOf, Ledger!Reading, LP!Reading
<1>2. /\ \A a, b, c : Ledger!Calculable(a, b, c) <=> LP!Calculable(a, b, c)
      /\ \A a, b, c : Ledger!CalculateWeight(a, b, c) = LP!CalculateWeight(a, b, c)
      /\ \A x : Ledger!StatusAfterReading(x) = LP!StatusAfterReading(x)
      /\ \A x : Ledger!SummaryAfterReading(t, x) = LP!SummaryAfterReading(t, x)
      /\ \A x : Ledger!GrossAuditAction(x) = LP!GrossAuditAction(x)
  BY <1>1
     DEF Ledger!Calculable, LP!Calculable, Ledger!CalculateWeight, LP!CalculateWeight,
         Ledger!WeightVerdict, LP!WeightVerdict, Ledger!Weighable, LP!Weighable,
         Ledger!Parts, LP!Parts, Ledger!IsNormal, LP!IsNormal,
         Ledger!StatusAfterReading, LP!StatusAfterReading,
         Ledger!SummaryAfterReading, LP!SummaryAfterReading,
         Ledger!GrossAuditAction, LP!GrossAuditAction
<1>3. Ledger!CreateTask(t) <=> LP!CreateTask(t)
  BY <1>1 DEF Ledger!CreateTask, LP!CreateTask
<1>4. Ledger!RecordTare(t) <=> LP!RecordTare(t)
  BY <1>1 DEF Ledger!RecordTare, LP!RecordTare
<1>5. Ledger!PrepareForGross(t) <=> LP!PrepareForGross(t)
  BY <1>1 DEF Ledger!rowVars, LP!rowVars, Ledger!PrepareForGross, LP!PrepareForGross
<1>6. \A kind, raw : Ledger!RecordGrossLike(t, kind, raw) <=> LP!RecordGrossLike(t, kind, raw)
  BY <1>1, <1>2 DEF Ledger!RecordGrossLike, LP!RecordGrossLike
<1>7. Ledger!RecordGross(t) <=> LP!RecordGross(t)
  BY <1>1, <1>6 DEF Ledger!RecordGross, LP!RecordGross, Ledger!NeverGrossWeighed,
                    LP!NeverGrossWeighed
<1>8. Ledger!RecordReweigh(t) <=> LP!RecordReweigh(t)
  BY <1>1, <1>6 DEF Ledger!RecordReweigh, LP!RecordReweigh, Ledger!ReweighAllowed,
                    LP!ReweighAllowed
<1>9. Ledger!CompleteTask(t) <=> LP!CompleteTask(t)
  BY <1>1 DEF Ledger!rowVars, LP!rowVars, Ledger!CompleteTask, LP!CompleteTask, Ledger!PaymentOnCompletion,
                          LP!PaymentOnCompletion
<1>10. Ledger!DeleteTask(t) <=> LP!DeleteTask(t)
  BY <1>1 DEF Ledger!DeleteTask, LP!DeleteTask, Ledger!DeletableStatuses, LP!DeletableStatuses
<1>11. Ledger!CancelTask(t) <=> LP!CancelTask(t)
  BY <1>1 DEF Ledger!rowVars, LP!rowVars, Ledger!CancelTask, LP!CancelTask, Ledger!CancellableStatuses,
                          LP!CancellableStatuses
<1>12. (Ledger!MarkPaid(t) <=> LP!MarkPaid(t)) /\ (Ledger!Waive(t) <=> LP!Waive(t))
  BY <1>1
     DEF Ledger!rowVars, LP!rowVars, Ledger!MarkPaid, LP!MarkPaid, Ledger!Waive, LP!Waive, Ledger!TransitionPaymentStatus,
         LP!TransitionPaymentStatus, Ledger!Settleable, LP!Settleable
<1>13. Ledger!Reverse(t) <=> LP!Reverse(t)
  BY <1>1 DEF Ledger!rowVars, LP!rowVars, Ledger!Reverse, LP!Reverse, Ledger!Reversible, LP!Reversible,
                          Ledger!PaymentSeen, LP!PaymentSeen
<1> QED
  BY <1>3, <1>4, <1>5, <1>7, <1>8, <1>9, <1>10, <1>11, <1>12, <1>13
     DEF Ledger!TaskStep, LP!TaskStep

LEMMA SameNext == [Ledger!Next]_(Ledger!vars) <=> [LP!Next]_(LP!vars)
<1>1. Ledger!Next <=> LP!Next
  BY SameTaskStep DEF Ledger!Next, LP!Next
<1>2. UNCHANGED Ledger!vars <=> UNCHANGED LP!vars
  BY DEF Ledger!vars, LP!vars
<1> QED
  BY <1>1, <1>2

LEMMA LedgerHolds == Spec => []LP!IndInv
<1>1. Init => LP!Init
  BY SameInit DEF Init
<1>2. [Next]_vars => [LP!Next]_(LP!vars)
  <2> SUFFICES ASSUME [Next]_vars PROVE [Ledger!Next]_(Ledger!vars)
    BY SameNext
  <2>1. CASE \E t \in Task : Transaction(t)
    BY <2>1 DEF Transaction, Ledger!Next
  <2>2. CASE ~ \E t \in Task : Transaction(t)
    <3>1. UNCHANGED rows
      BY <2>2 DEF Next, vars, Tick, AskDashboard, AskDaily, AskMonthly, AskSummary, Ask, ReadFigure, Answer
    <3> QED  BY <3>1 DEF rows, Ledger!vars
  <2> QED  BY <2>1, <2>2
<1>3. LP!Spec => []LP!IndInv
  BY LP!Inductive, LegacyAssumption, WeightAssumption, BoundAssumption
<1> QED
  BY <1>1, <1>2, <1>3, PTL DEF Spec, LP!Spec
-----------------------------------------------------------------------------
(* The calendar.                                                           *)
LEMMA Multiples ==
  ASSUME NEW a \in Int, NEW b \in Int, a <= b
  PROVE  a * DayLength <= b * DayLength
<1>1. DayLength \in Nat /\ b - a \in Nat
  BY CalendarAssumption
<1>2. \A x, y \in Nat : x * y \in Nat
  OBVIOUS
<1>3. (b - a) * DayLength \in Nat
  BY <1>1, <1>2
<1>4. (b - a) * DayLength = b * DayLength - a * DayLength
  BY <1>1
<1>5. a * DayLength \in Int /\ b * DayLength \in Int
  BY <1>1
<1> QED
  BY <1>3, <1>4, <1>5

(* A day has begun at an instant iff it is not after that instant's day.   *)
LEMMA DayBegun ==
  ASSUME NEW d \in Int, NEW time \in Int
  PROVE  DayOf(time) \in Int /\ DayStart(d) \in Int /\ (DayStart(d) <= time <=> d <= DayOf(time))
<1> DEFINE x == time + Offset
          q == x \div DayLength
<1>1. x \in Int /\ DayLength \in Nat \ {0} /\ Offset \in Nat
  BY CalendarAssumption
<1> HIDE DEF x
<1>2. q \in Int /\ q * DayLength <= x /\ x < (q + 1) * DayLength
  BY <1>1
<1> HIDE DEF q
<1>3. d * DayLength \in Int /\ q * DayLength \in Int /\ (q + 1) * DayLength \in Int
  BY <1>1, <1>2
<1>4. d <= q => d * DayLength <= x
  BY <1>1, <1>2, <1>3, Multiples
<1>5. ~(d <= q) => ~(d * DayLength <= x)
  BY <1>1, <1>2, <1>3, Multiples
<1>6. DayOf(time) = q /\ DayStart(d) = d * DayLength - Offset /\ x = time + Offset
  BY DEF DayOf, DayStart, q, x
<1> QED
  BY <1>1, <1>2, <1>3, <1>4, <1>5, <1>6

LEMMA InPeriod ==
  ASSUME NEW time \in Instant \cup {Never}, NEW from \in Int, NEW to \in Int
  PROVE  Within(time, DayStart(from), DayStart(to))
           <=> time # Never /\ from <= DayOf(time) /\ DayOf(time) < to
<1>1. time \in Int
  BY CalendarAssumption DEF Instant, Never
<1>2. DayOf(time) \in Int /\ DayStart(from) \in Int /\ DayStart(to) \in Int
      /\ (DayStart(from) <= time <=> from <= DayOf(time)) /\ (DayStart(to) <= time <=> to <= DayOf(time))
  BY <1>1, DayBegun
<1> QED
  BY <1>1, <1>2 DEF Within

LEMMA DaysOfInstants ==
  ASSUME NEW time \in Instant
  PROVE  DayOf(time) \in Days /\ Within(time, 0, MaxNow + 1)
<1>1. time \in Int /\ MaxNow \in Int /\ 0 <= time /\ time <= MaxNow /\ time # Never
  BY CalendarAssumption DEF Instant, Never
<1>2. DayOf(time) \in Int /\ DayOf(MaxNow) \in Int
  BY <1>1, DayBegun
<1>3. DayStart(0) <= 0
  BY CalendarAssumption DEF DayStart
<1>4. 0 <= DayOf(time)
  BY <1>1, <1>3, DayBegun
<1>5. DayStart(DayOf(time)) <= time /\ DayStart(DayOf(time)) \in Int
  BY <1>1, <1>2, DayBegun
<1>6. DayStart(DayOf(time)) <= MaxNow
  BY <1>1, <1>5
<1>7. DayOf(time) <= DayOf(MaxNow)
  BY <1>1, <1>2, <1>6, DayBegun
<1> QED
  BY <1>1, <1>2, <1>4, <1>7 DEF Days, Within

LEMMA InDay ==
  ASSUME NEW time \in Instant, NEW d \in Int
  PROVE  Within(time, DayStart(d), DayStart(d + 1)) <=> d = DayOf(time)
<1>1. time \in Int /\ time # Never /\ d + 1 \in Int
  BY CalendarAssumption DEF Instant, Never
<1>2. DayOf(time) \in Int
  BY <1>1, DayBegun
<1>3. Within(time, DayStart(d), DayStart(d + 1)) <=> d <= DayOf(time) /\ DayOf(time) < d + 1
  BY <1>1, InPeriod
<1> QED
  BY <1>1, <1>2, <1>3

(* Where a period's set is decided by one column of times, each of its     *)
(* tasks is in the set of its own day and of no other.                     *)
LEMMA OneDay ==
  ASSUME NEW S, NEW time \in Instant, \A d \in Days : d \in S <=> Within(time, DayStart(d), DayStart(d + 1)),
         S \subseteq Days
  PROVE  Cardinality(S) = 1
<1>1. DayOf(time) \in Days /\ Days \subseteq Int /\ time # Never
  BY DaysOfInstants, DayBegun, CalendarAssumption DEF Days, Instant, Never
<1>2. \A d \in Days : Within(time, DayStart(d), DayStart(d + 1)) <=> d = DayOf(time)
  BY <1>1, InDay
<1>3. S = {DayOf(time)}
  BY <1>1, <1>2
<1> QED
  BY <1>3, FS_Singleton

LEMMA CompletedInDays ==
  ASSUME ColumnsType, NEW t \in Task, NEW from \in Int, NEW to \in Int
  PROVE  t \in CompletedIn(DayStart(from), DayStart(to))
           <=> /\ Counted(t) /\ status[t] = "COMPLETED" /\ completed[t] # Never
               /\ from <= DayOf(completed[t]) /\ DayOf(completed[t]) < to
<1>1. completed[t] \in Instant \cup {Never}
  BY DEF ColumnsType
<1> QED
  BY <1>1, InPeriod DEF CompletedIn

LEMMA Partition ==
  ASSUME ColumnsType
  PROVE  ReportsPartition
<1>1. ASSUME NEW t \in CompletedIn(0, MaxNow + 1)
      PROVE  Cardinality({d \in Days : t \in CompletedIn(DayStart(d), DayStart(d + 1))}) = 1
  <2> DEFINE S == {d \in Days : t \in CompletedIn(DayStart(d), DayStart(d + 1))}
  <2>1. t \in Task /\ Counted(t) /\ status[t] = "COMPLETED" /\ completed[t] \in Instant
    BY <1>1 DEF CompletedIn, Within, ColumnsType
  <2>2. S \subseteq Days /\ \A d \in Days : d \in S <=> Within(completed[t], DayStart(d), DayStart(d + 1))
    BY <2>1 DEF CompletedIn
  <2> HIDE DEF S
  <2> QED  BY <2>1, <2>2, OneDay DEF S
<1>2. ASSUME NEW t \in FeesIn(0, MaxNow + 1)
      PROVE  Cardinality({d \in Days : t \in FeesIn(DayStart(d), DayStart(d + 1))}) = 1
  <2> DEFINE S == {d \in Days : t \in FeesIn(DayStart(d), DayStart(d + 1))}
  <2>1. t \in Task /\ payment[t] # "NONE" /\ ~deleted[t] /\ billed[t] \in Instant
    BY <1>2 DEF FeesIn, Within, ColumnsType
  <2>2. S \subseteq Days /\ \A d \in Days : d \in S <=> Within(billed[t], DayStart(d), DayStart(d + 1))
    BY <2>1 DEF FeesIn
  <2> HIDE DEF S
  <2> QED  BY <2>1, <2>2, OneDay DEF S
<1>3. ASSUME NEW m \in Months
      PROVE  CompletedIn(MonthStart(m), MonthStart(m + 1)) =
               UNION {CompletedIn(DayStart(d), DayStart(d + 1)) : d \in m * MonthDays .. (m + 1) * MonthDays - 1}
  <2> DEFINE first == m * MonthDays
             past == (m + 1) * MonthDays
  <2>1. m \in Int /\ MonthDays \in Int
    BY CalendarAssumption, <1>3, DaysOfInstants DEF Months
  <2>2. first \in Int /\ past \in Int
    BY <2>1
  <2>3. MonthStart(m) = DayStart(first) /\ MonthStart(m + 1) = DayStart(past)
    BY DEF MonthStart
  <2> HIDE DEF first, past
  <2>4. ASSUME NEW t \in Task
        PROVE  t \in CompletedIn(DayStart(first), DayStart(past))
                 <=> \E d \in first .. past - 1 : t \in CompletedIn(DayStart(d), DayStart(d + 1))
    <3>1. completed[t] \in Int
      BY CalendarAssumption DEF ColumnsType, Instant, Never
    <3>2. DayOf(completed[t]) \in Int
      BY <3>1, DayBegun
    <3>3. CASE t \in CompletedIn(DayStart(first), DayStart(past))
      <4>1. /\ Counted(t) /\ status[t] = "COMPLETED" /\ completed[t] # Never
            /\ first <= DayOf(completed[t]) /\ DayOf(completed[t]) < past
        BY <2>2, <3>3, CompletedInDays
      <4>2. t \in CompletedIn(DayStart(DayOf(completed[t])), DayStart(DayOf(completed[t]) + 1))
        BY <3>2, <4>1, CompletedInDays
      <4> QED  BY <2>2, <3>2, <3>3, <4>1, <4>2
    <3>4. ASSUME NEW d \in first .. past - 1, t \in CompletedIn(DayStart(d), DayStart(d + 1))
          PROVE  t \in CompletedIn(DayStart(first), DayStart(past))
      <4>1. d \in Int /\ d + 1 \in Int /\ first <= d /\ d + 1 <= past
        BY <2>2
      <4>2. /\ Counted(t) /\ status[t] = "COMPLETED" /\ completed[t] # Never
            /\ d <= DayOf(completed[t]) /\ DayOf(completed[t]) < d + 1
        BY <3>4, <4>1, CompletedInDays
      <4>3. first <= DayOf(completed[t]) /\ DayOf(completed[t]) < past
        BY <2>2, <3>2, <4>1, <4>2
      <4> QED  BY <2>2, <4>2, <4>3, CompletedInDays
    <3> QED  BY <3>3, <3>4
  <2>5. \A from, to : CompletedIn(from, to) \subseteq Task
    BY DEF CompletedIn
  <2> QED  BY <2>3, <2>4, <2>5 DEF first, past
<1> QED
  BY <1>1, <1>2, <1>3 DEF ReportsPartition, Once
-----------------------------------------------------------------------------
(* What a transaction leaves as it was, of every task: a row stays, a      *)
(* completed one keeps its status and is never deleted, a reversal and a   *)
(* settled fee are final, and a completed task without a fee gets none.    *)
Moves(t) ==
  /\ status[t] # "ABSENT" => status'[t] # "ABSENT"
  /\ status[t] = "COMPLETED" => status'[t] = "COMPLETED" /\ deleted'[t] = deleted[t]
  /\ reversal[t] # "NONE" => reversal'[t] # "NONE"
  /\ status[t] = "COMPLETED" /\ payment[t] \in {"NONE", "WAIVED"} => payment'[t] = payment[t]

LEMMA RowsMove ==
  ASSUME LP!IndInv, NEW t \in Task, LP!TaskStep(t), NEW u \in Task
  PROVE  Moves(u)
<1>1. LP!TypeOK
  BY DEF LP!IndInv
<1>2. CASE u # t
  <2>1. LP!Same(u)
    BY <1>1, <1>2, LP!OtherTasks, LegacyAssumption, WeightAssumption, BoundAssumption
  <2> QED  BY <2>1 DEF LP!Same, Moves
<1>3. CASE u = t
  <2>1. status[t] = "COMPLETED" => status'[t] = "COMPLETED" /\ deleted'[t] = deleted[t]
    <3>1. LP!CompletedStep(t)
      BY LP!CompletedKept, LegacyAssumption, WeightAssumption, BoundAssumption
    <3> QED  BY <3>1 DEF LP!CompletedStep
  <2>2. status[t] = "COMPLETED" /\ payment[t] \in {"NONE", "WAIVED"} => payment'[t] = payment[t]
    <3>1. LP!PaymentStep(t)
      BY LP!PaymentKept, LegacyAssumption, WeightAssumption, BoundAssumption
    <3>2. LP!BilledOf(t) /\ LP!BilledOf(t)'
      BY LP!StepGood, LegacyAssumption, WeightAssumption, BoundAssumption DEF LP!IndInv, LP!Good
    <3> QED  BY <2>1, <3>1, <3>2 DEF LP!PaymentStep, LP!BilledOf
  <2>3. status[t] # "ABSENT" => status'[t] # "ABSENT"
    BY <1>1 DEF LP!TypeOK, LP!TaskStep, LP!CreateTask, LP!RecordTare, LP!PrepareForGross, LP!RecordGross,
       LP!RecordReweigh, LP!RecordGrossLike, LP!StatusAfterReading, LP!CompleteTask, LP!DeleteTask,
       LP!CancelTask, LP!MarkPaid, LP!Waive, LP!TransitionPaymentStatus, LP!Reverse
  <2>4. reversal[t] # "NONE" => reversal'[t] # "NONE"
    BY <1>1 DEF LP!TypeOK, LP!TaskStep, LP!CreateTask, LP!RecordTare, LP!PrepareForGross, LP!RecordGross,
       LP!RecordReweigh, LP!RecordGrossLike, LP!CompleteTask, LP!DeleteTask,
       LP!CancelTask, LP!MarkPaid, LP!Waive, LP!TransitionPaymentStatus, LP!Reverse, LP!Reversible
  <2> QED  BY <1>3, <2>1, <2>2, <2>3, <2>4 DEF Moves
<1> QED
  BY <1>2, <1>3

(* Of a task that a transaction is not about, nothing changes but what     *)
(* another task's row says.                                                *)
LEMMA ReadingsGrow ==
  ASSUME LP!IndInv, NEW t \in Task, LP!TaskStep(t), NEW u \in Task
  PROVE  /\ u # t => status'[u] = status[u] /\ readings'[u] = readings[u] /\ allowed'[u] = allowed[u]
         /\ readings'[u] # readings[u] =>
              /\ Len(readings'[u]) = Len(readings[u]) + 1
              /\ \A i \in 1 .. Len(readings[u]) : readings'[u][i] = readings[u][i]
         /\ status[u] # "ABSENT" => allowed'[u] = allowed[u]
         /\ status'[u] = "ABSENT" => status[u] = "ABSENT"
<1>1. LP!TypeOK
  BY DEF LP!IndInv
<1>2. u # t => /\ status'[u] = status[u] /\ readings'[u] = readings[u] /\ allowed'[u] = allowed[u]
  <2>1. u # t => LP!Same(u)
    BY <1>1, LP!OtherTasks, LegacyAssumption, WeightAssumption, BoundAssumption
  <2> QED  BY <2>1 DEF LP!Same
<1>3. u = t => LP!ReadingStep(t)
  BY LP!ReadingKept, LegacyAssumption, WeightAssumption, BoundAssumption
<1>4. u = t /\ status[t] # "ABSENT" => allowed'[t] = allowed[t]
  BY <1>1 DEF LP!TypeOK, LP!TaskStep, LP!CreateTask, LP!RecordTare, LP!PrepareForGross, LP!RecordGross,
     LP!RecordReweigh, LP!RecordGrossLike, LP!CompleteTask, LP!DeleteTask, LP!rowVars,
     LP!CancelTask, LP!MarkPaid, LP!Waive, LP!TransitionPaymentStatus, LP!Reverse
<1>5. status'[u] = "ABSENT" => status[u] = "ABSENT"
  BY RowsMove DEF Moves
<1> QED
  BY <1>2, <1>3, <1>4, <1>5 DEF LP!ReadingStep
-----------------------------------------------------------------------------
(* The operation is about a task that is a row afterwards.                 *)
LEMMA ActsOnRow ==
  ASSUME LP!IndInv, NEW t \in Task, LP!TaskStep(t)
  PROVE  status'[t] # "ABSENT"
<1>1. LP!TypeOK /\ LP!BilledOf(t)
  BY DEF LP!IndInv, LP!Good
<1>2. CASE status[t] # "ABSENT"
  BY <1>2, RowsMove DEF Moves
<1>3. CASE status[t] = "ABSENT"
  <2>1. payment[t] = "NONE"
    BY <1>1, <1>3 DEF LP!BilledOf
  <2>2. LP!CreateTask(t)
    BY <1>3, <2>1
       DEF LP!TaskStep, LP!RecordTare, LP!PrepareForGross, LP!RecordGross, LP!RecordReweigh,
           LP!CompleteTask, LP!DeleteTask, LP!CancelTask, LP!MarkPaid, LP!Waive,
           LP!TransitionPaymentStatus, LP!Settleable, LP!Reverse, LP!Reversible, LP!Live
  <2> QED  BY <1>1, <2>2 DEF LP!CreateTask, LP!TypeOK
<1> QED
  BY <1>2, <1>3

LEMMA InitHolds == Init => SInv
<1> SUFFICES ASSUME Init PROVE SInv
  OBVIOUS
<1>1. LP!Init
  BY SameInit DEF Init
<1>2. LP!TypeOK
  BY <1>1, LP!InitTypeOK, LegacyAssumption, WeightAssumption, BoundAssumption
<1>3. 0 \in Instant /\ Never \notin Instant
  BY CalendarAssumption DEF Instant, Never
<1>4. status = [t \in Task |-> IF t \in Legacy THEN "COMPLETED" ELSE "ABSENT"]
  BY <1>1 DEF LP!Init
<1>5. \A t \in Task : Len(readings[t]) \in Nat
  BY <1>2 DEF LP!TypeOK
<1>6. \A t \in Task : recorded[t] \in Seq(Instant) /\ Len(recorded[t]) = Len(readings[t])
  <2> SUFFICES ASSUME NEW t \in Task
               PROVE  recorded[t] \in Seq(Instant) /\ Len(recorded[t]) = Len(readings[t])
    OBVIOUS
  <2> DEFINE n == Len(readings[t])
  <2>1. n \in Nat /\ recorded[t] = [i \in 1 .. n |-> 0]
    BY <1>5 DEF Init
  <2> HIDE DEF n
  <2>2. recorded[t] \in Seq(Instant) /\ Len(recorded[t]) = n
    BY <1>3, <2>1
  <2> QED  BY <2>2 DEF n
<1>7. query = NoQuery /\ NoQuery \in QueryType /\ NoQuery.done = 0
      /\ NoQuery.got = [f \in Figure |-> {}] /\ NoQuery.plan = <<>>
  BY DEF Init, NoQuery, QueryType, Plans
<1>8. ColumnsType
  BY <1>3, <1>6, <1>7 DEF Init, ColumnsType
<1>9. TypeOK
  <2>1. now \in Instant
    BY <1>3 DEF Init
  <2>2. \A t \in Task : /\ created[t] = IF t \in Legacy THEN 0 ELSE Never
                        /\ completed[t] = created[t] /\ billed[t] = Never
    BY DEF Init
  <2>3. query.got \in [Figure -> SUBSET Task] /\ query.done \in 0 .. Len(query.plan)
    BY <1>7
  <2> QED  BY <1>3, <1>4, <1>6, <2>1, <2>2, <2>3 DEF TypeOK
<1>10. Collected
  BY <1>7 DEF Collected
<1>11. FiguresLoseOnlyReversed
  BY <1>7 DEF FiguresLoseOnlyReversed
<1> QED
  BY <1>8, <1>9, <1>10, <1>11 DEF SInv

(* A tick of the clock, or nothing at all.                                 *)
LEMMA ClockHolds ==
  ASSUME SInv, UNCHANGED <<rows, times, query>>, now' \in Instant
  PROVE  SInv'
<1>1. TypeOK' /\ ColumnsType'
  BY DEF SInv, TypeOK, ColumnsType, rows, times
<1>2. Collected' /\ FiguresLoseOnlyReversed'
  BY DEF SInv, Collected, FiguresLoseOnlyReversed, Within, rows, times
<1> QED
  BY <1>1, <1>2 DEF SInv

(* The columns of times follow a transaction's rows.                       *)
LEMMA TransactionTimes ==
  ASSUME SInv, LP!IndInv, LP!TypeOK', NEW t \in Task, Transaction(t)
  PROVE  /\ TypeOK' /\ ColumnsType'
         /\ \A u \in Task : status[u] = "COMPLETED" => completed'[u] = completed[u]
         /\ \A u \in Task : /\ readings'[u] = readings[u] => recorded'[u] = recorded[u]
                            /\ readings'[u] # readings[u] => recorded'[u] = Append(recorded[u], now)
<1>1. LP!TaskStep(t)
  BY SameTaskStep DEF Transaction
<1>2. now \in Instant /\ now' = now /\ query' = query
  BY DEF SInv, TypeOK, Transaction
<1>3. Stamps(t) \subseteq Instant /\ Never \notin Instant
  BY <1>2, CalendarAssumption DEF Stamps, Instant, Never
<1>4. /\ created \in [Task -> Instant \cup {Never}] /\ completed \in [Task -> Instant \cup {Never}]
      /\ billed \in [Task -> Instant \cup {Never}] /\ recorded \in [Task -> Seq(Instant)]
      /\ query \in QueryType
  BY DEF SInv, ColumnsType
<1>5. \A u \in Task : u # t => status'[u] = status[u] /\ readings'[u] = readings[u]
  BY <1>1, ReadingsGrow
<1>6. created' = IF status[t] = "ABSENT" THEN [created EXCEPT ![t] = now] ELSE created
  BY DEF Transaction
<1>7. created' \in [Task -> Instant \cup {Never}]
  BY <1>2, <1>4, <1>6
<1>8. \/ /\ status'[t] # status[t] /\ status'[t] = "COMPLETED"
         /\ \E s \in Instant, f \in Instant : completed' = [completed EXCEPT ![t] = s]
                                              /\ billed' = [billed EXCEPT ![t] = f]
      \/ /\ ~(status'[t] # status[t] /\ status'[t] = "COMPLETED")
         /\ completed' = completed /\ billed' = billed
  BY <1>3 DEF Transaction
<1>9. /\ completed' \in [Task -> Instant \cup {Never}] /\ billed' \in [Task -> Instant \cup {Never}]
  BY <1>4, <1>8
<1>10. recorded' = IF readings'[t] = readings[t] THEN recorded
                   ELSE [recorded EXCEPT ![t] = Append(recorded[t], now)]
  BY DEF Transaction
<1>11. recorded[t] \in Seq(Instant) /\ Append(recorded[t], now) \in Seq(Instant)
       /\ Len(Append(recorded[t], now)) = Len(recorded[t]) + 1
  BY <1>2, <1>4
<1>12. recorded' \in [Task -> Seq(Instant)]
  BY <1>4, <1>10, <1>11
<1>13. ColumnsType'
  BY <1>2, <1>4, <1>7, <1>9, <1>12 DEF ColumnsType
<1>14. ASSUME NEW u \in Task
       PROVE  /\ readings'[u] = readings[u] => recorded'[u] = recorded[u]
              /\ readings'[u] # readings[u] => recorded'[u] = Append(recorded[u], now)
              /\ Len(recorded'[u]) = Len(readings'[u])
  <2>1. Len(recorded[u]) = Len(readings[u])
    BY DEF SInv, TypeOK
  <2>2. /\ readings'[u] = readings[u] => recorded'[u] = recorded[u]
        /\ readings'[u] # readings[u] => u = t /\ recorded'[u] = Append(recorded[u], now)
    BY <1>4, <1>5, <1>10
  <2>3. readings'[u] # readings[u] => Len(readings'[u]) = Len(readings[u]) + 1
    BY <1>1, ReadingsGrow
  <2> QED  BY <1>11, <2>1, <2>2, <2>3
<1>15. ASSUME NEW u \in Task
       PROVE  /\ created'[u] = Never <=> status'[u] = "ABSENT"
              /\ completed'[u] # Never <=> status'[u] = "COMPLETED"
              /\ status[u] = "COMPLETED" => completed'[u] = completed[u]
  <2>1. /\ created[u] = Never <=> status[u] = "ABSENT"
        /\ completed[u] # Never <=> status[u] = "COMPLETED"
    BY DEF SInv, TypeOK
  <2>2. Moves(u)
    BY <1>1, RowsMove
  <2>3. CASE u # t
    BY <1>4, <1>5, <1>6, <1>8, <2>1, <2>3
  <2>4. CASE u = t
    <3>1. status'[t] # "ABSENT"
      BY <1>1, ActsOnRow
    <3>2. created'[t] # Never
      BY <1>2, <1>3, <1>4, <1>6, <2>1, <2>4
    <3>3. completed'[t] # Never <=> status'[t] = "COMPLETED"
      BY <1>3, <1>4, <1>8, <2>1, <2>2, <2>4 DEF Moves
    <3>4. status[t] = "COMPLETED" => completed'[t] = completed[t]
      BY <1>8, <2>2, <2>4 DEF Moves
    <3> QED  BY <2>4, <3>1, <3>2, <3>3, <3>4
  <2> QED  BY <2>3, <2>4
<1>16. TypeOK'
  <2>1. query.got \in [Figure -> SUBSET Task] /\ query.done \in 0 .. Len(query.plan)
    BY DEF SInv, TypeOK
  <2> QED  BY <1>2, <1>7, <1>9, <1>12, <1>14, <1>15, <2>1 DEF TypeOK
<1> QED
  BY <1>13, <1>14, <1>15, <1>16

LEMMA TransactionHolds ==
  ASSUME SInv, LP!IndInv, LP!TypeOK', NEW t \in Task, Transaction(t)
  PROVE  SInv'
<1>1. /\ TypeOK' /\ ColumnsType'
      /\ \A u \in Task : status[u] = "COMPLETED" => completed'[u] = completed[u]
  BY TransactionTimes
<1>2. \A u \in Task : Moves(u)
  <2>1. LP!TaskStep(t)
    BY SameTaskStep DEF Transaction
  <2> QED  BY <2>1, RowsMove
<1>3. query' = query /\ query \in QueryType
  BY DEF Transaction, SInv, ColumnsType
<1>4. \A f \in Figure : query.got[f] \subseteq Task
  BY <1>3 DEF QueryType
<1>5. Collected'
  <2> SUFFICES ASSUME NEW f \in Figure, NEW u \in query.got[f]
               PROVE  /\ status'[u] # "ABSENT"
                      /\ f \in OverCompleted => status'[u] = "COMPLETED" /\ ~deleted'[u]
                      /\ f \in CompletedFigure => Within(completed'[u], query.from, query.to)
    BY <1>3 DEF Collected, Within
  <2>1. u \in Task /\ Moves(u)
    BY <1>2, <1>4
  <2>2. /\ status[u] # "ABSENT"
        /\ f \in OverCompleted => status[u] = "COMPLETED" /\ ~deleted[u]
        /\ f \in CompletedFigure => Within(completed[u], query.from, query.to)
    BY DEF SInv, Collected
  <2>3. f \in CompletedFigure => f \in OverCompleted
    BY DEF CompletedFigure
  <2>4. f \in CompletedFigure => completed'[u] = completed[u]
    BY <1>1, <2>1, <2>2, <2>3
  <2> QED  BY <2>1, <2>2, <2>4 DEF Moves
<1>6. FiguresLoseOnlyReversed'
  <2> SUFFICES ASSUME NEW i \in 1 .. query.done, NEW j \in 1 .. query.done, i < j,
                      query.plan[i] \in OverCompleted, query.plan[j] \in OverCompleted,
                      NEW u \in query.got[query.plan[i]] \ query.got[query.plan[j]]
               PROVE  reversal'[u] # "NONE"
                        \/ (query.plan[j] = "income" /\ payment'[u] \in {"NONE", "WAIVED"})
    BY <1>3 DEF FiguresLoseOnlyReversed
  <2>1. query.plan[i] \in Figure
    BY DEF OverCompleted, Figure
  <2>2. u \in Task /\ Moves(u)
    BY <1>2, <1>4, <2>1
  <2>3. status[u] = "COMPLETED"
    BY <2>1 DEF SInv, Collected
  <2>4. reversal[u] # "NONE" \/ (query.plan[j] = "income" /\ payment[u] \in {"NONE", "WAIVED"})
    BY DEF SInv, FiguresLoseOnlyReversed
  <2> QED  BY <2>2, <2>3, <2>4 DEF Moves
<1> QED
  BY <1>1, <1>5, <1>6 DEF SInv
-----------------------------------------------------------------------------
(* An answer's statements are of different figures, and the one of the     *)
(* whole life time comes last.                                             *)
LEMMA PlanShape ==
  ASSUME NEW plan \in Plans
  PROVE  /\ Len(plan) \in Nat
         /\ \A i \in 1 .. Len(plan) : plan[i] \in Figure /\ (plan[i] = "lifetime" => i = Len(plan))
         /\ \A i, j \in 1 .. Len(plan) : i # j => plan[i] # plan[j]
<1>1. CASE plan = <<>>
  BY <1>1
<1>2. CASE plan = DashboardPlan
  <2>1. Len(plan) = 8
    BY <1>2 DEF DashboardPlan
  <2>2. \A i \in 1 .. 8 : i \in {1, 2, 3, 4, 5, 6, 7, 8}
    OBVIOUS
  <2>3. /\ plan[1] = "created" /\ plan[2] = "completed" /\ plan[3] = "pending" /\ plan[4] = "weight"
        /\ plan[5] = "income" /\ plan[6] = "status" /\ plan[7] = "cargo" /\ plan[8] = "lifetime"
    BY <1>2 DEF DashboardPlan
  <2> QED  BY <2>1, <2>2, <2>3 DEF Figure
<1>3. CASE plan = ReportPlan
  <2>1. Len(plan) = 6
    BY <1>3 DEF ReportPlan
  <2>2. \A i \in 1 .. 6 : i \in {1, 2, 3, 4, 5, 6}
    OBVIOUS
  <2>3. /\ plan[1] = "created" /\ plan[2] = "completed" /\ plan[3] = "weight"
        /\ plan[4] = "income" /\ plan[5] = "cargo" /\ plan[6] = "vehicles"
    BY <1>3 DEF ReportPlan
  <2> QED  BY <2>1, <2>2, <2>3 DEF Figure
<1>4. CASE plan = SummaryPlan
  <2>1. Len(plan) = 2 /\ plan[1] = "analytics" /\ plan[2] = "overweight"
    BY <1>4 DEF SummaryPlan
  <2>2. \A i \in 1 .. 2 : i \in {1, 2}
    OBVIOUS
  <2> QED  BY <2>1, <2>2 DEF Figure
<1> QED
  BY <1>1, <1>2, <1>3, <1>4 DEF Plans

LEMMA AskHolds ==
  ASSUME SInv, NEW op, NEW from \in Int, NEW to \in Int, NEW plan \in Plans,
         Ask(op, from, to, plan)
  PROVE  SInv'
<1>1. query' = [op |-> op, from |-> from, to |-> to, plan |-> plan, done |-> 0,
                got |-> [f \in Figure |-> {}]] /\ op \in Question
  BY DEF Ask, NoQuery
<1>2. UNCHANGED <<rows, now, times>>
  BY DEF Ask
<1>3. query' \in QueryType
  BY <1>1 DEF QueryType
<1>4. query'.done = 0 /\ query'.got = [f \in Figure |-> {}] /\ query'.plan = plan
  BY <1>1
<1>5. query'.done \in 0 .. Len(query'.plan)
  BY <1>4, PlanShape
<1>6. TypeOK' /\ ColumnsType'
  BY <1>2, <1>3, <1>4, <1>5 DEF SInv, TypeOK, ColumnsType, rows, times
<1>7. Collected' /\ FiguresLoseOnlyReversed'
  BY <1>4 DEF Collected, FiguresLoseOnlyReversed
<1> QED
  BY <1>6, <1>7 DEF SInv

LEMMA AnswerHolds ==
  ASSUME SInv, Answer
  PROVE  SInv'
<1>1. query' = NoQuery /\ NoQuery \in QueryType /\ NoQuery.done = 0
      /\ NoQuery.got = [f \in Figure |-> {}] /\ NoQuery.plan = <<>>
  BY DEF Answer, NoQuery, QueryType, Plans
<1>2. UNCHANGED <<rows, now, times>>
  BY DEF Answer
<1>3. TypeOK' /\ ColumnsType'
  BY <1>1, <1>2 DEF SInv, TypeOK, ColumnsType, rows, times
<1>4. Collected' /\ FiguresLoseOnlyReversed'
  BY <1>1 DEF Collected, FiguresLoseOnlyReversed
<1> QED
  BY <1>3, <1>4 DEF SInv

(* What a statement finds.                                                 *)
LEMMA StatementFinds ==
  ASSUME LP!IndInv, NEW f \in Figure, NEW from, NEW to, NEW t \in Statement(f, from, to)
  PROVE  /\ t \in Task /\ status[t] # "ABSENT"
         /\ f \in OverCompleted => status[t] = "COMPLETED" /\ ~deleted[t]
         /\ f \in CompletedFigure => Within(completed[t], from, to)
<1>1. CASE f \in OverCompleted
  <2>1. \/ t \in CompletedIn(from, to)
        \/ f = "lifetime" /\ t \in CompletedIn(0, MaxNow + 1)
    BY <1>1 DEF Statement, OverCompleted, IncomeIn
  <2>2. f \in CompletedFigure => f # "lifetime"
    BY DEF CompletedFigure
  <2> QED  BY <2>1, <2>2 DEF CompletedIn, Counted
<1>2. CASE f \in {"created", "pending", "status", "analytics"}
  <2>1. t \in Task /\ status[t] # "ABSENT"
    BY <1>2 DEF Statement, CreatedIn, Pending, AnalyticsCompletedIn, Counted
  <2> QED  BY <1>2, <2>1 DEF OverCompleted, CompletedFigure
<1>3. CASE f = "overweight"
  <2>1. t \in Task /\ OverloadTime(t) # Never
    BY <1>3 DEF Statement, OverweightIn, Within
  <2>2. \E i \in 1 .. Len(readings[t]) : TRUE
    BY <2>1 DEF OverloadTime, FirstOverload
  <2>3. Len(readings[t]) # 0
    BY <2>2
  <2>4. status[t] # "ABSENT"
    BY <2>1, <2>3 DEF LP!IndInv, LP!Good, LP!SummaryOf
  <2> QED  BY <1>3, <2>1, <2>4 DEF OverCompleted, CompletedFigure
<1> QED
  BY <1>1, <1>2, <1>3 DEF Figure, OverCompleted

(* The statement of a later figure finds a completed task again that an    *)
(* earlier one has counted.                                                *)
LEMMA FindsAgain ==
  ASSUME SInv, NEW a \in CompletedFigure, NEW t \in query.got[a], NEW b \in OverCompleted,
         t \notin Statement(b, query.from, query.to)
  PROVE  reversal[t] # "NONE" \/ (b = "income" /\ payment[t] \in {"NONE", "WAIVED"})
<1>1. a \in Figure /\ a \in OverCompleted
  BY DEF CompletedFigure, OverCompleted, Figure
<1>2. t \in Task
  BY <1>1 DEF SInv, ColumnsType, QueryType
<1>3. /\ status[t] = "COMPLETED" /\ ~deleted[t]
      /\ Within(completed[t], query.from, query.to)
  BY <1>1 DEF SInv, Collected
<1>4. SUFFICES ASSUME reversal[t] = "NONE" PROVE b = "income" /\ payment[t] \in {"NONE", "WAIVED"}
  OBVIOUS
<1>5. t \in CompletedIn(query.from, query.to)
  BY <1>2, <1>3, <1>4 DEF CompletedIn, Counted
<1>6. t \in CompletedIn(0, MaxNow + 1)
  <2>1. completed[t] \in Instant
    BY <1>2, <1>3 DEF SInv, ColumnsType, Within
  <2> QED  BY <1>2, <1>3, <1>4, <2>1, DaysOfInstants DEF CompletedIn, Counted
<1>7. CASE b = "income"
  BY <1>5, <1>7 DEF Statement, IncomeIn
<1>8. CASE b # "income"
  BY <1>5, <1>6, <1>8 DEF Statement, OverCompleted
<1> QED
  BY <1>7, <1>8

LEMMA ReadHolds ==
  ASSUME SInv, LP!IndInv, ReadFigure
  PROVE  SInv'
<1> DEFINE n == query.done + 1
           f == query.plan[n]
           S == Statement(f, query.from, query.to)
<1>1. /\ query \in QueryType /\ query.plan \in Plans /\ query.done \in Nat
      /\ query.got \in [Figure -> SUBSET Task]
  BY DEF SInv, ColumnsType, QueryType
<1>2. /\ Len(query.plan) \in Nat
      /\ \A i \in 1 .. Len(query.plan) :
           query.plan[i] \in Figure /\ (query.plan[i] = "lifetime" => i = Len(query.plan))
      /\ \A i, j \in 1 .. Len(query.plan) : i # j => query.plan[i] # query.plan[j]
  BY <1>1, PlanShape
<1>3. query.done < Len(query.plan) /\ UNCHANGED <<rows, now, times>>
      /\ query' = [query EXCEPT !.done = n, !.got[f] = S]
  BY DEF ReadFigure
<1>4. n \in 1 .. Len(query.plan) /\ f \in Figure
  BY <1>1, <1>2, <1>3
<1>5. S \subseteq Task
  BY <1>4, StatementFinds
<1>6. \A t \in S : /\ status[t] # "ABSENT"
                   /\ f \in OverCompleted => status[t] = "COMPLETED" /\ ~deleted[t]
                   /\ f \in CompletedFigure => Within(completed[t], query.from, query.to)
  BY <1>4, StatementFinds
<1> HIDE DEF f, n, S
<1>7. /\ query'.op = query.op /\ query'.from = query.from /\ query'.to = query.to
      /\ query'.plan = query.plan /\ query'.done = n
      /\ query'.got = [query.got EXCEPT ![f] = S]
  BY <1>1, <1>3 DEF QueryType
<1>8. query'.got \in [Figure -> SUBSET Task]
  BY <1>1, <1>4, <1>5, <1>7
<1>9. query' \in QueryType
  <2>1. n \in Nat
    BY <1>4
  <2>2. query' = [op |-> query.op, from |-> query.from, to |-> query.to, plan |-> query.plan,
                  done |-> n, got |-> [query.got EXCEPT ![f] = S]]
    BY <1>1, <1>3 DEF QueryType
  <2>3. [query.got EXCEPT ![f] = S] \in [Figure -> SUBSET Task]
    BY <1>7, <1>8
  <2> QED  BY <1>1, <2>1, <2>2, <2>3 DEF QueryType
<1>10. TypeOK' /\ ColumnsType'
  <2>1. query'.done \in 0 .. Len(query'.plan)
    BY <1>2, <1>4, <1>7
  <2> QED  BY <1>3, <1>8, <1>9, <2>1 DEF SInv, TypeOK, ColumnsType, rows, times
<1>11. \A g \in Figure : query'.got[g] = IF g = f THEN S ELSE query.got[g]
  BY <1>1, <1>7
<1>12. Collected'
  <2> SUFFICES ASSUME NEW g \in Figure, NEW t \in query'.got[g]
               PROVE  /\ status[t] # "ABSENT"
                      /\ g \in OverCompleted => status[t] = "COMPLETED" /\ ~deleted[t]
                      /\ g \in CompletedFigure => Within(completed[t], query.from, query.to)
    BY <1>3, <1>7 DEF Collected, Within, rows, times
  <2>1. CASE g = f
    BY <1>6, <1>11, <2>1
  <2>2. CASE g # f
    <3>1. t \in query.got[g]
      BY <1>11, <2>2
    <3> QED  BY <3>1 DEF SInv, Collected
  <2> QED  BY <2>1, <2>2
<1>13. FiguresLoseOnlyReversed'
  <2> SUFFICES ASSUME NEW i \in 1 .. n, NEW j \in 1 .. n, i < j,
                      query.plan[i] \in OverCompleted, query.plan[j] \in OverCompleted,
                      NEW t \in query'.got[query.plan[i]] \ query'.got[query.plan[j]]
               PROVE  reversal[t] # "NONE"
                        \/ (query.plan[j] = "income" /\ payment[t] \in {"NONE", "WAIVED"})
    BY <1>3, <1>7 DEF FiguresLoseOnlyReversed, rows
  <2>1. i \in 1 .. Len(query.plan) /\ j \in 1 .. Len(query.plan) /\ i # n /\ i # Len(query.plan)
    BY <1>2, <1>4
  <2>2. query.plan[i] \in Figure /\ query.plan[j] \in Figure
    BY <1>2, <2>1
  <2>3. query.plan[i] # f
    BY <1>2, <1>4, <2>1 DEF f
  <2>4. t \in query.got[query.plan[i]]
    BY <1>11, <2>2, <2>3
  <2>5. CASE j = n
    <3>1. query.plan[j] = f /\ t \notin Statement(query.plan[j], query.from, query.to)
      BY <1>11, <2>2, <2>5 DEF f, S
    <3>2. query.plan[i] \in CompletedFigure
      BY <1>2, <2>1 DEF CompletedFigure
    <3> QED  BY <2>4, <3>1, <3>2, FindsAgain
  <2>6. CASE j # n
    <3>1. query.plan[j] # f
      BY <1>2, <1>4, <2>1, <2>6 DEF f
    <3>2. t \notin query.got[query.plan[j]]
      BY <1>11, <2>2, <3>1
    <3>3. i \in 1 .. query.done /\ j \in 1 .. query.done
      BY <1>1, <1>4, <2>6 DEF n
    <3> QED  BY <2>4, <3>2, <3>3 DEF SInv, FiguresLoseOnlyReversed
  <2> QED  BY <2>5, <2>6
<1> QED
  BY <1>10, <1>12, <1>13 DEF SInv
-----------------------------------------------------------------------------
LEMMA StepHolds == SInv /\ LP!IndInv /\ LP!TypeOK' /\ [Next]_vars => SInv'
<1> SUFFICES ASSUME SInv, LP!IndInv, LP!TypeOK', [Next]_vars PROVE SInv'
  OBVIOUS
<1>1. CASE UNCHANGED vars
  <2>1. now' \in Instant
    BY <1>1 DEF vars, SInv, TypeOK
  <2> QED  BY <1>1, <2>1, ClockHolds DEF vars
<1>2. CASE Tick
  <2>1. now' \in Instant
    BY <1>2, CalendarAssumption DEF Tick, SInv, TypeOK, Instant
  <2> QED  BY <1>2, <2>1, ClockHolds DEF Tick
<1>3. now \in Int /\ DayOf(now) \in Int
  <2>1. now \in Int
    BY CalendarAssumption DEF SInv, TypeOK, Instant
  <2> QED  BY <2>1, DayBegun
<1>4. \A d \in Int : DayStart(d) \in Int /\ MonthStart(d) \in Int
  BY CalendarAssumption DEF DayStart, MonthStart
<1>5. CASE AskDashboard
  <2>1. /\ Ask("dashboard", DayStart(DayOf(now)), DayStart(DayOf(now) + 1), DashboardPlan)
        /\ DashboardPlan \in Plans
    BY <1>5 DEF AskDashboard, DashboardPlan, Plans
  <2>2. DayStart(DayOf(now)) \in Int /\ DayStart(DayOf(now) + 1) \in Int
    BY <1>3, <1>4
  <2> QED  BY <2>1, <2>2, AskHolds
<1>6. CASE AskDaily
  <2>1. PICK d \in Days : Ask("daily", DayStart(d), DayStart(d + 1), ReportPlan)
    BY <1>6 DEF AskDaily
  <2>2. d \in Int /\ ReportPlan \in Plans
    BY CalendarAssumption, DayBegun DEF Days, Plans
  <2>3. DayStart(d) \in Int /\ DayStart(d + 1) \in Int
    BY <1>4, <2>2
  <2> QED  BY <2>1, <2>2, <2>3, AskHolds
<1>7. CASE AskMonthly
  <2>1. PICK m \in Months : Ask("monthly", MonthStart(m), MonthStart(m + 1), ReportPlan)
    BY <1>7 DEF AskMonthly
  <2>2. m \in Int /\ ReportPlan \in Plans
    BY CalendarAssumption, DayBegun DEF Months, Plans
  <2>3. MonthStart(m) \in Int /\ MonthStart(m + 1) \in Int
    BY <1>4, <2>2
  <2> QED  BY <2>1, <2>2, <2>3, AskHolds
<1>8. CASE AskSummary
  <2>1. /\ Ask("summary", DayStart(DayOf(now)), DayStart(DayOf(now) + 1), SummaryPlan)
        /\ SummaryPlan \in Plans
    BY <1>8 DEF AskSummary, SummaryPlan, Plans
  <2>2. DayStart(DayOf(now)) \in Int /\ DayStart(DayOf(now) + 1) \in Int
    BY <1>3, <1>4
  <2> QED  BY <2>1, <2>2, AskHolds
<1>9. CASE ReadFigure
  BY <1>9, ReadHolds
<1>10. CASE Answer
  BY <1>10, AnswerHolds
<1>11. ASSUME NEW t \in Task, Transaction(t) PROVE SInv'
  BY <1>11, TransactionHolds
<1> QED
  BY <1>1, <1>2, <1>5, <1>6, <1>7, <1>8, <1>9, <1>10, <1>11 DEF Next

(* The invariant, beside the ledger's own.                                 *)
THEOREM Inductive == Spec => [](SInv /\ LP!IndInv)
<1>1. Init => SInv
  BY InitHolds
<1>2. SInv /\ LP!IndInv /\ LP!IndInv' /\ [Next]_vars => SInv'
  BY StepHolds DEF LP!IndInv
<1>3. Spec => []LP!IndInv
  BY LedgerHolds
<1> QED
  BY <1>1, <1>2, <1>3, PTL DEF Spec

(* Rows, times and the answer being computed have their types; a time is   *)
(* there exactly when its row's status says so.                            *)
THEOREM TypeCorrect == Spec => []TypeOK
BY Inductive, PTL DEF SInv

(* Within one answer of DashboardService, ReportService or                 *)
(* AnalyticsService, a later figure leaves out a task that an earlier one  *)
(* counted only because it was reversed meanwhile, or has no income.       *)
THEOREM FiguresAgree == Spec => []FiguresLoseOnlyReversed
BY Inductive, PTL DEF SInv

(* Daily and monthly reports cut the completed tasks and the fees into     *)
(* disjoint and complete days, whatever the length of the day, its shift   *)
(* against UTC and the length of a month.                                  *)
THEOREM ReportsAddUp == Spec => []ReportsPartition
<1>1. SInv => ReportsPartition
  BY Partition DEF SInv
<1> QED
  BY <1>1, Inductive, PTL

(* Every task an answer has counted is still exported and found, and a     *)
(* completed one still listed, when the answer is given.                   *)
THEOREM FiguresTraceable == Spec => []FiguresAreTraceable
<1>1. SInv => FiguresAreTraceable
  <2> SUFFICES ASSUME SInv, NEW f \in Figure, NEW t \in query.got[f]
               PROVE  Exported(t) /\ Findable(t) /\ (f \in OverCompleted => Listed(t))
    BY DEF FiguresAreTraceable
  <2> QED  BY DEF SInv, Collected, Exported, Findable, Listed
<1> QED
  BY <1>1, Inductive, PTL

(* Readings alternate as the ledger says, so the first reading above the   *)
(* limit, if there is one, is the first GROSS.                             *)
LEMMA FirstOverloadIsGross ==
  ASSUME NEW r \in Seq(LP!ReadingType), NEW limit \in Nat,
         \A i \in 1 .. Len(r) : r[i].kind = LP!KindAt(i),
         \A i \in 1 .. Len(r) : 2 <= i /\ i < Len(r) => r[i].weight > limit
  PROVE  LET over == {i \in 1 .. Len(r) : r[i].kind \in {"GROSS", "REWEIGH"} /\ r[i].weight > limit}
         IN (IF over = {} THEN 0 ELSE CHOOSE i \in over : \A j \in over : i <= j)
              = IF Len(r) >= 2 /\ r[2].weight > limit THEN 2 ELSE 0
<1> DEFINE over == {i \in 1 .. Len(r) : r[i].kind \in {"GROSS", "REWEIGH"} /\ r[i].weight > limit}
           first == CHOOSE i \in over : \A j \in over : i <= j
<1>1. Len(r) \in Nat
  OBVIOUS
<1>2. \A i \in over : i \in 2 .. Len(r) /\ r[i].weight > limit
  <2> SUFFICES ASSUME NEW i \in over PROVE i \in 2 .. Len(r) /\ r[i].weight > limit
    OBVIOUS
  <2>1. i \in 1 .. Len(r) /\ LP!KindAt(i) \in {"GROSS", "REWEIGH"} /\ r[i].weight > limit
    OBVIOUS
  <2>2. i # 1
    BY <2>1 DEF LP!KindAt
  <2> QED  BY <1>1, <2>1, <2>2
<1>3. Len(r) >= 2 /\ r[2].weight > limit => 2 \in over
  <2> SUFFICES ASSUME Len(r) >= 2, r[2].weight > limit PROVE 2 \in over
    OBVIOUS
  <2>1. 2 \in 1 .. Len(r)
    BY <1>1
  <2>2. r[2].kind = "GROSS"
    BY <2>1 DEF LP!KindAt
  <2> QED  BY <2>1, <2>2
<1>4. over # {} => Len(r) >= 2 /\ r[2].weight > limit
  <2> SUFFICES ASSUME NEW i \in over PROVE Len(r) >= 2 /\ r[2].weight > limit
    OBVIOUS
  <2>1. i \in 2 .. Len(r) /\ r[i].weight > limit
    BY <1>2
  <2>2. 2 \in 1 .. Len(r) /\ Len(r) >= 2
    BY <1>1, <2>1
  <2>3. CASE i = 2
    BY <2>1, <2>2, <2>3
  <2>4. CASE i # 2
    <3>1. 2 <= 2 /\ 2 < Len(r)
      BY <1>1, <2>1, <2>4
    <3> QED  BY <2>2, <3>1
  <2> QED  BY <2>3, <2>4
<1> HIDE DEF over
<1>5. CASE over = {}
  BY <1>3, <1>5 DEF over
<1>6. CASE over # {}
  <2>1. 2 \in over /\ \A j \in over : 2 <= j
    BY <1>1, <1>2, <1>3, <1>4, <1>6
  <2>2. first \in over /\ \A j \in over : first <= j
    BY <2>1
  <2>3. first \in Int
    BY <1>1, <1>2, <2>2
  <2>4. first = 2
    BY <2>1, <2>2, <2>3
  <2> QED  BY <1>4, <1>6, <2>4 DEF over
<1> QED
  BY <1>5, <1>6

LEMMA OverloadStays ==
  ASSUME SInv, LP!IndInv, LP!IndInv', [Next]_vars, NEW t \in Task, FirstOverload(t) # 0
  PROVE  FirstOverload(t)' = FirstOverload(t) /\ OverloadTime(t)' = OverloadTime(t)
<1>1. CASE UNCHANGED <<rows, times>>
  BY <1>1 DEF rows, times, FirstOverload, OverloadTime
<1>2. ASSUME NEW u \in Task, Transaction(u)
      PROVE  FirstOverload(t)' = FirstOverload(t) /\ OverloadTime(t)' = OverloadTime(t)
  <2>1. LP!TaskStep(u)
    BY <1>2, SameTaskStep DEF Transaction
  <2>2. /\ LP!TypeOK /\ LP!TypeOK' /\ LP!Good(t) /\ LP!Good(t)'
    BY DEF LP!IndInv
  <2>3. /\ readings[t] \in Seq(LP!ReadingType) /\ allowed[t] \in Nat
        /\ readings'[t] \in Seq(LP!ReadingType) /\ allowed'[t] \in Nat
    BY <2>2 DEF LP!TypeOK
  <2>4. /\ \A i \in 1 .. Len(readings[t]) : readings[t][i].kind = LP!KindAt(i)
        /\ \A i \in 1 .. Len(readings[t]) :
             2 <= i /\ i < Len(readings[t]) => readings[t][i].weight > allowed[t]
        /\ \A i \in 1 .. Len(readings'[t]) : readings'[t][i].kind = LP!KindAt(i)
        /\ \A i \in 1 .. Len(readings'[t]) :
             2 <= i /\ i < Len(readings'[t]) => readings'[t][i].weight > allowed'[t]
    BY <2>2 DEF LP!Good, LP!HistoryOf
  <2>5. FirstOverload(t) = IF Len(readings[t]) >= 2 /\ readings[t][2].weight > allowed[t] THEN 2 ELSE 0
    BY <2>3, <2>4, FirstOverloadIsGross DEF FirstOverload
  <2>6. FirstOverload(t)' = IF Len(readings'[t]) >= 2 /\ readings'[t][2].weight > allowed'[t] THEN 2 ELSE 0
    BY <2>3, <2>4, FirstOverloadIsGross DEF FirstOverload
  <2>7. FirstOverload(t) = 2 /\ Len(readings[t]) >= 2 /\ readings[t][2].weight > allowed[t]
    BY <2>5
  <2>8. /\ readings'[t] # readings[t] =>
              /\ Len(readings'[t]) = Len(readings[t]) + 1
              /\ \A i \in 1 .. Len(readings[t]) : readings'[t][i] = readings[t][i]
        /\ status[t] # "ABSENT" => allowed'[t] = allowed[t]
    BY <2>1, ReadingsGrow
  <2>9. Len(readings[t]) \in Nat /\ 2 \in 1 .. Len(readings[t])
    BY <2>3, <2>7
  <2>10. allowed'[t] = allowed[t]
    <3>1. status[t] # "ABSENT"
      BY <2>2, <2>7 DEF LP!Good, LP!SummaryOf
    <3> QED  BY <2>8, <3>1
  <2>11. Len(readings'[t]) >= 2 /\ readings'[t][2] = readings[t][2]
    BY <2>7, <2>8, <2>9
  <2>12. FirstOverload(t)' = 2
    BY <2>6, <2>7, <2>10, <2>11
  <2>13. recorded'[t][2] = recorded[t][2]
    <3>1. /\ readings'[t] = readings[t] => recorded'[t] = recorded[t]
          /\ readings'[t] # readings[t] => recorded'[t] = Append(recorded[t], now)
      BY <1>2, <2>2, TransactionTimes
    <3>2. recorded[t] \in Seq(Instant) /\ Len(recorded[t]) = Len(readings[t])
      BY DEF SInv, TypeOK
    <3>3. 2 \in 1 .. Len(recorded[t])
      BY <2>9, <3>2
    <3>4. Append(recorded[t], now)[2] = recorded[t][2]
      BY <3>2, <3>3
    <3> QED  BY <3>1, <3>4
  <2>14. OverloadTime(t) = recorded[t][2]
    BY <2>7 DEF OverloadTime
  <2>15. OverloadTime(t)' = recorded'[t][2]
    BY <2>12 DEF OverloadTime
  <2> QED  BY <2>7, <2>12, <2>13, <2>14, <2>15
<1> QED
  BY <1>1, <1>2
     DEF Next, vars, Tick, AskDashboard, AskDaily, AskMonthly, AskSummary, Ask, ReadFigure, Answer

(* AnalyticsService counts an overweight event by the first reading above  *)
(* the limit: no transaction ever moves the event to another reading or    *)
(* day.                                                                    *)
THEOREM OverweightFixed == Spec => OverweightEventFixed
<1>1. SInv /\ LP!IndInv /\ LP!IndInv' /\ [Next]_vars =>
        [\A t \in Task : FirstOverload(t) # 0 =>
           FirstOverload(t)' = FirstOverload(t) /\ OverloadTime(t)' = OverloadTime(t)]_<<rows, times>>
  BY OverloadStays
<1>2. Spec => [](SInv /\ LP!IndInv)
  BY Inductive
<1> QED
  BY <1>1, <1>2, PTL DEF Spec, OverweightEventFixed
=============================================================================
