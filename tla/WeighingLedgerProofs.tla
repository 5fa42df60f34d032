------------------------ MODULE WeighingLedgerProofs ------------------------
(***************************************************************************)
(* The safety properties of WeighingLedger for every set of tasks, every   *)
(* set of weights and limits and every bound on the number of readings.    *)
(*                                                                         *)
(* Each operation works on one task.  So the inductive invariant is stated *)
(* task by task (Good(t)), a step leaves the Good of every other task as   *)
(* it was (OtherTasks), and one lemma per operation deals with the task    *)
(* the operation is about.                                                 *)
(***************************************************************************)
EXTENDS WeighingLedger, TLAPS

-----------------------------------------------------------------------------
(* Rounding.                                                               *)

(* quantize_tons returns a whole number of ticks, and of a weight that is  *)
(* not negative one that is not negative either.                           *)
LEMMA QuantizeType ==
  /\ \A raw \in Int : QuantizeTons(raw) \in Int
  /\ \A raw \in Nat : QuantizeTons(raw) \in Nat
BY DEF QuantizeTons, RawPerTick

(* A stored weight, quantized again by calculate_weight, is unchanged.     *)
LEMMA QuantizeStored ==
  \A ticks \in Nat : QuantizeTons(RawOf(ticks)) = ticks
BY DEF QuantizeTons, RawPerTick, RawOf

(* quantize_tons (domain/weighing.py:13) moves no weight by more than half *)
(* a tick, and never changes the order of two weights, so a heavier        *)
(* reading is never stored as a lighter one.                               *)
THEOREM QuantizeFaithful ==
  /\ \A raw \in Int : /\ 2 * (RawOf(QuantizeTons(raw)) - raw) <= RawPerTick
                      /\ 2 * (raw - RawOf(QuantizeTons(raw))) <= RawPerTick
  /\ \A a, b \in Int : a <= b => QuantizeTons(a) <= QuantizeTons(b)
BY DEF QuantizeTons, RawPerTick, RawOf

(* calculate_weight on the stored tare and limit and a submitted gross.    *)
LEMMA CalculateStored ==
  ASSUME NEW tareTicks \in Nat, NEW raw, NEW limitTicks \in Nat
  PROVE  /\ Calculable(RawOf(tareTicks), raw, RawOf(limitTicks))
              <=> Weighable(tareTicks, QuantizeTons(raw), limitTicks)
         /\ CalculateWeight(RawOf(tareTicks), raw, RawOf(limitTicks))
              = WeightVerdict(tareTicks, QuantizeTons(raw), limitTicks)
BY QuantizeStored DEF Calculable, CalculateWeight

LEMMA VerdictInType ==
  ASSUME NEW t0 \in Nat, NEW g0 \in Nat, NEW a0 \in Nat
  PROVE  /\ WeightVerdict(t0, g0, a0) \in VerdictType
         /\ WeightVerdict(t0, g0, a0).result = IF g0 <= a0 THEN "NORMAL" ELSE "OVERWEIGHT"
BY DEF WeightVerdict, Parts, IsNormal, VerdictType, Verdicts
-----------------------------------------------------------------------------
(* The type invariant.                                                     *)

LEMMA LoggedType ==
  ASSUME TypeOK, NEW t \in Task, NEW a \in AuditAction
  PROVE  Logged(t, a) \in [Task -> [AuditAction -> Nat]]
BY DEF TypeOK, Logged

(* Appending a reading keeps a sequence of readings.                       *)
LEMMA AppendType ==
  ASSUME TypeOK, NEW t \in Task, NEW kind \in ReadingKind, NEW ticks \in Nat, ticks > 0
  PROVE  [readings EXCEPT ![t] = Append(@, Reading(kind, ticks))]
            \in [Task -> Seq(ReadingType)]
<1>1. Reading(kind, ticks) \in ReadingType
  BY DEF Reading, ReadingType
<1>2. readings \in [Task -> Seq(ReadingType)]
  BY DEF TypeOK
<1>3. Append(readings[t], Reading(kind, ticks)) \in Seq(ReadingType)
  BY <1>1, <1>2
<1> QED
  BY <1>2, <1>3

(* What the history of a legacy task looks like.                           *)
LEMMA PastShape ==
  ASSUME NEW h \in LegacyHistory
  PROVE  /\ h.tare \in Nat \ {0} /\ h.gross \in Nat \ {0} /\ h.allowed \in Nat \ {0}
         /\ h.gross <= h.allowed /\ h.gross > h.tare
         /\ PastVerdict(h) \in VerdictType /\ PastVerdict(h).result = "NORMAL"
         /\ PastReadings(h) \in Seq(ReadingType)
<1>1. /\ Ticks \subseteq Nat
      /\ Limits \subseteq Nat
  BY WeightAssumption, QuantizeType DEF Ticks, Limits
<1>2. /\ h.tare \in Nat /\ h.gross \in Nat /\ h.allowed \in Nat
      /\ h.tare > 0 /\ h.allowed > 0 /\ h.gross > h.tare /\ h.gross <= h.allowed
  BY <1>1 DEF LegacyHistory, Weighable, IsNormal
<1>3. PastVerdict(h) \in VerdictType /\ PastVerdict(h).result = "NORMAL"
  BY <1>2, VerdictInType DEF PastVerdict
<1>4. Reading("TARE", h.tare) \in ReadingType /\ Reading("GROSS", h.gross) \in ReadingType
  BY <1>2 DEF Reading, ReadingType, ReadingKind
<1>5. PastReadings(h) \in Seq(ReadingType)
  BY <1>4 DEF PastReadings
<1> QED
  BY <1>2, <1>3, <1>5

LEMMA InitTypeOK == Init => TypeOK
<1> SUFFICES ASSUME Init PROVE TypeOK
  OBVIOUS
<1>1. PICK history \in [Legacy -> LegacyHistory] : Init!(history)
  BY DEF Init
<1>2. \A t \in Legacy : history[t] \in LegacyHistory
  OBVIOUS
<1>3. Unweighed \in VerdictType
  BY DEF Unweighed, VerdictType, Verdicts
<1>4. /\ status \in [Task -> Status] /\ deleted \in [Task -> BOOLEAN]
      /\ version \in [Task -> Nat]
  BY <1>1 DEF Status
<1>5. allowed \in [Task -> Nat] /\ tare \in [Task -> Nat]
  BY <1>1, <1>2, PastShape
<1>6. verdict \in [Task -> VerdictType]
  BY <1>1, <1>2, <1>3, PastShape
<1>7. readings \in [Task -> Seq(ReadingType)]
  BY <1>1, <1>2, PastShape
<1>8. /\ payment \in [Task -> Payment] /\ reversal \in [Task -> Reversal]
      /\ audit \in [Task -> [AuditAction -> Nat]]
  BY <1>1 DEF Payment, Reversal, NoAudit
<1> QED
  BY <1>4, <1>5, <1>6, <1>7, <1>8 DEF TypeOK

(* What every gross-like reading does, in stored weights: a facade over    *)
(* RecordGrossLike that hides the rounding.                                *)
LEMMA GrossLikeEffect ==
  ASSUME TypeOK, NEW t \in Task, NEW kind \in ReadingKind, NEW raw \in RawWeight,
         RecordGrossLike(t, kind, raw)
  PROVE  \E ticks \in Nat :
           /\ tare[t] > 0 /\ allowed[t] > 0 /\ ticks > tare[t]
           /\ verdict' = [verdict EXCEPT ![t] = WeightVerdict(tare[t], ticks, allowed[t])]
           /\ status' = [status EXCEPT ![t] =
                           IF ticks <= allowed[t] THEN "GROSS_COMPLETED" ELSE "WAIT_GROSS"]
           /\ readings' = [readings EXCEPT ![t] = Append(@, Reading(kind, ticks))]
           /\ version' = [version EXCEPT ![t] = @ + 1]
           /\ audit' = Logged(t, GrossAuditAction(kind))
           /\ UNCHANGED <<deleted, allowed, tare, payment, reversal>>
<1> DEFINE ticks == QuantizeTons(raw)
<1> ticks \in Nat
  BY WeightAssumption, QuantizeType
<1>1. tare[t] \in Nat /\ allowed[t] \in Nat
  BY DEF TypeOK
<1>2. /\ Weighable(tare[t], ticks, allowed[t])
      /\ CalculateWeight(RawOf(tare[t]), raw, RawOf(allowed[t]))
           = WeightVerdict(tare[t], ticks, allowed[t])
  BY <1>1, CalculateStored DEF RecordGrossLike
<1>3. WeightVerdict(tare[t], ticks, allowed[t]).result
        = IF ticks <= allowed[t] THEN "NORMAL" ELSE "OVERWEIGHT"
  BY <1>1, VerdictInType
<1> WITNESS ticks \in Nat
<1> QED
  BY <1>1, <1>2, <1>3
  DEF RecordGrossLike, Weighable, SummaryAfterReading, StatusAfterReading

LEMMA StepTypeOK ==
  ASSUME TypeOK, NEW t \in Task, TaskStep(t)
  PROVE  TypeOK'
<1>1. CASE CreateTask(t)
  <2>1. PICK raw \in RawLimit : CreateTask(t)!(raw)
    BY <1>1 DEF CreateTask
  <2>2. QuantizeTons(raw) \in Nat
    BY WeightAssumption, QuantizeType
  <2>3. audit' \in [Task -> [AuditAction -> Nat]]
    BY <2>1, LoggedType DEF AuditAction
  <2> QED
    BY <2>1, <2>2, <2>3 DEF TypeOK, Status
<1>2. CASE RecordTare(t)
  <2>1. PICK raw \in RawWeight : RecordTare(t)!(raw)
    BY <1>2 DEF RecordTare
  <2>2. QuantizeTons(raw) \in Nat /\ QuantizeTons(raw) > 0
    BY <2>1, WeightAssumption, QuantizeType DEF Storable
  <2>3. audit' \in [Task -> [AuditAction -> Nat]]
    BY <2>1, LoggedType DEF AuditAction
  <2>4. readings' \in [Task -> Seq(ReadingType)]
    BY <2>1, <2>2, AppendType DEF ReadingKind
  <2> QED
    BY <2>1, <2>2, <2>3, <2>4 DEF TypeOK, Status
<1>3. CASE PrepareForGross(t)
  BY <1>3 DEF TypeOK, PrepareForGross, rowVars, Status
<1>4. ASSUME NEW kind \in {"GROSS", "REWEIGH"}, NEW raw \in RawWeight,
             RecordGrossLike(t, kind, raw)
      PROVE  TypeOK'
  <2>1. kind \in ReadingKind /\ GrossAuditAction(kind) \in AuditAction
    BY DEF ReadingKind, GrossAuditAction, AuditAction
  <2>2. PICK ticks \in Nat :
           /\ tare[t] > 0 /\ allowed[t] > 0 /\ ticks > tare[t]
           /\ verdict' = [verdict EXCEPT ![t] = WeightVerdict(tare[t], ticks, allowed[t])]
           /\ status' = [status EXCEPT ![t] =
                           IF ticks <= allowed[t] THEN "GROSS_COMPLETED" ELSE "WAIT_GROSS"]
           /\ readings' = [readings EXCEPT ![t] = Append(@, Reading(kind, ticks))]
           /\ version' = [version EXCEPT ![t] = @ + 1]
           /\ audit' = Logged(t, GrossAuditAction(kind))
           /\ UNCHANGED <<deleted, allowed, tare, payment, reversal>>
    BY <1>4, <2>1, GrossLikeEffect
  <2>3. tare[t] \in Nat /\ allowed[t] \in Nat /\ ticks > 0
    BY <2>2 DEF TypeOK
  <2>4. verdict' \in [Task -> VerdictType]
    BY <2>2, <2>3, VerdictInType DEF TypeOK
  <2>5. readings' \in [Task -> Seq(ReadingType)]
    BY <2>1, <2>2, <2>3, AppendType
  <2>6. audit' \in [Task -> [AuditAction -> Nat]]
    BY <2>1, <2>2, LoggedType
  <2> QED
    BY <2>2, <2>4, <2>5, <2>6 DEF TypeOK, Status
<1>5. CASE RecordGross(t)
  BY <1>4, <1>5 DEF RecordGross
<1>6. CASE RecordReweigh(t)
  BY <1>4, <1>6 DEF RecordReweigh
<1>7. CASE CompleteTask(t)
  <2>1. audit' \in [Task -> [AuditAction -> Nat]]
    BY <1>7, LoggedType DEF CompleteTask, AuditAction
  <2> QED
    BY <1>7, <2>1 DEF TypeOK, CompleteTask, PaymentOnCompletion, rowVars, Status, Payment
<1>8. CASE DeleteTask(t)
  <2>1. audit' \in [Task -> [AuditAction -> Nat]]
    BY <1>8, LoggedType DEF DeleteTask, AuditAction
  <2> QED
    BY <1>8, <2>1 DEF TypeOK, DeleteTask
<1>9. CASE CancelTask(t)
  <2>1. audit' \in [Task -> [AuditAction -> Nat]]
    BY <1>9, LoggedType DEF CancelTask, AuditAction
  <2> QED
    BY <1>9, <2>1 DEF TypeOK, CancelTask, rowVars, Status
<1>10. CASE MarkPaid(t) \/ Waive(t)
  <2>1. audit' \in [Task -> [AuditAction -> Nat]]
    BY <1>10, LoggedType DEF MarkPaid, Waive, TransitionPaymentStatus, AuditAction
  <2> QED
    BY <1>10, <2>1
    DEF TypeOK, MarkPaid, Waive, TransitionPaymentStatus, rowVars, Payment
<1>11. CASE Reverse(t)
  <2>1. audit' \in [Task -> [AuditAction -> Nat]]
    BY <1>11, LoggedType DEF Reverse, AuditAction
  <2>2. PaymentSeen(t) \subseteq Reversal
    BY DEF PaymentSeen, Reversal, TypeOK, Payment
  <2> QED
    BY <1>11, <2>1, <2>2 DEF TypeOK, Reverse, rowVars
<1> QED
  BY <1>1, <1>2, <1>3, <1>5, <1>6, <1>7, <1>8, <1>9, <1>10, <1>11 DEF TaskStep

(* The rows, readings and audit counts keep their shape in every reachable *)
(* state; in particular every stored reading is a positive weight.         *)
THEOREM TypeCorrect == Spec => []TypeOK
<1>1. TypeOK /\ [Next]_vars => TypeOK'
  BY StepTypeOK DEF Next, vars, TypeOK
<1> QED
  BY <1>1, InitTypeOK, PTL DEF Spec
-----------------------------------------------------------------------------
(* The inductive invariant.                                                *)

(* Nothing that belongs to task u changes.                                 *)
Same(u) ==
  /\ status'[u] = status[u] /\ deleted'[u] = deleted[u] /\ allowed'[u] = allowed[u]
  /\ tare'[u] = tare[u] /\ verdict'[u] = verdict[u] /\ readings'[u] = readings[u]
  /\ payment'[u] = payment[u] /\ reversal'[u] = reversal[u] /\ audit'[u] = audit[u]
  /\ version'[u] = version[u]

LEMMA SameKeepsGood ==
  ASSUME NEW u \in Task, Good(u), Same(u)
  PROVE  Good(u)'
<1>1. HistoryOf(u)'
  BY DEF Good, Same, HistoryOf
<1>2. SummaryOf(u)'
  BY DEF Good, Same, SummaryOf
<1>3. BilledOf(u)' /\ DeletedOf(u)' /\ ReversalOf(u)'
  BY DEF Good, Same, BilledOf, DeletedOf, ReversalOf
<1>4. AuditOf(u)'
  BY DEF Good, Same, AuditOf
<1> QED
  BY <1>1, <1>2, <1>3, <1>4 DEF Good, Same

LEMMA LoggedAt ==
  ASSUME TypeOK, NEW t \in Task, NEW a \in AuditAction, audit' = Logged(t, a)
  PROVE  /\ \A u \in Task : u # t => audit'[u] = audit[u]
         /\ \A b \in AuditAction : audit'[t][b] = audit[t][b] + IF b = a THEN 1 ELSE 0
BY DEF TypeOK, Logged

LEMMA OtherTasks ==
  ASSUME TypeOK, NEW t \in Task, TaskStep(t), NEW u \in Task, u # t
  PROVE  Same(u)
<1> USE DEF TypeOK, Same, rowVars, Logged
<1>1. CASE CreateTask(t)
  BY <1>1 DEF CreateTask
<1>2. CASE RecordTare(t)
  BY <1>2 DEF RecordTare
<1>3. CASE PrepareForGross(t)
  BY <1>3 DEF PrepareForGross
<1>4. CASE RecordGross(t)
  BY <1>4 DEF RecordGross, RecordGrossLike
<1>5. CASE RecordReweigh(t)
  BY <1>5 DEF RecordReweigh, RecordGrossLike
<1>6. CASE CompleteTask(t)
  BY <1>6 DEF CompleteTask
<1>7. CASE DeleteTask(t)
  BY <1>7 DEF DeleteTask
<1>8. CASE CancelTask(t)
  BY <1>8 DEF CancelTask
<1>9. CASE MarkPaid(t) \/ Waive(t)
  BY <1>9 DEF MarkPaid, Waive, TransitionPaymentStatus
<1>10. CASE Reverse(t)
  BY <1>10 DEF Reverse
<1> QED
  BY <1>1, <1>2, <1>3, <1>4, <1>5, <1>6, <1>7, <1>8, <1>9, <1>10 DEF TaskStep

LEMMA InitGood == Init => \A t \in Task : Good(t)
<1> SUFFICES ASSUME Init, NEW t \in Task PROVE Good(t)
  OBVIOUS
<1>1. PICK history \in [Legacy -> LegacyHistory] : Init!(history)
  BY DEF Init
<1>2. audit[t] = [a \in AuditAction |-> 0]
  BY <1>1 DEF NoAudit
<1>3. CASE t \in Legacy
  <2> DEFINE h == history[t]
  <2>1. h \in LegacyHistory
    BY <1>3
  <2> HIDE DEF h
  <2>2. /\ status[t] = "COMPLETED" /\ deleted[t] = FALSE /\ allowed[t] = h.allowed
        /\ tare[t] = h.tare /\ verdict[t] = PastVerdict(h) /\ readings[t] = PastReadings(h)
        /\ payment[t] = "NONE" /\ reversal[t] = "NONE"
    BY <1>1, <1>3 DEF h
  <2>3. /\ Len(readings[t]) = 2
        /\ readings[t][1] = Reading("TARE", h.tare)
        /\ readings[t][2] = Reading("GROSS", h.gross)
    BY <2>2 DEF PastReadings
  <2>4. PastVerdict(h).result = "NORMAL"
    BY <2>1, PastShape
  <2>5. HistoryOf(t)
    BY <2>3 DEF HistoryOf, KindAt, Reading
  <2>6. SummaryOf(t)
    BY <2>2, <2>3, <2>4 DEF SummaryOf, Reading, PastVerdict
  <2>7. AuditOf(t)
    BY <1>2, <1>3, <2>2 DEF AuditOf, Once, AuditAction
  <2> QED
    BY <1>3, <2>2, <2>5, <2>6, <2>7 DEF Good, BilledOf, DeletedOf, ReversalOf
<1>4. CASE t \notin Legacy
  <2>1. /\ status[t] = "ABSENT" /\ deleted[t] = FALSE /\ allowed[t] = 0
        /\ tare[t] = 0 /\ verdict[t] = Unweighed /\ readings[t] = <<>>
        /\ payment[t] = "NONE" /\ reversal[t] = "NONE"
    BY <1>1, <1>4
  <2>2. HistoryOf(t) /\ SummaryOf(t)
    BY <2>1 DEF HistoryOf, SummaryOf, Unweighed
  <2>3. AuditOf(t)
    BY <1>2, <2>1 DEF AuditOf, Once, AuditAction
  <2> QED
    BY <1>4, <2>1, <2>2, <2>3 DEF Good, BilledOf, DeletedOf, ReversalOf
<1> QED
  BY <1>3, <1>4

(* Creating a task: no reading, no fee, one audit row.                     *)
LEMMA CreateGood ==
  ASSUME TypeOK, NEW t \in Task, Good(t), CreateTask(t)
  PROVE  Good(t)'
<1>1. PICK raw \in RawLimit : CreateTask(t)!(raw)
  BY DEF CreateTask
<1>2. /\ status[t] = "ABSENT" /\ status'[t] = "WAIT_TARE" /\ deleted'[t] = deleted[t]
      /\ tare'[t] = tare[t] /\ verdict'[t] = verdict[t] /\ readings'[t] = readings[t]
      /\ payment'[t] = payment[t] /\ reversal'[t] = reversal[t]
  BY <1>1 DEF TypeOK
<1>3. \A b \in AuditAction :
        audit'[t][b] = audit[t][b] + IF b = "WEIGHING_TASK_CREATED" THEN 1 ELSE 0
  BY <1>1, LoggedAt DEF AuditAction
<1>4. Len(readings[t]) = 0
  BY <1>2 DEF Good, SummaryOf
<1>5. HistoryOf(t)' /\ SummaryOf(t)'
  BY <1>2, <1>4 DEF Good, HistoryOf, SummaryOf, TypeOK
<1>6. AuditOf(t)'
  BY <1>2, <1>3, <1>4 DEF Good, AuditOf, Once, AuditAction
<1> QED
  BY <1>2, <1>5, <1>6 DEF Good, BilledOf, DeletedOf, ReversalOf

(* The tare is the first reading, because WAIT_TARE means there is none.   *)
LEMMA TareGood ==
  ASSUME TypeOK, NEW t \in Task, Good(t), RecordTare(t)
  PROVE  Good(t)'
<1>1. PICK raw \in RawWeight : RecordTare(t)!(raw)
  BY DEF RecordTare
<1> DEFINE ticks == QuantizeTons(raw)
<1>2. /\ status[t] = "WAIT_TARE" /\ status'[t] = "TARE_COMPLETED" /\ deleted[t] = FALSE
      /\ deleted'[t] = FALSE /\ allowed'[t] = allowed[t] /\ verdict'[t] = verdict[t]
      /\ tare'[t] = ticks /\ readings'[t] = Append(readings[t], Reading("TARE", ticks))
      /\ payment'[t] = payment[t] /\ reversal'[t] = reversal[t]
  BY <1>1 DEF TypeOK, Live
<1>3. \A b \in AuditAction :
        audit'[t][b] = audit[t][b] + IF b = "TARE_RECORDED" THEN 1 ELSE 0
  BY <1>1, LoggedAt DEF AuditAction
<1>4. readings[t] \in Seq(ReadingType) /\ Len(readings[t]) = 0
  BY <1>2 DEF Good, SummaryOf, TypeOK
<1>5. Len(readings'[t]) = 1 /\ readings'[t][1] = Reading("TARE", ticks)
  BY <1>2, <1>4
<1> HIDE DEF ticks
<1>6. HistoryOf(t)'
  BY <1>5 DEF HistoryOf, KindAt, Reading
<1>7. SummaryOf(t)'
  BY <1>2, <1>4, <1>5 DEF Good, SummaryOf, Reading
<1>8. AuditOf(t)'
  BY <1>2, <1>3, <1>4, <1>5 DEF Good, AuditOf, Once, AuditAction
<1> QED
  BY <1>2, <1>6, <1>7, <1>8 DEF Good, BilledOf, DeletedOf, ReversalOf

LEMMA PrepareGood ==
  ASSUME TypeOK, NEW t \in Task, Good(t), PrepareForGross(t)
  PROVE  Good(t)'
<1>1. /\ status[t] = "TARE_COMPLETED" /\ status'[t] = "WAIT_GROSS" /\ deleted[t] = FALSE
      /\ deleted'[t] = FALSE /\ allowed'[t] = allowed[t] /\ verdict'[t] = verdict[t]
      /\ tare'[t] = tare[t] /\ readings'[t] = readings[t]
      /\ payment'[t] = payment[t] /\ reversal'[t] = reversal[t] /\ audit'[t] = audit[t]
  BY DEF PrepareForGross, rowVars, TypeOK, Live
<1>2. Len(readings[t]) = 1 /\ verdict[t].result = "PENDING"
  BY <1>1 DEF Good, SummaryOf, Unweighed
<1>3. HistoryOf(t)' /\ SummaryOf(t)'
  BY <1>1, <1>2 DEF Good, HistoryOf, SummaryOf
<1>4. AuditOf(t)'
  BY <1>1 DEF Good, AuditOf
<1> QED
  BY <1>1, <1>3, <1>4 DEF Good, BilledOf, DeletedOf, ReversalOf

(* A gross is the second reading; a reweigh comes after the second and     *)
(* after an overweight one.  Either way the new reading is the summary.    *)
LEMMA GrossLikeGood ==
  ASSUME TypeOK, NEW t \in Task, Good(t), Live(t), status[t] = "WAIT_GROSS",
         NEW kind \in {"GROSS", "REWEIGH"}, NEW raw \in RawWeight,
         RecordGrossLike(t, kind, raw),
         IF kind = "GROSS" THEN verdict[t].result = "PENDING"
                           ELSE verdict[t].result = "OVERWEIGHT"
  PROVE  Good(t)'
<1>1. kind \in ReadingKind /\ GrossAuditAction(kind) \in AuditAction
  BY DEF ReadingKind, GrossAuditAction, AuditAction
<1>2. PICK ticks \in Nat :
           /\ tare[t] > 0 /\ allowed[t] > 0 /\ ticks > tare[t]
           /\ verdict' = [verdict EXCEPT ![t] = WeightVerdict(tare[t], ticks, allowed[t])]
           /\ status' = [status EXCEPT ![t] =
                           IF ticks <= allowed[t] THEN "GROSS_COMPLETED" ELSE "WAIT_GROSS"]
           /\ readings' = [readings EXCEPT ![t] = Append(@, Reading(kind, ticks))]
           /\ version' = [version EXCEPT ![t] = @ + 1]
           /\ audit' = Logged(t, GrossAuditAction(kind))
           /\ UNCHANGED <<deleted, allowed, tare, payment, reversal>>
  BY <1>1, GrossLikeEffect
<1> DEFINE n == Len(readings[t])
<1>3. readings[t] \in Seq(ReadingType) /\ n \in Nat /\ tare[t] \in Nat /\ allowed[t] \in Nat
  BY DEF TypeOK
<1>4. /\ readings'[t] = Append(readings[t], Reading(kind, ticks))
      /\ tare'[t] = tare[t] /\ allowed'[t] = allowed[t]
      /\ verdict'[t] = WeightVerdict(tare[t], ticks, allowed[t])
      /\ status'[t] = IF ticks <= allowed[t] THEN "GROSS_COMPLETED" ELSE "WAIT_GROSS"
      /\ deleted'[t] = FALSE /\ payment'[t] = payment[t] /\ reversal'[t] = reversal[t]
  BY <1>2 DEF TypeOK, Live
<1>5. /\ Len(readings'[t]) = n + 1
      /\ readings'[t][n + 1] = Reading(kind, ticks)
      /\ \A i \in 1 .. n : readings'[t][i] = readings[t][i]
  BY <1>3, <1>4
<1> HIDE DEF n
<1>6. \A b \in AuditAction :
        audit'[t][b] = audit[t][b] + IF b = GrossAuditAction(kind) THEN 1 ELSE 0
  BY <1>1, <1>2, LoggedAt
<1>7. WeightVerdict(tare[t], ticks, allowed[t]).result
        = IF ticks <= allowed[t] THEN "NORMAL" ELSE "OVERWEIGHT"
  BY <1>3, VerdictInType
<1>8. n >= 1 /\ tare[t] = readings[t][1].weight
  BY <1>3 DEF Good, SummaryOf, n
<1>9. n >= 2 => /\ readings[t][n].weight \in Nat
                /\ verdict[t].result
                     = IF readings[t][n].weight <= allowed[t] THEN "NORMAL" ELSE "OVERWEIGHT"
  <2> SUFFICES ASSUME n >= 2
               PROVE  /\ readings[t][n].weight \in Nat
                      /\ verdict[t].result
                           = IF readings[t][n].weight <= allowed[t] THEN "NORMAL" ELSE "OVERWEIGHT"
    OBVIOUS
  <2>1. readings[t][n] \in ReadingType /\ readings[t][1] \in ReadingType
    BY <1>3 DEF n
  <2>2. readings[t][n].weight \in Nat /\ readings[t][1].weight \in Nat
    BY <2>1 DEF ReadingType
  <2>3. verdict[t] = WeightVerdict(readings[t][1].weight, readings[t][n].weight, allowed[t])
    BY <1>3 DEF Good, SummaryOf, n
  <2>4. WeightVerdict(readings[t][1].weight, readings[t][n].weight, allowed[t]).result
          = IF readings[t][n].weight <= allowed[t] THEN "NORMAL" ELSE "OVERWEIGHT"
    <3> DEFINE first == readings[t][1].weight
               last == readings[t][n].weight
               limit == allowed[t]
    <3>1. first \in Nat /\ last \in Nat /\ limit \in Nat
      BY <1>3, <2>2
    <3> HIDE DEF first, last, limit
    <3>2. WeightVerdict(first, last, limit).result
            = IF last <= limit THEN "NORMAL" ELSE "OVERWEIGHT"
      BY <3>1, VerdictInType
    <3> QED
      BY <3>2 DEF first, last, limit
  <2> QED
    BY <2>2, <2>3, <2>4
<1>10. IF kind = "GROSS" THEN n = 1 ELSE n >= 2 /\ readings[t][n].weight > allowed[t]
  <2>1. n < 2 => verdict[t].result = "PENDING"
    BY <1>3 DEF Good, SummaryOf, Unweighed, n
  <2>2. CASE kind = "GROSS"
    <3>1. verdict[t].result = "PENDING"
      BY <2>2
    <3>2. ~(n >= 2)
      BY <1>9, <3>1
    <3> QED
      BY <1>3, <1>8, <2>2, <3>2
  <2>3. CASE kind = "REWEIGH"
    <3>1. verdict[t].result = "OVERWEIGHT"
      BY <2>3
    <3>2. n >= 2
      BY <1>3, <2>1, <3>1
    <3> QED
      BY <1>3, <1>9, <2>3, <3>1, <3>2
  <2> QED
    BY <2>2, <2>3
<1>11. HistoryOf(t)'
  <2>1. \A i \in 1 .. n : readings[t][i].kind = KindAt(i)
    BY DEF Good, HistoryOf, n
  <2>2. \A i \in 1 .. n : (2 <= i /\ i < n) => readings[t][i].weight > allowed[t]
    BY DEF Good, HistoryOf, n
  <2>3. Reading(kind, ticks).kind = KindAt(n + 1)
    BY <1>3, <1>10 DEF Reading, KindAt
  <2>4. \A i \in 1 .. n + 1 : readings'[t][i].kind = KindAt(i)
    BY <1>3, <1>5, <2>1, <2>3
  <2>5. \A i \in 1 .. n + 1 : (2 <= i /\ i < n + 1) => readings'[t][i].weight > allowed'[t]
    BY <1>3, <1>4, <1>5, <1>10, <2>2
  <2> QED
    BY <1>5, <2>4, <2>5 DEF HistoryOf
<1>12. SummaryOf(t)'
  <2>1. /\ Len(readings'[t]) >= 2 /\ readings'[t][1].weight = tare[t]
        /\ readings'[t][Len(readings'[t])].weight = ticks
    BY <1>3, <1>5, <1>8 DEF Reading
  <2> QED
    BY <1>3, <1>4, <1>5, <1>7, <1>8, <2>1 DEF SummaryOf
<1>13. t \notin Legacy
  BY DEF Good
<1>14. AuditOf(t)'
  <2>1. /\ audit[t]["TARE_RECORDED"] = 1
        /\ audit[t]["GROSS_RECORDED"] = IF n >= 2 THEN 1 ELSE 0
        /\ audit[t]["REWEIGH_RECORDED"] = IF n >= 2 THEN n - 2 ELSE 0
    BY <1>8, <1>13 DEF Good, AuditOf, Once, n
  <2>2. /\ audit'[t]["TARE_RECORDED"] = 1
        /\ audit'[t]["GROSS_RECORDED"] = 1
        /\ audit'[t]["REWEIGH_RECORDED"] = n - 1
    BY <1>3, <1>6, <1>10, <2>1 DEF AuditAction, GrossAuditAction
  <2>3. \A b \in AuditAction \ {"GROSS_RECORDED", "REWEIGH_RECORDED"} :
          audit'[t][b] = audit[t][b]
    <3>1. \A b \in AuditAction \ {"GROSS_RECORDED", "REWEIGH_RECORDED"} :
            audit[t][b] \in Nat /\ b # GrossAuditAction(kind)
      BY DEF TypeOK, GrossAuditAction
    <3> QED
      BY <1>6, <3>1
  <2>4. /\ Len(readings'[t]) >= 2 /\ Len(readings'[t]) - 2 = n - 1
    BY <1>3, <1>5, <1>8
  <2>5. /\ status[t] \notin {"ABSENT", "COMPLETED", "CANCELLED"} /\ deleted[t] = FALSE
        /\ status'[t] \notin {"ABSENT", "COMPLETED", "CANCELLED"}
    BY <1>4 DEF Live, TypeOK
  <2> QED
    BY <1>4, <1>13, <2>2, <2>3, <2>4, <2>5 DEF Good, AuditOf, Once, AuditAction
<1> QED
  BY <1>4, <1>11, <1>12, <1>13, <1>14 DEF Good, BilledOf, DeletedOf, ReversalOf

(* A change of a task's end or of its fee leaves one audit row.            *)
LEMMA LoggedOnce ==
  ASSUME TypeOK, NEW t \in Task, NEW a \in AuditAction, audit' = Logged(t, a),
         audit[t][a] = 0
  PROVE  /\ audit'[t][a] = 1
         /\ \A b \in AuditAction \ {a} : audit'[t][b] = audit[t][b]
<1>1. audit \in [Task -> [AuditAction -> Nat]]
  BY DEF TypeOK
<1> QED
  BY <1>1 DEF Logged

(* Completing needs a NORMAL verdict and brings the fee into being.        *)
LEMMA CompleteGood ==
  ASSUME TypeOK, NEW t \in Task, Good(t), CompleteTask(t)
  PROVE  Good(t)'
<1>1. /\ status[t] = "GROSS_COMPLETED" /\ status'[t] = "COMPLETED" /\ deleted[t] = FALSE
      /\ verdict[t].result = "NORMAL"
      /\ deleted'[t] = deleted[t] /\ allowed'[t] = allowed[t] /\ verdict'[t] = verdict[t]
      /\ tare'[t] = tare[t] /\ readings'[t] = readings[t] /\ reversal'[t] = reversal[t]
      /\ payment'[t] = PaymentOnCompletion(t)
  BY DEF CompleteTask, rowVars, TypeOK, Live
<1>2. t \notin Legacy /\ payment[t] = "NONE" /\ reversal[t] = "NONE"
  BY <1>1 DEF Good, BilledOf, ReversalOf
<1>3. payment'[t] = "UNPAID"
  BY <1>1, <1>2 DEF PaymentOnCompletion
<1>4. audit[t]["WEIGHING_TASK_COMPLETED"] = 0
  BY <1>1 DEF Good, AuditOf, Once
<1>5. HistoryOf(t)' /\ SummaryOf(t)'
  BY <1>1 DEF Good, HistoryOf, SummaryOf
<1>6. AuditOf(t)'
  <2>1. "WEIGHING_TASK_COMPLETED" \in AuditAction /\ audit' = Logged(t, "WEIGHING_TASK_COMPLETED")
    BY DEF AuditAction, CompleteTask
  <2>2. /\ audit'[t]["WEIGHING_TASK_COMPLETED"] = 1
        /\ \A b \in AuditAction \ {"WEIGHING_TASK_COMPLETED"} : audit'[t][b] = audit[t][b]
    BY <1>4, <2>1, LoggedOnce
  <2> QED
    BY <1>1, <1>2, <1>3, <2>2 DEF Good, AuditOf, Once, AuditAction
<1> QED
  BY <1>1, <1>2, <1>3, <1>5, <1>6 DEF Good, BilledOf, DeletedOf, ReversalOf

LEMMA DeleteGood ==
  ASSUME TypeOK, NEW t \in Task, Good(t), DeleteTask(t)
  PROVE  Good(t)'
<1>1. /\ status[t] \in {"WAIT_TARE", "TARE_COMPLETED", "WAIT_GROSS"}
      /\ deleted[t] = FALSE /\ deleted'[t] = TRUE /\ status'[t] = status[t]
      /\ allowed'[t] = allowed[t] /\ verdict'[t] = verdict[t]
      /\ tare'[t] = tare[t] /\ readings'[t] = readings[t]
      /\ payment'[t] = payment[t] /\ reversal'[t] = reversal[t]
  BY DEF DeleteTask, DeletableStatuses, TypeOK, Live
<1>2. verdict[t].result # "NORMAL" /\ payment[t] = "NONE" /\ reversal[t] = "NONE"
  BY <1>1 DEF Good, SummaryOf, BilledOf, ReversalOf, Unweighed
<1>3. audit[t]["WEIGHING_TASK_DELETED"] = 0
  BY <1>1 DEF Good, AuditOf, Once
<1>4. HistoryOf(t)' /\ SummaryOf(t)'
  BY <1>1 DEF Good, HistoryOf, SummaryOf
<1>5. AuditOf(t)'
  <2>1. "WEIGHING_TASK_DELETED" \in AuditAction /\ audit' = Logged(t, "WEIGHING_TASK_DELETED")
    BY DEF AuditAction, DeleteTask
  <2>2. /\ audit'[t]["WEIGHING_TASK_DELETED"] = 1
        /\ \A b \in AuditAction \ {"WEIGHING_TASK_DELETED"} : audit'[t][b] = audit[t][b]
    BY <1>3, <2>1, LoggedOnce
  <2> QED
    BY <1>1, <2>2 DEF Good, AuditOf, Once, AuditAction
<1> QED
  BY <1>1, <1>2, <1>4, <1>5 DEF Good, BilledOf, DeletedOf, ReversalOf

LEMMA CancelGood ==
  ASSUME TypeOK, NEW t \in Task, Good(t), CancelTask(t)
  PROVE  Good(t)'
<1>1. /\ status[t] \in CancellableStatuses /\ status'[t] = "CANCELLED" /\ deleted[t] = FALSE
      /\ deleted'[t] = deleted[t] /\ allowed'[t] = allowed[t] /\ verdict'[t] = verdict[t]
      /\ tare'[t] = tare[t] /\ readings'[t] = readings[t]
      /\ payment'[t] = payment[t] /\ reversal'[t] = reversal[t]
  BY DEF CancelTask, rowVars, TypeOK, Live
<1>2. status[t] \notin {"ABSENT", "COMPLETED", "CANCELLED"}
  BY <1>1 DEF CancellableStatuses
<1>3. audit[t]["WEIGHING_TASK_CANCELLED"] = 0
  BY <1>2 DEF Good, AuditOf, Once
<1>4. HistoryOf(t)' /\ SummaryOf(t)'
  BY <1>1, <1>2 DEF Good, HistoryOf, SummaryOf
<1>5. AuditOf(t)'
  <2>1. "WEIGHING_TASK_CANCELLED" \in AuditAction /\ audit' = Logged(t, "WEIGHING_TASK_CANCELLED")
    BY DEF AuditAction, CancelTask
  <2>2. /\ audit'[t]["WEIGHING_TASK_CANCELLED"] = 1
        /\ \A b \in AuditAction \ {"WEIGHING_TASK_CANCELLED"} : audit'[t][b] = audit[t][b]
    BY <1>3, <2>1, LoggedOnce
  <2> QED
    BY <1>1, <1>2, <2>2 DEF Good, AuditOf, Once, AuditAction
<1> QED
  BY <1>1, <1>2, <1>4, <1>5 DEF Good, BilledOf, DeletedOf, ReversalOf

(* Paying or waiving: the fee is UNPAID and there is no reversal.          *)
LEMMA SettleGood ==
  ASSUME TypeOK, NEW t \in Task, Good(t), MarkPaid(t) \/ Waive(t)
  PROVE  Good(t)'
<1>1. /\ payment[t] = "UNPAID" /\ reversal[t] = "NONE" /\ reversal'[t] = "NONE"
      /\ deleted'[t] = deleted[t] /\ status'[t] = status[t]
      /\ allowed'[t] = allowed[t] /\ verdict'[t] = verdict[t]
      /\ tare'[t] = tare[t] /\ readings'[t] = readings[t]
  BY DEF MarkPaid, Waive, TransitionPaymentStatus, Settleable, rowVars
<1>2. payment'[t] = IF MarkPaid(t) THEN "PAID" ELSE "WAIVED"
  BY DEF MarkPaid, Waive, TransitionPaymentStatus, TypeOK
<1>3. audit[t]["BILLING_PAID"] = 0 /\ audit[t]["BILLING_WAIVED"] = 0
  BY <1>1 DEF Good, AuditOf, Once
<1>4. deleted[t] # TRUE
  BY <1>1 DEF Good, DeletedOf
<1>5. HistoryOf(t)' /\ SummaryOf(t)'
  BY <1>1 DEF Good, HistoryOf, SummaryOf
<1>6. AuditOf(t)'
  <2>1. CASE MarkPaid(t)
    <3>1. "BILLING_PAID" \in AuditAction /\ audit' = Logged(t, "BILLING_PAID")
      BY <2>1 DEF AuditAction, MarkPaid, TransitionPaymentStatus
    <3>2. /\ audit'[t]["BILLING_PAID"] = 1
          /\ \A b \in AuditAction \ {"BILLING_PAID"} : audit'[t][b] = audit[t][b]
      BY <1>3, <3>1, LoggedOnce
    <3> QED
      BY <1>1, <1>2, <1>3, <2>1, <3>2 DEF Good, AuditOf, Once, AuditAction
  <2>2. CASE ~MarkPaid(t)
    <3>1. "BILLING_WAIVED" \in AuditAction /\ audit' = Logged(t, "BILLING_WAIVED")
      BY <2>2 DEF AuditAction, Waive, TransitionPaymentStatus
    <3>2. /\ audit'[t]["BILLING_WAIVED"] = 1
          /\ \A b \in AuditAction \ {"BILLING_WAIVED"} : audit'[t][b] = audit[t][b]
      BY <1>3, <3>1, LoggedOnce
    <3> QED
      BY <1>1, <1>2, <1>3, <2>2, <3>2 DEF Good, AuditOf, Once, AuditAction
  <2> QED
    BY <2>1, <2>2
<1> QED
  BY <1>1, <1>2, <1>4, <1>5, <1>6 DEF Good, BilledOf, DeletedOf, ReversalOf

(* Reversing: whatever the unlocked read has seen, it was not PAID, and a  *)
(* WAIVED or missing fee is seen only when the fee is so now.              *)
LEMMA ReverseGood ==
  ASSUME TypeOK, NEW t \in Task, Good(t), Reverse(t)
  PROVE  Good(t)'
<1>1. /\ status[t] = "COMPLETED" /\ deleted[t] = FALSE /\ reversal[t] = "NONE"
      /\ deleted'[t] = deleted[t] /\ status'[t] = status[t]
      /\ allowed'[t] = allowed[t] /\ verdict'[t] = verdict[t]
      /\ tare'[t] = tare[t] /\ readings'[t] = readings[t] /\ payment'[t] = payment[t]
  BY DEF Reverse, Reversible, Live, rowVars, TypeOK
<1>2. reversal'[t] \in PaymentSeen(t) \ {"PAID"}
  BY DEF Reverse, TypeOK
<1>3. payment[t] \in Payment
  BY DEF TypeOK
<1>4. /\ reversal'[t] # "NONE" /\ reversal'[t] # "PAID"
      /\ reversal'[t] = "WAIVED" => payment[t] = "WAIVED"
      /\ reversal'[t] = "NO_BILLING" <=> payment[t] = "NONE"
  BY <1>2, <1>3 DEF PaymentSeen, Payment
<1>5. HistoryOf(t)' /\ SummaryOf(t)'
  BY <1>1 DEF Good, HistoryOf, SummaryOf
<1>6. audit[t]["WEIGHING_REVERSED"] = 0
  BY <1>1 DEF Good, AuditOf, Once
<1>7. AuditOf(t)'
  <2>1. "WEIGHING_REVERSED" \in AuditAction /\ audit' = Logged(t, "WEIGHING_REVERSED")
    BY DEF AuditAction, Reverse
  <2>2. /\ audit'[t]["WEIGHING_REVERSED"] = 1
        /\ \A b \in AuditAction \ {"WEIGHING_REVERSED"} : audit'[t][b] = audit[t][b]
    BY <1>6, <2>1, LoggedOnce
  <2> QED
    BY <1>1, <1>4, <2>2 DEF Good, AuditOf, Once, AuditAction
<1> QED
  BY <1>1, <1>4, <1>5, <1>7 DEF Good, BilledOf, DeletedOf, ReversalOf

LEMMA StepGood ==
  ASSUME IndInv, NEW t \in Task, TaskStep(t)
  PROVE  \A u \in Task : Good(u)'
<1>1. TypeOK /\ Good(t)
  BY DEF IndInv
<1>2. Good(t)'
  <2>1. CASE RecordGross(t)
    <3>1. PICK raw \in RawWeight : RecordGrossLike(t, "GROSS", raw)
      BY <2>1 DEF RecordGross
    <3>2. Live(t) /\ status[t] = "WAIT_GROSS" /\ verdict[t].result = "PENDING"
      BY <2>1 DEF RecordGross, NeverGrossWeighed
    <3> QED
      BY <1>1, <3>1, <3>2, GrossLikeGood
  <2>2. CASE RecordReweigh(t)
    <3>1. PICK raw \in RawWeight : RecordGrossLike(t, "REWEIGH", raw)
      BY <2>2 DEF RecordReweigh
    <3>2. Live(t) /\ status[t] = "WAIT_GROSS" /\ verdict[t].result = "OVERWEIGHT"
      BY <2>2 DEF RecordReweigh, ReweighAllowed
    <3> QED
      BY <1>1, <3>1, <3>2, GrossLikeGood
  <2> QED
    BY <1>1, <2>1, <2>2, CreateGood, TareGood, PrepareGood, CompleteGood, DeleteGood,
       CancelGood, SettleGood, ReverseGood DEF TaskStep
<1>3. ASSUME NEW u \in Task, u # t
      PROVE  Good(u)'
  BY <1>1, <1>3, OtherTasks, SameKeepsGood DEF IndInv
<1> QED
  BY <1>2, <1>3

LEMMA StutterGood ==
  ASSUME IndInv, UNCHANGED vars
  PROVE  IndInv'
<1>1. \A u \in Task : Same(u)
  BY DEF vars, Same
<1>2. \A u \in Task : Good(u)'
  BY <1>1, SameKeepsGood DEF IndInv
<1> QED
  BY <1>2 DEF IndInv, TypeOK, vars

(* Every reachable state is Good for every task.                           *)
THEOREM Inductive == Spec => []IndInv
<1>1. Init => IndInv
  BY InitTypeOK, InitGood DEF IndInv
<1>2. IndInv /\ [Next]_vars => IndInv'
  <2> SUFFICES ASSUME IndInv, [Next]_vars PROVE IndInv'
    OBVIOUS
  <2>1. CASE UNCHANGED vars
    BY <2>1, StutterGood
  <2>2. ASSUME NEW t \in Task, TaskStep(t)
        PROVE  IndInv'
    BY <2>2, StepTypeOK, StepGood DEF IndInv
  <2> QED
    BY <2>1, <2>2 DEF Next
<1> QED
  BY <1>1, <1>2, PTL DEF Spec

(* The parts of the invariant that the runs check one by one.              *)
LEMMA IndInvImplies ==
  IndInv => /\ HistoryWellFormed /\ SummaryMatchesHistory /\ BilledExactlyOnCompletion
            /\ DeletedNeverSettled /\ ReversalJustified /\ AuditExplains
BY DEF IndInv, Good, HistoryWellFormed, SummaryMatchesHistory, BilledExactlyOnCompletion,
       DeletedNeverSettled, ReversalJustified, AuditExplains

(* The readings of a task (record_tare, record_gross, record_reweigh) are  *)
(* one TARE, one GROSS and then REWEIGHs, each after an overweight one.    *)
THEOREM HistoryCorrect == Spec => []HistoryWellFormed
BY Inductive, IndInvImplies, PTL

(* The summary columns that _record_gross_like writes are always the       *)
(* verdict of the newest reading, and the status agrees with them.         *)
THEOREM SummaryCorrect == Spec => []SummaryMatchesHistory
BY Inductive, IndInvImplies, PTL

(* complete_task bills every task it completes, and nothing else is billed. *)
THEOREM BillingCorrect == Spec => []BilledExactlyOnCompletion
BY Inductive, IndInvImplies, PTL

(* delete_task hides no task that was settled or could have been.          *)
THEOREM DeletionSafe == Spec => []DeletedNeverSettled
BY Inductive, IndInvImplies, PTL

(* What reverse stores about the fee is never a payment that was not made. *)
THEOREM ReversalCorrect == Spec => []ReversalJustified
BY Inductive, IndInvImplies, PTL

(* The audit_logs rows of a task account for everything in its rows.       *)
THEOREM AuditCorrect == Spec => []AuditExplains
BY Inductive, IndInvImplies, PTL
-----------------------------------------------------------------------------
(* What no step may do, from the invariant.                                *)

(* Only the settlement of a COMPLETED task still changes.                  *)
LEMMA CompletedKept ==
  ASSUME IndInv, NEW t \in Task, TaskStep(t)
  PROVE  CompletedStep(t)
<1> SUFFICES ASSUME status[t] = "COMPLETED"
             PROVE  /\ status'[t] = status[t] /\ deleted'[t] = deleted[t]
                    /\ allowed'[t] = allowed[t] /\ tare'[t] = tare[t]
                    /\ verdict'[t] = verdict[t] /\ readings'[t] = readings[t]
                    /\ version'[t] = version[t]
  BY DEF CompletedStep
<1>1. MarkPaid(t) \/ Waive(t) \/ Reverse(t)
  BY DEF TaskStep, CreateTask, RecordTare, PrepareForGross, RecordGross, RecordReweigh,
         CompleteTask, DeleteTask, CancelTask, DeletableStatuses, CancellableStatuses
<1> QED
  BY <1>1 DEF MarkPaid, Waive, TransitionPaymentStatus, Reverse, rowVars

(* A fee changes only when it is created, which the invariant shows to     *)
(* precede any reversal, and when it is settled.                           *)
LEMMA PaymentKept ==
  ASSUME IndInv, NEW t \in Task, TaskStep(t)
  PROVE  PaymentStep(t)
<1>1. CASE CompleteTask(t)
  <2>1. payment[t] = "NONE" /\ reversal[t] = "NONE"
    BY <1>1 DEF CompleteTask, IndInv, Good, BilledOf, ReversalOf
  <2>2. payment'[t] = "UNPAID" /\ reversal'[t] = reversal[t]
    BY <1>1, <2>1 DEF CompleteTask, PaymentOnCompletion, IndInv, TypeOK
  <2> QED
    BY <2>1, <2>2 DEF PaymentStep
<1>2. CASE MarkPaid(t) \/ Waive(t)
  <2>1. payment[t] = "UNPAID" /\ reversal[t] = "NONE" /\ reversal'[t] = "NONE"
    BY <1>2 DEF MarkPaid, Waive, TransitionPaymentStatus, Settleable
  <2>2. payment'[t] \in {"PAID", "WAIVED"}
    BY <1>2 DEF MarkPaid, Waive, TransitionPaymentStatus, IndInv, TypeOK
  <2> QED
    BY <2>1, <2>2 DEF PaymentStep
<1>3. CASE ~(CompleteTask(t) \/ MarkPaid(t) \/ Waive(t))
  <2>1. payment' = payment
    BY <1>3 DEF TaskStep, CreateTask, RecordTare, PrepareForGross, RecordGross,
       RecordReweigh, RecordGrossLike, DeleteTask, CancelTask, Reverse
  <2> QED
    BY <2>1 DEF PaymentStep
<1> QED
  BY <1>1, <1>2, <1>3

(* Only the three weighing operations append, and one reading each.        *)
LEMMA ReadingKept ==
  ASSUME IndInv, NEW t \in Task, TaskStep(t)
  PROVE  ReadingStep(t)
<1>1. readings[t] \in Seq(ReadingType)
  BY DEF IndInv, TypeOK
<1>2. ASSUME NEW reading, readings'[t] = Append(readings[t], reading),
             ~deleted[t], status[t] \in {"WAIT_TARE", "WAIT_GROSS"}
      PROVE  ReadingStep(t)
  <2>1. /\ Len(readings'[t]) = Len(readings[t]) + 1
        /\ \A i \in 1 .. Len(readings[t]) : readings'[t][i] = readings[t][i]
    BY <1>1, <1>2
  <2> QED
    BY <1>2, <2>1 DEF ReadingStep
<1>3. CASE RecordTare(t)
  <2>1. PICK raw \in RawWeight : RecordTare(t)!(raw)
    BY <1>3 DEF RecordTare
  <2>2. readings'[t] = Append(readings[t], Reading("TARE", QuantizeTons(raw)))
    BY <2>1 DEF IndInv, TypeOK
  <2> QED
    BY <1>2, <2>1, <2>2 DEF Live
<1>4. ASSUME NEW kind, NEW raw, RecordGrossLike(t, kind, raw), Live(t), status[t] = "WAIT_GROSS"
      PROVE  ReadingStep(t)
  <2>1. readings'[t] = Append(readings[t], Reading(kind, QuantizeTons(raw)))
    BY <1>4 DEF RecordGrossLike, IndInv, TypeOK
  <2> QED
    BY <1>2, <1>4, <2>1 DEF Live
<1>5. CASE RecordGross(t) \/ RecordReweigh(t)
  BY <1>4, <1>5 DEF RecordGross, RecordReweigh
<1>6. CASE ~(RecordTare(t) \/ RecordGross(t) \/ RecordReweigh(t))
  <2>1. readings' = readings
    BY <1>6 DEF TaskStep, CreateTask, PrepareForGross, CompleteTask, DeleteTask,
       CancelTask, MarkPaid, Waive, TransitionPaymentStatus, Reverse, rowVars
  <2> QED
    BY <2>1 DEF ReadingStep
<1> QED
  BY <1>3, <1>5, <1>6

LEMMA SameKeepsAll ==
  ASSUME NEW u \in Task, Same(u)
  PROVE  CompletedStep(u) /\ PaymentStep(u) /\ ReadingStep(u)
BY DEF Same, CompletedStep, PaymentStep, ReadingStep

LEMMA EveryStep ==
  ASSUME IndInv, Next, NEW u \in Task
  PROVE  CompletedStep(u) /\ PaymentStep(u) /\ ReadingStep(u)
<1>1. PICK t \in Task : TaskStep(t)
  BY DEF Next
<1>2. CASE u = t
  BY <1>1, <1>2, CompletedKept, PaymentKept, ReadingKept
<1>3. CASE u # t
  BY <1>1, <1>3, OtherTasks, SameKeepsAll DEF IndInv
<1> QED
  BY <1>2, <1>3

(* No operation changes a completed task or its readings.                  *)
THEOREM CompletedFrozen == Spec => CompletedFactsFrozen
<1>1. IndInv /\ [Next]_vars => [\A t \in Task : CompletedStep(t)]_vars
  BY EveryStep
<1> QED
  BY <1>1, Inductive, PTL DEF Spec, CompletedFactsFrozen

(* A fee is settled at most once, and never once the task is reversed.     *)
THEOREM PaymentOnce == Spec => PaymentSettlesOnce
<1>1. IndInv /\ [Next]_vars => [\A t \in Task : PaymentStep(t)]_vars
  BY EveryStep
<1> QED
  BY <1>1, Inductive, PTL DEF Spec, PaymentSettlesOnce

(* Readings are only ever appended, and only while the task is open.       *)
THEOREM AppendOnly == Spec => ReadingsAppendOnly
<1>1. IndInv /\ [Next]_vars => [\A t \in Task : ReadingStep(t)]_vars
  BY EveryStep
<1> QED
  BY <1>1, Inductive, PTL DEF Spec, ReadingsAppendOnly
-----------------------------------------------------------------------------
(* What the arithmetic makes of the next reading.                          *)

(* quantize_tons returns the closest tick, of two the heavier.             *)
LEMMA QuantizeClosest ==
  ASSUME NEW raw \in Nat
  PROVE  /\ QuantizeTons(raw) \in 0 .. raw
         /\ \A p \in Int : p # QuantizeTons(raw) =>
              Closer(raw, QuantizeTons(raw), p) /\ ~ Closer(raw, p, QuantizeTons(raw))
<1> DEFINE q == (raw + 5) \div 10
<1>1. QuantizeTons(raw) = q
  BY DEF QuantizeTons, RawPerTick
<1>2. q \in Nat /\ 10 * q <= raw + 5 /\ raw + 5 < 10 * q + 10
  OBVIOUS
<1> HIDE DEF q
<1>3. q \in 0 .. raw
  BY <1>2
<1>4. ASSUME NEW p \in Int, p # q
      PROVE  Closer(raw, q, p) /\ ~ Closer(raw, p, q)
  <2>1. p < q \/ p > q
    BY <1>2, <1>4
  <2> QED  BY <1>2, <2>1 DEF Closer, Distance, RawOf, RawPerTick
<1> QED
  BY <1>1, <1>3, <1>4

LEMMA ClosestIsQuantized ==
  ASSUME NEW raw \in Shown
  PROVE  raw \in Nat /\ ClosestTick[raw] = QuantizeTons(raw)
<1>1. raw \in Nat
  <2>1. PICK base \in RawWeight : raw \in base .. base + RawPerTick
    BY DEF Shown
  <2> QED  BY <2>1, WeightAssumption DEF RawPerTick
<1> DEFINE Best(q) == \A p \in 0 .. raw : p # q => Closer(raw, q, p)
<1>2. QuantizeTons(raw) \in 0 .. raw /\ Best(QuantizeTons(raw))
  BY <1>1, QuantizeClosest
<1>3. \A q \in 0 .. raw : Best(q) => q = QuantizeTons(raw)
  BY <1>1, <1>2, QuantizeClosest
<1>4. ClosestTick[raw] = CHOOSE q \in 0 .. raw : Best(q)
  BY DEF ClosestTick
<1> HIDE DEF Best
<1> QED
  BY <1>1, <1>2, <1>3, <1>4

(* A task's snapshot of the limit is positive (create_task, and what       *)
(* WeighingService made of legacy tasks).                                  *)
LimitSet == \A t \in Task : status[t] # "ABSENT" => allowed[t] > 0

LEMMA LimitStays ==
  ASSUME IndInv, LimitSet, NEW t \in Task, TaskStep(t)
  PROVE  LimitSet'
<1>1. TypeOK /\ BilledOf(t)
  BY DEF IndInv, Good
<1>2. CASE CreateTask(t)
  BY <1>1, <1>2 DEF CreateTask, Storable, LimitSet, TypeOK
<1>3. CASE ~ CreateTask(t)
  <2>1. status[t] # "ABSENT" /\ allowed' = allowed
    BY <1>1, <1>3
       DEF TaskStep, RecordTare, PrepareForGross, RecordGross, RecordReweigh, RecordGrossLike,
           CompleteTask, DeleteTask, CancelTask, MarkPaid, Waive, TransitionPaymentStatus,
           Settleable, Reverse, Reversible, Live, rowVars, BilledOf
  <2>2. \A u \in Task : u # t => status'[u] = status[u]
    BY <1>1, OtherTasks DEF Same
  <2> QED  BY <2>1, <2>2 DEF LimitSet
<1> QED
  BY <1>2, <1>3

LEMMA LimitHolds == Spec => []LimitSet
<1>1. Init => LimitSet
  <2> SUFFICES ASSUME Init, NEW t \in Task, status[t] # "ABSENT" PROVE allowed[t] > 0
    BY DEF LimitSet
  <2>1. PICK history \in [Legacy -> LegacyHistory] :
          /\ status = [u \in Task |-> IF u \in Legacy THEN "COMPLETED" ELSE "ABSENT"]
          /\ allowed = [u \in Task |-> IF u \in Legacy THEN history[u].allowed ELSE 0]
    BY DEF Init
  <2>2. t \in Legacy /\ history[t] \in LegacyHistory
    BY <2>1
  <2> QED  BY <2>1, <2>2, PastShape
<1>2. IndInv /\ LimitSet /\ [Next]_vars => LimitSet'
  BY LimitStays DEF Next, vars, LimitSet
<1> QED
  BY <1>1, <1>2, Inductive, PTL DEF Spec

(* calculate_weight (domain/weighing.py:28-58) judges every reading that   *)
(* may come next as the displayed weights say, also at a rounding tie.     *)
THEOREM ReadingsJudged == Spec => []EveryReadingJudged
<1>1. IndInv /\ LimitSet => EveryReadingJudged
  <2> SUFFICES ASSUME IndInv, LimitSet, NEW t \in Task, NEW raw \in Shown, tare[t] # 0
               PROVE  LET tick == ClosestTick[raw]
                          judged == CalculateWeight(RawOf(tare[t]), raw, RawOf(allowed[t])) IN
                      /\ Calculable(RawOf(tare[t]), raw, RawOf(allowed[t])) <=> tick > tare[t]
                      /\ tick > tare[t] =>
                           /\ judged.gross = tick /\ judged.net = tick - tare[t]
                           /\ judged.overweight >= 0
                           /\ judged.result = "OVERWEIGHT" <=> judged.overweight > 0
                           /\ judged.result = "OVERWEIGHT" <=> tick > allowed[t]
                           /\ judged.result = "NORMAL" => raw < RawOf(allowed[t]) + RawPerTick
    BY DEF EveryReadingJudged
  <2> DEFINE tick == QuantizeTons(raw)
             judged == WeightVerdict(tare[t], tick, allowed[t])
  <2>1. tare[t] \in Nat \ {0} /\ allowed[t] \in Nat
    BY DEF IndInv, TypeOK
  <2>2. allowed[t] > 0
    BY <2>1 DEF IndInv, Good, SummaryOf, LimitSet
  <2>3. raw \in Nat /\ ClosestTick[raw] = tick /\ tick \in Nat
    BY ClosestIsQuantized, QuantizeType
  <2>4. /\ Calculable(RawOf(tare[t]), raw, RawOf(allowed[t])) <=> Weighable(tare[t], tick, allowed[t])
        /\ CalculateWeight(RawOf(tare[t]), raw, RawOf(allowed[t])) = judged
    BY <2>1, CalculateStored
  <2>5. Weighable(tare[t], tick, allowed[t]) <=> tick > tare[t]
    BY <2>1, <2>2, <2>3 DEF Weighable
  <2>6. tick <= allowed[t] => raw < RawOf(allowed[t]) + RawPerTick
    BY <2>1, <2>3 DEF QuantizeTons, RawPerTick, RawOf
  <2> HIDE DEF tick
  <2>7. /\ judged.gross = tick /\ judged.net = tick - tare[t]
        /\ judged.overweight = IF tick > allowed[t] THEN tick - allowed[t] ELSE 0
        /\ judged.result = IF tick <= allowed[t] THEN "NORMAL" ELSE "OVERWEIGHT"
    BY DEF WeightVerdict, Parts, IsNormal
  <2> HIDE DEF judged
  <2> QED  BY <2>1, <2>3, <2>4, <2>5, <2>6, <2>7
<1> QED
  BY <1>1, Inductive, LimitHolds, PTL
=============================================================================
