--------------------------- MODULE WeighingLedger ---------------------------
(***************************************************************************)
(* What the backend promises about a weighing task, its readings, its fee  *)
(* and its reversal: the rows as they stand after each committed           *)
(* transaction.  Every operation of WeighingService, of the payment half   *)
(* of BillingService and of WeighingReversalService is one action, and a   *)
(* call that is refused or answered idempotently changes nothing, so it is *)
(* a stuttering step.  WeighingRequests splits the same operations into    *)
(* their SQL statements and is shown to implement this module.             *)
(***************************************************************************)
EXTENDS WeightCalculation, Sequences

CONSTANTS
  Task,         \* identities of weighing_tasks rows, used or not
  Legacy,       \* tasks completed before the billing tables existed
  RawWeight,    \* weights an operator may submit, in units of 0.0001 t: the
                \* schemas accept positive ones with at most three decimals
  RawLimit,     \* allowed gross weights a vehicle may have, same unit
  MaxReadings   \* bound: weighing_records rows of one task

ASSUME LegacyAssumption == Legacy \subseteq Task
ASSUME WeightAssumption == RawWeight \subseteq Nat /\ RawLimit \subseteq Nat
ASSUME BoundAssumption == MaxReadings \in Nat \ {0}

VARIABLES
  status,     \* weighing_tasks.status, "ABSENT" while there is no row
  deleted,    \* deleted_at IS NOT NULL
  allowed,    \* allowed_gross_weight_tons, copied from the vehicle, in ticks
  tare,       \* tare_weight_tons in ticks, 0 for NULL
  verdict,    \* gross, net and overweight tons and the weight_result
  readings,   \* the weighing_records rows in the order of sequence_no
  version,    \* weighing_tasks.version
  payment,    \* billing_records.payment_status, "NONE" while there is no row
  reversal,   \* billing_payment_status_snapshot of the weighing_reversals row
  audit       \* how many audit_logs rows of each action name the task or its
              \* fee, not counting those a legacy task already had

vars == <<status, deleted, allowed, tare, verdict, readings, version,
          payment, reversal, audit>>
rowVars == <<deleted, allowed, tare, verdict, readings>>

Status == {"ABSENT", "WAIT_TARE", "TARE_COMPLETED", "WAIT_GROSS",
           "GROSS_COMPLETED", "COMPLETED", "CANCELLED"}
ReadingKind == {"TARE", "GROSS", "REWEIGH"}
Payment == {"NONE", "UNPAID", "PAID", "WAIVED"}
Reversal == {"NONE", "NO_BILLING", "UNPAID", "PAID", "WAIVED"}
AuditAction == {"WEIGHING_TASK_CREATED", "TARE_RECORDED", "GROSS_RECORDED",
                "REWEIGH_RECORDED", "WEIGHING_TASK_COMPLETED",
                "WEIGHING_TASK_DELETED", "WEIGHING_TASK_CANCELLED",
                "BILLING_PAID", "BILLING_WAIVED", "WEIGHING_REVERSED"}

Ticks == {QuantizeTons(raw) : raw \in RawWeight}
Limits == {QuantizeTons(raw) : raw \in RawLimit}

NoAudit == [a \in AuditAction |-> 0]
Logged(t, action) == [audit EXCEPT ![t][action] = @ + 1]
-----------------------------------------------------------------------------
(***************************************************************************)
(* Deliberate faults, for testing the properties; no specification uses   *)
(* them.                                                                   *)
(***************************************************************************)
GrossAllowedAgain(t) == TRUE
StatusAfterAnyReading(result) == "GROSS_COMPLETED"
DeletableOrDone == {"WAIT_TARE", "TARE_COMPLETED", "WAIT_GROSS", "COMPLETED"}
CancellableOrDone == {"WAIT_TARE", "TARE_COMPLETED", "WAIT_GROSS",
                      "GROSS_COMPLETED", "COMPLETED"}
SettleableAlways(t) == payment[t] = "UNPAID"
-----------------------------------------------------------------------------
(* _get_task_for_update: the row exists and is not soft-deleted.           *)
Live(t) == status[t] # "ABSENT" /\ ~deleted[t]

(* ck_weighing_records_weight_positive and the CHECKs of weighing_tasks:   *)
(* an IntegrityError becomes a ConflictError and nothing is stored.  The   *)
(* schemas' PositiveWeight refuses such weights before they get here.      *)
Storable(ticks) == ticks > 0

DeletableStatuses == {"WAIT_TARE", "TARE_COMPLETED", "WAIT_GROSS"}
CancellableStatuses == {"WAIT_TARE", "TARE_COMPLETED", "WAIT_GROSS", "GROSS_COMPLETED"}

Reading(kind, ticks) == [kind |-> kind, weight |-> ticks]

LegacyHistory == {h \in [tare : Ticks, gross : Ticks, allowed : Limits] :
                    Weighable(h.tare, h.gross, h.allowed) /\ IsNormal(h.gross, h.allowed)}

PastReadings(h) == <<Reading("TARE", h.tare), Reading("GROSS", h.gross)>>
PastVerdict(h) == WeightVerdict(h.tare, h.gross, h.allowed)

(* An installed database: no task yet, save those weighed and completed    *)
(* before migration c7b9e2f4a610 added billing, which keep no fee.         *)
Init ==
  \E history \in [Legacy -> LegacyHistory] :
    /\ status = [t \in Task |-> IF t \in Legacy THEN "COMPLETED" ELSE "ABSENT"]
    /\ deleted = [t \in Task |-> FALSE]
    /\ allowed = [t \in Task |-> IF t \in Legacy THEN history[t].allowed ELSE 0]
    /\ tare = [t \in Task |-> IF t \in Legacy THEN history[t].tare ELSE 0]
    /\ verdict = [t \in Task |-> IF t \in Legacy THEN PastVerdict(history[t]) ELSE Unweighed]
    /\ readings = [t \in Task |-> IF t \in Legacy THEN PastReadings(history[t]) ELSE <<>>]
    /\ version = [t \in Task |-> IF t \in Legacy THEN 5 ELSE 0]
    /\ payment = [t \in Task |-> "NONE"]
    /\ reversal = [t \in Task |-> "NONE"]
    /\ audit = [t \in Task |-> NoAudit]

(* create_task: the vehicle's limit is copied into the task.               *)
CreateTask(t) ==
  \E raw \in RawLimit :
    /\ status[t] = "ABSENT"
    /\ Storable(QuantizeTons(raw))
    /\ status' = [status EXCEPT ![t] = "WAIT_TARE"]
    /\ allowed' = [allowed EXCEPT ![t] = QuantizeTons(raw)]
    /\ version' = [version EXCEPT ![t] = 1]
    /\ audit' = Logged(t, "WEIGHING_TASK_CREATED")
    /\ UNCHANGED <<deleted, tare, verdict, readings, payment, reversal>>

RecordTare(t) ==
  \E raw \in RawWeight :
    /\ Live(t)
    /\ status[t] = "WAIT_TARE"
    /\ Storable(QuantizeTons(raw))
    /\ readings' = [readings EXCEPT ![t] = Append(@, Reading("TARE", QuantizeTons(raw)))]
    /\ tare' = [tare EXCEPT ![t] = QuantizeTons(raw)]
    /\ status' = [status EXCEPT ![t] = "TARE_COMPLETED"]
    /\ version' = [version EXCEPT ![t] = @ + 1]
    /\ audit' = Logged(t, "TARE_RECORDED")
    /\ UNCHANGED <<deleted, allowed, verdict, payment, reversal>>

(* prepare_for_gross and its aliases start_loading and finish_loading: no  *)
(* audit row, and a task already in WAIT_GROSS is returned as it is.       *)
PrepareForGross(t) ==
  /\ Live(t)
  /\ status[t] = "TARE_COMPLETED"
  /\ status' = [status EXCEPT ![t] = "WAIT_GROSS"]
  /\ version' = [version EXCEPT ![t] = @ + 1]
  /\ UNCHANGED <<rowVars, payment, reversal, audit>>
-----------------------------------------------------------------------------
(* _record_gross_like: the reading is appended and becomes the summary.    *)
StatusAfterReading(result) ==
  IF result = "NORMAL" THEN "GROSS_COMPLETED" ELSE "WAIT_GROSS"

SummaryAfterReading(t, new) == new

GrossAuditAction(kind) ==
  IF kind = "REWEIGH" THEN "REWEIGH_RECORDED" ELSE "GROSS_RECORDED"

RecordGrossLike(t, kind, raw) ==
  LET ticks == QuantizeTons(raw)
      new == CalculateWeight(RawOf(tare[t]), raw, RawOf(allowed[t])) IN
  /\ Len(readings[t]) < MaxReadings
  /\ tare[t] # 0
  /\ Calculable(RawOf(tare[t]), raw, RawOf(allowed[t]))
  /\ readings' = [readings EXCEPT ![t] = Append(@, Reading(kind, ticks))]
  /\ verdict' = [verdict EXCEPT ![t] = SummaryAfterReading(t, new)]
  /\ status' = [status EXCEPT ![t] = StatusAfterReading(new.result)]
  /\ version' = [version EXCEPT ![t] = @ + 1]
  /\ audit' = Logged(t, GrossAuditAction(kind))
  /\ UNCHANGED <<deleted, allowed, tare, payment, reversal>>

NeverGrossWeighed(t) ==
  /\ verdict[t].result = "PENDING"
  /\ \A i \in 1 .. Len(readings[t]) : readings[t][i].kind \notin {"GROSS", "REWEIGH"}

ReweighAllowed(t) == verdict[t].result = "OVERWEIGHT"

RecordGross(t) ==
  /\ Live(t)
  /\ status[t] = "WAIT_GROSS"
  /\ NeverGrossWeighed(t)
  /\ \E raw \in RawWeight : RecordGrossLike(t, "GROSS", raw)

RecordReweigh(t) ==
  /\ Live(t)
  /\ status[t] = "WAIT_GROSS"
  /\ ReweighAllowed(t)
  /\ \E raw \in RawWeight : RecordGrossLike(t, "REWEIGH", raw)
-----------------------------------------------------------------------------
(* ensure_record_for_completed_task: a fee that exists is kept.            *)
PaymentOnCompletion(t) == IF payment[t] = "NONE" THEN "UNPAID" ELSE payment[t]

(* complete_task.  Without a vehicle type or a billing rule the whole      *)
(* transaction is rolled back, which is a stuttering step here.            *)
CompleteTask(t) ==
  /\ Live(t)
  /\ verdict[t].result = "NORMAL"
  /\ status[t] = "GROSS_COMPLETED"
  /\ status' = [status EXCEPT ![t] = "COMPLETED"]
  /\ version' = [version EXCEPT ![t] = @ + 1]
  /\ payment' = [payment EXCEPT ![t] = PaymentOnCompletion(t)]
  /\ audit' = Logged(t, "WEIGHING_TASK_COMPLETED")
  /\ UNCHANGED <<rowVars, reversal>>

(* delete_task: a soft deletion, the only change without a new version.    *)
DeleteTask(t) ==
  /\ Live(t)
  /\ status[t] \in DeletableStatuses
  /\ deleted' = [deleted EXCEPT ![t] = TRUE]
  /\ audit' = Logged(t, "WEIGHING_TASK_DELETED")
  /\ UNCHANGED <<status, allowed, tare, verdict, readings, version, payment, reversal>>

CancelTask(t) ==
  /\ Live(t)
  /\ status[t] \in CancellableStatuses
  /\ status' = [status EXCEPT ![t] = "CANCELLED"]
  /\ version' = [version EXCEPT ![t] = @ + 1]
  /\ audit' = Logged(t, "WEIGHING_TASK_CANCELLED")
  /\ UNCHANGED <<rowVars, payment, reversal>>
-----------------------------------------------------------------------------
(* _transition_payment_status.  Paying or waiving a fee that already has   *)
(* the target status is answered without a change.                         *)
Settleable(t) == payment[t] = "UNPAID" /\ reversal[t] = "NONE"

TransitionPaymentStatus(t, target, action) ==
  /\ Settleable(t)
  /\ payment' = [payment EXCEPT ![t] = target]
  /\ audit' = Logged(t, action)
  /\ UNCHANGED <<status, rowVars, version, reversal>>

MarkPaid(t) == TransitionPaymentStatus(t, "PAID", "BILLING_PAID")
Waive(t) == TransitionPaymentStatus(t, "WAIVED", "BILLING_WAIVED")

(* reverse reads the fee without locking it, so the payment status it      *)
(* checks and stores is the current one or the UNPAID it has just stopped  *)
(* being.  A PAID fee that is seen as PAID is refused.                     *)
PaymentSeen(t) ==
  IF payment[t] = "NONE" THEN {"NO_BILLING"} ELSE {payment[t], "UNPAID"}

Reversible(t) == Live(t) /\ status[t] = "COMPLETED" /\ reversal[t] = "NONE"

Reverse(t) ==
  /\ Reversible(t)
  /\ \E seen \in PaymentSeen(t) \ {"PAID"} :
       reversal' = [reversal EXCEPT ![t] = seen]
  /\ audit' = Logged(t, "WEIGHING_REVERSED")
  /\ UNCHANGED <<status, rowVars, version, payment>>
-----------------------------------------------------------------------------
TaskStep(t) ==
  \/ CreateTask(t) \/ RecordTare(t) \/ PrepareForGross(t)
  \/ RecordGross(t) \/ RecordReweigh(t)
  \/ CompleteTask(t) \/ DeleteTask(t) \/ CancelTask(t)
  \/ MarkPaid(t) \/ Waive(t) \/ Reverse(t)

Next == \E t \in Task : TaskStep(t)

Spec == Init /\ [][Next]_vars
-----------------------------------------------------------------------------
(* Shape of the rows.  Every stored reading is a positive number of ticks, *)
(* which record_tare leaves to the CHECK constraint of the column.         *)
VerdictType == [gross : Nat, net : Int, overweight : Nat, result : Verdicts]
ReadingType == [kind : ReadingKind, weight : Nat \ {0}]

TypeOK ==
  /\ status \in [Task -> Status]
  /\ deleted \in [Task -> BOOLEAN]
  /\ allowed \in [Task -> Nat]
  /\ tare \in [Task -> Nat]
  /\ verdict \in [Task -> VerdictType]
  /\ readings \in [Task -> Seq(ReadingType)]
  /\ version \in [Task -> Nat]
  /\ payment \in [Task -> Payment]
  /\ reversal \in [Task -> Reversal]
  /\ audit \in [Task -> [AuditAction -> Nat]]

(* The readings of a task tell one story (record_tare, record_gross,       *)
(* record_reweigh): one TARE, then one GROSS, then REWEIGHs, and a truck   *)
(* is put on the scale again only because it was overweight the last time. *)
KindAt(i) == IF i = 1 THEN "TARE" ELSE IF i = 2 THEN "GROSS" ELSE "REWEIGH"

HistoryOf(t) ==
  /\ \A i \in 1 .. Len(readings[t]) : readings[t][i].kind = KindAt(i)
  /\ \A i \in 1 .. Len(readings[t]) :
       (2 <= i /\ i < Len(readings[t])) => readings[t][i].weight > allowed[t]

HistoryWellFormed == \A t \in Task : HistoryOf(t)

(* The summary columns of a task are the verdict of its newest reading,    *)
(* never of an older one, and its status is the one that verdict allows    *)
(* (the assignments of _record_gross_like and the guards of complete_task).*)
SummaryOf(t) ==
  LET n == Len(readings[t]) IN
  /\ tare[t] = IF n = 0 THEN 0 ELSE readings[t][1].weight
  /\ verdict[t] = IF n < 2 THEN Unweighed
                  ELSE WeightVerdict(readings[t][1].weight, readings[t][n].weight, allowed[t])
  /\ status[t] \in {"ABSENT", "WAIT_TARE"} => n = 0
  /\ status[t] = "TARE_COMPLETED" => n = 1
  /\ status[t] = "WAIT_GROSS" => n >= 1 /\ verdict[t].result # "NORMAL"
  /\ status[t] \in {"GROSS_COMPLETED", "COMPLETED"} => verdict[t].result = "NORMAL"

SummaryMatchesHistory == \A t \in Task : SummaryOf(t)

(* A fee exists exactly for the tasks completed since billing exists:      *)
(* complete_task and ensure_record_for_completed_task succeed together.    *)
BilledOf(t) == payment[t] # "NONE" <=> status[t] = "COMPLETED" /\ t \notin Legacy

BilledExactlyOnCompletion == \A t \in Task : BilledOf(t)

(* A soft-deleted task (delete_task) never passed the scale, was never     *)
(* billed and never reversed, so leaving it out of every list and every    *)
(* statistic hides no finished business.                                   *)
DeletedOf(t) ==
  deleted[t] => /\ status[t] \in {"WAIT_TARE", "TARE_COMPLETED", "WAIT_GROSS"}
                /\ verdict[t].result # "NORMAL"
                /\ payment[t] = "NONE" /\ reversal[t] = "NONE"

DeletedNeverSettled == \A t \in Task : DeletedOf(t)

(* A reversal belongs to a completed task, and the payment status it       *)
(* stores (reverse) never claims a payment, nor a waiver that did not      *)
(* happen; it says NO_BILLING exactly for tasks that have no fee.          *)
ReversalOf(t) ==
  /\ reversal[t] # "NONE" => status[t] = "COMPLETED"
  /\ reversal[t] # "PAID"
  /\ reversal[t] = "WAIVED" => payment[t] = "WAIVED"
  /\ reversal[t] # "NONE" => (reversal[t] = "NO_BILLING" <=> payment[t] = "NONE")

ReversalJustified == \A t \in Task : ReversalOf(t)

(* The audit trail explains the rows: counting the audit_logs rows of a    *)
(* task gives back its readings, its end and its settlement, so no change  *)
(* was written without its audit row and no refused or repeated call left  *)
(* one.  (prepare_for_gross is the one change that is not audited.)        *)
Once(b) == IF b THEN 1 ELSE 0

AuditOf(t) ==
  LET a == audit[t]
      n == Len(readings[t])
      ours == t \notin Legacy IN
  /\ a["WEIGHING_TASK_CREATED"] = Once(ours /\ status[t] # "ABSENT")
  /\ a["TARE_RECORDED"] = Once(ours /\ n >= 1)
  /\ a["GROSS_RECORDED"] = Once(ours /\ n >= 2)
  /\ a["REWEIGH_RECORDED"] = IF ours /\ n >= 2 THEN n - 2 ELSE 0
  /\ a["WEIGHING_TASK_COMPLETED"] = Once(ours /\ status[t] = "COMPLETED")
  /\ a["WEIGHING_TASK_CANCELLED"] = Once(status[t] = "CANCELLED")
  /\ a["WEIGHING_TASK_DELETED"] = Once(deleted[t])
  /\ a["BILLING_PAID"] = Once(payment[t] = "PAID")
  /\ a["BILLING_WAIVED"] = Once(payment[t] = "WAIVED")
  /\ a["WEIGHING_REVERSED"] = Once(reversal[t] # "NONE")

AuditExplains == \A t \in Task : AuditOf(t)
(* All of it for one task, and the fact the others lean on: the database   *)
(* a legacy task was completed in has no way to reopen it.  This is the    *)
(* inductive invariant of WeighingLedgerProofs.                            *)
Good(t) ==
  /\ HistoryOf(t) /\ SummaryOf(t) /\ BilledOf(t) /\ DeletedOf(t)
  /\ ReversalOf(t) /\ AuditOf(t)
  /\ t \in Legacy => status[t] = "COMPLETED"

IndInv == TypeOK /\ \A t \in Task : Good(t)
-----------------------------------------------------------------------------
(* The reference for the arithmetic: what a scale may show near a weight   *)
(* that an operator submits, and of that the closest tick, of two equally  *)
(* close ones the heavier.  It is found by comparison and never divides.   *)
Shown == UNION {raw .. raw + RawPerTick : raw \in RawWeight}
Distance(raw, tick) == IF raw < RawOf(tick) THEN RawOf(tick) - raw ELSE raw - RawOf(tick)
Closer(raw, q, p) == \/ Distance(raw, q) < Distance(raw, p)
                     \/ Distance(raw, q) = Distance(raw, p) /\ q > p
ClosestTick ==
  [raw \in Shown |-> CHOOSE q \in 0 .. raw : \A p \in 0 .. raw : p # q => Closer(raw, q, p)]

(* Whatever a scale may show for a task next, at a rounding tie or between *)
(* two displayed units, calculate_weight (domain/weighing.py:28-58) judges *)
(* it against the stored tare and limit as the displayed weights say: it   *)
(* refuses what does not exceed the tare, the overload is positive exactly *)
(* for OVERWEIGHT, and a load that passes hides less than one tick.        *)
EveryReadingJudged ==
  \A t \in Task, raw \in Shown : tare[t] # 0 =>
    LET tick == ClosestTick[raw]
        judged == CalculateWeight(RawOf(tare[t]), raw, RawOf(allowed[t])) IN
    /\ Calculable(RawOf(tare[t]), raw, RawOf(allowed[t])) <=> tick > tare[t]
    /\ tick > tare[t] =>
         /\ judged.gross = tick /\ judged.net = tick - tare[t]
         /\ judged.overweight >= 0
         /\ judged.result = "OVERWEIGHT" <=> judged.overweight > 0
         /\ judged.result = "OVERWEIGHT" <=> tick > allowed[t]
         /\ judged.result = "NORMAL" => raw < RawOf(allowed[t]) + RawPerTick
-----------------------------------------------------------------------------
(* "Completed weighing facts are immutable": no operation changes a column *)
(* of a COMPLETED task or its readings, whatever happens to its fee.       *)
CompletedStep(t) ==
  status[t] = "COMPLETED" =>
    /\ status'[t] = status[t] /\ deleted'[t] = deleted[t]
    /\ allowed'[t] = allowed[t] /\ tare'[t] = tare[t]
    /\ verdict'[t] = verdict[t] /\ readings'[t] = readings[t]
    /\ version'[t] = version[t]

CompletedFactsFrozen == [][\A t \in Task : CompletedStep(t)]_vars

(* A fee is settled at most once and never after a reversal: the checks of *)
(* _transition_payment_status (billing_service.py:200-215).                *)
PaymentStep(t) ==
  payment'[t] # payment[t] =>
    /\ reversal[t] = "NONE" /\ reversal'[t] = "NONE"
    /\ \/ payment[t] = "NONE" /\ payment'[t] = "UNPAID"
       \/ payment[t] = "UNPAID" /\ payment'[t] \in {"PAID", "WAIVED"}

PaymentSettlesOnce == [][\A t \in Task : PaymentStep(t)]_vars

(* Readings are append-only, at most one at a time, and none is accepted   *)
(* for a task that is deleted, cancelled or already passed the scale.      *)
ReadingStep(t) ==
  readings'[t] # readings[t] =>
    /\ ~deleted[t] /\ status[t] \in {"WAIT_TARE", "WAIT_GROSS"}
    /\ Len(readings'[t]) = Len(readings[t]) + 1
    /\ \A i \in 1 .. Len(readings[t]) : readings'[t][i] = readings[t][i]

ReadingsAppendOnly == [][\A t \in Task : ReadingStep(t)]_vars
=============================================================================
