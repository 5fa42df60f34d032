-------------------------- MODULE WeighingRequests --------------------------
(***************************************************************************)
(* The operations of WeighingLedger as the backend runs them: HTTP         *)
(* requests served by several workers, each in its own database session,   *)
(* one SQL statement at a time, under PostgreSQL's default READ COMMITTED. *)
(*                                                                         *)
(*   - A statement sees what is committed when it runs, so values read by  *)
(*     an earlier statement may be stale unless a row lock protects them.  *)
(*   - _get_task_for_update and _transition_payment_status take the row    *)
(*     lock of a task or of a fee and keep it until the session ends.      *)
(*   - Inserting a reversal checks its foreign keys, which takes a KEY     *)
(*     SHARE lock on the fee's row: it waits for a FOR UPDATE holder and   *)
(*     makes a later one wait.                                             *)
(*   - A session writes at commit the columns its ORM object changed, with *)
(*     values computed from the row it read.                               *)
(*   - A session may be abandoned at any statement (an error, a lost       *)
(*     connection, a killed worker): PostgreSQL rolls it back.             *)
(***************************************************************************)
EXTENDS WeightCalculation, Sequences, FiniteSets, FiniteSetsExt

CONSTANTS Task, Legacy, RawWeight, RawLimit, MaxReadings,  \* as in WeighingLedger
          Session,      \* database sessions, one per request in progress
          Nobody        \* holds a lock that is free

ASSUME NobodyAssumption == Nobody \notin Session
ASSUME LegacyAssumption == Legacy \subseteq Task
ASSUME WeightAssumption == RawWeight \subseteq Nat /\ RawLimit \subseteq Nat
ASSUME BoundAssumption == MaxReadings \in Nat \ {0}

VARIABLES
  row,        \* the committed weighing_tasks row of each task
  records,    \* the committed weighing_records rows, a set per task
  payment, reversal, audit,     \* committed, as in WeighingLedger
  session,    \* the request each session serves and what it has read
  taskLock,   \* the session holding the task row FOR UPDATE
  feeLock,    \* the session holding the billing row FOR UPDATE
  feeShare    \* the sessions holding the billing row FOR KEY SHARE

committed == <<row, records, payment, reversal, audit>>
locks == <<taskLock, feeLock, feeShare>>
vars == <<row, records, payment, reversal, audit, session, taskLock, feeLock, feeShare>>

WeighingOp == {"TARE", "GROSS", "REWEIGH"}
TaskOp == WeighingOp \cup {"PREPARE", "COMPLETE", "DELETE", "CANCEL", "REVERSE"}
FeeOp == {"PAY", "WAIVE"}
Op == TaskOp \cup FeeOp \cup {"VIEW"}

(* The rows as WeighingLedger sees them: readings in sequence_no order.    *)
InOrder(rows) ==
  [i \in 1 .. Cardinality(rows) |->
     CHOOSE r \in rows : Cardinality({q \in rows : q.seq <= r.seq}) = i]
StoredReading(r) == [kind |-> r.kind, weight |-> r.weight]
ReadingsOf(t) ==
  [i \in 1 .. Cardinality(records[t]) |-> StoredReading(InOrder(records[t])[i])]

Ledger == INSTANCE WeighingLedger WITH
  status   <- [t \in Task |-> row[t].status],
  deleted  <- [t \in Task |-> row[t].deleted],
  allowed  <- [t \in Task |-> row[t].allowed],
  tare     <- [t \in Task |-> row[t].tare],
  verdict  <- [t \in Task |-> row[t].verdict],
  version  <- [t \in Task |-> row[t].version],
  readings <- [t \in Task |-> ReadingsOf(t)]

EmptyRow == [status |-> "ABSENT", deleted |-> FALSE, allowed |-> 0, tare |-> 0,
             verdict |-> Unweighed, version |-> 0]

(* A session between requests; its fields are the handler's variables.     *)
Idle == [pc |-> "idle", op |-> "VIEW", task |-> Nobody, raw |-> 0, row |-> EmptyRow,
         seq |-> 0, fee |-> "NONE", rev |-> "NONE", records |-> {}]

Live(r) == r.status # "ABSENT" /\ ~r.deleted
-----------------------------------------------------------------------------
(***************************************************************************)
(* Deliberate faults, for testing the properties; no specification uses    *)
(* them.                                                                   *)
(***************************************************************************)
LockNeverWaits(t) == TRUE
RecordsButNewest(t) == {r \in records[t] : \E q \in records[t] : q.seq > r.seq}
EndKeepingLocks(s) == session' = [session EXCEPT ![s] = Idle] /\ UNCHANGED locks
-----------------------------------------------------------------------------
(* FOR UPDATE waits for the holder of the row.                             *)
TaskLockFree(t) == taskLock[t] = Nobody
FeeLockFree(t) == feeLock[t] = Nobody /\ feeShare[t] = {}

(* The end of a session, by commit, rollback or close, frees its locks.    *)
EndSession(s) ==
  /\ session' = [session EXCEPT ![s] = Idle]
  /\ taskLock' = [t \in Task |-> IF taskLock[t] = s THEN Nobody ELSE taskLock[t]]
  /\ feeLock' = [t \in Task |-> IF feeLock[t] = s THEN Nobody ELSE feeLock[t]]
  /\ feeShare' = [t \in Task |-> feeShare[t] \ {s}]

At(s, pc, ops) == session[s].pc = pc /\ session[s].op \in ops
Continue(s, next) == session' = [session EXCEPT ![s] = next]

(* A request that is refused, or answered with what is already there,      *)
(* leaves by an exception or an early return: nothing was written.         *)
Leave(s) == EndSession(s) /\ UNCHANGED committed
-----------------------------------------------------------------------------
Init ==
  /\ \E history \in [Legacy -> Ledger!LegacyHistory] :
       /\ row = [t \in Task |->
                   IF t \in Legacy
                     THEN LET h == history[t] IN
                          [status |-> "COMPLETED", deleted |-> FALSE, allowed |-> h.allowed,
                           tare |-> h.tare, version |-> 5,
                           verdict |-> WeightVerdict(h.tare, h.gross, h.allowed)]
                     ELSE EmptyRow]
       /\ records = [t \in Task |->
                       IF t \in Legacy
                         THEN {[seq |-> 1, kind |-> "TARE", weight |-> history[t].tare],
                               [seq |-> 2, kind |-> "GROSS", weight |-> history[t].gross]}
                         ELSE {}]
  /\ payment = [t \in Task |-> "NONE"]
  /\ reversal = [t \in Task |-> "NONE"]
  /\ audit = [t \in Task |-> Ledger!NoAudit]
  /\ session = [s \in Session |-> Idle]
  /\ taskLock = [t \in Task |-> Nobody]
  /\ feeLock = [t \in Task |-> Nobody]
  /\ feeShare = [t \in Task |-> {}]

(* create_task commits a row with a fresh id, so no other request of this  *)
(* module can meet it halfway; its own races concern vehicles.             *)
Create(t) ==
  \E raw \in RawLimit :
    /\ row[t].status = "ABSENT"
    /\ Ledger!Storable(QuantizeTons(raw))
    /\ row' = [row EXCEPT ![t] = [@ EXCEPT !.status = "WAIT_TARE", !.version = 1,
                                           !.allowed = QuantizeTons(raw)]]
    /\ audit' = Ledger!Logged(t, "WEIGHING_TASK_CREATED")
    /\ UNCHANGED <<records, payment, reversal, session, locks>>

(* A client sends a request about a task; the weight comes with it.        *)
Begin(s) ==
  /\ session[s].pc = "idle"
  /\ \E t \in Task, op \in Op :
     \E raw \in IF op \in WeighingOp THEN RawWeight ELSE {0} :
       Continue(s, [Idle EXCEPT !.pc = "begin", !.op = op, !.task = t, !.raw = raw])
  /\ UNCHANGED <<committed, locks>>

(* An error outside the model ends the session before it has committed.    *)
Abort(s) == session[s].pc # "idle" /\ Leave(s)
-----------------------------------------------------------------------------
(* SELECT ... FOR UPDATE on the task, re-read once the lock is granted.    *)
LockTask(s) ==
  LET t == session[s].task IN
  /\ At(s, "begin", TaskOp)
  /\ TaskLockFree(t)
  /\ \/ /\ Live(row[t])
        /\ Continue(s, [session[s] EXCEPT !.pc = "held", !.row = row[t]])
        /\ taskLock' = [taskLock EXCEPT ![t] = s]
        /\ UNCHANGED <<committed, feeLock, feeShare>>
     \/ ~Live(row[t]) /\ Leave(s)

(* The state checks of the operations on the locked row.                   *)
Permitted(op, r) ==
  CASE op = "TARE" -> r.status = "WAIT_TARE"
    [] op = "PREPARE" -> r.status = "TARE_COMPLETED"
    [] op = "GROSS" -> r.status = "WAIT_GROSS" /\ r.verdict.result = "PENDING"
    [] op = "REWEIGH" -> r.status = "WAIT_GROSS" /\ r.verdict.result = "OVERWEIGHT"
    [] op = "COMPLETE" -> r.verdict.result = "NORMAL" /\ r.status = "GROSS_COMPLETED"
    [] op = "DELETE" -> r.status \in Ledger!DeletableStatuses
    [] op = "CANCEL" -> r.status \in Ledger!CancellableStatuses
    [] op = "REVERSE" -> r.status = "COMPLETED"

RefuseState(s) ==
  /\ At(s, "held", TaskOp)
  /\ ~Permitted(session[s].op, session[s].row)
  /\ Leave(s)

(* The queries on weighing_records: for a first gross whether there is one *)
(* already, for every reading the next sequence_no.  Between them          *)
(* calculate_weight may refuse the weight; no write depends on the order.  *)
HasGrossRecord(t) == \E r \in records[t] : r.kind \in {"GROSS", "REWEIGH"}
NextSequence(t) == 1 + Max({r.seq : r \in records[t]} \cup {0})

Weighed(me) ==
  \/ me.op = "TARE"
  \/ me.row.tare # 0 /\ Calculable(RawOf(me.row.tare), me.raw, RawOf(me.row.allowed))

ReadRecords(s) ==
  LET me == session[s] IN
  /\ At(s, "held", WeighingOp)
  /\ Permitted(me.op, me.row)
  /\ \/ /\ Weighed(me)
        /\ me.op = "GROSS" => ~HasGrossRecord(me.task)
        /\ Cardinality(records[me.task]) < MaxReadings
        /\ Continue(s, [me EXCEPT !.pc = "ready", !.seq = NextSequence(me.task)])
        /\ UNCHANGED <<committed, locks>>
     \/ /\ \/ ~Weighed(me)
           \/ me.op = "GROSS" /\ HasGrossRecord(me.task)
           \/ Cardinality(records[me.task]) >= MaxReadings
        /\ Leave(s)

(* _commit of a reading: the reading, the summary and the audit row appear *)
(* together.  A CHECK or UNIQUE constraint that is broken rolls all back.  *)
CommitReading(s) ==
  LET me == session[s]
      t == me.task
      ticks == QuantizeTons(me.raw)
      new == CalculateWeight(RawOf(me.row.tare), me.raw, RawOf(me.row.allowed)) IN
  /\ At(s, "ready", WeighingOp)
  /\ Ledger!Storable(ticks)
  /\ \A r \in records[t] : r.seq # me.seq
  /\ records' = [records EXCEPT ![t] =
                   @ \cup {[seq |-> me.seq, kind |-> me.op, weight |-> ticks]}]
  /\ row' = [row EXCEPT ![t] =
               IF me.op = "TARE"
                 THEN [@ EXCEPT !.status = "TARE_COMPLETED", !.tare = ticks,
                                !.version = me.row.version + 1]
                 ELSE [@ EXCEPT !.status = Ledger!StatusAfterReading(new.result),
                                !.verdict = new, !.version = me.row.version + 1]]
  /\ audit' = Ledger!Logged(t, IF me.op = "TARE" THEN "TARE_RECORDED"
                               ELSE Ledger!GrossAuditAction(me.op))
  /\ EndSession(s)
  /\ UNCHANGED <<payment, reversal>>

(* prepare_for_gross, delete_task and cancel_task read nothing else.       *)
CommitTask(s) ==
  LET me == session[s]
      t == me.task IN
  /\ At(s, "held", {"PREPARE", "DELETE", "CANCEL"})
  /\ Permitted(me.op, me.row)
  /\ \/ /\ me.op = "PREPARE"
        /\ row' = [row EXCEPT ![t] = [@ EXCEPT !.status = "WAIT_GROSS",
                                               !.version = me.row.version + 1]]
        /\ UNCHANGED audit
     \/ /\ me.op = "DELETE"
        /\ row' = [row EXCEPT ![t] = [@ EXCEPT !.deleted = TRUE]]
        /\ audit' = Ledger!Logged(t, "WEIGHING_TASK_DELETED")
     \/ /\ me.op = "CANCEL"
        /\ row' = [row EXCEPT ![t] = [@ EXCEPT !.status = "CANCELLED",
                                               !.version = me.row.version + 1]]
        /\ audit' = Ledger!Logged(t, "WEIGHING_TASK_CANCELLED")
  /\ EndSession(s)
  /\ UNCHANGED <<records, payment, reversal>>
-----------------------------------------------------------------------------
(* complete_task: ensure_record_for_completed_task looks for a fee, then   *)
(* for the vehicle's type and the rule in force; without them              *)
(* the request fails and the new status is rolled back with it.            *)
ReadFeeToComplete(s) ==
  /\ At(s, "held", {"COMPLETE"})
  /\ Permitted("COMPLETE", session[s].row)
  /\ Continue(s, [session[s] EXCEPT !.pc = "ready", !.fee = payment[session[s].task]])
  /\ UNCHANGED <<committed, locks>>

NoBillingRule(s) == At(s, "ready", {"COMPLETE"}) /\ session[s].fee = "NONE" /\ Leave(s)

(* A second fee for the task would break uq billing_records and roll back. *)
CommitCompletion(s) ==
  LET me == session[s]
      t == me.task IN
  /\ At(s, "ready", {"COMPLETE"})
  /\ me.fee = "NONE" => payment[t] = "NONE"
  /\ row' = [row EXCEPT ![t] = [@ EXCEPT !.status = "COMPLETED",
                                         !.version = me.row.version + 1]]
  /\ payment' = [payment EXCEPT ![t] = IF me.fee = "NONE" THEN "UNPAID" ELSE @]
  /\ audit' = Ledger!Logged(t, "WEIGHING_TASK_COMPLETED")
  /\ EndSession(s)
  /\ UNCHANGED <<records, reversal>>
-----------------------------------------------------------------------------
(* mark_paid and waive: lock the fee, look for a reversal, then write.     *)
LockFee(s) ==
  LET t == session[s].task IN
  /\ At(s, "begin", FeeOp)
  /\ \/ /\ payment[t] # "NONE"
        /\ FeeLockFree(t)
        /\ Continue(s, [session[s] EXCEPT !.pc = "held", !.fee = payment[t]])
        /\ feeLock' = [feeLock EXCEPT ![t] = s]
        /\ UNCHANGED <<committed, taskLock, feeShare>>
     \/ payment[t] = "NONE" /\ Leave(s)

CheckReversal(s) ==
  LET me == session[s]
      open == reversal[me.task] = "NONE" /\ me.fee = "UNPAID" IN
  /\ At(s, "held", FeeOp)
  /\ \/ /\ open
        /\ Continue(s, [me EXCEPT !.pc = "ready"])
        /\ UNCHANGED <<committed, locks>>
     \/ ~open /\ Leave(s)

CommitPayment(s) ==
  LET t == session[s].task IN
  /\ At(s, "ready", FeeOp)
  /\ payment' = [payment EXCEPT ![t] = IF session[s].op = "PAY" THEN "PAID" ELSE "WAIVED"]
  /\ audit' = Ledger!Logged(t, IF session[s].op = "PAY" THEN "BILLING_PAID"
                               ELSE "BILLING_WAIVED")
  /\ EndSession(s)
  /\ UNCHANGED <<row, records, reversal>>
-----------------------------------------------------------------------------
(* reverse: under the task's lock it looks for a reversal, reads the fee   *)
(* without a lock, and inserts the snapshot it built from that reading.    *)
ReadReversal(s) ==
  LET me == session[s] IN
  /\ At(s, "held", {"REVERSE"})
  /\ Permitted("REVERSE", me.row)
  /\ \/ /\ reversal[me.task] = "NONE"
        /\ Continue(s, [me EXCEPT !.pc = "unreversed"])
        /\ UNCHANGED <<committed, locks>>
     \/ reversal[me.task] # "NONE" /\ Leave(s)

ReadFeeToReverse(s) ==
  LET me == session[s] IN
  /\ At(s, "unreversed", {"REVERSE"})
  /\ \/ /\ payment[me.task] # "PAID"
        /\ Continue(s, [me EXCEPT !.pc = "snapshot", !.fee = payment[me.task]])
        /\ UNCHANGED <<committed, locks>>
     \/ payment[me.task] = "PAID" /\ Leave(s)

(* The flush: the foreign key on the fee waits for its FOR UPDATE holder;  *)
(* a reversal that is already there is an IntegrityError, and is returned. *)
KeyShareFree(t) == feeLock[t] = Nobody

FlushReversal(s) ==
  LET me == session[s]
      t == me.task IN
  /\ At(s, "snapshot", {"REVERSE"})
  /\ \/ /\ reversal[t] = "NONE"
        /\ me.fee # "NONE" => KeyShareFree(t)
        /\ Continue(s, [me EXCEPT !.pc = "ready"])
        /\ feeShare' = [feeShare EXCEPT ![t] = IF me.fee = "NONE" THEN @ ELSE @ \cup {s}]
        /\ UNCHANGED <<committed, taskLock, feeLock>>
     \/ reversal[t] # "NONE" /\ Leave(s)

CommitReversal(s) ==
  LET me == session[s]
      t == me.task IN
  /\ At(s, "ready", {"REVERSE"})
  /\ reversal' = [reversal EXCEPT ![t] = IF me.fee = "NONE" THEN "NO_BILLING" ELSE me.fee]
  /\ audit' = Ledger!Logged(t, "WEIGHING_REVERSED")
  /\ EndSession(s)
  /\ UNCHANGED <<row, records, payment>>
-----------------------------------------------------------------------------
(* GET /tasks/{id}: five reads and no lock, so five moments.  get_task     *)
(* reads the row, then its fee, then its reversal; list_records asks again *)
(* whether the task is there and reads the weighing_records.               *)
ViewTask(s) ==
  LET t == session[s].task IN
  /\ At(s, "begin", {"VIEW"})
  /\ \/ /\ Live(row[t])
        /\ Continue(s, [session[s] EXCEPT !.pc = "summary", !.row = row[t]])
        /\ UNCHANGED <<committed, locks>>
     \/ ~Live(row[t]) /\ Leave(s)

ViewFee(s) ==
  /\ At(s, "summary", {"VIEW"})
  /\ Continue(s, [session[s] EXCEPT !.pc = "fee", !.fee = payment[session[s].task]])
  /\ UNCHANGED <<committed, locks>>

ViewReversal(s) ==
  /\ At(s, "fee", {"VIEW"})
  /\ Continue(s, [session[s] EXCEPT !.pc = "reversal", !.rev = reversal[session[s].task]])
  /\ UNCHANGED <<committed, locks>>

ShownRecords(t) == records[t]

ViewRecords(s) ==
  LET me == session[s] IN
  /\ At(s, "reversal", {"VIEW"})
  /\ \/ /\ Live(row[me.task])
        /\ Continue(s, [me EXCEPT !.pc = "shown", !.records = ShownRecords(me.task)])
        /\ UNCHANGED <<committed, locks>>
     \/ ~Live(row[me.task]) /\ Leave(s)

Respond(s) == At(s, "shown", {"VIEW"}) /\ Leave(s)
-----------------------------------------------------------------------------
(* Statements that wait for a row lock, and statements that do not.        *)
Statement(s) ==
  \/ RefuseState(s) \/ ReadRecords(s) \/ CommitReading(s) \/ CommitTask(s)
  \/ ReadFeeToComplete(s) \/ NoBillingRule(s) \/ CommitCompletion(s)
  \/ CheckReversal(s) \/ CommitPayment(s)
  \/ ReadReversal(s) \/ ReadFeeToReverse(s) \/ CommitReversal(s)
  \/ ViewTask(s) \/ ViewFee(s) \/ ViewReversal(s) \/ ViewRecords(s) \/ Respond(s)

Next ==
  \/ \E t \in Task : Create(t)
  \/ \E s \in Session : \/ Begin(s) \/ Abort(s) \/ Statement(s)
                        \/ LockTask(s) \/ LockFee(s) \/ FlushReversal(s)

Spec == Init /\ [][Next]_vars

(* A worker keeps executing the statements of its request (weak fairness), *)
(* and PostgreSQL queues the waiters of a row, so one that asks again and  *)
(* again is eventually granted the lock (strong fairness).  Nothing makes  *)
(* clients send requests, and nothing makes sessions fail.                 *)
Fairness ==
  \A s \in Session : /\ WF_vars(Statement(s))
                     /\ SF_vars(LockTask(s) \/ LockFee(s) \/ FlushReversal(s))

FairSpec == Spec /\ Fairness
-----------------------------------------------------------------------------
(* Shape of the rows, of the requests in progress and of the locks.        *)
RowType == [status : Ledger!Status, deleted : BOOLEAN, allowed : Nat, tare : Nat,
            verdict : Ledger!VerdictType, version : Nat]
RecordType == [seq : Nat \ {0}, kind : WeighingOp, weight : Nat \ {0}]
RequestType ==
  [pc : {"idle", "begin", "held", "ready", "unreversed", "snapshot",
         "summary", "fee", "reversal", "shown"},
   op : Op, task : Task \cup {Nobody}, raw : Nat, row : RowType, seq : Nat,
   fee : Ledger!Payment, rev : Ledger!Reversal, records : SUBSET RecordType]

TypeOK ==
  /\ row \in [Task -> RowType]
  /\ records \in [Task -> SUBSET RecordType]
  /\ session \in [Session -> RequestType]
  /\ taskLock \in [Task -> Session \cup {Nobody}]
  /\ feeLock \in [Task -> Session \cup {Nobody}]
  /\ feeShare \in [Task -> SUBSET Session]

(* The requests, interleaved statement by statement, only ever commit what *)
(* WeighingLedger allows: every commit is one of its operations, applied   *)
(* to the rows as they are at that moment, and nothing else shows.         *)
ImplementsLedger == Ledger!Spec

(* sequence_no is max + 1 read in one statement and inserted in another    *)
(* (_append_record): the numbers of a task are still 1 .. n without a gap  *)
(* and in the order TARE, GROSS, REWEIGH.                                  *)
SequenceGapFree ==
  \A t \in Task :
    /\ {r.seq : r \in records[t]} = 1 .. Cardinality(records[t])
    /\ \A r \in records[t] : r.kind = Ledger!KindAt(r.seq)

(* What a request has read under the task's lock is still so when it       *)
(* commits: the row itself, the next sequence number, the missing fee of a *)
(* task about to be completed, the missing reversal of one being reversed. *)
(* So the numbers of a task's readings never collide or skip one.          *)
LockedReadsStayTrue ==
  /\ \A s \in Session :
       LET me == session[s] IN
       (me.op \in TaskOp /\ me.pc \notin {"idle", "begin"}) =>
         /\ me.row = row[me.task]
         /\ (me.op \in WeighingOp /\ me.pc = "ready") => me.seq = NextSequence(me.task)
         /\ (me.op = "COMPLETE" /\ me.pc = "ready") => me.fee = payment[me.task]
         /\ (me.op = "REVERSE" /\ me.pc # "held") => reversal[me.task] = "NONE"
  /\ SequenceGapFree

(* A payment is checked against reversals without locking them             *)
(* (billing_service.py:200), and a reversal is inserted without locking    *)
(* the fee; the foreign key's KEY SHARE lock alone keeps a checked fee     *)
(* unsettled and unreversed until the payment commits.                     *)
CheckedFeeStaysOpen ==
  \A s \in Session :
    (session[s].op \in FeeOp /\ session[s].pc = "ready") =>
      /\ payment[session[s].task] = "UNPAID"
      /\ reversal[session[s].task] = "NONE"

(* A task's detail page is put together from several moments, yet never    *)
(* lacks what its summary is about: the reading it was computed from, and  *)
(* the fee of a completed task (get_task_detail reads the summary first).  *)
DetailCoversSummary ==
  \A s \in Session :
    LET me == session[s] IN
    (me.op = "VIEW" /\ me.pc = "shown") =>
      /\ me.row.tare # 0 =>
           \E r \in me.records : r.kind = "TARE" /\ r.weight = me.row.tare
      /\ me.row.verdict.result # "PENDING" =>
           \E r \in me.records : r.kind # "TARE" /\ r.weight = me.row.verdict.gross
      /\ (me.row.status = "COMPLETED" /\ me.task \notin Legacy) => me.fee # "NONE"

(* The next statement of s needs a row that r has locked.                  *)
WaitsFor(s, r) ==
  LET t == session[s].task IN
  \/ At(s, "begin", TaskOp) /\ taskLock[t] = r
  \/ At(s, "begin", FeeOp) /\ (feeLock[t] = r \/ r \in feeShare[t])
  \/ At(s, "snapshot", {"REVERSE"}) /\ session[s].fee # "NONE" /\ feeLock[t] = r

(* Requests on tasks and on fees, which lock the same rows from different  *)
(* sides, never wait for each other in a circle: whoever is waited for is  *)
(* at work, and waits for nobody, or for one who waits for nobody.         *)
NobodyWaitsInCircle ==
  \A s, r \in Session : WaitsFor(s, r) =>
    /\ session[r].pc # "idle"
    /\ \A q \in Session : WaitsFor(r, q) => \A p \in Session : ~ WaitsFor(q, p)

(* No request waits for ever, for a lock or otherwise: it is answered,     *)
(* refused or committed without relying on a failure to free it.           *)
EveryRequestEnds == \A s \in Session : session[s].pc # "idle" ~> session[s].pc = "idle"

(* "A paid business fact cannot be reversed without an explicit refund     *)
(* flow" (exceptions.py): a task that has been reversed has no paid fee.   *)
ReversedNeverPaid == \A t \in Task : reversal[t] # "NONE" => payment[t] # "PAID"
=============================================================================
