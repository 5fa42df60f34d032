------------------------ MODULE WeighingRequestsProofs ------------------------
(***************************************************************************)
(* The requests of WeighingRequests keep true what they have read and      *)
(* commit only what WeighingLedger allows, for every set of tasks,         *)
(* sessions, weights and limits and every bound on the readings.           *)
(*                                                                         *)
(* The argument goes in four rounds.                                       *)
(*   1. Locks: what a session has read under its locks is still so         *)
(*      (IInv, inductive without any knowledge of the ledger).             *)
(*   2. Refinement: given IInv, every step is a step of the ledger or      *)
(*      changes no row of it.                                              *)
(*   3. The ledger's own invariant, proved in WeighingLedgerProofs, then   *)
(*      holds of the requests' rows, and with it what needs the history of *)
(*      a task: the kinds of its readings and the page of its details.     *)
(*   4. Waits: a lock is held by a request past its first statement        *)
(*      (LocksUsed), and of those only a reversal waits once more, for a   *)
(*      fee whose holder waits for nobody.                                 *)
(***************************************************************************)
EXTENDS WeighingRequests, FiniteSetTheorems, SequenceTheorems, TLAPS

PastBegin(s) == session[s].pc \notin {"idle", "begin"}

(* What the columns of a request hold.                                     *)
Named(s) ==
  LET me == session[s] IN
  me.pc # "idle" => /\ me.task \in Task
                    /\ me.op \in WeighingOp => me.raw \in RawWeight

(* The rows that a request has locked.                                     *)
Holding(s) ==
  LET me == session[s] IN
  /\ me.op \in TaskOp /\ PastBegin(s) => taskLock[me.task] = s
  /\ me.op \in FeeOp /\ PastBegin(s) => feeLock[me.task] = s
  /\ me.op = "REVERSE" /\ me.pc = "ready" /\ me.fee # "NONE" => s \in feeShare[me.task]

(* What a request has found out is still so.                               *)
KnowsTask(s) ==
  LET me == session[s] IN
  me.op \in TaskOp /\ PastBegin(s) =>
    /\ me.row = row[me.task] /\ Live(row[me.task])
    /\ me.pc # "held" => Permitted(me.op, me.row)

KnowsRecords(s) ==
  LET me == session[s] IN
  me.op \in WeighingOp /\ me.pc = "ready" =>
    /\ Weighed(me)
    /\ me.op = "GROSS" => ~HasGrossRecord(me.task)
    /\ Cardinality(records[me.task]) < MaxReadings
    /\ me.seq = NextSequence(me.task)

(* A settled fee is not settled again, so a fee that is seen WAIVED stays  *)
(* so, and one that is not seen is not there while the task is locked.     *)
KnowsFee(s) ==
  LET me == session[s] IN
  /\ me.op = "COMPLETE" /\ me.pc = "ready" => me.fee = "NONE" /\ payment[me.task] = "NONE"
  /\ me.op = "REVERSE" /\ PastBegin(s) /\ me.pc # "held" => reversal[me.task] = "NONE"
  /\ me.op = "REVERSE" /\ me.pc \in {"snapshot", "ready"} =>
       /\ me.fee \in {"NONE", "UNPAID", "WAIVED"}
       /\ me.fee = "NONE" <=> payment[me.task] = "NONE"
       /\ me.fee = "WAIVED" => payment[me.task] = "WAIVED"
  /\ me.op \in FeeOp /\ PastBegin(s) => me.fee = payment[me.task] /\ me.fee # "NONE"
  /\ me.op \in FeeOp /\ me.pc = "ready" => me.fee = "UNPAID" /\ reversal[me.task] = "NONE"

Fine(s) ==
  Named(s) /\ Holding(s) /\ KnowsTask(s) /\ KnowsRecords(s) /\ KnowsFee(s)

(* The numbers of a task's readings are 1 .. n, each given once.           *)
Numbered(rows) ==
  /\ IsFiniteSet(rows)
  /\ {r.seq : r \in rows} = 1 .. Cardinality(rows)
  /\ \A r, q \in rows : r.seq = q.seq => r = q

DataTypes ==
  /\ row \in [Task -> RowType]
  /\ records \in [Task -> SUBSET RecordType]
  /\ payment \in [Task -> Ledger!Payment]
  /\ reversal \in [Task -> Ledger!Reversal]
  /\ audit \in [Task -> [Ledger!AuditAction -> Nat]]
SessionsOK == session \in [Session -> RequestType]
LockTypes ==
  /\ taskLock \in [Task -> Session \cup {Nobody}]
  /\ feeLock \in [Task -> Session \cup {Nobody}]
  /\ feeShare \in [Task -> SUBSET Session]

DataFine ==
  /\ DataTypes
  /\ \A t \in Task : Numbered(records[t])
  /\ \A t \in Task : payment[t] # "NONE" => row[t].status = "COMPLETED"

(* FOR UPDATE and FOR KEY SHARE keep each other out.                       *)
FeeLocksExclude == \A t \in Task : feeLock[t] = Nobody \/ feeShare[t] = {}

IInv ==
  /\ DataFine /\ SessionsOK /\ LockTypes /\ FeeLocksExclude
  /\ \A s \in Session : Fine(s)
-----------------------------------------------------------------------------
(* What a step of s leaves alone: the others' requests and locks.  Create  *)
(* is a step of Nobody.                                                    *)
Frame(s) ==
  /\ \A u \in Session \ {s} : session'[u] = session[u]
  /\ \A u \in Session \ {s}, t \in Task :
       /\ taskLock'[t] = u <=> taskLock[t] = u
       /\ feeLock'[t] = u <=> feeLock[t] = u
       /\ u \in feeShare'[t] <=> u \in feeShare[t]

(* How a step of s may change rows.                                        *)
DataMove(s) ==
  \A t \in Task :
    /\ taskLock[t] \in Session \ {s} /\ Live(row[t]) =>
         /\ row'[t] = row[t] /\ records'[t] = records[t] /\ reversal'[t] = reversal[t]
         /\ payment'[t] = "NONE" <=> payment[t] = "NONE"
    /\ payment'[t] # payment[t] =>
         \/ payment[t] = "NONE"
         \/ payment[t] = "UNPAID" /\ feeLock[t] = s
    /\ reversal'[t] # reversal[t] => s \in feeShare[t] \/ payment[t] = "NONE"

OwnFine(s) == Fine(s)'
-----------------------------------------------------------------------------
LEMMA StatusNames ==
  /\ WeighingOp \subseteq TaskOp /\ TaskOp \cap FeeOp = {}
  /\ "COMPLETE" \in TaskOp \ WeighingOp /\ "REVERSE" \in TaskOp \ WeighingOp
  /\ TaskOp \subseteq Op /\ FeeOp \subseteq Op /\ "VIEW" \in Op \ (TaskOp \cup FeeOp)
BY DEF TaskOp, WeighingOp, FeeOp, Op

(* What the others hold and know, they still do.                           *)
LEMMA OthersKeep ==
  ASSUME IInv, NEW s, Frame(s), DataMove(s), NEW u \in Session \ {s}
  PROVE  Fine(u)'
<1> DEFINE me == session[u]
<1> USE StatusNames
<1>1. session'[u] = me /\ u # s /\ u \in Session /\ u # Nobody
  BY NobodyAssumption DEF Frame
<1>2. Fine(u) /\ (PastBegin(u)' <=> PastBegin(u)) /\ (PastBegin(u) => me.pc # "idle")
  BY <1>1 DEF IInv, PastBegin
<1>3. Named(u)'
  BY <1>1, <1>2 DEF Fine, Named
<1>4. ASSUME me.pc # "idle" PROVE me.task \in Task
  BY <1>2, <1>4 DEF Fine, Named
<1>5. Holding(u)'
  <2>1. CASE me.pc = "idle"
    BY <1>1, <1>2, <2>1 DEF Holding, PastBegin
  <2>2. CASE me.pc # "idle"
    BY <1>1, <1>2, <1>4, <2>2 DEF Fine, Holding, Frame
  <2> QED
    BY <2>1, <2>2
<1>6. ASSUME me.op \in TaskOp, PastBegin(u)
      PROVE  /\ row'[me.task] = row[me.task] /\ records'[me.task] = records[me.task]
             /\ reversal'[me.task] = reversal[me.task]
             /\ payment'[me.task] = "NONE" <=> payment[me.task] = "NONE"
  BY <1>1, <1>2, <1>4, <1>6 DEF Fine, Holding, KnowsTask, DataMove
<1>7. KnowsTask(u)'
  BY <1>1, <1>2, <1>6 DEF Fine, KnowsTask
<1>8. KnowsRecords(u)'
  BY <1>1, <1>2, <1>6 DEF Fine, KnowsRecords, NextSequence, HasGrossRecord, PastBegin
<1>9. ASSUME me.op \in FeeOp, PastBegin(u)
      PROVE  /\ payment'[me.task] = payment[me.task]
             /\ reversal'[me.task] = reversal[me.task]
  <2>1. me.task \in Task /\ feeLock[me.task] = u /\ payment[me.task] # "NONE"
    BY <1>2, <1>4, <1>9 DEF Fine, Holding, KnowsFee
  <2>2. s \notin feeShare[me.task]
    BY <1>1, <2>1 DEF IInv, FeeLocksExclude
  <2> QED
    BY <1>1, <2>1, <2>2 DEF DataMove
<1>10. ASSUME me.op = "REVERSE", me.pc \in {"snapshot", "ready"}
       PROVE  me.fee = "WAIVED" => payment'[me.task] = "WAIVED"
  BY <1>2, <1>4, <1>10 DEF Fine, KnowsFee, DataMove
<1>11. KnowsFee(u)'
  BY <1>1, <1>2, <1>6, <1>9, <1>10 DEF Fine, KnowsFee, PastBegin
<1> QED
  BY <1>3, <1>5, <1>7, <1>8, <1>11 DEF Fine

LEMMA Concluded ==
  ASSUME IInv, NEW s \in Session, Frame(s), DataMove(s), OwnFine(s),
         (DataFine /\ SessionsOK /\ LockTypes /\ FeeLocksExclude)'
  PROVE  IInv'
<1>1. \A u \in Session \ {s} : Fine(u)'
  BY OthersKeep
<1> QED
  BY <1>1 DEF IInv, OwnFine

(* A step that writes no row keeps what is said of rows.                   *)
LEMMA QuietData ==
  ASSUME IInv, NEW s, UNCHANGED committed
  PROVE  /\ DataFine' /\ DataMove(s)
         /\ UNCHANGED <<row, records, payment, reversal, audit>>
BY DEF IInv, DataFine, DataTypes, committed, DataMove

LEMMA IdleType == Idle \in RequestType
BY DEF Idle, EmptyRow, RequestType, RowType, Op, Ledger!Payment, Ledger!Reversal, Ledger!Status,
       Ledger!VerdictType, Ledger!Verdicts, Unweighed

LEMMA EndKeeps ==
  ASSUME IInv, NEW s \in Session, EndSession(s), DataMove(s), DataFine'
  PROVE  IInv'
<1> USE StatusNames
<1>0. SessionsOK /\ LockTypes /\ FeeLocksExclude /\ s # Nobody
  BY NobodyAssumption DEF IInv
<1>1. session'[s] = Idle /\ \A u \in Session \ {s} : session'[u] = session[u]
  BY <1>0 DEF EndSession, SessionsOK
<1>2. SessionsOK'
  BY <1>0, IdleType DEF EndSession, SessionsOK
<1>3. OwnFine(s)
  BY <1>1 DEF OwnFine, Fine, Named, Holding, KnowsTask, KnowsRecords, KnowsFee, PastBegin, Idle
<1>4. LockTypes' /\ FeeLocksExclude'
  BY <1>0 DEF LockTypes, FeeLocksExclude, EndSession
<1>5. \A t \in Task :
        /\ taskLock'[t] = IF taskLock[t] = s THEN Nobody ELSE taskLock[t]
        /\ feeLock'[t] = IF feeLock[t] = s THEN Nobody ELSE feeLock[t]
        /\ feeShare'[t] = feeShare[t] \ {s}
  BY DEF EndSession
<1>6. Frame(s)
  BY <1>1, <1>5, NobodyAssumption DEF Frame
<1> QED
  BY <1>2, <1>3, <1>4, <1>6, Concluded

LEMMA LeaveKeeps ==
  ASSUME IInv, NEW s \in Session, Leave(s)
  PROVE  IInv' /\ UNCHANGED committed
BY QuietData, EndKeeps DEF Leave

(* A request that goes on, perhaps with a lock, without writing a row.     *)
LEMMA ContinueKeeps ==
  ASSUME IInv, NEW s \in Session, NEW next \in RequestType, Continue(s, next),
         UNCHANGED committed, OwnFine(s), LockTypes', FeeLocksExclude',
         \A u \in Session \ {s}, t \in Task :
           /\ taskLock'[t] = u <=> taskLock[t] = u
           /\ feeLock'[t] = u <=> feeLock[t] = u
           /\ u \in feeShare'[t] <=> u \in feeShare[t]
  PROVE  IInv'
<1>1. SessionsOK' /\ \A u \in Session \ {s} : session'[u] = session[u]
  BY DEF Continue, IInv, SessionsOK
<1>2. Frame(s)
  BY <1>1 DEF Frame
<1> QED
  BY <1>1, <1>2, QuietData, Concluded

(* ... without a lock.                                                     *)
LEMMA GoOnKeeps ==
  ASSUME IInv, NEW s \in Session, NEW next \in RequestType, Continue(s, next),
         UNCHANGED <<committed, locks>>, OwnFine(s)
  PROVE  IInv' /\ UNCHANGED committed
<1>1. LockTypes' /\ FeeLocksExclude' /\ UNCHANGED <<taskLock, feeLock, feeShare>>
  BY DEF IInv, LockTypes, FeeLocksExclude, locks
<1> QED
  BY <1>1, ContinueKeeps
-----------------------------------------------------------------------------
(* Numbers of readings.                                                    *)

(* max + 1 is the count + 1: _append_record's next number has no gap.      *)
LEMMA NumbersFollow ==
  ASSUME NEW rows, Numbered(rows)
  PROVE  /\ Cardinality(rows) \in Nat
         /\ 1 + Max({r.seq : r \in rows} \cup {0}) = Cardinality(rows) + 1
<1> DEFINE n == Cardinality(rows)
          S == {r.seq : r \in rows} \cup {0}
<1>1. n \in Nat /\ S = 0 .. n
  BY FS_CardinalityType DEF Numbered
<1>2. Max(S) = n
  BY <1>1 DEF Max
<1> QED
  BY <1>1, <1>2

(* A row that is given the next number.                                    *)
LEMMA NumbersGrow ==
  ASSUME NEW rows, Numbered(rows), NEW new, new.seq = Cardinality(rows) + 1
  PROVE  /\ Numbered(rows \cup {new})
         /\ Cardinality(rows \cup {new}) = Cardinality(rows) + 1
         /\ \A r \in rows : r.seq # new.seq
<1> DEFINE n == Cardinality(rows)
          more == rows \cup {new}
<1>1. n \in Nat /\ IsFiniteSet(rows)
  BY FS_CardinalityType DEF Numbered
<1>2. \A r \in rows : r.seq \in 1 .. n
  BY DEF Numbered
<1>3. new \notin rows
  BY <1>1, <1>2
<1>4. IsFiniteSet(more) /\ Cardinality(more) = n + 1
  BY <1>1, <1>3, FS_AddElement
<1>5. {r.seq : r \in more} = {r.seq : r \in rows} \cup {n + 1}
  OBVIOUS
<1>6. {r.seq : r \in more} = 1 .. n + 1
  BY <1>1, <1>5 DEF Numbered
<1>7. \A r, q \in more : r.seq = q.seq => r = q
  BY <1>1, <1>2 DEF Numbered
<1>8. Numbered(more)
  BY <1>4, <1>6, <1>7 DEF Numbered
<1>9. \A r \in rows : r.seq # new.seq
  BY <1>1, <1>2
<1> QED
  BY <1>4, <1>8, <1>9

-----------------------------------------------------------------------------
(* The statements that read.                                               *)
LEMMA SessionFacts ==
  ASSUME IInv, NEW s \in Session
  PROVE  /\ session[s] \in RequestType /\ Fine(s) /\ s # Nobody
         /\ \A next : Continue(s, next) => session'[s] = next
         /\ UNCHANGED <<committed, locks>> =>
              UNCHANGED <<row, records, payment, reversal, audit, taskLock, feeLock, feeShare>>
BY NobodyAssumption DEF IInv, SessionsOK, Continue, committed, locks

(* The variables of a handler that a read assigns.                         *)
LEMMA Assigned ==
  ASSUME NEW me \in RequestType,
         NEW pc \in {"held", "ready", "unreversed", "snapshot", "summary", "fee"}
  PROVE  /\ \A x \in RowType : [me EXCEPT !.pc = pc, !.row = x] \in RequestType
         /\ \A x \in Ledger!Payment : [me EXCEPT !.pc = pc, !.fee = x] \in RequestType
BY DEF RequestType

LEMMA BeginKeeps ==
  ASSUME IInv, NEW s \in Session, Begin(s)
  PROVE  IInv' /\ UNCHANGED committed
<1> USE StatusNames, SessionFacts
<1>1. PICK t \in Task, op \in Op, raw \in RawWeight \cup {0} :
        /\ op \in WeighingOp => raw \in RawWeight
        /\ Continue(s, [Idle EXCEPT !.pc = "begin", !.op = op, !.task = t, !.raw = raw])
  BY DEF Begin
<1> DEFINE next == [Idle EXCEPT !.pc = "begin", !.op = op, !.task = t, !.raw = raw]
<1>2. /\ next.pc = "begin" /\ next.op = op /\ next.task = t /\ next.raw = raw
      /\ next \in RequestType
  BY WeightAssumption, IdleType DEF Idle, RequestType
<1>3. session'[s] = next
  BY <1>1
<1> HIDE DEF next
<1>4. OwnFine(s)
  BY <1>1, <1>2, <1>3
     DEF OwnFine, Fine, Named, Holding, KnowsTask, KnowsRecords, KnowsFee, PastBegin
<1> QED
  BY <1>1, <1>2, <1>4, GoOnKeeps DEF Begin, next

(* The lock on a task, and its row as it is then.                          *)
LEMMA LockTaskKeeps ==
  ASSUME IInv, NEW s \in Session, LockTask(s)
  PROVE  IInv' /\ UNCHANGED committed
<1> USE StatusNames, SessionFacts DEF At
<1> DEFINE t == session[s].task
          next == [session[s] EXCEPT !.pc = "held", !.row = row[t]]
<1> SUFFICES ASSUME Live(row[t]), Continue(s, next), taskLock' = [taskLock EXCEPT ![t] = s],
                    UNCHANGED <<committed, feeLock, feeShare>>
             PROVE  IInv' /\ UNCHANGED committed
  BY LeaveKeeps DEF LockTask
<1>1. /\ session[s].op \in TaskOp /\ t \in Task /\ taskLock[t] = Nobody
      /\ session[s].op \in WeighingOp => session[s].raw \in RawWeight
      /\ UNCHANGED <<row, records, payment, reversal, audit>>
  BY DEF LockTask, TaskLockFree, Fine, Named, committed
<1>2. row[t] \in RowType
  BY <1>1 DEF IInv, DataFine, DataTypes
<1>3. /\ next.pc = "held" /\ next.op = session[s].op /\ next.task = t /\ next.row = row[t]
      /\ next.raw = session[s].raw /\ next \in RequestType
  <2>1. next \in RequestType
    BY <1>2, Assigned
  <2> QED
    BY <2>1 DEF RequestType
<1> HIDE DEF next
<1>4. taskLock'[t] = s /\ session'[s] = next
  BY <1>1 DEF IInv, LockTypes
<1>5. OwnFine(s)
  BY <1>1, <1>3, <1>4
     DEF OwnFine, Fine, Named, Holding, KnowsTask, KnowsRecords, KnowsFee, PastBegin
<1>6. LockTypes' /\ FeeLocksExclude'
  BY DEF IInv, LockTypes, FeeLocksExclude
<1>7. \A u \in Session \ {s}, k \in Task : taskLock'[k] = u <=> taskLock[k] = u
  BY <1>1, <1>4, NobodyAssumption DEF IInv, LockTypes
<1> QED
  BY <1>3, <1>5, <1>6, <1>7, ContinueKeeps

LEMMA ReadRecordsKeeps ==
  ASSUME IInv, NEW s \in Session, ReadRecords(s)
  PROVE  IInv' /\ UNCHANGED committed
<1> USE StatusNames, SessionFacts DEF At
<1> DEFINE me == session[s]
          t == me.task
          next == [me EXCEPT !.pc = "ready", !.seq = NextSequence(t)]
<1> SUFFICES ASSUME Weighed(me), me.op = "GROSS" => ~HasGrossRecord(t),
                    Cardinality(records[t]) < MaxReadings,
                    Continue(s, next), UNCHANGED <<committed, locks>>
             PROVE  IInv' /\ UNCHANGED committed
  BY LeaveKeeps DEF ReadRecords
<1>1. /\ me.op \in WeighingOp /\ me.pc = "held" /\ t \in Task /\ me.raw \in RawWeight
      /\ taskLock[t] = s /\ me.row = row[t] /\ Live(row[t]) /\ Permitted(me.op, me.row)
  BY DEF ReadRecords, Fine, Named, Holding, KnowsTask, PastBegin
<1>2. NextSequence(t) \in Nat
  <2>1. DataFine
    BY DEF IInv
  <2>2. records[t] \subseteq RecordType /\ Numbered(records[t])
    BY <1>1, <2>1 DEF DataFine, DataTypes
  <2> QED
    BY <2>2, NumbersFollow DEF NextSequence
<1>3. /\ next.pc = "ready" /\ next.op = me.op /\ next.task = t /\ next.row = me.row
      /\ next.raw = me.raw /\ next.seq = NextSequence(t) /\ next \in RequestType
  BY <1>2 DEF RequestType
<1>4. Weighed(next)
  BY <1>3 DEF Weighed
<1> HIDE DEF next
<1>5. OwnFine(s)
  BY <1>1, <1>3, <1>4
     DEF OwnFine, Fine, Named, Holding, KnowsTask, KnowsRecords, KnowsFee, PastBegin,
         NextSequence, HasGrossRecord, WeighingOp, TaskOp, FeeOp
<1> QED
  BY <1>3, <1>5, GoOnKeeps

LEMMA ReadFeeToCompleteKeeps ==
  ASSUME IInv, NEW s \in Session, ReadFeeToComplete(s)
  PROVE  IInv' /\ UNCHANGED committed
<1> USE StatusNames, SessionFacts DEF At
<1> DEFINE me == session[s]
          t == me.task
          next == [me EXCEPT !.pc = "ready", !.fee = payment[t]]
<1>1. /\ me.op = "COMPLETE" /\ me.pc = "held" /\ t \in Task
      /\ taskLock[t] = s /\ me.row = row[t] /\ Live(row[t]) /\ Permitted(me.op, me.row)
      /\ Continue(s, next) /\ UNCHANGED <<committed, locks>>
  BY DEF ReadFeeToComplete, Fine, Named, Holding, KnowsTask, PastBegin
<1>2. row[t].status = "GROSS_COMPLETED"
  BY <1>1 DEF Permitted
<1>3. payment[t] = "NONE"
  BY <1>1, <1>2 DEF IInv, DataFine
<1>4. /\ next.pc = "ready" /\ next.op = me.op /\ next.task = t /\ next.row = me.row
      /\ next.fee = payment[t] /\ next \in RequestType
  BY <1>3 DEF RequestType, Ledger!Payment
<1> HIDE DEF next
<1>5. session'[s] = next
  BY <1>1
<1>6. OwnFine(s)
  BY <1>1, <1>3, <1>4, <1>5
     DEF OwnFine, Fine, Named, Holding, KnowsTask, KnowsRecords, KnowsFee, PastBegin
<1> QED
  BY <1>1, <1>4, <1>6, GoOnKeeps

LEMMA LockFeeKeeps ==
  ASSUME IInv, NEW s \in Session, LockFee(s)
  PROVE  IInv' /\ UNCHANGED committed
<1> USE StatusNames, SessionFacts DEF At
<1> DEFINE me == session[s]
          t == me.task
          next == [me EXCEPT !.pc = "held", !.fee = payment[t]]
<1> SUFFICES ASSUME payment[t] # "NONE", FeeLockFree(t), Continue(s, next),
                    feeLock' = [feeLock EXCEPT ![t] = s],
                    UNCHANGED <<committed, taskLock, feeShare>>
             PROVE  IInv' /\ UNCHANGED committed
  BY LeaveKeeps DEF LockFee
<1>1. /\ me.op \in FeeOp /\ t \in Task
      /\ UNCHANGED <<row, records, payment, reversal, audit>>
  BY DEF LockFee, Fine, Named, committed
<1>2. payment[t] \in Ledger!Payment
  BY <1>1 DEF IInv, DataFine, DataTypes
<1>3. /\ next.pc = "held" /\ next.op = me.op /\ next.task = t /\ next.fee = payment[t]
      /\ next \in RequestType
  <2>1. next \in RequestType
    BY <1>2, Assigned
  <2> QED
    BY <2>1 DEF RequestType
<1> HIDE DEF next
<1>4. feeLock'[t] = s /\ session'[s] = next
  BY <1>1 DEF IInv, LockTypes
<1>5. OwnFine(s)
  BY <1>1, <1>3, <1>4
     DEF OwnFine, Fine, Named, Holding, KnowsTask, KnowsRecords, KnowsFee, PastBegin
<1>6. LockTypes' /\ FeeLocksExclude'
  BY <1>1 DEF IInv, LockTypes, FeeLocksExclude, FeeLockFree
<1>7. \A u \in Session \ {s}, k \in Task : feeLock'[k] = u <=> feeLock[k] = u
  BY <1>1, <1>4, NobodyAssumption DEF IInv, LockTypes, FeeLockFree
<1> QED
  BY <1>3, <1>5, <1>6, <1>7, ContinueKeeps

LEMMA CheckReversalKeeps ==
  ASSUME IInv, NEW s \in Session, CheckReversal(s)
  PROVE  IInv' /\ UNCHANGED committed
<1> USE StatusNames, SessionFacts DEF At
<1> DEFINE me == session[s]
          t == me.task
          next == [me EXCEPT !.pc = "ready"]
<1> SUFFICES ASSUME reversal[t] = "NONE", me.fee = "UNPAID", Continue(s, next),
                    UNCHANGED <<committed, locks>>
             PROVE  IInv' /\ UNCHANGED committed
  BY LeaveKeeps DEF CheckReversal
<1>1. /\ me.op \in FeeOp /\ me.pc = "held" /\ t \in Task /\ feeLock[t] = s
      /\ me.fee = payment[t]
  BY DEF CheckReversal, Fine, Named, Holding, KnowsFee, PastBegin
<1>2. /\ next.pc = "ready" /\ next.op = me.op /\ next.task = t /\ next.fee = me.fee
      /\ next \in RequestType
  BY DEF RequestType
<1> HIDE DEF next
<1>3. session'[s] = next
  OBVIOUS
<1>4. OwnFine(s)
  BY <1>1, <1>2, <1>3
     DEF OwnFine, Fine, Named, Holding, KnowsTask, KnowsRecords, KnowsFee, PastBegin
<1> QED
  BY <1>2, <1>4, GoOnKeeps

(* reverse: the missing reversal, then the fee, which it does not lock.    *)
LEMMA ReadReversalKeeps ==
  ASSUME IInv, NEW s \in Session, ReadReversal(s)
  PROVE  IInv' /\ UNCHANGED committed
<1> USE StatusNames, SessionFacts DEF At
<1> DEFINE me == session[s]
          t == me.task
          next == [me EXCEPT !.pc = "unreversed"]
<1> SUFFICES ASSUME reversal[t] = "NONE", Continue(s, next), UNCHANGED <<committed, locks>>
             PROVE  IInv' /\ UNCHANGED committed
  BY LeaveKeeps DEF ReadReversal
<1>1. /\ me.op = "REVERSE" /\ me.pc = "held" /\ t \in Task /\ taskLock[t] = s
      /\ me.row = row[t] /\ Live(row[t]) /\ Permitted(me.op, me.row)
  BY DEF ReadReversal, Fine, Named, Holding, KnowsTask, PastBegin
<1>2. /\ next.pc = "unreversed" /\ next.op = me.op /\ next.task = t /\ next.row = me.row
      /\ next \in RequestType
  BY DEF RequestType
<1> HIDE DEF next
<1>3. session'[s] = next
  OBVIOUS
<1>4. OwnFine(s)
  BY <1>1, <1>2, <1>3
     DEF OwnFine, Fine, Named, Holding, KnowsTask, KnowsRecords, KnowsFee, PastBegin
<1> QED
  BY <1>2, <1>4, GoOnKeeps

LEMMA ReadFeeToReverseKeeps ==
  ASSUME IInv, NEW s \in Session, ReadFeeToReverse(s)
  PROVE  IInv' /\ UNCHANGED committed
<1> USE StatusNames, SessionFacts DEF At
<1> DEFINE me == session[s]
          t == me.task
          next == [me EXCEPT !.pc = "snapshot", !.fee = payment[t]]
<1> SUFFICES ASSUME payment[t] # "PAID", Continue(s, next), UNCHANGED <<committed, locks>>
             PROVE  IInv' /\ UNCHANGED committed
  BY LeaveKeeps DEF ReadFeeToReverse
<1>1. /\ me.op = "REVERSE" /\ me.pc = "unreversed" /\ t \in Task /\ taskLock[t] = s
      /\ me.row = row[t] /\ Live(row[t]) /\ Permitted(me.op, me.row) /\ reversal[t] = "NONE"
  BY DEF ReadFeeToReverse, Fine, Named, Holding, KnowsTask, KnowsFee, PastBegin
<1>2. payment[t] \in Ledger!Payment /\ payment[t] \in {"NONE", "UNPAID", "WAIVED"}
  BY <1>1 DEF IInv, DataFine, DataTypes, Ledger!Payment
<1>3. /\ next.pc = "snapshot" /\ next.op = me.op /\ next.task = t /\ next.row = me.row
      /\ next.fee = payment[t] /\ next \in RequestType
  <2>1. next \in RequestType
    BY <1>2, Assigned
  <2> QED
    BY <2>1 DEF RequestType
<1> HIDE DEF next
<1>4. session'[s] = next
  OBVIOUS
<1>5. OwnFine(s)
  BY <1>1, <1>2, <1>3, <1>4
     DEF OwnFine, Fine, Named, Holding, KnowsTask, KnowsRecords, KnowsFee, PastBegin
<1> QED
  BY <1>3, <1>5, GoOnKeeps

(* The insert waits for the holder of the fee and then keeps others out.   *)
LEMMA FlushReversalKeeps ==
  ASSUME IInv, NEW s \in Session, FlushReversal(s)
  PROVE  IInv' /\ UNCHANGED committed
<1> USE StatusNames, SessionFacts DEF At
<1> DEFINE me == session[s]
          t == me.task
          next == [me EXCEPT !.pc = "ready"]
          shares == IF me.fee = "NONE" THEN feeShare[t] ELSE feeShare[t] \cup {s}
<1> SUFFICES ASSUME me.fee # "NONE" => KeyShareFree(t), Continue(s, next),
                    feeShare' = [feeShare EXCEPT ![t] = shares],
                    UNCHANGED <<committed, taskLock, feeLock>>
             PROVE  IInv' /\ UNCHANGED committed
  BY LeaveKeeps DEF FlushReversal
<1>1. /\ me.op = "REVERSE" /\ me.pc = "snapshot" /\ t \in Task /\ taskLock[t] = s
      /\ me.row = row[t] /\ Live(row[t]) /\ Permitted(me.op, me.row) /\ reversal[t] = "NONE"
      /\ me.fee \in {"NONE", "UNPAID", "WAIVED"}
      /\ me.fee = "NONE" <=> payment[t] = "NONE"
      /\ me.fee = "WAIVED" => payment[t] = "WAIVED"
      /\ UNCHANGED <<row, records, payment, reversal, audit>>
  BY DEF FlushReversal, Fine, Named, Holding, KnowsTask, KnowsFee, PastBegin, committed
<1>2. /\ next.pc = "ready" /\ next.op = me.op /\ next.task = t /\ next.row = me.row
      /\ next.fee = me.fee /\ next \in RequestType
  BY DEF RequestType
<1> HIDE DEF next
<1>3. session'[s] = next /\ feeShare'[t] = shares
  BY <1>1 DEF IInv, LockTypes
<1>4. OwnFine(s)
  BY <1>1, <1>2, <1>3
     DEF OwnFine, Fine, Named, Holding, KnowsTask, KnowsRecords, KnowsFee, PastBegin
<1>5. LockTypes' /\ FeeLocksExclude'
  BY <1>1, <1>3 DEF IInv, LockTypes, FeeLocksExclude, KeyShareFree
<1>6. \A u \in Session \ {s}, k \in Task : u \in feeShare'[k] <=> u \in feeShare[k]
  BY <1>1, <1>3 DEF IInv, LockTypes
<1> QED
  BY <1>2, <1>4, <1>5, <1>6, ContinueKeeps

(* The page of a task's details: five reads without a lock.                *)
LEMMA ViewKeeps ==
  ASSUME IInv, NEW s \in Session,
         ViewTask(s) \/ ViewFee(s) \/ ViewReversal(s) \/ ViewRecords(s)
  PROVE  IInv' /\ UNCHANGED committed
<1> USE StatusNames, SessionFacts DEF At
<1> DEFINE me == session[s]
          t == me.task
<1>1. /\ me.op = "VIEW" /\ t \in Task /\ row[t] \in RowType /\ payment[t] \in Ledger!Payment
      /\ reversal[t] \in Ledger!Reversal /\ records[t] \in SUBSET RecordType
  BY DEF ViewTask, ViewFee, ViewReversal, ViewRecords, Fine, Named, IInv, DataFine, DataTypes
<1>2. ASSUME NEW next \in RequestType, next.op = "VIEW", next.task = t, Continue(s, next),
             UNCHANGED <<committed, locks>>
      PROVE  IInv' /\ UNCHANGED committed
  <2>1. OwnFine(s)
    BY <1>1, <1>2
       DEF OwnFine, Fine, Named, Holding, KnowsTask, KnowsRecords, KnowsFee
  <2> QED
    BY <1>2, <2>1, GoOnKeeps
<1>3. CASE ViewTask(s)
  <2> DEFINE next == [me EXCEPT !.pc = "summary", !.row = row[t]]
  <2>1. next \in RequestType /\ next.op = "VIEW" /\ next.task = t
    BY <1>1 DEF RequestType
  <2> HIDE DEF next
  <2> QED
    BY <1>2, <1>3, <2>1, LeaveKeeps DEF ViewTask, next
<1>4. CASE ViewFee(s)
  <2> DEFINE next == [me EXCEPT !.pc = "fee", !.fee = payment[t]]
  <2>1. next \in RequestType /\ next.op = "VIEW" /\ next.task = t
    BY <1>1 DEF RequestType
  <2> HIDE DEF next
  <2> QED
    BY <1>2, <1>4, <2>1 DEF ViewFee, next
<1>5. CASE ViewReversal(s)
  <2> DEFINE next == [me EXCEPT !.pc = "reversal", !.rev = reversal[t]]
  <2>1. next \in RequestType /\ next.op = "VIEW" /\ next.task = t
    BY <1>1 DEF RequestType
  <2> HIDE DEF next
  <2> QED
    BY <1>2, <1>5, <2>1 DEF ViewReversal, next
<1>6. CASE ViewRecords(s)
  <2> DEFINE next == [me EXCEPT !.pc = "shown", !.records = records[t]]
  <2>1. next \in RequestType /\ next.op = "VIEW" /\ next.task = t
    BY <1>1 DEF RequestType
  <2> HIDE DEF next
  <2> QED
    BY <1>2, <1>6, <2>1, LeaveKeeps DEF ViewRecords, ShownRecords, next
<1> QED
  BY <1>3, <1>4, <1>5, <1>6
-----------------------------------------------------------------------------
(* The rows as the ledger sees them.                                       *)

(* The ledger's arithmetic is that of the requests.                        *)
LEMMA SameArithmetic ==
  /\ \A raw : Ledger!QuantizeTons(raw) = QuantizeTons(raw) /\ Ledger!RawOf(raw) = RawOf(raw)
  /\ \A a, b, c : /\ Ledger!Calculable(a, b, c) = Calculable(a, b, c)
                  /\ Ledger!CalculateWeight(a, b, c) = CalculateWeight(a, b, c)
                  /\ Ledger!WeightVerdict(a, b, c) = WeightVerdict(a, b, c)
  /\ Ledger!Unweighed = Unweighed
BY DEF Ledger!QuantizeTons, QuantizeTons, Ledger!RawOf, RawOf, Ledger!RawPerTick, RawPerTick,
       Ledger!Calculable, Calculable, Ledger!CalculateWeight, CalculateWeight,
       Ledger!WeightVerdict, WeightVerdict, Ledger!Weighable, Weighable, Ledger!Parts, Parts,
       Ledger!IsNormal, IsNormal, Ledger!Unweighed, Unweighed

LEMMA Arithmetic ==
  /\ \A raw \in Nat : QuantizeTons(raw) \in Nat
  /\ \A ticks \in Nat : RawOf(ticks) \in Nat
  /\ \A a, b, c \in Nat : /\ CalculateWeight(a, b, c) \in Ledger!VerdictType
                          /\ CalculateWeight(a, b, c).result \in {"NORMAL", "OVERWEIGHT"}
<1>1. /\ \A raw \in Nat : QuantizeTons(raw) \in Nat
      /\ \A ticks \in Nat : RawOf(ticks) \in Nat
  BY DEF QuantizeTons, RawOf, RawPerTick
<1>2. \A a, b, c \in Nat : /\ WeightVerdict(a, b, c) \in Ledger!VerdictType
                          /\ WeightVerdict(a, b, c).result \in {"NORMAL", "OVERWEIGHT"}
  BY DEF WeightVerdict, Parts, IsNormal, Ledger!VerdictType, Ledger!Verdicts
<1> QED
  BY <1>1, <1>2 DEF CalculateWeight

(* A row stands in ORDER BY sequence_no where its number says.             *)
LEMMA OrderIsNumber ==
  ASSUME NEW rows, Numbered(rows), NEW r \in rows
  PROVE  /\ r.seq \in 1 .. Cardinality(rows)
         /\ InOrder(rows)[r.seq] = r
<1> DEFINE n == Cardinality(rows)
          UpTo(x) == {q \in rows : q.seq <= x.seq}
<1>1. n \in Nat /\ \A x \in rows : x.seq \in 1 .. n
  BY FS_CardinalityType DEF Numbered
<1>2. ASSUME NEW x \in rows PROVE Cardinality(UpTo(x)) = x.seq
  <2> DEFINE f == [q \in UpTo(x) |-> q.seq]
  <2>1. x.seq \in Nat /\ x.seq <= n
    BY <1>1
  <2>2. f \in [UpTo(x) -> 1 .. x.seq]
    BY <1>1
  <2>3. \A i \in 1 .. x.seq : \E q \in UpTo(x) : f[q] = i
    BY <1>1 DEF Numbered
  <2>4. f \in Bijection(UpTo(x), 1 .. x.seq)
    BY <2>2, <2>3 DEF Numbered, Bijection, Injection, IsInjective, Surjection
  <2>5. ExistsBijection(UpTo(x), 1 .. x.seq)
    BY <2>4 DEF ExistsBijection
  <2>6. IsFiniteSet(UpTo(x))
    BY FS_Subset DEF Numbered
  <2>7. Cardinality(1 .. x.seq) = x.seq
    BY <2>1, FS_Interval
  <2> QED
    BY <2>5, <2>6, <2>7, FS_Bijection
<1>3. \A x \in rows : Cardinality(UpTo(x)) = r.seq => x = r
  BY <1>2 DEF Numbered
<1>4. r.seq \in 1 .. n /\ Cardinality(UpTo(r)) = r.seq
  BY <1>1, <1>2
<1>5. InOrder(rows)[r.seq] = CHOOSE x \in rows : Cardinality(UpTo(x)) = r.seq
  BY <1>4 DEF InOrder
<1> HIDE DEF UpTo
<1> QED
  BY <1>3, <1>4, <1>5

LEMMA OrderOfNumber ==
  ASSUME NEW rows, Numbered(rows), NEW i \in 1 .. Cardinality(rows)
  PROVE  InOrder(rows)[i] \in rows /\ InOrder(rows)[i].seq = i
<1>1. PICK r \in rows : r.seq = i
  BY DEF Numbered
<1> QED
  BY <1>1, OrderIsNumber

(* The row with the next number comes last.                                *)
LEMMA OrderGrows ==
  ASSUME NEW rows, Numbered(rows), NEW new, new.seq = Cardinality(rows) + 1
  PROVE  LET more == rows \cup {new} IN
         /\ InOrder(more)[Cardinality(rows) + 1] = new
         /\ \A i \in 1 .. Cardinality(rows) : InOrder(more)[i] = InOrder(rows)[i]
<1> DEFINE more == rows \cup {new}
<1>1. Numbered(more)
  BY NumbersGrow
<1>2. InOrder(more)[new.seq] = new
  BY <1>1, OrderIsNumber
<1>3. ASSUME NEW i \in 1 .. Cardinality(rows) PROVE InOrder(more)[i] = InOrder(rows)[i]
  <2>1. InOrder(rows)[i] \in rows /\ InOrder(rows)[i].seq = i
    BY OrderOfNumber
  <2>2. InOrder(more)[InOrder(rows)[i].seq] = InOrder(rows)[i]
    BY <1>1, <2>1, OrderIsNumber
  <2> QED
    BY <2>1, <2>2
<1> QED
  BY <1>2, <1>3

LEMMA SequenceGrows ==
  ASSUME NEW n \in Nat, NEW S, NEW f \in [1 .. n -> S], NEW g \in [1 .. n + 1 -> S],
         \A i \in 1 .. n : g[i] = f[i]
  PROVE  Len(f) = n /\ Append(f, g[n + 1]) = g
<1> DEFINE x == g[n + 1]
<1>1. f \in Seq(S) /\ x \in S
  OBVIOUS
<1>2. DOMAIN f = 1 .. n /\ Len(f) \in Nat /\ DOMAIN f = 1 .. Len(f)
  BY <1>1, LenProperties
<1>3. Len(f) = n
  BY <1>2
<1>4. /\ Append(f, x) \in Seq(S) /\ Len(Append(f, x)) = n + 1
      /\ \A i \in 1 .. n : Append(f, x)[i] = f[i]
      /\ Append(f, x)[n + 1] = x
  BY <1>1, <1>3, AppendProperties
<1>5. Append(f, x) \in [1 .. n + 1 -> S]
  BY <1>4, LenProperties
<1>6. \A i \in 1 .. n + 1 : Append(f, x)[i] = g[i]
  BY <1>4
<1> HIDE DEF x
<1>7. Append(f, x) = g
  BY <1>5, <1>6
<1> QED
  BY <1>3, <1>7 DEF x

LEMMA ReadingsGrow ==
  ASSUME DataFine, NEW t \in Task, NEW new, new.seq = Cardinality(records[t]) + 1,
         records' = [records EXCEPT ![t] = @ \cup {new}]
  PROVE  /\ ReadingsOf(t)' = Append(ReadingsOf(t), StoredReading(new))
         /\ \A k \in Task \ {t} : ReadingsOf(k)' = ReadingsOf(k)
         /\ Len(ReadingsOf(t)) = Cardinality(records[t])
<1> DEFINE rows == records[t]
          n == Cardinality(rows)
<1>1. /\ Numbered(rows) /\ n \in Nat /\ records'[t] = rows \cup {new}
      /\ \A k \in Task \ {t} : records'[k] = records[k]
  BY FS_CardinalityType DEF DataFine, DataTypes, Numbered
<1>2. Cardinality(records'[t]) = n + 1
  BY <1>1, NumbersGrow
<1>3. /\ InOrder(records'[t])[n + 1] = new
      /\ \A i \in 1 .. n : InOrder(records'[t])[i] = InOrder(rows)[i]
  BY <1>1, OrderGrows
<1> DEFINE S == {StoredReading(r) : r \in records'[t]}
          f == ReadingsOf(t)
          g == ReadingsOf(t)'
          old == InOrder(rows)
          now == InOrder(records'[t])
<1>4. n \in Nat /\ \A i \in 1 .. n : i \in 1 .. n + 1
  BY <1>1
<1>5. /\ \A i \in 1 .. n + 1 : now[i] \in records'[t]
      /\ \A i \in 1 .. n : now[i] = old[i]
      /\ now[n + 1] = new
  BY <1>1, <1>2, <1>3, NumbersGrow, OrderOfNumber
<1>6. /\ f = [i \in 1 .. n |-> StoredReading(old[i])]
      /\ g = [i \in 1 .. n + 1 |-> StoredReading(now[i])]
  BY <1>2 DEF ReadingsOf
<1>7. \A k \in Task \ {t} : ReadingsOf(k)' = ReadingsOf(k)
  BY <1>1 DEF ReadingsOf
<1> HIDE DEF f, g, n, old, now
<1>8. f \in [1 .. n -> S] /\ g \in [1 .. n + 1 -> S] /\ \A i \in 1 .. n : g[i] = f[i]
  <2>1. \A i \in 1 .. n + 1 : StoredReading(now[i]) \in S
    BY <1>5
  <2>2. \A i \in 1 .. n : StoredReading(old[i]) \in S /\ StoredReading(old[i]) = StoredReading(now[i])
    BY <1>4, <1>5, <2>1
  <2> HIDE DEF S
  <2> QED
    BY <1>4, <1>6, <2>1, <2>2
<1>9. Len(f) = n /\ Append(f, g[n + 1]) = g
  BY <1>4, <1>8, SequenceGrows
<1>10. g[n + 1] = StoredReading(new)
  BY <1>4, <1>5, <1>6
<1> QED
  BY <1>7, <1>9, <1>10 DEF f, g, n

(* An UPDATE of a row, column by column: a column that keeps the value it  *)
(* has does not change.                                                    *)
LEMMA Columns ==
  ASSUME row \in [Task -> RowType], NEW t \in Task, NEW new,
         row' = [row EXCEPT ![t] = new]
  PROVE  /\ [k \in Task |-> row'[k].status]
              = [[k \in Task |-> row[k].status] EXCEPT ![t] = new.status]
         /\ [k \in Task |-> row'[k].deleted]
              = [[k \in Task |-> row[k].deleted] EXCEPT ![t] = new.deleted]
         /\ [k \in Task |-> row'[k].allowed]
              = [[k \in Task |-> row[k].allowed] EXCEPT ![t] = new.allowed]
         /\ [k \in Task |-> row'[k].tare]
              = [[k \in Task |-> row[k].tare] EXCEPT ![t] = new.tare]
         /\ [k \in Task |-> row'[k].verdict]
              = [[k \in Task |-> row[k].verdict] EXCEPT ![t] = new.verdict]
         /\ [k \in Task |-> row'[k].version]
              = [[k \in Task |-> row[k].version] EXCEPT ![t] = new.version]
         /\ new.status = row[t].status =>
              [k \in Task |-> row'[k].status] = [k \in Task |-> row[k].status]
         /\ new.deleted = row[t].deleted =>
              [k \in Task |-> row'[k].deleted] = [k \in Task |-> row[k].deleted]
         /\ new.allowed = row[t].allowed =>
              [k \in Task |-> row'[k].allowed] = [k \in Task |-> row[k].allowed]
         /\ new.tare = row[t].tare =>
              [k \in Task |-> row'[k].tare] = [k \in Task |-> row[k].tare]
         /\ new.verdict = row[t].verdict =>
              [k \in Task |-> row'[k].verdict] = [k \in Task |-> row[k].verdict]
         /\ new.version = row[t].version =>
              [k \in Task |-> row'[k].version] = [k \in Task |-> row[k].version]
OBVIOUS
-----------------------------------------------------------------------------
(* The commits under the lock of a task: at most one reading more, a fee   *)
(* where there was none.                                                   *)
LEMMA CommitKeeps ==
  ASSUME IInv, NEW s \in Session, NEW t \in Task, taskLock[t] = s, EndSession(s),
         NEW new \in RowType, row' = [row EXCEPT ![t] = new],
         NEW rows \in SUBSET RecordType, Numbered(rows), records' = [records EXCEPT ![t] = rows],
         NEW pay \in Ledger!Payment, payment' = [payment EXCEPT ![t] = pay],
         pay # payment[t] => payment[t] = "NONE", pay # "NONE" => new.status = "COMPLETED",
         reversal' = reversal, audit' \in [Task -> [Ledger!AuditAction -> Nat]]
  PROVE  IInv'
<1>1. DataFine /\ s # Nobody
  BY NobodyAssumption DEF IInv
<1>2. /\ row'[t] = new /\ records'[t] = rows /\ payment'[t] = pay
      /\ \A k \in Task \ {t} :
           row'[k] = row[k] /\ records'[k] = records[k] /\ payment'[k] = payment[k]
  BY <1>1 DEF DataFine, DataTypes
<1>3. DataTypes'
  BY <1>1 DEF DataFine, DataTypes
<1>4. DataFine'
  BY <1>1, <1>2, <1>3 DEF DataFine
<1>5. DataMove(s)
  BY <1>1, <1>2 DEF DataMove
<1> QED
  BY <1>4, <1>5, EndKeeps

LEMMA LoggedType ==
  ASSUME DataTypes, NEW t \in Task, NEW action \in Ledger!AuditAction,
         audit' = Ledger!Logged(t, action)
  PROVE  audit' \in [Task -> [Ledger!AuditAction -> Nat]]
BY DEF DataTypes, Ledger!Logged

(* What a session that is past the lock of its task knows of it.           *)
LEMMA TaskFacts ==
  ASSUME IInv, NEW s \in Session, session[s].op \in TaskOp, PastBegin(s)
  PROVE  \E t \in Task :
           /\ session[s].task = t /\ taskLock[t] = s /\ session[s].row = row[t] /\ Live(row[t])
           /\ session[s].pc # "held" => Permitted(session[s].op, row[t])
           /\ row \in [Task -> RowType] /\ row[t] \in RowType
           /\ DataFine /\ DataTypes /\ Numbered(records[t]) /\ records[t] \subseteq RecordType
           /\ payment[t] \in Ledger!Payment
           /\ records = [records EXCEPT ![t] = records[t]]
           /\ payment = [payment EXCEPT ![t] = payment[t]]
           /\ payment[t] # "NONE" => row[t].status = "COMPLETED"
BY SessionFacts DEF Fine, Named, Holding, KnowsTask, PastBegin, IInv, DataFine, DataTypes

(* What the handlers assign to a row.                                      *)
LEMMA RowAssigned ==
  ASSUME NEW r \in RowType, NEW status \in Ledger!Status, NEW version \in Nat
  PROVE  /\ r.version + 1 \in Nat
         /\ \A b \in BOOLEAN : [r EXCEPT !.deleted = b] \in RowType
         /\ [r EXCEPT !.status = status, !.version = version] \in RowType
         /\ \A x \in Nat :
              /\ [r EXCEPT !.status = status, !.tare = x, !.version = version] \in RowType
              /\ [r EXCEPT !.status = status, !.version = version, !.allowed = x] \in RowType
         /\ \A x \in Ledger!VerdictType :
              [r EXCEPT !.status = status, !.verdict = x, !.version = version] \in RowType
<1>1. r.version + 1 \in Nat
  BY DEF RowType
<1>2. [r EXCEPT !.status = status, !.version = version] \in RowType
  BY DEF RowType
<1>3. ASSUME NEW x \in Nat
      PROVE  [r EXCEPT !.status = status, !.tare = x, !.version = version] \in RowType
  BY DEF RowType
<1>4. ASSUME NEW x \in Nat
      PROVE  [r EXCEPT !.status = status, !.version = version, !.allowed = x] \in RowType
  BY DEF RowType
<1>5. ASSUME NEW x \in Ledger!VerdictType
      PROVE  [r EXCEPT !.status = status, !.verdict = x, !.version = version] \in RowType
  BY DEF RowType
<1>6. \A b \in BOOLEAN : [r EXCEPT !.deleted = b] \in RowType
  BY DEF RowType
<1> QED
  BY <1>1, <1>2, <1>6, <1>3, <1>4, <1>5

LEMMA SameReadings ==
  ASSUME UNCHANGED records
  PROVE  [k \in Task |-> ReadingsOf(k)]' = [k \in Task |-> ReadingsOf(k)]
BY DEF ReadingsOf

(* The ledger's actions, seen from an UPDATE of a row.                     *)
LEMMA LedgerPrepares ==
  ASSUME row \in [Task -> RowType], NEW t \in Task, Live(row[t]),
         row[t].status = "TARE_COMPLETED",
         row' = [row EXCEPT ![t] = [row[t] EXCEPT !.status = "WAIT_GROSS",
                                                  !.version = row[t].version + 1]],
         UNCHANGED <<records, payment, reversal, audit>>
  PROVE  Ledger!PrepareForGross(t)
<1> DEFINE new == [row[t] EXCEPT !.status = "WAIT_GROSS", !.version = row[t].version + 1]
<1>1. /\ new.status = "WAIT_GROSS" /\ new.version = row[t].version + 1
      /\ new.deleted = row[t].deleted /\ new.allowed = row[t].allowed
      /\ new.tare = row[t].tare /\ new.verdict = row[t].verdict
  BY DEF RowType
<1> HIDE DEF new
<1>2. row' = [row EXCEPT ![t] = new]
  BY DEF new
<1> QED
  BY <1>1, <1>2, Columns, SameReadings
     DEF Ledger!PrepareForGross, Ledger!Live, Live, Ledger!rowVars

LEMMA LedgerDeletes ==
  ASSUME row \in [Task -> RowType], NEW t \in Task, Live(row[t]),
         row[t].status \in Ledger!DeletableStatuses,
         row' = [row EXCEPT ![t] = [row[t] EXCEPT !.deleted = TRUE]],
         audit' = Ledger!Logged(t, "WEIGHING_TASK_DELETED"),
         UNCHANGED <<records, payment, reversal>>
  PROVE  Ledger!DeleteTask(t)
<1> DEFINE new == [row[t] EXCEPT !.deleted = TRUE]
<1>1. /\ new.status = row[t].status /\ new.version = row[t].version
      /\ new.deleted = TRUE /\ new.allowed = row[t].allowed
      /\ new.tare = row[t].tare /\ new.verdict = row[t].verdict
  BY DEF RowType
<1> HIDE DEF new
<1>2. row' = [row EXCEPT ![t] = new]
  BY DEF new
<1>3. /\ [k \in Task |-> row'[k].deleted]
           = [[k \in Task |-> row[k].deleted] EXCEPT ![t] = TRUE]
      /\ [k \in Task |-> row'[k].status] = [k \in Task |-> row[k].status]
      /\ [k \in Task |-> row'[k].allowed] = [k \in Task |-> row[k].allowed]
      /\ [k \in Task |-> row'[k].tare] = [k \in Task |-> row[k].tare]
      /\ [k \in Task |-> row'[k].verdict] = [k \in Task |-> row[k].verdict]
      /\ [k \in Task |-> row'[k].version] = [k \in Task |-> row[k].version]
  BY <1>1, <1>2, Columns
<1>4. Ledger!Live(t) /\ [k \in Task |-> row[k].status][t] \in Ledger!DeletableStatuses
  BY DEF Ledger!Live, Live
<1> QED
  BY <1>3, <1>4, SameReadings DEF Ledger!DeleteTask

LEMMA LedgerCancels ==
  ASSUME row \in [Task -> RowType], NEW t \in Task, Live(row[t]),
         row[t].status \in Ledger!CancellableStatuses,
         row' = [row EXCEPT ![t] = [row[t] EXCEPT !.status = "CANCELLED",
                                                  !.version = row[t].version + 1]],
         audit' = Ledger!Logged(t, "WEIGHING_TASK_CANCELLED"),
         UNCHANGED <<records, payment, reversal>>
  PROVE  Ledger!CancelTask(t)
<1> DEFINE new == [row[t] EXCEPT !.status = "CANCELLED", !.version = row[t].version + 1]
<1>1. /\ new.status = "CANCELLED" /\ new.version = row[t].version + 1
      /\ new.deleted = row[t].deleted /\ new.allowed = row[t].allowed
      /\ new.tare = row[t].tare /\ new.verdict = row[t].verdict
  BY DEF RowType
<1> HIDE DEF new
<1>2. row' = [row EXCEPT ![t] = new]
  BY DEF new
<1>3. /\ [k \in Task |-> row'[k].status]
           = [[k \in Task |-> row[k].status] EXCEPT ![t] = "CANCELLED"]
      /\ [k \in Task |-> row'[k].version]
           = [[k \in Task |-> row[k].version] EXCEPT ![t] = row[t].version + 1]
      /\ [k \in Task |-> row'[k].deleted] = [k \in Task |-> row[k].deleted]
      /\ [k \in Task |-> row'[k].allowed] = [k \in Task |-> row[k].allowed]
      /\ [k \in Task |-> row'[k].tare] = [k \in Task |-> row[k].tare]
      /\ [k \in Task |-> row'[k].verdict] = [k \in Task |-> row[k].verdict]
  <2>1. row'[t] = new /\ \A k \in Task : k # t => row'[k] = row[k]
    BY <1>2
  <2>2. \A k \in Task : /\ row'[k].deleted = row[k].deleted /\ row'[k].allowed = row[k].allowed
                         /\ row'[k].tare = row[k].tare /\ row'[k].verdict = row[k].verdict
    BY <1>1, <2>1
  <2>3. /\ [k \in Task |-> row'[k].deleted] = [k \in Task |-> row[k].deleted]
        /\ [k \in Task |-> row'[k].allowed] = [k \in Task |-> row[k].allowed]
        /\ [k \in Task |-> row'[k].tare] = [k \in Task |-> row[k].tare]
        /\ [k \in Task |-> row'[k].verdict] = [k \in Task |-> row[k].verdict]
    BY <2>2
  <2>4. /\ [k \in Task |-> row'[k].status] = [[k \in Task |-> row[k].status] EXCEPT ![t] = new.status]
        /\ [k \in Task |-> row'[k].version] = [[k \in Task |-> row[k].version] EXCEPT ![t] = new.version]
    BY <1>2, Columns
  <2> QED  BY <1>1, <2>3, <2>4
<1>4. [k \in Task |-> ReadingsOf(k)]' = [k \in Task |-> ReadingsOf(k)]
  BY SameReadings
<1>5. UNCHANGED Ledger!rowVars
  BY <1>3, <1>4 DEF Ledger!rowVars
<1>6. Ledger!Live(t) /\ [k \in Task |-> row[k].status][t] \in Ledger!CancellableStatuses
  BY DEF Ledger!Live, Live
<1>7. [k \in Task |-> row'[k].version]
        = [[k \in Task |-> row[k].version] EXCEPT ![t] = [k \in Task |-> row[k].version][t] + 1]
  BY <1>3
<1> QED
  BY <1>3, <1>5, <1>6, <1>7 DEF Ledger!CancelTask

LEMMA LedgerCompletes ==
  ASSUME row \in [Task -> RowType], NEW t \in Task, Live(row[t]),
         row[t].status = "GROSS_COMPLETED", row[t].verdict.result = "NORMAL",
         payment[t] = "NONE",
         row' = [row EXCEPT ![t] = [row[t] EXCEPT !.status = "COMPLETED",
                                                  !.version = row[t].version + 1]],
         payment' = [payment EXCEPT ![t] = "UNPAID"],
         audit' = Ledger!Logged(t, "WEIGHING_TASK_COMPLETED"),
         UNCHANGED <<records, reversal>>
  PROVE  Ledger!CompleteTask(t)
<1> DEFINE new == [row[t] EXCEPT !.status = "COMPLETED", !.version = row[t].version + 1]
<1>1. /\ new.status = "COMPLETED" /\ new.version = row[t].version + 1
      /\ new.deleted = row[t].deleted /\ new.allowed = row[t].allowed
      /\ new.tare = row[t].tare /\ new.verdict = row[t].verdict
  BY DEF RowType
<1> HIDE DEF new
<1>2. row' = [row EXCEPT ![t] = new]
  BY DEF new
<1>3. /\ [k \in Task |-> row'[k].status]
           = [[k \in Task |-> row[k].status] EXCEPT ![t] = "COMPLETED"]
      /\ [k \in Task |-> row'[k].version]
           = [[k \in Task |-> row[k].version] EXCEPT ![t] = row[t].version + 1]
      /\ [k \in Task |-> row'[k].deleted] = [k \in Task |-> row[k].deleted]
      /\ [k \in Task |-> row'[k].allowed] = [k \in Task |-> row[k].allowed]
      /\ [k \in Task |-> row'[k].tare] = [k \in Task |-> row[k].tare]
      /\ [k \in Task |-> row'[k].verdict] = [k \in Task |-> row[k].verdict]
  <2>1. row'[t] = new /\ \A k \in Task : k # t => row'[k] = row[k]
    BY <1>2
  <2>2. \A k \in Task : /\ row'[k].deleted = row[k].deleted /\ row'[k].allowed = row[k].allowed
                         /\ row'[k].tare = row[k].tare /\ row'[k].verdict = row[k].verdict
    BY <1>1, <2>1
  <2>3. /\ [k \in Task |-> row'[k].deleted] = [k \in Task |-> row[k].deleted]
        /\ [k \in Task |-> row'[k].allowed] = [k \in Task |-> row[k].allowed]
        /\ [k \in Task |-> row'[k].tare] = [k \in Task |-> row[k].tare]
        /\ [k \in Task |-> row'[k].verdict] = [k \in Task |-> row[k].verdict]
    BY <2>2
  <2>4. /\ [k \in Task |-> row'[k].status] = [[k \in Task |-> row[k].status] EXCEPT ![t] = new.status]
        /\ [k \in Task |-> row'[k].version] = [[k \in Task |-> row[k].version] EXCEPT ![t] = new.version]
    BY <1>2, Columns
  <2> QED  BY <1>1, <2>3, <2>4
<1>4. [k \in Task |-> ReadingsOf(k)]' = [k \in Task |-> ReadingsOf(k)]
  BY SameReadings
<1>5. UNCHANGED Ledger!rowVars
  BY <1>3, <1>4 DEF Ledger!rowVars
<1>6. Ledger!Live(t) /\ [k \in Task |-> row[k].status][t] = "GROSS_COMPLETED"
      /\ [k \in Task |-> row[k].verdict][t].result = "NORMAL"
  BY DEF Ledger!Live, Live
<1>7. [k \in Task |-> row'[k].version]
        = [[k \in Task |-> row[k].version] EXCEPT ![t] = [k \in Task |-> row[k].version][t] + 1]
  BY <1>3
<1> QED
  BY <1>3, <1>5, <1>6, <1>7 DEF Ledger!CompleteTask, Ledger!PaymentOnCompletion

(* A reading more, at the end.                                             *)
LEMMA ReadingsAppended ==
  ASSUME DataFine, NEW t \in Task, NEW record, record.seq = Cardinality(records[t]) + 1,
         records' = [records EXCEPT ![t] = @ \cup {record}]
  PROVE  /\ [k \in Task |-> ReadingsOf(k)]'
              = [[k \in Task |-> ReadingsOf(k)] EXCEPT ![t] = Append(@, StoredReading(record))]
         /\ Len(ReadingsOf(t)) = Cardinality(records[t])
<1>1. /\ ReadingsOf(t)' = Append(ReadingsOf(t), StoredReading(record))
      /\ \A k \in Task \ {t} : ReadingsOf(k)' = ReadingsOf(k)
      /\ Len(ReadingsOf(t)) = Cardinality(records[t])
  BY ReadingsGrow
<1> DEFINE f == [k \in Task |-> ReadingsOf(k)]
          g == [k \in Task |-> ReadingsOf(k)']
<1>2. g = [f EXCEPT ![t] = Append(f[t], StoredReading(record))]
  BY <1>1
<1> QED
  BY <1>1, <1>2

LEMMA LedgerTares ==
  ASSUME DataFine, NEW t \in Task, Live(row[t]), row[t].status = "WAIT_TARE",
         NEW raw \in RawWeight, QuantizeTons(raw) > 0,
         NEW new, row' = [row EXCEPT ![t] = new],
         new.status = "TARE_COMPLETED", new.tare = QuantizeTons(raw),
         new.version = row[t].version + 1, new.deleted = row[t].deleted,
         new.allowed = row[t].allowed, new.verdict = row[t].verdict,
         NEW record, records' = [records EXCEPT ![t] = @ \cup {record}],
         record.seq = Cardinality(records[t]) + 1, record.kind = "TARE",
         record.weight = QuantizeTons(raw),
         audit' = Ledger!Logged(t, "TARE_RECORDED"),
         UNCHANGED <<payment, reversal>>
  PROVE  Ledger!RecordTare(t)
<1>1. row \in [Task -> RowType]
  BY DEF DataFine, DataTypes
<1>2. /\ [k \in Task |-> row'[k].status]
           = [[k \in Task |-> row[k].status] EXCEPT ![t] = "TARE_COMPLETED"]
      /\ [k \in Task |-> row'[k].tare]
           = [[k \in Task |-> row[k].tare] EXCEPT ![t] = QuantizeTons(raw)]
      /\ [k \in Task |-> row'[k].version]
           = [[k \in Task |-> row[k].version] EXCEPT ![t] = row[t].version + 1]
      /\ [k \in Task |-> row'[k].deleted] = [k \in Task |-> row[k].deleted]
      /\ [k \in Task |-> row'[k].allowed] = [k \in Task |-> row[k].allowed]
      /\ [k \in Task |-> row'[k].verdict] = [k \in Task |-> row[k].verdict]
  BY <1>1, Columns
<1>3. Ledger!Live(t) /\ [k \in Task |-> row[k].status][t] = "WAIT_TARE"
  BY DEF Ledger!Live, Live
<1>4. [k \in Task |-> ReadingsOf(k)]'
        = [[k \in Task |-> ReadingsOf(k)] EXCEPT ![t] = Append(@, StoredReading(record))]
  BY ReadingsAppended
<1>5. StoredReading(record) = Ledger!Reading("TARE", QuantizeTons(raw))
  BY DEF StoredReading, Ledger!Reading
<1>6. Ledger!QuantizeTons(raw) = QuantizeTons(raw) /\ Ledger!Storable(QuantizeTons(raw))
  BY SameArithmetic DEF Ledger!Storable
<1>7. /\ [k \in Task |-> ReadingsOf(k)]'
           = [[k \in Task |-> ReadingsOf(k)] EXCEPT
                ![t] = Append(@, Ledger!Reading("TARE", Ledger!QuantizeTons(raw)))]
      /\ [k \in Task |-> row'[k].tare]
           = [[k \in Task |-> row[k].tare] EXCEPT ![t] = Ledger!QuantizeTons(raw)]
      /\ [k \in Task |-> row'[k].version]
           = [[k \in Task |-> row[k].version] EXCEPT ![t] = @ + 1]
      /\ Ledger!Storable(Ledger!QuantizeTons(raw))
  BY <1>2, <1>4, <1>6, <1>5
<1> QED
  BY <1>2, <1>3, <1>7 DEF Ledger!RecordTare

LEMMA LedgerGrosses ==
  ASSUME DataFine, NEW t \in Task, NEW kind \in {"GROSS", "REWEIGH"}, NEW raw \in RawWeight,
         Cardinality(records[t]) < MaxReadings, row[t].tare # 0,
         Calculable(RawOf(row[t].tare), raw, RawOf(row[t].allowed)),
         NEW verdict,
         verdict = CalculateWeight(RawOf(row[t].tare), raw, RawOf(row[t].allowed)),
         NEW new, row' = [row EXCEPT ![t] = new],
         new.status = Ledger!StatusAfterReading(verdict.result), new.verdict = verdict,
         new.version = row[t].version + 1, new.deleted = row[t].deleted,
         new.allowed = row[t].allowed, new.tare = row[t].tare,
         NEW record, records' = [records EXCEPT ![t] = @ \cup {record}],
         record.seq = Cardinality(records[t]) + 1, record.kind = kind,
         record.weight = QuantizeTons(raw),
         audit' = Ledger!Logged(t, Ledger!GrossAuditAction(kind)),
         UNCHANGED <<payment, reversal>>
  PROVE  Ledger!RecordGrossLike(t, kind, raw)
<1> DEFINE status == Ledger!StatusAfterReading(verdict.result)
<1>1. row \in [Task -> RowType] /\ new.status = status
  BY DEF DataFine, DataTypes
<1> HIDE DEF status
<1>2. /\ [k \in Task |-> row'[k].status]
           = [[k \in Task |-> row[k].status] EXCEPT ![t] = status]
      /\ [k \in Task |-> row'[k].verdict]
           = [[k \in Task |-> row[k].verdict] EXCEPT ![t] = verdict]
      /\ [k \in Task |-> row'[k].version]
           = [[k \in Task |-> row[k].version] EXCEPT ![t] = row[t].version + 1]
      /\ [k \in Task |-> row'[k].deleted] = [k \in Task |-> row[k].deleted]
      /\ [k \in Task |-> row'[k].allowed] = [k \in Task |-> row[k].allowed]
      /\ [k \in Task |-> row'[k].tare] = [k \in Task |-> row[k].tare]
  BY <1>1, Columns
<1>3. /\ [k \in Task |-> ReadingsOf(k)]'
           = [[k \in Task |-> ReadingsOf(k)] EXCEPT ![t] = Append(@, StoredReading(record))]
      /\ Len(ReadingsOf(t)) = Cardinality(records[t])
  BY ReadingsAppended
<1>4. StoredReading(record) = Ledger!Reading(kind, QuantizeTons(raw))
  BY DEF StoredReading, Ledger!Reading
<1>5. /\ Ledger!QuantizeTons(raw) = QuantizeTons(raw)
      /\ Ledger!RawOf(row[t].tare) = RawOf(row[t].tare)
      /\ Ledger!RawOf(row[t].allowed) = RawOf(row[t].allowed)
      /\ Ledger!Calculable(RawOf(row[t].tare), raw, RawOf(row[t].allowed))
      /\ Ledger!CalculateWeight(RawOf(row[t].tare), raw, RawOf(row[t].allowed)) = verdict
      /\ Ledger!SummaryAfterReading(t, verdict) = verdict
  BY SameArithmetic DEF Ledger!SummaryAfterReading
<1>6. /\ [k \in Task |-> row[k].tare][t] = row[t].tare
      /\ [k \in Task |-> row[k].allowed][t] = row[t].allowed
      /\ [k \in Task |-> ReadingsOf(k)][t] = ReadingsOf(t)
  OBVIOUS
<1>7. /\ Ledger!CalculateWeight(Ledger!RawOf([k \in Task |-> row[k].tare][t]), raw,
                                Ledger!RawOf([k \in Task |-> row[k].allowed][t])) = verdict
      /\ Ledger!Calculable(Ledger!RawOf([k \in Task |-> row[k].tare][t]), raw,
                           Ledger!RawOf([k \in Task |-> row[k].allowed][t]))
      /\ Len([k \in Task |-> ReadingsOf(k)][t]) < MaxReadings
      /\ [k \in Task |-> row[k].tare][t] # 0
  BY <1>3, <1>5, <1>6
<1>8. /\ [k \in Task |-> ReadingsOf(k)]'
           = [[k \in Task |-> ReadingsOf(k)] EXCEPT
                ![t] = Append(@, Ledger!Reading(kind, Ledger!QuantizeTons(raw)))]
      /\ [k \in Task |-> row'[k].verdict]
           = [[k \in Task |-> row[k].verdict] EXCEPT
                ![t] = Ledger!SummaryAfterReading(t, verdict)]
      /\ [k \in Task |-> row'[k].status]
           = [[k \in Task |-> row[k].status] EXCEPT
                ![t] = Ledger!StatusAfterReading(verdict.result)]
      /\ [k \in Task |-> row'[k].version]
           = [[k \in Task |-> row[k].version] EXCEPT ![t] = @ + 1]
  BY <1>2, <1>3, <1>5, <1>4 DEF status
<1> QED
  BY <1>2, <1>7, <1>8 DEF Ledger!RecordGrossLike

(* prepare_for_gross, delete_task and cancel_task.                         *)
LEMMA CommitTaskKeeps ==
  ASSUME IInv, NEW s \in Session, CommitTask(s)
  PROVE  IInv' /\ Ledger!Next
<1> USE DEF At
<1> DEFINE me == session[s]
<1>1. /\ me.op \in {"PREPARE", "DELETE", "CANCEL"} /\ me.op \in TaskOp /\ me.pc = "held"
      /\ PastBegin(s) /\ Permitted(me.op, me.row)
      /\ EndSession(s) /\ UNCHANGED <<records, payment, reversal>>
  BY DEF CommitTask, TaskOp, PastBegin
<1>2. PICK t \in Task :
        /\ me.task = t /\ taskLock[t] = s /\ me.row = row[t] /\ Live(row[t])
        /\ row \in [Task -> RowType] /\ row[t] \in RowType
        /\ DataFine /\ DataTypes /\ Numbered(records[t]) /\ records[t] \subseteq RecordType
        /\ payment[t] \in Ledger!Payment
        /\ records = [records EXCEPT ![t] = records[t]]
        /\ payment = [payment EXCEPT ![t] = payment[t]]
        /\ payment[t] # "NONE" => row[t].status = "COMPLETED"
  BY <1>1, TaskFacts
<1>3. row[t].status # "COMPLETED"
  BY <1>1, <1>2 DEF Permitted, Ledger!DeletableStatuses, Ledger!CancellableStatuses
<1>4. payment[t] = "NONE"
  BY <1>2, <1>3
<1>5. ASSUME NEW new \in RowType, row' = [row EXCEPT ![t] = new],
             audit' \in [Task -> [Ledger!AuditAction -> Nat]]
      PROVE  IInv'
  BY <1>1, <1>2, <1>4, <1>5, CommitKeeps
<1>6. CASE me.op = "PREPARE"
  <2>1. /\ row' = [row EXCEPT ![t] = [row[t] EXCEPT !.status = "WAIT_GROSS",
                                                    !.version = row[t].version + 1]]
        /\ audit' = audit
    BY <1>1, <1>2, <1>6 DEF CommitTask
  <2>2. Ledger!PrepareForGross(t)
    BY <1>1, <1>2, <1>6, <2>1, LedgerPrepares DEF Permitted
  <2>3. IInv'
    BY <1>2, <1>5, <2>1, RowAssigned DEF Ledger!Status, DataTypes
  <2> QED
    BY <2>2, <2>3 DEF Ledger!TaskStep, Ledger!Next
<1>7. CASE me.op = "DELETE"
  <2>1. /\ row' = [row EXCEPT ![t] = [row[t] EXCEPT !.deleted = TRUE]]
        /\ audit' = Ledger!Logged(t, "WEIGHING_TASK_DELETED")
    BY <1>1, <1>2, <1>7 DEF CommitTask
  <2>2. Ledger!DeleteTask(t)
    BY <1>1, <1>2, <1>7, <2>1, LedgerDeletes DEF Permitted
  <2>3. IInv'
    BY <1>2, <1>5, <2>1, RowAssigned, LoggedType DEF Ledger!Status, Ledger!AuditAction
  <2> QED
    BY <2>2, <2>3 DEF Ledger!TaskStep, Ledger!Next
<1>8. CASE me.op = "CANCEL"
  <2>1. /\ row' = [row EXCEPT ![t] = [row[t] EXCEPT !.status = "CANCELLED",
                                                    !.version = row[t].version + 1]]
        /\ audit' = Ledger!Logged(t, "WEIGHING_TASK_CANCELLED")
    BY <1>1, <1>2, <1>8 DEF CommitTask
  <2>2. Ledger!CancelTask(t)
    BY <1>1, <1>2, <1>8, <2>1, LedgerCancels DEF Permitted
  <2>3. IInv'
    BY <1>2, <1>5, <2>1, RowAssigned, LoggedType DEF Ledger!Status, Ledger!AuditAction
  <2> QED
    BY <2>2, <2>3 DEF Ledger!TaskStep, Ledger!Next
<1> QED
  BY <1>1, <1>6, <1>7, <1>8

(* complete_task: the new status and the fee.                              *)
LEMMA CommitCompletionKeeps ==
  ASSUME IInv, NEW s \in Session, CommitCompletion(s)
  PROVE  IInv' /\ Ledger!Next
<1> USE DEF At
<1> DEFINE me == session[s]
<1>1. /\ me.op = "COMPLETE" /\ me.op \in TaskOp /\ me.pc = "ready" /\ PastBegin(s)
      /\ EndSession(s) /\ UNCHANGED <<records, reversal>>
  BY DEF CommitCompletion, TaskOp, PastBegin
<1>2. PICK t \in Task :
        /\ me.task = t /\ taskLock[t] = s /\ me.row = row[t] /\ Live(row[t])
        /\ Permitted(me.op, row[t]) /\ row \in [Task -> RowType] /\ row[t] \in RowType
        /\ DataFine /\ DataTypes /\ Numbered(records[t]) /\ records[t] \subseteq RecordType
        /\ records = [records EXCEPT ![t] = records[t]]
  BY <1>1, TaskFacts
<1>3. me.fee = "NONE" /\ payment[t] = "NONE"
  BY <1>1, <1>2, SessionFacts DEF Fine, KnowsFee
<1> DEFINE new == [row[t] EXCEPT !.status = "COMPLETED", !.version = row[t].version + 1]
<1>4. /\ row' = [row EXCEPT ![t] = new] /\ payment' = [payment EXCEPT ![t] = "UNPAID"]
      /\ audit' = Ledger!Logged(t, "WEIGHING_TASK_COMPLETED")
  BY <1>2, <1>3 DEF CommitCompletion
<1>5. row[t].status = "GROSS_COMPLETED" /\ row[t].verdict.result = "NORMAL"
  BY <1>1, <1>2 DEF Permitted
<1>6. Ledger!CompleteTask(t)
  BY <1>1, <1>2, <1>3, <1>4, <1>5, LedgerCompletes
<1>7. new \in RowType /\ new.status = "COMPLETED"
  <2>1. new \in RowType
    BY <1>2, RowAssigned DEF Ledger!Status
  <2> QED
    BY <1>2, <2>1 DEF RowType
<1> HIDE DEF new
<1>8. audit' \in [Task -> [Ledger!AuditAction -> Nat]]
  BY <1>2, <1>4, LoggedType DEF Ledger!AuditAction
<1>9. IInv'
  BY <1>1, <1>2, <1>3, <1>4, <1>7, <1>8, CommitKeeps DEF Ledger!Payment
<1> QED
  BY <1>6, <1>9 DEF Ledger!TaskStep, Ledger!Next

(* record_tare, record_gross and record_reweigh: the reading, the summary  *)
(* computed from the row that was locked, the number read before.          *)
LEMMA CommitReadingKeeps ==
  ASSUME IInv, NEW s \in Session, CommitReading(s)
  PROVE  IInv' /\ Ledger!Next
<1> USE StatusNames DEF At
<1> DEFINE me == session[s]
<1>1. /\ me.op \in WeighingOp /\ me.op \in TaskOp /\ me.pc = "ready" /\ PastBegin(s)
      /\ EndSession(s) /\ UNCHANGED <<payment, reversal>>
  BY DEF CommitReading, PastBegin
<1>2. PICK t \in Task :
        /\ me.task = t /\ taskLock[t] = s /\ me.row = row[t] /\ Live(row[t])
        /\ Permitted(me.op, row[t]) /\ row \in [Task -> RowType] /\ row[t] \in RowType
        /\ DataFine /\ DataTypes /\ Numbered(records[t]) /\ records[t] \subseteq RecordType
        /\ payment[t] \in Ledger!Payment
        /\ payment = [payment EXCEPT ![t] = payment[t]]
        /\ payment[t] # "NONE" => row[t].status = "COMPLETED"
  BY <1>1, TaskFacts
<1>3. PICK raw \in RawWeight : me.raw = raw
  BY <1>1, SessionFacts DEF Fine, Named
<1>4. PICK op \in WeighingOp : me.op = op
  BY <1>1
<1>5. /\ op # "TARE" => /\ row[t].tare # 0
                        /\ Calculable(RawOf(row[t].tare), raw, RawOf(row[t].allowed))
      /\ op = "GROSS" => ~HasGrossRecord(t)
      /\ Cardinality(records[t]) < MaxReadings
      /\ me.seq = Cardinality(records[t]) + 1
  <2>1. KnowsRecords(s)
    BY <1>1, SessionFacts DEF Fine
  <2>2. NextSequence(t) = Cardinality(records[t]) + 1
    BY <1>2, NumbersFollow DEF NextSequence
  <2> QED
    BY <1>1, <1>2, <1>3, <1>4, <2>1, <2>2 DEF KnowsRecords, Weighed
<1>6. payment[t] = "NONE" /\ row[t].status \in {"WAIT_TARE", "WAIT_GROSS"}
  BY <1>2, <1>4 DEF Permitted, WeighingOp
<1> DEFINE ticks == QuantizeTons(raw)
          record == [seq |-> Cardinality(records[t]) + 1, kind |-> op, weight |-> ticks]
          verdict == CalculateWeight(RawOf(row[t].tare), raw, RawOf(row[t].allowed))
          tared == [row[t] EXCEPT !.status = "TARE_COMPLETED", !.tare = ticks,
                                  !.version = row[t].version + 1]
          weighed == [row[t] EXCEPT !.status = Ledger!StatusAfterReading(verdict.result),
                                    !.verdict = verdict, !.version = row[t].version + 1]
<1>7. /\ ticks > 0 /\ records' = [records EXCEPT ![t] = @ \cup {record}]
      /\ row' = [row EXCEPT ![t] = IF op = "TARE" THEN tared ELSE weighed]
      /\ audit' = Ledger!Logged(t, IF op = "TARE" THEN "TARE_RECORDED"
                                   ELSE Ledger!GrossAuditAction(op))
  BY <1>2, <1>3, <1>4, <1>5 DEF CommitReading, Ledger!Storable
<1>8. /\ ticks \in Nat \ {0} /\ row[t].tare \in Nat /\ row[t].allowed \in Nat
      /\ RawOf(row[t].tare) \in Nat /\ RawOf(row[t].allowed) \in Nat /\ raw \in Nat
  <2>1. row[t].tare \in Nat /\ row[t].allowed \in Nat /\ raw \in Nat
    BY <1>2, WeightAssumption DEF RowType
  <2> QED
    BY <1>7, <2>1, Arithmetic
<1>9. verdict \in Ledger!VerdictType /\ verdict.result \in {"NORMAL", "OVERWEIGHT"}
  BY <1>8, Arithmetic
<1>10. Cardinality(records[t]) \in Nat
  BY <1>2, FS_CardinalityType DEF Numbered
<1>11. /\ record \in RecordType /\ record.seq = Cardinality(records[t]) + 1
       /\ record.kind = op /\ record.weight = ticks
  BY <1>8, <1>10 DEF RecordType
<1> HIDE DEF ticks, verdict
<1>12. /\ tared \in RowType /\ weighed \in RowType
       /\ tared.status = "TARE_COMPLETED" /\ tared.tare = ticks
       /\ tared.version = row[t].version + 1 /\ tared.deleted = row[t].deleted
       /\ tared.allowed = row[t].allowed /\ tared.verdict = row[t].verdict
       /\ weighed.status = Ledger!StatusAfterReading(verdict.result)
       /\ weighed.verdict = verdict
       /\ weighed.version = row[t].version + 1 /\ weighed.deleted = row[t].deleted
       /\ weighed.allowed = row[t].allowed /\ weighed.tare = row[t].tare
  <2>1. row[t].version + 1 \in Nat
    BY <1>2 DEF RowType
  <2>2. tared \in RowType
    BY <1>2, <1>8, <2>1, RowAssigned DEF Ledger!Status
  <2>3. weighed \in RowType
    BY <1>2, <1>9, <2>1, RowAssigned DEF Ledger!Status, Ledger!StatusAfterReading
  <2>4. /\ tared.status = "TARE_COMPLETED" /\ tared.tare = ticks
        /\ tared.version = row[t].version + 1 /\ tared.deleted = row[t].deleted
        /\ tared.allowed = row[t].allowed /\ tared.verdict = row[t].verdict
    BY <1>2 DEF RowType
  <2>5. /\ weighed.status = Ledger!StatusAfterReading(verdict.result)
        /\ weighed.verdict = verdict
        /\ weighed.version = row[t].version + 1 /\ weighed.deleted = row[t].deleted
        /\ weighed.allowed = row[t].allowed /\ weighed.tare = row[t].tare
    BY <1>2 DEF RowType
  <2> QED
    BY <2>2, <2>3, <2>4, <2>5
<1> HIDE DEF tared, weighed
<1>13. audit' \in [Task -> [Ledger!AuditAction -> Nat]]
  BY <1>2, <1>7, LoggedType DEF Ledger!AuditAction, Ledger!GrossAuditAction
<1>14. /\ records[t] \cup {record} \in SUBSET RecordType
       /\ Numbered(records[t] \cup {record})
  BY <1>2, <1>11, NumbersGrow
<1>15. /\ \E new \in RowType : row' = [row EXCEPT ![t] = new]
       /\ \E rows \in SUBSET RecordType :
             Numbered(rows) /\ records' = [records EXCEPT ![t] = rows]
       /\ payment' = [payment EXCEPT ![t] = payment[t]] /\ reversal' = reversal
  <2>1. \E new \in RowType : row' = [row EXCEPT ![t] = new]
    BY <1>7, <1>12
  <2>2. records' = [records EXCEPT ![t] = records[t] \cup {record}]
    BY <1>7
  <2> QED
    BY <1>1, <1>2, <1>14, <2>1, <2>2
<1> HIDE DEF record
<1>16. IInv'
  <2>1. PICK new \in RowType : row' = [row EXCEPT ![t] = new]
    BY <1>15
  <2>2. PICK rows \in SUBSET RecordType :
          Numbered(rows) /\ records' = [records EXCEPT ![t] = rows]
    BY <1>15
  <2>3. PICK pay \in Ledger!Payment :
          pay = "NONE" /\ pay = payment[t] /\ payment' = [payment EXCEPT ![t] = pay]
    BY <1>2, <1>6, <1>15
  <2>4. taskLock[t] = s /\ EndSession(s) /\ reversal' = reversal
    BY <1>1, <1>2
  <2> QED
    BY <1>13, <2>1, <2>2, <2>3, <2>4, CommitKeeps
<1>17. Ledger!TaskStep(t)
  <2>1. CASE op = "TARE"
    <3>1. row[t].status = "WAIT_TARE"
      BY <1>2, <1>4, <2>1 DEF Permitted
    <3>2. Ledger!RecordTare(t)
      <4>1. /\ row' = [row EXCEPT ![t] = tared]
            /\ audit' = Ledger!Logged(t, "TARE_RECORDED")
            /\ records' = [records EXCEPT ![t] = @ \cup {record}]
            /\ UNCHANGED <<payment, reversal>>
        BY <1>1, <1>7, <2>1
      <4>2. /\ DataFine /\ Live(row[t]) /\ QuantizeTons(raw) > 0
            /\ record.weight = QuantizeTons(raw) /\ tared.tare = QuantizeTons(raw)
            /\ record.kind = "TARE"
        BY <1>2, <1>7, <1>11, <1>12, <2>1 DEF ticks
      <4> QED
        BY <1>11, <1>12, <3>1, <4>1, <4>2, LedgerTares
    <3> QED
      BY <3>2 DEF Ledger!TaskStep
  <2>2. CASE op \in {"GROSS", "REWEIGH"}
    <3>1. /\ row' = [row EXCEPT ![t] = weighed]
          /\ audit' = Ledger!Logged(t, Ledger!GrossAuditAction(op))
          /\ row[t].tare # 0
          /\ Calculable(RawOf(row[t].tare), raw, RawOf(row[t].allowed))
      BY <1>5, <1>7, <2>2
    <3>2. Ledger!RecordGrossLike(t, op, raw)
      <4>1. /\ records' = [records EXCEPT ![t] = @ \cup {record}]
            /\ verdict = CalculateWeight(RawOf(row[t].tare), raw, RawOf(row[t].allowed))
            /\ Cardinality(records[t]) < MaxReadings
            /\ UNCHANGED <<payment, reversal>>
        BY <1>1, <1>5, <1>7 DEF verdict
      <4>2. DataFine /\ record.weight = QuantizeTons(raw)
        BY <1>2, <1>11 DEF ticks
      <4> QED
        BY <1>11, <1>12, <2>2, <3>1, <4>1, <4>2, LedgerGrosses
    <3>3. /\ row[t].status = "WAIT_GROSS"
          /\ op = "GROSS" => row[t].verdict.result = "PENDING"
          /\ op = "REWEIGH" => row[t].verdict.result = "OVERWEIGHT"
      BY <1>2, <1>4, <2>2 DEF Permitted
    <3>4. Ledger!Live(t)
      BY <1>2 DEF Ledger!Live, Live
    <3>5. CASE op = "GROSS"
      <4>1. \A i \in 1 .. Len(ReadingsOf(t)) :
              ReadingsOf(t)[i].kind \notin {"GROSS", "REWEIGH"}
        <5>1. Len(ReadingsOf(t)) = Cardinality(records[t])
          BY <1>2, <1>7, <1>11, ReadingsAppended
        <5>2. ASSUME NEW i \in 1 .. Cardinality(records[t])
              PROVE  /\ ReadingsOf(t)[i].kind = InOrder(records[t])[i].kind
                     /\ InOrder(records[t])[i] \in records[t]
          BY <1>2, OrderOfNumber DEF ReadingsOf, StoredReading
        <5> QED
          BY <1>5, <3>5, <5>1, <5>2 DEF HasGrossRecord
      <4>2. Ledger!NeverGrossWeighed(t)
        BY <3>3, <3>5, <4>1 DEF Ledger!NeverGrossWeighed
      <4>3. Ledger!RecordGross(t)
        BY <3>2, <3>3, <3>4, <3>5, <4>2 DEF Ledger!RecordGross
      <4> QED
        BY <4>3 DEF Ledger!TaskStep
    <3>6. CASE op = "REWEIGH"
      <4>1. Ledger!RecordReweigh(t)
        BY <3>2, <3>3, <3>4, <3>6 DEF Ledger!RecordReweigh, Ledger!ReweighAllowed
      <4> QED
        BY <4>1 DEF Ledger!TaskStep
    <3> QED
      BY <2>2, <3>5, <3>6
  <2> QED
    BY <1>4, <2>1, <2>2 DEF WeighingOp
<1> QED
  BY <1>16, <1>17 DEF Ledger!Next

(* mark_paid and waive: the fee that was checked is still the one.         *)
LEMMA CommitPaymentKeeps ==
  ASSUME IInv, NEW s \in Session, CommitPayment(s)
  PROVE  IInv' /\ Ledger!Next
<1> USE StatusNames DEF At
<1> DEFINE me == session[s]
<1>1. /\ me.op \in FeeOp /\ me.pc = "ready" /\ PastBegin(s)
      /\ EndSession(s) /\ UNCHANGED <<row, records, reversal>>
  BY DEF CommitPayment, PastBegin
<1>2. PICK t \in Task : me.task = t
  BY <1>1, SessionFacts DEF Fine, Named
<1>3. feeLock[t] = s /\ payment[t] = "UNPAID" /\ reversal[t] = "NONE"
  BY <1>1, <1>2, SessionFacts DEF Fine, Holding, KnowsFee
<1>4. PICK pay \in {"PAID", "WAIVED"}, action \in {"BILLING_PAID", "BILLING_WAIVED"} :
        /\ payment' = [payment EXCEPT ![t] = pay]
        /\ audit' = Ledger!Logged(t, action)
        /\ \/ pay = "PAID" /\ action = "BILLING_PAID"
           \/ pay = "WAIVED" /\ action = "BILLING_WAIVED"
  BY <1>2 DEF CommitPayment
<1>5. DataFine /\ DataTypes /\ row[t].status = "COMPLETED"
  BY <1>3 DEF IInv, DataFine
<1>6. /\ payment'[t] = pay /\ \A k \in Task \ {t} : payment'[k] = payment[k]
      /\ payment' \in [Task -> Ledger!Payment]
  BY <1>4, <1>5 DEF DataTypes, Ledger!Payment
<1>7. audit' \in [Task -> [Ledger!AuditAction -> Nat]]
  BY <1>4, <1>5, LoggedType DEF Ledger!AuditAction
<1>8. DataFine'
  BY <1>1, <1>5, <1>6, <1>7 DEF DataFine, DataTypes
<1>9. DataMove(s)
  BY <1>1, <1>3, <1>6 DEF DataMove
<1>10. IInv'
  BY <1>1, <1>8, <1>9, EndKeeps
<1>11. /\ UNCHANGED <<[k \in Task |-> row[k].status], Ledger!rowVars,
                      [k \in Task |-> row[k].version], reversal>>
       /\ Ledger!Settleable(t)
  BY <1>1, <1>3, SameReadings DEF Ledger!rowVars, Ledger!Settleable
<1>12. Ledger!MarkPaid(t) \/ Ledger!Waive(t)
  BY <1>4, <1>11 DEF Ledger!MarkPaid, Ledger!Waive, Ledger!TransitionPaymentStatus
<1> QED
  BY <1>10, <1>12 DEF Ledger!TaskStep, Ledger!Next

(* reverse: the snapshot tells of the fee as it is, or as it was a moment  *)
(* ago, before it was settled.                                             *)
LEMMA CommitReversalKeeps ==
  ASSUME IInv, NEW s \in Session, CommitReversal(s)
  PROVE  IInv' /\ Ledger!Next
<1> USE StatusNames DEF At
<1> DEFINE me == session[s]
<1>1. /\ me.op = "REVERSE" /\ me.op \in TaskOp /\ me.pc = "ready" /\ PastBegin(s)
      /\ EndSession(s) /\ UNCHANGED <<row, records, payment>>
  BY DEF CommitReversal, PastBegin
<1>2. PICK t \in Task :
        /\ me.task = t /\ taskLock[t] = s /\ Live(row[t]) /\ Permitted(me.op, row[t])
        /\ DataFine /\ DataTypes /\ payment[t] \in Ledger!Payment
  BY <1>1, TaskFacts
<1>3. /\ reversal[t] = "NONE" /\ me.fee \in {"NONE", "UNPAID", "WAIVED"}
      /\ me.fee = "NONE" <=> payment[t] = "NONE"
      /\ me.fee = "WAIVED" => payment[t] = "WAIVED"
      /\ me.fee # "NONE" => s \in feeShare[t]
      /\ row[t].status = "COMPLETED"
  <2>1. Holding(s) /\ KnowsFee(s)
    BY SessionFacts DEF Fine
  <2> QED
    BY <1>1, <1>2, <2>1 DEF Holding, KnowsFee, Permitted
<1>4. PICK seen \in {"NO_BILLING", "UNPAID", "WAIVED"} :
        /\ seen = IF me.fee = "NONE" THEN "NO_BILLING" ELSE me.fee
        /\ reversal' = [reversal EXCEPT ![t] = seen]
  BY <1>2, <1>3 DEF CommitReversal
<1>5. audit' = Ledger!Logged(t, "WEIGHING_REVERSED")
  BY <1>2 DEF CommitReversal
<1>6. /\ reversal'[t] = seen /\ \A k \in Task \ {t} : reversal'[k] = reversal[k]
      /\ reversal' \in [Task -> Ledger!Reversal]
  BY <1>2, <1>4 DEF DataTypes, Ledger!Reversal
<1>7. audit' \in [Task -> [Ledger!AuditAction -> Nat]]
  BY <1>2, <1>5, LoggedType DEF Ledger!AuditAction
<1>8. DataFine'
  BY <1>1, <1>2, <1>6, <1>7 DEF DataFine, DataTypes
<1>9. DataMove(s)
  BY <1>1, <1>2, <1>3, <1>6 DEF DataMove
<1>10. IInv'
  BY <1>1, <1>8, <1>9, EndKeeps
<1>11. seen \in Ledger!PaymentSeen(t) \ {"PAID"}
  BY <1>2, <1>3, <1>4 DEF Ledger!PaymentSeen, Ledger!Payment
<1>12. /\ UNCHANGED <<[k \in Task |-> row[k].status], Ledger!rowVars,
                      [k \in Task |-> row[k].version], payment>>
       /\ Ledger!Reversible(t)
  BY <1>1, <1>2, <1>3, SameReadings DEF Ledger!rowVars, Ledger!Reversible, Ledger!Live, Live
<1>13. Ledger!Reverse(t)
  BY <1>4, <1>5, <1>11, <1>12 DEF Ledger!Reverse
<1> QED
  BY <1>10, <1>13 DEF Ledger!TaskStep, Ledger!Next

LEMMA LedgerCreates ==
  ASSUME row \in [Task -> RowType], NEW t \in Task, row[t].status = "ABSENT",
         NEW raw \in RawLimit, Ledger!Storable(QuantizeTons(raw)),
         NEW new, row' = [row EXCEPT ![t] = new],
         new.status = "WAIT_TARE", new.version = 1, new.allowed = QuantizeTons(raw),
         new.deleted = row[t].deleted, new.tare = row[t].tare, new.verdict = row[t].verdict,
         audit' = Ledger!Logged(t, "WEIGHING_TASK_CREATED"),
         UNCHANGED <<records, payment, reversal>>
  PROVE  Ledger!CreateTask(t)
<1>1. /\ [k \in Task |-> row'[k].status]
           = [[k \in Task |-> row[k].status] EXCEPT ![t] = "WAIT_TARE"]
      /\ [k \in Task |-> row'[k].allowed]
           = [[k \in Task |-> row[k].allowed] EXCEPT ![t] = QuantizeTons(raw)]
      /\ [k \in Task |-> row'[k].version]
           = [[k \in Task |-> row[k].version] EXCEPT ![t] = 1]
      /\ [k \in Task |-> row'[k].deleted] = [k \in Task |-> row[k].deleted]
      /\ [k \in Task |-> row'[k].tare] = [k \in Task |-> row[k].tare]
      /\ [k \in Task |-> row'[k].verdict] = [k \in Task |-> row[k].verdict]
  BY Columns
<1>2. [k \in Task |-> row[k].status][t] = "ABSENT"
  OBVIOUS
<1>3. Ledger!QuantizeTons(raw) = QuantizeTons(raw)
  BY SameArithmetic
<1> QED
  BY <1>1, <1>2, <1>3, SameReadings DEF Ledger!CreateTask

(* create_task: a row that no request can have locked.                     *)
LEMMA CreateKeeps ==
  ASSUME IInv, NEW t \in Task, Create(t)
  PROVE  IInv' /\ Ledger!Next
<1>1. PICK raw \in RawLimit :
        /\ row[t].status = "ABSENT" /\ Ledger!Storable(QuantizeTons(raw))
        /\ row' = [row EXCEPT ![t] = [row[t] EXCEPT !.status = "WAIT_TARE", !.version = 1,
                                                    !.allowed = QuantizeTons(raw)]]
        /\ audit' = Ledger!Logged(t, "WEIGHING_TASK_CREATED")
        /\ UNCHANGED <<records, payment, reversal, session, taskLock, feeLock, feeShare>>
  BY DEF Create, locks
<1> DEFINE new == [row[t] EXCEPT !.status = "WAIT_TARE", !.version = 1,
                                 !.allowed = QuantizeTons(raw)]
<1>2. DataFine /\ DataTypes /\ row \in [Task -> RowType] /\ row[t] \in RowType
  BY DEF IInv, DataFine, DataTypes
<1>3. QuantizeTons(raw) \in Nat
  BY WeightAssumption, Arithmetic
<1>4. new \in RowType
  BY <1>2, <1>3, RowAssigned DEF Ledger!Status
<1>5. /\ new.status = "WAIT_TARE" /\ new.version = 1 /\ new.allowed = QuantizeTons(raw)
      /\ new.deleted = row[t].deleted /\ new.tare = row[t].tare
      /\ new.verdict = row[t].verdict
  BY <1>2 DEF RowType
<1> HIDE DEF new
<1>6. row' = [row EXCEPT ![t] = new]
  BY <1>1 DEF new
<1>7. Ledger!CreateTask(t)
  <2>1. UNCHANGED <<records, payment, reversal>>
    BY <1>1
  <2> QED
    BY <1>1, <1>2, <1>5, <1>6, <2>1, LedgerCreates
<1>8. /\ row' \in [Task -> RowType] /\ row'[t] = new
      /\ \A k \in Task \ {t} : row'[k] = row[k]
  BY <1>2, <1>4, <1>6
<1>9. payment[t] = "NONE"
  BY <1>1, <1>2 DEF DataFine
<1>10. audit' \in [Task -> [Ledger!AuditAction -> Nat]]
  BY <1>1, <1>2, LoggedType DEF Ledger!AuditAction
<1>11. DataFine'
  BY <1>1, <1>2, <1>8, <1>9, <1>10 DEF DataFine, DataTypes
<1>12. DataMove(Nobody) /\ Frame(Nobody)
  BY <1>1, <1>8 DEF DataMove, Frame, Live
<1>13. \A u \in Session : Fine(u)'
  BY <1>12, NobodyAssumption, OthersKeep
<1>14. (SessionsOK /\ LockTypes /\ FeeLocksExclude)'
  BY <1>1 DEF IInv, SessionsOK, LockTypes, FeeLocksExclude
<1>15. IInv'
  BY <1>11, <1>13, <1>14 DEF IInv
<1> QED
  BY <1>7, <1>15 DEF Ledger!TaskStep, Ledger!Next
-----------------------------------------------------------------------------
(* A database installed, with the two readings of every legacy task.       *)
LEMMA TwoReadings ==
  ASSUME NEW weight1, NEW weight2, NEW rows,
         rows = {[seq |-> 1, kind |-> "TARE", weight |-> weight1],
                 [seq |-> 2, kind |-> "GROSS", weight |-> weight2]}
  PROVE  /\ Numbered(rows) /\ Cardinality(rows) = 2
         /\ [i \in 1 .. Cardinality(rows) |-> StoredReading(InOrder(rows)[i])]
              = <<Ledger!Reading("TARE", weight1), Ledger!Reading("GROSS", weight2)>>
<1> DEFINE a == [seq |-> 1, kind |-> "TARE", weight |-> weight1]
          b == [seq |-> 2, kind |-> "GROSS", weight |-> weight2]
<1>1. a.seq = 1 /\ b.seq = 2 /\ a # b /\ rows = {a, b}
  OBVIOUS
<1>2. /\ StoredReading(a) = Ledger!Reading("TARE", weight1)
      /\ StoredReading(b) = Ledger!Reading("GROSS", weight2)
  BY DEF StoredReading, Ledger!Reading
<1> HIDE DEF a, b
<1>3. IsFiniteSet({}) /\ Cardinality({}) = 0
  BY FS_EmptySet
<1>4. IsFiniteSet({a}) /\ Cardinality({a}) = 1
  BY FS_Singleton
<1>5. IsFiniteSet({a} \cup {b}) /\ Cardinality({a} \cup {b}) = 2
  <2>1. b \notin {a}
    BY <1>1
  <2> QED
    BY <1>4, <2>1, FS_AddElement
<1>6. rows = {a} \cup {b}
  BY <1>1
<1>7. {r.seq : r \in rows} = 1 .. 2
  BY <1>1
<1>8. Numbered(rows) /\ Cardinality(rows) = 2
  BY <1>1, <1>5, <1>6, <1>7 DEF Numbered
<1>9. InOrder(rows)[1] = a /\ InOrder(rows)[2] = b
  BY <1>1, <1>8, OrderIsNumber
<1> DEFINE f == [i \in 1 .. Cardinality(rows) |-> StoredReading(InOrder(rows)[i])]
          x == Ledger!Reading("TARE", weight1)
          y == Ledger!Reading("GROSS", weight2)
<1>10. f = [i \in 1 .. 2 |-> StoredReading(InOrder(rows)[i])]
  BY <1>8
<1> HIDE DEF f, x, y
<1>11. f[1] = x /\ f[2] = y /\ f \in [1 .. 2 -> {x, y}]
  <2>1. \A i \in 1 .. 2 : f[i] = StoredReading(InOrder(rows)[i]) /\ (i = 1 \/ i = 2)
    BY <1>10
  <2>2. f[1] = x /\ f[2] = y
    BY <1>2, <1>9, <2>1 DEF x, y
  <2>3. \A i \in 1 .. 2 : f[i] \in {x, y}
    BY <2>1, <2>2
  <2>4. f = [i \in 1 .. 2 |-> f[i]]
    BY <1>10
  <2> QED
    BY <2>2, <2>3, <2>4
<1>12. f = <<x, y>>
  BY <1>11
<1> QED
  BY <1>8, <1>12 DEF f, x, y

LEMMA PastTypes ==
  ASSUME NEW h \in Ledger!LegacyHistory
  PROVE  /\ h.tare \in Nat \ {0} /\ h.gross \in Nat \ {0} /\ h.allowed \in Nat
         /\ WeightVerdict(h.tare, h.gross, h.allowed) \in Ledger!VerdictType
<1>1. /\ h.tare \in Nat /\ h.gross \in Nat /\ h.allowed \in Nat
      /\ h.tare > 0 /\ h.gross > h.tare
  <2>1. \A raw \in RawWeight \cup RawLimit : Ledger!QuantizeTons(raw) \in Nat
    BY WeightAssumption, Arithmetic, SameArithmetic
  <2> QED
    BY <2>1 DEF Ledger!LegacyHistory, Ledger!Ticks, Ledger!Limits, Ledger!Weighable
<1>2. WeightVerdict(h.tare, h.gross, h.allowed) \in Ledger!VerdictType
  BY <1>1 DEF WeightVerdict, Parts, IsNormal, Ledger!VerdictType, Ledger!Verdicts
<1> QED
  BY <1>1, <1>2

PastRow(h) ==
  [status |-> "COMPLETED", deleted |-> FALSE, allowed |-> h.allowed, tare |-> h.tare,
   version |-> 5, verdict |-> WeightVerdict(h.tare, h.gross, h.allowed)]

LEMMA PastRowType ==
  /\ EmptyRow \in RowType
  /\ \A h \in Ledger!LegacyHistory : PastRow(h) \in RowType
<1>1. EmptyRow \in RowType
  BY DEF EmptyRow, RowType, Ledger!Status, Ledger!VerdictType, Ledger!Verdicts, Unweighed
<1>2. ASSUME NEW h \in Ledger!LegacyHistory PROVE PastRow(h) \in RowType
  BY PastTypes DEF PastRow, RowType, Ledger!Status
<1> QED
  BY <1>1, <1>2

LEMMA Installed ==
  ASSUME Init
  PROVE  IInv /\ Ledger!Init
<1>1. PICK history \in [Legacy -> Ledger!LegacyHistory] :
        /\ row = [t \in Task |-> IF t \in Legacy THEN PastRow(history[t]) ELSE EmptyRow]
        /\ records = [t \in Task |->
                       IF t \in Legacy
                         THEN {[seq |-> 1, kind |-> "TARE", weight |-> history[t].tare],
                               [seq |-> 2, kind |-> "GROSS", weight |-> history[t].gross]}
                         ELSE {}]
  BY DEF Init, PastRow
<1>2. /\ payment = [t \in Task |-> "NONE"] /\ reversal = [t \in Task |-> "NONE"]
      /\ audit = [t \in Task |-> Ledger!NoAudit] /\ session = [s \in Session |-> Idle]
      /\ taskLock = [t \in Task |-> Nobody] /\ feeLock = [t \in Task |-> Nobody]
      /\ feeShare = [t \in Task |-> {}]
  BY DEF Init
<1>3. ASSUME NEW t \in Task
      PROVE  /\ row[t] \in RowType /\ records[t] \subseteq RecordType /\ Numbered(records[t])
             /\ ReadingsOf(t) = IF t \in Legacy THEN Ledger!PastReadings(history[t]) ELSE <<>>
  <2>1. CASE t \in Legacy
    <3>1. /\ history[t] \in Ledger!LegacyHistory /\ row[t] = PastRow(history[t])
          /\ records[t] = {[seq |-> 1, kind |-> "TARE", weight |-> history[t].tare],
                           [seq |-> 2, kind |-> "GROSS", weight |-> history[t].gross]}
      BY <1>1, <2>1
    <3>2. records[t] \subseteq RecordType
      BY <3>1, PastTypes DEF RecordType, WeighingOp
    <3>3. row[t] \in RowType
      BY <3>1, PastRowType
    <3>4. /\ Numbered(records[t])
          /\ ReadingsOf(t) = <<Ledger!Reading("TARE", history[t].tare),
                               Ledger!Reading("GROSS", history[t].gross)>>
      BY <3>1, TwoReadings DEF ReadingsOf
    <3> QED
      BY <2>1, <3>2, <3>3, <3>4 DEF Ledger!PastReadings
  <2>2. CASE t \notin Legacy
    <3>1. row[t] = EmptyRow /\ records[t] = {}
      BY <1>1, <2>2
    <3>2. IsFiniteSet({}) /\ Cardinality({}) = 0
      BY FS_EmptySet
    <3>3. Numbered(records[t])
      BY <3>1, <3>2 DEF Numbered
    <3>4. ReadingsOf(t) = <<>>
      BY <3>1, <3>2 DEF ReadingsOf
    <3> QED
      BY <2>2, <3>1, <3>3, <3>4, PastRowType
  <2> QED
    BY <2>1, <2>2
<1>4. DataFine
  <2>1. row \in [Task -> RowType] /\ records \in [Task -> SUBSET RecordType]
    BY <1>1, <1>3
  <2>2. /\ payment \in [Task -> Ledger!Payment] /\ reversal \in [Task -> Ledger!Reversal]
        /\ audit \in [Task -> [Ledger!AuditAction -> Nat]]
    BY <1>2 DEF Ledger!Payment, Ledger!Reversal, Ledger!NoAudit
  <2> QED
    BY <1>2, <1>3, <2>1, <2>2 DEF DataFine, DataTypes
<1>5. SessionsOK /\ LockTypes /\ FeeLocksExclude
  BY <1>2, IdleType DEF SessionsOK, LockTypes, FeeLocksExclude
<1>6. ASSUME NEW s \in Session PROVE Fine(s)
  <2>1. session[s].pc = "idle"
    BY <1>2 DEF Idle
  <2> QED
    BY <2>1 DEF Fine, Named, Holding, KnowsTask, KnowsRecords, KnowsFee, PastBegin
<1>7. IInv
  BY <1>4, <1>5, <1>6 DEF IInv
<1>8. /\ [t \in Task |-> row[t].status]
           = [t \in Task |-> IF t \in Legacy THEN "COMPLETED" ELSE "ABSENT"]
      /\ [t \in Task |-> row[t].allowed]
           = [t \in Task |-> IF t \in Legacy THEN history[t].allowed ELSE 0]
      /\ [t \in Task |-> row[t].tare]
           = [t \in Task |-> IF t \in Legacy THEN history[t].tare ELSE 0]
      /\ [t \in Task |-> row[t].version] = [t \in Task |-> IF t \in Legacy THEN 5 ELSE 0]
  BY <1>1 DEF PastRow, EmptyRow
<1>9. [t \in Task |-> row[t].deleted] = [t \in Task |-> FALSE]
  BY <1>1 DEF PastRow, EmptyRow
<1>10. [t \in Task |-> row[t].verdict]
         = [t \in Task |-> IF t \in Legacy THEN Ledger!PastVerdict(history[t])
                           ELSE Ledger!Unweighed]
  BY <1>1, SameArithmetic DEF PastRow, EmptyRow, Ledger!PastVerdict
<1>11. [t \in Task |-> ReadingsOf(t)]
         = [t \in Task |-> IF t \in Legacy THEN Ledger!PastReadings(history[t]) ELSE <<>>]
  BY <1>3
<1>12. Ledger!Init
  BY <1>2, <1>8, <1>9, <1>10, <1>11 DEF Ledger!Init
<1> QED
  BY <1>7, <1>12
-----------------------------------------------------------------------------
LEMMA QuietLedger ==
  ASSUME UNCHANGED committed
  PROVE  UNCHANGED Ledger!vars
BY SameReadings DEF committed, Ledger!vars

LEMMA NothingHappens ==
  ASSUME IInv, UNCHANGED vars
  PROVE  IInv'
<1>1. UNCHANGED <<committed, session, taskLock, feeLock, feeShare>>
  BY DEF vars, committed
<1>2. DataFine' /\ DataMove(Nobody)
  BY <1>1, QuietData
<1>3. Frame(Nobody)
  BY <1>1 DEF Frame
<1>4. \A u \in Session : Fine(u)'
  BY <1>2, <1>3, NobodyAssumption, OthersKeep
<1> QED
  BY <1>1, <1>2, <1>4 DEF IInv, SessionsOK, LockTypes, FeeLocksExclude

(* Every statement keeps the invariant, and either commits what the ledger *)
(* allows or writes no row.                                                *)
LEMMA EveryStep ==
  ASSUME IInv, [Next]_vars
  PROVE  IInv' /\ [Ledger!Next]_(Ledger!vars)
<1>1. CASE UNCHANGED vars
  BY <1>1, NothingHappens, QuietLedger DEF vars, committed
<1>2. ASSUME NEW t \in Task, Create(t) PROVE IInv' /\ Ledger!Next
  BY <1>2, CreateKeeps
<1>3. ASSUME NEW s \in Session, Begin(s) \/ Abort(s) \/ LockTask(s) \/ LockFee(s) \/ FlushReversal(s)
      PROVE  IInv' /\ UNCHANGED committed
  BY <1>3, BeginKeeps, LeaveKeeps, LockTaskKeeps, LockFeeKeeps, FlushReversalKeeps DEF Abort
<1>4. ASSUME NEW s \in Session, Statement(s)
      PROVE  IInv' /\ (Ledger!Next \/ UNCHANGED committed)
  <2>1. CASE RefuseState(s) \/ NoBillingRule(s) \/ Respond(s)
    BY <2>1, LeaveKeeps DEF RefuseState, NoBillingRule, Respond
  <2>2. CASE \/ ReadRecords(s) \/ ReadFeeToComplete(s) \/ CheckReversal(s)
             \/ ReadReversal(s) \/ ReadFeeToReverse(s)
    BY <2>2, ReadRecordsKeeps, ReadFeeToCompleteKeeps, CheckReversalKeeps,
       ReadReversalKeeps, ReadFeeToReverseKeeps
  <2>3. CASE ViewTask(s) \/ ViewFee(s) \/ ViewReversal(s) \/ ViewRecords(s)
    BY <2>3, ViewKeeps
  <2>4. CASE \/ CommitReading(s) \/ CommitTask(s) \/ CommitCompletion(s)
             \/ CommitPayment(s) \/ CommitReversal(s)
    BY <2>4, CommitReadingKeeps, CommitTaskKeeps, CommitCompletionKeeps,
       CommitPaymentKeeps, CommitReversalKeeps
  <2> QED
    BY <1>4, <2>1, <2>2, <2>3, <2>4 DEF Statement
<1> QED
  BY <1>1, <1>2, <1>3, <1>4, QuietLedger DEF Next

(* Round 1: what a request has read under its locks is still so.           *)
THEOREM Inductive == Spec => []IInv
<1>1. Init => IInv
  BY Installed
<1>2. IInv /\ [Next]_vars => IInv'
  BY EveryStep
<1> QED
  BY <1>1, <1>2, PTL DEF Spec

(* Round 2: the statements, interleaved in any way, only ever commit what  *)
(* WeighingLedger allows (every transaction of WeighingService, of         *)
(* BillingService and of WeighingReversalService is atomic).               *)
THEOREM RequestsImplementLedger == Spec => ImplementsLedger
<1>1. Init => Ledger!Init
  BY Installed
<1>2. IInv /\ [Next]_vars => [Ledger!Next]_(Ledger!vars)
  BY EveryStep
<1>3. Spec => Ledger!Init /\ [][Ledger!Next]_(Ledger!vars)
  BY <1>1, <1>2, Inductive, PTL DEF Spec
<1> QED
  BY <1>3 DEF ImplementsLedger, Ledger!Spec
-----------------------------------------------------------------------------
(* Round 3: the ledger's invariant, told of the requests' rows.            *)
LP == INSTANCE WeighingLedgerProofs WITH
  status   <- [t \in Task |-> row[t].status],
  deleted  <- [t \in Task |-> row[t].deleted],
  allowed  <- [t \in Task |-> row[t].allowed],
  tare     <- [t \in Task |-> row[t].tare],
  verdict  <- [t \in Task |-> row[t].verdict],
  version  <- [t \in Task |-> row[t].version],
  readings <- [t \in Task |-> ReadingsOf(t)]

LEMMA SameValues ==
  /\ Ledger!Ticks = LP!Ticks /\ Ledger!Limits = LP!Limits
  /\ Ledger!vars = LP!vars /\ Ledger!rowVars = LP!rowVars
  /\ Ledger!VerdictType = LP!VerdictType /\ Ledger!ReadingType = LP!ReadingType
  /\ Ledger!LegacyHistory = LP!LegacyHistory
BY DEF Ledger!Ticks, LP!Ticks, Ledger!Limits, LP!Limits, Ledger!vars, LP!vars,
       Ledger!rowVars, LP!rowVars, Ledger!VerdictType, LP!VerdictType,
       Ledger!ReadingType, LP!ReadingType, Ledger!LegacyHistory, LP!LegacyHistory,
       Ledger!ReadingKind, LP!ReadingKind, Ledger!Verdicts, LP!Verdicts,
       Ledger!QuantizeTons, LP!QuantizeTons, Ledger!RawPerTick, LP!RawPerTick,
       Ledger!Weighable, LP!Weighable, Ledger!IsNormal, LP!IsNormal

LEMMA SameInit == Ledger!Init <=> LP!Init
BY SameValues
   DEF Ledger!Init, LP!Init, Ledger!PastVerdict, LP!PastVerdict, Ledger!PastReadings,
       LP!PastReadings, Ledger!Unweighed, LP!Unweighed, Ledger!NoAudit, LP!NoAudit,
       Ledger!AuditAction, LP!AuditAction, Ledger!WeightVerdict, LP!WeightVerdict,
       Ledger!Parts, LP!Parts, Ledger!IsNormal, LP!IsNormal, Ledger!Reading, LP!Reading

LEMMA SameTaskStep == \A t \in Task : Ledger!TaskStep(t) <=> LP!TaskStep(t)
<1> SUFFICES ASSUME NEW t \in Task PROVE Ledger!TaskStep(t) <=> LP!TaskStep(t)
  OBVIOUS
<1>1. /\ Ledger!AuditAction = LP!AuditAction
      /\ \A action : Ledger!Logged(t, action) = LP!Logged(t, action)
      /\ Ledger!Live(t) <=> LP!Live(t)
      /\ \A ticks : Ledger!Storable(ticks) <=> LP!Storable(ticks)
      /\ \A raw : Ledger!QuantizeTons(raw) = LP!QuantizeTons(raw)
      /\ \A ticks : Ledger!RawOf(ticks) = LP!RawOf(ticks)
      /\ \A kind, ticks : Ledger!Reading(kind, ticks) = LP!Reading(kind, ticks)
  BY DEF Ledger!AuditAction, LP!AuditAction, Ledger!Logged, LP!Logged, Ledger!Live, LP!Live,
         Ledger!Storable, LP!Storable, Ledger!QuantizeTons, LP!QuantizeTons,
         Ledger!RawPerTick, LP!RawPerTick, Ledger!RawOf, LP!RawOf, Ledger!Reading, LP!Reading
<1>2. /\ \A a, b, c : Ledger!Calculable(a, b, c) <=> LP!Calculable(a, b, c)
      /\ \A a, b, c : Ledger!CalculateWeight(a, b, c) = LP!CalculateWeight(a, b, c)
      /\ \A x : Ledger!StatusAfterReading(x) = LP!StatusAfterReading(x)
      /\ \A x : Ledger!SummaryAfterReading(t, x) = LP!SummaryAfterReading(t, x)
      /\ \A x : Ledger!GrossAuditAction(x) = LP!GrossAuditAction(x)
  BY <1>1
     DEF Ledger!Calculable, LP!Calculable, Ledger!CalculateWeight, LP!CalculateWeight,
         Ledger!WeightVerdict, LP!WeightVerdict, Ledger!Weighable, LP!Weighable,
         Ledger!Parts, LP!Parts, Ledger!IsNormal, LP!IsNormal,
         Ledger!StatusAfterReading, LP!StatusAfterReading,
         Ledger!SummaryAfterReading, LP!SummaryAfterReading,
         Ledger!GrossAuditAction, LP!GrossAuditAction
<1>3. Ledger!CreateTask(t) <=> LP!CreateTask(t)
  BY <1>1 DEF Ledger!CreateTask, LP!CreateTask
<1>4. Ledger!RecordTare(t) <=> LP!RecordTare(t)
  BY <1>1 DEF Ledger!RecordTare, LP!RecordTare
<1>5. Ledger!PrepareForGross(t) <=> LP!PrepareForGross(t)
  BY <1>1 DEF Ledger!rowVars, LP!rowVars, Ledger!PrepareForGross, LP!PrepareForGross
<1>6. \A kind, raw : Ledger!RecordGrossLike(t, kind, raw) <=> LP!RecordGrossLike(t, kind, raw)
  BY <1>1, <1>2 DEF Ledger!RecordGrossLike, LP!RecordGrossLike
<1>7. Ledger!RecordGross(t) <=> LP!RecordGross(t)
  BY <1>1, <1>6 DEF Ledger!RecordGross, LP!RecordGross, Ledger!NeverGrossWeighed,
                    LP!NeverGrossWeighed
<1>8. Ledger!RecordReweigh(t) <=> LP!RecordReweigh(t)
  BY <1>1, <1>6 DEF Ledger!RecordReweigh, LP!RecordReweigh, Ledger!ReweighAllowed,
                    LP!ReweighAllowed
<1>9. Ledger!CompleteTask(t) <=> LP!CompleteTask(t)
  BY <1>1 DEF Ledger!rowVars, LP!rowVars, Ledger!CompleteTask, LP!CompleteTask, Ledger!PaymentOnCompletion,
                          LP!PaymentOnCompletion
<1>10. Ledger!DeleteTask(t) <=> LP!DeleteTask(t)
  BY <1>1 DEF Ledger!DeleteTask, LP!DeleteTask, Ledger!DeletableStatuses, LP!DeletableStatuses
<1>11. Ledger!CancelTask(t) <=> LP!CancelTask(t)
  BY <1>1 DEF Ledger!rowVars, LP!rowVars, Ledger!CancelTask, LP!CancelTask, Ledger!CancellableStatuses,
                          LP!CancellableStatuses
<1>12. (Ledger!MarkPaid(t) <=> LP!MarkPaid(t)) /\ (Ledger!Waive(t) <=> LP!Waive(t))
  BY <1>1
     DEF Ledger!rowVars, LP!rowVars, Ledger!MarkPaid, LP!MarkPaid, Ledger!Waive, LP!Waive, Ledger!TransitionPaymentStatus,
         LP!TransitionPaymentStatus, Ledger!Settleable, LP!Settleable
<1>13. Ledger!Reverse(t) <=> LP!Reverse(t)
  BY <1>1 DEF Ledger!rowVars, LP!rowVars, Ledger!Reverse, LP!Reverse, Ledger!Reversible, LP!Reversible,
                          Ledger!PaymentSeen, LP!PaymentSeen
<1> QED
  BY <1>3, <1>4, <1>5, <1>7, <1>8, <1>9, <1>10, <1>11, <1>12, <1>13
     DEF Ledger!TaskStep, LP!TaskStep

LEMMA SameNext == [Ledger!Next]_(Ledger!vars) <=> [LP!Next]_(LP!vars)
<1>1. Ledger!Next <=> LP!Next
  BY SameTaskStep DEF Ledger!Next, LP!Next
<1>2. UNCHANGED Ledger!vars <=> UNCHANGED LP!vars
  BY DEF Ledger!vars, LP!vars
<1> QED
  BY <1>1, <1>2

LEMMA LedgerHolds == Spec => []LP!IndInv
<1>1. Spec => Ledger!Init /\ [][Ledger!Next]_(Ledger!vars)
  BY RequestsImplementLedger DEF ImplementsLedger, Ledger!Spec
<1>2. Ledger!Init => LP!Init
  BY SameInit
<1>3. [Ledger!Next]_(Ledger!vars) => [LP!Next]_(LP!vars)
  BY SameNext
<1>4. Spec => LP!Init /\ [][LP!Next]_(LP!vars)
  BY <1>1, <1>2, <1>3, PTL
<1>5. LP!Spec => []LP!IndInv
  BY LP!Inductive, LegacyAssumption, WeightAssumption, BoundAssumption
<1> QED
  BY <1>4, <1>5, PTL DEF LP!Spec

(* What the rows of a task tell of its readings and of its fee.            *)
LEMMA ReadingsListed ==
  ASSUME IInv, NEW t \in Task
  PROVE  /\ Len(ReadingsOf(t)) = Cardinality(records[t])
         /\ Cardinality(records[t]) \in Nat /\ Numbered(records[t])
         /\ \A i \in 1 .. Cardinality(records[t]) :
              /\ ReadingsOf(t)[i] = StoredReading(InOrder(records[t])[i])
              /\ InOrder(records[t])[i] \in records[t]
<1>1. Numbered(records[t]) /\ Cardinality(records[t]) \in Nat
  BY FS_CardinalityType DEF IInv, DataFine, Numbered
<1> DEFINE n == Cardinality(records[t])
          f == ReadingsOf(t)
          S == {StoredReading(r) : r \in records[t]}
<1>2. \A i \in 1 .. n : InOrder(records[t])[i] \in records[t]
  BY <1>1, OrderOfNumber
<1>3. f = [i \in 1 .. n |-> StoredReading(InOrder(records[t])[i])]
  BY DEF ReadingsOf
<1>4. f \in [1 .. n -> S]
  BY <1>2, <1>3
<1> HIDE DEF f, n, S
<1>5. f \in Seq(S)
  BY <1>1, <1>4 DEF n
<1>6. DOMAIN f = 1 .. Len(f) /\ DOMAIN f = 1 .. n /\ Len(f) \in Nat
  BY <1>4, <1>5, LenProperties
<1>7. Len(f) = n
  BY <1>1, <1>6 DEF n
<1> QED
  BY <1>1, <1>2, <1>3, <1>7 DEF f, n

LEMMA LedgerOf ==
  ASSUME LP!IndInv, NEW t \in Task
  PROVE  LET n == Len(ReadingsOf(t)) IN
         /\ \A i \in 1 .. n : ReadingsOf(t)[i].kind = Ledger!KindAt(i)
         /\ row[t].tare = IF n = 0 THEN 0 ELSE ReadingsOf(t)[1].weight
         /\ n < 2 => row[t].verdict.result = "PENDING"
         /\ n >= 2 => row[t].verdict.gross = ReadingsOf(t)[n].weight
         /\ row[t].status = "COMPLETED" /\ t \notin Legacy => payment[t] # "NONE"
<1>1. LP!Good(t)
  BY DEF LP!IndInv
<1>2. [k \in Task |-> ReadingsOf(k)][t] = ReadingsOf(t)
  OBVIOUS
<1>3. \A i \in 1 .. Len(ReadingsOf(t)) : ReadingsOf(t)[i].kind = Ledger!KindAt(i)
  BY <1>1, <1>2 DEF LP!Good, LP!HistoryOf, LP!KindAt, Ledger!KindAt
<1>4. row[t].status = "COMPLETED" /\ t \notin Legacy => payment[t] # "NONE"
  BY <1>1 DEF LP!Good, LP!BilledOf
<1>5. LP!SummaryOf(t)
  BY <1>1 DEF LP!Good
<1> QED
  BY <1>2, <1>3, <1>4, <1>5 DEF LP!SummaryOf, LP!Unweighed, LP!WeightVerdict

(* The summary columns of a task are about readings that it has, and a     *)
(* completed task has its fee.                                             *)
Covered(t, r, rows, fee) ==
  /\ r.tare # 0 => \E q \in rows : q.kind = "TARE" /\ q.weight = r.tare
  /\ r.verdict.result # "PENDING" =>
       \E q \in rows : q.kind # "TARE" /\ q.weight = r.verdict.gross
  /\ r.status = "COMPLETED" /\ t \notin Legacy => fee # "NONE"

LEMMA RowIsCovered ==
  ASSUME IInv, LP!IndInv, NEW t \in Task
  PROVE  Covered(t, row[t], records[t], payment[t])
<1> DEFINE n == Cardinality(records[t])
<1>1. /\ n \in Nat /\ Len(ReadingsOf(t)) = n
      /\ \A i \in 1 .. n : \E q \in records[t] :
           ReadingsOf(t)[i].kind = q.kind /\ ReadingsOf(t)[i].weight = q.weight
  <2>1. \A q : StoredReading(q).kind = q.kind /\ StoredReading(q).weight = q.weight
    BY DEF StoredReading
  <2> QED
    BY <2>1, ReadingsListed
<1>2. /\ \A i \in 1 .. n : ReadingsOf(t)[i].kind = Ledger!KindAt(i)
      /\ row[t].tare = IF n = 0 THEN 0 ELSE ReadingsOf(t)[1].weight
      /\ n < 2 => row[t].verdict.result = "PENDING"
      /\ n >= 2 => row[t].verdict.gross = ReadingsOf(t)[n].weight
      /\ row[t].status = "COMPLETED" /\ t \notin Legacy => payment[t] # "NONE"
  BY <1>1, LedgerOf
<1> HIDE DEF n
<1>3. ASSUME row[t].tare # 0
      PROVE  \E q \in records[t] : q.kind = "TARE" /\ q.weight = row[t].tare
  <2>1. 1 \in 1 .. n
    BY <1>1, <1>2, <1>3
  <2> QED
    BY <1>1, <1>2, <1>3, <2>1 DEF Ledger!KindAt
<1>4. ASSUME row[t].verdict.result # "PENDING"
      PROVE  \E q \in records[t] : q.kind # "TARE" /\ q.weight = row[t].verdict.gross
  <2>1. n \in 1 .. n /\ n >= 2
    BY <1>1, <1>2, <1>4
  <2> QED
    BY <1>1, <1>2, <2>1 DEF Ledger!KindAt
<1> QED
  BY <1>2, <1>3, <1>4 DEF Covered

(* Readings and fees are never taken away.                                 *)
LEMMA RowsGrow ==
  ASSUME IInv, [Next]_vars, NEW t \in Task
  PROVE  records[t] \subseteq records'[t] /\ (payment[t] # "NONE" => payment'[t] # "NONE")
<1>1. /\ records \in [Task -> SUBSET RecordType] /\ payment \in [Task -> Ledger!Payment]
  BY DEF IInv, DataFine, DataTypes
<1>2. CASE UNCHANGED <<records, payment>>
  BY <1>2
<1>3. ASSUME NEW s \in Session, CommitReading(s) PROVE UNCHANGED payment /\ records[t] \subseteq records'[t]
  <2>1. PICK k, new : records' = [records EXCEPT ![k] = @ \cup {new}]
    BY <1>3 DEF CommitReading
  <2> QED
    BY <1>1, <1>3, <2>1 DEF CommitReading
<1>4. ASSUME NEW s \in Session, CommitCompletion(s)
      PROVE  UNCHANGED records /\ (payment[t] # "NONE" => payment'[t] # "NONE")
  BY <1>1, <1>4 DEF CommitCompletion
<1>5. ASSUME NEW s \in Session, CommitPayment(s)
      PROVE  UNCHANGED records /\ (payment[t] # "NONE" => payment'[t] # "NONE")
  BY <1>1, <1>5 DEF CommitPayment
<1>6. CASE /\ ~UNCHANGED <<records, payment>>
           /\ ~ \E s \in Session : CommitReading(s) \/ CommitCompletion(s) \/ CommitPayment(s)
  <2> USE DEF Leave, committed, vars
  <2>1. ~UNCHANGED vars /\ Next
    BY <1>6
  <2>2. ASSUME NEW k \in Task, Create(k) PROVE FALSE
    BY <1>6, <2>2 DEF Create
  <2>3. ASSUME NEW s \in Session, Begin(s) \/ Abort(s) \/ LockTask(s) \/ LockFee(s) \/ FlushReversal(s)
        PROVE  FALSE
    BY <1>6, <2>3 DEF Begin, Abort, LockTask, LockFee, FlushReversal
  <2>4. ASSUME NEW s \in Session, Statement(s) PROVE FALSE
    BY <1>6, <2>4
       DEF Statement, RefuseState, ReadRecords, CommitTask, ReadFeeToComplete, NoBillingRule,
           CheckReversal, ReadReversal, ReadFeeToReverse, CommitReversal, ViewTask, ViewFee,
           ViewReversal, ViewRecords, Respond
  <2> QED
    BY <2>1, <2>2, <2>3, <2>4 DEF Next
<1> QED
  BY <1>2, <1>3, <1>4, <1>5, <1>6

(* The page of a task's details, as far as it has been read: what the      *)
(* summary is about is still in the rows, and in the part that was read    *)
(* after it.                                                               *)
PageCovered(s) ==
  LET me == session[s] IN
  (me.op = "VIEW" /\ PastBegin(s)) =>
    /\ Covered(me.task, me.row, records[me.task], payment[me.task])
    /\ me.pc # "summary" => Covered(me.task, me.row, records[me.task], me.fee)
    /\ me.pc = "shown" => Covered(me.task, me.row, me.records, me.fee)

PagesCovered == \A s \in Session : PageCovered(s)

LEMMA CoveredGrows ==
  ASSUME NEW t, NEW r, NEW rows, NEW fee, Covered(t, r, rows, fee), NEW more, NEW fee2,
         rows \subseteq more, fee # "NONE" => fee2 # "NONE"
  PROVE  Covered(t, r, more, fee2)
BY DEF Covered

LEMMA OpKept ==
  ASSUME NEW me \in RequestType, NEW pc
  PROVE  /\ [me EXCEPT !.pc = pc].op = me.op
         /\ \A x : /\ [me EXCEPT !.pc = pc, !.row = x].op = me.op
                   /\ [me EXCEPT !.pc = pc, !.seq = x].op = me.op
                   /\ [me EXCEPT !.pc = pc, !.fee = x].op = me.op
BY DEF RequestType

LEMMA PageKept ==
  ASSUME IInv, LP!IndInv, PagesCovered, [Next]_vars, NEW s \in Session
  PROVE  PageCovered(s)'
<1> USE SessionFacts DEF At
<1> DEFINE me == session[s]
<1>1. \A t \in Task : /\ records[t] \subseteq records'[t]
                      /\ payment[t] # "NONE" => payment'[t] # "NONE"
  BY RowsGrow
<1>2. PageCovered(s) /\ (PastBegin(s) => me.task \in Task)
  BY DEF PagesCovered, Fine, Named, PastBegin
<1>3. CASE session'[s] = me
  <2> SUFFICES ASSUME me.op = "VIEW", PastBegin(s)
               PROVE  /\ Covered(me.task, me.row, records'[me.task], payment'[me.task])
                      /\ me.pc # "summary" => Covered(me.task, me.row, records'[me.task], me.fee)
                      /\ me.pc = "shown" => Covered(me.task, me.row, me.records, me.fee)
    BY <1>3 DEF PageCovered, PastBegin
  <2> QED
    BY <1>1, <1>2, CoveredGrows DEF PageCovered
<1>4. CASE session'[s].op # "VIEW" \/ session'[s].pc \in {"idle", "begin"}
  BY <1>4 DEF PageCovered, PastBegin
<1>5. ASSUME EndSession(s) PROVE session'[s].pc = "idle"
  BY <1>5 DEF EndSession, IInv, SessionsOK, Idle
<1>6. ASSUME NEW u \in Session, u # s, Continue(u, session'[u]) \/ EndSession(u)
      PROVE  session'[s] = me
  BY <1>6 DEF EndSession, Continue, IInv, SessionsOK
<1>7. ASSUME NEW t \in Task, me.task = t, me.op = "VIEW", NEW next \in RequestType,
             session'[s] = next, next.op = "VIEW", next.task = t,
             UNCHANGED <<records, payment>>,
             Covered(t, next.row, records[t], payment[t]),
             next.pc # "summary" => Covered(t, next.row, records[t], next.fee),
             next.pc = "shown" => Covered(t, next.row, next.records, next.fee)
      PROVE  PageCovered(s)'
  BY <1>7 DEF PageCovered
<1>8. ASSUME ViewTask(s) \/ ViewFee(s) \/ ViewReversal(s) \/ ViewRecords(s),
             ~EndSession(s)
      PROVE  PageCovered(s)'
  <2>1. PICK t \in Task : me.task = t
    BY <1>8 DEF ViewTask, ViewFee, ViewReversal, ViewRecords, Fine, Named
  <2>2. /\ row[t] \in RowType /\ payment[t] \in Ledger!Payment
        /\ reversal[t] \in Ledger!Reversal /\ records[t] \in SUBSET RecordType
    BY <2>1 DEF IInv, DataFine, DataTypes
  <2>3. me.op = "VIEW" /\ UNCHANGED <<records, payment>>
    BY <1>8 DEF ViewTask, ViewFee, ViewReversal, ViewRecords, Leave, committed
  <2>4. CASE ViewTask(s)
    <3> DEFINE next == [me EXCEPT !.pc = "summary", !.row = row[t]]
    <3>1. /\ next \in RequestType /\ next.op = "VIEW" /\ next.task = t /\ next.row = row[t]
          /\ next.pc = "summary"
      BY <2>1, <2>2, <2>3 DEF RequestType
    <3>2. session'[s] = next
      BY <1>8, <2>1, <2>4 DEF ViewTask, Leave
    <3> HIDE DEF next
    <3> QED
      BY <1>7, <2>1, <2>3, <3>1, <3>2, RowIsCovered
  <2>5. CASE ViewFee(s)
    <3> DEFINE next == [me EXCEPT !.pc = "fee", !.fee = payment[t]]
    <3>1. /\ next \in RequestType /\ next.op = "VIEW" /\ next.task = t /\ next.row = me.row
          /\ next.pc = "fee" /\ next.fee = payment[t]
      BY <2>1, <2>2, <2>3 DEF RequestType
    <3>2. session'[s] = next
      BY <2>1, <2>5 DEF ViewFee
    <3>3. Covered(t, me.row, records[t], payment[t])
      BY <1>2, <2>1, <2>3, <2>5 DEF PageCovered, ViewFee, PastBegin
    <3> HIDE DEF next
    <3> QED
      BY <1>7, <2>1, <2>3, <3>1, <3>2, <3>3
  <2>6. CASE ViewReversal(s)
    <3> DEFINE next == [me EXCEPT !.pc = "reversal", !.rev = reversal[t]]
    <3>1. /\ next \in RequestType /\ next.op = "VIEW" /\ next.task = t /\ next.row = me.row
          /\ next.pc = "reversal" /\ next.fee = me.fee
      BY <2>1, <2>2, <2>3 DEF RequestType
    <3>2. session'[s] = next
      BY <2>1, <2>6 DEF ViewReversal
    <3>3. /\ Covered(t, me.row, records[t], payment[t])
          /\ Covered(t, me.row, records[t], me.fee)
      BY <1>2, <2>1, <2>3, <2>6 DEF PageCovered, ViewReversal, PastBegin
    <3> HIDE DEF next
    <3> QED
      BY <1>7, <2>1, <2>3, <3>1, <3>2, <3>3
  <2>7. CASE ViewRecords(s)
    <3> DEFINE next == [me EXCEPT !.pc = "shown", !.records = records[t]]
    <3>1. /\ next \in RequestType /\ next.op = "VIEW" /\ next.task = t /\ next.row = me.row
          /\ next.pc = "shown" /\ next.fee = me.fee /\ next.records = records[t]
      BY <2>1, <2>2, <2>3 DEF RequestType
    <3>2. session'[s] = next
      BY <1>8, <2>1, <2>7 DEF ViewRecords, ShownRecords, Leave
    <3>3. /\ Covered(t, me.row, records[t], payment[t])
          /\ Covered(t, me.row, records[t], me.fee)
      BY <1>2, <2>1, <2>3, <2>7 DEF PageCovered, ViewRecords, PastBegin
    <3> HIDE DEF next
    <3> QED
      BY <1>7, <2>1, <2>3, <3>1, <3>2, <3>3
  <2> QED
    BY <1>8, <2>4, <2>5, <2>6, <2>7
<1>9. CASE UNCHANGED session
  BY <1>3, <1>9
<1>10. CASE \E u \in Session \ {s} : \E next : Continue(u, next) \/ EndSession(u)
  <2>1. session'[s] = me
    BY <1>10 DEF EndSession, Continue, IInv, SessionsOK
  <2> QED
    BY <1>3, <2>1
<1>11. CASE Begin(s)
  <2>1. \E t \in Task, op \in Op, raw \in RawWeight \cup {0} :
          session'[s] = [Idle EXCEPT !.pc = "begin", !.op = op, !.task = t, !.raw = raw]
    BY <1>11 DEF Begin
  <2>2. session'[s].pc = "begin"
    BY <2>1 DEF Idle
  <2> QED
    BY <1>4, <2>2
<1>12. CASE EndSession(s)
  BY <1>4, <1>5, <1>12
<1>13. CASE /\ ~EndSession(s)
            /\ \/ LockTask(s) \/ ReadRecords(s) \/ ReadFeeToComplete(s) \/ LockFee(s)
               \/ CheckReversal(s) \/ ReadReversal(s) \/ ReadFeeToReverse(s)
               \/ FlushReversal(s)
  <2>1. me.op # "VIEW" /\ session'[s].op = me.op
    <3>1. me.op # "VIEW"
      BY <1>13, StatusNames DEF LockTask, ReadRecords, ReadFeeToComplete, LockFee, CheckReversal,
         ReadReversal, ReadFeeToReverse, FlushReversal
    <3>2. session'[s].op = me.op
      <4>1. CASE LockTask(s)
        <5>1. session'[s] = [me EXCEPT !.pc = "held", !.row = row[me.task]]
          BY <1>13, <4>1 DEF LockTask, Leave
        <5> QED
          BY <5>1, SessionFacts, OpKept
      <4>2. CASE ReadRecords(s)
        <5>1. session'[s] = [me EXCEPT !.pc = "ready", !.seq = NextSequence(me.task)]
          BY <1>13, <4>2 DEF ReadRecords, Leave
        <5> QED
          BY <5>1, SessionFacts, OpKept
      <4>3. CASE ReadFeeToComplete(s)
        <5>1. session'[s] = [me EXCEPT !.pc = "ready", !.fee = payment[me.task]]
          BY <1>13, <4>3 DEF ReadFeeToComplete, Leave
        <5> QED
          BY <5>1, SessionFacts, OpKept
      <4>4. CASE LockFee(s)
        <5>1. session'[s] = [me EXCEPT !.pc = "held", !.fee = payment[me.task]]
          BY <1>13, <4>4 DEF LockFee, Leave
        <5> QED
          BY <5>1, SessionFacts, OpKept
      <4>5. CASE CheckReversal(s)
        <5>1. session'[s] = [me EXCEPT !.pc = "ready"]
          BY <1>13, <4>5 DEF CheckReversal, Leave
        <5> QED
          BY <5>1, SessionFacts, OpKept
      <4>6. CASE ReadReversal(s)
        <5>1. session'[s] = [me EXCEPT !.pc = "unreversed"]
          BY <1>13, <4>6 DEF ReadReversal, Leave
        <5> QED
          BY <5>1, SessionFacts, OpKept
      <4>7. CASE ReadFeeToReverse(s)
        <5>1. session'[s] = [me EXCEPT !.pc = "snapshot", !.fee = payment[me.task]]
          BY <1>13, <4>7 DEF ReadFeeToReverse, Leave
        <5> QED
          BY <5>1, SessionFacts, OpKept
      <4>8. CASE FlushReversal(s)
        <5>1. session'[s] = [me EXCEPT !.pc = "ready"]
          BY <1>13, <4>8 DEF FlushReversal, Leave
        <5> QED
          BY <5>1, SessionFacts, OpKept
      <4> QED
        BY <1>13, <4>1, <4>2, <4>3, <4>4, <4>5, <4>6, <4>7, <4>8
    <3> QED
      BY <3>1, <3>2
  <2> QED
    BY <1>4, <2>1
<1>14. ASSUME Next PROVE PageCovered(s)'
  <2>1. ASSUME NEW t \in Task, Create(t) PROVE PageCovered(s)'
    BY <1>9, <2>1 DEF Create
  <2>2. ASSUME NEW u \in Session \ {s}, Begin(u) \/ Abort(u) \/ LockTask(u) \/ LockFee(u) \/ FlushReversal(u)
        PROVE  PageCovered(s)'
    <3>1. (\E next : Continue(u, next)) \/ EndSession(u)
      BY <2>2 DEF Begin, Abort, LockTask, LockFee, FlushReversal, Leave
    <3> QED
      BY <1>10, <3>1
  <2>3. ASSUME NEW u \in Session \ {s}, Statement(u) PROVE PageCovered(s)'
    <3>1. (\E next : Continue(u, next)) \/ EndSession(u)
      BY <2>3
         DEF Statement, RefuseState, ReadRecords, CommitReading, CommitTask, ReadFeeToComplete,
             NoBillingRule, CommitCompletion, CheckReversal, CommitPayment, ReadReversal,
             ReadFeeToReverse, CommitReversal, ViewTask, ViewFee, ViewReversal, ViewRecords,
             Respond, Leave
    <3> QED
      BY <1>10, <3>1
  <2>4. ASSUME Begin(s) \/ Abort(s) \/ LockTask(s) \/ LockFee(s) \/ FlushReversal(s)
        PROVE  PageCovered(s)'
    BY <1>11, <1>12, <1>13, <2>4 DEF Abort, Leave
  <2>5. ASSUME Statement(s) PROVE PageCovered(s)'
    <3>1. \/ EndSession(s)
          \/ ReadRecords(s) \/ ReadFeeToComplete(s) \/ CheckReversal(s)
          \/ ReadReversal(s) \/ ReadFeeToReverse(s)
          \/ ViewTask(s) \/ ViewFee(s) \/ ViewReversal(s) \/ ViewRecords(s)
      BY <2>5 DEF Statement, RefuseState, CommitReading, CommitTask, NoBillingRule,
         CommitCompletion, CommitPayment, CommitReversal, Respond, Leave
    <3> QED
      BY <1>8, <1>12, <1>13, <3>1
  <2> QED
    BY <1>14, <2>1, <2>2, <2>3, <2>4, <2>5 DEF Next
<1> QED
  BY <1>9, <1>14 DEF vars
-----------------------------------------------------------------------------
LEMMA NumbersInOrder ==
  ASSUME IInv, LP!IndInv
  PROVE  SequenceGapFree
<1> SUFFICES ASSUME NEW t \in Task
             PROVE  /\ {r.seq : r \in records[t]} = 1 .. Cardinality(records[t])
                    /\ \A r \in records[t] : r.kind = Ledger!KindAt(r.seq)
  BY DEF SequenceGapFree
<1>1. Numbered(records[t]) /\ Len(ReadingsOf(t)) = Cardinality(records[t])
  BY ReadingsListed
<1>2. ASSUME NEW r \in records[t] PROVE r.kind = Ledger!KindAt(r.seq)
  <2>1. r.seq \in 1 .. Cardinality(records[t]) /\ InOrder(records[t])[r.seq] = r
    BY <1>1, OrderIsNumber
  <2>2. ReadingsOf(t)[r.seq] = StoredReading(r)
    BY <2>1, ReadingsListed
  <2>3. ReadingsOf(t)[r.seq].kind = Ledger!KindAt(r.seq)
    BY <1>1, <2>1, LedgerOf
  <2> QED
    BY <2>2, <2>3 DEF StoredReading
<1> QED
  BY <1>1, <1>2 DEF Numbered

LEMMA LockedReadsTrue ==
  ASSUME IInv, LP!IndInv
  PROVE  LockedReadsStayTrue
<1>1. ASSUME NEW s \in Session, session[s].op \in TaskOp, PastBegin(s)
      PROVE  LET me == session[s] IN
             /\ me.row = row[me.task]
             /\ (me.op \in WeighingOp /\ me.pc = "ready") => me.seq = NextSequence(me.task)
             /\ (me.op = "COMPLETE" /\ me.pc = "ready") => me.fee = payment[me.task]
             /\ (me.op = "REVERSE" /\ me.pc # "held") => reversal[me.task] = "NONE"
  <2>1. KnowsTask(s) /\ KnowsRecords(s) /\ KnowsFee(s)
    BY SessionFacts DEF Fine
  <2> QED
    BY <1>1, <2>1 DEF KnowsTask, KnowsRecords, KnowsFee
<1> QED
  BY <1>1, NumbersInOrder DEF LockedReadsStayTrue, PastBegin

(* A page in progress starts empty.                                        *)
LEMMA PagesHold == Spec => []PagesCovered
<1>1. Init => PagesCovered
  BY DEF Init, PagesCovered, PageCovered, PastBegin, Idle
<1>2. IInv /\ LP!IndInv /\ PagesCovered /\ [Next]_vars => PagesCovered'
  BY PageKept DEF PagesCovered
<1> QED
  BY <1>1, <1>2, Inductive, LedgerHolds, PTL DEF Spec
-----------------------------------------------------------------------------
(* Rows, requests and locks keep their shape.                              *)
THEOREM TypeCorrect == Spec => []TypeOK
<1>1. IInv => TypeOK
  BY DEF IInv, TypeOK, DataFine, DataTypes, SessionsOK, LockTypes
<1> QED
  BY <1>1, Inductive, PTL

(* What a request read under its lock is still so when it commits, and the *)
(* readings of a task are numbered 1 .. n in the order TARE, GROSS,        *)
(* REWEIGH, although the number is read in one statement and inserted in   *)
(* another (_append_record).                                               *)
THEOREM LockedReads == Spec => []LockedReadsStayTrue
<1>1. IInv /\ LP!IndInv => LockedReadsStayTrue
  BY LockedReadsTrue
<1> QED
  BY <1>1, Inductive, LedgerHolds, PTL

(* A fee that _transition_payment_status has checked is neither settled    *)
(* nor reversed by another request before it is written.                   *)
THEOREM CheckedFee == Spec => []CheckedFeeStaysOpen
<1>1. IInv => CheckedFeeStaysOpen
  <2> SUFFICES ASSUME IInv, NEW s \in Session, session[s].op \in FeeOp, session[s].pc = "ready"
               PROVE  /\ payment[session[s].task] = "UNPAID"
                      /\ reversal[session[s].task] = "NONE"
    BY DEF CheckedFeeStaysOpen
  <2>1. KnowsFee(s) /\ PastBegin(s)
    BY SessionFacts DEF Fine, PastBegin
  <2> QED
    BY <2>1 DEF KnowsFee
<1> QED
  BY <1>1, Inductive, PTL

(* The page that get_task and list_records put together from five moments  *)
(* shows the readings and the fee its summary is about.                    *)
THEOREM DetailComplete == Spec => []DetailCoversSummary
<1>1. PagesCovered => DetailCoversSummary
  <2> SUFFICES ASSUME PagesCovered, NEW s \in Session,
                      session[s].op = "VIEW", session[s].pc = "shown"
               PROVE  Covered(session[s].task, session[s].row, session[s].records, session[s].fee)
    BY DEF DetailCoversSummary, Covered
  <2> QED
    BY DEF PagesCovered, PageCovered, PastBegin
<1> QED
  BY <1>1, PagesHold, PTL
-----------------------------------------------------------------------------
(* Waits.  A lock is held only by a request of the kind that takes it, on  *)
(* the row it is about, and past the statement that took it.               *)
LocksUsed ==
  /\ \A t \in Task, s \in Session : taskLock[t] = s =>
       session[s].op \in TaskOp /\ session[s].task = t /\ PastBegin(s)
  /\ \A t \in Task, s \in Session : feeLock[t] = s =>
       session[s].op \in FeeOp /\ session[s].task = t /\ PastBegin(s)
  /\ \A t \in Task : \A s \in feeShare[t] : At(s, "ready", {"REVERSE"}) /\ session[s].task = t

LEMMA EndUsed ==
  ASSUME IInv, LocksUsed, NEW s \in Session, EndSession(s)
  PROVE  LocksUsed'
<1>1. /\ \A u \in Session \ {s} : session'[u] = session[u]
      /\ \A t \in Task : taskLock'[t] # s /\ feeLock'[t] # s /\ feeShare'[t] = feeShare[t] \ {s}
      /\ \A t \in Task, u \in Session : taskLock'[t] = u => taskLock[t] = u
      /\ \A t \in Task, u \in Session : feeLock'[t] = u => feeLock[t] = u
      /\ \A t \in Task : feeShare[t] \subseteq Session
  BY NobodyAssumption DEF EndSession, IInv, SessionsOK, LockTypes
<1> QED
  BY <1>1 DEF LocksUsed, PastBegin, At

(* A request that goes on with the locks it has, if any.                   *)
LEMMA OnUsed ==
  ASSUME IInv, LocksUsed, NEW s \in Session, NEW next, Continue(s, next), UNCHANGED locks,
         \/ session[s].pc \in {"idle", "begin"}
         \/ /\ next.op = session[s].op /\ next.task = session[s].task
            /\ next.pc \notin {"idle", "begin"} /\ ~ At(s, "ready", {"REVERSE"})
  PROVE  LocksUsed'
<1>1. /\ session'[s] = next /\ \A u \in Session \ {s} : session'[u] = session[u]
      /\ UNCHANGED <<taskLock, feeLock, feeShare>>
      /\ \A t \in Task : feeShare[t] \subseteq Session
  BY DEF Continue, IInv, SessionsOK, LockTypes, locks
<1> QED
  BY <1>1 DEF LocksUsed, PastBegin, At

(* The statements that read and go on, or leave.                           *)
LEMMA ReadUsed ==
  ASSUME IInv, LocksUsed, NEW s \in Session,
         \/ ReadRecords(s) \/ ReadFeeToComplete(s) \/ CheckReversal(s) \/ ReadReversal(s)
         \/ ReadFeeToReverse(s) \/ ViewTask(s) \/ ViewFee(s) \/ ViewReversal(s) \/ ViewRecords(s)
  PROVE  LocksUsed'
<1> DEFINE me == session[s]
<1>0. me \in RequestType
  BY DEF IInv, SessionsOK
<1>1. CASE Leave(s)
  BY <1>1, EndUsed DEF Leave
<1>2. CASE ~ Leave(s)
  <2> DEFINE ready(seq) == [me EXCEPT !.pc = "ready", !.seq = seq]
             fee(pc) == [me EXCEPT !.pc = pc, !.fee = payment[me.task]]
             at(pc) == [me EXCEPT !.pc = pc]
             summary == [me EXCEPT !.pc = "summary", !.row = row[me.task]]
             reversed == [me EXCEPT !.pc = "reversal", !.rev = reversal[me.task]]
             shown == [me EXCEPT !.pc = "shown", !.records = ShownRecords(me.task)]
  <2>1. /\ UNCHANGED locks
        /\ me.pc \notin {"ready", "idle"}
        /\ \/ \E seq : Continue(s, ready(seq))
           \/ \E pc \in {"ready", "snapshot", "fee"} : Continue(s, fee(pc))
           \/ \E pc \in {"ready", "unreversed"} : Continue(s, at(pc))
           \/ Continue(s, summary) \/ Continue(s, reversed) \/ Continue(s, shown)
    BY <1>2 DEF At, ReadRecords, ReadFeeToComplete, CheckReversal, ReadReversal,
       ReadFeeToReverse, ViewTask, ViewFee, ViewReversal, ViewRecords
  <2>2. ASSUME NEW next, Continue(s, next), next.op = me.op, next.task = me.task,
               next.pc \notin {"idle", "begin"}
        PROVE  LocksUsed'
    BY <2>1, <2>2, OnUsed DEF At
  <2>3. ASSUME NEW seq, Continue(s, ready(seq)) PROVE LocksUsed'
    <3>1. /\ ready(seq).op = me.op /\ ready(seq).task = me.task
          /\ ready(seq).pc \notin {"idle", "begin"}
      BY <1>0 DEF RequestType
    <3> QED  BY <2>2, <2>3, <3>1
  <2>4. ASSUME NEW pc \in {"ready", "snapshot", "fee"}, Continue(s, fee(pc)) PROVE LocksUsed'
    <3>1. /\ fee(pc).op = me.op /\ fee(pc).task = me.task
          /\ fee(pc).pc \notin {"idle", "begin"}
      BY <1>0 DEF RequestType
    <3> QED  BY <2>2, <2>4, <3>1
  <2>5. ASSUME NEW pc \in {"ready", "unreversed"}, Continue(s, at(pc)) PROVE LocksUsed'
    <3>1. at(pc).op = me.op /\ at(pc).task = me.task /\ at(pc).pc \notin {"idle", "begin"}
      BY <1>0 DEF RequestType
    <3> QED  BY <2>2, <2>5, <3>1
  <2>6. ASSUME Continue(s, summary) \/ Continue(s, reversed) \/ Continue(s, shown)
        PROVE  LocksUsed'
    <3>1. /\ summary.op = me.op /\ summary.task = me.task /\ summary.pc \notin {"idle", "begin"}
          /\ reversed.op = me.op /\ reversed.task = me.task
          /\ reversed.pc \notin {"idle", "begin"}
          /\ shown.op = me.op /\ shown.task = me.task /\ shown.pc \notin {"idle", "begin"}
      BY <1>0 DEF RequestType
    <3> QED  BY <2>2, <2>6, <3>1
  <2> QED
    BY <2>1, <2>3, <2>4, <2>5, <2>6
<1> QED
  BY <1>1, <1>2

LEMMA StepUsed ==
  ASSUME IInv, LocksUsed, NEW s \in Session,
         \/ Begin(s) \/ Abort(s) \/ Statement(s) \/ LockTask(s) \/ LockFee(s) \/ FlushReversal(s)
  PROVE  LocksUsed'
<1> DEFINE me == session[s]
<1>0. /\ session \in [Session -> RequestType] /\ me \in RequestType /\ Named(s)
      /\ taskLock \in [Task -> Session \cup {Nobody}]
      /\ feeLock \in [Task -> Session \cup {Nobody}]
      /\ feeShare \in [Task -> SUBSET Session]
  BY DEF IInv, SessionsOK, LockTypes, Fine
<1>1. CASE EndSession(s)
  BY <1>1, EndUsed
<1>2. CASE Begin(s)
  <2>1. UNCHANGED locks /\ me.pc = "idle" /\ \E next : Continue(s, next)
    BY <1>2 DEF Begin
  <2> QED
    BY <2>1, OnUsed
<1>3. CASE \/ ReadRecords(s) \/ ReadFeeToComplete(s) \/ CheckReversal(s) \/ ReadReversal(s)
           \/ ReadFeeToReverse(s) \/ ViewTask(s) \/ ViewFee(s) \/ ViewReversal(s) \/ ViewRecords(s)
  BY <1>3, ReadUsed
<1>4. CASE LockTask(s) /\ ~ EndSession(s)
  <2>1. /\ me.task \in Task /\ me.pc = "begin" /\ me.op \in TaskOp
        /\ session' = [session EXCEPT ![s] = [me EXCEPT !.pc = "held", !.row = row[me.task]]]
        /\ taskLock' = [taskLock EXCEPT ![me.task] = s]
        /\ UNCHANGED <<feeLock, feeShare>>
    BY <1>0, <1>4 DEF LockTask, At, Named, Leave, Continue
  <2> QED
    BY <1>0, <2>1, NobodyAssumption DEF LocksUsed, PastBegin, At, RequestType
<1>5. CASE LockFee(s) /\ ~ EndSession(s)
  <2>1. /\ me.task \in Task /\ me.pc = "begin" /\ me.op \in FeeOp
        /\ session' = [session EXCEPT ![s] = [me EXCEPT !.pc = "held", !.fee = payment[me.task]]]
        /\ feeLock' = [feeLock EXCEPT ![me.task] = s]
        /\ UNCHANGED <<taskLock, feeShare>>
    BY <1>0, <1>5 DEF LockFee, At, Named, Leave, Continue
  <2> QED
    BY <1>0, <2>1, NobodyAssumption DEF LocksUsed, PastBegin, At, RequestType
<1>6. CASE FlushReversal(s) /\ ~ EndSession(s)
  <2>1. /\ me.task \in Task /\ me.pc = "snapshot" /\ me.op = "REVERSE"
        /\ session' = [session EXCEPT ![s] = [me EXCEPT !.pc = "ready"]]
        /\ \A t \in Task : feeShare'[t] \subseteq feeShare[t] \cup (IF t = me.task THEN {s} ELSE {})
        /\ UNCHANGED <<taskLock, feeLock>>
    BY <1>0, <1>6 DEF FlushReversal, At, Named, Leave, Continue
  <2> QED
    BY <1>0, <2>1, NobodyAssumption DEF LocksUsed, PastBegin, At, RequestType
<1> QED
  BY <1>1, <1>2, <1>3, <1>4, <1>5, <1>6
     DEF Statement, Abort, Leave, RefuseState, NoBillingRule, Respond, CommitReading, CommitTask,
         CommitCompletion, CommitPayment, CommitReversal

LEMMA LocksAreUsed == Spec => []LocksUsed
<1>1. Init => LocksUsed
  BY NobodyAssumption DEF Init, LocksUsed
<1>2. IInv /\ LocksUsed /\ [Next]_vars => LocksUsed'
  <2> SUFFICES ASSUME IInv, LocksUsed, [Next]_vars PROVE LocksUsed'
    OBVIOUS
  <2>1. CASE UNCHANGED vars
    BY <2>1 DEF vars, LocksUsed, PastBegin, At
  <2>2. ASSUME NEW t \in Task, Create(t) PROVE LocksUsed'
    BY <2>2 DEF Create, locks, LocksUsed, PastBegin, At
  <2>3. CASE \E s \in Session : \/ Begin(s) \/ Abort(s) \/ Statement(s)
                                \/ LockTask(s) \/ LockFee(s) \/ FlushReversal(s)
    BY <2>3, StepUsed
  <2> QED
    BY <2>1, <2>2, <2>3 DEF Next
<1> QED
  BY <1>1, <1>2, Inductive, PTL DEF Spec

(* However many requests there are on a task and its fee, none of them is  *)
(* part of a circle of waits: a reversal that holds the task may wait for  *)
(* a payment that holds the fee, and a payment waits before it holds       *)
(* anything.                                                               *)
THEOREM WaitsAreShort == Spec => []NobodyWaitsInCircle
<1>1. IInv /\ LocksUsed => NobodyWaitsInCircle
  <2> SUFFICES ASSUME IInv, LocksUsed, NEW s \in Session, NEW r \in Session, WaitsFor(s, r)
               PROVE  /\ session[r].pc # "idle"
                      /\ \A q \in Session : WaitsFor(r, q) => \A p \in Session : ~ WaitsFor(q, p)
    BY DEF NobodyWaitsInCircle
  <2>1. ASSUME NEW u \in Session, NEW q \in Session, WaitsFor(u, q)
        PROVE  /\ PastBegin(q)
               /\ At(u, "snapshot", {"REVERSE"}) => session[q].op \in FeeOp
    <3>1. session[u].task \in Task
      BY <2>1 DEF WaitsFor, At, IInv, Fine, Named
    <3>2. CASE At(u, "begin", TaskOp) /\ taskLock[session[u].task] = q
      BY <3>1, <3>2 DEF LocksUsed, At
    <3>3. CASE At(u, "begin", FeeOp)
               /\ (feeLock[session[u].task] = q \/ q \in feeShare[session[u].task])
      BY <3>1, <3>3 DEF LocksUsed, At, PastBegin
    <3>4. CASE At(u, "snapshot", {"REVERSE"}) /\ feeLock[session[u].task] = q
      BY <3>1, <3>4 DEF LocksUsed, At
    <3> QED
      BY <2>1, <3>2, <3>3, <3>4 DEF WaitsFor
  <2>2. PastBegin(r)
    BY <2>1
  <2>3. ASSUME NEW q \in Session, WaitsFor(r, q), NEW p \in Session PROVE ~ WaitsFor(q, p)
    <3>1. At(r, "snapshot", {"REVERSE"})
      BY <2>2, <2>3 DEF WaitsFor, At, PastBegin
    <3>2. PastBegin(q) /\ session[q].op \in FeeOp
      BY <2>1, <2>3, <3>1
    <3> QED
      BY <3>2 DEF WaitsFor, At, PastBegin, FeeOp
  <2> QED
    BY <2>2, <2>3 DEF PastBegin
<1> QED
  BY <1>1, Inductive, LocksAreUsed, PTL
=============================================================================
