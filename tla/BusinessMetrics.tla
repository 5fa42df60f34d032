-------------------------- MODULE BusinessMetrics --------------------------
(***************************************************************************)
(* The business counters of observability/metrics.py and the handlers that *)
(* feed them.  A completion, a payment, a waiver or a reversal commits its *)
(* transaction and then, holding no lock any more, counts what it has      *)
(* done, one counter after the other.  The counters live in the files of   *)
(* the container (PROMETHEUS_MULTIPROC_DIR): a worker that dies leaves     *)
(* them, a container that starts deletes them.                             *)
(*                                                                         *)
(* A request that is refused, or finds its work already done, neither      *)
(* writes nor counts, and is no step here.  How requests wait for locks,   *)
(* what else they check and what else they write is in WeighingRequests.   *)
(***************************************************************************)
EXTENDS Naturals

CONSTANTS
  Task,      \* weighing tasks that can be completed
  Session,   \* requests being served, one database session each
  Nobody     \* the holder of a free lock

ASSUME NobodyAssumption == Nobody \notin Session
ASSUME TaskAssumption == Task # {}

VARIABLES
  fee,         \* fee[t]: the payment status of t's record, "NONE" before there is one
  reversed,    \* the tasks that have a reversal
  taskLock,    \* taskLock[t], recordLock[t]: who holds the row FOR UPDATE
  recordLock,
  session,     \* session[s]: where s stands in which handler for which task
  counted,     \* counted[e]: how often e is in the counter files
  before,      \* history: the events committed before the container started
  lost         \* history: those of this container whose count was given up

vars == <<fee, reversed, taskLock, recordLock, session, counted, before, lost>>
database == <<fee, reversed, taskLock, recordLock>>

Op == {"COMPLETE", "PAID", "WAIVED", "REVERSE"}
Kind == {"completed", "UNPAID", "amount", "PAID", "WAIVED", "reversed"}
Event == Kind \X Task

(* The first count of each handler, and what is counted next.              *)
FirstCount ==
  [COMPLETE |-> "completed", PAID |-> "PAID", WAIVED |-> "WAIVED", REVERSE |-> "reversed"]

CompletionOnly(k) == "idle"      \* the fee of a completion goes uncounted
Then(k) ==
  CASE k = "completed" -> "UNPAID"
    [] k = "UNPAID"    -> "amount"
    [] OTHER           -> "idle"

(* What a session that is about to count k has still to count.             *)
Rest(k) ==
  CASE k = "completed"                                 -> {"completed", "UNPAID", "amount"}
    [] k = "UNPAID"                                    -> {"UNPAID", "amount"}
    [] k \in {"amount", "PAID", "WAIVED", "reversed"} -> {k}
    [] OTHER                                           -> {}

Due(s) == Rest(session[s].pc) \X {session[s].task}

(* The events the database remembers.                                      *)
Happened(k, t) ==
  CASE k \in {"completed", "UNPAID", "amount"} -> fee[t] # "NONE"
    [] k = "reversed"                          -> t \in reversed
    [] OTHER                                   -> fee[t] = k

Committed == {e \in Event : Happened(e[1], e[2])}
Fresh == Committed \ before

Idle == [pc |-> "idle", op |-> "COMPLETE", task |-> CHOOSE t \in Task : TRUE]

(* The types; and only a transaction that is under way holds a row, that of *)
(* its own task.                                                           *)
TypeOK ==
  /\ fee \in [Task -> {"NONE", "UNPAID", "PAID", "WAIVED"}]
  /\ reversed \subseteq Task
  /\ taskLock \in [Task -> Session \cup {Nobody}]
  /\ recordLock \in [Task -> Session \cup {Nobody}]
  /\ session \in [Session -> [pc : {"idle", "checked"} \cup Kind, op : Op, task : Task]]
  /\ counted \in [Event -> Nat]
  /\ before \subseteq Event
  /\ lost \subseteq Event
  /\ \A t \in Task, s \in Session :
       taskLock[t] = s \/ recordLock[t] = s => session[s].pc = "checked" /\ session[s].task = t

Init ==
  /\ fee = [t \in Task |-> "NONE"]
  /\ reversed = {}
  /\ taskLock = [t \in Task |-> Nobody]
  /\ recordLock = [t \in Task |-> Nobody]
  /\ session = [s \in Session |-> Idle]
  /\ counted = [e \in Event |-> 0]
  /\ before = {}
  /\ lost = {}
-----------------------------------------------------------------------------
RetriesGoOn(op, t) ==            \* a repeated payment goes the way of the first
  CASE op = "COMPLETE"            -> fee[t] = "NONE"
    [] op \in {"PAID", "WAIVED"}  -> fee[t] \in {"UNPAID", op} /\ t \notin reversed
    [] op = "REVERSE"             -> fee[t] \notin {"NONE", "PAID"} /\ t \notin reversed

(* What each handler asks of the rows it has read, under its lock.         *)
Wanted(op, t) ==
  CASE op = "COMPLETE"            -> fee[t] = "NONE"
    [] op \in {"PAID", "WAIVED"}  -> fee[t] = "UNPAID" /\ t \notin reversed
    [] op = "REVERSE"             -> fee[t] \notin {"NONE", "PAID"} /\ t \notin reversed

(* A request takes its row and finds that it has something to do.          *)
Check(s, op, t) ==
  /\ session[s].pc = "idle"
  /\ Wanted(op, t)
  /\ IF op \in {"PAID", "WAIVED"}
       THEN /\ recordLock[t] = Nobody
            /\ recordLock' = [recordLock EXCEPT ![t] = s]
            /\ UNCHANGED taskLock
       ELSE /\ taskLock[t] = Nobody
            /\ taskLock' = [taskLock EXCEPT ![t] = s]
            /\ UNCHANGED recordLock
  /\ session' = [session EXCEPT ![s] = [pc |-> "checked", op |-> op, task |-> t]]
  /\ UNCHANGED <<fee, reversed, counted, before, lost>>

(* The locks when the transaction of s has ended.                          *)
Unlock(s) ==
  /\ taskLock' = [t \in Task |-> IF taskLock[t] = s THEN Nobody ELSE taskLock[t]]
  /\ recordLock' = [t \in Task |-> IF recordLock[t] = s THEN Nobody ELSE recordLock[t]]

(* The transaction commits; the counting comes after it.                   *)
Commit(s) ==
  LET op == session[s].op
      t  == session[s].task
  IN /\ session[s].pc = "checked"
     /\ fee' = CASE op = "COMPLETE" -> [fee EXCEPT ![t] = "UNPAID"]
                 [] op = "REVERSE"  -> fee
                 [] OTHER           -> [fee EXCEPT ![t] = op]
     /\ reversed' = IF op = "REVERSE" THEN reversed \cup {t} ELSE reversed
     /\ Unlock(s)
     /\ session' = [session EXCEPT ![s].pc = FirstCount[op]]
     /\ UNCHANGED <<counted, before, lost>>

RollbackFallsThrough(s) ==       \* the failed request goes on to its counts
  /\ session[s].pc = "checked"
  /\ Unlock(s)
  /\ session' = [session EXCEPT ![s].pc = FirstCount[session[s].op]]
  /\ UNCHANGED <<fee, reversed, counted, before, lost>>

(* The transaction fails and is rolled back; nothing is counted.           *)
Rollback(s) ==
  /\ session[s].pc = "checked"
  /\ Unlock(s)
  /\ session' = [session EXCEPT ![s].pc = "idle"]
  /\ UNCHANGED <<fee, reversed, counted, before, lost>>

(* The next count, and one whose failure _safe_metric_update swallows.     *)
Count(s) ==
  LET e == <<session[s].pc, session[s].task>>
  IN /\ session[s].pc \in Kind
     /\ counted' = [counted EXCEPT ![e] = @ + 1]
     /\ session' = [session EXCEPT ![s].pc = Then(session[s].pc)]
     /\ UNCHANGED <<database, before, lost>>

CountFails(s) ==
  /\ session[s].pc \in Kind
  /\ lost' = lost \cup {<<session[s].pc, session[s].task>>}
  /\ session' = [session EXCEPT ![s].pc = Then(session[s].pc)]
  /\ UNCHANGED <<database, counted, before>>

(* The worker that serves s dies: the database rolls back what was not     *)
(* committed, the counter files stay, the counts still due are never made. *)
Dies(s) ==
  /\ session[s].pc # "idle"
  /\ lost' = lost \cup Due(s)
  /\ Unlock(s)
  /\ session' = [session EXCEPT ![s].pc = "idle"]
  /\ UNCHANGED <<fee, reversed, counted, before>>

(* The container starts again, with an empty directory of counter files.   *)
Restart ==
  /\ taskLock' = [t \in Task |-> Nobody]
  /\ recordLock' = [t \in Task |-> Nobody]
  /\ session' = [s \in Session |-> [session[s] EXCEPT !.pc = "idle"]]
  /\ counted' = [e \in Event |-> 0]
  /\ before' = Committed
  /\ lost' = {}
  /\ UNCHANGED <<fee, reversed>>

Step(s) ==
  \/ \E op \in Op, t \in Task : Check(s, op, t)
  \/ Commit(s) \/ Rollback(s)
  \/ Count(s) \/ CountFails(s)
  \/ Dies(s)

Next == (\E s \in Session : Step(s)) \/ Restart

Spec == Init /\ [][Next]_vars
-----------------------------------------------------------------------------
(* No event is counted twice in the life of a container, however often its *)
(* request is repeated, by however many sessions at once.                  *)
CountedOnce == \A e \in Event : counted[e] <= 1

(* What is counted has been committed, since the container started: a      *)
(* count never runs ahead of its transaction, and never outlives the files *)
(* that hold it.                                                           *)
CountedAfterCommit == \A e \in Event : counted[e] > 0 => e \in Fresh

(* What has been committed since the container started is counted, about   *)
(* to be counted by a live request, or lost to a death or failed update.   *)
NothingForgotten ==
  \A e \in Fresh : counted[e] > 0 \/ e \in lost \/ \E s \in Session : e \in Due(s)

(* An event that was given up was committed and stays uncounted: nobody    *)
(* else makes up for it, neither a retry nor a later request.              *)
LostStaysLost == \A e \in lost : e \in Fresh /\ counted[e] = 0
=============================================================================
