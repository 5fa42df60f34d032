------------------------- MODULE ObservabilityProofs -------------------------
(***************************************************************************)
(* What requests leave behind and what they share, for every set of tasks  *)
(* and requests: the business counters (BusinessMetrics), the responses    *)
(* and records of the layers around an endpoint (RequestPipeline), and the *)
(* threads and connections of one worker (WorkerRequests).                 *)
(*                                                                         *)
(* The argument for the counters is an account of every event: before its  *)
(* commit it is due from nobody and counted nowhere; the commit makes it   *)
(* due from the one session whose lock let it commit; from there it goes   *)
(* to the counter or is lost, once.  What the lock protects is that the    *)
(* event is new at the moment of the commit (Locked), though it was read   *)
(* before.                                                                 *)
(*                                                                         *)
(* The argument for the layers is that the middlewares know at every step  *)
(* the status and id of what has been sent (Tells), and that the status    *)
(* is the answer to the error that was met (Met); until something is sent  *)
(* it is 500, which is what the outermost handler then answers.            *)
(*                                                                         *)
(* The argument for the worker is that who takes a thread or a connection  *)
(* also goes to where it is used, that only who uses one gives it back,    *)
(* and that a share is taken only when the pool is not used up.            *)
(***************************************************************************)
EXTENDS BusinessMetrics, RequestPipeline, WorkerRequests, FiniteSetTheorems, TLAPS

(* What a session that has checked still knows: its lock keeps it true.    *)
Locked ==
  \A s \in Session : session[s].pc = "checked" =>
    LET t == session[s].task IN
    /\ session[s].op = "COMPLETE" => taskLock[t] = s /\ fee[t] = "NONE"
    /\ session[s].op = "REVERSE" => taskLock[t] = s /\ t \notin reversed
    /\ session[s].op \in {"PAID", "WAIVED"} => recordLock[t] = s /\ fee[t] = "UNPAID"

(* What is due happened in this container, and nothing has become of it.   *)
Owed == \A s \in Session : \A e \in Due(s) : e \in Fresh /\ counted[e] = 0 /\ e \notin lost

(* No two sessions owe the same count.                                     *)
Apart == \A s, r \in Session : s # r => Due(s) \cap Due(r) = {}

Past == before \subseteq Committed

Account ==
  /\ Owed /\ Apart /\ Past
  /\ CountedOnce /\ CountedAfterCommit /\ NothingForgotten /\ LostStaysLost

IndInv == TypeOK /\ Locked /\ Account
-----------------------------------------------------------------------------
(* The counts of a handler, as the sets of what is left of them.           *)

LEMMA RestOfKind ==
  ASSUME NEW k \in Kind
  PROVE  k \in Rest(k) /\ Rest(k) \subseteq Kind /\ Rest(Then(k)) = Rest(k) \ {k}
         /\ Then(k) \in {"idle", "checked"} \cup Kind /\ Then(k) # "checked"
<1>1. CASE k = "completed"
  <2>1. Then(k) = "UNPAID" /\ Rest(k) = {"completed", "UNPAID", "amount"}
    BY <1>1 DEF Then, Rest
  <2>2. Rest("UNPAID") = {"UNPAID", "amount"}
    BY DEF Rest
  <2> QED  BY <1>1, <2>1, <2>2 DEF Kind
<1>2. CASE k = "UNPAID"
  <2>1. Then(k) = "amount" /\ Rest(k) = {"UNPAID", "amount"}
    BY <1>2 DEF Then, Rest
  <2>2. Rest("amount") = {"amount"}
    BY DEF Kind, Rest
  <2> QED  BY <1>2, <2>1, <2>2 DEF Kind
<1>3. CASE k \in Kind \ {"completed", "UNPAID"}
  <2>1. Rest(k) = {k} /\ Then(k) = "idle"
    BY <1>3 DEF Kind, Rest, Then
  <2>2. Rest("idle") = {}
    BY DEF Kind, Rest
  <2> QED  BY <2>1, <2>2
<1> QED  BY <1>1, <1>2, <1>3

LEMMA NoRest == Rest("idle") = {} /\ Rest("checked") = {}
BY DEF Kind, Rest

LEMMA DueIsEvents ==
  ASSUME TypeOK, NEW s \in Session
  PROVE  Due(s) \subseteq Event
BY RestOfKind, NoRest DEF TypeOK, Due, Event
-----------------------------------------------------------------------------
LEMMA InitIndInv == Init => IndInv
<1> SUFFICES ASSUME Init PROVE IndInv
  OBVIOUS
<1>1. Idle \in [pc : {"idle", "checked"} \cup Kind, op : Op, task : Task]
  BY TaskAssumption DEF Idle, Op
<1>2. TypeOK
  BY <1>1, NobodyAssumption DEF Init, TypeOK, Event
<1>3. \A s \in Session : session[s].pc = "idle" /\ Due(s) = {}
  BY NoRest DEF Init, Idle, Due
<1>4. Committed = {}
  BY DEF Init, Committed, Happened, Event, Kind
<1>5. CountedOnce /\ CountedAfterCommit /\ NothingForgotten /\ LostStaysLost
  BY <1>4 DEF Init, CountedOnce, CountedAfterCommit, NothingForgotten, LostStaysLost, Fresh
<1> QED
  BY <1>2, <1>3, <1>4, <1>5 DEF Init, IndInv, Locked, Account, Owed, Apart, Past
-----------------------------------------------------------------------------
(* What a step of one session leaves of the account of the others.         *)

LEMMA UnlockLocks ==
  ASSUME TypeOK, NEW s \in Session, Unlock(s)
  PROVE  /\ taskLock' \in [Task -> Session \cup {Nobody}]
         /\ recordLock' \in [Task -> Session \cup {Nobody}]
         /\ \A t \in Task, r \in Session :
              /\ taskLock'[t] = r <=> taskLock[t] = r /\ r # s
              /\ recordLock'[t] = r <=> recordLock[t] = r /\ r # s
BY NobodyAssumption DEF TypeOK, Unlock

LEMMA SameEvents ==
  ASSUME UNCHANGED <<fee, reversed>>
  PROVE  Committed' = Committed
BY DEF Committed, Happened

(* Session s goes to k, which is no checked transaction, and every other   *)
(* stays where it is.                                                      *)
Moves(s, k) ==
  /\ k \in {"idle"} \cup Kind
  /\ session' = [session EXCEPT ![s].pc = k]

LEMMA MovesTypes ==
  ASSUME TypeOK, NEW s \in Session, NEW k, Moves(s, k)
  PROVE  /\ session' \in [Session -> [pc : {"idle", "checked"} \cup Kind, op : Op, task : Task]]
         /\ session'[s].pc = k /\ session'[s].task = session[s].task
         /\ Due(s)' = Rest(k) \X {session[s].task}
         /\ \A r \in Session \ {s} : session'[r] = session[r] /\ Due(r)' = Due(r)
<1>1. \A r \in Session \ {s} : session'[r] = session[r]
  BY DEF TypeOK, Moves
<1>2. session'[s] = [session[s] EXCEPT !.pc = k]
  BY DEF TypeOK, Moves
<1>3. session'[s].pc = k /\ session'[s].task = session[s].task /\ session'[s].op = session[s].op
  BY <1>2 DEF TypeOK
<1>4. session' \in [Session -> [pc : {"idle", "checked"} \cup Kind, op : Op, task : Task]]
  BY DEF TypeOK, Moves
<1> QED
  BY <1>1, <1>3, <1>4 DEF Due

(* The end of a transaction that writes nothing, and of a count: types and *)
(* locks.                                                                  *)
LEMMA MovesUnlocked ==
  ASSUME IndInv, NEW s \in Session, NEW k, Moves(s, k), Unlock(s), UNCHANGED <<fee, reversed>>,
         counted' \in [Event -> Nat], before' \subseteq Event, lost' \subseteq Event
  PROVE  TypeOK' /\ Locked'
<1> USE DEF IndInv
<1>1. TypeOK'
  BY MovesTypes, UnlockLocks DEF TypeOK
<1>2. Locked'
  <2> SUFFICES ASSUME NEW r \in Session, session'[r].pc = "checked"
               PROVE  r # s /\ session'[r] = session[r] /\ session[r].task \in Task
    BY UnlockLocks DEF Locked
  <2> QED
    BY MovesTypes DEF Moves, Kind, TypeOK
<1> QED
  BY <1>1, <1>2

LEMMA MovesLocked ==
  ASSUME IndInv, NEW s \in Session, NEW k, Moves(s, k), session[s].pc # "checked",
         UNCHANGED database,
         counted' \in [Event -> Nat], before' \subseteq Event, lost' \subseteq Event
  PROVE  TypeOK' /\ Locked'
<1> USE DEF IndInv
<1>1. TypeOK'
  BY MovesTypes DEF TypeOK, database
<1>2. Locked'
  <2> SUFFICES ASSUME NEW r \in Session, session'[r].pc = "checked"
               PROVE  r # s /\ session'[r] = session[r]
    BY DEF Locked, database
  <2> QED
    BY MovesTypes DEF Moves, Kind
<1> QED
  BY <1>1, <1>2
-----------------------------------------------------------------------------
(* The steps.                                                              *)

LEMMA CheckStep ==
  ASSUME IndInv, NEW s \in Session, NEW op \in Op, NEW t \in Task, Check(s, op, t)
  PROVE  IndInv'
<1> USE DEF IndInv
<1>1. /\ session' \in [Session -> [pc : {"idle", "checked"} \cup Kind, op : Op, task : Task]]
      /\ session'[s] = [pc |-> "checked", op |-> op, task |-> t]
      /\ \A r \in Session \ {s} : session'[r] = session[r]
  BY DEF TypeOK, Check
<1>2. /\ taskLock' \in [Task -> Session \cup {Nobody}]
      /\ recordLock' \in [Task -> Session \cup {Nobody}]
      /\ \A u \in Task, r \in Session \ {s} :
           /\ taskLock'[u] = r <=> taskLock[u] = r
           /\ recordLock'[u] = r <=> recordLock[u] = r
      /\ \A u \in Task : taskLock'[u] = s \/ recordLock'[u] = s => u = t
  BY NobodyAssumption DEF TypeOK, Check
<1>3. TypeOK'
  <2>1. \A u \in Task, r \in Session :
          taskLock'[u] = r \/ recordLock'[u] = r
            => session'[r].pc = "checked" /\ session'[r].task = u
    BY <1>1, <1>2 DEF TypeOK
  <2> QED
    BY <1>1, <1>2, <2>1 DEF TypeOK, Check
<1>4. Locked'
  <2> SUFFICES ASSUME NEW r \in Session, session'[r].pc = "checked"
               PROVE  LET u == session'[r].task IN
                      /\ session'[r].op = "COMPLETE" => taskLock'[u] = r /\ fee'[u] = "NONE"
                      /\ session'[r].op = "REVERSE" => taskLock'[u] = r /\ u \notin reversed'
                      /\ session'[r].op \in {"PAID", "WAIVED"} =>
                           recordLock'[u] = r /\ fee'[u] = "UNPAID"
    BY DEF Locked
  <2>1. CASE r = s
    <3>1. CASE op = "COMPLETE"
      BY <1>1, <2>1, <3>1 DEF TypeOK, Check, Wanted
    <3>2. CASE op = "REVERSE"
      BY <1>1, <2>1, <3>2 DEF TypeOK, Check, Wanted
    <3>3. CASE op \in {"PAID", "WAIVED"}
      BY <1>1, <2>1, <3>3 DEF TypeOK, Check, Wanted
    <3> QED
      BY <3>1, <3>2, <3>3 DEF Op
  <2>2. CASE r # s
    BY <1>1, <1>2, <2>2 DEF TypeOK, Check, Locked
  <2> QED
    BY <2>1, <2>2
<1>5. \A r \in Session : Due(r)' = Due(r)
  BY <1>1, NoRest DEF Check, Due
<1>6. Committed' = Committed
  BY SameEvents DEF Check
<1>7. Account'
  BY <1>5, <1>6 DEF Check, Account, Owed, Apart, Past, CountedOnce, CountedAfterCommit,
     NothingForgotten, LostStaysLost, Fresh
<1> QED
  BY <1>3, <1>4, <1>7

LEMMA RollbackStep ==
  ASSUME IndInv, NEW s \in Session, Rollback(s)
  PROVE  IndInv'
<1> USE DEF IndInv
<1>1. Moves(s, "idle")
  BY DEF Rollback, Moves
<1>2. TypeOK' /\ Locked'
  BY <1>1, MovesUnlocked DEF Rollback, TypeOK
<1>3. \A r \in Session : Due(r)' = Due(r)
  BY <1>1, MovesTypes, NoRest DEF Rollback, Due
<1>4. Committed' = Committed
  BY SameEvents DEF Rollback
<1>5. Account'
  BY <1>3, <1>4 DEF Rollback, Account, Owed, Apart, Past, CountedOnce, CountedAfterCommit,
     NothingForgotten, LostStaysLost, Fresh
<1> QED
  BY <1>2, <1>5

LEMMA CountStep ==
  ASSUME IndInv, NEW s \in Session, Count(s)
  PROVE  IndInv'
<1> USE DEF IndInv
<1> DEFINE k == session[s].pc
           e == <<k, session[s].task>>
<1>1. k \in Kind /\ session[s].task \in Task /\ e \in Event
  BY DEF Count, TypeOK, Event
<1>2. Moves(s, Then(k))
  BY <1>1, RestOfKind DEF Count, Moves
<1>3. e \in Due(s) /\ Due(s)' = Due(s) \ {e} /\ \A r \in Session \ {s} : Due(r)' = Due(r)
  <2>1. Due(s)' = Rest(Then(k)) \X {session[s].task}
    BY <1>2, MovesTypes
  <2>2. Rest(Then(k)) = Rest(k) \ {k} /\ k \in Rest(k)
    BY <1>1, RestOfKind
  <2> QED
    BY <1>2, <2>1, <2>2, MovesTypes DEF Due
<1>4. counted'[e] = counted[e] + 1 /\ \A f \in Event \ {e} : counted'[f] = counted[f]
  BY <1>1 DEF Count, TypeOK
<1>5. TypeOK' /\ Locked'
  <2>1. counted' \in [Event -> Nat]
    BY <1>1 DEF Count, TypeOK
  <2>2. session[s].pc # "checked"
    BY DEF Count, Kind
  <2> QED
    BY <1>2, <2>1, <2>2, MovesLocked DEF Count, TypeOK
<1>6. Committed' = Committed /\ Fresh' = Fresh /\ lost' = lost
  BY SameEvents DEF Count, Fresh, database
<1>7. e \in Fresh /\ counted'[e] = 1 /\ e \notin lost
  BY <1>3, <1>4 DEF Account, Owed
<1>8. Owed' /\ Apart'
  <2>1. \A r \in Session : Due(r)' \subseteq Due(r) /\ e \notin Due(r)' /\ Due(r) \subseteq Event
    BY <1>3, DueIsEvents DEF Account, Apart
  <2>2. Owed'
    BY <1>4, <1>6, <2>1 DEF Account, Owed
  <2>3. Apart'
    BY <2>1 DEF Account, Apart
  <2> QED
    BY <2>2, <2>3
<1>9. CountedOnce' /\ CountedAfterCommit' /\ LostStaysLost'
  BY <1>4, <1>6, <1>7 DEF Account, CountedOnce, CountedAfterCommit, LostStaysLost, TypeOK
<1>10. NothingForgotten'
  <2>1. SUFFICES ASSUME NEW f \in Fresh'
                 PROVE  counted'[f] > 0 \/ f \in lost' \/ \E r \in Session : f \in Due(r)'
    BY DEF NothingForgotten
  <2>2. CASE f = e
    BY <1>7, <2>2
  <2>3. CASE f # e
    <3>1. f \in Event /\ counted'[f] = counted[f]
      BY <1>4, <1>6, <2>3 DEF Fresh, Committed
    <3>2. counted[f] > 0 \/ f \in lost \/ \E r \in Session : f \in Due(r)
      BY <1>6 DEF Account, NothingForgotten
    <3>3. \A r \in Session : f \in Due(r) => f \in Due(r)'
      BY <1>3, <2>3
    <3> QED
      BY <1>6, <3>1, <3>2, <3>3
  <2> QED
    BY <2>2, <2>3
<1>11. Past'
  BY <1>6 DEF Account, Past, Count
<1> QED
  BY <1>5, <1>8, <1>9, <1>10, <1>11 DEF Account

LEMMA CountFailsStep ==
  ASSUME IndInv, NEW s \in Session, CountFails(s)
  PROVE  IndInv'
<1> USE DEF IndInv
<1> DEFINE k == session[s].pc
           e == <<k, session[s].task>>
<1>1. k \in Kind /\ session[s].task \in Task /\ e \in Event
  BY DEF CountFails, TypeOK, Event
<1>2. Moves(s, Then(k))
  BY <1>1, RestOfKind DEF CountFails, Moves
<1>3. e \in Due(s) /\ Due(s)' = Due(s) \ {e} /\ \A r \in Session \ {s} : Due(r)' = Due(r)
  <2>1. Due(s)' = Rest(Then(k)) \X {session[s].task}
    BY <1>2, MovesTypes
  <2>2. Rest(Then(k)) = Rest(k) \ {k} /\ k \in Rest(k)
    BY <1>1, RestOfKind
  <2> QED
    BY <1>2, <2>1, <2>2, MovesTypes DEF Due
<1>4. lost' = lost \cup {e} /\ counted' = counted
  BY DEF CountFails
<1>5. TypeOK' /\ Locked'
  <2>1. lost' \subseteq Event
    BY <1>1, <1>4 DEF TypeOK
  <2>2. session[s].pc # "checked"
    BY DEF CountFails, Kind
  <2> QED
    BY <1>2, <2>1, <2>2, MovesLocked DEF CountFails, TypeOK
<1>6. Committed' = Committed /\ Fresh' = Fresh
  BY SameEvents DEF CountFails, Fresh, database
<1>7. e \in Fresh /\ counted[e] = 0
  BY <1>3 DEF Account, Owed
<1>8. Owed' /\ Apart'
  <2>1. \A r \in Session : Due(r)' \subseteq Due(r) /\ e \notin Due(r)'
    BY <1>3 DEF Account, Apart
  <2>2. Owed'
    BY <1>4, <1>6, <2>1 DEF Account, Owed
  <2>3. Apart'
    BY <2>1 DEF Account, Apart
  <2> QED
    BY <2>2, <2>3
<1>9. CountedOnce' /\ CountedAfterCommit' /\ LostStaysLost'
  BY <1>4, <1>6, <1>7 DEF Account, CountedOnce, CountedAfterCommit, LostStaysLost
<1>10. NothingForgotten'
  BY <1>3, <1>4, <1>6 DEF Account, NothingForgotten
<1>11. Past'
  BY <1>6 DEF Account, Past, CountFails
<1> QED
  BY <1>5, <1>8, <1>9, <1>10, <1>11 DEF Account

LEMMA DiesStep ==
  ASSUME IndInv, NEW s \in Session, Dies(s)
  PROVE  IndInv'
<1> USE DEF IndInv
<1>1. Moves(s, "idle")
  BY DEF Dies, Moves
<1>2. Due(s) \subseteq Event
  BY DueIsEvents
<1>3. TypeOK' /\ Locked'
  BY <1>1, <1>2, MovesUnlocked DEF Dies, TypeOK
<1>4. Due(s)' = {} /\ \A r \in Session \ {s} : Due(r)' = Due(r)
  BY <1>1, MovesTypes, NoRest
<1>5. Committed' = Committed /\ Fresh' = Fresh
  BY SameEvents DEF Dies, Fresh
<1>6. \A r \in Session : Due(r)' \subseteq Due(r) /\ Due(r)' \cap Due(s) = {}
  BY <1>4 DEF Account, Apart
<1>7. Owed' /\ Apart'
  BY <1>5, <1>6 DEF Account, Owed, Apart, Dies
<1>8. CountedOnce' /\ CountedAfterCommit' /\ LostStaysLost' /\ Past'
  BY <1>5 DEF Account, Owed, CountedOnce, CountedAfterCommit, LostStaysLost, Past, Dies
<1>9. NothingForgotten'
  BY <1>4, <1>5 DEF Account, NothingForgotten, Dies
<1> QED
  BY <1>3, <1>7, <1>8, <1>9 DEF Account

LEMMA RestartStep ==
  ASSUME IndInv, Restart
  PROVE  IndInv'
<1> USE DEF IndInv
<1>1. /\ session' \in [Session -> [pc : {"idle", "checked"} \cup Kind, op : Op, task : Task]]
      /\ \A s \in Session : session'[s].pc = "idle"
  BY DEF Restart, TypeOK
<1>2. \A s \in Session : Due(s)' = {}
  BY <1>1, NoRest DEF Due
<1>3. Committed' = Committed /\ Fresh' = {} /\ Committed \subseteq Event
  BY SameEvents DEF Restart, Fresh, Committed
<1>4. TypeOK'
  BY <1>1, <1>3, NobodyAssumption DEF Restart, TypeOK
<1>5. Locked'
  BY <1>1 DEF Locked
<1>6. Account'
  BY <1>2, <1>3 DEF Restart, Account, Owed, Apart, Past, CountedOnce, CountedAfterCommit,
     NothingForgotten, LostStaysLost
<1> QED
  BY <1>4, <1>5, <1>6
-----------------------------------------------------------------------------
(* The commit: what it writes is new, by the lock, and due from s alone.   *)

(* What the commit of op for task t adds to the events.                    *)
New(op, t) == Rest(FirstCount[op]) \X {t}

LEMMA HappenedBy ==
  ASSUME NEW t \in Task
  PROVE  /\ \A k \in {"completed", "UNPAID", "amount"} :
              /\ Happened(k, t) <=> fee[t] # "NONE"
              /\ Happened(k, t)' <=> fee'[t] # "NONE"
         /\ \A k \in {"PAID", "WAIVED"} :
              /\ Happened(k, t) <=> fee[t] = k
              /\ Happened(k, t)' <=> fee'[t] = k
         /\ Happened("reversed", t) <=> t \in reversed
         /\ Happened("reversed", t)' <=> t \in reversed'
BY DEF Happened

LEMMA CommitHappens ==
  ASSUME IndInv, NEW s \in Session, Commit(s), NEW k \in Kind, NEW u \in Task
  PROVE  LET new == <<k, u>> \in New(session[s].op, session[s].task)
         IN  /\ Happened(k, u)' <=> Happened(k, u) \/ new
             /\ new => ~ Happened(k, u)
<1> USE DEF IndInv
<1> DEFINE op == session[s].op
           t == session[s].task
<1>1. op \in Op /\ t \in Task /\ session[s].pc = "checked"
  BY DEF Commit, TypeOK
<1>2. \/ k \in {"completed", "UNPAID", "amount"} \/ k \in {"PAID", "WAIVED"} \/ k = "reversed"
  BY DEF Kind
<1>3. CASE op = "COMPLETE"
  <2>1. New(op, t) = {"completed", "UNPAID", "amount"} \X {t}
    BY <1>3 DEF New, FirstCount, Rest
  <2>2. fee[t] = "NONE" /\ fee' = [fee EXCEPT ![t] = "UNPAID"] /\ reversed' = reversed
    BY <1>1, <1>3 DEF Commit, Locked
  <2> QED
    BY <1>1, <1>2, <2>1, <2>2, HappenedBy DEF TypeOK
<1>4. CASE op = "REVERSE"
  <2>1. New(op, t) = {"reversed"} \X {t}
    BY <1>4 DEF New, FirstCount, Rest, Kind
  <2>2. fee' = fee /\ reversed' = reversed \cup {t} /\ t \notin reversed
    BY <1>1, <1>4 DEF Commit, Locked
  <2> QED
    BY <1>1, <1>2, <2>1, <2>2, HappenedBy DEF TypeOK
<1>5. CASE op \in {"PAID", "WAIVED"}
  <2>1. New(op, t) = {op} \X {t}
    BY <1>5 DEF New, FirstCount, Rest, Kind
  <2>2. fee[t] = "UNPAID" /\ fee' = [fee EXCEPT ![t] = op] /\ reversed' = reversed
    BY <1>1, <1>5 DEF Commit, Locked
  <2> QED
    BY <1>1, <1>2, <1>5, <2>1, <2>2, HappenedBy DEF TypeOK
<1> QED
  BY <1>1, <1>3, <1>4, <1>5 DEF Op

LEMMA FirstCountIsKind ==
  ASSUME NEW op \in Op
  PROVE  FirstCount[op] \in Kind
BY DEF Op, FirstCount, Kind

LEMMA CommitStep ==
  ASSUME IndInv, NEW s \in Session, Commit(s)
  PROVE  IndInv'
<1> USE DEF IndInv
<1> DEFINE op == session[s].op
           t == session[s].task
           new == New(op, t)
<1>1. op \in Op /\ t \in Task /\ session[s].pc = "checked" /\ FirstCount[op] \in Kind
  BY FirstCountIsKind DEF Commit, TypeOK
<1>2. new \subseteq Event
  BY <1>1, RestOfKind DEF New, Event
<1>3. Committed' = Committed \cup new /\ Committed \cap new = {}
  <2>1. \A e \in Event : e[1] \in Kind /\ e[2] \in Task /\ e = <<e[1], e[2]>>
    BY DEF Event
  <2>2. \A e \in Event : /\ Happened(e[1], e[2])' <=> Happened(e[1], e[2]) \/ e \in new
                         /\ e \in new => ~ Happened(e[1], e[2])
    BY <2>1, CommitHappens
  <2> QED
    BY <1>2, <2>2 DEF Committed
<1>4. new \cap before = {} /\ Fresh' = Fresh \cup new
  BY <1>3 DEF Account, Past, Fresh, Commit
<1>5. Moves(s, FirstCount[op])
  BY <1>1 DEF Commit, Moves
<1>6. Due(s)' = new /\ \A r \in Session \ {s} : Due(r)' = Due(r)
  BY <1>5, MovesTypes DEF New
<1>7. Due(s) = {}
  BY <1>1, NoRest DEF Due
<1>8. \A e \in new : counted[e] = 0 /\ e \notin lost
  <2>1. \A e \in new : e \in Event /\ e \notin Fresh
    BY <1>2, <1>3 DEF Fresh
  <2> QED
    BY <2>1 DEF Account, CountedAfterCommit, LostStaysLost, TypeOK
<1>9. TypeOK'
  <2>1. fee' \in [Task -> {"NONE", "UNPAID", "PAID", "WAIVED"}]
    <3>1. CASE op = "COMPLETE"  BY <1>1, <3>1 DEF Commit, TypeOK
    <3>2. CASE op = "REVERSE"  BY <1>1, <3>2 DEF Commit, TypeOK
    <3>3. CASE op \in {"PAID", "WAIVED"}  BY <1>1, <3>3 DEF Commit, TypeOK
    <3> QED  BY <1>1, <3>1, <3>2, <3>3 DEF Op
  <2>2. reversed' \subseteq Task
    BY <1>1 DEF Commit, TypeOK
  <2>3. \A u \in Task, r \in Session :
          taskLock'[u] = r \/ recordLock'[u] = r
            => session'[r].pc = "checked" /\ session'[r].task = u
    BY <1>5, MovesTypes, UnlockLocks DEF Commit, TypeOK
  <2>4. /\ taskLock' \in [Task -> Session \cup {Nobody}]
        /\ recordLock' \in [Task -> Session \cup {Nobody}]
        /\ session' \in [Session -> [pc : {"idle", "checked"} \cup Kind, op : Op, task : Task]]
    BY <1>5, MovesTypes, UnlockLocks DEF Commit
  <2> QED
    BY <2>1, <2>2, <2>3, <2>4 DEF Commit, TypeOK
<1>10. Locked'
  <2> SUFFICES ASSUME NEW r \in Session, session'[r].pc = "checked"
               PROVE  LET u == session'[r].task IN
                      /\ session'[r].op = "COMPLETE" => taskLock'[u] = r /\ fee'[u] = "NONE"
                      /\ session'[r].op = "REVERSE" => taskLock'[u] = r /\ u \notin reversed'
                      /\ session'[r].op \in {"PAID", "WAIVED"} =>
                           recordLock'[u] = r /\ fee'[u] = "UNPAID"
    BY DEF Locked
  <2> DEFINE u == session[r].task
  <2>1. r # s /\ session'[r] = session[r] /\ u \in Task
    BY <1>1, <1>5, MovesTypes DEF Kind, TypeOK
  <2>2. /\ taskLock[u] = r <=> taskLock'[u] = r
        /\ recordLock[u] = r <=> recordLock'[u] = r
    BY <2>1, UnlockLocks DEF Commit
  <2>3. CASE op = "COMPLETE"
    <3>1. taskLock[t] = s /\ fee[t] = "NONE"
      BY <1>1, <2>3 DEF Locked
    <3>2. reversed' = reversed /\ \A v \in Task \ {t} : fee'[v] = fee[v]
      BY <1>1, <2>3 DEF Commit, TypeOK
    <3> QED
      BY <2>1, <2>2, <3>1, <3>2 DEF Locked
  <2>4. CASE op = "REVERSE"
    <3>1. taskLock[t] = s
      BY <1>1, <2>4 DEF Locked
    <3>2. reversed' = reversed \cup {t} /\ fee' = fee
      BY <1>1, <2>4 DEF Commit
    <3> QED
      BY <2>1, <2>2, <3>1, <3>2 DEF Locked
  <2>5. CASE op \in {"PAID", "WAIVED"}
    <3>1. recordLock[t] = s /\ fee[t] = "UNPAID"
      BY <1>1, <2>5 DEF Locked
    <3>2. reversed' = reversed /\ \A v \in Task \ {t} : fee'[v] = fee[v]
      BY <1>1, <2>5 DEF Commit, TypeOK
    <3> QED
      BY <2>1, <2>2, <3>1, <3>2 DEF Locked
  <2> QED
    BY <1>1, <2>3, <2>4, <2>5 DEF Op
<1>11. Owed'
  BY <1>4, <1>6, <1>8 DEF Account, Owed, Commit
<1>12. Apart'
  <2>1. \A r \in Session : Due(r) \cap new = {}
    BY <1>3 DEF Account, Owed, Fresh
  <2> QED
    BY <1>6, <2>1 DEF Account, Apart
<1>13. Past' /\ CountedOnce' /\ CountedAfterCommit' /\ LostStaysLost'
  BY <1>3, <1>4 DEF Account, Past, CountedOnce, CountedAfterCommit, LostStaysLost, Commit
<1>14. NothingForgotten'
  BY <1>4, <1>6, <1>7 DEF Account, NothingForgotten, Commit
<1> QED
  BY <1>9, <1>10, <1>11, <1>12, <1>13, <1>14 DEF Account
-----------------------------------------------------------------------------
LEMMA StutterStep ==
  ASSUME IndInv, UNCHANGED vars
  PROVE  IndInv'
<1>1. Committed' = Committed /\ \A s \in Session : Due(s)' = Due(s)
  BY SameEvents DEF vars, Due
<1> QED
  BY <1>1 DEF vars, IndInv, TypeOK, Locked, Account, Owed, Apart, Past, CountedOnce,
     CountedAfterCommit, NothingForgotten, LostStaysLost, Fresh

LEMMA NextIndInv == IndInv /\ [Next]_vars => IndInv'
<1> SUFFICES ASSUME IndInv, [Next]_vars PROVE IndInv'
  OBVIOUS
<1>1. ASSUME NEW s \in Session, Step(s) PROVE IndInv'
  BY <1>1, CheckStep, CommitStep, RollbackStep, CountStep, CountFailsStep, DiesStep DEF Step
<1>2. CASE Restart
  BY <1>2, RestartStep
<1>3. CASE UNCHANGED vars
  BY <1>3, StutterStep
<1> QED
  BY <1>1, <1>2, <1>3 DEF Next

(* The invariant that carries the account of every event.                  *)
THEOREM Accounted == Spec => []IndInv
BY InitIndInv, NextIndInv, PTL DEF Spec

(* The types of the metrics, and locks only in transactions under way.     *)
THEOREM TypeCorrect == Spec => []TypeOK
<1>1. IndInv => TypeOK
  BY DEF IndInv
<1> QED
  BY <1>1, Accounted, PTL

(* No completion, payment, waiver or reversal is counted twice, whatever   *)
(* is repeated, at once or later, fails or dies.                           *)
THEOREM NeverCountedTwice == Spec => []CountedOnce
<1>1. IndInv => CountedOnce
  BY DEF IndInv, Account
<1> QED
  BY <1>1, Accounted, PTL

(* Every count is of an event committed since the container started.       *)
THEOREM NeverCountedEarly == Spec => []CountedAfterCommit
<1>1. IndInv => CountedAfterCommit
  BY DEF IndInv, Account
<1> QED
  BY <1>1, Accounted, PTL

(* Every event committed since then is counted, due, or known to be lost.  *)
THEOREM EveryEventAccounted == Spec => [](NothingForgotten /\ LostStaysLost)
<1>1. IndInv => NothingForgotten /\ LostStaysLost
  BY DEF IndInv, Account
<1> QED
  BY <1>1, Accounted, PTL
-----------------------------------------------------------------------------
(* The layers around an endpoint.                                          *)
(* Every error has a handler, of its own class or of the one above, except *)
(* those that are nobody's domain.                                         *)
LEMMA Hierarchy ==
  \A e \in Error :
    \/ e \in DOMAIN HandlerStatus
    \/ Parent[e] \in DOMAIN HandlerStatus /\ Parent[e] \in Error
    \/ Parent[e] = "Exception"
BY DEF Error, Parent, HandlerStatus

LEMMA HandlerFound ==
  \A e \in Error :
    Handler[e] = IF e \in DOMAIN HandlerStatus THEN e ELSE Parent[e]
<1> DEFINE Class == Error \cup {"Exception"}
           Own(c) == c = "Exception" \/ c \in DOMAIN HandlerStatus
           found == [c \in Class |-> IF Own(c) THEN c ELSE Parent[c]]
           Equation(h) == h = [c \in Class |-> IF Own(c) THEN c ELSE h[Parent[c]]]
<1>1. \A c \in Class : Own(c) \/ (Own(Parent[c]) /\ Parent[c] \in Class)
  BY Hierarchy
<1>2. \A c \in Class : ~Own(c) => found[Parent[c]] = Parent[c]
  BY <1>1
<1>3. Equation(found)
  BY <1>2
<1>4. Handler = CHOOSE h : Equation(h)
  BY DEF Handler
<1> HIDE DEF Equation
<1>5. Equation(Handler)
  BY <1>3, <1>4
<1>6. \A c \in Class : Handler[c] = IF Own(c) THEN c ELSE Handler[Parent[c]]
  BY <1>5 DEF Equation
<1>7. \A c \in Class : Handler[c] = IF Own(c) THEN c ELSE Parent[c]
  BY <1>1, <1>6
<1>8. \A e \in Error : e \in Class /\ (Own(e) <=> e \in DOMAIN HandlerStatus)
  BY DEF Error, Parent
<1> QED
  BY <1>7, <1>8

(* What the handlers answer: every error the code expects, but the bug in  *)
(* the agent, with a status of its own; no handler for the others.         *)
LEMMA HandlersAnswer ==
  ASSUME NEW e \in Error \ Abstract
  PROVE  /\ Handler[e] = "Exception" <=> ~ Expected(e)
         /\ Handler[e] # "Exception" =>
              /\ HandlerStatus[Handler[e]] \in Status
              /\ HandlerStatus[Handler[e]] = 500 <=> e = "AIAgentError"
BY HandlerFound
   DEF Error, Parent, HandlerStatus, Abstract, Expected,
       Status

LEMMA RaisedAreErrors ==
  \A path \in Path : Raised(path) \subseteq Error \ Abstract
BY DEF Path, Raised, OfChat, Error, Parent, Abstract
-----------------------------------------------------------------------------
(* Where a request stands, what it has met and what has become of it.      *)
Stage ==
  {"waiting", "handling", "responding", "returning", "failing", "cancelled", "unanswered", "over"}
RequestType ==
  [pc : Stage, path : Path, id : Id \cup {None}, status : Status,
   error : Error \cup {None},
   sent : Response \cup {None}, record : LogRecord \cup {None},
   aiRecord : ChatRecord \cup {None}]

(* The middlewares know the status and id of what was sent, and a request  *)
(* that nothing was sent for is on its way to a 500.                       *)
Tells(q) ==
  /\ q.pc = "waiting" => q.error = None
  /\ q.pc # "waiting" => q.id \in Id
  /\ q.pc \in {"waiting", "handling"} => q.sent = None /\ q.record = None /\ q.aiRecord = None
  /\ q.pc = "handling" => q.error = None
  /\ q.pc \in {"responding", "returning"} => q.sent # None
  /\ q.pc = "unanswered" => q.sent = None
  /\ q.sent # None => q.sent.status = q.status /\ q.sent.id = q.id
  /\ q.sent = None => q.status = 500
  /\ q.record # None => q.record.status = q.status /\ q.record.id = q.id
  /\ q.aiRecord # None => q.aiRecord = [label |-> Label(q.status), id |-> q.id]
  /\ q.pc \in {"unanswered", "over"} =>
       q.record # None /\ (q.path = "chat" => q.aiRecord # None)

(* The status tells whether the error was expected.                        *)
Met(q) ==
  /\ q.error # None /\ q.sent # None =>
       (q.status = 500 <=> (~ Expected(q.error) \/ q.error = "AIAgentError"))
  /\ q.error # None /\ q.sent = None => ~ Expected(q.error)

Sound(q) == q \in RequestType /\ Tells(q) /\ Met(q)
LayersInv == request \in [HttpRequest -> RequestType] /\ \A r \in HttpRequest : Tells(request[r]) /\ Met(request[r])

LEMMA FieldsOfRequest ==
  ASSUME NEW q \in RequestType
  PROVE  /\ q = [pc |-> q.pc, path |-> q.path, id |-> q.id, status |-> q.status, error |-> q.error,
                 sent |-> q.sent, record |-> q.record, aiRecord |-> q.aiRecord]
         /\ q.pc \in Stage /\ q.path \in Path /\ q.id \in Id \cup {None}
         /\ q.status \in Status /\ q.error \in Error \cup {None}
         /\ q.sent \in Response \cup {None} /\ q.record \in LogRecord \cup {None}
         /\ q.aiRecord \in ChatRecord \cup {None}
BY DEF RequestType

(* A request with these fields.                                            *)
Req(stage, path, id, status, error, sent, record, aiRecord) ==
  [pc |-> stage, path |-> path, id |-> id, status |-> status, error |-> error,
   sent |-> sent, record |-> record, aiRecord |-> aiRecord]

LEMMA ReqFields ==
  \A stage, path, id, status, error, sent, record, aiRecord :
    LET q == Req(stage, path, id, status, error, sent, record, aiRecord) IN
    /\ q.pc = stage /\ q.path = path /\ q.id = id /\ q.status = status /\ q.error = error
    /\ q.sent = sent /\ q.record = record /\ q.aiRecord = aiRecord
BY DEF Req

(* What the steps of a request change of it.                               *)
LEMMA OnEntry ==
  ASSUME NEW q \in RequestType, NEW stage, NEW path, NEW id
  PROVE  [q EXCEPT !.pc = stage, !.path = path, !.id = id]
           = Req(stage, path, id, q.status, q.error, q.sent, q.record, q.aiRecord)
<1> DEFINE p == [q EXCEPT !.pc = stage]
           m == [p EXCEPT !.path = path]
<1>1. p = Req(stage, q.path, q.id, q.status, q.error, q.sent, q.record, q.aiRecord)
  BY DEF RequestType, Stage, Req
<1>2. [q EXCEPT !.pc = stage, !.path = path, !.id = id] = [m EXCEPT !.id = id]
  BY Zenon
<1> HIDE DEF p
<1>3. m = Req(stage, path, q.id, q.status, q.error, q.sent, q.record, q.aiRecord)
  BY <1>1 DEF Req
<1> HIDE DEF m
<1>4. [m EXCEPT !.id = id] = Req(stage, path, id, q.status, q.error, q.sent, q.record, q.aiRecord)
  BY <1>3 DEF Req
<1> QED
  BY <1>2, <1>4

LEMMA OnError ==
  ASSUME NEW q \in RequestType, NEW error
  PROVE  [q EXCEPT !.error = error]
           = Req(q.pc, q.path, q.id, q.status, error, q.sent, q.record, q.aiRecord)
BY DEF RequestType, Stage, Req

LEMMA OnMove ==
  ASSUME NEW q \in RequestType, NEW stage
  PROVE  [q EXCEPT !.pc = stage]
           = Req(stage, q.path, q.id, q.status, q.error, q.sent, q.record, q.aiRecord)
BY DEF RequestType, Stage, Req

LEMMA OnChatRecord ==
  ASSUME NEW q \in RequestType, NEW aiRecord
  PROVE  [q EXCEPT !.aiRecord = aiRecord]
           = Req(q.pc, q.path, q.id, q.status, q.error, q.sent, q.record, aiRecord)
BY DEF RequestType, Stage, Req

LEMMA OnRecord ==
  ASSUME NEW q \in RequestType, NEW stage, NEW record
  PROVE  [q EXCEPT !.pc = stage, !.record = record]
           = Req(stage, q.path, q.id, q.status, q.error, q.sent, record, q.aiRecord)
<1> DEFINE p == [q EXCEPT !.pc = stage]
<1>1. p = Req(stage, q.path, q.id, q.status, q.error, q.sent, q.record, q.aiRecord)
  BY DEF RequestType, Stage, Req
<1>2. [q EXCEPT !.pc = stage, !.record = record] = [p EXCEPT !.record = record]
  BY Zenon
<1> HIDE DEF p
<1>3. [p EXCEPT !.record = record] = Req(stage, q.path, q.id, q.status, q.error, q.sent, record, q.aiRecord)
  BY <1>1 DEF Req
<1> QED
  BY <1>2, <1>3

LEMMA LabelType ==
  \A status \in Status :
    /\ Label(status) \in {"success", "client_error", "server_error"}
    /\ Level(status) \in {"INFO", "WARNING", "ERROR"}
BY DEF Status, Label, Level

(* A response has started.                                                 *)
LEMMA StartedSound ==
  ASSUME NEW q \in RequestType, q.id \in Id,
         q.record = None, q.aiRecord = None, NEW status \in Status,
         q.error # None =>
           (status = 500 <=> (~ Expected(q.error) \/ q.error = "AIAgentError"))
  PROVE  Sound(Started(q, status))
<1> DEFINE answer == [status |-> status, id |-> q.id]
           new == Req("responding", q.path, q.id, status, q.error, answer, q.record, q.aiRecord)
<1>1. answer \in Response /\ answer # None /\ answer.status = status /\ answer.id = q.id
  BY NoneAssumption DEF Response
<1> DEFINE p == [q EXCEPT !.pc = "responding"]
           m == [p EXCEPT !.status = status]
<1>2. Started(q, status) = [m EXCEPT !.sent = answer]
  BY Zenon DEF Started
<1> HIDE DEF answer
<1>3. Started(q, status) = new
  <2>1. p = Req("responding", q.path, q.id, q.status, q.error, q.sent, q.record, q.aiRecord)
    BY OnMove
  <2> HIDE DEF p
  <2>2. m = Req("responding", q.path, q.id, status, q.error, q.sent, q.record, q.aiRecord)
    BY <2>1 DEF Req
  <2> HIDE DEF m
  <2>3. [m EXCEPT !.sent = answer] = new
    BY <2>2 DEF Req
  <2> QED  BY <1>2, <2>3
<1>4. "responding" \in Stage
  BY DEF Stage
<1>5. new \in RequestType
  <2>1. /\ q.path \in Path /\ q.id \in Id \cup {None} /\ q.error \in Error \cup {None}
        /\ q.record \in LogRecord \cup {None} /\ q.aiRecord \in ChatRecord \cup {None}
    BY FieldsOfRequest
  <2>2. answer \in Response \cup {None}
    BY <1>1
  <2> QED  BY <1>4, <2>1, <2>2 DEF Req, RequestType
<1>6. /\ new.pc = "responding" /\ new.id = q.id /\ new.status = status /\ new.error = q.error
      /\ new.sent = answer /\ new.record = None /\ new.aiRecord = None
  BY DEF Req
<1> HIDE DEF new
<1>7. Tells(new)
  BY <1>1, <1>6 DEF Tells
<1>8. Met(new)
  BY <1>1, <1>6 DEF Met
<1> QED
  BY <1>3, <1>5, <1>7, <1>8 DEF Sound

LEMMA WaitingType == Waiting \in RequestType
<1> DEFINE Or(X) == X \cup {None}
<1>1. "waiting" \in Stage /\ "other" \in Path /\ 500 \in Status
  BY DEF Stage, Path, Status
<1>2. /\ None \in Or(Id) /\ None \in Or(Error) /\ None \in Or(Response)
      /\ None \in Or(LogRecord) /\ None \in Or(ChatRecord)
  OBVIOUS
<1>3. RequestType =
        [pc : Stage, path : Path, id : Or(Id), status : Status,
         error : Or(Error), sent : Or(Response), record : Or(LogRecord),
         aiRecord : Or(ChatRecord)]
  BY DEF RequestType
<1> HIDE DEF Or
<1> QED
  BY <1>1, <1>2, <1>3 DEF Waiting

LEMMA InitSound == LayersInit => LayersInv
<1> SUFFICES ASSUME LayersInit PROVE LayersInv
  OBVIOUS
<1>1. Waiting \in RequestType
  BY WaitingType
<1>2. Tells(Waiting) /\ Met(Waiting)
  BY DEF Waiting, Tells, Met
<1>3. request = [r \in HttpRequest |-> Waiting]
  BY DEF LayersInit
<1> HIDE DEF Waiting
<1> QED
  BY <1>1, <1>2, <1>3 DEF LayersInv

(* A step of one request.                                                  *)
LEMMA BecomesSound ==
  ASSUME LayersInv, NEW r \in HttpRequest, NEW new, Sound(new), Becomes(r, new)
  PROVE  LayersInv'
<1>1. request' = [request EXCEPT ![r] = new] /\ new \in RequestType /\ Tells(new) /\ Met(new)
  BY DEF Becomes, Sound
<1>2. request' \in [HttpRequest -> RequestType]
  BY <1>1 DEF LayersInv
<1>3. \A u \in HttpRequest : request'[u] = IF u = r THEN new ELSE request[u]
  BY <1>1 DEF LayersInv
<1> QED
  BY <1>1, <1>2, <1>3 DEF LayersInv

LEMMA LayersStep ==
  ASSUME LayersInv, NEW r \in HttpRequest, LayerStep(r)
  PROVE  LayersInv'
<1> DEFINE q == request[r]
<1>1. q \in RequestType /\ Tells(q) /\ Met(q)
  BY DEF LayersInv
<1>2. /\ q.path \in Path /\ q.status \in Status /\ q.id \in Id \cup {None}
      /\ q.error \in Error \cup {None} /\ q.sent \in Response \cup {None}
      /\ q.record \in LogRecord \cup {None} /\ q.aiRecord \in ChatRecord \cup {None}
  BY <1>1, FieldsOfRequest
<1>3. CASE Enter(r)
  <2>1. PICK path \in Path, given \in Supplied \cup {None} :
          /\ q.pc = "waiting"
          /\ Becomes(r, [q EXCEPT !.pc = "handling", !.path = path,
                                         !.id = IF given = None THEN r ELSE given])
    BY <1>3 DEF Enter
  <2> DEFINE id == IF given = None THEN r ELSE given
             new == Req("handling", path, id, q.status, q.error, q.sent, q.record, q.aiRecord)
  <2>2. id \in Id /\ "handling" \in Stage
    BY DEF Id, Stage
  <2>3. Becomes(r, [q EXCEPT !.pc = "handling", !.path = path, !.id = id])
    BY <2>1
  <2> HIDE DEF id
  <2>4. [q EXCEPT !.pc = "handling", !.path = path, !.id = id] = new
    BY <1>1, OnEntry
  <2>5. new \in RequestType
    BY <1>2, <2>2 DEF Req, RequestType
  <2>6. Tells(new) /\ Met(new)
    BY <1>1, <2>1, <2>2, ReqFields DEF Tells, Met
  <2> QED  BY <2>3, <2>4, <2>5, <2>6, BecomesSound DEF Sound
<1>4. CASE Answers(r)
  <2>1. PICK status \in {200, 422, 503} :
          q.pc = "handling" /\ Becomes(r, Started(q, status))
    BY <1>4 DEF Answers
  <2>2. /\ q.error = None /\ q.id \in Id /\ q.record = None /\ q.aiRecord = None
        /\ status \in Status
    BY <1>1, <2>1 DEF Tells, Status
  <2>3. Sound(Started(q, status))
    BY <1>1, <2>2, StartedSound
  <2> QED  BY <2>1, <2>3, BecomesSound
<1>5. CASE Raises(r)
  <2>1. PICK e \in Raised(q.path) :
          LET p == [q EXCEPT !.error = e] IN
          /\ q.pc = "handling"
          /\ Becomes(r, IF Handler[e] = "Exception" THEN [p EXCEPT !.pc = "failing"]
                               ELSE Started(p, HandlerStatus[Handler[e]]))
    BY <1>5 DEF Raises
  <2> DEFINE p == [q EXCEPT !.error = e]
             status == HandlerStatus[Handler[e]]
  <2>2. e \in Error \ Abstract
    BY <1>2, RaisedAreErrors
  <2>3. /\ q.pc = "handling" /\ q.id \in Id /\ q.sent = None /\ q.record = None
        /\ q.aiRecord = None /\ q.status = 500
    BY <1>1, <2>1 DEF Tells
  <2>4. q.pc \in Stage /\ "failing" \in Stage
    BY <2>3 DEF Stage
  <2>5. p = Req(q.pc, q.path, q.id, q.status, e, q.sent, q.record, q.aiRecord)
    BY <1>1, OnError
  <2>6. /\ Handler[e] = "Exception" => Becomes(r, [p EXCEPT !.pc = "failing"])
        /\ Handler[e] # "Exception" => Becomes(r, Started(p, status))
    BY <2>1
  <2> HIDE DEF p
  <2>7. p \in RequestType
    BY <1>2, <2>2, <2>4, <2>5 DEF Req, RequestType
  <2>8. /\ p.path = q.path /\ p.id = q.id /\ p.status = 500 /\ p.error = e
        /\ p.sent = None /\ p.record = None /\ p.aiRecord = None
    BY <2>3, <2>5, ReqFields
  <2>9. CASE Handler[e] = "Exception"
    <3> DEFINE new == Req("failing", p.path, p.id, p.status, p.error, p.sent, p.record, p.aiRecord)
    <3>1. [p EXCEPT !.pc = "failing"] = new
      BY <2>7, OnMove
    <3>2. new \in RequestType
      BY <2>4, <2>7, FieldsOfRequest DEF Req, RequestType
    <3>3. ~ Expected(e)
      BY <2>2, <2>9, HandlersAnswer
    <3>4. Tells(new) /\ Met(new)
      BY <2>3, <2>8, <3>3, ReqFields DEF Tells, Met
    <3> QED  BY <2>6, <2>9, <3>1, <3>2, <3>4, BecomesSound DEF Sound
  <2>10. CASE Handler[e] # "Exception"
    <3>1. /\ status \in Status
          /\ status = 500 <=> (~ Expected(e) \/ e = "AIAgentError")
      BY <2>2, <2>10, HandlersAnswer
    <3> HIDE DEF status
    <3>2. Sound(Started(p, status))
      BY <2>3, <2>7, <2>8, <3>1, StartedSound
    <3> QED  BY <2>6, <2>10, <3>2, BecomesSound
  <2> QED  BY <2>9, <2>10
<1>6. ASSUME NEW stage \in {"returning", "failing", "cancelled"},
             \/ q.pc = "responding"
             \/ q.pc = "handling" /\ stage = "cancelled",
             Becomes(r, [q EXCEPT !.pc = stage])
      PROVE  LayersInv'
  <2> DEFINE new == Req(stage, q.path, q.id, q.status, q.error, q.sent, q.record, q.aiRecord)
  <2>1. [q EXCEPT !.pc = stage] = new
    BY <1>1, OnMove
  <2>2. stage \in Stage
    BY <1>6 DEF Stage
  <2>3. new \in RequestType
    BY <1>2, <2>2 DEF Req, RequestType
  <2>4. Tells(new) /\ Met(new)
    BY <1>1, <1>6, ReqFields DEF Tells, Met
  <2> QED  BY <1>6, <2>1, <2>3, <2>4, BecomesSound DEF Sound
<1>7. CASE Ends(r) \/ Breaks(r) \/ Cancelled(r)
  BY <1>6, <1>7 DEF Ends, Breaks, Cancelled
<1>8. CASE RecordChat(r)
  <2> DEFINE chat == [label |-> Label(q.status), id |-> q.id]
             new == Req(q.pc, q.path, q.id, q.status, q.error, q.sent, q.record, chat)
  <2>1. /\ q.pc \in {"returning", "failing", "cancelled"}
        /\ Becomes(r, [q EXCEPT !.aiRecord = chat])
    BY <1>8 DEF RecordChat, Unwinding
  <2>2. q.id \in Id /\ q.pc \in Stage
    BY <1>1, <2>1 DEF Tells, Stage
  <2>3. chat \in ChatRecord
    BY <1>2, <2>2, LabelType DEF ChatRecord
  <2>4. Tells(new) /\ Met(new)
    BY <1>1, <2>1, ReqFields DEF Tells, Met
  <2> HIDE DEF chat
  <2>5. [q EXCEPT !.aiRecord = chat] = new
    BY <1>1, OnChatRecord
  <2>6. new \in RequestType
    BY <1>2, <2>2, <2>3 DEF Req, RequestType
  <2> QED  BY <2>1, <2>4, <2>5, <2>6, BecomesSound DEF Sound
<1>9. CASE Record(r)
  <2> DEFINE row == [status |-> q.status, id |-> q.id, level |-> Level(q.status)]
             stage == Leaves(q)
             new == Req(stage, q.path, q.id, q.status, q.error, q.sent, row, q.aiRecord)
  <2>1. /\ q.pc \in {"returning", "failing", "cancelled"}
        /\ q.path = "chat" => q.aiRecord # None
        /\ Becomes(r, [q EXCEPT !.pc = stage, !.record = row])
    BY <1>9 DEF Record, Unwinding
  <2>2. q.id \in Id
    BY <1>1, <2>1 DEF Tells
  <2>3. row \in LogRecord /\ row # None /\ row.status = q.status /\ row.id = q.id
    BY <1>2, <2>2, LabelType, NoneAssumption DEF LogRecord
  <2>4. stage \in {"unanswered", "over"} /\ (stage = "unanswered" => q.sent = None)
    BY DEF Leaves
  <2> HIDE DEF row, stage
  <2>5. [q EXCEPT !.pc = stage, !.record = row] = new
    BY <1>1, OnRecord
  <2>6. new \in RequestType
    <3>1. stage \in Stage
      BY <2>4 DEF Stage
    <3> QED  BY <1>2, <2>3, <3>1 DEF Req, RequestType
  <2>7. Tells(new) /\ Met(new)
    BY <1>1, <2>1, <2>2, <2>3, <2>4, ReqFields DEF Tells, Met
  <2> QED  BY <2>1, <2>5, <2>6, <2>7, BecomesSound DEF Sound
<1>10. CASE AnswerUnexpected(r)
  <2> DEFINE answer == [status |-> 500, id |-> q.id]
             changed == [q EXCEPT !.pc = "over", !.sent = answer]
             new == Req("over", q.path, q.id, q.status, q.error, answer, q.record, q.aiRecord)
  <2>1. q.pc = "unanswered" /\ Becomes(r, changed)
    BY <1>10 DEF AnswerUnexpected
  <2>2. q.id \in Id /\ q.sent = None /\ q.status = 500 /\ "over" \in Stage
    BY <1>1, <2>1 DEF Tells, Stage
  <2>3. answer \in Response /\ answer # None /\ answer.status = 500 /\ answer.id = q.id
    BY <2>2, NoneAssumption DEF Response, Status
  <2> HIDE DEF answer
  <2>4. changed = new
    <3> DEFINE p == [q EXCEPT !.pc = "over"]
    <3>1. p = Req("over", q.path, q.id, q.status, q.error, q.sent, q.record, q.aiRecord)
      BY <1>1, OnMove
    <3>2. changed = [p EXCEPT !.sent = answer]
      BY Zenon
    <3> HIDE DEF p, changed
    <3> QED  BY <3>1, <3>2 DEF Req
  <2>5. new \in RequestType
    <3>1. "over" \in Stage /\ answer \in Response \cup {None}
      BY <2>2, <2>3
    <3> QED  BY <1>2, <3>1 DEF Req, RequestType
  <2>6. Tells(new) /\ Met(new)
    BY <1>1, <2>1, <2>2, <2>3, ReqFields DEF Tells, Met
  <2> HIDE DEF changed
  <2> QED  BY <2>1, <2>4, <2>5, <2>6, BecomesSound DEF Sound
<1> QED
  BY <1>3, <1>4, <1>5, <1>7, <1>8, <1>9, <1>10 DEF LayerStep

LEMMA LayersInductive == LayersSpec => []LayersInv
<1>1. LayersInv /\ [LayersNext]_request => LayersInv'
  <2>1. LayersInv /\ UNCHANGED request => LayersInv'
    BY DEF LayersInv
  <2> QED  BY <2>1, LayersStep DEF LayersNext
<1> QED
  BY <1>1, InitSound, PTL DEF LayersSpec

(* The request of every client keeps its type in every layer.              *)
THEOREM LayersTypeCorrect == LayersSpec => []LayersTypeOK
<1>1. LayersInv => LayersTypeOK
  BY DEF LayersInv, RequestType, Stage, LayersTypeOK
<1> QED  BY <1>1, LayersInductive, PTL

(* However a request ends in the layers of create_app, its record and, of  *)
(* a chat, the chat's record are written and tell the status and the id of *)
(* the response, whichever layer made it; and exactly the errors that the  *)
(* code does not expect are answered as internal ones.                     *)
THEOREM RequestsRecorded == LayersSpec => []AnsweredAndRecorded
<1>1. LayersInv => RecordsTellResponse
  <2> SUFFICES ASSUME LayersInv, NEW r \in HttpRequest, request[r].pc = "over"
               PROVE  LET q == request[r] IN
                      /\ q.record # None
                      /\ q.sent # None =>
                           /\ q.record.status = q.sent.status /\ q.record.id = q.sent.id
                           /\ q.path = "chat" =>
                                q.aiRecord = [label |-> Label(q.sent.status), id |-> q.sent.id]
    BY DEF RecordsTellResponse
  <2>1. Tells(request[r])
    BY DEF LayersInv
  <2> QED  BY <2>1 DEF Tells
<1>2. LayersInv => ExpectedIsNotInternal
  <2> SUFFICES ASSUME LayersInv, NEW r \in HttpRequest, request[r].error # None, request[r].sent # None
               PROVE  (request[r].sent.status = 500)
                        <=> (~ Expected(request[r].error) \/ request[r].error = "AIAgentError")
    BY DEF ExpectedIsNotInternal
  <2>1. Tells(request[r]) /\ Met(request[r])
    BY DEF LayersInv
  <2> QED  BY <2>1 DEF Tells, Met
<1>3. LayersSpec => []LayersInv
  BY LayersInductive
<1> QED
  BY <1>1, <1>2, <1>3, PTL DEF AnsweredAndRecorded
-----------------------------------------------------------------------------
(* What the requests of one worker share (WorkerRequests).  The theorems   *)
(* are about every behaviour of its steps, fair or not.                    *)

FiniteShares == IsFiniteSet(threads) /\ IsFiniteSet(conn)

WorkerInv == WorkerTypeOK /\ FiniteShares /\ HeldIsUsed

LEMMA OneMore ==
  ASSUME NEW S, IsFiniteSet(S), NEW x, NEW n \in Nat, Cardinality(S) < n
  PROVE  IsFiniteSet(S \cup {x}) /\ Cardinality(S \cup {x}) <= n
<1>1. Cardinality(S) \in Nat
  BY FS_CardinalityType
<1> QED  BY <1>1, FS_AddElement

LEMMA OneLess ==
  ASSUME NEW S, IsFiniteSet(S), NEW x, NEW n \in Nat, Cardinality(S) <= n
  PROVE  IsFiniteSet(S \ {x}) /\ Cardinality(S \ {x}) <= n
<1>1. Cardinality(S) \in Nat
  BY FS_CardinalityType
<1> QED  BY <1>1, FS_RemoveElement

(* What the sizes of the shares allow, step by step.                       *)
LEMMA SharesStep ==
  ASSUME FiniteShares, HeldIsUsed, WorkerNext
  PROVE  FiniteShares' /\ Cardinality(threads)' <= Threads /\ Cardinality(conn)' <= Pool
<1> USE BoundsAssumption
<1>1. /\ IsFiniteSet(threads) /\ IsFiniteSet(conn)
      /\ Cardinality(threads) <= Threads /\ Cardinality(conn) <= Pool
  BY DEF FiniteShares, HeldIsUsed
<1>2. IsFiniteSet(threads)' /\ Cardinality(threads)' <= Threads
  <2>1. CASE threads' = threads
    BY <1>1, <2>1
  <2>2. CASE \E r \in Request : threads' = threads \cup {r} /\ Cardinality(threads) < Threads
    BY <1>1, <2>2, OneMore
  <2>3. CASE \E r \in Request : threads' = threads \ {r}
    BY <1>1, <2>3, OneLess
  <2> QED
    BY <2>1, <2>2, <2>3
       DEF WorkerNext, Served, Worked, Asked, Tooled, TakeThread, TakeConnection, GiveUp,
           Checked, CommitService, Return, ReturnWithoutQuery, Serialize, Close, BuildAgent,
           AskAgain, ModelAnswers, ModelCalls, Deadline, ToolTakesConnection, ToolReturns, ToolFails, Request
<1>3. IsFiniteSet(conn)' /\ Cardinality(conn)' <= Pool
  <2>1. CASE conn' = conn
    BY <1>1, <2>1
  <2>2. CASE \E h : conn' = conn \cup {h} /\ Cardinality(conn) < Pool
    BY <1>1, <2>2, OneMore
  <2>3. CASE \E h : conn' = conn \ {h}
    BY <1>1, <2>3, OneLess
  <2> QED
    BY <2>1, <2>2, <2>3
       DEF WorkerNext, Served, Worked, Asked, Tooled, TakeThread, TakeConnection, GiveUp,
           Checked, CommitService, Return, ReturnWithoutQuery, Serialize, Close, BuildAgent,
           AskAgain, ModelAnswers, ModelCalls, Deadline, ToolTakesConnection, ToolReturns, ToolFails
<1> QED  BY <1>2, <1>3 DEF FiniteShares

(* Who uses what is shared.                                                *)
Uses ==
  /\ \A r \in threads : pc[r] \in InThread
  /\ \A r \in conn \cap Request :
       \/ pc[r] \in InSession /\ r \in threads
       \/ pc[r] \in {"serialize", "close"} /\ r \in Business
  /\ \A c \in Chat, i \in Slot :
       /\ <<c, i>> \in conn => tool[c][i] = "running"
       /\ tool[c][i] = "running" => pc[c] \in {"tools", "timedOut"}

LEMMA CallsAreNoRequests ==
  ASSUME NEW c \in Chat, NEW i \in Slot, NEW r \in Request
  PROVE  <<c, i>> # r
BY RequestsAssumption DEF Call

LEMMA ServedStep ==
  ASSUME WorkerTypeOK, Uses, NEW r \in Request, Served(r)
  PROVE  WorkerTypeOK' /\ Uses'
<1> USE CallsAreNoRequests DEF InThread, InSession
<1>1. CASE TakeThread(r)
  BY <1>1 DEF TakeThread, WorkerTypeOK, Uses
<1>2. CASE TakeConnection(r)
  <2>1. WorkerTypeOK'
    BY <1>2 DEF TakeConnection, WorkerTypeOK
  <2>2. Uses'
    BY <1>2 DEF TakeConnection, WaitsForConnection, Uses
  <2> QED  BY <2>1, <2>2
<1>3. CASE GiveUp(r)
  <2>1. WorkerTypeOK'
    BY <1>3 DEF GiveUp, WorkerTypeOK, Over
  <2>2. Uses'
    BY <1>3 DEF GiveUp, WaitsForConnection, WorkerTypeOK, Uses, Request
  <2> QED  BY <2>1, <2>2
<1>4. CASE Checked(r)
  <2>1. WorkerTypeOK'
    BY <1>4 DEF Checked, WorkerTypeOK, Over
  <2>2. Uses'
    BY <1>4 DEF Checked, WorkerTypeOK, Uses, Request
  <2> QED  BY <2>1, <2>2
<1> QED  BY <1>1, <1>2, <1>3, <1>4 DEF Served

LEMMA WorkedStep ==
  ASSUME WorkerTypeOK, Uses, NEW b \in Business, Worked(b) \/ ReturnWithoutQuery(b)
  PROVE  WorkerTypeOK' /\ Uses'
<1> USE CallsAreNoRequests DEF InThread, InSession, Request
<1>1. CASE CommitService(b)
  BY <1>1 DEF CommitService, WorkerTypeOK, Uses
<1>2. CASE Return(b)
  BY <1>2 DEF Return, WorkerTypeOK, Uses
<1>3. CASE Serialize(b)
  BY <1>3 DEF Serialize, WorkerTypeOK, Uses
<1>4. CASE Close(b)
  BY <1>4 DEF Close, WorkerTypeOK, Uses, Over
<1>5. CASE ReturnWithoutQuery(b)
  BY <1>5 DEF ReturnWithoutQuery, WorkerTypeOK, Uses
<1> QED  BY <1>1, <1>2, <1>3, <1>4, <1>5 DEF Worked

LEMMA ChatStep ==
  ASSUME WorkerTypeOK, Uses, NEW c \in Chat,
         Asked(c) \/ ModelAnswers(c) \/ ModelCalls(c) \/ Deadline(c)
  PROVE  WorkerTypeOK' /\ Uses'
<1> USE DEF InThread, InSession, Request
<1>0. c \in Request /\ pc[c] \in InThread \cup {"close", "model", "tools"} \cup Over
  BY DEF WorkerTypeOK
<1>1. CASE BuildAgent(c)
  BY <1>0, <1>1 DEF BuildAgent, WorkerTypeOK, Uses, Over
<1>2. CASE AskAgain(c)
  <2>1. pc[c] = "tools" /\ round' \in [Chat -> 0..MaxRounds]
        /\ (pc' = [pc EXCEPT ![c] = "model"] \/ pc' = [pc EXCEPT ![c] = "failed"])
    BY <1>2, BoundsAssumption DEF AskAgain, WorkerTypeOK
  <2>2. WorkerTypeOK'
    BY <1>2, <2>1 DEF AskAgain, WorkerTypeOK, Over
  <2>3. Uses'
    BY <1>0, <1>2, <2>1 DEF AskAgain, WorkerTypeOK, Uses
  <2> QED  BY <2>2, <2>3
<1>3. CASE ModelAnswers(c)
  BY <1>0, <1>3 DEF ModelAnswers, WorkerTypeOK, Uses, Over
<1>4. CASE ModelCalls(c)
  <2>1. WorkerTypeOK'
    BY <1>4 DEF ModelCalls, WorkerTypeOK
  <2>2. \A d \in Chat, i \in Slot : <<d, i>> \in conn => d # c
    BY <1>4 DEF ModelCalls, Uses
  <2>3. Uses'
    BY <1>0, <1>4, <2>2 DEF ModelCalls, WorkerTypeOK, Uses
  <2> QED  BY <2>1, <2>3
<1>5. CASE Deadline(c)
  BY <1>0, <1>5 DEF Deadline, WorkerTypeOK, Uses, Over
<1> QED  BY <1>1, <1>2, <1>3, <1>4, <1>5 DEF Asked

LEMMA ToolStep ==
  ASSUME WorkerTypeOK, Uses, NEW c \in Chat, NEW i \in Slot, Tooled(c, i) \/ ToolFails(c, i)
  PROVE  WorkerTypeOK' /\ Uses'
<1> USE CallsAreNoRequests
<1>1. CASE ToolTakesConnection(c, i)
  <2>1. WorkerTypeOK'
    BY <1>1 DEF ToolTakesConnection, WorkerTypeOK, Call
  <2>2. Uses'
    BY <1>1 DEF ToolTakesConnection, WorkerTypeOK, Uses
  <2> QED  BY <2>1, <2>2
<1>2. CASE ToolReturns(c, i)
  <2>1. WorkerTypeOK'
    BY <1>2 DEF ToolReturns, WorkerTypeOK
  <2>2. Uses'
    BY <1>2 DEF ToolReturns, WorkerTypeOK, Uses
  <2> QED  BY <2>1, <2>2
<1>3. CASE ToolFails(c, i)
  <2>1. WorkerTypeOK'
    BY <1>3 DEF ToolFails, WorkerTypeOK
  <2>2. \A d \in Chat, j \in Slot :
          tool'[d][j] = IF d = c /\ j = i THEN "ended" ELSE tool[d][j]
    BY <1>3 DEF ToolFails, WorkerTypeOK
  <2>3. Uses'
    BY <1>3, <2>2 DEF ToolFails, Uses
  <2> QED  BY <2>1, <2>3
<1> QED  BY <1>1, <1>2, <1>3 DEF Tooled

LEMMA WorkerInductive == WorkerSpec => []WorkerInv
<1>1. WorkerInit => WorkerInv
  <2> SUFFICES ASSUME WorkerInit PROVE WorkerInv
    OBVIOUS
  <2>1. FiniteShares /\ Cardinality(threads) = 0 /\ Cardinality(conn) = 0
    BY FS_EmptySet DEF WorkerInit, FiniteShares
  <2>2. WorkerTypeOK /\ Uses
    BY BoundsAssumption DEF WorkerInit, WorkerTypeOK, Uses, InThread
  <2> QED  BY <2>1, <2>2, BoundsAssumption DEF WorkerInv, HeldIsUsed, Uses
<1>2. WorkerInv /\ [WorkerNext]_workerVars => WorkerInv'
  <2> SUFFICES ASSUME WorkerInv, [WorkerNext]_workerVars PROVE WorkerInv'
    OBVIOUS
  <2>1. CASE UNCHANGED workerVars
    BY <2>1 DEF workerVars, WorkerInv, WorkerTypeOK, FiniteShares, HeldIsUsed
  <2>2. CASE WorkerNext
    <3>1. WorkerTypeOK /\ Uses /\ FiniteShares /\ HeldIsUsed
      BY DEF WorkerInv, HeldIsUsed, Uses
    <3>2. WorkerTypeOK' /\ Uses'
      BY <2>2, <3>1, ServedStep, WorkedStep, ChatStep, ToolStep DEF WorkerNext
    <3>3. FiniteShares' /\ Cardinality(threads)' <= Threads /\ Cardinality(conn)' <= Pool
      BY <2>2, <3>1, SharesStep
    <3> QED  BY <3>2, <3>3 DEF WorkerInv, HeldIsUsed, Uses
  <2> QED  BY <2>1, <2>2
<1> QED  BY <1>1, <1>2, PTL DEF WorkerSpec

(* Every variable of the worker keeps its type.                            *)
THEOREM WorkerTypeCorrect == WorkerSpec => []WorkerTypeOK
<1>1. WorkerInv => WorkerTypeOK
  BY DEF WorkerInv
<1> QED  BY <1>1, WorkerInductive, PTL

(* Threads and connections are held by those who use them, and never more  *)
(* than there are: a chat that asks the model holds none, and only a       *)
(* deadline leaves the calls of a chat behind, which close what they hold. *)
THEOREM SharesAreUsed == WorkerSpec => []HeldIsUsed
<1>1. WorkerInv => HeldIsUsed
  BY DEF WorkerInv
<1> QED  BY <1>1, WorkerInductive, PTL
==============================================================================
