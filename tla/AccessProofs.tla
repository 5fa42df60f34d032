---------------------------- MODULE AccessProofs ----------------------------
(***************************************************************************)
(* Who may do what, for every finite set of accounts and every set of      *)
(* passwords, roles, sessions and requests: the accounts and roles of the  *)
(* server (RoleGrants) and, in the last part, the session that a browser   *)
(* tab keeps of one of them (AuthSession).                                 *)
(*                                                                         *)
(* On the server a step is of one session s.  It leaves the requests of    *)
(* the others and the locks they hold alone (Frame), so what they hold,    *)
(* they still hold; and it changes an account or an assignment only in     *)
(* ways that leave what they know true, because what they know about       *)
(* ADMINs they know under the lock that s would need.  What a commit then  *)
(* does to the rows is an operation of AccessRecords.                      *)
(*                                                                         *)
(* In the tab, every function that steps share keeps what waits and what   *)
(* it waits for together, so each step does.                               *)
(***************************************************************************)
EXTENDS RoleGrants, AuthSession, FiniteSetTheorems, TLAPS

(* One step of session s.                                                  *)
Step(s) == Begin(s) \/ Abort(s) \/ Statement(s) \/ Waiting(s)

(* What a step of s leaves alone in the requests of the others.            *)
Frame(s) ==
  \A t \in Session \ {s} :
    /\ session'[t].pc = session[t].pc /\ session'[t].op = session[t].op
    /\ session'[t].account = session[t].account /\ session'[t].role = session[t].role
    /\ session'[t].password = session[t].password
    /\ \A r \in Role : roleLock[r] = t => roleLock'[r] = t

(* What is to be shown of a step of s.                                     *)
Safe(s) ==
  /\ IndInv' /\ Frame(s)
  /\ Admins # {} => Admins' # {}
  /\ \A a \in Account : account[a] # Unregistered => account'[a] = account[a]
  /\ session[s].op = "BOOTSTRAP" /\ grant' # grant =>
       /\ Admins = {} /\ Admins' \subseteq {session[s].account}
       /\ account'[session[s].account] = session[s].password
-----------------------------------------------------------------------------
(* How a request ends, goes on and goes on with a lock.                    *)

LEMMA LeaveFrame ==
  ASSUME TypeOK, NEW s \in Session, EndSession(s)
  PROVE  /\ Frame(s) /\ session'[s] = Idle
         /\ session' \in [Session -> RequestType]
         /\ \A t \in Session : session'[t].pc # "idle" => session'[t].account \in Account
         /\ roleLock' \in [Role -> Session \cup {Nobody}]
         /\ \A t \in Session, r \in Role : roleLock'[r] = t => session'[t].pc # "idle"
<1>1. Idle \in RequestType /\ Idle.pc = "idle"
  BY AdminAssumption DEF Idle, RequestType, Op, Unregistered
<1>2. session'[s] = Idle /\ \A t \in Session \ {s} : session'[t] = session[t]
  BY DEF EndSession, TypeOK
<1>3. \A r \in Role : roleLock'[r] = IF roleLock[r] = s THEN Nobody ELSE roleLock[r]
  BY DEF EndSession, Released
<1>4. roleLock' \in [Role -> Session \cup {Nobody}]
  BY DEF EndSession, Released, TypeOK
<1>5. session' \in [Session -> RequestType]
  BY <1>1 DEF EndSession, TypeOK
<1>6. Frame(s)
  BY <1>2, <1>3 DEF Frame
<1> QED
  BY <1>1, <1>2, <1>3, <1>4, <1>5, <1>6, NobodyAssumption DEF TypeOK

LEMMA ContinueFrame ==
  ASSUME TypeOK, NEW s \in Session, NEW next \in RequestType, Continue(s, next),
         next.pc # "idle", next.account \in Account, UNCHANGED roleLock
  PROVE  /\ Frame(s) /\ session'[s] = next
         /\ session' \in [Session -> RequestType]
         /\ \A t \in Session : session'[t].pc # "idle" => session'[t].account \in Account
         /\ roleLock' \in [Role -> Session \cup {Nobody}]
         /\ \A t \in Session, r \in Role : roleLock'[r] = t => session'[t].pc # "idle"
BY DEF Continue, TypeOK, Frame

LEMMA TakeLockFrame ==
  ASSUME TypeOK, NEW s \in Session, NEW next \in RequestType, Continue(s, next),
         next.pc # "idle", next.account \in Account, NEW r \in Role, RoleLockFree(r),
         roleLock' = [roleLock EXCEPT ![r] = s]
  PROVE  /\ Frame(s) /\ session'[s] = next /\ roleLock'[r] = s
         /\ session' \in [Session -> RequestType]
         /\ \A t \in Session : session'[t].pc # "idle" => session'[t].account \in Account
         /\ roleLock' \in [Role -> Session \cup {Nobody}]
         /\ \A t \in Session, q \in Role : roleLock'[q] = t => session'[t].pc # "idle"
BY NobodyAssumption DEF Continue, TypeOK, Frame, RoleLockFree
-----------------------------------------------------------------------------
(* What the others hold and know.                                          *)

(* The types of the next state, but for the rows.                          *)
Typed ==
  /\ session' \in [Session -> RequestType]
  /\ \A t \in Session : session'[t].pc # "idle" => session'[t].account \in Account
  /\ roleLock' \in [Role -> Session \cup {Nobody}]
  /\ \A t \in Session, r \in Role : roleLock'[r] = t => session'[t].pc # "idle"

LEMMA OthersHold ==
  ASSUME IndInv, NEW s \in Session, Frame(s)
  PROVE  \A t \in Session \ {s} : Holding(t)'
<1> SUFFICES ASSUME NEW t \in Session \ {s} PROVE Holding(t)'
  OBVIOUS
<1>1. session[t].role \in Role
  BY DEF IndInv, TypeOK, RequestType
<1>2. Holding(t)
  BY DEF IndInv
<1> QED
  BY <1>1, <1>2, AdminAssumption DEF Holding, In, Frame

LEMMA QuietStep ==
  ASSUME IndInv, NEW s \in Session, Frame(s), Typed, UNCHANGED <<account, grant>>,
         Holding(s)', Knowing(s)'
  PROVE  Safe(s)
<1>1. Admins' = Admins
  BY DEF Admins
<1>2. \A t \in Session \ {s} : Holding(t)'
  BY OthersHold
<1>3. \A t \in Session \ {s} : Knowing(t)'
  <2> TAKE t \in Session \ {s}
  <2>1. Knowing(t)
    BY DEF IndInv
  <2> QED
    BY <1>1, <2>1 DEF Knowing, In, Frame
<1>4. TypeOK' /\ RolesNeedAdmin'
  BY <1>1 DEF IndInv, TypeOK, RolesNeedAdmin, Typed
<1>5. IndInv'
  BY <1>2, <1>3, <1>4 DEF IndInv
<1> QED
  BY <1>1, <1>5 DEF Safe

LEMMA LeaveSafe ==
  ASSUME IndInv, NEW s \in Session, Leave(s)
  PROVE  Safe(s)
<1>1. Frame(s) /\ session'[s] = Idle /\ Typed
  BY LeaveFrame DEF Leave, IndInv, Typed
<1>2. Holding(s)' /\ Knowing(s)'
  BY <1>1 DEF Holding, Knowing, In, Idle
<1> QED
  BY <1>1, <1>2, QuietStep DEF Leave, committed

(* A statement that changes nothing but its request.                       *)
LEMMA ContinueSafe ==
  ASSUME IndInv, NEW s \in Session, NEW next \in RequestType, Continue(s, next),
         next.pc # "idle", next.account \in Account, UNCHANGED <<committed, roleLock>>,
         Holding(s)', Knowing(s)'
  PROVE  Safe(s)
<1>1. Frame(s) /\ Typed
  BY ContinueFrame DEF IndInv, Typed
<1> QED
  BY <1>1, QuietStep DEF committed
-----------------------------------------------------------------------------
(* The statements that change no row.                                      *)

LEMMA BeginSafe ==
  ASSUME IndInv, NEW s \in Session, Begin(s)
  PROVE  Safe(s)
<1>1. Idle \in RequestType
  BY AdminAssumption DEF Idle, RequestType, Op, Unregistered
<1>2. CASE \E a \in Account, p \in Password, op \in {"REGISTER", "BOOTSTRAP"} :
             Continue(s, [Idle EXCEPT !.pc = "begin", !.op = op, !.account = a, !.password = p])
  <2>1. PICK a \in Account, p \in Password, op \in {"REGISTER", "BOOTSTRAP"} :
          Continue(s, [Idle EXCEPT !.pc = "begin", !.op = op, !.account = a, !.password = p])
    BY <1>2
  <2> DEFINE next == [Idle EXCEPT !.pc = "begin", !.op = op, !.account = a, !.password = p]
  <2>2. next \in RequestType /\ next.pc = "begin" /\ next.account \in Account /\ next.op = op
    BY <1>1 DEF RequestType, Op
  <2>3. session'[s] = next
    BY <2>1 DEF Continue, IndInv, TypeOK
  <2>4. Holding(s)' /\ Knowing(s)'
    BY <2>2, <2>3 DEF Holding, Knowing, In
  <2> QED
    BY <2>1, <2>2, <2>4, ContinueSafe DEF Begin
<1>3. CASE \E actor, a \in Account, r \in Role, op \in {"ASSIGN", "REMOVE"} :
             /\ account[actor] # Unregistered
             /\ Continue(s, [Idle EXCEPT !.pc = "check", !.op = op, !.actor = actor,
                                         !.account = a, !.role = r])
  <2>1. PICK actor \in Account, a \in Account, r \in Role, op \in {"ASSIGN", "REMOVE"} :
          Continue(s, [Idle EXCEPT !.pc = "check", !.op = op, !.actor = actor,
                                   !.account = a, !.role = r])
    BY <1>3
  <2> DEFINE next == [Idle EXCEPT !.pc = "check", !.op = op, !.actor = actor,
                                  !.account = a, !.role = r]
  <2>2. next \in RequestType /\ next.pc = "check" /\ next.account \in Account
    BY <1>1 DEF RequestType, Op
  <2>3. session'[s] = next
    BY <2>1 DEF Continue, IndInv, TypeOK
  <2>4. Holding(s)' /\ Knowing(s)'
    BY <2>2, <2>3 DEF Holding, Knowing, In
  <2> QED
    BY <2>1, <2>2, <2>4, ContinueSafe DEF Begin
<1> QED
  BY <1>2, <1>3 DEF Begin

(* The reads: they refuse, or go on to a place where nothing more is held  *)
(* than before and what is known has just been read.                       *)
LEMMA ReadSafe ==
  ASSUME IndInv, NEW s \in Session,
         \/ CheckPermission(s) \/ FindUsername(s) \/ RequireUser(s) \/ ReadAssignment(s)
         \/ CountAdmins(s) \/ AssertBootstrapAvailable(s) \/ AdminExists(s) \/ FindUser(s)
  PROVE  Safe(s)
<1>0. session[s] \in RequestType /\ (session[s].pc # "idle" => session[s].account \in Account)
  BY DEF IndInv, TypeOK
<1>1. CASE Leave(s)
  BY <1>1, LeaveSafe
<1>2. ASSUME NEW next \in RequestType, session[s].pc # "idle", next.pc # "idle",
             next.account = session[s].account, Continue(s, next),
             UNCHANGED <<committed, roleLock>>, Holding(s)', Knowing(s)'
      PROVE  Safe(s)
  BY <1>0, <1>2, ContinueSafe
<1>3. Holding(s) /\ Knowing(s)
  BY DEF IndInv
<1>4. ASSUME UNCHANGED <<committed, roleLock>> PROVE Admins' = Admins
  BY <1>4 DEF committed, Admins
<1>5. CASE CheckPermission(s)
  <2>1. CASE MayManage(session[s].actor) /\ UNCHANGED <<committed, roleLock>>
             /\ Continue(s, [session[s] EXCEPT !.pc = "begin"])
    <3> DEFINE next == [session[s] EXCEPT !.pc = "begin"]
    <3>1. next \in RequestType /\ next.pc = "begin" /\ next.account = session[s].account
      BY <1>0 DEF RequestType
    <3>2. session'[s] = next
      BY <2>1 DEF Continue, IndInv, TypeOK
    <3>3. Admins' # {}
      BY <2>1, <1>4 DEF MayManage
    <3>4. Holding(s)' /\ Knowing(s)'
      BY <3>1, <3>2, <3>3 DEF Holding, Knowing, In
    <3> QED
      BY <1>2, <1>5, <2>1, <3>1, <3>4 DEF CheckPermission
  <2> QED
    BY <1>1, <1>5, <2>1 DEF CheckPermission
<1>6. CASE FindUsername(s)
  <2>1. CASE Continue(s, [session[s] EXCEPT !.pc = "ready"]) /\ UNCHANGED <<committed, roleLock>>
    <3> DEFINE next == [session[s] EXCEPT !.pc = "ready"]
    <3>1. next \in RequestType /\ next.pc = "ready" /\ next.account = session[s].account
          /\ next.op = "REGISTER"
      BY <1>0, <1>6 DEF RequestType, FindUsername, At
    <3>2. session'[s] = next
      BY <2>1 DEF Continue, IndInv, TypeOK
    <3>3. Holding(s)' /\ Knowing(s)'
      BY <3>1, <3>2 DEF Holding, Knowing, In
    <3> QED
      BY <1>2, <1>6, <2>1, <3>1, <3>3 DEF FindUsername, At
  <2> QED
    BY <1>1, <1>6, <2>1 DEF FindUsername
<1>7. CASE RequireUser(s)
  <2>1. CASE Continue(s, [session[s] EXCEPT !.pc = "ready"]) /\ UNCHANGED <<committed, roleLock>>
    <3> DEFINE next == [session[s] EXCEPT !.pc = "ready"]
    <3>1. next \in RequestType /\ next.pc = "ready" /\ next.account = session[s].account
          /\ next.op = "ASSIGN"
      BY <1>0, <1>7 DEF RequestType, RequireUser, At
    <3>2. session'[s] = next
      BY <2>1 DEF Continue, IndInv, TypeOK
    <3>3. Admins' # {}
      BY <1>3, <1>4, <1>7, <2>1 DEF RequireUser, At, Knowing, In
    <3>4. Holding(s)' /\ Knowing(s)'
      BY <3>1, <3>2, <3>3 DEF Holding, Knowing, In
    <3> QED
      BY <1>2, <1>7, <2>1, <3>1, <3>4 DEF RequireUser, At
  <2> QED
    BY <1>1, <1>7, <2>1 DEF RequireUser
<1>8. CASE ReadAssignment(s)
  <2>1. CASE Continue(s, [session[s] EXCEPT !.pc = "read", !.row = "seen"])
             /\ UNCHANGED <<committed, roleLock>>
    <3> DEFINE next == [session[s] EXCEPT !.pc = "read", !.row = "seen"]
    <3>1. next \in RequestType /\ next.pc = "read" /\ next.account = session[s].account
          /\ next.op = "REMOVE"
      BY <1>0, <1>8 DEF RequestType, ReadAssignment, At
    <3>2. session'[s] = next
      BY <2>1 DEF Continue, IndInv, TypeOK
    <3>3. Holding(s)' /\ Knowing(s)'
      BY <3>1, <3>2 DEF Holding, Knowing, In
    <3> QED
      BY <1>2, <1>8, <2>1, <3>1, <3>3 DEF ReadAssignment, At
  <2> QED
    BY <1>1, <1>8, <2>1 DEF ReadAssignment
<1>9. CASE CountAdmins(s)
  <2>1. CASE /\ Removable(session[s].role) /\ UNCHANGED <<committed, roleLock>>
             /\ Continue(s, [session[s] EXCEPT !.pc = "ready"])
    <3> DEFINE next == [session[s] EXCEPT !.pc = "ready"]
    <3>1. next \in RequestType /\ next.pc = "ready" /\ next.account = session[s].account
          /\ next.op = "REMOVE" /\ next.role = session[s].role
      BY <1>0, <1>9 DEF RequestType, CountAdmins, At
    <3>2. session'[s] = next
      BY <2>1 DEF Continue, IndInv, TypeOK
    <3>3. session[s].role = Admin => Cardinality(Admins') > 1
      BY <1>4, <2>1 DEF Removable
    <3>4. roleLock'[session[s].role] = s
      BY <1>3, <1>9, <2>1 DEF CountAdmins, At, Holding, In
    <3>5. Holding(s)' /\ Knowing(s)'
      BY <3>1, <3>2, <3>3, <3>4 DEF Holding, Knowing, In
    <3> QED
      BY <1>2, <1>9, <2>1, <3>1, <3>5 DEF CountAdmins, At
  <2> QED
    BY <1>1, <1>9, <2>1 DEF CountAdmins
<1>10. CASE AssertBootstrapAvailable(s)
  <2>1. CASE Continue(s, [session[s] EXCEPT !.pc = "prompted"])
             /\ UNCHANGED <<committed, roleLock>>
    <3> DEFINE next == [session[s] EXCEPT !.pc = "prompted"]
    <3>1. next \in RequestType /\ next.pc = "prompted" /\ next.account = session[s].account
          /\ next.op = "BOOTSTRAP"
      BY <1>0, <1>10 DEF RequestType, AssertBootstrapAvailable, RefuseIfAdmin, At
    <3>2. session'[s] = next
      BY <2>1 DEF Continue, IndInv, TypeOK
    <3>3. Holding(s)' /\ Knowing(s)'
      BY <3>1, <3>2 DEF Holding, Knowing, In
    <3> QED
      BY <1>2, <1>10, <2>1, <3>1, <3>3 DEF AssertBootstrapAvailable, RefuseIfAdmin, At
  <2> QED
    BY <1>1, <1>10, <2>1 DEF AssertBootstrapAvailable, RefuseIfAdmin
<1>11. CASE AdminExists(s)
  <2>1. CASE /\ Admins = {} /\ UNCHANGED <<committed, roleLock>>
             /\ Continue(s, [session[s] EXCEPT !.pc = "locked"])
    <3> DEFINE next == [session[s] EXCEPT !.pc = "locked"]
    <3>1. next \in RequestType /\ next.pc = "locked" /\ next.account = session[s].account
          /\ next.op = "BOOTSTRAP"
      BY <1>0, <1>11 DEF RequestType, AdminExists, RefuseIfAdmin, At
    <3>2. session'[s] = next
      BY <2>1 DEF Continue, IndInv, TypeOK
    <3>3. roleLock'[Admin] = s /\ Admins' = {}
      BY <1>3, <1>4, <1>11, <2>1 DEF AdminExists, RefuseIfAdmin, At, Holding, In
    <3>4. Holding(s)' /\ Knowing(s)'
      BY <3>1, <3>2, <3>3 DEF Holding, Knowing, In
    <3> QED
      BY <1>2, <1>11, <2>1, <3>1, <3>4 DEF AdminExists, RefuseIfAdmin, At
  <2> QED
    BY <1>1, <1>11, <2>1 DEF AdminExists, RefuseIfAdmin
<1>12. CASE FindUser(s)
  <2>0. roleLock[Admin] = s /\ Admins = {} /\ session[s].op = "BOOTSTRAP"
        /\ session[s].pc = "locked"
    BY <1>3, <1>12 DEF FindUser, At, Holding, Knowing, In
  <2>1. CASE UNCHANGED <<committed, roleLock>> /\ Continue(s, [session[s] EXCEPT !.pc = "insert"])
    <3> DEFINE next == [session[s] EXCEPT !.pc = "insert"]
    <3>1. next \in RequestType /\ next.pc = "insert" /\ next.account = session[s].account
          /\ next.op = "BOOTSTRAP"
      BY <1>0, <2>0 DEF RequestType
    <3>2. session'[s] = next
      BY <2>1 DEF Continue, IndInv, TypeOK
    <3>3. Holding(s)' /\ Knowing(s)'
      BY <1>4, <2>0, <2>1, <3>1, <3>2 DEF Holding, Knowing, In
    <3> QED
      BY <1>2, <2>0, <2>1, <3>1, <3>3
  <2>2. CASE /\ account[session[s].account] # Unregistered /\ VerifyPassword(s)
             /\ UNCHANGED <<committed, roleLock>>
             /\ Continue(s, [session[s] EXCEPT !.pc = "promote"])
    <3> DEFINE next == [session[s] EXCEPT !.pc = "promote"]
    <3>1. next \in RequestType /\ next.pc = "promote" /\ next.account = session[s].account
          /\ next.op = "BOOTSTRAP" /\ next.password = session[s].password
      BY <1>0, <2>0 DEF RequestType
    <3>2. session'[s] = next
      BY <2>2 DEF Continue, IndInv, TypeOK
    <3>3. account' = account /\ roleLock' = roleLock /\ Admins' = {}
      BY <1>4, <2>0, <2>2 DEF committed
    <3>4. Holding(s)' /\ Knowing(s)'
      BY <2>0, <2>2, <3>1, <3>2, <3>3 DEF Holding, Knowing, In, VerifyPassword
    <3> QED
      BY <1>2, <2>0, <2>2, <3>1, <3>4
  <2> QED
    BY <1>1, <1>12, <2>1, <2>2 DEF FindUser
<1> QED
  BY <1>5, <1>6, <1>7, <1>8, <1>9, <1>10, <1>11, <1>12
-----------------------------------------------------------------------------
(* The two statements that take a role's lock.                             *)

LEMMA LockSafe ==
  ASSUME IndInv, NEW s \in Session, LockRole(s) \/ LockAdminRole(s)
  PROVE  Safe(s)
<1> DEFINE next == [session[s] EXCEPT !.pc = "held"]
           r == IF LockRole(s) THEN session[s].role ELSE Admin
<1>1. /\ session[s].pc # "idle" /\ Continue(s, next) /\ UNCHANGED committed
      /\ RoleLockFree(r) /\ roleLock' = [roleLock EXCEPT ![r] = s]
      /\ \/ session[s].op = "REMOVE" /\ r = session[s].role
         \/ session[s].op = "BOOTSTRAP" /\ r = Admin
  BY DEF LockRole, LockAdminRole, At
<1>2. session[s] \in RequestType /\ session[s].account \in Account
  BY <1>1 DEF IndInv, TypeOK
<1>3. next \in RequestType /\ next.pc = "held" /\ next.account = session[s].account
      /\ next.op = session[s].op /\ next.role = session[s].role
  BY <1>2 DEF RequestType
<1>4. r \in Role
  BY <1>2, AdminAssumption DEF RequestType
<1>5. Frame(s) /\ Typed /\ session'[s] = next /\ roleLock'[r] = s
  <2> HIDE DEF next, r
  <2> QED
    BY <1>1, <1>2, <1>3, <1>4, TakeLockFrame DEF IndInv, Typed
<1>6. Holding(s)' /\ Knowing(s)'
  BY <1>1, <1>3, <1>5 DEF Holding, Knowing, In
<1> QED
  BY <1>1, <1>5, <1>6, QuietStep DEF committed
-----------------------------------------------------------------------------
(* The statements that commit.                                             *)

LEMMA AdminsFinite == \A S \in SUBSET Account : IsFiniteSet(S) /\ Cardinality(S) \in Nat
BY AccountAssumption, FS_Subset, FS_CardinalityType

(* A commit that adds an account, an assignment or both: nobody loses      *)
(* anything, and who has counted ADMINs or missed them has the lock.       *)
LEMMA AddSafe ==
  ASSUME IndInv, NEW s \in Session, EndSession(s),
         NEW a \in Account, account[a] = Unregistered \/ account' = account,
         account' \in [Account -> Password \cup {Unregistered}],
         \A b \in Account \ {a} : account'[b] = account[b],
         NEW r \in Role, grant' = grant \/ grant' = grant \cup {<<a, r>>},
         grant' # grant => Admins # {} \/ r = Admin,
         grant' # grant /\ r = Admin => roleLock[Admin] \in {s, Nobody},
         session[s].op = "BOOTSTRAP" /\ grant' # grant =>
           /\ Admins = {} /\ a = session[s].account /\ account'[a] = session[s].password
  PROVE  Safe(s)
<1>1. Frame(s) /\ session'[s] = Idle /\ Typed
  BY LeaveFrame DEF IndInv, Typed
<1>2. Admins \subseteq Admins' /\ Admins' \subseteq Account
  BY DEF Admins
<1>3. Admins' = Admins \/ (grant' # grant /\ r = Admin /\ Admins' = Admins \cup {a})
  BY DEF Admins
<1>4. Cardinality(Admins) \in Nat /\ Cardinality(Admins') \in Nat
      /\ Cardinality(Admins) <= Cardinality(Admins')
  BY <1>2, AdminsFinite, FS_Subset
<1>5. \A t \in Session \ {s} : Holding(t)'
  BY <1>1, OthersHold
<1>6. \A t \in Session \ {s} : Knowing(t)'
  <2> TAKE t \in Session \ {s}
  <2>1. Knowing(t) /\ Holding(t) /\ session[t] \in RequestType
        /\ (session[t].pc # "idle" => session[t].account \in Account)
    BY DEF IndInv, TypeOK
  <2>2. /\ session'[t].pc = session[t].pc /\ session'[t].op = session[t].op
        /\ session'[t].account = session[t].account /\ session'[t].role = session[t].role
        /\ session'[t].password = session[t].password
    BY <1>1 DEF Frame
  <2>3. In(t, "REMOVE", {"ready"})' /\ session'[t].role = Admin => Cardinality(Admins') > 1
    BY <1>4, <2>1, <2>2 DEF Knowing, In
  <2>4. In(t, "BOOTSTRAP", {"locked", "insert", "promote"})' => Admins' = {}
    BY <1>3, <2>1, <2>2, NobodyAssumption DEF Knowing, Holding, In
  <2>5. In(t, "BOOTSTRAP", {"promote"})' => /\ account'[session'[t].account] # Unregistered
                                            /\ account'[session'[t].account] = session'[t].password
    BY <2>1, <2>2 DEF Knowing, In
  <2>6. In(t, "ASSIGN", {"begin", "ready"})' => Admins' # {}
    BY <1>2, <2>1, <2>2 DEF Knowing, In
  <2> QED
    BY <2>3, <2>4, <2>5, <2>6 DEF Knowing
<1>7. Holding(s)' /\ Knowing(s)'
  BY <1>1 DEF Holding, Knowing, In, Idle
<1>8. TypeOK'
  BY <1>1 DEF IndInv, TypeOK, Typed
<1>9. RolesNeedAdmin'
  BY <1>2, <1>3 DEF IndInv, RolesNeedAdmin, Admins
<1>10. IndInv'
  BY <1>5, <1>6, <1>7, <1>8, <1>9 DEF IndInv
<1>11. \A b \in Account : account[b] # Unregistered => account'[b] = account[b]
  OBVIOUS
<1>12. session[s].op = "BOOTSTRAP" /\ grant' # grant => Admins' \subseteq {session[s].account}
  BY <1>3
<1> QED
  BY <1>1, <1>2, <1>10, <1>11, <1>12 DEF Safe

LEMMA InsertSafe ==
  ASSUME IndInv, NEW s \in Session,
         InsertUser(s) \/ InsertGrant(s) \/ CreateAdmin(s) \/ PromoteUser(s)
  PROVE  Safe(s)
<1>1. CASE Leave(s)
  BY <1>1, LeaveSafe
<1>2. Holding(s) /\ Knowing(s) /\ session[s] \in RequestType
      /\ (session[s].pc # "idle" => session[s].account \in Account)
      /\ account \in [Account -> Password \cup {Unregistered}]
  BY DEF IndInv, TypeOK
<1> DEFINE a == session[s].account
<1>3. \A p \in Password \cup {Unregistered} :
        [account EXCEPT ![a] = p] \in [Account -> Password \cup {Unregistered}]
  BY <1>2
<1>4. CASE InsertUser(s) /\ NameFree(a) /\ account' = [account EXCEPT ![a] = session[s].password]
           /\ EndSession(s) /\ UNCHANGED grant
  <2>1. a \in Account /\ account[a] = Unregistered
        /\ session[s].password \in Password \cup {Unregistered}
    BY <1>2, <1>4 DEF InsertUser, At, NameFree, RequestType
  <2> QED
    BY <1>2, <1>3, <1>4, <2>1, AddSafe, AdminAssumption
<1>5. CASE InsertGrant(s)
  <2>1. /\ a \in Account /\ Admins # {} /\ session[s].op = "ASSIGN"
        /\ session[s].role \in Role
    BY <1>2, <1>5 DEF InsertGrant, At, Knowing, In, RequestType
  <2>2. /\ roleLock[session[s].role] = Nobody /\ EndSession(s) /\ account' = account
        /\ grant' = grant \cup {<<a, session[s].role>>}
    BY <1>5 DEF InsertGrant, RoleLockFree
  <2> QED
    BY <1>2, <2>1, <2>2, AddSafe
<1>6. CASE CreateAdmin(s) /\ NameFree(a) /\ account' = [account EXCEPT ![a] = session[s].password]
           /\ grant' = grant \cup {<<a, Admin>>} /\ EndSession(s)
  <2>1. /\ a \in Account /\ account[a] = Unregistered /\ Admins = {} /\ roleLock[Admin] = s
        /\ session[s].password \in Password \cup {Unregistered}
    BY <1>2, <1>6 DEF CreateAdmin, At, NameFree, Knowing, Holding, In, RequestType
  <2>2. account'[a] = session[s].password
    BY <1>2, <1>6, <2>1
  <2> QED
    BY <1>2, <1>3, <1>6, <2>1, <2>2, AddSafe, AdminAssumption
<1>7. CASE PromoteUser(s)
  <2>1. /\ a \in Account /\ account[a] = session[s].password /\ Admins = {}
        /\ roleLock[Admin] = s
    BY <1>2, <1>7 DEF PromoteUser, At, Knowing, Holding, In
  <2>2. EndSession(s) /\ account' = account /\ grant' = grant \cup {<<a, Admin>>}
    BY <1>7 DEF PromoteUser
  <2> QED
    BY <1>2, <2>1, <2>2, AddSafe, AdminAssumption
<1> QED
  BY <1>1, <1>4, <1>5, <1>6, <1>7 DEF InsertUser, CreateAdmin

(* remove_role's DELETE: if it takes an ADMIN away, then s has the lock,   *)
(* so nobody else counts ADMINs or bootstraps, and one of those s counted  *)
(* is left.                                                                *)
LEMMA DeleteSafe ==
  ASSUME IndInv, NEW s \in Session, DeleteGrant(s)
  PROVE  Safe(s)
<1>1. CASE Leave(s)
  BY <1>1, LeaveSafe
<1> DEFINE a == session[s].account
           role == session[s].role
           SameRow(t) == session[t].row = "seen"
                         /\ <<session[t].account, session[t].role>> = <<a, role>>
<1>2. CASE /\ grant' = grant \ {<<a, role>>} /\ roleLock' = Released(s) /\ account' = account
           /\ session' = [t \in Session |-> IF t = s THEN Idle
                                            ELSE IF SameRow(t) THEN [session[t] EXCEPT !.row = "gone"]
                                            ELSE session[t]]
  <2>1. /\ a \in Account /\ role \in Role /\ roleLock[role] = s
        /\ role = Admin => Cardinality(Admins) > 1
        /\ session[s].op = "REMOVE" /\ session[s].pc = "ready"
    BY DEF DeleteGrant, At, IndInv, TypeOK, RequestType, Holding, Knowing, In
  <2>2. Idle \in RequestType /\ Idle.pc = "idle"
    BY AdminAssumption DEF Idle, RequestType, Op, Unregistered
  <2>3. ASSUME NEW t \in Session \ {s}
        PROVE  /\ session'[t] \in RequestType
               /\ session'[t].pc = session[t].pc /\ session'[t].op = session[t].op
               /\ session'[t].account = session[t].account
               /\ session'[t].role = session[t].role
               /\ session'[t].password = session[t].password
    <3>1. session[t] \in RequestType
      BY DEF IndInv, TypeOK
    <3>2. session'[t] = IF SameRow(t) THEN [session[t] EXCEPT !.row = "gone"] ELSE session[t]
      BY <1>2
    <3>3. [session[t] EXCEPT !.row = "gone"] \in RequestType
      BY <3>1 DEF RequestType
    <3>4. /\ [session[t] EXCEPT !.row = "gone"].pc = session[t].pc
          /\ [session[t] EXCEPT !.row = "gone"].op = session[t].op
          /\ [session[t] EXCEPT !.row = "gone"].account = session[t].account
          /\ [session[t] EXCEPT !.row = "gone"].role = session[t].role
          /\ [session[t] EXCEPT !.row = "gone"].password = session[t].password
      BY <3>1 DEF RequestType
    <3> HIDE DEF SameRow
    <3> QED
      BY <3>1, <3>2, <3>3, <3>4
  <2>4. session'[s] = Idle
    BY <1>2
  <2>5. session' \in [Session -> RequestType]
    BY <1>2, <2>2, <2>3, <2>4
  <2>6. \A r \in Role : roleLock'[r] = IF roleLock[r] = s THEN Nobody ELSE roleLock[r]
    BY <1>2 DEF Released
  <2>7. roleLock' \in [Role -> Session \cup {Nobody}]
    BY <1>2 DEF Released, IndInv, TypeOK
  <2>8. Frame(s)
    BY <2>3, <2>6 DEF Frame
  <2>9. TypeOK'
    BY <1>2, <2>2, <2>3, <2>4, <2>5, <2>6, <2>7, NobodyAssumption DEF IndInv, TypeOK
  <2>10. Admins' = IF role = Admin THEN Admins \ {a} ELSE Admins
    BY <1>2 DEF Admins
  <2>11. Admins # {} => Admins' # {}
    <3>1. CASE role = Admin
      <4>1. IsFiniteSet(Admins)
        BY AdminsFinite DEF Admins
      <4>2. ASSUME Admins' = {} PROVE FALSE
        <5>1. Admins \subseteq {a}
          BY <2>10, <3>1, <4>2
        <5>2. Cardinality(Admins) <= 1
          <6>1. /\ IsFiniteSet({a}) /\ Cardinality({a}) = 1
            BY FS_Singleton
          <6>2. Cardinality(Admins) <= Cardinality({a})
            BY <5>1, <6>1, FS_Subset
          <6> QED
            BY <6>1, <6>2
        <5>3. Cardinality(Admins) \in Nat
          BY <4>1, FS_CardinalityType
        <5> QED
          BY <2>1, <3>1, <5>2, <5>3
      <4> QED
        BY <4>2
    <3> QED
      BY <2>10, <3>1
  <2>12. RolesNeedAdmin'
    BY <1>2, <2>11 DEF IndInv, RolesNeedAdmin
  <2>13. \A t \in Session \ {s} : Knowing(t)'
    <3> TAKE t \in Session \ {s}
    <3>1. Knowing(t) /\ Holding(t)
      BY DEF IndInv
    <3>2. In(t, "REMOVE", {"ready"})' /\ session'[t].role = Admin => Cardinality(Admins') > 1
      BY <2>1, <2>3, <2>10, <3>1 DEF Knowing, Holding, In
    <3>3. In(t, "BOOTSTRAP", {"locked", "insert", "promote"})' => Admins' = {}
      BY <2>3, <2>10, <3>1 DEF Knowing, In
    <3>4. In(t, "BOOTSTRAP", {"promote"})' =>
            /\ account'[session'[t].account] # Unregistered
            /\ account'[session'[t].account] = session'[t].password
      BY <1>2, <2>3, <3>1 DEF Knowing, In
    <3>5. In(t, "ASSIGN", {"begin", "ready"})' => Admins' # {}
      BY <2>3, <2>11, <3>1 DEF Knowing, In
    <3> QED
      BY <3>2, <3>3, <3>4, <3>5 DEF Knowing
  <2>14. Holding(s)' /\ Knowing(s)'
    BY <2>2, <2>4 DEF Holding, Knowing, In
  <2>15. IndInv'
    BY <2>8, <2>9, <2>12, <2>13, <2>14, OthersHold DEF IndInv
  <2> QED
    BY <1>2, <2>1, <2>8, <2>11, <2>15 DEF Safe
<1> QED
  BY <1>1, <1>2 DEF DeleteGrant
-----------------------------------------------------------------------------
(* The statements that change no row, those that take a lock and those     *)
(* that commit are all of them.                                            *)
LEMMA StepSafe ==
  ASSUME IndInv, NEW s \in Session, Step(s)
  PROVE  Safe(s)
<1>1. CASE Begin(s)
  BY <1>1, BeginSafe
<1>2. CASE Abort(s)
  BY <1>2, LeaveSafe DEF Abort
<1>3. CASE Statement(s)
  BY <1>3, ReadSafe, InsertSafe, DeleteSafe DEF Statement
<1>4. CASE Waiting(s)
  BY <1>4, InsertSafe, LockSafe DEF Waiting
<1> QED
  BY <1>1, <1>2, <1>3, <1>4 DEF Step

LEMMA NextIsAStep == Next <=> \E s \in Session : Step(s)
BY DEF Next, Step

LEMMA InitIndInv == Init => IndInv
<1> SUFFICES ASSUME Init PROVE IndInv
  OBVIOUS
<1>1. Idle \in RequestType /\ Idle.pc = "idle"
  BY AdminAssumption DEF Idle, RequestType, Op, Unregistered
<1>2. TypeOK
  BY <1>1, NobodyAssumption DEF Init, RecordsInit, TypeOK
<1>3. RolesNeedAdmin
  BY DEF Init, RecordsInit, RolesNeedAdmin
<1>4. \A s \in Session : Holding(s) /\ Knowing(s)
  BY <1>1 DEF Init, Holding, Knowing, In
<1> QED
  BY <1>2, <1>3, <1>4 DEF IndInv

LEMMA StutterIndInv == IndInv /\ UNCHANGED vars => IndInv'
<1> SUFFICES ASSUME IndInv, UNCHANGED vars PROVE IndInv'
  OBVIOUS
<1>1. /\ account' = account /\ grant' = grant /\ session' = session /\ roleLock' = roleLock
      /\ Admins' = Admins
  BY DEF vars, Admins
<1> QED
  BY <1>1 DEF IndInv, TypeOK, RolesNeedAdmin, Holding, Knowing, In
-----------------------------------------------------------------------------
(* What requests hold and know about ADMINs, roles and passwords stays     *)
(* true through every interleaving of their statements: the lock of a      *)
(* role's row is what makes a count or an absence last until the commit.   *)
THEOREM Inductive == Spec => []IndInv
<1>1. IndInv /\ [Next]_vars => IndInv'
  BY StepSafe, NextIsAStep, StutterIndInv DEF Safe
<1> QED
  BY <1>1, InitIndInv, PTL DEF Spec

(* Every row, request and lock keeps its type, and no lock outlives the    *)
(* session that took it (AsyncSession's rollback or commit ends both).     *)
THEOREM TypeCorrect == Spec => []TypeOK
<1>1. IndInv => TypeOK
  BY DEF IndInv
<1> QED
  BY <1>1, Inductive, PTL

(* Roles exist only in a system with an ADMIN: assign_role is asked for by *)
(* one, and the bootstrap makes one.                                       *)
THEOREM RolesCorrect == Spec => []RolesNeedAdmin
<1>1. IndInv => RolesNeedAdmin
  BY DEF IndInv
<1> QED
  BY <1>1, Inductive, PTL

(* The last ADMIN is never taken away, however many removals, with however *)
(* many sessions, overlap.                                                 *)
THEOREM AdminKept == Spec => AdminNeverLost
<1>1. IndInv /\ [Next]_vars => [Admins # {} => Admins' # {}]_vars
  BY StepSafe, NextIsAStep DEF Safe
<1> QED
  BY <1>1, Inductive, PTL DEF Spec, AdminNeverLost

(* A registered account keeps its password through every later             *)
(* registration and bootstrap of the same name.                            *)
THEOREM PasswordsKept == Spec => AccountsKeepPassword
<1>1. IndInv /\ [Next]_vars =>
        [\A a \in Account : account[a] # Unregistered => account'[a] = account[a]]_vars
  BY StepSafe, NextIsAStep DEF Safe
<1> QED
  BY <1>1, Inductive, PTL DEF Spec, AccountsKeepPassword
-----------------------------------------------------------------------------
(* Whoever's request ends in a step is the one that took it.               *)
LEMMA EnderIsActor ==
  ASSUME NEW s \in Session, Safe(s), NEW t \in Session,
         session[t].pc # "idle", session'[t].pc = "idle"
  PROVE  t = s
BY DEF Safe, Frame

(* Of the concurrent bootstraps at most one grants ADMIN, and none does    *)
(* once there is an ADMIN.                                                 *)
THEOREM BootstrapOneWinner == Spec => BootstrapOnce
<1>1. IndInv /\ [Next]_vars =>
        [\A s \in Session :
           session[s].op = "BOOTSTRAP" /\ session[s].pc # "idle" /\ session'[s].pc = "idle"
             /\ grant' # grant
           => Admins = {}]_vars
  BY StepSafe, NextIsAStep, EnderIsActor DEF Safe
<1> QED
  BY <1>1, Inductive, PTL DEF Spec, BootstrapOnce

(* The account the bootstrap promotes has the password typed at the        *)
(* prompt, whoever registered it, and when.                                *)
THEOREM BootstrapByOwner == Spec => BootstrapKnowsPassword
<1>1. IndInv /\ [Next]_vars =>
        [\A s \in Session, a \in Account :
           session[s].op = "BOOTSTRAP" /\ grant' # grant /\ session'[s].pc = "idle"
             /\ session[s].pc # "idle" /\ a \in Admins' \ Admins
           => account'[a] = session[s].password]_vars
  BY StepSafe, NextIsAStep, EnderIsActor DEF Safe
<1> QED
  BY <1>1, Inductive, PTL DEF Spec, BootstrapKnowsPassword
-----------------------------------------------------------------------------
(***************************************************************************)
(* The requests implement AccessRecords.  What a commit needs beyond       *)
(* IndInv: the password that was typed, the account that was found, and    *)
(* that a row which was read and not reported gone is there.               *)
(***************************************************************************)
Fit(s) ==
  /\ session[s].op \in {"REGISTER", "BOOTSTRAP"} /\ session[s].pc # "idle" =>
       session[s].password \in Password
  /\ In(s, "ASSIGN", {"ready"}) => account[session[s].account] # Unregistered
  /\ session[s].row = "seen" => <<session[s].account, session[s].role>> \in grant

AllFit == \A s \in Session : Fit(s)

(* What is to be shown of the rows a step of s commits: an operation, and  *)
(* what the others have read stays or is reported gone.                    *)
RowsKept(s) ==
  \A t \in Session \ {s} : session'[t].row = "seen" =>
    /\ session[t].row = "seen"
    /\ <<session[t].account, session[t].role>> \in grant
         => <<session[t].account, session[t].role>> \in grant'

Operation(s) == ([RecordsNext]_committed) /\ RowsKept(s)

LEMMA QuietOperation ==
  ASSUME TypeOK, NEW s \in Session, NEW next, UNCHANGED committed,
         session' = [session EXCEPT ![s] = next]
  PROVE  Operation(s)
BY DEF TypeOK, Operation, RowsKept, committed

(* The reads, the locks and the ends without a commit.                     *)
LEMMA ReadOperation ==
  ASSUME IndInv, NEW s \in Session,
         \/ Begin(s) \/ Abort(s) \/ CheckPermission(s) \/ FindUsername(s) \/ RequireUser(s)
         \/ ReadAssignment(s) \/ CountAdmins(s) \/ AssertBootstrapAvailable(s)
         \/ AdminExists(s) \/ FindUser(s) \/ LockRole(s) \/ LockAdminRole(s)
  PROVE  Operation(s)
<1>1. UNCHANGED committed
  BY DEF Begin, Abort, CheckPermission, FindUsername, RequireUser, ReadAssignment, CountAdmins,
         AssertBootstrapAvailable, AdminExists, RefuseIfAdmin, FindUser, LockRole,
         LockAdminRole, Leave
<1>2. \E next : session' = [session EXCEPT ![s] = next]
  BY DEF Begin, Abort, CheckPermission, FindUsername, RequireUser, ReadAssignment, CountAdmins,
         AssertBootstrapAvailable, AdminExists, RefuseIfAdmin, FindUser, LockRole,
         LockAdminRole, Leave, EndSession, Continue
<1> QED  BY <1>1, <1>2, QuietOperation DEF IndInv

LEMMA LeaveOperation ==
  ASSUME IndInv, NEW s \in Session, Leave(s)
  PROVE  Operation(s)
BY QuietOperation DEF Leave, EndSession, IndInv

(* A commit that takes no assignment away.                                 *)
LEMMA CommitOperation ==
  ASSUME IndInv, NEW s \in Session, EndSession(s), grant \subseteq grant', RecordsNext
  PROVE  Operation(s)
BY DEF IndInv, TypeOK, EndSession, Operation, RowsKept

LEMMA InsertOperation ==
  ASSUME IndInv, AllFit, NEW s \in Session,
         InsertUser(s) \/ InsertGrant(s) \/ CreateAdmin(s) \/ PromoteUser(s)
  PROVE  Operation(s)
<1> DEFINE a == session[s].account
           r == session[s].role
<1>0. /\ a \in Account /\ r \in Role /\ Fit(s) /\ Holding(s) /\ Knowing(s)
      /\ account \in [Account -> Password \cup {Unregistered}]
      /\ session[s].pc # "idle"
  BY DEF InsertUser, InsertGrant, CreateAdmin, PromoteUser, At, IndInv, TypeOK, RequestType,
         AllFit
<1>1. CASE Leave(s)
  BY <1>1, LeaveOperation
<1>2. CASE InsertUser(s) /\ ~ Leave(s)
  <2>1. /\ account[a] = Unregistered /\ session[s].password \in Password
        /\ account' = [account EXCEPT ![a] = session[s].password]
        /\ EndSession(s) /\ UNCHANGED grant
    BY <1>0, <1>2 DEF InsertUser, NameFree, At, Fit
  <2>2. RegisterUser(a)
    BY <2>1 DEF RegisterUser
  <2> QED  BY <1>0, <2>1, <2>2, CommitOperation DEF RecordsNext
<1>3. CASE InsertGrant(s)
  <2>1. /\ grant' = grant \cup {<<a, r>>} /\ EndSession(s) /\ UNCHANGED account
    BY <1>3 DEF InsertGrant
  <2>2. Admins # {} /\ account[a] # Unregistered
    BY <1>0, <1>3 DEF InsertGrant, At, Knowing, Fit, In
  <2>3. AssignRole(a, r)
    BY <2>1, <2>2 DEF AssignRole
  <2> QED  BY <1>0, <2>1, <2>3, CommitOperation DEF RecordsNext
<1>4. CASE CreateAdmin(s) /\ ~ Leave(s)
  <2>1. /\ account[a] = Unregistered /\ session[s].password \in Password
        /\ account' = [account EXCEPT ![a] = session[s].password]
        /\ grant' = grant \cup {<<a, Admin>>} /\ EndSession(s)
    BY <1>0, <1>4 DEF CreateAdmin, NameFree, At, Fit
  <2>2. Admins = {}
    BY <1>0, <1>4 DEF CreateAdmin, At, Knowing, In
  <2>3. BootstrapAdmin(a)
    BY <2>1, <2>2 DEF BootstrapAdmin
  <2> QED  BY <1>0, <2>1, <2>3, CommitOperation DEF RecordsNext
<1>5. CASE PromoteUser(s)
  <2>1. /\ grant' = grant \cup {<<a, Admin>>} /\ EndSession(s) /\ UNCHANGED account
    BY <1>5 DEF PromoteUser
  <2>2. /\ Admins = {} /\ account[a] = session[s].password
        /\ session[s].password \in Password
    BY <1>0, <1>5 DEF PromoteUser, At, Knowing, Fit, In
  <2>3. account' = [account EXCEPT ![a] = session[s].password]
    BY <1>0, <2>1, <2>2
  <2>4. BootstrapAdmin(a)
    BY <2>1, <2>2, <2>3 DEF BootstrapAdmin
  <2> QED  BY <1>0, <2>1, <2>4, CommitOperation DEF RecordsNext
<1> QED  BY <1>1, <1>2, <1>3, <1>4, <1>5

(* A removal deletes the assignment it has read, which is there unless     *)
(* another has deleted it, and reports it gone to whoever has read it too. *)
LEMMA DeleteOperation ==
  ASSUME IndInv, AllFit, NEW s \in Session, DeleteGrant(s)
  PROVE  Operation(s)
<1> DEFINE a == session[s].account
           r == session[s].role
           SameRow(t) == session[t].row = "seen"
                         /\ <<session[t].account, session[t].role>> = <<a, r>>
<1>0. a \in Account /\ r \in Role /\ Safe(s)
  BY DeleteSafe DEF DeleteGrant, At, IndInv, TypeOK, RequestType
<1>1. CASE Leave(s)
  BY <1>1, LeaveOperation
<1>2. CASE /\ session[s].row = "seen" /\ grant' = grant \ {<<a, r>>} /\ UNCHANGED account
           /\ session' = [t \in Session |-> IF t = s THEN Idle
                                            ELSE IF SameRow(t) THEN [session[t] EXCEPT !.row = "gone"]
                                            ELSE session[t]]
  <2>1. <<a, r>> \in grant
    BY <1>2 DEF AllFit, Fit
  <2>2. r = Admin => Admins \ {a} # {}
    <3>1. ASSUME r = Admin PROVE a \in Admins /\ Admins' = Admins \ {a}
      BY <1>0, <1>2, <2>1, <3>1 DEF Admins
    <3> QED  BY <1>0, <3>1 DEF Safe
  <2>3. RemoveRole(a, r)
    BY <1>2, <2>1, <2>2 DEF RemoveRole
  <2>4. RowsKept(s)
    <3> SUFFICES ASSUME NEW t \in Session \ {s}, session'[t].row = "seen"
                 PROVE  /\ session[t].row = "seen"
                        /\ <<session[t].account, session[t].role>> # <<a, r>>
      BY <1>2 DEF RowsKept
    <3>1. session[t] \in RequestType
      BY DEF IndInv, TypeOK
    <3>2. [session[t] EXCEPT !.row = "gone"].row = "gone"
      BY <3>1 DEF RequestType
    <3>3. session'[t] = IF SameRow(t) THEN [session[t] EXCEPT !.row = "gone"] ELSE session[t]
      BY <1>2
    <3>4. ~ SameRow(t)
      BY <3>2, <3>3
    <3> QED  BY <3>3, <3>4
  <2> QED  BY <1>0, <2>3, <2>4 DEF Operation, RecordsNext
<1> QED  BY <1>1, <1>2 DEF DeleteGrant

LEMMA StepIsOperation ==
  ASSUME IndInv, AllFit, NEW s \in Session, Step(s)
  PROVE  Operation(s)
BY ReadOperation, InsertOperation, DeleteOperation DEF Step, Statement, Waiting

(* What the others need for their commits, they still have.                *)
LEMMA OthersFit ==
  ASSUME IndInv, AllFit, NEW s \in Session, Safe(s), RowsKept(s)
  PROVE  \A t \in Session \ {s} : Fit(t)'
<1> SUFFICES ASSUME NEW t \in Session \ {s} PROVE Fit(t)'
  OBVIOUS
<1>1. Fit(t) /\ (session[t].pc # "idle" => session[t].account \in Account)
  BY DEF AllFit, IndInv, TypeOK
<1>2. /\ session'[t].pc = session[t].pc /\ session'[t].op = session[t].op
      /\ session'[t].account = session[t].account /\ session'[t].role = session[t].role
      /\ session'[t].password = session[t].password
  BY DEF Safe, Frame
<1>3. \A a \in Account : account[a] # Unregistered => account'[a] = account[a]
  BY DEF Safe
<1>4. session'[t].row = "seen" => <<session'[t].account, session'[t].role>> \in grant'
  BY <1>1, <1>2 DEF RowsKept, Fit
<1> QED  BY <1>1, <1>2, <1>3, <1>4 DEF Fit, In

(* A request that has just begun, or has ended, needs nothing yet.         *)
LEMMA BeginFits ==
  ASSUME IndInv, NEW s \in Session, Begin(s)
  PROVE  Fit(s)'
<1>1. CASE \E a \in Account, p \in Password, op \in {"REGISTER", "BOOTSTRAP"} :
             Continue(s, [Idle EXCEPT !.pc = "begin", !.op = op, !.account = a, !.password = p])
  <2>1. PICK a \in Account, p \in Password, op \in {"REGISTER", "BOOTSTRAP"} :
          Continue(s, [Idle EXCEPT !.pc = "begin", !.op = op, !.account = a, !.password = p])
    BY <1>1
  <2>2. session'[s] = [Idle EXCEPT !.pc = "begin", !.op = op, !.account = a, !.password = p]
    BY <2>1 DEF Continue, IndInv, TypeOK
  <2> QED  BY <2>2 DEF Fit, In, Idle
<1>2. CASE \E actor, a \in Account, r \in Role, op \in {"ASSIGN", "REMOVE"} :
             /\ account[actor] # Unregistered
             /\ Continue(s, [Idle EXCEPT !.pc = "check", !.op = op, !.actor = actor,
                                         !.account = a, !.role = r])
  <2>1. PICK actor \in Account, a \in Account, r \in Role, op \in {"ASSIGN", "REMOVE"} :
          Continue(s, [Idle EXCEPT !.pc = "check", !.op = op, !.actor = actor,
                                   !.account = a, !.role = r])
    BY <1>2
  <2>2. session'[s] = [Idle EXCEPT !.pc = "check", !.op = op, !.actor = actor,
                                   !.account = a, !.role = r]
    BY <2>1 DEF Continue, IndInv, TypeOK
  <2> QED  BY <2>2 DEF Fit, In, Idle
<1> QED  BY <1>1, <1>2 DEF Begin

LEMMA EndFits ==
  ASSUME NEW s \in Session, session'[s] = Idle
  PROVE  Fit(s)'
BY DEF Fit, In, Idle

(* A request that goes on has found the account it is to assign to, or has *)
(* read the row it is to delete; the rest is as it was asked.              *)
LEMMA GoesOnFit ==
  ASSUME IndInv, AllFit, NEW s \in Session, UNCHANGED committed, session[s].pc # "idle",
         NEW pc, session'[s] = [session[s] EXCEPT !.pc = pc],
         session[s].op = "ASSIGN" /\ pc = "ready" => account[session[s].account] # Unregistered
  PROVE  Fit(s)'
<1> DEFINE next == [session[s] EXCEPT !.pc = pc]
<1>1. session[s] \in RequestType /\ Fit(s)
  BY DEF IndInv, TypeOK, AllFit
<1>2. /\ next.pc = pc /\ next.op = session[s].op /\ next.account = session[s].account
      /\ next.role = session[s].role /\ next.password = session[s].password
      /\ next.row = session[s].row
  BY <1>1 DEF RequestType
<1>3. session'[s] = next
  OBVIOUS
<1> HIDE DEF next
<1> QED  BY <1>1, <1>2, <1>3 DEF Fit, In, committed

LEMMA ReadFits ==
  ASSUME IndInv, AllFit, NEW s \in Session,
         \/ CheckPermission(s) \/ FindUsername(s) \/ RequireUser(s) \/ CountAdmins(s)
         \/ AssertBootstrapAvailable(s) \/ AdminExists(s) \/ FindUser(s)
         \/ LockRole(s) \/ LockAdminRole(s)
  PROVE  Fit(s)'
<1>0. session \in [Session -> RequestType]
  BY DEF IndInv, TypeOK
<1>1. CASE Leave(s)
  BY <1>0, <1>1, EndFits DEF Leave, EndSession
<1>2. CASE ~ Leave(s)
  <2>1. PICK pc : /\ session' = [session EXCEPT ![s] = [session[s] EXCEPT !.pc = pc]]
                  /\ UNCHANGED committed /\ session[s].pc # "idle"
                  /\ session[s].op = "ASSIGN" /\ pc = "ready" =>
                       account[session[s].account] # Unregistered
    <3>1. CASE CheckPermission(s) \/ RequireUser(s)
      BY <1>2, <3>1 DEF CheckPermission, RequireUser, At, Continue
    <3>2. CASE FindUsername(s) \/ CountAdmins(s)
      BY <1>2, <3>2 DEF FindUsername, CountAdmins, At, Continue
    <3>3. CASE AssertBootstrapAvailable(s) \/ AdminExists(s)
      BY <1>2, <3>3 DEF AssertBootstrapAvailable, AdminExists, RefuseIfAdmin, At, Continue
    <3>4. CASE FindUser(s)
      BY <1>2, <3>4 DEF FindUser, At, Continue
    <3>5. CASE LockRole(s) \/ LockAdminRole(s)
      BY <3>5 DEF LockRole, LockAdminRole, At, Continue
    <3> QED  BY <3>1, <3>2, <3>3, <3>4, <3>5
  <2>2. session'[s] = [session[s] EXCEPT !.pc = pc]
    BY <1>0, <2>1
  <2> QED  BY <2>1, <2>2, GoesOnFit
<1> QED  BY <1>1, <1>2

LEMMA ReadAssignmentFits ==
  ASSUME IndInv, AllFit, NEW s \in Session, ReadAssignment(s)
  PROVE  Fit(s)'
<1>0. session \in [Session -> RequestType] /\ session[s] \in RequestType
  BY DEF IndInv, TypeOK
<1>1. CASE Leave(s)
  BY <1>0, <1>1, EndFits DEF Leave, EndSession
<1>2. CASE ~ Leave(s)
  <2> DEFINE next == [session[s] EXCEPT !.pc = "read", !.row = "seen"]
  <2>1. /\ next.pc = "read" /\ next.op = "REMOVE" /\ next.account = session[s].account
        /\ next.role = session[s].role
    BY <1>0, <1>2 DEF ReadAssignment, At, RequestType
  <2>2. session'[s] = next /\ <<session[s].account, session[s].role>> \in grant'
    BY <1>0, <1>2 DEF ReadAssignment, Continue, committed
  <2> HIDE DEF next
  <2> QED  BY <2>1, <2>2 DEF Fit, In
<1> QED  BY <1>1, <1>2

LEMMA CommitFits ==
  ASSUME IndInv, NEW s \in Session,
         \/ Abort(s) \/ InsertUser(s) \/ InsertGrant(s) \/ CreateAdmin(s) \/ PromoteUser(s)
         \/ DeleteGrant(s)
  PROVE  Fit(s)'
<1>1. session'[s] = Idle
  BY DEF Abort, InsertUser, InsertGrant, CreateAdmin, PromoteUser, DeleteGrant, Leave,
         EndSession, IndInv, TypeOK
<1> QED  BY <1>1, EndFits

LEMMA StepFits ==
  ASSUME IndInv, AllFit, NEW s \in Session, Step(s)
  PROVE  AllFit'
<1>1. Fit(s)'
  BY BeginFits, ReadFits, ReadAssignmentFits, CommitFits DEF Step, Statement, Waiting
<1>2. \A t \in Session \ {s} : Fit(t)'
  BY StepIsOperation, StepSafe, OthersFit DEF Operation
<1> QED  BY <1>1, <1>2 DEF AllFit

LEMMA FitHolds == Spec => []AllFit
<1>1. Init => AllFit
  BY DEF Init, RecordsInit, Idle, AllFit, Fit, In
<1>2. IndInv /\ AllFit /\ [Next]_vars => AllFit'
  <2>1. IndInv /\ AllFit /\ Next => AllFit'
    BY StepFits, NextIsAStep
  <2>2. AllFit /\ UNCHANGED vars => AllFit'
    BY DEF vars, AllFit, Fit, In
  <2> QED  BY <2>1, <2>2
<1> QED  BY <1>1, <1>2, Inductive, PTL DEF Spec

(* Whatever any number of requests do with accounts and roles, the rows    *)
(* they commit are what the operations of AccessRecords make of them, one  *)
(* after the other: registrations, assignments by somebody still under an  *)
(* ADMIN, removals of what was read, one bootstrap.                        *)
THEOREM RequestsImplementAccess == Spec => ImplementsRecords
<1>1. Init => RecordsInit
  BY DEF Init
<1>2. IndInv /\ AllFit /\ [Next]_vars => [RecordsNext]_committed
  <2>1. IndInv /\ AllFit /\ Next => [RecordsNext]_committed
    BY StepIsOperation, NextIsAStep DEF Operation
  <2>2. UNCHANGED vars => UNCHANGED committed
    BY DEF vars, committed
  <2> QED  BY <2>1, <2>2
<1> QED
  BY <1>1, <1>2, FitHolds, Inductive, PTL DEF Spec, ImplementsRecords, RecordsSpec
-----------------------------------------------------------------------------
(* The session of one browser tab (AuthSession).                           *)

TabType ==
  [token : Token \cup {None}, user : Person \cup {None}, role : BOOLEAN,
   permission : BOOLEAN, page : Pages \cup {"start"}, to : Pages \cup {None},
   at : {"none", "guard", "component", "loop"}]

LoadType ==
  [pc : {"none", "running", "failing"}, token : Token \cup {None},
   part : [Parts -> {"settled", "sent", "ok", "empty", "refused", "failed"}]]

(* Of a tab: its token was issued, and a navigation leads somewhere.       *)
GoodTab(t) ==
  /\ t \in TabType
  /\ t.token # None => owner[t.token] # None
  /\ t.at # "none" => t.to # None

(* Of a load: what runs has an issued token and answers to come; what does *)
(* not run has none left over.                                             *)
GoodLoad(x) ==
  /\ x \in LoadType
  /\ x.pc # "none" => x.token # None /\ owner[x.token] # None
  /\ x.pc = "running" => \A q \in Parts : x.part[q] # "settled"
  /\ x.pc = "none" => \A q \in Parts : x.part[q] = "settled"

GoodLoads(l) == l \in [Loader -> LoadType] /\ \A p \in Loader : GoodLoad(l[p])

(* Of both: a guard that has nothing to wait for could start a restoration.*)
CanRestore(t, l) == t.at = "guard" => l[Restore].pc # "none" \/ t.token # None

LoginsWait(g, l) == \A s \in Slot : g[s].pc = "loading" <=> l[s].pc # "none"

LoginType == [pc : {"idle", "posted", "loading"}, account : Person \cup {None}]

GoodLogins(g) ==
  /\ g \in [Slot -> LoginType]
  /\ \A s \in Slot : g[s].pc # "idle" => g[s].account # None

OtherTypes ==
  /\ flight \in [Token \cup {None} -> 0 .. InFlight]
  /\ owner \in [Token -> Person \cup {None}]
  /\ expired \subseteq Token /\ granted \subseteq Person

TabInv ==
  /\ GoodTab(tab) /\ GoodLoads(load) /\ GoodLogins(login) /\ OtherTypes
  /\ tab.at = "guard" => load[Restore].pc # "none"
  /\ LoginsWait(login, load)

LEMMA Kinds ==
  /\ Restore \in Loader /\ Slot \subseteq Loader /\ Restore \notin Slot
  /\ None \notin Token /\ None \notin Person /\ None \notin Pages
  /\ Loader = Slot \cup {Restore}
BY SessionAssumption DEF Loader

LEMMA ResetTab ==
  ASSUME NEW t \in TabType
  PROVE  /\ Reset(t) \in TabType
         /\ Reset(t).token = t.token /\ Reset(t).at = t.at /\ Reset(t).to = t.to
BY DEF Reset, TabType

LEMMA SignedOutTab ==
  ASSUME NEW t, GoodTab(t)
  PROVE  GoodTab(SignedOut(t)) /\ SignedOut(t).token = None /\ SignedOut(t).at = t.at
<1> DEFINE r == Reset(t)
<1>1. r \in TabType /\ r.token = t.token /\ r.at = t.at /\ r.to = t.to
  BY ResetTab DEF GoodTab
<1> HIDE DEF r
<1>2. SignedOut(t) = [r EXCEPT !.token = None]
  BY DEF SignedOut, r
<1> QED  BY <1>1, <1>2 DEF GoodTab, TabType

LEMMA AllowedTab ==
  ASSUME NEW t \in TabType, NEW target \in Pages
  PROVE  /\ Allowed(t, target) \in TabType
         /\ Allowed(t, target).token = t.token /\ Allowed(t, target).to = target
         /\ Allowed(t, target).at # "guard"
BY DEF Allowed, TabType

LEMMA DestinationPage ==
  ASSUME NEW t, NEW authenticated \in BOOLEAN, NEW target \in Pages
  PROVE  Destination(t, authenticated, target) \in Pages
BY DEF Destination, Pages, Public

(* Whatever the guard does at once, it waits only with a token.            *)
LEMMA GuardedTab ==
  ASSUME NEW t, GoodTab(t), NEW target \in Pages
  PROVE  /\ GoodTab(Guarded(t, target))
         /\ Guarded(t, target).at = "guard" => Guarded(t, target).token # None
<1>1. t \in TabType /\ Reset(t) \in TabType /\ Reset(t).token = t.token
  BY ResetTab DEF GoodTab
<1>2. CASE t.token = None
  <2> DEFINE d == Destination(Reset(t), FALSE, target)
  <2>1. Guarded(t, target) = Allowed(Reset(t), d) /\ d \in Pages
    BY <1>2, DestinationPage DEF Guarded
  <2> HIDE DEF d
  <2> QED  BY <1>1, <1>2, <2>1, AllowedTab, Kinds DEF GoodTab
<1>3. CASE t.token # None /\ t.user # None
  <2> DEFINE d == Destination(t, TRUE, target)
  <2>1. Guarded(t, target) = Allowed(t, d) /\ d \in Pages
    BY <1>3, DestinationPage DEF Guarded
  <2> HIDE DEF d
  <2> QED  BY <1>1, <1>3, <2>1, AllowedTab, Kinds DEF GoodTab
<1>4. CASE t.token # None /\ t.user = None
  <2>1. Guarded(t, target) = [t EXCEPT !.to = target, !.at = "guard"]
    BY <1>4 DEF Guarded
  <2> QED  BY <1>1, <1>4, <2>1, Kinds DEF GoodTab, TabType
<1> QED  BY <1>2, <1>3, <1>4

LEMMA ResumedTab ==
  ASSUME NEW t, GoodTab(t), NEW authenticated \in BOOLEAN
  PROVE  /\ GoodTab(Resumed(t, authenticated))
         /\ Resumed(t, authenticated).at = "guard" => Resumed(t, authenticated).token # None
<1> DEFINE d == Destination(t, authenticated, t.to)
<1>1. CASE t.at # "guard"
  BY <1>1 DEF Resumed
<1>2. CASE t.at = "guard"
  <2>1. t \in TabType /\ t.to \in Pages /\ d \in Pages
    BY <1>2, DestinationPage DEF GoodTab, TabType
  <2>2. Resumed(t, authenticated) = IF d = t.to THEN Allowed(t, d) ELSE Guarded(t, d)
    BY <1>2 DEF Resumed
  <2> HIDE DEF d
  <2>3. GoodTab(Allowed(t, d)) /\ Allowed(t, d).at # "guard"
    BY <2>1, AllowedTab, Kinds DEF GoodTab
  <2>4. GoodTab(Guarded(t, d)) /\ (Guarded(t, d).at = "guard" => Guarded(t, d).token # None)
    BY <2>1, GuardedTab
  <2> QED  BY <2>2, <2>3, <2>4
<1> QED  BY <1>1, <1>2

LEMMA UnauthorizedTab ==
  ASSUME NEW t, GoodTab(t)
  PROVE  /\ GoodTab(Unauthorized(t))
         /\ Unauthorized(t).at = "guard" => t.at = "guard"
<1> DEFINE c == [t EXCEPT !.token = None]
<1>1. GoodTab(c) /\ c.token = None /\ c.at = t.at
  BY DEF GoodTab, TabType
<1>2. Unauthorized(t) = IF t.page = "login" THEN c ELSE Guarded(c, "login")
  BY DEF Unauthorized
<1>3. "login" \in Pages
  BY DEF Pages, Public
<1> HIDE DEF c
<1>4. GoodTab(Guarded(c, "login")) /\ Guarded(c, "login").at # "guard"
  <2>1. GoodTab(Guarded(c, "login"))
        /\ (Guarded(c, "login").at = "guard" => Guarded(c, "login").token # None)
    BY <1>1, <1>3, GuardedTab
  <2>2. Guarded(c, "login") = Allowed(Reset(c), Destination(Reset(c), FALSE, "login"))
    BY <1>1 DEF Guarded
  <2>3. Destination(Reset(c), FALSE, "login") \in Pages /\ Reset(c) \in TabType
    BY <1>1, <1>3, DestinationPage, ResetTab DEF GoodTab
  <2>4. Allowed(Reset(c), Destination(Reset(c), FALSE, "login")).at # "guard"
    BY <2>3, AllowedTab
  <2> QED  BY <2>1, <2>2, <2>4
<1> QED  BY <1>1, <1>2, <1>4

LEMMA NewLoadGood ==
  ASSUME NEW k \in Token, owner[k] # None
  PROVE  GoodLoad(NewLoad(k)) /\ NewLoad(k) \in LoadType /\ NewLoad(k).pc = "running"
BY Kinds DEF GoodLoad, NewLoad, LoadType

LEMMA NoLoadGood == GoodLoad(NoLoad) /\ NoLoad \in LoadType /\ NoLoad.pc = "none"
BY DEF GoodLoad, NoLoad, LoadType

(* A tab and its loads after the restoration that a waiting guard starts.  *)
LEMMA RestoringGood ==
  ASSUME NEW t, NEW l, GoodTab(t), GoodLoads(l), CanRestore(t, l)
  PROVE  /\ GoodLoads(Restoring(t, l))
         /\ t.at = "guard" => Restoring(t, l)[Restore].pc # "none"
         /\ \A s \in Slot : Restoring(t, l)[s] = l[s]
<1>1. CASE t.at = "guard" /\ l[Restore].pc = "none"
  <2>1. t.token \in Token /\ owner[t.token] # None
    BY <1>1 DEF CanRestore, GoodTab, TabType
  <2> DEFINE n == NewLoad(t.token)
  <2>2. GoodLoad(n) /\ n \in LoadType /\ n.pc = "running"
    BY <2>1, NewLoadGood
  <2> HIDE DEF n
  <2>3. Restoring(t, l) = [l EXCEPT ![Restore] = n]
    BY <1>1 DEF Restoring, n
  <2> QED  BY <2>2, <2>3, Kinds DEF GoodLoads
<1>2. CASE ~ (t.at = "guard" /\ l[Restore].pc = "none")
  BY <1>2 DEF Restoring
<1> QED  BY <1>1, <1>2

LEMMA SentType ==
  ASSUME NEW k \in Token \cup {None}, OtherTypes
  PROVE  Sent(k) \in [Token \cup {None} -> 0 .. InFlight]
<1>1. InFlight \in Nat /\ flight[k] \in 0 .. InFlight
  BY SessionAssumption DEF OtherTypes
<1> DEFINE n == IF flight[k] < InFlight THEN flight[k] + 1 ELSE flight[k]
<1>2. n \in 0 .. InFlight
  BY <1>1
<1>3. Sent(k) = [flight EXCEPT ![k] = n]
  BY DEF Sent
<1> HIDE DEF n
<1> QED  BY <1>2, <1>3 DEF OtherTypes

LEMMA GoGood ==
  ASSUME NEW t, NEW l, GoodTab(t), GoodLoads(l), CanRestore(t, l), owner' = owner, Go(t, l)
  PROVE  /\ GoodTab(tab)' /\ GoodLoads(load)'
         /\ tab'.at = "guard" => load'[Restore].pc # "none"
         /\ \A s \in Slot : load'[s] = l[s]
<1>1. tab' = t /\ load' = Restoring(t, l)
  BY DEF Go
<1>2. /\ GoodLoads(Restoring(t, l))
      /\ t.at = "guard" => Restoring(t, l)[Restore].pc # "none"
      /\ \A s \in Slot : Restoring(t, l)[s] = l[s]
  BY RestoringGood
<1>3. GoodTab(tab)'
  BY <1>1 DEF GoodTab
<1>4. GoodLoads(load)'
  BY <1>1, <1>2 DEF GoodLoads, GoodLoad
<1> QED  BY <1>1, <1>2, <1>3, <1>4

(* The steps in which only the tab moves, and logins stay what they were.  *)
LEMMA GoKeepsInv ==
  ASSUME TabInv, NEW t, GoodTab(t), t.at = "guard" => tab.at = "guard" \/ t.token # None,
         Go(t, load), UNCHANGED <<login, server>>, OtherTypes'
  PROVE  TabInv'
<1>1. owner' = owner /\ login' = login
  BY DEF server
<1>2. CanRestore(t, load) /\ GoodLoads(load)
  BY DEF TabInv, CanRestore
<1>3. /\ GoodTab(tab)' /\ GoodLoads(load)'
      /\ tab'.at = "guard" => load'[Restore].pc # "none"
      /\ \A s \in Slot : load'[s] = load[s]
  BY <1>1, <1>2, GoGood
<1>4. LoginsWait(login, load)' /\ GoodLogins(login)'
  BY <1>1, <1>3 DEF TabInv, LoginsWait, GoodLogins
<1> QED  BY <1>3, <1>4 DEF TabInv

LEMMA OpenedTab ==
  ASSUME NEW k \in Token \cup {None}, k # None => owner[k] # None
  PROVE  /\ GoodTab(Opened(k))
         /\ Opened(k).at = "guard" => Opened(k).token # None
<1> DEFINE t == [token |-> k, user |-> None, role |-> FALSE, permission |-> FALSE,
                 page |-> "start", to |-> None, at |-> "none"]
<1>1. GoodTab(t) /\ "app" \in Pages
  BY DEF GoodTab, TabType, Pages
<1>2. Opened(k) = Guarded(t, "app")
  BY DEF Opened
<1> HIDE DEF t
<1> QED  BY <1>1, <1>2, GuardedTab

LEMMA NoLoadsGood ==
  /\ GoodLoads([p \in Loader |-> NoLoad])
  /\ \A s \in Slot : [p \in Loader |-> NoLoad][s].pc = "none"
BY NoLoadGood, Kinds DEF GoodLoads

LEMMA TabInitGood == TabInit => TabInv
<1> SUFFICES ASSUME TabInit PROVE TabInv
  OBVIOUS
<1>1. PICK kept \in {1, None}, a \in Person :
        owner = [k \in Token |-> IF k = kept THEN a ELSE None] /\ tab = Opened(kept)
  BY DEF TabInit
<1>2. kept \in Token \cup {None} /\ (kept # None => owner[kept] # None)
  BY <1>1, Kinds, SessionAssumption DEF Token
<1>3. GoodTab(tab) /\ (tab.at = "guard" => tab.token # None)
  BY <1>1, <1>2, OpenedTab
<1> DEFINE l == [p \in Loader |-> NoLoad]
<1>4. load = Restoring(tab, l) /\ GoodLoads(l) /\ \A s \in Slot : l[s].pc = "none"
  BY NoLoadsGood DEF TabInit
<1> HIDE DEF l
<1>5. /\ GoodLoads(load)
      /\ tab.at = "guard" => load[Restore].pc # "none"
      /\ \A s \in Slot : load[s].pc = "none"
  BY <1>3, <1>4, RestoringGood DEF CanRestore
<1>6. GoodLogins(login) /\ \A s \in Slot : login[s].pc = "idle"
  BY DEF TabInit, GoodLogins, LoginType, NoSubmission
<1>7. OtherTypes
  BY <1>1, SessionAssumption DEF TabInit, OtherTypes
<1> QED  BY <1>3, <1>5, <1>6, <1>7 DEF TabInv, LoginsWait

(* What the user does.                                                     *)
LEMMA UserStep ==
  ASSUME TabInv, User
  PROVE  TabInv'
<1> USE DEF server
<1>0. GoodTab(tab) /\ OtherTypes
  BY DEF TabInv
<1>1. CASE Reload
  <2> DEFINE t == Opened(tab.token)
             l == [p \in Loader |-> NoLoad]
  <2>1. tab.token \in Token \cup {None} /\ (tab.token # None => owner[tab.token] # None)
    BY <1>0 DEF GoodTab, TabType
  <2>2. GoodTab(t) /\ (t.at = "guard" => t.token # None)
    BY <2>1, OpenedTab
  <2>3. GoodLoads(l) /\ \A s \in Slot : l[s].pc = "none"
    BY NoLoadsGood
  <2>4. Go(t, l) /\ owner' = owner /\ login' = [s \in Slot |-> NoSubmission]
    BY <1>1 DEF Reload
  <2> HIDE DEF t, l
  <2>5. /\ GoodTab(tab)' /\ GoodLoads(load)'
        /\ tab'.at = "guard" => load'[Restore].pc # "none"
        /\ \A s \in Slot : load'[s] = l[s]
    BY <2>2, <2>3, <2>4, GoGood DEF CanRestore
  <2>6. GoodLogins(login)' /\ LoginsWait(login, load)'
    BY <2>3, <2>4, <2>5 DEF GoodLogins, LoginType, NoSubmission, LoginsWait
  <2>7. OtherTypes'
    BY <1>0, <1>1, SessionAssumption DEF Reload, OtherTypes
  <2> QED  BY <2>5, <2>6, <2>7 DEF TabInv
<1>2. ASSUME NEW target \in Targets, Navigate(target)
      PROVE  TabInv'
  <2>1. target \in Pages
    BY SessionAssumption
  <2>2. OtherTypes'
    BY <1>0, <1>2 DEF Navigate, OtherTypes
  <2> QED  BY <1>0, <1>2, <2>1, <2>2, GuardedTab, GoKeepsInv DEF Navigate
<1>3. CASE Logout
  <2>1. GoodTab(SignedOut(tab)) /\ "login" \in Pages
    BY <1>0, SignedOutTab DEF Pages, Public
  <2>2. OtherTypes'
    BY <1>0, <1>3 DEF Logout, OtherTypes
  <2> QED  BY <1>3, <2>1, <2>2, GuardedTab, GoKeepsInv DEF Logout
<1>4. CASE PageRequest
  <2>0. tab.token \in Token \cup {None}
    BY <1>0 DEF GoodTab, TabType
  <2>1. OtherTypes'
    BY <1>0, <1>4, <2>0, SentType DEF PageRequest, OtherTypes
  <2> QED
    BY <1>4, <2>1 DEF PageRequest, TabInv, GoodTab, GoodLoads, GoodLoad, GoodLogins, LoginsWait
<1>5. ASSUME NEW s \in Slot, NEW a \in Person, Submit(s, a)
      PROVE  TabInv'
  <2>1. OtherTypes'
    BY <1>0, <1>5 DEF Submit, OtherTypes
  <2>2. GoodLogins(login)' /\ LoginsWait(login, load)'
    BY <1>5, Kinds DEF Submit, TabInv, GoodLogins, LoginType, LoginsWait
  <2> QED
    BY <1>5, <2>1, <2>2 DEF Submit, TabInv, GoodTab, GoodLoads, GoodLoad
<1> QED  BY <1>1, <1>2, <1>3, <1>4, <1>5 DEF User

(* A step that leaves the tab, its logins and its loads alone.             *)
LEMMA OthersStep ==
  ASSUME TabInv, UNCHANGED <<tab, login, load, owner>>, OtherTypes'
  PROVE  TabInv'
BY DEF TabInv, GoodTab, GoodLoads, GoodLoad, GoodLogins, LoginsWait

LEMMA FinishStep ==
  ASSUME TabInv, FinishNavigation
  PROVE  TabInv'
<1>0. GoodTab(tab) /\ OtherTypes /\ tab.to \in Pages /\ tab.token \in Token \cup {None}
  BY DEF TabInv, FinishNavigation, GoodTab, TabType
<1>1. /\ tab' = [tab EXCEPT !.page = tab.to, !.to = None, !.at = "none"]
      /\ UNCHANGED <<login, load, owner, expired, granted>>
  BY DEF FinishNavigation, server
<1>2. GoodTab(tab)' /\ tab'.at # "guard"
  BY <1>0, <1>1 DEF GoodTab, TabType
<1>3. flight' = flight \/ flight' = Sent(tab.token)
  BY DEF FinishNavigation
<1>4. OtherTypes'
  BY <1>0, <1>1, <1>3, SentType DEF OtherTypes
<1> QED
  BY <1>1, <1>2, <1>4 DEF TabInv, GoodLoads, GoodLoad, GoodLogins, LoginsWait

LEMMA PageAnsweredStep ==
  ASSUME TabInv, NEW k \in Token \cup {None}, PageAnswered(k)
  PROVE  TabInv'
<1>0. GoodTab(tab) /\ OtherTypes
  BY DEF TabInv
<1>1. OtherTypes'
  <2>1. flight[k] \in 0 .. InFlight /\ InFlight \in Nat
    BY <1>0, SessionAssumption DEF OtherTypes
  <2>2. flight[k] - 1 \in 0 .. InFlight
    BY <2>1 DEF PageAnswered
  <2>3. flight' = [flight EXCEPT ![k] = flight[k] - 1]
    BY DEF PageAnswered
  <2> QED  BY <1>0, <2>2, <2>3 DEF PageAnswered, server, OtherTypes
<1> DEFINE t == IF Valid(k) THEN tab ELSE Unauthorized(tab)
<1>2. GoodTab(t) /\ (t.at = "guard" => tab.at = "guard")
  BY <1>0, UnauthorizedTab
<1>3. Go(t, load) /\ UNCHANGED <<login, server>>
  BY DEF PageAnswered
<1> HIDE DEF t
<1> QED  BY <1>1, <1>2, <1>3, GoKeepsInv

LEMMA AnswerStep ==
  ASSUME TabInv, NEW s \in Slot, Answer(s)
  PROVE  TabInv'
<1>0. /\ GoodTab(tab) /\ GoodLoads(load) /\ GoodLogins(login) /\ OtherTypes
      /\ LoginsWait(login, load) /\ s \in Loader /\ s # Restore
  BY Kinds DEF TabInv
<1>1. CASE LoginAnswered(s)
  <2>1. PICK k \in Token :
          /\ Issue(k, login[s].account)
          /\ tab' = [tab EXCEPT !.token = k]
          /\ load' = [load EXCEPT ![s] = NewLoad(k)]
    BY <1>1 DEF LoginAnswered
  <2>2. login[s].account \in Person
    BY <1>0, <1>1 DEF LoginAnswered, GoodLogins, LoginType
  <2>3. /\ owner' \in [Token -> Person \cup {None}]
        /\ owner'[k] # None
        /\ \A j \in Token : owner[j] # None => owner'[j] # None
    BY <1>0, <2>1, <2>2, Kinds DEF Issue, OtherTypes
  <2>4. OtherTypes'
    BY <1>0, <1>1, <2>3 DEF LoginAnswered, OtherTypes
  <2>5. GoodTab(tab)' /\ tab'.at = tab.at
    BY <1>0, <2>1, <2>3 DEF GoodTab, TabType
  <2> DEFINE n == NewLoad(k)
  <2>6. /\ n \in LoadType /\ n.pc = "running" /\ n.token = k
        /\ \A q \in Parts : n.part[q] # "settled"
    BY DEF NewLoad, LoadType
  <2>7. load' = [load EXCEPT ![s] = n]
    BY <2>1
  <2> HIDE DEF n
  <2>8. GoodLoads(load)'
    <3>1. load' \in [Loader -> LoadType]
      BY <1>0, <2>6, <2>7 DEF GoodLoads
    <3>2. ASSUME NEW p \in Loader PROVE GoodLoad(load[p])'
      <4>1. CASE p = s
        <5>1. load'[p] = n
          BY <1>0, <2>7, <4>1 DEF GoodLoads
        <5> QED  BY <2>3, <2>6, <5>1, Kinds DEF GoodLoad
      <4>2. CASE p # s
        <5>1. load'[p] = load[p] /\ GoodLoad(load[p])
          BY <1>0, <2>7, <4>2 DEF GoodLoads
        <5>2. load[p].pc # "none" => load[p].token \in Token
          BY <5>1 DEF GoodLoad, LoadType
        <5> QED  BY <2>3, <5>1, <5>2 DEF GoodLoad
      <4> QED  BY <4>1, <4>2
    <3> QED  BY <3>1, <3>2 DEF GoodLoads
  <2>9. /\ load'[Restore] = load[Restore]
        /\ load'[s].pc = "running" /\ \A r \in Slot \ {s} : load'[r] = load[r]
    BY <1>0, <2>6, <2>7, Kinds DEF GoodLoads
  <2>10. GoodLogins(login)' /\ LoginsWait(login, load)'
    BY <1>0, <1>1, <2>9 DEF LoginAnswered, GoodLogins, LoginType, LoginsWait
  <2> QED  BY <2>4, <2>5, <2>8, <2>9, <2>10 DEF TabInv
<1>2. CASE LoginRefused(s)
  <2>1. OtherTypes' /\ UNCHANGED <<tab, load, owner>>
    BY <1>0, <1>2 DEF LoginRefused, server, OtherTypes
  <2>2. GoodLogins(login)' /\ LoginsWait(login, load)'
    BY <1>0, <1>2 DEF LoginRefused, NoSubmission, GoodLogins, LoginType, LoginsWait
  <2> QED  BY <2>1, <2>2 DEF TabInv, GoodTab, GoodLoads, GoodLoad
<1> QED  BY <1>1, <1>2 DEF Answer

LEMMA ServerAnswersStep ==
  ASSUME TabInv, NEW p \in Loader, NEW q \in Parts, ServerAnswers(p, q)
  PROVE  TabInv'
<1>0. GoodLoads(load) /\ GoodLoad(load[p]) /\ load[p] \in LoadType /\ load[p].part[q] = "sent"
  BY DEF TabInv, GoodLoads, GoodLoad, ServerAnswers
<1>1. PICK r \in {"ok", "empty", "refused", "failed"} : load' = [load EXCEPT ![p].part[q] = r]
  BY DEF ServerAnswers, Found
<1> DEFINE x == [load[p] EXCEPT !.part[q] = r]
<1>2. load' = [load EXCEPT ![p] = x]
  BY <1>1
<1>3. GoodLoad(x) /\ x \in LoadType /\ x.pc = load[p].pc
  BY <1>0 DEF GoodLoad, LoadType
<1> HIDE DEF x
<1>4. GoodLoads(load') /\ \A m \in Loader : load'[m].pc = load[m].pc
  BY <1>0, <1>2, <1>3 DEF GoodLoads
<1>5. UNCHANGED <<tab, login, flight, owner, expired, granted>>
  BY DEF ServerAnswers, server
<1>6. GoodLoads(load)'
  BY <1>4, <1>5 DEF GoodLoads, GoodLoad
<1> QED
  BY <1>4, <1>5, <1>6, Kinds DEF TabInv, GoodTab, GoodLogins, LoginsWait, OtherTypes

(* The end of load p: its caller goes on with tab t, and p is no more.     *)
LEMMA EndOfLoad ==
  ASSUME TabInv, NEW p \in Loader, NEW t, GoodTab(t),
         p = Restore /\ t.at = "guard" => t.token # None,
         p # Restore /\ t.at = "guard" => tab.at = "guard" \/ t.token # None,
         Go(t, [load EXCEPT ![p] = NoLoad]),
         login' = [s \in Slot |-> IF s = p THEN NoSubmission ELSE login[s]],
         UNCHANGED server, OtherTypes'
  PROVE  TabInv'
<1> DEFINE l == [load EXCEPT ![p] = NoLoad]
<1>1. /\ GoodLoads(load) /\ GoodLogins(login) /\ LoginsWait(login, load)
      /\ tab.at = "guard" => load[Restore].pc # "none"
      /\ load \in [Loader -> LoadType]
  BY DEF TabInv, GoodLoads
<1>2. Go(t, l) /\ owner' = owner
  BY DEF server
<1>3. /\ GoodLoads(l) /\ l[p].pc = "none"
      /\ \A m \in Loader \ {p} : l[m] = load[m]
  BY <1>1, NoLoadGood DEF GoodLoads
<1> HIDE DEF l
<1>4. CanRestore(t, l)
  BY <1>1, <1>3, Kinds DEF CanRestore
<1>5. /\ GoodTab(tab)' /\ GoodLoads(load)'
      /\ tab'.at = "guard" => load'[Restore].pc # "none"
      /\ \A s \in Slot : load'[s] = l[s]
  BY <1>2, <1>3, <1>4, GoGood
<1>6. GoodLogins(login)' /\ LoginsWait(login, load)'
  BY <1>1, <1>3, <1>5, Kinds DEF GoodLogins, LoginType, NoSubmission, LoginsWait
<1> QED  BY <1>5, <1>6 DEF TabInv

LEMMA LoadedStep ==
  ASSUME TabInv, NEW p \in Loader, Loaded(p)
  PROVE  TabInv'
<1> DEFINE t == Identified(p)
           then == IF p = Restore THEN Resumed(t, TRUE)
                   ELSE Guarded(t, IF t.role THEN "app" ELSE "pending")
<1>0. GoodTab(tab) /\ GoodLoad(load[p]) /\ load[p].pc = "running" /\ OtherTypes
  BY DEF TabInv, GoodLoads, Loaded
<1>1. owner[load[p].token] \in Person
  BY <1>0, Kinds DEF GoodLoad, LoadType, OtherTypes
<1>2. GoodTab(t)
  BY <1>0, <1>1 DEF Identified, GoodTab, TabType
<1> HIDE DEF t
<1>3. GoodTab(then) /\ (then.at = "guard" => then.token # None)
  <2>1. CASE p = Restore
    BY <1>2, <2>1, ResumedTab
  <2>2. CASE p # Restore
    <3>1. (IF t.role THEN "app" ELSE "pending") \in Pages
      BY DEF Pages
    <3> QED  BY <1>2, <2>2, <3>1, GuardedTab
  <2> QED  BY <2>1, <2>2
<1>4. /\ Go(then, [load EXCEPT ![p] = NoLoad])
      /\ login' = [s \in Slot |-> IF s = p THEN NoSubmission ELSE login[s]]
      /\ UNCHANGED <<flight, server>>
  BY DEF Loaded, t
<1> HIDE DEF then
<1>5. OtherTypes'
  BY <1>0, <1>4 DEF server, OtherTypes
<1> QED  BY <1>3, <1>4, <1>5, EndOfLoad

LEMMA CatchStep ==
  ASSUME TabInv, NEW p \in Loader, Catch(p)
  PROVE  TabInv'
<1> DEFINE t == SignedOut(tab)
           then == IF p = Restore THEN Resumed(t, FALSE) ELSE t
           k == load[p].token
           n == IF flight[k] + Outstanding(p) < InFlight
                  THEN flight[k] + Outstanding(p) ELSE InFlight
<1>0. GoodTab(tab) /\ GoodLoad(load[p]) /\ OtherTypes
  BY DEF TabInv, GoodLoads
<1>1. GoodTab(t) /\ t.at = tab.at
  BY <1>0, SignedOutTab
<1> HIDE DEF t
<1>2. /\ GoodTab(then)
      /\ p = Restore /\ then.at = "guard" => then.token # None
      /\ p # Restore /\ then.at = "guard" => tab.at = "guard"
  BY <1>1, ResumedTab
<1>3. /\ Go(then, [load EXCEPT ![p] = NoLoad])
      /\ login' = [s \in Slot |-> IF s = p THEN NoSubmission ELSE login[s]]
      /\ flight' = [flight EXCEPT ![k] = n]
      /\ UNCHANGED server
  BY DEF Catch, t
<1>4. OtherTypes'
  <2>1. k \in Token \cup {None}
    BY <1>0 DEF GoodLoad, LoadType
  <2>2. InFlight \in Nat /\ flight[k] \in Nat
    BY <1>0, <2>1, SessionAssumption DEF OtherTypes
  <2>3. Outstanding(p) \in Nat
    <3>1. IsFiniteSet(Parts)
      <4>1. IsFiniteSet({"roles"})
        BY FS_Singleton
      <4>2. IsFiniteSet({"roles"} \cup {"permissions"})
        BY <4>1, FS_AddElement
      <4>3. Parts = {"roles"} \cup {"permissions"}
        BY DEF Parts
      <4> QED  BY <4>2, <4>3
    <3> DEFINE missing == {q \in Parts : load[p].part[q] \in {"sent", "refused"}}
    <3>2. IsFiniteSet(missing)
      BY <3>1, FS_Subset
    <3> QED  BY <3>2, FS_CardinalityType DEF Outstanding
  <2>4. n \in 0 .. InFlight
    BY <2>2, <2>3
  <2> HIDE DEF k, n
  <2> QED  BY <1>0, <1>3, <2>4 DEF server, OtherTypes
<1> HIDE DEF then
<1> QED  BY <1>2, <1>3, <1>4, EndOfLoad

LEMMA PartRejectedStep ==
  ASSUME TabInv, NEW p \in Loader, NEW q \in Parts, PartRejected(p, q)
  PROVE  TabInv'
<1> DEFINE x == [load[p] EXCEPT !.part[q] = "settled", !.pc = "failing"]
           l == [load EXCEPT ![p] = x]
           t == IF load[p].part[q] = "refused" THEN Unauthorized(tab) ELSE tab
<1>0. /\ GoodTab(tab) /\ GoodLoads(load) /\ GoodLoad(load[p]) /\ load[p] \in LoadType
      /\ LoginsWait(login, load) /\ GoodLogins(login) /\ OtherTypes
      /\ tab.at = "guard" => load[Restore].pc # "none"
      /\ load[p].part[q] \in {"refused", "failed"}
  BY DEF TabInv, GoodLoads, GoodLoad, PartRejected
<1>1. load[p].pc # "none"
  BY <1>0 DEF GoodLoad
<1>2. GoodLoad(x) /\ x \in LoadType /\ x.pc # "none"
  BY <1>0, <1>1 DEF GoodLoad, LoadType
<1>3. GoodTab(t) /\ (t.at = "guard" => tab.at = "guard")
  BY <1>0, UnauthorizedTab
<1>4. Go(t, l) /\ owner' = owner /\ login' = login /\ UNCHANGED <<flight, server>>
  BY DEF PartRejected, server
<1> HIDE DEF x, t
<1>5. GoodLoads(l) /\ \A m \in Loader : l[m].pc # "none" <=> load[m].pc # "none"
  BY <1>0, <1>1, <1>2 DEF GoodLoads
<1> HIDE DEF l
<1>6. CanRestore(t, l)
  BY <1>0, <1>3, <1>5, Kinds DEF CanRestore
<1>7. /\ GoodTab(tab)' /\ GoodLoads(load)'
      /\ tab'.at = "guard" => load'[Restore].pc # "none"
      /\ \A s \in Slot : load'[s] = l[s]
  BY <1>3, <1>4, <1>5, <1>6, GoGood
<1>8. GoodLogins(login)' /\ LoginsWait(login, load)'
  BY <1>0, <1>4, <1>5, <1>7, Kinds DEF GoodLogins, LoginsWait
<1>9. OtherTypes'
  BY <1>0, <1>4 DEF server, OtherTypes
<1> QED  BY <1>7, <1>8, <1>9 DEF TabInv

LEMMA TabStep ==
  ASSUME TabInv, TabNext
  PROVE  TabInv'
<1>1. ASSUME NEW k \in Token, Expire(k) PROVE TabInv'
  <2>1. UNCHANGED <<tab, login, load, owner>> /\ OtherTypes'
    BY <1>1 DEF Expire, TabInv, OtherTypes
  <2> QED  BY <2>1, OthersStep
<1>2. ASSUME NEW a \in Person, Grant(a) PROVE TabInv'
  <2>1. UNCHANGED <<tab, login, load, owner>> /\ OtherTypes'
    BY <1>2 DEF Grant, TabInv, OtherTypes
  <2> QED  BY <2>1, OthersStep
<1> QED
  BY <1>1, <1>2, UserStep, FinishStep, PageAnsweredStep, AnswerStep, LoadedStep, CatchStep,
     ServerAnswersStep, PartRejectedStep DEF TabNext

LEMMA TabInductive == TabSpec => []TabInv
<1>1. TabInv /\ [TabNext]_tabVars => TabInv'
  <2>1. TabInv /\ UNCHANGED tabVars => TabInv'
    BY DEF tabVars, TabInv, GoodTab, GoodLoads, GoodLoad, GoodLogins, LoginsWait, OtherTypes
  <2> QED  BY <2>1, TabStep
<1> QED  BY <1>1, TabInitGood, PTL DEF TabSpec

(* Every variable of the browser tab keeps its type.                       *)
THEOREM TabTypeCorrect == TabSpec => []TabTypeOK
<1>1. TabInv => TabTypeOK
  BY DEF TabInv, GoodTab, TabType, GoodLoads, LoadType, GoodLogins, LoginType, OtherTypes,
         TabTypeOK
<1> QED  BY <1>1, TabInductive, PTL

(* No coroutine of the tab waits for something that is not under way,      *)
(* whatever other answers, redirects and reloads come in between.          *)
THEOREM WaitsAreAnswered == TabSpec => []EveryWaitIsAnswered
<1>1. TabInv => EveryWaitIsAnswered
  BY DEF TabInv, GoodLoads, GoodLoad, LoginsWait, EveryWaitIsAnswered
<1> QED  BY <1>1, TabInductive, PTL
=============================================================================
