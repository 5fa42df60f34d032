----------------------------- MODULE RoleGrants -----------------------------
(***************************************************************************)
(* Accounts, role assignments and the one-time bootstrap of the first      *)
(* ADMIN.  Requests run one SQL statement at a time in sessions of their   *)
(* own; the permission check of a request commits before the request does  *)
(* its work, so the answer may be old by then.                             *)
(*                                                                         *)
(* The seeded role_permissions give user:manage to ADMIN alone; they never *)
(* change, so a permission check for role management asks for ADMIN.       *)
(* Inserting an assignment takes a KEY SHARE lock on its role's row, which *)
(* waits for the FOR UPDATE of remove_role and bootstrap.                  *)
(***************************************************************************)
EXTENDS AccessRecords

CONSTANTS
  Session,    \* database sessions, one per request in progress
  Nobody      \* no session, no account

ASSUME NobodyAssumption == Nobody \notin Session \cup Account

VARIABLES
  session,    \* the request of each session and what it has read
  roleLock    \* the session holding a role's row FOR UPDATE

vars == <<account, grant, session, roleLock>>

Idle == [pc |-> "idle", op |-> "REGISTER", actor |-> Nobody, account |-> Nobody,
         role |-> Admin, password |-> Unregistered, row |-> "none"]

Op == {"REGISTER", "BOOTSTRAP", "ASSIGN", "REMOVE"}

-----------------------------------------------------------------------------
(***************************************************************************)
(* Deliberate faults, for testing the properties; no specification uses   *)
(* them.                                                                   *)
(***************************************************************************)
LockNeverWaits(r) == TRUE
AnyPassword(s) == TRUE
AnybodyManages(a) == TRUE
-----------------------------------------------------------------------------
RoleLockFree(r) == roleLock[r] = Nobody

At(s, pc, op) == session[s].pc = pc /\ session[s].op = op
Continue(s, next) == session' = [session EXCEPT ![s] = next]

Released(s) == [r \in Role |-> IF roleLock[r] = s THEN Nobody ELSE roleLock[r]]
EndSession(s) == session' = [session EXCEPT ![s] = Idle] /\ roleLock' = Released(s)
Leave(s) == EndSession(s) /\ UNCHANGED committed

Init ==
  /\ RecordsInit
  /\ session = [s \in Session |-> Idle]
  /\ roleLock = [r \in Role |-> Nobody]

Begin(s) ==
  /\ session[s].pc = "idle"
  /\ \/ \E a \in Account, p \in Password, op \in {"REGISTER", "BOOTSTRAP"} :
          Continue(s, [Idle EXCEPT !.pc = "begin", !.op = op, !.account = a, !.password = p])
     \/ \E actor, a \in Account, r \in Role, op \in {"ASSIGN", "REMOVE"} :
          /\ account[actor] # Unregistered
          /\ Continue(s, [Idle EXCEPT !.pc = "check", !.op = op, !.actor = actor,
                                      !.account = a, !.role = r])
  /\ UNCHANGED <<committed, roleLock>>

(* An error outside the model ends the session before it has committed.    *)
Abort(s) == session[s].pc # "idle" /\ Leave(s)

(* require_permission("user:manage"), in a session of its own.             *)
MayManage(a) == a \in Admins

CheckPermission(s) ==
  LET permitted == MayManage(session[s].actor) IN
  /\ session[s].pc = "check"
  /\ \/ /\ permitted
        /\ Continue(s, [session[s] EXCEPT !.pc = "begin"])
        /\ UNCHANGED <<committed, roleLock>>
     \/ ~permitted /\ Leave(s)
-----------------------------------------------------------------------------
(* The unique constraint on username.                                      *)
NameFree(a) == account[a] = Unregistered

FindUsername(s) ==
  LET a == session[s].account IN
  /\ At(s, "begin", "REGISTER")
  /\ \/ /\ account[a] = Unregistered
        /\ Continue(s, [session[s] EXCEPT !.pc = "ready"])
        /\ UNCHANGED <<committed, roleLock>>
     \/ account[a] # Unregistered /\ Leave(s)

InsertUser(s) ==
  LET me == session[s] IN
  /\ At(s, "ready", "REGISTER")
  /\ \/ /\ NameFree(me.account)
        /\ account' = [account EXCEPT ![me.account] = me.password]
        /\ EndSession(s)
        /\ UNCHANGED grant
     \/ ~NameFree(me.account) /\ Leave(s)
-----------------------------------------------------------------------------
(* assign_role reads the user and the role, neither of which is ever       *)
(* deleted, and leaves a second assignment to the unique constraint.       *)
RequireUser(s) ==
  LET a == session[s].account IN
  /\ At(s, "begin", "ASSIGN")
  /\ \/ /\ account[a] # Unregistered
        /\ Continue(s, [session[s] EXCEPT !.pc = "ready"])
        /\ UNCHANGED <<committed, roleLock>>
     \/ account[a] = Unregistered /\ Leave(s)

InsertGrant(s) ==
  LET me == session[s] IN
  /\ At(s, "ready", "ASSIGN")
  /\ RoleLockFree(me.role)
  /\ grant' = grant \cup {<<me.account, me.role>>}
  /\ EndSession(s)
  /\ UNCHANGED account
-----------------------------------------------------------------------------
(* remove_role remembers the row it read: "seen" while that row exists,    *)
(* "gone" once another request has deleted it, because a later assignment  *)
(* of the same role is another row.                                        *)
ReadAssignment(s) ==
  LET held == <<session[s].account, session[s].role>> \in grant IN
  /\ At(s, "begin", "REMOVE")
  /\ \/ /\ held
        /\ Continue(s, [session[s] EXCEPT !.pc = "read", !.row = "seen"])
        /\ UNCHANGED <<committed, roleLock>>
     \/ ~held /\ Leave(s)

LockRole(s) ==
  LET r == session[s].role IN
  /\ At(s, "read", "REMOVE")
  /\ RoleLockFree(r)
  /\ roleLock' = [roleLock EXCEPT ![r] = s]
  /\ Continue(s, [session[s] EXCEPT !.pc = "held"])
  /\ UNCHANGED committed

Removable(r) == r = Admin => Cardinality(Admins) > 1

CountAdmins(s) ==
  LET r == session[s].role IN
  /\ At(s, "held", "REMOVE")
  /\ \/ /\ Removable(r)
        /\ Continue(s, [session[s] EXCEPT !.pc = "ready"])
        /\ UNCHANGED <<committed, roleLock>>
     \/ ~Removable(r) /\ Leave(s)

(* A DELETE of a row that is gone already deletes nothing.                 *)
DeleteGrant(s) ==
  LET me == session[s]
      pair == <<me.account, me.role>>
      SameRow(r) == /\ session[r].row = "seen"
                    /\ <<session[r].account, session[r].role>> = pair IN
  /\ At(s, "ready", "REMOVE")
  /\ \/ /\ me.row = "seen"
        /\ grant' = grant \ {pair}
        /\ session' = [r \in Session |-> IF r = s THEN Idle
                                         ELSE IF SameRow(r) THEN [session[r] EXCEPT !.row = "gone"]
                                         ELSE session[r]]
        /\ roleLock' = Released(s)
        /\ UNCHANGED account
     \/ me.row = "gone" /\ Leave(s)
-----------------------------------------------------------------------------
(* The CLI asks whether there is an ADMIN in a session of its own, before  *)
(* the prompts; bootstrap asks again under the lock on the ADMIN role.     *)
RefuseIfAdmin(s, pc, next) ==
  /\ At(s, pc, "BOOTSTRAP")
  /\ \/ /\ Admins = {}
        /\ Continue(s, [session[s] EXCEPT !.pc = next])
        /\ UNCHANGED <<committed, roleLock>>
     \/ Admins # {} /\ Leave(s)

AssertBootstrapAvailable(s) == RefuseIfAdmin(s, "begin", "prompted")

LockAdminRole(s) ==
  /\ At(s, "prompted", "BOOTSTRAP")
  /\ RoleLockFree(Admin)
  /\ roleLock' = [roleLock EXCEPT ![Admin] = s]
  /\ Continue(s, [session[s] EXCEPT !.pc = "held"])
  /\ UNCHANGED committed

AdminExists(s) == RefuseIfAdmin(s, "held", "locked")

VerifyPassword(s) == account[session[s].account] = session[s].password

(* An account that is not there is to be inserted, one that is has to show *)
(* its password.                                                           *)
FindUser(s) ==
  LET a == session[s].account IN
  /\ At(s, "locked", "BOOTSTRAP")
  /\ \/ /\ account[a] = Unregistered
        /\ Continue(s, [session[s] EXCEPT !.pc = "insert"])
        /\ UNCHANGED <<committed, roleLock>>
     \/ /\ account[a] # Unregistered /\ VerifyPassword(s)
        /\ Continue(s, [session[s] EXCEPT !.pc = "promote"])
        /\ UNCHANGED <<committed, roleLock>>
     \/ account[a] # Unregistered /\ ~VerifyPassword(s) /\ Leave(s)

CreateAdmin(s) ==
  LET me == session[s] IN
  /\ At(s, "insert", "BOOTSTRAP")
  /\ \/ /\ NameFree(me.account)
        /\ account' = [account EXCEPT ![me.account] = me.password]
        /\ grant' = grant \cup {<<me.account, Admin>>}
        /\ EndSession(s)
     \/ ~NameFree(me.account) /\ Leave(s)

PromoteUser(s) ==
  /\ At(s, "promote", "BOOTSTRAP")
  /\ grant' = grant \cup {<<session[s].account, Admin>>}
  /\ EndSession(s)
  /\ UNCHANGED account
-----------------------------------------------------------------------------
Statement(s) ==
  \/ CheckPermission(s) \/ FindUsername(s) \/ InsertUser(s)
  \/ RequireUser(s) \/ ReadAssignment(s) \/ CountAdmins(s) \/ DeleteGrant(s)
  \/ AssertBootstrapAvailable(s) \/ AdminExists(s) \/ FindUser(s)
  \/ CreateAdmin(s) \/ PromoteUser(s)

Waiting(s) == InsertGrant(s) \/ LockRole(s) \/ LockAdminRole(s)

Next == \E s \in Session : Begin(s) \/ Abort(s) \/ Statement(s) \/ Waiting(s)

Spec == Init /\ [][Next]_vars
-----------------------------------------------------------------------------
(* Every row, request and lock keeps its type, and a lock ends with its    *)
(* session.                                                                *)
RequestType ==
  [pc : {"idle", "check", "begin", "read", "held", "ready", "prompted", "locked",
         "insert", "promote"},
   op : Op, actor : Account \cup {Nobody}, account : Account \cup {Nobody},
   role : Role, password : Password \cup {Unregistered}, row : {"none", "seen", "gone"}]

TypeOK ==
  /\ account \in [Account -> Password \cup {Unregistered}]
  /\ grant \subseteq Account \X Role
  /\ session \in [Session -> RequestType]
  /\ \A s \in Session : session[s].pc # "idle" => session[s].account \in Account
  /\ roleLock \in [Role -> Session \cup {Nobody}]
  /\ \A s \in Session, r \in Role : roleLock[r] = s => session[s].pc # "idle"

(* Nobody has a role before the bootstrap has made an ADMIN, nor in a      *)
(* system without one.                                                     *)
RolesNeedAdmin == grant # {} => Admins # {}

(* Concurrent removals never take the last ADMIN away: remove_role counts  *)
(* the ADMINs under the lock of the role's row.                            *)
AdminNeverLost == [][Admins # {} => Admins' # {}]_vars

(* Why: a request keeps the lock it has taken, and what it has found under *)
(* the lock, or after a permission check, is still so.  AccessProofs shows *)
(* that this is inductive.                                                 *)
In(s, op, pcs) == session[s].op = op /\ session[s].pc \in pcs

Holding(s) ==
  /\ In(s, "REMOVE", {"held", "ready"}) => roleLock[session[s].role] = s
  /\ In(s, "BOOTSTRAP", {"held", "locked", "insert", "promote"}) => roleLock[Admin] = s

Knowing(s) ==
  /\ In(s, "REMOVE", {"ready"}) /\ session[s].role = Admin => Cardinality(Admins) > 1
  /\ In(s, "BOOTSTRAP", {"locked", "insert", "promote"}) => Admins = {}
  /\ In(s, "BOOTSTRAP", {"promote"}) => /\ account[session[s].account] # Unregistered
                                       /\ account[session[s].account] = session[s].password
  /\ In(s, "ASSIGN", {"begin", "ready"}) => Admins # {}

IndInv == TypeOK /\ RolesNeedAdmin /\ \A s \in Session : Holding(s) /\ Knowing(s)

(* The bootstrap has one winner: no ADMIN is granted by the CLI while      *)
(* there is one, whatever ran between its first look and its commit.       *)
BootstrapOnce ==
  [][\A s \in Session :
       session[s].op = "BOOTSTRAP" /\ session[s].pc # "idle" /\ session'[s].pc = "idle"
         /\ grant' # grant
       => Admins = {}]_vars

(* The first ADMIN is an account whose password was typed at the prompt,   *)
(* even if the name was registered by somebody else in the meantime.       *)
BootstrapKnowsPassword ==
  [][\A s \in Session, a \in Account :
       session[s].op = "BOOTSTRAP" /\ grant' # grant /\ session'[s].pc = "idle"
         /\ session[s].pc # "idle" /\ a \in Admins' \ Admins
       => account'[a] = session[s].password]_vars

(* An account keeps the password it was registered with: of two requests   *)
(* for one name the second never overwrites the first.                     *)
AccountsKeepPassword ==
  [][\A a \in Account : account[a] # Unregistered => account'[a] = account[a]]_vars

(* Registrations, assignments, removals and bootstraps of any number of    *)
(* sessions come out as if each had happened at once when it committed: an *)
(* assignment to a registered account while there is an ADMIN, a removal   *)
(* of the assignment it read and never of the last ADMIN, a bootstrap of a *)
(* system without one.                                                     *)
ImplementsRecords == RecordsSpec
=============================================================================
