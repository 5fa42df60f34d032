----------------------------- MODULE MasterData -----------------------------
(***************************************************************************)
(* Vehicles and customers, and the two task operations that lean on them:  *)
(* create_task, which copies a vehicle's limit, and complete_task, which   *)
(* prices a task by its vehicle's type.  As in WeighingRequests, requests  *)
(* run one SQL statement at a time in sessions of their own.               *)
(*                                                                         *)
(*   - create_task and the two deletions lock the rows they check FOR      *)
(*     UPDATE, the vehicle before the customer.                            *)
(*   - The two updates read their row without a lock and write only the    *)
(*     columns that differ from what they read; the UPDATE itself waits    *)
(*     for the holder of the row.                                          *)
(*   - Inserting a fee takes a KEY SHARE lock on its vehicle's row, which  *)
(*     waits for a FOR UPDATE holder and makes a later one wait; an UPDATE *)
(*     of columns that are no key does neither.                            *)
(***************************************************************************)
EXTENDS MasterRecords

CONSTANT Session   \* database sessions, one per request in progress

ASSUME NobodyAssumption == Nobody \notin Session \cup Customer \cup Task \cup Vehicle

VARIABLES
  session,      \* the request of each session and what it has read
  vehicleLock,  \* the session holding a vehicle FOR UPDATE
  customerLock, \* the session holding a customer FOR UPDATE
  vehicleShare  \* the sessions holding a vehicle FOR KEY SHARE

locks == <<vehicleLock, customerLock, vehicleShare>>
vars == <<vehicle, customer, task, deletions, session, vehicleLock, customerLock, vehicleShare>>

Idle == [pc |-> "idle", op |-> "CREATE_TASK", vehicle |-> Nobody, customer |-> Nobody,
         task |-> Nobody, plate |-> Unset, type |-> Unset, limit |-> Unset,
         contact |-> Unset, read |-> NoVehicle]
-----------------------------------------------------------------------------
(***************************************************************************)
(* Deliberate faults, for testing the properties; no specification uses them.        *)
(***************************************************************************)
RowNeverWaits(v) == TRUE
EndKeepingLocks(s) == session' = [session EXCEPT ![s] = Idle] /\ UNCHANGED locks
-----------------------------------------------------------------------------
VehicleFree(v) == vehicleLock[v] = Nobody /\ vehicleShare[v] = {}
CustomerFree(c) == customerLock[c] = Nobody

(* An UPDATE of plain columns, or a KEY SHARE, waits for FOR UPDATE only.  *)
VehicleUnlocked(v) == vehicleLock[v] = Nobody

EndSession(s) ==
  /\ session' = [session EXCEPT ![s] = Idle]
  /\ vehicleLock' = [v \in Vehicle |-> IF vehicleLock[v] = s THEN Nobody ELSE vehicleLock[v]]
  /\ customerLock' = [c \in Customer |-> IF customerLock[c] = s THEN Nobody ELSE customerLock[c]]
  /\ vehicleShare' = [v \in Vehicle |-> vehicleShare[v] \ {s}]

At(s, pc, op) == session[s].pc = pc /\ session[s].op = op
Continue(s, next) == session' = [session EXCEPT ![s] = next]
Leave(s) == EndSession(s) /\ UNCHANGED committed

-----------------------------------------------------------------------------
Init ==
  /\ RecordsInit
  /\ session = [s \in Session |-> Idle]
  /\ vehicleLock = [v \in Vehicle |-> Nobody]
  /\ customerLock = [c \in Customer |-> Nobody]
  /\ vehicleShare = [v \in Vehicle |-> {}]

(* No other request has this row of its own: a new row has a new uuid, and *)
(* the lock on a task's row lets one completion in at a time.              *)
Fresh(op, column, x) ==
  \A r \in Session : ~(session[r].op = op /\ session[r].pc # "idle" /\ session[r][column] = x)

(* Requests name any row, existing or not; a completion names a weighed    *)
(* task, which for the rest of this module has no fee yet.                 *)
Begin(s) ==
  /\ session[s].pc = "idle"
  /\ \/ \E v \in Vehicle, p \in Plate, type \in VehicleType, limit \in Limit :
          /\ vehicle[v].state = "ABSENT" /\ Fresh("CREATE_VEHICLE", "vehicle", v)
          /\ Continue(s, [Idle EXCEPT !.pc = "begin", !.op = "CREATE_VEHICLE", !.vehicle = v,
                                      !.plate = p, !.type = type, !.limit = limit])
     \/ \E v \in Vehicle, type \in VehicleType \cup {Unset}, limit \in Limit \cup {Unset} :
          Continue(s, [Idle EXCEPT !.pc = "begin", !.op = "UPDATE_VEHICLE", !.vehicle = v,
                                   !.type = type, !.limit = limit])
     \/ \E v \in Vehicle :
          Continue(s, [Idle EXCEPT !.pc = "begin", !.op = "DELETE_VEHICLE", !.vehicle = v])
     \/ \E c \in Customer, contact \in Contact :
          /\ customer[c].state = "ABSENT" /\ Fresh("CREATE_CUSTOMER", "customer", c)
          /\ Continue(s, [Idle EXCEPT !.pc = "begin", !.op = "CREATE_CUSTOMER",
                                      !.customer = c, !.contact = contact])
     \/ \E c \in Customer, contact \in Contact :
          Continue(s, [Idle EXCEPT !.pc = "begin", !.op = "UPDATE_CUSTOMER", !.customer = c,
                                   !.contact = contact])
     \/ \E c \in Customer :
          Continue(s, [Idle EXCEPT !.pc = "begin", !.op = "DELETE_CUSTOMER", !.customer = c])
     \/ \E k \in Task, v \in Vehicle, c \in Customer \cup {Nobody} :
          /\ task[k] = NoTask /\ Fresh("CREATE_TASK", "task", k)
          /\ Continue(s, [Idle EXCEPT !.pc = "begin", !.op = "CREATE_TASK", !.task = k,
                                      !.vehicle = v, !.customer = c])
     \/ \E k \in Task :
          /\ task[k] # NoTask /\ task[k].fee = NoType /\ Fresh("COMPLETE_TASK", "task", k)
          /\ Continue(s, [Idle EXCEPT !.pc = "begin", !.op = "COMPLETE_TASK", !.task = k,
                                      !.vehicle = task[k].vehicle])
  /\ UNCHANGED <<committed, locks>>

(* An error outside the model ends the session before it has committed.    *)
Abort(s) == session[s].pc # "idle" /\ Leave(s)
-----------------------------------------------------------------------------
(* create_vehicle looks among the live vehicles for the plate, the unique  *)
(* plate_number column among all.                                          *)
PlateTaken(p) == \E v \in Vehicle : vehicle[v].state = "LIVE" /\ vehicle[v].plate = p

FindPlate(s) ==
  /\ At(s, "begin", "CREATE_VEHICLE")
  /\ \/ /\ ~PlateTaken(session[s].plate)
        /\ Continue(s, [session[s] EXCEPT !.pc = "ready"])
        /\ UNCHANGED <<committed, locks>>
     \/ PlateTaken(session[s].plate) /\ Leave(s)

InsertVehicle(s) ==
  LET me == session[s] IN
  /\ At(s, "ready", "CREATE_VEHICLE")
  /\ \/ /\ PlateUnused(me.plate)
        /\ vehicle' = [vehicle EXCEPT ![me.vehicle] =
                         [state |-> "LIVE", plate |-> me.plate, type |-> me.type,
                          limit |-> me.limit]]
        /\ EndSession(s)
        /\ UNCHANGED <<customer, task, deletions>>
     \/ ~PlateUnused(me.plate) /\ Leave(s)

ReadVehicleToUpdate(s) ==
  LET v == session[s].vehicle IN
  /\ At(s, "begin", "UPDATE_VEHICLE")
  /\ \/ /\ vehicle[v].state = "LIVE"
        /\ Continue(s, [session[s] EXCEPT !.pc = "ready", !.read = vehicle[v]])
        /\ UNCHANGED <<committed, locks>>
     \/ vehicle[v].state # "LIVE" /\ Leave(s)

(* setattr marks a column as changed only when its value differs from the  *)
(* one the session has read.  The UPDATE writes the changed columns, names *)
(* its row by id alone, and is left out when nothing has changed.          *)
Column(old, asked) == IF asked = Unset THEN old ELSE asked
WholeRowWritten(current, old, asked) == Column(old, asked)   \* a deliberate fault
Written(current, old, asked) == IF Column(old, asked) = old THEN current ELSE Column(old, asked)

WriteVehicle(s) ==
  LET me == session[s]
      v == me.vehicle
      unchanged == /\ Column(me.read.type, me.type) = me.read.type
                   /\ Column(me.read.limit, me.limit) = me.read.limit IN
  /\ At(s, "ready", "UPDATE_VEHICLE")
  /\ unchanged \/ VehicleUnlocked(v)
  /\ vehicle' = [vehicle EXCEPT ![v].type = Written(@, me.read.type, me.type),
                                ![v].limit = Written(@, me.read.limit, me.limit)]
  /\ EndSession(s)
  /\ UNCHANGED <<customer, task, deletions>>

LockVehicleToDelete(s) ==
  LET v == session[s].vehicle IN
  /\ At(s, "begin", "DELETE_VEHICLE")
  /\ VehicleFree(v)
  /\ \/ /\ vehicle[v].state = "LIVE"
        /\ Continue(s, [session[s] EXCEPT !.pc = "held"])
        /\ vehicleLock' = [vehicleLock EXCEPT ![v] = s]
        /\ UNCHANGED <<committed, customerLock, vehicleShare>>
     \/ vehicle[v].state # "LIVE" /\ Leave(s)

CountVehicleHistory(s) ==
  LET v == session[s].vehicle IN
  /\ At(s, "held", "DELETE_VEHICLE")
  /\ \/ /\ ~HasVehicleHistory(v)
        /\ Continue(s, [session[s] EXCEPT !.pc = "ready"])
        /\ UNCHANGED <<committed, locks>>
     \/ HasVehicleHistory(v) /\ Leave(s)

CommitVehicleDeletion(s) ==
  LET v == session[s].vehicle IN
  /\ At(s, "ready", "DELETE_VEHICLE")
  /\ vehicle' = [vehicle EXCEPT ![v].state = "DELETED"]
  /\ deletions' = [deletions EXCEPT ![v] = @ + 1]
  /\ EndSession(s)
  /\ UNCHANGED <<customer, task>>
-----------------------------------------------------------------------------
InsertCustomer(s) ==
  LET c == session[s].customer IN
  /\ At(s, "begin", "CREATE_CUSTOMER")
  /\ customer' = [customer EXCEPT ![c] = [state |-> "LIVE", contact |-> session[s].contact]]
  /\ EndSession(s)
  /\ UNCHANGED <<vehicle, task, deletions>>

ReadCustomerToUpdate(s) ==
  LET c == session[s].customer IN
  /\ At(s, "begin", "UPDATE_CUSTOMER")
  /\ \/ /\ customer[c].state = "LIVE"
        /\ Continue(s, [session[s] EXCEPT !.pc = "ready", !.read = customer[c]])
        /\ UNCHANGED <<committed, locks>>
     \/ customer[c].state # "LIVE" /\ Leave(s)

WriteCustomer(s) ==
  LET me == session[s]
      c == me.customer IN
  /\ At(s, "ready", "UPDATE_CUSTOMER")
  /\ Column(me.read.contact, me.contact) = me.read.contact \/ CustomerFree(c)
  /\ customer' = [customer EXCEPT ![c].contact = Written(@, me.read.contact, me.contact)]
  /\ EndSession(s)
  /\ UNCHANGED <<vehicle, task, deletions>>

LockCustomerToDelete(s) ==
  LET c == session[s].customer IN
  /\ At(s, "begin", "DELETE_CUSTOMER")
  /\ CustomerFree(c)
  /\ \/ /\ customer[c].state = "LIVE"
        /\ Continue(s, [session[s] EXCEPT !.pc = "held"])
        /\ customerLock' = [customerLock EXCEPT ![c] = s]
        /\ UNCHANGED <<committed, vehicleLock, vehicleShare>>
     \/ customer[c].state # "LIVE" /\ Leave(s)

CountCustomerHistory(s) ==
  LET c == session[s].customer IN
  /\ At(s, "held", "DELETE_CUSTOMER")
  /\ \/ /\ ~HasCustomerHistory(c)
        /\ Continue(s, [session[s] EXCEPT !.pc = "ready"])
        /\ UNCHANGED <<committed, locks>>
     \/ HasCustomerHistory(c) /\ Leave(s)

CommitCustomerDeletion(s) ==
  LET c == session[s].customer IN
  /\ At(s, "ready", "DELETE_CUSTOMER")
  /\ customer' = [customer EXCEPT ![c].state = "DELETED"]
  /\ deletions' = [deletions EXCEPT ![c] = @ + 1]
  /\ EndSession(s)
  /\ UNCHANGED <<vehicle, task>>
-----------------------------------------------------------------------------
(* create_task: the vehicle, then the customer if there is one, then the   *)
(* insert, whose foreign keys meet the session's own locks.                *)
LockVehicleOfTask(s) ==
  LET v == session[s].vehicle
      accepted == vehicle[v].state = "LIVE" /\ Standardized(vehicle[v]) IN
  /\ At(s, "begin", "CREATE_TASK")
  /\ VehicleFree(v)
  /\ \/ /\ accepted
        /\ Continue(s, [session[s] EXCEPT
                          !.pc = IF session[s].customer = Nobody THEN "ready" ELSE "held",
                          !.read = vehicle[v]])
        /\ vehicleLock' = [vehicleLock EXCEPT ![v] = s]
        /\ UNCHANGED <<committed, customerLock, vehicleShare>>
     \/ ~accepted /\ Leave(s)

LockCustomerOfTask(s) ==
  LET c == session[s].customer IN
  /\ At(s, "held", "CREATE_TASK")
  /\ CustomerFree(c)
  /\ \/ /\ customer[c].state = "LIVE"
        /\ Continue(s, [session[s] EXCEPT !.pc = "ready"])
        /\ customerLock' = [customerLock EXCEPT ![c] = s]
        /\ UNCHANGED <<committed, vehicleLock, vehicleShare>>
     \/ customer[c].state # "LIVE" /\ Leave(s)

CommitTask(s) ==
  LET me == session[s] IN
  /\ At(s, "ready", "CREATE_TASK")
  /\ task' = [task EXCEPT ![me.task] = [vehicle |-> me.vehicle, customer |-> me.customer,
                                        limit |-> me.read.limit, fee |-> NoType]]
  /\ EndSession(s)
  /\ UNCHANGED <<vehicle, customer, deletions>>
-----------------------------------------------------------------------------
(* complete_task, from the point where it holds the task's own row: the    *)
(* vehicle is read without a lock, and the fee is flushed before the       *)
(* commit.  The task's lock keeps a second completion out.                 *)
ReadVehicleToPrice(s) ==
  LET v == session[s].vehicle IN
  /\ At(s, "begin", "COMPLETE_TASK")
  /\ \/ /\ Standardized(vehicle[v])
        /\ Continue(s, [session[s] EXCEPT !.pc = "held", !.read = vehicle[v]])
        /\ UNCHANGED <<committed, locks>>
     \/ ~Standardized(vehicle[v]) /\ Leave(s)

FlushFee(s) ==
  LET v == session[s].vehicle IN
  /\ At(s, "held", "COMPLETE_TASK")
  /\ VehicleUnlocked(v)
  /\ Continue(s, [session[s] EXCEPT !.pc = "ready"])
  /\ vehicleShare' = [vehicleShare EXCEPT ![v] = @ \cup {s}]
  /\ UNCHANGED <<committed, vehicleLock, customerLock>>

CommitFee(s) ==
  LET me == session[s] IN
  /\ At(s, "ready", "COMPLETE_TASK")
  /\ task' = [task EXCEPT ![me.task].fee = me.read.type]
  /\ EndSession(s)
  /\ UNCHANGED <<vehicle, customer, deletions>>
-----------------------------------------------------------------------------
Statement(s) ==
  \/ FindPlate(s) \/ InsertVehicle(s) \/ ReadVehicleToUpdate(s)
  \/ CountVehicleHistory(s) \/ CommitVehicleDeletion(s)
  \/ InsertCustomer(s) \/ ReadCustomerToUpdate(s)
  \/ CountCustomerHistory(s) \/ CommitCustomerDeletion(s)
  \/ CommitTask(s) \/ ReadVehicleToPrice(s) \/ CommitFee(s)

Waiting(s) ==
  \/ WriteVehicle(s) \/ LockVehicleToDelete(s) \/ WriteCustomer(s)
  \/ LockCustomerToDelete(s) \/ LockVehicleOfTask(s) \/ LockCustomerOfTask(s)
  \/ FlushFee(s)

Next == \E s \in Session : Begin(s) \/ Abort(s) \/ Statement(s) \/ Waiting(s)

Spec == Init /\ [][Next]_vars
-----------------------------------------------------------------------------
(* Every committed row and every lock keeps its type.                      *)
TypeOK ==
  /\ vehicle \in [Vehicle -> [state : RowState, plate : Plate \cup {Unset},
                              type : Type, limit : Limit \cup {Unset}]]
  /\ \A v \in Vehicle : vehicle[v].state # "ABSENT" => vehicle[v].limit \in Limit
  /\ customer \in [Customer -> [state : RowState, contact : Contact \cup {Unset}]]
  /\ task \in [Task -> [vehicle : Vehicle \cup {Nobody}, customer : Customer \cup {Nobody},
                        limit : Limit \cup {Unset}, fee : Type]]
  /\ deletions \in [Vehicle \cup Customer -> Nat]
  /\ vehicleLock \in [Vehicle -> Session \cup {Nobody}]
  /\ customerLock \in [Customer -> Session \cup {Nobody}]
  /\ vehicleShare \in [Vehicle -> SUBSET Session]

(* The limit a task is weighed against is the vehicle's limit at the       *)
(* moment the task is committed, not one from before a concurrent update.  *)
TaskStartsWithCurrentLimit ==
  [][\A k \in Task : task[k] = NoTask /\ task'[k] # NoTask =>
       task'[k].limit = vehicle[task'[k].vehicle].limit]_vars

(* The operations that requests work out statement by statement, while     *)
(* others commit, come out as if each had happened at once, when it        *)
(* committed: what a request checked is still so then, or was not relied   *)
(* on.                                                                     *)
ImplementsRecords == RecordsSpec

(* The next statement of s needs a row that r has locked.                  *)
WaitsFor(s, r) ==
  LET v == session[s].vehicle
      c == session[s].customer IN
  \/ /\ At(s, "begin", "DELETE_VEHICLE") \/ At(s, "begin", "CREATE_TASK")
     /\ vehicleLock[v] = r \/ r \in vehicleShare[v]
  \/ /\ At(s, "ready", "UPDATE_VEHICLE") \/ At(s, "held", "COMPLETE_TASK")
     /\ vehicleLock[v] = r
  \/ /\ \/ At(s, "begin", "DELETE_CUSTOMER") \/ At(s, "ready", "UPDATE_CUSTOMER")
        \/ At(s, "held", "CREATE_TASK")
     /\ customerLock[c] = r

(* Requests never wait for each other in a circle: create_task takes its   *)
(* two locks in one order, and a deletion or a completion takes one.       *)
(* Whoever is waited for is at work, and waits for nobody, or for one who  *)
(* waits for nobody.                                                       *)
NobodyWaitsInCircle ==
  \A s, r \in Session : WaitsFor(s, r) =>
    /\ session[r].pc # "idle"
    /\ \A q \in Session : WaitsFor(r, q) => \A p \in Session : ~ WaitsFor(q, p)
=============================================================================
