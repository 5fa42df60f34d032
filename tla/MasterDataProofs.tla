--------------------------- MODULE MasterDataProofs ---------------------------
(***************************************************************************)
(* The safety properties of MasterData for every set of vehicles,          *)
(* customers, tasks, plates, types, limits and sessions.                   *)
(*                                                                         *)
(* A step is of one session s.  It leaves the requests of the others and   *)
(* the locks they hold alone (Frame), and it changes rows only in ways     *)
(* that leave what the others know true (RowsMove): a locked vehicle is    *)
(* changed by its holder alone, an unused one inserted by its creator      *)
(* alone, and a task is given to a vehicle or customer only by a session   *)
(* that holds it.                                                          *)
(***************************************************************************)
EXTENDS MasterData, TLAPS

VehicleOp == {"CREATE_VEHICLE", "UPDATE_VEHICLE", "DELETE_VEHICLE"}
CustomerOp == {"CREATE_CUSTOMER", "UPDATE_CUSTOMER", "DELETE_CUSTOMER"}
TaskOp == {"CREATE_TASK", "COMPLETE_TASK"}

VehicleRow == [state : RowState, plate : Plate \cup {Unset}, type : Type,
               limit : Limit \cup {Unset}]
CustomerRow == [state : RowState, contact : Contact \cup {Unset}]

RequestType ==
  [pc : {"idle", "begin", "held", "ready"}, op : VehicleOp \cup CustomerOp \cup TaskOp,
   vehicle : Vehicle \cup {Nobody}, customer : Customer \cup {Nobody},
   task : Task \cup {Nobody}, plate : Plate \cup {Unset}, type : VehicleType \cup {Unset},
   limit : Limit \cup {Unset}, contact : Contact \cup {Unset},
   read : VehicleRow \cup CustomerRow]

SessionsOK == session \in [Session -> RequestType]

(* What the columns of a request hold, by its operation.                   *)
Named(s) ==
  LET me == session[s] IN
  me.pc # "idle" =>
    /\ me.op \in VehicleOp \cup TaskOp => me.vehicle \in Vehicle
    /\ me.op \in CustomerOp => me.customer \in Customer
    /\ me.op \in TaskOp => me.task \in Task
    /\ me.op = "CREATE_VEHICLE" =>
         me.plate \in Plate /\ me.type \in VehicleType /\ me.limit \in Limit
    /\ me.op \in {"CREATE_CUSTOMER", "UPDATE_CUSTOMER"} => me.contact \in Contact
    /\ me.op = "CREATE_TASK" /\ me.pc = "held" => me.customer \in Customer

(* The rows that a request has locked.                                     *)
Holding(s) ==
  LET me == session[s] IN
  me.pc \in {"held", "ready"} =>
    /\ me.op \in {"DELETE_VEHICLE", "CREATE_TASK"} => vehicleLock[me.vehicle] = s
    /\ me.op = "DELETE_CUSTOMER" => customerLock[me.customer] = s
    /\ me.op = "CREATE_TASK" /\ me.pc = "ready" /\ me.customer # Nobody =>
         customerLock[me.customer] = s

(* Two requests never create the same vehicle.                             *)
Creating(s) == session[s].op = "CREATE_VEHICLE" /\ session[s].pc # "idle"
OneCreator ==
  \A s, t \in Session :
    Creating(s) /\ Creating(t) /\ session[s].vehicle = session[t].vehicle => s = t

(* What a request has found out is still so.                               *)
Knowing(s) ==
  LET me == session[s]
      past == me.pc \in {"held", "ready"} IN
  /\ Creating(s) => vehicle[me.vehicle].state = "ABSENT"
  /\ me.op = "DELETE_VEHICLE" /\ me.pc = "ready" => ~HasVehicleHistory(me.vehicle)
  /\ me.op = "DELETE_CUSTOMER" /\ me.pc = "ready" => ~HasCustomerHistory(me.customer)
  /\ me.op = "CREATE_TASK" /\ past =>
       vehicle[me.vehicle].type \in VehicleType /\ me.read = vehicle[me.vehicle]
  /\ me.op = "COMPLETE_TASK" /\ me.pc # "idle" => task[me.task].vehicle \in Vehicle
  /\ me.op = "COMPLETE_TASK" /\ past => me.read \in VehicleRow

(* What is locked FOR UPDATE is there.                                     *)
LockedLive ==
  /\ \A v \in Vehicle : vehicleLock[v] # Nobody => vehicle[v].state = "LIVE"
  /\ \A c \in Customer : customerLock[c] # Nobody => customer[c].state = "LIVE"

TasksPlaced == \A k \in Task : task[k] # NoTask => task[k].vehicle \in Vehicle

(* TypeOK, rows and locks apart.                                           *)
RowTypes ==
  /\ vehicle \in [Vehicle -> VehicleRow]
  /\ \A v \in Vehicle : vehicle[v].state # "ABSENT" => vehicle[v].limit \in Limit
  /\ customer \in [Customer -> CustomerRow]
  /\ task \in [Task -> [vehicle : Vehicle \cup {Nobody}, customer : Customer \cup {Nobody},
                        limit : Limit \cup {Unset}, fee : Type]]
  /\ deletions \in [Vehicle \cup Customer -> Nat]
LockTypes ==
  /\ vehicleLock \in [Vehicle -> Session \cup {Nobody}]
  /\ customerLock \in [Customer -> Session \cup {Nobody}]
  /\ vehicleShare \in [Vehicle -> SUBSET Session]

RowsFine ==
  /\ RowTypes /\ TasksPlaced
  /\ NoTaskOfDeleted /\ PlateNamesOneVehicle /\ StartedCanBePriced

IInv ==
  /\ RowsFine /\ LockTypes /\ SessionsOK /\ OneCreator /\ LockedLive
  /\ \A s \in Session : Named(s) /\ Holding(s) /\ Knowing(s)
-----------------------------------------------------------------------------
(* One step of session s.                                                  *)
Step(s) == Begin(s) \/ Abort(s) \/ Statement(s) \/ Waiting(s)

(* What a step of s leaves alone: the others' requests and locks.          *)
Frame(s) ==
  /\ \A t \in Session \ {s} : session'[t] = session[t]
  /\ \A t \in Session \ {s} :
       /\ \A v \in Vehicle : vehicleLock'[v] = t <=> vehicleLock[v] = t
       /\ \A c \in Customer : customerLock'[c] = t <=> customerLock[c] = t

(* How a step of s may change rows.                                        *)
RowsMove(s) ==
  /\ \A v \in Vehicle : vehicleLock[v] \in Session \ {s} => vehicle'[v] = vehicle[v]
  /\ \A c \in Customer :
       customerLock[c] \in Session \ {s} => customer'[c].state = customer[c].state
  /\ \A v \in Vehicle :
       vehicle[v].state = "ABSENT" /\ vehicle'[v].state # "ABSENT" =>
         Creating(s) /\ session[s].vehicle = v
  /\ \A k \in Task :
       /\ task'[k].vehicle # task[k].vehicle =>
            /\ task'[k].vehicle \in Vehicle /\ vehicleLock[task'[k].vehicle] = s
       /\ task'[k].customer # task[k].customer /\ task'[k].customer # Nobody =>
            customerLock[task'[k].customer] = s

(* The request of s itself, after its step.                                *)
OwnFine(s) == (Named(s) /\ Holding(s) /\ Knowing(s))'
-----------------------------------------------------------------------------
(* What the others hold and know, they still do.                           *)
LEMMA OthersKeep ==
  ASSUME IInv, NEW s \in Session, Frame(s), RowsMove(s), NEW t \in Session \ {s}
  PROVE  (Named(t) /\ Holding(t) /\ Knowing(t))'
<1> DEFINE me == session[t]
<1>1. session'[t] = me /\ t # s /\ t \in Session /\ t # Nobody /\ me \in RequestType
  BY NobodyAssumption DEF Frame, IInv, SessionsOK
<1>2. Named(t) /\ Holding(t) /\ Knowing(t) /\ TasksPlaced /\ LockedLive
  BY DEF IInv, RowsFine
<1>3. Named(t)'
  BY <1>1, <1>2 DEF Named
<1>4. Holding(t)'
  <2> USE <1>1, <1>2
  <2> SUFFICES ASSUME me.pc \in {"held", "ready"} PROVE Holding(t)'
    BY DEF Holding
  <2>1. /\ me.op \in {"DELETE_VEHICLE", "CREATE_TASK"} => me.vehicle \in Vehicle
        /\ me.op = "DELETE_CUSTOMER" => me.customer \in Customer
    BY DEF Named, VehicleOp, TaskOp, CustomerOp
  <2>2. me.customer # Nobody => me.customer \in Customer
    BY DEF RequestType
  <2> QED
    BY <2>1, <2>2 DEF Holding, Frame
<1>5. ASSUME Creating(t) PROVE vehicle'[me.vehicle].state = "ABSENT"
  <2>1. me.vehicle \in Vehicle /\ vehicle[me.vehicle].state = "ABSENT"
    BY <1>2, <1>5 DEF Creating, Named, Knowing, VehicleOp
  <2>2. ~(Creating(s) /\ session[s].vehicle = me.vehicle)
    BY <1>1, <1>5 DEF IInv, OneCreator
  <2> QED
    BY <2>1, <2>2 DEF RowsMove
<1>6. ASSUME me.op = "DELETE_VEHICLE", me.pc = "ready"
      PROVE  ~HasVehicleHistory(me.vehicle)'
  <2>1. vehicleLock[me.vehicle] = t /\ ~HasVehicleHistory(me.vehicle)
    BY <1>2, <1>6 DEF Holding, Knowing
  <2> QED
    BY <1>1, <2>1 DEF HasVehicleHistory, RowsMove
<1>7. ASSUME me.op = "DELETE_CUSTOMER", me.pc = "ready"
      PROVE  ~HasCustomerHistory(me.customer)'
  <2>1. /\ customerLock[me.customer] = t /\ ~HasCustomerHistory(me.customer)
        /\ me.customer # Nobody
    BY <1>2, <1>7, NobodyAssumption DEF Holding, Knowing, Named, CustomerOp
  <2> QED
    BY <1>1, <2>1 DEF HasCustomerHistory, RowsMove
<1>8. ASSUME me.op = "CREATE_TASK", me.pc \in {"held", "ready"}
      PROVE  vehicle'[me.vehicle].type \in VehicleType /\ me.read = vehicle'[me.vehicle]
  <2>1. vehicleLock[me.vehicle] = t /\ me.vehicle \in Vehicle
    BY <1>2, <1>8 DEF Holding, Named, TaskOp
  <2> QED
    BY <1>1, <1>2, <1>8, <2>1 DEF Knowing, RowsMove
<1>9. ASSUME me.op = "COMPLETE_TASK", me.pc # "idle"
      PROVE  task'[me.task].vehicle \in Vehicle
  BY <1>2, <1>9 DEF Knowing, Named, TaskOp, RowsMove
<1>10. Knowing(t)'
  BY <1>1, <1>2, <1>5, <1>6, <1>7, <1>8, <1>9
     DEF Knowing, Creating, HasVehicleHistory, HasCustomerHistory
<1> QED
  BY <1>3, <1>4, <1>10

LEMMA Concluded ==
  ASSUME IInv, NEW s \in Session, Frame(s), RowsMove(s), OwnFine(s),
         (RowsFine /\ LockTypes /\ SessionsOK /\ OneCreator /\ LockedLive)'
  PROVE  IInv'
<1>1. \A t \in Session \ {s} : (Named(t) /\ Holding(t) /\ Knowing(t))'
  BY OthersKeep
<1> QED
  BY <1>1 DEF IInv, OwnFine

(* A step that writes no row keeps what is said of rows.                   *)
LEMMA QuietRows ==
  ASSUME IInv, NEW s \in Session, UNCHANGED committed
  PROVE  RowsFine' /\ RowsMove(s)
<1>1. RowsFine' /\ UNCHANGED <<vehicle, customer, task>>
  BY DEF IInv, RowsFine, committed, RowTypes, TasksPlaced, NoTaskOfDeleted,
         PlateNamesOneVehicle, StartedCanBePriced
<1> QED
  BY <1>1 DEF RowsMove

(* The end of a session by a commit, of which RowsMove and RowsFine are    *)
(* known, or without one.                                                  *)
LEMMA EndKeeps ==
  ASSUME IInv, NEW s \in Session, EndSession(s), RowsMove(s), RowsFine'
  PROVE  IInv'
<1>0. TypeOK /\ SessionsOK /\ LockTypes /\ LockedLive /\ RowTypes /\ OneCreator
  BY DEF IInv, RowsFine, RowTypes, LockTypes, TypeOK, VehicleRow, CustomerRow
<1>1. Idle \in RequestType /\ Idle.pc = "idle" /\ Idle.op = "CREATE_TASK"
  BY DEF Idle, RequestType, VehicleOp, CustomerOp, TaskOp, NoVehicle, VehicleRow, RowState,
         Type, NoType
<1>2. session'[s] = Idle /\ \A t \in Session \ {s} : session'[t] = session[t]
  BY <1>0 DEF EndSession, SessionsOK
<1>3. SessionsOK'
  BY <1>0, <1>1 DEF EndSession, SessionsOK
<1>4. OwnFine(s)
  BY <1>1, <1>2 DEF OwnFine, Named, Holding, Knowing, Creating
<1>5. OneCreator'
  BY <1>0, <1>1, <1>2 DEF OneCreator, Creating
<1>6. /\ \A v \in Vehicle : vehicleLock'[v] = IF vehicleLock[v] = s THEN Nobody ELSE vehicleLock[v]
      /\ \A c \in Customer :
           customerLock'[c] = IF customerLock[c] = s THEN Nobody ELSE customerLock[c]
  BY DEF EndSession
<1>7. LockTypes'
  BY <1>0 DEF LockTypes, EndSession
<1>8. Frame(s)
  BY <1>2, <1>6, NobodyAssumption DEF Frame
<1>9. LockedLive'
  BY <1>0, <1>6 DEF LockedLive, LockTypes, RowsMove
<1> QED
  BY <1>3, <1>4, <1>5, <1>7, <1>8, <1>9, Concluded

LEMMA LeaveKeeps ==
  ASSUME IInv, NEW s \in Session, Leave(s)
  PROVE  IInv'
BY QuietRows, EndKeeps DEF Leave

(* A request that goes on, perhaps with a lock, without writing a row.     *)
LEMMA ContinueKeeps ==
  ASSUME IInv, NEW s \in Session, NEW next \in RequestType, Continue(s, next),
         UNCHANGED committed, OwnFine(s),
         next.op = "CREATE_VEHICLE" =>
           \/ Creating(s) /\ next.vehicle = session[s].vehicle
           \/ Fresh("CREATE_VEHICLE", "vehicle", next.vehicle),
         LockTypes', LockedLive',
         \A t \in Session \ {s} :
           /\ \A v \in Vehicle : vehicleLock'[v] = t <=> vehicleLock[v] = t
           /\ \A c \in Customer : customerLock'[c] = t <=> customerLock[c] = t
  PROVE  IInv'
<1>1. SessionsOK /\ OneCreator
  BY DEF IInv
<1>2. session'[s] = next /\ \A t \in Session \ {s} : session'[t] = session[t]
  BY <1>1 DEF Continue, SessionsOK
<1>3. SessionsOK'
  BY <1>1 DEF Continue, SessionsOK
<1>4. OneCreator'
  BY <1>1, <1>2 DEF OneCreator, Creating, Fresh
<1>5. Frame(s)
  BY <1>2 DEF Frame
<1> QED
  BY <1>3, <1>4, <1>5, QuietRows, Concluded

(* ... without a lock ...                                                  *)
LEMMA GoOnKeeps ==
  ASSUME IInv, NEW s \in Session, NEW next \in RequestType, Continue(s, next),
         UNCHANGED <<committed, vehicleLock, customerLock>>,
         vehicleShare' \in [Vehicle -> SUBSET Session], OwnFine(s),
         next.op = "CREATE_VEHICLE" =>
           \/ Creating(s) /\ next.vehicle = session[s].vehicle
           \/ Fresh("CREATE_VEHICLE", "vehicle", next.vehicle)
  PROVE  IInv'
<1>1. LockTypes' /\ LockedLive'
  BY DEF IInv, LockTypes, LockedLive, committed
<1> QED
  BY <1>1, ContinueKeeps

(* ... with the lock of a vehicle ...                                      *)
LEMMA LockVehicleKeeps ==
  ASSUME IInv, NEW s \in Session, NEW next \in RequestType, Continue(s, next),
         NEW v \in Vehicle, VehicleFree(v), vehicle[v].state = "LIVE",
         vehicleLock' = [vehicleLock EXCEPT ![v] = s],
         UNCHANGED <<committed, customerLock, vehicleShare>>, OwnFine(s),
         next.op # "CREATE_VEHICLE"
  PROVE  IInv'
<1>1. LockTypes' /\ LockedLive'
  BY DEF IInv, LockTypes, LockedLive, committed
<1>2. \A t \in Session \ {s}, w \in Vehicle : vehicleLock'[w] = t <=> vehicleLock[w] = t
  BY NobodyAssumption DEF VehicleFree, IInv, LockTypes
<1> QED
  BY <1>1, <1>2, ContinueKeeps

(* ... and with the lock of a customer.                                    *)
LEMMA LockCustomerKeeps ==
  ASSUME IInv, NEW s \in Session, NEW next \in RequestType, Continue(s, next),
         NEW c \in Customer, CustomerFree(c), customer[c].state = "LIVE",
         customerLock' = [customerLock EXCEPT ![c] = s],
         UNCHANGED <<committed, vehicleLock, vehicleShare>>, OwnFine(s),
         next.op # "CREATE_VEHICLE"
  PROVE  IInv'
<1>1. LockTypes' /\ LockedLive'
  BY DEF IInv, LockTypes, LockedLive, committed
<1>2. \A t \in Session \ {s}, d \in Customer : customerLock'[d] = t <=> customerLock[d] = t
  BY NobodyAssumption DEF CustomerFree, IInv, LockTypes
<1> QED
  BY <1>1, <1>2, ContinueKeeps
-----------------------------------------------------------------------------
LEMMA SessionFacts ==
  ASSUME IInv, NEW s \in Session
  PROVE  /\ session[s] \in RequestType /\ Named(s) /\ Holding(s) /\ Knowing(s)
         /\ vehicle \in [Vehicle -> VehicleRow] /\ customer \in [Customer -> CustomerRow]
         /\ vehicleShare \in [Vehicle -> SUBSET Session]
         /\ TasksPlaced /\ Nobody \notin Session
BY NobodyAssumption DEF IInv, RowsFine, RowTypes, LockTypes, SessionsOK

LEMMA BeginKeeps ==
  ASSUME IInv, NEW s \in Session, Begin(s)
  PROVE  IInv'
<1> USE SessionFacts
<1>0. /\ UNCHANGED <<committed, vehicle, customer, task, vehicleLock, customerLock, vehicleShare>>
      /\ session[s].pc = "idle" /\ Idle \in RequestType /\ SessionsOK
  BY DEF Begin, committed, locks, IInv, Idle, RequestType, VehicleOp, CustomerOp, TaskOp, NoVehicle,
         VehicleRow, RowState, Type, NoType
<1> DEFINE Begun(next) ==
      /\ next \in RequestType /\ next.pc = "begin"
      /\ next.op \in VehicleOp \cup TaskOp => next.vehicle \in Vehicle
      /\ next.op \in CustomerOp => next.customer \in Customer
      /\ next.op \in TaskOp => next.task \in Task
      /\ next.op = "CREATE_VEHICLE" =>
           next.plate \in Plate /\ next.type \in VehicleType /\ next.limit \in Limit
      /\ next.op \in {"CREATE_CUSTOMER", "UPDATE_CUSTOMER"} => next.contact \in Contact
      /\ next.op = "CREATE_VEHICLE" =>
           /\ vehicle[next.vehicle].state = "ABSENT"
           /\ Fresh("CREATE_VEHICLE", "vehicle", next.vehicle)
      /\ next.op = "COMPLETE_TASK" => task[next.task].vehicle \in Vehicle
<1>1. ASSUME NEW next, Begun(next), Continue(s, next) PROVE IInv'
  <2>1. session'[s] = next
    BY <1>0, <1>1 DEF Continue, SessionsOK
  <2>2. OwnFine(s)
    BY <1>0, <1>1, <2>1 DEF OwnFine, Named, Holding, Knowing, Creating
  <2> QED
    BY <1>0, <1>1, <2>2, GoOnKeeps
<1> USE <1>0 DEF Idle, RequestType, VehicleOp, CustomerOp, TaskOp
<1>2. ASSUME NEW v \in Vehicle, NEW p \in Plate, NEW type \in VehicleType, NEW limit \in Limit,
             vehicle[v].state = "ABSENT", Fresh("CREATE_VEHICLE", "vehicle", v)
      PROVE  Begun([Idle EXCEPT !.pc = "begin", !.op = "CREATE_VEHICLE", !.vehicle = v,
                                !.plate = p, !.type = type, !.limit = limit])
  BY <1>2
<1>3. ASSUME NEW v \in Vehicle, NEW type \in VehicleType \cup {Unset},
             NEW limit \in Limit \cup {Unset}
      PROVE  Begun([Idle EXCEPT !.pc = "begin", !.op = "UPDATE_VEHICLE", !.vehicle = v,
                                !.type = type, !.limit = limit])
  OBVIOUS
<1>4. ASSUME NEW v \in Vehicle
      PROVE  Begun([Idle EXCEPT !.pc = "begin", !.op = "DELETE_VEHICLE", !.vehicle = v])
  OBVIOUS
<1>5. ASSUME NEW c \in Customer, NEW contact \in Contact,
             NEW op \in {"CREATE_CUSTOMER", "UPDATE_CUSTOMER"}
      PROVE  Begun([Idle EXCEPT !.pc = "begin", !.op = op, !.customer = c, !.contact = contact])
  OBVIOUS
<1>6. ASSUME NEW c \in Customer
      PROVE  Begun([Idle EXCEPT !.pc = "begin", !.op = "DELETE_CUSTOMER", !.customer = c])
  OBVIOUS
<1>7. ASSUME NEW k \in Task, NEW v \in Vehicle, NEW c \in Customer \cup {Nobody}
      PROVE  Begun([Idle EXCEPT !.pc = "begin", !.op = "CREATE_TASK", !.task = k,
                                !.vehicle = v, !.customer = c])
  OBVIOUS
<1>8. ASSUME NEW k \in Task, task[k] # NoTask
      PROVE  Begun([Idle EXCEPT !.pc = "begin", !.op = "COMPLETE_TASK", !.task = k,
                                !.vehicle = task[k].vehicle])
  <2>1. task[k].vehicle \in Vehicle
    BY <1>8 DEF TasksPlaced
  <2> QED
    BY <2>1
<1> HIDE DEF Begun, Idle, RequestType, VehicleOp, CustomerOp, TaskOp
<1> QED
  <2>1. ASSUME NEW v \in Vehicle, NEW p \in Plate, NEW type \in VehicleType,
               NEW limit \in Limit, vehicle[v].state = "ABSENT",
               Fresh("CREATE_VEHICLE", "vehicle", v),
               Continue(s, [Idle EXCEPT !.pc = "begin", !.op = "CREATE_VEHICLE", !.vehicle = v,
                                        !.plate = p, !.type = type, !.limit = limit])
        PROVE  IInv'
    BY <1>1, <1>2, <2>1
  <2>2. ASSUME NEW v \in Vehicle, NEW type \in VehicleType \cup {Unset},
               NEW limit \in Limit \cup {Unset},
               Continue(s, [Idle EXCEPT !.pc = "begin", !.op = "UPDATE_VEHICLE", !.vehicle = v,
                                        !.type = type, !.limit = limit])
        PROVE  IInv'
    BY <1>1, <1>3, <2>2
  <2>3. ASSUME NEW v \in Vehicle,
               Continue(s, [Idle EXCEPT !.pc = "begin", !.op = "DELETE_VEHICLE", !.vehicle = v])
        PROVE  IInv'
    BY <1>1, <1>4, <2>3
  <2>4. ASSUME NEW c \in Customer, NEW contact \in Contact,
               \/ Continue(s, [Idle EXCEPT !.pc = "begin", !.op = "CREATE_CUSTOMER",
                                           !.customer = c, !.contact = contact])
               \/ Continue(s, [Idle EXCEPT !.pc = "begin", !.op = "UPDATE_CUSTOMER",
                                           !.customer = c, !.contact = contact])
        PROVE  IInv'
    BY <1>1, <1>5, <2>4
  <2>5. ASSUME NEW c \in Customer,
               Continue(s, [Idle EXCEPT !.pc = "begin", !.op = "DELETE_CUSTOMER", !.customer = c])
        PROVE  IInv'
    BY <1>1, <1>6, <2>5
  <2>6. ASSUME NEW k \in Task, NEW v \in Vehicle, NEW c \in Customer \cup {Nobody},
               Continue(s, [Idle EXCEPT !.pc = "begin", !.op = "CREATE_TASK", !.task = k,
                                        !.vehicle = v, !.customer = c])
        PROVE  IInv'
    BY <1>1, <1>7, <2>6
  <2>7. ASSUME NEW k \in Task, task[k] # NoTask,
               Continue(s, [Idle EXCEPT !.pc = "begin", !.op = "COMPLETE_TASK", !.task = k,
                                        !.vehicle = task[k].vehicle])
        PROVE  IInv'
    BY <1>1, <1>8, <2>7
  <2> HIDE <1>0, <1>1, <1>2, <1>3, <1>4, <1>5, <1>6, <1>7, <1>8
  <2> QED
    BY <2>1, <2>2, <2>3, <2>4, <2>5, <2>6, <2>7 DEF Begin

LEMMA ReadingKeeps ==
  ASSUME IInv, NEW s \in Session,
         \/ FindPlate(s) \/ ReadVehicleToUpdate(s) \/ CountVehicleHistory(s)
         \/ ReadCustomerToUpdate(s) \/ CountCustomerHistory(s) \/ ReadVehicleToPrice(s)
  PROVE  IInv'
<1> USE SessionFacts DEF At, RequestType, VehicleOp, CustomerOp, TaskOp
<1>0. SessionsOK /\ (UNCHANGED <<committed, locks>> =>
         UNCHANGED <<vehicle, customer, task, vehicleLock, customerLock, vehicleShare>>)
  BY DEF IInv, committed, locks
<1> DEFINE Read(next) ==
      /\ next \in RequestType /\ session[s].pc # "idle" /\ next.pc # "idle"
      /\ next.op = session[s].op /\ next.vehicle = session[s].vehicle
      /\ next.customer = session[s].customer /\ next.task = session[s].task
      /\ next.plate = session[s].plate /\ next.type = session[s].type
      /\ next.limit = session[s].limit /\ next.contact = session[s].contact
      /\ next.op # "CREATE_TASK"
      /\ next.op \in {"DELETE_VEHICLE", "DELETE_CUSTOMER"} => session[s].pc = "held"
      /\ next.op = "DELETE_VEHICLE" => ~HasVehicleHistory(next.vehicle)
      /\ next.op = "DELETE_CUSTOMER" => ~HasCustomerHistory(next.customer)
      /\ next.op = "COMPLETE_TASK" => next.read \in VehicleRow
<1>1. ASSUME NEW next, Read(next), Continue(s, next), UNCHANGED <<committed, locks>>
      PROVE  IInv'
  <2>1. session'[s] = next
    BY <1>0, <1>1 DEF Continue, SessionsOK
  <2>2. Named(s)'
    BY <1>0, <1>1, <2>1 DEF Named
  <2>3. Holding(s)'
    BY <1>0, <1>1, <2>1 DEF Holding
  <2>4. Knowing(s)'
    BY <1>0, <1>1, <2>1 DEF Knowing, Creating, HasVehicleHistory, HasCustomerHistory
  <2> QED
    BY <1>0, <1>1, <2>2, <2>3, <2>4, GoOnKeeps DEF OwnFine, Creating
<1>2. CASE FindPlate(s)
  BY <1>1, <1>2, LeaveKeeps DEF FindPlate
<1>3. CASE ReadVehicleToUpdate(s)
  <2>1. session[s].vehicle \in Vehicle
    BY <1>3 DEF ReadVehicleToUpdate, Named
  <2> DEFINE next == [session[s] EXCEPT !.pc = "ready", !.read = vehicle[session[s].vehicle]]
  <2>2. vehicle[session[s].vehicle] \in VehicleRow
    BY <2>1
  <2>3. Read(next)
    BY <1>3, <2>2 DEF ReadVehicleToUpdate
  <2> HIDE DEF Read
  <2>4. Continue(s, next) /\ UNCHANGED <<committed, locks>> => IInv'
    BY <1>1, <2>3
  <2> QED
    BY <1>3, <2>4, LeaveKeeps DEF ReadVehicleToUpdate
<1>4. CASE CountVehicleHistory(s)
  BY <1>1, <1>4, LeaveKeeps DEF CountVehicleHistory
<1>5. CASE ReadCustomerToUpdate(s)
  <2>1. session[s].customer \in Customer
    BY <1>5 DEF ReadCustomerToUpdate, Named
  <2> DEFINE next == [session[s] EXCEPT !.pc = "ready", !.read = customer[session[s].customer]]
  <2>2. customer[session[s].customer] \in CustomerRow
    BY <2>1
  <2>3. Read(next)
    BY <1>5, <2>2 DEF ReadCustomerToUpdate
  <2> HIDE DEF Read
  <2>4. Continue(s, next) /\ UNCHANGED <<committed, locks>> => IInv'
    BY <1>1, <2>3
  <2> QED
    BY <1>5, <2>4, LeaveKeeps DEF ReadCustomerToUpdate
<1>6. CASE CountCustomerHistory(s)
  BY <1>1, <1>6, LeaveKeeps DEF CountCustomerHistory
<1>7. CASE ReadVehicleToPrice(s)
  <2>1. session[s].vehicle \in Vehicle
    BY <1>7 DEF ReadVehicleToPrice, Named
  <2> DEFINE next == [session[s] EXCEPT !.pc = "held", !.read = vehicle[session[s].vehicle]]
  <2>2. vehicle[session[s].vehicle] \in VehicleRow
    BY <2>1
  <2>3. Read(next)
    BY <1>7, <2>2 DEF ReadVehicleToPrice
  <2> HIDE DEF Read
  <2>4. Continue(s, next) /\ UNCHANGED <<committed, locks>> => IInv'
    BY <1>1, <2>3
  <2> QED
    BY <1>7, <2>4, LeaveKeeps DEF ReadVehicleToPrice
<1> QED
  BY <1>2, <1>3, <1>4, <1>5, <1>6, <1>7
-----------------------------------------------------------------------------
(* The statements that take a lock.                                        *)
LEMMA LockVehicleToDeleteKeeps ==
  ASSUME IInv, NEW s \in Session, LockVehicleToDelete(s)
  PROVE  IInv'
<1> USE SessionFacts DEF At
<1> DEFINE v == session[s].vehicle
          next == [session[s] EXCEPT !.pc = "held"]
<1>1. /\ session[s].op = "DELETE_VEHICLE" /\ v \in Vehicle /\ VehicleFree(v)
      /\ next \in RequestType /\ SessionsOK
      /\ vehicleLock \in [Vehicle -> Session \cup {Nobody}]
  BY DEF LockVehicleToDelete, Named, VehicleOp, RequestType, IInv, LockTypes
<1>2. ASSUME vehicle[v].state = "LIVE", Continue(s, next),
             vehicleLock' = [vehicleLock EXCEPT ![v] = s],
             UNCHANGED <<committed, customerLock, vehicleShare>>
      PROVE  IInv'
  <2>1. session'[s] = next /\ vehicleLock'[v] = s
    BY <1>1, <1>2 DEF Continue, SessionsOK
  <2>2. OwnFine(s)
    BY <1>1, <2>1 DEF OwnFine, Named, Holding, Knowing, Creating, VehicleOp, CustomerOp, TaskOp,
                      RequestType
  <2> QED
    BY <1>1, <1>2, <2>2, LockVehicleKeeps DEF RequestType
<1> QED
  BY <1>2, LeaveKeeps DEF LockVehicleToDelete

LEMMA LockCustomerToDeleteKeeps ==
  ASSUME IInv, NEW s \in Session, LockCustomerToDelete(s)
  PROVE  IInv'
<1> USE SessionFacts DEF At
<1> DEFINE c == session[s].customer
          next == [session[s] EXCEPT !.pc = "held"]
<1>1. /\ session[s].op = "DELETE_CUSTOMER" /\ c \in Customer /\ CustomerFree(c)
      /\ next \in RequestType /\ SessionsOK
      /\ customerLock \in [Customer -> Session \cup {Nobody}]
  BY DEF LockCustomerToDelete, Named, CustomerOp, RequestType, IInv, LockTypes
<1>2. ASSUME customer[c].state = "LIVE", Continue(s, next),
             customerLock' = [customerLock EXCEPT ![c] = s],
             UNCHANGED <<committed, vehicleLock, vehicleShare>>
      PROVE  IInv'
  <2>1. session'[s] = next /\ customerLock'[c] = s
    BY <1>1, <1>2 DEF Continue, SessionsOK
  <2>2. OwnFine(s)
    BY <1>1, <2>1 DEF OwnFine, Named, Holding, Knowing, Creating, VehicleOp, CustomerOp, TaskOp,
                      RequestType
  <2> QED
    BY <1>1, <1>2, <2>2, LockCustomerKeeps DEF RequestType
<1> QED
  BY <1>2, LeaveKeeps DEF LockCustomerToDelete

LEMMA LockVehicleOfTaskKeeps ==
  ASSUME IInv, NEW s \in Session, LockVehicleOfTask(s)
  PROVE  IInv'
<1> USE SessionFacts DEF At
<1> DEFINE me == session[s]
          v == me.vehicle
          next == [me EXCEPT !.pc = IF me.customer = Nobody THEN "ready" ELSE "held",
                             !.read = vehicle[v]]
<1>0. /\ me.op = "CREATE_TASK" /\ v \in Vehicle /\ VehicleFree(v) /\ me.task \in Task
      /\ SessionsOK /\ vehicleLock \in [Vehicle -> Session \cup {Nobody}]
  BY DEF LockVehicleOfTask, Named, TaskOp, IInv, LockTypes
<1>1. vehicle[v] \in VehicleRow /\ next \in RequestType
  <2>1. vehicle[v] \in VehicleRow \cup CustomerRow /\ vehicle[v] \in VehicleRow
    BY <1>0
  <2>2. \A pc \in {"ready", "held"}, read \in VehicleRow \cup CustomerRow :
          [me EXCEPT !.pc = pc, !.read = read] \in RequestType
    BY DEF RequestType
  <2> QED
    BY <2>1, <2>2
<1>2. ASSUME vehicle[v].state = "LIVE", Standardized(vehicle[v]), Continue(s, next),
             vehicleLock' = [vehicleLock EXCEPT ![v] = s],
             UNCHANGED <<committed, customerLock, vehicleShare>>
      PROVE  IInv'
  <2>1. session'[s] = next /\ vehicleLock'[v] = s /\ vehicle' = vehicle
    BY <1>0, <1>1, <1>2 DEF Continue, SessionsOK, committed
  <2>2. /\ next.op = "CREATE_TASK" /\ next.vehicle = v /\ next.read = vehicle[v]
        /\ next.task = me.task /\ next.customer = me.customer
        /\ next.pc = "ready" => next.customer = Nobody
        /\ next.pc = "held" => next.customer \in Customer
    BY <1>0, <1>1 DEF RequestType
  <2>3. vehicle[v].type \in VehicleType
    BY <1>1, <1>2 DEF Standardized, VehicleRow, Type
  <2> HIDE DEF next
  <2>4. OwnFine(s)
    BY <1>0, <1>1, <2>1, <2>2, <2>3
       DEF OwnFine, Named, Holding, Knowing, Creating, VehicleOp, CustomerOp, TaskOp
  <2> QED
    BY <1>0, <1>1, <1>2, <2>2, <2>4, LockVehicleKeeps
<1>3. \/ /\ vehicle[v].state = "LIVE" /\ Standardized(vehicle[v]) /\ Continue(s, next)
         /\ vehicleLock' = [vehicleLock EXCEPT ![v] = s]
         /\ UNCHANGED <<committed, customerLock, vehicleShare>>
      \/ Leave(s)
  BY Zenon DEF LockVehicleOfTask
<1> QED
  BY <1>2, <1>3, LeaveKeeps

LEMMA LockCustomerOfTaskKeeps ==
  ASSUME IInv, NEW s \in Session, LockCustomerOfTask(s)
  PROVE  IInv'
<1> USE SessionFacts DEF At
<1> DEFINE me == session[s]
          c == me.customer
          next == [me EXCEPT !.pc = "ready"]
<1>1. /\ me.op = "CREATE_TASK" /\ me.pc = "held" /\ CustomerFree(c)
      /\ me.vehicle \in Vehicle /\ me.task \in Task /\ c \in Customer
      /\ next \in RequestType /\ SessionsOK
      /\ customerLock \in [Customer -> Session \cup {Nobody}]
  BY DEF LockCustomerOfTask, Named, TaskOp, RequestType, IInv, LockTypes
<1>2. ASSUME customer[c].state = "LIVE", Continue(s, next),
             customerLock' = [customerLock EXCEPT ![c] = s],
             UNCHANGED <<committed, vehicleLock, vehicleShare>>
      PROVE  IInv'
  <2>1. /\ session'[s] = next /\ customerLock'[c] = s /\ vehicle' = vehicle
        /\ vehicleLock' = vehicleLock
    BY <1>1, <1>2 DEF Continue, SessionsOK, committed
  <2>2. /\ next.op = "CREATE_TASK" /\ next.vehicle = me.vehicle /\ next.read = me.read
        /\ next.task = me.task /\ next.customer = c
    BY <1>1 DEF RequestType
  <2>3. /\ vehicleLock[me.vehicle] = s /\ me.read = vehicle[me.vehicle]
        /\ vehicle[me.vehicle].type \in VehicleType
    BY <1>1 DEF Holding, Knowing
  <2> HIDE DEF next
  <2>4. OwnFine(s)
    BY <1>1, <2>1, <2>2, <2>3
       DEF OwnFine, Named, Holding, Knowing, Creating, VehicleOp, CustomerOp, TaskOp
  <2> QED
    BY <1>1, <1>2, <2>2, <2>4, LockCustomerKeeps
<1> QED
  BY <1>2, LeaveKeeps DEF LockCustomerOfTask

(* The key share of a fee: an UPDATE of the type may still come before the *)
(* commit, so nothing is known of the vehicle but that it had a row.       *)
LEMMA FlushFeeKeeps ==
  ASSUME IInv, NEW s \in Session, FlushFee(s)
  PROVE  IInv'
<1> USE SessionFacts DEF At
<1> DEFINE me == session[s]
          next == [me EXCEPT !.pc = "ready"]
<1>1. /\ me.op = "COMPLETE_TASK" /\ me.pc = "held" /\ me.vehicle \in Vehicle
      /\ me.task \in Task /\ task[me.task].vehicle \in Vehicle /\ me.read \in VehicleRow
      /\ next \in RequestType /\ SessionsOK
  BY DEF FlushFee, Named, Knowing, TaskOp, RequestType, IInv
<1>2. /\ session'[s] = next /\ task' = task
  BY <1>1 DEF FlushFee, Continue, SessionsOK, committed
<1>3. OwnFine(s)
  BY <1>1, <1>2 DEF OwnFine, Named, Holding, Knowing, Creating, VehicleOp, CustomerOp, TaskOp,
                    RequestType
<1> QED
  BY <1>1, <1>3, GoOnKeeps DEF FlushFee, RequestType
-----------------------------------------------------------------------------
(* The commits.                                                            *)
LEMMA InsertVehicleKeeps ==
  ASSUME IInv, NEW s \in Session, InsertVehicle(s)
  PROVE  IInv'
<1> USE SessionFacts DEF At
<1> DEFINE me == session[s]
          v == me.vehicle
          row == [state |-> "LIVE", plate |-> me.plate, type |-> me.type, limit |-> me.limit]
<1> SUFFICES ASSUME PlateUnused(me.plate), vehicle' = [vehicle EXCEPT ![v] = row],
                    EndSession(s), UNCHANGED <<customer, task, deletions>>
             PROVE  IInv'
  BY LeaveKeeps DEF InsertVehicle
<1>1. /\ Creating(s) /\ v \in Vehicle /\ vehicle[v].state = "ABSENT" /\ row \in VehicleRow
      /\ row.type \in VehicleType /\ row.limit \in Limit
  BY DEF InsertVehicle, Creating, Named, Knowing, VehicleOp, VehicleRow, RowState, Type
<1>2. vehicle'[v] = row /\ \A w \in Vehicle \ {v} : vehicle'[w] = vehicle[w]
  BY <1>1
<1>3. vehicleLock[v] = Nobody
  BY <1>1 DEF IInv, LockedLive
<1>4. RowsMove(s)
  BY <1>1, <1>2, <1>3 DEF RowsMove
<1>5. RowTypes' /\ TasksPlaced'
  BY <1>1, <1>2 DEF IInv, RowsFine, RowTypes, TasksPlaced
<1>6. NoTaskOfDeleted' /\ StartedCanBePriced'
  BY <1>1, <1>2 DEF IInv, RowsFine, TasksPlaced, NoTaskOfDeleted, StartedCanBePriced
<1>7. PlateNamesOneVehicle'
  BY <1>1, <1>2 DEF IInv, RowsFine, PlateNamesOneVehicle, PlateUnused
<1> QED
  BY <1>4, <1>5, <1>6, <1>7, EndKeeps DEF RowsFine

(* An update writes a column that is no state and no plate, and only when  *)
(* nobody holds the row; the type it writes is never NULL.                 *)
LEMMA WriteVehicleKeeps ==
  ASSUME IInv, NEW s \in Session, WriteVehicle(s)
  PROVE  IInv'
<1> USE SessionFacts DEF At
<1> DEFINE me == session[s]
          v == me.vehicle
          type == Written(vehicle[v].type, me.read.type, me.type)
          limit == Written(vehicle[v].limit, me.read.limit, me.limit)
<1>1. /\ me.op = "UPDATE_VEHICLE" /\ me.pc = "ready" /\ v \in Vehicle
      /\ me.type \in VehicleType \cup {Unset} /\ me.limit \in Limit \cup {Unset}
      /\ vehicle[v] \in VehicleRow
  BY DEF WriteVehicle, Named, VehicleOp, RequestType
<1>2. /\ type = vehicle[v].type \/ type \in VehicleType
      /\ limit = vehicle[v].limit \/ limit \in Limit
  BY <1>1 DEF Written, Column
<1>3. /\ vehicle'[v] = [state |-> vehicle[v].state, plate |-> vehicle[v].plate, type |-> type,
                        limit |-> limit]
      /\ \A w \in Vehicle \ {v} : vehicle'[w] = vehicle[w]
      /\ vehicle' \in [Vehicle -> VehicleRow]
  BY <1>1, <1>2 DEF WriteVehicle, VehicleRow, Type
<1>4. vehicleLock[v] = Nobody \/ vehicle'[v] = vehicle[v]
  <2>1. CASE VehicleUnlocked(v)
    BY <2>1 DEF VehicleUnlocked
  <2>2. CASE /\ Column(me.read.type, me.type) = me.read.type
             /\ Column(me.read.limit, me.limit) = me.read.limit
    <3>1. type = vehicle[v].type /\ limit = vehicle[v].limit
      BY <2>2 DEF Written
    <3> QED
      BY <1>1, <1>3, <3>1 DEF VehicleRow
  <2> QED
    BY <2>1, <2>2 DEF WriteVehicle
<1>5. EndSession(s) /\ UNCHANGED <<customer, task, deletions>>
  BY DEF WriteVehicle
<1> HIDE DEF type, limit
<1>6. \A w \in Vehicle :
        /\ vehicle'[w].state = vehicle[w].state /\ vehicle'[w].plate = vehicle[w].plate
        /\ vehicle'[w].type = vehicle[w].type \/ vehicle'[w].type \in VehicleType
        /\ vehicle'[w].limit = vehicle[w].limit \/ vehicle'[w].limit \in Limit
  BY <1>2, <1>3
<1>7. RowsMove(s)
  BY <1>3, <1>4, <1>5, <1>6 DEF RowsMove
<1>8. RowTypes' /\ TasksPlaced'
  BY <1>3, <1>5, <1>6 DEF IInv, RowsFine, RowTypes, TasksPlaced
<1>9. NoTaskOfDeleted' /\ StartedCanBePriced' /\ PlateNamesOneVehicle'
  BY <1>5, <1>6
     DEF IInv, RowsFine, TasksPlaced, NoTaskOfDeleted, StartedCanBePriced, PlateNamesOneVehicle
<1> QED
  BY <1>5, <1>7, <1>8, <1>9, EndKeeps DEF RowsFine

(* A deletion has locked its vehicle since before it found no history.     *)
LEMMA CommitVehicleDeletionKeeps ==
  ASSUME IInv, NEW s \in Session, CommitVehicleDeletion(s)
  PROVE  IInv'
<1> USE SessionFacts DEF At
<1> DEFINE v == session[s].vehicle
<1>1. /\ v \in Vehicle /\ vehicleLock[v] = s /\ vehicle[v].state = "LIVE"
      /\ ~HasVehicleHistory(v) /\ vehicle[v] \in VehicleRow
      /\ EndSession(s) /\ UNCHANGED <<customer, task>>
      /\ deletions' = [deletions EXCEPT ![v] = @ + 1]
  BY DEF CommitVehicleDeletion, Named, Holding, Knowing, VehicleOp, IInv, LockedLive
<1>2. /\ vehicle' = [vehicle EXCEPT ![v].state = "DELETED"]
      /\ vehicle'[v].state = "DELETED" /\ vehicle'[v].plate = vehicle[v].plate
      /\ vehicle'[v].limit = vehicle[v].limit
      /\ \A w \in Vehicle \ {v} : vehicle'[w] = vehicle[w]
      /\ vehicle' \in [Vehicle -> VehicleRow]
  BY <1>1 DEF CommitVehicleDeletion, VehicleRow, RowState
<1>3. RowsMove(s)
  BY <1>1, <1>2 DEF RowsMove
<1>4. RowTypes' /\ TasksPlaced'
  BY <1>1, <1>2 DEF IInv, RowsFine, RowTypes, TasksPlaced
<1>5. NoTaskOfDeleted' /\ StartedCanBePriced' /\ PlateNamesOneVehicle'
  BY <1>1, <1>2 DEF IInv, RowsFine, TasksPlaced, NoTaskOfDeleted, StartedCanBePriced,
                    PlateNamesOneVehicle, HasVehicleHistory
<1> QED
  BY <1>1, <1>3, <1>4, <1>5, EndKeeps DEF RowsFine

LEMMA InsertCustomerKeeps ==
  ASSUME IInv, NEW s \in Session, InsertCustomer(s)
  PROVE  IInv'
<1> USE SessionFacts DEF At
<1> DEFINE c == session[s].customer
          row == [state |-> "LIVE", contact |-> session[s].contact]
<1>1. /\ c \in Customer /\ row \in CustomerRow /\ customer' = [customer EXCEPT ![c] = row]
      /\ EndSession(s) /\ UNCHANGED <<vehicle, task, deletions>>
  BY DEF InsertCustomer, Named, CustomerOp, CustomerRow, RowState
<1>2. /\ customer'[c].state = "LIVE" /\ customer' \in [Customer -> CustomerRow]
      /\ \A d \in Customer \ {c} : customer'[d] = customer[d]
  BY <1>1
<1>3. RowsMove(s)
  BY <1>1, <1>2 DEF RowsMove, IInv, LockedLive
<1>4. RowTypes' /\ TasksPlaced'
  BY <1>1, <1>2 DEF IInv, RowsFine, RowTypes, TasksPlaced
<1>5. NoTaskOfDeleted' /\ StartedCanBePriced' /\ PlateNamesOneVehicle'
  <2>1. \A k \in Task : task[k].customer # Nobody => task[k].customer \in Customer
    BY DEF IInv, RowsFine, RowTypes
  <2> QED
    BY <1>1, <1>2, <2>1
       DEF IInv, RowsFine, NoTaskOfDeleted, StartedCanBePriced, PlateNamesOneVehicle
<1> QED
  BY <1>1, <1>3, <1>4, <1>5, EndKeeps DEF RowsFine

LEMMA WriteCustomerKeeps ==
  ASSUME IInv, NEW s \in Session, WriteCustomer(s)
  PROVE  IInv'
<1> USE SessionFacts DEF At
<1> DEFINE c == session[s].customer
          contact == Written(customer[c].contact, session[s].read.contact, session[s].contact)
<1>1. /\ c \in Customer /\ customer[c] \in CustomerRow
      /\ contact \in Contact \cup {Unset}
      /\ customer' = [customer EXCEPT ![c].contact = contact]
      /\ EndSession(s) /\ UNCHANGED <<vehicle, task, deletions>>
  BY DEF WriteCustomer, Named, CustomerOp, CustomerRow, Written, Column
<1> HIDE DEF contact
<1>2. /\ \A d \in Customer : customer'[d].state = customer[d].state
      /\ customer' \in [Customer -> CustomerRow]
  BY <1>1 DEF CustomerRow
<1>3. RowsMove(s)
  BY <1>1, <1>2 DEF RowsMove
<1>4. RowTypes' /\ TasksPlaced'
  BY <1>1, <1>2 DEF IInv, RowsFine, RowTypes, TasksPlaced
<1>5. NoTaskOfDeleted' /\ StartedCanBePriced' /\ PlateNamesOneVehicle'
  <2>1. \A k \in Task : task[k].customer # Nobody => task[k].customer \in Customer
    BY DEF IInv, RowsFine, RowTypes
  <2> QED
    BY <1>1, <1>2, <2>1
       DEF IInv, RowsFine, NoTaskOfDeleted, StartedCanBePriced, PlateNamesOneVehicle
<1> QED
  BY <1>1, <1>3, <1>4, <1>5, EndKeeps DEF RowsFine

LEMMA CommitCustomerDeletionKeeps ==
  ASSUME IInv, NEW s \in Session, CommitCustomerDeletion(s)
  PROVE  IInv'
<1> USE SessionFacts DEF At
<1> DEFINE c == session[s].customer
<1>1. /\ c \in Customer /\ customerLock[c] = s /\ ~HasCustomerHistory(c)
      /\ customer[c] \in CustomerRow /\ EndSession(s) /\ UNCHANGED <<vehicle, task>>
      /\ deletions' = [deletions EXCEPT ![c] = @ + 1]
  BY DEF CommitCustomerDeletion, Named, Holding, Knowing, CustomerOp
<1>2. /\ customer' = [customer EXCEPT ![c].state = "DELETED"]
      /\ \A d \in Customer \ {c} : customer'[d] = customer[d]
      /\ customer' \in [Customer -> CustomerRow]
  BY <1>1 DEF CommitCustomerDeletion, CustomerRow, RowState
<1>3. RowsMove(s)
  BY <1>1, <1>2 DEF RowsMove
<1>4. RowTypes' /\ TasksPlaced'
  BY <1>1, <1>2 DEF IInv, RowsFine, RowTypes, TasksPlaced
<1>5. NoTaskOfDeleted' /\ StartedCanBePriced' /\ PlateNamesOneVehicle'
  <2>1. \A k \in Task :
          task[k].customer # Nobody => task[k].customer \in Customer \ {c}
    BY <1>1 DEF IInv, RowsFine, RowTypes, HasCustomerHistory
  <2> QED
    BY <1>1, <1>2, <2>1
       DEF IInv, RowsFine, NoTaskOfDeleted, StartedCanBePriced, PlateNamesOneVehicle
<1> QED
  BY <1>1, <1>3, <1>4, <1>5, EndKeeps DEF RowsFine

(* What create_task commits: a vehicle and perhaps a customer that it has  *)
(* locked, and the limit it has read, which the lock has kept.             *)
LEMMA TaskCommitted ==
  ASSUME IInv, NEW s \in Session, CommitTask(s)
  PROVE  LET me == session[s] IN
         /\ me.vehicle \in Vehicle /\ vehicleLock[me.vehicle] = s
         /\ vehicle[me.vehicle].state = "LIVE"
         /\ vehicle[me.vehicle].type \in VehicleType /\ me.read = vehicle[me.vehicle]
         /\ me.customer # Nobody =>
              /\ me.customer \in Customer /\ customerLock[me.customer] = s
              /\ customer[me.customer].state = "LIVE"
         /\ me.task \in Task
         /\ task'[me.task] = [vehicle |-> me.vehicle, customer |-> me.customer,
                              limit |-> vehicle[me.vehicle].limit, fee |-> NoType]
         /\ \A k \in Task \ {me.task} : task'[k] = task[k]
<1> USE SessionFacts DEF At
<1> DEFINE me == session[s]
<1>1. /\ me.pc = "ready" /\ me.op = "CREATE_TASK" /\ me.vehicle \in Vehicle /\ me.task \in Task
      /\ me.customer # Nobody => me.customer \in Customer
      /\ task' = [task EXCEPT ![me.task] = [vehicle |-> me.vehicle, customer |-> me.customer,
                                            limit |-> me.read.limit, fee |-> NoType]]
  BY DEF CommitTask, Named, TaskOp, RequestType
<1>2. /\ vehicleLock[me.vehicle] = s
      /\ me.customer # Nobody => customerLock[me.customer] = s
      /\ vehicle[me.vehicle].type \in VehicleType /\ me.read = vehicle[me.vehicle]
  BY <1>1 DEF Holding, Knowing
<1>3. task \in [Task -> [vehicle : Vehicle \cup {Nobody}, customer : Customer \cup {Nobody},
                         limit : Limit \cup {Unset}, fee : Type]]
  BY DEF IInv, RowsFine, RowTypes
<1> QED
  BY <1>1, <1>2, <1>3 DEF IInv, LockedLive

LEMMA CommitTaskKeeps ==
  ASSUME IInv, NEW s \in Session, CommitTask(s)
  PROVE  IInv'
<1> USE SessionFacts
<1> DEFINE me == session[s]
          row == [vehicle |-> me.vehicle, customer |-> me.customer,
                  limit |-> vehicle[me.vehicle].limit, fee |-> NoType]
<1>1. /\ me.vehicle \in Vehicle /\ vehicleLock[me.vehicle] = s
      /\ vehicle[me.vehicle].state = "LIVE" /\ vehicle[me.vehicle].type \in VehicleType
      /\ me.customer # Nobody =>
           /\ me.customer \in Customer /\ customerLock[me.customer] = s
           /\ customer[me.customer].state = "LIVE"
      /\ me.task \in Task /\ task'[me.task] = row
      /\ \A k \in Task \ {me.task} : task'[k] = task[k]
  BY TaskCommitted
<1>2. /\ EndSession(s) /\ UNCHANGED <<vehicle, customer, deletions>>
      /\ task' \in [Task -> [vehicle : Vehicle \cup {Nobody}, customer : Customer \cup {Nobody},
                              limit : Limit \cup {Unset}, fee : Type]]
  <2>1. task' = [task EXCEPT ![me.task] = task'[me.task]]
    BY <1>1 DEF CommitTask, IInv, RowsFine, RowTypes
  <2>2. row \in [vehicle : Vehicle \cup {Nobody}, customer : Customer \cup {Nobody},
                 limit : Limit \cup {Unset}, fee : Type]
    BY <1>1 DEF VehicleRow, Type
  <2> QED
    BY <1>1, <2>1, <2>2 DEF CommitTask, IInv, RowsFine, RowTypes
<1>3. RowsMove(s)
  BY <1>1, <1>2 DEF RowsMove
<1>4. RowTypes' /\ TasksPlaced'
  BY <1>1, <1>2 DEF IInv, RowsFine, RowTypes, TasksPlaced
<1>5. NoTaskOfDeleted' /\ StartedCanBePriced' /\ PlateNamesOneVehicle'
  BY <1>1, <1>2 DEF IInv, RowsFine, NoTaskOfDeleted, StartedCanBePriced, PlateNamesOneVehicle
<1> QED
  BY <1>2, <1>3, <1>4, <1>5, EndKeeps DEF RowsFine

LEMMA CommitFeeKeeps ==
  ASSUME IInv, NEW s \in Session, CommitFee(s)
  PROVE  IInv'
<1> USE SessionFacts DEF At
<1> DEFINE k == session[s].task
          fee == session[s].read.type
          TaskRow == [vehicle : Vehicle \cup {Nobody}, customer : Customer \cup {Nobody},
                      limit : Limit \cup {Unset}, fee : Type]
<1>1. /\ k \in Task /\ fee \in Type /\ task[k].vehicle \in Vehicle
      /\ task' = [task EXCEPT ![k].fee = fee] /\ task \in [Task -> TaskRow]
      /\ EndSession(s) /\ UNCHANGED <<vehicle, customer, deletions>>
  BY DEF CommitFee, Named, Knowing, TaskOp, VehicleRow, IInv, RowsFine, RowTypes
<1> HIDE DEF fee
<1>2. /\ \A j \in Task : task'[j].vehicle = task[j].vehicle /\ task'[j].customer = task[j].customer
      /\ \A j \in Task \ {k} : task'[j] = task[j]
      /\ task[k] # NoTask /\ task' \in [Task -> TaskRow]
  BY <1>1, NobodyAssumption DEF NoTask
<1>3. RowsMove(s)
  BY <1>1, <1>2 DEF RowsMove
<1>4. RowTypes' /\ TasksPlaced'
  BY <1>1, <1>2 DEF IInv, RowsFine, RowTypes, TasksPlaced
<1>5. NoTaskOfDeleted' /\ StartedCanBePriced' /\ PlateNamesOneVehicle'
  BY <1>1, <1>2 DEF IInv, RowsFine, NoTaskOfDeleted, StartedCanBePriced, PlateNamesOneVehicle
<1> QED
  BY <1>1, <1>3, <1>4, <1>5, EndKeeps DEF RowsFine
-----------------------------------------------------------------------------
LEMMA Inductive == Spec => []IInv
<1>1. Init => IInv
  <2> SUFFICES ASSUME Init PROVE IInv
    OBVIOUS
  <2>1. Idle \in RequestType /\ Idle.pc = "idle" /\ Idle.op = "CREATE_TASK"
    BY DEF Idle, RequestType, VehicleOp, CustomerOp, TaskOp, NoVehicle, VehicleRow, RowState,
           Type, NoType
  <2>2. PICK plate \in [Untyped -> Plate], limit \in [Untyped -> Limit] :
          /\ \A v, w \in Untyped : plate[v] = plate[w] => v = w
          /\ vehicle = [v \in Vehicle |->
                          IF v \in Untyped
                            THEN [state |-> "LIVE", plate |-> plate[v], type |-> NoType,
                                  limit |-> limit[v]]
                            ELSE NoVehicle]
    BY DEF Init, RecordsInit
  <2>3. /\ vehicle \in [Vehicle -> VehicleRow]
        /\ \A v \in Vehicle : vehicle[v].state # "ABSENT" => vehicle[v].limit \in Limit
    BY <2>2 DEF VehicleRow, RowState, Type, NoVehicle
  <2>4. PlateNamesOneVehicle
    BY <2>2 DEF PlateNamesOneVehicle, NoVehicle
  <2>5. RowTypes /\ TasksPlaced
    BY <2>3 DEF Init, RecordsInit, RowTypes, TasksPlaced, CustomerRow, RowState, NoCustomer, NoTask, Type
  <2>6. NoTaskOfDeleted /\ StartedCanBePriced
    BY DEF Init, RecordsInit, NoTaskOfDeleted, StartedCanBePriced
  <2>7. LockTypes /\ LockedLive /\ SessionsOK
    BY <2>1 DEF Init, RecordsInit, LockTypes, LockedLive, SessionsOK
  <2>8. OneCreator /\ \A s \in Session : Named(s) /\ Holding(s) /\ Knowing(s)
    BY <2>1 DEF Init, RecordsInit, OneCreator, Creating, Named, Holding, Knowing
  <2> QED
    BY <2>4, <2>5, <2>6, <2>7, <2>8 DEF IInv, RowsFine
<1>2. IInv /\ [Next]_vars => IInv'
  <2> SUFFICES ASSUME IInv, [Next]_vars PROVE IInv'
    OBVIOUS
  <2>1. CASE UNCHANGED vars
    BY <2>1 DEF vars, IInv, RowsFine, RowTypes, LockTypes, SessionsOK, OneCreator, LockedLive,
                TasksPlaced, NoTaskOfDeleted, PlateNamesOneVehicle, StartedCanBePriced,
                Named, Holding, Knowing, Creating, HasVehicleHistory, HasCustomerHistory
  <2>2. CASE Next
    <3>1. PICK s \in Session : Begin(s) \/ Abort(s) \/ Statement(s) \/ Waiting(s)
      BY <2>2 DEF Next
    <3>2. CASE Begin(s) \/ Abort(s)
      BY <3>2, BeginKeeps, LeaveKeeps DEF Abort
    <3>3. CASE Statement(s)
      BY <3>3, ReadingKeeps, InsertVehicleKeeps, CommitVehicleDeletionKeeps,
         InsertCustomerKeeps, CommitCustomerDeletionKeeps, CommitTaskKeeps, CommitFeeKeeps
         DEF Statement
    <3>4. CASE Waiting(s)
      BY <3>4, WriteVehicleKeeps, LockVehicleToDeleteKeeps, WriteCustomerKeeps,
         LockCustomerToDeleteKeeps, LockVehicleOfTaskKeeps, LockCustomerOfTaskKeeps,
         FlushFeeKeeps DEF Waiting
    <3> QED
      BY <3>1, <3>2, <3>3, <3>4
  <2> QED
    BY <2>1, <2>2
<1> QED
  BY <1>1, <1>2, PTL DEF Spec
-----------------------------------------------------------------------------
(* Rows and locks keep their types.                                        *)
THEOREM TypeCorrect == Spec => []TypeOK
<1>1. IInv => TypeOK
  BY DEF IInv, RowsFine, RowTypes, LockTypes, TypeOK, VehicleRow, CustomerRow
<1> QED
  BY <1>1, Inductive, PTL

(* create_task and the deletions lock what they check, in whatever order   *)
(* they run, so no vehicle or customer that has a task is ever deleted.    *)
THEOREM HistoryKeepsItsRows == Spec => []NoTaskOfDeleted
<1>1. IInv => NoTaskOfDeleted
  BY DEF IInv, RowsFine
<1> QED
  BY <1>1, Inductive, PTL

(* The unique plate_number column refuses the second of two creations that *)
(* both found the plate free, and keeps a deleted vehicle's plate taken.   *)
THEOREM PlatesAreUnique == Spec => []PlateNamesOneVehicle
<1>1. IInv => PlateNamesOneVehicle
  BY DEF IInv, RowsFine
<1> QED
  BY <1>1, Inductive, PTL

(* No update, not even one from a row read long before, takes from the     *)
(* vehicle of a task the type that complete_task will price it by.         *)
THEOREM TasksCanBePriced == Spec => []StartedCanBePriced
<1>1. IInv => StartedCanBePriced
  BY DEF IInv, RowsFine
<1> QED
  BY <1>1, Inductive, PTL

(* The limit create_task copies is the one the vehicle has when the task   *)
(* is committed: its lock has kept every update of the vehicle out.        *)
THEOREM LimitIsCurrent == Spec => TaskStartsWithCurrentLimit
<1> DEFINE Copied == \A k \in Task : task[k] = NoTask /\ task'[k] # NoTask =>
                       task'[k].limit = vehicle[task'[k].vehicle].limit
<1>1. IInv /\ [Next]_vars => [Copied]_vars
  <2> SUFFICES ASSUME IInv, Next PROVE Copied
    BY DEF Copied
  <2>1. PICK s \in Session : Begin(s) \/ Abort(s) \/ Statement(s) \/ Waiting(s)
    BY DEF Next
  <2>2. CASE CommitTask(s)
    <3> DEFINE me == session[s]
    <3>1. /\ task'[me.task] = [vehicle |-> me.vehicle, customer |-> me.customer,
                               limit |-> vehicle[me.vehicle].limit, fee |-> NoType]
          /\ \A k \in Task \ {me.task} : task'[k] = task[k]
      BY <2>2, TaskCommitted
    <3>2. task'[me.task].limit = vehicle[task'[me.task].vehicle].limit
      BY <3>1
    <3> QED
      BY <3>1, <3>2
  <2>3. CASE CommitFee(s)
    <3>1. /\ task[session[s].task].vehicle \in Vehicle
          /\ task' = [task EXCEPT ![session[s].task].fee = session[s].read.type]
      BY <2>3, SessionFacts DEF CommitFee, At, Knowing
    <3>2. task[session[s].task] # NoTask
      BY <3>1, NobodyAssumption DEF NoTask
    <3> QED
      BY <3>1, <3>2 DEF IInv, RowsFine, RowTypes
  <2>4. CASE task' = task
    BY <2>4
  <2> QED
    BY <2>1, <2>2, <2>3, <2>4
       DEF Begin, Abort, Leave, Statement, Waiting, committed, FindPlate, InsertVehicle,
           ReadVehicleToUpdate, CountVehicleHistory, CommitVehicleDeletion, InsertCustomer,
           ReadCustomerToUpdate, CountCustomerHistory, CommitCustomerDeletion,
           ReadVehicleToPrice, WriteVehicle, LockVehicleToDelete, WriteCustomer,
           LockCustomerToDelete, LockVehicleOfTask, LockCustomerOfTask, FlushFee
<1>2. [][Copied]_vars => TaskStartsWithCurrentLimit
  BY DEF TaskStartsWithCurrentLimit
<1> QED
  BY <1>1, <1>2, Inductive, PTL DEF Spec
-----------------------------------------------------------------------------
(***************************************************************************)
(* The operations of MasterRecords.  Each commit is one of them, because   *)
(* of what IInv says and of a few facts more (Fit): rows once there stay,  *)
(* a task in the hands of a request is changed by no other (Sole).         *)
(***************************************************************************)
Busy(s) == session[s].pc # "idle"

Fit(s) ==
  LET me == session[s]
      past == me.pc \in {"held", "ready"} IN
  Busy(s) =>
    /\ me.op = "CREATE_CUSTOMER" => customer[me.customer].state = "ABSENT"
    /\ me.op = "UPDATE_VEHICLE" /\ past => vehicle[me.vehicle].state # "ABSENT"
    /\ me.op = "UPDATE_CUSTOMER" /\ past => customer[me.customer].state # "ABSENT"
    /\ me.op = "CREATE_TASK" => task[me.task] = NoTask
    /\ me.op = "CREATE_TASK" /\ past => Standardized(me.read)
    /\ me.op = "COMPLETE_TASK" => task[me.task] # NoTask /\ task[me.task].fee = NoType
    /\ me.op = "COMPLETE_TASK" /\ past => me.read.type \in VehicleType

Sole ==
  \A s, t \in Session :
    s # t /\ Busy(s) /\ Busy(t) /\ session[s].op = session[t].op =>
      /\ session[s].op = "CREATE_CUSTOMER" => session[s].customer # session[t].customer
      /\ session[s].op \in TaskOp => session[s].task # session[t].task

Promised == IInv /\ Sole /\ \A s \in Session : Fit(s)

(* How a step of s changes the rows that requests of others rely on.       *)
RowsKept(s) ==
  /\ \A v \in Vehicle : vehicle[v].state # "ABSENT" => vehicle'[v].state # "ABSENT"
  /\ \A c \in Customer :
       /\ customer[c].state # "ABSENT" => customer'[c].state # "ABSENT"
       /\ customer[c].state = "ABSENT" /\ customer'[c].state # "ABSENT" =>
            Busy(s) /\ session[s].op = "CREATE_CUSTOMER" /\ session[s].customer = c
  /\ \A k \in Task : task'[k] # task[k] =>
       Busy(s) /\ session[s].op \in TaskOp /\ session[s].task = k

LEMMA OthersFit ==
  ASSUME Promised, NEW s \in Session, RowsKept(s),
         \A t \in Session \ {s} : session'[t] = session[t],
         NEW t \in Session \ {s}
  PROVE  Fit(t)'
<1> DEFINE me == session[t]
<1>1. session'[t] = me /\ Fit(t) /\ Named(t) /\ Named(s) /\ Fit(s) /\ s # t
  BY DEF Promised, IInv
<1> SUFFICES ASSUME Busy(t) PROVE Fit(t)'
  BY <1>1 DEF Fit, Busy
<1>2. ASSUME me.op = "CREATE_CUSTOMER" PROVE customer'[me.customer].state = "ABSENT"
  <2>1. ~ (Busy(s) /\ session[s].op = "CREATE_CUSTOMER" /\ session[s].customer = me.customer)
    BY <1>1, <1>2 DEF Promised, Sole
  <2> QED
    BY <1>1, <1>2, <2>1 DEF Fit, Named, Busy, CustomerOp, RowsKept
<1>3. ASSUME me.op \in TaskOp PROVE me.task \in Task /\ task'[me.task] = task[me.task]
  <2>1. me.task \in Task
    BY <1>1, <1>3 DEF Named, Busy
  <2>2. ~ (Busy(s) /\ session[s].op \in TaskOp /\ session[s].task = me.task)
    <3>1. ASSUME Busy(s), session[s].op \in TaskOp, session[s].task = me.task PROVE FALSE
      <4>1. session[s].op # me.op
        BY <1>1, <1>3, <3>1 DEF Promised, Sole
      <4> QED
        BY <1>1, <1>3, <3>1, <4>1 DEF Fit, TaskOp
    <3> QED
      BY <3>1
  <2> QED
    BY <2>1, <2>2 DEF RowsKept
<1> QED
  BY <1>1, <1>2, <1>3 DEF Fit, Busy, Named, RowsKept, VehicleOp, CustomerOp, TaskOp

(* The end of a session, by a commit or without one.                       *)
LEMMA EndPromise ==
  ASSUME Promised, NEW s \in Session, EndSession(s), RowsKept(s), IInv'
  PROVE  Promised'
<1>1. session'[s] = Idle /\ Idle.pc = "idle" /\ \A t \in Session \ {s} : session'[t] = session[t]
  BY DEF EndSession, Promised, IInv, SessionsOK, Idle
<1>2. ~ Busy(s)' /\ \A t \in Session \ {s} : Busy(t)' <=> Busy(t)
  BY <1>1 DEF Busy
<1>3. Sole'
  BY <1>1, <1>2 DEF Promised, Sole
<1>4. Fit(s)'
  BY <1>2 DEF Fit
<1> QED
  BY <1>1, <1>3, <1>4, OthersFit DEF Promised

LEMMA LeavePromise ==
  ASSUME Promised, NEW s \in Session, Leave(s)
  PROVE  Promised'
<1>1. RowsKept(s)
  BY DEF Leave, committed, RowsKept
<1> QED
  BY <1>1, EndPromise, LeaveKeeps DEF Leave, Promised

(* A request begins or goes on.                                            *)
LEMMA GoOnPromise ==
  ASSUME Promised, NEW s \in Session, NEW next, Continue(s, next), UNCHANGED committed,
         IInv', Fit(s)', next.pc # "idle",
         \/ /\ Busy(s) /\ next.op = session[s].op
            /\ next.customer = session[s].customer /\ next.task = session[s].task
         \/ /\ next.op = "CREATE_CUSTOMER" => Fresh("CREATE_CUSTOMER", "customer", next.customer)
            /\ next.op \in TaskOp => Fresh(next.op, "task", next.task)
  PROVE  Promised'
<1>1. session'[s] = next /\ \A t \in Session \ {s} : session'[t] = session[t]
  BY DEF Continue, Promised, IInv, SessionsOK
<1>2. Busy(s)' /\ \A t \in Session \ {s} : Busy(t)' <=> Busy(t)
  BY <1>1 DEF Busy
<1>3. Sole'
  BY <1>1, <1>2 DEF Promised, Sole, Fresh, Busy, TaskOp
<1>4. RowsKept(s)
  BY DEF committed, RowsKept
<1> QED
  BY <1>1, <1>3, <1>4, OthersFit DEF Promised

LEMMA BeginPromise ==
  ASSUME Promised, NEW s \in Session, Begin(s)
  PROVE  Promised'
<1>0. IInv' /\ UNCHANGED committed /\ session[s].pc = "idle"
  BY BeginKeeps DEF Promised, Begin
<1> DEFINE Begun(next) ==
      /\ next.pc = "begin"
      /\ next.op = "CREATE_CUSTOMER" =>
           customer[next.customer].state = "ABSENT" /\ Fresh("CREATE_CUSTOMER", "customer", next.customer)
      /\ next.op = "CREATE_TASK" => task[next.task] = NoTask
      /\ next.op = "COMPLETE_TASK" => task[next.task] # NoTask /\ task[next.task].fee = NoType
      /\ next.op \in TaskOp => Fresh(next.op, "task", next.task)
<1>1. ASSUME NEW next, Begun(next), Continue(s, next) PROVE Promised'
  <2>1. session'[s] = next
    BY <1>1 DEF Continue, Promised, IInv, SessionsOK
  <2>2. Fit(s)'
    BY <1>0, <1>1, <2>1 DEF Fit, Busy, committed
  <2> QED
    BY <1>0, <1>1, <2>2, GoOnPromise
<1>2. ASSUME NEW v \in Vehicle, NEW p \in Plate, NEW type \in VehicleType, NEW limit \in Limit
      PROVE  Begun([Idle EXCEPT !.pc = "begin", !.op = "CREATE_VEHICLE", !.vehicle = v,
                                !.plate = p, !.type = type, !.limit = limit])
  BY DEF Idle, TaskOp
<1>3. ASSUME NEW v \in Vehicle, NEW type \in VehicleType \cup {Unset},
             NEW limit \in Limit \cup {Unset}
      PROVE  Begun([Idle EXCEPT !.pc = "begin", !.op = "UPDATE_VEHICLE", !.vehicle = v,
                                !.type = type, !.limit = limit])
  BY DEF Idle, TaskOp
<1>4. ASSUME NEW v \in Vehicle
      PROVE  Begun([Idle EXCEPT !.pc = "begin", !.op = "DELETE_VEHICLE", !.vehicle = v])
  BY DEF Idle, TaskOp
<1>5. ASSUME NEW c \in Customer, NEW contact \in Contact, customer[c].state = "ABSENT",
             Fresh("CREATE_CUSTOMER", "customer", c)
      PROVE  Begun([Idle EXCEPT !.pc = "begin", !.op = "CREATE_CUSTOMER", !.customer = c,
                                !.contact = contact])
  BY <1>5 DEF Idle, TaskOp
<1>6. ASSUME NEW c \in Customer, NEW contact \in Contact
      PROVE  Begun([Idle EXCEPT !.pc = "begin", !.op = "UPDATE_CUSTOMER", !.customer = c,
                                !.contact = contact])
  BY DEF Idle, TaskOp
<1>7. ASSUME NEW c \in Customer
      PROVE  Begun([Idle EXCEPT !.pc = "begin", !.op = "DELETE_CUSTOMER", !.customer = c])
  BY DEF Idle, TaskOp
<1>8. ASSUME NEW k \in Task, NEW v \in Vehicle, NEW c \in Customer \cup {Nobody},
             task[k] = NoTask, Fresh("CREATE_TASK", "task", k)
      PROVE  Begun([Idle EXCEPT !.pc = "begin", !.op = "CREATE_TASK", !.task = k,
                                !.vehicle = v, !.customer = c])
  BY <1>8 DEF Idle, TaskOp
<1>9. ASSUME NEW k \in Task, task[k] # NoTask, task[k].fee = NoType,
             Fresh("COMPLETE_TASK", "task", k)
      PROVE  Begun([Idle EXCEPT !.pc = "begin", !.op = "COMPLETE_TASK", !.task = k,
                                !.vehicle = task[k].vehicle])
  BY <1>9 DEF Idle, TaskOp
<1> HIDE DEF Begun
<1>10. ASSUME NEW v \in Vehicle, NEW p \in Plate, NEW type \in VehicleType, NEW limit \in Limit,
              Continue(s, [Idle EXCEPT !.pc = "begin", !.op = "CREATE_VEHICLE", !.vehicle = v,
                                       !.plate = p, !.type = type, !.limit = limit])
       PROVE  Promised'
  BY <1>1, <1>2, <1>10
<1>11. ASSUME NEW v \in Vehicle, NEW type \in VehicleType \cup {Unset},
              NEW limit \in Limit \cup {Unset},
              Continue(s, [Idle EXCEPT !.pc = "begin", !.op = "UPDATE_VEHICLE", !.vehicle = v,
                                       !.type = type, !.limit = limit])
       PROVE  Promised'
  BY <1>1, <1>3, <1>11
<1>12. ASSUME NEW v \in Vehicle,
              Continue(s, [Idle EXCEPT !.pc = "begin", !.op = "DELETE_VEHICLE", !.vehicle = v])
       PROVE  Promised'
  BY <1>1, <1>4, <1>12
<1>13. ASSUME NEW c \in Customer, NEW contact \in Contact, customer[c].state = "ABSENT",
              Fresh("CREATE_CUSTOMER", "customer", c),
              Continue(s, [Idle EXCEPT !.pc = "begin", !.op = "CREATE_CUSTOMER",
                                       !.customer = c, !.contact = contact])
       PROVE  Promised'
  BY <1>1, <1>5, <1>13
<1>14. ASSUME NEW c \in Customer, NEW contact \in Contact,
              Continue(s, [Idle EXCEPT !.pc = "begin", !.op = "UPDATE_CUSTOMER", !.customer = c,
                                       !.contact = contact])
       PROVE  Promised'
  BY <1>1, <1>6, <1>14
<1>15. ASSUME NEW c \in Customer,
              Continue(s, [Idle EXCEPT !.pc = "begin", !.op = "DELETE_CUSTOMER", !.customer = c])
       PROVE  Promised'
  BY <1>1, <1>7, <1>15
<1>16. ASSUME NEW k \in Task, NEW v \in Vehicle, NEW c \in Customer \cup {Nobody},
              task[k] = NoTask, Fresh("CREATE_TASK", "task", k),
              Continue(s, [Idle EXCEPT !.pc = "begin", !.op = "CREATE_TASK", !.task = k,
                                       !.vehicle = v, !.customer = c])
       PROVE  Promised'
  BY <1>1, <1>8, <1>16
<1>17. ASSUME NEW k \in Task, task[k] # NoTask, task[k].fee = NoType,
              Fresh("COMPLETE_TASK", "task", k),
              Continue(s, [Idle EXCEPT !.pc = "begin", !.op = "COMPLETE_TASK", !.task = k,
                                       !.vehicle = task[k].vehicle])
       PROVE  Promised'
  BY <1>1, <1>9, <1>17
<1> HIDE <1>0, <1>1, <1>2, <1>3, <1>4, <1>5, <1>6, <1>7, <1>8, <1>9
<1> QED
  BY <1>10, <1>11, <1>12, <1>13, <1>14, <1>15, <1>16, <1>17 DEF Begin

LEMMA StatementPromise ==
  ASSUME Promised, NEW s \in Session, IInv',
         \/ FindPlate(s) \/ ReadVehicleToUpdate(s) \/ CountVehicleHistory(s)
         \/ ReadCustomerToUpdate(s) \/ CountCustomerHistory(s) \/ ReadVehicleToPrice(s)
         \/ LockVehicleToDelete(s) \/ LockCustomerToDelete(s) \/ LockVehicleOfTask(s)
         \/ LockCustomerOfTask(s) \/ FlushFee(s)
  PROVE  Promised'
<1> DEFINE me == session[s]
<1>0. /\ IInv /\ me \in RequestType /\ Named(s) /\ Fit(s)
      /\ vehicle \in [Vehicle -> VehicleRow]
  BY SessionFacts DEF Promised
<1>1. ASSUME NEW next, Continue(s, next), UNCHANGED committed, Busy(s),
             next.pc \in {"held", "ready"}, next.op = me.op, next.vehicle = me.vehicle,
             next.customer = me.customer, next.task = me.task,
             me.op = "UPDATE_VEHICLE" => vehicle[me.vehicle].state # "ABSENT",
             me.op = "UPDATE_CUSTOMER" => customer[me.customer].state # "ABSENT",
             me.op = "CREATE_TASK" => Standardized(next.read),
             me.op = "COMPLETE_TASK" => next.read.type \in VehicleType
      PROVE  Promised'
  <2>1. session'[s] = next
    BY <1>0, <1>1 DEF Continue, IInv, SessionsOK
  <2>2. Fit(s)'
    BY <1>0, <1>1, <2>1 DEF Fit, Busy, committed, Standardized
  <2> QED
    BY <1>1, <2>2, GoOnPromise
<1> USE <1>0 DEF At, Busy
<1>2. CASE FindPlate(s)
  BY <1>1, <1>2, LeavePromise DEF FindPlate, RequestType
<1>3. CASE ReadVehicleToUpdate(s)
  BY <1>1, <1>3, LeavePromise DEF ReadVehicleToUpdate, RequestType
<1>4. CASE CountVehicleHistory(s)
  BY <1>1, <1>4, LeavePromise DEF CountVehicleHistory, RequestType
<1>5. CASE ReadCustomerToUpdate(s)
  BY <1>1, <1>5, LeavePromise DEF ReadCustomerToUpdate, RequestType
<1>6. CASE CountCustomerHistory(s)
  BY <1>1, <1>6, LeavePromise DEF CountCustomerHistory, RequestType
<1>7. CASE ReadVehicleToPrice(s)
  <2>1. Standardized(vehicle[me.vehicle]) => vehicle[me.vehicle].type \in VehicleType
    BY <1>7 DEF ReadVehicleToPrice, Named, TaskOp, Standardized, VehicleRow, Type
  <2> QED
    BY <1>1, <1>7, <2>1, LeavePromise DEF ReadVehicleToPrice, RequestType
<1>8. CASE LockVehicleToDelete(s)
  BY <1>1, <1>8, LeavePromise DEF LockVehicleToDelete, RequestType
<1>9. CASE LockCustomerToDelete(s)
  BY <1>1, <1>9, LeavePromise DEF LockCustomerToDelete, RequestType
<1>10. CASE LockVehicleOfTask(s)
  BY <1>1, <1>10, LeavePromise DEF LockVehicleOfTask, RequestType
<1>11. CASE LockCustomerOfTask(s)
  BY <1>1, <1>11, LeavePromise DEF LockCustomerOfTask, RequestType, Fit
<1>12. CASE FlushFee(s)
  BY <1>1, <1>12 DEF FlushFee, RequestType, Fit
<1> QED
  BY <1>2, <1>3, <1>4, <1>5, <1>6, <1>7, <1>8, <1>9, <1>10, <1>11, <1>12

(* A commit is an operation of MasterRecords, on rows that are its own.    *)
Commits(s) ==
  \/ InsertVehicle(s) \/ WriteVehicle(s) \/ CommitVehicleDeletion(s)
  \/ InsertCustomer(s) \/ WriteCustomer(s) \/ CommitCustomerDeletion(s)
  \/ CommitTask(s) \/ CommitFee(s)

LEMMA CommitMaps ==
  ASSUME Promised, NEW s \in Session, Commits(s)
  PROVE  (RecordsNext \/ UNCHANGED committed) /\ RowsKept(s)
<1> DEFINE me == session[s]
<1>0. /\ IInv /\ me \in RequestType /\ Named(s) /\ Fit(s) /\ Knowing(s) /\ Holding(s)
      /\ vehicle \in [Vehicle -> VehicleRow] /\ customer \in [Customer -> CustomerRow]
      /\ LockedLive /\ s # Nobody
      /\ task \in [Task -> [vehicle : Vehicle \cup {Nobody}, customer : Customer \cup {Nobody},
                            limit : Limit \cup {Unset}, fee : Type]]
  BY SessionFacts DEF Promised, IInv, RowsFine, RowTypes
<1> USE <1>0 DEF At
<1>1. CASE InsertVehicle(s)
  <2>1. me.vehicle \in Vehicle /\ vehicle[me.vehicle].state = "ABSENT"
    BY <1>1 DEF InsertVehicle, Named, Knowing, Creating, VehicleOp
  <2>2. CASE PlateUnused(me.plate) /\ vehicle' # vehicle
    <3>1. CreateVehicle(me.vehicle)
      BY <1>1, <2>1, <2>2 DEF InsertVehicle, CreateVehicle, Named, Leave, committed
    <3> QED
      BY <2>1, <3>1 DEF CreateVehicle, RecordsNext, RowsKept
  <2>3. CASE ~ (PlateUnused(me.plate) /\ vehicle' # vehicle)
    BY <1>1, <2>3 DEF InsertVehicle, Leave, committed, RowsKept
  <2> QED
    BY <2>2, <2>3
<1>2. CASE WriteVehicle(s)
  <2> DEFINE v == me.vehicle
             type == Written(vehicle[v].type, me.read.type, me.type)
             limit == Written(vehicle[v].limit, me.read.limit, me.limit)
  <2>1. /\ v \in Vehicle /\ vehicle[v].state # "ABSENT"
        /\ vehicle' = [vehicle EXCEPT ![v].type = type, ![v].limit = limit]
        /\ UNCHANGED <<customer, task, deletions>>
    BY <1>2 DEF WriteVehicle, Named, VehicleOp, Fit, Busy
  <2>2. type \in VehicleType \cup {vehicle[v].type} /\ limit \in Limit \cup {vehicle[v].limit}
    BY DEF Written, Column, RequestType
  <2> HIDE DEF type, limit
  <2>3. UpdateVehicle(v)
    BY <2>1, <2>2 DEF UpdateVehicle
  <2> QED
    BY <2>1, <2>3 DEF RecordsNext, RowsKept, VehicleRow
<1>3. CASE CommitVehicleDeletion(s)
  <2>1. me.vehicle \in Vehicle /\ DeleteVehicle(me.vehicle)
    BY <1>3 DEF CommitVehicleDeletion, Named, VehicleOp, Holding, Knowing, LockedLive, DeleteVehicle
  <2> QED
    BY <2>1 DEF DeleteVehicle, RecordsNext, RowsKept, VehicleRow
<1>4. CASE InsertCustomer(s)
  <2>1. me.customer \in Customer /\ CreateCustomer(me.customer)
    BY <1>4 DEF InsertCustomer, Named, CustomerOp, Fit, Busy, CreateCustomer
  <2> QED
    BY <1>4, <2>1 DEF CreateCustomer, RecordsNext, RowsKept, CustomerRow, InsertCustomer, Busy
<1>5. CASE WriteCustomer(s)
  <2> DEFINE c == me.customer
             contact == Written(customer[c].contact, me.read.contact, me.contact)
  <2>1. /\ c \in Customer /\ customer[c].state # "ABSENT" /\ me.contact \in Contact
        /\ customer' = [customer EXCEPT ![c].contact = contact]
        /\ UNCHANGED <<vehicle, task, deletions>>
    BY <1>5 DEF WriteCustomer, Named, CustomerOp, Fit, Busy
  <2>2. contact \in Contact \/ contact = customer[c].contact
    BY <2>1 DEF Written, Column
  <2> HIDE DEF contact
  <2>3. CASE contact \in Contact
    BY <2>1, <2>3 DEF UpdateCustomer, RecordsNext, RowsKept, CustomerRow
  <2>4. CASE contact = customer[c].contact
    <3>1. customer' = customer
      BY <2>1, <2>4 DEF CustomerRow
    <3> QED
      BY <2>1, <3>1 DEF committed, RowsKept
  <2> QED
    BY <2>2, <2>3, <2>4
<1>6. CASE CommitCustomerDeletion(s)
  <2>1. me.customer \in Customer /\ DeleteCustomer(me.customer)
    BY <1>6 DEF CommitCustomerDeletion, Named, CustomerOp, Holding, Knowing, LockedLive,
                DeleteCustomer
  <2> QED
    BY <2>1 DEF DeleteCustomer, RecordsNext, RowsKept, CustomerRow
<1>7. CASE CommitTask(s)
  <2>1. /\ me.vehicle \in Vehicle /\ vehicle[me.vehicle].state = "LIVE"
        /\ me.read = vehicle[me.vehicle] /\ me.task \in Task
        /\ me.customer # Nobody =>
             me.customer \in Customer /\ customer[me.customer].state = "LIVE"
        /\ task[me.task] = NoTask /\ Standardized(me.read)
        /\ UNCHANGED <<vehicle, customer, deletions>> /\ me.op = "CREATE_TASK" /\ Busy(s)
    BY <1>7, TaskCommitted DEF CommitTask, Fit, Busy
  <2>2. CreateTask(me.task)
    <3>1. me.customer \in Customer \cup {Nobody}
      BY <2>1
    <3> QED
      BY <1>7, <2>1, <3>1 DEF CommitTask, CreateTask
  <2> QED
    BY <1>7, <2>1, <2>2 DEF RecordsNext, RowsKept, CommitTask, TaskOp
<1>8. CASE CommitFee(s)
  <2>1. me.task \in Task /\ PriceTask(me.task)
    BY <1>8 DEF CommitFee, Named, TaskOp, Fit, Busy, PriceTask
  <2> QED
    BY <1>8, <2>1 DEF RecordsNext, RowsKept, CommitFee, TaskOp, Busy
<1> QED
  BY <1>1, <1>2, <1>3, <1>4, <1>5, <1>6, <1>7, <1>8 DEF Commits

LEMMA Promise ==
  ASSUME Promised, NEW s \in Session, Step(s), IInv'
  PROVE  Promised' /\ [RecordsNext]_committed
<1>1. CASE Commits(s) /\ EndSession(s)
  BY <1>1, CommitMaps, EndPromise
<1>2. CASE Commits(s) /\ ~ EndSession(s)
  <2>1. Leave(s)
    BY <1>2 DEF Commits, InsertVehicle, WriteVehicle, CommitVehicleDeletion, InsertCustomer,
                WriteCustomer, CommitCustomerDeletion, CommitTask, CommitFee
  <2> QED
    BY <2>1, LeavePromise DEF Leave
<1>3. CASE Begin(s) \/ Abort(s)
  BY <1>3, BeginPromise, LeavePromise DEF Begin, Abort, Leave
<1>4. ASSUME ~ Commits(s), Statement(s) \/ Waiting(s)
      PROVE  Promised' /\ [RecordsNext]_committed
  BY <1>4, StatementPromise
     DEF Commits, Statement, Waiting, FindPlate, ReadVehicleToUpdate, CountVehicleHistory,
         ReadCustomerToUpdate, CountCustomerHistory, ReadVehicleToPrice, LockVehicleToDelete,
         LockCustomerToDelete, LockVehicleOfTask, LockCustomerOfTask, FlushFee, Leave
<1> QED
  BY <1>1, <1>2, <1>3, <1>4 DEF Step

LEMMA PromiseHolds == Spec => []Promised
<1>1. Init /\ IInv => Promised
  BY DEF Init, RecordsInit, Promised, Sole, Fit, Busy, Idle
<1>2. Promised /\ IInv' /\ [Next]_vars => Promised'
  <2> SUFFICES ASSUME Promised, IInv', [Next]_vars PROVE Promised'
    OBVIOUS
  <2>1. CASE UNCHANGED vars
    BY <2>1 DEF vars, Promised, Sole, Fit, Busy
  <2>2. CASE Next
    BY <2>2, Promise DEF Next, Step
  <2> QED
    BY <2>1, <2>2
<1> QED
  BY <1>1, <1>2, Inductive, PTL DEF Spec

(* What interleaved requests make of vehicles, customers and tasks is what *)
(* the operations of MasterRecords make of them, one after the other in    *)
(* the order of the commits.                                               *)
THEOREM RequestsImplementRecords == Spec => ImplementsRecords
<1>1. Init => RecordsInit
  BY DEF Init
<1>2. Promised /\ IInv' /\ [Next]_vars => [RecordsNext]_committed
  BY Promise DEF Next, Step, vars, committed
<1> QED
  BY <1>1, <1>2, PromiseHolds, Inductive, PTL DEF Spec, ImplementsRecords, RecordsSpec
-----------------------------------------------------------------------------
(***************************************************************************)
(* Waiting.  A lock is held by a request that is past the statement that   *)
(* took it (LocksUsed), and such a request waits for nobody, except that   *)
(* create_task, holding its vehicle, may wait for its customer, whose      *)
(* holder waits for nobody.                                                *)
(***************************************************************************)
LocksUsed ==
  /\ \A v \in Vehicle, s \in Session : vehicleLock[v] = s =>
       /\ session[s].vehicle = v /\ session[s].pc \in {"held", "ready"}
       /\ session[s].op \in {"DELETE_VEHICLE", "CREATE_TASK"}
  /\ \A c \in Customer, s \in Session : customerLock[c] = s =>
       /\ session[s].customer = c
       /\ \/ session[s].op = "DELETE_CUSTOMER" /\ session[s].pc \in {"held", "ready"}
          \/ At(s, "ready", "CREATE_TASK")
  /\ \A v \in Vehicle : \A s \in vehicleShare[v] : At(s, "ready", "COMPLETE_TASK")

LEMMA EndUsed ==
  ASSUME IInv, LocksUsed, NEW s \in Session, EndSession(s)
  PROVE  LocksUsed'
<1>1. /\ \A t \in Session \ {s} : session'[t] = session[t]
      /\ \A v \in Vehicle : vehicleLock'[v] # s /\ vehicleShare'[v] = vehicleShare[v] \ {s}
      /\ \A v \in Vehicle, t \in Session : vehicleLock'[v] = t => vehicleLock[v] = t
      /\ \A c \in Customer : customerLock'[c] # s
      /\ \A c \in Customer, t \in Session : customerLock'[c] = t => customerLock[c] = t
      /\ \A v \in Vehicle : vehicleShare[v] \subseteq Session
  BY NobodyAssumption DEF EndSession, IInv, SessionsOK, LockTypes
<1> QED
  BY <1>1 DEF LocksUsed, At

(* A request that goes on with the locks it has, if any.                   *)
LEMMA OnUsed ==
  ASSUME IInv, LocksUsed, NEW s \in Session, NEW next, Continue(s, next), UNCHANGED locks,
         \/ session[s].pc \in {"idle", "begin"}
         \/ /\ next.op = session[s].op /\ next.pc = "ready"
            /\ next.vehicle = session[s].vehicle /\ next.customer = session[s].customer
  PROVE  LocksUsed'
<1>1. /\ session'[s] = next /\ \A t \in Session \ {s} : session'[t] = session[t]
      /\ UNCHANGED <<vehicleLock, customerLock, vehicleShare>>
      /\ \A v \in Vehicle : vehicleShare[v] \subseteq Session
  BY DEF Continue, IInv, SessionsOK, LockTypes, locks
<1> QED
  BY <1>1 DEF LocksUsed, At

LEMMA StepUsed ==
  ASSUME IInv, LocksUsed, NEW s \in Session, Step(s)
  PROVE  LocksUsed'
<1> DEFINE me == session[s]
<1>0. /\ session \in [Session -> RequestType] /\ me \in RequestType /\ Named(s)
      /\ vehicleLock \in [Vehicle -> Session \cup {Nobody}]
      /\ customerLock \in [Customer -> Session \cup {Nobody}]
      /\ vehicleShare \in [Vehicle -> SUBSET Session]
  BY DEF IInv, SessionsOK, LockTypes
<1>1. CASE EndSession(s)
  BY <1>1, EndUsed
<1>2. CASE Begin(s)
  <2>1. UNCHANGED locks /\ me.pc = "idle"
    BY <1>2 DEF Begin
  <2>2. ASSUME NEW next, Continue(s, next) PROVE LocksUsed'
    BY <2>1, <2>2, OnUsed
  <2> HIDE <1>0, <2>1
  <2> QED
    BY <1>2, <2>2 DEF Begin
<1>3. CASE \/ FindPlate(s) \/ ReadVehicleToUpdate(s) \/ CountVehicleHistory(s)
           \/ ReadCustomerToUpdate(s) \/ CountCustomerHistory(s) \/ ReadVehicleToPrice(s)
  <2>1. CASE Leave(s)
    BY <2>1, EndUsed DEF Leave
  <2>2. ASSUME ~ Leave(s)
        PROVE  /\ UNCHANGED locks
               /\ \E next : /\ Continue(s, next)
                            /\ \/ me.pc = "begin"
                               \/ /\ next.op = me.op /\ next.pc = "ready"
                                  /\ next.vehicle = me.vehicle /\ next.customer = me.customer
    <3>1. /\ UNCHANGED locks
          /\ \/ me.pc = "begin" /\ \E next : Continue(s, next)
             \/ Continue(s, [me EXCEPT !.pc = "ready"])
      BY <1>3, <2>2 DEF At, FindPlate, ReadVehicleToUpdate, CountVehicleHistory,
         ReadCustomerToUpdate, CountCustomerHistory, ReadVehicleToPrice
    <3> DEFINE next == [me EXCEPT !.pc = "ready"]
    <3>2. /\ next.op = me.op /\ next.pc = "ready"
          /\ next.vehicle = me.vehicle /\ next.customer = me.customer
      BY <1>0 DEF RequestType
    <3> HIDE DEF next
    <3> QED
      BY <3>1, <3>2 DEF next
  <2> QED
    BY <2>1, <2>2, OnUsed
<1>4. CASE LockVehicleToDelete(s) /\ ~ EndSession(s)
  <2>1. /\ me.vehicle \in Vehicle /\ me.pc = "begin" /\ me.op = "DELETE_VEHICLE"
        /\ session' = [session EXCEPT ![s] = [me EXCEPT !.pc = "held"]]
        /\ vehicleLock' = [vehicleLock EXCEPT ![me.vehicle] = s]
        /\ UNCHANGED <<customerLock, vehicleShare>>
    BY <1>0, <1>4 DEF LockVehicleToDelete, At, Named, VehicleOp, Leave, Continue
  <2> QED
    BY <1>0, <2>1, NobodyAssumption DEF LocksUsed, At, RequestType
<1>5. CASE LockCustomerToDelete(s) /\ ~ EndSession(s)
  <2>1. /\ me.customer \in Customer /\ me.pc = "begin" /\ me.op = "DELETE_CUSTOMER"
        /\ session' = [session EXCEPT ![s] = [me EXCEPT !.pc = "held"]]
        /\ customerLock' = [customerLock EXCEPT ![me.customer] = s]
        /\ UNCHANGED <<vehicleLock, vehicleShare>>
    BY <1>0, <1>5 DEF LockCustomerToDelete, At, Named, CustomerOp, Leave, Continue
  <2> QED
    BY <1>0, <2>1, NobodyAssumption DEF LocksUsed, At, RequestType
<1>6. CASE LockVehicleOfTask(s) /\ ~ EndSession(s)
  <2>1. PICK pc \in {"held", "ready"} :
          session' = [session EXCEPT ![s] = [me EXCEPT !.pc = pc, !.read = vehicle[me.vehicle]]]
    BY <1>6 DEF LockVehicleOfTask, Leave, Continue
  <2>2. /\ me.vehicle \in Vehicle /\ me.pc = "begin" /\ me.op = "CREATE_TASK"
        /\ vehicleLock' = [vehicleLock EXCEPT ![me.vehicle] = s]
        /\ UNCHANGED <<customerLock, vehicleShare>>
    BY <1>0, <1>6 DEF LockVehicleOfTask, At, Named, TaskOp, Leave
  <2> QED
    BY <1>0, <2>1, <2>2, NobodyAssumption DEF LocksUsed, At, RequestType
<1>7. CASE LockCustomerOfTask(s) /\ ~ EndSession(s)
  <2>1. /\ me.customer \in Customer /\ me.pc = "held" /\ me.op = "CREATE_TASK"
        /\ session' = [session EXCEPT ![s] = [me EXCEPT !.pc = "ready"]]
        /\ customerLock' = [customerLock EXCEPT ![me.customer] = s]
        /\ UNCHANGED <<vehicleLock, vehicleShare>>
    BY <1>0, <1>7 DEF LockCustomerOfTask, At, Named, Leave, Continue
  <2> QED
    BY <1>0, <2>1, NobodyAssumption DEF LocksUsed, At, RequestType
<1>8. CASE FlushFee(s)
  <2>1. /\ me.vehicle \in Vehicle /\ me.pc = "held" /\ me.op = "COMPLETE_TASK"
        /\ session' = [session EXCEPT ![s] = [me EXCEPT !.pc = "ready"]]
        /\ vehicleShare' = [vehicleShare EXCEPT ![me.vehicle] = @ \cup {s}]
        /\ UNCHANGED <<vehicleLock, customerLock>>
    BY <1>0, <1>8 DEF FlushFee, At, Named, TaskOp, Continue
  <2> QED
    BY <1>0, <2>1, NobodyAssumption DEF LocksUsed, At, RequestType
<1> QED
  BY <1>1, <1>2, <1>3, <1>4, <1>5, <1>6, <1>7, <1>8
     DEF Step, Statement, Waiting, Abort, Leave, InsertVehicle, WriteVehicle,
         CommitVehicleDeletion, InsertCustomer, WriteCustomer, CommitCustomerDeletion,
         CommitTask, CommitFee

LEMMA LocksAreUsed == Spec => []LocksUsed
<1>1. Init => LocksUsed
  BY NobodyAssumption DEF Init, LocksUsed
<1>2. IInv /\ LocksUsed /\ [Next]_vars => LocksUsed'
  <2> SUFFICES ASSUME IInv, LocksUsed, [Next]_vars PROVE LocksUsed'
    OBVIOUS
  <2>1. CASE UNCHANGED vars
    BY <2>1 DEF vars, LocksUsed, At
  <2>2. CASE Next
    BY <2>2, StepUsed DEF Next, Step
  <2> QED
    BY <2>1, <2>2
<1> QED
  BY <1>1, <1>2, Inductive, PTL DEF Spec

(* No two sessions, nor any number of them, wait for each other: there are *)
(* never more than two waits in a row, and at their end is a request that  *)
(* needs no lock for its next statement.                                   *)
THEOREM WaitsAreShort == Spec => []NobodyWaitsInCircle
<1>1. IInv /\ LocksUsed => NobodyWaitsInCircle
  <2> SUFFICES ASSUME IInv, LocksUsed, NEW s \in Session, NEW r \in Session, WaitsFor(s, r)
               PROVE  /\ session[r].pc # "idle"
                      /\ \A q \in Session : WaitsFor(r, q) => \A p \in Session : ~ WaitsFor(q, p)
    BY DEF NobodyWaitsInCircle
  <2>1. \A t \in Session : Named(t) /\ session[t].customer \in Customer \cup {Nobody}
    BY DEF IInv, SessionsOK, RequestType
  <2>2. ASSUME NEW t \in Session, NEW q \in Session, WaitsFor(t, q)
        PROVE  /\ session[q].pc \in {"held", "ready"}
               /\ session[q].op \in {"DELETE_VEHICLE", "CREATE_TASK", "DELETE_CUSTOMER", "COMPLETE_TASK"}
               /\ session[q].op = "COMPLETE_TASK" => session[q].pc = "ready"
               /\ At(t, "held", "CREATE_TASK") => ~ At(q, "held", "CREATE_TASK")
    <3>1. session[t].op \in VehicleOp \cup TaskOp => session[t].vehicle \in Vehicle
      BY <2>1, <2>2 DEF WaitsFor, At, Named
    <3>2. session[t].op \in CustomerOp \/ At(t, "held", "CREATE_TASK") =>
            session[t].customer \in Customer
      BY <2>1, <2>2 DEF WaitsFor, At, Named
    <3>3. CASE At(t, "begin", "DELETE_VEHICLE") \/ At(t, "begin", "CREATE_TASK")
      BY <2>2, <3>1, <3>3 DEF WaitsFor, At, LocksUsed, VehicleOp, TaskOp
    <3>4. CASE At(t, "ready", "UPDATE_VEHICLE") \/ At(t, "held", "COMPLETE_TASK")
      BY <2>2, <3>1, <3>4 DEF WaitsFor, At, LocksUsed, VehicleOp, TaskOp
    <3>5. CASE \/ At(t, "begin", "DELETE_CUSTOMER") \/ At(t, "ready", "UPDATE_CUSTOMER")
               \/ At(t, "held", "CREATE_TASK")
      BY <2>2, <3>2, <3>5 DEF WaitsFor, At, LocksUsed, CustomerOp
    <3> QED
      BY <2>2, <3>3, <3>4, <3>5 DEF WaitsFor
  <2>3. ASSUME NEW q \in Session, WaitsFor(r, q), NEW p \in Session PROVE ~ WaitsFor(q, p)
    <3>1. At(r, "held", "CREATE_TASK")
      BY <2>2, <2>3 DEF WaitsFor, At
    <3>2. /\ ~ At(q, "held", "CREATE_TASK") /\ session[q].pc \in {"held", "ready"}
          /\ session[q].op \in {"DELETE_VEHICLE", "CREATE_TASK", "DELETE_CUSTOMER", "COMPLETE_TASK"}
          /\ session[q].op = "COMPLETE_TASK" => session[q].pc = "ready"
      BY <2>2, <2>3, <3>1
    <3> QED
      BY <3>2 DEF WaitsFor, At
  <2>4. session[r].pc # "idle"
    BY <2>2
  <2> QED
    BY <2>3, <2>4
<1> QED
  BY <1>1, Inductive, LocksAreUsed, PTL
=============================================================================
