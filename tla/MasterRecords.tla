--------------------------- MODULE MasterRecords ---------------------------
(***************************************************************************)
(* What the transactions on vehicles, customers and tasks promise: the     *)
(* committed rows, each operation at once and on the rows as they are.     *)
(* MasterData has the same operations statement by statement.              *)
(***************************************************************************)
EXTENDS Naturals, FiniteSets

CONSTANTS
  Vehicle, Customer, Task,   \* identities of rows, used or not
  Plate,                     \* values of plate_number
  VehicleType,               \* the members of the VehicleType enumeration
  Limit,                     \* allowed gross weights, in any unit
  Contact,                   \* what update_customer may change
  Untyped,                   \* vehicles from before vehicle types, type NULL
  Nobody                     \* no customer, no row

ASSUME UntypedAssumption == Untyped \subseteq Vehicle

VARIABLES
  vehicle,      \* the committed vehicles rows
  customer,     \* the committed customers rows
  task,         \* vehicle, customer, limit and fee of each committed task
  deletions     \* audit rows VEHICLE_DELETED and CUSTOMER_DELETED, per row

committed == <<vehicle, customer, task, deletions>>

RowState == {"ABSENT", "LIVE", "DELETED"}
NoType == "NULL"
Type == VehicleType \cup {NoType}

(* A column without a value, or one that a request leaves alone.           *)
Unset == "unset"

NoVehicle == [state |-> "ABSENT", plate |-> Unset, type |-> NoType, limit |-> Unset]
NoCustomer == [state |-> "ABSENT", contact |-> Unset]
NoTask == [vehicle |-> Nobody, customer |-> Nobody, limit |-> Unset, fee |-> NoType]
-----------------------------------------------------------------------------
(***************************************************************************)
(* Deliberate faults, for testing the properties; no specification uses    *)
(* them.                                                                   *)
(***************************************************************************)
PlateOfDeletedFree(p) == \A v \in Vehicle : vehicle[v].state = "LIVE" => vehicle[v].plate # p
-----------------------------------------------------------------------------
HasVehicleHistory(v) == \E k \in Task : task[k].vehicle = v
HasCustomerHistory(c) == \E k \in Task : task[k].customer = c

(* The plate_number column is unique over all rows, the deleted included.  *)
PlateUnused(p) == \A v \in Vehicle : vehicle[v].plate # p

Standardized(row) == row.type # NoType

(* Vehicles from before vehicle types may have been weighed already.       *)
RecordsInit ==
  /\ \E plate \in [Untyped -> Plate], limit \in [Untyped -> Limit] :
       /\ \A v, w \in Untyped : plate[v] = plate[w] => v = w
       /\ vehicle = [v \in Vehicle |->
                       IF v \in Untyped
                         THEN [state |-> "LIVE", plate |-> plate[v], type |-> NoType,
                               limit |-> limit[v]]
                         ELSE NoVehicle]
  /\ customer = [c \in Customer |-> NoCustomer]
  /\ task = [k \in Task |-> NoTask]
  /\ deletions = [x \in Vehicle \cup Customer |-> 0]

CreateVehicle(v) ==
  /\ vehicle[v].state = "ABSENT"
  /\ \E p \in Plate, type \in VehicleType, limit \in Limit :
       /\ PlateUnused(p)
       /\ vehicle' = [vehicle EXCEPT ![v] =
                        [state |-> "LIVE", plate |-> p, type |-> type, limit |-> limit]]
  /\ UNCHANGED <<customer, task, deletions>>

(* The row may have been deleted since the request found it; its type may  *)
(* be replaced and never taken away.                                       *)
UpdateVehicle(v) ==
  /\ vehicle[v].state # "ABSENT"
  /\ \E type \in VehicleType \cup {vehicle[v].type}, limit \in Limit \cup {vehicle[v].limit} :
       vehicle' = [vehicle EXCEPT ![v].type = type, ![v].limit = limit]
  /\ UNCHANGED <<customer, task, deletions>>

DeleteVehicle(v) ==
  /\ vehicle[v].state = "LIVE" /\ ~HasVehicleHistory(v)
  /\ vehicle' = [vehicle EXCEPT ![v].state = "DELETED"]
  /\ deletions' = [deletions EXCEPT ![v] = @ + 1]
  /\ UNCHANGED <<customer, task>>

CreateCustomer(c) ==
  /\ customer[c].state = "ABSENT"
  /\ \E contact \in Contact :
       customer' = [customer EXCEPT ![c] = [state |-> "LIVE", contact |-> contact]]
  /\ UNCHANGED <<vehicle, task, deletions>>

UpdateCustomer(c) ==
  /\ customer[c].state # "ABSENT"
  /\ \E contact \in Contact : customer' = [customer EXCEPT ![c].contact = contact]
  /\ UNCHANGED <<vehicle, task, deletions>>

DeleteCustomer(c) ==
  /\ customer[c].state = "LIVE" /\ ~HasCustomerHistory(c)
  /\ customer' = [customer EXCEPT ![c].state = "DELETED"]
  /\ deletions' = [deletions EXCEPT ![c] = @ + 1]
  /\ UNCHANGED <<vehicle, task>>

CreateTask(k) ==
  /\ task[k] = NoTask
  /\ \E v \in Vehicle, c \in Customer \cup {Nobody} :
       /\ vehicle[v].state = "LIVE" /\ Standardized(vehicle[v])
       /\ c # Nobody => customer[c].state = "LIVE"
       /\ task' = [task EXCEPT ![k] = [vehicle |-> v, customer |-> c,
                                       limit |-> vehicle[v].limit, fee |-> NoType]]
  /\ UNCHANGED <<vehicle, customer, deletions>>

(* By the type the vehicle has or, priced without a lock, lately had.      *)
PriceTask(k) ==
  /\ task[k] # NoTask /\ task[k].fee = NoType
  /\ \E type \in VehicleType : task' = [task EXCEPT ![k].fee = type]
  /\ UNCHANGED <<vehicle, customer, deletions>>

RecordsNext ==
  \/ \E v \in Vehicle : CreateVehicle(v) \/ UpdateVehicle(v) \/ DeleteVehicle(v)
  \/ \E c \in Customer : CreateCustomer(c) \/ UpdateCustomer(c) \/ DeleteCustomer(c)
  \/ \E k \in Task : CreateTask(k) \/ PriceTask(k)

RecordsSpec == RecordsInit /\ [][RecordsNext]_committed
-----------------------------------------------------------------------------
(* A vehicle or customer with any weighing task is never soft-deleted      *)
(* (docs/business-flow.md: a record with weighing history may not be       *)
(* deleted), however create_task and the deletions interleave.             *)
NoTaskOfDeleted ==
  \A k \in Task : task[k] # NoTask =>
    /\ vehicle[task[k].vehicle].state = "LIVE"
    /\ task[k].customer # Nobody => customer[task[k].customer].state = "LIVE"

(* A plate names one vehicle for ever: two creations that both found it    *)
(* free do not both succeed, and a deleted vehicle's plate is not reused,  *)
(* so the plate on an old ticket identifies the vehicle.                   *)
PlateNamesOneVehicle ==
  \A v, w \in Vehicle :
    vehicle[v].plate # Unset /\ vehicle[v].plate = vehicle[w].plate => v = w

(* A task that could be started can be priced: create_task refused an      *)
(* untyped vehicle and no later update takes the type away, so completion  *)
(* never fails after the last weighing for want of a vehicle type.         *)
StartedCanBePriced ==
  \A k \in Task : task[k] # NoTask => vehicle[task[k].vehicle].type \in VehicleType
=============================================================================
