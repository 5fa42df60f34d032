---------------------------- MODULE AccessRecords ----------------------------
(***************************************************************************)
(* What the requests on accounts and roles promise: the committed rows,    *)
(* each operation at once and on the rows as they are.  RoleGrants has the *)
(* same operations statement by statement.                                 *)
(***************************************************************************)
EXTENDS Naturals, FiniteSets

CONSTANTS
  Account,    \* usernames
  Password,
  Role,       \* rows of the roles table
  Admin       \* the one named ADMIN

ASSUME AccountAssumption == IsFiniteSet(Account)
ASSUME AdminAssumption == Admin \in Role

VARIABLES
  account,    \* the password of each registered username
  grant       \* the committed user_roles rows

committed == <<account, grant>>

Unregistered == "unregistered"

(* The accounts that hold the ADMIN role.                                  *)
Admins == {a \in Account : <<a, Admin>> \in grant}
-----------------------------------------------------------------------------
RecordsInit ==
  /\ account = [a \in Account |-> Unregistered]
  /\ grant = {}

RegisterUser(a) ==
  /\ account[a] = Unregistered
  /\ \E p \in Password : account' = [account EXCEPT ![a] = p]
  /\ UNCHANGED grant

(* Who assigns was an ADMIN when asked and may have lost the role since;   *)
(* somebody is one still.                                                  *)
AssignRole(a, r) ==
  /\ Admins # {}
  /\ account[a] # Unregistered
  /\ grant' = grant \cup {<<a, r>>}
  /\ UNCHANGED account

(* The ADMIN role is taken from nobody who is the last to have it.         *)
RemoveRole(a, r) ==
  /\ <<a, r>> \in grant
  /\ r = Admin => Admins \ {a} # {}
  /\ grant' = grant \ {<<a, r>>}
  /\ UNCHANGED account

(* The account is created or, with the password it has, promoted.          *)
BootstrapAdmin(a) ==
  /\ Admins = {}
  /\ \E p \in Password :
       /\ account[a] \in {Unregistered, p}
       /\ account' = [account EXCEPT ![a] = p]
  /\ grant' = grant \cup {<<a, Admin>>}

RecordsNext ==
  \E a \in Account :
    \/ RegisterUser(a) \/ BootstrapAdmin(a)
    \/ \E r \in Role : AssignRole(a, r) \/ RemoveRole(a, r)

RecordsSpec == RecordsInit /\ [][RecordsNext]_committed
=============================================================================
