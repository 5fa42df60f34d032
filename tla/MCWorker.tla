------------------------------ MODULE MCWorker ------------------------------
(***************************************************************************)
(* A worker's requests from two sides that share no data: what they take   *)
(* and give back (WorkerRequests), and what the layers around an endpoint  *)
(* answer and record (RequestPipeline).  A behaviour moves in one of them. *)
(*                                                                         *)
(* With one thread and one connection a finished handler's session and the *)
(* next handler wait for each other.  In the layers requests do not meet,  *)
(* so one is enough.                                                       *)
(***************************************************************************)
EXTENDS WorkerRequests, RequestPipeline

VARIABLE side

vars == <<workerVars, request, side>>

Init == WorkerInit /\ LayersInit /\ side \in {"shared", "layers"}

SharedStep == side = "shared" /\ WorkerNext /\ UNCHANGED <<request, side>>
PipelineStep == side = "layers" /\ LayersNext /\ UNCHANGED <<workerVars, side>>
Next == SharedStep \/ PipelineStep

Spec ==
  /\ Init /\ [][Next]_vars
  /\ side = "shared" => Fairness
-----------------------------------------------------------------------------
(* Every request ends, also where the sessions of finished handlers hold   *)
(* all connections and the threads that they need wait for a connection.   *)
EveryRequestEnds == \A r \in Request : side = "shared" ~> pc[r] \in Over
=============================================================================
