--------------------------- MODULE WorkerRequests ---------------------------
(***************************************************************************)
(* What the requests of one backend worker share: the threads that run its *)
(* synchronous handlers and the connections of its database pool.          *)
(*                                                                         *)
(* Every request reads its user and checks a permission, each in a thread  *)
(* and in a short session.  A business request then runs its service in a  *)
(* thread; its session keeps the connection until the request is over,     *)
(* while the validation of the response needs a thread once more.  A chat  *)
(* asks the model, on no thread and with no session, runs the tools the    *)
(* model calls for, each with a session of its own, and asks again.  The   *)
(* deadline ends a chat, not the threads its tools already run in.         *)
(*                                                                         *)
(* A request is served once.  Which question was asked and what the        *)
(* queries return are not looked at (Statistics has the queries).          *)
(***************************************************************************)
EXTENDS Naturals, FiniteSets

CONSTANTS
  Business,      \* requests for vehicles, tasks, fees and the like
  Chat,          \* requests to the assistant
  Slot,          \* places for the tool calls of one answer of the model
  Threads,       \* threads for synchronous handlers and dependencies
  Pool,          \* connections, overflow included
  MaxRounds,     \* how often one chat may run tools before recursion_limit
  PoolGivesUp    \* whether waiting for a connection times out

Request == Business \cup Chat
Call == Chat \X Slot

ASSUME RequestsAssumption == Request \cap Call = {}
ASSUME BoundsAssumption == Threads \in Nat /\ Pool \in Nat /\ MaxRounds \in Nat
ASSUME PoolAssumption == PoolGivesUp \in BOOLEAN

VARIABLES
  pc,        \* pc[r]: what request r is doing
  threads,   \* the requests that have a thread
  conn,      \* the requests and tool calls that have a connection
  tool,      \* tool[c][i]: the tool calls of the model's last answer
  round      \* round[c]: how often c has run tools

workerVars == <<pc, threads, conn, tool, round>>

Over == {"done", "failed", "timedOut"}
InThread == {"user", "permission", "agent", "service", "refresh", "serialize"}
InSession == {"user", "permission", "service", "refresh"}

(* Every variable keeps its type.                                          *)
WorkerTypeOK ==
  /\ pc \in [Request -> InThread \cup {"close", "model", "tools"} \cup Over]
  /\ threads \subseteq Request
  /\ conn \subseteq Request \cup Call
  /\ tool \in [Chat -> [Slot -> {"none", "running", "ended"}]]
  /\ round \in [Chat -> 0..MaxRounds]

WorkerInit ==
  /\ pc = [r \in Request |-> "user"]
  /\ threads = {}
  /\ conn = {}
  /\ tool = [c \in Chat |-> [i \in Slot |-> "none"]]
  /\ round = [c \in Chat |-> 0]
-----------------------------------------------------------------------------
(* Threads, connections and the checks that precede every handler.         *)

TakeThread(r) ==
  /\ pc[r] \in InThread /\ r \notin threads
  /\ Cardinality(threads) < Threads
  /\ threads' = threads \cup {r}
  /\ UNCHANGED <<pc, conn, tool, round>>

WaitsForConnection(r) == r \in threads /\ pc[r] \in InSession /\ r \notin conn

TakeConnection(r) ==
  /\ WaitsForConnection(r)
  /\ Cardinality(conn) < Pool
  /\ conn' = conn \cup {r}
  /\ UNCHANGED <<pc, threads, tool, round>>

GivesUpEarlyOnly(r) ==           \* the wait in a service has no end
  /\ PoolGivesUp /\ Cardinality(conn) = Pool
  /\ WaitsForConnection(r) /\ pc[r] \in {"user", "permission"}
  /\ pc' = [pc EXCEPT ![r] = "failed"]
  /\ threads' = threads \ {r}
  /\ UNCHANGED <<conn, tool, round>>

(* pool_timeout: the request fails with a 500, after its commit perhaps.   *)
GiveUp(r) ==
  /\ PoolGivesUp /\ Cardinality(conn) = Pool
  /\ WaitsForConnection(r)
  /\ pc' = [pc EXCEPT ![r] = "failed"]
  /\ threads' = threads \ {r}
  /\ UNCHANGED <<conn, tool, round>>

(* get_current_user and check_permission: the answer, and thread and       *)
(* connection are given back.                                              *)
Checked(r) ==
  /\ pc[r] \in {"user", "permission"} /\ r \in threads \cap conn
  /\ \E next \in {IF pc[r] = "user" THEN "permission" ELSE IF r \in Chat THEN "agent" ELSE "service",
                  "done"} :
       pc' = [pc EXCEPT ![r] = next]
  /\ threads' = threads \ {r}
  /\ conn' = conn \ {r}
  /\ UNCHANGED <<tool, round>>
-----------------------------------------------------------------------------
(* A business request.                                                     *)

(* The service commits, which gives the connection back, and reads again.  *)
CommitService(b) ==
  /\ pc[b] = "service" /\ b \in threads \cap conn
  /\ pc' = [pc EXCEPT ![b] = "refresh"]
  /\ conn' = conn \ {b}
  /\ UNCHANGED <<threads, tool, round>>

(* The handler returns, or raises an error of the domain, whose response   *)
(* needs no validation.                                                    *)
Return(b) ==
  /\ pc[b] \in {"service", "refresh"} /\ b \in threads \cap conn
  /\ \E next \in {"serialize", "close"} : pc' = [pc EXCEPT ![b] = next]
  /\ threads' = threads \ {b}
  /\ UNCHANGED <<conn, tool, round>>

(* The weighbridge's handlers have no session, and others refuse their     *)
(* arguments before the first query.  A handler that has come to a query   *)
(* only waits, so nothing makes this step happen.                          *)
ReturnWithoutQuery(b) ==
  /\ pc[b] = "service" /\ b \in threads \ conn
  /\ \E next \in {"serialize", "close"} : pc' = [pc EXCEPT ![b] = next]
  /\ threads' = threads \ {b}
  /\ UNCHANGED <<conn, tool, round>>

Serialize(b) ==
  /\ pc[b] = "serialize" /\ b \in threads
  /\ pc' = [pc EXCEPT ![b] = "close"]
  /\ threads' = threads \ {b}
  /\ UNCHANGED <<conn, tool, round>>

(* get_db: the session is closed after the request.                        *)
Close(b) ==
  /\ pc[b] = "close"
  /\ pc' = [pc EXCEPT ![b] = "done"]
  /\ conn' = conn \ {b}
  /\ UNCHANGED <<threads, tool, round>>
-----------------------------------------------------------------------------
(* A chat.                                                                 *)

(* get_ai_agent: provider, tools and graph; no session is opened.          *)
BuildAgent(c) ==
  /\ pc[c] = "agent" /\ c \in threads
  /\ \E next \in {"model", "failed"} : pc' = [pc EXCEPT ![c] = next]
  /\ threads' = threads \ {c}
  /\ UNCHANGED <<conn, tool, round>>

(* The model answers, or calls for tools, or fails.                        *)
ModelAnswers(c) ==
  /\ pc[c] = "model"
  /\ \E next \in {"done", "failed"} : pc' = [pc EXCEPT ![c] = next]
  /\ UNCHANGED <<threads, conn, tool, round>>

ModelCalls(c) ==
  /\ pc[c] = "model"
  /\ \E called \in SUBSET Slot \ {{}} :
       tool' = [tool EXCEPT ![c] = [i \in Slot |-> IF i \in called THEN "running" ELSE "none"]]
  /\ pc' = [pc EXCEPT ![c] = "tools"]
  /\ UNCHANGED <<threads, conn, round>>

ToolTakesConnection(c, i) ==
  /\ tool[c][i] = "running" /\ <<c, i>> \notin conn
  /\ Cardinality(conn) < Pool
  /\ conn' = conn \cup {<<c, i>>}
  /\ UNCHANGED <<pc, threads, tool, round>>

(* Bad arguments or no connection: an error the model is told of.          *)
ToolFails(c, i) ==
  /\ tool[c][i] = "running" /\ <<c, i>> \notin conn
  /\ tool' = [tool EXCEPT ![c][i] = "ended"]
  /\ UNCHANGED <<pc, threads, conn, round>>

ReturnsToLiveChat(c, i) ==       \* a call whose chat is over keeps its session open
  /\ tool[c][i] = "running" /\ <<c, i>> \in conn
  /\ pc[c] = "tools"
  /\ tool' = [tool EXCEPT ![c][i] = "ended"]
  /\ conn' = conn \ {<<c, i>>}
  /\ UNCHANGED <<pc, threads, round>>

(* The query returns or raises; the session of the call is closed.         *)
ToolReturns(c, i) ==
  /\ tool[c][i] = "running" /\ <<c, i>> \in conn
  /\ tool' = [tool EXCEPT ![c][i] = "ended"]
  /\ conn' = conn \ {<<c, i>>}
  /\ UNCHANGED <<pc, threads, round>>

AsksTooEarly(c) ==               \* with the first result
  /\ pc[c] = "tools"
  /\ \E i \in Slot : tool[c][i] = "ended"
  /\ round[c] < MaxRounds
  /\ pc' = [pc EXCEPT ![c] = "model"] /\ round' = [round EXCEPT ![c] = @ + 1]
  /\ UNCHANGED <<threads, conn, tool>>

(* Every call has its result: the model is asked again, or the graph has   *)
(* run as often as it may.                                                 *)
AskAgain(c) ==
  /\ pc[c] = "tools"
  /\ \A i \in Slot : tool[c][i] # "running"
  /\ IF round[c] < MaxRounds
       THEN pc' = [pc EXCEPT ![c] = "model"] /\ round' = [round EXCEPT ![c] = @ + 1]
       ELSE pc' = [pc EXCEPT ![c] = "failed"] /\ UNCHANGED round
  /\ UNCHANGED <<threads, conn, tool>>

(* asyncio.timeout around the graph.                                       *)
Deadline(c) ==
  /\ pc[c] \in {"model", "tools"}
  /\ pc' = [pc EXCEPT ![c] = "timedOut"]
  /\ UNCHANGED <<threads, conn, tool, round>>
-----------------------------------------------------------------------------
Served(r) == TakeThread(r) \/ TakeConnection(r) \/ GiveUp(r) \/ Checked(r)
Worked(b) == CommitService(b) \/ Return(b) \/ Serialize(b) \/ Close(b)
Asked(c) == BuildAgent(c) \/ AskAgain(c)
Tooled(c, i) == ToolTakesConnection(c, i) \/ ToolReturns(c, i)

WorkerNext ==
  \/ \E r \in Request : Served(r)
  \/ \E b \in Business : Worked(b) \/ ReturnWithoutQuery(b)
  \/ \E c \in Chat : Asked(c) \/ ModelAnswers(c) \/ ModelCalls(c) \/ Deadline(c)
  \/ \E c \in Chat, i \in Slot : Tooled(c, i) \/ ToolFails(c, i)

(* A thread that can go on does, a query ends, whoever waits for a thread  *)
(* or a connection that stays free gets it, and the time passes: no chat   *)
(* is for ever within its deadline.  Nothing is known of the model.        *)
Fairness ==
  /\ \A r \in Request : WF_workerVars(Served(r))
  /\ \A b \in Business : WF_workerVars(Worked(b))
  /\ \A c \in Chat : WF_workerVars(Asked(c)) /\ WF_workerVars(Deadline(c))
  /\ \A c \in Chat, i \in Slot : WF_workerVars(Tooled(c, i))

WorkerSpec == WorkerInit /\ [][WorkerNext]_workerVars /\ Fairness
-----------------------------------------------------------------------------
(* What the worker shares is held by those who use it, and within its      *)
(* size.  Whoever works has a thread; a session without one is that of a   *)
(* business request whose handler has returned; a chat that waits for the  *)
(* model holds nothing; and calls that go on without their chat are those  *)
(* a deadline left behind, each with at most the one connection it closes. *)
HeldIsUsed ==
  /\ Cardinality(threads) <= Threads /\ Cardinality(conn) <= Pool
  /\ \A r \in threads : pc[r] \in InThread
  /\ \A r \in conn \cap Request :
       \/ pc[r] \in InSession /\ r \in threads
       \/ pc[r] \in {"serialize", "close"} /\ r \in Business
  /\ \A c \in Chat, i \in Slot :
       /\ <<c, i>> \in conn => tool[c][i] = "running"
       /\ tool[c][i] = "running" => pc[c] \in {"tools", "timedOut"}

(* Every connection is given back, a timed out chat's too.                 *)
ConnectionsReturn == \A h \in Request \cup Call : h \in conn ~> h \notin conn
=============================================================================
