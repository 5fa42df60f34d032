----------------------------- MODULE DevicePanel -----------------------------
(***************************************************************************)
(* The weighbridge as the workbench shows it: Workbench.vue asks for the   *)
(* device's status, then for its weight every two seconds, until the       *)
(* operator, a failed read or leaving the page ends it.  Every request is  *)
(* a coroutine that goes on when its answer arrives, whatever happened to  *)
(* the view meanwhile.  Behind the API all views share one simulator,      *)
(* which hands out its configured readings in order, under a lock.         *)
(***************************************************************************)
EXTENDS Naturals

CONSTANTS View,        \* mounted instances of Workbench.vue
          Coroutine,   \* bound: requests of one view in flight
          Readings,    \* number of configured readings
          Invalid,     \* those that are not a positive weight in range
          Retries,     \* bound: reconnections of one view
          Nothing,     \* no reading, nobody
          StatusFails  \* whether a status request may fail

VARIABLES
  mode,     \* the configured adapter: manual, or a simulator with its status
  panel,    \* the refs of each view
  asked,    \* the requests of each view
  next,     \* the simulator's index, from 1
  taken,    \* how often each reading was handed out
  lock      \* the request inside the simulator's lock

(* At least one reading is configured; nobody is no request.               *)
ASSUME PanelAssumption ==
  Readings \in Nat \ {0} /\ Retries \in Nat /\ Nothing \notin View \X Coroutine

panelVars == <<mode, panel, asked, next, taken, lock>>
device == <<mode, next, taken, lock>>

(* live counts the intervals that still fire, timer is devicePollingTimer. *)
NewView == [page |-> "new", status |-> "unknown", fallback |-> FALSE, reading |-> Nothing,
            timer |-> FALSE, live |-> 0, retries |-> 0]
Free == [pc |-> "free", load |-> FALSE, value |-> Nothing]
-----------------------------------------------------------------------------
(* stopDevicePolling clears the one interval the view remembers.           *)
Stopped(v) == [v EXCEPT !.timer = FALSE, !.live = IF v.timer THEN @ - 1 ELSE @]
-----------------------------------------------------------------------------
(***************************************************************************)
(* Deliberate faults, for testing the properties; no specification uses    *)
(* them.                                                                   *)
(***************************************************************************)
SecondTimer(v) == [v EXCEPT !.timer = TRUE, !.live = @ + 1]
FallbackKeepsTimer(v) == [v EXCEPT !.fallback = TRUE]
NoLock == TRUE
-----------------------------------------------------------------------------
(* startDevicePolling clears the timer it knows before it sets another.    *)
Started(v) == [Stopped(v) EXCEPT !.timer = TRUE, !.live = @ + 1]

(* switchToManualInput, and the catch of refreshDeviceWeight.              *)
ToManual(v) == [Stopped(v) EXCEPT !.fallback = TRUE]

Polls(v) == v.status = "online" /\ ~v.fallback
LockFree == lock = Nothing

Send(v, c, pc, load) ==
  asked' = [asked EXCEPT ![v][c] = [pc |-> pc, load |-> load, value |-> Nothing]]
Finish(v, c) == asked' = [asked EXCEPT ![v][c] = Free]

Configured == mode \in {"manual", "online", "offline"}

PanelInit ==
  /\ Configured
  /\ panel = [v \in View |-> NewView]
  /\ asked = [v \in View |-> [c \in Coroutine |-> Free]]
  /\ next = 1
  /\ taken = [i \in 1 .. Readings |-> 0]
  /\ lock = Nothing
-----------------------------------------------------------------------------
(* onMounted starts loadWeighbridge; onBeforeUnmount only stops the timer. *)
Mount(v) ==
  /\ panel[v].page = "new"
  /\ panel' = [panel EXCEPT ![v].page = "mounted"]
  /\ \E c \in Coroutine : Send(v, c, "status", TRUE)
  /\ UNCHANGED device

Unmount(v) ==
  /\ panel[v].page = "mounted"
  /\ panel' = [panel EXCEPT ![v] = [Stopped(@) EXCEPT !.page = "left"]]
  /\ UNCHANGED <<device, asked>>

SwitchToManualInput(v) ==
  /\ panel[v].page = "mounted" /\ mode # "manual"
  /\ panel[v].status # "unknown" /\ ~panel[v].fallback
  /\ panel' = [panel EXCEPT ![v] = ToManual(@)]
  /\ UNCHANGED <<device, asked>>

Retried(v) == [v EXCEPT !.fallback = FALSE, !.reading = Nothing, !.retries = @ + 1]

RetryDevice(v) ==
  /\ panel[v].page = "mounted" /\ panel[v].fallback
  /\ panel[v].retries < Retries
  /\ panel' = [panel EXCEPT ![v] = Retried(@)]
  /\ \E c \in Coroutine : asked[v][c].pc = "free" /\ Send(v, c, "status", TRUE)
  /\ UNCHANGED device

(* loadWeighbridge, after its first await.                                 *)
StatusArrives(v, c) ==
  /\ asked[v][c].pc = "status"
  /\ panel' = [panel EXCEPT ![v].status = mode]
  /\ IF mode = "online" /\ ~panel[v].fallback THEN Send(v, c, "weight", TRUE) ELSE Finish(v, c)
  /\ UNCHANGED device

(* With manualFallback already set refreshDeviceWeight returns at once and *)
(* no polling starts; a failed status request is swallowed.                *)
StatusRequestFails(v, c) ==
  /\ StatusFails
  /\ asked[v][c].pc = "status"
  /\ Finish(v, c)
  /\ UNCHANGED <<device, panel>>

(* The interval fires: refreshDeviceWeight up to its await.                *)
Poll(v) ==
  /\ panel[v].live > 0
  /\ Polls(panel[v])
  /\ \E c \in Coroutine : asked[v][c].pc = "free" /\ Send(v, c, "weight", FALSE)
  /\ UNCHANGED <<device, panel>>
-----------------------------------------------------------------------------
(* SimulatedWeighbridgeAdapter.read_weight in a worker's thread: the index *)
(* is read and advanced inside the lock.                                   *)
EnterLock(v, c) ==
  /\ asked[v][c].pc = "weight"
  /\ LockFree
  /\ lock' = <<v, c>>
  /\ asked' = [asked EXCEPT ![v][c].pc = "locked", ![v][c].value = next]
  /\ UNCHANGED <<mode, panel, next, taken>>

LeaveLock(v, c) ==
  LET i == asked[v][c].value IN
  /\ asked[v][c].pc = "locked"
  /\ next' = IF i < Readings THEN i + 1 ELSE i
  /\ taken' = [taken EXCEPT ![i] = IF i < Readings THEN @ + 1 ELSE 1]
  /\ lock' = IF lock = <<v, c>> THEN Nothing ELSE lock
  /\ asked' = [asked EXCEPT ![v][c].pc = IF i \in Invalid THEN "failed" ELSE "read"]
  /\ UNCHANGED <<mode, panel>>

(* The answer is lost, timed out or refused on its way.                    *)
AnswerLost(v, c) ==
  /\ asked[v][c].pc \in {"weight", "read"}
  /\ asked' = [asked EXCEPT ![v][c].pc = "failed"]
  /\ UNCHANGED <<device, panel>>

(* refreshDeviceWeight after its await, and then, when it was called by    *)
(* loadWeighbridge, the start of the polling.                              *)
StartsPolling(v) == ~v.fallback
WeightArrives(v, c) ==
  /\ asked[v][c].pc = "read"
  /\ LET shown == [panel[v] EXCEPT !.reading = asked[v][c].value] IN
     panel' = [panel EXCEPT ![v] = IF asked[v][c].load /\ StartsPolling(shown)
                                   THEN Started(shown) ELSE shown]
  /\ Finish(v, c)
  /\ UNCHANGED device

ReadFails(v, c) ==
  /\ asked[v][c].pc = "failed"
  /\ panel' = [panel EXCEPT ![v] = ToManual(@)]
  /\ Finish(v, c)
  /\ UNCHANGED device

PanelNext ==
  \E v \in View :
    \/ Mount(v) \/ Unmount(v) \/ SwitchToManualInput(v) \/ RetryDevice(v) \/ Poll(v)
    \/ \E c \in Coroutine :
         \/ StatusArrives(v, c) \/ StatusRequestFails(v, c) \/ EnterLock(v, c) \/ LeaveLock(v, c)
         \/ AnswerLost(v, c) \/ WeightArrives(v, c) \/ ReadFails(v, c)

PanelSpec == PanelInit /\ [][PanelNext]_panelVars
-----------------------------------------------------------------------------
(* Views, requests and the simulator keep their types; the lock's holder   *)
(* is a request between entering and leaving it.                           *)
PanelTypeOK ==
  /\ mode \in {"manual", "online", "offline"}
  /\ panel \in [View -> [page : {"new", "mounted", "left"},
                         status : {"unknown", "manual", "online", "offline"},
                         fallback : BOOLEAN, reading : 1 .. Readings \cup {Nothing},
                         timer : BOOLEAN, live : Nat, retries : 0 .. Retries]]
  /\ asked \in [View -> [Coroutine ->
       [pc : {"free", "status", "weight", "locked", "read", "failed"}, load : BOOLEAN,
        value : 1 .. Readings \cup {Nothing}]]]
  /\ next \in 1 .. Readings
  /\ taken \in [1 .. Readings -> Nat]
  /\ \A v \in View, c \in Coroutine : asked[v][c].pc = "locked" <=> lock = <<v, c>>

(* The view knows every interval it has set, so it can stop it: however    *)
(* reconnections, failures and late answers overlap, two never poll at     *)
(* once (startDevicePolling).                                              *)
OneTimerPerView == \A v \in View : panel[v].live = IF panel[v].timer THEN 1 ELSE 0

(* In manual mode nothing polls, also when a load begun before the switch  *)
(* only finishes after it.                                                 *)
ManualMeansNoPolling == \A v \in View : panel[v].fallback => panel[v].live = 0

(* startDevicePolling, stopDevicePolling: whatever overtakes whatever, one *)
(* interval polls at most, none in manual mode, and the view can stop it.  *)
PollingUnderControl == OneTimerPerView /\ ManualMeansNoPolling

(* "Values are returned in order and the last value is repeated": among    *)
(* all the views each reading but the last is handed out exactly once.     *)
ReadingsInOrder ==
  \A i \in 1 .. Readings - 1 : taken[i] = IF i < next THEN 1 ELSE 0
=============================================================================
