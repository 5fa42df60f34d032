------------------------------ MODULE Workbench ------------------------------
(***************************************************************************)
(* An operator weighs a task on the page Workbench.vue while other clients *)
(* work on the same task: WeighingLedger together with one mounted view.   *)
(* The view shows the task as its last answered load found it, sends what  *)
(* is entered for the step it shows, and loads again after a success.      *)
(* Loads are not ordered; a request whose answer the client has given up   *)
(* waiting for may still be executed.                                      *)
(***************************************************************************)
EXTENDS WeighingLedger

CONSTANTS
  task,       \* the task of the route
  Call,       \* bound: actions of the view under way
  Slot,       \* bound: loads of the view under way
  Weights,    \* bound: what the operator may enter for each weighing
  None        \* nothing shown, nothing entered, no step

Weighing == {"TARE", "GROSS", "REWEIGH"}
StepKind == Weighing \cup {"FINISH", "COMPLETE"}

ASSUME TaskAssumption == task \in Task /\ None \notin RawWeight /\ None \notin StepKind
ASSUME EntryAssumption == Weights \in [Weighing -> SUBSET (RawWeight \ {0})]

VARIABLES
  shown,      \* detail: the task as loaded
  form,       \* tareForm, grossForm, reweighForm, with the version shown on entry
  acting,     \* an action is awaited, its button disabled
  loading,    \* a load is awaited, the refresh button disabled
  request,    \* the actions sent
  load        \* the loads sent

view == <<shown, form, acting, loading, request, load>>
deskVars == <<vars, view>>

Blank == [raw |-> None, version |-> 0]
Idle == [pc |-> "free", kind |-> None, entry |-> Blank, seen |-> 0, preview |-> None,
         awaited |-> FALSE]
NoLoad == [pc |-> "free", found |-> None, after |-> 0]

(* What getWeighingTask returns of the task.                               *)
Row == [version |-> version[task], status |-> status[task], result |-> verdict[task].result,
        tare |-> tare[task], allowed |-> allowed[task]]

(* The step whose card the template shows.                                 *)
StepOf(d) ==
  CASE d.status = "WAIT_TARE" -> "TARE"
    [] d.status = "TARE_COMPLETED" -> "FINISH"
    [] d.status = "WAIT_GROSS" -> IF d.result = "OVERWEIGHT" THEN "REWEIGH" ELSE "GROSS"
    [] d.status = "GROSS_COMPLETED" -> "COMPLETE"
    [] OTHER -> None
StepShown == IF shown = None THEN None ELSE StepOf(shown)

GrossInputOnly == form.GROSS.raw          \* a fault: also while the truck is overweight
CurrentGrossInput ==
  IF shown.result = "OVERWEIGHT" THEN form.REWEIGH.raw ELSE form.GROSS.raw

(* preview: thousandths of a ton, in integers.                             *)
Preview ==
  IF shown.tare = 0 \/ CurrentGrossInput = None THEN None
  ELSE LET gross == QuantizeTons(CurrentGrossInput)
           over == gross - shown.allowed
       IN [net |-> gross - shown.tare, overweight |-> IF over > 0 THEN over ELSE 0]

DeskInit ==
  /\ Init
  /\ shown = None /\ acting = FALSE /\ loading = FALSE
  /\ form = [k \in Weighing |-> Blank]
  /\ request = [s \in Call |-> Idle]
  /\ load = [s \in Slot |-> NoLoad]
-----------------------------------------------------------------------------
(***************************************************************************)
(* Deliberate faults, for testing the properties; no specification uses    *)
(* them.                                                                   *)
(***************************************************************************)
LoadBeforeAnswer(s) ==
  /\ request[s].pc \in {"sent", "done"} /\ request[s].awaited
  /\ loading' = TRUE
  /\ \E l \in Slot : /\ load[l].pc = "free"
                     /\ load' = [load EXCEPT ![l] = [NoLoad EXCEPT !.pc = "sent",
                                                                   !.after = request[s].seen + 1]]
  /\ request' = [request EXCEPT ![s].awaited = FALSE]
  /\ UNCHANGED <<vars, shown, form, acting>>
-----------------------------------------------------------------------------
(* loadTask up to its await; after is the version an action has produced.  *)
SendLoad(l, after) ==
  /\ load[l].pc = "free"
  /\ load' = [load EXCEPT ![l] = [pc |-> "sent", found |-> None, after |-> after]]
  /\ loading' = TRUE

(* onMounted, and the refresh button.                                      *)
Refresh(l) ==
  /\ ~loading /\ status[task] # "ABSENT"
  /\ SendLoad(l, 0)
  /\ UNCHANGED <<vars, shown, form, acting, request>>

ReadTask(l) ==
  /\ load[l].pc = "sent" /\ Live(task)
  /\ load' = [load EXCEPT ![l].pc = "read", ![l].found = Row]
  /\ UNCHANGED <<vars, shown, form, acting, loading, request>>

(* The finally blocks: of loadTask, and of runAction if it awaits the load.*)
EndLoad(l) ==
  /\ load' = [load EXCEPT ![l] = NoLoad]
  /\ loading' = FALSE
  /\ acting' = IF load[l].after > 0 THEN FALSE ELSE acting

LoadArrives(l) ==
  /\ load[l].pc = "read"
  /\ shown' = load[l].found
  /\ EndLoad(l)
  /\ UNCHANGED <<vars, form, request>>

(* Refused, lost or timed out: the last answer stays on the page.          *)
LoadFails(l) ==
  /\ load[l].pc # "free"
  /\ EndLoad(l)
  /\ UNCHANGED <<vars, shown, form, request>>
-----------------------------------------------------------------------------
(* Typing into the form of the step shown, or useDeviceWeight, whose       *)
(* conditions on the device bind nobody: what it may fill in can be typed. *)
Fill(raw) ==
  form' = [form EXCEPT ![StepShown] = [raw |-> raw, version |-> shown.version]]
Enter ==
  /\ StepShown \in Weighing
  /\ \E raw \in Weights[StepShown] : Fill(raw)
  /\ UNCHANGED <<vars, shown, acting, loading, request, load>>

(* What is sent with a step: submitTare, submitGross and submitReweigh     *)
(* refuse an empty form.                                                   *)
EntryFor(k) == IF k \in Weighing THEN form[k] ELSE Blank

Submit(s) ==
  LET k == StepShown IN
  /\ ~acting /\ k # None
  /\ k \in Weighing => form[k].raw # None
  /\ request[s].pc = "free"
  /\ acting' = TRUE
  /\ request' = [request EXCEPT ![s] =
       [pc |-> "sent", kind |-> k, entry |-> EntryFor(k), seen |-> shown.version,
        preview |-> Preview, awaited |-> TRUE]]
  /\ UNCHANGED <<vars, shown, form, loading, load>>

(* The operation on the server, with the weight that was sent.             *)
Takes(r) == readings'[task][Len(readings'[task])].weight = QuantizeTons(r.entry.raw)
Performs(r) ==
  \/ r.kind = "TARE" /\ RecordTare(task) /\ Takes(r)
  \/ r.kind = "FINISH" /\ PrepareForGross(task)
  \/ r.kind = "GROSS" /\ RecordGross(task) /\ Takes(r)
  \/ r.kind = "REWEIGH" /\ RecordReweigh(task) /\ Takes(r)
  \/ r.kind = "COMPLETE" /\ CompleteTask(task)

Answered(r, pc) == IF r.awaited THEN [r EXCEPT !.pc = pc] ELSE Idle
Execute(s) ==
  /\ request[s].pc = "sent"
  /\ Performs(request[s])
  /\ request' = [request EXCEPT ![s] = Answered(@, "done")]
  /\ UNCHANGED <<shown, form, acting, loading, load>>

(* Refused by a guard or a conflict, or lost on its way; loading finished  *)
(* twice is answered as if it had been done.                               *)
NotExecuted(s) ==
  /\ request[s].pc = "sent"
  /\ \E pc \in {"refused"} \cup (IF request[s].kind = "FINISH" /\ status[task] = "WAIT_GROSS"
                                 THEN {"done"} ELSE {}) :
       request' = [request EXCEPT ![s] = Answered(@, pc)]
  /\ UNCHANGED <<vars, shown, form, acting, loading, load>>

(* runAction after its first await: only a success loads the task again.   *)
Succeeds(s) ==
  /\ request[s].pc = "done"
  /\ \E l \in Slot : SendLoad(l, request[s].seen + 1)
  /\ request' = [request EXCEPT ![s] = Idle]
  /\ UNCHANGED <<vars, shown, form, acting>>

(* The answer is an error, or does not come in time.                       *)
GiveUp(s) ==
  /\ request[s].awaited
  /\ request' = [request EXCEPT ![s] = IF @.pc = "sent" THEN [@ EXCEPT !.awaited = FALSE] ELSE Idle]
  /\ acting' = FALSE
  /\ UNCHANGED <<vars, shown, form, loading, load>>

(* Other clients work on the same task; payments and reversals change      *)
(* nothing the steps of the page depend on.                                *)
Elsewhere ==
  /\ \/ CreateTask(task) \/ RecordTare(task) \/ PrepareForGross(task) \/ RecordGross(task)
     \/ RecordReweigh(task) \/ CompleteTask(task) \/ DeleteTask(task) \/ CancelTask(task)
  /\ UNCHANGED view

DeskNext ==
  \/ Elsewhere \/ Enter
  \/ \E l \in Slot : Refresh(l) \/ ReadTask(l) \/ LoadArrives(l) \/ LoadFails(l)
  \/ \E s \in Call :
       \/ Submit(s) \/ Execute(s) \/ NotExecuted(s) \/ Succeeds(s) \/ GiveUp(s)

DeskSpec == DeskInit /\ [][DeskNext]_deskVars
-----------------------------------------------------------------------------
Found == [version : Nat, status : Status \ {"ABSENT"}, result : Verdicts, tare : Nat, allowed : Nat]
Entry == [raw : RawWeight \cup {None}, version : Nat]
Request == [pc : {"free", "sent", "done", "refused"}, kind : StepKind \cup {None}, entry : Entry,
            seen : Nat, preview : [net : Int, overweight : Nat] \cup {None}, awaited : BOOLEAN]
Load == [pc : {"free", "sent", "read"}, found : Found \cup {None}, after : Nat]

ViewTypeOK ==
  /\ shown \in Found \cup {None}
  /\ form \in [Weighing -> Entry]
  /\ acting \in BOOLEAN /\ loading \in BOOLEAN
  /\ request \in [Call -> Request]
  /\ load \in [Slot -> Load]

Awaiting == (\E s \in Call : request[s].awaited) \/ (\E l \in Slot : load[l].after > 0)
ButtonsTell == acting <=> Awaiting

(* The rows and the view's refs and requests have their types, and the     *)
(* buttons are disabled exactly while an action or its load is awaited.    *)
DeskTypeOK == TypeOK /\ ViewTypeOK /\ ButtonsTell

Executed(s) == request[s].pc = "sent" /\ version'[task] # version[task] /\ request'[s] # request[s]

(* However stale the page, however late its request is executed: what it   *)
(* changes is the very state of the task that the operator was shown when  *)
(* clicking and when entering the weight.  Only a truck that was and still *)
(* is overweight may have been weighed by somebody else in between.        *)
ActsOnShown(s) ==
  LET r == request[s] IN
  IF r.kind = "REWEIGH" THEN verdict[task].result = "OVERWEIGHT" /\ r.entry.version <= version[task]
  ELSE /\ r.seen = version[task]
       /\ r.kind \in Weighing => r.entry.version = version[task]
ActsOnWhatWasShown == [][\A s \in Call : Executed(s) => ActsOnShown(s)]_deskVars

(* "The final result is the backend's": the net weight and the overweight  *)
(* the page previewed when the operator confirmed are those the backend    *)
(* computes, even from a page that is out of date.                         *)
PreviewHolds(s) ==
  request[s].kind \in {"GROSS", "REWEIGH"} =>
    request[s].preview = [net |-> verdict'[task].net, overweight |-> verdict'[task].overweight]
VerdictAsPreviewed == [][\A s \in Call : Executed(s) => PreviewHolds(s)]_deskVars

(* When an action is reported as done and the load after it arrives, the   *)
(* page shows the task with the operator's own change in it.               *)
ShowsOwnChange(l) ==
  load[l].pc = "read" /\ load[l].after > 0 /\ load'[l].pc = "free" /\ shown' = load[l].found =>
    shown'.version >= load[l].after
OwnChangeShown == [][\A l \in Slot : ShowsOwnChange(l)]_deskVars
=============================================================================
