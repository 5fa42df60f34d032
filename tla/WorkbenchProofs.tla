--------------------------- MODULE WorkbenchProofs ---------------------------
(***************************************************************************)
(* The safety properties of Workbench for every set of weights and limits  *)
(* and any number of loads and actions under way, and (in the last part)   *)
(* those of DevicePanel for any number of views and requests.              *)
(*                                                                         *)
(* The page may be out of date, but the backend numbers its states: until  *)
(* the first gross weight the version determines the status (Numbered), a  *)
(* task that has passed the scale never returns to it, and its tare and    *)
(* its limit, once there, stay.  So what a page knew of a task (Known)     *)
(* stays true of it in the sense that matters for each step.               *)
(*                                                                         *)
(* A view's flags and its interval are changed together (Controlled), and  *)
(* the reading that a request took inside the simulator's lock is still    *)
(* the next one when it leaves (CallsInv).                                 *)
(***************************************************************************)
EXTENDS Workbench, DevicePanel, WeighingLedgerProofs

Passed == {"GROSS_COMPLETED", "COMPLETED", "CANCELLED"}

(* v, st, t and a are version, status, tare and limit of the row, d what a *)
(* page was told of it, now or earlier.                                    *)
Known(d, v, st, t, a) ==
  /\ st # "ABSENT" /\ d.version <= v /\ d.allowed = a
  /\ d.tare # 0 => d.tare = t
  /\ StepOf(d) = "TARE" => d.version = 1
  /\ StepOf(d) = "FINISH" => d.version = 2
  /\ StepOf(d) = "GROSS" => d.version = 3 /\ d.tare # 0
  /\ StepOf(d) = "REWEIGH" => d.tare # 0
  /\ StepOf(d) = "COMPLETE" => st \in Passed /\ (st = "GROSS_COMPLETED" => d.version = v)

EntryKnown(k, e, v) ==
  e.raw # None => /\ k = "TARE" => e.version = 1
                  /\ k = "GROSS" => e.version = 3
                  /\ k = "REWEIGH" => e.version <= v

PreviewOf(raw, t, a) ==
  [net |-> QuantizeTons(raw) - t,
   overweight |-> IF QuantizeTons(raw) > a THEN QuantizeTons(raw) - a ELSE 0]

Asked(r, v, st, t, a) ==
  r.pc # "free" =>
    /\ r.seen <= v
    /\ r.pc = "done" => r.seen < v
    /\ r.kind \in Weighing => r.entry.raw \in RawWeight /\ EntryKnown(r.kind, r.entry, v)
    /\ r.kind = "TARE" => r.seen = 1
    /\ r.kind = "FINISH" => r.seen = 2
    /\ r.kind = "GROSS" => r.seen = 3
    /\ r.kind \in {"GROSS", "REWEIGH"} =>
         st # "ABSENT" /\ t # 0 /\ r.preview = PreviewOf(r.entry.raw, t, a)
    /\ r.kind = "COMPLETE" => st \in Passed /\ (st = "GROSS_COMPLETED" => r.seen = v)

(* From one row to the next.                                               *)
Moves(v, st, t, a, w, su, u, b) ==
  /\ w >= v
  /\ st # "ABSENT" => su # "ABSENT" /\ b = a
  /\ t # 0 => u = t
  /\ st \in Passed => su \in Passed
  /\ st \in Passed /\ su = "GROSS_COMPLETED" => st = "GROSS_COMPLETED" /\ w = v

Moved == Moves(version[task], status[task], tare[task], allowed[task],
               version'[task], status'[task], tare'[task], allowed'[task])

Numbered ==
  /\ status[task] = "ABSENT" => version[task] = 0
  /\ status[task] = "WAIT_TARE" => version[task] = 1
  /\ status[task] = "TARE_COMPLETED" => version[task] = 2
  /\ status[task] = "WAIT_GROSS" =>
       version[task] >= 3 /\ (verdict[task].result # "OVERWEIGHT" => version[task] = 3)

RowNow(d) == Known(d, version[task], status[task], tare[task], allowed[task])

Pages ==
  /\ shown # None => RowNow(shown)
  /\ \A l \in Slot : load[l].pc = "read" =>
       load[l].found \in Found /\ RowNow(load[l].found) /\ load[l].found.version >= load[l].after
  /\ \A l \in Slot : load[l].after <= version[task]

Forms == \A k \in Weighing : EntryKnown(k, form[k], version[task])

Requests ==
  \A s \in Call : Asked(request[s], version[task], status[task], tare[task], allowed[task])

(* One thing at most is awaited.                                           *)
OneAwaited ==
  /\ \A s, q \in Call : request[s].awaited /\ request[q].awaited => s = q
  /\ \A l, m \in Slot : load[l].after > 0 /\ load[m].after > 0 => l = m
  /\ \A s \in Call, l \in Slot : ~(request[s].awaited /\ load[l].after > 0)
  /\ \A s \in Call : request[s].pc \in {"done", "refused"} => request[s].awaited
  /\ \A s \in Call : request[s].awaited => request[s].pc # "free"
  /\ \A l \in Slot : load[l].pc = "free" => load[l].after = 0

ViewInv == ViewTypeOK /\ ButtonsTell /\ Pages /\ Forms /\ Requests /\ OneAwaited

DeskInv == IndInv /\ Numbered /\ ViewInv
-----------------------------------------------------------------------------
(* The row.                                                                *)

LEMMA RowType ==
  ASSUME TypeOK
  PROVE  /\ version[task] \in Nat /\ status[task] \in Status /\ tare[task] \in Nat
         /\ allowed[task] \in Nat /\ verdict[task].result \in Verdicts
         /\ verdict[task] \in VerdictType /\ readings[task] \in Seq(ReadingType)
BY TaskAssumption DEF TypeOK, VerdictType

LEMMA RowWeighed ==
  ASSUME IndInv, status[task] = "WAIT_GROSS"
  PROVE  tare[task] # 0 /\ verdict[task].result \in {"PENDING", "OVERWEIGHT"}
<1>1. Good(task) /\ TypeOK
  BY TaskAssumption DEF IndInv
<1>2. Len(readings[task]) >= 1 /\ verdict[task].result # "NORMAL"
      /\ tare[task] = IF Len(readings[task]) = 0 THEN 0 ELSE readings[task][1].weight
  BY <1>1 DEF Good, SummaryOf
<1>3. readings[task][1] \in ReadingType
  BY <1>1, <1>2, RowType
<1> QED
  BY <1>1, <1>2, <1>3, RowType DEF ReadingType, Verdicts

LEMMA RowUnweighed ==
  ASSUME IndInv, status[task] \in {"ABSENT", "WAIT_TARE"}
  PROVE  tare[task] = 0
BY TaskAssumption, RowType DEF IndInv, Good, SummaryOf

LEMMA RowGrossLike ==
  ASSUME IndInv, NEW kind \in {"GROSS", "REWEIGH"}, NEW raw \in RawWeight,
         RecordGrossLike(task, kind, raw)
  PROVE  /\ version'[task] = version[task] + 1 /\ allowed' = allowed /\ tare' = tare
         /\ \/ status'[task] = "GROSS_COMPLETED"
            \/ status'[task] = "WAIT_GROSS" /\ verdict'[task].result = "OVERWEIGHT"
<1>1. TypeOK /\ kind \in ReadingKind
  BY DEF IndInv, ReadingKind
<1>2. PICK ticks \in Nat :
        /\ verdict' = [verdict EXCEPT ![task] = WeightVerdict(tare[task], ticks, allowed[task])]
        /\ status' = [status EXCEPT ![task] =
                        IF ticks <= allowed[task] THEN "GROSS_COMPLETED" ELSE "WAIT_GROSS"]
  BY <1>1, TaskAssumption, GrossLikeEffect
<1>3. /\ status'[task] = IF ticks <= allowed[task] THEN "GROSS_COMPLETED" ELSE "WAIT_GROSS"
      /\ verdict'[task] = WeightVerdict(tare[task], ticks, allowed[task])
  BY <1>1, <1>2, TaskAssumption DEF TypeOK
<1>4. verdict'[task].result = IF ticks <= allowed[task] THEN "NORMAL" ELSE "OVERWEIGHT"
  BY <1>1, <1>3, RowType, VerdictInType
<1>5. version'[task] = version[task] + 1 /\ allowed' = allowed /\ tare' = tare
  BY <1>1, TaskAssumption DEF RecordGrossLike, TypeOK
<1> QED
  BY <1>3, <1>4, <1>5

(* Each operation of the backend moves the row on, and keeps its number.   *)
LEMMA RowMoves ==
  ASSUME IndInv, Numbered, TaskStep(task)
  PROVE  Moved /\ Numbered'
<1> USE TaskAssumption DEF Moved, Moves, Numbered, Passed, TypeOK, rowVars
<1>0. TypeOK /\ Good(task)
  BY DEF IndInv
<1>1. CASE CreateTask(task)
  BY <1>0, <1>1, RowUnweighed DEF CreateTask
<1>2. CASE RecordTare(task)
  BY <1>0, <1>2, RowUnweighed DEF RecordTare
<1>3. CASE PrepareForGross(task)
  <2>1. SummaryOf(task) /\ status[task] = "TARE_COMPLETED"
    BY <1>0, <1>3 DEF PrepareForGross, Good
  <2>2. verdict[task] = Unweighed
    BY <2>1 DEF SummaryOf
  <2>3. verdict[task].result # "OVERWEIGHT"
    BY <2>2 DEF Unweighed
  <2> QED  BY <1>0, <1>3, <2>3 DEF PrepareForGross
<1>4. ASSUME NEW kind \in {"GROSS", "REWEIGH"}, NEW raw \in RawWeight,
             RecordGrossLike(task, kind, raw), status[task] = "WAIT_GROSS"
      PROVE  Moved /\ Numbered'
  BY <1>4, RowType, RowGrossLike DEF IndInv
<1>5. CASE RecordGross(task)
  BY <1>4, <1>5 DEF RecordGross
<1>6. CASE RecordReweigh(task)
  BY <1>4, <1>6 DEF RecordReweigh
<1>7. CASE CompleteTask(task)
  BY <1>0, <1>7 DEF CompleteTask
<1>8. CASE DeleteTask(task)
  BY <1>0, <1>8 DEF DeleteTask
<1>9. CASE CancelTask(task)
  BY <1>0, <1>9 DEF CancelTask, CancellableStatuses
<1>10. CASE MarkPaid(task) \/ Waive(task)
  BY <1>0, <1>10 DEF MarkPaid, Waive, TransitionPaymentStatus
<1>11. CASE Reverse(task)
  BY <1>0, <1>11 DEF Reverse
<1> QED
  BY <1>1, <1>2, <1>3, <1>5, <1>6, <1>7, <1>8, <1>9, <1>10, <1>11 DEF TaskStep

LEMMA RowStays ==
  ASSUME IndInv, Numbered, UNCHANGED vars
  PROVE  Moved /\ Numbered'
BY RowType DEF IndInv, vars, Moved, Moves, Numbered

(* What a load finds is true of the row.                                   *)
LEMMA RowFound ==
  ASSUME IndInv, Numbered, Live(task)
  PROVE  Row \in Found /\ RowNow(Row)
<1>1. Row \in Found
  BY RowType DEF IndInv, Row, Found, Live
<1>2. status[task] = "WAIT_GROSS" => tare[task] # 0 /\ verdict[task].result \in {"PENDING", "OVERWEIGHT"}
  BY RowWeighed
<1>3. /\ StepOf(Row) = "TARE" => status[task] = "WAIT_TARE"
      /\ StepOf(Row) = "FINISH" => status[task] = "TARE_COMPLETED"
      /\ StepOf(Row) = "GROSS" => status[task] = "WAIT_GROSS" /\ verdict[task].result # "OVERWEIGHT"
      /\ StepOf(Row) = "REWEIGH" => status[task] = "WAIT_GROSS"
      /\ StepOf(Row) = "COMPLETE" => status[task] = "GROSS_COMPLETED"
  BY TaskAssumption DEF StepOf, Row, StepKind, Weighing
<1>4. /\ Row.version = version[task] /\ Row.tare = tare[task] /\ Row.allowed = allowed[task]
      /\ status[task] # "ABSENT" /\ version[task] \in Nat
  BY RowType DEF IndInv, Row, Live
<1> QED
  BY <1>1, <1>2, <1>3, <1>4 DEF RowNow, Known, Numbered, Passed
-----------------------------------------------------------------------------
(* What was known stays known.                                             *)

LEMMA KnownStays ==
  ASSUME NEW v \in Nat, NEW st, NEW t \in Nat, NEW a, NEW w \in Nat, NEW su, NEW u \in Nat, NEW b,
         Moves(v, st, t, a, w, su, u, b), NEW d \in Found, Known(d, v, st, t, a)
  PROVE  Known(d, w, su, u, b)
BY DEF Moves, Known, Found, Passed

LEMMA EntryStays ==
  ASSUME NEW v \in Nat, NEW w \in Nat, w >= v, NEW k, NEW e \in Entry, EntryKnown(k, e, v)
  PROVE  EntryKnown(k, e, w)
BY DEF EntryKnown, Entry

LEMMA AskedStays ==
  ASSUME NEW v \in Nat, NEW st, NEW t \in Nat, NEW a, NEW w \in Nat, NEW su, NEW u \in Nat, NEW b,
         Moves(v, st, t, a, w, su, u, b), NEW r, r.seen \in Nat, r.entry \in Entry,
         Asked(r, v, st, t, a)
  PROVE  Asked(r, w, su, u, b)
BY EntryStays DEF Moves, Asked, Passed
-----------------------------------------------------------------------------
(* One step of the whole.                                                  *)

LEMMA DeskRow ==
  ASSUME DeskInv, [DeskNext]_deskVars
  PROVE  IndInv' /\ Numbered' /\ Moved
<1>1. CASE UNCHANGED vars
  BY <1>1, RowStays, StutterGood DEF DeskInv
<1>2. CASE TaskStep(task)
  <2>1. TypeOK'
    BY <1>2, TaskAssumption, StepTypeOK DEF DeskInv, IndInv
  <2>2. \A u \in Task : Good(u)'
    BY <1>2, TaskAssumption, StepGood DEF DeskInv
  <2> QED  BY <1>2, <2>1, <2>2, RowMoves DEF DeskInv, IndInv
<1>3. CASE Elsewhere
  BY <1>2, <1>3 DEF Elsewhere, TaskStep
<1>4. ASSUME NEW s \in Call, Execute(s)  PROVE TaskStep(task)
  BY <1>4 DEF Execute, Performs, TaskStep
<1>5. CASE DeskNext /\ ~Elsewhere /\ ~\E s \in Call : Execute(s)
  <2>1. UNCHANGED vars
    BY <1>5 DEF DeskNext, Enter, Refresh, ReadTask, LoadArrives, LoadFails, Submit, NotExecuted,
                Succeeds, GiveUp
  <2> QED  BY <1>1, <2>1
<1>6. UNCHANGED deskVars => UNCHANGED vars
  BY DEF deskVars
<1> QED
  BY <1>1, <1>2, <1>3, <1>4, <1>5, <1>6

(* What the page knew before the step it may go on knowing after it.       *)
RowThen(d) == Known(d, version'[task], status'[task], tare'[task], allowed'[task])
AskedThen(r) == Asked(r, version'[task], status'[task], tare'[task], allowed'[task])

LEMMA ViewKept ==
  ASSUME DeskInv, IndInv', Moved
  PROVE  /\ shown # None => RowThen(shown)
         /\ \A l \in Slot : load[l].pc = "read" => RowThen(load[l].found)
         /\ \A l \in Slot : load[l].after <= version'[task]
         /\ \A k \in Weighing : EntryKnown(k, form[k], version'[task])
         /\ \A s \in Call : AskedThen(request[s])
<1>1. /\ version[task] \in Nat /\ tare[task] \in Nat /\ version'[task] \in Nat /\ tare'[task] \in Nat
      /\ version'[task] >= version[task]
  <2>1. version[task] \in Nat /\ tare[task] \in Nat
    BY RowType DEF DeskInv, IndInv
  <2>2. version' \in [Task -> Nat] /\ tare' \in [Task -> Nat]
    BY DEF IndInv, TypeOK
  <2>3. version'[task] >= version[task]
    BY DEF Moved, Moves
  <2> QED  BY <2>1, <2>2, <2>3, TaskAssumption
<1>2. ViewTypeOK /\ Pages /\ Forms /\ Requests
  BY DEF DeskInv, ViewInv
<1>3. ASSUME NEW d \in Found, RowNow(d)  PROVE RowThen(d)
  BY <1>1, <1>3, KnownStays DEF Moved, RowNow, RowThen
<1>4. shown # None => RowThen(shown)
  BY <1>2, <1>3 DEF ViewTypeOK, Pages
<1>5. \A l \in Slot : load[l].pc = "read" => RowThen(load[l].found)
  BY <1>2, <1>3 DEF Pages
<1>6. \A l \in Slot : load[l].after <= version'[task]
  BY <1>1, <1>2 DEF ViewTypeOK, Pages, Load
<1>7. ASSUME NEW k \in Weighing  PROVE EntryKnown(k, form[k], version'[task])
  <2>1. form[k] \in Entry /\ EntryKnown(k, form[k], version[task])
    BY <1>2 DEF ViewTypeOK, Forms
  <2> QED  BY <1>1, <2>1, EntryStays
<1>8. ASSUME NEW s \in Call  PROVE AskedThen(request[s])
  <2>1. /\ request[s].seen \in Nat /\ request[s].entry \in Entry
        /\ Asked(request[s], version[task], status[task], tare[task], allowed[task])
    BY <1>2 DEF ViewTypeOK, Requests, Request
  <2> QED  BY <1>1, <2>1, AskedStays DEF Moved, AskedThen
<1> QED
  BY <1>4, <1>5, <1>6, <1>7, <1>8
-----------------------------------------------------------------------------
(* Each step of the page, after which the row has moved on or stayed.      *)

LEMMA UntouchedView ==
  ASSUME DeskInv, IndInv', Moved, UNCHANGED view
  PROVE  ViewInv'
<1>1. /\ ViewTypeOK' /\ ButtonsTell' /\ OneAwaited'
  BY DEF DeskInv, ViewInv, view, ViewTypeOK, ButtonsTell, Awaiting, OneAwaited
<1>2. Pages'
  BY ViewKept DEF DeskInv, ViewInv, Pages, view, RowNow, RowThen
<1>3. Forms'
  BY ViewKept DEF Forms, view
<1>4. Requests'
  BY ViewKept DEF Requests, view, AskedThen
<1> QED
  BY <1>1, <1>2, <1>3, <1>4 DEF ViewInv

(* Steps of a load leave forms and requests alone.                         *)
LEMMA LoadStep ==
  ASSUME DeskInv, IndInv', Moved, NEW l \in Slot, NEW new \in Load,
         load' = [load EXCEPT ![l] = new], UNCHANGED <<form, request>>,
         shown' \in Found \cup {None}, shown' # None => RowThen(shown'),
         acting' \in BOOLEAN, loading' \in BOOLEAN,
         new.pc = "read" => new.found \in Found /\ RowThen(new.found) /\ new.found.version >= new.after,
         new.after \in {0, load[l].after}, new.pc = "free" => new.after = 0,
         acting' <=> (acting /\ new.after = load[l].after)
  PROVE  ViewInv'
<1>1. ViewTypeOK /\ ButtonsTell /\ OneAwaited /\ Pages
  BY DEF DeskInv, ViewInv
<1>2. /\ load' \in [Slot -> Load] /\ load'[l] = new
      /\ \A m \in Slot : m # l => load'[m] = load[m]
  BY <1>1 DEF ViewTypeOK
<1>3. ViewTypeOK'
  BY <1>1, <1>2 DEF ViewTypeOK
<1>4. load[l].after \in Nat /\ (load[l].after > 0 => acting)
  BY <1>1 DEF ViewTypeOK, Load, ButtonsTell, Awaiting
<1>5. OneAwaited'
  BY <1>1, <1>2, <1>4 DEF OneAwaited
<1>6. ButtonsTell'
  BY <1>1, <1>2, <1>4 DEF OneAwaited, ButtonsTell, Awaiting
<1>7. Pages'
  <2>1. (shown # None => RowNow(shown))'
    BY DEF RowNow, RowThen
  <2>2. ASSUME NEW m \in Slot, load'[m].pc = "read"
        PROVE  load'[m].found \in Found /\ RowThen(load'[m].found) /\ load'[m].found.version >= load'[m].after
    <3>1. CASE m = l
      BY <1>2, <2>2, <3>1
    <3>2. CASE m # l
      BY <1>1, <1>2, <2>2, <3>2, ViewKept DEF Pages
    <3> QED  BY <3>1, <3>2
  <2>3. ASSUME NEW m \in Slot  PROVE load'[m].after <= version'[task]
    <3>1. version'[task] \in Nat
      BY TaskAssumption DEF IndInv, TypeOK
    <3>2. CASE m = l
      BY <1>2, <3>1, <3>2, ViewKept
    <3>3. CASE m # l
      BY <1>2, <3>3, ViewKept
    <3> QED  BY <3>2, <3>3
  <2> QED  BY <2>1, <2>2, <2>3 DEF Pages, RowNow, RowThen
<1>8. Forms' /\ Requests'
  BY ViewKept DEF Forms, Requests, AskedThen
<1> QED
  BY <1>3, <1>5, <1>6, <1>7, <1>8 DEF ViewInv

LEMMA RefreshKeeps ==
  ASSUME DeskInv, IndInv', Moved, NEW l \in Slot, Refresh(l)
  PROVE  ViewInv'
<1> DEFINE new == [pc |-> "sent", found |-> None, after |-> 0]
<1>2. /\ load[l].pc = "free" /\ load' = [load EXCEPT ![l] = new] /\ loading' = TRUE
      /\ UNCHANGED <<shown, form, acting, request>>
  BY DEF Refresh, SendLoad
<1>3. load[l].after = 0 /\ shown \in Found \cup {None} /\ acting \in BOOLEAN
  BY <1>2 DEF DeskInv, ViewInv, OneAwaited, ViewTypeOK
<1>4. new \in Load
  BY DEF Load
<1>5. shown' # None => RowThen(shown')
  BY <1>2, ViewKept
<1>6. new.pc = "sent" /\ new.after = 0
  OBVIOUS
<1> HIDE DEF new
<1> QED
  BY <1>2, <1>3, <1>4, <1>5, <1>6, LoadStep

LEMMA ReadTaskKeeps ==
  ASSUME DeskInv, IndInv', Numbered', Moved, NEW l \in Slot, ReadTask(l)
  PROVE  ViewInv'
<1> DEFINE new == [load[l] EXCEPT !.pc = "read", !.found = Row]
<1>1. /\ load[l].pc = "sent" /\ load' = [load EXCEPT ![l] = new] /\ Live(task)
      /\ UNCHANGED <<vars, shown, form, acting, loading, request>>
  BY DEF ReadTask
<1>2. load[l] \in Load /\ load[l].after <= version[task] /\ shown \in Found \cup {None}
      /\ acting \in BOOLEAN /\ loading \in BOOLEAN
  BY DEF DeskInv, ViewInv, Pages, ViewTypeOK
<1>3. Row \in Found /\ RowNow(Row)
  BY <1>1, RowFound DEF DeskInv
<1>4. RowThen(Row)
  BY <1>1, <1>3 DEF RowNow, RowThen, vars
<1>5. new \in Load /\ new.pc = "read" /\ new.found = Row /\ new.after = load[l].after
  BY <1>2, <1>3 DEF Load
<1>6. Row.version = version[task]
  BY DEF Row
<1>7. shown' # None => RowThen(shown')
  BY <1>1, ViewKept
<1> HIDE DEF new
<1> QED
  BY <1>1, <1>2, <1>3, <1>4, <1>5, <1>6, <1>7, LoadStep

LEMMA EndLoadKeeps ==
  ASSUME DeskInv, IndInv', Moved, NEW l \in Slot, LoadArrives(l) \/ LoadFails(l)
  PROVE  ViewInv'
<1>1. /\ load' = [load EXCEPT ![l] = NoLoad] /\ loading' = FALSE
      /\ acting' = (IF load[l].after > 0 THEN FALSE ELSE acting)
      /\ UNCHANGED <<form, request>>
      /\ shown' = shown \/ (load[l].pc = "read" /\ shown' = load[l].found)
  <2>1. EndLoad(l)
    BY DEF LoadArrives, LoadFails
  <2>2. UNCHANGED <<form, request>>
    BY DEF LoadArrives, LoadFails
  <2>3. shown' = shown \/ (load[l].pc = "read" /\ shown' = load[l].found)
    BY DEF LoadArrives, LoadFails
  <2> QED  BY <2>1, <2>2, <2>3 DEF EndLoad
<1>2. ViewTypeOK /\ Pages /\ load[l].after \in Nat
  BY DEF DeskInv, ViewInv, ViewTypeOK, Load
<1>3. shown' \in Found \cup {None} /\ (shown' # None => RowThen(shown'))
  BY <1>1, <1>2, ViewKept DEF ViewTypeOK, Pages
<1>4. NoLoad \in Load /\ NoLoad.after = 0 /\ NoLoad.pc = "free"
  BY DEF NoLoad, Load
<1>5. acting \in BOOLEAN /\ acting' \in BOOLEAN /\ (acting' <=> (acting /\ 0 = load[l].after))
  <2>1. CASE load[l].after > 0
    <3>1. acting' = FALSE
      BY <1>1, <2>1
    <3>2. 0 # load[l].after /\ acting \in BOOLEAN
      BY <1>2, <2>1 DEF ViewTypeOK
    <3> QED  BY <3>1, <3>2
  <2>2. CASE load[l].after = 0
    <3>1. acting' = acting
      BY <1>1, <2>2
    <3>2. acting \in BOOLEAN
      BY <1>2 DEF ViewTypeOK
    <3> QED  BY <2>2, <3>1, <3>2
  <2> QED  BY <1>2, <2>1, <2>2
<1> QED
  BY <1>1, <1>3, <1>4, <1>5, LoadStep

(* Steps of a request leave what the page shows alone.                     *)
LEMMA RequestStep ==
  ASSUME DeskInv, IndInv', Moved, NEW s \in Call, NEW new \in Request,
         request' = [request EXCEPT ![s] = new], UNCHANGED <<shown, form, load, loading>>,
         AskedThen(new), new.awaited => new.pc # "free",
         new.pc \in {"done", "refused"} => new.awaited,
         \/ new.awaited = request[s].awaited /\ acting' = acting
         \/ new.awaited = TRUE /\ acting = FALSE /\ acting' = TRUE
         \/ new.awaited = FALSE /\ request[s].awaited = TRUE /\ acting' = FALSE
  PROVE  ViewInv'
<1>1. ViewTypeOK /\ ButtonsTell /\ OneAwaited /\ Pages /\ request[s] \in Request
  BY DEF DeskInv, ViewInv, ViewTypeOK
<1>2. /\ request' \in [Call -> Request] /\ request'[s] = new
      /\ \A q \in Call : q # s => request'[q] = request[q]
  BY <1>1 DEF ViewTypeOK
<1>3. ViewTypeOK'
  <2>1. acting' \in BOOLEAN
    BY <1>1 DEF ViewTypeOK
  <2> QED  BY <1>1, <1>2, <2>1 DEF ViewTypeOK
<1>4. new.awaited \in BOOLEAN /\ request[s].awaited \in BOOLEAN /\ acting \in BOOLEAN
  BY <1>1 DEF Request, ViewTypeOK
<1>5. acting = FALSE => /\ \A q \in Call : ~request[q].awaited
                        /\ \A l \in Slot : ~(load[l].after > 0)
  BY <1>1 DEF ButtonsTell, Awaiting
<1>6. OneAwaited'
  BY <1>1, <1>2, <1>4, <1>5 DEF OneAwaited
<1>7. ButtonsTell'
  <2>1. CASE new.awaited = request[s].awaited /\ acting' = acting
    BY <1>1, <1>2, <2>1 DEF ButtonsTell, Awaiting
  <2>2. CASE new.awaited = TRUE /\ acting' = TRUE
    BY <1>2, <2>2 DEF ButtonsTell, Awaiting
  <2>3. CASE new.awaited = FALSE /\ request[s].awaited = TRUE /\ acting' = FALSE
    BY <1>1, <1>2, <2>3 DEF OneAwaited, ButtonsTell, Awaiting
  <2> QED  BY <2>1, <2>2, <2>3
<1>8. Pages'
  BY <1>1, ViewKept DEF Pages, RowNow, RowThen
<1>9. Forms'
  BY ViewKept DEF Forms
<1>10. Requests'
  BY <1>2, ViewKept DEF Requests, AskedThen
<1> QED
  BY <1>3, <1>6, <1>7, <1>8, <1>9, <1>10 DEF ViewInv

(* What an action does makes a new version.                                *)
LEMMA Performed ==
  ASSUME IndInv, NEW r, Performs(r)
  PROVE  version'[task] = version[task] + 1
<1>1. version \in [Task -> Nat]
  BY DEF IndInv, TypeOK
<1>2. version' = [version EXCEPT ![task] = @ + 1]
  BY DEF Performs, RecordTare, PrepareForGross, RecordGross, RecordReweigh, RecordGrossLike, CompleteTask
<1> QED
  BY <1>1, <1>2, TaskAssumption

LEMMA AnswerKeeps ==
  ASSUME DeskInv, IndInv', Moved, NEW s \in Call, Execute(s) \/ NotExecuted(s)
  PROVE  ViewInv'
<1>1. request[s] \in Request /\ request[s].pc = "sent"
  BY DEF Execute, NotExecuted, DeskInv, ViewInv, ViewTypeOK
<1>2. /\ request[s].seen \in Nat /\ version[task] \in Nat /\ request[s].seen <= version[task]
      /\ request[s].kind = "FINISH" => request[s].seen = 2
  BY <1>1, RowType DEF DeskInv, ViewInv, IndInv, Requests, Asked, Request
<1>3. UNCHANGED <<shown, form, load, loading, acting>>
  BY DEF Execute, NotExecuted
<1>4. AskedThen(request[s])
  BY ViewKept
<1>5. ASSUME NEW pc \in {"done", "refused"}, pc = "done" => request[s].seen < version'[task],
             request' = [request EXCEPT ![s] = Answered(request[s], pc)]
      PROVE  ViewInv'
  <2> DEFINE new == Answered(request[s], pc)
  <2>1. CASE request[s].awaited
    <3>1. new = [request[s] EXCEPT !.pc = pc]
      BY <2>1 DEF Answered
    <3>2. new \in Request /\ new.pc = pc /\ new.awaited = request[s].awaited
      BY <1>1, <3>1 DEF Request
    <3>3. AskedThen(new)
      BY <1>1, <1>4, <1>5, <3>1 DEF AskedThen, Asked, Request
    <3> HIDE DEF new
    <3> QED  BY <1>3, <1>5, <2>1, <3>2, <3>3, RequestStep DEF new
  <2>2. CASE ~request[s].awaited
    <3>1. new = Idle
      BY <2>2 DEF Answered
    <3>2. Idle \in Request /\ Idle.pc = "free" /\ Idle.awaited = FALSE
      BY DEF Idle, Request, Blank, Entry
    <3>3. AskedThen(Idle)
      BY <3>2 DEF AskedThen, Asked
    <3>4. request[s].awaited = FALSE
      BY <1>1, <2>2 DEF Request
    <3>5. request' = [request EXCEPT ![s] = Idle]
      BY <1>5, <3>1
    <3> QED  BY <1>3, <3>2, <3>3, <3>4, <3>5, RequestStep
  <2> QED  BY <2>1, <2>2
<1>6. CASE Execute(s)
  <2>1. request[s].seen < version'[task]
    BY <1>2, <1>6, Performed DEF DeskInv, Execute
  <2> QED  BY <1>5, <1>6, <2>1 DEF Execute
<1>7. CASE NotExecuted(s)
  <2>1. UNCHANGED vars
    BY <1>7 DEF NotExecuted
  <2>2. PICK pc \in {"done", "refused"} :
          /\ pc = "done" => request[s].kind = "FINISH" /\ status[task] = "WAIT_GROSS"
          /\ request' = [request EXCEPT ![s] = Answered(request[s], pc)]
    BY <1>7 DEF NotExecuted
  <2>3. pc = "done" => request[s].seen < version'[task]
    BY <1>2, <2>1, <2>2 DEF DeskInv, Numbered, vars
  <2> QED  BY <1>5, <2>2, <2>3
<1> QED
  BY <1>6, <1>7

LEMMA GiveUpKeeps ==
  ASSUME DeskInv, IndInv', Moved, NEW s \in Call, GiveUp(s)
  PROVE  ViewInv'
<1> DEFINE new == IF request[s].pc = "sent" THEN [request[s] EXCEPT !.awaited = FALSE] ELSE Idle
<1>1. request[s] \in Request /\ request[s].awaited = TRUE
  BY DEF GiveUp, DeskInv, ViewInv, ViewTypeOK, Request
<1>2. request' = [request EXCEPT ![s] = new] /\ UNCHANGED <<shown, form, load, loading>> /\ acting' = FALSE
  BY DEF GiveUp
<1>3. AskedThen(request[s])
  BY ViewKept
<1>4. /\ new \in Request /\ new.awaited = FALSE /\ new.pc \in {"sent", "free"}
      /\ AskedThen(new)
  <2>1. CASE request[s].pc = "sent"
    <3>1. new = [request[s] EXCEPT !.awaited = FALSE]
      BY <2>1
    <3> QED  BY <1>1, <1>3, <2>1, <3>1 DEF Request, AskedThen, Asked
  <2>2. CASE request[s].pc # "sent"
    <3>1. new = Idle
      BY <2>2
    <3> QED  BY <3>1 DEF Idle, Request, Blank, Entry, AskedThen, Asked
  <2> QED  BY <2>1, <2>2
<1> HIDE DEF new
<1> QED
  BY <1>1, <1>2, <1>4, RequestStep

(* The step on the page is the one of the task as it was shown.            *)
LEMMA StepOfShown ==
  ASSUME ViewInv, StepShown \in StepKind
  PROVE  /\ shown \in Found /\ RowNow(shown) /\ StepShown = StepOf(shown)
         /\ StepShown = "GROSS" => shown.result # "OVERWEIGHT"
         /\ StepShown = "REWEIGH" => shown.result = "OVERWEIGHT"
<1>1. shown # None /\ StepShown = StepOf(shown)
  BY TaskAssumption DEF StepShown
<1>2. shown \in Found /\ RowNow(shown)
  BY <1>1 DEF ViewInv, ViewTypeOK, Pages
<1> QED
  BY <1>1, <1>2, TaskAssumption DEF StepOf, StepKind, Weighing

LEMMA EnterKeeps ==
  ASSUME DeskInv, IndInv', Moved, Enter
  PROVE  ViewInv'
<1>1. PICK raw \in Weights[StepShown] : Fill(raw)
  BY DEF Enter
<1> DEFINE new == [raw |-> raw, version |-> shown.version]
<1>2. /\ StepShown \in Weighing /\ form' = [form EXCEPT ![StepShown] = new]
      /\ UNCHANGED <<vars, shown, acting, loading, request, load>>
  BY <1>1 DEF Enter, Fill
<1>3. ViewInv
  BY DEF DeskInv
<1>4. shown \in Found /\ RowNow(shown) /\ StepShown = StepOf(shown)
  BY <1>2, <1>3, StepOfShown DEF StepKind
<1>5. new \in Entry
  <2>1. raw \in RawWeight
    BY <1>1, <1>2, EntryAssumption
  <2> QED  BY <1>4, <2>1 DEF Entry, Found
<1>6. EntryKnown(StepShown, new, version[task])
  BY <1>4 DEF RowNow, Known, EntryKnown
<1>7. ViewTypeOK' /\ ButtonsTell' /\ OneAwaited'
  <2>1. ViewTypeOK'
    BY <1>2, <1>3, <1>5 DEF ViewInv, ViewTypeOK
  <2>2. ButtonsTell' /\ OneAwaited'
    BY <1>2, <1>3 DEF ViewInv, ButtonsTell, Awaiting, OneAwaited
  <2> QED  BY <2>1, <2>2
<1>8. Pages'
  BY <1>2, <1>3, ViewKept DEF ViewInv, Pages, RowNow, RowThen
<1>9. Requests'
  BY <1>2, ViewKept DEF Requests, AskedThen
<1>10. Forms'
  <2>1. version' = version
    BY <1>2 DEF vars
  <2>2. form \in [Weighing -> Entry] /\ Forms
    BY <1>3 DEF ViewInv, ViewTypeOK
  <2>3. ASSUME NEW k \in Weighing  PROVE EntryKnown(k, form'[k], version[task])
    <3>1. CASE k = StepShown
      <4>1. form'[k] = new
        BY <1>2, <2>2, <3>1
      <4> QED  BY <1>6, <3>1, <4>1
    <3>2. CASE k # StepShown
      <4>1. form'[k] = form[k]
        BY <1>2, <2>2, <3>2
      <4> QED  BY <2>2, <4>1 DEF Forms
    <3> QED  BY <3>1, <3>2
  <2> QED  BY <2>1, <2>3 DEF Forms
<1> QED
  BY <1>7, <1>8, <1>9, <1>10 DEF ViewInv

LEMMA SubmitKeeps ==
  ASSUME DeskInv, IndInv', Moved, NEW s \in Call, Submit(s)
  PROVE  ViewInv'
<1> DEFINE k == StepShown
           new == [pc |-> "sent", kind |-> k, entry |-> EntryFor(k), seen |-> shown.version,
                   preview |-> Preview, awaited |-> TRUE]
<1>1. /\ acting' = TRUE /\ k # None /\ request' = [request EXCEPT ![s] = new]
      /\ k \in Weighing => form[k].raw # None
      /\ UNCHANGED <<vars, shown, form, loading, load>>
  BY DEF Submit
<1>2. ViewInv /\ acting = FALSE
  BY DEF Submit, DeskInv, ViewInv, ViewTypeOK
<1>3. k \in StepKind
  BY <1>1 DEF StepShown, StepOf, StepKind, Weighing
<1>4. /\ shown \in Found /\ RowNow(shown) /\ k = StepOf(shown)
      /\ k = "GROSS" => shown.result # "OVERWEIGHT"
      /\ k = "REWEIGH" => shown.result = "OVERWEIGHT"
  BY <1>2, <1>3, StepOfShown
<1>5. /\ \A j \in Weighing : form[j] \in Entry /\ EntryKnown(j, form[j], version[task])
      /\ \A j \in Weighing : form[j].raw \in RawWeight \cup {None}
  BY <1>2 DEF ViewInv, ViewTypeOK, Forms, Entry
<1>6. EntryFor(k) \in Entry /\ (k \in Weighing => EntryFor(k) = form[k])
  BY <1>5 DEF EntryFor, Blank, Entry
<1>7. Preview \in [net : Int, overweight : Nat] \cup {None}
  <2>1. CurrentGrossInput \in RawWeight \cup {None} /\ shown.allowed \in Nat /\ shown.tare \in Nat
    BY <1>4, <1>5 DEF CurrentGrossInput, Found, Weighing
  <2>2. CurrentGrossInput # None => QuantizeTons(CurrentGrossInput) \in Nat
    BY <2>1, WeightAssumption, QuantizeType
  <2> QED  BY <2>1, <2>2 DEF Preview
<1>8. k \in {"GROSS", "REWEIGH"} =>
        Preview = PreviewOf(form[k].raw, tare[task], allowed[task]) /\ tare[task] # 0
  <2> SUFFICES ASSUME k \in {"GROSS", "REWEIGH"}
               PROVE  Preview = PreviewOf(form[k].raw, tare[task], allowed[task]) /\ tare[task] # 0
    OBVIOUS
  <2>1. shown.tare # 0 /\ shown.tare = tare[task] /\ shown.allowed = allowed[task]
    BY <1>4 DEF RowNow, Known
  <2>2. CurrentGrossInput = form[k].raw /\ form[k].raw # None
    BY <1>1, <1>4 DEF CurrentGrossInput, Weighing
  <2>3. form[k].raw \in RawWeight /\ allowed[task] \in Nat
    BY <1>5, <2>2, RowType DEF Weighing, DeskInv, IndInv
  <2>4. QuantizeTons(form[k].raw) \in Nat
    BY <2>3, WeightAssumption, QuantizeType
  <2>5. QuantizeTons(form[k].raw) - allowed[task] > 0 <=> QuantizeTons(form[k].raw) > allowed[task]
    BY <2>3, <2>4
  <2> QED  BY <2>1, <2>2, <2>5 DEF Preview, PreviewOf
<1>9. new \in Request
  BY <1>3, <1>4, <1>6, <1>7 DEF Request, Found
<1>10. AskedThen(new)
  <2>1. k \in Weighing => form[k].raw \in RawWeight /\ EntryKnown(k, EntryFor(k), version[task])
    BY <1>1, <1>5, <1>6
  <2>2. UNCHANGED <<version, status, tare, allowed>>
    BY <1>1 DEF vars
  <2>3. Asked(new, version[task], status[task], tare[task], allowed[task])
    BY <1>4, <1>6, <1>8, <2>1 DEF Asked, RowNow, Known, Weighing
  <2> QED  BY <2>2, <2>3 DEF AskedThen
<1>11. new.awaited = TRUE /\ new.pc = "sent"
  OBVIOUS
<1> HIDE DEF new
<1> QED
  BY <1>1, <1>2, <1>9, <1>10, <1>11, RequestStep

LEMMA SucceedsKeeps ==
  ASSUME DeskInv, IndInv', Moved, NEW s \in Call, Succeeds(s)
  PROVE  ViewInv'
<1>1. PICK l \in Slot : SendLoad(l, request[s].seen + 1)
  BY DEF Succeeds
<1> DEFINE new == [pc |-> "sent", found |-> None, after |-> request[s].seen + 1]
<1>2. /\ load[l].pc = "free" /\ load' = [load EXCEPT ![l] = new] /\ loading' = TRUE
      /\ request[s].pc = "done" /\ request' = [request EXCEPT ![s] = Idle]
      /\ UNCHANGED <<vars, shown, form, acting>>
  BY <1>1 DEF Succeeds, SendLoad
<1>3. ViewTypeOK /\ ButtonsTell /\ OneAwaited /\ Pages /\ Requests
  BY DEF DeskInv, ViewInv
<1>4. request[s].seen \in Nat /\ request[s].awaited = TRUE /\ request[s].seen < version[task]
  BY <1>2, <1>3 DEF ViewTypeOK, Request, OneAwaited, Requests, Asked
<1>5. new \in Load /\ new.pc = "sent" /\ new.after > 0
  BY <1>4 DEF Load
<1>6. Idle \in Request /\ Idle.pc = "free" /\ Idle.awaited = FALSE
  BY DEF Idle, Request, Blank, Entry
<1> HIDE DEF new
<1>7. /\ load' \in [Slot -> Load] /\ load'[l] = new /\ \A m \in Slot : m # l => load'[m] = load[m]
      /\ request' \in [Call -> Request] /\ request'[s] = Idle
      /\ \A q \in Call : q # s => request'[q] = request[q]
  BY <1>2, <1>3, <1>5, <1>6 DEF ViewTypeOK
<1>8. ViewTypeOK'
  <2>1. shown' \in Found \cup {None} /\ form' \in [Weighing -> Entry]
    BY <1>2, <1>3 DEF ViewTypeOK
  <2>2. acting' \in BOOLEAN
    BY <1>2, <1>3 DEF ViewTypeOK
  <2>3. loading' \in BOOLEAN
    BY <1>2
  <2> QED  BY <1>7, <2>1, <2>2, <2>3 DEF ViewTypeOK
<1>9. OneAwaited'
  <2>1. /\ \A q \in Call : q # s => ~request[q].awaited
        /\ \A m \in Slot : ~(load[m].after > 0)
    BY <1>3, <1>4 DEF OneAwaited, ViewTypeOK, Request
  <2> QED  BY <1>3, <1>5, <1>6, <1>7, <2>1 DEF OneAwaited
<1>10. ButtonsTell'
  <2>1. acting
    BY <1>3, <1>4 DEF ButtonsTell, Awaiting
  <2>2. acting'
    BY <1>2, <2>1
  <2>3. load'[l].after > 0
    BY <1>5, <1>7
  <2>4. Awaiting'
    BY <2>3 DEF Awaiting
  <2> QED  BY <2>2, <2>4 DEF ButtonsTell
<1>11. Pages'
  <2>1. version'[task] = version[task] /\ version[task] \in Nat
    BY <1>2, RowType DEF vars, DeskInv, IndInv
  <2>2. \A m \in Slot : load'[m].pc = "read" =>
          load'[m].found \in Found /\ RowThen(load'[m].found) /\ load'[m].found.version >= load'[m].after
    BY <1>3, <1>5, <1>7, ViewKept DEF Pages
  <2>3. \A m \in Slot : load'[m].after <= version'[task]
    BY <1>3, <1>4, <1>7, <2>1 DEF Pages, new
  <2>4. shown' # None => RowThen(shown')
    BY <1>2, ViewKept
  <2> QED  BY <2>2, <2>3, <2>4 DEF Pages, RowNow, RowThen
<1>12. Forms'
  BY <1>2, ViewKept DEF Forms
<1>13. Requests'
  BY <1>6, <1>7, ViewKept DEF Requests, AskedThen, Asked
<1> QED
  BY <1>8, <1>9, <1>10, <1>11, <1>12, <1>13 DEF ViewInv
-----------------------------------------------------------------------------
(* The invariant.                                                          *)

LEMMA DeskStep ==
  ASSUME DeskInv, [DeskNext]_deskVars
  PROVE  DeskInv'
<1>1. IndInv' /\ Numbered' /\ Moved
  BY DeskRow
<1>2. CASE UNCHANGED deskVars \/ Elsewhere
  BY <1>1, <1>2, UntouchedView DEF deskVars, Elsewhere, DeskInv
<1>3. CASE Enter
  BY <1>1, <1>3, EnterKeeps DEF DeskInv
<1>4. ASSUME NEW l \in Slot, Refresh(l) \/ ReadTask(l) \/ LoadArrives(l) \/ LoadFails(l)
      PROVE  DeskInv'
  BY <1>1, <1>4, RefreshKeeps, ReadTaskKeeps, EndLoadKeeps DEF DeskInv
<1>5. ASSUME NEW s \in Call, Submit(s) \/ Execute(s) \/ NotExecuted(s) \/ Succeeds(s) \/ GiveUp(s)
      PROVE  DeskInv'
  BY <1>1, <1>5, SubmitKeeps, AnswerKeeps, SucceedsKeeps, GiveUpKeeps DEF DeskInv
<1> QED
  BY <1>2, <1>3, <1>4, <1>5 DEF DeskNext

LEMMA DeskStart ==
  ASSUME DeskInit
  PROVE  DeskInv
<1>1. IndInv
  BY InitTypeOK, InitGood DEF IndInv, DeskInit
<1>2. Numbered
  BY TaskAssumption DEF DeskInit, Init, Numbered
<1>3. /\ Idle \in Request /\ Idle.pc = "free" /\ Idle.awaited = FALSE
      /\ NoLoad \in Load /\ NoLoad.pc = "free" /\ NoLoad.after = 0
      /\ Blank \in Entry /\ Blank.raw = None
  BY DEF Idle, NoLoad, Request, Load, Blank, Entry
<1>4. /\ shown = None /\ acting = FALSE /\ loading = FALSE /\ form = [k \in Weighing |-> Blank]
      /\ request = [s \in Call |-> Idle] /\ load = [s \in Slot |-> NoLoad]
  BY DEF DeskInit
<1>5. ViewTypeOK
  BY <1>3, <1>4 DEF ViewTypeOK
<1>6. ButtonsTell /\ OneAwaited
  BY <1>3, <1>4 DEF ButtonsTell, Awaiting, OneAwaited
<1>7. Pages
  BY <1>1, <1>3, <1>4, RowType DEF IndInv, Pages
<1>8. Forms /\ Requests
  BY <1>3, <1>4 DEF Forms, EntryKnown, Requests, Asked
<1> QED
  BY <1>1, <1>2, <1>5, <1>6, <1>7, <1>8 DEF DeskInv, ViewInv

(* Whatever the page shows, holds and has sent stays true of the task.     *)
THEOREM DeskInductive == DeskSpec => []DeskInv
BY DeskStart, DeskStep, PTL DEF DeskSpec

(* The page's data keep their shape, and its buttons are disabled exactly  *)
(* while an action or the load after it is awaited (runAction, loadTask).  *)
THEOREM DeskTypeCorrect == DeskSpec => []DeskTypeOK
<1>1. DeskInv => DeskTypeOK
  BY DEF DeskInv, IndInv, ViewInv, DeskTypeOK
<1> QED
  BY <1>1, DeskInductive, PTL

(* A page adds no behaviour to the task: what it and all others do is what *)
(* the backend's operations allow (Workbench.vue only calls the API).      *)
THEOREM DeskImplementsLedger == DeskSpec => Spec
<1>1. DeskInit => Init
  BY DEF DeskInit
<1>2. [DeskNext]_deskVars => [Next]_vars
  <2> SUFFICES ASSUME [DeskNext]_deskVars  PROVE [Next]_vars
    OBVIOUS
  <2>1. CASE UNCHANGED deskVars
    BY <2>1 DEF deskVars
  <2>2. CASE Elsewhere
    BY <2>2, TaskAssumption DEF Elsewhere, Next, TaskStep
  <2>3. ASSUME NEW s \in Call, Execute(s)  PROVE Next
    BY <2>3, TaskAssumption DEF Execute, Performs, Next, TaskStep
  <2>4. CASE DeskNext /\ ~Elsewhere /\ ~\E s \in Call : Execute(s)
    BY <2>4 DEF DeskNext, Enter, Refresh, ReadTask, LoadArrives, LoadFails, Submit, NotExecuted,
                Succeeds, GiveUp
  <2> QED  BY <2>1, <2>2, <2>3, <2>4
<1> QED
  BY <1>1, <1>2, PTL DEF DeskSpec, Spec
-----------------------------------------------------------------------------
(* The action properties.                                                  *)

(* A change that ends one of the page's requests is that request's.        *)
LEMMA ExecutedOnly ==
  ASSUME DeskInv, [DeskNext]_deskVars, NEW s \in Call, Executed(s)
  PROVE  Performs(request[s])
<1>1. version' # version /\ request'[s] # request[s] /\ request \in [Call -> Request]
  BY DEF Executed, DeskInv, ViewInv, ViewTypeOK
<1>2. PICK q \in Call : Execute(q)
  BY <1>1 DEF DeskNext, deskVars, vars, view, Elsewhere, Enter, Refresh, ReadTask, LoadArrives, LoadFails, Submit,
              NotExecuted, Succeeds, GiveUp
<1>3. q = s
  BY <1>1, <1>2 DEF Execute
<1> QED
  BY <1>2, <1>3 DEF Execute

LEMMA ActsCorrectly ==
  ASSUME DeskInv, NEW s \in Call, request[s].pc = "sent", Performs(request[s])
  PROVE  ActsOnShown(s)
<1> DEFINE r == request[s]
<1>1. Asked(r, version[task], status[task], tare[task], allowed[task])
  BY DEF DeskInv, ViewInv, Requests
<1>2. /\ r.seen \in Nat /\ r.kind \in StepKind \cup {None} /\ (r.entry.raw # None \/ r.kind \notin Weighing)
      /\ version[task] \in Nat
  BY <1>1, TaskAssumption, RowType DEF DeskInv, ViewInv, ViewTypeOK, IndInv, Request, Asked
<1>3. CASE r.kind = "TARE"
  <2>1. status[task] = "WAIT_TARE"
    BY <1>3 DEF Performs, RecordTare
  <2> QED  BY <1>1, <1>2, <1>3, <2>1 DEF ActsOnShown, Asked, EntryKnown, Numbered, DeskInv, Weighing
<1>4. CASE r.kind = "FINISH"
  <2>1. status[task] = "TARE_COMPLETED"
    BY <1>4 DEF Performs, PrepareForGross
  <2> QED  BY <1>1, <1>2, <1>4, <2>1 DEF ActsOnShown, Asked, Numbered, DeskInv, Weighing
<1>5. CASE r.kind = "GROSS"
  <2>1. status[task] = "WAIT_GROSS" /\ verdict[task].result = "PENDING"
    BY <1>5 DEF Performs, RecordGross, NeverGrossWeighed
  <2> QED  BY <1>1, <1>2, <1>5, <2>1 DEF ActsOnShown, Asked, EntryKnown, Numbered, DeskInv, Weighing
<1>6. CASE r.kind = "REWEIGH"
  <2>1. verdict[task].result = "OVERWEIGHT"
    BY <1>6 DEF Performs, RecordReweigh, ReweighAllowed
  <2> QED  BY <1>1, <1>2, <1>6, <2>1 DEF ActsOnShown, Asked, EntryKnown, Weighing
<1>7. CASE r.kind = "COMPLETE"
  <2>1. status[task] = "GROSS_COMPLETED"
    BY <1>7 DEF Performs, CompleteTask
  <2> QED  BY <1>1, <1>2, <1>7, <2>1 DEF ActsOnShown, Asked, Weighing
<1> QED
  BY <1>3, <1>4, <1>5, <1>6, <1>7 DEF Performs

LEMMA PreviewCorrect ==
  ASSUME DeskInv, NEW s \in Call, request[s].pc = "sent", Performs(request[s])
  PROVE  PreviewHolds(s)
<1> DEFINE r == request[s]
           ticks == QuantizeTons(r.entry.raw)
<1> SUFFICES ASSUME r.kind \in {"GROSS", "REWEIGH"}
             PROVE  r.preview = [net |-> verdict'[task].net, overweight |-> verdict'[task].overweight]
  BY DEF PreviewHolds
<1>1. r.preview = PreviewOf(r.entry.raw, tare[task], allowed[task])
  BY DEF DeskInv, ViewInv, Requests, Asked
<1>2. PICK kind \in {"GROSS", "REWEIGH"}, raw \in RawWeight : RecordGrossLike(task, kind, raw)
  BY DEF Performs, RecordGross, RecordReweigh
<1>3. Takes(r)
  BY DEF Performs
<1>4. TypeOK
  BY DEF DeskInv, IndInv
<1>5. QuantizeTons(raw) = ticks
  <2>1. readings \in [Task -> Seq(ReadingType)]
    BY <1>4 DEF TypeOK
  <2>2. readings'[task] = Append(readings[task], Reading(kind, QuantizeTons(raw)))
    BY <1>2, <2>1, TaskAssumption DEF RecordGrossLike
  <2>3. readings[task] \in Seq(ReadingType) /\ Len(readings[task]) \in Nat
    BY <2>1, TaskAssumption
  <2>4. readings'[task][Len(readings'[task])] = Reading(kind, QuantizeTons(raw))
    BY <2>2, <2>3
  <2> QED  BY <1>3, <2>4 DEF Takes, Reading
<1>6. verdict'[task] = WeightVerdict(tare[task], ticks, allowed[task])
  <2>1. verdict'[task] = CalculateWeight(RawOf(tare[task]), raw, RawOf(allowed[task]))
    BY <1>2, <1>4, TaskAssumption DEF RecordGrossLike, SummaryAfterReading, TypeOK
  <2>2. tare[task] \in Nat /\ allowed[task] \in Nat
    BY <1>4, RowType
  <2> QED  BY <1>5, <2>1, <2>2, CalculateStored
<1> QED
  BY <1>1, <1>6 DEF PreviewOf, WeightVerdict, Parts

LEMMA OwnChangeFound ==
  ASSUME DeskInv, NEW l \in Slot
  PROVE  ShowsOwnChange(l)
BY DEF DeskInv, ViewInv, Pages, ShowsOwnChange

(* What a request of the page changes is what its operator was shown       *)
(* (submitTare, submitGross, submitReweigh and the guards of the backend). *)
THEOREM ActsOnShownTask == DeskSpec => ActsOnWhatWasShown
<1>1. DeskInv /\ [DeskNext]_deskVars => [\A s \in Call : Executed(s) => ActsOnShown(s)]_deskVars
  BY ExecutedOnly, ActsCorrectly DEF Executed
<1> QED
  BY <1>1, DeskInductive, PTL DEF DeskSpec, ActsOnWhatWasShown

(* The net weight and the overweight previewed by the page are those that  *)
(* _record_gross_like stores.                                              *)
THEOREM PreviewIsVerdict == DeskSpec => VerdictAsPreviewed
<1>1. DeskInv /\ [DeskNext]_deskVars => [\A s \in Call : Executed(s) => PreviewHolds(s)]_deskVars
  BY ExecutedOnly, PreviewCorrect DEF Executed
<1> QED
  BY <1>1, DeskInductive, PTL DEF DeskSpec, VerdictAsPreviewed

(* The load that runAction awaits finds the action's own change.           *)
THEOREM OwnChangeSeen == DeskSpec => OwnChangeShown
<1>1. DeskInv => [\A l \in Slot : ShowsOwnChange(l)]_deskVars
  BY OwnChangeFound
<1> QED
  BY <1>1, DeskInductive, PTL DEF DeskSpec, OwnChangeShown
-----------------------------------------------------------------------------
(* The weighbridge panel of the page, with the simulator behind it.        *)
PanelType ==
  [page : {"new", "mounted", "left"}, status : {"unknown", "manual", "online", "offline"},
   fallback : BOOLEAN, reading : 1 .. Readings \cup {Nothing},
   timer : BOOLEAN, live : Nat, retries : 0 .. Retries]
Stages == {"free", "status", "weight", "locked", "read", "failed"}
CallType == [pc : Stages, load : BOOLEAN, value : 1 .. Readings \cup {Nothing}]

(* The view remembers the one interval that fires, and in manual mode and  *)
(* before it is mounted there is none.                                     *)
Controlled(q) ==
  /\ q.live = IF q.timer THEN 1 ELSE 0
  /\ q.fallback \/ q.page = "new" => q.live = 0

ViewsInv == panel \in [View -> PanelType] /\ \A v \in View : Controlled(panel[v])

(* A view that is not mounted has no requests; the one inside the lock     *)
(* holds the reading that is next.                                         *)
CallsInv ==
  /\ asked \in [View -> [Coroutine -> CallType]]
  /\ \A v \in View, c \in Coroutine :
       /\ panel[v].page = "new" => asked[v][c].pc = "free"
       /\ asked[v][c].pc = "locked" => asked[v][c].value = next
       /\ asked[v][c].pc = "locked" <=> lock = <<v, c>>

DeviceInv ==
  /\ mode \in {"manual", "online", "offline"}
  /\ next \in 1 .. Readings
  /\ taken \in [1 .. Readings -> Nat]
  /\ ReadingsInOrder

PanelInv == ViewsInv /\ CallsInv /\ DeviceInv
-----------------------------------------------------------------------------
(* The records of views and of requests.                                   *)
Rec(page, state, fallback, reading, timer, live, retries) ==
  [page |-> page, status |-> state, fallback |-> fallback, reading |-> reading,
   timer |-> timer, live |-> live, retries |-> retries]

LEMMA PanelFields ==
  ASSUME NEW q \in PanelType
  PROVE  /\ q = Rec(q.page, q.status, q.fallback, q.reading, q.timer, q.live, q.retries)
         /\ q.page \in {"new", "mounted", "left"}
         /\ q.status \in {"unknown", "manual", "online", "offline"}
         /\ q.fallback \in BOOLEAN /\ q.reading \in 1 .. Readings \cup {Nothing}
         /\ q.timer \in BOOLEAN /\ q.live \in Nat /\ q.retries \in 0 .. Retries
BY DEF PanelType, Rec

(* What is written into a view.                                            *)
LEMMA WritePage ==
  ASSUME NEW q \in PanelType, NEW x
  PROVE  [q EXCEPT !.page = x]
           = Rec(x, q.status, q.fallback, q.reading, q.timer, q.live, q.retries)
BY DEF PanelType, Rec

LEMMA WriteStatus ==
  ASSUME NEW q \in PanelType, NEW x
  PROVE  [q EXCEPT !.status = x]
           = Rec(q.page, x, q.fallback, q.reading, q.timer, q.live, q.retries)
BY DEF PanelType, Rec

LEMMA WriteFallback ==
  ASSUME NEW q \in PanelType, NEW x
  PROVE  [q EXCEPT !.fallback = x]
           = Rec(q.page, q.status, x, q.reading, q.timer, q.live, q.retries)
BY DEF PanelType, Rec

LEMMA WriteReading ==
  ASSUME NEW q \in PanelType, NEW x
  PROVE  [q EXCEPT !.reading = x]
           = Rec(q.page, q.status, q.fallback, x, q.timer, q.live, q.retries)
BY DEF PanelType, Rec

LEMMA WriteTimer ==
  ASSUME NEW q \in PanelType, NEW x, NEW y
  PROVE  [q EXCEPT !.timer = x, !.live = y]
           = Rec(q.page, q.status, q.fallback, q.reading, x, y, q.retries)
<1> DEFINE p == [q EXCEPT !.timer = x]
<1>1. p = Rec(q.page, q.status, q.fallback, q.reading, x, q.live, q.retries)
  BY DEF PanelType, Rec
<1>2. [q EXCEPT !.timer = x, !.live = y] = [p EXCEPT !.live = y]
  BY Zenon
<1> HIDE DEF p
<1>3. [p EXCEPT !.live = y] = Rec(q.page, q.status, q.fallback, q.reading, x, y, q.retries)
  BY <1>1 DEF Rec
<1> QED
  BY <1>2, <1>3

LEMMA WriteRetry ==
  ASSUME NEW q \in PanelType, NEW x, NEW y, NEW z
  PROVE  [q EXCEPT !.fallback = x, !.reading = y, !.retries = z]
           = Rec(q.page, q.status, x, y, q.timer, q.live, z)
<1> DEFINE p == [q EXCEPT !.fallback = x]
           m == [p EXCEPT !.reading = y]
<1>1. p = Rec(q.page, q.status, x, q.reading, q.timer, q.live, q.retries)
  BY DEF PanelType, Rec
<1>2. [q EXCEPT !.fallback = x, !.reading = y, !.retries = z] = [m EXCEPT !.retries = z]
  BY Zenon
<1> HIDE DEF p
<1>3. m = Rec(q.page, q.status, x, y, q.timer, q.live, q.retries)
  BY <1>1 DEF Rec
<1> HIDE DEF m
<1>4. [m EXCEPT !.retries = z] = Rec(q.page, q.status, x, y, q.timer, q.live, z)
  BY <1>3 DEF Rec
<1> QED
  BY <1>2, <1>4

(* Whoever stops a view stops all of its polling.                          *)
LEMMA StoppedRec ==
  ASSUME NEW q \in PanelType, Controlled(q)
  PROVE  /\ Stopped(q) = Rec(q.page, q.status, q.fallback, q.reading, FALSE, 0, q.retries)
         /\ Stopped(q) \in PanelType
<1> DEFINE n == IF q.timer THEN q.live - 1 ELSE q.live
<1>1. n = 0
  BY PanelFields DEF Controlled
<1>2. Stopped(q) = [q EXCEPT !.timer = FALSE, !.live = n]
  BY Zenon DEF Stopped
<1> HIDE DEF n
<1>3. Stopped(q) = Rec(q.page, q.status, q.fallback, q.reading, FALSE, 0, q.retries)
  BY <1>1, <1>2, WriteTimer, Zenon
<1>4. FALSE \in BOOLEAN /\ 0 \in Nat
  OBVIOUS
<1> QED
  BY <1>3, <1>4, PanelFields DEF PanelType, Rec

LEMMA ToManualRec ==
  ASSUME NEW q \in PanelType, Controlled(q)
  PROVE  ToManual(q) = Rec(q.page, q.status, TRUE, q.reading, FALSE, 0, q.retries)
<1> DEFINE s == Stopped(q)
<1>1. /\ s = Rec(q.page, q.status, q.fallback, q.reading, FALSE, 0, q.retries)
      /\ s \in PanelType
  BY StoppedRec
<1>2. ToManual(q) = [s EXCEPT !.fallback = TRUE]
  BY Zenon DEF ToManual
<1> HIDE DEF s
<1>3. ToManual(q) = Rec(s.page, s.status, TRUE, s.reading, s.timer, s.live, s.retries)
  <2>1. \A x : [s EXCEPT !.fallback = x]
                 = Rec(s.page, s.status, x, s.reading, s.timer, s.live, s.retries)
    BY <1>1, WriteFallback
  <2> QED  BY <1>2, <2>1, Zenon
<1>4. /\ s.page = q.page /\ s.status = q.status /\ s.reading = q.reading
      /\ s.live = 0 /\ s.retries = q.retries
  BY <1>1 DEF Rec
<1>5. s.timer = FALSE
  BY <1>1, Zenon DEF Rec
<1> QED
  BY <1>3, <1>4, <1>5, Zenon

LEMMA LeftRec ==
  ASSUME NEW q \in PanelType, Controlled(q)
  PROVE  [Stopped(q) EXCEPT !.page = "left"]
           = Rec("left", q.status, q.fallback, q.reading, FALSE, 0, q.retries)
<1> DEFINE s == Stopped(q)
<1>1. /\ s = Rec(q.page, q.status, q.fallback, q.reading, FALSE, 0, q.retries)
      /\ s \in PanelType
  BY StoppedRec
<1> HIDE DEF s
<1>2. \A x : [s EXCEPT !.page = x]
               = Rec(x, s.status, s.fallback, s.reading, s.timer, s.live, s.retries)
  BY <1>1, WritePage
<1>3. /\ s.status = q.status /\ s.fallback = q.fallback /\ s.reading = q.reading
      /\ s.live = 0 /\ s.retries = q.retries
  BY <1>1 DEF Rec
<1>4. s.timer = FALSE
  BY <1>1, Zenon DEF Rec
<1>5. [s EXCEPT !.page = "left"] = Rec("left", q.status, q.fallback, q.reading, FALSE, 0, q.retries)
  BY <1>2, <1>3, <1>4, Zenon
<1> QED
  BY <1>5 DEF s

LEMMA RetriedRec ==
  ASSUME NEW q \in PanelType
  PROVE  Retried(q) = Rec(q.page, q.status, FALSE, Nothing, q.timer, q.live, q.retries + 1)
<1>1. \A x, y, z : [q EXCEPT !.fallback = x, !.reading = y, !.retries = z]
                       = Rec(q.page, q.status, x, y, q.timer, q.live, z)
  BY WriteRetry
<1>2. Retried(q) = [q EXCEPT !.fallback = FALSE, !.reading = Nothing, !.retries = q.retries + 1]
  BY Zenon DEF Retried
<1> QED
  BY <1>1, <1>2, Zenon

LEMMA StartedRec ==
  ASSUME NEW q \in PanelType, Controlled(q)
  PROVE  Started(q) = Rec(q.page, q.status, q.fallback, q.reading, TRUE, 1, q.retries)
<1> DEFINE s == Stopped(q)
<1>1. /\ s = Rec(q.page, q.status, q.fallback, q.reading, FALSE, 0, q.retries)
      /\ s \in PanelType
  BY StoppedRec
<1>2. Started(q) = [s EXCEPT !.timer = TRUE, !.live = s.live + 1]
  BY Zenon DEF Started
<1> HIDE DEF s
<1>3. Started(q) = Rec(s.page, s.status, s.fallback, s.reading, TRUE, s.live + 1, s.retries)
  BY <1>1, <1>2, WriteTimer, Zenon
<1>4. /\ s.page = q.page /\ s.status = q.status /\ s.reading = q.reading
      /\ s.fallback = q.fallback /\ s.live = 0 /\ s.retries = q.retries
  BY <1>1 DEF Rec
<1>5. s.live + 1 = 1
  BY <1>4
<1> QED
  BY <1>3, <1>4, <1>5, Zenon

(* One view changes to another that is under control, and stays mounted if *)
(* it was.                                                                 *)
LEMMA ViewStep ==
  ASSUME ViewsInv, NEW v \in View, NEW q \in PanelType, Controlled(q),
         panel' = [panel EXCEPT ![v] = q]
  PROVE  ViewsInv' /\ \A u \in View : panel'[u] = IF u = v THEN q ELSE panel[u]
BY DEF ViewsInv

(* One request changes and the simulator does not: only from before the    *)
(* lock to before it, or from behind it to behind it.                      *)
LEMMA CallStep ==
  ASSUME CallsInv, NEW v \in View, NEW c \in Coroutine, NEW k \in CallType,
         asked' = [asked EXCEPT ![v][c] = k], k.pc # "locked", asked[v][c].pc # "locked",
         panel'[v].page # "new", \A u \in View \ {v} : panel'[u].page = panel[u].page,
         next' = next, lock' = lock
  PROVE  CallsInv'
<1>1. asked' \in [View -> [Coroutine -> CallType]]
  BY DEF CallsInv
<1>2. \A u \in View, d \in Coroutine :
        asked'[u][d] = IF u = v /\ d = c THEN k ELSE asked[u][d]
  BY DEF CallsInv
<1>3. \A u \in View, d \in Coroutine :
        /\ panel'[u].page = "new" => asked'[u][d].pc = "free"
        /\ asked'[u][d].pc = "locked" => asked'[u][d].value = next
        /\ asked'[u][d].pc = "locked" <=> lock = <<u, d>>
  BY <1>2 DEF CallsInv
<1> QED
  BY <1>1, <1>3 DEF CallsInv

(* No request changes, and no page becomes new.                            *)
LEMMA SameCalls ==
  ASSUME CallsInv, UNCHANGED <<asked, next, lock>>,
         \A u \in View : panel'[u].page = "new" => panel[u].page = "new"
  PROVE  CallsInv'
BY DEF CallsInv

LEMMA SentCall ==
  \A pc \in {"status", "weight"}, b \in BOOLEAN :
    LET k == [pc |-> pc, load |-> b, value |-> Nothing]
    IN k \in CallType /\ k.pc # "locked"
BY DEF CallType, Stages

LEMMA FreeCall == Free \in CallType /\ Free.pc # "locked"
BY DEF Free, CallType, Stages

LEMMA CallFields ==
  ASSUME NEW k \in CallType
  PROVE  /\ k.pc \in Stages /\ k.load \in BOOLEAN /\ k.value \in 1 .. Readings \cup {Nothing}
         /\ \A pc \in Stages :
              /\ [k EXCEPT !.pc = pc] \in CallType
              /\ [k EXCEPT !.pc = pc].pc = pc /\ [k EXCEPT !.pc = pc].value = k.value
BY DEF CallType

LEMMA WriteCall ==
  ASSUME NEW k \in CallType, NEW x, NEW y
  PROVE  [[k EXCEPT !.pc = x] EXCEPT !.value = y] = [pc |-> x, load |-> k.load, value |-> y]
<1> DEFINE p == [k EXCEPT !.pc = x]
<1>1. p = [pc |-> x, load |-> k.load, value |-> k.value]
  BY DEF CallType
<1> HIDE DEF p
<1>2. [p EXCEPT !.value = y] = [pc |-> x, load |-> k.load, value |-> y]
  BY <1>1
<1> QED
  BY <1>2 DEF p

LEMMA SameDevice ==
  ASSUME DeviceInv, UNCHANGED <<mode, next, taken>>
  PROVE  DeviceInv'
BY DEF DeviceInv, ReadingsInOrder

LEMMA InitPanel == PanelInit => PanelInv
<1> SUFFICES ASSUME PanelInit PROVE PanelInv
  OBVIOUS
<1>1. Readings \in Nat \ {0} /\ Retries \in Nat /\ Nothing \notin View \X Coroutine
  BY PanelAssumption
<1>2. NewView \in PanelType /\ Controlled(NewView)
  BY <1>1 DEF NewView, PanelType, Controlled
<1>3. ViewsInv
  BY <1>2 DEF PanelInit, ViewsInv
<1>4. CallsInv
  <2>1. \A v \in View, c \in Coroutine : lock # <<v, c>>
    BY <1>1 DEF PanelInit
  <2>2. asked = [v \in View |-> [c \in Coroutine |-> Free]]
    BY DEF PanelInit
  <2>3. \A v \in View, c \in Coroutine : asked[v][c].pc = "free"
    BY <2>2 DEF Free
  <2>4. asked \in [View -> [Coroutine -> CallType]]
    BY <2>2, FreeCall
  <2> QED
    BY <2>1, <2>3, <2>4 DEF CallsInv
<1>5. DeviceInv
  BY <1>1 DEF PanelInit, Configured, DeviceInv, ReadingsInOrder
<1> QED
  BY <1>3, <1>4, <1>5 DEF PanelInv

LEMMA PanelStep ==
  ASSUME PanelInv, NEW v \in View,
         \/ Mount(v) \/ Unmount(v) \/ SwitchToManualInput(v)
         \/ RetryDevice(v) \/ Poll(v)
  PROVE  PanelInv'
<1> DEFINE q == panel[v]
<1>1. Readings \in Nat \ {0} /\ Retries \in Nat /\ Nothing \notin View \X Coroutine
  BY PanelAssumption
<1>2. /\ ViewsInv /\ CallsInv /\ DeviceInv /\ q \in PanelType /\ Controlled(q)
      /\ \A u \in View, c \in Coroutine : panel[u].page = "new" => asked[u][c].pc = "free"
  BY DEF PanelInv, ViewsInv, CallsInv
<1>3. /\ q.page \in {"new", "mounted", "left"}
      /\ q.status \in {"unknown", "manual", "online", "offline"}
      /\ q.fallback \in BOOLEAN /\ q.reading \in 1 .. Readings \cup {Nothing}
      /\ q.timer \in BOOLEAN /\ q.live \in Nat /\ q.retries \in 0 .. Retries
  BY <1>2, PanelFields
<1>4. /\ "mounted" \in {"new", "mounted", "left"} /\ "left" \in {"new", "mounted", "left"}
      /\ FALSE \in BOOLEAN /\ TRUE \in BOOLEAN /\ 0 \in Nat /\ 1 \in Nat
      /\ Nothing \in 1 .. Readings \cup {Nothing}
  OBVIOUS
<1>5. CASE Mount(v)
  <2>1. PICK c \in Coroutine :
          /\ q.page = "new"
          /\ panel' = [panel EXCEPT ![v].page = "mounted"]
          /\ Send(v, c, "status", TRUE)
          /\ UNCHANGED <<mode, next, taken, lock>>
    BY <1>5 DEF Mount, device
  <2> DEFINE new == Rec("mounted", q.status, q.fallback, q.reading, q.timer, q.live, q.retries)
             k == [pc |-> "status", load |-> TRUE, value |-> Nothing]
  <2>2. panel' = [panel EXCEPT ![v] = [q EXCEPT !.page = "mounted"]]
    BY <2>1
  <2>3. [q EXCEPT !.page = "mounted"] = new
    BY <1>2, WritePage
  <2>4. q.live = (IF q.timer THEN 1 ELSE 0) /\ q.live = 0
    BY <1>2, <2>1 DEF Controlled
  <2>5. new \in PanelType /\ Controlled(new) /\ new.page = "mounted"
    BY <1>3, <1>4, <2>4 DEF Rec, PanelType, Controlled
  <2> HIDE DEF new
  <2>6. ViewsInv' /\ \A u \in View : panel'[u] = IF u = v THEN new ELSE panel[u]
    BY <1>2, <2>2, <2>3, <2>5, ViewStep
  <2>7. k \in CallType /\ k.pc # "locked"
    BY <1>4, SentCall
  <2>8. asked' = [asked EXCEPT ![v][c] = k]
    BY <2>1 DEF Send
  <2> HIDE DEF k
  <2>9. CallsInv'
    BY <1>2, <2>1, <2>5, <2>6, <2>7, <2>8, CallStep
  <2>10. DeviceInv'
    BY <1>2, <2>1, SameDevice
  <2> QED  BY <2>6, <2>9, <2>10 DEF PanelInv
<1>6. CASE Unmount(v)
  <2>1. /\ panel' = [panel EXCEPT ![v] = [Stopped(q) EXCEPT !.page = "left"]]
        /\ UNCHANGED <<mode, next, taken, lock, asked>>
    BY <1>6 DEF Unmount, device
  <2> DEFINE new == Rec("left", q.status, q.fallback, q.reading, FALSE, 0, q.retries)
  <2>2. panel' = [panel EXCEPT ![v] = new]
    BY <1>2, <2>1, LeftRec
  <2>3. new \in PanelType /\ Controlled(new) /\ new.page = "left"
    BY <1>3, <1>4 DEF Rec, PanelType, Controlled
  <2> HIDE DEF new
  <2>4. ViewsInv' /\ \A u \in View : panel'[u] = IF u = v THEN new ELSE panel[u]
    BY <1>2, <2>2, <2>3, ViewStep
  <2>5. CallsInv'
    BY <1>2, <2>1, <2>3, <2>4, SameCalls
  <2>6. DeviceInv'
    BY <1>2, <2>1, SameDevice
  <2> QED  BY <2>4, <2>5, <2>6 DEF PanelInv
<1>7. CASE SwitchToManualInput(v)
  <2>1. /\ panel' = [panel EXCEPT ![v] = ToManual(q)]
        /\ UNCHANGED <<mode, next, taken, lock, asked>>
    BY <1>7 DEF SwitchToManualInput, device
  <2> DEFINE new == Rec(q.page, q.status, TRUE, q.reading, FALSE, 0, q.retries)
  <2>2. ToManual(q) = new
    BY <1>2, ToManualRec
  <2>3. new \in PanelType /\ Controlled(new) /\ new.page = q.page
    BY <1>3, <1>4 DEF Rec, PanelType, Controlled
  <2> HIDE DEF new
  <2>4. ViewsInv' /\ \A u \in View : panel'[u] = IF u = v THEN new ELSE panel[u]
    BY <1>2, <2>1, <2>2, <2>3, ViewStep
  <2>5. CallsInv'
    BY <1>2, <2>1, <2>3, <2>4, SameCalls
  <2>6. DeviceInv'
    BY <1>2, <2>1, SameDevice
  <2> QED  BY <2>4, <2>5, <2>6 DEF PanelInv
<1>8. CASE RetryDevice(v)
  <2>1. PICK c \in Coroutine :
          /\ q.page = "mounted" /\ q.fallback /\ q.retries < Retries
          /\ panel' = [panel EXCEPT ![v] = Retried(q)]
          /\ asked[v][c].pc = "free" /\ Send(v, c, "status", TRUE)
          /\ UNCHANGED <<mode, next, taken, lock>>
    BY <1>8 DEF RetryDevice, device
  <2> DEFINE n == q.retries + 1
             new == Rec(q.page, q.status, FALSE, Nothing, q.timer, q.live, n)
             k == [pc |-> "status", load |-> TRUE, value |-> Nothing]
  <2>2. n \in 0 .. Retries
    BY <1>1, <1>3, <2>1
  <2>3. Retried(q) = new
    BY <1>2, RetriedRec
  <2> HIDE DEF n
  <2>4. q.live = (IF q.timer THEN 1 ELSE 0) /\ q.page = "mounted"
    BY <1>2, <2>1 DEF Controlled
  <2>5. new \in PanelType /\ Controlled(new) /\ new.page = q.page
    BY <1>3, <1>4, <2>2, <2>4 DEF Rec, PanelType, Controlled
  <2> HIDE DEF new
  <2>6. ViewsInv' /\ \A u \in View : panel'[u] = IF u = v THEN new ELSE panel[u]
    BY <1>2, <2>1, <2>3, <2>5, ViewStep
  <2>7. k \in CallType /\ k.pc # "locked"
    BY <1>4, SentCall
  <2>8. asked' = [asked EXCEPT ![v][c] = k]
    BY <2>1 DEF Send
  <2> HIDE DEF k
  <2>9. CallsInv'
    <3>1. panel'[v].page # "new" /\ \A u \in View \ {v} : panel'[u].page = panel[u].page
      BY <2>4, <2>5, <2>6
    <3> QED  BY <1>2, <2>1, <2>7, <2>8, <3>1, CallStep
  <2>10. DeviceInv'
    BY <1>2, <2>1, SameDevice
  <2> QED  BY <2>6, <2>9, <2>10 DEF PanelInv
<1>9. CASE Poll(v)
  <2>1. PICK c \in Coroutine :
          /\ q.live > 0 /\ asked[v][c].pc = "free" /\ Send(v, c, "weight", FALSE)
          /\ UNCHANGED <<mode, next, taken, lock, panel>>
    BY <1>9 DEF Poll, device
  <2> DEFINE k == [pc |-> "weight", load |-> FALSE, value |-> Nothing]
  <2>2. k \in CallType /\ k.pc # "locked"
    BY <1>4, SentCall
  <2>3. asked' = [asked EXCEPT ![v][c] = k]
    BY <2>1 DEF Send
  <2> HIDE DEF k
  <2>4. q.page # "new"
    BY <1>2, <2>1 DEF Controlled
  <2>5. CallsInv'
    BY <1>2, <2>1, <2>2, <2>3, <2>4, CallStep
  <2>6. ViewsInv' /\ DeviceInv'
    BY <1>2, <2>1, SameDevice DEF ViewsInv
  <2> QED  BY <2>5, <2>6 DEF PanelInv
<1> QED
  BY <1>5, <1>6, <1>7, <1>8, <1>9

LEMMA AnswerStep ==
  ASSUME PanelInv, NEW v \in View, NEW c \in Coroutine,
         \/ StatusArrives(v, c) \/ StatusRequestFails(v, c) \/ AnswerLost(v, c)
         \/ WeightArrives(v, c) \/ ReadFails(v, c)
  PROVE  PanelInv'
<1> DEFINE q == panel[v]
           k == asked[v][c]
<1>1. /\ ViewsInv /\ CallsInv /\ DeviceInv /\ q \in PanelType /\ Controlled(q) /\ k \in CallType
      /\ k.pc # "free" => q.page # "new"
  BY DEF PanelInv, ViewsInv, CallsInv
<1>2. /\ q.page \in {"new", "mounted", "left"}
      /\ q.status \in {"unknown", "manual", "online", "offline"}
      /\ q.fallback \in BOOLEAN /\ q.reading \in 1 .. Readings \cup {Nothing}
      /\ q.timer \in BOOLEAN /\ q.live \in Nat /\ q.retries \in 0 .. Retries
  BY <1>1, PanelFields
<1>3. k.value \in 1 .. Readings \cup {Nothing}
  BY <1>1, CallFields
<1>4. CASE StatusArrives(v, c)
  <2>1. /\ k.pc = "status" /\ panel' = [panel EXCEPT ![v].status = mode]
        /\ UNCHANGED <<mode, next, taken, lock>>
        /\ Send(v, c, "weight", TRUE) \/ Finish(v, c)
    BY <1>4 DEF StatusArrives, device
  <2> DEFINE new == Rec(q.page, mode, q.fallback, q.reading, q.timer, q.live, q.retries)
  <2>2. panel' = [panel EXCEPT ![v] = new]
    BY <1>1, <2>1, WriteStatus
  <2>3. mode \in {"unknown", "manual", "online", "offline"}
    BY <1>1 DEF DeviceInv
  <2>4. new \in PanelType /\ Controlled(new) /\ new.page = q.page
    BY <1>1, <1>2, <2>3 DEF Rec, PanelType, Controlled
  <2> HIDE DEF new
  <2>5. ViewsInv' /\ \A u \in View : panel'[u] = IF u = v THEN new ELSE panel[u]
    BY <1>1, <2>2, <2>4, ViewStep
  <2>6. PICK l \in CallType : l.pc # "locked" /\ asked' = [asked EXCEPT ![v][c] = l]
    BY <2>1, SentCall, FreeCall DEF Send, Finish
  <2>7. CallsInv'
    <3>1. panel'[v].page # "new" /\ \A u \in View \ {v} : panel'[u].page = panel[u].page
      BY <1>1, <2>1, <2>4, <2>5
    <3> QED  BY <1>1, <2>1, <2>6, <3>1, CallStep
  <2>8. DeviceInv'
    BY <1>1, <2>1, SameDevice
  <2> QED  BY <2>5, <2>7, <2>8 DEF PanelInv
<1>5. CASE StatusRequestFails(v, c) \/ AnswerLost(v, c)
  <2>1. /\ k.pc \in {"status", "weight", "read"} /\ UNCHANGED <<mode, next, taken, lock, panel>>
        /\ \/ asked' = [asked EXCEPT ![v][c] = Free]
           \/ asked' = [asked EXCEPT ![v][c] = [k EXCEPT !.pc = "failed"]]
    BY <1>5 DEF StatusRequestFails, AnswerLost, device, Finish
  <2>2. [k EXCEPT !.pc = "failed"] \in CallType /\ [k EXCEPT !.pc = "failed"].pc # "locked"
    BY <1>1, CallFields DEF Stages
  <2>3. PICK l \in CallType : l.pc # "locked" /\ asked' = [asked EXCEPT ![v][c] = l]
    BY <2>1, <2>2, FreeCall
  <2>4. CallsInv'
    BY <1>1, <2>1, <2>3, CallStep
  <2>5. ViewsInv' /\ DeviceInv'
    BY <1>1, <2>1, SameDevice DEF ViewsInv
  <2> QED  BY <2>4, <2>5 DEF PanelInv
<1>6. CASE WeightArrives(v, c)
  <2> DEFINE seen == [q EXCEPT !.reading = k.value]
             next1 == IF k.load /\ StartsPolling(seen) THEN Started(seen) ELSE seen
  <2>1. /\ k.pc = "read" /\ panel' = [panel EXCEPT ![v] = next1]
        /\ asked' = [asked EXCEPT ![v][c] = Free]
        /\ UNCHANGED <<mode, next, taken, lock>>
    BY <1>6 DEF WeightArrives, device, Finish
  <2>2. seen = Rec(q.page, q.status, q.fallback, k.value, q.timer, q.live, q.retries)
    BY <1>1, WriteReading
  <2>3. seen \in PanelType /\ Controlled(seen) /\ seen.page = q.page
    <3> HIDE DEF seen
    <3> QED  BY <1>1, <1>2, <1>3, <2>2 DEF Rec, PanelType, Controlled
  <2> HIDE DEF seen
  <2>4. ASSUME StartsPolling(seen)
        PROVE  LET s == Started(seen) IN s \in PanelType /\ Controlled(s) /\ s.page = q.page
    <3> DEFINE s == Rec(q.page, seen.status, FALSE, seen.reading, TRUE, 1, seen.retries)
    <3>1. seen.fallback = FALSE
      <4>1. seen.fallback \in BOOLEAN /\ ~seen.fallback
        BY <2>3, <2>4, PanelFields DEF StartsPolling
      <4> QED  BY <4>1, Zenon
    <3>2. Started(seen) = s
      BY <2>3, <3>1, StartedRec, Zenon
    <3>3. /\ seen.status \in {"unknown", "manual", "online", "offline"}
          /\ seen.reading \in 1 .. Readings \cup {Nothing} /\ seen.retries \in 0 .. Retries
      BY <2>3, PanelFields
    <3>4. s \in PanelType /\ Controlled(s) /\ s.page = q.page
      BY <1>1, <1>2, <2>1, <3>3 DEF Rec, PanelType, Controlled
    <3> QED  BY <3>2, <3>4, Zenon
  <2>5. next1 \in PanelType /\ Controlled(next1) /\ next1.page = q.page
    BY <2>3, <2>4
  <2> HIDE DEF next1
  <2>6. ViewsInv' /\ \A u \in View : panel'[u] = IF u = v THEN next1 ELSE panel[u]
    BY <1>1, <2>1, <2>5, ViewStep
  <2>7. CallsInv'
    <3>1. panel'[v].page # "new" /\ \A u \in View \ {v} : panel'[u].page = panel[u].page
      BY <1>1, <2>1, <2>5, <2>6
    <3> QED  BY <1>1, <2>1, <3>1, FreeCall, CallStep
  <2>8. DeviceInv'
    BY <1>1, <2>1, SameDevice
  <2> QED  BY <2>6, <2>7, <2>8 DEF PanelInv
<1>7. CASE ReadFails(v, c)
  <2>1. /\ k.pc = "failed" /\ panel' = [panel EXCEPT ![v] = ToManual(q)]
        /\ asked' = [asked EXCEPT ![v][c] = Free]
        /\ UNCHANGED <<mode, next, taken, lock>>
    BY <1>7 DEF ReadFails, device, Finish
  <2> DEFINE new == Rec(q.page, q.status, TRUE, q.reading, FALSE, 0, q.retries)
  <2>2. ToManual(q) = new
    BY <1>1, ToManualRec
  <2>3. new \in PanelType /\ Controlled(new) /\ new.page = q.page
    BY <1>2 DEF Rec, PanelType, Controlled
  <2> HIDE DEF new
  <2>4. ViewsInv' /\ \A u \in View : panel'[u] = IF u = v THEN new ELSE panel[u]
    BY <1>1, <2>1, <2>2, <2>3, ViewStep
  <2>5. CallsInv'
    <3>1. panel'[v].page # "new" /\ \A u \in View \ {v} : panel'[u].page = panel[u].page
      BY <1>1, <2>1, <2>3, <2>4
    <3> QED  BY <1>1, <2>1, <3>1, FreeCall, CallStep
  <2>6. DeviceInv'
    BY <1>1, <2>1, SameDevice
  <2> QED  BY <2>4, <2>5, <2>6 DEF PanelInv
<1> QED
  BY <1>4, <1>5, <1>6, <1>7

(* The simulator: who enters its lock takes the reading that is next, and  *)
(* nobody else is inside.                                                  *)
LEMMA LockStep ==
  ASSUME PanelInv, NEW v \in View, NEW c \in Coroutine,
         EnterLock(v, c) \/ LeaveLock(v, c)
  PROVE  PanelInv'
<1> DEFINE k == asked[v][c]
<1>1. ViewsInv /\ CallsInv /\ DeviceInv /\ k \in CallType
  BY DEF PanelInv, CallsInv
<1>2. Readings \in Nat \ {0} /\ Nothing \notin View \X Coroutine
  BY PanelAssumption
<1>3. \A u \in View, d \in Coroutine :
        /\ asked[u][d].pc = "locked" <=> lock = <<u, d>>
        /\ asked[u][d].pc = "locked" => asked[u][d].value = next
        /\ panel[u].page = "new" => asked[u][d].pc = "free"
  BY <1>1 DEF CallsInv
<1>4. CASE EnterLock(v, c)
  <2> DEFINE p == [asked EXCEPT ![v][c].pc = "locked"]
             new == [pc |-> "locked", load |-> k.load, value |-> next]
  <2>1. /\ k.pc = "weight" /\ lock = Nothing /\ lock' = <<v, c>>
        /\ asked' = [asked EXCEPT ![v][c].pc = "locked", ![v][c].value = next]
        /\ UNCHANGED <<mode, panel, next, taken>>
    BY <1>4, Zenon DEF EnterLock, LockFree
  <2>2. asked' = [p EXCEPT ![v][c].value = next]
    BY <2>1, Zenon
  <2>3. /\ p \in [View -> [Coroutine -> CallType]]
        /\ p[v][c] = [k EXCEPT !.pc = "locked"]
        /\ \A u \in View, d \in Coroutine : ~(u = v /\ d = c) => p[u][d] = asked[u][d]
    <3>1. p = [asked EXCEPT ![v][c] = [k EXCEPT !.pc = "locked"]]
      BY Zenon
    <3>2. [k EXCEPT !.pc = "locked"] \in CallType
      BY <1>1, CallFields DEF Stages
    <3> HIDE DEF p
    <3> QED  BY <1>1, <3>1, <3>2 DEF CallsInv
  <2>4. [[k EXCEPT !.pc = "locked"] EXCEPT !.value = next] = new
    BY <1>1, WriteCall
  <2>5. new \in CallType
    BY <1>1 DEF CallType, Stages, DeviceInv
  <2> HIDE DEF p
  <2>6. /\ asked' \in [View -> [Coroutine -> CallType]] /\ asked'[v][c] = new
        /\ \A u \in View, d \in Coroutine : ~(u = v /\ d = c) => asked'[u][d] = asked[u][d]
    BY <2>2, <2>3, <2>4, <2>5
  <2>7. CallsInv'
    <3>1. \A u \in View, d \in Coroutine : asked[u][d].pc # "locked"
      BY <1>2, <1>3, <2>1
    <3> QED  BY <1>3, <2>1, <2>6, <3>1 DEF CallsInv
  <2>8. ViewsInv' /\ DeviceInv'
    BY <1>1, <2>1, SameDevice DEF ViewsInv
  <2> QED  BY <2>7, <2>8 DEF PanelInv
<1>5. CASE LeaveLock(v, c)
  <2> DEFINE i == k.value
  <2>1. /\ k.pc = "locked"
        /\ next' = IF i < Readings THEN i + 1 ELSE i
        /\ taken' = [taken EXCEPT ![i] = IF i < Readings THEN taken[i] + 1 ELSE 1]
        /\ lock' = IF lock = <<v, c>> THEN Nothing ELSE lock
        /\ \E pc \in {"failed", "read"} : asked' = [asked EXCEPT ![v][c] = [k EXCEPT !.pc = pc]]
        /\ UNCHANGED <<mode, panel>>
    BY <1>5 DEF LeaveLock
  <2>2. lock = <<v, c>> /\ lock' = Nothing /\ i = next
    BY <1>3, <2>1
  <2> HIDE DEF i
  <2>3. PICK l \in CallType : l.pc \notin {"free", "locked"} /\ asked' = [asked EXCEPT ![v][c] = l]
    BY <1>1, <2>1, CallFields DEF Stages
  <2>4. CallsInv'
    <3>1. asked' \in [View -> [Coroutine -> CallType]]
      BY <1>1, <2>3 DEF CallsInv
    <3>2. \A u \in View, d \in Coroutine : asked'[u][d] = IF u = v /\ d = c THEN l ELSE asked[u][d]
      BY <1>1, <2>3 DEF CallsInv
    <3>3. \A u \in View, d \in Coroutine : asked[u][d].pc = "locked" => u = v /\ d = c
      BY <1>3, <2>2
    <3>4. \A u \in View, d \in Coroutine : asked'[u][d].pc # "locked" /\ lock' # <<u, d>>
      BY <1>2, <2>2, <2>3, <3>2, <3>3
    <3>5. \A u \in View, d \in Coroutine : panel'[u].page = "new" => asked'[u][d].pc = "free"
      BY <1>3, <2>1, <3>2
    <3> QED  BY <3>1, <3>4, <3>5 DEF CallsInv
  <2>5. DeviceInv'
    <3>1. /\ next \in 1 .. Readings /\ taken \in [1 .. Readings -> Nat]
          /\ \A j \in 1 .. Readings - 1 : taken[j] = IF j < next THEN 1 ELSE 0
      BY <1>1 DEF DeviceInv, ReadingsInOrder
    <3>2. next' \in 1 .. Readings
      BY <1>2, <2>1, <2>2, <3>1
    <3>3. taken' \in [1 .. Readings -> Nat]
      BY <1>2, <2>1, <2>2, <3>1
    <3>4. \A j \in 1 .. Readings - 1 : taken'[j] = IF j < next' THEN 1 ELSE 0
      BY <1>2, <2>1, <2>2, <3>1
    <3> QED  BY <1>1, <2>1, <3>2, <3>3, <3>4 DEF DeviceInv, ReadingsInOrder
  <2>6. ViewsInv'
    BY <1>1, <2>1 DEF ViewsInv
  <2> QED  BY <2>4, <2>5, <2>6 DEF PanelInv
<1> QED
  BY <1>4, <1>5

LEMMA PanelInductive == PanelSpec => []PanelInv
<1>1. PanelInit => PanelInv
  BY InitPanel
<1>2. PanelInv /\ [PanelNext]_(panelVars) => PanelInv'
  <2> SUFFICES ASSUME PanelInv, [PanelNext]_(panelVars) PROVE PanelInv'
    OBVIOUS
  <2>1. CASE PanelNext
    BY <2>1, PanelStep, AnswerStep, LockStep DEF PanelNext
  <2>2. CASE UNCHANGED panelVars
    BY <2>2 DEF panelVars, PanelInv, ViewsInv, CallsInv, DeviceInv, ReadingsInOrder
  <2> QED  BY <2>1, <2>2
<1> QED
  BY <1>1, <1>2, PTL DEF PanelSpec

(* However the requests of however many views overlap, no view ever has    *)
(* two intervals or one it forgot, and none polls in manual mode           *)
(* (startDevicePolling, stopDevicePolling).                                *)
THEOREM PollingControlled == PanelSpec => []PollingUnderControl
<1>1. PanelInv => PollingUnderControl
  BY DEF PanelInv, ViewsInv, Controlled, PollingUnderControl, OneTimerPerView,
     ManualMeansNoPolling
<1> QED
  BY <1>1, PanelInductive, PTL

(* Each reading of the simulator but the last goes to exactly one of the   *)
(* requests of all views (SimulatedWeighbridgeAdapter.read_weight).        *)
THEOREM ReadingsHandedOut == PanelSpec => []ReadingsInOrder
<1>1. PanelInv => ReadingsInOrder
  BY DEF PanelInv, DeviceInv
<1> QED
  BY <1>1, PanelInductive, PTL

(* Views, requests and the simulator keep their types, and whoever holds   *)
(* the simulator's lock is a request that has entered and not left.        *)
THEOREM PanelTypes == PanelSpec => []PanelTypeOK
<1>1. PanelInv => PanelTypeOK
  BY DEF PanelInv, ViewsInv, CallsInv, DeviceInv, PanelType, CallType, Stages, PanelTypeOK
<1> QED
  BY <1>1, PanelInductive, PTL
=============================================================================
