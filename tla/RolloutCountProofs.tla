------------------------- MODULE RolloutCountProofs -------------------------
(***************************************************************************)
(* The counters of a deployment, its completion and its recorded phase, as *)
(* long as no message is delivered twice: every device has one course from *)
(* its update command to the end of its row, and is counted at most once.  *)
(***************************************************************************)
EXTENDS RolloutProofs, FiniteSetTheorems, SequenceTheorems

(* No message came twice; and an operator who may roll back a deployment   *)
(* before it is launched has not asked to.                                 *)
Orderly ==
  /\ spent.dups = 0
  /\ MayRollback = "created" => rollback["operator"].at = "idle" /\ spent.crashes = 0

Ends == {"success", "error"}
Early == {"none", "pending", "running"}

(* What a device that was sent no rollback may be in the middle of.        *)
Waiting(d) == commands[d] = <<"update">> /\ robot[d].fsm = "free" /\ reports[d] = <<>>

Working(d) ==
  /\ commands[d] = <<>>
  /\ \/ robot[d].fsm = "accepted" /\ reports[d] = <<>>
     \/ robot[d].fsm = "updating" /\ reports[d] \in {<<>>, <<"progress">>}

Told(d) ==
  /\ commands[d] = <<>> /\ robot[d].fsm = "free"
  /\ \E r \in Ends : reports[d] \in {<<r>>, <<"progress", r>>}

AtRest(d) == commands[d] = <<>> /\ robot[d].fsm = "free" /\ reports[d] = <<>>

(* Its end is still to be written.                                         *)
Open(d) ==
  dd[d] \notin Terminal /\ ~(handler.at = "row" /\ handler.dev = d /\ handler.kind \in Ends)

Course(d) ==
  /\ robot[d].rollbacks = 0
  /\ Waiting(d) \/ Working(d) \/ Told(d) \/ AtRest(d)
  /\ d \notin sent => AtRest(d)
  /\ d \notin sent \/ ~AtRest(d) => Open(d)

OneCourse == reverted = {} => \A d \in Devices : Course(d)

(* A row that ended is not written again.                                  *)
RowIsOpen == handler.at = "row" => dd[handler.dev] \notin Terminal

(* A robot is sent back only when the deployment is marked.                *)
MarkedBeforeReverted ==
  dep.status \in Early =>
    reverted = {} /\ \A p \in Executors : rollback[p].at \notin {"list", "revert"}

(* Until the rows are written nothing happens to the deployment.           *)
NothingYet ==
  launch.at \in {"create", "run", "rows"} =>
    /\ handler.at = "idle" /\ view = "idle" /\ reverted = {}
    /\ \A p \in Executors : rollback[p].at = "idle"
    /\ dep.succ = 0 /\ dep.fail = 0 /\ dep.phase = 0
    /\ launch.at = "rows" => dep.status = "running"

(* The report the callback is at work on, when it is at one of l.          *)
Underway(l) == IF handler.at \in l THEN 1 ELSE 0

(* The counters, with the report being handled, are at most what the rows  *)
(* say, and exactly that until the deployment ends, without a restart.     *)
Counted ==
  /\ dep.succ + Underway({"read", "count"}) <= Cardinality(RowsIn("success"))
  /\ dep.fail + Underway({"fail"}) <= Cardinality(RowsIn("failed"))
  /\ spent.crashes = 0 /\ dep.status \in Early =>
       /\ dep.succ + Underway({"read", "count"}) = Cardinality(RowsIn("success"))
       /\ dep.fail + Underway({"fail"}) = Cardinality(RowsIn("failed"))

CountParts == OneCourse /\ RowIsOpen /\ MarkedBeforeReverted /\ NothingYet /\ Counted

CountInv == Orderly => CountParts

-----------------------------------------------------------------------------
(* Rows of one status, as one of them is written.                          *)

LEMMA RowSets ==
  /\ IsFiniteSet(Devices)
  /\ \A s : IsFiniteSet(RowsIn(s)) /\ Cardinality(RowsIn(s)) \in Nat
<1>1. N \in Int /\ 1 \in Int
  BY RolloutAssumption
<1>2. IsFiniteSet(Devices)
  BY <1>1, FS_Interval DEF Devices
<1>3. ASSUME NEW s PROVE IsFiniteSet(RowsIn(s)) /\ Cardinality(RowsIn(s)) \in Nat
  <2>1. RowsIn(s) \in SUBSET Devices
    BY DEF RowsIn
  <2>2. QED
    BY <1>2, <2>1, FS_Subset, FS_CardinalityType
<1>4. QED
  BY <1>2, <1>3

LEMMA RowWritten ==
  ASSUME TypeOK, NEW d \in Devices, NEW s, dd' = [dd EXCEPT ![d] = s], dd[d] # s
  PROVE  Cardinality({e \in Devices : dd'[e] = s}) = Cardinality(RowsIn(s)) + 1
<1>1. dd \in [Devices -> RowStatuses]
  BY DEF TypeOK
<1>2. {e \in Devices : dd'[e] = s} = RowsIn(s) \cup {d} /\ d \notin RowsIn(s)
  BY <1>1 DEF RowsIn
<1>3. Cardinality(RowsIn(s) \cup {d}) = Cardinality(RowsIn(s)) + 1
  BY <1>2, RowSets, FS_AddElement
<1>4. QED
  BY <1>2, <1>3

-----------------------------------------------------------------------------
(* What leaves a device, the callback's report or the counters alone.      *)

LEMMA CourseStands ==
  ASSUME NEW d \in Devices, Course(d), UNCHANGED <<commands[d], robot[d], reports[d]>>,
         d \in sent' <=> d \in sent,
         dd'[d] = dd[d] \/ dd'[d] \notin Terminal,
         handler'.at = "row" => handler' = handler \/ handler'.dev # d \/ handler'.kind \notin Ends
  PROVE  Course(d)'
<1>1. /\ Waiting(d)' <=> Waiting(d)
      /\ Working(d)' <=> Working(d)
      /\ Told(d)' <=> Told(d)
      /\ AtRest(d)' <=> AtRest(d)
  BY DEF Waiting, Working, Told, AtRest
<1>2. Open(d) => Open(d)'
  BY DEF Open
<1>3. QED
  BY <1>1, <1>2 DEF Course

LEMMA CoursesStand ==
  ASSUME OneCourse, UNCHANGED <<commands, robot, reports, sent, dd>>,
         reverted' = reverted,
         handler'.at = "row" => handler' = handler
  PROVE  OneCourse'
<1>1. ASSUME NEW d \in Devices, Course(d) PROVE Course(d)'
  BY <1>1, CourseStands
<1>2. QED
  BY <1>1 DEF OneCourse

LEMMA CountedStands ==
  ASSUME Counted, UNCHANGED <<dd, dep.succ, dep.fail>>,
         \A l \in {{"read", "count"}, {"fail"}} : (handler'.at \in l) <=> (handler.at \in l),
         dep'.status \in Early => dep.status \in Early,
         spent'.crashes = spent.crashes
  PROVE  Counted'
<1>1. \A l \in {{"read", "count"}, {"fail"}} : Underway(l)' = Underway(l)
  BY DEF Underway
<1>2. \A s : RowsIn(s)' = RowsIn(s)
  BY DEF RowsIn
<1>3. QED
  BY <1>1, <1>2 DEF Counted

LEMMA InitCount == Init => CountParts
<1> SUFFICES ASSUME Init PROVE CountParts
  OBVIOUS
<1>1. OneCourse
  BY DEF Init, OneCourse, Course, AtRest, Open, Terminal, IdleHandler
<1>2. RowIsOpen /\ MarkedBeforeReverted /\ NothingYet
  BY DEF Init, RowIsOpen, MarkedBeforeReverted, NothingYet, IdleHandler, Executors
<1>3. Counted
  <2>1. RowsIn("success") = {} /\ RowsIn("failed") = {}
    BY DEF Init, RowsIn
  <2>2. Underway({"read", "count"}) = 0 /\ Underway({"fail"}) = 0 /\ dep.succ = 0 /\ dep.fail = 0
    BY DEF Init, Underway, IdleHandler
  <2>3. QED
    BY <2>1, <2>2, FS_EmptySet DEF Counted
<1>4. QED
  BY <1>1, <1>2, <1>3 DEF CountParts

-----------------------------------------------------------------------------
(* The launcher.                                                           *)

LEMMA CreateRowCount ==
  ASSUME Inv, CountParts, CreateRow
  PROVE  CountParts'
<1>1. /\ dep'.status = "pending" /\ dep'.succ = 0 /\ dep'.fail = 0 /\ dep'.phase = 0
      /\ launch.at = "create" /\ launch'.at = "run"
      /\ UNCHANGED <<dd, handler, rollback, view, commands, robot, reports, spent, sent, reverted>>
  BY DEF CreateRow, LaunchAt, Inv, TypeOK, Launchers, broker, history
<1>2. dep.status = "none"
  BY <1>1 DEF Inv, LaunchInv
<1>3. OneCourse'
  BY <1>1, CoursesStand DEF CountParts
<1>4. RowIsOpen' /\ MarkedBeforeReverted' /\ NothingYet'
  BY <1>1, <1>2 DEF CountParts, RowIsOpen, MarkedBeforeReverted, NothingYet, Early
<1>5. Counted'
  BY <1>1, <1>2, CountedStands DEF CountParts, NothingYet, Early
<1>6. QED
  BY <1>3, <1>4, <1>5 DEF CountParts

LEMMA MarkRunningCount ==
  ASSUME Inv, CountParts, MarkRunning
  PROVE  CountParts'
<1>1. /\ dep'.status = "running" /\ dep'.succ = dep.succ /\ dep'.fail = dep.fail /\ dep'.phase = dep.phase
      /\ launch.at = "run" /\ launch'.at = "rows"
      /\ UNCHANGED <<dd, handler, rollback, view, commands, robot, reports, spent, sent, reverted>>
  BY DEF MarkRunning, SetStatus, LaunchAt, Inv, TypeOK, Launchers, Deployments, broker, history
<1>2. /\ handler.at = "idle" /\ reverted = {} /\ dep.succ = 0 /\ dep.fail = 0
      /\ \A p \in Executors : rollback[p].at = "idle"
  BY <1>1 DEF CountParts, NothingYet
<1>3. OneCourse'
  BY <1>1, CoursesStand DEF CountParts
<1>4. RowIsOpen' /\ MarkedBeforeReverted' /\ NothingYet'
  BY <1>1, <1>2 DEF CountParts, RowIsOpen, MarkedBeforeReverted, NothingYet
<1>5. Counted'
  <2>1. \A d \in Devices : dd[d] \notin Terminal
    BY <1>1, <1>2 DEF CountParts, OneCourse, Course, Open, Inv, LaunchInv
  <2>2. RowsIn("success")' = {} /\ RowsIn("failed")' = {}
    BY <1>1, <2>1 DEF RowsIn, Terminal
  <2>3. Underway({"read", "count"})' = 0 /\ Underway({"fail"})' = 0
    BY <1>1, <1>2 DEF Underway
  <2>4. QED
    BY <1>1, <1>2, <2>2, <2>3, FS_EmptySet DEF Counted
<1>6. QED
  BY <1>3, <1>4, <1>5 DEF CountParts

LEMMA DeviceRowCount ==
  ASSUME Inv, CountParts, CreateDeviceRow
  PROVE  CountParts'
<1>1. /\ launch.at = "rows" /\ dd' = [dd EXCEPT ![launch.next] = "pending"]
      /\ launch'.at \in {"rows", "check", "direct"} /\ dep' = dep
      /\ UNCHANGED <<handler, rollback, view, commands, robot, reports, spent, sent, reverted>>
  BY DEF CreateDeviceRow, Inv, TypeOK, Launchers, broker, history
<1>2. launch.next \in Devices /\ sent = {} /\ TypeOK
  BY <1>1, RolloutAssumption DEF Inv, LaunchInv, TypeOK, Deployments, Targets, Devices
<1>3. dd[launch.next] \notin Terminal /\ reverted = {} /\ handler.at = "idle"
  BY <1>1, <1>2 DEF CountParts, NothingYet, OneCourse, Course, Open
<1>4. OneCourse'
  <2>1. \A d \in Devices : dd'[d] = dd[d] \/ dd'[d] \notin Terminal
    BY <1>1, <1>2 DEF TypeOK, Terminal
  <2>2. QED
    BY <1>1, <2>1, CourseStands DEF CountParts, OneCourse
<1>5. RowIsOpen' /\ MarkedBeforeReverted' /\ NothingYet'
  BY <1>1, <1>3 DEF CountParts, RowIsOpen, MarkedBeforeReverted, NothingYet
<1>6. Counted'
  <2>1. RowsIn("success")' = RowsIn("success") /\ RowsIn("failed")' = RowsIn("failed")
    BY <1>1, <1>2, <1>3 DEF TypeOK, Terminal, RowsIn
  <2>2. \A l : Underway(l)' = Underway(l)
    BY <1>1 DEF Underway
  <2>3. QED
    BY <1>1, <2>1, <2>2 DEF CountParts, Counted
<1>7. QED
  BY <1>4, <1>5, <1>6 DEF CountParts

(* A device is sent its update once.                                       *)
LEMMA DispatchCount ==
  ASSUME Inv, CountParts, DirectDispatch \/ DispatchPhase
  PROVE  CountParts'
<1>1. TypeOK /\ LaunchInv /\ launch.next \in Devices
  BY LaunchDevice DEF Inv
<1>2. /\ commands' = [commands EXCEPT ![launch.next] = Append(@, "update")]
      /\ sent' = sent \union {launch.next}
      /\ UNCHANGED <<dep, dd, handler, rollback, view, robot, reports, spent, reverted>>
      /\ launch.at \in {"direct", "dispatch"}
  BY DEF DirectDispatch, DispatchPhase, Dispatch, Publish, rows
<1>3. launch'.at \notin {"create", "run", "rows"}
  BY DEF DirectDispatch, DispatchPhase, Dispatch
<1>4. launch.next \notin sent
  <2>1. launch.next \in Nat /\ sent = 1..(launch.next - 1)
    BY <1>1, <1>2 DEF LaunchInv, Devices
  <2>2. QED
    BY <2>1
<1>5. OneCourse'
  <2> SUFFICES ASSUME reverted = {}, NEW d \in Devices PROVE Course(d)'
    BY <1>2 DEF OneCourse
  <2>1. Course(d)
    BY DEF CountParts, OneCourse
  <2>2. CASE d # launch.next
    <3>1. UNCHANGED <<commands[d], robot[d], reports[d], dd[d]>> /\ (d \in sent' <=> d \in sent)
      BY <1>1, <1>2, <2>2 DEF TypeOK
    <3>2. QED
      BY <1>2, <2>1, <3>1, CourseStands
  <2>3. CASE d = launch.next
    <3>1. AtRest(d) /\ Open(d)
      BY <1>4, <2>1, <2>3 DEF Course
    <3>2. commands'[d] = <<"update">>
      BY <1>1, <1>2, <2>3, <3>1 DEF AtRest, TypeOK
    <3>3. Waiting(d)' /\ d \in sent'
      BY <1>2, <2>3, <3>1, <3>2 DEF AtRest, Waiting
    <3>4. Open(d)'
      BY <1>2, <3>1 DEF Open
    <3>5. QED
      BY <1>2, <2>1, <3>3, <3>4 DEF Course
  <2>4. QED
    BY <2>2, <2>3
<1>6. RowIsOpen' /\ MarkedBeforeReverted' /\ NothingYet'
  BY <1>2, <1>3 DEF CountParts, RowIsOpen, MarkedBeforeReverted, NothingYet
<1>7. Counted'
  BY <1>2, CountedStands DEF CountParts
<1>8. QED
  BY <1>5, <1>6, <1>7 DEF CountParts

LEMMA LaunchCount ==
  ASSUME Inv, CountParts, Launch
  PROVE  CountParts'
<1>1. CASE \/ SkipPhase \/ CheckPhase \/ RecordPhase \/ ObserveAbort \/ ObserveEnd \/ AfterPhases
           \/ RecordFullPhase
  <2>1. /\ dep'.status = dep.status /\ dep'.succ = dep.succ /\ dep'.fail = dep.fail
        /\ UNCHANGED <<dd, handler, rollback, view, commands, robot, reports, spent, sent, reverted>>
    BY <1>1 DEF SkipPhase, CheckPhase, RecordPhase, ObserveAbort, ObserveEnd, AfterPhases, RecordFullPhase,
       SetPhase, Inv, TypeOK, Deployments, rows, broker, history
  <2>2. launch'.at \notin {"create", "run", "rows"}
    BY <1>1 DEF SkipPhase, CheckPhase, RecordPhase, ObserveAbort, ObserveEnd, AfterPhases, RecordFullPhase,
       LaunchAt, Inv, TypeOK, Launchers
  <2>3. OneCourse'
    BY <2>1, CoursesStand DEF CountParts
  <2>4. RowIsOpen' /\ MarkedBeforeReverted' /\ NothingYet'
    BY <2>1, <2>2 DEF CountParts, RowIsOpen, MarkedBeforeReverted, NothingYet
  <2>5. Counted'
    BY <2>1, CountedStands DEF CountParts
  <2>6. QED
    BY <2>3, <2>4, <2>5 DEF CountParts
<1>2. QED
  BY <1>1, CreateRowCount, MarkRunningCount, DeviceRowCount, DispatchCount DEF Launch

-----------------------------------------------------------------------------
(* The callback.                                                           *)

(* A report is taken: the device is as far in its course as before.        *)
LEMMA ReceiveCount ==
  ASSUME Inv, CountParts, NEW d \in Devices, Receive(d, FALSE)
  PROVE  CountParts'
<1>1. /\ handler.at = "idle" /\ reports[d] # <<>>
      /\ reports' = [reports EXCEPT ![d] = Tail(@)]
      /\ UNCHANGED <<dep, dd, launch, rollback, view, commands, robot, spent, sent, reverted>>
      /\ \/ handler' = handler
         \/ /\ handler' = [at |-> "row", dev |-> d, kind |-> Head(reports[d]), seen |-> 0]
            /\ ~Ignored(d, Head(reports[d]))
  BY DEF Receive, rows, history
<1>2. reports \in [Devices -> Seq({"progress", "success", "error"})]
  BY DEF Inv, TypeOK
<1>3. OneCourse'
  <2> SUFFICES ASSUME reverted = {}, NEW e \in Devices PROVE Course(e)'
    BY <1>1 DEF OneCourse
  <2>1. Course(e)
    BY DEF CountParts, OneCourse
  <2>2. CASE e # d
    <3>1. UNCHANGED <<commands[e], robot[e], reports[e], dd[e], sent>>
      BY <1>1, <1>2, <2>2
    <3>2. handler'.at = "row" => handler' = handler \/ handler'.dev # e
      BY <1>1, <2>2
    <3>3. QED
      BY <2>1, <3>1, <3>2, CourseStands
  <2>3. CASE e = d
    <3>1. d \in sent /\ ~AtRest(d) /\ Open(d) /\ commands[d] = <<>>
      BY <1>1, <2>1, <2>3 DEF Course, AtRest, Waiting, Working, Told
    <3>2. reports'[d] = Tail(reports[d])
      BY <1>1, <1>2
    <3>3. CASE Working(d)
      <4>1. reports[d] = <<"progress">> /\ robot[d].fsm = "updating"
        BY <1>1, <3>3 DEF Working
      <4>2. reports'[d] = <<>> /\ Head(reports[d]) = "progress"
        BY <3>2, <4>1
      <4>3. Working(d)'
        BY <1>1, <3>3, <4>1, <4>2 DEF Working
      <4>4. Open(d)'
        BY <1>1, <3>1, <4>2 DEF Open, Ends
      <4>5. QED
        BY <1>1, <2>1, <2>3, <3>1, <4>3, <4>4 DEF Course
    <3>4. CASE Told(d)
      <4>1. PICK r \in Ends : reports[d] \in {<<r>>, <<"progress", r>>}
        BY <3>4 DEF Told
      <4>2. CASE reports[d] = <<"progress", r>>
        <5>1. reports'[d] = <<r>> /\ Head(reports[d]) = "progress"
          BY <3>2, <4>2
        <5>2. Told(d)'
          BY <1>1, <3>4, <5>1 DEF Told
        <5>3. Open(d)'
          BY <1>1, <3>1, <5>1 DEF Open, Ends
        <5>4. QED
          BY <1>1, <2>1, <2>3, <3>1, <5>2, <5>3 DEF Course
      <4>3. CASE reports[d] = <<r>>
        <5>1. reports'[d] = <<>>
          BY <3>2, <4>3
        <5>2. AtRest(d)'
          BY <1>1, <3>4, <5>1 DEF Told, AtRest
        <5>3. QED
          BY <1>1, <2>1, <2>3, <3>1, <5>2 DEF Course
      <4>4. QED
        BY <4>1, <4>2, <4>3
    <3>5. QED
      BY <1>1, <2>1, <2>3, <3>3, <3>4 DEF Course, Waiting, AtRest
  <2>4. QED
    BY <2>2, <2>3
<1>4. RowIsOpen'
  <2>1. CASE handler' = handler
    BY <1>1, <2>1 DEF RowIsOpen
  <2>2. CASE handler'.dev = d /\ ~Ignored(d, Head(reports[d]))
    <3>1. CASE dep.status = "running"
      <4>1. reverted = {} /\ Course(d)
        BY <3>1 DEF CountParts, MarkedBeforeReverted, Early, OneCourse
      <4>2. Open(d)
        BY <1>1, <4>1 DEF Course, AtRest
      <4>3. QED
        BY <1>1, <2>2, <4>2 DEF Open, RowIsOpen
    <3>2. CASE dep.status # "running"
      BY <1>1, <2>2, <3>2 DEF Ignored, Active, RowIsOpen
    <3>3. QED
      BY <3>1, <3>2
  <2>3. QED
    BY <1>1, <2>1, <2>2
<1>5. MarkedBeforeReverted'
  BY <1>1 DEF CountParts, MarkedBeforeReverted
<1>6. NothingYet'
  <2>1. launch.at \in {"create", "run", "rows"} => FALSE
    <3> SUFFICES ASSUME launch.at \in {"create", "run", "rows"} PROVE FALSE
      OBVIOUS
    <3>1. sent = {} /\ reverted = {}
      BY DEF Inv, LaunchInv, CountParts, NothingYet
    <3>2. AtRest(d)
      BY <3>1 DEF CountParts, OneCourse, Course
    <3>3. QED
      BY <1>1, <3>2 DEF AtRest
  <2>2. QED
    BY <1>1, <2>1 DEF NothingYet
<1>7. Counted'
  <2>1. handler'.at \in {"idle", "row"}
    BY <1>1
  <2>2. QED
    BY <1>1, <2>1, CountedStands DEF CountParts
<1>8. QED
  BY <1>3, <1>4, <1>5, <1>6, <1>7 DEF CountParts

(* The row is written: a row that ends is counted from here on.            *)
LEMMA WriteRowCount ==
  ASSUME Inv, CountParts, WriteRow
  PROVE  CountParts'
<1>1. /\ handler.at = "row" /\ dd' = [dd EXCEPT ![handler.dev] = RowAfter(handler.kind)]
      /\ UNCHANGED <<dep, launch, rollback, view, commands, robot, reports, spent, sent, reverted>>
      /\ handler.dev \in Devices /\ TypeOK
      /\ handler.kind \in {"none", "progress", "success", "error"}
  BY DEF WriteRow, broker, history, Inv, TypeOK, Callbacks
<1>2. handler'.at = StepAfter(handler.kind)
  BY DEF WriteRow, HandlerAt, IdleHandler, StepAfter, Inv, TypeOK, Callbacks
<1>3. handler'.at # "row" /\ launch.at \notin {"create", "run", "rows"}
  BY <1>1, <1>2 DEF StepAfter, CountParts, NothingYet
<1>4. dd[handler.dev] \notin Terminal
  BY <1>1 DEF CountParts, RowIsOpen
<1>5. OneCourse'
  <2> SUFFICES ASSUME reverted = {}, NEW d \in Devices PROVE Course(d)'
    BY <1>1 DEF OneCourse
  <2>1. Course(d)
    BY DEF CountParts, OneCourse
  <2>2. CASE handler.dev = d /\ handler.kind \in Ends
    <3>1. d \in sent /\ AtRest(d)
      BY <1>1, <2>1, <2>2 DEF Course, Open
    <3>2. d \in sent' /\ AtRest(d)' /\ robot'[d].rollbacks = 0
      BY <1>1, <2>1, <3>1 DEF AtRest, Course
    <3>3. QED
      BY <3>2 DEF Course
  <2>3. CASE ~(handler.dev = d /\ handler.kind \in Ends)
    <3>1. dd'[d] = dd[d] \/ dd'[d] \notin Terminal
      BY <1>1, <2>3 DEF TypeOK, RowAfter, Ends, Terminal
    <3>2. QED
      BY <1>1, <1>3, <2>1, <3>1, CourseStands
  <2>4. QED
    BY <2>2, <2>3
<1>6. RowIsOpen' /\ MarkedBeforeReverted' /\ NothingYet'
  BY <1>1, <1>3 DEF CountParts, RowIsOpen, MarkedBeforeReverted, NothingYet
<1>7. Counted'
  <2>1. dd[handler.dev] # "success" /\ dd[handler.dev] # "failed"
    BY <1>4 DEF Terminal
  <2>2. Underway({"read", "count"}) = 0 /\ Underway({"fail"}) = 0
    BY <1>1 DEF Underway
  <2> DEFINE S == Cardinality(RowsIn("success"))
             F == Cardinality(RowsIn("failed"))
  <2>3. S \in Nat /\ F \in Nat /\ dep.succ \in Nat /\ dep.fail \in Nat
    BY <1>1, RowSets DEF TypeOK, Deployments
  <2>4. CASE handler.kind = "success"
    <3>1. dd' = [dd EXCEPT ![handler.dev] = "success"]
      BY <1>1, <2>4 DEF RowAfter
    <3>2. Cardinality({d \in Devices : dd'[d] = "success"}) = S + 1
      BY <1>1, <2>1, <3>1, RowWritten
    <3>3. {d \in Devices : dd'[d] = "failed"} = RowsIn("failed")
      BY <1>1, <2>1, <3>1 DEF TypeOK, RowsIn
    <3>4. Underway({"read", "count"})' = 1 /\ Underway({"fail"})' = 0
      BY <1>2, <2>4 DEF StepAfter, Underway
    <3>5. Cardinality(RowsIn("success"))' = S + 1 /\ Cardinality(RowsIn("failed"))' = F
      BY <3>2, <3>3 DEF RowsIn
    <3>6. QED
      BY <1>1, <2>2, <2>3, <3>4, <3>5 DEF CountParts, Counted
  <2>5. CASE handler.kind = "error"
    <3>1. dd' = [dd EXCEPT ![handler.dev] = "failed"]
      BY <1>1, <2>5 DEF RowAfter
    <3>2. Cardinality({d \in Devices : dd'[d] = "failed"}) = F + 1
      BY <1>1, <2>1, <3>1, RowWritten
    <3>3. {d \in Devices : dd'[d] = "success"} = RowsIn("success")
      BY <1>1, <2>1, <3>1 DEF TypeOK, RowsIn
    <3>4. Underway({"read", "count"})' = 0 /\ Underway({"fail"})' = 1
      BY <1>2, <2>5 DEF StepAfter, Underway
    <3>5. Cardinality(RowsIn("failed"))' = F + 1 /\ Cardinality(RowsIn("success"))' = S
      BY <3>2, <3>3 DEF RowsIn
    <3>6. QED
      BY <1>1, <2>2, <2>3, <3>4, <3>5 DEF CountParts, Counted
  <2>6. CASE handler.kind \notin Ends
    <3>1. dd' = [dd EXCEPT ![handler.dev] = "updating"]
      BY <1>1, <2>6 DEF RowAfter, Ends
    <3>2. RowsIn("failed")' = RowsIn("failed") /\ RowsIn("success")' = RowsIn("success")
      BY <1>1, <2>1, <3>1 DEF TypeOK, RowsIn
    <3>3. Underway({"read", "count"})' = 0 /\ Underway({"fail"})' = 0
      BY <1>2, <2>6 DEF StepAfter, Underway, Ends
    <3>4. QED
      BY <1>1, <2>2, <3>2, <3>3 DEF CountParts, Counted
  <2>7. QED
    BY <2>4, <2>5, <2>6 DEF Ends
<1>8. QED
  BY <1>5, <1>6, <1>7 DEF CountParts

(* The deployment is read, and the report counted.                         *)
LEMMA CountersCount ==
  ASSUME Inv, CountParts, ReadDeployment \/ CountSuccess \/ CountFailure
  PROVE  CountParts'
<1>1. /\ UNCHANGED <<dd, launch, rollback, view, commands, robot, reports, spent, sent, reverted>>
      /\ dep'.status = dep.status /\ handler.at \in {"read", "count", "fail"}
      /\ handler'.at \in {"idle", "count", "complete", "judge"}
  BY DEF ReadDeployment, CountSuccess, CountFailure, HandlerAt, IdleHandler, Inv, TypeOK, Deployments,
     Callbacks, rows, broker, history
<1>2. launch.at \notin {"create", "run", "rows"}
  BY <1>1 DEF CountParts, NothingYet
<1>3. OneCourse'
  BY <1>1, CoursesStand DEF CountParts
<1>4. RowIsOpen' /\ MarkedBeforeReverted' /\ NothingYet'
  BY <1>1, <1>2 DEF CountParts, RowIsOpen, MarkedBeforeReverted, NothingYet
<1>5. Counted'
  <2> DEFINE S == Cardinality(RowsIn("success"))
             F == Cardinality(RowsIn("failed"))
  <2>1. S \in Nat /\ F \in Nat /\ dep.succ \in Nat /\ dep.fail \in Nat
    BY RowSets DEF Inv, TypeOK, Deployments
  <2>2. Cardinality(RowsIn("success"))' = S /\ Cardinality(RowsIn("failed"))' = F
    BY <1>1 DEF RowsIn
  <2>3. CASE ReadDeployment
    <3>1. dep' = dep /\ handler.at = "read"
      BY <2>3 DEF ReadDeployment, rows
    <3>2. handler'.at = IF dep.status = "rolled_back" THEN "idle" ELSE "count"
      BY <2>3 DEF ReadDeployment, IdleHandler
    <3>3. Underway({"read", "count"}) = 1 /\ Underway({"fail"}) = 0 /\ Underway({"fail"})' = 0
      BY <3>1, <3>2 DEF Underway
    <3>4. Underway({"read", "count"})' = IF dep.status = "rolled_back" THEN 0 ELSE 1
      BY <3>2 DEF Underway
    <3>5. QED
      BY <1>1, <2>1, <2>2, <3>1, <3>3, <3>4 DEF CountParts, Counted, Early
  <2>4. CASE CountSuccess
    <3>1. /\ dep'.succ = dep.succ + 1 /\ dep'.fail = dep.fail /\ handler.at = "count"
          /\ handler'.at \in {"idle", "complete"}
      BY <2>4 DEF CountSuccess, HandlerAt, IdleHandler, Inv, TypeOK, Deployments, Callbacks
    <3>2. /\ Underway({"read", "count"}) = 1 /\ Underway({"read", "count"})' = 0
          /\ Underway({"fail"}) = 0 /\ Underway({"fail"})' = 0
      BY <3>1 DEF Underway
    <3>3. QED
      BY <1>1, <2>1, <2>2, <3>1, <3>2 DEF CountParts, Counted
  <2>5. CASE CountFailure
    <3>1. /\ dep'.fail = dep.fail + 1 /\ dep'.succ = dep.succ /\ handler.at = "fail"
          /\ handler'.at = "judge"
      BY <2>5 DEF CountFailure, HandlerAt, Inv, TypeOK, Deployments, Callbacks
    <3>2. /\ Underway({"read", "count"}) = 0 /\ Underway({"read", "count"})' = 0
          /\ Underway({"fail"}) = 1 /\ Underway({"fail"})' = 0
      BY <3>1 DEF Underway
    <3>3. QED
      BY <1>1, <2>1, <2>2, <3>1, <3>2 DEF CountParts, Counted
  <2>6. QED
    BY <2>3, <2>4, <2>5
<1>6. QED
  BY <1>3, <1>4, <1>5 DEF CountParts

(* The rest of the callback leaves rows and counters alone.                *)
LEMMA CallbackCount ==
  ASSUME Inv, BreachInv, CountParts, Handle
  PROVE  CountParts'
<1>1. CASE Complete \/ CompletePhase \/ Judge \/ RollbackReturns
  <2>1. /\ UNCHANGED <<dd, launch, view, commands, robot, reports, spent, sent, reverted>>
        /\ dep'.succ = dep.succ /\ dep'.fail = dep.fail
        /\ dep'.status = dep.status \/ dep'.status = "completed"
    BY <1>1 DEF Complete, CompletePhase, Judge, RollbackReturns, SetStatus, SetPhase, Inv, TypeOK, Deployments,
       rows, broker, history
  <2>2. /\ handler.at \in {"complete", "phase", "judge", "rollback"}
        /\ handler'.at \in {"idle", "phase", "rollback", "complete"}
    BY <1>1 DEF Complete, CompletePhase, Judge, RollbackReturns, HandlerAt, IdleHandler, Inv, TypeOK, Callbacks
  <2>3. \A p \in Executors : rollback'[p].at = rollback[p].at \/ rollback'[p].at \in {"idle", "read"}
    BY <1>1 DEF Complete, CompletePhase, Judge, RollbackReturns, Inv, TypeOK, Executors, Rollbacks
  <2>4. launch.at \notin {"create", "run", "rows"}
    BY <2>2 DEF CountParts, NothingYet
  <2>5. OneCourse'
    BY <2>1, <2>2, CoursesStand DEF CountParts
  <2>6. RowIsOpen' /\ MarkedBeforeReverted' /\ NothingYet'
    BY <2>1, <2>2, <2>3, <2>4 DEF CountParts, RowIsOpen, MarkedBeforeReverted, NothingYet, Early
  <2>7. Counted'
    BY <2>1, <2>2, CountedStands DEF CountParts, Early
  <2>8. QED
    BY <2>5, <2>6, <2>7 DEF CountParts
<1>2. QED
  BY <1>1, ReceiveCount, WriteRowCount, CountersCount DEF Handle

-----------------------------------------------------------------------------
(* ExecuteRollback and the request for it.                                 *)

LEMMA RollbackCount ==
  ASSUME Inv, CountParts, Orderly', NEW p \in Executors, Rollback(p)
  PROVE  CountParts'
<1>1. /\ UNCHANGED <<dd, launch, handler, view, robot, reports, spent, sent>>
      /\ dep'.succ = dep.succ /\ dep'.fail = dep.fail
      /\ dep'.status = dep.status \/ dep'.status = "rolled_back"
  BY DEF Rollback, ReadForRollback, MarkRolledBack, ListRows, Revert, RollbackEnds, SetStatus, Inv, TypeOK,
     Deployments, rows, broker, history
<1>2. rollback[p].at # "idle" /\ launch.at \notin {"create", "run", "rows"}
  BY DEF Rollback, ReadForRollback, MarkRolledBack, ListRows, Revert, RollbackEnds, CountParts, NothingYet
<1>3. \A q \in Executors : q # p => rollback'[q] = rollback[q]
  BY DEF Rollback, ReadForRollback, MarkRolledBack, ListRows, Revert, RollbackEnds, RollbackAt, Inv, TypeOK
<1>4. OneCourse'
  <2>1. CASE Revert(p)
    BY <2>1 DEF Revert, OneCourse
  <2>2. CASE ~Revert(p)
    <3>1. UNCHANGED <<commands, reverted>>
      BY <2>2 DEF Rollback, ReadForRollback, MarkRolledBack, ListRows, RollbackEnds, broker, history
    <3>2. QED
      BY <1>1, <3>1, CoursesStand DEF CountParts
  <2>3. QED
    BY <2>1, <2>2
<1>5. MarkedBeforeReverted'
  <2>1. CASE ReadForRollback(p)
    <3>1. rollback'[p].at \in {"done", "mark"} /\ dep' = dep /\ reverted' = reverted
      BY <2>1 DEF ReadForRollback, RollbackAt, Inv, TypeOK, Rollbacks, rows, history
    <3>2. QED
      BY <1>3, <3>1 DEF CountParts, MarkedBeforeReverted
  <2>2. CASE MarkRolledBack(p)
    <3>1. dep'.status = "rolled_back"
      BY <2>2 DEF MarkRolledBack, SetStatus, Inv, TypeOK, Deployments
    <3>2. QED
      BY <3>1 DEF MarkedBeforeReverted, Early
  <2>3. CASE ListRows(p) \/ Revert(p) \/ RollbackEnds(p)
    <3>1. rollback[p].at \in {"list", "revert"} /\ dep' = dep
      BY <2>3 DEF ListRows, Revert, RollbackEnds, rows
    <3>2. QED
      BY <3>1 DEF CountParts, MarkedBeforeReverted
  <2>4. QED
    BY <2>1, <2>2, <2>3 DEF Rollback
<1>6. RowIsOpen' /\ NothingYet'
  BY <1>1, <1>2 DEF CountParts, RowIsOpen, NothingYet
<1>7. Counted'
  BY <1>1, CountedStands DEF CountParts, Early
<1>8. QED
  BY <1>4, <1>5, <1>6, <1>7 DEF CountParts

(* An operator who may ask early is not orderly any more; the others ask   *)
(* after the launch.                                                       *)
LEMMA OperatorCount ==
  ASSUME Inv, CountParts, Orderly', OperatorRollback
  PROVE  CountParts'
<1>1. /\ UNCHANGED <<dep, dd, launch, handler, view, commands, robot, reports, spent, sent, reverted>>
      /\ rollback'["operator"].at = "read" /\ rollback'["handler"] = rollback["handler"]
  BY DEF OperatorRollback, RollbackAt, Inv, TypeOK, Rollbacks, Executors, rows, broker, history
<1>2. launch.at \notin {"create", "run", "rows"}
  BY <1>1 DEF OperatorRollback, Orderly
<1>3. OneCourse'
  BY <1>1, CoursesStand DEF CountParts
<1>4. RowIsOpen' /\ MarkedBeforeReverted' /\ NothingYet'
  BY <1>1, <1>2 DEF CountParts, RowIsOpen, MarkedBeforeReverted, NothingYet, Executors
<1>5. Counted'
  BY <1>1, CountedStands DEF CountParts
<1>6. QED
  BY <1>3, <1>4, <1>5 DEF CountParts

(* The dashboard finds nothing settled before the launch.                  *)
LEMMA ViewCount ==
  ASSUME Inv, CountParts, View
  PROVE  CountParts'
<1>1. /\ UNCHANGED <<dd, launch, handler, rollback, commands, robot, reports, spent, sent, reverted>>
      /\ dep'.succ = dep.succ /\ dep'.fail = dep.fail
      /\ dep'.status = dep.status \/ dep'.status = "completed"
  BY DEF View, ViewRead, ViewComplete, ViewPhase, SetStatus, SetPhase, Inv, TypeOK, Deployments, rows, broker, history
<1>2. launch.at \notin {"create", "run", "rows"}
  <2> SUFFICES ASSUME launch.at \in {"create", "run", "rows"} PROVE FALSE
    OBVIOUS
  <2>1. view = "idle" /\ dep.succ = 0 /\ dep.fail = 0
    BY DEF CountParts, NothingYet
  <2>2. dep.status # "none" /\ dep.succ + dep.fail >= dep.total
    BY <2>1 DEF View, ViewRead, ViewComplete, ViewPhase, Settled
  <2>3. dep.total \in Nat /\ dep.total # 0
    BY <2>2, RolloutAssumption DEF Inv, LaunchInv, TypeOK, Deployments
  <2>4. QED
    BY <2>1, <2>2, <2>3
<1>3. OneCourse'
  BY <1>1, CoursesStand DEF CountParts
<1>4. RowIsOpen' /\ MarkedBeforeReverted' /\ NothingYet'
  BY <1>1, <1>2 DEF CountParts, RowIsOpen, MarkedBeforeReverted, NothingYet, Early
<1>5. Counted'
  BY <1>1, CountedStands DEF CountParts, Early
<1>6. QED
  BY <1>3, <1>4, <1>5 DEF CountParts

-----------------------------------------------------------------------------
(* The robots: each goes on in its course.                                 *)

LEMMA Appended ==
  ASSUME NEW S, NEW a \in S, NEW b \in S
  PROVE  Append(<<a>>, b) = <<a, b>>
<1> DEFINE s == <<a>>
           t == Append(s, b)
           u == <<a, b>>
<1>1. s \in Seq(S) /\ Len(s) = 1 /\ s[1] = a
  OBVIOUS
<1>2. u \in Seq(S) /\ Len(u) = 2 /\ u[1] = a /\ u[2] = b
  OBVIOUS
<1> HIDE DEF s, u
<1>3. t \in Seq(S) /\ Len(t) = 2 /\ t[2] = b /\ t[1] = a
  BY <1>1
<1> HIDE DEF t
<1>4. \A i \in 1..Len(t) : t[i] = u[i]
  BY <1>2, <1>3
<1>5. t = u
  BY <1>2, <1>3, <1>4, SeqEqual
<1>6. QED
  BY <1>5 DEF s, t, u

LEMMA RobotCourse ==
  ASSUME Inv, CountParts, NEW d \in Devices, Robot(d)
  PROVE  OneCourse'
<1> SUFFICES ASSUME reverted = {} PROVE \A e \in Devices : Course(e)'
  BY DEF OneCourse, Robot, TakeUpdate, UpdateProgresses, UpdateSucceeds, UpdateFails, TakeRollback, RollbackDone,
     history
<1>1. /\ UNCHANGED <<dd, handler, sent, reverted>>
      /\ \A e \in Devices : e # d => UNCHANGED <<commands[e], robot[e], reports[e]>>
  BY DEF Robot, TakeUpdate, UpdateProgresses, UpdateSucceeds, UpdateFails, TakeRollback, RollbackDone, Deliver,
     Report, Inv, TypeOK, rows, history
<1>2. \A e \in Devices : Course(e)
  BY DEF CountParts, OneCourse
<1>3. \A e \in Devices : e # d => Course(e)'
  BY <1>1, <1>2, CourseStands
<1>4. /\ robot[d] \in Robots /\ robot \in [Devices -> Robots]
      /\ reports[d] \in Seq({"progress", "success", "error"})
      /\ commands[d] \in Seq({"update", "rollback"})
      /\ reports \in [Devices -> Seq({"progress", "success", "error"})]
      /\ commands \in [Devices -> Seq({"update", "rollback"})]
  BY DEF Inv, TypeOK
<1>5. robot[d].rollbacks = 0 /\ Course(d)
  BY <1>2 DEF Course
<1>6. ASSUME robot'[d].rollbacks = 0, d \in sent, ~AtRest(d),
             Waiting(d)' \/ Working(d)' \/ Told(d)' \/ AtRest(d)'
      PROVE  Course(d)'
  <2>1. Open(d)'
    BY <1>1, <1>5, <1>6 DEF Course, Open
  <2>2. QED
    BY <1>1, <1>6, <2>1 DEF Course
<1>7. CASE TakeUpdate(d, FALSE)
  <2>1. Waiting(d)
    BY <1>5, <1>7 DEF TakeUpdate, Deliver, Course, Working, Told, AtRest
  <2>2. commands'[d] = <<>>
    BY <1>4, <1>7, <2>1 DEF TakeUpdate, Deliver, Waiting
  <2>3. robot'[d].fsm = "accepted" /\ robot'[d].rollbacks = 0 /\ reports'[d] = <<>>
    BY <1>4, <1>5, <1>7, <2>1 DEF TakeUpdate, Waiting, Robots
  <2>4. Working(d)'
    BY <2>2, <2>3 DEF Working
  <2>5. d \in sent /\ ~AtRest(d)
    BY <1>5, <2>1 DEF Course, AtRest, Waiting
  <2>6. QED
    BY <1>3, <1>6, <2>3, <2>4, <2>5
<1>8. CASE UpdateProgresses(d)
  <2>1. robot[d].fsm = "accepted" /\ commands[d] = <<>> /\ reports[d] = <<>>
    BY <1>5, <1>8 DEF UpdateProgresses, Course, Waiting, Working, Told, AtRest
  <2>2. /\ robot'[d].fsm = "updating" /\ robot'[d].rollbacks = 0
        /\ commands'[d] = <<>> /\ reports'[d] = <<"progress">>
    BY <1>4, <1>5, <1>8, <2>1 DEF UpdateProgresses, Report, Robots
  <2>3. Working(d)'
    BY <2>2 DEF Working
  <2>4. d \in sent /\ ~AtRest(d)
    BY <1>5, <2>1 DEF Course, AtRest
  <2>5. QED
    BY <1>3, <1>6, <2>2, <2>3, <2>4
<1>9. CASE UpdateSucceeds(d) \/ UpdateFails(d)
  <2>1. Working(d) /\ robot[d].fsm \in {"accepted", "updating"}
    BY <1>5, <1>9 DEF UpdateSucceeds, UpdateFails, Course, Waiting, Told, AtRest
  <2>2. PICK r \in Ends : Report(d, r)
    BY <1>9 DEF UpdateSucceeds, UpdateFails, Ends
  <2>3. robot'[d].fsm = "free" /\ robot'[d].rollbacks = 0 /\ commands'[d] = <<>>
    BY <1>4, <1>5, <1>9, <2>1 DEF UpdateSucceeds, UpdateFails, Working, Robots
  <2>4. reports[d] \in {<<>>, <<"progress">>} /\ reports'[d] = Append(reports[d], r)
    BY <1>4, <2>1, <2>2 DEF Working, Report
  <2>5. reports'[d] \in {<<r>>, <<"progress", r>>}
    <3>1. Append(<<>>, r) = <<r>>
      OBVIOUS
    <3>2. Append(<<"progress">>, r) = <<"progress", r>>
      <4>1. "progress" \in {"progress", "success", "error"} /\ r \in {"progress", "success", "error"}
        BY <2>2 DEF Ends
      <4>2. QED
        BY <4>1, Appended
    <3>3. QED
      BY <2>4, <3>1, <3>2
  <2>6. Told(d)'
    BY <2>2, <2>3, <2>5 DEF Told
  <2>7. d \in sent /\ ~AtRest(d)
    BY <1>5, <2>1 DEF Course, AtRest
  <2>8. QED
    BY <1>3, <1>6, <2>3, <2>6, <2>7
<1>10. CASE TakeRollback(d, FALSE) \/ RollbackDone(d)
  BY <1>4, <1>5, <1>10 DEF TakeRollback, Deliver, RollbackDone, Course, Waiting, Working, Told, AtRest, Robots
<1>11. QED
  BY <1>7, <1>8, <1>9, <1>10 DEF Robot

LEMMA RobotCount ==
  ASSUME Inv, CountParts, NEW d \in Devices, Robot(d)
  PROVE  CountParts'
<1>1. UNCHANGED <<dep, dd, launch, handler, rollback, view, sent, reverted>> /\ spent' = spent
  BY DEF Robot, TakeUpdate, UpdateProgresses, UpdateSucceeds, UpdateFails, TakeRollback, RollbackDone, Deliver,
     rows, history
<1>2. RowIsOpen' /\ MarkedBeforeReverted' /\ NothingYet'
  BY <1>1 DEF CountParts, RowIsOpen, MarkedBeforeReverted, NothingYet
<1>3. Counted'
  BY <1>1, CountedStands DEF CountParts
<1>4. QED
  BY <1>2, <1>3, RobotCourse DEF CountParts

(* A restart may lose the report being handled, and the reports waiting:   *)
(* that only shortens a course.                                            *)
LEMMA CrashCount ==
  ASSUME Inv, CountParts, Crash
  PROVE  CountParts'
<1>1. /\ UNCHANGED <<dep, dd, commands, robot, sent, reverted>>
      /\ launch'.at = "done" /\ handler'.at = "idle" /\ view' = "idle"
      /\ \A p \in Executors : rollback'[p].at = "idle"
      /\ spent'.crashes # 0
  BY DEF Crash, IdleHandler, Inv, TypeOK, Launchers, rows, history
<1>2. OneCourse'
  <2> SUFFICES ASSUME reverted = {}, NEW d \in Devices PROVE Course(d)'
    BY <1>1 DEF OneCourse
  <2>1. Course(d)
    BY DEF CountParts, OneCourse
  <2>2. Open(d) => Open(d)'
    BY <1>1 DEF Open
  <2>3. CASE reports'[d] = reports[d]
    <3>1. UNCHANGED <<commands[d], robot[d], reports[d], dd[d], sent>>
      BY <1>1, <2>3
    <3>2. QED
      BY <1>1, <2>1, <3>1, CourseStands
  <2>4. CASE reports'[d] = <<>>
    <3>1. Waiting(d)' \/ Working(d)' \/ AtRest(d)'
      BY <1>1, <2>1, <2>4 DEF Course, Waiting, Working, Told, AtRest
    <3>2. AtRest(d) => AtRest(d)'
      BY <1>1, <2>4 DEF AtRest
    <3>3. QED
      BY <1>1, <2>1, <2>2, <3>1, <3>2 DEF Course
  <2>5. QED
    BY <2>3, <2>4 DEF Crash
<1>3. RowIsOpen' /\ NothingYet' /\ MarkedBeforeReverted'
  BY <1>1 DEF CountParts, RowIsOpen, NothingYet, MarkedBeforeReverted
<1>4. Counted'
  <2>1. /\ Underway({"read", "count"}) \in {0, 1} /\ Underway({"fail"}) \in {0, 1}
        /\ Underway({"read", "count"})' = 0 /\ Underway({"fail"})' = 0
    BY <1>1 DEF Underway
  <2>2. /\ RowsIn("success")' = RowsIn("success") /\ RowsIn("failed")' = RowsIn("failed")
        /\ Cardinality(RowsIn("success")) \in Nat /\ Cardinality(RowsIn("failed")) \in Nat
        /\ dep.succ \in Nat /\ dep.fail \in Nat
    BY <1>1, RowSets DEF RowsIn, Inv, TypeOK, Deployments
  <2>3. QED
    BY <1>1, <2>1, <2>2 DEF CountParts, Counted
<1>5. QED
  BY <1>2, <1>3, <1>4 DEF CountParts

-----------------------------------------------------------------------------
(* A message delivered twice, or an early request, ends the order for good.*)
LEMMA OrderIsKept == Inv /\ [Next]_vars /\ Orderly' => Orderly
<1> SUFFICES ASSUME Inv, [Next]_vars, Orderly' PROVE Orderly
  OBVIOUS
<1>1. /\ spent \in [dups : 0..MaxDup, crashes : 0..MaxCrash] /\ MaxDup \in Nat /\ MaxCrash \in Nat
      /\ rollback \in [Executors -> Rollbacks]
  BY RolloutAssumption DEF Inv, TypeOK
<1>2. CASE Launch \/ View \/ Ended \/ UNCHANGED vars \/ \E d \in Devices : Robot(d)
  <2>1. spent' = spent /\ rollback' = rollback
    BY <1>2 DEF Launch, CreateRow, MarkRunning, CreateDeviceRow, DirectDispatch, SkipPhase, CheckPhase,
       RecordPhase, DispatchPhase, Dispatch, ObserveAbort, ObserveEnd, AfterPhases, RecordFullPhase, View,
       ViewRead, ViewComplete, ViewPhase, Ended, vars, Robot, TakeUpdate, UpdateProgresses, UpdateSucceeds,
       UpdateFails, TakeRollback, RollbackDone, Deliver
  <2>2. QED
    BY <2>1 DEF Orderly
<1>3. CASE Handle
  <2>1. spent' = spent /\ rollback'["operator"] = rollback["operator"]
    BY <1>1, <1>3 DEF Handle, Receive, WriteRow, ReadDeployment, CountSuccess, Complete, CompletePhase,
       CountFailure, Judge, RollbackReturns, Executors
  <2>2. QED
    BY <2>1 DEF Orderly
<1>4. CASE OperatorRollback
  <2>1. spent' = spent /\ rollback["operator"].at = "idle"
    BY <1>4 DEF OperatorRollback
  <2>2. QED
    BY <2>1 DEF Orderly
<1>5. ASSUME NEW p \in Executors, Rollback(p) PROVE Orderly
  <2>1. spent' = spent
    BY <1>5 DEF Rollback, ReadForRollback, MarkRolledBack, ListRows, Revert, RollbackEnds
  <2>2. rollback[p].at # "idle" /\ rollback'[p].at # "idle"
    BY <1>1, <1>5 DEF Rollback, ReadForRollback, MarkRolledBack, ListRows, Revert, RollbackEnds, RollbackAt,
       Rollbacks
  <2>3. p # "operator" => rollback'["operator"] = rollback["operator"]
    BY <1>1, <1>5 DEF Rollback, ReadForRollback, MarkRolledBack, ListRows, Revert, RollbackEnds, RollbackAt,
       Executors
  <2>4. QED
    BY <2>1, <2>2, <2>3 DEF Orderly
<1>6. CASE Crash
  <2>1. spent'.dups = spent.dups /\ spent'.crashes # 0
    BY <1>1, <1>6 DEF Crash
  <2>2. QED
    BY <2>1 DEF Orderly
<1>7. CASE Redeliver
  <2>1. spent'.dups = spent.dups + 1
    BY <1>1, <1>7 DEF Redeliver, Receive, TakeUpdate, TakeRollback, Deliver
  <2>2. QED
    BY <1>1, <2>1 DEF Orderly
<1>8. QED
  BY <1>2, <1>3, <1>4, <1>5, <1>6, <1>7 DEF Next

LEMMA NextCount == Inv /\ BreachInv /\ CountInv /\ [Next]_vars => CountInv'
<1> SUFFICES ASSUME Inv, BreachInv, CountParts, [Next]_vars, Orderly, Orderly' PROVE CountParts'
  BY OrderIsKept DEF CountInv
<1>1. CASE Redeliver
  <2>1. spent'.dups = spent.dups + 1 /\ spent.dups \in Nat
    BY <1>1, RolloutAssumption DEF Redeliver, Receive, TakeUpdate, TakeRollback, Deliver, Inv, TypeOK
  <2>2. QED
    BY <2>1 DEF Orderly
<1>2. CASE Ended \/ UNCHANGED vars
  <2>1. UNCHANGED vars
    BY <1>2 DEF Ended
  <2>2. OneCourse'
    BY <2>1, CoursesStand DEF CountParts, vars
  <2>3. Counted'
    BY <2>1, CountedStands DEF CountParts, vars
  <2>4. QED
    BY <2>1, <2>2, <2>3 DEF CountParts, RowIsOpen, MarkedBeforeReverted, NothingYet, vars
<1>3. QED
  BY <1>1, <1>2, LaunchCount, CallbackCount, RollbackCount, OperatorCount, ViewCount, RobotCount, CrashCount
     DEF Next

LEMMA Counting == Spec => []CountInv
<1>1. Init => CountInv
  BY InitCount DEF CountInv
<1>2. QED
  BY <1>1, NextCount, InitBreach, NextBreach, RolloutInvariant, PTL DEF Spec
(* Without duplicates, an orderly deployment.                              *)
LEMMA NoDuplicates ==
  ASSUME MaxDup = 0, TypeOK,
         MayRollback # "created" \/ (MaxCrash = 0 /\ rollback["operator"].at = "idle")
  PROVE  Orderly
<1>1. spent.dups \in 0..0 /\ spent.crashes \in 0..MaxCrash
  BY DEF TypeOK
<1>2. QED
  BY <1>1 DEF Orderly

(* The counters of a running deployment never say more than its rows, for  *)
(* fleets of any size and any number of restarts: as long as no message is *)
(* delivered twice and the operator asks for no rollback before the        *)
(* launch, no device is counted twice.                                     *)
THEOREM CountersStayBehind ==
  ASSUME MaxDup = 0, MayRollback # "created"
  PROVE  Spec => []CountersNeverAhead
<1>1. Inv /\ CountInv => CountersNeverAhead
  <2> SUFFICES ASSUME TypeOK, CountInv PROVE CountersNeverAhead
    BY DEF Inv
  <2>1. Counted
    BY NoDuplicates DEF CountInv, CountParts
  <2>2. /\ Underway({"read", "count"}) \in {0, 1} /\ Underway({"fail"}) \in {0, 1}
        /\ dep.succ \in Nat /\ dep.fail \in Nat
        /\ Cardinality(RowsIn("success")) \in Nat /\ Cardinality(RowsIn("failed")) \in Nat
    BY RowSets DEF Underway, TypeOK, Deployments
  <2>3. QED
    BY <2>1, <2>2 DEF Counted, CountersNeverAhead
<1>2. QED
  BY <1>1, Counting, RolloutInvariant, PTL

(* Without a restart and a message delivered twice, the statements of the  *)
(* two handlers add up: between two reports of a running deployment nobody *)
(* asked to roll back, the counters are the numbers of rows that ended.    *)
THEOREM CountersAddUp ==
  ASSUME MaxDup = 0, MaxCrash = 0
  PROVE  Spec => []CountersMatchRows
<1>1. Inv /\ CountInv => CountersMatchRows
  <2> SUFFICES ASSUME TypeOK, CountInv, dep.status = "running", handler.at = "idle",
                      rollback["operator"].at = "idle"
               PROVE  /\ dep.succ = Cardinality(RowsIn("success"))
                      /\ dep.fail = Cardinality(RowsIn("failed"))
    BY DEF Inv, CountersMatchRows
  <2>1. Counted /\ spent.crashes = 0
    <3>1. spent.crashes \in 0..0
      BY DEF TypeOK
    <3>2. QED
      BY <3>1, NoDuplicates DEF CountInv, CountParts
  <2>2. /\ Underway({"read", "count"}) = 0 /\ Underway({"fail"}) = 0
        /\ dep.succ \in Nat /\ dep.fail \in Nat
    BY DEF Underway, TypeOK, Deployments
  <2>3. QED
    BY <2>1, <2>2 DEF Counted, Early
<1>2. QED
  BY <1>1, Counting, RolloutInvariant, PTL

-----------------------------------------------------------------------------
(* Completion.  What is read, counted and decided belongs to a deployment  *)
(* whose counters only grow.                                               *)

RowsOfTargets ==
  /\ \A d \in Devices : dd[d] # "none" => d \in Targets
  /\ handler.at = "row" => dd[handler.dev] # "none"

Done == dep.fail > 0 \/ dep.succ >= dep.total

Decided ==
  /\ handler.at = "count" => handler.seen <= dep.succ + dep.fail
  /\ handler.at = "judge" => dep.fail > 0
  /\ dep.status = "completed" \/ handler.at = "complete" \/ view = "complete" => Done

CompletionInv == RowsOfTargets /\ Decided

LEMMA InitCompletion == Init => CompletionInv
BY DEF Init, CompletionInv, RowsOfTargets, Decided, IdleHandler

(* Who only reads, or moves commands and reports, decides nothing.         *)
LEMMA CompletionStands ==
  ASSUME Inv, CompletionInv, UNCHANGED <<dep, dd>>,
         view' = view \/ view' # "complete",
         handler' = handler \/ handler'.at \notin {"row", "count", "judge", "complete"}
  PROVE  CompletionInv'
BY DEF CompletionInv, RowsOfTargets, Decided, Done, Targets

LEMMA LaunchCompletion ==
  ASSUME Inv, CompletionInv, Launch
  PROVE  CompletionInv'
<1>1. dep \in Deployments /\ launch \in Launchers /\ dd \in [Devices -> RowStatuses] /\ LaunchInv /\ WorkInv
  BY DEF Inv, TypeOK
<1>2. UNCHANGED <<handler, view>>
  BY DEF Launch, CreateRow, MarkRunning, CreateDeviceRow, DirectDispatch, SkipPhase, CheckPhase,
     RecordPhase, DispatchPhase, Dispatch, ObserveAbort, ObserveEnd, AfterPhases, RecordFullPhase
<1>3. CASE CreateRow
  <2>1. /\ dep'.status = "pending" /\ dd' = dd /\ dep.status = "none"
    BY <1>1, <1>3 DEF CreateRow, LaunchInv
  <2>2. handler.at = "idle" /\ view = "idle" /\ \A d \in Devices : dd[d] = "none"
    BY <1>1, <2>1 DEF WorkInv, LaunchInv
  <2>3. QED
    BY <1>2, <2>1, <2>2 DEF CompletionInv, RowsOfTargets, Decided
<1>4. CASE CreateDeviceRow
  <2>1. launch.next \in Targets /\ dep' = dep /\ dd' = [dd EXCEPT ![launch.next] = "pending"]
    BY <1>1, <1>4 DEF CreateDeviceRow, LaunchInv
  <2>2. \A d \in Devices : dd'[d] = dd[d] \/ (d = launch.next /\ dd'[d] = "pending")
    BY <1>1, <2>1
  <2>3. handler \in Callbacks
    BY DEF Inv, TypeOK
  <2>4. QED
    BY <1>2, <2>1, <2>2, <2>3 DEF CompletionInv, RowsOfTargets, Decided, Done, Targets, Callbacks
<1>5. CASE ~CreateRow /\ ~CreateDeviceRow
  <2>1. /\ dd' = dd /\ dep'.succ = dep.succ /\ dep'.fail = dep.fail /\ dep'.total = dep.total
        /\ dep'.status = dep.status \/ dep'.status = "running"
    BY <1>1, <1>5 DEF Launch, MarkRunning, DirectDispatch, SkipPhase, CheckPhase,
       RecordPhase, DispatchPhase, Dispatch, ObserveAbort, ObserveEnd, AfterPhases, RecordFullPhase,
       SetStatus, SetPhase, Deployments, rows
  <2>2. QED
    BY <1>2, <2>1 DEF CompletionInv, RowsOfTargets, Decided, Done, Targets
<1>6. QED
  BY <1>3, <1>4, <1>5

LEMMA ReceiveCompletion ==
  ASSUME Inv, CompletionInv, NEW d \in Devices, NEW again \in BOOLEAN, Receive(d, again)
  PROVE  CompletionInv'
<1>1. UNCHANGED <<dep, dd, view>>
  BY DEF Receive, rows
<1>2. CASE handler' = handler
  BY <1>1, <1>2, CompletionStands
<1>3. CASE handler'.at = "row" /\ handler'.dev = d /\ ~Ignored(d, Head(reports[d]))
  BY <1>1, <1>3 DEF CompletionInv, RowsOfTargets, Decided, Done, Targets, Ignored, Active
<1>4. QED
  BY <1>2, <1>3 DEF Receive

LEMMA HandleCompletion ==
  ASSUME Inv, CompletionInv, Handle
  PROVE  CompletionInv'
<1>1. /\ dep \in Deployments /\ handler \in Callbacks /\ dd \in [Devices -> RowStatuses]
      /\ dep.succ \in Nat /\ dep.fail \in Nat /\ dep.total \in Nat /\ handler.seen \in Nat
  BY DEF Inv, TypeOK, Deployments, Callbacks
<1>2. CASE WriteRow
  <2>1. /\ dep' = dep /\ view' = view /\ handler.at = "row"
        /\ \A d \in Devices : dd'[d] = dd[d] \/ d = handler.dev
    BY <1>1, <1>2 DEF WriteRow
  <2>2. handler'.at \in {"read", "fail", "idle"}
    BY <1>1, <1>2 DEF WriteRow, HandlerAt, IdleHandler, StepAfter, Callbacks
  <2>3. handler.dev \in Targets
    BY <1>1, <2>1 DEF CompletionInv, RowsOfTargets, Callbacks
  <2>4. QED
    BY <2>1, <2>2, <2>3 DEF CompletionInv, RowsOfTargets, Decided, Done, Targets
<1>3. CASE ReadDeployment
  <2>1. /\ UNCHANGED <<dep, dd, view>>
        /\ handler'.at = "idle" \/ (handler'.at = "count" /\ handler'.seen = dep.succ + dep.fail)
    BY <1>3 DEF ReadDeployment, IdleHandler, rows
  <2>2. QED
    BY <1>1, <2>1 DEF CompletionInv, RowsOfTargets, Decided, Done, Targets
<1>4. CASE CountSuccess
  <2>1. /\ UNCHANGED <<dd, view>> /\ dep'.succ = dep.succ + 1 /\ dep'.fail = dep.fail /\ dep'.total = dep.total
        /\ dep'.status = dep.status /\ handler.at = "count"
        /\ handler'.at = IF handler.seen + 1 >= dep.total THEN "complete" ELSE "idle"
    BY <1>1, <1>4 DEF CountSuccess, HandlerAt, IdleHandler, Callbacks, Deployments
  <2>2. handler.seen <= dep.succ + dep.fail
    BY <2>1 DEF CompletionInv, Decided
  <2>3. handler'.at = "complete" => Done'
    BY <1>1, <2>1, <2>2 DEF Done
  <2>4. Done => Done'
    BY <1>1, <2>1 DEF Done
  <2>5. QED
    BY <2>1, <2>3, <2>4 DEF CompletionInv, RowsOfTargets, Decided, Targets
<1>5. CASE CountFailure
  <2>1. /\ UNCHANGED <<dd, view>> /\ dep'.fail = dep.fail + 1 /\ dep'.total = dep.total
        /\ handler'.at = "judge"
    BY <1>1, <1>5 DEF CountFailure, HandlerAt, Callbacks, Deployments
  <2>2. dep'.fail > 0
    BY <1>1, <2>1
  <2>3. QED
    BY <2>1, <2>2 DEF CompletionInv, RowsOfTargets, Decided, Done, Targets
<1>6. CASE Judge \/ RollbackReturns
  <2>1. /\ UNCHANGED <<dep, dd, view>> /\ handler.at \in {"judge", "rollback"}
        /\ handler'.at \in {"rollback", "complete", "idle"}
        /\ handler'.at = "complete" => handler.at = "judge"
    BY <1>1, <1>6 DEF Judge, RollbackReturns, HandlerAt, IdleHandler, Callbacks, rows
  <2>2. QED
    BY <2>1 DEF CompletionInv, RowsOfTargets, Decided, Done, Targets
<1>7. CASE Complete \/ CompletePhase
  <2>1. /\ UNCHANGED <<dd, view>> /\ dep'.succ = dep.succ /\ dep'.fail = dep.fail /\ dep'.total = dep.total
        /\ dep'.status = dep.status \/ (dep'.status = "completed" /\ handler.at = "complete")
        /\ handler'.at \in {"phase", "idle"}
    BY <1>1, <1>7 DEF Complete, CompletePhase, SetStatus, SetPhase, HandlerAt, IdleHandler, Callbacks, Deployments
  <2>2. QED
    BY <2>1 DEF CompletionInv, RowsOfTargets, Decided, Done, Targets
<1>8. QED
  BY <1>2, <1>3, <1>4, <1>5, <1>6, <1>7, ReceiveCompletion DEF Handle

LEMMA OthersCompletion ==
  ASSUME Inv, CompletionInv,
         \/ View \/ OperatorRollback \/ Crash
         \/ \E p \in Executors : Rollback(p)
         \/ \E d \in Devices : Robot(d) \/ TakeUpdate(d, TRUE) \/ TakeRollback(d, TRUE)
  PROVE  CompletionInv'
<1>1. dep \in Deployments /\ dep.succ \in Nat /\ dep.fail \in Nat /\ dep.total \in Nat
  BY DEF Inv, TypeOK, Deployments
<1>2. CASE View
  <2>1. /\ UNCHANGED <<dd, handler>> /\ dep'.succ = dep.succ /\ dep'.fail = dep.fail /\ dep'.total = dep.total
        /\ dep'.status = dep.status \/ (dep'.status = "completed" /\ view = "complete")
        /\ view' = "complete" => dep.succ + dep.fail >= dep.total
    BY <1>1, <1>2 DEF View, ViewRead, ViewComplete, ViewPhase, Settled, SetStatus, SetPhase, Deployments, rows
  <2>2. dep.succ + dep.fail >= dep.total => Done
    BY <1>1 DEF Done
  <2>3. Done' <=> Done
    BY <2>1 DEF Done
  <2>4. QED
    BY <2>1, <2>2, <2>3 DEF CompletionInv, RowsOfTargets, Decided, Targets
<1>3. CASE OperatorRollback \/ \E d \in Devices : Robot(d) \/ TakeUpdate(d, TRUE) \/ TakeRollback(d, TRUE)
  <2>1. UNCHANGED <<dep, dd, handler, view>>
    BY <1>3 DEF OperatorRollback, Robot, TakeUpdate, UpdateProgresses, UpdateSucceeds, UpdateFails, TakeRollback,
       RollbackDone, rows
  <2>2. QED
    BY <2>1, CompletionStands
<1>4. CASE Crash
  BY <1>4, CompletionStands DEF Crash, IdleHandler, rows
<1>5. ASSUME NEW p \in Executors, Rollback(p)
      PROVE  CompletionInv'
  <2>1. /\ UNCHANGED <<dd, handler, view>>
        /\ dep'.succ = dep.succ /\ dep'.fail = dep.fail /\ dep'.total = dep.total
        /\ dep'.status = dep.status \/ dep'.status = "rolled_back"
    BY <1>1, <1>5 DEF Rollback, ReadForRollback, MarkRolledBack, ListRows, Revert, RollbackEnds, SetStatus,
       Deployments, rows
  <2>2. QED
    BY <2>1 DEF CompletionInv, RowsOfTargets, Decided, Done, Targets
<1>6. QED
  BY <1>2, <1>3, <1>4, <1>5

LEMMA NextCompletion == Inv /\ CompletionInv /\ [Next]_vars => CompletionInv'
<1> SUFFICES ASSUME Inv, CompletionInv, [Next]_vars PROVE CompletionInv'
  OBVIOUS
<1>1. CASE Ended \/ UNCHANGED vars
  BY <1>1, CompletionStands DEF Ended, vars
<1>2. QED
  BY <1>1, LaunchCompletion, HandleCompletion, ReceiveCompletion, OthersCompletion DEF Next, Redeliver

(* A completed deployment without a failure is complete, for fleets of any *)
(* size and any number of restarts: the success counted last is added to   *)
(* counters that never say more than the rows, so that every target's row  *)
(* shows its success.                                                      *)
THEOREM CompletedOnlyWhenAllSucceeded ==
  ASSUME MaxDup = 0, MayRollback # "created"
  PROVE  Spec => []CompletedIsComplete
<1>1. Inv /\ CountInv /\ CompletionInv => CompletedIsComplete
  <2> SUFFICES ASSUME TypeOK, CountInv, CompletionInv, dep.status = "completed", dep.fail = 0
               PROVE  Targets \subseteq RowsIn("success")
    BY DEF Inv, CompletedIsComplete, RowsIn
  <2>1. Counted
    BY NoDuplicates DEF CountInv, CountParts
  <2>2. /\ Underway({"read", "count"}) \in {0, 1} /\ Cardinality(RowsIn("success")) \in Nat
        /\ dep.succ \in Nat /\ dep.total \in Nat /\ dep.fail \in Nat
    BY RowSets DEF Underway, TypeOK, Deployments
  <2>3. dep.succ >= dep.total
    BY DEF CompletionInv, Decided, Done
  <2>4. Cardinality(RowsIn("success")) >= dep.total
    BY <2>1, <2>2, <2>3 DEF Counted
  <2>5. RowsIn("success") \in SUBSET Targets
    BY DEF CompletionInv, RowsOfTargets, RowsIn
  <2>6. IsFiniteSet(Targets) /\ Cardinality(Targets) = dep.total
    <3> DEFINE t == dep.total
    <3>1. t \in Int /\ 1 \in Int /\ t \in Nat
      BY <2>2
    <3> HIDE DEF t
    <3>2. IsFiniteSet(1..t) /\ Cardinality(1..t) = IF 1 > t THEN 0 ELSE t - 1 + 1
      BY <3>1, FS_Interval
    <3>3. IsFiniteSet(1..t) /\ Cardinality(1..t) = t
      BY <3>1, <3>2
    <3>4. QED
      BY <3>3 DEF t, Targets
  <2>7. Cardinality(RowsIn("success")) <= Cardinality(Targets)
    BY <2>5, <2>6, FS_Subset
  <2>8. Targets = RowsIn("success")
    BY <2>2, <2>4, <2>5, <2>6, <2>7, FS_Subset
  <2>9. QED
    BY <2>8
<1>2. QED
  BY <1>1, Counting, InitCompletion, NextCompletion, RolloutInvariant, PTL DEF Spec
-----------------------------------------------------------------------------
(* The recorded phase.  While the launcher is at the first group, or       *)
(* before the second, nobody else finds the deployment settled: the        *)
(* reports counted belong to the devices commanded, and some are not.      *)

(* A device no update was sent to reports no failure.                      *)
Unsent ==
  \A d \in Devices \ sent :
    /\ commands[d] \in Seq({"rollback"})
    /\ robot[d].fsm \notin {"accepted", "updating"}
    /\ reports[d] \in Seq({"progress", "success"})
    /\ ~(handler.at = "row" /\ handler.dev = d /\ handler.kind = "error")

(* Only the callback rolls back, after a failure it counted.               *)
RolledBackOnFailure ==
  /\ rollback["operator"].at = "idle"
  /\ dep.status = "rolled_back" => dep.fail >= 1 /\ (handler.at = "judge" => dep.fail >= 2)
  /\ handler.at = "rollback" => dep.fail >= 1

SentinelOnly ==
  /\ launch.next <= dep.total
  /\ \/ launch.at \in {"check", "phase"} /\ launch.phase \in {1, 2}
     \/ launch.at \in {"dispatch", "observe"} /\ launch.phase = 1

(* The report about to be counted, and the rows of commanded devices that  *)
(* ended.                                                                  *)
Pending ==
  IF handler.at \in {"count", "fail"} \/ (handler.at = "read" /\ dep.status = "running") THEN 1 ELSE 0

Finished == {d \in sent : dd[d] \in Terminal}

Unfinished ==
  /\ dep.phase <= 1 /\ dep.status \in {"running", "rolled_back"}
  /\ handler.at \notin {"complete", "phase"} /\ view = "idle"
  /\ dep.succ + dep.fail + Pending <= Cardinality(Finished)

NotYetDone == SentinelOnly => Unfinished

PhaseParts == Unsent /\ RolledBackOnFailure /\ NotYetDone

(* Everything known about a calm deployment.                               *)
Calm == Inv /\ BreachInv /\ CountParts /\ CompletionInv /\ PhaseParts

LEMMA FinishedRows ==
  ASSUME TypeOK
  PROVE  /\ IsFiniteSet(sent) /\ IsFiniteSet(Finished)
         /\ Cardinality(Finished) \in Nat /\ Cardinality(Finished) <= Cardinality(sent)
<1>1. sent \in SUBSET Devices /\ Finished \in SUBSET sent
  BY DEF TypeOK, Finished
<1>2. IsFiniteSet(sent)
  BY <1>1, RowSets, FS_Subset
<1>3. QED
  BY <1>1, <1>2, FS_Subset, FS_CardinalityType

(* The first group is the smaller part of every fleet of three or more.    *)
LEMMA FirstGroup ==
  ASSUME NEW m \in Nat \ {0}
  PROVE  P1End(m) \in 1..m /\ (m >= 3 => P1End(m) + 2 <= m) /\ (m <= 2 => P1End(m) = 1)
BY DEF P1End, ClampPhaseEnd, CeilPercent

LEMMA SentinelBound ==
  ASSUME TypeOK, LaunchInv, SentinelOnly
  PROVE  /\ dep.total \in Nat \ {0} /\ Cardinality(Finished) \in Nat
         /\ Cardinality(Finished) < dep.total
         /\ Cardinality(Finished) <= P1End(dep.total)
<1>1. dep.total \in Nat /\ launch.next \in Nat /\ launch.next >= 1
  BY RolloutAssumption DEF TypeOK, Deployments, Launchers
<1>2. sent = 1..(launch.next - 1) /\ launch.next <= dep.total
  BY DEF SentinelOnly, LaunchInv
<1>3. Cardinality(sent) = launch.next - 1
  <2> DEFINE k == launch.next - 1
  <2>1. k \in Int /\ 1 \in Int /\ k >= 0
    BY <1>1
  <2> HIDE DEF k
  <2>2. Cardinality(1..k) = IF 1 > k THEN 0 ELSE k - 1 + 1
    BY <2>1, FS_Interval
  <2>3. Cardinality(1..k) = k
    BY <2>1, <2>2
  <2>4. QED
    BY <1>2, <2>3 DEF k
<1>4. dep.total \in Nat \ {0}
  BY <1>1, <1>2
<1>5. launch.next <= P1End(dep.total) + 1
  <2>1. P1End(dep.total) \in Nat /\ P1End(dep.total) >= 1
    BY <1>4, FirstGroup
  <2>2. PhaseStart(dep.total, 1) = 1 /\ PhaseStart(dep.total, 1 + 1) = P1End(dep.total) + 1
        /\ PhaseStart(dep.total, 2) = P1End(dep.total) + 1
        /\ PhaseDevices(dep.total)[1] = 1..P1End(dep.total)
    BY DEF PhaseStart, PhaseDevices, Phases
  <2>3. CASE launch.at \in {"check", "phase"} /\ launch.phase \in {1, 2}
    BY <1>1, <2>1, <2>2, <2>3 DEF LaunchInv
  <2>4. CASE launch.at = "dispatch" /\ launch.phase = 1
    BY <1>1, <2>1, <2>2, <2>4 DEF LaunchInv
  <2>5. CASE launch.at = "observe" /\ launch.phase = 1
    BY <1>1, <2>1, <2>2, <2>5 DEF LaunchInv
  <2>6. QED
    BY <2>3, <2>4, <2>5 DEF SentinelOnly
<1>6. Cardinality(Finished) \in Nat /\ Cardinality(Finished) <= launch.next - 1
  BY <1>3, FinishedRows
<1>7. P1End(dep.total) \in Nat
  BY <1>4, FirstGroup
<1>8. QED
  BY <1>1, <1>2, <1>4, <1>5, <1>6, <1>7

LEMMA InitPhase == Init => PhaseParts
<1> SUFFICES ASSUME Init PROVE PhaseParts
  OBVIOUS
<1>1. Unsent
  BY DEF Init, Unsent, IdleHandler
<1>2. RolledBackOnFailure /\ NotYetDone
  BY DEF Init, RolledBackOnFailure, NotYetDone, SentinelOnly, Executors, IdleHandler
<1>3. QED
  BY <1>1, <1>2 DEF PhaseParts

(* What leaves the rows and the counters alone.                            *)
LEMMA UnfinishedStands ==
  ASSUME TypeOK, Unfinished, UNCHANGED <<dd, sent, view>>,
         dep'.succ = dep.succ, dep'.fail = dep.fail, dep'.phase = dep.phase,
         dep'.status = dep.status \/ dep'.status = "rolled_back",
         handler' = handler \/ handler'.at \in {"idle", "row", "judge", "rollback"}
  PROVE  Unfinished'
<1>1. Pending' <= Pending /\ Pending \in {0, 1} /\ Pending' \in {0, 1}
  BY DEF Pending
<1>2. Finished' = Finished /\ Cardinality(Finished) \in Nat
  BY FinishedRows DEF Finished
<1>3. dep.succ \in Nat /\ dep.fail \in Nat
  BY DEF TypeOK, Deployments
<1>4. dep'.succ + dep'.fail + Pending' <= Cardinality(Finished)'
  BY <1>1, <1>2, <1>3 DEF Unfinished
<1>5. QED
  BY <1>4 DEF Unfinished

(* The report being handled is the same, or not one to be written.         *)
LEMMA UnsentStands ==
  ASSUME Unsent, UNCHANGED <<commands, robot, reports>>, sent \subseteq sent',
         handler'.at = "row" => handler' = handler
  PROVE  Unsent'
BY DEF Unsent
-----------------------------------------------------------------------------
(* The launcher.                                                           *)

LEMMA LaunchUnsent ==
  ASSUME Calm, Launch
  PROVE  Unsent'
<1>1. UNCHANGED <<robot, reports, handler>>
  BY DEF Launch, CreateRow, MarkRunning, CreateDeviceRow, DirectDispatch, SkipPhase, CheckPhase,
     RecordPhase, DispatchPhase, Dispatch, ObserveAbort, ObserveEnd, AfterPhases, RecordFullPhase, broker
<1>2. \A d \in Devices \ sent' : d \in Devices \ sent /\ commands'[d] = commands[d]
  BY DEF Launch, CreateRow, MarkRunning, CreateDeviceRow, DirectDispatch, SkipPhase, CheckPhase,
     RecordPhase, DispatchPhase, Dispatch, ObserveAbort, ObserveEnd, AfterPhases, RecordFullPhase, Publish,
     broker, history, Calm, Inv, TypeOK
<1>3. QED
  BY <1>1, <1>2 DEF Calm, PhaseParts, Unsent

LEMMA LaunchRolledBack ==
  ASSUME Calm, Launch
  PROVE  RolledBackOnFailure'
<1>1. UNCHANGED <<handler, rollback>>
  BY DEF Launch, CreateRow, MarkRunning, CreateDeviceRow, DirectDispatch, SkipPhase, CheckPhase,
     RecordPhase, DispatchPhase, Dispatch, ObserveAbort, ObserveEnd, AfterPhases, RecordFullPhase
<1>2. CASE CreateRow
  <2>1. dep'.status = "pending" /\ handler.at = "idle"
    BY <1>2 DEF CreateRow, Calm, CountParts, NothingYet
  <2>2. QED
    BY <1>1, <2>1 DEF Calm, PhaseParts, RolledBackOnFailure
<1>3. CASE ~CreateRow
  <2>1. dep'.fail = dep.fail /\ (dep'.status = dep.status \/ dep'.status = "running")
    BY <1>3 DEF Launch, MarkRunning, CreateDeviceRow, DirectDispatch, SkipPhase, CheckPhase,
       RecordPhase, DispatchPhase, Dispatch, ObserveAbort, ObserveEnd, AfterPhases, RecordFullPhase,
       SetStatus, SetPhase, Calm, Inv, TypeOK, Deployments, rows
  <2>2. QED
    BY <1>1, <2>1 DEF Calm, PhaseParts, RolledBackOnFailure
<1>4. QED
  BY <1>2, <1>3

(* The rollout begins with nothing counted, and each later stage of the    *)
(* first group follows an earlier one.                                     *)
LEMMA LaunchUnfinished ==
  ASSUME Calm, Launch, SentinelOnly'
  PROVE  Unfinished'
<1>1. TypeOK /\ LaunchInv /\ launch \in Launchers /\ dep \in Deployments
  BY DEF Calm, Inv, TypeOK
<1>2. CASE CreateDeviceRow
  <2>1. UNCHANGED <<dep, handler, view, sent>> /\ launch.at = "rows"
    BY <1>2 DEF CreateDeviceRow, history
  <2>2. /\ handler.at = "idle" /\ view = "idle" /\ dep.succ = 0 /\ dep.fail = 0 /\ dep.phase = 0
        /\ dep.status = "running"
    BY <2>1 DEF Calm, CountParts, NothingYet
  <2>3. sent = {} /\ Finished' = {}
    BY <1>1, <2>1 DEF LaunchInv, Finished
  <2>4. Pending' = 0 /\ Cardinality(Finished)' = 0
    BY <2>1, <2>2, <2>3, FS_EmptySet DEF Pending
  <2>5. QED
    BY <2>1, <2>2, <2>4 DEF Unfinished
<1>3. CASE SkipPhase \/ CheckPhase \/ ObserveEnd
  <2>1. UNCHANGED <<dep, dd, handler, view, sent>>
    BY <1>3 DEF SkipPhase, CheckPhase, ObserveEnd, rows, history
  <2>2. /\ launch'.next = launch.next /\ launch.phase \in {1, 2, 3}
        /\ \/ launch.at = "check" /\ launch'.phase \in {launch.phase, launch.phase + 1}
           \/ launch.at = "observe" /\ launch'.phase = launch.phase + 1
        /\ launch'.at \in {"check", "phase", "done"}
    BY <1>1, <1>3 DEF SkipPhase, CheckPhase, ObserveEnd, LaunchAt, LaunchInv, Launchers, Phases
  <2>3. SentinelOnly
    BY <2>1, <2>2 DEF SentinelOnly
  <2>4. Unfinished
    BY <2>3 DEF Calm, PhaseParts, NotYetDone
  <2>5. QED
    BY <1>1, <2>1, <2>4, UnfinishedStands
<1>4. CASE RecordPhase
  <2>1. /\ UNCHANGED <<dd, handler, view, sent>> /\ launch.at = "phase"
        /\ launch'.at = "dispatch" /\ launch'.phase = launch.phase /\ launch'.next = launch.next
        /\ dep'.phase = launch.phase /\ dep'.status = dep.status /\ dep'.succ = dep.succ /\ dep'.fail = dep.fail
        /\ dep'.total = dep.total
    BY <1>1, <1>4 DEF RecordPhase, SetPhase, LaunchAt, Launchers, Deployments, history
  <2>2. launch.phase = 1 /\ SentinelOnly
    BY <2>1 DEF SentinelOnly
  <2>3. Unfinished
    BY <2>2 DEF Calm, PhaseParts, NotYetDone
  <2>4. Pending' = Pending /\ Finished' = Finished
    BY <2>1 DEF Pending, Finished
  <2>5. QED
    BY <2>1, <2>2, <2>3, <2>4 DEF Unfinished
<1>5. CASE DispatchPhase
  <2>1. /\ UNCHANGED <<dep, dd, handler, view>> /\ launch.at = "dispatch" /\ launch'.next = launch.next + 1
        /\ launch'.phase = launch.phase /\ sent' = sent \union {launch.next} /\ launch'.at # "check"
        /\ launch'.at # "phase"
    BY <1>5 DEF DispatchPhase, Dispatch, rows
  <2>2. SentinelOnly
    <3>1. launch.next \in Nat /\ dep.total \in Nat
      BY <1>1, RolloutAssumption DEF Launchers, Deployments
    <3>2. QED
      BY <2>1, <3>1 DEF SentinelOnly
  <2>3. Unfinished
    BY <2>2 DEF Calm, PhaseParts, NotYetDone
  <2>4. Cardinality(Finished) <= Cardinality(Finished') /\ IsFiniteSet(Finished')
    <3>1. Finished \in SUBSET Finished'
      BY <2>1 DEF Finished
    <3>2. IsFiniteSet(Finished')
      <4>1. sent' \in SUBSET Devices
        BY <1>1, <1>5, <2>1, LaunchDevice DEF TypeOK
      <4>2. Finished' \in SUBSET Devices
        BY <4>1 DEF Finished
      <4>3. QED
        BY <4>2, RowSets, FS_Subset
    <3>3. QED
      BY <3>1, <3>2, FS_Subset
  <2>5. Cardinality(Finished) \in Nat /\ Cardinality(Finished') \in Nat
    BY <1>1, <2>4, FinishedRows, FS_CardinalityType
  <2>6. Pending' = Pending /\ Pending \in {0, 1} /\ dep.succ \in Nat /\ dep.fail \in Nat
    BY <1>1, <2>1 DEF Pending, Deployments
  <2>7. QED
    BY <2>1, <2>3, <2>4, <2>5, <2>6 DEF Unfinished
<1>6. CASE CreateRow \/ MarkRunning \/ DirectDispatch \/ ObserveAbort \/ AfterPhases \/ RecordFullPhase
  <2>1. launch'.at \in {"run", "rows", "direct", "record", "done"}
    BY <1>1, <1>6 DEF CreateRow, MarkRunning, DirectDispatch, Dispatch, ObserveAbort, AfterPhases, RecordFullPhase,
       LaunchAt, Launchers
  <2>2. QED
    BY <2>1 DEF SentinelOnly
<1>7. QED
  BY <1>2, <1>3, <1>4, <1>5, <1>6 DEF Launch

LEMMA LaunchPhase ==
  ASSUME Calm, Launch
  PROVE  PhaseParts'
BY LaunchUnsent, LaunchRolledBack, LaunchUnfinished DEF PhaseParts, NotYetDone
-----------------------------------------------------------------------------
(* The callback.                                                           *)

LEMMA CallbackUnsent ==
  ASSUME Calm, Handle
  PROVE  Unsent'
<1>1. Unsent /\ reports \in [Devices -> Seq({"progress", "success", "error"})]
  BY DEF Calm, PhaseParts, Inv, TypeOK
<1>2. ASSUME NEW d \in Devices, Receive(d, FALSE) PROVE Unsent'
  <2>1. /\ UNCHANGED <<commands, robot, sent>> /\ reports[d] # <<>>
        /\ reports' = [reports EXCEPT ![d] = Tail(@)]
        /\ \/ handler' = handler
           \/ handler' = [at |-> "row", dev |-> d, kind |-> Head(reports[d]), seen |-> 0]
    BY <1>2 DEF Receive, history
  <2> SUFFICES ASSUME NEW e \in Devices \ sent
               PROVE  /\ reports'[e] \in Seq({"progress", "success"})
                      /\ ~(handler'.at = "row" /\ handler'.dev = e /\ handler'.kind = "error")
    BY <1>1, <2>1 DEF Unsent
  <2>2. reports[e] \in Seq({"progress", "success"})
    BY <1>1 DEF Unsent
  <2>3. CASE e # d
    BY <1>1, <2>1, <2>2, <2>3 DEF Unsent
  <2>4. CASE e = d
    <3>1. Head(reports[d]) \in {"progress", "success"} /\ Tail(reports[d]) \in Seq({"progress", "success"})
      BY <2>1, <2>2, <2>4
    <3>2. reports'[e] \in Seq({"progress", "success"})
      BY <1>1, <2>1, <2>4, <3>1
    <3>3. ~(handler'.at = "row" /\ handler'.dev = e /\ handler'.kind = "error")
      BY <1>1, <2>1, <2>4, <3>1 DEF Unsent
    <3>4. QED
      BY <3>2, <3>3
  <2>5. QED
    BY <2>3, <2>4
<1>3. CASE \/ WriteRow \/ ReadDeployment \/ CountSuccess \/ Complete \/ CompletePhase \/ CountFailure
           \/ Judge \/ RollbackReturns
  <2>1. UNCHANGED <<commands, robot, reports, sent>>
    BY <1>3 DEF WriteRow, ReadDeployment, CountSuccess, Complete, CompletePhase, CountFailure, Judge,
       RollbackReturns, broker, history
  <2>2. handler'.at # "row"
    BY <1>3 DEF WriteRow, ReadDeployment, CountSuccess, Complete, CompletePhase, CountFailure, Judge,
       RollbackReturns, HandlerAt, IdleHandler, StepAfter, Calm, Inv, TypeOK, Callbacks
  <2>3. QED
    BY <1>1, <2>1, <2>2, UnsentStands
<1>4. QED
  BY <1>2, <1>3 DEF Handle

LEMMA CallbackRolledBack ==
  ASSUME Calm, Handle
  PROVE  RolledBackOnFailure'
<1>1. /\ RolledBackOnFailure /\ dep \in Deployments /\ handler \in Callbacks
      /\ rollback \in [Executors -> Rollbacks] /\ dep.fail \in Nat
  BY DEF Calm, PhaseParts, Inv, TypeOK, Deployments
<1>2. rollback'["operator"] = rollback["operator"]
  BY <1>1 DEF Handle, Receive, WriteRow, ReadDeployment, CountSuccess, Complete, CompletePhase, CountFailure,
     Judge, RollbackReturns, Executors
<1>3. CASE \/ WriteRow \/ ReadDeployment \/ CountSuccess \/ CompletePhase \/ RollbackReturns
           \/ \E d \in Devices : Receive(d, FALSE)
  <2>1. dep'.fail = dep.fail /\ dep'.status = dep.status
    BY <1>1, <1>3 DEF WriteRow, ReadDeployment, CountSuccess, CompletePhase, RollbackReturns, Receive,
       SetPhase, Deployments, rows
  <2>2. handler' = handler \/ handler'.at \notin {"judge", "rollback"}
    BY <1>1, <1>3 DEF WriteRow, ReadDeployment, CountSuccess, CompletePhase, RollbackReturns, Receive,
       HandlerAt, IdleHandler, StepAfter, Callbacks
  <2>3. QED
    BY <1>1, <1>2, <2>1, <2>2 DEF RolledBackOnFailure
<1>4. CASE Complete
  <2>1. dep'.status = "completed" /\ handler'.at \in {"phase", "idle"}
    BY <1>1, <1>4 DEF Complete, SetStatus, HandlerAt, IdleHandler, Callbacks, Deployments
  <2>2. QED
    BY <1>1, <1>2, <2>1 DEF RolledBackOnFailure
<1>5. CASE CountFailure
  <2>1. dep'.status = dep.status /\ dep'.fail = dep.fail + 1 /\ handler'.at = "judge"
    BY <1>1, <1>5 DEF CountFailure, HandlerAt, Callbacks, Deployments
  <2>2. QED
    BY <1>1, <1>2, <2>1 DEF RolledBackOnFailure
<1>6. CASE Judge
  <2>1. dep' = dep /\ dep.fail >= 1 /\ handler'.at \in {"rollback", "complete", "idle"}
    BY <1>1, <1>6 DEF Judge, HandlerAt, IdleHandler, Callbacks, Calm, CompletionInv, Decided, rows
  <2>2. QED
    BY <1>1, <1>2, <2>1 DEF RolledBackOnFailure
<1>7. QED
  BY <1>3, <1>4, <1>5, <1>6 DEF Handle

(* A row ends only for a device that was commanded.                        *)
LEMMA WriteUnfinished ==
  ASSUME Calm, WriteRow, Unfinished
  PROVE  Unfinished'
<1>1. /\ TypeOK /\ handler.at = "row" /\ handler.dev \in Devices /\ dd \in [Devices -> RowStatuses]
      /\ handler.kind \in {"none", "progress", "success", "error"}
      /\ dd' = [dd EXCEPT ![handler.dev] = RowAfter(handler.kind)]
      /\ UNCHANGED <<dep, view, sent>>
      /\ handler'.at = StepAfter(handler.kind)
      /\ dep.succ \in Nat /\ dep.fail \in Nat
  BY DEF Calm, Inv, TypeOK, Callbacks, Deployments, WriteRow, HandlerAt, IdleHandler, StepAfter, history
<1>2. dd[handler.dev] \notin Terminal /\ handler.dev \notin Finished
  BY <1>1 DEF Calm, CountParts, RowIsOpen, Finished
<1>3. Pending = 0 /\ Cardinality(Finished) \in Nat /\ IsFiniteSet(Finished)
  BY <1>1, FinishedRows DEF Pending
<1>4. CASE handler.kind \in Ends /\ handler.dev \in sent
  <2>1. Finished' = Finished \cup {handler.dev}
    BY <1>1, <1>2, <1>4 DEF Finished, RowAfter, Ends, Terminal
  <2>2. Cardinality(Finished') = Cardinality(Finished) + 1
    BY <1>2, <1>3, <2>1, FS_AddElement
  <2>3. Pending' \in {0, 1} /\ handler'.at \in {"read", "fail"}
    BY <1>1, <1>4 DEF Pending, StepAfter, Ends
  <2>4. QED
    BY <1>1, <1>3, <2>2, <2>3 DEF Unfinished
<1>5. CASE handler.kind \notin Ends
  <2>1. Finished' = Finished
    BY <1>1, <1>2, <1>5 DEF Finished, RowAfter, Ends, Terminal
  <2>2. Pending' = 0 /\ handler'.at = "idle"
    BY <1>1, <1>5 DEF Pending, StepAfter, Ends
  <2>3. QED
    BY <1>1, <1>3, <2>1, <2>2 DEF Unfinished
<1>6. CASE handler.kind \in Ends /\ handler.dev \notin sent
  <2>1. handler.kind # "error"
    BY <1>1, <1>6 DEF Calm, PhaseParts, Unsent
  <2>2. dep.status # "running"
    <3> SUFFICES ASSUME dep.status = "running" PROVE FALSE
      OBVIOUS
    <3>1. reverted = {}
      BY DEF Calm, CountParts, MarkedBeforeReverted, Early
    <3>2. Open(handler.dev)
      BY <1>1, <1>6, <3>1 DEF Calm, CountParts, OneCourse, Course
    <3>3. QED
      BY <1>1, <1>6, <3>2 DEF Open
  <2>3. Finished' = Finished
    BY <1>1, <1>2, <1>6 DEF Finished
  <2>4. Pending' = 0 /\ handler'.at = "read"
    BY <1>1, <1>6, <2>1, <2>2 DEF Pending, StepAfter, Ends
  <2>5. QED
    BY <1>1, <1>3, <2>3, <2>4 DEF Unfinished
<1>7. QED
  BY <1>4, <1>5, <1>6

(* Neither decision finds the deployment settled: at the first group the   *)
(* reports counted are fewer than the devices, by two in a fleet of three  *)
(* or more; and in a fleet of two one failure reaches every threshold.     *)
LEMMA DecideUnfinished ==
  ASSUME Calm, SentinelOnly, Unfinished, CountSuccess \/ CountFailure \/ Judge
  PROVE  Unfinished'
<1>1. /\ dep \in Deployments /\ handler \in Callbacks /\ dep.succ \in Nat /\ dep.fail \in Nat
      /\ UNCHANGED <<dd, view, sent>> /\ TypeOK /\ LaunchInv
  BY DEF Calm, Inv, TypeOK, Deployments, CountSuccess, CountFailure, Judge, rows, history
<1>2. /\ dep.total \in Nat \ {0} /\ Cardinality(Finished) \in Nat /\ Cardinality(Finished) < dep.total
      /\ Cardinality(Finished) <= P1End(dep.total)
  BY <1>1, SentinelBound
<1>3. Finished' = Finished
  BY <1>1 DEF Finished
<1>4. CASE CountSuccess
  <2>1. /\ dep'.succ = dep.succ + 1 /\ dep'.fail = dep.fail /\ dep'.phase = dep.phase
        /\ dep'.status = dep.status /\ handler.at = "count" /\ handler.seen \in Nat
        /\ handler'.at = IF handler.seen + 1 >= dep.total THEN "complete" ELSE "idle"
    BY <1>1, <1>4 DEF CountSuccess, HandlerAt, IdleHandler, Callbacks, Deployments
  <2>2. handler.seen <= dep.succ + dep.fail
    BY <2>1 DEF Calm, CompletionInv, Decided
  <2>3. dep.succ + dep.fail + 1 <= Cardinality(Finished)
    BY <1>1, <2>1 DEF Unfinished, Pending
  <2>4. handler'.at = "idle"
    BY <1>1, <1>2, <2>1, <2>2, <2>3
  <2>5. QED
    BY <1>1, <1>2, <1>3, <2>1, <2>3, <2>4 DEF Unfinished, Pending
<1>5. CASE CountFailure
  <2>1. /\ dep'.succ = dep.succ /\ dep'.fail = dep.fail + 1 /\ dep'.phase = dep.phase
        /\ dep'.status = dep.status /\ handler.at = "fail" /\ handler'.at = "judge"
    BY <1>1, <1>5 DEF CountFailure, HandlerAt, Callbacks, Deployments
  <2>2. dep.succ + dep.fail + 1 <= Cardinality(Finished)
    BY <1>1, <2>1 DEF Unfinished, Pending
  <2>3. QED
    BY <1>1, <1>2, <1>3, <2>1, <2>2 DEF Unfinished, Pending
<1>6. CASE Judge
  <2>1. /\ dep' = dep /\ handler.at = "judge" /\ dep.fail >= 1
        /\ \/ handler'.at \in {"rollback", "idle"}
           \/ /\ handler'.at = "complete" /\ dep.succ + dep.fail + 1 >= dep.total
              /\ ~(dep.status = "running" /\ 100 * (dep.fail + 1) >= Threshold * dep.total)
    BY <1>1, <1>6 DEF Judge, HandlerAt, IdleHandler, Callbacks, Calm, CompletionInv, Decided, rows
  <2>2. dep.succ + dep.fail <= Cardinality(Finished)
    BY <1>1, <2>1 DEF Unfinished, Pending
  <2>3. handler'.at # "complete"
    <3> SUFFICES ASSUME handler'.at = "complete" PROVE FALSE
      OBVIOUS
    <3>1. P1End(dep.total) \in Nat /\ (dep.total >= 3 => P1End(dep.total) + 2 <= dep.total)
      BY <1>2, FirstGroup
    <3>2. dep.total = 2 /\ dep.fail = 1
      BY <1>1, <1>2, <2>1, <2>2, <3>1
    <3>3. dep.status = "running"
      BY <2>1, <3>2 DEF Calm, PhaseParts, RolledBackOnFailure, Unfinished
    <3>4. Threshold \in 5..50
      BY RolloutAssumption
    <3>5. QED
      BY <2>1, <3>2, <3>3, <3>4
  <2>4. QED
    BY <1>1, <1>2, <1>3, <2>1, <2>2, <2>3 DEF Unfinished, Pending
<1>7. QED
  BY <1>4, <1>5, <1>6

LEMMA CallbackUnfinished ==
  ASSUME Calm, Handle, SentinelOnly'
  PROVE  Unfinished'
<1>1. TypeOK /\ dep \in Deployments /\ handler \in Callbacks /\ LaunchInv
  BY DEF Calm, Inv, TypeOK
<1>2. launch' = launch /\ dep'.total = dep.total
  BY <1>1 DEF Handle, Receive, WriteRow, ReadDeployment, CountSuccess, Complete, CompletePhase, CountFailure,
     Judge, RollbackReturns, SetStatus, SetPhase, rows, Deployments
<1>3. SentinelOnly /\ Unfinished
  BY <1>2 DEF SentinelOnly, Calm, PhaseParts, NotYetDone
<1>4. CASE RollbackReturns \/ \E d \in Devices : Receive(d, FALSE)
  <2>1. UNCHANGED <<dep, dd, sent, view>>
    BY <1>4 DEF RollbackReturns, Receive, rows, history
  <2>2. handler' = handler \/ handler'.at \in {"idle", "row"}
    BY <1>1, <1>4 DEF RollbackReturns, Receive, HandlerAt, IdleHandler
  <2>3. QED
    BY <1>1, <1>3, <2>1, <2>2, UnfinishedStands
<1>5. CASE ReadDeployment
  <2>1. /\ UNCHANGED <<dep, dd, sent, view>> /\ handler.at = "read"
        /\ handler'.at = IF dep.status = "rolled_back" THEN "idle" ELSE "count"
    BY <1>5 DEF ReadDeployment, IdleHandler, rows, history
  <2>2. Pending' = Pending /\ Finished' = Finished
    BY <1>3, <2>1 DEF Pending, Finished, Unfinished
  <2>3. QED
    BY <1>3, <2>1, <2>2 DEF Unfinished
<1>6. CASE Complete \/ CompletePhase
  BY <1>3, <1>6 DEF Complete, CompletePhase, Unfinished
<1>7. QED
  BY <1>3, <1>4, <1>5, <1>6, WriteUnfinished, DecideUnfinished DEF Handle

LEMMA CallbackPhase ==
  ASSUME Calm, Handle
  PROVE  PhaseParts'
BY CallbackUnsent, CallbackRolledBack, CallbackUnfinished DEF PhaseParts, NotYetDone
-----------------------------------------------------------------------------
(* The rollback, the dashboard, the robots and restarts.                   *)

LEMMA RollbackPhase ==
  ASSUME Calm, NEW p \in Executors, Rollback(p)
  PROVE  PhaseParts'
<1>1. /\ TypeOK /\ dep \in Deployments /\ rollback \in [Executors -> Rollbacks]
      /\ commands \in [Devices -> Seq({"update", "rollback"})]
  BY DEF Calm, Inv, TypeOK
<1>2. /\ UNCHANGED <<dd, launch, handler, view, robot, reports, sent>>
      /\ dep'.succ = dep.succ /\ dep'.fail = dep.fail /\ dep'.phase = dep.phase /\ dep'.total = dep.total
      /\ dep'.status = dep.status \/ dep'.status = "rolled_back"
  BY <1>1 DEF Rollback, ReadForRollback, MarkRolledBack, ListRows, Revert, RollbackEnds, SetStatus, Deployments,
     rows, broker, history
<1>3. rollback[p].at # "idle"
  BY DEF Rollback, ReadForRollback, MarkRolledBack, ListRows, Revert, RollbackEnds
<1>4. p = "handler" /\ handler.at = "rollback"
  BY <1>3 DEF Calm, PhaseParts, RolledBackOnFailure, BreachInv, RollbackIsCalled, Executors
<1>5. rollback'["operator"] = rollback["operator"]
  BY <1>1, <1>4 DEF Rollback, ReadForRollback, MarkRolledBack, ListRows, Revert, RollbackEnds, RollbackAt, Executors
<1>6. RolledBackOnFailure'
  BY <1>2, <1>4, <1>5 DEF Calm, PhaseParts, RolledBackOnFailure
<1>7. NotYetDone'
  <2>1. SentinelOnly' => SentinelOnly
    BY <1>2 DEF SentinelOnly
  <2>2. QED
    BY <1>1, <1>2, <2>1, UnfinishedStands DEF Calm, PhaseParts, NotYetDone
<1>8. Unsent'
  <2> SUFFICES ASSUME NEW d \in Devices \ sent PROVE commands'[d] \in Seq({"rollback"})
    BY <1>2 DEF Calm, PhaseParts, Unsent
  <2>1. commands[d] \in Seq({"rollback"})
    BY DEF Calm, PhaseParts, Unsent
  <2>2. commands'[d] = commands[d] \/ commands'[d] = Append(commands[d], "rollback")
    BY <1>1 DEF Rollback, ReadForRollback, MarkRolledBack, ListRows, Revert, RollbackEnds, Publish, broker
  <2>3. Append(commands[d], "rollback") \in Seq({"rollback"})
    BY <2>1
  <2>4. QED
    BY <2>1, <2>2, <2>3
<1>9. QED
  BY <1>6, <1>7, <1>8 DEF PhaseParts

LEMMA ViewPhaseKeeps ==
  ASSUME Calm, View
  PROVE  PhaseParts'
<1>1. TypeOK /\ dep \in Deployments /\ LaunchInv /\ dep.succ \in Nat /\ dep.fail \in Nat
  BY DEF Calm, Inv, TypeOK, Deployments
<1>2. /\ UNCHANGED <<dd, launch, handler, rollback, commands, robot, reports, sent>>
      /\ dep'.fail = dep.fail /\ dep'.total = dep.total
      /\ dep'.status = dep.status \/ dep'.status = "completed"
  BY <1>1 DEF View, ViewRead, ViewComplete, ViewPhase, SetStatus, SetPhase, Deployments, rows, broker, history
<1>3. Unsent' /\ RolledBackOnFailure'
  BY <1>2 DEF Calm, PhaseParts, Unsent, RolledBackOnFailure
<1>4. ~SentinelOnly'
  <2> SUFFICES ASSUME SentinelOnly' PROVE FALSE
    OBVIOUS
  <2>1. SentinelOnly /\ Unfinished
    BY <1>2 DEF SentinelOnly, Calm, PhaseParts, NotYetDone
  <2>2. Settled
    BY <2>1 DEF View, ViewRead, ViewComplete, ViewPhase, Unfinished
  <2>3. Cardinality(Finished) < dep.total /\ Cardinality(Finished) \in Nat /\ dep.total \in Nat
    BY <1>1, <2>1, SentinelBound
  <2>4. Pending \in {0, 1}
    BY DEF Pending
  <2>5. QED
    BY <1>1, <2>1, <2>2, <2>3, <2>4 DEF Unfinished, Settled
<1>5. QED
  BY <1>3, <1>4 DEF PhaseParts, NotYetDone

LEMMA RobotPhase ==
  ASSUME Calm, NEW d \in Devices, Robot(d)
  PROVE  PhaseParts'
<1>1. /\ TypeOK /\ commands \in [Devices -> Seq({"update", "rollback"})] /\ robot \in [Devices -> Robots]
      /\ reports \in [Devices -> Seq({"progress", "success", "error"})]
  BY DEF Calm, Inv, TypeOK
<1>2. UNCHANGED <<dep, dd, launch, handler, rollback, view, sent>>
  BY DEF Robot, TakeUpdate, UpdateProgresses, UpdateSucceeds, UpdateFails, TakeRollback, RollbackDone,
     rows, history
<1>3. RolledBackOnFailure'
  BY <1>2 DEF Calm, PhaseParts, RolledBackOnFailure
<1>4. NotYetDone'
  <2>1. SentinelOnly' => SentinelOnly
    BY <1>2 DEF SentinelOnly
  <2>2. QED
    BY <1>1, <1>2, <2>1, UnfinishedStands DEF Calm, PhaseParts, NotYetDone
<1>5. Unsent'
  <2> SUFFICES ASSUME NEW e \in Devices \ sent
               PROVE  /\ commands'[e] \in Seq({"rollback"})
                      /\ robot'[e].fsm \notin {"accepted", "updating"}
                      /\ reports'[e] \in Seq({"progress", "success"})
    BY <1>2 DEF Calm, PhaseParts, Unsent
  <2>1. /\ commands[e] \in Seq({"rollback"}) /\ robot[e].fsm \notin {"accepted", "updating"}
        /\ reports[e] \in Seq({"progress", "success"})
    BY DEF Calm, PhaseParts, Unsent
  <2>2. CASE e # d
    <3>1. UNCHANGED <<commands[e], robot[e], reports[e]>>
      BY <1>1, <2>2 DEF Robot, TakeUpdate, UpdateProgresses, UpdateSucceeds, UpdateFails, TakeRollback,
         RollbackDone, Deliver, Report
    <3>2. QED
      BY <2>1, <3>1
  <2>3. CASE e = d
    <3>1. Append(reports[e], "progress") \in Seq({"progress", "success"})
          /\ Append(reports[e], "success") \in Seq({"progress", "success"})
      BY <2>1
    <3>2. CASE TakeUpdate(d, FALSE)
      <4>1. commands[e] # <<>> /\ Head(commands[e]) = "update"
        BY <2>3, <3>2 DEF TakeUpdate, Deliver
      <4>2. Head(commands[e]) \in {"rollback"}
        BY <2>1, <4>1
      <4>3. QED
        BY <4>1, <4>2
    <3>3. CASE UpdateProgresses(d) \/ UpdateSucceeds(d) \/ UpdateFails(d)
      BY <2>1, <2>3, <3>3 DEF UpdateProgresses, UpdateSucceeds, UpdateFails
    <3>4. CASE TakeRollback(d, FALSE)
      <4>1. /\ commands[e] # <<>> /\ commands'[e] = Tail(commands[e])
            /\ reports'[e] = Append(reports[e], "progress")
            /\ robot'[e].fsm \in {"rolling_back", robot[e].fsm}
        BY <1>1, <2>3, <3>4 DEF TakeRollback, Deliver, Report
      <4>2. Tail(commands[e]) \in Seq({"rollback"})
        BY <2>1, <4>1
      <4>3. QED
        BY <2>1, <3>1, <4>1, <4>2
    <3>5. CASE RollbackDone(d)
      <4>1. /\ commands'[e] = commands[e] /\ reports'[e] = Append(reports[e], "success")
            /\ robot'[e].fsm \in {"free", robot[e].fsm}
        BY <1>1, <2>3, <3>5 DEF RollbackDone, Report
      <4>2. QED
        BY <2>1, <3>1, <4>1
    <3>6. QED
      BY <3>2, <3>3, <3>4, <3>5 DEF Robot
  <2>4. QED
    BY <2>2, <2>3
<1>6. QED
  BY <1>3, <1>4, <1>5 DEF PhaseParts

LEMMA CrashPhase ==
  ASSUME Calm, Crash
  PROVE  PhaseParts'
<1>1. /\ UNCHANGED <<dep, dd, commands, robot, sent>> /\ handler'.at = "idle" /\ launch'.at = "done"
      /\ rollback'["operator"].at = "idle"
      /\ reports' = reports \/ \A d \in Devices : reports'[d] = <<>>
  BY DEF Crash, IdleHandler, Executors, rows, history, Calm, Inv, TypeOK, Launchers
<1>2. <<>> \in Seq({"progress", "success"})
  OBVIOUS
<1>3. Unsent'
  BY <1>1, <1>2 DEF Calm, PhaseParts, Unsent
<1>4. RolledBackOnFailure' /\ NotYetDone'
  BY <1>1 DEF Calm, PhaseParts, RolledBackOnFailure, NotYetDone, SentinelOnly
<1>5. QED
  BY <1>3, <1>4 DEF PhaseParts
-----------------------------------------------------------------------------
(* Everything about a calm deployment together.                            *)

LEMMA NextPhase ==
  ASSUME MaxDup = 0, MayRollback = "never"
  PROVE  Calm /\ [Next]_vars => PhaseParts'
<1> SUFFICES ASSUME Calm, [Next]_vars PROVE PhaseParts'
  OBVIOUS
<1>1. CASE OperatorRollback
  BY <1>1 DEF OperatorRollback
<1>2. CASE Redeliver
  <2>1. spent.dups < MaxDup /\ spent.dups \in 0..MaxDup
    BY <1>2 DEF Redeliver, Receive, TakeUpdate, TakeRollback, Deliver, Calm, Inv, TypeOK
  <2>2. QED
    BY <2>1
<1>3. CASE Ended \/ UNCHANGED vars
  <2>1. UNCHANGED vars
    BY <1>3 DEF Ended
  <2>2. Unsent' /\ RolledBackOnFailure'
    BY <2>1 DEF Calm, PhaseParts, Unsent, RolledBackOnFailure, vars
  <2>3. NotYetDone'
    <3>1. SentinelOnly' => SentinelOnly
      BY <2>1 DEF SentinelOnly, vars
    <3>2. QED
      BY <2>1, <3>1, UnfinishedStands DEF Calm, PhaseParts, NotYetDone, Inv, vars
  <2>4. QED
    BY <2>2, <2>3 DEF PhaseParts
<1>4. QED
  BY <1>1, <1>2, <1>3, LaunchPhase, CallbackPhase, RollbackPhase, ViewPhaseKeeps, RobotPhase, CrashPhase DEF Next

LEMMA Calming ==
  ASSUME MaxDup = 0, MayRollback = "never"
  PROVE  Spec => []Calm
<1>1. Inv /\ CountInv => CountParts
  BY NoDuplicates DEF Inv, CountInv
<1>2. Init => PhaseParts
  BY InitPhase
<1>3. Inv /\ BreachInv /\ CountParts /\ CompletionInv /\ PhaseParts <=> Calm
  BY DEF Calm
<1>4. Calm /\ [Next]_vars => PhaseParts'
  BY NextPhase
<1>5. QED
  BY <1>1, <1>2, <1>3, <1>4, Counting, InitCompletion, NextCompletion, InitBreach, NextBreach, RolloutInvariant,
     PTL DEF Spec

(* The recorded phase never goes back, for fleets of any size and any      *)
(* number of restarts: whoever records the last phase found the deployment *)
(* settled, and by then the launcher records no earlier one.               *)
THEOREM PhaseNeverGoesBack ==
  ASSUME MaxDup = 0, MayRollback = "never"
  PROVE  Spec => PhaseMonotone
<1>1. Calm /\ [Next]_vars => [dep'.phase >= dep.phase]_vars
  <2> SUFFICES ASSUME Calm, Next PROVE dep'.phase >= dep.phase
    OBVIOUS
  <2>1. /\ TypeOK /\ LaunchInv /\ WorkInv /\ dep \in Deployments /\ launch \in Launchers
        /\ dep.phase \in 0..3
    BY DEF Calm, Inv, TypeOK, Deployments
  <2>2. CASE RecordPhase
    <3>1. launch.at = "phase" /\ dep'.phase = launch.phase /\ launch.phase \in Phases
      BY <2>1, <2>2 DEF RecordPhase, SetPhase, Deployments, LaunchInv
    <3>2. CASE launch.phase = 3
      BY <2>1, <3>1, <3>2
    <3>3. CASE launch.phase \in {1, 2}
      <4>1. SentinelOnly
        <5>1. dep.total \in Nat \ {0} /\ launch.next = PhaseStart(dep.total, launch.phase)
              /\ PhaseDevices(dep.total)[launch.phase] # {}
          BY <2>1, <3>1, PhaseFacts DEF LaunchInv
        <5>2. PICK d : d \in PhaseDevices(dep.total)[launch.phase]
          BY <5>1
        <5>3. d \in 1..dep.total /\ d >= launch.next
          BY <3>1, <5>1, <5>2, Members, Slice
        <5>4. QED
          BY <2>1, <3>1, <3>3, <5>1, <5>3 DEF SentinelOnly, Launchers
      <4>2. QED
        BY <2>1, <3>1, <3>3, <4>1 DEF Calm, PhaseParts, NotYetDone, Unfinished
    <3>4. QED
      BY <3>1, <3>2, <3>3 DEF Phases
  <2>3. CASE CreateRow
    BY <2>1, <2>3 DEF CreateRow, Calm, CountParts, NothingYet
  <2>4. CASE Launch /\ ~RecordPhase /\ ~CreateRow
    <3>1. dep'.phase \in {dep.phase, 3}
      BY <2>1, <2>4 DEF Launch, MarkRunning, CreateDeviceRow, DirectDispatch, SkipPhase, CheckPhase,
         DispatchPhase, Dispatch, ObserveAbort, ObserveEnd, AfterPhases, RecordFullPhase, SetPhase, SetStatus,
         Deployments, rows
    <3>2. QED
      BY <2>1, <3>1
  <2>5. CASE Ended
    BY <2>1, <2>5 DEF Ended, vars
  <2>6. QED
    BY <2>1, <2>2, <2>3, <2>4, <2>5, CallbackStays, RollbackStays, EnvironmentStays DEF Next, Background
<1>2. QED
  BY <1>1, Calming, PTL DEF Spec, PhaseMonotone
=============================================================================
