---------------------------- MODULE RolloutProofs ----------------------------
(***************************************************************************)
(* What holds of a deployment of any size, with any number of duplicates   *)
(* and restarts, whatever the operator and the dashboard do: types, the    *)
(* recorded phase, and the stages of a canary rollout.                     *)
(***************************************************************************)
EXTENDS Rollout, TLAPS

LEMMA Boundaries ==
  ASSUME NEW m \in Nat \ {0}
  PROVE  /\ P1End(m) \in 1..m
         /\ P2End(m) \in P1End(m)..m
BY DEF P1End, P2End, ClampPhaseEnd, CeilPercent

(* The slices of the phases begin and end at PhaseStart.                   *)
LEMMA Slices ==
  ASSUME NEW m \in Nat \ {0}
  PROVE  /\ PhaseDevices(m)[1] = PhaseStart(m, 1)..(PhaseStart(m, 2) - 1)
         /\ PhaseDevices(m)[2] = PhaseStart(m, 2)..(PhaseStart(m, 3) - 1)
         /\ PhaseDevices(m)[3] = PhaseStart(m, 3)..(PhaseStart(m, 4) - 1)
BY Boundaries DEF PhaseDevices, PhaseStart, Phases

LEMMA Starts ==
  ASSUME NEW m \in Nat \ {0}
  PROVE  /\ PhaseStart(m, 1) = 1 /\ PhaseStart(m, 4) = m + 1
         /\ \A p \in 1..4 : PhaseStart(m, p) \in 1..(m + 1)
         /\ \A p \in Phases : PhaseStart(m, p) <= PhaseStart(m, p + 1)
         /\ \A p \in Phases : PhaseDevices(m)[p] = PhaseStart(m, p)..(PhaseStart(m, p + 1) - 1)
<1>1. /\ PhaseStart(m, 1) = 1 /\ PhaseStart(m, 4) = m + 1
      /\ \A p \in 1..4 : PhaseStart(m, p) \in 1..(m + 1)
      /\ \A p \in Phases : PhaseStart(m, p) <= PhaseStart(m, p + 1)
  BY Boundaries DEF PhaseStart, Phases
<1>2. \A p \in Phases : PhaseDevices(m)[p] = PhaseStart(m, p)..(PhaseStart(m, p + 1) - 1)
  BY Slices DEF Phases
<1>3. QED
  BY <1>1, <1>2

(* Every slice lies in the fleet.                                          *)
LEMMA Members ==
  ASSUME NEW m \in Nat \ {0}, NEW p \in Phases, NEW d \in PhaseDevices(m)[p]
  PROVE  d \in 1..m
<1>1. p \in 1..4 /\ p + 1 \in 1..4
  BY DEF Phases
<1>2. PhaseStart(m, p) \in 1..(m + 1) /\ PhaseStart(m, p + 1) \in 1..(m + 1)
  BY <1>1, Starts
<1>3. d \in PhaseStart(m, p)..(PhaseStart(m, p + 1) - 1)
  BY Starts
<1>4. QED
  BY <1>2, <1>3

(* A slice runs from its own start to before the next one.                 *)
LEMMA Slice ==
  ASSUME NEW m \in Nat \ {0}, NEW p \in Phases
  PROVE  /\ PhaseStart(m, p) \in Int /\ PhaseStart(m, p + 1) \in Int /\ PhaseStart(m, p) >= 1
         /\ PhaseStart(m, p) <= PhaseStart(m, p + 1)
         /\ PhaseDevices(m)[p] = PhaseStart(m, p)..(PhaseStart(m, p + 1) - 1)
<1>1. p \in 1..4 /\ p + 1 \in 1..4
  BY DEF Phases
<1>2. PhaseStart(m, p) \in 1..(m + 1) /\ PhaseStart(m, p + 1) \in 1..(m + 1)
  BY <1>1, Starts
<1>3. QED
  BY <1>2, Starts

(* Every slice before a phase ends before that phase begins.               *)
LEMMA Earlier ==
  ASSUME NEW m \in Nat \ {0}, NEW p \in Phases, NEW q \in Phases, q < p
  PROVE  PhaseDevices(m)[q] \subseteq 1..(PhaseStart(m, p) - 1)
<1>1. P1End(m) \in 1..m /\ P2End(m) \in P1End(m)..m
  BY Boundaries
<1>2. PhaseDevices(m)[1] = 1..P1End(m) /\ PhaseDevices(m)[2] = (P1End(m) + 1)..P2End(m)
  BY DEF PhaseDevices, Phases
<1>3. PhaseStart(m, 2) = P1End(m) + 1 /\ PhaseStart(m, 3) = P2End(m) + 1
  BY DEF PhaseStart
<1>4. (q = 1 /\ p = 2) \/ (q = 1 /\ p = 3) \/ (q = 2 /\ p = 3)
  BY DEF Phases
<1>5. QED
  BY <1>1, <1>2, <1>3, <1>4

(* The commands before a slice and the slice itself make one interval.     *)
LEMMA OneMore ==
  ASSUME NEW a \in Int, NEW b \in Int, NEW n \in Nat \ {0}, n \in a..(b - 1), n + 1 = b, a >= 1
  PROVE  1..n = (1..(n - 1)) \union (a..(b - 1))
OBVIOUS

(* Intervals, empty and not.                                               *)
LEMMA Intervals ==
  ASSUME NEW a \in Int, NEW b \in Int, a <= b
  PROVE  a # b => a \in a..(b - 1) /\ b - 1 \in a..(b - 1)
OBVIOUS

-----------------------------------------------------------------------------
(* Types.                                                                  *)

LEMMA InitTypes == Init => TypeOK
<1> SUFFICES ASSUME Init PROVE TypeOK
  OBVIOUS
<1> USE RolloutAssumption DEF Init
<1>1. dep \in Deployments /\ dd \in [Devices -> RowStatuses] /\ launch \in Launchers
  BY DEF Deployments, Launchers, Statuses, RowStatuses
<1>2. handler \in Callbacks
  BY DEF Callbacks, IdleHandler, Devices
<1>3. rollback \in [Executors -> Rollbacks] /\ robot \in [Devices -> Robots]
  BY DEF Rollbacks, Robots
<1>4. /\ commands \in [Devices -> Seq({"update", "rollback"})]
      /\ reports \in [Devices -> Seq({"progress", "success", "error"})]
  OBVIOUS
<1>5. QED
  BY <1>1, <1>2, <1>3, <1>4 DEF TypeOK

(* Dispatch goes to a device of the fleet.                                 *)
LEMMA LaunchDevice ==
  ASSUME TypeOK, LaunchInv, DirectDispatch \/ DispatchPhase
  PROVE  launch.next \in Devices
<1>1. dep.total \in 0..N /\ launch.at # "none"
  BY DEF TypeOK, Deployments, DirectDispatch, DispatchPhase
<1>2. CASE DirectDispatch
  BY <1>1, <1>2, RolloutAssumption DEF DirectDispatch, LaunchInv, Targets, Devices
<1>3. CASE DispatchPhase
  <2>1. launch.phase \in Phases /\ launch.next \in PhaseDevices(dep.total)[launch.phase]
    BY <1>3 DEF DispatchPhase, LaunchInv
  <2>2. dep.total \in Nat \ {0}
    BY <1>1, <1>3, RolloutAssumption DEF DispatchPhase, LaunchInv
  <2>3. launch.next \in 1..dep.total
    BY <2>1, <2>2, Members
  <2>4. QED
    BY <1>1, <2>3, RolloutAssumption DEF Devices
<1>4. QED
  BY <1>2, <1>3

(* The launcher's steps: the row, the launcher and what is published.      *)
LEMMA LaunchTypes ==
  ASSUME TypeOK, LaunchInv, Launch
  PROVE  TypeOK'
<1>1. N \in Nat \ {0} /\ dep \in Deployments /\ launch \in Launchers
  BY RolloutAssumption DEF TypeOK
<1>2. CASE CreateRow
  <2>1. dep' \in Deployments /\ launch' \in Launchers
    BY <1>1, <1>2 DEF CreateRow, LaunchAt, Launchers, Deployments, Statuses
  <2>2. QED
    BY <1>2, <2>1 DEF CreateRow, broker, history, TypeOK
<1>3. CASE MarkRunning
  <2>1. dep' \in Deployments /\ launch' \in Launchers
    BY <1>1, <1>3 DEF MarkRunning, SetStatus, LaunchAt, Launchers, Deployments, Statuses
  <2>2. QED
    BY <1>3, <2>1 DEF MarkRunning, broker, history, TypeOK
<1>4. CASE CreateDeviceRow
  <2>1. launch' \in Launchers
    BY <1>1, <1>4 DEF CreateDeviceRow, Launchers, Deployments
  <2>2. dd' \in [Devices -> RowStatuses]
    BY <1>4 DEF CreateDeviceRow, RowStatuses, TypeOK
  <2>3. QED
    BY <1>4, <2>1, <2>2 DEF CreateDeviceRow, broker, history, TypeOK
<1>5. CASE SkipPhase \/ ObserveEnd
  <2>1. launch' \in Launchers
    <3>1. launch.phase \in 1..3
      BY <1>5 DEF SkipPhase, ObserveEnd, LaunchInv, Phases
    <3>2. QED
      BY <1>1, <1>5, <3>1 DEF SkipPhase, ObserveEnd, Launchers
  <2>2. QED
    BY <1>5, <2>1 DEF SkipPhase, ObserveEnd, rows, broker, history, TypeOK
<1>6. CASE CheckPhase \/ ObserveAbort \/ AfterPhases
  <2>1. launch' \in Launchers
    BY <1>1, <1>6 DEF CheckPhase, ObserveAbort, AfterPhases, LaunchAt, Launchers
  <2>2. QED
    BY <1>6, <2>1 DEF CheckPhase, ObserveAbort, AfterPhases, rows, broker, history, TypeOK
<1>7. CASE RecordPhase \/ RecordFullPhase
  <2>1. dep' \in Deployments
    <3>1. RecordPhase => launch.phase \in 0..3
      BY DEF RecordPhase, LaunchInv, Phases
    <3>2. QED
      BY <1>1, <1>7, <3>1 DEF RecordPhase, RecordFullPhase, SetPhase, Deployments
  <2>2. launch' \in Launchers
    BY <1>1, <1>7 DEF RecordPhase, RecordFullPhase, LaunchAt, Launchers
  <2>3. QED
    BY <1>7, <2>1, <2>2 DEF RecordPhase, RecordFullPhase, broker, history, TypeOK
<1>8. CASE DirectDispatch \/ DispatchPhase
  <2>1. launch.next \in Devices
    BY <1>8, LaunchDevice
  <2>2. launch' \in Launchers
    BY <1>1, <1>8, <2>1 DEF DirectDispatch, DispatchPhase, Dispatch, Launchers, Devices
  <2>3. commands' \in [Devices -> Seq({"update", "rollback"})]
    <3>1. commands[launch.next] \in Seq({"update", "rollback"})
      BY <2>1 DEF TypeOK
    <3>2. Append(commands[launch.next], "update") \in Seq({"update", "rollback"})
      BY <3>1
    <3>3. commands' = [commands EXCEPT ![launch.next] = Append(@, "update")]
      BY <1>8 DEF DirectDispatch, DispatchPhase, Dispatch, Publish
    <3>4. QED
      BY <3>2, <3>3 DEF TypeOK
  <2>4. QED
    BY <1>8, <2>1, <2>2, <2>3 DEF DirectDispatch, DispatchPhase, Dispatch, rows, TypeOK
<1>9. QED
  BY <1>2, <1>3, <1>4, <1>5, <1>6, <1>7, <1>8 DEF Launch

(* A report is taken from its queue, or left there to be taken again.      *)
LEMMA ReceiveTypes ==
  ASSUME TypeOK, NEW d \in Devices, NEW again \in BOOLEAN, Receive(d, again)
  PROVE  TypeOK'
<1>1. /\ MaxDup \in Nat /\ spent \in [dups : 0..MaxDup, crashes : 0..MaxCrash]
      /\ handler \in Callbacks
  BY RolloutAssumption DEF TypeOK
<1>2. spent' \in [dups : 0..MaxDup, crashes : 0..MaxCrash]
  BY <1>1 DEF Receive
<1>3. /\ reports[d] \in Seq({"progress", "success", "error"}) /\ reports[d] # <<>>
      /\ reports \in [Devices -> Seq({"progress", "success", "error"})]
  BY DEF Receive, TypeOK
<1>4. /\ Head(reports[d]) \in {"progress", "success", "error"}
      /\ Tail(reports[d]) \in Seq({"progress", "success", "error"})
  BY <1>3
<1>5. reports' = reports \/ reports' = [reports EXCEPT ![d] = Tail(reports[d])]
  BY DEF Receive
<1>6. reports' \in [Devices -> Seq({"progress", "success", "error"})]
  BY <1>3, <1>4, <1>5
<1>7. handler' \in Callbacks
  BY <1>1, <1>4 DEF Receive, Callbacks
<1>8. QED
  BY <1>2, <1>6, <1>7 DEF Receive, rows, history, TypeOK

(* The callback's steps.                                                   *)
LEMMA CallbackTypes ==
  ASSUME TypeOK, Handle
  PROVE  TypeOK'
<1>1. N \in Nat \ {0} /\ dep \in Deployments /\ handler \in Callbacks
  BY RolloutAssumption DEF TypeOK
<1>2. ASSUME NEW d \in Devices, Receive(d, FALSE)
      PROVE  TypeOK'
  BY <1>2, ReceiveTypes
<1>3. CASE WriteRow
  <2>1. handler' \in Callbacks
    BY <1>1, <1>3 DEF WriteRow, HandlerAt, IdleHandler, StepAfter, Callbacks, Devices
  <2>2. dd' \in [Devices -> RowStatuses]
    BY <1>3 DEF WriteRow, RowAfter, RowStatuses, TypeOK
  <2>3. QED
    BY <1>3, <2>1, <2>2 DEF WriteRow, broker, history, TypeOK
<1>4. CASE ReadDeployment
  <2>1. handler' \in Callbacks
    BY <1>1, <1>4 DEF ReadDeployment, IdleHandler, Callbacks, Devices, Deployments
  <2>2. QED
    BY <1>4, <2>1 DEF ReadDeployment, rows, broker, history, TypeOK
<1>5. CASE CountSuccess \/ CountFailure
  <2>1. dep' \in Deployments
    BY <1>1, <1>5 DEF CountSuccess, CountFailure, Deployments
  <2>2. handler' \in Callbacks
    BY <1>1, <1>5 DEF CountSuccess, CountFailure, HandlerAt, IdleHandler, Callbacks, Devices
  <2>3. QED
    BY <1>5, <2>1, <2>2 DEF CountSuccess, CountFailure, broker, history, TypeOK
<1>6. CASE Complete \/ CompletePhase
  <2>1. dep' \in Deployments
    BY <1>1, <1>6 DEF Complete, CompletePhase, SetStatus, SetPhase, Deployments, Statuses
  <2>2. handler' \in Callbacks
    BY <1>1, <1>6 DEF Complete, CompletePhase, HandlerAt, IdleHandler, Callbacks, Devices
  <2>3. QED
    BY <1>6, <2>1, <2>2 DEF Complete, CompletePhase, broker, history, TypeOK
<1>7. CASE Judge \/ RollbackReturns
  <2>1. handler' \in Callbacks
    BY <1>1, <1>7 DEF Judge, RollbackReturns, HandlerAt, IdleHandler, Callbacks, Devices
  <2>2. rollback["handler"] \in Rollbacks /\ rollback \in [Executors -> Rollbacks]
    BY DEF Executors, TypeOK
  <2>3. rollback' \in [Executors -> Rollbacks]
    BY <1>7, <2>2 DEF Judge, RollbackReturns, Rollbacks, Executors
  <2>4. QED
    BY <1>7, <2>1, <2>3 DEF Judge, RollbackReturns, rows, broker, history, TypeOK
<1>8. QED
  BY <1>2, <1>3, <1>4, <1>5, <1>6, <1>7 DEF Handle

(* ExecuteRollback, and the request for it.                                *)
LEMMA RollbackTypes ==
  ASSUME TypeOK, OperatorRollback \/ \E p \in Executors : Rollback(p)
  PROVE  TypeOK'
<1>1. /\ dep \in Deployments /\ rollback \in [Executors -> Rollbacks]
      /\ \A p \in Executors : rollback[p] \in Rollbacks
  BY DEF TypeOK
<1>2. CASE OperatorRollback
  <2>1. rollback' \in [Executors -> Rollbacks]
    BY <1>1, <1>2 DEF OperatorRollback, RollbackAt, Rollbacks, Executors
  <2>2. QED
    BY <1>2, <2>1 DEF OperatorRollback, rows, broker, history, TypeOK
<1>3. ASSUME NEW p \in Executors, ReadForRollback(p) \/ RollbackEnds(p) \/ ListRows(p)
      PROVE  TypeOK'
  <2>1. rollback' \in [Executors -> Rollbacks]
    BY <1>1, <1>3 DEF ReadForRollback, RollbackEnds, ListRows, RollbackAt, Rollbacks
  <2>2. QED
    BY <1>3, <2>1 DEF ReadForRollback, RollbackEnds, ListRows, rows, broker, history, TypeOK
<1>4. ASSUME NEW p \in Executors, MarkRolledBack(p)
      PROVE  TypeOK'
  <2>1. rollback' \in [Executors -> Rollbacks] /\ dep' \in Deployments
    BY <1>1, <1>4 DEF MarkRolledBack, RollbackAt, SetStatus, Rollbacks, Deployments, Statuses
  <2>2. QED
    BY <1>4, <2>1 DEF MarkRolledBack, broker, history, TypeOK
<1>5. ASSUME NEW p \in Executors, Revert(p)
      PROVE  TypeOK'
  <2>1. PICK d \in rollback[p].todo :
          /\ commands' = [commands EXCEPT ![d] = Append(@, "rollback")]
          /\ reverted' = reverted \union {d}
          /\ rollback' = [rollback EXCEPT ![p].todo = @ \ {d}]
    BY <1>5 DEF Revert, Publish
  <2>2. d \in Devices
    BY <1>1, <2>1 DEF Rollbacks
  <2>3. rollback' \in [Executors -> Rollbacks]
    BY <1>1, <2>1 DEF Rollbacks
  <2>4. commands[d] \in Seq({"update", "rollback"})
    BY <2>2 DEF TypeOK
  <2>5. Append(commands[d], "rollback") \in Seq({"update", "rollback"})
    BY <2>4
  <2>6. commands' \in [Devices -> Seq({"update", "rollback"})]
    BY <2>1, <2>5 DEF TypeOK
  <2>7. QED
    BY <1>5, <2>1, <2>2, <2>3, <2>6 DEF Revert, TypeOK
<1>6. QED
  BY <1>2, <1>3, <1>4, <1>5 DEF Rollback

(* The dashboard.                                                          *)
LEMMA ViewTypes ==
  ASSUME TypeOK, View
  PROVE  TypeOK'
<1>1. dep \in Deployments
  BY DEF TypeOK
<1>2. dep' \in Deployments
  BY <1>1 DEF View, ViewRead, ViewComplete, ViewPhase, SetStatus, SetPhase, Deployments, Statuses, rows
<1>3. view' \in {"idle", "complete", "phase"}
  BY DEF View, ViewRead, ViewComplete, ViewPhase
<1>4. QED
  BY <1>2, <1>3 DEF View, ViewRead, ViewComplete, ViewPhase, rows, broker, history, TypeOK

(* A report joins the queue of its robot.                                  *)
LEMMA ReportTypes ==
  ASSUME TypeOK, NEW d \in Devices, NEW r \in {"progress", "success", "error"}, Report(d, r)
  PROVE  reports' \in [Devices -> Seq({"progress", "success", "error"})]
<1>1. reports[d] \in Seq({"progress", "success", "error"})
  BY DEF TypeOK
<1>2. Append(reports[d], r) \in Seq({"progress", "success", "error"})
  BY <1>1
<1>3. QED
  BY <1>2 DEF Report, TypeOK

(* A command leaves its queue, or stays there to be delivered again.       *)
LEMMA DeliverTypes ==
  ASSUME TypeOK, NEW d \in Devices, NEW c, NEW again \in BOOLEAN, Deliver(d, c, again)
  PROVE  /\ spent' \in [dups : 0..MaxDup, crashes : 0..MaxCrash]
         /\ commands' \in [Devices -> Seq({"update", "rollback"})]
<1>1. MaxDup \in Nat /\ spent \in [dups : 0..MaxDup, crashes : 0..MaxCrash]
  BY RolloutAssumption DEF TypeOK
<1>2. spent' \in [dups : 0..MaxDup, crashes : 0..MaxCrash]
  BY <1>1 DEF Deliver
<1>3. /\ commands[d] \in Seq({"update", "rollback"}) /\ commands[d] # <<>>
      /\ commands \in [Devices -> Seq({"update", "rollback"})]
  BY DEF Deliver, TypeOK
<1>4. Tail(commands[d]) \in Seq({"update", "rollback"})
  BY <1>3
<1>5. commands' = commands \/ commands' = [commands EXCEPT ![d] = Tail(commands[d])]
  BY DEF Deliver
<1>6. QED
  BY <1>2, <1>3, <1>4, <1>5

(* The robots.                                                             *)
LEMMA RobotTypes ==
  ASSUME TypeOK, NEW d \in Devices, NEW again \in BOOLEAN,
         \/ UpdateProgresses(d) \/ UpdateSucceeds(d) \/ UpdateFails(d) \/ RollbackDone(d)
         \/ TakeUpdate(d, again) \/ TakeRollback(d, again)
  PROVE  TypeOK'
<1>1. robot \in [Devices -> Robots] /\ robot[d] \in Robots
  BY DEF TypeOK
<1>2. CASE UpdateProgresses(d) \/ UpdateSucceeds(d) \/ UpdateFails(d) \/ RollbackDone(d)
  <2>1. robot' \in [Devices -> Robots]
    BY <1>1, <1>2 DEF UpdateProgresses, UpdateSucceeds, UpdateFails, RollbackDone, Robots
  <2>2. reports' \in [Devices -> Seq({"progress", "success", "error"})]
    BY <1>2, ReportTypes DEF UpdateProgresses, UpdateSucceeds, UpdateFails, RollbackDone
  <2>3. QED
    BY <1>2, <2>1, <2>2 DEF UpdateProgresses, UpdateSucceeds, UpdateFails, RollbackDone, rows, history, TypeOK
<1>3. CASE TakeUpdate(d, again)
  <2>1. robot' \in [Devices -> Robots]
    BY <1>1, <1>3 DEF TakeUpdate, Robots
  <2>2. reports' = reports \/ Report(d, "error")
    BY <1>3 DEF TakeUpdate
  <2>3. reports' \in [Devices -> Seq({"progress", "success", "error"})]
    BY <2>2, ReportTypes DEF TypeOK
  <2>4. QED
    BY <1>3, <2>1, <2>3, DeliverTypes DEF TakeUpdate, rows, history, TypeOK
<1>4. CASE TakeRollback(d, again)
  <2>1. robot' \in [Devices -> Robots]
    BY <1>1, <1>4 DEF TakeRollback, Robots
  <2>2. reports' \in [Devices -> Seq({"progress", "success", "error"})]
    BY <1>4, ReportTypes DEF TakeRollback
  <2>3. QED
    BY <1>4, <2>1, <2>2, DeliverTypes DEF TakeRollback, rows, history, TypeOK
<1>5. QED
  BY <1>2, <1>3, <1>4

(* A restart of the backend.                                               *)
LEMMA CrashTypes ==
  ASSUME TypeOK, Crash
  PROVE  TypeOK'
<1>1. /\ N \in Nat \ {0} /\ launch \in Launchers /\ MaxCrash \in Nat
      /\ spent \in [dups : 0..MaxDup, crashes : 0..MaxCrash]
  BY RolloutAssumption DEF TypeOK
<1>2. launch' \in Launchers /\ handler' \in Callbacks
  BY <1>1 DEF Crash, Launchers, Callbacks, IdleHandler, Devices
<1>3. rollback' \in [Executors -> Rollbacks]
  BY DEF Crash, Rollbacks
<1>4. spent' \in [dups : 0..MaxDup, crashes : 0..MaxCrash]
  BY <1>1 DEF Crash
<1>5. [d \in Devices |-> <<>>] \in [Devices -> Seq({"progress", "success", "error"})]
  OBVIOUS
<1>6. reports' \in [Devices -> Seq({"progress", "success", "error"})]
  BY <1>5 DEF Crash, TypeOK
<1>7. view' \in {"idle", "complete", "phase"}
  BY DEF Crash
<1>8. QED
  BY <1>2, <1>3, <1>4, <1>6, <1>7 DEF Crash, rows, history, TypeOK

-----------------------------------------------------------------------------
(* What everybody but the launcher leaves alone: the commands already out, *)
(* the fleet, and the phase, which may only grow.                          *)
Background ==
  /\ sent' = sent
  /\ launch' = launch \/ launch' = [launch EXCEPT !.at = "done"]
  /\ dep'.total = dep.total /\ dep'.phase >= dep.phase
  /\ dep'.status = "none" <=> dep.status = "none"
  /\ dep.status = "none" => dd' = dd

LEMMA CallbackStays ==
  ASSUME TypeOK, WorkInv, Handle
  PROVE  Background
<1>1. dep \in Deployments /\ launch \in Launchers
  BY DEF TypeOK
<1>2. CASE \E d \in Devices : Receive(d, FALSE)
  BY <1>1, <1>2 DEF Background, Receive, rows, history, Deployments
<1>3. CASE WriteRow \/ ReadDeployment \/ Judge \/ RollbackReturns
  BY <1>1, <1>3 DEF Background, WriteRow, ReadDeployment, Judge, RollbackReturns, WorkInv, rows, history, Deployments
<1>4. CASE CountSuccess \/ CountFailure
  BY <1>1, <1>4 DEF Background, CountSuccess, CountFailure, history, Deployments
<1>5. CASE Complete \/ CompletePhase
  BY <1>1, <1>5 DEF Background, Complete, CompletePhase, WorkInv, SetStatus, SetPhase, history, Deployments
<1>6. QED
  BY <1>2, <1>3, <1>4, <1>5 DEF Handle

LEMMA RollbackStays ==
  ASSUME TypeOK, WorkInv, OperatorRollback \/ \E p \in Executors : Rollback(p)
  PROVE  Background
<1>1. dep \in Deployments /\ launch \in Launchers
  BY DEF TypeOK
<1>2. CASE OperatorRollback
  BY <1>1, <1>2 DEF Background, OperatorRollback, rows, history, Deployments
<1>3. ASSUME NEW p \in Executors, Rollback(p)
      PROVE  Background
  <2>1. CASE ReadForRollback(p) \/ ListRows(p) \/ RollbackEnds(p)
    BY <1>1, <2>1 DEF Background, ReadForRollback, ListRows, RollbackEnds, rows, history, Deployments
  <2>2. CASE MarkRolledBack(p)
    BY <1>1, <2>2 DEF Background, MarkRolledBack, SetStatus, WorkInv, history, Deployments
  <2>3. CASE Revert(p)
    BY <1>1, <2>3 DEF Background, Revert, Deployments
  <2>4. QED
    BY <1>3, <2>1, <2>2, <2>3 DEF Rollback
<1>4. QED
  BY <1>2, <1>3

LEMMA EnvironmentStays ==
  ASSUME TypeOK, WorkInv, View \/ Redeliver \/ Crash \/ \E d \in Devices : Robot(d)
  PROVE  Background
<1>1. dep \in Deployments /\ launch \in Launchers
  BY DEF TypeOK
<1>2. CASE View
  BY <1>1, <1>2 DEF Background, View, ViewRead, ViewComplete, ViewPhase, SetStatus, SetPhase, WorkInv,
     rows, history, Deployments
<1>3. CASE Crash
  BY <1>1, <1>3 DEF Background, Crash, rows, history, Deployments
<1>4. ASSUME NEW d \in Devices, Receive(d, TRUE) \/ TakeUpdate(d, TRUE) \/ TakeRollback(d, TRUE)
      PROVE  Background
  <2>1. UNCHANGED <<dep, dd, launch, sent>>
    BY <1>4 DEF Receive, TakeUpdate, TakeRollback, rows, history
  <2>2. QED
    BY <1>1, <2>1 DEF Background, Deployments
<1>5. ASSUME NEW d \in Devices, Robot(d)
      PROVE  Background
  <2>1. UNCHANGED <<dep, dd, launch, sent>>
    BY <1>5 DEF Robot, TakeUpdate, UpdateProgresses, UpdateSucceeds, UpdateFails, TakeRollback, RollbackDone,
       rows, history
  <2>2. QED
    BY <1>1, <2>1 DEF Background, Deployments
<1>6. QED
  BY <1>2, <1>3, <1>4, <1>5 DEF Redeliver

(* What stays alone keeps the invariant of the launcher.                   *)
LEMMA BackgroundKeeps ==
  ASSUME TypeOK, LaunchInv, RecordInv, PhaseCoversDispatch, TypeOK', Background
  PROVE  LaunchInv' /\ RecordInv' /\ PhaseCoversDispatch'
<1>1. /\ dep \in Deployments /\ dep' \in Deployments /\ launch \in Launchers
      /\ sent \subseteq Devices
  BY DEF TypeOK
<1>2. launch' = launch \/ launch'.at = "done"
  BY <1>1 DEF Background, Launchers
<1>3. LaunchInv'
  <2>1. CASE launch' = launch
    BY <2>1 DEF LaunchInv, Background, Targets
  <2>2. CASE launch'.at = "done"
    BY <2>2 DEF LaunchInv, Background
  <2>3. QED
    BY <1>2, <2>1, <2>2
<1>4. RecordInv'
  <2>1. dep.phase \in 0..3 /\ dep'.phase \in 0..3 /\ launch.phase \in 0..4 /\ dep'.phase >= dep.phase
    BY <1>1 DEF Deployments, Launchers, Background
  <2>2. QED
    BY <1>2, <2>1 DEF RecordInv
<1>5. PhaseCoversDispatch'
  <2>1. dep.phase \in 0..3 /\ dep'.phase \in 0..3 /\ dep'.phase >= dep.phase
    BY <1>1 DEF Deployments, Background
  <2>2. \A d : PhaseOf(dep'.total, d) = PhaseOf(dep.total, d) /\ PhaseOf(dep.total, d) \in 1..3
    BY DEF Background, PhaseOf
  <2>3. QED
    BY <2>1, <2>2 DEF PhaseCoversDispatch, Background
<1>6. QED
  BY <1>3, <1>4, <1>5

(* Only an existing deployment is worked on.                               *)
LEMMA WorkKeeps ==
  ASSUME TypeOK, LaunchInv, WorkInv, Next
  PROVE  WorkInv'
<1>1. dep \in Deployments /\ rollback \in [Executors -> Rollbacks]
  BY DEF TypeOK
<1>2. CASE Launch
  BY <1>1, <1>2 DEF Launch, CreateRow, MarkRunning, CreateDeviceRow, DirectDispatch, SkipPhase, CheckPhase,
     RecordPhase, DispatchPhase, ObserveAbort, ObserveEnd, AfterPhases, RecordFullPhase, Dispatch,
     SetStatus, SetPhase, WorkInv, rows, Deployments
<1>3. CASE Handle
  <2>1. CASE \E d \in Devices : Receive(d, FALSE)
    BY <2>1 DEF Receive, Ignored, Active, WorkInv, LaunchInv, rows
  <2>2. QED
    BY <1>1, <1>3, <2>1 DEF Handle, WriteRow, ReadDeployment, CountSuccess, Complete, CompletePhase, CountFailure,
       Judge, RollbackReturns, SetStatus, SetPhase, WorkInv, rows, Deployments
<1>4. CASE OperatorRollback
  BY <1>4 DEF OperatorRollback, WorkInv, rows
<1>5. ASSUME NEW p \in Executors, Rollback(p)
      PROVE  WorkInv'
  BY <1>1, <1>5 DEF Rollback, ReadForRollback, MarkRolledBack, ListRows, Revert, RollbackEnds, SetStatus,
     WorkInv, rows, Deployments
<1>6. CASE View
  BY <1>1, <1>6 DEF View, ViewRead, ViewComplete, ViewPhase, SetStatus, SetPhase, WorkInv, rows, Deployments
<1>7. CASE Crash
  BY <1>7 DEF Crash, WorkInv, IdleHandler, Executors
<1>8. CASE Redeliver
  BY <1>8 DEF Redeliver, Receive, Ignored, Active, TakeUpdate, TakeRollback, WorkInv, LaunchInv, rows
<1>9. ASSUME NEW d \in Devices, Robot(d)
      PROVE  WorkInv'
  BY <1>9 DEF Robot, TakeUpdate, UpdateProgresses, UpdateSucceeds, UpdateFails, TakeRollback, RollbackDone,
     WorkInv, rows
<1>10. CASE Ended
  BY <1>10 DEF Ended, vars, WorkInv
<1>11. QED
  BY <1>2, <1>3, <1>4, <1>5, <1>6, <1>7, <1>8, <1>9, <1>10 DEF Next

-----------------------------------------------------------------------------
(* The launcher's own steps, phase by phase.                               *)

(* The arithmetic facts about the phase the launcher is in.                *)
LEMMA PhaseFacts ==
  ASSUME TypeOK, LaunchInv, dep.status # "none" \/ launch.at \notin {"create", "done"}
  PROVE  /\ dep.total \in 1..N /\ dep.total \in Nat \ {0}
         /\ launch.next \in 1..(N + 1) /\ launch.phase \in 0..4 /\ dep.phase \in 0..3
BY RolloutAssumption DEF TypeOK, LaunchInv, Deployments, Launchers

(* A device of an earlier slice has an earlier phase.                      *)
LEMMA PhaseOfSlice ==
  ASSUME NEW m \in Nat \ {0}, NEW p \in Phases
  PROVE  /\ \A d \in 1..(PhaseStart(m, p) - 1) : PhaseOf(m, d) < p
         /\ \A d \in PhaseDevices(m)[p] : PhaseOf(m, d) = p
<1>1. P1End(m) \in 1..m /\ P2End(m) \in P1End(m)..m
  BY Boundaries
<1>2. /\ PhaseDevices(m)[1] = 1..P1End(m)
      /\ PhaseDevices(m)[2] = (P1End(m) + 1)..P2End(m)
      /\ PhaseDevices(m)[3] = (P2End(m) + 1)..m
  BY DEF PhaseDevices, Phases
<1>3. /\ PhaseStart(m, 1) = 1 /\ PhaseStart(m, 2) = P1End(m) + 1 /\ PhaseStart(m, 3) = P2End(m) + 1
  BY DEF PhaseStart
<1>4. p = 1 \/ p = 2 \/ p = 3
  BY DEF Phases
<1>5. \A d \in 1..(PhaseStart(m, p) - 1) : PhaseOf(m, d) < p
  BY <1>1, <1>3, <1>4 DEF PhaseOf
<1>6. \A d \in PhaseDevices(m)[p] : PhaseOf(m, d) = p
  BY <1>1, <1>2, <1>4 DEF PhaseOf
<1>7. QED
  BY <1>5, <1>6

(* The launch up to the first phase, or to the direct dispatch.            *)
LEMMA PrepareKeeps ==
  ASSUME TypeOK, LaunchInv, RecordInv, PhaseCoversDispatch, CreateRow \/ MarkRunning \/ CreateDeviceRow
  PROVE  LaunchInv' /\ RecordInv' /\ PhaseCoversDispatch'
<1>1. dep \in Deployments /\ launch \in Launchers /\ N \in Nat \ {0}
  BY RolloutAssumption DEF TypeOK
<1>2. sent' = {} /\ launch'.at \notin {"create", "phase", "dispatch", "observe"}
  BY <1>1 DEF CreateRow, MarkRunning, CreateDeviceRow, LaunchInv, LaunchAt, history, Launchers
<1>3. CASE CreateRow
  <2>1. dep'.status = "pending" /\ dep'.total \in 1..N
    BY <1>1, <1>3 DEF CreateRow
  <2>2. launch'.at = "run" /\ launch'.next = 1
    BY <1>1, <1>3 DEF CreateRow, LaunchAt, LaunchInv, Launchers
  <2>3. QED
    BY <1>1, <1>2, <2>1, <2>2 DEF LaunchInv, RecordInv, PhaseCoversDispatch
<1>4. CASE MarkRunning
  <2>1. dep.total \in 1..N /\ launch.next = 1 /\ dep.status # "none"
    BY <1>1, <1>4 DEF MarkRunning, LaunchInv, Deployments
  <2>2. dep'.total = dep.total /\ dep'.status = "running"
    BY <1>1, <1>4 DEF MarkRunning, SetStatus, Deployments
  <2>3. launch'.at = "rows" /\ launch'.next = 1
    BY <1>1, <1>4, <2>1 DEF MarkRunning, LaunchAt, Launchers
  <2>4. QED
    BY <1>2, <2>1, <2>2, <2>3 DEF LaunchInv, Targets, RecordInv, PhaseCoversDispatch
<1>5. CASE CreateDeviceRow
  <2>1. dep.total \in 1..N /\ launch.next \in 1..dep.total /\ dep.status # "none" /\ dep' = dep
    BY <1>1, <1>5 DEF CreateDeviceRow, LaunchInv, Targets, Deployments
  <2>2. \/ launch'.at = "rows" /\ launch'.next \in 1..dep.total
        \/ launch'.at = "check" /\ launch'.phase = 1 /\ launch'.next = 1
        \/ launch'.at = "direct" /\ launch'.next = 1 /\ Strategy # "canary"
    BY <1>1, <1>5, <2>1 DEF CreateDeviceRow, Launchers
  <2>3. PhaseStart(dep.total, 1) = 1 /\ 1..0 = {}
    BY DEF PhaseStart
  <2>4. QED
    BY <1>2, <2>1, <2>2, <2>3 DEF LaunchInv, Targets, RecordInv, PhaseCoversDispatch
<1>6. QED
  BY <1>2, <1>3, <1>4, <1>5 DEF LaunchInv, RecordInv, PhaseCoversDispatch

(* From phase to phase: nothing is published.                              *)
LEMMA PhaseStepKeeps ==
  ASSUME TypeOK, LaunchInv, RecordInv, PhaseCoversDispatch, SkipPhase \/ CheckPhase \/ ObserveEnd
  PROVE  LaunchInv' /\ RecordInv' /\ PhaseCoversDispatch'
<1>1. dep' = dep /\ dd' = dd /\ sent' = sent /\ launch \in Launchers
  BY DEF SkipPhase, CheckPhase, ObserveEnd, rows, history, TypeOK
<1>2. /\ launch.at \in {"check", "observe"} /\ launch.phase \in Phases
      /\ sent = 1..(launch.next - 1) /\ dep.status # "none"
  BY DEF SkipPhase, CheckPhase, ObserveEnd, LaunchInv
<1>3. dep.total \in Nat \ {0} /\ launch.next \in Nat
  BY <1>2, PhaseFacts
<1>4. PhaseCoversDispatch'
  BY <1>1 DEF PhaseCoversDispatch
<1>5. CASE SkipPhase
  <2>1. launch'.at = "check" /\ launch'.phase = launch.phase + 1 /\ launch'.next = launch.next
    BY <1>1, <1>5 DEF SkipPhase, Launchers
  <2>2. PhaseStart(dep.total, launch.phase + 1) = PhaseStart(dep.total, launch.phase)
    <3>1. PhaseDevices(dep.total)[launch.phase] = {}
      BY <1>5 DEF SkipPhase
    <3>2. launch.phase \in 1..4 /\ launch.phase + 1 \in 1..4
      BY <1>2 DEF Phases
    <3>3. /\ PhaseStart(dep.total, launch.phase) \in Int /\ PhaseStart(dep.total, launch.phase + 1) \in Int
          /\ PhaseStart(dep.total, launch.phase) <= PhaseStart(dep.total, launch.phase + 1)
      BY <1>2, <1>3, Slice
    <3>4. PhaseStart(dep.total, launch.phase)..(PhaseStart(dep.total, launch.phase + 1) - 1) = {}
      BY <1>2, <1>3, <3>1, Starts
    <3> DEFINE a == PhaseStart(dep.total, launch.phase)
               b == PhaseStart(dep.total, launch.phase + 1)
    <3>5. a # b => a \in a..(b - 1)
      BY <3>3, Intervals
    <3>6. QED
      BY <3>4, <3>5
  <2>3. launch.next = PhaseStart(dep.total, launch.phase)
    BY <1>5 DEF SkipPhase, LaunchInv
  <2>4. QED
    BY <1>1, <1>2, <1>3, <1>4, <2>1, <2>2, <2>3 DEF LaunchInv, RecordInv, Phases
<1>6. CASE CheckPhase
  <2>1. /\ launch'.at \in {"phase", "done"} /\ launch'.phase = launch.phase /\ launch'.next = launch.next
        /\ PhaseDevices(dep.total)[launch.phase] # {} /\ launch.at = "check"
    BY <1>1, <1>6 DEF CheckPhase, LaunchAt, Launchers
  <2>2. QED
    BY <1>1, <1>2, <1>4, <2>1 DEF LaunchInv, RecordInv
<1>7. CASE ObserveEnd
  <2>1. /\ launch'.at = "check" /\ launch'.phase = launch.phase + 1 /\ launch'.next = launch.next
        /\ launch.at = "observe"
    BY <1>7 DEF ObserveEnd
  <2>2. QED
    BY <1>1, <1>2, <1>3, <1>4, <2>1 DEF LaunchInv, RecordInv, Phases
<1>8. QED
  BY <1>5, <1>6, <1>7

(* The end of the rollout.                                                 *)
LEMMA EndKeeps ==
  ASSUME TypeOK, LaunchInv, RecordInv, PhaseCoversDispatch, ObserveAbort \/ AfterPhases \/ RecordFullPhase
  PROVE  LaunchInv' /\ RecordInv' /\ PhaseCoversDispatch'
<1>1. dep \in Deployments /\ launch \in Launchers
  BY DEF TypeOK
<1>2. /\ dd' = dd /\ sent' = sent /\ dep'.total = dep.total /\ dep'.status = dep.status
      /\ dep' = dep \/ dep'.phase = 3
  BY <1>1 DEF ObserveAbort, AfterPhases, RecordFullPhase, SetPhase, rows, history, Deployments
<1>3. launch'.at \in {"done", "record"} /\ dep.status = "none" => launch'.at = "done"
  BY <1>1 DEF ObserveAbort, AfterPhases, RecordFullPhase, LaunchAt, LaunchInv, Launchers
<1>4. launch'.at \in {"done", "record"}
  BY <1>1 DEF ObserveAbort, AfterPhases, RecordFullPhase, LaunchAt, Launchers
<1>5. LaunchInv' /\ RecordInv'
  BY <1>2, <1>3, <1>4 DEF LaunchInv, RecordInv
<1>6. \A d : PhaseOf(dep.total, d) <= 3
  BY DEF PhaseOf
<1>7. PhaseCoversDispatch'
  BY <1>2, <1>6 DEF PhaseCoversDispatch
<1>8. QED
  BY <1>5, <1>7

(* The phase is recorded before its first command.                         *)
LEMMA RecordKeeps ==
  ASSUME TypeOK, LaunchInv, RecordInv, PhaseCoversDispatch, RecordPhase
  PROVE  LaunchInv' /\ RecordInv' /\ PhaseCoversDispatch'
<1>1. dep \in Deployments /\ launch \in Launchers
  BY DEF TypeOK
<1>2. /\ dd' = dd /\ sent' = sent /\ dep'.total = dep.total /\ dep'.status = dep.status
      /\ dep'.phase = launch.phase
  BY <1>1 DEF RecordPhase, SetPhase, history, Deployments
<1>3. /\ launch.at = "phase" /\ launch'.at = "dispatch" /\ launch'.phase = launch.phase
      /\ launch'.next = launch.next
  BY <1>1 DEF RecordPhase, LaunchAt, Launchers
<1>4. /\ launch.phase \in Phases /\ launch.next = PhaseStart(dep.total, launch.phase)
      /\ sent = 1..(launch.next - 1) /\ PhaseDevices(dep.total)[launch.phase] # {}
      /\ dep.status # "none"
  BY <1>3 DEF LaunchInv
<1>5. dep.total \in Nat \ {0}
  BY <1>4, PhaseFacts
<1>6. launch.next \in PhaseDevices(dep.total)[launch.phase]
  <2>1. launch.phase \in 1..4 /\ launch.phase + 1 \in 1..4
    BY <1>4 DEF Phases
  <2>2. /\ PhaseStart(dep.total, launch.phase) \in Int /\ PhaseStart(dep.total, launch.phase + 1) \in Int
        /\ PhaseStart(dep.total, launch.phase) <= PhaseStart(dep.total, launch.phase + 1)
    BY <1>4, <1>5, Slice
  <2>3. PhaseDevices(dep.total)[launch.phase]
          = PhaseStart(dep.total, launch.phase)..(PhaseStart(dep.total, launch.phase + 1) - 1)
    BY <1>4, <1>5, Starts
  <2> DEFINE a == PhaseStart(dep.total, launch.phase)
             b == PhaseStart(dep.total, launch.phase + 1)
  <2> HIDE DEF a, b
  <2>4. a \in Int /\ b \in Int /\ a <= b /\ a..(b - 1) # {}
    BY <1>4, <2>2, <2>3 DEF a, b
  <2>5. a \in a..(b - 1)
    BY <2>4
  <2>6. QED
    BY <1>4, <2>3, <2>5 DEF a, b
<1>7. LaunchInv'
  BY <1>2, <1>3, <1>4, <1>6 DEF LaunchInv
<1>8. RecordInv'
  BY <1>1, <1>2, <1>3 DEF RecordInv, Launchers
<1>9. \A d \in sent : PhaseOf(dep.total, d) < launch.phase
  BY <1>4, <1>5, PhaseOfSlice
<1>10. PhaseCoversDispatch'
  <2>1. \A d \in sent : PhaseOf(dep.total, d) <= launch.phase
    BY <1>4, <1>9 DEF Phases, PhaseOf
  <2>2. QED
    BY <1>2, <2>1 DEF PhaseCoversDispatch
<1>11. QED
  BY <1>7, <1>8, <1>10

(* The dispatch of a phase: the next device gets its command; after the    *)
(* last one the launcher stands at the start of the next phase.            *)
LEMMA DispatchFacts ==
  ASSUME TypeOK, LaunchInv, DispatchPhase
  PROVE  /\ dep.total \in Nat \ {0} /\ dep.status # "none" /\ launch.phase \in Phases
         /\ launch.next \in PhaseDevices(dep.total)[launch.phase] /\ launch.next \in 1..dep.total
         /\ sent = 1..(launch.next - 1) /\ sent' = 1..launch.next
         /\ launch'.phase = launch.phase /\ launch'.next = launch.next + 1
         /\ \/ launch'.at = "dispatch" /\ launch.next + 1 \in PhaseDevices(dep.total)[launch.phase]
            \/ /\ launch'.at \in {"final", "observe"}
               /\ launch'.next = PhaseStart(dep.total, launch.phase + 1)
<1> DEFINE a == PhaseStart(dep.total, launch.phase)
           b == PhaseStart(dep.total, launch.phase + 1)
<1>1. /\ launch.at = "dispatch" /\ launch.phase \in Phases /\ dep.status # "none"
      /\ launch.next \in PhaseDevices(dep.total)[launch.phase] /\ sent = 1..(launch.next - 1)
  BY DEF DispatchPhase, LaunchInv
<1>2. dep.total \in Nat \ {0} /\ launch.next \in Nat
  BY <1>1, PhaseFacts
<1>3. launch.next \in 1..dep.total
  BY <1>1, <1>2, Members
<1>5. a \in Int /\ b \in Int /\ a <= b /\ PhaseDevices(dep.total)[launch.phase] = a..(b - 1)
  BY <1>1, <1>2, Slice
<1>6. PICK last \in PhaseDevices(dep.total)[launch.phase] :
        /\ \A d \in PhaseDevices(dep.total)[launch.phase] : d <= last
        /\ Dispatch(last, IF IsLastPhase(dep.total, launch.phase) THEN "final" ELSE "observe")
  BY DEF DispatchPhase
<1>7. /\ launch'.phase = launch.phase /\ launch'.next = launch.next + 1
      /\ launch.next = last => launch'.at \in {"final", "observe"}
      /\ launch.next # last => launch'.at = "dispatch"
      /\ sent' = sent \union {launch.next}
  BY <1>1, <1>6 DEF Dispatch
<1>8. sent' = 1..launch.next
  BY <1>1, <1>3, <1>7
<1> HIDE DEF a, b
<1>9. last = b - 1
  BY <1>1, <1>5, <1>6
<1>10. launch.next # last => launch.next + 1 \in a..(b - 1)
  BY <1>1, <1>5, <1>9
<1>11. launch.next = last => launch'.next = b
  BY <1>2, <1>5, <1>7, <1>9
<1>12. QED
  BY <1>1, <1>2, <1>3, <1>5, <1>7, <1>8, <1>10, <1>11 DEF a, b

LEMMA DispatchKeeps ==
  ASSUME TypeOK, LaunchInv, RecordInv, PhaseCoversDispatch, DispatchPhase
  PROVE  LaunchInv' /\ RecordInv' /\ PhaseCoversDispatch'
<1>1. dep' = dep /\ dd' = dd /\ launch.at = "dispatch"
  BY DEF DispatchPhase, Dispatch, rows
<1>2. launch.next \in Nat
  BY DispatchFacts
<1>3. sent' = 1..(launch'.next - 1) /\ sent' = sent \union {launch.next}
  BY <1>2, DispatchFacts
<1>4. LaunchInv'
  BY <1>1, <1>3, DispatchFacts DEF LaunchInv
<1>5. RecordInv'
  BY <1>1, DispatchFacts DEF RecordInv
<1>6. PhaseOf(dep.total, launch.next) = launch.phase
  BY DispatchFacts, PhaseOfSlice
<1>7. Strategy = "canary" => PhaseOf(dep.total, launch.next) <= dep.phase
  BY <1>1, <1>6 DEF RecordInv
<1>8. PhaseCoversDispatch'
  BY <1>1, <1>3, <1>7 DEF PhaseCoversDispatch
<1>9. QED
  BY <1>4, <1>5, <1>8

(* The direct dispatch of the strategy full.                               *)
LEMMA DirectKeeps ==
  ASSUME TypeOK, LaunchInv, RecordInv, PhaseCoversDispatch, DirectDispatch
  PROVE  LaunchInv' /\ RecordInv' /\ PhaseCoversDispatch'
<1>1. /\ dep' = dep /\ dd' = dd /\ launch.at = "direct" /\ sent' = sent \union {launch.next}
      /\ launch'.next = launch.next + 1
      /\ launch'.at = IF launch.next = dep.total THEN "record" ELSE "direct"
  BY DEF DirectDispatch, Dispatch, rows
<1>2. /\ Strategy # "canary" /\ launch.next \in 1..dep.total /\ sent = 1..(launch.next - 1)
      /\ dep.status # "none"
  BY <1>1 DEF LaunchInv, Targets
<1>3. dep.total \in Nat \ {0}
  BY <1>2, PhaseFacts
<1>4. sent' = 1..(launch'.next - 1) /\ (launch'.at = "direct" => launch'.next \in 1..dep.total)
  BY <1>1, <1>2, <1>3
<1>5. LaunchInv'
  BY <1>1, <1>2, <1>4 DEF LaunchInv, Targets
<1>6. QED
  BY <1>2, <1>5 DEF RecordInv, PhaseCoversDispatch

-----------------------------------------------------------------------------
LEMMA InitInv == Init => Inv
<1> SUFFICES ASSUME Init PROVE Inv
  OBVIOUS
<1>1. TypeOK
  BY InitTypes
<1>2. LaunchInv /\ WorkInv /\ RecordInv /\ PhaseCoversDispatch
  BY DEF Init, LaunchInv, WorkInv, RecordInv, PhaseCoversDispatch, IdleHandler, Executors
<1>3. QED
  BY <1>1, <1>2 DEF Inv

LEMMA NextInv == Inv /\ [Next]_vars => Inv'
<1> SUFFICES ASSUME Inv, [Next]_vars PROVE Inv'
  OBVIOUS
<1> USE DEF Inv
<1>1. CASE Launch
  <2>1. TypeOK' /\ WorkInv'
    BY <1>1, LaunchTypes, WorkKeeps DEF Next
  <2>2. LaunchInv' /\ RecordInv' /\ PhaseCoversDispatch'
    BY <1>1, PrepareKeeps, PhaseStepKeeps, EndKeeps, RecordKeeps, DispatchKeeps, DirectKeeps DEF Launch
  <2>3. QED
    BY <2>1, <2>2
<1>2. CASE Handle
  BY <1>2, CallbackTypes, CallbackStays, BackgroundKeeps, WorkKeeps DEF Next
<1>3. CASE OperatorRollback \/ \E p \in Executors : Rollback(p)
  BY <1>3, RollbackTypes, RollbackStays, BackgroundKeeps, WorkKeeps DEF Next
<1>4. CASE View \/ Redeliver \/ Crash \/ \E d \in Devices : Robot(d)
  <2>1. TypeOK'
    BY <1>4, ViewTypes, ReceiveTypes, RobotTypes, CrashTypes DEF Redeliver, Robot
  <2>2. QED
    BY <1>4, <2>1, EnvironmentStays, BackgroundKeeps, WorkKeeps DEF Next
<1>5. CASE UNCHANGED vars
  BY <1>5 DEF vars, TypeOK, LaunchInv, WorkInv, RecordInv, PhaseCoversDispatch, Targets
<1>6. CASE Ended
  BY <1>5, <1>6 DEF Ended
<1>7. QED
  BY <1>1, <1>2, <1>3, <1>4, <1>5, <1>6 DEF Next

(* The strengthened invariant holds of every deployment.                   *)
THEOREM RolloutInvariant == Spec => []Inv
BY InitInv, NextInv, PTL DEF Spec

(* Every value of a deployment has its type, whatever happens to it.       *)
THEOREM RolloutTyped == Spec => []TypeOK
<1>1. Inv => TypeOK
  BY DEF Inv
<1>2. QED
  BY <1>1, RolloutInvariant, PTL

(* The recorded phase covers every device commanded, for fleets of any     *)
(* size and any number of duplicates and restarts.                         *)
THEOREM PhaseNeverUnderstated == Spec => []PhaseCoversDispatch
<1>1. Inv => PhaseCoversDispatch
  BY DEF Inv
<1>2. QED
  BY <1>1, RolloutInvariant, PTL

-----------------------------------------------------------------------------
(* The stages.  Everybody but the launcher lets the stages be, or ends the *)
(* deployment, or (a restart) withdraws what was not commanded yet.        *)

Quiet ==
  /\ UNCHANGED <<launch, sent, dep.total>>
  /\ \/ dep'.status = dep.status
     \/ dep.status # "none" /\ dep'.status \in {"completed", "rolled_back"}

StagesMove == [Staged!StagedNext]_(Staged!stagedVars)

LEMMA QuietSteps ==
  ASSUME Inv, Handle \/ View \/ OperatorRollback \/ Redeliver \/ (\E p \in Executors : Rollback(p))
                \/ \E d \in Devices : Robot(d)
  PROVE  Quiet
<1>1. dep \in Deployments
  BY DEF Inv, TypeOK
<1>2. CASE Handle
  BY <1>1, <1>2 DEF Quiet, Handle, Receive, WriteRow, ReadDeployment, CountSuccess, Complete, CompletePhase,
     CountFailure, Judge, RollbackReturns, SetStatus, SetPhase, Inv, WorkInv, rows, history, Deployments
<1>3. CASE View
  BY <1>1, <1>3 DEF Quiet, View, ViewRead, ViewComplete, ViewPhase, SetStatus, SetPhase, Inv, WorkInv, rows, history,
     Deployments
<1>4. CASE OperatorRollback
  BY <1>4 DEF Quiet, OperatorRollback, rows, history
<1>5. ASSUME NEW d \in Devices, Receive(d, TRUE) \/ TakeUpdate(d, TRUE) \/ TakeRollback(d, TRUE)
      PROVE  Quiet
  BY <1>5 DEF Quiet, Receive, TakeUpdate, TakeRollback, rows, history
<1>6. ASSUME NEW p \in Executors, Rollback(p)
      PROVE  Quiet
  BY <1>1, <1>6 DEF Quiet, Rollback, ReadForRollback, MarkRolledBack, ListRows, Revert, RollbackEnds, SetStatus,
     Inv, WorkInv, rows, history, Deployments
<1>7. ASSUME NEW d \in Devices, Robot(d)
      PROVE  Quiet
  BY <1>7 DEF Quiet, Robot, TakeUpdate, UpdateProgresses, UpdateSucceeds, UpdateFails, TakeRollback, RollbackDone,
     rows, history
<1>8. QED
  BY <1>2, <1>3, <1>4, <1>5, <1>6, <1>7 DEF Redeliver

LEMMA QuietRefines ==
  ASSUME Quiet
  PROVE  StagesMove
<1>1. Released' = Released
  BY DEF Quiet, Released
<1>2. CASE dep'.status = dep.status
  BY <1>1, <1>2 DEF Quiet, StagesMove, Staged!stagedVars
<1>3. CASE dep.status # "none" /\ dep'.status \in {"completed", "rolled_back"}
  BY <1>1, <1>3 DEF Quiet, StagesMove, Staged!StagedNext, Staged!End
<1>4. QED
  BY <1>2, <1>3 DEF Quiet

LEMMA CrashRefines ==
  ASSUME Inv, Crash
  PROVE  StagesMove
<1>1. launch \in Launchers
  BY DEF Inv, TypeOK
<1>2. launch'.at = "done" /\ sent' = sent /\ dep' = dep
  BY <1>1 DEF Crash, Launchers, rows, history
<1>3. Released' = sent
  BY <1>2 DEF Released
<1>4. QED
  BY <1>2, <1>3 DEF StagesMove, Staged!StagedNext, Staged!Withdraw

(* The launch creates and starts the deployment.                           *)
LEMMA PrepareRefines ==
  ASSUME Inv, CreateRow \/ MarkRunning \/ CreateDeviceRow
  PROVE  StagesMove
<1>1. /\ dep \in Deployments /\ launch \in Launchers /\ N \in Nat \ {0}
      /\ LaunchInv /\ WorkInv
  BY RolloutAssumption DEF Inv, TypeOK
<1>2. /\ launch.at \notin {"phase", "dispatch"} /\ launch'.at \notin {"phase", "dispatch"}
      /\ sent = {} /\ sent' = {}
  BY <1>1 DEF CreateRow, MarkRunning, CreateDeviceRow, LaunchInv, LaunchAt, history, Launchers
<1>3. Released = {} /\ Released' = {}
  BY <1>2 DEF Released
<1>4. CASE CreateRow
  <2>1. dep.status = "none" /\ dep'.status = "pending" /\ dep'.total \in 1..N
    BY <1>1, <1>4 DEF CreateRow, LaunchInv
  <2>2. QED
    BY <1>2, <1>3, <2>1 DEF StagesMove, Staged!StagedNext, Staged!Create
<1>5. CASE MarkRunning
  <2>1. dep.status # "none" /\ dep'.status = "running" /\ dep'.total = dep.total
    BY <1>1, <1>5 DEF MarkRunning, SetStatus, LaunchInv, Deployments
  <2>2. QED
    BY <1>2, <1>3, <2>1 DEF StagesMove, Staged!StagedNext, Staged!Run
<1>6. CASE CreateDeviceRow
  BY <1>2, <1>3, <1>6 DEF CreateDeviceRow, StagesMove, Staged!stagedVars
<1>7. QED
  BY <1>4, <1>5, <1>6

(* The abstract rollout has the phases of the concrete one.                *)
LEMMA SameSlices ==
  /\ Staged!Phases = Phases
  /\ \A m : Staged!PhaseDevices(m) = PhaseDevices(m)
BY DEF Staged!Phases, Phases, Staged!PhaseDevices, PhaseDevices, Staged!P1End, P1End, Staged!P2End, P2End,
   Staged!ClampPhaseEnd, ClampPhaseEnd, Staged!CeilPercent, CeilPercent

(* A phase that has its turn is released: every device before it was       *)
(* commanded, and none of its own.                                         *)
LEMMA CheckRefines ==
  ASSUME Inv, Strategy = "canary", CheckPhase
  PROVE  StagesMove
<1>1. launch \in Launchers /\ LaunchInv /\ TypeOK
  BY DEF Inv, TypeOK
<1>2. /\ launch.at = "check" /\ launch.phase \in Phases /\ dep.status # "none"
      /\ launch.next = PhaseStart(dep.total, launch.phase) /\ sent = 1..(launch.next - 1)
      /\ PhaseDevices(dep.total)[launch.phase] # {}
      /\ sent' = sent /\ dep' = dep
  BY <1>1 DEF CheckPhase, LaunchInv, rows, history
<1>3. dep.total \in Nat \ {0}
  BY <1>1, <1>2, PhaseFacts
<1>4. Released = sent
  BY <1>2 DEF Released
<1>5. CASE dep.status # "running"
  <2>1. launch'.at = "done"
    BY <1>1, <1>5 DEF CheckPhase, LaunchAt, Launchers
  <2>2. Released' = sent
    BY <1>2, <2>1 DEF Released
  <2>3. QED
    BY <1>2, <1>4, <2>2 DEF StagesMove, Staged!stagedVars
<1>6. CASE dep.status = "running"
  <2>1. launch'.at = "phase" /\ launch'.phase = launch.phase
    BY <1>1, <1>6 DEF CheckPhase, LaunchAt, Launchers
  <2>2. Released' = sent \union PhaseDevices(dep.total)[launch.phase]
    BY <1>2, <2>1 DEF Released
  <2>3. \A q \in Phases : q < launch.phase => PhaseDevices(dep.total)[q] \subseteq sent
    BY <1>2, <1>3, Boundaries, Earlier
  <2>4. PhaseDevices(dep.total)[launch.phase] \intersect sent = {}
    <3>1. PhaseStart(dep.total, launch.phase) \in Int
      BY <1>2, <1>3, Slice
    <3>2. PhaseDevices(dep.total)[launch.phase]
            = PhaseStart(dep.total, launch.phase)..(PhaseStart(dep.total, launch.phase + 1) - 1)
      BY <1>2, <1>3, Slice
    <3>3. QED
      BY <1>2, <3>1, <3>2
  <2>5. Staged!Release(launch.phase)
    BY <1>2, <1>4, <1>6, <2>2, <2>3, <2>4, SameSlices DEF Staged!Release
  <2>6. QED
    BY <1>2, <2>5, SameSlices DEF StagesMove, Staged!StagedNext
<1>7. QED
  BY <1>5, <1>6

(* Between phases, and while a phase is recorded, nothing is released.     *)
LEMMA PhaseStepRefines ==
  ASSUME Inv, SkipPhase \/ RecordPhase \/ ObserveAbort \/ ObserveEnd \/ AfterPhases \/ RecordFullPhase
  PROVE  StagesMove
<1>1. dep \in Deployments /\ launch \in Launchers
  BY DEF Inv, TypeOK
<1>2. dep'.status = dep.status /\ dep'.total = dep.total /\ sent' = sent
  BY <1>1 DEF SkipPhase, RecordPhase, ObserveAbort, ObserveEnd, AfterPhases, RecordFullPhase, SetPhase,
     rows, history, Deployments
<1>3. CASE RecordPhase
  <2>1. launch.at = "phase" /\ launch'.at = "dispatch" /\ launch'.phase = launch.phase
    BY <1>1, <1>3 DEF RecordPhase, LaunchAt, Launchers
  <2>2. Released' = Released
    BY <1>2, <2>1 DEF Released
  <2>3. QED
    BY <1>2, <2>2 DEF StagesMove, Staged!stagedVars
<1>4. CASE SkipPhase \/ ObserveAbort \/ ObserveEnd \/ AfterPhases \/ RecordFullPhase
  <2>1. launch.at \notin {"phase", "dispatch"} /\ launch'.at \notin {"phase", "dispatch"}
    BY <1>1, <1>4 DEF SkipPhase, ObserveAbort, ObserveEnd, AfterPhases, RecordFullPhase, LaunchAt, Launchers
  <2>2. Released = sent /\ Released' = sent
    BY <1>2, <2>1 DEF Released
  <2>3. QED
    BY <1>2, <2>2 DEF StagesMove, Staged!stagedVars
<1>5. QED
  BY <1>3, <1>4

(* A command goes to a released device, and the last one of a phase leaves *)
(* nothing released.                                                       *)
LEMMA DispatchRefines ==
  ASSUME Inv, Strategy = "canary", DispatchPhase
  PROVE  StagesMove
<1> DEFINE PD == PhaseDevices(dep.total)[launch.phase]
           a == PhaseStart(dep.total, launch.phase)
           b == PhaseStart(dep.total, launch.phase + 1)
<1>1. TypeOK /\ LaunchInv /\ launch.at = "dispatch" /\ dep' = dep
  BY DEF Inv, DispatchPhase, Dispatch, rows
<1>2. /\ dep.total \in Nat \ {0} /\ launch.phase \in Phases
      /\ launch.next \in PD /\ launch.next \in 1..dep.total
      /\ sent = 1..(launch.next - 1) /\ sent' = 1..launch.next /\ launch'.phase = launch.phase
      /\ launch'.at = "dispatch" \/ (launch'.at \in {"final", "observe"} /\ launch.next + 1 = b)
  BY <1>1, DispatchFacts
<1>3. PD = a..(b - 1) /\ a \in Int /\ b \in Int /\ a >= 1
  BY <1>2, Slice
<1>4. Released = sent \union PD
  BY <1>1 DEF Released
<1>5. Released' = IF launch'.at = "dispatch" THEN sent' \union PD ELSE sent'
  BY <1>1, <1>2 DEF Released
<1> HIDE DEF PD, a, b
<1>6. sent' = sent \union {launch.next}
  BY <1>2
<1>7. sent' \union PD = sent \union PD
  BY <1>2, <1>6
<1>8. launch.next + 1 = b => sent' = sent \union PD
  BY <1>2, <1>3, OneMore
<1>9. Released' = Released
  BY <1>2, <1>4, <1>5, <1>7, <1>8
<1>10. Staged!Command(launch.next)
  BY <1>1, <1>2, <1>4, <1>6, <1>9 DEF Staged!Command
<1>11. QED
  BY <1>2, <1>10 DEF StagesMove, Staged!StagedNext

LEMMA StageStep ==
  ASSUME Inv, Strategy = "canary", [Next]_vars
  PROVE  StagesMove
<1>1. CASE Launch
  <2>1. ~DirectDispatch
    BY DEF DirectDispatch, Inv, LaunchInv
  <2>2. QED
    BY <1>1, <2>1, PrepareRefines, CheckRefines, PhaseStepRefines, DispatchRefines DEF Launch
<1>2. CASE \/ Handle \/ View \/ OperatorRollback \/ Redeliver \/ (\E p \in Executors : Rollback(p))
          \/ \E d \in Devices : Robot(d)
  BY <1>2, QuietSteps, QuietRefines
<1>3. CASE Crash
  BY <1>3, CrashRefines
<1>4. CASE Ended \/ UNCHANGED vars
  BY <1>4 DEF Ended, vars, Released, StagesMove, Staged!stagedVars
<1>5. QED
  BY <1>1, <1>2, <1>3, <1>4 DEF Next

(* A canary rollout implements StagedRollout, for fleets of any size:      *)
(* runCanary commands no device before the phases ahead of its own were    *)
(* commanded completely and the deployment was then found running.         *)
THEOREM CanaryIsStaged ==
  ASSUME Strategy = "canary"
  PROVE  Spec => UpdatesInStages
<1>1. Init => Staged!StagedInit
  BY DEF Init, Released, Staged!StagedInit
<1>2. Inv /\ [Next]_vars => [Staged!StagedNext]_(Staged!stagedVars)
  BY StageStep DEF StagesMove
<1>3. QED
  BY <1>1, <1>2, RolloutInvariant, PTL DEF Spec, UpdatesInStages, Staged!StagedSpec

-----------------------------------------------------------------------------
(* The threshold.  A failure that is counted is judged before the next     *)
(* report is taken; the callback leaves the rollback only when the         *)
(* deployment was marked, and nobody sets a launched deployment running.   *)

(* Before the deployment runs nothing was reported.                        *)
NothingReported ==
  launch.at \in {"create", "run"} =>
    handler.at = "idle" /\ dep.fail = 0 /\ \A d \in Devices : dd[d] = "none"

RollbackIsCalled == handler.at # "rollback" => rollback["handler"].at = "idle"

Marked == rollback["handler"].at \in {"list", "revert", "done"} => dep.status # "running"

BelowThreshold == 100 * dep.fail < Threshold * dep.total

Judged ==
  dep.status = "running" /\ spent.crashes = 0 =>
    handler.at \in {"judge", "rollback"} \/ BelowThreshold

BreachInv == NothingReported /\ RollbackIsCalled /\ Marked /\ Judged

LEMMA InitBreach == Init => BreachInv
BY DEF Init, BreachInv, NothingReported, RollbackIsCalled, Marked, Judged, IdleHandler, Executors

(* What leaves the callback and its rollback alone.                        *)
LEMMA BreachStands ==
  ASSUME BreachInv, UNCHANGED <<handler, dd>>,
         rollback'["handler"] = rollback["handler"],
         dep'.fail = dep.fail, dep'.total = dep.total, spent'.crashes = spent.crashes,
         dep'.status = dep.status \/ dep'.status # "running",
         launch'.at \in {"create", "run"} => launch.at \in {"create", "run"}
  PROVE  BreachInv'
<1>1. NothingReported'
  BY DEF BreachInv, NothingReported
<1>2. RollbackIsCalled' /\ Marked'
  BY DEF BreachInv, RollbackIsCalled, Marked
<1>3. Judged'
  BY DEF BreachInv, Judged, BelowThreshold
<1>4. QED
  BY <1>1, <1>2, <1>3 DEF BreachInv

LEMMA LaunchBreach ==
  ASSUME Inv, BreachInv, Launch
  PROVE  BreachInv'
<1>1. dep \in Deployments /\ launch \in Launchers /\ dd \in [Devices -> RowStatuses] /\ LaunchInv
  BY DEF Inv, TypeOK
<1>2. UNCHANGED <<handler, rollback, spent>>
  BY DEF Launch, CreateRow, MarkRunning, CreateDeviceRow, DirectDispatch, SkipPhase, CheckPhase,
     RecordPhase, DispatchPhase, Dispatch, ObserveAbort, ObserveEnd, AfterPhases, RecordFullPhase
<1>3. CASE CreateRow
  <2>1. /\ dep'.status = "pending" /\ dep'.fail = 0 /\ dd' = dd /\ launch.at = "create"
    BY <1>3 DEF CreateRow
  <2>2. QED
    BY <1>2, <2>1 DEF BreachInv, NothingReported, RollbackIsCalled, Marked, Judged
<1>4. CASE MarkRunning
  <2>1. /\ launch.at = "run" /\ launch'.at = "rows" /\ dd' = dd
        /\ dep'.fail = dep.fail /\ dep'.total = dep.total
    BY <1>1, <1>4 DEF MarkRunning, SetStatus, LaunchAt, Deployments, Launchers
  <2>2. dep.fail = 0 /\ handler.at = "idle" /\ rollback["handler"].at = "idle"
    BY <2>1 DEF BreachInv, NothingReported, RollbackIsCalled
  <2>3. dep.total \in Nat /\ dep.total # 0 /\ Threshold \in 5..50
    BY <1>1, <2>1, RolloutAssumption DEF LaunchInv, Deployments
  <2>4. BelowThreshold'
    <3>1. Threshold * dep.total > 0
      BY <2>3
    <3>2. QED
      BY <2>1, <2>2, <3>1 DEF BelowThreshold
  <2>5. QED
    BY <1>2, <2>1, <2>2, <2>4 DEF BreachInv, NothingReported, RollbackIsCalled, Marked, Judged
<1>5. CASE CreateDeviceRow
  <2>1. launch.at = "rows" /\ dep' = dep
    BY <1>5 DEF CreateDeviceRow
  <2>2. launch'.at \notin {"create", "run"}
    BY <1>1, <1>5 DEF CreateDeviceRow, Launchers
  <2>3. QED
    BY <1>2, <2>1, <2>2 DEF BreachInv, NothingReported, RollbackIsCalled, Marked, Judged,
       BelowThreshold
<1>6. CASE \/ SkipPhase \/ CheckPhase \/ ObserveAbort \/ ObserveEnd \/ AfterPhases
           \/ DirectDispatch \/ DispatchPhase
  <2>1. dep' = dep /\ dd' = dd
    BY <1>6 DEF SkipPhase, CheckPhase, ObserveAbort, ObserveEnd, AfterPhases, DirectDispatch,
       DispatchPhase, Dispatch, rows
  <2>2. launch'.at \notin {"create", "run"}
    BY <1>1, <1>6 DEF SkipPhase, CheckPhase, ObserveAbort, ObserveEnd, AfterPhases, DirectDispatch,
       DispatchPhase, Dispatch, LaunchAt, Launchers
  <2>3. QED
    BY <1>2, <2>1, <2>2, BreachStands
<1>7. CASE RecordPhase \/ RecordFullPhase
  <2>1. /\ dd' = dd /\ dep'.fail = dep.fail /\ dep'.total = dep.total
        /\ dep'.status = dep.status
    BY <1>1, <1>7 DEF RecordPhase, RecordFullPhase, SetPhase, Deployments
  <2>2. launch'.at \notin {"create", "run"}
    BY <1>1, <1>7 DEF RecordPhase, RecordFullPhase, LaunchAt, Launchers
  <2>3. QED
    BY <1>2, <2>1, <2>2, BreachStands
<1>8. QED
  BY <1>3, <1>4, <1>5, <1>6, <1>7 DEF Launch

(* The callback's steps before and after the judgement.                    *)
LEMMA CallbackBreach ==
  ASSUME Inv, BreachInv, NEW again \in BOOLEAN,
         \/ \E d \in Devices : Receive(d, again)
         \/ WriteRow \/ ReadDeployment \/ CountSuccess \/ Complete \/ CompletePhase \/ CountFailure
  PROVE  BreachInv'
<1>1. /\ dep \in Deployments /\ handler \in Callbacks /\ spent \in [dups : 0..MaxDup, crashes : 0..MaxCrash]
      /\ dd \in [Devices -> RowStatuses]
  BY DEF Inv, TypeOK
<1>2. UNCHANGED <<launch, rollback>> /\ spent'.crashes = spent.crashes
  BY <1>1 DEF Receive, WriteRow, ReadDeployment, CountSuccess, Complete, CompletePhase, CountFailure
<1>3. handler.at \notin {"rollback", "judge"} /\ handler'.at # "rollback"
  BY <1>1 DEF Receive, WriteRow, ReadDeployment, CountSuccess, Complete, CompletePhase,
     CountFailure, HandlerAt, IdleHandler, StepAfter, Callbacks
<1>4. rollback["handler"].at = "idle"
  BY <1>3 DEF BreachInv, RollbackIsCalled
<1>5. NothingReported'
  <2>1. CASE launch.at \in {"create", "run"}
    <3>1. handler.at = "idle" /\ dep.fail = 0 /\ \A d \in Devices : dd[d] = "none"
      BY <2>1 DEF BreachInv, NothingReported
    <3>2. PICK d \in Devices : Receive(d, again)
      BY <3>1 DEF WriteRow, ReadDeployment, CountSuccess, Complete, CompletePhase, CountFailure
    <3>3. handler' = handler /\ dep' = dep /\ dd' = dd
      BY <3>1, <3>2 DEF Receive, Ignored, Active, rows
    <3>4. QED
      BY <1>2, <3>1, <3>3 DEF NothingReported
  <2>2. CASE launch.at \notin {"create", "run"}
    BY <1>2, <2>2 DEF NothingReported
  <2>3. QED
    BY <2>1, <2>2
<1>6. RollbackIsCalled' /\ Marked'
  BY <1>2, <1>4 DEF RollbackIsCalled, Marked
<1>7. Judged'
  <2>1. CASE CountFailure
    <3>1. handler'.at = "judge"
      BY <1>1, <2>1 DEF CountFailure, HandlerAt, Callbacks
    <3>2. QED
      BY <3>1 DEF Judged
  <2>2. CASE ~CountFailure
    <3>1. dep'.fail = dep.fail /\ dep'.total = dep.total
      BY <1>1, <2>2 DEF Receive, WriteRow, ReadDeployment, CountSuccess, Complete, CompletePhase,
         SetStatus, SetPhase, Deployments, rows
    <3>2. dep'.status = dep.status \/ dep'.status # "running"
      BY <1>1, <2>2 DEF Receive, WriteRow, ReadDeployment, CountSuccess, Complete, CompletePhase,
         SetStatus, SetPhase, Deployments, rows
    <3>3. QED
      BY <1>2, <1>3, <3>1, <3>2 DEF BreachInv, Judged, BelowThreshold
  <2>3. QED
    BY <2>1, <2>2
<1>8. QED
  BY <1>5, <1>6, <1>7 DEF BreachInv

(* The judgement counts the failure once more, so that what it lets pass   *)
(* is below the threshold.                                                 *)
LEMMA JudgeBreach ==
  ASSUME Inv, BreachInv, Judge
  PROVE  BreachInv'
<1>1. /\ dep \in Deployments /\ handler \in Callbacks /\ rollback \in [Executors -> Rollbacks]
      /\ rollback["handler"] \in Rollbacks /\ Threshold \in 5..50
  BY RolloutAssumption DEF Inv, TypeOK, Executors
<1>2. UNCHANGED <<dep, dd, launch, spent>> /\ handler.at = "judge"
  BY DEF Judge, rows
<1>3. launch.at \notin {"create", "run"} /\ rollback["handler"].at = "idle"
  BY <1>2 DEF BreachInv, NothingReported, RollbackIsCalled
<1>4. CASE dep.status = "running" /\ 100 * (dep.fail + 1) >= Threshold * dep.total
  <2>1. handler'.at = "rollback"
    BY <1>1, <1>4 DEF Judge, HandlerAt, Callbacks
  <2>2. rollback'["handler"].at = "read"
    BY <1>1, <1>4 DEF Judge, Rollbacks, Executors
  <2>3. QED
    BY <1>2, <1>3, <2>1, <2>2 DEF BreachInv, NothingReported, RollbackIsCalled, Marked, Judged
<1>5. CASE ~(dep.status = "running" /\ 100 * (dep.fail + 1) >= Threshold * dep.total)
  <2>1. handler'.at # "rollback" /\ rollback' = rollback
    BY <1>1, <1>5 DEF Judge, HandlerAt, IdleHandler, Callbacks
  <2>2. dep.status = "running" => BelowThreshold
    <3>1. dep.fail \in Nat /\ Threshold * dep.total \in Int
      BY <1>1 DEF Deployments
    <3>2. QED
      BY <1>5, <3>1 DEF BelowThreshold
  <2>3. QED
    BY <1>2, <1>3, <2>1, <2>2 DEF BreachInv, NothingReported, RollbackIsCalled, Marked, Judged,
       BelowThreshold
<1>6. QED
  BY <1>4, <1>5

LEMMA ReturnBreach ==
  ASSUME Inv, BreachInv, RollbackReturns
  PROVE  BreachInv'
<1>1. /\ UNCHANGED <<dep, dd, launch, spent>> /\ handler.at = "rollback"
      /\ rollback["handler"].at = "done" /\ handler'.at = "idle"
  BY DEF RollbackReturns, HandlerAt, IdleHandler, rows
<1>2. rollback'["handler"].at = "idle"
  <2>1. rollback["handler"] \in Rollbacks /\ rollback \in [Executors -> Rollbacks]
    BY DEF Inv, TypeOK, Executors
  <2>2. QED
    BY <2>1 DEF RollbackReturns, Rollbacks, Executors
<1>3. dep.status # "running" /\ launch.at \notin {"create", "run"}
  BY <1>1 DEF BreachInv, Marked, NothingReported
<1>4. QED
  BY <1>1, <1>2, <1>3 DEF BreachInv, NothingReported, RollbackIsCalled, Marked, Judged

(* The rollback marks the deployment before it lists the devices.          *)
LEMMA ExecutorBreach ==
  ASSUME Inv, BreachInv, NEW p \in Executors, Rollback(p)
  PROVE  BreachInv'
<1>1. /\ dep \in Deployments /\ rollback \in [Executors -> Rollbacks]
      /\ \A q \in Executors : rollback[q] \in Rollbacks
  BY DEF Inv, TypeOK
<1>2. UNCHANGED <<dd, launch, handler, spent>>
  BY DEF Rollback, ReadForRollback, MarkRolledBack, ListRows, Revert, RollbackEnds, rows
<1>3. /\ dep'.fail = dep.fail /\ dep'.total = dep.total
      /\ dep'.status = dep.status \/ dep'.status # "running"
  BY <1>1 DEF Rollback, ReadForRollback, MarkRolledBack, ListRows, Revert, RollbackEnds, SetStatus,
     rows, Deployments
<1>4. \A q \in Executors : q # p => rollback'[q] = rollback[q]
  BY <1>1 DEF Rollback, ReadForRollback, MarkRolledBack, ListRows, Revert, RollbackEnds, RollbackAt
<1>5. "handler" \in Executors
  BY DEF Executors
<1>6. CASE p # "handler"
  <2>1. rollback'["handler"] = rollback["handler"]
    BY <1>4, <1>5, <1>6
  <2>2. QED
    BY <1>2, <1>3, <2>1, BreachStands
<1>7. CASE p = "handler"
  <2>1. rollback["handler"].at # "idle"
    BY <1>7 DEF Rollback, ReadForRollback, MarkRolledBack, ListRows, Revert, RollbackEnds
  <2>2. handler.at = "rollback" /\ launch.at \notin {"create", "run"}
    BY <2>1 DEF BreachInv, RollbackIsCalled, NothingReported
  <2>3. Marked'
    <3>1. CASE ReadForRollback(p)
      BY <1>1, <1>5, <1>7, <3>1 DEF ReadForRollback, RollbackAt, Rollbacks, Marked, rows
    <3>2. CASE MarkRolledBack(p)
      BY <1>1, <3>2 DEF MarkRolledBack, SetStatus, Marked, Deployments
    <3>3. CASE ListRows(p) \/ Revert(p) \/ RollbackEnds(p)
      <4>1. rollback["handler"].at \in {"list", "revert", "done"}
        BY <1>7, <3>3 DEF ListRows, Revert, RollbackEnds
      <4>2. dep' = dep
        BY <3>3 DEF ListRows, Revert, RollbackEnds, rows
      <4>3. QED
        BY <4>1, <4>2 DEF BreachInv, Marked
    <3>4. QED
      BY <3>1, <3>2, <3>3 DEF Rollback
  <2>4. QED
    BY <1>2, <2>2, <2>3 DEF BreachInv, NothingReported, RollbackIsCalled, Judged
<1>8. QED
  BY <1>6, <1>7

LEMMA EnvironmentBreach ==
  ASSUME Inv, BreachInv,
         \/ View \/ OperatorRollback
         \/ \E d \in Devices : Robot(d) \/ TakeUpdate(d, TRUE) \/ TakeRollback(d, TRUE)
  PROVE  BreachInv'
<1>1. /\ dep \in Deployments /\ spent \in [dups : 0..MaxDup, crashes : 0..MaxCrash]
      /\ rollback \in [Executors -> Rollbacks]
  BY DEF Inv, TypeOK
<1>2. UNCHANGED <<dd, launch, handler>>
  BY DEF View, ViewRead, ViewComplete, ViewPhase, OperatorRollback, Robot, TakeUpdate,
     UpdateProgresses, UpdateSucceeds, UpdateFails, TakeRollback, RollbackDone, rows
<1>3. spent'.crashes = spent.crashes
  BY <1>1 DEF View, ViewRead, ViewComplete, ViewPhase, OperatorRollback, Robot, TakeUpdate,
     UpdateProgresses, UpdateSucceeds, UpdateFails, TakeRollback, RollbackDone, Deliver
<1>4. rollback'["handler"] = rollback["handler"]
  BY <1>1 DEF View, ViewRead, ViewComplete, ViewPhase, OperatorRollback, RollbackAt, Executors, Robot,
     TakeUpdate, UpdateProgresses, UpdateSucceeds, UpdateFails, TakeRollback, RollbackDone
<1>5. /\ dep'.fail = dep.fail /\ dep'.total = dep.total
      /\ dep'.status = dep.status \/ dep'.status # "running"
  BY <1>1 DEF View, ViewRead, ViewComplete, ViewPhase, OperatorRollback, Robot, TakeUpdate,
     UpdateProgresses, UpdateSucceeds, UpdateFails, TakeRollback, RollbackDone, SetStatus, SetPhase,
     Deployments, rows
<1>6. QED
  BY <1>2, <1>3, <1>4, <1>5, BreachStands

LEMMA CrashBreach ==
  ASSUME Inv, BreachInv, Crash
  PROVE  BreachInv'
<1>1. spent \in [dups : 0..MaxDup, crashes : 0..MaxCrash] /\ launch \in Launchers /\ MaxCrash \in Nat
  BY RolloutAssumption DEF Inv, TypeOK
<1>2. spent'.crashes # 0 /\ launch'.at = "done" /\ rollback'["handler"].at = "idle"
  BY <1>1 DEF Crash, Launchers, Executors
<1>3. QED
  BY <1>2 DEF BreachInv, NothingReported, RollbackIsCalled, Marked, Judged

LEMMA NextBreach == Inv /\ BreachInv /\ [Next]_vars => BreachInv'
<1> SUFFICES ASSUME Inv, BreachInv, [Next]_vars PROVE BreachInv'
  OBVIOUS
<1>1. CASE Launch
  BY <1>1, LaunchBreach
<1>2. CASE Handle
  BY <1>2, CallbackBreach, JudgeBreach, ReturnBreach DEF Handle
<1>3. CASE Redeliver \/ View \/ OperatorRollback \/ \E d \in Devices : Robot(d)
  BY <1>3, CallbackBreach, EnvironmentBreach DEF Redeliver
<1>4. CASE \E p \in Executors : Rollback(p)
  BY <1>4, ExecutorBreach
<1>5. CASE Crash
  BY <1>5, CrashBreach
<1>6. CASE Ended \/ UNCHANGED vars
  BY <1>6 DEF Ended, vars, BreachInv, NothingReported, RollbackIsCalled, Marked, Judged, BelowThreshold
<1>7. QED
  BY <1>1, <1>2, <1>3, <1>4, <1>5, <1>6 DEF Next

(* A deployment does not go on with a failure rate at or above its         *)
(* threshold, for fleets of any size, any threshold and any number of      *)
(* messages delivered twice, as long as the backend is not restarted:      *)
(* HandleDeviceError judges what it counted before the next report.        *)
THEOREM BreachNeverIgnored == Spec => []BreachStopsRollout
<1>1. BreachInv => BreachStopsRollout
  BY DEF BreachInv, Judged, BelowThreshold, BreachStopsRollout
<1>2. QED
  BY <1>1, InitBreach, NextBreach, RolloutInvariant, PTL DEF Spec
=============================================================================
