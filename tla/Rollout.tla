------------------------------- MODULE Rollout -------------------------------
(***************************************************************************)
(* One deployment, from CreateDeployment to its end, at the granularity of *)
(* the backend's SQL statements and MQTT publishes:                        *)
(*   - the launcher: the HTTP handler CreateDeployment and the goroutine   *)
(*     runCanary it starts (handlers/deployments.go, rollout/manager.go);  *)
(*   - the MQTT callback that handles progress and error reports, one at a *)
(*     time (mqtt/client.go, HandleDeviceProgress, HandleDeviceError);     *)
(*   - the operator's rollback request and, inside the callback, the       *)
(*     automatic one, both running ExecuteRollback;                        *)
(*   - a dashboard polling GetDeployment, which reconciles the row.        *)
(* Every statement commits on its own: there is no transaction, and a      *)
(* value read by one statement may be stale when the next one uses it.     *)
(*                                                                         *)
(* The robots and the broker are the environment.  A robot does what       *)
(* RobotAgent's goroutines report; QoS 1 may deliver a message twice.      *)
(***************************************************************************)
EXTENDS CanaryPhases, Sequences, FiniteSets

CONSTANTS
  N,            \* bound on the number of target devices
  Threshold,    \* rollback_threshold, in percent
  Strategy,     \* "canary" or "full"
  Faulty,       \* the devices whose update may fail
  MayRollback,  \* when the operator may ask for a rollback: "never", once the
                \* deployment is "launched", or as soon as its row is "created"
  MayView,      \* whether a dashboard polls the deployment
  MaxDup,       \* bound on messages delivered twice
  MaxCrash      \* bound on restarts of the backend

Devices == 1..N

ASSUME RolloutAssumption ==
  /\ N \in Nat \ {0}
  /\ Threshold \in 5..50
  /\ Strategy \in {"canary", "full"}
  /\ Faulty \subseteq Devices
  /\ MayRollback \in {"never", "launched", "created"} /\ MayView \in BOOLEAN
  /\ MaxDup \in Nat /\ MaxCrash \in Nat

VARIABLES
  dep,       \* the row of table deployments
  dd,        \* the status of each row of deployment_devices
  launch,    \* the launcher
  handler,   \* the MQTT callback
  rollback,  \* the two executions of ExecuteRollback
  view,      \* the GET request of the dashboard
  commands,  \* commands on their way to each robot
  robot,     \* what each robot is doing
  reports,   \* reports on their way from each robot
  spent,     \* duplicates and crashes so far
  sent,      \* history: devices an update command was published to
  reverted,  \* history: devices a rollback command was published to
  undone     \* history: devices whose last command is a rollback

(* The number of target devices is a column of the deployment.             *)
Targets == 1..dep.total

rows == <<dep, dd>>
broker == <<commands, robot, reports>>
history == <<sent, reverted, undone>>
vars == <<dep, dd, launch, handler, rollback, view,
          commands, robot, reports, spent, sent, reverted, undone>>

Statuses == {"none", "pending", "running", "completed", "rolled_back"}
RowStatuses == {"none", "pending", "updating", "success", "failed"}
Terminal == {"success", "failed"}
Executors == {"operator", "handler"}

Publish(d, c) == commands' = [commands EXCEPT ![d] = Append(@, c)]
SetStatus(s) == dep' = [dep EXCEPT !.status = s]
SetPhase(p) == dep' = [dep EXCEPT !.phase = p]

IdleHandler == [at |-> "idle", dev |-> 1, kind |-> "none", seen |-> 0]

Init ==
  /\ dep = [status |-> "none", total |-> 0, phase |-> 0, succ |-> 0, fail |-> 0]
  /\ dd = [d \in Devices |-> "none"]
  /\ launch = [at |-> "create", phase |-> 0, next |-> 1]
  /\ handler = IdleHandler
  /\ rollback = [p \in Executors |-> [at |-> "idle", todo |-> {}]]
  /\ view = "idle"
  /\ commands = [d \in Devices |-> <<>>]
  /\ robot = [d \in Devices |-> [fsm |-> "free", rollbacks |-> 0]]
  /\ reports = [d \in Devices |-> <<>>]
  /\ spent = [dups |-> 0, crashes |-> 0]
  /\ sent = {} /\ reverted = {} /\ undone = {}

-----------------------------------------------------------------------------
(* The launcher: CreateDeployment, then the dispatch of the strategy.      *)

LaunchAt(l) == launch' = [launch EXCEPT !.at = l]

CreateRow ==
  /\ launch.at = "create"
  /\ \E n \in 1..N :
       dep' = [status |-> "pending", total |-> n, phase |-> 0, succ |-> 0, fail |-> 0]
  /\ LaunchAt("run")
  /\ UNCHANGED <<dd, handler, rollback, view, broker, spent, history>>

MarkRunning ==
  /\ launch.at = "run"
  /\ SetStatus("running")
  /\ LaunchAt("rows")
  /\ UNCHANGED <<dd, handler, rollback, view, broker, spent, history>>

CreateDeviceRow ==
  /\ launch.at = "rows"
  /\ dd' = [dd EXCEPT ![launch.next] = "pending"]
  /\ launch' = IF launch.next < dep.total THEN [launch EXCEPT !.next = @ + 1]
               ELSE IF Strategy = "canary" THEN [at |-> "check", phase |-> 1, next |-> 1]
               ELSE [at |-> "direct", phase |-> 0, next |-> 1]
  /\ UNCHANGED <<dep, handler, rollback, view, broker, spent, history>>

(* An update command goes out to the launcher's next device; after the     *)
(* last device of the batch the launcher goes on at l.                     *)
Dispatch(last, l) ==
  /\ Publish(launch.next, "update")
  /\ sent' = sent \union {launch.next} /\ undone' = undone \ {launch.next}
  /\ launch' = [at |-> IF launch.next = last THEN l ELSE launch.at,
                phase |-> launch.phase, next |-> launch.next + 1]
  /\ UNCHANGED <<rows, handler, rollback, view, robot, reports, spent, reverted>>

(* StartRollout with strategy "full": the status is never looked at.       *)
DirectDispatch == launch.at = "direct" /\ Dispatch(dep.total, "record")

(* runCanary, top of the loop: an empty phase is skipped, and the rollout  *)
(* goes no further unless the deployment is running.                       *)
SkipPhase ==
  /\ launch.at = "check" /\ launch.phase \in Phases
  /\ PhaseDevices(dep.total)[launch.phase] = {}
  /\ launch' = [launch EXCEPT !.phase = @ + 1]
  /\ UNCHANGED <<rows, handler, rollback, view, broker, spent, history>>

(* Mutant of CheckPhase: the observation of the last window is taken for   *)
(* good, and the status is not read again.                                 *)
TrustObservation ==
  /\ launch.at = "check" /\ launch.phase \in Phases
  /\ PhaseDevices(dep.total)[launch.phase] # {}
  /\ LaunchAt("phase")
  /\ UNCHANGED <<rows, handler, rollback, view, broker, spent, history>>

CheckPhase ==
  /\ launch.at = "check" /\ launch.phase \in Phases
  /\ PhaseDevices(dep.total)[launch.phase] # {}
  /\ LaunchAt(IF dep.status = "running" THEN "phase" ELSE "done")
  /\ UNCHANGED <<rows, handler, rollback, view, broker, spent, history>>

(* Mutant of RecordPhase: the phase is recorded one behind, as if it were  *)
(* written after the dispatch.                                             *)
RecordPhaseLate ==
  /\ launch.at = "phase"
  /\ SetPhase(launch.phase - 1)
  /\ LaunchAt("dispatch")
  /\ UNCHANGED <<dd, handler, rollback, view, broker, spent, history>>

RecordPhase ==
  /\ launch.at = "phase"
  /\ SetPhase(launch.phase)
  /\ LaunchAt("dispatch")
  /\ UNCHANGED <<dd, handler, rollback, view, broker, spent, history>>

DispatchPhase ==
  /\ launch.at = "dispatch"
  /\ \E last \in PhaseDevices(dep.total)[launch.phase] :
       /\ \A d \in PhaseDevices(dep.total)[launch.phase] : d <= last
       /\ Dispatch(last, IF IsLastPhase(dep.total, launch.phase) THEN "final" ELSE "observe")

(* observeWindow: a tick before the deadline sees that the deployment is   *)
(* no longer running, and the rollout ends.                                *)
ObserveAbort ==
  /\ launch.at = "observe" /\ dep.status # "running"
  /\ LaunchAt("done")
  /\ UNCHANGED <<rows, handler, rollback, view, broker, spent, history>>

(* observeWindow: the deadline passes; the status is not looked at.        *)
ObserveEnd ==
  /\ launch.at = "observe"
  /\ launch' = [at |-> "check", phase |-> launch.phase + 1, next |-> launch.next]
  /\ UNCHANGED <<rows, handler, rollback, view, broker, spent, history>>

(* After the loop: the last phase is recorded unless the deployment was    *)
(* rolled back.                                                            *)
AfterPhases ==
  /\ launch.at = "final" \/ (launch.at = "check" /\ launch.phase = 4)
  /\ LaunchAt(IF dep.status = "rolled_back" THEN "done" ELSE "record")
  /\ UNCHANGED <<rows, handler, rollback, view, broker, spent, history>>

(* Mutant of RecordFullPhase: the phases are counted from zero.            *)
RecordZeroBased ==
  /\ launch.at = "record"
  /\ SetPhase(2)
  /\ LaunchAt("done")
  /\ UNCHANGED <<dd, handler, rollback, view, broker, spent, history>>

RecordFullPhase ==
  /\ launch.at = "record"
  /\ SetPhase(3)
  /\ LaunchAt("done")
  /\ UNCHANGED <<dd, handler, rollback, view, broker, spent, history>>

Launch ==
  \/ CreateRow \/ MarkRunning \/ CreateDeviceRow \/ DirectDispatch
  \/ SkipPhase \/ CheckPhase \/ RecordPhase \/ DispatchPhase
  \/ ObserveAbort \/ ObserveEnd \/ AfterPhases \/ RecordFullPhase

-----------------------------------------------------------------------------
(* The MQTT callback.                                                      *)

HandlerAt(l) == handler' = IF l = "idle" THEN IdleHandler ELSE [handler EXCEPT !.at = l]

(* GetActiveDeploymentDeviceByDevice finds the device's row while the      *)
(* deployment runs, and afterwards while the row is not terminal.          *)
Active(d) ==
  dd[d] # "none" /\ (dep.status = "running" \/ dd[d] \notin Terminal)

(* Without an active row, and for an error on a terminal row, the handlers *)
(* return at once.                                                         *)
Ignored(d, kind) == ~Active(d) \/ (kind = "error" /\ dd[d] \in Terminal)

(* A report arrives (it may be delivered again) and the row is looked up.  *)
Receive(d, again) ==
  /\ handler.at = "idle" /\ reports[d] # <<>>
  /\ again => spent.dups < MaxDup
  /\ spent' = IF again THEN [spent EXCEPT !.dups = @ + 1] ELSE spent
  /\ reports' = IF again THEN reports ELSE [reports EXCEPT ![d] = Tail(@)]
  /\ LET kind == Head(reports[d])
     IN  handler' = IF Ignored(d, kind) THEN handler
                    ELSE [at |-> "row", dev |-> d, kind |-> kind, seen |-> 0]
  /\ UNCHANGED <<rows, launch, rollback, view, commands, robot, history>>

(* What the row becomes, and where the callback goes on from there.        *)
RowAfter(kind) ==
  IF kind = "success" THEN "success" ELSE IF kind = "error" THEN "failed" ELSE "updating"

StepAfter(kind) ==
  IF kind = "success" THEN "read" ELSE IF kind = "error" THEN "fail" ELSE "idle"

(* Mutant of WriteRow: the row is left to be written after the counter.    *)
WriteRowLater ==
  /\ handler.at = "row"
  /\ HandlerAt(StepAfter(handler.kind))
  /\ UNCHANGED <<rows, launch, rollback, view, broker, spent, history>>

WriteRow ==
  /\ handler.at = "row"
  /\ dd' = [dd EXCEPT ![handler.dev] = RowAfter(handler.kind)]
  /\ HandlerAt(StepAfter(handler.kind))
  /\ UNCHANGED <<dep, launch, rollback, view, broker, spent, history>>

(* HandleDeviceProgress reads the deployment before it counts the success. *)
ReadDeployment ==
  /\ handler.at = "read"
  /\ handler' = IF dep.status = "rolled_back" THEN IdleHandler
                ELSE [at |-> "count", dev |-> handler.dev, kind |-> handler.kind,
                      seen |-> dep.succ + dep.fail]
  /\ UNCHANGED <<rows, launch, rollback, view, broker, spent, history>>

(* Mutant of CountSuccess: the counter grows by one too many.              *)
CountTwice ==
  /\ handler.at = "count"
  /\ dep' = [dep EXCEPT !.succ = @ + 2]
  /\ HandlerAt(IF handler.seen + 1 >= dep.total THEN "complete" ELSE "idle")
  /\ UNCHANGED <<dd, launch, rollback, view, broker, spent, history>>

(* Mutant of CountSuccess: completion is tested with one device to go, as  *)
(* HandleDeviceError tests it.                                             *)
CountEarly ==
  /\ handler.at = "count"
  /\ dep' = [dep EXCEPT !.succ = @ + 1]
  /\ HandlerAt(IF handler.seen + 2 >= dep.total THEN "complete" ELSE "idle")
  /\ UNCHANGED <<dd, launch, rollback, view, broker, spent, history>>

(* Mutant of CountSuccess: the completion test forgets the success counted *)
(* just now.                                                               *)
CountStale ==
  /\ handler.at = "count"
  /\ dep' = [dep EXCEPT !.succ = @ + 1]
  /\ HandlerAt(IF handler.seen >= dep.total THEN "complete" ELSE "idle")
  /\ UNCHANGED <<dd, launch, rollback, view, broker, spent, history>>

(* The success is counted, and completion decided from the counters as     *)
(* they were read before.  The device's current_version, written between   *)
(* the two, belongs to the registry and not to the deployment.             *)
CountSuccess ==
  /\ handler.at = "count"
  /\ dep' = [dep EXCEPT !.succ = @ + 1]
  /\ HandlerAt(IF handler.seen + 1 >= dep.total THEN "complete" ELSE "idle")
  /\ UNCHANGED <<dd, launch, rollback, view, broker, spent, history>>

Complete ==
  /\ handler.at = "complete"
  /\ SetStatus("completed")
  /\ HandlerAt(IF handler.kind = "success" /\ Strategy = "canary" THEN "phase" ELSE "idle")
  /\ UNCHANGED <<dd, launch, rollback, view, broker, spent, history>>

CompletePhase ==
  /\ handler.at = "phase"
  /\ SetPhase(3)
  /\ HandlerAt("idle")
  /\ UNCHANGED <<dd, launch, rollback, view, broker, spent, history>>

CountFailure ==
  /\ handler.at = "fail"
  /\ dep' = [dep EXCEPT !.fail = @ + 1]
  /\ HandlerAt("judge")
  /\ UNCHANGED <<dd, launch, rollback, view, broker, spent, history>>

(* HandleDeviceError reads the deployment after it counted the failure,    *)
(* and adds the failure once more to both decisions.                       *)
Judge ==
  /\ handler.at = "judge"
  /\ LET breach == dep.status = "running" /\ 100 * (dep.fail + 1) >= Threshold * dep.total
     IN  /\ HandlerAt(IF breach THEN "rollback"
                      ELSE IF dep.succ + dep.fail + 1 >= dep.total THEN "complete" ELSE "idle")
         /\ rollback' = IF breach THEN [rollback EXCEPT !["handler"].at = "read"] ELSE rollback
  /\ UNCHANGED <<rows, launch, view, broker, spent, history>>

(* ExecuteRollback has returned to HandleDeviceError.                      *)
RollbackReturns ==
  /\ handler.at = "rollback" /\ rollback["handler"].at = "done"
  /\ HandlerAt("idle")
  /\ rollback' = [rollback EXCEPT !["handler"].at = "idle"]
  /\ UNCHANGED <<rows, launch, view, broker, spent, history>>

Handle ==
  \/ \E d \in Devices : Receive(d, FALSE)
  \/ WriteRow \/ ReadDeployment \/ CountSuccess
  \/ Complete \/ CompletePhase \/ CountFailure \/ Judge \/ RollbackReturns

-----------------------------------------------------------------------------
(* ExecuteRollback, run by the operator's request or by the callback.      *)

RollbackAt(p, l) == rollback' = [rollback EXCEPT ![p].at = l]

OperatorRollback ==
  /\ rollback["operator"].at = "idle" /\ dep.status # "none"
  /\ \/ MayRollback = "launched" /\ launch.at \notin {"create", "run", "rows"}
     \/ MayRollback = "created" /\ launch.at # "create"
  /\ RollbackAt("operator", "read")
  /\ UNCHANGED <<rows, launch, handler, view, broker, spent, history>>

ReadForRollback(p) ==
  /\ rollback[p].at = "read"
  /\ RollbackAt(p, IF dep.status = "rolled_back" THEN "done" ELSE "mark")
  /\ UNCHANGED <<rows, launch, handler, view, broker, spent, history>>

(* Mutant of MarkRolledBack: the devices are reverted, but the deployment  *)
(* is left running.                                                        *)
LeaveRunning(p) ==
  /\ rollback[p].at = "mark"
  /\ RollbackAt(p, "list")
  /\ UNCHANGED <<rows, launch, handler, view, broker, spent, history>>

MarkRolledBack(p) ==
  /\ rollback[p].at = "mark"
  /\ SetStatus("rolled_back")
  /\ RollbackAt(p, "list")
  /\ UNCHANGED <<dd, launch, handler, view, broker, spent, history>>

(* Mutant of ListRows: only the devices that already reported are listed.  *)
ListReported(p) ==
  /\ rollback[p].at = "list"
  /\ rollback' = [rollback EXCEPT ![p] =
       [at |-> "revert", todo |-> {d \in Devices : dd[d] \in Terminal}]]
  /\ UNCHANGED <<rows, launch, handler, view, broker, spent, history>>

ListRows(p) ==
  /\ rollback[p].at = "list"
  /\ rollback' = [rollback EXCEPT ![p] =
       [at |-> "revert", todo |-> {d \in Devices : dd[d] # "none"}]]
  /\ UNCHANGED <<rows, launch, handler, view, broker, spent, history>>

(* The devices are reverted in the order of their rows, with a rollback    *)
(* command for each.                                                       *)
Revert(p) ==
  /\ rollback[p].at = "revert"
  /\ \E d \in rollback[p].todo :
       /\ \A e \in rollback[p].todo : d <= e
       /\ Publish(d, "rollback")
       /\ reverted' = reverted \union {d} /\ undone' = undone \union {d}
       /\ rollback' = [rollback EXCEPT ![p].todo = @ \ {d}]
  /\ UNCHANGED <<dep, dd, launch, handler, view, robot, reports, spent, sent>>

RollbackEnds(p) ==
  /\ rollback[p].at = "revert" /\ rollback[p].todo = {}
  /\ RollbackAt(p, "done")
  /\ UNCHANGED <<rows, launch, handler, view, broker, spent, history>>

Rollback(p) ==
  ReadForRollback(p) \/ MarkRolledBack(p) \/ ListRows(p) \/ Revert(p) \/ RollbackEnds(p)

-----------------------------------------------------------------------------
(* GET /deployments/:id and its Reconcile.                                 *)

Settled == dep.succ + dep.fail >= dep.total /\ dep.status # "rolled_back"

PhaseBehind == Strategy = "canary" /\ dep.phase < 3

(* A request that finds nothing to reconcile changes nothing.              *)
ViewRead ==
  /\ MayView /\ dep.status # "none" /\ view = "idle" /\ Settled
  /\ view' = IF dep.status # "completed" THEN "complete"
             ELSE IF PhaseBehind THEN "phase" ELSE "idle"
  /\ UNCHANGED <<rows, launch, handler, rollback, broker, spent, history>>

(* The UPDATE returns the row it wrote, and Reconcile goes on from that.   *)
ViewComplete ==
  /\ view = "complete"
  /\ SetStatus("completed")
  /\ view' = IF PhaseBehind THEN "phase" ELSE "idle"
  /\ UNCHANGED <<dd, launch, handler, rollback, broker, spent, history>>

ViewPhase ==
  /\ view = "phase"
  /\ SetPhase(3)
  /\ view' = "idle"
  /\ UNCHANGED <<dd, launch, handler, rollback, broker, spent, history>>

View == ViewRead \/ ViewComplete \/ ViewPhase

-----------------------------------------------------------------------------
(* The robots (simulator/main.go) and the broker.                          *)

Report(d, r) == reports' = [reports EXCEPT ![d] = Append(@, r)]

(* A command reaches a robot, possibly not for the last time.              *)
Deliver(d, c, again) ==
  /\ commands[d] # <<>> /\ Head(commands[d]) = c
  /\ again => spent.dups < MaxDup
  /\ spent' = IF again THEN [spent EXCEPT !.dups = @ + 1] ELSE spent
  /\ commands' = IF again THEN commands ELSE [commands EXCEPT ![d] = Tail(@)]

(* handleUpdate: a robot that is updating or rolling back rejects the      *)
(* command, and reports that as an error.                                  *)
TakeUpdate(d, again) ==
  /\ Deliver(d, "update", again)
  /\ IF robot[d].fsm = "free"
     THEN robot' = [robot EXCEPT ![d].fsm = "accepted"] /\ UNCHANGED reports
     ELSE Report(d, "error") /\ UNCHANGED robot
  /\ UNCHANGED <<rows, launch, handler, rollback, view, history>>

(* One progress report stands for all of them: they change nothing after   *)
(* the first, but may come after the end of a rollback.                    *)
UpdateProgresses(d) ==
  /\ robot[d].fsm = "accepted"
  /\ robot' = [robot EXCEPT ![d].fsm = "updating"]
  /\ Report(d, "progress")
  /\ UNCHANGED <<rows, launch, handler, rollback, view, commands, spent, history>>

UpdateSucceeds(d) ==
  /\ robot[d].fsm = "updating"
  /\ robot' = [robot EXCEPT ![d].fsm = "free"]
  /\ Report(d, "success")
  /\ UNCHANGED <<rows, launch, handler, rollback, view, commands, spent, history>>

(* An interlock, the download, the verification or the flashing fails.     *)
UpdateFails(d) ==
  /\ d \in Faulty /\ robot[d].fsm \in {"accepted", "updating"}
  /\ robot' = [robot EXCEPT ![d].fsm = "free"]
  /\ Report(d, "error")
  /\ UNCHANGED <<rows, launch, handler, rollback, view, commands, spent, history>>

(* handleRollback goes ahead whatever the robot is doing; an update under  *)
(* way keeps the state machine.                                            *)
TakeRollback(d, again) ==
  /\ Deliver(d, "rollback", again)
  /\ robot' = [robot EXCEPT ![d] =
       [fsm |-> IF @.fsm = "free" THEN "rolling_back" ELSE @.fsm, rollbacks |-> @.rollbacks + 1]]
  /\ Report(d, "progress")
  /\ UNCHANGED <<rows, launch, handler, rollback, view, history>>

RollbackDone(d) ==
  /\ robot[d].rollbacks > 0
  /\ robot' = [robot EXCEPT ![d] =
       [fsm |-> IF @.fsm = "rolling_back" THEN "free" ELSE @.fsm, rollbacks |-> @.rollbacks - 1]]
  /\ Report(d, "success")
  /\ UNCHANGED <<rows, launch, handler, rollback, view, commands, spent, history>>

Robot(d) ==
  \/ TakeUpdate(d, FALSE) \/ UpdateProgresses(d) \/ UpdateSucceeds(d) \/ UpdateFails(d)
  \/ TakeRollback(d, FALSE) \/ RollbackDone(d)

Redeliver ==
  \E d \in Devices : Receive(d, TRUE) \/ TakeUpdate(d, TRUE) \/ TakeRollback(d, TRUE)

(* The backend stops and is started again: the database stays, the         *)
(* launcher, the callback and the requests are gone, and the session with  *)
(* the broker is a new one, so that waiting reports may be lost.           *)
Crash ==
  /\ spent.crashes < MaxCrash
  /\ spent' = [spent EXCEPT !.crashes = @ + 1]
  /\ launch' = [launch EXCEPT !.at = "done"]
  /\ handler' = IdleHandler
  /\ rollback' = [p \in Executors |-> [at |-> "idle", todo |-> {}]]
  /\ view' = "idle"
  /\ reports' \in {reports, [d \in Devices |-> <<>>]}
  /\ UNCHANGED <<rows, commands, robot, history>>

-----------------------------------------------------------------------------
(* Nothing is left to do.                                                  *)
Ended ==
  /\ launch.at = "done" /\ handler.at = "idle" /\ view = "idle"
  /\ \A d \in Devices : commands[d] = <<>> /\ reports[d] = <<>>
                        /\ robot[d].fsm = "free" /\ robot[d].rollbacks = 0
  /\ UNCHANGED vars

Next ==
  \/ Launch \/ Handle \/ View \/ OperatorRollback \/ Redeliver \/ Crash
  \/ \E p \in Executors : Rollback(p)
  \/ \E d \in Devices : Robot(d)
  \/ Ended

Spec == Init /\ [][Next]_vars

(* Goroutines, callbacks and statements run to their end, the broker       *)
(* delivers, and a robot finishes what it began.  Nothing obliges the      *)
(* operator, the dashboard, a second delivery or a restart to happen, and  *)
(* nothing obliges a publish made inside the callback to return:           *)
(* PublishCommand waits there for an acknowledgement that the callback     *)
(* itself may keep the client from reading.                                *)
Fairness ==
  /\ WF_vars(Launch) /\ WF_vars(Handle)
  /\ WF_vars(Rollback("operator"))
  /\ WF_vars(ReadForRollback("handler") \/ MarkRolledBack("handler") \/ ListRows("handler")
               \/ RollbackEnds("handler"))
  /\ \A d \in Devices : WF_vars(Robot(d))

FairSpec == Spec /\ Fairness

-----------------------------------------------------------------------------
Deployments == [status : Statuses, total : 0..N, phase : 0..3, succ : Nat, fail : Nat]
Launchers == [at : {"create", "run", "rows", "check", "phase", "dispatch", "observe",
                    "final", "record", "direct", "done"},
              phase : 0..4, next : 1..(N + 1)]
Callbacks == [at : {"idle", "row", "read", "count", "complete", "phase",
                    "fail", "judge", "rollback"},
              dev : Devices, kind : {"none", "progress", "success", "error"}, seen : Nat]
Rollbacks == [at : {"idle", "read", "mark", "list", "revert", "done"}, todo : SUBSET Devices]
Robots == [fsm : {"free", "accepted", "updating", "rolling_back"}, rollbacks : Nat]

TypeOK ==
  /\ dep \in Deployments
  /\ dd \in [Devices -> RowStatuses]
  /\ launch \in Launchers
  /\ handler \in Callbacks
  /\ rollback \in [Executors -> Rollbacks]
  /\ view \in {"idle", "complete", "phase"}
  /\ commands \in [Devices -> Seq({"update", "rollback"})]
  /\ reports \in [Devices -> Seq({"progress", "success", "error"})]
  /\ robot \in [Devices -> Robots]
  /\ spent \in [dups : 0..MaxDup, crashes : 0..MaxCrash]
  /\ sent \subseteq Devices /\ reverted \subseteq Devices /\ undone \subseteq Devices

RowsIn(s) == {d \in Devices : dd[d] = s}

(* Between two reports of a running deployment nobody asked to roll back,  *)
(* the counters are what the rows say: the statements of                   *)
(* HandleDeviceProgress and HandleDeviceError add up, although nothing     *)
(* makes them one transaction.                                             *)
CountersMatchRows ==
  dep.status = "running" /\ handler.at = "idle" /\ rollback["operator"].at = "idle" =>
    /\ dep.succ = Cardinality(RowsIn("success"))
    /\ dep.fail = Cardinality(RowsIn("failed"))

(* A deployment does not go on with a failure rate at or above its         *)
(* threshold: before the next report is handled it is being rolled back.   *)
(* Only a restart may lose the rollback of a breach already counted.       *)
BreachStopsRollout ==
  dep.status = "running" /\ handler.at = "idle" /\ spent.crashes = 0 =>
    100 * dep.fail < Threshold * dep.total

(* A restart may lose a count, but never counts what no row shows: the     *)
(* row is written first, so the counters stay at or below the rows.        *)
CountersNeverAhead ==
  dep.status = "running" =>
    /\ dep.succ <= Cardinality(RowsIn("success"))
    /\ dep.fail <= Cardinality(RowsIn("failed"))

(* The recorded phase covers every device an update was published to, so   *)
(* the dashboard never understates how far a rollout has gone.             *)
PhaseCoversDispatch ==
  Strategy = "canary" => \A d \in sent : PhaseOf(dep.total, d) <= dep.phase

(* The recorded phase never goes back, although the launcher, the callback *)
(* and Reconcile all write it, from values read earlier.                   *)
PhaseMonotone == [][dep'.phase >= dep.phase]_vars

(* A completed deployment without a failure is complete: Complete and      *)
(* Reconcile decide from counters and never too early, although            *)
(* HandleDeviceProgress reads them before it adds its own success.         *)
CompletedIsComplete ==
  dep.status = "completed" /\ dep.fail = 0 => \A d \in Targets : dd[d] = "success"

(* Every deployment ends, when every robot reports the end of its update.  *)
DeploymentEnds ==
  dep.status = "running" ~> dep.status \in {"completed", "rolled_back"}

(* A device whose update was published while the deployment was not yet    *)
(* rolled back is told to revert once it is, and gets no update after      *)
(* that: its last command is a rollback.  Excluded is the callback that    *)
(* rolls back and waits for its own acknowledgement for good               *)
(* (client.go:146).  Not so for an update that follows the status, from a  *)
(* launcher that is past CheckPhase: it may follow the rollback command of *)
(* the same device as well, and nobody reverts it.                         *)
RollbackReachesAll ==
  \A d \in Devices :
    [](d \in sent /\ dep.status # "rolled_back" =>
         [](dep.status = "rolled_back" => <>(d \in undone \/ handler.at = "rollback")))

-----------------------------------------------------------------------------
(* The rollout seen from the devices: a phase is released from the moment  *)
(* its turn was decided until its last command is out.                     *)

Released ==
  IF Strategy = "canary" /\ launch.at \in {"phase", "dispatch"}
  THEN sent \union PhaseDevices(dep.total)[launch.phase] ELSE sent

Staged == INSTANCE StagedRollout WITH
            status <- dep.status, total <- dep.total, released <- Released, commanded <- sent

(* runCanary updates the fleet in stages: whatever the callback, the       *)
(* operator, the dashboard and restarts do in between, no device gets its  *)
(* update before the phases ahead of its own were commanded completely and *)
(* the deployment was then found running.                                  *)
UpdatesInStages == Staged!StagedSpec

(* The first device of each phase; the fourth begins behind the fleet.     *)
PhaseStart(n, p) ==
  IF p = 1 THEN 1 ELSE IF p = 2 THEN P1End(n) + 1 ELSE IF p = 3 THEN P2End(n) + 1 ELSE n + 1

(* The devices commanded are always the first ones of the fleet, and the   *)
(* launcher stands where its phase says.                                   *)
LaunchInv ==
  /\ dep.status = "none" <=> dep.total = 0
  /\ dep.status = "none" => launch.at \in {"create", "done"} /\ \A d \in Devices : dd[d] = "none"
  /\ launch.at = "create" => dep.status = "none"
  /\ launch.at \in {"create", "run"} => launch.next = 1
  /\ launch.at \in {"rows", "direct"} => launch.next \in Targets
  /\ launch.at \in {"create", "run", "rows"} => sent = {}
  /\ launch.at \in {"check", "phase", "dispatch", "observe", "direct"} => sent = 1..(launch.next - 1)
  /\ launch.at \in {"phase", "dispatch", "observe"} => launch.phase \in Phases
  /\ launch.at = "check" => launch.phase \in 1..4
  /\ launch.at \in {"check", "phase"} => launch.next = PhaseStart(dep.total, launch.phase)
  /\ launch.at = "observe" => launch.next = PhaseStart(dep.total, launch.phase + 1)
  /\ launch.at = "phase" => PhaseDevices(dep.total)[launch.phase] # {}
  /\ launch.at = "dispatch" => launch.next \in PhaseDevices(dep.total)[launch.phase]
  /\ Strategy = "canary" => launch.at # "direct"

(* Only an existing deployment has somebody at work on its row.            *)
WorkInv ==
  dep.status = "none" =>
    handler.at = "idle" /\ view = "idle" /\ \A p \in Executors : rollback[p].at = "idle"

(* What is recorded is not behind what the launcher is dispatching.        *)
RecordInv == Strategy = "canary" /\ launch.at = "dispatch" => launch.phase <= dep.phase

Inv == TypeOK /\ LaunchInv /\ WorkInv /\ RecordInv /\ PhaseCoversDispatch

-----------------------------------------------------------------------------
(* What documents and comments say, and the code does not do.              *)

(* "Check completion invariant: all targets reached terminal state"        *)
(* (manager.go:198), of the row: no device of a completed deployment is    *)
(* still pending or updating.                                              *)
CompletedMeansTerminal ==
  dep.status = "completed" => \A d \in Targets : dd[d] \in Terminal

(* The rollback threshold is a rate of failed devices (manager.go:246,     *)
(* docs/operations/SETUP_LOCAL.md:164): without a request of the operator  *)
(* a deployment is rolled back only if that many devices failed.           *)
RollbackOnlyOnBreach ==
  dep.status = "rolled_back" /\ rollback["operator"].at = "idle" =>
    100 * dep.fail >= Threshold * dep.total

(* "If all devices finished without breaching rollback threshold"          *)
(* (manager.go:254): a deployment whose failures reach the threshold is    *)
(* not completed.                                                          *)
CompletedWithoutBreach ==
  dep.status = "completed" => 100 * dep.fail < Threshold * dep.total
=============================================================================
