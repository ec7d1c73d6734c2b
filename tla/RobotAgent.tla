----------------------------- MODULE RobotAgent -----------------------------
(***************************************************************************)
(* The edge agent of one robot: the lifecycle state machine of             *)
(* simulator/internal/agent/state_machine.go and the goroutines of         *)
(* simulator/main.go that drive it.                                        *)
(*                                                                         *)
(* Every update or rollback command is handled by a goroutine of its own   *)
(* (main.go:176-180), so any number of them may be alive at once.  A       *)
(* goroutine is an element of Handlers; pc[h] says where it is.  What the  *)
(* goroutines share: the state machine (each Trigger is atomic, under its  *)
(* mutex) and the plain globals status, currentVersion, configuredActivity *)
(* and currentBattery, which nothing protects.                             *)
(***************************************************************************)
EXTENDS Naturals

CONSTANTS
  Handlers,        \* goroutines that may handle commands (a bound on how many at once)
  Versions,        \* firmware versions a command may name
  FactoryVersion,  \* the initial value of currentVersion
  IsAGV            \* whether the robot runs on a battery

ASSUME RobotAssumption ==
  /\ FactoryVersion \in Versions
  /\ IsAGV \in BOOLEAN

VARIABLES
  fsm,             \* StateMachine.Current
  status,          \* the global status, sent in every heartbeat
  currentVersion,  \* the version the robot runs
  activity,        \* configuredActivity, "idle" or not
  charged,         \* whether currentBattery is at least 50
  pc,              \* where each goroutine is
  cmd,             \* the command each goroutine handles
  report           \* the last progress or error message each goroutine published

shared == <<activity, charged>>
vars == <<fsm, status, currentVersion, activity, charged, pc, cmd, report>>

-----------------------------------------------------------------------------
(* The state machine.                                                      *)

UpdateStates == {"downloading", "verifying", "installing", "rebooting"}
States == UpdateStates \union {"idle", "online", "rolling_back", "error"}

(* The map transitions of state_machine.go.                                *)
transitions ==
  [idle         |-> [boot_ok |-> "online", cmd_update |-> "downloading"],
   downloading  |-> [download_ok |-> "verifying", download_fail |-> "error",
                     verify_fail |-> "error"],
   verifying    |-> [verify_ok |-> "installing", verify_fail |-> "error"],
   installing   |-> [install_ok |-> "rebooting", install_fail |-> "error"],
   rebooting    |-> [reboot_ok |-> "online"],
   online       |-> [cmd_rollback |-> "rolling_back", cmd_update |-> "downloading"],
   rolling_back |-> [rollback_done |-> "online", install_fail |-> "error"],
   error        |-> [cmd_rollback |-> "rolling_back", cmd_update |-> "downloading",
                     reset |-> "online"]]

Allowed(event) == event \in DOMAIN transitions[fsm]

(* Trigger: an event the current state does not allow returns an error and *)
(* leaves the state alone; the callers differ in what they do with it.     *)
Trigger(event) ==
  fsm' = IF Allowed(event) THEN transitions[fsm][event] ELSE fsm

-----------------------------------------------------------------------------
(* Commands, program counters and reports.                                 *)

(* compatible: hw_model of the command is empty, "all" or the robot's own. *)
(* genuine: the checksum matches, and the signature is present and valid   *)
(* for it under the robot's public key.                                    *)
UpdateCommands ==
  [action : {"update"}, version : Versions, compatible : BOOLEAN, genuine : BOOLEAN]
RollbackCommands == [action : {"rollback"}, version : Versions]
NoCommand == [action |-> "none"]

UpdateStages == {"interlock", "downloading", "verifying", "installing", "rebooting"}
Ending == {"finishing", "failing", "resetting", "faulted"}
Reverting == {"rb_trigger", "rb_sleep", "rb_finish"}
PCs == {"idle", "accept", "revert"} \union UpdateStages \union Ending \union Reverting

(* The state the machine is in while a goroutine is at an update stage.    *)
StageState(stage) == IF stage = "interlock" THEN "downloading" ELSE stage

NoReport == [state |-> "none", progress |-> 0]
ReportStates ==
  {"none", "downloading", "verified", "installing", "rolling_back", "success", "error"}
Reports == [state : ReportStates, progress : {0, 20, 25, 50, 75, 90, 100}]

Goto(h, l) == pc' = [pc EXCEPT ![h] = l]
Publish(h, s, p) == report' = [report EXCEPT ![h] = [state |-> s, progress |-> p]]
PublishError(h) == Publish(h, "error", 0)

-----------------------------------------------------------------------------
(* The process starts, boots the machine (before any command can arrive),  *)
(* and loses everything when it stops: none of the globals is persisted.   *)

Init ==
  /\ fsm = "idle"
  /\ status = "online"
  /\ currentVersion = FactoryVersion
  /\ activity = "idle" /\ charged \in BOOLEAN
  /\ pc = [h \in Handlers |-> "idle"]
  /\ cmd = [h \in Handlers |-> NoCommand]
  /\ report = [h \in Handlers |-> NoReport]

Boot ==
  /\ fsm = "idle"
  /\ Trigger("boot_ok")
  /\ UNCHANGED <<status, currentVersion, shared, pc, cmd, report>>

(* The process stops (signal, power loss) and is started again.            *)
Crash ==
  /\ fsm # "idle"
  /\ fsm' = "idle" /\ status' = "online" /\ currentVersion' = FactoryVersion
  /\ activity' = "idle" /\ charged' \in BOOLEAN
  /\ pc' = [h \in Handlers |-> "idle"]
  /\ cmd' = [h \in Handlers |-> NoCommand]
  /\ report' = [h \in Handlers |-> NoReport]

(* messagePubHandler: a command is given to a new goroutine.               *)
Receive(h, c) ==
  /\ fsm # "idle" /\ pc[h] = "idle"
  /\ Goto(h, IF c.action = "update" THEN "accept" ELSE "revert")
  /\ cmd' = [cmd EXCEPT ![h] = c]
  /\ report' = [report EXCEPT ![h] = NoReport]
  /\ UNCHANGED <<fsm, status, currentVersion, shared>>

(* messagePubHandler: a telemetry simulation command, run in the callback. *)
Simulate ==
  /\ fsm # "idle"
  /\ activity' \in {"idle", "busy"}
  /\ charged' \in BOOLEAN
  /\ UNCHANGED <<fsm, status, currentVersion, pc, cmd, report>>

(* The heartbeat loop of an AGV charges the battery up or drains it by one *)
(* percent; crossing 50 is all that matters to handleUpdate.               *)
Heartbeat ==
  /\ fsm # "idle" /\ IsAGV
  /\ charged' = ~charged
  /\ UNCHANGED <<fsm, status, currentVersion, activity, pc, cmd, report>>

-----------------------------------------------------------------------------
(* handleUpdate, one action per Trigger or exit.                           *)

(* Mutant of AcceptUpdate: the error of Trigger is ignored, as             *)
(* handleRollback ignores it.                                              *)
AcceptRegardless(h) ==
  /\ pc[h] = "accept"
  /\ Trigger("cmd_update")
  /\ Goto(h, "interlock")
  /\ UNCHANGED <<status, currentVersion, shared, cmd, report>>

AcceptUpdate(h) ==
  /\ pc[h] = "accept" /\ Allowed("cmd_update")
  /\ Trigger("cmd_update")
  /\ Goto(h, "interlock")
  /\ UNCHANGED <<status, currentVersion, shared, cmd, report>>

(* The machine rejects the command: an error is reported and nothing done. *)
RejectUpdate(h) ==
  /\ pc[h] = "accept" /\ ~Allowed("cmd_update")
  /\ PublishError(h)
  /\ Goto(h, "idle")
  /\ cmd' = [cmd EXCEPT ![h] = NoCommand]
  /\ UNCHANGED <<fsm, status, currentVersion, shared>>

(* The robot is idle, charged and of the commanded hardware model.         *)
Interlocks(h) ==
  /\ activity = "idle"
  /\ IsAGV => charged
  /\ cmd[h].compatible

(* Reports the failure and sleeps 200 ms before the reset.                 *)
Fail(h, event) ==
  /\ Trigger(event)
  /\ PublishError(h)
  /\ Goto(h, "failing")
  /\ UNCHANGED <<status, currentVersion, shared, cmd>>

(* A robot without a public key finds no command genuine, and fails it     *)
(* here already.                                                           *)
InterlockFails(h) ==
  /\ pc[h] = "interlock" /\ (~Interlocks(h) \/ ~cmd[h].genuine)
  /\ Fail(h, "verify_fail")

InterlockPasses(h) ==
  /\ pc[h] = "interlock" /\ Interlocks(h)
  /\ status' = "updating"
  /\ Publish(h, "downloading", 0)
  /\ Goto(h, "downloading")
  /\ UNCHANGED <<fsm, currentVersion, shared, cmd>>

(* No connection, a status other than 200, or a body that breaks off.      *)
DownloadFails(h) == pc[h] = "downloading" /\ Fail(h, "download_fail")

DownloadOK(h) ==
  /\ pc[h] = "downloading"
  /\ Trigger("download_ok")
  /\ Goto(h, "verifying")
  /\ UNCHANGED <<status, currentVersion, shared, cmd, report>>

VerifyFails(h) == pc[h] = "verifying" /\ ~cmd[h].genuine /\ Fail(h, "verify_fail")

(* Mutant of VerifyOK: the outcome of the signature check is logged but    *)
(* not acted upon.                                                         *)
VerifyAnything(h) ==
  /\ pc[h] = "verifying"
  /\ Trigger("verify_ok")
  /\ Publish(h, "verified", 20)
  /\ Goto(h, "installing")
  /\ UNCHANGED <<status, currentVersion, shared, cmd>>

VerifyOK(h) ==
  /\ pc[h] = "verifying" /\ cmd[h].genuine
  /\ Trigger("verify_ok")
  /\ Publish(h, "verified", 20)
  /\ Goto(h, "installing")
  /\ UNCHANGED <<status, currentVersion, shared, cmd>>

(* One second of installation: 25, 50, 75 and, past the fault check, 90.   *)
Install(h) ==
  /\ pc[h] = "installing" /\ report[h].progress < 90
  /\ Publish(h, "installing", CASE report[h].progress = 20 -> 25
                                [] report[h].progress = 25 -> 50
                                [] report[h].progress = 50 -> 75
                                [] OTHER -> 90)
  /\ UNCHANGED <<fsm, status, currentVersion, shared, pc, cmd>>

(* The flashing fault: unlike the failures above there is no reset, and    *)
(* the robot keeps showing the status "error".                             *)
FlashFault(h) ==
  /\ pc[h] = "installing" /\ report[h].progress = 75
  /\ Trigger("install_fail")
  /\ PublishError(h)
  /\ Goto(h, "faulted")
  /\ UNCHANGED <<status, currentVersion, shared, cmd>>

ShowFault(h) ==
  /\ pc[h] = "faulted"
  /\ status' = "error"
  /\ Goto(h, "idle")
  /\ cmd' = [cmd EXCEPT ![h] = NoCommand]
  /\ UNCHANGED <<fsm, currentVersion, shared, report>>

InstallOK(h) ==
  /\ pc[h] = "installing" /\ report[h].progress = 90
  /\ Trigger("install_ok")
  /\ Goto(h, "rebooting")
  /\ UNCHANGED <<status, currentVersion, shared, cmd, report>>

RebootOK(h) ==
  /\ pc[h] = "rebooting"
  /\ Trigger("reboot_ok")
  /\ Goto(h, "finishing")
  /\ UNCHANGED <<status, currentVersion, shared, cmd, report>>

(* The last lines of handleUpdate and of handleRollback are the same.      *)
Finish(h) ==
  /\ currentVersion' = cmd[h].version
  /\ status' = "online"
  /\ Publish(h, "success", 100)
  /\ Goto(h, "idle")
  /\ cmd' = [cmd EXCEPT ![h] = NoCommand]
  /\ UNCHANGED <<fsm, shared>>

FinishUpdate(h) == pc[h] = "finishing" /\ Finish(h)

(* After the 200 ms: the reset event, whatever the machine is doing now.   *)
Reset(h) ==
  /\ pc[h] = "failing"
  /\ Trigger("reset")
  /\ Goto(h, "resetting")
  /\ UNCHANGED <<status, currentVersion, shared, cmd, report>>

(* Mutant of ShowOnline: the failure path returns without restoring the    *)
(* status.                                                                 *)
ForgetStatus(h) ==
  /\ pc[h] = "resetting"
  /\ Goto(h, "idle")
  /\ cmd' = [cmd EXCEPT ![h] = NoCommand]
  /\ UNCHANGED <<fsm, status, currentVersion, shared, report>>

ShowOnline(h) ==
  /\ pc[h] = "resetting"
  /\ status' = "online"
  /\ Goto(h, "idle")
  /\ cmd' = [cmd EXCEPT ![h] = NoCommand]
  /\ UNCHANGED <<fsm, currentVersion, shared, report>>

-----------------------------------------------------------------------------
(* handleRollback: both Triggers only log their error.                     *)

StartRollback(h) ==
  /\ pc[h] = "revert"
  /\ status' = "updating"
  /\ Goto(h, "rb_trigger")
  /\ UNCHANGED <<fsm, currentVersion, shared, cmd, report>>

TriggerRollback(h) ==
  /\ pc[h] = "rb_trigger"
  /\ Trigger("cmd_rollback")
  /\ Publish(h, "rolling_back", 50)
  /\ Goto(h, "rb_sleep")
  /\ UNCHANGED <<status, currentVersion, shared, cmd>>

(* Mutant of RollbackDone: the completion event is forgotten.              *)
RollbackNeverDone(h) ==
  /\ pc[h] = "rb_sleep"
  /\ Goto(h, "rb_finish")
  /\ UNCHANGED <<fsm, status, currentVersion, shared, cmd, report>>

RollbackDone(h) ==
  /\ pc[h] = "rb_sleep"
  /\ Trigger("rollback_done")
  /\ Goto(h, "rb_finish")
  /\ UNCHANGED <<status, currentVersion, shared, cmd, report>>

FinishRollback(h) == pc[h] = "rb_finish" /\ Finish(h)

-----------------------------------------------------------------------------
UpdateStep(h) ==
  \/ AcceptUpdate(h) \/ RejectUpdate(h)
  \/ InterlockFails(h) \/ InterlockPasses(h)
  \/ VerifyFails(h) \/ VerifyOK(h)
  \/ Install(h) \/ FlashFault(h) \/ ShowFault(h) \/ InstallOK(h) \/ RebootOK(h)
  \/ FinishUpdate(h) \/ Reset(h) \/ ShowOnline(h)

Download(h) == DownloadFails(h) \/ DownloadOK(h)

RollbackStep(h) ==
  StartRollback(h) \/ TriggerRollback(h) \/ RollbackDone(h) \/ FinishRollback(h)

Next ==
  \/ Boot \/ Crash \/ Simulate \/ Heartbeat
  \/ \E h \in Handlers :
       \/ \E c \in UpdateCommands \union RollbackCommands : Receive(h, c)
       \/ UpdateStep(h) \/ Download(h) \/ RollbackStep(h)

Spec == Init /\ [][Next]_vars

(* Goroutines are scheduled and sleeps end.  That a download ends is an    *)
(* assumption about the network: http.Get has no timeout (main.go:349).    *)
DownloadsEnd == \A h \in Handlers : WF_vars(Download(h))
Fairness ==
  /\ WF_vars(Boot)
  /\ \A h \in Handlers : WF_vars(UpdateStep(h)) /\ WF_vars(RollbackStep(h))

FairSpec == Spec /\ Fairness /\ DownloadsEnd

-----------------------------------------------------------------------------
TypeOK ==
  /\ fsm \in States
  /\ status \in {"online", "updating", "error"}
  /\ currentVersion \in Versions
  /\ activity \in {"idle", "busy"}
  /\ charged \in BOOLEAN
  /\ pc \in [Handlers -> PCs]
  /\ cmd \in [Handlers -> UpdateCommands \union RollbackCommands \union {NoCommand}]
  /\ report \in [Handlers -> Reports]

(* One update at a time, without a lock around handleUpdate: however many  *)
(* commands, rollbacks and late resets overlap, the machine is in an       *)
(* update state exactly when one goroutine is at the matching stage.  The  *)
(* "FSM ... error" log lines of handleUpdate (main.go:380, 421, 466, 472)  *)
(* are therefore unreachable.                                              *)
OneUpdateAtATime ==
  /\ \A h \in Handlers : pc[h] \in UpdateStages => fsm = StageState(pc[h])
  /\ \A g, h \in Handlers : pc[g] \in UpdateStages /\ pc[h] \in UpdateStages => g = h
  /\ fsm \in UpdateStates => \E h \in Handlers : pc[h] \in UpdateStages

Quiet == \A h \in Handlers : pc[h] = "idle"

(* When no goroutine is left the robot is ready for the next command: the  *)
(* machine is in a state that accepts updates, and the status is not       *)
(* "updating" (CreateDeployment targets robots with status "online" only). *)
QuietRobotIsFree ==
  Quiet => fsm \in {"idle", "online", "error"} /\ status # "updating"

(* No path, under any interleaving, installs firmware that failed its      *)
(* checksum, its signature or the hardware check of handleUpdate: the      *)
(* version changes to what a command names only past these checks, by a    *)
(* rollback, or to the factory version by a restart.                       *)
OnlyVerifiedFirmware ==
  [][currentVersion' # currentVersion =>
       \/ \E h \in Handlers :
            /\ pc[h] = "finishing" /\ currentVersion' = cmd[h].version
            /\ cmd[h].genuine /\ cmd[h].compatible
       \/ \E h \in Handlers : pc[h] = "rb_finish" /\ currentVersion' = cmd[h].version
       \/ fsm' = "idle"]_vars

(* The robot never becomes deaf: again and again it is in a state from     *)
(* which an update command is accepted, if downloads end.                  *)
KeepsAcceptingUpdates == []<>Allowed("cmd_update")

(* A rollback reverts the robot to the version it names (docs/design/      *)
(* API_AND_MQTT_SPEC.md:128): when it reports success no installation is   *)
(* under way whose end would overwrite the version just restored.          *)
RollbackSticks ==
  \A r, h \in Handlers : pc[r] = "rb_finish" => pc[h] \notin {"installing", "rebooting"}

-----------------------------------------------------------------------------
(* The agent seen as a slot: a handler is at the stage its goroutine is,   *)
(* and out of it before the machine has accepted its command, after a      *)
(* failure, and during a rollback.                                         *)

StageOf(h) ==
  IF pc[h] \in UpdateStages THEN pc[h] ELSE IF pc[h] = "finishing" THEN "done" ELSE "out"

Slot == INSTANCE UpdateSlot WITH
          stage <- [h \in Handlers |-> StageOf(h)], version <- currentVersion

(* The goroutines share a slot although no lock is held across an update:  *)
(* the agent implements UpdateSlot, whatever commands, rollbacks, late     *)
(* resets and restarts come in between.                                    *)
UpdatesTakeTurns == Slot!SlotSpec

-----------------------------------------------------------------------------
(* The inductive invariant behind the safety properties.                   *)

(* Somebody is on the way to end a rollback the machine is in.             *)
RollbackHasOwner ==
  fsm = "rolling_back" => \E h \in Handlers : pc[h] = "rb_sleep"

(* Somebody is on the way to write another status than "updating".         *)
UpdatingHasOwner ==
  status = "updating" =>
    \E h \in Handlers : pc[h] \in (UpdateStages \ {"interlock"}) \union Ending \union Reverting

(* What a goroutine has established about its command when it gets there.  *)
CommandsChecked ==
  \A h \in Handlers :
    /\ pc[h] \in {"accept"} \union UpdateStages \union Ending => cmd[h] \in UpdateCommands
    /\ pc[h] \in {"revert"} \union Reverting => cmd[h] \in RollbackCommands
    /\ pc[h] \in {"downloading", "verifying", "installing", "rebooting", "finishing"} =>
          cmd[h].compatible
    /\ pc[h] \in {"installing", "rebooting", "finishing"} => cmd[h].genuine

Inv ==
  /\ TypeOK
  /\ OneUpdateAtATime
  /\ RollbackHasOwner
  /\ UpdatingHasOwner
  /\ CommandsChecked
=============================================================================
