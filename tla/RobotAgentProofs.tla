-------------------------- MODULE RobotAgentProofs --------------------------
(***************************************************************************)
(* Safety of the robot agent for any number of goroutines and versions.    *)
(***************************************************************************)
EXTENDS RobotAgent, TLAPS

(* What each row of the transition table allows (state_machine.go:72-106). *)
LEMMA Rows ==
  /\ DOMAIN transitions = States
  /\ DOMAIN transitions["idle"] = {"boot_ok", "cmd_update"}
  /\ DOMAIN transitions["downloading"] = {"download_ok", "download_fail", "verify_fail"}
  /\ DOMAIN transitions["verifying"] = {"verify_ok", "verify_fail"}
  /\ DOMAIN transitions["installing"] = {"install_ok", "install_fail"}
  /\ DOMAIN transitions["rebooting"] = {"reboot_ok"}
  /\ DOMAIN transitions["online"] = {"cmd_rollback", "cmd_update"}
  /\ DOMAIN transitions["rolling_back"] = {"rollback_done", "install_fail"}
  /\ DOMAIN transitions["error"] = {"cmd_rollback", "cmd_update", "reset"}
BY DEF transitions, States, UpdateStates

(* Where each event leads from the states that allow it.                   *)
LEMMA Targets ==
  /\ transitions["idle"]["boot_ok"] = "online"
  /\ \A s \in {"idle", "online", "error"} : transitions[s]["cmd_update"] = "downloading"
  /\ transitions["downloading"]["download_ok"] = "verifying"
  /\ transitions["downloading"]["download_fail"] = "error"
  /\ transitions["downloading"]["verify_fail"] = "error"
  /\ transitions["verifying"]["verify_ok"] = "installing"
  /\ transitions["verifying"]["verify_fail"] = "error"
  /\ transitions["installing"]["install_ok"] = "rebooting"
  /\ transitions["installing"]["install_fail"] = "error"
  /\ transitions["rebooting"]["reboot_ok"] = "online"
  /\ \A s \in {"online", "error"} : transitions[s]["cmd_rollback"] = "rolling_back"
  /\ transitions["rolling_back"]["rollback_done"] = "online"
  /\ transitions["error"]["reset"] = "online"
BY DEF transitions

(* What each Trigger does: where the event is allowed the machine moves as *)
(* the table says, elsewhere it stays.                                     *)
LEMMA Moves ==
  ASSUME fsm \in States
  PROVE  /\ Trigger("boot_ok") /\ fsm = "idle" => fsm' = "online"
         /\ Trigger("cmd_update") /\ Allowed("cmd_update") =>
              fsm \in {"idle", "online", "error"} /\ fsm' = "downloading"
         /\ Trigger("download_ok") /\ fsm = "downloading" => fsm' = "verifying"
         /\ Trigger("download_fail") /\ fsm = "downloading" => fsm' = "error"
         /\ Trigger("verify_fail") /\ fsm \in {"downloading", "verifying"} => fsm' = "error"
         /\ Trigger("verify_ok") /\ fsm = "verifying" => fsm' = "installing"
         /\ Trigger("install_ok") /\ fsm = "installing" => fsm' = "rebooting"
         /\ Trigger("install_fail") /\ fsm = "installing" => fsm' = "error"
         /\ Trigger("reboot_ok") /\ fsm = "rebooting" => fsm' = "online"
         /\ Trigger("reset") => fsm' = IF fsm = "error" THEN "online" ELSE fsm
         /\ Trigger("cmd_rollback") =>
              fsm' = IF fsm \in {"online", "error"} THEN "rolling_back" ELSE fsm
         /\ Trigger("rollback_done") =>
              fsm' = IF fsm = "rolling_back" THEN "online" ELSE fsm
<1> USE DEF Trigger, Allowed
<1>2. /\ Trigger("boot_ok") /\ fsm = "idle" => fsm' = "online"
      /\ Trigger("download_ok") /\ fsm = "downloading" => fsm' = "verifying"
      /\ Trigger("download_fail") /\ fsm = "downloading" => fsm' = "error"
      /\ Trigger("verify_fail") /\ fsm \in {"downloading", "verifying"} => fsm' = "error"
      /\ Trigger("verify_ok") /\ fsm = "verifying" => fsm' = "installing"
      /\ Trigger("install_ok") /\ fsm = "installing" => fsm' = "rebooting"
      /\ Trigger("install_fail") /\ fsm = "installing" => fsm' = "error"
      /\ Trigger("reboot_ok") /\ fsm = "rebooting" => fsm' = "online"
  BY Rows, Targets
<1>3. Trigger("cmd_update") /\ Allowed("cmd_update") =>
        fsm \in {"idle", "online", "error"} /\ fsm' = "downloading"
  BY Rows, Targets DEF States, UpdateStates
<1>4. Trigger("reset") => fsm' = IF fsm = "error" THEN "online" ELSE fsm
  BY Rows, Targets DEF States, UpdateStates
<1>5. Trigger("cmd_rollback") =>
        fsm' = IF fsm \in {"online", "error"} THEN "rolling_back" ELSE fsm
  BY Rows, Targets DEF States, UpdateStates
<1>6. Trigger("rollback_done") =>
        fsm' = IF fsm = "rolling_back" THEN "online" ELSE fsm
  BY Rows, Targets DEF States, UpdateStates
<1>7. QED
  BY <1>2, <1>3, <1>4, <1>5, <1>6

-----------------------------------------------------------------------------
(* The inductive invariant holds initially and is preserved by every step. *)

LEMMA Initial == Init => Inv
BY RobotAssumption DEF Init, Inv, TypeOK, OneUpdateAtATime, RollbackHasOwner, UpdatingHasOwner,
   CommandsChecked, States, UpdateStates, UpdateStages, Ending, Reverting, PCs, Reports,
   ReportStates, NoReport

(* An accepted command takes the machine from a state no goroutine owns.   *)
LEMMA AcceptUpdateKeeps ==
  ASSUME Inv, NEW h \in Handlers, AcceptUpdate(h)
  PROVE  Inv'
<1> USE DEF Inv, AcceptUpdate, Goto, shared
<1>1. TypeOK'
  BY Moves DEF TypeOK, PCs, UpdateStages, States, UpdateStates
<1>2. OneUpdateAtATime'
  BY Moves DEF TypeOK, OneUpdateAtATime, StageState, UpdateStages
<1>3. RollbackHasOwner'
  BY Moves DEF TypeOK, RollbackHasOwner
<1>4. UpdatingHasOwner'
  BY DEF UpdatingHasOwner, UpdateStages, Ending, Reverting
<1>5. CommandsChecked'
  BY DEF CommandsChecked, Reverting
<1>6. QED
  BY <1>1, <1>2, <1>3, <1>4, <1>5

(* A rejected command touches neither the machine nor the status.          *)
LEMMA RejectUpdateKeeps ==
  ASSUME Inv, NEW h \in Handlers, RejectUpdate(h)
  PROVE  Inv'
<1> USE DEF Inv, RejectUpdate, PublishError, Publish, Goto, shared
<1>1. TypeOK'
  BY DEF TypeOK, PCs, Reports, ReportStates
<1>2. OneUpdateAtATime'
  BY DEF OneUpdateAtATime, UpdateStages
<1>3. RollbackHasOwner'
  BY DEF RollbackHasOwner
<1>4. UpdatingHasOwner'
  BY DEF UpdatingHasOwner, UpdateStages, Ending, Reverting
<1>5. CommandsChecked'
  BY DEF TypeOK, CommandsChecked, UpdateStages, Ending, Reverting
<1>6. QED
  BY <1>1, <1>2, <1>3, <1>4, <1>5

(* A failed interlock leaves the update stages with the machine in error.  *)
LEMMA InterlockFailsKeeps ==
  ASSUME Inv, NEW h \in Handlers, InterlockFails(h)
  PROVE  Inv'
<1> USE DEF Inv, InterlockFails, Fail, PublishError, Publish, Goto, shared
<1>1. TypeOK'
  BY Moves DEF TypeOK, OneUpdateAtATime, StageState, PCs, Ending, Reverting, States,
     Reports, ReportStates
<1>2. OneUpdateAtATime'
  BY Moves DEF TypeOK, OneUpdateAtATime, StageState, UpdateStages, UpdateStates
<1>3. RollbackHasOwner'
  BY Moves DEF RollbackHasOwner, OneUpdateAtATime, StageState, UpdateStages,
     UpdateStates, States
<1>4. UpdatingHasOwner'
  BY DEF UpdatingHasOwner, Ending
<1>5. CommandsChecked'
  BY DEF CommandsChecked, UpdateStages, Reverting
<1>6. QED
  BY <1>1, <1>2, <1>3, <1>4, <1>5

(* Past the interlocks the command is known to be compatible.              *)
LEMMA InterlockPassesKeeps ==
  ASSUME Inv, NEW h \in Handlers, InterlockPasses(h)
  PROVE  Inv'
<1> USE DEF Inv, InterlockPasses, Interlocks, Publish, Goto, shared
<1>1. TypeOK'
  BY DEF TypeOK, PCs, UpdateStages, Reports, ReportStates
<1>2. OneUpdateAtATime'
  BY DEF OneUpdateAtATime, StageState, UpdateStages
<1>3. RollbackHasOwner'
  BY DEF RollbackHasOwner
<1>4. UpdatingHasOwner'
  BY DEF TypeOK, UpdatingHasOwner, UpdateStages
<1>5. CommandsChecked'
  BY DEF CommandsChecked, UpdateStages, Reverting
<1>6. QED
  BY <1>1, <1>2, <1>3, <1>4, <1>5

(* A failed download leaves the update stages.                             *)
LEMMA DownloadFailsKeeps ==
  ASSUME Inv, NEW h \in Handlers, DownloadFails(h)
  PROVE  Inv'
<1> USE DEF Inv, DownloadFails, Fail, PublishError, Publish, Goto, shared
<1>1. TypeOK'
  BY Moves DEF TypeOK, OneUpdateAtATime, StageState, PCs, Ending, Reverting, States,
     Reports, ReportStates
<1>2. OneUpdateAtATime'
  BY Moves DEF TypeOK, OneUpdateAtATime, StageState, UpdateStages, UpdateStates
<1>3. RollbackHasOwner'
  BY Moves DEF RollbackHasOwner, OneUpdateAtATime, StageState, UpdateStages,
     UpdateStates, States
<1>4. UpdatingHasOwner'
  BY DEF UpdatingHasOwner, Ending
<1>5. CommandsChecked'
  BY DEF CommandsChecked, UpdateStages, Reverting
<1>6. QED
  BY <1>1, <1>2, <1>3, <1>4, <1>5

(* The machine goes on to verifying with its goroutine.                    *)
LEMMA DownloadOKKeeps ==
  ASSUME Inv, NEW h \in Handlers, DownloadOK(h)
  PROVE  Inv'
<1> USE DEF Inv, DownloadOK, Goto, shared
<1>1. TypeOK'
  BY Moves DEF TypeOK, OneUpdateAtATime, StageState, PCs, UpdateStages, States, UpdateStates
<1>2. OneUpdateAtATime'
  BY Moves DEF TypeOK, OneUpdateAtATime, StageState, UpdateStages
<1>3. RollbackHasOwner'
  BY Moves DEF RollbackHasOwner, OneUpdateAtATime, StageState, UpdateStages,
     UpdateStates, States
<1>4. UpdatingHasOwner'
  BY DEF UpdatingHasOwner, UpdateStages
<1>5. CommandsChecked'
  BY DEF CommandsChecked, UpdateStages, Reverting
<1>6. QED
  BY <1>1, <1>2, <1>3, <1>4, <1>5

(* A failed verification leaves the update stages.                         *)
LEMMA VerifyFailsKeeps ==
  ASSUME Inv, NEW h \in Handlers, VerifyFails(h)
  PROVE  Inv'
<1> USE DEF Inv, VerifyFails, Fail, PublishError, Publish, Goto, shared
<1>1. TypeOK'
  BY Moves DEF TypeOK, OneUpdateAtATime, StageState, PCs, Ending, Reverting, States,
     Reports, ReportStates
<1>2. OneUpdateAtATime'
  BY Moves DEF TypeOK, OneUpdateAtATime, StageState, UpdateStages, UpdateStates
<1>3. RollbackHasOwner'
  BY Moves DEF RollbackHasOwner, OneUpdateAtATime, StageState, UpdateStages,
     UpdateStates, States
<1>4. UpdatingHasOwner'
  BY DEF UpdatingHasOwner, Ending
<1>5. CommandsChecked'
  BY DEF CommandsChecked, UpdateStages, Reverting
<1>6. QED
  BY <1>1, <1>2, <1>3, <1>4, <1>5

(* Past the verification the command is known to be genuine.               *)
LEMMA VerifyOKKeeps ==
  ASSUME Inv, NEW h \in Handlers, VerifyOK(h)
  PROVE  Inv'
<1> USE DEF Inv, VerifyOK, Publish, Goto, shared
<1>1. TypeOK'
  BY Moves DEF TypeOK, OneUpdateAtATime, StageState, PCs, UpdateStages, States,
     UpdateStates, Reports, ReportStates
<1>2. OneUpdateAtATime'
  BY Moves DEF TypeOK, OneUpdateAtATime, StageState, UpdateStages
<1>3. RollbackHasOwner'
  BY Moves DEF RollbackHasOwner, OneUpdateAtATime, StageState, UpdateStages,
     UpdateStates, States
<1>4. UpdatingHasOwner'
  BY DEF UpdatingHasOwner, UpdateStages
<1>5. CommandsChecked'
  BY DEF CommandsChecked, UpdateStages, Reverting
<1>6. QED
  BY <1>1, <1>2, <1>3, <1>4, <1>5

(* A step of the installation only reports.                                *)
LEMMA InstallKeeps ==
  ASSUME Inv, NEW h \in Handlers, Install(h)
  PROVE  Inv'
<1> USE DEF Inv, Install, Publish, Goto, shared
<1>1. TypeOK'
  BY DEF TypeOK, Reports, ReportStates
<1>2. OneUpdateAtATime'
  BY DEF OneUpdateAtATime
<1>3. RollbackHasOwner'
  BY DEF RollbackHasOwner
<1>4. UpdatingHasOwner'
  BY DEF UpdatingHasOwner
<1>5. CommandsChecked'
  BY DEF CommandsChecked
<1>6. QED
  BY <1>1, <1>2, <1>3, <1>4, <1>5

(* A flashing fault leaves the update stages.                              *)
LEMMA FlashFaultKeeps ==
  ASSUME Inv, NEW h \in Handlers, FlashFault(h)
  PROVE  Inv'
<1> USE DEF Inv, FlashFault, PublishError, Publish, Goto, shared
<1>1. TypeOK'
  BY Moves DEF TypeOK, OneUpdateAtATime, StageState, PCs, Ending, Reverting, States,
     Reports, ReportStates
<1>2. OneUpdateAtATime'
  BY Moves DEF TypeOK, OneUpdateAtATime, StageState, UpdateStages, UpdateStates
<1>3. RollbackHasOwner'
  BY Moves DEF RollbackHasOwner, OneUpdateAtATime, StageState, UpdateStages,
     UpdateStates, States
<1>4. UpdatingHasOwner'
  BY DEF UpdatingHasOwner, Ending
<1>5. CommandsChecked'
  BY DEF CommandsChecked, UpdateStages, Reverting
<1>6. QED
  BY <1>1, <1>2, <1>3, <1>4, <1>5

(* Writing the status error ends the goroutine.                            *)
LEMMA ShowFaultKeeps ==
  ASSUME Inv, NEW h \in Handlers, ShowFault(h)
  PROVE  Inv'
<1> USE DEF Inv, ShowFault, Goto, shared
<1>1. TypeOK'
  BY DEF TypeOK, PCs
<1>2. OneUpdateAtATime'
  BY DEF OneUpdateAtATime, UpdateStages
<1>3. RollbackHasOwner'
  BY DEF RollbackHasOwner
<1>4. UpdatingHasOwner'
  BY DEF UpdatingHasOwner
<1>5. CommandsChecked'
  BY DEF TypeOK, CommandsChecked, UpdateStages, Ending, Reverting
<1>6. QED
  BY <1>1, <1>2, <1>3, <1>4, <1>5

(* The machine reboots with its goroutine.                                 *)
LEMMA InstallOKKeeps ==
  ASSUME Inv, NEW h \in Handlers, InstallOK(h)
  PROVE  Inv'
<1> USE DEF Inv, InstallOK, Goto, shared
<1>1. TypeOK'
  BY Moves DEF TypeOK, OneUpdateAtATime, StageState, PCs, UpdateStages, States, UpdateStates
<1>2. OneUpdateAtATime'
  BY Moves DEF TypeOK, OneUpdateAtATime, StageState, UpdateStages
<1>3. RollbackHasOwner'
  BY Moves DEF RollbackHasOwner, OneUpdateAtATime, StageState, UpdateStages,
     UpdateStates, States
<1>4. UpdatingHasOwner'
  BY DEF UpdatingHasOwner, UpdateStages
<1>5. CommandsChecked'
  BY DEF CommandsChecked, UpdateStages, Reverting
<1>6. QED
  BY <1>1, <1>2, <1>3, <1>4, <1>5

(* The reboot ends the update stages.                                      *)
LEMMA RebootOKKeeps ==
  ASSUME Inv, NEW h \in Handlers, RebootOK(h)
  PROVE  Inv'
<1> USE DEF Inv, RebootOK, Goto, shared
<1>1. TypeOK'
  BY Moves DEF TypeOK, OneUpdateAtATime, StageState, PCs, Ending, Reverting, States
<1>2. OneUpdateAtATime'
  BY Moves DEF TypeOK, OneUpdateAtATime, StageState, UpdateStages, UpdateStates
<1>3. RollbackHasOwner'
  BY Moves DEF RollbackHasOwner, OneUpdateAtATime, StageState, UpdateStages,
     UpdateStates, States
<1>4. UpdatingHasOwner'
  BY DEF UpdatingHasOwner, Ending
<1>5. CommandsChecked'
  BY DEF CommandsChecked, UpdateStages, Reverting
<1>6. QED
  BY <1>1, <1>2, <1>3, <1>4, <1>5

(* The version a checked command names becomes current.                    *)
LEMMA FinishUpdateKeeps ==
  ASSUME Inv, NEW h \in Handlers, FinishUpdate(h)
  PROVE  Inv'
<1> USE DEF Inv, FinishUpdate, Finish, Publish, Goto, shared
<1>1. TypeOK'
  BY DEF TypeOK, CommandsChecked, PCs, Reports, ReportStates, UpdateCommands, RollbackCommands
<1>2. OneUpdateAtATime'
  BY DEF OneUpdateAtATime, UpdateStages
<1>3. RollbackHasOwner'
  BY DEF RollbackHasOwner
<1>4. UpdatingHasOwner'
  BY DEF UpdatingHasOwner
<1>5. CommandsChecked'
  BY DEF TypeOK, CommandsChecked, UpdateStages, Ending, Reverting
<1>6. QED
  BY <1>1, <1>2, <1>3, <1>4, <1>5

(* A late reset moves the machine out of error and nowhere else.           *)
LEMMA ResetKeeps ==
  ASSUME Inv, NEW h \in Handlers, Reset(h)
  PROVE  Inv'
<1> USE DEF Inv, Reset, Goto, shared
<1>1. TypeOK'
  BY Moves DEF TypeOK, PCs, Ending, States
<1>2. OneUpdateAtATime'
  BY Moves DEF TypeOK, OneUpdateAtATime, StageState, UpdateStages, UpdateStates
<1>3. RollbackHasOwner'
  BY Moves DEF TypeOK, RollbackHasOwner
<1>4. UpdatingHasOwner'
  BY DEF UpdatingHasOwner, Ending
<1>5. CommandsChecked'
  BY DEF CommandsChecked, Ending, Reverting
<1>6. QED
  BY <1>1, <1>2, <1>3, <1>4, <1>5

(* Writing the status online ends the goroutine.                           *)
LEMMA ShowOnlineKeeps ==
  ASSUME Inv, NEW h \in Handlers, ShowOnline(h)
  PROVE  Inv'
<1> USE DEF Inv, ShowOnline, Goto, shared
<1>1. TypeOK'
  BY DEF TypeOK, PCs
<1>2. OneUpdateAtATime'
  BY DEF OneUpdateAtATime, UpdateStages
<1>3. RollbackHasOwner'
  BY DEF RollbackHasOwner
<1>4. UpdatingHasOwner'
  BY DEF UpdatingHasOwner
<1>5. CommandsChecked'
  BY DEF TypeOK, CommandsChecked, UpdateStages, Ending, Reverting
<1>6. QED
  BY <1>1, <1>2, <1>3, <1>4, <1>5

(* A rollback writes the status updating and becomes its owner.            *)
LEMMA StartRollbackKeeps ==
  ASSUME Inv, NEW h \in Handlers, StartRollback(h)
  PROVE  Inv'
<1> USE DEF Inv, StartRollback, Goto, shared
<1>1. TypeOK'
  BY DEF TypeOK, PCs, Reverting
<1>2. OneUpdateAtATime'
  BY DEF OneUpdateAtATime, UpdateStages
<1>3. RollbackHasOwner'
  BY DEF RollbackHasOwner
<1>4. UpdatingHasOwner'
  BY DEF TypeOK, UpdatingHasOwner, Reverting
<1>5. CommandsChecked'
  BY DEF CommandsChecked, UpdateStages, Ending
<1>6. QED
  BY <1>1, <1>2, <1>3, <1>4, <1>5

(* A rejected rollback does not disturb an update.                         *)
LEMMA TriggerRollbackKeeps ==
  ASSUME Inv, NEW h \in Handlers, TriggerRollback(h)
  PROVE  Inv'
<1> USE DEF Inv, TriggerRollback, Publish, Goto, shared
<1>1. TypeOK'
  BY Moves DEF TypeOK, PCs, Reverting, States, Reports, ReportStates
<1>2. OneUpdateAtATime'
  BY Moves DEF TypeOK, OneUpdateAtATime, StageState, UpdateStages, UpdateStates
<1>3. RollbackHasOwner'
  BY Moves DEF TypeOK, RollbackHasOwner
<1>4. UpdatingHasOwner'
  BY DEF UpdatingHasOwner, Reverting
<1>5. CommandsChecked'
  BY DEF CommandsChecked, UpdateStages, Ending, Reverting
<1>6. QED
  BY <1>1, <1>2, <1>3, <1>4, <1>5

(* The end of a rollback moves only a machine that is rolling back.        *)
LEMMA RollbackDoneKeeps ==
  ASSUME Inv, NEW h \in Handlers, RollbackDone(h)
  PROVE  Inv'
<1> USE DEF Inv, RollbackDone, Goto, shared
<1>1. TypeOK'
  BY Moves DEF TypeOK, PCs, Reverting, States
<1>2. OneUpdateAtATime'
  BY Moves DEF TypeOK, OneUpdateAtATime, StageState, UpdateStages, UpdateStates
<1>3. RollbackHasOwner'
  BY Moves DEF TypeOK, RollbackHasOwner
<1>4. UpdatingHasOwner'
  BY DEF UpdatingHasOwner, Reverting
<1>5. CommandsChecked'
  BY DEF CommandsChecked, UpdateStages, Ending, Reverting
<1>6. QED
  BY <1>1, <1>2, <1>3, <1>4, <1>5

(* The version the rollback names becomes current.                         *)
LEMMA FinishRollbackKeeps ==
  ASSUME Inv, NEW h \in Handlers, FinishRollback(h)
  PROVE  Inv'
<1> USE DEF Inv, FinishRollback, Finish, Publish, Goto, shared
<1>1. TypeOK'
  BY DEF TypeOK, CommandsChecked, PCs, Reports, ReportStates, UpdateCommands, RollbackCommands
<1>2. OneUpdateAtATime'
  BY DEF OneUpdateAtATime, UpdateStages
<1>3. RollbackHasOwner'
  BY DEF RollbackHasOwner
<1>4. UpdatingHasOwner'
  BY DEF UpdatingHasOwner
<1>5. CommandsChecked'
  BY DEF TypeOK, CommandsChecked, UpdateStages, Ending, Reverting
<1>6. QED
  BY <1>1, <1>2, <1>3, <1>4, <1>5

(* Booting takes an idle machine online.                                   *)
LEMMA BootKeeps == Inv /\ Boot => Inv'
BY Moves DEF Boot, shared, Inv, TypeOK, States, UpdateStates, OneUpdateAtATime,
   RollbackHasOwner,
   UpdatingHasOwner, CommandsChecked, StageState, UpdateStages

(* A restart leaves no goroutine behind, so that the machine has no owner. *)
LEMMA CrashKeeps == Inv /\ Crash => Inv'
BY RobotAssumption DEF Crash, Inv, TypeOK, States, UpdateStates, OneUpdateAtATime,
   RollbackHasOwner, UpdatingHasOwner, CommandsChecked, UpdateStages, Ending, Reverting,
   PCs, Reports, ReportStates, NoReport

(* Telemetry and battery are read by the interlocks only.                  *)
LEMMA EnvironmentKeeps == Inv /\ (Simulate \/ Heartbeat) => Inv'
BY DEF Simulate, Heartbeat, Inv, TypeOK, OneUpdateAtATime, RollbackHasOwner,
   UpdatingHasOwner, CommandsChecked

(* A new goroutine owns nothing yet.                                       *)
LEMMA ReceiveKeeps ==
  ASSUME Inv, NEW h \in Handlers, NEW c \in UpdateCommands \union RollbackCommands, Receive(h, c)
  PROVE  Inv'
<1> USE DEF Inv, Receive, Goto, shared
<1>1. TypeOK'
  BY DEF TypeOK, PCs, Reports, ReportStates, NoReport
<1>2. OneUpdateAtATime'
  BY DEF OneUpdateAtATime, UpdateStages
<1>3. RollbackHasOwner'
  BY DEF RollbackHasOwner
<1>4. UpdatingHasOwner'
  BY DEF UpdatingHasOwner, UpdateStages, Ending, Reverting
<1>5. CommandsChecked'
  BY DEF TypeOK, CommandsChecked, UpdateStages, Ending, Reverting, UpdateCommands,
     RollbackCommands
<1>6. QED
  BY <1>1, <1>2, <1>3, <1>4, <1>5

(* Inv is inductive: each goroutine, whatever the others are doing, leaves *)
(* the machine to its owner.                                               *)
LEMMA Inductive == Inv /\ [Next]_vars => Inv'
<1> SUFFICES ASSUME Inv, [Next]_vars PROVE Inv'
  OBVIOUS
<1>1. CASE Boot
  BY <1>1, BootKeeps
<1>2. CASE Crash
  BY <1>2, CrashKeeps
<1>3. CASE Simulate \/ Heartbeat
  BY <1>3, EnvironmentKeeps
<1>4. ASSUME NEW h \in Handlers, NEW c \in UpdateCommands \union RollbackCommands, Receive(h, c)
      PROVE  Inv'
  BY <1>4, ReceiveKeeps
<1>5. ASSUME NEW h \in Handlers, UpdateStep(h)
      PROVE  Inv'
  BY <1>5, AcceptUpdateKeeps, RejectUpdateKeeps, InterlockFailsKeeps, InterlockPassesKeeps,
     VerifyFailsKeeps, VerifyOKKeeps, InstallKeeps, FlashFaultKeeps, ShowFaultKeeps,
     InstallOKKeeps, RebootOKKeeps, FinishUpdateKeeps, ResetKeeps, ShowOnlineKeeps
     DEF UpdateStep
<1>6. ASSUME NEW h \in Handlers, Download(h)
      PROVE  Inv'
  BY <1>6, DownloadFailsKeeps, DownloadOKKeeps DEF Download
<1>7. ASSUME NEW h \in Handlers, RollbackStep(h)
      PROVE  Inv'
  BY <1>7, StartRollbackKeeps, TriggerRollbackKeeps, RollbackDoneKeeps, FinishRollbackKeeps
     DEF RollbackStep
<1>8. CASE UNCHANGED vars
  BY <1>8 DEF vars, Inv, TypeOK, OneUpdateAtATime, RollbackHasOwner, UpdatingHasOwner, 
     CommandsChecked
<1>9. QED
  BY <1>1, <1>2, <1>3, <1>4, <1>5, <1>6, <1>7, <1>8 DEF Next

THEOREM InvHolds == Spec => []Inv
BY Initial, Inductive, PTL DEF Spec

-----------------------------------------------------------------------------
(* Every variable keeps its type.                                          *)
THEOREM TypeCorrect == Spec => []TypeOK
<1>1. Inv => TypeOK
  BY DEF Inv
<1>2. QED
  BY <1>1, InvHolds, PTL

(* At most one update is in progress, and the state machine always agrees  *)
(* with where it is, for any number of overlapping commands.               *)
THEOREM MutualExclusion == Spec => []OneUpdateAtATime
<1>1. Inv => OneUpdateAtATime
  BY DEF Inv
<1>2. QED
  BY <1>1, InvHolds, PTL

(* A robot on which no command is being handled accepts the next update    *)
(* and does not show "updating".                                           *)
THEOREM QuietRobot == Spec => []QuietRobotIsFree
<1>1. Inv => QuietRobotIsFree
  BY DEF Inv, TypeOK, QuietRobotIsFree, Quiet, OneUpdateAtATime, RollbackHasOwner, 
     UpdatingHasOwner, States, UpdateStates, UpdateStages, Ending, Reverting
<1>2. QED
  BY <1>1, InvHolds, PTL

(* The version a step sets, when it is not a goroutine's last line or a    *)
(* restart, is the one the robot had.                                      *)
LEMMA VersionKept ==
  ASSUME [Next]_vars, currentVersion' # currentVersion, fsm' # "idle"
  PROVE  \E h \in Handlers : FinishUpdate(h) \/ FinishRollback(h)
BY DEF Next, vars, shared, Boot, Crash, Simulate, Heartbeat, Receive, UpdateStep, Download,
   RollbackStep, AcceptUpdate, RejectUpdate, InterlockFails, InterlockPasses, Fail,
   DownloadFails, DownloadOK, VerifyFails, VerifyOK, Install, FlashFault, ShowFault, InstallOK,
   RebootOK, Reset, ShowOnline, StartRollback, TriggerRollback, RollbackDone

(* Firmware that failed a check is never installed, under any interleaving *)
(* of any number of commands.                                              *)
THEOREM VerifiedOnly == Spec => OnlyVerifiedFirmware
<1> DEFINE Sound ==
      currentVersion' # currentVersion =>
        \/ \E h \in Handlers :
             /\ pc[h] = "finishing" /\ currentVersion' = cmd[h].version
             /\ cmd[h].genuine /\ cmd[h].compatible
        \/ \E h \in Handlers : pc[h] = "rb_finish" /\ currentVersion' = cmd[h].version
        \/ fsm' = "idle"
<1>1. Inv /\ [Next]_vars => Sound
  BY VersionKept DEF Inv, CommandsChecked, FinishUpdate, FinishRollback, Finish
<1>2. QED
  BY <1>1, InvHolds, PTL DEF Spec, OnlyVerifiedFirmware

-----------------------------------------------------------------------------
(* The agent implements UpdateSlot.                                        *)

(* Where a goroutine may be, seen from the slot.                           *)
LEMMA StageRange ==
  ASSUME TypeOK, NEW h \in Handlers
  PROVE  /\ StageOf(h) \in Slot!Stages
         /\ pc[h] \in UpdateStages <=> StageOf(h) \in Slot!Holding
BY DEF TypeOK, StageOf, UpdateStages, Slot!Stages, Slot!Holding

(* A goroutine that stays outside the update stages, or at its stage, is a *)
(* stuttering step of the slot.                                            *)
LEMMA StageKept ==
  ASSUME NEW h \in Handlers, NEW l, TypeOK, Goto(h, l), UNCHANGED currentVersion,
         pc[h] \notin UpdateStages \union {"finishing"}, l \notin UpdateStages \union {"finishing"}
  PROVE  UNCHANGED Slot!slotVars
<1>1. \A g \in Handlers : StageOf(g)' = StageOf(g)
  BY DEF Goto, TypeOK, StageOf, UpdateStages
<1>2. QED
  BY <1>1 DEF Slot!slotVars

(* Only the goroutine that moves changes its place in the slot.            *)
LEMMA StageMoves ==
  ASSUME NEW h \in Handlers, NEW l, TypeOK, Goto(h, l)
  PROVE  [g \in Handlers |-> StageOf(g)]' =
           [[g \in Handlers |-> StageOf(g)] EXCEPT ![h] =
              IF l \in UpdateStages THEN l ELSE IF l = "finishing" THEN "done" ELSE "out"]
BY DEF Goto, TypeOK, StageOf

(* A command is accepted only when nobody holds the slot.                  *)
LEMMA AcceptEnters ==
  ASSUME Inv, NEW h \in Handlers, AcceptUpdate(h)
  PROVE  Slot!Enter(h)
<1> USE DEF AcceptUpdate
<1>1. [g \in Handlers |-> StageOf(g)]' =
        [[g \in Handlers |-> StageOf(g)] EXCEPT ![h] = "interlock"]
  BY StageMoves DEF Inv, UpdateStages
<1>2. \A g \in Handlers : pc[g] \notin UpdateStages
  BY Moves DEF Inv, TypeOK, OneUpdateAtATime, StageState, UpdateStages
<1>3. Slot!Free /\ StageOf(h) = "out"
  BY <1>2, StageRange DEF Inv, Slot!Free, StageOf
<1>4. QED
  BY <1>1, <1>3 DEF Slot!Enter

(* The stages follow each other as the slot says.                          *)
LEMMA PassAdvances ==
  ASSUME Inv, NEW h \in Handlers,
         \/ InterlockPasses(h) \/ DownloadOK(h) \/ VerifyOK(h) \/ InstallOK(h) \/ RebootOK(h)
  PROVE  Slot!Advance(h)
<1> DEFINE onward == IF pc[h] = "rebooting" THEN "finishing" ELSE Slot!Following[pc[h]]
<1>1. pc[h] \in UpdateStages /\ Goto(h, onward) /\ UNCHANGED currentVersion
  BY DEF InterlockPasses, DownloadOK, VerifyOK, InstallOK, RebootOK, UpdateStages,
     Slot!Following
<1>2. (IF onward \in UpdateStages THEN onward ELSE IF onward = "finishing" THEN "done" ELSE "out")
        = Slot!Following[pc[h]]
  BY <1>1 DEF UpdateStages, Slot!Following
<1>3. [g \in Handlers |-> StageOf(g)]' =
        [[g \in Handlers |-> StageOf(g)] EXCEPT ![h] = Slot!Following[pc[h]]]
  <2> HIDE DEF onward
  <2>1. QED
    BY <1>1, <1>2, StageMoves DEF Inv
<1>4. StageOf(h) = pc[h] /\ StageOf(h) \in Slot!Holding
  BY <1>1, StageRange DEF Inv, StageOf
<1>5. QED
  BY <1>1, <1>3, <1>4 DEF Slot!Advance

(* Every failure of an update gives the slot up.                           *)
LEMMA FailureGivesUp ==
  ASSUME Inv, NEW h \in Handlers,
         InterlockFails(h) \/ DownloadFails(h) \/ VerifyFails(h) \/ FlashFault(h)
  PROVE  Slot!GiveUp(h)
<1>1. pc[h] \in UpdateStages /\ UNCHANGED currentVersion
      /\ \E l \in {"failing", "faulted"} : Goto(h, l)
  BY DEF InterlockFails, DownloadFails, VerifyFails, FlashFault, Fail, UpdateStages
<1>2. [g \in Handlers |-> StageOf(g)]' = [[g \in Handlers |-> StageOf(g)] EXCEPT ![h] = "out"]
  BY <1>1, StageMoves DEF Inv, UpdateStages
<1>3. StageOf(h) \in Slot!Holding
  BY <1>1, StageRange DEF Inv
<1>4. QED
  BY <1>1, <1>2, <1>3 DEF Slot!GiveUp

(* The end of an update writes the version it brought.                     *)
LEMMA FinishCommits ==
  ASSUME Inv, NEW h \in Handlers, FinishUpdate(h)
  PROVE  Slot!Commit(h)
<1> USE DEF FinishUpdate, Finish
<1>1. [g \in Handlers |-> StageOf(g)]' = [[g \in Handlers |-> StageOf(g)] EXCEPT ![h] = "out"]
  BY StageMoves DEF Inv, UpdateStages
<1>2. StageOf(h) = "done"
  BY DEF StageOf, UpdateStages
<1>3. currentVersion' \in Versions
  BY DEF Inv, CommandsChecked, Ending, UpdateCommands
<1>4. QED
  BY <1>1, <1>2, <1>3 DEF Slot!Commit

(* The end of a rollback writes a version without touching the slot.       *)
LEMMA RollbackReverts ==
  ASSUME Inv, NEW h \in Handlers, FinishRollback(h)
  PROVE  Slot!Revert
<1> USE DEF FinishRollback, Finish
<1>1. \A g \in Handlers : StageOf(g)' = StageOf(g)
  BY DEF Goto, Inv, TypeOK, StageOf, UpdateStages
<1>2. currentVersion' \in Versions
  BY DEF Inv, CommandsChecked, Reverting, RollbackCommands
<1>3. QED
  BY <1>1, <1>2 DEF Slot!Revert

(* What the slot does not see: steps before a command is accepted, after a *)
(* failure, during a rollback, and the progress of an installation.        *)
LEMMA OtherStepsStutter ==
  ASSUME Inv, NEW h \in Handlers,
         \/ RejectUpdate(h) \/ Install(h) \/ ShowFault(h) \/ Reset(h) \/ ShowOnline(h)
         \/ StartRollback(h) \/ TriggerRollback(h) \/ RollbackDone(h)
         \/ \E c \in UpdateCommands \union RollbackCommands : Receive(h, c)
  PROVE  UNCHANGED Slot!slotVars
<1>1. CASE Install(h)
  BY <1>1 DEF Install, StageOf, Slot!slotVars
<1>2. CASE RejectUpdate(h)
  BY <1>2, StageKept DEF Inv, RejectUpdate, UpdateStages
<1>3. CASE ShowFault(h) \/ Reset(h) \/ ShowOnline(h)
  BY <1>3, StageKept DEF Inv, ShowFault, Reset, ShowOnline, UpdateStages
<1>4. CASE StartRollback(h) \/ TriggerRollback(h) \/ RollbackDone(h)
  BY <1>4, StageKept DEF Inv, StartRollback, TriggerRollback, RollbackDone, UpdateStages
<1>5. CASE \E c \in UpdateCommands \union RollbackCommands : Receive(h, c)
  BY <1>5, StageKept DEF Inv, Receive, UpdateStages
<1>6. QED
  BY <1>1, <1>2, <1>3, <1>4, <1>5

(* Every step of the agent is a step of the slot, or none.                 *)
LEMMA StepRefines == Inv /\ [Next]_vars => [Slot!SlotNext]_(Slot!slotVars)
<1> SUFFICES ASSUME Inv, [Next]_vars PROVE [Slot!SlotNext]_(Slot!slotVars)
  OBVIOUS
<1>1. CASE Boot \/ Simulate \/ Heartbeat \/ UNCHANGED vars
  BY <1>1 DEF Boot, Simulate, Heartbeat, vars, StageOf, Slot!slotVars
<1>2. CASE Crash
  <2>1. \A h \in Handlers : StageOf(h)' = "out"
    BY <1>2 DEF Crash, StageOf, UpdateStages
  <2>2. Slot!Restart
    BY <1>2, <2>1 DEF Crash, Slot!Restart
  <2>3. QED
    BY <2>2 DEF Slot!SlotNext
<1>3. ASSUME NEW h \in Handlers, UpdateStep(h) \/ Download(h)
      PROVE  [Slot!SlotNext]_(Slot!slotVars)
  BY <1>3, AcceptEnters, PassAdvances, FailureGivesUp, FinishCommits, OtherStepsStutter
     DEF UpdateStep, Download, Slot!SlotNext
<1>4. ASSUME NEW h \in Handlers, RollbackStep(h)
      PROVE  [Slot!SlotNext]_(Slot!slotVars)
  BY <1>4, RollbackReverts, OtherStepsStutter DEF RollbackStep, Slot!SlotNext
<1>5. ASSUME NEW h \in Handlers, NEW c \in UpdateCommands \union RollbackCommands, Receive(h, c)
      PROVE  [Slot!SlotNext]_(Slot!slotVars)
  BY <1>5, OtherStepsStutter
<1>6. QED
  BY <1>1, <1>2, <1>3, <1>4, <1>5 DEF Next

(* The agent implements the slot, for any number of goroutines: updates    *)
(* take turns although no lock is held from their start to their end.      *)
THEOREM Refinement == Spec => UpdatesTakeTurns
<1>1. Init => Slot!SlotInit
  BY DEF Init, Slot!SlotInit, StageOf, UpdateStages
<1>2. QED
  BY <1>1, StepRefines, InvHolds, PTL DEF Spec, UpdatesTakeTurns, Slot!SlotSpec
=============================================================================
