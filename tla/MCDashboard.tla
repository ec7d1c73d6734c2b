------------------------------ MODULE MCDashboard ------------------------------
(***************************************************************************)
(* The parts of the dashboard, side by side in one run: a behaviour is a   *)
(* behaviour of one of them ("part"), the others stand still in one of     *)
(* their initial states, which asks for nothing that fairness promises.    *)
(***************************************************************************)
EXTENDS VisibilityPolling, Toasts, DialogFocus, DeployPage, DeploymentPage, FirmwarePage,
        FleetPage

VARIABLE part

(* Two robots of different models and factories.                           *)
ModelsMade == [r1 |-> "m1", r2 |-> "m2"]
FactoriesBuilt == [r1 |-> "f1", r2 |-> "f2"]

allVars ==
  <<part, pollVars, toastVars, focusVars, deployVars, monitorVars, firmwareVars, fleetVars>>

AllInit ==
  /\ part \in {"polling", "toasts", "dialog", "launch", "monitor", "binaries", "fleet"}
  /\ PollInit /\ ToastInit /\ FocusInit
  /\ DeployInit /\ MonitorInit /\ FirmwareInit /\ FleetInit
  /\ part # "launch" => query = NoRobot
  /\ part # "fleet" => registered = [u \in Units |-> "online"]

Rest(own) ==
  /\ UNCHANGED part /\ part = own
  /\ own # "polling" => UNCHANGED pollVars
  /\ own # "toasts" => UNCHANGED toastVars
  /\ own # "dialog" => UNCHANGED focusVars
  /\ own # "launch" => UNCHANGED deployVars
  /\ own # "monitor" => UNCHANGED monitorVars
  /\ own # "binaries" => UNCHANGED firmwareVars
  /\ own # "fleet" => UNCHANGED fleetVars

AllNext ==
  \/ Rest("polling") /\ PollNext
  \/ Rest("toasts") /\ ToastNext
  \/ Rest("dialog") /\ FocusNext
  \/ Rest("launch") /\ DeployNext
  \/ Rest("monitor") /\ MonitorNext
  \/ Rest("binaries") /\ FirmwareNext
  \/ Rest("fleet") /\ FleetNext

AllSpec ==
  /\ AllInit /\ [][AllNext]_allVars
  /\ PollFairness /\ DeployFairness /\ MonitorFairness
  /\ FirmwareFairness /\ FleetFairness

(* Each part is typed, and what a part records fits together.              *)
WidgetsTyped ==
  /\ PollTypeOK /\ ToastTypeOK /\ FocusTypeOK
  /\ DeployTypeOK /\ MonitorTypeOK
  /\ FirmwareTypeOK /\ FleetTypeOK

(* What a page shows catches up: the monitor with the end of its           *)
(* deployment, the fleet page with the registry, whatever order answers    *)
(* arrive in and after a request that fails.  (That a hidden tab polls     *)
(* again once it is shown is KeepsPolling.)                                *)
ScreensCatchUp == ShowsFinalState /\ ShowsFleet

(* No page stays busy: whatever request was started on it, its buttons     *)
(* come back, also when the request or the reload after it fails.          *)
NoPageStaysBusy ==
  /\ LaunchSettles /\ RollbackSettles
  /\ OperationsSettle /\ ButtonsComeBack
=============================================================================
