----------------------------- MODULE MCComponents -----------------------------
(***************************************************************************)
(* The components behind the API that share no state, side by side in one  *)
(* run: a behaviour is a behaviour of one of them ("part"), the others     *)
(* stand still in one of their initial states, which asks for nothing that *)
(* fairness promises.  The walk over the fleet sizes of MCCanaryPhases and *)
(* the robot agent with two goroutines are two of the parts.  Two          *)
(* components are cut into parts of their own, each with what it varies:   *)
(*   tab       three requests of one tab; successors of tokens get lost    *)
(*   tabs      two tabs, of which the first makes two requests             *)
(*   reports   two deployments to a robot that stays up                    *)
(*   restarts  two deployments to a robot that restarts, without failures  *)
(*   removals  one deployment, with restarts, failures and deletions       *)
(***************************************************************************)
EXTENDS MCCanaryPhases, RobotAgent, FirmwareRelease, Session, DeviceRegistry

VARIABLE part

(* The requests of the first tab may find the access token expired at      *)
(* once; the second tab only asks who is logged in.                        *)
CallsMade == {<<1, 1>>, <<1, 2>>, <<1, 3>>, <<2, 1>>}

Sessions == {"tab", "tabs"}
Registries == {"reports", "restarts", "removals"}

(* Two requests for the same version and file, one for the same version in *)
(* another file.                                                           *)
VersionsAsked == [r \in Releases |-> "1.1"]
KeysWritten == [r1 |-> "a", r2 |-> "a", r3 |-> "b"]

allVars == <<part, n, vars, sessVars, relVars, regVars>>

(* What Boot makes of an initial state of the agent.                       *)
BootedRobot ==
  /\ fsm = "online" /\ status = "online" /\ currentVersion = FactoryVersion
  /\ activity = "idle" /\ charged = TRUE
  /\ pc = [h \in Handlers |-> "idle"]
  /\ cmd = [h \in Handlers |-> NoCommand]
  /\ report = [h \in Handlers |-> NoReport]

AllInit ==
  /\ part \in {"phases", "agent", "releases"} \union Sessions \union Registries
  /\ FleetInit /\ SessInit /\ RelInit /\ RegInit
  /\ IF part = "agent" THEN Init ELSE BootedRobot
  /\ part \notin Sessions => access = {1}

Rest(own) ==
  /\ UNCHANGED part /\ part = own
  /\ own # "phases" => UNCHANGED n
  /\ own # "agent" => UNCHANGED vars
  /\ own \notin Sessions => UNCHANGED sessVars
  /\ own # "releases" => UNCHANGED relVars
  /\ own \notin Registries => UNCHANGED regVars

AllNext ==
  \/ Rest("phases") /\ Enlarge
  \/ Rest("agent") /\ Next
  \/ Rest("tab") /\ SessNext /\ ~tab'[2].open
  \/ Rest("tabs") /\ SessNext /\ call'[<<1, 3>>].at = "idle" /\ lost' = 0
  \/ Rest("releases") /\ RelNext
  \/ Rest("reports") /\ RegNext /\ deletes' = 0 /\ (robot.up => robot'.up)
  \/ Rest("restarts") /\ RegNext /\ deletes' = 0 /\ device'.present
     /\ \A d \in Deployments : dep'[d].row # "failed"
  \/ Rest("removals") /\ RegNext /\ dep'[2].status = "none"

AllSpec ==
  /\ AllInit /\ [][AllNext]_allVars
  /\ Fairness /\ DownloadsEnd /\ SessFairness /\ RegFairness

(* Each part is typed.                                                     *)
PartsTyped == SessTypeOK /\ RelTypeOK /\ RegTypeOK

=============================================================================
