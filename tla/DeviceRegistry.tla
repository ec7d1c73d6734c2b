---------------------------- MODULE DeviceRegistry ----------------------------
(***************************************************************************)
(* The row of one robot in table devices: written by its heartbeats        *)
(* (mqtt/client.go handleStatus), by the reports of its deployments        *)
(* (rollout/manager.go HandleDeviceProgress and HandleDeviceError) and by  *)
(* the handlers that list, delete and prune devices (handlers/devices.go). *)
(* The robot may belong to several deployments, whose rows refer to it and *)
(* to other robots, which decide with it when a deployment ends.  The      *)
(* handlers of reports are single steps here; Rollout has their            *)
(* statements.                                                             *)
(***************************************************************************)
EXTENDS Naturals, Sequences, FiniteSets

CONSTANTS
  MaxDeployments,  \* deployments the robot takes part in; the d-th one installs version d
  MaxQueue,        \* bound on the reports under way
  MaxDeletes       \* bound on the requests to delete the robot

ASSUME RegAssumption == MaxDeployments \in Nat /\ MaxQueue \in Nat

Deployments == 1..MaxDeployments

VARIABLES
  robot,     \* is it up, the version it runs, and its global status
  commands,  \* the commands it was given, begun or not
  beat,      \* the status message it has built, until the backend takes it
  queue,     \* its reports to the backend, in the order of publication
  device,    \* the row of table devices
  dep,       \* the deployments, and the robot's row in each
  deleting,  \* a DeleteDevice that has read the row
  deletes

regVars == <<robot, commands, beat, queue, device, dep, deleting, deletes>>

NoBeat == <<>>
Status(v, s) == [kind |-> "status", version |-> v, status |-> s]
Report(kind) == [kind |-> kind]

Command(a, v) == [action |-> a, version |-> v, begun |-> FALSE]

RegInit ==
  /\ robot = [up |-> FALSE, version |-> 0, status |-> "online"]
  /\ commands = {} /\ beat = NoBeat /\ queue = <<>>
  /\ device = [present |-> TRUE, status |-> "online", version |-> 0]
  /\ dep = [d \in Deployments |-> [status |-> "none", row |-> "none", previous |-> 0]]
  /\ deleting = FALSE /\ deletes = 0

Enqueue(m) == Len(queue) < MaxQueue /\ queue' = Append(queue, m)

-----------------------------------------------------------------------------
(* The heartbeat loop reads version and status, and the message gets to    *)
(* the backend later: an update may end, and its report be taken, in       *)
(* between.                                                                *)
BuildHeartbeat ==
  /\ robot.up /\ beat = NoBeat
  /\ beat' = Status(robot.version, robot.status)
  /\ UNCHANGED <<robot, commands, queue, device, dep, deleting, deletes>>

(* An update that passed the interlocks, or a rollback, begins; every      *)
(* command has a goroutine of its own.                                     *)
BeginCommand(c) ==
  /\ robot.up /\ c \in commands /\ ~c.begun
  /\ commands' = (commands \ {c}) \union {[c EXCEPT !.begun = TRUE]}
  /\ robot' = [robot EXCEPT !.status = "updating"]
  /\ Enqueue(Report("progress"))
  /\ UNCHANGED <<beat, device, dep, deleting, deletes>>

(* It ends: both report a success.                                         *)
EndInstall(c) ==
  /\ robot.up /\ c \in commands /\ c.begun
  /\ commands' = commands \ {c}
  /\ robot' = [robot EXCEPT !.version = c.version, !.status = "online"]
  /\ Enqueue(Report("success"))
  /\ UNCHANGED <<beat, device, dep, deleting, deletes>>

(* An update fails.  One that the state machine rejects leaves the status, *)
(* a flashing fault leaves "error" for good, any other reason "online".    *)
FailUpdate(c) ==
  /\ robot.up /\ c \in commands /\ c.action = "update"
  /\ commands' = commands \ {c}
  /\ robot' \in {[robot EXCEPT !.status = s] :
                   s \in {"online", IF c.begun THEN "error" ELSE robot.status}}
  /\ Enqueue(Report("failure"))
  /\ UNCHANGED <<beat, device, dep, deleting, deletes>>

(* SIGTERM publishes an offline status; a crash publishes nothing.  What   *)
(* the heartbeat loop has built may be lost with the process.              *)
Stop ==
  /\ robot.up
  /\ robot' = [robot EXCEPT !.up = FALSE]
  /\ beat' \in {Status(robot.version, "offline"), NoBeat, beat}
  /\ commands' = {}
  /\ UNCHANGED <<queue, device, dep, deleting, deletes>>

(* The version is not persisted.                                           *)
PowerOn ==
  /\ ~robot.up
  /\ robot' = [up |-> TRUE, version |-> 0, status |-> "online"]
  /\ UNCHANGED <<commands, beat, queue, device, dep, deleting, deletes>>

-----------------------------------------------------------------------------
(* Mutant of Upsert: the conflict clause without current_version.          *)
UpsertKeepsVersion(m) ==
  [present |-> TRUE, status |-> m.status,
   version |-> IF device.present THEN device.version ELSE m.version]

(* handleStatus: the row is inserted, or all it knows is overwritten.      *)
Upsert(m) == [present |-> TRUE, status |-> m.status, version |-> m.version]

(* Status messages have a topic of their own and are taken before or after *)
(* the reports.                                                            *)
HandleStatus ==
  /\ beat # NoBeat /\ beat' = NoBeat
  /\ device' = Upsert(beat)
  /\ UNCHANGED <<robot, commands, queue, dep, deleting, deletes>>

(* GetActiveDeploymentDeviceByDevice: the newest row of the device that is *)
(* not finished or belongs to a running deployment.                        *)
Active == {d \in Deployments :
             /\ dep[d].row # "none"
             /\ dep[d].status = "running" \/ dep[d].row \notin {"success", "failed"}}
Newest == CHOOSE d \in Active : \A e \in Active : e <= d

(* UpdateDeviceVersion sets the status online as well.                     *)
UpdateVersion(v) ==
  [present |-> device.present, status |-> "online", version |-> v]

(* A progress or success report is credited to that row, and on a success  *)
(* the version of ITS deployment is written to the registry.  Whether the  *)
(* deployment is then complete depends on its other robots.                *)
HandleProgress ==
  /\ queue # <<>> /\ Head(queue).kind \in {"progress", "success"}
  /\ queue' = Tail(queue)
  /\ IF Active = {} THEN UNCHANGED <<dep, device>>
     ELSE LET d == Newest
              success == Head(queue).kind = "success"
              counted == success /\ dep[d].status # "rolled_back"
          IN  /\ \E s \in {dep[d].status, IF counted THEN "completed" ELSE dep[d].status} :
                   dep' = [dep EXCEPT ![d] = [status |-> s, previous |-> dep[d].previous,
                             row |-> IF success THEN "success" ELSE "pending"]]
              /\ device' = IF counted /\ device.present THEN UpdateVersion(d) ELSE device
  /\ UNCHANGED <<robot, commands, beat, deleting, deletes>>

-----------------------------------------------------------------------------
(* PublishCommand: a robot that is down never sees it.                     *)
Told(c) == IF robot.up THEN commands \union {c} ELSE commands

(* Mutant of Launch: the command goes out before the rows are written.     *)
LaunchAndTell(d) ==
  /\ dep[d].status = "none" /\ \A e \in Deployments : e < d => dep[e].status # "none"
  /\ device.present
  /\ dep' = [dep EXCEPT ![d] = [status |-> "starting", row |-> "none", previous |-> device.version]]
  /\ commands' = Told(Command("update", d))
  /\ UNCHANGED <<robot, beat, queue, device, deleting, deletes>>

(* CreateDeployment reads the devices and their versions.                  *)
Launch(d) ==
  /\ dep[d].status = "none" /\ \A e \in Deployments : e < d => dep[e].status # "none"
  /\ device.present
  /\ dep' = [dep EXCEPT ![d] = [status |-> "starting", row |-> "none", previous |-> device.version]]
  /\ UNCHANGED <<robot, commands, beat, queue, device, deleting, deletes>>

(* Mutant of CreateRow: the version is read again when the row is written. *)
CreateRowAnew(d) ==
  /\ dep[d].status = "starting"
  /\ dep' = [dep EXCEPT ![d] =
       [status |-> "running", row |-> IF device.present THEN "pending" ELSE "none",
        previous |-> device.version]]
  /\ commands' = Told(Command("update", d))
  /\ UNCHANGED <<robot, beat, queue, device, deleting, deletes>>

(* The insert of the device's row fails silently if the robot was deleted  *)
(* after it had been read.                                                 *)
CreateRow(d) ==
  /\ dep[d].status = "starting"
  /\ dep' = [dep EXCEPT ![d] =
       [status |-> "running", row |-> IF device.present THEN "pending" ELSE "none",
        previous |-> dep[d].previous]]
  /\ commands' = Told(Command("update", d))
  /\ UNCHANGED <<robot, beat, queue, device, deleting, deletes>>

(* ExecuteRollback: the robot is told to go back, if the registry lists it *)
(* among the deployment's devices, and its version is written back at once.*)
Reverts(d) ==
  IF dep[d].row # "none" /\ device.present
  THEN /\ commands' = Told(Command("rollback", dep[d].previous))
       /\ device' = UpdateVersion(dep[d].previous)
  ELSE UNCHANGED <<commands, device>>

RollBack(d) ==
  /\ dep[d].status \in {"running", "completed"}
  /\ dep' = [dep EXCEPT ![d].status = "rolled_back"]
  /\ Reverts(d)
  /\ UNCHANGED <<robot, beat, queue, deleting, deletes>>

(* An error report ends the row; it may breach the threshold of a running  *)
(* deployment, or be the last one, whatever the status was.                *)
HandleFailure ==
  /\ queue # <<>> /\ Head(queue).kind = "failure"
  /\ queue' = Tail(queue)
  /\ IF Active = {} \/ dep[Newest].row \in {"success", "failed"}
     THEN UNCHANGED <<dep, device, commands>>
     ELSE LET d == Newest
              Failed(s) == dep' = [dep EXCEPT ![d].status = s, ![d].row = "failed"]
          IN  \/ dep[d].status = "running" /\ Failed("rolled_back") /\ Reverts(d)
              \/ \E s \in {dep[d].status, "completed"} : Failed(s) /\ UNCHANGED <<device, commands>>
  /\ UNCHANGED <<robot, beat, deleting, deletes>>

(* ListDevices marks what has been silent for half a minute before it      *)
(* reads: a robot that is down.                                            *)
ListDevices ==
  /\ device.present /\ ~robot.up /\ device.status # "offline"
  /\ device' = [device EXCEPT !.status = "offline"]
  /\ UNCHANGED <<robot, commands, beat, queue, dep, deleting, deletes>>

(* The row goes, and with it the robot's rows in all deployments (ON       *)
(* DELETE CASCADE).                                                        *)
DropDevice ==
  /\ device' = [device EXCEPT !.present = FALSE]
  /\ dep' = [d \in Deployments |-> [dep[d] EXCEPT !.row = "none"]]

(* DeleteDevice: the status is read, and then the row deleted, whatever    *)
(* the robot and the deployments did meanwhile.                            *)
DeleteCheck ==
  /\ ~deleting /\ deletes < MaxDeletes
  /\ device.present /\ device.status \notin {"online", "updating"}
  /\ deleting' = TRUE /\ deletes' = deletes + 1
  /\ UNCHANGED <<robot, commands, beat, queue, device, dep>>

DeleteDevice ==
  /\ deleting /\ deleting' = FALSE
  /\ DropDevice
  /\ UNCHANGED <<robot, commands, beat, queue, deletes>>

(* PruneOfflineDevices: one statement tests and deletes.                   *)
Prune ==
  /\ device.present /\ device.status = "offline" /\ DropDevice
  /\ UNCHANGED <<robot, commands, beat, queue, deleting, deletes>>

Consume == HandleStatus \/ HandleProgress \/ HandleFailure
RegNext ==
  \/ BuildHeartbeat \/ Stop \/ PowerOn \/ Consume
  \/ ListDevices \/ DeleteCheck \/ DeleteDevice \/ Prune
  \/ \E d \in Deployments : Launch(d) \/ CreateRow(d) \/ RollBack(d)
  \/ \E c \in commands : BeginCommand(c) \/ EndInstall(c) \/ FailUpdate(c)

(* The heartbeat loop runs while the robot is up, and the backend takes    *)
(* the messages from the broker.                                           *)
RegFairness == WF_regVars(BuildHeartbeat) /\ WF_regVars(Consume)

RegSpec == RegInit /\ [][RegNext]_regVars /\ RegFairness

-----------------------------------------------------------------------------
Statuses == {"online", "updating", "error"}

RegTypeOK ==
  /\ robot \in [up : BOOLEAN, version : 0..MaxDeployments, status : Statuses]
  /\ commands \subseteq [action : {"update", "rollback"}, version : 0..MaxDeployments, begun : BOOLEAN]
  /\ device \in [present : BOOLEAN, status : Statuses \union {"offline"},
                 version : 0..MaxDeployments]
  /\ dep \in [Deployments ->
       [status : {"none", "starting", "running", "completed", "rolled_back"},
        row : {"none", "pending", "success", "failed"}, previous : 0..MaxDeployments]]
  /\ deleting \in BOOLEAN /\ Len(queue) <= MaxQueue
  /\ \A c \in commands : c.version # 0 => dep[c.version].status \notin {"none", "starting"}

(* A rollback goes back: the version recorded as the previous one, which   *)
(* is read from the registry long before the row is written and the        *)
(* command sent, is never the deployment's own or that of a later one, and *)
(* the robot is told to revert only to what some deployment that had been  *)
(* started recorded.  The reports of several deployments, credited to      *)
(* whichever row is the newest active one (deployments.sql:46), late       *)
(* heartbeats and failures counted after a rollback may come in any order. *)
RollbackGoesBack ==
  /\ \A d \in Deployments : dep[d].previous < d
  /\ \A c \in commands : c.action = "rollback" =>
       \E d \in Deployments : /\ c.version = dep[d].previous
                              /\ dep[d].status \in {"rolled_back", "completed"}

(* The registry heals: late heartbeats, reports credited to the wrong      *)
(* deployment, failed updates, rows deleted while their robot comes back   *)
(* leave no lasting mark: of a robot that stays up it shows in the end the *)
(* version it runs and the status it has, which may be "error" for good.   *)
InSync ==
  device.present /\ device.status = robot.status /\ device.version = robot.version

RegistryHeals == <>[]robot.up => <>[]InSync
=============================================================================
