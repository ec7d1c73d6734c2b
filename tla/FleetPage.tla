------------------------------- MODULE FleetPage -------------------------------
(***************************************************************************)
(* The fleet overview (frontend app/page.tsx) with the dialog of one robot *)
(* (components/RobotDetailModal.tsx): polling, refreshing, pruning the     *)
(* offline robots and decommissioning one.  Loads overlap without order;   *)
(* the dialog keeps the robot as it was when it was opened, may be closed  *)
(* during its request, and remembers confirmDelete for the next robot.     *)
(***************************************************************************)
EXTENDS Naturals, FiniteSets

CONSTANTS
  Units,      \* the robots
  MaxEvents,  \* bound on the robots that come and go, and on loads that fail
  MaxClicks   \* bound on refreshes, prunings and decommissionings

VARIABLES
  registered,  \* the registry: online, offline or gone
  view,        \* the snapshot on the page
  pending,     \* loads under way, with what the backend answered
  poll,        \* "unmounted", "waiting" for the timer or "running"
  refreshing,  \* isRefreshing
  loadError,   \* the last load that settled failed
  pruning,     \* showPruneConfirm, and the request
  detail,      \* the dialog: its robot, the status it shows, confirmDelete
  removal,     \* the request to delete a robot
  events, clicks

fleetVars ==
  <<registered, view, pending, poll, refreshing, loadError, pruning, detail, removal, events,
    clicks>>

NoUnit == "none"

FleetInit ==
  /\ registered \in [Units -> {"online", "offline"}]
  /\ view = [u \in Units |-> "gone"]
  /\ pending = {} /\ poll = "unmounted"
  /\ refreshing = FALSE /\ loadError = FALSE
  /\ pruning = [confirm |-> FALSE, at |-> "idle"]
  /\ detail = [unit |-> NoUnit, status |-> "gone", confirm |-> FALSE]
  /\ removal = [at |-> "idle", unit |-> NoUnit]
  /\ events = 0 /\ clicks = 0

AskFleet(why) == pending' = pending \union {[why |-> why, nr |-> clicks', seen |-> registered]}
Click == clicks < MaxClicks /\ clicks' = clicks + 1

(* A robot comes online, falls silent, or is seen again.                   *)
RobotMoves(u) ==
  /\ events < MaxEvents /\ events' = events + 1
  /\ \E s \in {"online", "offline"} \ {registered[u]} : registered' = [registered EXCEPT ![u] = s]
  /\ UNCHANGED <<view, pending, poll, refreshing, loadError, pruning,
                 detail, removal, clicks>>

-----------------------------------------------------------------------------
(* loadFleet: at first, by the poll, by a button, after an operation.      *)
OpenFleet ==
  /\ poll = "unmounted" /\ poll' = "waiting" /\ refreshing' = TRUE
  /\ UNCHANGED clicks /\ AskFleet("first")
  /\ UNCHANGED <<registered, view, loadError, pruning, detail, removal,
                 events>>

FleetTimer ==
  /\ poll = "waiting" /\ poll' = "running"
  /\ UNCHANGED clicks /\ AskFleet("poll")
  /\ UNCHANGED <<registered, view, refreshing, loadError, pruning, detail,
                 removal, events>>

(* Refresh, disabled meanwhile; Retry now, beside the error, is not.       *)
RefreshFleet ==
  /\ poll # "unmounted" /\ (~refreshing \/ loadError) /\ refreshing' = TRUE /\ Click
  /\ AskFleet("refresh")
  /\ UNCHANGED <<registered, view, poll, loadError, pruning, detail,
                 removal, events>>

(* Any settled load ends isRefreshing; the poll's sets the next timer, and *)
(* a pruning awaits its own.                                               *)
FleetSettles(q) ==
  /\ pending' = pending \ {q} /\ refreshing' = FALSE
  /\ poll' = IF q.why = "poll" THEN "waiting" ELSE poll
  /\ pruning' = IF q.why = "pruned" THEN [pruning EXCEPT !.at = "idle"] ELSE pruning

(* Mutant of FleetAnswered: a silent load keeps the list.                  *)
FleetAnsweredVisibly(q) ==
  /\ FleetSettles(q) /\ loadError' = FALSE
  /\ view' = IF q.why = "poll" THEN view ELSE q.seen
  /\ UNCHANGED <<registered, detail, removal, events, clicks>>

FleetAnswered(q) ==
  /\ FleetSettles(q) /\ loadError' = FALSE /\ view' = q.seen
  /\ UNCHANGED <<registered, detail, removal, events, clicks>>

(* "Showing the last successful snapshot."                                 *)
FleetFails(q) ==
  /\ FleetSettles(q) /\ loadError' = TRUE
  /\ events < MaxEvents /\ events' = events + 1
  /\ UNCHANGED <<registered, view, detail, removal, clicks>>

-----------------------------------------------------------------------------
(* handlePruneOffline; the confirmation is offered while the list shows an *)
(* offline robot.                                                          *)
ShowsOffline == \E u \in Units : view[u] = "offline"
AskPrune(c) ==
  /\ ShowsOffline /\ pruning.confirm # c /\ pruning' = [pruning EXCEPT !.confirm = c]
  /\ UNCHANGED <<registered, view, pending, poll, refreshing, loadError,
                 detail, removal, events, clicks>>

Prune ==
  /\ ShowsOffline /\ pruning.confirm /\ pruning.at = "idle" /\ Click
  /\ pruning' = [pruning EXCEPT !.at = "sent"]
  /\ UNCHANGED <<registered, view, pending, poll, refreshing, loadError,
                 detail, removal, events>>

ServePrune ==
  /\ pruning.at = "sent" /\ pruning' = [pruning EXCEPT !.at = "done"]
  /\ registered' = [u \in Units |-> IF registered[u] = "offline" THEN "gone" ELSE registered[u]]
  /\ UNCHANGED <<view, pending, poll, refreshing, loadError, detail,
                 removal, events, clicks>>

Pruned ==
  /\ pruning.at = "done" /\ pruning' = [confirm |-> FALSE, at |-> "reloading"]
  /\ UNCHANGED clicks /\ AskFleet("pruned")
  /\ UNCHANGED <<registered, view, poll, refreshing, loadError, detail,
                 removal, events>>

PruneFails ==
  /\ pruning.at \in {"sent", "done"} /\ pruning' = [pruning EXCEPT !.at = "idle"]
  /\ UNCHANGED <<registered, view, pending, poll, refreshing, loadError,
                 detail, removal, events, clicks>>

-----------------------------------------------------------------------------
(* The dialog, a snapshot of its own, and handleDeleteDevice.              *)
Show(d) ==
  /\ detail' = d
  /\ UNCHANGED <<registered, view, pending, poll, refreshing, loadError,
                 pruning, removal, events, clicks>>

OpenDetail(u) ==
  /\ detail.unit = NoUnit /\ view[u] # "gone"
  /\ Show([detail EXCEPT !.unit = u, !.status = view[u]])
CloseDetail == detail.unit # NoUnit /\ Show([detail EXCEPT !.unit = NoUnit])
AskRemove ==
  /\ detail.unit # NoUnit /\ detail.status # "online"
  /\ Show([detail EXCEPT !.confirm = ~@])

RemoveUnit ==
  /\ detail.unit # NoUnit /\ detail.status # "online" /\ detail.confirm
  /\ removal.at = "idle" /\ Click
  /\ removal' = [at |-> "sent", unit |-> detail.unit]
  /\ UNCHANGED <<registered, view, pending, poll, refreshing, loadError,
                 pruning, detail, events>>

(* DeleteDevice refuses an online robot, whatever the dialog shows (module *)
(* DeviceRegistry has its statements).                                     *)
ServeRemove ==
  /\ removal.at = "sent" /\ registered[removal.unit] # "online"
  /\ removal' = [removal EXCEPT !.at = "done"]
  /\ registered' = [registered EXCEPT ![removal.unit] = "gone"]
  /\ UNCHANGED <<view, pending, poll, refreshing, loadError, pruning,
                 detail, events, clicks>>

(* The answer closes the dialog, also if it shows another robot by now.    *)
Removed ==
  /\ removal.at = "done" /\ removal' = [removal EXCEPT !.at = "idle"]
  /\ detail' = [detail EXCEPT !.unit = NoUnit, !.confirm = FALSE]
  /\ UNCHANGED clicks /\ AskFleet("removed")
  /\ UNCHANGED <<registered, view, poll, refreshing, loadError, pruning,
                 events>>

RemoveFails ==
  /\ removal.at \in {"sent", "done"} /\ removal' = [removal EXCEPT !.at = "idle"]
  /\ UNCHANGED <<registered, view, pending, poll, refreshing, loadError,
                 pruning, detail, events, clicks>>

FleetReceives == \E q \in pending : FleetAnswered(q) \/ FleetFails(q)
FleetPolled == \E q \in pending : q.why = "poll" /\ (FleetAnswered(q) \/ FleetFails(q))
FleetReloaded == \E q \in pending : q.why = "pruned" /\ (FleetAnswered(q) \/ FleetFails(q))
Operations == ServePrune \/ Pruned \/ PruneFails \/ ServeRemove \/ Removed \/ RemoveFails

FleetNext ==
  \/ OpenFleet \/ FleetTimer \/ RefreshFleet \/ FleetReceives \/ Operations
  \/ \E u \in Units : RobotMoves(u) \/ OpenDetail(u)
  \/ \E c \in BOOLEAN : AskPrune(c)
  \/ Prune \/ CloseDetail \/ AskRemove \/ RemoveUnit

(* The timer fires, and requests are answered or fail.                     *)
FleetFairness ==
  /\ WF_fleetVars(FleetTimer) /\ WF_fleetVars(FleetPolled) /\ WF_fleetVars(FleetReloaded)
  /\ WF_fleetVars(ServePrune \/ Pruned \/ PruneFails)
  /\ WF_fleetVars(ServeRemove \/ Removed \/ RemoveFails)

FleetSpec == FleetInit /\ [][FleetNext]_fleetVars /\ FleetFairness

-----------------------------------------------------------------------------
States == {"online", "offline", "gone"}

FleetTypeOK ==
  /\ registered \in [Units -> States] /\ view \in [Units -> States]
  /\ (poll = "running") <=> (\E q \in pending : q.why = "poll")
  /\ (pruning.at = "reloading") <=> (\E q \in pending : q.why = "pruned")

(* Whatever is removed, closed, confirmed or answered late, the list ends  *)
(* up as the registry: a stale load is repaired by a later poll.           *)
ShowsFleet == <>[](poll # "unmounted" => view = registered)

(* No button stays busy, however operations, polls and dialogs overlap.    *)
ButtonsComeBack ==
  (pruning.at # "idle" ~> pruning.at = "idle") /\ (removal.at # "idle" ~> removal.at = "idle")
=============================================================================
