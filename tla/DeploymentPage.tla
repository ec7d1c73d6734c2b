---------------------------- MODULE DeploymentPage ----------------------------
(***************************************************************************)
(* The monitor of one deployment (frontend app/deployments/[id]/page.tsx)  *)
(* with its rollback dialog (components/RollbackRiskModal.tsx).  The first *)
(* load, the polls, the retry button and the reload after a rollback all   *)
(* run loadData, and nothing orders their answers: an older answer may     *)
(* replace a newer one.  The polls come from useVisibilityPolling on a     *)
(* visible page (module VisibilityPolling).                                *)
(***************************************************************************)
EXTENDS Naturals

CONSTANTS
  Total,      \* robots of the deployment
  MaxExtra,   \* bound on the requests besides the polls
  MaxFails    \* bound on the requests that fail

ASSUME MonitorAssumption == Total \in Nat

VARIABLES
  server,     \* the deployment: status and robots that reported an end
  asked,      \* requests under way: why, and what the backend answered
  extra, fails,
  onPage,      \* the deployment on the page, or NoData
  stale,      \* the banner loadError
  chain,      \* the poll: "unmounted", "waiting" for its timer or "running"
  notified,   \* completionNotifiedRef
  notices,    \* how many completion notices were shown
  completion, \* the completion dialog is open
  rollback    \* the rollback dialog: open, acknowledged, and the request

monitorVars ==
  <<server, asked, extra, fails, onPage, stale, chain, notified, notices, completion, rollback>>

NoData == [status |-> "none", done |-> 0]
Ask(why) == asked' = asked \union {[why |-> why, nr |-> extra', answer |-> server]}

MonitorInit ==
  /\ server = [status |-> "running", done |-> 0]
  /\ asked = {} /\ extra = 0 /\ fails = 0
  /\ onPage = NoData /\ stale = FALSE /\ chain = "unmounted"
  /\ notified = FALSE /\ notices = 0 /\ completion = FALSE
  /\ rollback = [open |-> FALSE, ack |-> FALSE, at |-> "idle"]

-----------------------------------------------------------------------------
(* The deployment as module Rollout moves it: robots end, the last one may *)
(* complete it, even after a rollback.                                     *)
Progress ==
  /\ server.done < Total
  /\ LET ended == server.done + 1
     IN  server' \in {[server EXCEPT !.done = ended]} \union
           (IF ended = Total THEN {[status |-> "completed", done |-> ended]} ELSE {})
  /\ UNCHANGED <<asked, extra, fails, onPage, stale, chain, notified, notices, completion, rollback>>

(* The threshold is breached, or somebody else rolls it back.              *)
RolledBack ==
  /\ server.status # "rolled_back" /\ server' = [server EXCEPT !.status = "rolled_back"]
  /\ UNCHANGED <<asked, extra, fails, onPage, stale, chain, notified, notices, completion, rollback>>

-----------------------------------------------------------------------------
(* The page is opened: the first load, and the first timer of the poll.    *)
Mount ==
  /\ chain = "unmounted" /\ chain' = "waiting"
  /\ UNCHANGED extra /\ Ask("first")
  /\ UNCHANGED <<server, fails, onPage, stale, notified, notices, completion, rollback>>

(* Mutant of TimerFires: a finished rollout is not polled any more.        *)
FiresUntilFinished ==
  /\ chain = "waiting" /\ chain' = "running"
  /\ onPage.status # "completed" /\ UNCHANGED extra /\ Ask("poll")
  /\ UNCHANGED <<server, fails, onPage, stale, notified, notices, completion, rollback>>

TimerFires ==
  /\ chain = "waiting" /\ chain' = "running"
  /\ UNCHANGED extra /\ Ask("poll")
  /\ UNCHANGED <<server, fails, onPage, stale, notified, notices, completion, rollback>>

RetryNow ==
  /\ onPage # NoData /\ stale /\ extra < MaxExtra /\ extra' = extra + 1
  /\ Ask("retry")
  /\ UNCHANGED <<server, fails, onPage, stale, chain, notified, notices, completion, rollback>>

(* Mutant of Settle: the poll does not set its timer again.                *)
SettleForgetsTimer(q) ==
  /\ asked' = asked \ {q} /\ UNCHANGED chain
  /\ rollback' = IF q.why = "rollback" THEN [rollback EXCEPT !.at = "idle"] ELSE rollback

(* What else waits for a settled request: the poll's chain, and the        *)
(* confirmed rollback, which awaits its reload.                            *)
Settle(q) ==
  /\ asked' = asked \ {q}
  /\ chain' = IF q.why = "poll" THEN "waiting" ELSE chain
  /\ rollback' = IF q.why = "rollback" THEN [rollback EXCEPT !.at = "idle"] ELSE rollback

(* isFinished of the effect that runs with every new deployment.           *)
Finished(d) == d.done >= Total \/ d.status = "completed"

(* Mutant of Notifies: without completionNotifiedRef.                      *)
NotifiesAlways(d) == Finished(d)
Notifies(d) == Finished(d) /\ ~notified

Answer(q) ==
  /\ Settle(q)
  /\ onPage' = q.answer /\ stale' = FALSE
  /\ notified' = (notified \/ Finished(q.answer))
  /\ IF Notifies(q.answer)
     THEN notices' = notices + 1 /\ completion' = TRUE
     ELSE UNCHANGED <<notices, completion>>
  /\ UNCHANGED <<server, extra, fails>>

Fail(q) ==
  /\ Settle(q)
  /\ fails < MaxFails /\ fails' = fails + 1
  /\ stale' = TRUE
  /\ UNCHANGED <<server, extra, onPage, notified, notices, completion>>

CloseCompletion ==
  /\ completion /\ completion' = FALSE
  /\ UNCHANGED <<server, asked, extra, fails, onPage, stale, chain, notified, notices, rollback>>

-----------------------------------------------------------------------------
(* The rollback: button, acknowledgement, handleConfirmRollback.           *)
rest == <<server, asked, extra, fails, onPage, stale, chain, notified, notices, completion>>

OpenRollback ==
  /\ onPage # NoData /\ onPage.status # "rolled_back" /\ rollback.at = "idle" /\ ~rollback.open
  /\ rollback' = [rollback EXCEPT !.open = TRUE, !.ack = FALSE]
  /\ UNCHANGED rest

AckRollback ==
  /\ rollback.open /\ rollback' = [rollback EXCEPT !.ack = ~@]
  /\ UNCHANGED rest

CloseRollback ==
  /\ rollback.open /\ rollback.at = "idle" /\ rollback' = [rollback EXCEPT !.open = FALSE]
  /\ UNCHANGED rest

ConfirmRollback ==
  /\ rollback.open /\ rollback.ack /\ rollback.at = "idle"
  /\ extra < MaxExtra /\ extra' = extra + 1
  /\ rollback' = [rollback EXCEPT !.at = "sent"]
  /\ UNCHANGED <<server, asked, fails, onPage, stale, chain, notified, notices, completion>>

(* ExecuteRollback.                                                        *)
ServeRollback ==
  /\ rollback.at = "sent" /\ rollback' = [rollback EXCEPT !.at = "done"]
  /\ server' = [server EXCEPT !.status = "rolled_back"]
  /\ UNCHANGED <<asked, extra, fails, onPage, stale, chain, notified, notices, completion>>

(* The dialog closes, and the button stays busy until the reload settles.  *)
RollbackAnswered ==
  /\ rollback.at = "done" /\ rollback' = [rollback EXCEPT !.open = FALSE, !.at = "reloading"]
  /\ UNCHANGED extra /\ Ask("rollback")
  /\ UNCHANGED <<server, fails, onPage, stale, chain, notified, notices, completion>>

(* Refused, or its answer lost: the dialog stays open.                     *)
RollbackFails ==
  /\ rollback.at \in {"sent", "done"} /\ fails < MaxFails /\ fails' = fails + 1
  /\ rollback' = [rollback EXCEPT !.at = "idle"]
  /\ UNCHANGED <<server, asked, extra, onPage, stale, chain, notified, notices, completion>>

Receive == \E q \in asked : Answer(q) \/ Fail(q)
Poll == \E q \in asked : q.why = "poll" /\ (Answer(q) \/ Fail(q))
Reloaded == \E q \in asked : q.why = "rollback" /\ (Answer(q) \/ Fail(q))

MonitorNext ==
  \/ Progress \/ RolledBack
  \/ Mount \/ TimerFires \/ RetryNow \/ Receive \/ CloseCompletion
  \/ OpenRollback \/ AckRollback \/ CloseRollback \/ ConfirmRollback
  \/ ServeRollback \/ RollbackAnswered \/ RollbackFails

(* The timer fires, and requests are answered or fail.                     *)
MonitorFairness ==
  /\ WF_monitorVars(TimerFires) /\ WF_monitorVars(Poll) /\ WF_monitorVars(Reloaded)
  /\ WF_monitorVars(ServeRollback) /\ WF_monitorVars(RollbackAnswered)

MonitorSpec == MonitorInit /\ [][MonitorNext]_monitorVars /\ MonitorFairness

-----------------------------------------------------------------------------
Known == [status : {"none", "running", "completed", "rolled_back"}, done : 0..Total]

MonitorTypeOK ==
  /\ server \in Known /\ onPage \in Known
  /\ (chain = "running") <=> (\E q \in asked : q.why = "poll")
  /\ (rollback.at = "reloading") <=> (\E q \in asked : q.why = "rollback")
  /\ \A q, r \in asked : q.why = r.why /\ q.why # "retry" => q = r

(* One rollout is announced as finished once, although every poll brings   *)
(* a new deployment and an older answer may make the page see it running   *)
(* and finished again (page.tsx:74, completionNotifiedRef).                *)
NotifiedOnce == notices <= 1

(* Whatever order the answers come in, an open page ends up showing the    *)
(* deployment as it is, the rollback of a completed one included.          *)
ShowsFinalState == <>[](chain # "unmounted" => onPage = server)

(* The rollback button comes back: a confirmed rollback does not leave the *)
(* page busy, whether the request or the reload after it fails.            *)
RollbackSettles == rollback.at # "idle" ~> rollback.at = "idle"
=============================================================================
