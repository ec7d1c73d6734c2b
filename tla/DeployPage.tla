------------------------------ MODULE DeployPage ------------------------------
(***************************************************************************)
(* The page that launches a rollout (frontend app/deploy/page.tsx), its    *)
(* planning helpers (lib/planning.ts) and its dialog (DeployRiskModal),    *)
(* with the part of CreateDeployment (backend handlers/deployments.go)     *)
(* that accepts or refuses what the page sends.  The list of robots is     *)
(* loaded again when the query of the page changes, without the loading    *)
(* screen: an answer may arrive while the dialog is open.                  *)
(***************************************************************************)
EXTENDS Naturals, FiniteSets

CONSTANTS
  Robots, ModelOf, FactoryOf,   \* what a robot is does not change
  MaxLoads,                     \* bound on the loads of the page
  MaxPosts,                     \* bound on the launches that are confirmed
  MaxLost                       \* bound on answers that get lost

(* "all" stands for every model in a request; no robot has it as its own.  *)
ASSUME DeployAssumption ==
  /\ \A r \in Robots : ModelOf[r] # "all"
  /\ MaxLoads \in Nat \ {0}

VARIABLES
  query,       \* the robot named by the query of the page, or NoRobot
  loading,     \* the page shows its loading screen
  loads,       \* loads under way, by number, each with the query it was for
  loaded,      \* how many were started
  online,      \* the robots that were online in the snapshot on the page
  form,        \* scope, factory, ids selected by hand, a firmware is chosen
  risk,        \* the dialog: is it open, is its box checked
  launching,   \* isLaunching
  posted,      \* the requests to create a deployment that were not refused
  posts,       \* how many were sent
  unanswered,  \* how many answers to them were lost
  gone         \* the page was left for the page of the deployment

deployVars == <<query, loading, loads, loaded, online, form, risk, launching,
                posted, posts, unanswered, gone>>

NoRobot == "none"
Queries == Robots \union {NoRobot}
Factories == {FactoryOf[r] : r \in Robots}
Load(q) == /\ loaded < MaxLoads /\ loaded' = loaded + 1
           /\ loads' = loads \union {[nr |-> loaded', query |-> q]}

DeployInit ==
  /\ query \in Queries /\ loading = TRUE /\ gone = FALSE
  /\ loaded = 1 /\ loads = {[nr |-> 1, query |-> query]}
  /\ online = {}
  /\ form = [scope |-> "factory", factory |-> "", selected |-> {}, firmware |-> FALSE]
  /\ risk = [open |-> FALSE, ack |-> FALSE] /\ launching = FALSE
  /\ posted = {} /\ posts = 0 /\ unanswered = 0

(* deriveTargetDevices over deriveEligibleDevices.                         *)
Targets ==
  {r \in online : \/ form.scope = "all"
                  \/ form.scope = "factory" /\ FactoryOf[r] = form.factory
                  \/ form.scope = "custom" /\ r \in form.selected}
Models(rs) == {ModelOf[r] : r \in rs}

-----------------------------------------------------------------------------
(* fetchData and the effect that selects the first factory.  The answer    *)
(* overrides what was chosen by hand: the firmware, and for a query the    *)
(* scope and the selection.                                                *)
DataLoaded(l, seen, catalog) ==
  /\ loads' = loads \ {l} /\ loading' = FALSE
  /\ online' = seen
  /\ \E f \in Factories :
       form' = [firmware |-> form.firmware \/ catalog,
                factory |-> IF form.factory = "" THEN f ELSE form.factory,
                scope |-> IF l.query = NoRobot THEN form.scope ELSE "custom",
                selected |-> IF l.query = NoRobot THEN form.selected ELSE {l.query}]
  /\ UNCHANGED <<query, loaded, risk, launching, posted, posts, unanswered, gone>>

DataFails(l) ==
  /\ loads' = loads \ {l} /\ loading' = FALSE
  /\ UNCHANGED <<query, loaded, online, form, risk, launching, posted, posts, unanswered, gone>>

DataAnswered(l) == DataFails(l) \/ \E seen \in SUBSET Robots, catalog \in BOOLEAN : DataLoaded(l, seen, catalog)

(* A link to the page itself, with another query; the dialog covers it.    *)
Navigate(q) ==
  /\ ~gone /\ ~risk.open /\ q # query /\ query' = q
  /\ Load(q)
  /\ UNCHANGED <<loading, online, form, risk, launching, posted, posts, unanswered, gone>>

Editable == ~gone /\ ~loading /\ ~risk.open
Edit(f) ==
  /\ Editable /\ form' = f
  /\ UNCHANGED <<query, loading, loads, loaded, online, risk, launching, posted, posts, unanswered, gone>>

SetScope(s) == Edit([form EXCEPT !.scope = s])
SetFactory(f) == form.scope = "factory" /\ Edit([form EXCEPT !.factory = f])
Toggle(r) ==
  /\ form.scope = "custom" /\ r \in online
  /\ Edit([form EXCEPT !.selected = IF r \in @ THEN @ \ {r} ELSE @ \union {r}])

(* selectAllCustom compares lengths: as many ids as there are eligible     *)
(* robots count as all of them, whichever they are.                        *)
SelectAll ==
  /\ form.scope = "custom"
  /\ Edit([form EXCEPT !.selected = IF Cardinality(@) = Cardinality(online) THEN {} ELSE online])

(* handleOpenRiskModal; the dialog forgets an earlier acknowledgement.     *)
OpenRisk ==
  /\ Editable /\ ~launching /\ form.firmware
  /\ Targets # {} /\ Cardinality(Models(Targets)) = 1
  /\ risk' = [open |-> TRUE, ack |-> FALSE]
  /\ UNCHANGED <<query, loading, loads, loaded, online, form, launching, posted, posts, unanswered, gone>>

Acknowledge ==
  /\ risk.open /\ risk' = [risk EXCEPT !.ack = ~@]
  /\ UNCHANGED <<query, loading, loads, loaded, online, form, launching, posted, posts, unanswered, gone>>

CloseRisk ==
  /\ risk.open /\ ~launching /\ risk' = [risk EXCEPT !.open = FALSE]
  /\ UNCHANGED <<query, loading, loads, loaded, online, form, launching, posted, posts, unanswered, gone>>

-----------------------------------------------------------------------------
(* prepareDeploymentPayload; of the robots in it their models matter here. *)
Payload(m) == [nr |-> posts', models |-> Models(Targets), model |-> m, at |-> "sent"]

ModelsToSend == Models(Targets)

(* Mutant of MayConfirm: a second click while the first is under way.      *)
MayConfirmAgain == risk.open /\ risk.ack
MayConfirm == risk.open /\ risk.ack /\ ~launching

(* handleConfirm of the dialog and handleConfirmLaunch: nothing is sent    *)
(* if no target is left.                                                   *)
ConfirmLaunch ==
  /\ MayConfirm /\ ~gone /\ form.firmware /\ Targets # {}
  /\ launching' = TRUE /\ posts < MaxPosts /\ posts' = posts + 1
  /\ \E m \in ModelsToSend : posted' = posted \union {Payload(m)}
  /\ UNCHANGED <<query, loading, loads, loaded, online, form, risk, unanswered, gone>>

Progressed(p, at) == posted' = (posted \ {p}) \union {[p EXCEPT !.at = at]}

(* CreateDeployment refuses a robot of another model than the one named.   *)
Create(p) ==
  /\ p.at = "sent" /\ (p.model = "all" \/ p.models = {p.model})
  /\ Progressed(p, "created")
  /\ UNCHANGED <<query, loading, loads, loaded, online, form, risk, launching, posts, unanswered, gone>>

(* The answer: the dialog closes and the page is left; isLaunching stays.  *)
Launched(p) ==
  /\ p.at = "created" /\ Progressed(p, "answered")
  /\ risk' = [risk EXCEPT !.open = FALSE] /\ gone' = TRUE
  /\ UNCHANGED <<query, loading, loads, loaded, online, form, launching, posts, unanswered>>

(* Refused, or failed before the deployment was created.                   *)
Refused(p) ==
  /\ p.at = "sent" /\ posted' = posted \ {p}
  /\ launching' = FALSE
  /\ UNCHANGED <<query, loading, loads, loaded, online, form, risk, posts, unanswered, gone>>

(* The deployment is created and its answer gets lost.                     *)
Lost(p) ==
  /\ p.at = "created" /\ Progressed(p, "answered")
  /\ unanswered < MaxLost /\ unanswered' = unanswered + 1
  /\ launching' = FALSE
  /\ UNCHANGED <<query, loading, loads, loaded, online, form, risk, posts, gone>>

Serve == \E p \in posted : Create(p) \/ Launched(p) \/ Refused(p)

DeployNext ==
  \/ \E l \in loads : DataAnswered(l)
  \/ \E q \in Queries : Navigate(q)
  \/ \E s \in {"all", "factory", "custom"} : SetScope(s)
  \/ \E f \in Factories : SetFactory(f)
  \/ \E r \in Robots : Toggle(r)
  \/ SelectAll \/ OpenRisk \/ Acknowledge \/ CloseRisk \/ ConfirmLaunch
  \/ Serve \/ \E p \in posted : Lost(p)

(* The backend serves and answers what it is sent.                         *)
DeployFairness == WF_deployVars(Serve)

DeploySpec == DeployInit /\ [][DeployNext]_deployVars /\ DeployFairness

-----------------------------------------------------------------------------
Created == {p \in posted : p.at # "sent"}

DeployTypeOK ==
  /\ query \in Queries /\ online \subseteq Robots /\ form.selected \subseteq Robots
  /\ loaded <= MaxLoads /\ \A l \in loads : l.nr \in 1..loaded
  /\ launching => risk.open \/ gone
  /\ \A p \in posted : p.nr \in 1..posts /\ p.models # {}

(* "Each rollout must target a single robot hardware model" (page.tsx:119),*)
(* even if the list of robots is exchanged under the open dialog: the      *)
(* page's test is then out of date, and the model in the payload lets the  *)
(* handler refuse the rollout.                                             *)
OneModelPerRollout == \A p \in Created : Cardinality(p.models) = 1

(* One authorisation launches one rollout: a second one is only ever       *)
(* created after an answer was lost and the operator confirmed again.      *)
OneRolloutPerAnswer == Cardinality(Created) <= 1 + unanswered

(* What is created is what the operator authorised: for one model, once.   *)
RolloutsAreIntended == OneModelPerRollout /\ OneRolloutPerAnswer

(* The dialog never stays busy: a launch ends with the page of the         *)
(* deployment or with a dialog that can be closed.                         *)
LaunchSettles == launching ~> (gone \/ ~launching)
=============================================================================
