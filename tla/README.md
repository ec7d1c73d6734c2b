# A verification development of the OTA robot system

The repository updates the firmware of a fleet of factory robots over the air: a Go backend keeps
devices, firmware versions and deployments in PostgreSQL, commands robots through an MQTT broker
and rolls a deployment back when too many updates fail; a robot agent (the `simulator`) downloads,
verifies and installs; a Next.js dashboard starts, watches and rolls back deployments. The
repository also carries `archify`, a skill of programs that draw and compare architectures, some of
which run beside other processes. This directory holds TLA+ models of all four, TLC configurations
that check them on small instances, and TLAPS proofs of what holds for every instance.

## 1. Inventory

| component | state | operations | what must hold |
|---|---|---|---|
| Canary phase split (`rollout/manager.go`, `frontend/src/lib/planning.ts`) | none (pure) | `clampPhaseEnd`, the slices of `runCanary`, `sentinelCount` | the phases partition the fleet; the first is as small as 20% allows; what the operator sees is what is dispatched |
| Rollout manager (`rollout/manager.go`) | rows of `deployments` and `deployment_devices`, one goroutine per canary | `StartRollout`, `runCanary`, `observeWindow`, `HandleDeviceProgress`, `HandleDeviceError`, `ExecuteRollback`, `Reconcile` | counters agree with rows; a breach stops the rollout; phases go in order; completed means finished; a rollback reaches everybody; every deployment ends |
| Deployment handlers (`handlers/deployments.go`) | the same rows | `CreateDeployment`, `GetDeployment` (reconciles), `Rollback` | concurrent requests do not undo each other |
| MQTT client (`mqtt/client.go`) | subscriptions | `handleStatus`, `handleProgress`, `handleError`, `PublishCommand` | reports are handled in order, with the effect the manager defines |
| Robot agent (`simulator/`) | FSM, `status`, `currentVersion`, `configuredActivity`, battery | `handleUpdate`, `handleRollback`, `messagePubHandler`, heartbeat | one update at a time; nothing unverified is installed; the robot never becomes deaf |
| Device registry (`handlers/devices.go`, `queries/devices.sql`, `handleStatus`) | rows of `devices` | upsert by status message, effects of reports, offline marking, delete, prune, version writes | the registry converges to what a robot runs and how it is; a rollback goes back to what was there before its deployment |
| Firmware releases (`firmware/service.go`) | rows of `firmware_versions`, objects in MinIO | `Release`, `Delete`, the reference of a deployment | rows and objects stay in step, but where the object store fails |
| Sessions (`handlers/auth.go`, `lib/api.ts`, `AuthContext.tsx`) | `refresh_tokens`, cookies, one refresh promise per tab | login, refresh, restore, logout, redirect | a session is not lost while its user is at it, unless a token's successor is; a tab settles |
| Dashboard pages (`frontend/src/app`) | React state, requests under way | loads, polls, launches, rollbacks, uploads, edits, deletions | what is launched is what was meant; a page shows what is so in the end; no button stays busy |
| Dashboard hooks and widgets | timers, the focus, the list of toasts | `useVisibilityPolling`, `useDialogFocus`, `ToastContext` | one chain of polls; focus in the dialog; a toast leaves for its own reason |
| archify update check (`scripts/check-update.mjs`) | a directory of operations and claims, shared by processes | `checkForUpdate`, `acknowledgeUpdate` | every call takes effect at once, on the cache its answer speaks of |
| archify preview (`bin/preview.mjs`) | source hash, build child, last good artifact, server | observe, build, commit, stop | what is shown as verified is the current input; an edit is built in the end; a stop ends |
| archify visual check (`bin/visual-check.mjs`) | Chrome, captures, contact sheet, receipt | one sequence of commands per view | captures and receipt belong to one artifact; the check ends |
| archify compare (`bin/archify.mjs`) | an artifact and its receipt, a staging directory | validate, render, commit the pair, roll back | the two files of a pair are never of different comparisons |
| Everything else | - | middleware, metrics, configuration, generated queries, rendering, layout, docs | not modelled, see section 7 |

How the parts interact. The deploy page posts to `CreateDeployment`, which inserts rows one by one
and starts `runCanary` in a goroutine. That goroutine publishes `update` commands (QoS 1). On the
robot every command runs in a goroutine of its own and publishes progress and error reports. The
backend's MQTT client hands reports to the manager one after the other, in order. An automatic
rollback runs inside that callback, an operator's rollback in an HTTP request, and each poll of a
detail page runs `Reconcile`. All of them read and write the same rows with separate, autocommitted
statements. The programs of archify share files only.

What is hard here: the interleaving of these statements; values read by one statement and used by a
later one; messages delivered twice; the backend or a robot stopping anywhere; commands that
overtake each other on the robot, where globals are shared by goroutines without a lock; answers
that reach a page in another order than they were asked for; processes suspended past their lease.
The list `hazards` of `PROJECT.json` names each at its line, with the properties that would catch
it going wrong, and says where a property covers only part of it.

## 2. Modules

| module | models | built on |
|---|---|---|
| `CanaryPhases` | the phase arithmetic, as operators of the fleet size | - |
| `MCCanaryPhases` | a walk over fleet sizes, one state per size | `CanaryPhases` |
| `RobotAgent` | one robot: FSM, handlers, callback, restart | refines `UpdateSlot` |
| `UpdateSlot` | abstract: one slot for an update | - |
| `Rollout` | one deployment with launcher, callback, rollbacks, dashboard, broker and robots | `CanaryPhases`, refines `StagedRollout` |
| `StagedRollout` | abstract: devices are released phase by phase | `CanaryPhases` |
| `DeviceRegistry` | the registry's row of one robot with its heartbeats, deployments and deletion | - |
| `FirmwareRelease` | concurrent releases and deletions over database and object store | - |
| `Session` | the tabs of one browser, the refresh and the handlers that rotate tokens | - |
| `VisibilityPolling`, `DialogFocus`, `Toasts` | the hooks and widgets | - |
| `FleetPage`, `DeployPage`, `DeploymentPage`, `FirmwarePage` | the four pages with operations, with the backend as far as they see it | - |
| `UpdateCheck` | any number of processes over the cache directory, one action per rename | refines `UpdateCache` |
| `UpdateCache` | abstract: one cache, every call in one step | - |
| `LivePreview`, `VisualCheck`, `ArchitectureCompare` | the other programs of archify that meet other processes | - |
| `MCComponents` | phases, agent, session, releases and registry in one run | the modules named |
| `MCDashboard` | the seven dashboard modules in one run | the modules named |
| `MCSkill` | the four archify modules in one run | the modules named |
| `MCRobotAgent`, `MCRollout` | the modules the other runs name | `RobotAgent`, `Rollout` |
| `CanaryPhasesProofs`, `RobotAgentProofs`, `RolloutProofs`, `RolloutCountProofs`, `UpdateCheckProofs`, `ComponentsProofs`, `DashboardProofs`, `SkillProofs` | theorems about the modules they extend, section 5 | - |

**Composite runs.** Components that share no state are checked side by side in one run: the
variable `part` says which of them a behaviour belongs to, and the others stand still in one
state that owes nothing to fairness. The state space is the sum, not the product, of the
parts; the properties of one part hold trivially in the behaviours of another, and are tested by the
behaviours of their own.

**CanaryPhases.** Devices are positions `1..n` in `targetDevices`. `ClampPhaseEnd(n, pct)` is
`clampPhaseEnd`; the code multiplies floats, and for 0.20 and 0.60 the ceiling of the rounded
product is the exact ceiling for every fleet of up to 200 000 robots (computed separately, outside
TLA+), so the model uses integers.

**RobotAgent.** `Handlers` are the goroutines that may be alive at once, `pc[h]` is where each one
is. `transitions` is the map of `state_machine.go`. One action of the model is one `Trigger`, one
exit, or one group of assignments between two sleeps; assignments to `status` after a publish are
actions of their own (`ShowOnline`, `ShowFault`) because another goroutine may run in between. A
command is reduced to what the code decides by: the version, whether the hardware model fits, and
whether checksum and signature are right. The battery is reduced to "at least 50 percent or not",
the activity to "idle or not". `Crash` is the end of the process and its restart: nothing is stored.
`UpdateSlot` forgets the machine: a handler takes the one slot, goes through its stages or gives up,
and only one that went through all of them writes its version. The refinement mapping reads the
stage of a handler off its `pc`.

**Rollout.** One action is one SQL statement or one MQTT publish. `dep` and `dd` are the rows;
`launch` is the request handler `CreateDeployment` and then the goroutine `runCanary`; `handler`
is the MQTT callback with the values it has read; `rollback` has two executions of
`ExecuteRollback`, the operator's and the callback's; `view` is one `GetDeployment` request.
`commands[d]` and `reports[d]` are the broker's ordered queues. `robot[d]` is what `RobotAgent`
does as seen from outside: its state machine as free, accepted, updating or rolling back, and the
number of rollback goroutines. That it is a single state and not a set of running updates is
justified by `MutualExclusion`, proved for `RobotAgent`. An update may fail only on a device of
`Faulty`, but a command rejected by a busy robot is an error report on any device. A restart of the
backend may come between any two statements; it ends launcher, callback and requests. `sent` and
`reverted` are history. The registry's `current_version` is not part of this module: it influences
none of the deployment's decisions, and `DeviceRegistry` has it. In `StagedRollout` a phase is
released only while the deployment runs and after all devices before it were commanded; the mapping
calls released what `runCanary` has passed or is dispatching.

**DeviceRegistry.** One robot with its version and the global `status` that its heartbeats send
("updating" during an update, "error" for good after a flashing fault), the commands it was given, of
which any number may run at once, its last status message (published at QoS 1 on a topic of its own,
taken before or after the reports), and its reports in one ordered queue; two deployments; the
requests to list, delete and prune. A heartbeat carries version and status of the moment it was
built. Reports of progress, success and failure are credited to the newest active row of the robot,
whatever deployment they belong to; a failure may breach a threshold and send the robot back, or
complete the deployment, which depends on other robots and is a choice. The handlers of reports and
the creation of a deployment's rows are single steps here, since `Rollout` has their statements; the
two statements of a deletion are two. A deletion takes the robot's rows in all deployments along
(`DropDevice`: migration 3 makes the foreign key ON DELETE CASCADE). The version a deployment records as
the previous one is read (`Launch`) before its row is written (`CreateRow`).

**FirmwareRelease.** A call of the bucket may fail, before or after it was carried out, and a
statement may be refused. The service ignores the errors of both `RemoveObject` calls; `left` is the
set of keys whose last call failed, and only there may an object stay without a row.

**Session.** The cookies belong to the browser, the promise of a running refresh to a tab. A token
is a number; a refresh reads the row, deletes it and inserts the next one in three steps. The errors
of the deletion and of the insert are ignored, as the handler does: the deletion may leave the old
token, and the insert may leave a browser with cookies that the server does not know (`Issue`). Between
the two the handler may give up with 401 or 500 (`GiveUp`), and an answer may be lost after its effect.
`lost` counts the tokens that were deleted for a successor that was not made, not recorded or not
answered; `SessionSurvives` and `OneTabNeverFails` are about sessions in which there was none, and
those are the only ones the code keeps. A row that cannot be read is refused like a missing one
(`Lookup`). A tab is opened on any page; on the login page the form is there while the session is
still being restored, so that a login may overlap the restore, whose late failure then sets the
user to null again.

**Dialogs.** `DialogFocus` is one dialog under a page that renders at any time, each time with a new
`onClose` and therefore a clean-up and a rerun of the effect. A render may remove the button
that opened the dialog, as the deployment page does once a poll shows `rolled_back`
(`deployments/[id]/page.tsx:184`); the focus then ends outside the dialog, and `FocusReturns` says no
more. The request of a dialog, and what it loads behind it, may outlive its closing.

**The pages.** Each load, poll, retry and reload is a request that is answered with the backend's
state at some moment and arrives at another, in any order; any of them may fail. What the operator
clicks is free. `DeployPage` keeps what was posted, with the models of the robots in it and the
answers that were lost, so that `RolloutsAreIntended` can say that one confirmation creates one
rollout for one model.

**UpdateCheck.** A generation number is a family of directories (reserved, pending, committed, fenced,
cancelled) of which the latest name counts; `active-claim` is one directory with the number of its
owner. One step is one call that changes the directory, or one reading. A lease may run out at any
time, which stands for a process suspended as long as one likes, and a process may give up or stop
at any step. `UpdateCache` has a single cache; the mapping takes the committed state with the
highest number.

**LivePreview, VisualCheck, ArchitectureCompare.** One step is one callback, one Chrome command or one
call of the file system. In `VisualCheck` every removal and every write of a sidecar may fail:
`safeUnlink` says nothing of it (`stuck`, `stale`), a write throws. Contents are members of small sets; hashing is injective. What Chrome
measures and whether a build succeeds are choices.

Each definition that models code is in the `map` of `PROJECT.json` with its lines. Operators
introduced as "Mutant of" are plausible bugs; each one makes a property fail, which shows
that the property depends on the code.

## 3. Runs

Passing runs:

| run | instance | shows |
|---|---|---|
| `components` | fleets of 1..150; 2 goroutines on an AGV, 2 versions; 1 tab with 3 requests and 1 lost successor, 2 tabs with 3 requests, 2 tokens each; 3 releases of one version, two of them to one key, calls of both stores failing; 1 robot, 1 status message and 1 report under way: 2 deployments while it stays up, 2 with restarts and no failures, 1 with restarts, failures and a deletion | the phase split is sound; the agent's invariant, its slot, verified firmware only, it keeps accepting updates; sessions survive overlapping refreshes, logins and logouts, and every tab settles; stores agree; the registry heals, and a rollback goes back to what was there before |
| `dashboard` | 2 mounts; 4 toasts of which 2 stay; 2 openings and 2 renders of a dialog, whose opener may go; 2 robots, 2 loads, 2 launches, 1 lost answer; 1 robot, 2 extra requests, 1 failure; 2 releases, 3 loads; 1 unit, 2 clicks | one chain of polls that goes on; focus managed; toasts leave for their own reason; launches are intended; one notification; catalogue, monitor and fleet catch up; no page stays busy |
| `skill` | 2 processes, 3 operations, 1 release; 4 sources, 3 edits, 1 fault; 2 views, 2 checks, 2 deliveries; 3 snapshots, 2 runs, 2 faults, 2 edits | checks are atomic, live claims stay; what is verified is current and catches up; evidence is bound; pairs are not mixed; nothing hangs |
| `rollout_canary` | up to 3 robots, 2 of them faulty, 50%, dashboard, 1 restart of the backend | counters never exceed the rows; a breach stops the rollout; phases never go back, cover the dispatch and are released one after the other |
| `rollout_operator` | up to 2 robots, operator at any time after creation, fair | a device that was sent its update before the rollback is told to revert, as the last command it is sent; the deployment ends, even when `MarkRunning` overwrites the rollback |
| `rollout_full` | strategy full, up to 5 robots, 1 faulty, dashboard | counters agree with rows; completion without a failure is complete |

Violation runs, each one a disagreement of the code with a comment or a document (quoted under
`findings`):

| run | what TLC finds |
|---|---|
| `agent_rollback_sticks` | a rollback is accepted in the middle of an installation, reports success, and the installation then sets the new version again |
| `rollout_double_count` | a success delivered twice completes a deployment of two with one of them never updated |
| `rollout_early_rollback` | one failure of three counts as two: 67% instead of 33%, over a threshold of 50% |
| `rollout_late_completion` | a failure handled after the automatic rollback writes `completed` over `rolled_back` |
| `firmware_delete` | deleting a release that a deployment refers to removes its binary and then fails on the row: the release stays listed without a file |
| `visual_receipt` | a navigation that times out ends the visual check by an unhandled rejection, without the receipt that records the failure |

The number of targets is chosen by `CreateRow`, so that a run with bound `N` covers every smaller
deployment too. Why these bounds:

- three phases need three robots to have one robot each; two robots give the early exit after
  phase 2, one robot the empty phases 2 and 3; five robots are, with a threshold of 50%, the least for
  which one failure does not roll back and the completion test is still reached with somebody
  updating;
- two goroutines on a robot are an update overlapped by a rollback, a late reset or another update;
  two tabs, two releases of one key, two update checks and two loads of a page are the overlaps
  their properties are about;
- two views are one under way beside one that has been passed or is to come; three operations of the
  update check are one that commits, one suspended and one that fences it;
- two of four toasts on screen (five in the code) let a timer outlive its toast twice;
- two deliveries let an artifact be replaced and put back while it is inspected, which the comparison at
  the end of a visual check cannot see;
- the registry and the session are cut into parts of their own, each with what it varies, since
  their products are too large: restarts with failures, for instance, are with one deployment only. The
  theorems about both have no such cut;
- one lost answer, duplicate, restart or failing call at every possible point is what the properties
  need; where a rollback of a rollback matters (`ArchitectureCompare`) there are two.

Bounds are named constants: `MaxFleet`, `Handlers`, `N`, `MaxDup`, `MaxCrash`, `MaxGeneration` and
so on. The operator asks for a rollback at most once: a repeated request returns at once when it
finds `rolled_back`.

What the properties excuse, because the code does not give it. `SessionSurvives` and `OneTabNeverFails`:
a token whose successor got lost. `StoresAgree`: keys whose last call failed, and the binary of a
release that shares its key. `EvidenceIsBound`: a sidecar that could not be removed or written, and an
artifact that was put back while it was inspected. `FocusReturns`: an opener that is gone.
`CatalogIsCurrent`: loads that overlapped. `RollbackReachesAll`: an update that a launcher past its check of
the status publishes after the deployment was rolled back, perhaps after the rollback command of the
same robot (`manager.go:102-119`): that robot ends on the new firmware, which is not what the API
document says of a rollback (`docs/design/API_AND_MQTT_SPEC.md:128`). `UpdatesInStages` bounds such updates to the
phase that was released already. `RegistryHeals` is about the status the robot sends, and a
robot whose flashing failed keeps sending "error".

Deadlock. `Rollout` has an explicit final step `Ended`, so that in its runs a state in which somebody
waits for ever is reported as a deadlock. The composite runs turn the check off, since a walk over fleet sizes, a closed page or a finished command
has nothing left to do; what must not hang there is stated as liveness (`TabSettles`,
`NoPageStaysBusy`, `NothingHangs`, `KeepsPolling`, `KeepsAcceptingUpdates`).

## 4. Fairness

`RobotAgent`: weak fairness of the boot and of each goroutine, which the Go scheduler and finite
sleeps give. `DownloadsEnd` is an assumption about the network, since `http.Get` has no timeout
(`simulator/main.go:349`); without it `KeepsAcceptingUpdates` is false. Nothing is assumed of
commands, telemetry or restarts.

`Rollout`: weak fairness of the launcher, of the callback, of the operator's rollback once asked
for, and of each robot together with the delivery of its messages (QoS 1 to a connected client).
Operator, dashboard, duplicates and restarts are never obliged to happen. A publish made inside the
callback is not assumed to return either (`mqtt/client.go:146`): `PublishCommand` waits for its
token there, while the client's reader may be waiting for the callback. `DeploymentEnds` does not
need it, because the status is written before the first rollback command is published;
`RollbackReachesAll` is checked with robots that do not fail, where all rollbacks are the operator's.

`Session`: while requests are under way the backend serves one of them, in any order (they are finitely
many), and a redirect happens once it is due. `DeviceRegistry`: the heartbeat loop runs while the robot is
up, and the backend takes messages; no command is obliged to begin or to end. Polling and the pages: timers of the browser fire, and a request is answered or fails (the
browser ends a request on a dead connection with an error); on the deploy page, the backend
serves what it is sent. Toasts and dialog have safety properties only.

`LivePreview`: the poll of the source and the timers fire, a child that does not hang or was killed
closes, and the server closes once it was told to (`closeServer` ends its event streams and idle
connections; that requests under way end is an assumption about its clients). `VisualCheck`: the program's own steps and its
timers; Chrome's answers are not assumed, since the timers replace them. Update check, compare and
firmware release: none, because all their properties are safety.

## 5. Proofs

TLC's runs show a property on small instances; the theorems hold for every value of the constants.

| theorem | for |
|---|---|
| `CanaryPhasesProofs`: `PhasesPartitionFleet`, `SmallestFirstPhase`, `PlanIsDispatched`, `BreakIsSafe`, `SplitSound` | fleets of any size |
| `RobotAgentProofs`: `InvHolds`, `TypeCorrect`, `MutualExclusion`, `QuietRobot`, `VerifiedOnly`, `Refinement` | any number of goroutines, versions and restarts |
| `RolloutProofs`: `RolloutInvariant`, `RolloutTyped`, `PhaseNeverUnderstated`, `CanaryIsStaged`, `BreachNeverIgnored` | any fleet, threshold, number of duplicates and of restarts, either strategy (`CanaryIsStaged`: canary) |
| `RolloutCountProofs`: `CountersStayBehind`, `CountersAddUp`, `CompletedOnlyWhenAllSucceeded`, `PhaseNeverGoesBack` | any fleet and threshold, either strategy, reports delivered once (conditions below) |
| `UpdateCheckProofs`: `ClaimsInvariant`, `LiveClaimIsKept`, `ChecksImplementCache` | any number of processes and operations |
| `SkillProofs`: `PreviewShowsVerified`, `StopLeavesNoChild` | any contents, renderings, edits and failures |
| `SkillProofs`: `EvidenceBelongsTogether` | any artifacts, number of views, checks and deliveries |
| `SkillProofs`: `PairIsNeverMixed` | any inputs, runs, faults and kills |
| `SkillProofs`: `SkillIsTyped` | the four archify modules in one behaviour |
| `ComponentsProofs`: `StoresStayInStep` | any set of concurrent requests |
| `ComponentsProofs`: `RegistryInvariant`, `RollbacksGoBack` | any number of deployments and reports under way, with restarts, failures and deletions together |
| `ComponentsProofs`: `SessionInvariant`, `SessionIsKept`, `NobodyWaitsInVain`, `ExpiryAloneNeverFails` | any number of tabs, calls, tokens and lost successors |
| `ComponentsProofs`: `PartsAreTyped` | the five backend components in one behaviour |
| `DashboardProofs`: `PollsInOneChain`, `ToastsLeaveForReasons`, `FocusStaysManaged` | any number of mounts, toasts, openings and renders |
| `DashboardProofs`: `LaunchesAreIntended`, `FinishedIsAnnouncedOnce`, `ListIsCurrent` | any robots and models, releases, requests, failures and lost answers |
| `DashboardProofs`: `WidgetsAreTyped` | the seven dashboard modules in one behaviour |

Assumptions on constants are named in the module that declares them, and TLC evaluates them in the runs:
`RobotAssumption` (the factory version is one of the versions, `IsAGV` is Boolean),
`MaxFleetAssumption`, `RolloutAssumption`, `UpdateAssumption`; `PreviewAssumption` (a rendering is of a
source and is never "nothing"); `SessAssumption` (finitely many tabs); `DeployAssumption` (no robot's
model is called "all", which is the filter's word for every model); `SkillAssumption` (the input of
a preview that stands still is a source); and bounds that are natural numbers (`RegAssumption`,
`MountsAssumption`, `ToastAssumption`, `MonitorAssumption`, `CompareAssumption`).

Three hypotheses are stated in the theorems, since what they say is about the code and not about all
instances: `KeysNameVersions` (equal keys mean equal versions, as the key begins with the version,
`service.go:102`) for the releases; `VisualAssumption` (`NoArtifact` is no artifact and no receipt,
there is a view, the bounds are natural numbers) for the visual check; and those of `RolloutCountProofs`:

- `MaxDup = 0` in all four: a success delivered twice is counted twice, which is the run
  `rollout_double_count`, and the phase goes back when it completes a deployment early;
- `MaxCrash = 0` in `CountersAddUp`: a restart between the row and the counter loses the count
  (`CountersStayBehind` allows restarts);
- `MayRollback # "created"` in `CountersStayBehind` and `CompletedOnlyWhenAllSucceeded`: the operator
  may roll back at any time once `CreateDeployment` has written its rows. Before that, `MarkRunning`
  writes `running` over the rollback; the reports of robots that are sent back then reopen their rows
  and are counted once more, and TLC finds both properties violated;
- `MayRollback = "never"` in `PhaseNeverGoesBack`: with a rollback by the operator TLC finds a launcher past its check
  of the status that records phase 2 after a late report has completed the deployment with phase 3.
  The rollback of the callback is not excluded.

*Phase split.* `Boundaries` puts the two phase ends between 1 and n and bounds the first one by
the 20% rule, by linear integer arithmetic. The theorems follow for every state of the walk, whose
only invariant is that the fleet is not empty.

*Robot agent.* `OneUpdateAtATime` is not inductive alone, because a rollback goroutine moves the
machine as well. The inductive invariant `Inv` adds `RollbackHasOwner` (a machine in `rolling_back`
has a goroutine asleep on the way to end it), `UpdatingHasOwner` (while `status` is "updating" some
goroutine is on the way to write another value) and `CommandsChecked` (what a goroutine established
about its command at an earlier stage). The heart is that every event which takes the machine out of
an update state belongs to the one goroutine at that stage: the late `reset` and `rollback_done` of
others have no transition from there. `Refinement` uses it to map every step to a step of the slot
or to a stutter.

*Rollout.* The recorded phase is written by `runCanary`, by the callback that completes a deployment
and by `Reconcile`, with nothing between them, and read by a dashboard across restarts. `Inv` is `TypeOK`, `LaunchInv` (where the launcher is, against what
it has sent and which phase it is in), `WorkInv` (before there is a deployment nobody works on it),
`RecordInv` (what is recorded is not behind what is being dispatched) and the goal
`PhaseCoversDispatch`. `CanaryIsStaged` follows with one lemma per action: the launcher's position is
the number of devices commanded, and it passes to the next phase only through a check of the
status. `BreachNeverIgnored` needs `BreachInv` beside `Inv`: without a report nothing has failed; the
callback's rollback runs only while the callback waits for it, and once it has marked the row the
deployment is not running; and wherever the callback stands, the failures counted are below the
threshold, but for the one it is about to judge. A restart may come between counting and judging,
which is why the property excludes it.

*Counters, completion and phase.* A report is counted in two statements, after it was read from a
queue that a robot fills. `CountInv` therefore follows each device from its command to its row, as long as no message came
twice: `OneCourse` (until somebody is sent back, a device waits for its update, is at work, has one
last report under way, or is at rest, and its row is open as long as it has not ended), `RowIsOpen`
(the row the callback is about to write has not ended), `MarkedBeforeReverted` (a robot is sent back
only when the deployment is marked, after which nothing is counted), `NothingYet` (until the rows are
written nothing happens to the deployment) and `Counted`: a counter, with the report under way in the
callback, is at most the number of rows with that status, and equal to it until the deployment ends,
without restarts. The set of rows grows by one element when a row is written (`RowWritten`, with the
library's theorems on cardinalities). `CompletionInv` adds that only targets have rows, and that
whoever has decided on completion, or reads a completed deployment, finds a failure or as many
successes as targets. `PhaseParts` adds that a device without a command reports no failure, that a
deployment is rolled back only after a counted failure, and `NotYetDone`: while the launcher is at
the first groups nobody else finds the deployment settled, because the reports counted belong to
devices that were commanded, and some are not.

*Update check.* The question is whether renames of directories, with leases that run out under a
suspended process, implement an atomic cache. `UpdInv` says that numbers belong to one process and
are fresh, that an operation becomes a claim only after its owner file was written, and that a process
about to retire a claim has seen a dead one; since a dead operation never lives again, the rename
takes the right directory even if it comes late. `CommitInv` then carries the linearization point:
an operation that has passed the claim is newer than everything committed (`PassedIsNewest`); one
that has fenced the lower numbers leaves none that can still commit (`LowerIsFenced`); so what it
decided on is the current cache when it commits (`DecisionIsCurrent`). With these, a commit is the step of
`UpdateCache` and every other step changes neither cache nor answers, or answers from the cache.
`TypedInv` carries the types of states and answers along, which rest on `HasLatest`.

*Preview.* Only `CommitCandidate` changes what is shown, and it compares the source with the content
that was built in the same step (in the code the read, the rename and the status are one synchronous
call, `preview.mjs:456-463`: "verified" means current when it was read); every other step shows what was shown (`ShowsTheSame`), and only a
launch that finds the source unchanged turns the status back. For the stop, `StopInv` says that
stopping clears the timer that could start a child, and that the drain's timers belong to a child.

*Evidence and pair.* A receipt that was written or removed without an error is gone, or describes what was
captured last: once the old one is removed none claims captures until the new one is written
(`ReceiptInv`). As long as the artifact is the one read at the start, and was not put back while it was
inspected, so is what Chrome shows and what was captured (`CaptureInv`); the comparison
rules everything else out. What ended in good order left all files or removed them (`EndInv`), but for
those whose removal failed. Each file of the pair is in its place or in the staging directory,
and what is committed was valid when it was read.

*Releases, registry, session.* An object is matched by a row or by an upload under way, outside the keys
whose last call failed (`ObjectsInv`), and a version is recorded once (`RowsInv`). `RegInv` says
that every version that is installed, ordered, sent or recorded is the factory's or that of a deployment
whose command was sent, and that deployments are created in order; so what a deployment records as
the previous version is that of an older one, and never its own. For the session, `TokensInv` says that
while the browser holds a token the server does not know its successor is under way, unless one was lost;
`TabsInv` that the calls of a tab wait for the one refresh of that tab, which is under way; and
`RefusedInv` that with one tab and no successor lost only a token of an earlier session is refused.

*Dashboard.* A live effect has either its timer or its request (`PollInv`). The toasts are numbers
that fall along the list, at most `OnScreen` of them (`ToastInv`), so that one leaves only by its own
timer, its button, or because newer ones fill the screen. A dialog that was never busy remembers
its opener, and the confirm button is focused only while its box is checked (`FocusInv`). At most one
launch request is unanswered, while the page is busy with it; what was created is for the model it
names; and each answered request cost an answer or has left the page (`LaunchInv`). The monitor
has one poll and one reload of a rollback under way at most, and one notice exactly when it remembers
having given it (`MonitorInv`). On the firmware page, without doubt about an answer, one load at most
is under way, and unless an operation was served and is still awaited it brings the catalogue as it
is (`CatalogInv`).

Only model-checked: the liveness properties (`KeepsAcceptingUpdates`, `TabSettles`, `RegistryHeals`,
`KeepsPolling`, `ScreensCatchUp`, `NoPageStaysBusy`, `CatchesUp`, `NothingHangs`, `DeploymentEnds`,
`RollbackReachesAll`), which are outside the prover's reach, and the violation runs. Every invariant
and every action property of a passing run is the subject of a theorem, under the hypotheses above.

## 6. Plan

Done: every component listed as modelled or partly modelled above, the three refinements, the
theorems of section 5. What would add most from here:

1. `TwoDeployments`: overlapping deployments of one robot with the statements of both callbacks;
   `DeviceRegistry` has them as single steps.
2. The delivery and migration commands of `archify.mjs`, which replace files as `compare` does.
3. A weaker form of `CountersStayBehind` and `PhaseMonotone` that survives duplicates and an
   operator's rollback, as lemmas about what those cost at most.
4. A deletion of robots in `Rollout`: `DeleteDevice` reads the status and deletes in two statements,
   so that a robot which came back in between goes with its rows, and a rollback of a deployment it
   takes part in no longer reaches it (`DeviceRegistry` has both steps and the rollback that skips it).

## 7. Not modelled

- Database errors in `Rollout` (statements are taken to succeed; the code ignores most of their
  errors), robots that are never connected, repeated device ids in a request, more than one
  deployment in one `Rollout`, robot restarts in `Rollout` (they are in `RobotAgent` and
  `DeviceRegistry`), robots deleted while `Rollout` runs (in `DeviceRegistry`).
- The lockout counter and the password check of the login, metadata updates of a firmware, the
  validation of a binary (a format check): they neither interleave with what is modelled nor
  touch its state.
- HTTP middleware, JWT parsing, configuration, metrics, signing and verification: stateless, or calls
  of a library whose outcome is a field of a command. Generated queries are covered by the SQL they
  are generated from.
- Presentation: metric cards, badges, the side bar, page buttons under a list, formatting.
- Two comparisons into the same pair of files hold no lock against each other and may mix it; one
  process is modelled. What `compareArchitecture` finds in two snapshots is a pure function and is
  left out; it compares named lists of fields, so that a change of the `brand` of a component or of
  `meta.locale`, which the schema knows, is not among its differences.
- The larger part of the JavaScript of the repository by lines is the rest of archify: layout compilers,
  geometry, renderers, templates, brand marks and checks of rendered files. These are
  deterministic functions of one large input and of floating-point geometry, run in one process,
  with nothing that happens concurrently, fails half-way or must be ordered. A model of them would
  be a transliteration, so no coverage of them is aimed at.
- Documents, `infra`, `ml` and measurement scripts are not part of the running system.
