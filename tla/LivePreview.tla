------------------------------ MODULE LivePreview ------------------------------
(***************************************************************************)
(* The live preview of the archify skill (bin/preview.mjs): a loopback     *)
(* server that watches one input, builds each stable content of it in a    *)
(* child process (archify deliver) and shows the last verified artifact.   *)
(* Its callbacks run one at a time; the file, the watcher, the timers, the *)
(* child and the signals of the operator interleave with them.             *)
(*                                                                         *)
(* sourceEpoch and activeEpoch are only ever compared: "behind" says that  *)
(* they differ, that is, that the source changed since the build began.    *)
(***************************************************************************)
EXTENDS Naturals

CONSTANTS
  Sources,     \* contents the input file may have (also: no file)
  ArtifactOf,  \* what a content that can be delivered is rendered to
  NoContent,   \* no content, no artifact, no file
  MaxChanges,  \* bound on the changes of the input
  MaxMishaps   \* bound on changes of the output by others and failed commits

ASSUME PreviewAssumption ==
  /\ NoContent \notin Sources
  /\ \A s \in DOMAIN ArtifactOf : s \in Sources /\ ArtifactOf[s] # NoContent
  /\ MaxChanges \in Nat /\ MaxMishaps \in Nat

VARIABLES
  source,      \* the input file
  output,      \* the output file
  queuedHash,
  timer,       \* debounceTimer is set
  child,       \* "none", "running", "hung" or "killed"
  activeHash,
  behind,
  pendingBuild,
  lastGood,    \* lastGoodSourceHash
  served,      \* artifactBuffer
  verified,    \* state.lastVerified
  revision,    \* state.revision is odd
  status,      \* state.status
  stopping,
  drain,       \* "none", "grace" (before SIGTERM) or "kill" (before SIGKILL)
  closing,     \* the server: "open", "closing", "closed"
  stopped,
  changes, mishaps

watched == <<source, output, changes, mishaps>>
builds == <<queuedHash, timer, child, activeHash, behind, pendingBuild>>
shows == <<lastGood, served, verified, revision, status>>
shutdown == <<stopping, drain, closing, stopped>>
previewVars == <<watched, builds, shows, shutdown>>

Deliverable == DOMAIN ArtifactOf
Rendered == {ArtifactOf[s] : s \in Deliverable}

(* startPreview, up to the first observation of the source, which starts a *)
(* build at once.                                                          *)
NothingBuilt ==
  /\ source \in Sources /\ output = NoContent /\ changes = 0 /\ mishaps = 0
  /\ queuedHash = source /\ child = "none" /\ activeHash = NoContent
  /\ behind = TRUE /\ pendingBuild = FALSE
  /\ lastGood = NoContent /\ served = NoContent /\ verified = NoContent /\ revision = FALSE
  /\ status = "checking" /\ drain = "none"

PreviewInit ==
  /\ NothingBuilt /\ timer = TRUE
  /\ stopping = FALSE /\ closing = "open" /\ stopped = FALSE

-----------------------------------------------------------------------------
(* The world outside.                                                      *)

EditSource(s) ==
  /\ changes < MaxChanges /\ s # source
  /\ source' = s /\ changes' = changes + 1
  /\ UNCHANGED <<output, mishaps, builds, shows, shutdown>>

TouchOutput ==
  /\ mishaps < MaxMishaps /\ output # NoContent
  /\ output' = NoContent /\ mishaps' = mishaps + 1
  /\ UNCHANGED <<source, changes, builds, shows, shutdown>>

ChildHangs ==
  /\ child = "running" /\ child' = "hung"
  /\ UNCHANGED <<watched, queuedHash, timer, activeHash, behind, pendingBuild, shows, shutdown>>

-----------------------------------------------------------------------------
(* Observing the source, and the debounced launch.                         *)

(* queueStableBuild.                                                       *)
Queue(hash) == queuedHash' = hash /\ timer' = TRUE

(* The watcher or the poll timer; both are gone after a stop.              *)
ObserveSource ==
  /\ ~stopping /\ source # queuedHash
  /\ Queue(source) /\ behind' = TRUE
  /\ UNCHANGED <<watched, child, activeHash, pendingBuild, shows, shutdown>>

Fired == timer /\ ~stopping

LaunchChanged ==
  /\ Fired /\ source # queuedHash /\ Queue(source)
  /\ UNCHANGED <<watched, child, activeHash, behind, pendingBuild, shows, shutdown>>

(* Nothing to build; a failure or a build of another content is over.      *)
LaunchKnown ==
  /\ Fired /\ source = queuedHash /\ source = lastGood
  /\ timer' = FALSE
  /\ status' = IF verified # NoContent THEN "verified" ELSE status
  /\ UNCHANGED <<watched, queuedHash, child, activeHash, behind, pendingBuild,
                 lastGood, served, verified, revision, shutdown>>

LaunchLater ==
  /\ Fired /\ source = queuedHash /\ source # lastGood /\ child # "none"
  /\ timer' = FALSE /\ pendingBuild' = TRUE
  /\ UNCHANGED <<watched, queuedHash, child, activeHash, behind, shows, shutdown>>

BeginBuild ==
  /\ Fired /\ source = queuedHash /\ source # lastGood /\ child = "none"
  /\ timer' = FALSE /\ child' = "running"
  /\ activeHash' = source /\ behind' = FALSE
  /\ status' = "checking"
  /\ UNCHANGED <<watched, queuedHash, pendingBuild, lastGood, served, verified, revision, shutdown>>

(* The snapshot of the input cannot be written: no child, no retry.        *)
SnapshotFails ==
  /\ Fired /\ source = queuedHash /\ source # lastGood /\ child = "none"
  /\ mishaps < MaxMishaps /\ mishaps' = mishaps + 1
  /\ timer' = FALSE /\ activeHash' = source /\ behind' = FALSE
  /\ status' = "needs-fix"
  /\ UNCHANGED <<source, output, changes, queuedHash, child, pendingBuild,
                 lastGood, served, verified, revision, shutdown>>

-----------------------------------------------------------------------------
(* The child closes.                                                       *)

(* What follows when the result is out of date or another build waits.     *)
Requeue(superseded) ==
  /\ child' = "none" /\ drain' = "none"
  /\ IF pendingBuild \/ behind \/ superseded
     THEN Queue(source) /\ pendingBuild' = FALSE /\ behind' = (behind \/ superseded)
     ELSE UNCHANGED <<queuedHash, timer, pendingBuild, behind>>
  /\ UNCHANGED <<activeHash, stopping, closing, stopped, source, changes>>

Closes == child = "running" /\ ~stopping
Delivered == activeHash \in Deliverable
SameArtifact == verified # NoContent /\ verified = ArtifactOf[activeHash]

(* Mutant of ChildIsStale: the stale result is dropped, and that is all.   *)
DropStale ==
  /\ Closes /\ behind /\ child' = "none" /\ drain' = "none"
  /\ UNCHANGED <<watched, queuedHash, timer, activeHash, behind, pendingBuild, shows,
                 stopping, closing, stopped>>

ChildIsStale ==
  /\ Closes /\ behind /\ Requeue(FALSE)
  /\ UNCHANGED <<output, mishaps, shows>>

(* Mutant of CommitCandidate: the source is not read again.                *)
CommitUnread ==
  /\ Closes /\ ~behind /\ Delivered
  /\ output' = ArtifactOf[activeHash]
  /\ served' = ArtifactOf[activeHash] /\ lastGood' = activeHash /\ status' = "verified"
  /\ verified' = ArtifactOf[activeHash]
  /\ revision' = IF SameArtifact THEN revision ELSE ~revision
  /\ Requeue(FALSE)
  /\ UNCHANGED mishaps

(* commitCandidate: the digest of the candidate is that of the receipt,    *)
(* and the source still is what was built.  It is read once (preview.mjs   *)
(* :456); the rename and the status (460-463) follow in the same call and  *)
(* are one step with the read: an edit in between is one that comes right  *)
(* after the step, and is observed by the next poll.                       *)
CommitCandidate ==
  /\ Closes /\ ~behind /\ Delivered /\ source = activeHash
  /\ output' = IF SameArtifact /\ output = verified THEN output ELSE ArtifactOf[activeHash]
  /\ served' = ArtifactOf[activeHash] /\ lastGood' = activeHash /\ status' = "verified"
  /\ verified' = ArtifactOf[activeHash]
  /\ revision' = IF SameArtifact THEN revision ELSE ~revision
  /\ Requeue(FALSE)
  /\ UNCHANGED mishaps

BuildSuperseded ==
  /\ Closes /\ ~behind /\ Delivered /\ source # activeHash
  /\ Requeue(TRUE)
  /\ UNCHANGED <<output, mishaps, shows>>

(* A read or the rename throws.                                            *)
CommitFails ==
  /\ Closes /\ ~behind /\ Delivered
  /\ mishaps < MaxMishaps /\ mishaps' = mishaps + 1
  /\ status' = "needs-fix" /\ Requeue(FALSE)
  /\ UNCHANGED <<output, lastGood, served, verified, revision>>

BuildFails ==
  /\ Closes /\ ~behind /\ ~Delivered
  /\ status' = "needs-fix" /\ Requeue(FALSE)
  /\ UNCHANGED <<output, mishaps, lastGood, served, verified, revision>>

(* Mutant of ClosesStopping: the child is waited for by nobody.            *)
ClosesUnseen ==
  /\ stopping /\ child \in {"running", "killed"}
  /\ child' = "none" /\ drain' = "none"
  /\ UNCHANGED <<watched, queuedHash, timer, activeHash, behind, pendingBuild, shows,
                 stopping, closing, stopped>>

(* Its result is dropped; finishStop waits for the server as well.         *)
ClosesStopping ==
  /\ stopping /\ child \in {"running", "killed"}
  /\ child' = "none" /\ drain' = "none"
  /\ stopped' = (stopped \/ closing = "closed")
  /\ UNCHANGED <<watched, queuedHash, timer, activeHash, behind, pendingBuild, shows,
                 stopping, closing>>

-----------------------------------------------------------------------------
(* stop: the first signal waits for a running child, the next one kills it.*)

Stop ==
  /\ ~stopping /\ stopping' = TRUE /\ closing' = "closing" /\ timer' = FALSE
  /\ drain' = IF child # "none" /\ drain = "none" THEN "grace" ELSE drain
  /\ UNCHANGED <<watched, queuedHash, child, activeHash, behind, pendingBuild, shows, stopped>>

ForceStop ==
  /\ stopping /\ child # "none"
  /\ drain' = "none" /\ child' = "killed"
  /\ UNCHANGED <<watched, queuedHash, timer, activeHash, behind, pendingBuild, shows,
                 stopping, closing, stopped>>

ServerCloses ==
  /\ closing = "closing" /\ closing' = "closed"
  /\ stopped' = (child = "none")
  /\ UNCHANGED <<watched, builds, shows, stopping, drain>>

(* SIGTERM ends a child that runs normally, not one that hangs.            *)
GraceEnds ==
  /\ drain = "grace" /\ drain' = "kill"
  /\ child' = IF child = "running" THEN "killed" ELSE child
  /\ UNCHANGED <<watched, queuedHash, timer, activeHash, behind, pendingBuild, shows,
                 stopping, closing, stopped>>

KillTimeEnds ==
  /\ drain = "kill" /\ drain' = "none" /\ child' = "killed"
  /\ UNCHANGED <<watched, queuedHash, timer, activeHash, behind, pendingBuild, shows,
                 stopping, closing, stopped>>

Launch == LaunchChanged \/ LaunchKnown \/ LaunchLater \/ BeginBuild
ChildCloses == ChildIsStale \/ CommitCandidate \/ BuildSuperseded \/ BuildFails

PreviewNext ==
  \/ \E s \in Sources : EditSource(s)
  \/ TouchOutput \/ ChildHangs \/ ObserveSource
  \/ Launch \/ SnapshotFails \/ ChildCloses \/ CommitFails
  \/ ClosesStopping \/ Stop \/ ForceStop \/ ServerCloses \/ GraceEnds \/ KillTimeEnds

(* The poll and the timers fire; a build that does not hang ends, and so   *)
(* does one that was killed; the last connection to the server ends.       *)
PreviewFairness ==
  /\ WF_previewVars(ObserveSource) /\ WF_previewVars(Launch) /\ WF_previewVars(ChildCloses)
  /\ WF_previewVars(ClosesStopping) /\ WF_previewVars(ServerCloses)
  /\ WF_previewVars(GraceEnds) /\ WF_previewVars(KillTimeEnds)

PreviewSpec == PreviewInit /\ [][PreviewNext]_previewVars /\ PreviewFairness

-----------------------------------------------------------------------------
PreviewTypeOK ==
  /\ source \in Sources /\ output \in Rendered \union {NoContent}
  /\ changes \in 0..MaxChanges /\ mishaps \in 0..MaxMishaps
  /\ queuedHash \in Sources /\ timer \in BOOLEAN
  /\ child \in {"none", "running", "hung", "killed"} /\ activeHash \in Sources \union {NoContent}
  /\ behind \in BOOLEAN /\ pendingBuild \in BOOLEAN
  /\ lastGood \in Deliverable \union {NoContent}
  /\ served \in Rendered \union {NoContent} /\ verified = served
  /\ revision \in BOOLEAN /\ status \in {"checking", "verified", "needs-fix"}
  /\ stopping \in BOOLEAN /\ drain \in {"none", "grace", "kill"}
  /\ closing \in {"open", "closing", "closed"} /\ stopped \in BOOLEAN

(* "advances only after the existing verified delivery pipeline passes.    *)
(* Invalid, half-written, deleted, or superseded input leaves the previous *)
(* verified revision on screen and on disk." (delivery-contract.md): the   *)
(* preview turns "verified" only for the content the source had when it    *)
(* was read for that, at the end of the build (preview.mjs:456) or before  *)
(* a launch that finds it unchanged (560), and what it serves changes with *)
(* the revision and with the output file, whatever edits, builds and       *)
(* timers were under way.                                                  *)
VerifiedIsCurrent ==
  [][ /\ status # "verified" /\ status' = "verified" => source = lastGood'
      /\ lastGood' # lastGood => served' = ArtifactOf[lastGood'] /\ output' = served'
      /\ (served' # served) <=> (revision' # revision) ]_previewVars

Failed == status = "needs-fix"

(* Once the source rests, the preview shows it or says what is wrong with  *)
(* it, however many builds were started, superseded or stale before;       *)
(* unless it is stopped or the build hangs.                                *)
CatchesUp ==
  []<>(\/ stopping \/ child = "hung"
       \/ IF source \in Deliverable
          THEN (status = "verified" /\ lastGood = source) \/ (Failed /\ mishaps > 0)
          ELSE Failed)

(* A stop ends, with a child that hangs as well, and no child outlives it. *)
StopEnds == []<>(stopping => stopped) /\ [](stopped => child = "none")
=============================================================================
