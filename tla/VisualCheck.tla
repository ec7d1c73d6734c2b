------------------------------ MODULE VisualCheck ------------------------------
(***************************************************************************)
(* archify visual-check (bin/visual-check.mjs): loads a delivered artifact *)
(* in Chrome once per view, measures it, captures screenshots, and leaves  *)
(* them beside the artifact with a contact sheet and a receipt.  Commands  *)
(* to Chrome and its events travel through one pipe; every one of them may *)
(* be answered, time out, or fail with the process; a file that cannot be  *)
(* removed is left without a word.  Meanwhile the artifact may be          *)
(* delivered anew.                                                         *)
(***************************************************************************)
EXTENDS Naturals

CONSTANTS
  Artifacts,      \* contents of the artifact
  NoArtifact,
  Views,          \* number of views, one command sequence each
  MaxDeliveries,  \* bound on how often the artifact is delivered anew
  MaxChecks       \* bound on how often the command is run

VARIABLES
  artifact,    \* the delivered file
  shots,       \* file -> the artifact that the capture shows or the sheet names
  receipt,     \* None, or [status, artifact, captures]
  place,       \* where the command is
  started,     \* the artifact as read at the start
  view,        \* which one is inspected
  page,        \* what Chrome has loaded
  waiter,      \* waitFor(Page.loadEventFired)
  chrome,      \* "none", "up" or "gone"
  clean,       \* every measurement so far passes
  stuck,       \* captures whose last removal failed
  stale,       \* the last removal or writing of the receipt failed
  restored,    \* the artifact read at the start came back during the inspection
  deliveries, checks

files == <<shots, receipt, stuck, stale>>
browser == <<view, page, waiter, chrome, clean>>
visualVars == <<artifact, files, place, started, browser, restored, deliveries, checks>>

(* The files that a receipt vouches for: the contact sheet, 0, and one     *)
(* screenshot per view.                                                    *)
Evidence == 0..Views

Receipt(outcome, captures) == [status |-> outcome, artifact |-> started, captures |-> captures]

VisualInit ==
  /\ artifact \in Artifacts
  /\ shots = [f \in Evidence |-> NoArtifact] /\ receipt = NoArtifact
  /\ stuck = {} /\ stale = FALSE
  /\ place = "idle" /\ started = NoArtifact
  /\ view = 1 /\ page = NoArtifact /\ waiter = "none" /\ chrome = "none" /\ clean = TRUE
  /\ restored = FALSE /\ deliveries = 0 /\ checks = 0

MoveTo(next) == place' = next
Keep(vars) == UNCHANGED <<artifact, started, restored, deliveries, checks, vars>>

(* The inspection of a view.                                               *)
Awaiting == {"resize", "navigate", "load", "measure", "capture"}

(* The process has ended: in good order, by a signal or by an exception.   *)
Over == place \in {"idle", "died"}

Deliver(a) ==
  /\ a # artifact /\ deliveries < MaxDeliveries
  /\ artifact' = a /\ deliveries' = deliveries + 1
  /\ restored' = (restored \/ (a = started /\ place \in Awaiting \union {"compare"}))
  /\ UNCHANGED <<files, place, started, browser, checks>>

-----------------------------------------------------------------------------
(* runVisualCheck, before Chrome runs.                                     *)

Begin ==
  /\ Over /\ checks < MaxChecks /\ MoveTo("clean")
  /\ checks' = checks + 1
  /\ started' = artifact
  /\ view' = 1 /\ page' = NoArtifact /\ waiter' = "none" /\ chrome' = "none" /\ clean' = TRUE
  /\ UNCHANGED <<artifact, files, restored, deliveries>>

(* safeUnlink of every capture: some that exist may stay, and no error     *)
(* says so.                                                                *)
Removed(stay) ==
  /\ \A f \in stay : shots[f] # NoArtifact
  /\ shots' = [f \in Evidence |-> IF f \in stay THEN shots[f] ELSE NoArtifact]
  /\ stuck' = stay

CleanupCaptures ==
  /\ place = "clean" /\ MoveTo("unlink")
  /\ \E stay \in SUBSET Evidence : Removed(stay)
  /\ Keep(<<receipt, stale, browser>>)

(* safeUnlink of the receipt.                                              *)
UnlinkReceipt ==
  /\ place = "unlink" /\ MoveTo("launch")
  /\ \/ receipt' = NoArtifact /\ stale' = FALSE
     \/ receipt # NoArtifact /\ UNCHANGED receipt /\ stale' = TRUE
  /\ restored' = FALSE
  /\ UNCHANGED <<artifact, started, deliveries, checks, shots, stuck, browser>>

(* persistReceipt renames a temporary file, or throws.                     *)
Persisted(outcome, captures) ==
  receipt' = Receipt(outcome, captures) /\ stale' = FALSE
PersistFails == UNCHANGED receipt /\ stale' = TRUE

NoChrome ==
  /\ place = "launch"
  /\ \/ Persisted("skipped", FALSE) /\ MoveTo("idle")
     \/ PersistFails /\ MoveTo("died")
  /\ Keep(<<shots, stuck, browser>>)

LaunchChrome ==
  /\ place = "launch"
  /\ \/ MoveTo("resize") /\ chrome' = "up"
     \/ MoveTo("failed") /\ UNCHANGED chrome
  /\ Keep(<<files, view, page, waiter, clean>>)

-----------------------------------------------------------------------------
(* inspect: one command after the other.                                   *)

Resized ==
  /\ place = "resize" /\ chrome = "up" /\ MoveTo("navigate")
  /\ waiter' = "waiting"
  /\ Keep(<<files, view, page, chrome, clean>>)

(* Chrome commits the navigation and answers; the load event may come      *)
(* before the answer is handled.                                           *)
Navigated ==
  /\ place = "navigate" /\ chrome = "up" /\ MoveTo("load")
  /\ page' = artifact
  /\ waiter' \in {"waiting", "fired"}
  /\ Keep(<<files, view, chrome, clean>>)

NavigationError ==
  /\ place = "navigate" /\ chrome = "up" /\ MoveTo("failed")
  /\ Keep(<<files, browser>>)

LoadEvent ==
  /\ place = "load" /\ chrome = "up" /\ waiter = "waiting"
  /\ waiter' = "fired"
  /\ UNCHANGED place /\ Keep(<<files, view, page, chrome, clean>>)

Loaded ==
  /\ place = "load" /\ waiter = "fired" /\ MoveTo("measure")
  /\ waiter' = "none"
  /\ Keep(<<files, view, page, chrome, clean>>)

Measured ==
  /\ place = "measure" /\ chrome = "up" /\ MoveTo("capture")
  /\ clean' \in {clean, FALSE}
  /\ Keep(<<files, view, page, waiter, chrome>>)

(* The screenshot is written in place; a write that fails may have begun.  *)
Captured ==
  /\ place = "capture" /\ chrome = "up"
  /\ shots' = [shots EXCEPT ![view] = page] /\ stuck' = stuck \ {view}
  /\ \/ view = Views /\ MoveTo("compare") /\ UNCHANGED view
     \/ view < Views /\ MoveTo("resize") /\ view' = view + 1
     \/ MoveTo("failed") /\ UNCHANGED view
  /\ Keep(<<receipt, stale, page, waiter, chrome, clean>>)

-----------------------------------------------------------------------------
(* The ways a command fails.                                               *)

(* Mutant of TimesOut: waitFor has no timer.                               *)
CommandTimesOut ==
  /\ place \in Awaiting \ {"load"} /\ MoveTo("failed")
  /\ waiter' = IF place = "navigate" THEN "none" ELSE waiter
  /\ Keep(<<files, view, page, chrome, clean>>)

(* A command, or the load event that is awaited, times out.  During the    *)
(* navigation the timer of the event was set first, and nobody awaits its  *)
(* promise yet: the process ends with an unhandled rejection, before the   *)
(* answer's own timer.                                                     *)
TimesOut ==
  /\ place \in Awaiting
  /\ IF place = "navigate" THEN MoveTo("died") ELSE MoveTo("failed")
  /\ waiter' = IF place \in {"navigate", "load"} THEN "none" ELSE waiter
  /\ Keep(<<files, view, page, chrome, clean>>)

(* Chrome ends: failAll rejects every pending command and waiter.          *)
ChromeEnds ==
  /\ place \in Awaiting /\ chrome = "up"
  /\ MoveTo("failed") /\ chrome' = "gone"
  /\ waiter' = IF waiter = "waiting" /\ place = "navigate" THEN "rejected" ELSE "none"
  /\ Keep(<<files, view, page, clean>>)

-----------------------------------------------------------------------------
(* runVisualCheck, after the last view or a failure.                       *)

(* Mutant of Compare: the artifact is not read again.                      *)
TrustArtifact ==
  /\ place = "compare" /\ MoveTo("sheet")
  /\ Keep(<<files, browser>>)

Compare ==
  /\ place = "compare"
  /\ MoveTo(IF artifact = started THEN "sheet" ELSE "failed")
  /\ Keep(<<files, browser>>)

WriteSheet ==
  /\ place = "sheet"
  /\ \/ shots' = [shots EXCEPT ![0] = started] /\ stuck' = stuck \ {0} /\ MoveTo("receipt")
     \/ UNCHANGED <<shots, stuck>> /\ MoveTo("failed")
  /\ Keep(<<receipt, stale, browser>>)

WriteReceipt ==
  /\ place = "receipt"
  /\ \/ Persisted(IF clean THEN "pass" ELSE "fail", TRUE) /\ MoveTo("close")
     \/ PersistFails /\ MoveTo("failed")
  /\ Keep(<<shots, stuck, browser>>)

(* The handler runs before the rejection of a waiter that nobody awaits    *)
(* ends the process; its "finally" closes the browser also when the        *)
(* receipt cannot be written.                                              *)
RecordFailure ==
  /\ place = "failed"
  /\ \E stay \in SUBSET Evidence : Removed(stay)
  /\ Persisted("fail", FALSE) \/ PersistFails
  /\ MoveTo(IF waiter = "rejected" THEN "died" ELSE IF chrome = "none" THEN "idle" ELSE "close")
  /\ Keep(browser)

(* close rejects what still waits; a forgotten waiter ends the process.    *)
Close ==
  /\ place = "close" /\ MoveTo(IF waiter = "waiting" THEN "died" ELSE "idle")
  /\ chrome' = "gone" /\ waiter' = "none"
  /\ Keep(<<files, view, page, clean>>)

Killed ==
  /\ ~Over /\ MoveTo("died")
  /\ Keep(<<files, browser>>)

Answers == Resized \/ Navigated \/ NavigationError \/ LoadEvent \/ Measured \/ Captured

Step ==
  \/ CleanupCaptures \/ UnlinkReceipt \/ NoChrome \/ LaunchChrome
  \/ Loaded \/ TimesOut \/ Compare \/ WriteSheet \/ WriteReceipt \/ RecordFailure \/ Close

VisualNext ==
  \/ \E a \in Artifacts : Deliver(a)
  \/ Begin \/ Answers \/ Step \/ ChromeEnds \/ Killed

(* The program runs and its timers fire; Chrome may never answer.          *)
VisualFairness == WF_visualVars(Step)

VisualSpec == VisualInit /\ [][VisualNext]_visualVars /\ VisualFairness

-----------------------------------------------------------------------------
Receipts == [status : {"pass", "fail", "skipped"}, artifact : Artifacts, captures : BOOLEAN]

VisualTypeOK ==
  /\ artifact \in Artifacts /\ shots \in [Evidence -> Artifacts \union {NoArtifact}]
  /\ receipt = NoArtifact \/ receipt \in Receipts
  /\ stuck \subseteq Evidence /\ stale \in BOOLEAN /\ restored \in BOOLEAN
  /\ place \in Awaiting \union {"idle", "clean", "unlink", "launch", "compare", "sheet", "receipt",
                             "failed", "close", "died"}
  /\ started \in Artifacts \union {NoArtifact} /\ view \in 1..Views
  /\ page \in Artifacts \union {NoArtifact}
  /\ waiter \in {"none", "waiting", "fired", "rejected"} /\ chrome \in {"none", "up", "gone"}
  /\ clean \in BOOLEAN /\ deliveries \in 0..MaxDeliveries /\ checks \in 0..MaxChecks

(* "The receipt binds the source artifact" (delivery-contract.md): at any  *)
(* moment, also after a crash of the command or of Chrome and during the   *)
(* next check, a receipt that claims captures lies beside captures and a   *)
(* sheet of its own artifact only; and a check that ended in good order    *)
(* left all of them with such a receipt, or none.  Two things the code     *)
(* cannot promise: a file it could not remove or write over is what it     *)
(* was, and an artifact that came back to what it was at the start has not *)
(* changed for the comparison.                                             *)
EvidenceIsBound ==
  LET claimed == receipt # NoArtifact /\ receipt.captures /\ ~stale
  IN  /\ claimed /\ ~restored =>
           \A f \in Evidence :
             \/ shots[f] = receipt.artifact
             \/ shots[f] = NoArtifact /\ place # "idle"
      /\ place = "idle" /\ ~claimed =>
           \A f \in Evidence : shots[f] = NoArtifact \/ f \in stuck

(* A check ends, with a Chrome that hangs or crashes as well.              *)
CheckEnds == []<>Over

(* "`failed` maps from exit 1 and receipt `status: "fail"` when [...] the  *)
(* command fails, or a runtime/capture error leaves the evidence           *)
(* incomplete" (delivery-contract.md:56).  Not so when a navigation times  *)
(* out, though the receipt could have been written.                        *)
FailureIsRecorded ==
  [][Over' /\ ~Over /\ ~Killed => receipt' # NoArtifact \/ stale']_visualVars
=============================================================================
