------------------------------ MODULE SkillProofs ------------------------------
(***************************************************************************)
(* The programs of the archify skill that meet other processes: the        *)
(* evidence of a visual check belongs to the artifact its receipt names,   *)
(* the preview shows what was verified, and an artifact never stands       *)
(* beside the receipt of another one, for any number of views, artifacts   *)
(* and runs, and wherever a call fails or a process ends.                  *)
(***************************************************************************)
EXTENDS MCSkill, UpdateCheckProofs

(* The visual check.                                                       *)

VisualAssumption ==
  /\ NoArtifact \notin Artifacts /\ NoArtifact \notin Receipts
  /\ Views \in Nat \ {0}
  /\ MaxDeliveries \in Nat /\ MaxChecks \in Nat

(* After the old evidence was removed and before the new one is recorded.  *)
Working == Awaiting \union {"launch", "compare", "sheet", "receipt", "failed"}

(* There is a receipt that claims captures, and it is not a leftover.      *)
Claimed == receipt # NoArtifact /\ receipt.captures /\ ~stale

(* A file beside the artifact: a capture of "shown", or one left behind.   *)
Absent(f) == shots[f] = NoArtifact \/ f \in stuck
Captures(shown) == \A v \in 1..Views : shots[v] = shown

EvidenceTyped ==
  /\ artifact \in Artifacts /\ started \in Artifacts \union {NoArtifact}
  /\ shots \in [Evidence -> Artifacts \union {NoArtifact}]
  /\ stuck \subseteq Evidence /\ stale \in BOOLEAN /\ restored \in BOOLEAN
  /\ page \in Artifacts \union {NoArtifact} /\ view \in 1..Views
  /\ place \in Working \union {"idle", "died", "clean", "unlink", "close"}
  /\ ~Over => started \in Artifacts

(* The old receipt is gone, or known to be left, before the first new      *)
(* capture; until then it lies beside its own captures.                    *)
ReceiptInv ==
  /\ place \in Working => ~Claimed
  /\ Claimed /\ ~restored => \A f \in Evidence : shots[f] \in {NoArtifact, receipt.artifact}

(* As long as the artifact is the one read at the start, and was not put   *)
(* back while it was inspected, so is what Chrome shows and what was       *)
(* captured; the comparison rules everything else out.                     *)
Unchanged == artifact = started /\ ~restored

CaptureInv ==
  /\ place \in {"clean", "unlink", "launch"} => view = 1
  /\ place \in {"unlink", "launch"} => \A f \in Evidence : Absent(f)
  /\ place \in {"load", "measure", "capture"} /\ Unchanged => page = started
  /\ place \in Awaiting /\ Unchanged => \A v \in 1..Views : v < view => shots[v] = started
  /\ place = "compare" /\ Unchanged => Captures(started)
  /\ place \in {"sheet", "receipt"} /\ ~restored => Captures(started)
  /\ place = "receipt" => shots[0] = started

(* A command that is about to end in good order, or did, left everything   *)
(* or nothing.                                                             *)
EndInv ==
  place \in {"close", "idle"} =>
    /\ Claimed /\ ~restored => \A f \in Evidence : shots[f] = receipt.artifact
    /\ ~Claimed => \A f \in Evidence : Absent(f)

EvidenceInv == EvidenceTyped /\ ReceiptInv /\ CaptureInv /\ EndInv

USE DEF Awaiting, Working, Over, MoveTo, Keep, files, browser, Receipt, Evidence
-----------------------------------------------------------------------------
LEMMA EvidenceInitially == VisualAssumption /\ VisualInit => EvidenceInv
<1> SUFFICES ASSUME VisualAssumption, VisualInit
             PROVE  EvidenceInv
  OBVIOUS
<1>1. ~Claimed /\ \A f \in Evidence : Absent(f)
  BY DEF VisualInit, Claimed, Absent
<1>2. EvidenceTyped
  <2>1. shots \in [Evidence -> Artifacts \union {NoArtifact}]
    BY Zenon DEF VisualInit
  <2>2. stale \in BOOLEAN /\ restored \in BOOLEAN
    BY Zenon DEF VisualInit
  <2>3. view \in 1..Views
    BY DEF VisualAssumption, VisualInit
  <2>4. QED
    BY <2>1, <2>2, <2>3 DEF VisualInit, EvidenceTyped
<1>3. ReceiptInv /\ CaptureInv /\ EndInv
  BY <1>1 DEF VisualInit, ReceiptInv, CaptureInv, EndInv
<1>4. QED
  BY <1>2, <1>3 DEF EvidenceInv

(* What the invariant says of the files depends on nothing else.           *)
LEMMA ClaimDepends ==
  ASSUME UNCHANGED <<receipt, stale, shots, stuck>>
  PROVE  /\ Claimed' = Claimed
         /\ \A f : Absent(f)' = Absent(f)
         /\ \A shown : (\A v \in 1..Views : shots'[v] = shown) <=> Captures(shown)
BY DEF Claimed, Absent, Captures

(* A delivery: from then on the artifact differs from the one read at the  *)
(* start, or what is inspected has been restored.                          *)
LEMMA DeliverKeeps ==
  ASSUME VisualAssumption, EvidenceInv, NEW a \in Artifacts, Deliver(a)
  PROVE  EvidenceInv'
<1>1. /\ artifact' = a /\ artifact' # artifact
      /\ place \in Awaiting \union {"compare"} /\ artifact' = started => restored'
      /\ restored' \in BOOLEAN /\ (restored => restored')
      /\ UNCHANGED <<shots, receipt, stuck, stale, place, started, view, page>>
  BY DEF VisualAssumption, EvidenceInv, EvidenceTyped, Deliver
<1>2. /\ place \in Awaiting \union {"compare"} => ~Unchanged'
      /\ Claimed' = Claimed /\ \A f : Absent(f)' = Absent(f)
  BY <1>1, ClaimDepends DEF Unchanged
<1>3. EvidenceTyped'
  BY <1>1 DEF EvidenceInv, EvidenceTyped
<1>4. ReceiptInv' /\ EndInv'
  BY <1>1, <1>2 DEF EvidenceInv, ReceiptInv, EndInv
<1>5. CaptureInv'
  BY <1>1, <1>2 DEF EvidenceInv, CaptureInv, Captures
<1>6. QED
  BY <1>3, <1>4, <1>5 DEF EvidenceInv

(* A new check reads the artifact afresh; the evidence stays as it is.     *)
LEMMA BeginKeeps ==
  ASSUME VisualAssumption, EvidenceInv, Begin
  PROVE  EvidenceInv'
<1>1. /\ UNCHANGED <<shots, receipt, stuck, stale, artifact, restored>>
      /\ place' = "clean" /\ started' = artifact /\ view' = 1 /\ page' = NoArtifact
  BY DEF Begin
<1>2. Claimed' = Claimed
  BY <1>1, ClaimDepends
<1>3. EvidenceTyped'
  BY <1>1 DEF VisualAssumption, EvidenceInv, EvidenceTyped
<1>4. ReceiptInv' /\ CaptureInv' /\ EndInv'
  BY <1>1, <1>2 DEF EvidenceInv, ReceiptInv, CaptureInv, EndInv
<1>5. QED
  BY <1>3, <1>4 DEF EvidenceInv

(* What the removal leaves of the captures.                                *)
LEMMA RemovalLeaves ==
  ASSUME EvidenceTyped, NEW stay \in SUBSET Evidence, Removed(stay)
  PROVE  /\ shots' \in [Evidence -> Artifacts \union {NoArtifact}]
         /\ stuck' \subseteq Evidence
         /\ \A f \in Evidence : shots'[f] \in {shots[f], NoArtifact}
         /\ \A f \in Evidence : shots'[f] = NoArtifact \/ f \in stuck'
BY DEF EvidenceTyped, Removed

(* The old evidence is removed, captures first, as far as it can be.       *)
LEMMA RemovalKeeps ==
  ASSUME VisualAssumption, EvidenceInv, CleanupCaptures \/ UnlinkReceipt
  PROVE  EvidenceInv'
<1>1. CASE CleanupCaptures
  <2>1. /\ UNCHANGED <<artifact, started, restored, receipt, stale, view, page>>
        /\ place = "clean" /\ place' = "unlink"
    BY <1>1 DEF CleanupCaptures
  <2>2. /\ shots' \in [Evidence -> Artifacts \union {NoArtifact}]
        /\ stuck' \subseteq Evidence
        /\ \A f \in Evidence : shots'[f] \in {shots[f], NoArtifact}
    BY <1>1, RemovalLeaves DEF CleanupCaptures, EvidenceInv
  <2>3. Claimed' = Claimed
    BY <2>1 DEF Claimed
  <2>4. EvidenceTyped'
    BY <2>1, <2>2 DEF EvidenceInv, EvidenceTyped
  <2>5. ReceiptInv'
    BY <2>1, <2>2, <2>3 DEF EvidenceInv, ReceiptInv
  <2>6. \A f \in Evidence : Absent(f)'
    BY <1>1, RemovalLeaves DEF CleanupCaptures, EvidenceInv, Absent
  <2>7. CaptureInv' /\ EndInv'
    BY <2>1, <2>6 DEF EvidenceInv, CaptureInv, EndInv
  <2>8. QED
    BY <2>4, <2>5, <2>7 DEF EvidenceInv
<1>2. CASE UnlinkReceipt
  <2>1. /\ UNCHANGED <<artifact, started, shots, stuck, view, page>>
        /\ place = "unlink" /\ place' = "launch" /\ restored' = FALSE
        /\ stale' \in BOOLEAN /\ (receipt' = NoArtifact \/ stale')
    BY <1>2 DEF UnlinkReceipt
  <2>2. ~Claimed'
    BY <2>1 DEF Claimed
  <2>3. EvidenceTyped'
    BY <2>1 DEF EvidenceInv, EvidenceTyped
  <2>4. ReceiptInv' /\ CaptureInv' /\ EndInv'
    BY <2>1, <2>2 DEF EvidenceInv, ReceiptInv, CaptureInv, EndInv, Absent
  <2>5. QED
    BY <2>3, <2>4 DEF EvidenceInv
<1>3. QED
  BY <1>1, <1>2

(* Chrome is missing, or starts with nothing captured.                     *)
LEMMA LaunchKeeps ==
  ASSUME VisualAssumption, EvidenceInv, NoChrome \/ LaunchChrome
  PROVE  EvidenceInv'
<1>1. /\ UNCHANGED <<artifact, started, restored, shots, stuck, view, page>>
      /\ place = "launch" /\ stale' \in BOOLEAN
      /\ ~Claimed' /\ place' \in {"idle", "died", "resize", "failed"}
  <2>1. CASE NoChrome
    <3>1. (receipt'.captures = FALSE /\ stale' = FALSE) \/ stale' = TRUE
      BY <2>1 DEF NoChrome, Persisted, PersistFails
    <3>2. ~Claimed' /\ stale' \in BOOLEAN
      BY <3>1 DEF Claimed
    <3>3. QED
      BY <2>1, <3>2 DEF NoChrome
  <2>2. CASE LaunchChrome
    BY <2>2 DEF LaunchChrome, EvidenceInv, EvidenceTyped, ReceiptInv, Claimed
  <2>3. QED
    BY <2>1, <2>2
<1>2. /\ \A f \in Evidence : Absent(f)'
      /\ view = 1
  BY <1>1 DEF EvidenceInv, CaptureInv, Absent
<1>3. EvidenceTyped'
  BY <1>1 DEF EvidenceInv, EvidenceTyped
<1>4. ReceiptInv' /\ EndInv'
  BY <1>1, <1>2 DEF EvidenceInv, ReceiptInv, EndInv
<1>5. CaptureInv'
  BY <1>1, <1>2 DEF EvidenceInv, CaptureInv
<1>6. QED
  BY <1>3, <1>4, <1>5 DEF EvidenceInv

(* Commands that touch neither page nor files, whether they are answered,  *)
(* time out or fail with Chrome.                                           *)
LEMMA CommandKeeps ==
  ASSUME VisualAssumption, EvidenceInv,
         \/ Resized \/ NavigationError \/ LoadEvent \/ Loaded \/ Measured
         \/ TimesOut \/ ChromeEnds \/ Killed
  PROVE  EvidenceInv'
<1>1. /\ UNCHANGED <<artifact, started, restored, shots, stuck, receipt, stale, view, page>>
      /\ ~Over
  BY DEF Resized, NavigationError, LoadEvent, Loaded, Measured, TimesOut, ChromeEnds, Killed
<1>2. \/ place' = "died"
      \/ place \in Awaiting /\ place' = "failed"
      \/ place = "resize" /\ place' = "navigate"
      \/ place = "load" /\ place' \in {"load", "measure"}
      \/ place = "measure" /\ place' = "capture"
  BY DEF Resized, NavigationError, LoadEvent, Loaded, Measured, TimesOut, ChromeEnds, Killed
<1>3. Claimed' = Claimed /\ Unchanged' = Unchanged
  BY <1>1 DEF Claimed, Unchanged
<1>4. EvidenceTyped'
  BY <1>1, <1>2 DEF EvidenceInv, EvidenceTyped
<1>5. ReceiptInv' /\ EndInv'
  BY <1>1, <1>2, <1>3 DEF EvidenceInv, ReceiptInv, EndInv
<1>6. CaptureInv'
  BY <1>1, <1>2, <1>3 DEF EvidenceInv, CaptureInv
<1>7. QED
  BY <1>4, <1>5, <1>6 DEF EvidenceInv

(* What Chrome loads is the artifact of that moment.                       *)
LEMMA NavigationKeeps ==
  ASSUME VisualAssumption, EvidenceInv, Navigated
  PROVE  EvidenceInv'
<1>1. /\ UNCHANGED <<artifact, started, restored, shots, stuck, receipt, stale, view>>
      /\ place = "navigate" /\ place' = "load" /\ page' = artifact
  BY DEF Navigated
<1>2. Claimed' = Claimed /\ Unchanged' = Unchanged
  BY <1>1 DEF Claimed, Unchanged
<1>3. EvidenceTyped' /\ ReceiptInv' /\ EndInv'
  BY <1>1, <1>2 DEF EvidenceInv, EvidenceTyped, ReceiptInv, EndInv
<1>4. CaptureInv'
  BY <1>1, <1>2 DEF EvidenceInv, CaptureInv, Unchanged
<1>5. QED
  BY <1>3, <1>4 DEF EvidenceInv

(* A capture shows what Chrome loaded; the last one completes them.        *)
LEMMA CaptureKeeps ==
  ASSUME VisualAssumption, EvidenceInv, Captured
  PROVE  EvidenceInv'
<1>1. /\ UNCHANGED <<artifact, started, restored, receipt, stale, page>>
      /\ place = "capture" /\ ~Claimed
      /\ shots' = [shots EXCEPT ![view] = page] /\ stuck' = stuck \ {view}
  BY DEF EvidenceInv, ReceiptInv, Captured
<1>2. \/ view = Views /\ view' = view /\ place' = "compare"
      \/ view' = view + 1 /\ view' \in 1..Views /\ place' = "resize"
      \/ view' = view /\ place' = "failed"
  BY DEF VisualAssumption, EvidenceInv, EvidenceTyped, Captured
<1>3. Claimed' = Claimed /\ Unchanged' = Unchanged
  BY <1>1 DEF Claimed, Unchanged
<1>4. EvidenceTyped'
  BY <1>1, <1>2 DEF EvidenceInv, EvidenceTyped
<1>5. ReceiptInv' /\ EndInv'
  BY <1>1, <1>2, <1>3 DEF EvidenceInv, ReceiptInv, EndInv
<1>6. Unchanged => \A v \in 1..Views : v <= view => shots'[v] = started
  BY <1>1 DEF VisualAssumption, EvidenceInv, EvidenceTyped, CaptureInv
<1>7. CaptureInv'
  BY <1>1, <1>2, <1>3, <1>6 DEF VisualAssumption, EvidenceInv, EvidenceTyped, CaptureInv, Captures
<1>8. QED
  BY <1>4, <1>5, <1>7 DEF EvidenceInv

(* The comparison, the contact sheet and the receipt of a check whose      *)
(* captures are complete.                                                  *)
LEMMA RecordKeeps ==
  ASSUME VisualAssumption, EvidenceInv, Compare \/ WriteSheet \/ WriteReceipt
  PROVE  EvidenceInv'
<1>1. CASE Compare
  <2>1. /\ UNCHANGED <<artifact, started, restored, shots, stuck, receipt, stale, view, page>>
        /\ place = "compare" /\ ~Claimed
        /\ \/ artifact = started /\ place' = "sheet"
           \/ place' = "failed"
    BY <1>1 DEF EvidenceInv, ReceiptInv, Compare
  <2>2. Claimed' = Claimed /\ Captures(started)' = Captures(started)
    BY <2>1 DEF Claimed, Captures
  <2>3. EvidenceTyped' /\ ReceiptInv' /\ EndInv'
    BY <2>1, <2>2 DEF EvidenceInv, EvidenceTyped, ReceiptInv, EndInv
  <2>4. CaptureInv'
    BY <2>1, <2>2 DEF EvidenceInv, CaptureInv, Unchanged
  <2>5. QED
    BY <2>3, <2>4 DEF EvidenceInv
<1>2. CASE WriteSheet
  <2>1. /\ UNCHANGED <<artifact, started, restored, receipt, stale, view, page>>
        /\ place = "sheet" /\ ~Claimed
        /\ \/ /\ shots' = [shots EXCEPT ![0] = started] /\ stuck' = stuck \ {0}
              /\ place' = "receipt"
           \/ UNCHANGED <<shots, stuck>> /\ place' = "failed"
    BY <1>2 DEF EvidenceInv, ReceiptInv, WriteSheet
  <2>2. Claimed' = Claimed /\ started \in Artifacts
    BY <2>1 DEF Claimed, EvidenceInv, EvidenceTyped
  <2>3. EvidenceTyped' /\ ReceiptInv' /\ EndInv'
    BY <2>1, <2>2 DEF VisualAssumption, EvidenceInv, EvidenceTyped, ReceiptInv, EndInv
  <2>4. CaptureInv'
    BY <2>1 DEF VisualAssumption, EvidenceInv, EvidenceTyped, CaptureInv, Captures
  <2>5. QED
    BY <2>3, <2>4 DEF EvidenceInv
<1>3. CASE WriteReceipt
  <2>1. /\ UNCHANGED <<artifact, started, restored, shots, stuck, view, page>>
        /\ place = "receipt" /\ started \in Artifacts
        /\ ~restored => Captures(started)
        /\ shots[0] = started
    BY <1>3 DEF EvidenceInv, EvidenceTyped, CaptureInv, WriteReceipt
  <2>2. CASE Persisted(IF clean THEN "pass" ELSE "fail", TRUE) /\ place' = "close"
    <3>1. receipt'.artifact = started /\ receipt'.captures /\ stale' = FALSE
      BY <2>2 DEF Persisted
    <3>2. ~restored => \A f \in Evidence : shots[f] = started
      BY <2>1 DEF VisualAssumption, Captures
    <3>3. receipt' # NoArtifact
      <4>1. receipt' \in Receipts
        BY <2>1, <2>2 DEF Persisted, Receipts
      <4>2. QED
        BY <4>1 DEF VisualAssumption
    <3>4. EvidenceTyped'
      BY <2>1, <2>2, <3>1 DEF EvidenceInv, EvidenceTyped
    <3>5. ReceiptInv' /\ CaptureInv' /\ EndInv'
      BY <2>1, <2>2, <3>1, <3>2, <3>3 DEF ReceiptInv, CaptureInv, EndInv, Claimed
    <3>6. QED
      BY <3>4, <3>5 DEF EvidenceInv
  <2>3. CASE PersistFails /\ place' = "failed"
    BY <2>1, <2>3 DEF PersistFails, EvidenceInv, EvidenceTyped, ReceiptInv, CaptureInv, EndInv,
                      Claimed
  <2>4. QED
    BY <1>3, <2>2, <2>3 DEF WriteReceipt
<1>4. QED
  BY <1>1, <1>2, <1>3

(* A failure removes what was captured, as far as it can, before it is     *)
(* recorded, which may fail too.                                           *)
LEMMA FailureKeeps ==
  ASSUME VisualAssumption, EvidenceInv, RecordFailure \/ Close
  PROVE  EvidenceInv'
<1>1. CASE RecordFailure
  <2>1. /\ UNCHANGED <<artifact, started, restored, view, page>>
        /\ ~Over /\ place' \in {"died", "idle", "close"}
        /\ ~Claimed' /\ stale' \in BOOLEAN
    <3>1. (receipt'.captures = FALSE /\ stale' = FALSE) \/ stale' = TRUE
      BY <1>1 DEF RecordFailure, Persisted, PersistFails
    <3>2. ~Claimed' /\ stale' \in BOOLEAN
      BY <3>1 DEF Claimed
    <3>3. QED
      BY <1>1, <3>2 DEF RecordFailure
  <2>2. /\ shots' \in [Evidence -> Artifacts \union {NoArtifact}]
        /\ stuck' \subseteq Evidence
        /\ \A f \in Evidence : Absent(f)'
    BY <1>1, RemovalLeaves DEF RecordFailure, EvidenceInv, Absent
  <2>3. EvidenceTyped'
    BY <2>1, <2>2 DEF EvidenceInv, EvidenceTyped
  <2>4. ReceiptInv' /\ CaptureInv' /\ EndInv'
    BY <2>1, <2>2 DEF ReceiptInv, CaptureInv, EndInv
  <2>5. QED
    BY <2>3, <2>4 DEF EvidenceInv
<1>2. CASE Close
  <2>1. /\ UNCHANGED <<artifact, started, restored, shots, stuck, receipt, stale, view, page>>
        /\ place = "close" /\ place' \in {"died", "idle"}
    BY <1>2 DEF Close
  <2>2. Claimed' = Claimed /\ \A f : Absent(f)' = Absent(f)
    BY <2>1, ClaimDepends
  <2>3. QED
    BY <2>1, <2>2 DEF EvidenceInv, EvidenceTyped, ReceiptInv, CaptureInv, EndInv
<1>3. QED
  BY <1>1, <1>2

LEMMA EvidenceStep ==
  VisualAssumption /\ EvidenceInv /\ [VisualNext]_visualVars => EvidenceInv'
<1> SUFFICES ASSUME VisualAssumption, EvidenceInv, [VisualNext]_visualVars
             PROVE  EvidenceInv'
  OBVIOUS
<1>1. CASE UNCHANGED visualVars
  BY <1>1 DEF visualVars, EvidenceInv, EvidenceTyped, ReceiptInv, CaptureInv, EndInv,
              Claimed, Absent, Captures, Unchanged
<1>2. CASE VisualNext
  BY <1>2, DeliverKeeps, BeginKeeps, RemovalKeeps, LaunchKeeps, CommandKeeps, NavigationKeeps,
     CaptureKeeps, RecordKeeps, FailureKeeps
  DEF VisualNext, Answers, Step
<1>3. QED
  BY <1>1, <1>2

LEMMA EvidenceFollows == EvidenceInv => EvidenceIsBound
BY DEF EvidenceInv, ReceiptInv, EndInv, EvidenceIsBound, Claimed, Absent

(* The rest of the types; a receipt names the artifact read at the start.  *)
CheckTyped ==
  /\ receipt = NoArtifact \/ receipt \in Receipts
  /\ waiter \in {"none", "waiting", "fired", "rejected"} /\ chrome \in {"none", "up", "gone"}
  /\ clean \in BOOLEAN /\ deliveries \in 0..MaxDeliveries /\ checks \in 0..MaxChecks

LEMMA CheckTypesKeep ==
  ASSUME VisualAssumption, EvidenceInv, CheckTyped, [VisualNext]_visualVars
  PROVE  CheckTyped'
<1> USE DEF VisualAssumption, CheckTyped
<1>1. CASE (\E a \in Artifacts : Deliver(a)) \/ Begin
  <2>1. UNCHANGED receipt
    BY <1>1 DEF Deliver, Begin
  <2>2. clean' \in BOOLEAN /\ waiter' \in {waiter, "none"} /\ chrome' \in {chrome, "none"}
    BY <1>1 DEF Deliver, Begin
  <2>3. deliveries' \in 0..MaxDeliveries /\ checks' \in 0..MaxChecks
    BY <1>1 DEF Deliver, Begin
  <2>4. QED
    BY <2>1, <2>2, <2>3
<1>2. CASE CleanupCaptures \/ UnlinkReceipt \/ Resized \/ LoadEvent \/ Loaded
  BY <1>2 DEF CleanupCaptures, UnlinkReceipt, Resized, LoadEvent, Loaded
<1>3. CASE LaunchChrome \/ Measured \/ Close
  BY <1>3 DEF LaunchChrome, Measured, Close
<1>4. CASE Navigated \/ NavigationError \/ Captured \/ Compare \/ Killed \/ WriteSheet
  BY <1>4 DEF Navigated, NavigationError, Captured, Compare, Killed, WriteSheet
<1>5. CASE TimesOut \/ ChromeEnds
  BY <1>5 DEF TimesOut, ChromeEnds
<1>6. CASE NoChrome \/ WriteReceipt \/ RecordFailure
  <2>1. started \in Artifacts
    BY <1>6 DEF NoChrome, WriteReceipt, RecordFailure, EvidenceInv, EvidenceTyped
  <2>2. \A outcome \in {"pass", "fail", "skipped"}, captures \in BOOLEAN :
          Receipt(outcome, captures) \in Receipts
    BY <2>1 DEF Receipts
  <2>3. receipt' = NoArtifact \/ receipt' \in Receipts
    BY <1>6, <2>2 DEF NoChrome, WriteReceipt, RecordFailure, Persisted, PersistFails
  <2>4. /\ waiter' \in {waiter, "none"} /\ chrome' = chrome /\ clean' = clean
        /\ UNCHANGED <<deliveries, checks>>
    BY <1>6 DEF NoChrome, WriteReceipt, RecordFailure
  <2>5. QED
    BY <2>3, <2>4
<1>7. CASE UNCHANGED visualVars
  BY <1>7 DEF visualVars
<1>8. QED
  BY <1>1, <1>2, <1>3, <1>4, <1>5, <1>6, <1>7 DEF VisualNext, Answers, Step

LEMMA VisualTypesFollow == EvidenceInv /\ CheckTyped => VisualTypeOK
BY DEF EvidenceInv, EvidenceTyped, CheckTyped, VisualTypeOK

LEMMA CheckTypesStart == VisualAssumption /\ VisualInit => CheckTyped
BY DEF VisualAssumption, VisualInit, CheckTyped

-----------------------------------------------------------------------------
(* Whatever Chrome does, wherever the command or Chrome dies, whichever    *)
(* file cannot be removed or written, and however often the artifact is    *)
(* delivered anew: a receipt that claims captures and could be replaced    *)
(* lies beside captures of its own artifact, unless the artifact came back *)
(* during the check; and a check that ended in good order left all of them *)
(* or none but those it could not remove.                                  *)
THEOREM EvidenceBelongsTogether ==
  ASSUME VisualAssumption
  PROVE  VisualSpec => []EvidenceIsBound
<1>1. VisualInit => EvidenceInv
  BY EvidenceInitially
<1>2. EvidenceInv /\ [VisualNext]_visualVars => EvidenceInv'
  BY EvidenceStep
<1>3. EvidenceInv => EvidenceIsBound
  BY EvidenceFollows
<1>4. QED
  BY <1>1, <1>2, <1>3, PTL DEF VisualSpec

HIDE DEF Awaiting, Working, Over, MoveTo, Keep, files, browser, Receipt, Evidence

-----------------------------------------------------------------------------
(* The preview.                                                            *)

(* An artifact is a rendering, and never "no artifact".                    *)
LEMMA RenderedOf ==
  ASSUME NEW s \in Deliverable
  PROVE  s \in Sources /\ ArtifactOf[s] \in Rendered /\ ArtifactOf[s] # NoContent
BY PreviewAssumption DEF Rendered, Deliverable

(* A commit, the only step that shows another artifact.                    *)
LEMMA CommitShows ==
  ASSUME PreviewTypeOK, CommitCandidate
  PROVE  /\ PreviewTypeOK'
         /\ output' = ArtifactOf[lastGood'] /\ served' = ArtifactOf[lastGood'] /\ source = lastGood'
         /\ (served' # served) <=> (revision' # revision)
<1>1. activeHash \in Deliverable /\ ArtifactOf[activeHash] \in Rendered /\ ArtifactOf[activeHash] # NoContent
  BY RenderedOf DEF CommitCandidate, Delivered
<1>2. output' = ArtifactOf[activeHash]
  BY DEF CommitCandidate, SameArtifact
<1>3. verified = served
  BY DEF PreviewTypeOK
<1>4. /\ queuedHash' \in Sources /\ timer' \in BOOLEAN /\ child' = "none" /\ drain' = "none"
      /\ behind' \in BOOLEAN /\ pendingBuild' \in BOOLEAN
  BY DEF CommitCandidate, Requeue, Queue, PreviewTypeOK
<1>5. /\ UNCHANGED <<activeHash, stopping, closing, stopped, source, changes, mishaps>>
      /\ served' = ArtifactOf[activeHash] /\ verified' = ArtifactOf[activeHash]
      /\ lastGood' = activeHash /\ source = activeHash /\ status' = "verified"
      /\ revision' = IF SameArtifact THEN revision ELSE ~revision
  BY DEF CommitCandidate, Requeue
<1>6. revision' \in BOOLEAN
  BY <1>5 DEF PreviewTypeOK
<1>7. PreviewTypeOK'
  BY <1>1, <1>2, <1>4, <1>5, <1>6 DEF PreviewTypeOK
<1>8. (served' # served) <=> (revision' # revision)
  BY <1>1, <1>3, <1>5 DEF SameArtifact, PreviewTypeOK
<1>9. QED
  BY <1>2, <1>5, <1>7, <1>8

(* Everybody else leaves what is shown as it was, and turns the status to  *)
(* "verified" only for the content whose artifact is served.               *)
ShowsTheSame ==
  /\ UNCHANGED <<lastGood, served, verified, revision>>
  /\ status # "verified" /\ status' = "verified" => source = lastGood'

(* The steps that leave the output of the preview alone altogether.        *)
LEMMA WorldShows ==
  ASSUME PreviewTypeOK,
         \/ \E s \in Sources : EditSource(s)
         \/ TouchOutput \/ ChildHangs \/ ObserveSource \/ UNCHANGED previewVars
  PROVE  PreviewTypeOK' /\ ShowsTheSame
<1> USE PreviewAssumption DEF watched, builds, shows, shutdown, PreviewTypeOK, ShowsTheSame
<1>1. CASE \E s \in Sources : EditSource(s)
  <2>1. PICK s \in Sources : EditSource(s)
    BY <1>1
  <2>2. QED
    BY <2>1 DEF EditSource
<1>2. CASE TouchOutput
  BY <1>2 DEF TouchOutput
<1>3. CASE ChildHangs
  BY <1>3 DEF ChildHangs
<1>4. CASE ObserveSource
  BY <1>4 DEF ObserveSource, Queue
<1>5. CASE UNCHANGED previewVars
  BY <1>5 DEF previewVars
<1>6. QED
  BY <1>1, <1>2, <1>3, <1>4, <1>5

(* Only a launch that finds the source unchanged since the last commit     *)
(* turns the status back to "verified".                                    *)
LEMMA LaunchShows ==
  ASSUME PreviewTypeOK, Launch \/ SnapshotFails
  PROVE  PreviewTypeOK' /\ ShowsTheSame
<1> USE PreviewAssumption DEF watched, builds, shows, shutdown, PreviewTypeOK, ShowsTheSame, Fired
<1>1. CASE LaunchChanged
  BY <1>1 DEF LaunchChanged, Queue
<1>2. CASE LaunchKnown
  <2>1. /\ UNCHANGED <<watched, queuedHash, child, activeHash, behind, pendingBuild,
                        lastGood, served, verified, revision, shutdown>>
        /\ source = lastGood /\ timer' \in BOOLEAN /\ status' \in {status, "verified"}
    BY <1>2 DEF LaunchKnown
  <2>2. QED
    BY <2>1
<1>3. CASE LaunchLater
  <2>1. /\ UNCHANGED <<watched, queuedHash, child, activeHash, behind, shows, shutdown>>
        /\ timer' \in BOOLEAN /\ pendingBuild' \in BOOLEAN
    BY <1>3 DEF LaunchLater
  <2>2. QED
    BY <2>1
<1>4. CASE BeginBuild
  BY <1>4 DEF BeginBuild
<1>5. CASE SnapshotFails
  <2>1. /\ UNCHANGED <<source, output, changes, queuedHash, child, pendingBuild,
                        lastGood, served, verified, revision, shutdown>>
        /\ mishaps < MaxMishaps /\ mishaps' = mishaps + 1 /\ activeHash' = source
        /\ timer' \in BOOLEAN /\ behind' \in BOOLEAN /\ status' = "needs-fix"
    BY <1>5 DEF SnapshotFails
  <2>2. QED
    BY <2>1
<1>6. QED
  BY <1>1, <1>2, <1>3, <1>4, <1>5 DEF Launch

(* A build that is stale, superseded or fails, and a commit that fails.    *)
LEMMA NoCommitShows ==
  ASSUME PreviewTypeOK, ChildIsStale \/ BuildSuperseded \/ BuildFails \/ CommitFails
  PROVE  PreviewTypeOK' /\ ShowsTheSame
<1>1. /\ queuedHash' \in Sources /\ timer' \in BOOLEAN /\ child' = "none" /\ drain' = "none"
      /\ behind' \in BOOLEAN /\ pendingBuild' \in BOOLEAN
  BY DEF ChildIsStale, BuildSuperseded, BuildFails, CommitFails, Requeue, Queue, PreviewTypeOK
<1>2. /\ UNCHANGED <<activeHash, stopping, closing, stopped, source, changes, output>>
      /\ UNCHANGED <<lastGood, served, verified, revision>>
      /\ status' \in {status, "needs-fix"}
      /\ mishaps' = mishaps \/ (mishaps < MaxMishaps /\ mishaps' = mishaps + 1)
  BY DEF ChildIsStale, BuildSuperseded, BuildFails, CommitFails, Requeue, shows
<1>3. PreviewTypeOK'
  BY <1>1, <1>2, PreviewAssumption DEF PreviewTypeOK
<1>4. QED
  BY <1>2, <1>3 DEF ShowsTheSame

(* The steps of a stop.                                                    *)
LEMMA StopShows ==
  ASSUME PreviewTypeOK,
         ClosesStopping \/ Stop \/ ForceStop \/ ServerCloses \/ GraceEnds \/ KillTimeEnds
  PROVE  PreviewTypeOK' /\ ShowsTheSame
<1> USE DEF watched, builds, shows, PreviewTypeOK, ShowsTheSame
<1>1. CASE ClosesStopping
  BY <1>1 DEF ClosesStopping
<1>2. CASE Stop
  BY <1>2 DEF Stop
<1>3. CASE ForceStop
  BY <1>3 DEF ForceStop
<1>4. CASE ServerCloses
  BY <1>4 DEF ServerCloses
<1>5. CASE GraceEnds
  BY <1>5 DEF GraceEnds
<1>6. CASE KillTimeEnds
  BY <1>6 DEF KillTimeEnds
<1>7. QED
  BY <1>1, <1>2, <1>3, <1>4, <1>5, <1>6

(* What a step may show, together with the types.                          *)
LEMMA PreviewStep ==
  ASSUME PreviewTypeOK, [PreviewNext]_previewVars
  PROVE  /\ PreviewTypeOK'
         /\ status # "verified" /\ status' = "verified" => source = lastGood'
         /\ lastGood' # lastGood => served' = ArtifactOf[lastGood'] /\ output' = served'
         /\ (served' # served) <=> (revision' # revision)
<1>1. CASE CommitCandidate
  BY <1>1, CommitShows
<1>2. CASE [PreviewNext]_previewVars /\ ~CommitCandidate
  <2>1. PreviewTypeOK' /\ ShowsTheSame
    BY <1>2, WorldShows, LaunchShows, NoCommitShows, StopShows DEF PreviewNext, ChildCloses
  <2>2. QED
    BY <2>1 DEF ShowsTheSame
<1>3. QED
  BY <1>1, <1>2

LEMMA PreviewStarts == PreviewInit => PreviewTypeOK
<1> SUFFICES ASSUME PreviewInit
             PROVE  PreviewTypeOK
  OBVIOUS
<1>1. timer \in BOOLEAN /\ behind \in BOOLEAN /\ pendingBuild \in BOOLEAN /\ revision \in BOOLEAN
  BY DEF PreviewInit, NothingBuilt
<1>2. stopping \in BOOLEAN /\ stopped \in BOOLEAN /\ changes = 0 /\ mishaps = 0
  BY DEF PreviewInit, NothingBuilt
<1>3. QED
  BY <1>1, <1>2, PreviewAssumption DEF PreviewInit, NothingBuilt, PreviewTypeOK

(* The preview turns "verified" only for the content the source had when   *)
(* it was read for that, for any contents, edits and builds; what it       *)
(* serves changes with the revision and with the output file.              *)
THEOREM PreviewShowsVerified == PreviewSpec => VerifiedIsCurrent
<1>1. PreviewTypeOK /\ [PreviewNext]_previewVars => PreviewTypeOK'
  BY PreviewStep
<1>2. PreviewTypeOK /\ [PreviewNext]_previewVars =>
        [ /\ status # "verified" /\ status' = "verified" => source = lastGood'
          /\ lastGood' # lastGood => served' = ArtifactOf[lastGood'] /\ output' = served'
          /\ (served' # served) <=> (revision' # revision) ]_previewVars
  <2> SUFFICES ASSUME PreviewTypeOK, [PreviewNext]_previewVars
               PROVE  [ /\ status # "verified" /\ status' = "verified" => source = lastGood'
                        /\ lastGood' # lastGood => served' = ArtifactOf[lastGood'] /\ output' = served'
                        /\ (served' # served) <=> (revision' # revision) ]_previewVars
    OBVIOUS
  <2>1. QED
    BY PreviewStep
<1>3. QED
  BY <1>1, <1>2, PreviewStarts, PTL DEF PreviewSpec, VerifiedIsCurrent

(* A stop closes the server and clears the timer that could start another  *)
(* child; the two timers of the drain run for a child that is still there. *)
StopInv ==
  /\ stopping => ~timer
  /\ stopping <=> closing # "open"
  /\ drain # "none" => child # "none"
  /\ stopped => closing = "closed" /\ child = "none"

(* A preview that has stopped has no child, and never gets one again,      *)
(* whatever was under way when the signal came.                            *)
THEOREM StopLeavesNoChild == PreviewSpec => [](stopped => child = "none")
<1>1. PreviewInit => StopInv
  BY DEF PreviewInit, NothingBuilt, StopInv
<1>2. PreviewTypeOK /\ StopInv /\ [PreviewNext]_previewVars => StopInv'
  <2> SUFFICES ASSUME PreviewTypeOK, StopInv, [PreviewNext]_previewVars
               PROVE  StopInv'
    OBVIOUS
  <2> USE DEF watched, builds, shows, shutdown, StopInv
  <2>1. CASE (\E s \in Sources : EditSource(s)) \/ TouchOutput \/ ChildHangs \/ ObserveSource
    BY <2>1 DEF EditSource, TouchOutput, ChildHangs, ObserveSource, Queue
  <2>2. CASE Launch \/ SnapshotFails
    BY <2>2 DEF Launch, LaunchChanged, LaunchKnown, LaunchLater, BeginBuild, SnapshotFails, Fired, Queue
  <2>3. CASE ChildCloses \/ CommitFails
    BY <2>3 DEF ChildCloses, ChildIsStale, CommitCandidate, BuildSuperseded, BuildFails, CommitFails, Requeue,
       Queue, Closes
  <2>4. CASE ClosesStopping
    BY <2>4 DEF PreviewTypeOK, ClosesStopping
  <2>5. CASE Stop \/ ServerCloses
    BY <2>5 DEF PreviewTypeOK, Stop, ServerCloses
  <2>6. CASE ForceStop \/ GraceEnds \/ KillTimeEnds
    BY <2>6 DEF PreviewTypeOK, ForceStop, GraceEnds, KillTimeEnds
  <2>7. CASE UNCHANGED previewVars
    BY <2>7 DEF previewVars
  <2>8. QED
    BY <2>1, <2>2, <2>3, <2>4, <2>5, <2>6, <2>7 DEF PreviewNext
<1>3. StopInv => (stopped => child = "none")
  BY DEF StopInv
<1>4. QED
  <2>1. PreviewTypeOK /\ [PreviewNext]_previewVars => PreviewTypeOK'
    BY PreviewStep
  <2>2. QED
    BY <1>1, <1>2, <1>3, <2>1, PreviewStarts, PTL DEF PreviewSpec

-----------------------------------------------------------------------------
(* The comparison.                                                         *)

Together(h, r) == h # NoFile /\ r # NoFile => h = r

(* Places before anything was moved aside, and where nothing is any more.  *)
Untouched ==
  {"base", "head", "validate", "validateHead", "render", "finally", "backupHtml", "restored"}

(* A file is where it was, or aside in the staging directory.              *)
Recoverable(now, old, was) == (old = NoFile /\ now = was) \/ (now = NoFile /\ old = was)

(* What the files are at each place, unless a rollback was damaged.        *)
FilesInv ==
  /\ Together(html, sidecar)
  /\ stage \notin {"idle", "done"} => before = <<before[1], before[2]>> /\ Together(before[1], before[2])
  /\ stage \in Untouched => html = before[1] /\ sidecar = before[2]
  /\ stage = "backupReceipt" => html = NoFile /\ oldHtml = before[1] /\ sidecar = before[2]
  /\ stage \in {"commitHtml", "commitReceipt", "removeHtml"} =>
       sidecar = NoFile /\ oldHtml = before[1] /\ oldReceipt = before[2]
  /\ stage = "commitHtml" => html = NoFile
  /\ stage = "restoreReceipt" =>
       Recoverable(html, oldHtml, before[1]) /\ Recoverable(sidecar, oldReceipt, before[2])
  /\ stage = "restoreHtml" => Recoverable(html, oldHtml, before[1]) /\ sidecar = before[2]

(* Until something was moved aside, the staging directory is empty.        *)
StagingInv ==
  /\ stage \in Untouched \ {"finally", "restored"} => oldHtml = NoFile
  /\ stage \in (Untouched \ {"finally", "restored"}) \union {"backupReceipt"} => oldReceipt = NoFile

(* A commit replaces both files, whatever was found.                       *)
ReplacedInv ==
  /\ stage \in {"commitReceipt", "done"} => html = Delta
  /\ stage = "done" => sidecar = Delta

CompareInv == StagingInv /\ ReplacedInv /\ (damaged \/ FilesInv)

USE DEF Enter, inputs, outputs, aside, parsed

-----------------------------------------------------------------------------
LEMMA BeforeKeeps ==
  ASSUME CompareInv,
         \/ Edit \/ ReadBase \/ ReadHead \/ ValidateAuthored \/ ValidateHead
         \/ RenderCandidates \/ FailsEarly \/ UNCHANGED compareVars
  PROVE  CompareInv'
<1>1. StagingInv'
  BY DEF CompareInv, StagingInv, Untouched, Quiet, Edit, ReadBase, ReadHead, ValidateAuthored,
         ValidateHead, RenderCandidates, FailsEarly, compareVars
<1>2. ReplacedInv'
  BY DEF CompareInv, ReplacedInv, Delta, Quiet, Edit, ReadBase, ReadHead, ValidateAuthored,
         ValidateHead, RenderCandidates, FailsEarly, compareVars
<1>3. FilesInv => FilesInv'
  BY DEF FilesInv, Together, Recoverable, Untouched, Quiet, Edit, ReadBase, ReadHead,
         ValidateAuthored, ValidateHead, RenderCandidates, FailsEarly, compareVars
<1>4. damaged' = damaged
  BY DEF Quiet, Edit, ReadBase, ReadHead, ValidateAuthored,
         ValidateHead, RenderCandidates, FailsEarly, compareVars
<1>5. QED
  BY <1>1, <1>2, <1>3, <1>4 DEF CompareInv

LEMMA CompareBegins ==
  ASSUME CompareInv, BeginCompare
  PROVE  CompareInv'
<1>1. StagingInv' /\ ReplacedInv'
  BY DEF StagingInv, ReplacedInv, Untouched, BeginCompare
<1>2. FilesInv => FilesInv'
  BY DEF FilesInv, Together, Untouched, BeginCompare
<1>3. QED
  BY <1>1, <1>2 DEF CompareInv, BeginCompare

LEMMA BackupKeeps ==
  ASSUME CompareInv, BackupHtml \/ BackupReceipt
  PROVE  CompareInv'
<1>1. StagingInv' /\ ReplacedInv'
  BY DEF CompareInv, StagingInv, ReplacedInv, Untouched, BackupHtml, BackupReceipt
<1>2. FilesInv => FilesInv'
  BY DEF FilesInv, Together, Untouched, BackupHtml, BackupReceipt
<1>3. QED
  BY <1>1, <1>2 DEF CompareInv, BackupHtml, BackupReceipt

LEMMA PairCommits ==
  ASSUME CompareInv, CommitHtml \/ CommitReceipt
  PROVE  CompareInv'
<1>1. StagingInv'
  BY DEF CompareInv, StagingInv, Untouched, CommitHtml, CommitReceipt
<1>2. ReplacedInv'
  BY DEF CompareInv, ReplacedInv, Delta, CommitHtml, CommitReceipt
<1>3. CASE CommitHtml
  <2>1. FilesInv => FilesInv'
    BY <1>3 DEF FilesInv, Together, Untouched, CommitHtml
  <2>2. QED
    BY <1>1, <1>2, <1>3, <2>1 DEF CompareInv, CommitHtml
<1>4. CASE CommitReceipt
  <2>1. html' = sidecar' /\ stage' = "done"
    BY <1>2, <1>4 DEF ReplacedInv, CommitReceipt
  <2>2. FilesInv'
    BY <2>1 DEF FilesInv, Together, Untouched
  <2>3. QED
    BY <1>1, <1>2, <2>2 DEF CompareInv
<1>5. QED
  BY <1>3, <1>4

LEMMA CompareFails ==
  ASSUME CompareInv, RenameFails
  PROVE  CompareInv'
<1>1. StagingInv' /\ ReplacedInv'
  BY DEF StagingInv, ReplacedInv, Untouched, RenameFails
<1>2. /\ damaged' = damaged /\ before' = before
      /\ html' = html /\ sidecar' = sidecar /\ oldHtml' = oldHtml /\ oldReceipt' = oldReceipt
  BY DEF RenameFails
<1>3. \/ (stage = "commitReceipt" /\ stage' = "removeHtml")
      \/ (stage \in {"backupHtml", "backupReceipt", "commitHtml"} /\ stage' = "restoreReceipt")
  BY DEF RenameFails
<1>4. CASE stage = "commitReceipt"
  <2>1. FilesInv => FilesInv'
    BY <1>2, <1>3, <1>4 DEF FilesInv, Together, Untouched
  <2>2. QED
    BY <1>1, <1>2, <2>1 DEF CompareInv
<1>5. CASE stage = "backupHtml" \/ stage = "backupReceipt"
  <2>1. oldReceipt = NoFile /\ (stage = "backupHtml" => oldHtml = NoFile)
    BY <1>5 DEF CompareInv, StagingInv, Untouched
  <2>2. FilesInv => FilesInv'
    BY <1>2, <1>3, <1>5, <2>1 DEF FilesInv, Together, Recoverable, Untouched
  <2>3. QED
    BY <1>1, <1>2, <2>2 DEF CompareInv
<1>6. CASE stage = "commitHtml"
  <2>1. FilesInv => FilesInv'
    BY <1>2, <1>3, <1>6 DEF FilesInv, Together, Recoverable, Untouched
  <2>2. QED
    BY <1>1, <1>2, <2>1 DEF CompareInv
<1>7. QED
  BY <1>3, <1>4, <1>5, <1>6

LEMMA RollbackKeeps ==
  ASSUME CompareInv, RemoveHtml \/ RestoreReceipt \/ RestoreHtml \/ RollbackFails
  PROVE  CompareInv'
<1>1. StagingInv' /\ ReplacedInv'
  BY DEF StagingInv, ReplacedInv, Untouched, RemoveHtml, RestoreReceipt, RestoreHtml, RollbackFails
<1>2. CASE RollbackFails
  BY <1>1, <1>2 DEF CompareInv, RollbackFails
<1>3. CASE RemoveHtml
  <2>1. FilesInv => FilesInv'
    BY <1>3 DEF FilesInv, Together, Recoverable, Untouched, RemoveHtml
  <2>2. QED
    BY <1>1, <1>3, <2>1 DEF CompareInv, RemoveHtml
<1>4. CASE RestoreReceipt
  <2>1. FilesInv => FilesInv'
    BY <1>4 DEF FilesInv, Together, Recoverable, Untouched, RestoreReceipt
  <2>2. QED
    BY <1>1, <1>4, <2>1 DEF CompareInv, RestoreReceipt
<1>5. CASE RestoreHtml
  <2>1. FilesInv => FilesInv'
    BY <1>5 DEF FilesInv, Together, Recoverable, Untouched, RestoreHtml
  <2>2. QED
    BY <1>1, <1>5, <2>1 DEF CompareInv, RestoreHtml
<1>6. QED
  BY <1>2, <1>3, <1>4, <1>5

LEMMA CompareEnds ==
  ASSUME CompareInv, RemoveStaging \/ CompareKilled
  PROVE  CompareInv'
<1>1. StagingInv' /\ ReplacedInv'
  BY DEF StagingInv, ReplacedInv, Untouched, RemoveStaging, CompareKilled
<1>2. FilesInv => FilesInv'
  BY DEF FilesInv, Together, Untouched, RemoveStaging, CompareKilled
<1>3. QED
  BY <1>1, <1>2 DEF CompareInv, RemoveStaging, CompareKilled

-----------------------------------------------------------------------------
LEMMA CompareStep == CompareInv /\ [CompareNext]_compareVars => CompareInv'
BY BeforeKeeps, CompareBegins, BackupKeeps, PairCommits, CompareFails, RollbackKeeps, CompareEnds
   DEF CompareNext

(* The pair is never mixed and never lost: whatever the inputs hold, in    *)
(* however many runs, with calls failing and the process ending anywhere,  *)
(* an artifact stands beside its own receipt, and a command that fails     *)
(* leaves the pair as it was, unless it reported a damaged rollback.       *)
THEOREM PairIsNeverMixed == CompareSpec => []PairBelongsTogether
<1>1. CompareInit => CompareInv
  BY DEF CompareInit, CompareInv, StagingInv, ReplacedInv, FilesInv, Together, Untouched
<1>2. CompareInv => PairBelongsTogether
  BY DEF CompareInv, ReplacedInv, FilesInv, Together, Untouched, PairBelongsTogether
<1>3. QED
  BY <1>1, <1>2, CompareStep, PTL DEF CompareSpec

-----------------------------------------------------------------------------
(* Types of the comparison: what is committed passed both readings of the  *)
(* inputs, so that every file of the pair comes from valid snapshots.      *)
PairInv ==
  /\ CompareTypeOK
  /\ stage \in {"backupHtml", "backupReceipt", "commitHtml", "commitReceipt"} =>
       readBase \in Valid /\ readHead \in Valid

LEMMA PairKeeps ==
  ASSUME PairInv, [CompareNext]_compareVars
  PROVE  PairInv'
<1> USE CompareAssumption DEF PairInv, CompareTypeOK, File
<1>1. CASE Edit \/ BeginCompare
  BY <1>1 DEF Edit, BeginCompare
<1>2. CASE ReadBase \/ ReadHead \/ ValidateAuthored \/ ValidateHead \/ RenderCandidates \/ FailsEarly
  BY <1>2 DEF ReadBase, ReadHead, ValidateAuthored, ValidateHead, RenderCandidates, FailsEarly, Quiet
<1>3. CASE BackupHtml \/ BackupReceipt
  BY <1>3 DEF BackupHtml, BackupReceipt
<1>4. CASE CommitHtml \/ CommitReceipt
  <2>1. Delta \in Deltas
    BY <1>4 DEF CommitHtml, CommitReceipt, Delta, Deltas
  <2>2. QED
    BY <1>4, <2>1 DEF CommitHtml, CommitReceipt
<1>5. CASE RenameFails \/ RollbackFails
  <2>1. /\ UNCHANGED <<inputs, outputs, aside, parsed, runs>> /\ damaged' \in BOOLEAN
        /\ faults < MaxFaults /\ faults' = faults + 1
        /\ stage' \in {"removeHtml", "restoreReceipt", "restoreHtml", "restored"}
    BY <1>5 DEF RenameFails, RollbackFails
  <2>2. faults' \in 0..MaxFaults
    BY <2>1
  <2>3. QED
    BY <2>1, <2>2
<1>6. CASE RemoveHtml \/ RestoreReceipt \/ RestoreHtml
  BY <1>6 DEF RemoveHtml, RestoreReceipt, RestoreHtml
<1>7. CASE RemoveStaging \/ CompareKilled
  BY <1>7 DEF RemoveStaging, CompareKilled
<1>8. CASE UNCHANGED compareVars
  BY <1>8 DEF compareVars
<1>9. QED
  BY <1>1, <1>2, <1>3, <1>4, <1>5, <1>6, <1>7, <1>8 DEF CompareNext

LEMMA PairStarts == CompareInit => PairInv
<1> SUFFICES ASSUME CompareInit
             PROVE  PairInv
  OBVIOUS
<1>1. File(html) /\ File(sidecar) /\ File(oldHtml) /\ File(oldReceipt)
  BY DEF CompareInit, File
<1>2. damaged \in BOOLEAN /\ edits = 0 /\ faults = 0 /\ runs = 0
  BY DEF CompareInit
<1>3. QED
  BY <1>1, <1>2, CompareAssumption DEF CompareInit, PairInv, CompareTypeOK

-----------------------------------------------------------------------------
(* The four programs in one behaviour.                                     *)
SkillInv == TypedInv /\ EvidenceInv /\ CheckTyped /\ PreviewTypeOK /\ PairInv

(* A preview that stands still is typed as well.                           *)
LEMMA RestIsTyped ==
  ASSUME NothingBuilt, source = "a", timer = FALSE, stopping = TRUE, closing = "closed", stopped = TRUE
  PROVE  PreviewTypeOK
<1>1. behind \in BOOLEAN /\ pendingBuild \in BOOLEAN /\ revision \in BOOLEAN
  BY DEF NothingBuilt
<1>2. changes = 0 /\ mishaps = 0 /\ queuedHash = source /\ source \in Sources
  BY SkillAssumption DEF NothingBuilt
<1>3. timer \in BOOLEAN /\ stopping \in BOOLEAN /\ stopped \in BOOLEAN
  OBVIOUS
<1>4. QED
  BY <1>1, <1>2, <1>3, PreviewAssumption DEF NothingBuilt, PreviewTypeOK

(* The state of every program of the skill has its type, in particular     *)
(* what the cache holds and answers are releases a manifest named, a       *)
(* receipt names an artifact that was delivered, and the pair comes from   *)
(* snapshots that passed the renderer's checks.                            *)
THEOREM SkillIsTyped ==
  ASSUME VisualAssumption
  PROVE  AllSpec => []SkillTyped
<1>1. AllInit => SkillInv
  <2> SUFFICES ASSUME AllInit
               PROVE  SkillInv
    OBVIOUS
  <2>1. TypedInv /\ EvidenceInv /\ CheckTyped /\ PairInv
    BY TypedInitially, EvidenceInitially, CheckTypesStart, PairStarts DEF AllInit
  <2>2. PreviewTypeOK
    BY PreviewStarts, RestIsTyped DEF AllInit
  <2>3. QED
    BY <2>1, <2>2 DEF SkillInv
<1>2. SkillInv /\ [AllNext]_allVars => SkillInv'
  <2> SUFFICES ASSUME SkillInv, [AllNext]_allVars
               PROVE  SkillInv'
    OBVIOUS
  <2>1. /\ [UpdNext]_updVars /\ [VisualNext]_visualVars
        /\ [PreviewNext]_previewVars /\ [CompareNext]_compareVars
    BY DEF AllNext, Rest, allVars
  <2>2. TypedInv' /\ PairInv' /\ PreviewTypeOK'
    BY <2>1, TypedStep, PairKeeps, PreviewStep DEF SkillInv
  <2>3. EvidenceInv' /\ CheckTyped'
    BY <2>1, EvidenceStep, CheckTypesKeep DEF SkillInv
  <2>4. QED
    BY <2>2, <2>3 DEF SkillInv
<1>3. SkillInv => SkillTyped
  BY TypesFollow, VisualTypesFollow DEF SkillInv, PairInv, SkillTyped
<1>4. QED
  BY <1>1, <1>2, <1>3, PTL DEF AllSpec
=============================================================================
