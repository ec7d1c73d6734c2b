-------------------------- MODULE ArchitectureCompare --------------------------
(***************************************************************************)
(* archify compare (bin/archify.mjs): renders two snapshots of an          *)
(* architecture, writes their delta as an HTML artifact with a receipt     *)
(* beside it, and commits the two files as a pair by moving the previous   *)
(* ones aside.  Every call of the file system may fail, the process may    *)
(* end between any two of them, and the inputs may be edited meanwhile.    *)
(***************************************************************************)
EXTENDS Naturals

CONSTANTS
  Snapshots,  \* contents an input may have
  Valid,      \* those that pass the renderer's checks
  NoFile,       \* no file
  MaxEdits,   \* bound on the edits of the inputs
  MaxFaults,  \* bound on failing calls
  MaxRuns     \* bound on how often the command is run

ASSUME CompareAssumption == MaxEdits \in Nat /\ MaxFaults \in Nat /\ MaxRuns \in Nat

VARIABLES
  base, head,         \* the input files
  html, sidecar,      \* the artifact and its receipt: the snapshots they were made from
  oldHtml, oldReceipt,\* what was moved aside into the staging directory
  stage,              \* where the command is
  readBase, readHead, \* the snapshots as parsed
  before,             \* html and receipt when the command began
  damaged,            \* a rollback was not completed, and said so, and none was committed since
  edits, faults, runs

inputs == <<base, head, edits>>
outputs == <<html, sidecar>>
aside == <<oldHtml, oldReceipt>>
parsed == <<readBase, readHead>>
compareVars == <<inputs, outputs, aside, stage, parsed, before, damaged, faults, runs>>

Delta == <<readBase, readHead>>

CompareInit ==
  /\ base \in Snapshots /\ head \in Snapshots /\ edits = 0
  /\ html = NoFile /\ sidecar = NoFile /\ oldHtml = NoFile /\ oldReceipt = NoFile
  /\ stage = "idle" /\ readBase = NoFile /\ readHead = NoFile
  /\ before = <<NoFile, NoFile>> /\ damaged = FALSE /\ faults = 0 /\ runs = 0

Enter(next) == stage' = next

Edit ==
  /\ edits < MaxEdits /\ edits' = edits + 1
  /\ \/ base' \in Snapshots \ {base} /\ UNCHANGED head
     \/ head' \in Snapshots \ {head} /\ UNCHANGED base
  /\ UNCHANGED <<outputs, aside, stage, parsed, before, damaged, faults, runs>>

-----------------------------------------------------------------------------
(* commandCompare, up to the commit.                                       *)

BeginCompare ==
  /\ stage = "idle" /\ runs < MaxRuns /\ runs' = runs + 1 /\ Enter("base")
  /\ oldHtml' = NoFile /\ oldReceipt' = NoFile
  /\ before' = <<html, sidecar>>
  /\ UNCHANGED <<inputs, outputs, parsed, damaged, faults>>

ReadBase ==
  /\ stage = "base" /\ Enter("head") /\ readBase' = base
  /\ UNCHANGED <<inputs, outputs, aside, readHead, before, damaged, faults, runs>>

ReadHead ==
  /\ stage = "head" /\ Enter("validate") /\ readHead' = head
  /\ UNCHANGED <<inputs, outputs, aside, readBase, before, damaged, faults, runs>>

Quiet == UNCHANGED <<inputs, outputs, aside, parsed, before, damaged, faults, runs>>

(* renderValidatedArchitecture reads the two files again.                  *)
ValidateAuthored ==
  /\ stage = "validate" /\ Enter(IF base \in Valid THEN "validateHead" ELSE "finally") /\ Quiet

ValidateHead ==
  /\ stage = "validateHead" /\ Enter(IF head \in Valid THEN "render" ELSE "finally") /\ Quiet

(* The canonical form of what was parsed is rendered, checked and compared.*)
RenderCandidates ==
  /\ stage = "render"
  /\ Enter(IF readBase \in Valid /\ readHead \in Valid THEN "backupHtml" ELSE "finally")
  /\ Quiet

(* Anything before the commit that fails ends the command.                 *)
FailsEarly ==
  /\ stage \in {"base", "head", "validate", "validateHead", "render"} /\ Enter("finally") /\ Quiet

-----------------------------------------------------------------------------
(* commitComparePair: a file that exists is moved aside.  The receipt is   *)
(* moved before either candidate takes its place.                          *)

(* Mutant of BackupHtml: one file after the other is replaced.             *)
BackupHtmlOnly ==
  /\ stage = "backupHtml" /\ Enter("commitHtml")
  /\ html' = NoFile /\ oldHtml' = html
  /\ UNCHANGED <<inputs, sidecar, oldReceipt, parsed, before, damaged, faults, runs>>

BackupHtml ==
  /\ stage = "backupHtml" /\ Enter("backupReceipt")
  /\ html' = NoFile /\ oldHtml' = html
  /\ UNCHANGED <<inputs, sidecar, oldReceipt, parsed, before, damaged, faults, runs>>

BackupReceipt ==
  /\ stage = "backupReceipt" /\ Enter("commitHtml")
  /\ sidecar' = NoFile /\ oldReceipt' = sidecar
  /\ UNCHANGED <<inputs, html, oldHtml, parsed, before, damaged, faults, runs>>

CommitHtml ==
  /\ stage = "commitHtml" /\ Enter("commitReceipt") /\ html' = Delta
  /\ UNCHANGED <<inputs, sidecar, aside, parsed, before, damaged, faults, runs>>

CommitReceipt ==
  /\ stage = "commitReceipt" /\ Enter("done") /\ sidecar' = Delta /\ damaged' = FALSE
  /\ UNCHANGED <<inputs, html, aside, parsed, before, faults, runs>>

RenameFails ==
  /\ stage \in {"backupHtml", "backupReceipt", "commitHtml", "commitReceipt"}
  /\ stage = "backupHtml" => html # NoFile
  /\ stage = "backupReceipt" => sidecar # NoFile
  /\ faults < MaxFaults /\ faults' = faults + 1
  /\ Enter(IF stage = "commitReceipt" THEN "removeHtml" ELSE "restoreReceipt")
  /\ UNCHANGED <<inputs, outputs, aside, parsed, before, damaged, runs>>

(* The rollback, in reverse order; a call of it that fails is reported and *)
(* the next one is made.                                                   *)
RemoveHtml ==
  /\ stage = "removeHtml" /\ Enter("restoreReceipt") /\ html' = NoFile
  /\ UNCHANGED <<inputs, sidecar, aside, parsed, before, damaged, faults, runs>>

RestoreReceipt ==
  /\ stage = "restoreReceipt" /\ Enter("restoreHtml")
  /\ IF oldReceipt = NoFile THEN UNCHANGED <<sidecar, oldReceipt>>
     ELSE sidecar' = oldReceipt /\ oldReceipt' = NoFile
  /\ UNCHANGED <<inputs, html, oldHtml, parsed, before, damaged, faults, runs>>

RestoreHtml ==
  /\ stage = "restoreHtml" /\ Enter("restored")
  /\ IF oldHtml = NoFile THEN UNCHANGED <<html, oldHtml>>
     ELSE html' = oldHtml /\ oldHtml' = NoFile
  /\ UNCHANGED <<inputs, sidecar, oldReceipt, parsed, before, damaged, faults, runs>>

RollbackFails ==
  /\ stage \in {"removeHtml", "restoreReceipt", "restoreHtml"}
  /\ stage = "restoreReceipt" => oldReceipt # NoFile
  /\ stage = "restoreHtml" => oldHtml # NoFile
  /\ faults < MaxFaults /\ faults' = faults + 1
  /\ damaged' = TRUE
  /\ Enter(CASE stage = "removeHtml" -> "restoreReceipt"
            [] stage = "restoreReceipt" -> "restoreHtml"
            [] stage = "restoreHtml" -> "restored")
  /\ UNCHANGED <<inputs, outputs, aside, parsed, before, runs>>

(* The staging directory goes, with whatever could not be restored.        *)
RemoveStaging ==
  /\ stage \in {"done", "restored", "finally"} /\ Enter("idle")
  /\ oldHtml' = NoFile /\ oldReceipt' = NoFile /\ readBase' = NoFile /\ readHead' = NoFile
  /\ UNCHANGED <<inputs, outputs, before, damaged, faults, runs>>

(* The process ends: what was moved aside stays in the staging directory.  *)
CompareKilled ==
  /\ stage # "idle" /\ Enter("idle")
  /\ readBase' = NoFile /\ readHead' = NoFile /\ before' = outputs
  /\ UNCHANGED <<inputs, outputs, aside, damaged, faults, runs>>

CompareNext ==
  \/ Edit \/ BeginCompare \/ ReadBase \/ ReadHead \/ ValidateAuthored \/ ValidateHead
  \/ RenderCandidates \/ FailsEarly
  \/ BackupHtml \/ BackupReceipt \/ CommitHtml \/ CommitReceipt \/ RenameFails
  \/ RemoveHtml \/ RestoreReceipt \/ RestoreHtml \/ RollbackFails \/ RemoveStaging \/ CompareKilled

CompareSpec == CompareInit /\ [][CompareNext]_compareVars

-----------------------------------------------------------------------------
Deltas == Valid \X Valid
File(f) == f = NoFile \/ f \in Deltas

CompareTypeOK ==
  /\ base \in Snapshots /\ head \in Snapshots
  /\ File(html) /\ File(sidecar) /\ File(oldHtml) /\ File(oldReceipt)
  /\ stage \in {"idle", "base", "head", "validate", "validateHead", "render", "backupHtml",
             "backupReceipt", "commitHtml", "commitReceipt", "removeHtml", "restoreReceipt",
             "restoreHtml", "restored", "done", "finally"}
  /\ readBase \in Snapshots \union {NoFile} /\ readHead \in Snapshots \union {NoFile}
  /\ damaged \in BOOLEAN
  /\ edits \in 0..MaxEdits /\ faults \in 0..MaxFaults /\ runs \in 0..MaxRuns

(* The pair is never mixed: whoever looks at the two files, at any moment  *)
(* and after a command that was killed, never finds an artifact beside the *)
(* receipt of another one, although no call replaces both; and a command   *)
(* that fails leaves the pair as it found it ("the previous files were     *)
(* restored").  A rollback that could not be completed is the exception,   *)
(* and says so.                                                            *)
PairBelongsTogether ==
  \/ damaged
  \/ /\ html # NoFile /\ sidecar # NoFile => html = sidecar
     /\ stage \in {"restored", "finally"} => <<html, sidecar>> = before
     /\ stage = "done" => html = Delta /\ sidecar = Delta
=============================================================================
