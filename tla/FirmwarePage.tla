----------------------------- MODULE FirmwarePage -----------------------------
(***************************************************************************)
(* The firmware catalog (frontend app/firmware/page.tsx): upload, edit and *)
(* deletion of releases, each followed by a reload of the list.  The page  *)
(* does not poll: a list that has gone stale stays so.  The dialogs may be *)
(* closed and opened for another release while a request of theirs is      *)
(* under way, so that operations of three kinds and loads overlap.         *)
(***************************************************************************)
EXTENDS Naturals, FiniteSets

CONSTANTS
  Files,      \* the releases that may be uploaded, one request each
  MaxFetches    \* bound on the loads of the list

VARIABLES
  releasesAt,  \* the catalog of the backend: releases with their version tag
  rows,        \* the list on the page
  fetches,     \* loads under way, with what the backend answered
  fetched,     \* how many were started
  fetchError,  \* loadError
  editing,     \* the release of the edit dialog, or NoFile
  removing,    \* the release of the deletion dialog, or NoFile
  op,          \* the request of each kind: where it stands, its release
  doubt        \* two loads overlapped, or an answer was lost

firmwareVars ==
  <<releasesAt, rows, fetches, fetched, fetchError, editing, removing, op, doubt>>

NoFile == "none"
Kinds == {"upload", "edit", "delete"}
Idle == [at |-> "idle", of |-> NoFile, load |-> 0]

FirmwareInit ==
  /\ releasesAt = {} /\ rows = {}
  /\ fetches = {} /\ fetched = 0 /\ fetchError = FALSE
  /\ editing = NoFile /\ removing = NoFile
  /\ op = [k \in Kinds |-> Idle]
  /\ doubt = FALSE

(* Every operation may need a load: the bound keeps one for each.          *)
Room == fetched + Cardinality({k \in Kinds : op[k].at \in {"sent", "done"}}) < MaxFetches

(* loadFirmwares.                                                          *)
Fetch ==
  /\ fetched' = fetched + 1
  /\ fetches' = fetches \union {[nr |-> fetched', seen |-> releasesAt]}
  /\ doubt' = (doubt \/ fetches # {})

NoFetch == UNCHANGED <<fetches, fetched, doubt>>
OpAt(k, at) == op' = [op EXCEPT ![k].at = at]

(* The first load, "Refresh Catalog" and "Retry now".                      *)
Refresh ==
  /\ Room /\ Fetch
  /\ UNCHANGED <<releasesAt, rows, fetchError, editing, removing, op>>

(* A settled load also ends the operation that awaits it.                  *)
Released(q) == [k \in Kinds |-> IF op[k].load = q.nr THEN Idle ELSE op[k]]

FetchAnswered(q) ==
  /\ fetches' = fetches \ {q} /\ op' = Released(q)
  /\ rows' = q.seen /\ fetchError' = FALSE
  /\ UNCHANGED <<releasesAt, fetched, editing, removing, doubt>>

FetchFails(q) ==
  /\ fetches' = fetches \ {q} /\ op' = Released(q)
  /\ fetchError' = TRUE
  /\ UNCHANGED <<releasesAt, rows, fetched, editing, removing, doubt>>

-----------------------------------------------------------------------------
Listed(f) == \E e \in rows : e.file = f

OpenEdit(f) ==
  /\ Listed(f) /\ editing = NoFile /\ removing = NoFile /\ editing' = f
  /\ UNCHANGED <<releasesAt, rows, fetchError, removing, op>> /\ NoFetch

OpenRemove(f) ==
  /\ Listed(f) /\ editing = NoFile /\ removing = NoFile /\ removing' = f
  /\ UNCHANGED <<releasesAt, rows, fetchError, editing, op>> /\ NoFetch

(* The close and cancel buttons work during a request as well.             *)
CloseDialog ==
  /\ editing # NoFile \/ removing # NoFile
  /\ editing' = NoFile /\ removing' = NoFile
  /\ UNCHANGED <<releasesAt, rows, fetchError, op>> /\ NoFetch

(* handleUpload, handleUpdate, handleDelete, up to their request.  The     *)
(* release is the one of the dialog, or the file chosen for the upload.    *)
Subject(k, f) ==
  CASE k = "upload" -> editing = NoFile /\ removing = NoFile
    [] k = "edit"   -> editing = f
    [] k = "delete" -> removing = f

Submit(k, f) ==
  /\ op[k].at = "idle" /\ Subject(k, f) /\ Room
  /\ op' = [op EXCEPT ![k] = [at |-> "sent", of |-> f, load |-> 0]]
  /\ UNCHANGED <<releasesAt, rows, fetchError, editing, removing>> /\ NoFetch

(* The backend: a release has one version, a deleted one cannot be edited. *)
After(k, f) ==
  LET others == {e \in releasesAt : e.file # f}
  IN  CASE k = "upload" -> others \union {[file |-> f, tag |-> "first"]}
        [] k = "edit"   -> others \union {[file |-> f, tag |-> "edited"]}
        [] k = "delete" -> others
Possible(k, f) == (\E e \in releasesAt : e.file = f) <=> k # "upload"

ServeOp(k) ==
  /\ op[k].at = "sent" /\ Possible(k, op[k].of)
  /\ releasesAt' = After(k, op[k].of)
  /\ OpAt(k, "done")
  /\ UNCHANGED <<rows, fetchError, editing, removing>> /\ NoFetch

(* Mutant of Succeeds: the list is not loaded again.                       *)
SucceedsSilently(k) ==
  /\ op[k].at = "done"
  /\ editing' = IF k = "edit" THEN NoFile ELSE editing
  /\ removing' = IF k = "delete" THEN NoFile ELSE removing
  /\ op' = [op EXCEPT ![k] = Idle]
  /\ UNCHANGED <<releasesAt, rows, fetchError>> /\ NoFetch

(* The answer closes whatever dialog of its kind is open; edit and delete  *)
(* stay busy until the list is there.                                      *)
Succeeds(k) ==
  /\ op[k].at = "done"
  /\ editing' = IF k = "edit" THEN NoFile ELSE editing
  /\ removing' = IF k = "delete" THEN NoFile ELSE removing
  /\ Fetch
  /\ op' = [op EXCEPT ![k] = IF k = "upload" THEN Idle
                            ELSE [@ EXCEPT !.at = "reloading", !.load = fetched']]
  /\ UNCHANGED <<releasesAt, rows, fetchError>>

(* Mutant of Fails: without the finally block.                             *)
FailsBusy(k) ==
  /\ op[k].at = "sent" /\ OpAt(k, "failed")
  /\ UNCHANGED <<releasesAt, rows, fetchError, editing, removing>> /\ NoFetch

Fails(k) ==
  /\ op[k].at = "sent" /\ op' = [op EXCEPT ![k] = Idle]
  /\ UNCHANGED <<releasesAt, rows, fetchError, editing, removing>> /\ NoFetch

(* The backend did it, the answer gets lost: an error, and no reload.      *)
AnswerLost(k) ==
  /\ op[k].at = "done" /\ op' = [op EXCEPT ![k] = Idle]
  /\ doubt' = TRUE
  /\ UNCHANGED <<releasesAt, rows, fetches, fetched, fetchError, editing, removing>>

Settling(k) == ServeOp(k) \/ Succeeds(k) \/ Fails(k)
Fetched == \E q \in fetches : FetchAnswered(q) \/ FetchFails(q)

FirmwareNext ==
  \/ Refresh \/ Fetched \/ CloseDialog
  \/ \E f \in Files : OpenEdit(f) \/ OpenRemove(f) \/ \E k \in Kinds : Submit(k, f)
  \/ \E k \in Kinds : Settling(k) \/ AnswerLost(k)

(* Requests are answered or fail.                                          *)
FirmwareFairness ==
  WF_firmwareVars(Fetched) /\ \A k \in Kinds : WF_firmwareVars(Settling(k))

FirmwareSpec == FirmwareInit /\ [][FirmwareNext]_firmwareVars /\ FirmwareFairness

-----------------------------------------------------------------------------
FirmwareTypeOK ==
  /\ rows \subseteq [file : Files, tag : {"first", "edited"}]
  /\ editing \in Files \union {NoFile} /\ removing \in Files \union {NoFile}
  /\ \A k \in Kinds : op[k].at = "reloading" => \E q \in fetches : q.nr = op[k].load

(* The list is current although nothing polls: when no operation and no    *)
(* load is under way, it shows what the page's own operations have made of *)
(* the catalog, unless the page says that a load failed, or two loads      *)
(* overlapped, or an answer was lost (page.tsx:180 orders nothing).        *)
CatalogIsCurrent ==
  fetched > 0 /\ fetches = {} /\ (\A k \in Kinds : op[k].at = "idle") =>
    rows = releasesAt \/ fetchError \/ doubt

(* No button stays busy: every operation ends, with its reload, however    *)
(* the dialogs were closed and opened meanwhile.                           *)
OperationsSettle ==
  \A k \in Kinds : op[k].at # "idle" ~> op[k].at = "idle"
=============================================================================
