--------------------------- MODULE FirmwareRelease ---------------------------
(***************************************************************************)
(* The release service (backend/internal/firmware/service.go) over its two *)
(* stores: the table firmware_versions and the object bucket.  Neither     *)
(* store knows the other, so every step of Release and Delete is an action *)
(* of its own, and the requests of several operators interleave.  A call   *)
(* of the bucket may fail; an error of the database means that the         *)
(* statement had no effect.                                                *)
(***************************************************************************)
EXTENDS Naturals, FiniteSets

CONSTANTS
  Releases,    \* requests to release a binary; each has data of its own
  VersionOf,   \* the version each request asks for
  KeyOf        \* "firmware/<version>/<file name>", the object it writes

VARIABLES
  catalog,    \* the rows: which requests recorded a version
  bucket,     \* the objects: key to the request whose data it holds
  deployed,   \* the rows a deployment refers to
  release,    \* where each request stands
  deletion,   \* where the deletion of each row stands
  left        \* the keys whose last call of the bucket came back with an error

relVars == <<catalog, bucket, deployed, release, deletion, left>>

Nothing == "nothing"
Keys == {KeyOf[r] : r \in Releases}

RelInit ==
  /\ catalog = {} /\ deployed = {}
  /\ bucket = [k \in Keys |-> Nothing]
  /\ release = [r \in Releases |-> "new"]
  /\ deletion = [r \in Releases |-> "none"]
  /\ left = {}

Recorded(v) == \E r \in catalog : VersionOf[r] = v
At(r, from, to) == release[r] = from /\ release' = [release EXCEPT ![r] = to]

(* A call of the bucket succeeds, or it fails, which does not say whether  *)
(* it was carried out.                                                     *)
Put(k, data) == bucket' = [bucket EXCEPT ![k] = data]
Succeeds(k, data) == Put(k, data) /\ left' = left \ {k}
Fails(k, data) == (Put(k, data) \/ UNCHANGED bucket) /\ left' = left \union {k}

-----------------------------------------------------------------------------
(* Release: uniqueness first, then signing and upload, then the row.       *)
CheckUnique(r) ==
  /\ At(r, "new", IF Recorded(VersionOf[r]) THEN "refused" ELSE "unique")
  /\ UNCHANGED <<catalog, bucket, deployed, deletion, left>>

PutObject(r) ==
  /\ At(r, "unique", "stored")
  /\ Succeeds(KeyOf[r], r)
  /\ UNCHANGED <<catalog, deployed, deletion>>

PutFails(r) ==
  /\ At(r, "unique", "refused")
  /\ Fails(KeyOf[r], r)
  /\ UNCHANGED <<catalog, deployed, deletion>>

(* The unique column refuses a version that was recorded meanwhile.        *)
Insert(r) ==
  /\ ~Recorded(VersionOf[r])
  /\ At(r, "stored", "released")
  /\ catalog' = catalog \union {r}
  /\ UNCHANGED <<bucket, deployed, deletion, left>>

InsertFails(r) ==
  /\ At(r, "stored", "compensating")
  /\ UNCHANGED <<catalog, bucket, deployed, deletion, left>>

(* Mutant of Compensate: nothing is removed when another request has       *)
(* recorded the version meanwhile.                                         *)
CompensateUnlessRecorded(r) ==
  /\ At(r, "compensating", "refused")
  /\ IF Recorded(VersionOf[r]) THEN UNCHANGED <<bucket, left>>
     ELSE Succeeds(KeyOf[r], Nothing) \/ Fails(KeyOf[r], Nothing)
  /\ UNCHANGED <<catalog, deployed, deletion>>

(* "Compensating action: remove uploaded object to prevent orphans"; its   *)
(* error is ignored.                                                       *)
Compensate(r) ==
  /\ At(r, "compensating", "refused")
  /\ Succeeds(KeyOf[r], Nothing) \/ Fails(KeyOf[r], Nothing)
  /\ UNCHANGED <<catalog, deployed, deletion>>

-----------------------------------------------------------------------------
(* Delete: the object first, whose error is ignored, then the row, unless  *)
(* a deployment refers to it.  A row that stayed may be deleted again.     *)
Forget(r, from, to) == deletion[r] = from /\ deletion' = [deletion EXCEPT ![r] = to]

FindRow(r) ==
  /\ r \in catalog /\ (Forget(r, "none", "found") \/ Forget(r, "done", "found"))
  /\ UNCHANGED <<catalog, bucket, deployed, release, left>>

RemoveObject(r) ==
  /\ Forget(r, "found", "removed")
  /\ Succeeds(KeyOf[r], Nothing) \/ Fails(KeyOf[r], Nothing)
  /\ UNCHANGED <<catalog, deployed, release>>

DeleteRow(r) ==
  /\ Forget(r, "removed", "done")
  /\ (r \notin deployed /\ catalog' = catalog \ {r}) \/ UNCHANGED catalog
  /\ UNCHANGED <<bucket, deployed, release, left>>

(* CreateDeployment refers to a row (deployments.firmware_version_id).     *)
Deploy(r) ==
  /\ r \in catalog \ deployed
  /\ deployed' = deployed \union {r}
  /\ UNCHANGED <<catalog, bucket, release, deletion, left>>

RelNext ==
  \E r \in Releases :
    \/ CheckUnique(r) \/ PutObject(r) \/ PutFails(r)
    \/ Insert(r) \/ InsertFails(r) \/ Compensate(r)
    \/ FindRow(r) \/ RemoveObject(r) \/ DeleteRow(r) \/ Deploy(r)

RelSpec == RelInit /\ [][RelNext]_relVars

-----------------------------------------------------------------------------
RelTypeOK ==
  /\ catalog \subseteq Releases /\ deployed \subseteq catalog
  /\ bucket \in [Keys -> Releases \union {Nothing}]
  /\ release \in [Releases ->
       {"new", "unique", "stored", "compensating", "refused", "released"}]
  /\ deletion \in [Releases -> {"none", "found", "removed", "done"}]
  /\ left \subseteq Keys

SharesKey(r) == \E s \in Releases \ {r} : KeyOf[s] = KeyOf[r]

(* Uploads are matched by rows: once every request has been answered, an   *)
(* object without a row is only where the last call of the bucket failed   *)
(* (service.go:128 and :167 ignore that), whatever the database refused    *)
(* and however releases and deletions of one version interleaved.          *)
NoOrphans ==
  (\A r \in Releases : release[r] \in {"new", "refused", "released"}) =>
    \A k \in Keys \ left : bucket[k] # Nothing => \E r \in catalog : KeyOf[r] = k

(* A release whose key nobody else writes keeps the binary its checksum    *)
(* was computed from until somebody asks to delete it: a lost race for the *)
(* version harms it only through a shared key (service.go:102).            *)
OwnKeyKeepsBinary ==
  \A r \in catalog :
    ~SharesKey(r) /\ deletion[r] = "none" => bucket[KeyOf[r]] = r

(* Database and object store agree, on what was released and what not.     *)
StoresAgree == NoOrphans /\ OwnKeyKeepsBinary

(* "If this version was already deployed in fleet rollouts, it will be     *)
(* safely deactivated to preserve historical audit logs" (firmware/page    *)
(* .tsx:603): a deployed release still has its binary.                     *)
DeployedKeepsBinary ==
  \A r \in deployed : ~SharesKey(r) => bucket[KeyOf[r]] = r
=============================================================================
