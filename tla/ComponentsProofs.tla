--------------------------- MODULE ComponentsProofs ---------------------------
(***************************************************************************)
(* The release service, the registry and the session of a browser, each    *)
(* for any number of its requests, deployments, tabs and tokens, and the   *)
(* types of all three side by side in one behaviour.                       *)
(***************************************************************************)
EXTENDS MCComponents, FiniteSetTheorems, SequenceTheorems, TLAPS

(* The key of an object begins with the version (service.go:102).          *)
KeysNameVersions ==
  \A r, s \in Releases : KeyOf[r] = KeyOf[s] => VersionOf[r] = VersionOf[s]

Uploading == {"stored", "compensating"}

UploadOf(k) == \E s \in Releases : release[s] \in Uploading /\ KeyOf[s] = k
RowOf(k) == \E s \in catalog : KeyOf[s] = k

(* A version is recorded once, by a request that was told so.              *)
RowsInv ==
  /\ \A r \in catalog : release[r] = "released"
  /\ \A r \in Releases : deletion[r] # "none" => release[r] = "released"
  /\ \A r, s \in catalog : VersionOf[r] = VersionOf[s] => r = s

(* An object belongs to a row or to an upload whose request is not over,   *)
(* and to an upload when the deletion of the row has removed the object,   *)
(* unless the last call of the bucket failed.                              *)
ObjectsInv ==
  \A k \in Keys \ left : bucket[k] # Nothing =>
    \/ UploadOf(k)
    \/ \E r \in catalog : KeyOf[r] = k /\ deletion[r] # "removed"

(* What nobody else writes stays until its deletion.                       *)
OwnInv ==
  \A r \in Releases :
    ~SharesKey(r) /\ (release[r] \in Uploading
                      \/ (r \in catalog /\ deletion[r] = "none")) =>
      bucket[KeyOf[r]] = r

RelInv == RelTypeOK /\ RowsInv /\ ObjectsInv /\ OwnInv

USE DEF At, Put, Succeeds, Fails, Forget

-----------------------------------------------------------------------------
LEMMA KeyInKeys ==
  ASSUME NEW r \in Releases
  PROVE  KeyOf[r] \in Keys
BY DEF Keys

LEMMA TypesStep ==
  ASSUME RelTypeOK, NEW r \in Releases,
         \/ CheckUnique(r) \/ PutObject(r) \/ PutFails(r)
         \/ Insert(r) \/ InsertFails(r) \/ Compensate(r)
         \/ FindRow(r) \/ RemoveObject(r) \/ DeleteRow(r) \/ Deploy(r)
  PROVE  RelTypeOK'
<1>1. CASE CheckUnique(r)
  BY <1>1 DEF CheckUnique, RelTypeOK
<1>2. CASE PutObject(r)
  BY <1>2, KeyInKeys DEF PutObject, RelTypeOK
<1>3. CASE PutFails(r) \/ InsertFails(r)
  BY <1>3, KeyInKeys DEF PutFails, InsertFails, RelTypeOK
<1>4. CASE Insert(r)
  BY <1>4 DEF Insert, RelTypeOK
<1>5. CASE Compensate(r)
  BY <1>5, KeyInKeys DEF Compensate, RelTypeOK
<1>6. CASE FindRow(r)
  BY <1>6 DEF FindRow, RelTypeOK
<1>7. CASE RemoveObject(r)
  BY <1>7, KeyInKeys DEF RemoveObject, RelTypeOK
<1>8. CASE DeleteRow(r)
  BY <1>8 DEF DeleteRow, RelTypeOK
<1>9. CASE Deploy(r)
  BY <1>9 DEF Deploy, RelTypeOK
<1>10. QED
  BY <1>1, <1>2, <1>3, <1>4, <1>5, <1>6, <1>7, <1>8, <1>9

-----------------------------------------------------------------------------
(* One lemma per store that a step writes.                                 *)

(* A request moves on and calls no store.                                  *)
LEMMA RequestKeeps ==
  ASSUME RelInv, NEW r \in Releases, CheckUnique(r) \/ InsertFails(r)
  PROVE  RowsInv' /\ ObjectsInv' /\ OwnInv'
<1>1. /\ catalog' = catalog /\ bucket' = bucket /\ deletion' = deletion /\ left' = left
      /\ \A s \in Releases \ {r} : release'[s] = release[s]
      /\ release'[r] \in Uploading <=> release[r] \in Uploading
      /\ release[r] # "released"
  BY DEF RelInv, RelTypeOK, CheckUnique, InsertFails, Uploading
<1>2. RowsInv'
  BY <1>1 DEF RelInv, RelTypeOK, RowsInv
<1>3. ObjectsInv'
  BY <1>1 DEF RelInv, ObjectsInv, UploadOf
<1>4. OwnInv'
  BY <1>1 DEF RelInv, OwnInv, SharesKey
<1>5. QED
  BY <1>2, <1>3, <1>4

(* A request ends with a call of the bucket: of an upload that failed, or  *)
(* of a compensation.                                                      *)
LEMMA RefusalKeeps ==
  ASSUME RelInv, NEW r \in Releases, PutFails(r) \/ Compensate(r)
  PROVE  RowsInv' /\ ObjectsInv' /\ OwnInv'
<1>1. /\ catalog' = catalog /\ deletion' = deletion
      /\ release'[r] = "refused" /\ release[r] # "released"
      /\ \A s \in Releases \ {r} : release'[s] = release[s]
      /\ \A k \in Keys \ {KeyOf[r]} : bucket'[k] = bucket[k] /\ (k \in left' <=> k \in left)
  BY KeyInKeys DEF RelInv, RelTypeOK, PutFails, Compensate
<1>2. KeyOf[r] \in left' \/ bucket'[KeyOf[r]] = Nothing
  BY KeyInKeys DEF RelInv, RelTypeOK, PutFails, Compensate
<1>3. r \notin catalog
  BY <1>1 DEF RelInv, RowsInv
<1>4. RowsInv'
  BY <1>1 DEF RelInv, RelTypeOK, RowsInv
<1>5. ObjectsInv'
  BY <1>1, <1>2 DEF RelInv, ObjectsInv, UploadOf
<1>6. OwnInv'
  BY <1>1, <1>3, KeyInKeys DEF RelInv, RelTypeOK, OwnInv, SharesKey, Uploading
<1>7. QED
  BY <1>4, <1>5, <1>6

LEMMA PutKeeps ==
  ASSUME RelInv, NEW r \in Releases, PutObject(r)
  PROVE  RowsInv' /\ ObjectsInv' /\ OwnInv'
<1>1. /\ catalog' = catalog /\ deletion' = deletion
      /\ release'[r] = "stored" /\ release[r] = "unique"
      /\ \A s \in Releases \ {r} : release'[s] = release[s]
      /\ bucket'[KeyOf[r]] = r
      /\ \A k \in Keys \ {KeyOf[r]} : bucket'[k] = bucket[k] /\ (k \in left' <=> k \in left)
  BY KeyInKeys DEF RelInv, RelTypeOK, PutObject
<1>2. RowsInv'
  BY <1>1 DEF RelInv, RelTypeOK, RowsInv
<1>3. ObjectsInv'
  BY <1>1 DEF RelInv, ObjectsInv, UploadOf, Uploading
<1>4. OwnInv'
  BY <1>1, KeyInKeys DEF RelInv, RelTypeOK, OwnInv, SharesKey
<1>5. QED
  BY <1>2, <1>3, <1>4

LEMMA InsertKeeps ==
  ASSUME KeysNameVersions, RelInv, NEW r \in Releases, Insert(r)
  PROVE  RowsInv' /\ ObjectsInv' /\ OwnInv'
<1>1. /\ catalog' = catalog \union {r} /\ bucket' = bucket /\ deletion' = deletion
      /\ left' = left
      /\ release'[r] = "released" /\ release[r] = "stored"
      /\ \A s \in Releases \ {r} : release'[s] = release[s]
      /\ \A s \in catalog : VersionOf[s] # VersionOf[r]
  BY DEF RelInv, RelTypeOK, Insert, Recorded
<1>2. deletion[r] = "none" /\ catalog \subseteq Releases
  BY <1>1 DEF RelInv, RowsInv, RelTypeOK
<1>3. RowsInv'
  BY <1>1, <1>2 DEF RelInv, RowsInv
<1>4. ObjectsInv'
  BY <1>1, <1>2 DEF RelInv, ObjectsInv, UploadOf
<1>5. OwnInv'
  BY <1>1, <1>2 DEF RelInv, OwnInv, SharesKey, Uploading
<1>6. QED
  BY <1>3, <1>4, <1>5

LEMMA RemoveKeeps ==
  ASSUME RelInv, NEW r \in Releases, RemoveObject(r)
  PROVE  RowsInv' /\ ObjectsInv' /\ OwnInv'
<1>1. /\ catalog' = catalog /\ release' = release
      /\ deletion'[r] = "removed" /\ deletion[r] = "found"
      /\ \A s \in Releases \ {r} : deletion'[s] = deletion[s]
      /\ \A k \in Keys \ {KeyOf[r]} : bucket'[k] = bucket[k] /\ (k \in left' <=> k \in left)
  BY KeyInKeys DEF RelInv, RelTypeOK, RemoveObject
<1>2. KeyOf[r] \in left' \/ bucket'[KeyOf[r]] = Nothing
  BY KeyInKeys DEF RelInv, RelTypeOK, RemoveObject
<1>3. RowsInv'
  BY <1>1 DEF RelInv, RelTypeOK, RowsInv
<1>4. ObjectsInv'
  BY <1>1, <1>2 DEF RelInv, RelTypeOK, ObjectsInv, UploadOf
<1>5. OwnInv'
  <2>1. release[r] \notin Uploading
    BY <1>1 DEF RelInv, RowsInv, Uploading
  <2>2. QED
    BY <1>1, <2>1, KeyInKeys DEF RelInv, RelTypeOK, OwnInv, SharesKey
<1>6. QED
  BY <1>3, <1>4, <1>5

(* FindRow, DeleteRow and Deploy leave the objects alone.                  *)
LEMMA RowKeeps ==
  ASSUME RelInv, NEW r \in Releases, FindRow(r) \/ DeleteRow(r) \/ Deploy(r)
  PROVE  RowsInv' /\ ObjectsInv' /\ OwnInv'
<1>1. bucket' = bucket /\ release' = release /\ left' = left
  BY DEF FindRow, DeleteRow, Deploy
<1>2. CASE FindRow(r)
  <2>1. /\ catalog' = catalog /\ r \in catalog /\ deletion'[r] = "found"
        /\ \A s \in Releases \ {r} : deletion'[s] = deletion[s]
    BY <1>2 DEF RelInv, RelTypeOK, FindRow
  <2>2. RowsInv'
    BY <1>1, <2>1 DEF RelInv, RelTypeOK, RowsInv
  <2>3. ObjectsInv'
    BY <1>1, <2>1 DEF RelInv, RelTypeOK, ObjectsInv, UploadOf
  <2>4. OwnInv'
    BY <1>1, <2>1 DEF RelInv, RelTypeOK, OwnInv, SharesKey
  <2>5. QED
    BY <2>2, <2>3, <2>4
<1>3. CASE DeleteRow(r)
  <2>1. /\ catalog' = catalog \/ catalog' = catalog \ {r}
        /\ deletion[r] = "removed" /\ deletion'[r] = "done"
        /\ \A s \in Releases \ {r} : deletion'[s] = deletion[s]
    BY <1>3 DEF RelInv, RelTypeOK, DeleteRow
  <2>2. RowsInv'
    BY <1>1, <2>1 DEF RelInv, RelTypeOK, RowsInv
  <2>3. ObjectsInv'
    BY <1>1, <2>1 DEF RelInv, RelTypeOK, ObjectsInv, UploadOf
  <2>4. OwnInv'
    BY <1>1, <2>1 DEF RelInv, RelTypeOK, OwnInv, SharesKey
  <2>5. QED
    BY <2>2, <2>3, <2>4
<1>4. CASE Deploy(r)
  BY <1>1, <1>4 DEF Deploy, RelInv, RowsInv, ObjectsInv, UploadOf, OwnInv, SharesKey
<1>5. QED
  BY <1>2, <1>3, <1>4

LEMMA RelStep == KeysNameVersions /\ RelInv /\ [RelNext]_relVars => RelInv'
<1> SUFFICES ASSUME KeysNameVersions, RelInv, [RelNext]_relVars
             PROVE  RelInv'
  OBVIOUS
<1>1. CASE UNCHANGED relVars
  BY <1>1 DEF relVars, RelInv, RelTypeOK, RowsInv, ObjectsInv, UploadOf, OwnInv, SharesKey
<1>2. ASSUME NEW r \in Releases,
             \/ CheckUnique(r) \/ PutObject(r) \/ PutFails(r)
             \/ Insert(r) \/ InsertFails(r) \/ Compensate(r)
             \/ FindRow(r) \/ RemoveObject(r) \/ DeleteRow(r) \/ Deploy(r)
      PROVE  RelInv'
  <2>1. RelTypeOK'
    BY <1>2, TypesStep DEF RelInv
  <2>2. RowsInv' /\ ObjectsInv' /\ OwnInv'
    BY <1>2, RequestKeeps, RefusalKeeps, PutKeeps, InsertKeeps, RemoveKeeps, RowKeeps
  <2>3. QED
    BY <2>1, <2>2 DEF RelInv
<1>3. QED
  BY <1>1, <1>2 DEF RelNext

-----------------------------------------------------------------------------
(* Whatever the database or the object store refuses, and however any      *)
(* number of requests interleave, an object is left without a row, once    *)
(* all requests are answered, only where the last call of the bucket       *)
(* failed; a release whose key is its own keeps its binary until somebody  *)
(* asks to delete it.                                                      *)
THEOREM StoresStayInStep ==
  ASSUME KeysNameVersions
  PROVE  RelSpec => []StoresAgree
<1>1. RelInit => RelInv
  BY DEF RelInit, RelInv, RelTypeOK, RowsInv, ObjectsInv, OwnInv, Uploading
<1>2. RelInv => StoresAgree
  <2>1. RelInv => NoOrphans
    BY DEF RelInv, ObjectsInv, UploadOf, Uploading, NoOrphans
  <2>2. RelInv => OwnKeyKeepsBinary
    BY DEF RelInv, RelTypeOK, OwnInv, OwnKeyKeepsBinary
  <2>3. QED
    BY <2>1, <2>2 DEF StoresAgree
<1>3. RelInv /\ [RelNext]_relVars => RelInv'
  BY RelStep
<1>4. QED
  BY <1>1, <1>2, <1>3, PTL DEF RelSpec

HIDE DEF At, Put, Succeeds, Fails, Forget

-----------------------------------------------------------------------------
(* The kinds of values in the registry, on the wire and on the robot.      *)
Robots == [up : BOOLEAN, version : 0..MaxDeployments, status : Statuses]
Messages == [kind : {"progress", "success", "failure"}]
Beats == [kind : {"status"}, version : 0..MaxDeployments, status : Statuses \union {"offline"}]
Commands ==
  [action : {"update", "rollback"}, version : 0..MaxDeployments, begun : BOOLEAN]
DeviceRows ==
  [present : BOOLEAN, status : Statuses \union {"offline"}, version : 0..MaxDeployments]
Entries ==
  [status : {"none", "starting", "running", "completed", "rolled_back"},
   row : {"none", "pending", "success", "failed"}, previous : 0..MaxDeployments]

(* The factory version, or that of a deployment that was started.          *)
Launched(deps, v) == v # 0 => deps[v].status \notin {"none", "starting"}

(* The versions that are installed, ordered, reported and recorded have    *)
(* been launched.                                                          *)
VersionsInv ==
  /\ Launched(dep, robot.version) /\ Launched(dep, device.version)
  /\ \A c \in commands : Launched(dep, c.version)
  /\ \A d \in Deployments : Launched(dep, dep[d].previous)
  /\ beat \in Beats \union {NoBeat} /\ (beat # NoBeat => Launched(dep, beat.version))
  /\ queue \in Seq(Messages)

(* Deployments are created one after the other.                            *)
OrderInv ==
  \A d, e \in Deployments : e < d /\ dep[d].status # "none" => dep[e].status # "none"

RegRowsInv == \A d \in Deployments : dep[d].status \in {"none", "starting"} => dep[d].row = "none"

(* A deployment that was rolled back, and what it recorded as previous.    *)
Undone(deps, v) ==
  \E d \in Deployments : v = deps[d].previous /\ deps[d].status \in {"rolled_back", "completed"}

RegInv == RegTypeOK /\ VersionsInv /\ OrderInv /\ RegRowsInv /\ RollbackGoesBack

-----------------------------------------------------------------------------
(* The largest of finitely many numbers, found by counting what lies below *)
(* any of them.                                                            *)
LEMMA LargestOf ==
  ASSUME NEW m \in Nat, NEW A \in SUBSET (1..m), A # {}
  PROVE  \E d \in A : \A e \in A : e <= d
<1>1. PICK Below : Below = {x \in 0..m : \E e \in A : x <= e}
  OBVIOUS
<1>2. /\ IsFiniteSet(Below) /\ Cardinality(Below) \in Nat
      /\ \A x \in Nat : 0..x \subseteq Below => x + 1 <= Cardinality(Below)
      /\ \A x \in Nat : Below \subseteq 0..x => Cardinality(Below) <= x + 1
      /\ Below = {} \/ Cardinality(Below) # 0
  <2>1. IsFiniteSet(0..m) /\ \A x \in Nat : IsFiniteSet(0..x) /\ Cardinality(0..x) = x + 1
    BY FS_Interval
  <2>2. Below \subseteq 0..m
    BY <1>1
  <2>3. IsFiniteSet(Below)
    BY <2>1, <2>2, FS_Subset
  <2>4. Cardinality(Below) \in Nat
    BY <2>3, FS_CardinalityType
  <2>5. \A x \in Nat : 0..x \subseteq Below => x + 1 <= Cardinality(Below)
    BY <2>1, <2>3, FS_Subset
  <2>6. \A x \in Nat : Below \subseteq 0..x => Cardinality(Below) <= x + 1
    <3> SUFFICES ASSUME NEW x \in Nat, Below \subseteq 0..x
                 PROVE  Cardinality(Below) <= x + 1
      OBVIOUS
    <3>1. IsFiniteSet(0..x) /\ Cardinality(0..x) = x + 1
      BY <2>1
    <3>2. Cardinality(Below) <= Cardinality(0..x)
      BY <3>1, FS_Subset
    <3>3. QED
      BY <3>1, <3>2
  <2>7. Below = {} \/ Cardinality(Below) # 0
    BY <2>3, FS_EmptySet
  <2>8. QED
    BY <2>3, <2>4, <2>5, <2>6, <2>7
<1>3. PICK k \in Int : k = Cardinality(Below) - 1
  BY <1>2
<1>4. \A e \in A : e \in Nat /\ 0..e \subseteq Below
  BY <1>1
<1>5. k \in Nat
  <2>1. Below # {}
    <3>1. PICK e \in A : TRUE
      OBVIOUS
    <3>2. 0 \in 0..e
      BY <1>4
    <3>3. QED
      BY <1>4, <3>2
  <2>2. QED
    BY <1>2, <1>3, <2>1
<1>6. \A e \in A : e <= k
  BY <1>2, <1>3, <1>4
<1>7. k \in Below
  <2>1. SUFFICES ASSUME k \notin Below
                 PROVE  FALSE
    OBVIOUS
  <2>2. \A x \in Below : x < k
    <3> SUFFICES ASSUME NEW x \in Below, ~(x < k)
                 PROVE  FALSE
      OBVIOUS
    <3>1. PICK e \in A : x <= e
      BY <1>1
    <3>2. x \in Nat /\ k <= x /\ k \in 0..e
      BY <1>1, <1>4, <1>5, <3>1
    <3>3. QED
      BY <1>4, <2>1, <3>2
  <2>3. k # 0
    <3>1. PICK e \in A : TRUE
      OBVIOUS
    <3>2. 0 \in Below
      BY <1>4, <3>1
    <3>3. QED
      BY <2>2, <3>2
  <2>4. Below \subseteq 0..(k - 1) /\ k - 1 \in Nat
    BY <1>1, <1>5, <2>2, <2>3
  <2>5. QED
    BY <1>2, <1>3, <2>4
<1>8. QED
  BY <1>1, <1>4, <1>5, <1>6, <1>7

(* The newest of the active rows is one of them.                           *)
LEMMA NewestIsActive ==
  ASSUME Active # {}
  PROVE  Newest \in Active
<1>1. Active \in SUBSET (1..MaxDeployments) /\ MaxDeployments \in Nat
  BY RegAssumption DEF Active, Deployments
<1>2. \E d \in Active : \A e \in Active : e <= d
  BY <1>1, LargestOf
<1>3. QED
  BY <1>2 DEF Newest

LEMMA RegInitially == RegInit => RegInv
<1> SUFFICES ASSUME RegInit
             PROVE  RegInv
  OBVIOUS
<1>1. RegTypeOK
  <2>1. robot \in Robots /\ device \in DeviceRows /\ dep \in [Deployments -> Entries]
    <3>1. robot \in Robots
      BY RegAssumption DEF RegInit, Robots, Statuses
    <3>2. device \in DeviceRows
      BY RegAssumption DEF RegInit, DeviceRows, Statuses
    <3>3. dep \in [Deployments -> Entries]
      BY RegAssumption DEF RegInit, Entries
    <3>4. QED
      BY <3>1, <3>2, <3>3
  <2>2. deleting \in BOOLEAN /\ commands = {}
    BY DEF RegInit
  <2>3. Len(queue) <= MaxQueue
    <3>1. queue = <<>> /\ Len(<<>>) = 0
      BY DEF RegInit
    <3>2. QED
      BY <3>1, RegAssumption
  <2>4. QED
    BY <2>1, <2>2, <2>3 DEF RegTypeOK, Robots, DeviceRows, Entries
<1>2. VersionsInv
  BY RegAssumption DEF RegInit, VersionsInv, Launched
<1>3. OrderInv /\ RegRowsInv
  BY DEF RegInit, OrderInv, RegRowsInv
<1>4. RollbackGoesBack
  BY RegAssumption DEF RegInit, RollbackGoesBack, Deployments
<1>5. QED
  BY <1>1, <1>2, <1>3, <1>4 DEF RegInv

(* The types, by name.                                                     *)
LEMMA RegTyped ==
  RegTypeOK <=>
    /\ robot \in Robots /\ commands \subseteq Commands
    /\ device \in DeviceRows /\ dep \in [Deployments -> Entries]
    /\ deleting \in BOOLEAN /\ Len(queue) <= MaxQueue
    /\ \A c \in commands : c.version # 0 => dep[c.version].status \notin {"none", "starting"}
BY DEF RegTypeOK, Robots, Commands, DeviceRows, Entries

LEMMA RegTypedNext ==
  RegTypeOK' <=>
    /\ robot' \in Robots /\ commands' \subseteq Commands
    /\ device' \in DeviceRows /\ dep' \in [Deployments -> Entries]
    /\ deleting' \in BOOLEAN /\ Len(queue') <= MaxQueue
    /\ \A c \in commands' : c.version # 0 => dep'[c.version].status \notin {"none", "starting"}
BY DEF RegTypeOK, Robots, Commands, DeviceRows, Entries

LEMMA BackAgain ==
  RollbackGoesBack <=>
    /\ \A d \in Deployments : dep[d].previous < d
    /\ \A c \in commands : c.action = "rollback" => Undone(dep, c.version)
BY DEF RollbackGoesBack, Undone

LEMMA BackAgainNext ==
  RollbackGoesBack' <=>
    /\ \A d \in Deployments : dep'[d].previous < d
    /\ \A c \in commands' : c.action = "rollback" => Undone(dep', c.version)
BY DEF RollbackGoesBack, Undone

(* What holds of the versions after a step that keeps what was launched    *)
(* and what was undone, and names nothing else.                            *)
LEMMA NamesKeep ==
  ASSUME RegInv, dep' \in [Deployments -> Entries],
         \A v \in 0..MaxDeployments : Launched(dep, v) => Launched(dep', v),
         \A v : Undone(dep, v) => Undone(dep', v),
         \A d \in Deployments : dep'[d].previous < d /\ Launched(dep', dep'[d].previous),
         OrderInv', RegRowsInv',
         robot' \in Robots, Launched(dep', robot'.version),
         device' \in DeviceRows, Launched(dep', device'.version),
         beat' \in Beats \union {NoBeat}, beat' # NoBeat => Launched(dep', beat'.version),
         commands' \subseteq Commands,
         \A c \in commands' :
           \/ \E o \in commands : o.action = c.action /\ o.version = c.version
           \/ Launched(dep', c.version) /\ (c.action = "rollback" => Undone(dep', c.version)),
         queue' \in Seq(Messages), Len(queue') <= MaxQueue, deleting' \in BOOLEAN
  PROVE  RegInv'
<1>1. \A c \in commands' : Launched(dep', c.version)
  <2>1. \A o \in commands : o.version \in 0..MaxDeployments /\ Launched(dep, o.version)
    BY RegTyped DEF RegInv, VersionsInv, Commands
  <2>2. QED
    BY <2>1
<1>2. \A c \in commands' : c.action = "rollback" => Undone(dep', c.version)
  <2>1. \A o \in commands : o.action = "rollback" => Undone(dep, o.version)
    BY BackAgain DEF RegInv
  <2>2. QED
    BY <2>1
<1>3. RegTypeOK'
  BY <1>1, RegTypedNext DEF Launched
<1>4. VersionsInv'
  BY <1>1 DEF VersionsInv
<1>5. RollbackGoesBack'
  BY <1>2, BackAgainNext
<1>6. QED
  BY <1>3, <1>4, <1>5 DEF RegInv

(* What every state has of this.                                           *)
LEMMA NamesNow ==
  ASSUME RegInv
  PROVE  /\ dep \in [Deployments -> Entries]
         /\ \A d \in Deployments : dep[d].previous < d /\ Launched(dep, dep[d].previous)
         /\ robot \in Robots /\ Launched(dep, robot.version)
         /\ device \in DeviceRows /\ Launched(dep, device.version)
         /\ beat \in Beats \union {NoBeat} /\ (beat # NoBeat => Launched(dep, beat.version))
         /\ commands \subseteq Commands
         /\ queue \in Seq(Messages) /\ Len(queue) <= MaxQueue /\ deleting \in BOOLEAN
<1>1. RegTypeOK /\ VersionsInv /\ RollbackGoesBack
  BY DEF RegInv
<1>2. QED
  BY <1>1, RegTyped, BackAgain DEF VersionsInv

(* A step that leaves the deployments alone.                               *)
LEMMA DepsKeep ==
  ASSUME RegInv, dep' = dep,
         robot' \in Robots, Launched(dep, robot'.version),
         device' \in DeviceRows, Launched(dep, device'.version),
         beat' \in Beats \union {NoBeat}, beat' # NoBeat => Launched(dep, beat'.version),
         commands' \subseteq Commands,
         \A c \in commands' : \E o \in commands : o.action = c.action /\ o.version = c.version,
         queue' \in Seq(Messages), Len(queue') <= MaxQueue, deleting' \in BOOLEAN
  PROVE  RegInv'
<1>1. /\ \A v : Launched(dep', v) <=> Launched(dep, v)
      /\ \A v : Undone(dep', v) <=> Undone(dep, v)
  BY DEF Launched, Undone
<1>2. OrderInv' /\ RegRowsInv'
  BY DEF RegInv, OrderInv, RegRowsInv
<1>3. /\ dep' \in [Deployments -> Entries]
      /\ \A d \in Deployments : dep'[d].previous < d /\ Launched(dep', dep'[d].previous)
  BY <1>1, NamesNow
<1>4. QED
  BY <1>1, <1>2, <1>3, NamesKeep

LEMMA QueueGrows ==
  ASSUME RegInv, NEW m \in Messages, Enqueue(m)
  PROVE  queue' \in Seq(Messages) /\ Len(queue') <= MaxQueue
<1>1. queue \in Seq(Messages) /\ Len(queue) \in Nat /\ Len(queue) < MaxQueue
  BY NamesNow DEF Enqueue
<1>2. queue' \in Seq(Messages) /\ Len(queue') = Len(queue) + 1
  BY <1>1, AppendProperties DEF Enqueue
<1>3. QED
  BY <1>1, <1>2, RegAssumption

LEMMA QueueShrinks ==
  ASSUME RegInv, queue # <<>>, queue' = Tail(queue)
  PROVE  queue' \in Seq(Messages) /\ Len(queue') <= MaxQueue
<1>1. queue \in Seq(Messages) /\ Len(queue) \in Nat /\ Len(queue) <= MaxQueue
  BY NamesNow
<1>2. queue' \in Seq(Messages) /\ Len(queue') = Len(queue) - 1
  BY <1>1, HeadTailProperties
<1>3. QED
  BY <1>1, <1>2, RegAssumption

-----------------------------------------------------------------------------
(* The robot: what is reported is what it runs, and what it runs it was    *)
(* told to install.                                                        *)
LEMMA BeatKeeps ==
  ASSUME RegInv, BuildHeartbeat
  PROVE  RegInv'
<1>1. UNCHANGED <<robot, commands, queue, device, dep, deleting>>
  BY DEF BuildHeartbeat
<1>2. beat' = [kind |-> "status", version |-> robot.version, status |-> robot.status]
  BY DEF BuildHeartbeat, Status
<1>3. beat' \in Beats /\ Launched(dep, beat'.version)
  BY <1>2, NamesNow DEF Robots, Beats
<1>4. QED
  BY <1>1, <1>3, NamesNow, DepsKeep

LEMMA CommandKeeps ==
  ASSUME RegInv, NEW c \in commands, BeginCommand(c) \/ EndInstall(c) \/ FailUpdate(c)
  PROVE  RegInv'
<1>1. UNCHANGED <<beat, device, dep, deleting>>
  BY DEF BeginCommand, EndInstall, FailUpdate
<1>2. c \in Commands /\ Launched(dep, c.version)
  BY NamesNow DEF RegInv, VersionsInv
<1>3. robot' \in Robots /\ Launched(dep, robot'.version)
  <2>1. CASE BeginCommand(c)
    BY <2>1, NamesNow DEF BeginCommand, Robots, Statuses
  <2>2. CASE EndInstall(c)
    BY <1>2, <2>2, NamesNow DEF EndInstall, Robots, Statuses, Commands
  <2>3. CASE FailUpdate(c)
    <3>1. PICK s \in Statuses : robot' = [robot EXCEPT !.status = s]
      BY <2>3, NamesNow DEF FailUpdate, Robots, Statuses
    <3>2. QED
      BY <3>1, NamesNow DEF Robots
  <2>4. QED
    BY <2>1, <2>2, <2>3
<1>4. /\ commands' \subseteq Commands
      /\ \A b \in commands' : \E o \in commands : o.action = b.action /\ o.version = b.version
  <2>1. CASE BeginCommand(c)
    <3>1. PICK b : b = [c EXCEPT !.begun = TRUE]
      OBVIOUS
    <3>2. b \in Commands /\ b.action = c.action /\ b.version = c.version
      BY <1>2, <3>1 DEF Commands
    <3>3. commands' = (commands \ {c}) \union {b}
      BY <2>1, <3>1 DEF BeginCommand
    <3>4. QED
      BY <3>2, <3>3, NamesNow
  <2>2. CASE commands' = commands \ {c}
    BY <2>2, NamesNow
  <2>3. QED
    BY <2>1, <2>2 DEF EndInstall, FailUpdate
<1>5. queue' \in Seq(Messages) /\ Len(queue') <= MaxQueue
  <2>1. \A k \in {"progress", "success", "failure"} : Report(k) \in Messages
    BY DEF Report, Messages
  <2>2. \E k \in {"progress", "success", "failure"} : Enqueue(Report(k))
    BY DEF BeginCommand, EndInstall, FailUpdate
  <2>3. QED
    BY <2>1, <2>2, QueueGrows
<1>6. QED
  BY <1>1, <1>3, <1>4, <1>5, NamesNow, DepsKeep

LEMMA PowerKeeps ==
  ASSUME RegInv, Stop \/ PowerOn
  PROVE  RegInv'
<1>1. UNCHANGED <<queue, device, dep, deleting>> /\ commands' \subseteq commands
  BY DEF Stop, PowerOn
<1>2. robot' \in Robots /\ Launched(dep, robot'.version)
  <2>1. CASE Stop
    BY <2>1, NamesNow DEF Stop, Robots
  <2>2. CASE PowerOn
    BY <2>2, RegAssumption DEF PowerOn, Robots, Statuses, Launched
  <2>3. QED
    BY <2>1, <2>2
<1>3. beat' \in Beats \union {NoBeat} /\ (beat' # NoBeat => Launched(dep, beat'.version))
  <2>1. CASE beat' = Status(robot.version, "offline")
    <3>1. beat' = [kind |-> "status", version |-> robot.version, status |-> "offline"]
      BY <2>1 DEF Status
    <3>2. QED
      BY <3>1, NamesNow DEF Robots, Beats
  <2>2. CASE beat' = NoBeat \/ beat' = beat
    BY <2>2, NamesNow
  <2>3. QED
    BY <2>1, <2>2 DEF Stop, PowerOn
<1>4. QED
  BY <1>1, <1>2, <1>3, NamesNow, DepsKeep

-----------------------------------------------------------------------------
(* The heartbeats and the handlers that mark the row.                      *)
LEMMA StatusKeeps ==
  ASSUME RegInv, HandleStatus
  PROVE  RegInv'
<1>1. UNCHANGED <<robot, commands, queue, dep, deleting>> /\ beat # NoBeat /\ beat' = NoBeat
  BY DEF HandleStatus
<1>2. device' = [present |-> TRUE, status |-> beat.status, version |-> beat.version]
  BY DEF HandleStatus, Upsert
<1>3. beat \in Beats /\ Launched(dep, beat.version)
  BY <1>1, NamesNow
<1>4. device' \in DeviceRows /\ Launched(dep, device'.version)
  BY <1>2, <1>3 DEF Beats, DeviceRows
<1>5. QED
  BY <1>1, <1>4, NamesNow, DepsKeep

LEMMA MarkingKeeps ==
  ASSUME RegInv, ListDevices \/ DeleteCheck
  PROVE  RegInv'
<1>1. UNCHANGED <<robot, commands, beat, queue, dep>> /\ deleting' \in BOOLEAN
  BY NamesNow DEF ListDevices, DeleteCheck
<1>2. device' \in DeviceRows /\ device'.version = device.version
  BY NamesNow DEF ListDevices, DeleteCheck, DeviceRows
<1>3. QED
  BY <1>1, <1>2, NamesNow, DepsKeep

(* A deletion takes the rows of the deployments along, and leaves what was *)
(* launched as it was.                                                     *)
LEMMA DeletionKeeps ==
  ASSUME RegInv, DeleteDevice \/ Prune
  PROVE  RegInv'
<1>1. UNCHANGED <<robot, commands, beat, queue>> /\ deleting' \in BOOLEAN /\ DropDevice
  BY NamesNow DEF DeleteDevice, Prune
<1>2. device' \in DeviceRows /\ device'.version = device.version
  BY <1>1, NamesNow DEF DropDevice, DeviceRows
<1>3. /\ dep' \in [Deployments -> Entries]
      /\ \A d \in Deployments :
           dep'[d].status = dep[d].status /\ dep'[d].previous = dep[d].previous /\ dep'[d].row = "none"
  BY <1>1, NamesNow DEF DropDevice, Entries
<1>4. \A v \in 0..MaxDeployments : Launched(dep, v) <=> Launched(dep', v)
  BY <1>3, RegAssumption DEF Launched, Deployments
<1>5. \A v : Undone(dep, v) => Undone(dep', v)
  BY <1>3 DEF Undone
<1>6. OrderInv' /\ RegRowsInv'
  BY <1>3 DEF RegInv, OrderInv, RegRowsInv
<1>7. \A d \in Deployments : dep'[d].previous < d /\ Launched(dep', dep'[d].previous)
  BY <1>3, <1>4, NamesNow DEF Entries
<1>8. /\ Launched(dep', robot'.version) /\ Launched(dep', device'.version)
      /\ beat' # NoBeat => Launched(dep', beat'.version)
  BY <1>1, <1>2, <1>4, NamesNow DEF Robots, DeviceRows, Beats
<1>9. QED
  BY <1>1, <1>2, <1>3, <1>4, <1>5, <1>6, <1>7, <1>8, NamesNow, NamesKeep

-----------------------------------------------------------------------------
(* The registry is written by a report and by a rollback.                  *)
LEMMA VersionUpdated ==
  ASSUME RegInv, NEW v \in 0..MaxDeployments
  PROVE  UpdateVersion(v) \in DeviceRows /\ UpdateVersion(v).version = v
BY NamesNow DEF UpdateVersion, DeviceRows, Statuses

(* A step of a deployment: its entry goes forward, and what the registry   *)
(* and the robot are told has been launched.                               *)
LEMMA EntryKeeps ==
  ASSUME RegInv, NEW d \in Deployments, NEW e \in Entries, dep' = [dep EXCEPT ![d] = e],
         dep[d].status # "none" => e.status # "none" /\ e.previous = dep[d].previous,
         dep[d].status \notin {"none", "starting"} => e.status \notin {"none", "starting"},
         dep[d].status \in {"rolled_back", "completed"} => e.status \in {"rolled_back", "completed"},
         \A f \in Deployments : f < d /\ e.status # "none" => dep[f].status # "none",
         e.status \in {"none", "starting"} => e.row = "none",
         e.previous < d, Launched(dep, e.previous),
         device' = device \/ \E v \in 0..MaxDeployments : device' = UpdateVersion(v) /\ Launched(dep', v),
         commands' \subseteq Commands,
         \A c \in commands' :
           \/ c \in commands
           \/ Launched(dep', c.version) /\ (c.action = "rollback" => Undone(dep', c.version)),
         queue' \in Seq(Messages), Len(queue') <= MaxQueue,
         UNCHANGED <<robot, beat, deleting>>
  PROVE  RegInv'
<1>1. /\ \A f \in Deployments : f # d => dep'[f] = dep[f]
      /\ dep'[d] = e /\ dep' \in [Deployments -> Entries]
  BY NamesNow
<1>2. \A v \in 0..MaxDeployments : Launched(dep, v) => Launched(dep', v)
  BY <1>1, RegAssumption DEF Launched, Deployments
<1>3. \A v : Undone(dep, v) => Undone(dep', v)
  BY <1>1 DEF Undone
<1>4. \A f \in Deployments : dep'[f].previous < f /\ Launched(dep', dep'[f].previous)
  <2>1. \A f \in Deployments : f # d =>
          dep'[f].previous < f /\ Launched(dep', dep'[f].previous)
    BY <1>1, <1>2, NamesNow DEF Entries
  <2>2. dep'[d].previous < d /\ Launched(dep', dep'[d].previous)
    BY <1>1, <1>2 DEF Entries
  <2>3. QED
    BY <2>1, <2>2
<1>5. OrderInv'
  BY <1>1 DEF RegInv, OrderInv
<1>6. RegRowsInv'
  BY <1>1 DEF RegInv, RegRowsInv
<1>7. device' \in DeviceRows /\ Launched(dep', device'.version)
  <2>1. CASE device' = device
    BY <1>2, <2>1, NamesNow DEF DeviceRows
  <2>2. CASE \E v \in 0..MaxDeployments : device' = UpdateVersion(v) /\ Launched(dep', v)
    BY <2>2, VersionUpdated
  <2>3. QED
    BY <2>1, <2>2
<1>8. /\ robot' \in Robots /\ Launched(dep', robot'.version)
      /\ beat' \in Beats \union {NoBeat} /\ (beat' # NoBeat => Launched(dep', beat'.version))
      /\ deleting' \in BOOLEAN
  BY <1>2, NamesNow DEF Robots, Beats
<1>9. QED
  BY <1>1, <1>2, <1>3, <1>4, <1>5, <1>6, <1>7, <1>8, NamesKeep

(* What a rollback tells the robot and writes to the registry.             *)
LEMMA RevertsBack ==
  ASSUME RegInv, NEW d \in Deployments, Reverts(d), dep[d].status \notin {"none", "starting"},
         dep'[d].status = "rolled_back", dep'[d].previous = dep[d].previous,
         \A v \in 0..MaxDeployments : Launched(dep, v) => Launched(dep', v)
  PROVE  /\ device' = device \/ \E v \in 0..MaxDeployments : device' = UpdateVersion(v) /\ Launched(dep', v)
         /\ commands' \subseteq Commands
         /\ \A c \in commands' :
              \/ c \in commands
              \/ Launched(dep', c.version) /\ (c.action = "rollback" => Undone(dep', c.version))
<1>1. /\ dep[d].previous \in 0..MaxDeployments /\ Launched(dep', dep[d].previous)
      /\ commands \subseteq Commands
  BY NamesNow DEF Entries
<1>2. Undone(dep', dep[d].previous)
  BY DEF Undone
<1>3. PICK c : c = Command("rollback", dep[d].previous)
  OBVIOUS
<1>4. c \in Commands /\ c.version = dep[d].previous
  BY <1>1, <1>3 DEF Command, Commands
<1>5. commands' = commands \/ commands' = commands \union {c}
  BY <1>3 DEF Reverts, Told
<1>6. device' = device \/ device' = UpdateVersion(dep[d].previous)
  BY DEF Reverts
<1>7. QED
  BY <1>1, <1>2, <1>4, <1>5, <1>6

(* Deployments go forward.                                                 *)
LEMMA StayLaunched ==
  ASSUME RegInv, NEW d \in Deployments, NEW e \in Entries, dep' = [dep EXCEPT ![d] = e],
         e.status \notin {"none", "starting"}
  PROVE  \A v \in 0..MaxDeployments : Launched(dep, v) => Launched(dep', v)
BY NamesNow, RegAssumption DEF Launched, Deployments

-----------------------------------------------------------------------------
LEMMA ProgressKeeps ==
  ASSUME RegInv, HandleProgress
  PROVE  RegInv'
<1>1. queue' \in Seq(Messages) /\ Len(queue') <= MaxQueue
  BY QueueShrinks DEF HandleProgress
<1>2. UNCHANGED <<robot, commands, beat, deleting>>
  BY DEF HandleProgress
<1>3. CASE Active = {}
  <2>1. UNCHANGED <<dep, device>>
    BY <1>3 DEF HandleProgress
  <2>2. QED
    BY <1>1, <1>2, <2>1, NamesNow, DepsKeep
<1>4. CASE Active # {}
  <2>1. PICK d \in Deployments : d = Newest /\ d \in Active
    BY <1>4, NewestIsActive DEF Active
  <2>2. PICK s \in {dep[d].status, "completed"}, r \in {"success", "pending"} :
          dep' = [dep EXCEPT ![d] = [status |-> s, previous |-> dep[d].previous, row |-> r]]
    BY <1>4, <2>1 DEF HandleProgress
  <2>3. PICK e : e = [status |-> s, previous |-> dep[d].previous, row |-> r]
    OBVIOUS
  <2>4. dep[d].status \notin {"none", "starting"}
    BY <2>1 DEF Active, RegInv, RegRowsInv
  <2>5. e \in Entries /\ e.status = s /\ e.previous = dep[d].previous
    BY <2>2, <2>3, NamesNow DEF Entries
  <2>6. dep' = [dep EXCEPT ![d] = e]
    BY <2>2, <2>3
  <2>7. d \in 0..MaxDeployments /\ Launched(dep', d)
    BY <2>2, <2>4, <2>5, <2>6, NamesNow, RegAssumption DEF Launched, Deployments
  <2>8. device' = device \/ device' = UpdateVersion(d)
    BY <1>4, <2>1 DEF HandleProgress
  <2>9. /\ \A f \in Deployments : f < d => dep[f].status # "none"
        /\ e.previous < d /\ Launched(dep, e.previous) /\ commands' \subseteq Commands
    BY <1>2, <2>4, <2>5, NamesNow DEF RegInv, OrderInv
  <2>10. QED
    BY <1>1, <1>2, <2>2, <2>4, <2>5, <2>6, <2>7, <2>8, <2>9, EntryKeeps
<1>5. QED
  BY <1>3, <1>4

LEMMA FailureKeeps ==
  ASSUME RegInv, HandleFailure
  PROVE  RegInv'
<1>1. queue' \in Seq(Messages) /\ Len(queue') <= MaxQueue
  BY QueueShrinks DEF HandleFailure
<1>2. UNCHANGED <<robot, beat, deleting>>
  BY DEF HandleFailure
<1>3. CASE UNCHANGED <<dep, device, commands>>
  BY <1>1, <1>2, <1>3, NamesNow, DepsKeep
<1>4. CASE ~UNCHANGED <<dep, device, commands>>
  <2>1. PICK d \in Deployments : d = Newest /\ d \in Active
    BY <1>4, NewestIsActive DEF HandleFailure, Active
  <2>2. dep[d].status \notin {"none", "starting"}
    BY <2>1 DEF Active, RegInv, RegRowsInv
  <2>3. PICK s \in {dep[d].status, "completed", "rolled_back"} :
          /\ dep' = [dep EXCEPT ![d].status = s, ![d].row = "failed"]
          /\ \/ s = "rolled_back" /\ dep[d].status = "running" /\ Reverts(d)
             \/ s # "rolled_back" /\ UNCHANGED <<device, commands>>
             \/ s = dep[d].status /\ UNCHANGED <<device, commands>>
    BY <1>4, <2>1 DEF HandleFailure
  <2>4. PICK e : e = [dep[d] EXCEPT !.status = s, !.row = "failed"]
    OBVIOUS
  <2>5. e \in Entries /\ e.status = s /\ e.previous = dep[d].previous
    BY <2>3, <2>4, NamesNow DEF Entries
  <2>6. dep' = [dep EXCEPT ![d] = e]
    BY <2>3, <2>4, NamesNow
  <2>7. /\ \A f \in Deployments : f < d => dep[f].status # "none"
        /\ e.previous < d /\ Launched(dep, e.previous)
    BY <2>2, <2>5, NamesNow DEF RegInv, OrderInv
  <2>8. s \notin {"none", "starting"}
    BY <2>2, <2>3
  <2>9. CASE UNCHANGED <<device, commands>>
    <3>1. dep[d].status \in {"rolled_back", "completed"} => s \in {"rolled_back", "completed"}
      BY <2>3
    <3>2. QED
      BY <1>1, <1>2, <2>2, <2>5, <2>6, <2>7, <2>8, <2>9, <3>1, NamesNow, EntryKeeps
  <2>10. CASE s = "rolled_back" /\ Reverts(d)
    <3>1. dep'[d].status = "rolled_back" /\ dep'[d].previous = dep[d].previous
      BY <2>5, <2>6, <2>10, NamesNow
    <3>2. \A v \in 0..MaxDeployments : Launched(dep, v) => Launched(dep', v)
      BY <2>5, <2>6, <2>8, StayLaunched
    <3>3. /\ device' = device \/ \E v \in 0..MaxDeployments : device' = UpdateVersion(v) /\ Launched(dep', v)
          /\ commands' \subseteq Commands
          /\ \A c \in commands' :
               \/ c \in commands
               \/ Launched(dep', c.version) /\ (c.action = "rollback" => Undone(dep', c.version))
      BY <2>2, <2>10, <3>1, <3>2, RevertsBack
    <3>4. QED
      BY <1>1, <1>2, <2>2, <2>5, <2>6, <2>7, <2>8, <2>10, <3>3, EntryKeeps
  <2>11. QED
    BY <2>3, <2>9, <2>10
<1>5. QED
  BY <1>3, <1>4

(* A deployment is launched, gets its row and is rolled back.              *)
LEMMA LaunchKeeps ==
  ASSUME RegInv, NEW d \in Deployments, Launch(d)
  PROVE  RegInv'
<1>1. PICK e : e = [status |-> "starting", row |-> "none", previous |-> device.version]
  OBVIOUS
<1>2. /\ dep' = [dep EXCEPT ![d] = e] /\ dep[d].status = "none"
      /\ \A f \in Deployments : f < d => dep[f].status # "none"
      /\ UNCHANGED <<robot, commands, beat, queue, device, deleting>>
  BY <1>1 DEF Launch
<1>3. device.version \in 0..MaxDeployments /\ Launched(dep, device.version)
  BY NamesNow DEF DeviceRows
<1>4. /\ e \in Entries /\ e.status = "starting" /\ e.row = "none" /\ e.previous = device.version
  BY <1>1, <1>3 DEF Entries
<1>5. device.version < d
  <2>1. CASE device.version = 0
    BY <2>1, RegAssumption DEF Deployments
  <2>2. CASE device.version # 0
    <3>1. device.version \in Deployments /\ dep[device.version].status # "none"
      BY <1>3, <2>2, RegAssumption DEF Launched, Deployments
    <3>2. ~(d < device.version) /\ d # device.version
      BY <1>2, <3>1 DEF RegInv, OrderInv
    <3>3. QED
      BY <3>1, <3>2, RegAssumption DEF Deployments
  <2>3. QED
    BY <2>1, <2>2
<1>6. QED
  BY <1>2, <1>3, <1>4, <1>5, NamesNow, EntryKeeps

LEMMA RowKept ==
  ASSUME RegInv, NEW d \in Deployments, CreateRow(d)
  PROVE  RegInv'
<1>1. PICK e : e = [status |-> "running", row |-> IF device.present THEN "pending" ELSE "none",
                    previous |-> dep[d].previous]
  OBVIOUS
<1>2. /\ dep' = [dep EXCEPT ![d] = e] /\ dep[d].status = "starting"
      /\ UNCHANGED <<robot, beat, queue, device, deleting>>
  BY <1>1 DEF CreateRow
<1>3. e \in Entries /\ e.status = "running" /\ e.previous = dep[d].previous
  BY <1>1, NamesNow DEF Entries
<1>4. /\ \A f \in Deployments : f < d => dep[f].status # "none"
      /\ e.previous < d /\ Launched(dep, e.previous)
  BY <1>2, <1>3, NamesNow DEF RegInv, OrderInv
<1>5. PICK c : c = Command("update", d)
  OBVIOUS
<1>6. c \in Commands /\ c.action = "update" /\ c.version = d
  BY <1>5, RegAssumption DEF Command, Commands, Deployments
<1>7. Launched(dep', d)
  BY <1>2, <1>3, NamesNow DEF Launched
<1>8. commands' \subseteq commands \union {c}
  BY <1>5 DEF CreateRow, Told
<1>9. QED
  BY <1>2, <1>3, <1>4, <1>6, <1>7, <1>8, NamesNow, EntryKeeps

LEMMA RollBackKeeps ==
  ASSUME RegInv, NEW d \in Deployments, RollBack(d)
  PROVE  RegInv'
<1>1. PICK e : e = [dep[d] EXCEPT !.status = "rolled_back"]
  OBVIOUS
<1>2. /\ dep' = [dep EXCEPT ![d] = e] /\ dep[d].status \in {"running", "completed"}
      /\ Reverts(d) /\ UNCHANGED <<robot, beat, queue, deleting>>
  BY <1>1 DEF RollBack
<1>3. e \in Entries /\ e.status = "rolled_back" /\ e.previous = dep[d].previous
  BY <1>1, NamesNow DEF Entries
<1>4. /\ \A f \in Deployments : f < d => dep[f].status # "none"
      /\ e.previous < d /\ Launched(dep, e.previous)
  BY <1>2, <1>3, NamesNow DEF RegInv, OrderInv
<1>5. dep'[d].status = "rolled_back" /\ dep'[d].previous = dep[d].previous
  BY <1>2, <1>3, NamesNow
<1>6. \A v \in 0..MaxDeployments : Launched(dep, v) => Launched(dep', v)
  BY <1>2, <1>3, StayLaunched
<1>7. /\ device' = device \/ \E v \in 0..MaxDeployments : device' = UpdateVersion(v) /\ Launched(dep', v)
      /\ commands' \subseteq Commands
      /\ \A c \in commands' :
           \/ c \in commands
           \/ Launched(dep', c.version) /\ (c.action = "rollback" => Undone(dep', c.version))
  BY <1>2, <1>5, <1>6, RevertsBack
<1>8. QED
  BY <1>2, <1>3, <1>4, <1>7, NamesNow, EntryKeeps

LEMMA RegStep == RegInv /\ [RegNext]_regVars => RegInv'
<1> SUFFICES ASSUME RegInv, [RegNext]_regVars
             PROVE  RegInv'
  OBVIOUS
<1>1. CASE UNCHANGED regVars
  <2>1. UNCHANGED <<robot, commands, beat, queue, device, dep, deleting>>
    BY <1>1 DEF regVars
  <2>2. QED
    BY <2>1, NamesNow, DepsKeep
<1>2. CASE RegNext
  BY <1>2, BeatKeeps, CommandKeeps, PowerKeeps, StatusKeeps, ProgressKeeps, FailureKeeps,
     MarkingKeeps, DeletionKeeps, LaunchKeeps, RowKept, RollBackKeeps DEF RegNext, Consume
<1>3. QED
  BY <1>1, <1>2

(* The inductive invariant of the registry: every version that is          *)
(* installed, ordered, reported, queued or recorded is that of a           *)
(* deployment that was started, and no row is written before its           *)
(* deployment runs (handlers/devices.go, mqtt/client.go handleStatus,      *)
(* rollout/manager.go).                                                    *)
THEOREM RegistryInvariant == RegSpec => []RegInv
BY RegInitially, RegStep, PTL DEF RegSpec

(* A rollback goes back, for any number of deployments: whatever           *)
(* heartbeats, credited reports, failures, deletions and prunings come     *)
(* between the read of the previous version and the rollback, it is older  *)
(* than the deployment's, and the robot is told no other.                  *)
THEOREM RollbacksGoBack == RegSpec => []RollbackGoesBack
<1>1. RegInv => RollbackGoesBack
  BY DEF RegInv
<1>2. QED
  BY <1>1, RegistryInvariant, PTL
-----------------------------------------------------------------------------
(* The states of a tab, a request and a refresh, when n tokens were issued.*)
TabStates == [open : BOOLEAN, loading : BOOLEAN, user : BOOLEAN, page : {"app", "login"}]
CallStates(m) == [at : Points, try : 0..2, token : 0..m, on : Calls \union {NoCall}]
RefreshStates(m) ==
  [at : {"idle", "sent", "found", "refused", "unread", "rotated", "issued"}, token : 0..m]

(* The token of a refresh that was answered: not expired, known to nobody  *)
(* else before the answer arrives, and recorded, if no successor got lost. *)
NewestToken(r) ==
  /\ refresh[r].token \in access /\ refresh[r].token # cookie
  /\ lost = 0 => refresh[r].token \in tokens
  /\ \A q \in Calls \ {r} : refresh[q].token # refresh[r].token

(* A refresh that has used its token.                                      *)
Underway(r) == refresh[r].at \in {"rotated", "issued"}

(* While the cookie is a deleted token, its successor is under way, unless *)
(* one got lost; and a request that is sent again has a token that has not *)
(* expired.                                                                *)
TokensInv ==
  /\ \A r \in Calls : refresh[r].at = "issued" => NewestToken(r)
  /\ lost = 0 /\ cookie \notin tokens \union {0} => \E r \in Calls : Underway(r)
  /\ \A r \in Calls : call[r].at = "sent" /\ call[r].try = 2 => call[r].token \in access

(* The requests of a tab that wait do so for the refresh of the tab, and   *)
(* that refresh is under way.                                              *)
TabsInv ==
  /\ \A t \in Tabs :
       /\ tab[t].user => tab[t].open
       /\ active[t] # NoCall =>
            /\ TabOf(active[t]) = t /\ call[active[t]].at = "waiting"
            /\ refresh[active[t]].at # "idle" /\ tab[t].open
  /\ \A r \in Calls :
       /\ call[r].at # "idle" => tab[TabOf(r)].open
       /\ call[r].at = "waiting" => active[TabOf(r)] = call[r].on /\ call[r].on # NoCall
       /\ refresh[r].at # "idle" => active[TabOf(r)] = r

OneTab == \A t, u \in Tabs : tab[t].open /\ tab[u].open => t = u

(* With one tab there is one refresh, so the server refuses only what is   *)
(* the token of an earlier session.                                        *)
RefusedInv ==
  lost = 0 /\ OneTab =>
    \A r \in Calls : refresh[r].at = "refused" /\ cookie # 0 => refresh[r].token # cookie

SessInv == SessTypeOK /\ TokensInv /\ TabsInv /\ RefusedInv

-----------------------------------------------------------------------------
LEMMA CallsOfTabs ==
  /\ NoCall \notin Calls
  /\ \A r \in Calls : TabOf(r) \in Tabs
  /\ \A t \in Tabs : TabOf(<<t, First>>) = t
<1>1. \A r \in Calls : TabOf(r) \in Tabs
  BY SessAssumption DEF TabOf
<1>2. \A t \in Tabs : TabOf(<<t, First>>) = t
  BY DEF TabOf
<1>3. NoCall \notin Calls
  BY SessAssumption DEF NoCall
<1>4. QED
  BY <1>1, <1>2, <1>3

(* The types, by name, now and next.                                       *)
LEMMA SessTyped ==
  SessTypeOK <=>
    /\ issued \in Nat /\ lost \in 0..MaxLost
    /\ tokens \subseteq 1..issued /\ access \subseteq 1..issued /\ cookie \in 0..issued
    /\ tab \in [Tabs -> TabStates] /\ call \in [Calls -> CallStates(issued)]
    /\ refresh \in [Calls -> RefreshStates(issued)] /\ active \in [Tabs -> Calls \union {NoCall}]
BY DEF SessTypeOK, TabStates, CallStates, RefreshStates

LEMMA SessTypedNext ==
  SessTypeOK' <=>
    /\ issued' \in Nat /\ lost' \in 0..MaxLost
    /\ tokens' \subseteq 1..issued' /\ access' \subseteq 1..issued' /\ cookie' \in 0..issued'
    /\ tab' \in [Tabs -> TabStates] /\ call' \in [Calls -> CallStates(issued')]
    /\ refresh' \in [Calls -> RefreshStates(issued')] /\ active' \in [Tabs -> Calls \union {NoCall}]
BY DEF SessTypeOK, TabStates, CallStates, RefreshStates

LEMMA SessInitially == SessInit => SessInv
<1> SUFFICES ASSUME SessInit
             PROVE  SessInv
  OBVIOUS
<1>1. SessTypeOK
  BY SessAssumption DEF SessInit, SessTypeOK, Idle, NoRefresh, Points
<1>2. TokensInv
  BY DEF SessInit, TokensInv, Idle, NoRefresh
<1>3. TabsInv
  BY CallsOfTabs DEF SessInit, TabsInv, Idle, NoRefresh
<1>4. RefusedInv
  BY DEF SessInit, RefusedInv, Idle, NoRefresh
<1>5. QED
  BY <1>1, <1>2, <1>3, <1>4 DEF SessInv

USE CallsOfTabs DEF server

(* Opening a tab, and the requests of its pages.                           *)
LEMMA RequestsKeep ==
  ASSUME SessInv, NEW s \in Calls \union (Tabs \X {First}),
         TabOf(s) \in Tabs,
         call' = [call EXCEPT ![s] = Send(s, 1)],
         tab' \in [Tabs -> TabStates],
         \A t \in Tabs : /\ tab'[t].user <=> tab[t].user
                         /\ tab'[t].open <=> (tab[t].open \/ t = TabOf(s)),
         UNCHANGED <<server, cookie, refresh, active, lost>>,
         s \in Calls => call[s].at = "idle"
  PROVE  SessInv'
<1>1. SessTypeOK'
  <2>1. Send(s, 1) \in CallStates(issued)
    BY SessTyped DEF SessInv, Send, Points, CallStates
  <2>2. call' \in [Calls -> CallStates(issued)]
    BY <2>1, SessTyped DEF SessInv
  <2>3. QED
    BY <2>2, SessTyped, SessTypedNext DEF SessInv
<1>2. \A r \in Calls : r # s => call'[r] = call[r]
  BY SessTyped DEF SessInv
<1>3. s \in Calls => call'[s] = [at |-> "sent", try |-> 1, token |-> cookie, on |-> NoCall]
  BY SessTyped DEF SessInv, Send
<1>4. TokensInv'
  BY <1>2, <1>3 DEF SessInv, TokensInv, NewestToken, Underway
<1>5. TabsInv'
  <2>1. \A t \in Tabs : active[t] # NoCall => active[t] \in Calls
    BY SessTyped DEF SessInv
  <2>2. QED
    BY <1>2, <1>3, <2>1 DEF SessInv, TabsInv
<1>6. RefusedInv'
  BY DEF SessInv, RefusedInv, OneTab
<1>7. QED
  BY <1>1, <1>4, <1>5, <1>6 DEF SessInv

(* An answer ends a request, or its loss does.                             *)
LEMMA AnswerKeeps ==
  ASSUME SessInv, NEW r \in Calls, Answer(r) \/ RequestLost(r)
  PROVE  SessInv'
<1>1. PICK ok \in BOOLEAN :
        /\ call' = [call EXCEPT ![r] = Over]
        /\ tab' = Restored(r, ok)
        /\ call[r].at = "sent" /\ tab[TabOf(r)].open
        /\ UNCHANGED <<server, cookie, refresh, active, lost>>
  <2>1. tab[TabOf(r)].open
    BY DEF Answer, RequestLost, SessInv, TabsInv
  <2>2. CASE Answer(r)
    <3>1. PICK ok : ok = (call[r].token \in access)
      OBVIOUS
    <3>2. ok \in BOOLEAN /\ tab' = Restored(r, ok)
      BY <2>2, <3>1 DEF Answer
    <3>3. QED
      BY <2>1, <2>2, <3>2 DEF Answer
  <2>3. CASE RequestLost(r)
    BY <2>1, <2>3 DEF RequestLost
  <2>4. QED
    BY <2>2, <2>3
<1>2. /\ \A q \in Calls : q # r => call'[q] = call[q]
      /\ call'[r] = Over /\ Over.at = "over" /\ Over \in CallStates(issued)
  BY <1>1, SessTyped DEF SessInv, Over, Idle, CallStates, Points
<1>3. \A t \in Tabs : /\ tab'[t].open <=> tab[t].open
                      /\ tab'[t].user => tab'[t].open
  BY <1>1, SessTyped DEF SessInv, TabStates, TabsInv, Restored
<1>4. SessTypeOK'
  <2>1. call' \in [Calls -> CallStates(issued)]
    BY <1>1, <1>2, SessTyped DEF SessInv
  <2>2. tab' \in [Tabs -> TabStates]
    BY <1>1, SessTyped DEF SessInv, TabStates, Restored
  <2>3. QED
    BY <1>1, <2>1, <2>2, SessTyped, SessTypedNext DEF SessInv
<1>5. TokensInv'
  BY <1>1, <1>2 DEF SessInv, TokensInv, NewestToken, Underway
<1>6. TabsInv'
  <2>1. \A t \in Tabs : active[t] # NoCall => active[t] \in Calls
    BY SessTyped DEF SessInv
  <2>2. QED
    BY <1>1, <1>2, <1>3, <2>1 DEF SessInv, TabsInv
<1>7. RefusedInv'
  BY <1>1, <1>3 DEF SessInv, RefusedInv, OneTab
<1>8. QED
  BY <1>4, <1>5, <1>6, <1>7 DEF SessInv

(* A request joins the refresh of its tab, or starts the only one.         *)
LEMMA JoinKeeps ==
  ASSUME SessInv, NEW r \in Calls, Unauthorized(r)
  PROVE  SessInv'
<1>1. PICK owner \in Calls :
        /\ (active[TabOf(r)] = NoCall /\ owner = r) \/ (active[TabOf(r)] = owner /\ owner # r)
        /\ refresh' = IF owner = r THEN [refresh EXCEPT ![r] = [at |-> "sent", token |-> cookie]]
                      ELSE refresh
        /\ active' = [active EXCEPT ![TabOf(r)] = owner]
        /\ call' = [call EXCEPT ![r] = Waits(owner)]
        /\ call[r].at = "sent" /\ tab[TabOf(r)].open
        /\ UNCHANGED <<server, cookie, tab, lost>>
  <2>1. PICK owner : owner = IF active[TabOf(r)] = NoCall THEN r ELSE active[TabOf(r)]
    OBVIOUS
  <2>2. owner \in Calls /\ (active[TabOf(r)] # NoCall => owner # r)
    BY <2>1, SessTyped DEF Unauthorized, SessInv, TabsInv
  <2>3. QED
    BY <2>1, <2>2 DEF Unauthorized, SessInv, TabsInv
<1>2. /\ \A q \in Calls : q # r => call'[q] = call[q] /\ refresh'[q] = refresh[q]
      /\ call'[r] = [at |-> "waiting", try |-> 1, token |-> 0, on |-> owner]
      /\ owner = r => refresh'[r] = [at |-> "sent", token |-> cookie]
      /\ owner # r => refresh'[r] = refresh[r]
      /\ \A t \in Tabs : active'[t] = IF t = TabOf(r) THEN owner ELSE active[t]
  BY <1>1, SessTyped DEF SessInv, Waits
<1>3. SessTypeOK'
  <2>1. Waits(owner) \in CallStates(issued) /\ call' \in [Calls -> CallStates(issued)]
    BY <1>1, SessTyped DEF SessInv, CallStates, Points, Waits
  <2>2. refresh' \in [Calls -> RefreshStates(issued)]
    BY <1>1, SessTyped DEF SessInv, RefreshStates
  <2>3. active' \in [Tabs -> Calls \union {NoCall}]
    BY <1>1, SessTyped DEF SessInv
  <2>4. QED
    BY <1>1, <2>1, <2>2, <2>3, SessTyped, SessTypedNext DEF SessInv
<1>4. refresh[r].at # "idle" => owner # r
  BY <1>1 DEF SessInv, TabsInv
<1>5. TokensInv'
  <2>1. \A q \in Calls : refresh'[q].at = "issued" => NewestToken(q)'
    BY <1>1, <1>2 DEF SessInv, TokensInv, NewestToken
  <2>2. \A q \in Calls : Underway(q) => Underway(q)'
    BY <1>1, <1>2, <1>4 DEF Underway
  <2>3. \A q \in Calls : call'[q].at = "sent" => call'[q] = call[q]
    BY <1>2
  <2>4. QED
    BY <1>1, <2>1, <2>2, <2>3 DEF SessInv, TokensInv
<1>6. TabsInv'
  <2>1. owner # r => TabOf(owner) = TabOf(r) /\ call[owner].at = "waiting" /\ refresh[owner].at # "idle"
    BY <1>1 DEF SessInv, TabsInv
  <2>2. \A t \in Tabs :
           /\ tab[t].user => tab[t].open
           /\ active'[t] # NoCall =>
                /\ TabOf(active'[t]) = t /\ call'[active'[t]].at = "waiting"
                /\ refresh'[active'[t]].at # "idle" /\ tab[t].open
    <3> SUFFICES ASSUME NEW t \in Tabs
                 PROVE  /\ tab[t].user => tab[t].open
                        /\ active'[t] # NoCall =>
                             /\ TabOf(active'[t]) = t /\ call'[active'[t]].at = "waiting"
                             /\ refresh'[active'[t]].at # "idle" /\ tab[t].open
      OBVIOUS
    <3>1. CASE t = TabOf(r)
      <4>1. active'[t] = owner /\ TabOf(owner) = t
        BY <1>2, <2>1, <3>1
      <4>2. call'[owner].at = "waiting" /\ refresh'[owner].at # "idle"
        BY <1>2, <2>1
      <4>3. QED
        BY <1>1, <3>1, <4>1, <4>2 DEF SessInv, TabsInv
    <3>2. CASE t # TabOf(r)
      BY <1>1, <1>2, <3>2, SessTyped DEF SessInv, TabsInv
    <3>3. QED
      BY <3>1, <3>2
  <2>3. \A q \in Calls :
           /\ call'[q].at # "idle" => tab[TabOf(q)].open
           /\ call'[q].at = "waiting" => active'[TabOf(q)] = call'[q].on /\ call'[q].on # NoCall
           /\ refresh'[q].at # "idle" => active'[TabOf(q)] = q
    <3> SUFFICES ASSUME NEW q \in Calls
                 PROVE  /\ call'[q].at # "idle" => tab[TabOf(q)].open
                        /\ call'[q].at = "waiting" => active'[TabOf(q)] = call'[q].on /\ call'[q].on # NoCall
                        /\ refresh'[q].at # "idle" => active'[TabOf(q)] = q
      OBVIOUS
    <3>1. CASE q = r
      BY <1>1, <1>2, <3>1 DEF SessInv, TabsInv
    <3>2. CASE q # r
      <4>1. call'[q] = call[q] /\ refresh'[q] = refresh[q]
        BY <1>2, <3>2
      <4>2. active[TabOf(q)] # NoCall => active'[TabOf(q)] = active[TabOf(q)]
        BY <1>1, <1>2
      <4>3. QED
        BY <1>1, <4>1, <4>2 DEF SessInv, TabsInv
    <3>3. QED
      BY <3>1, <3>2
  <2>4. QED
    BY <1>1, <2>2, <2>3 DEF TabsInv
<1>7. RefusedInv'
  BY <1>1, <1>2 DEF SessInv, RefusedInv, OneTab
<1>8. QED
  BY <1>3, <1>5, <1>6, <1>7 DEF SessInv

(* Progress of a refresh, seen from the tabs.                              *)
LEMMA TabsStay ==
  ASSUME SessInv, UNCHANGED <<tab, active, call>>,
         \A q \in Calls : refresh'[q].at # "idle" <=> refresh[q].at # "idle"
  PROVE  TabsInv'
<1>1. \A t \in Tabs : active[t] # NoCall => active[t] \in Calls
  BY SessTyped DEF SessInv
<1>2. QED
  BY <1>1 DEF SessInv, TabsInv

(* With one tab open, whoever uses the token of the cookie finds it in the *)
(* table, if no successor got lost.                                        *)
LEMMA CookieIsFound ==
  ASSUME SessInv, lost = 0, OneTab, NEW r \in Calls,
         refresh[r].at \in {"sent", "found"}, refresh[r].token = cookie, cookie # 0
  PROVE  cookie \in tokens
<1>1. SUFFICES ASSUME NEW q \in Calls, Underway(q)
               PROVE  FALSE
  BY DEF SessInv, TokensInv
<1>2. active[TabOf(q)] = q /\ active[TabOf(r)] = r
  BY <1>1 DEF Underway, SessInv, TabsInv
<1>3. tab[TabOf(q)].open /\ tab[TabOf(r)].open
  BY <1>2 DEF SessInv, TabsInv
<1>4. QED
  BY <1>1, <1>2, <1>3 DEF OneTab, Underway

(* The tokens known stay known when another one is issued.                 *)
LEMMA TokensGrow ==
  ASSUME SessInv, issued' = issued + 1
  PROVE  /\ call \in [Calls -> CallStates(issued')]
         /\ \A q \in Calls : refresh[q] \in RefreshStates(issued')
         /\ tokens \subseteq 1..issued' /\ access \subseteq 1..issued' /\ cookie \in 0..issued'
         /\ issued' \in Nat /\ issued' \in 1..issued'
<1>1. /\ \A x \in 0..issued : x \in 0..issued'
      /\ \A x \in 1..issued : x \in 1..issued'
      /\ issued' \in Nat /\ issued' \in 1..issued'
  BY SessTyped DEF SessInv
<1>2. \A q \in Calls : call[q] \in CallStates(issued')
  BY <1>1, SessTyped DEF SessInv, CallStates
<1>3. call = [q \in Calls |-> call[q]]
  BY SessTyped DEF SessInv
<1>4. \A q \in Calls : refresh[q] \in RefreshStates(issued')
  BY <1>1, SessTyped DEF SessInv, RefreshStates
<1>5. tokens \subseteq 1..issued' /\ access \subseteq 1..issued' /\ cookie \in 0..issued'
  BY <1>1, SessTyped DEF SessInv
<1>6. QED
  BY <1>1, <1>2, <1>3, <1>4, <1>5

-----------------------------------------------------------------------------
(* The steps of the handler Refresh.                                       *)
LEMMA LookupKeeps ==
  ASSUME SessInv, NEW r \in Calls, Lookup(r)
  PROVE  SessInv'
<1>1. /\ UNCHANGED <<server, cookie, tab, call, active, lost>>
      /\ \A q \in Calls : q # r => refresh'[q] = refresh[q]
      /\ refresh'[r].at \in {"found", "refused", "unread"} /\ refresh'[r].token = refresh[r].token
      /\ refresh'[r].at = "refused" => refresh[r].token \notin tokens
      /\ refresh[r].at = "sent"
  BY SessTyped DEF Lookup, RefreshAt, SessInv, RefreshStates
<1>2. SessTypeOK'
  <2>1. refresh' \in [Calls -> RefreshStates(issued)]
    BY SessTyped DEF Lookup, RefreshAt, SessInv, RefreshStates
  <2>2. QED
    BY <1>1, <2>1, SessTyped, SessTypedNext DEF SessInv
<1>3. TokensInv'
  BY <1>1 DEF SessInv, TokensInv, NewestToken, Underway
<1>4. TabsInv'
  BY <1>1, TabsStay
<1>5. RefusedInv'
  BY <1>1, CookieIsFound DEF SessInv, RefusedInv, OneTab
<1>6. QED
  BY <1>2, <1>3, <1>4, <1>5 DEF SessInv

LEMMA RotateKeeps ==
  ASSUME SessInv, NEW r \in Calls, Rotate(r)
  PROVE  SessInv'
<1>1. /\ UNCHANGED <<access, issued, cookie, tab, call, active, lost>>
      /\ \A q \in Calls : q # r => refresh'[q] = refresh[q]
      /\ refresh'[r] = [at |-> "rotated", token |-> 0] /\ refresh[r].at = "found"
      /\ tokens' \subseteq tokens /\ tokens \ {refresh[r].token} \subseteq tokens'
  BY SessTyped DEF Rotate, SessInv
<1>2. SessTypeOK'
  <2>1. refresh' \in [Calls -> RefreshStates(issued)]
    BY SessTyped DEF Rotate, SessInv, RefreshStates
  <2>2. QED
    BY <1>1, <2>1, SessTyped, SessTypedNext DEF SessInv
<1>3. TokensInv'
  <2>1. \A q \in Calls : refresh[q].at = "issued" => refresh[q].token \in 1..issued
    BY SessTyped DEF SessInv, TokensInv, NewestToken
  <2>2. \A q \in Calls : refresh'[q].at = "issued" => NewestToken(q)'
    BY <1>1, <2>1 DEF SessInv, TokensInv, NewestToken
  <2>3. Underway(r)'
    BY <1>1 DEF Underway
  <2>4. QED
    BY <1>1, <2>2, <2>3 DEF SessInv, TokensInv
<1>4. TabsInv'
  BY <1>1, TabsStay
<1>5. RefusedInv'
  BY <1>1 DEF SessInv, RefusedInv, OneTab
<1>6. QED
  BY <1>2, <1>3, <1>4, <1>5 DEF SessInv

LEMMA LossCounted ==
  ASSUME SessInv, Loses
  PROVE  lost' # 0 /\ lost' \in 0..MaxLost
BY SessTyped, SessAssumption DEF SessInv, Loses

LEMMA GiveUpKeeps ==
  ASSUME SessInv, NEW r \in Calls, GiveUp(r)
  PROVE  SessInv'
<1>1. /\ UNCHANGED <<server, cookie, tab, call, active>>
      /\ \A q \in Calls : q # r => refresh'[q] = refresh[q]
      /\ refresh'[r].at = "refused" /\ refresh'[r].token = refresh[r].token
      /\ refresh[r].at = "rotated"
  BY SessTyped DEF GiveUp, RefreshAt, SessInv, RefreshStates
<1>2. lost' # 0 /\ lost' \in 0..MaxLost
  BY LossCounted DEF GiveUp
<1>3. SessTypeOK'
  <2>1. refresh' \in [Calls -> RefreshStates(issued)]
    BY SessTyped DEF GiveUp, RefreshAt, SessInv, RefreshStates
  <2>2. QED
    BY <1>1, <1>2, <2>1, SessTyped, SessTypedNext DEF SessInv
<1>4. TokensInv'
  BY <1>1, <1>2 DEF SessInv, TokensInv, NewestToken, Underway
<1>5. TabsInv'
  BY <1>1, TabsStay
<1>6. RefusedInv'
  BY <1>2 DEF RefusedInv
<1>7. QED
  BY <1>3, <1>4, <1>5, <1>6 DEF SessInv

LEMMA IssueKeeps ==
  ASSUME SessInv, NEW r \in Calls, Issue(r)
  PROVE  SessInv'
<1>1. /\ UNCHANGED <<cookie, tab, call, active>>
      /\ \A q \in Calls : q # r => refresh'[q] = refresh[q]
      /\ refresh'[r] = [at |-> "issued", token |-> issued'] /\ refresh[r].at = "rotated"
      /\ issued' = issued + 1 /\ access' = access \union {issued'}
  BY SessTyped DEF Issue, SessInv
<1>2. /\ lost' \in 0..MaxLost /\ tokens' \subseteq tokens \union {issued'} /\ tokens \subseteq tokens'
      /\ lost' = 0 => lost = 0 /\ issued' \in tokens'
  <2>1. CASE tokens' = tokens \union {issued'} /\ UNCHANGED lost
    BY <2>1, SessTyped DEF SessInv
  <2>2. CASE UNCHANGED tokens /\ Loses
    BY <2>2, LossCounted
  <2>3. QED
    BY <2>1, <2>2 DEF Issue
<1>3. SessTypeOK'
  <2>1. refresh' \in [Calls -> RefreshStates(issued')]
    <3>1. refresh'[r] \in RefreshStates(issued')
      BY <1>1, TokensGrow DEF RefreshStates
    <3>2. DOMAIN refresh' = Calls /\ refresh' = [q \in Calls |-> refresh'[q]]
      BY SessTyped DEF Issue, SessInv
    <3>3. \A q \in Calls : refresh'[q] \in RefreshStates(issued')
      BY <1>1, <3>1, TokensGrow
    <3>4. QED
      BY <3>2, <3>3
  <2>2. tokens' \subseteq 1..issued' /\ access' \subseteq 1..issued'
    BY <1>1, <1>2, TokensGrow
  <2>3. tab' \in [Tabs -> TabStates] /\ active' \in [Tabs -> Calls \union {NoCall}]
    BY <1>1, SessTyped DEF SessInv
  <2>4. QED
    BY <1>1, <1>2, <2>1, <2>2, <2>3, TokensGrow, SessTypedNext
<1>4. TokensInv'
  <2>1. /\ issued' \notin 0..issued /\ cookie \in 0..issued
        /\ \A q \in Calls : refresh[q].token \in 0..issued
    BY <1>1, SessTyped DEF SessInv, RefreshStates
  <2>2. \A q \in Calls : refresh'[q].at = "issued" => NewestToken(q)'
    <3> SUFFICES ASSUME NEW q \in Calls, refresh'[q].at = "issued"
                 PROVE  NewestToken(q)'
      OBVIOUS
    <3>1. CASE q = r
      BY <1>1, <1>2, <2>1, <3>1 DEF NewestToken
    <3>2. CASE q # r
      <4>1. NewestToken(q) /\ refresh'[q] = refresh[q]
        BY <1>1, <3>2 DEF SessInv, TokensInv
      <4>2. QED
        BY <1>1, <1>2, <2>1, <3>2, <4>1 DEF NewestToken
    <3>3. QED
      BY <3>1, <3>2
  <2>3. Underway(r)'
    BY <1>1 DEF Underway
  <2>4. \A q \in Calls : call'[q].at = "sent" /\ call'[q].try = 2 => call'[q].token \in access'
    BY <1>1 DEF SessInv, TokensInv
  <2>5. QED
    BY <2>2, <2>3, <2>4 DEF TokensInv
<1>5. TabsInv'
  BY <1>1, TabsStay
<1>6. RefusedInv'
  BY <1>1, <1>2 DEF SessInv, RefusedInv, OneTab
<1>7. QED
  BY <1>3, <1>4, <1>5, <1>6 DEF SessInv

-----------------------------------------------------------------------------
(* The refresh of a tab settles: what waits for it is sent again with the  *)
(* new token, or fails.                                                    *)
LEMMA SettleKeeps ==
  ASSUME SessInv, NEW r \in Calls, RefreshAnswer(r) \/ RefreshLost(r)
  PROVE  SessInv'
<1>1. PICK ok \in BOOLEAN, given \in 0..issued :
        /\ RefreshSettles(r, ok, given)
        /\ ok => refresh[r].at = "issued" /\ given = refresh[r].token
        /\ ~ok => given = cookie
        /\ ok \/ lost' # 0 \/ (lost' = lost /\ refresh[r].at \in {"refused", "unread"})
        /\ lost' = 0 => lost = 0
        /\ refresh[r].at # "idle" /\ lost' \in 0..MaxLost /\ UNCHANGED server
  <2>1. CASE RefreshAnswer(r)
    <3>1. lost' = lost /\ lost' \in 0..MaxLost /\ UNCHANGED server /\ refresh[r].at # "idle"
      BY <2>1, SessTyped DEF RefreshAnswer, SessInv
    <3>2. CASE refresh[r].at = "issued"
      <4>1. RefreshSettles(r, TRUE, refresh[r].token) /\ refresh[r].token \in 0..issued
        BY <2>1, <3>2, SessTyped DEF RefreshAnswer, SessInv, RefreshStates
      <4>2. QED
        BY <3>1, <3>2, <4>1
    <3>3. CASE refresh[r].at # "issued"
      <4>1. RefreshSettles(r, FALSE, cookie) /\ cookie \in 0..issued
        BY <2>1, <3>3, SessTyped DEF RefreshAnswer, SessInv
      <4>2. refresh[r].at \in {"refused", "unread"}
        BY <2>1, <3>3 DEF RefreshAnswer
      <4>3. QED
        BY <3>1, <3>3, <4>1, <4>2
    <3>4. QED
      BY <3>2, <3>3
  <2>2. CASE RefreshLost(r)
    <3>1. RefreshSettles(r, FALSE, cookie) /\ cookie \in 0..issued
      BY <2>2, SessTyped DEF RefreshLost, SessInv
    <3>2. lost' # 0 /\ lost' \in 0..MaxLost /\ refresh[r].at # "idle" /\ UNCHANGED server
      BY <2>2, LossCounted DEF RefreshLost
    <3>3. QED
      BY <3>1, <3>2
  <2>3. QED
    BY <2>1, <2>2
<1>2. ok => NewestToken(r) /\ given \in 1..issued
  BY <1>1, SessTyped DEF SessInv, TokensInv, NewestToken
<1>3. active[TabOf(r)] = r
  BY <1>1 DEF SessInv, TabsInv
<1>4. /\ \A q \in Calls : q # r => refresh'[q] = refresh[q]
      /\ refresh'[r] = [at |-> "idle", token |-> 0]
      /\ \A t \in Tabs : active'[t] = IF t = TabOf(r) THEN NoCall ELSE active[t]
      /\ cookie' = given
  BY <1>1, SessTyped DEF RefreshSettles, NoRefresh, SessInv
<1>5. \A q \in Calls :
        \/ call'[q] = call[q] /\ ~(call[q].at = "waiting" /\ TabOf(q) = TabOf(r))
        \/ /\ call[q].at = "waiting" /\ TabOf(q) = TabOf(r)
           /\ \/ ok /\ call'[q] = [at |-> "sent", try |-> 2, token |-> given, on |-> NoCall]
              \/ ~ok /\ call'[q] = Over
  <2> SUFFICES ASSUME NEW q \in Calls
               PROVE  \/ call'[q] = call[q] /\ ~(call[q].at = "waiting" /\ TabOf(q) = TabOf(r))
                      \/ /\ call[q].at = "waiting" /\ TabOf(q) = TabOf(r)
                         /\ \/ ok /\ call'[q] = [at |-> "sent", try |-> 2, token |-> given, on |-> NoCall]
                            \/ ~ok /\ call'[q] = Over
    OBVIOUS
  <2>1. q \in Waiting(r) <=> (call[q].at = "waiting" /\ TabOf(q) = TabOf(r))
    BY <1>3 DEF Waiting, SessInv, TabsInv
  <2>2. QED
    BY <1>1, <2>1 DEF RefreshSettles
<1>6. \A q \in Calls :
         \/ call'[q] = call[q] /\ ~(call[q].at = "waiting" /\ TabOf(q) = TabOf(r))
         \/ /\ call[q].at = "waiting" /\ TabOf(q) = TabOf(r)
            /\ \/ ok /\ call'[q].at = "sent" /\ call'[q].token = given
               \/ call'[q].at = "over"
  <2>1. Over.at = "over"
    BY DEF Over, Idle
  <2>2. QED
    BY <1>5, <2>1
<1>7. \A t \in Tabs : /\ tab'[t].open <=> tab[t].open
                      /\ tab'[t].user => tab[t].user
  BY <1>1, SessTyped DEF SessInv, TabStates, RefreshSettles, Restored
<1>8. SessTypeOK'
  <2>1. call' \in [Calls -> CallStates(issued)]
    <3>1. Over \in CallStates(issued)
      BY SessTyped DEF Over, Idle, CallStates, Points, SessInv
    <3>2. ok => [at |-> "sent", try |-> 2, token |-> given, on |-> NoCall] \in CallStates(issued)
      BY <1>1 DEF CallStates, Points
    <3>3. \A q \in Calls : call'[q] \in CallStates(issued)
      BY <1>5, <3>1, <3>2, SessTyped DEF SessInv
    <3>4. call' = [q \in Calls |-> call'[q]]
      BY <1>1 DEF RefreshSettles
    <3>5. QED
      BY <3>3, <3>4
  <2>2. tab' \in [Tabs -> TabStates]
    BY <1>1, SessTyped DEF SessInv, TabStates, Restored, RefreshSettles
  <2>3. refresh' \in [Calls -> RefreshStates(issued)]
    BY <1>1, SessTyped DEF SessInv, RefreshSettles, NoRefresh, RefreshStates
  <2>4. active' \in [Tabs -> Calls \union {NoCall}]
    BY <1>1, SessTyped DEF SessInv, RefreshSettles
  <2>5. QED
    BY <1>1, <1>4, <2>1, <2>2, <2>3, <2>4, SessTyped, SessTypedNext DEF SessInv
<1>9. TokensInv'
  <2>1. \A q \in Calls : refresh'[q].at = "issued" => q # r /\ NewestToken(q) /\ refresh'[q] = refresh[q]
    BY <1>4 DEF SessInv, TokensInv
  <2>2. \A q \in Calls : refresh'[q].at = "issued" => refresh[q].token # given /\ refresh[q].token \in 1..issued
    BY <1>1, <1>2, <2>1, SessTyped DEF NewestToken, SessInv
  <2>3. \A q \in Calls : refresh'[q].at = "issued" => NewestToken(q)'
    <3> SUFFICES ASSUME NEW q \in Calls, refresh'[q].at = "issued"
                 PROVE  NewestToken(q)'
      OBVIOUS
    <3>1. \A p \in Calls \ {q} : refresh'[p].token # refresh[q].token
      BY <1>4, <2>1, <2>2 DEF NewestToken
    <3>2. QED
      BY <1>1, <1>4, <2>1, <2>2, <3>1 DEF NewestToken
  <2>4. lost' = 0 /\ cookie' \notin tokens' \union {0} => \E q \in Calls : Underway(q)'
    <3> SUFFICES ASSUME lost' = 0, cookie' \notin tokens' \union {0}
                 PROVE  \E q \in Calls : Underway(q)'
      OBVIOUS
    <3>1. ~ok
      BY <1>1, <1>2, <1>4 DEF NewestToken
    <3>2. lost = 0 /\ refresh[r].at \in {"refused", "unread"} /\ cookie \notin tokens \union {0}
      BY <1>1, <1>4, <3>1
    <3>3. PICK q \in Calls : Underway(q)
      BY <3>2 DEF SessInv, TokensInv
    <3>4. QED
      BY <1>4, <3>2, <3>3 DEF Underway
  <2>5. \A q \in Calls : call'[q].at = "sent" /\ call'[q].try = 2 => call'[q].token \in access'
    BY <1>1, <1>2, <1>6 DEF SessInv, TokensInv, NewestToken
  <2>6. QED
    BY <2>3, <2>4, <2>5 DEF TokensInv
<1>10. TabsInv'
  <2>1. \A t \in Tabs :
           /\ tab'[t].user => tab'[t].open
           /\ active'[t] # NoCall =>
                /\ TabOf(active'[t]) = t /\ call'[active'[t]].at = "waiting"
                /\ refresh'[active'[t]].at # "idle" /\ tab'[t].open
    <3> SUFFICES ASSUME NEW t \in Tabs
                 PROVE  /\ tab'[t].user => tab'[t].open
                        /\ active'[t] # NoCall =>
                             /\ TabOf(active'[t]) = t /\ call'[active'[t]].at = "waiting"
                             /\ refresh'[active'[t]].at # "idle" /\ tab'[t].open
      OBVIOUS
    <3>1. active[t] # NoCall => active[t] \in Calls /\ TabOf(active[t]) = t
      BY SessTyped DEF SessInv, TabsInv
    <3>2. CASE t = TabOf(r)
      BY <1>4, <1>7, <3>2 DEF SessInv, TabsInv
    <3>3. CASE t # TabOf(r) /\ active[t] # NoCall
      <4>1. active[t] # r /\ call'[active[t]] = call[active[t]] /\ refresh'[active[t]] = refresh[active[t]]
        BY <1>4, <1>6, <3>1, <3>3
      <4>2. QED
        BY <1>4, <1>7, <3>3, <4>1 DEF SessInv, TabsInv
    <3>4. CASE t # TabOf(r) /\ active[t] = NoCall
      BY <1>4, <1>7, <3>4 DEF SessInv, TabsInv
    <3>5. QED
      BY <3>2, <3>3, <3>4
  <2>2. \A q \in Calls :
           /\ call'[q].at # "idle" => tab'[TabOf(q)].open
           /\ call'[q].at = "waiting" => active'[TabOf(q)] = call'[q].on /\ call'[q].on # NoCall
           /\ refresh'[q].at # "idle" => active'[TabOf(q)] = q
    <3> SUFFICES ASSUME NEW q \in Calls
                 PROVE  /\ call'[q].at # "idle" => tab'[TabOf(q)].open
                        /\ call'[q].at = "waiting" => active'[TabOf(q)] = call'[q].on /\ call'[q].on # NoCall
                        /\ refresh'[q].at # "idle" => active'[TabOf(q)] = q
      OBVIOUS
    <3>1. call'[q].at = "waiting" => call'[q] = call[q] /\ TabOf(q) # TabOf(r)
      BY <1>6
    <3>2. refresh'[q].at # "idle" => q # r /\ refresh'[q] = refresh[q]
      BY <1>4
    <3>3. call'[q].at # "idle" => call[q].at # "idle"
      BY <1>6
    <3>4. refresh'[q].at # "idle" => TabOf(q) # TabOf(r)
      BY <1>3, <3>2 DEF SessInv, TabsInv
    <3>5. QED
      BY <1>4, <1>7, <3>1, <3>2, <3>3, <3>4 DEF SessInv, TabsInv
  <2>3. QED
    BY <2>1, <2>2 DEF TabsInv
<1>11. RefusedInv'
  <2> SUFFICES ASSUME lost' = 0, OneTab', NEW q \in Calls, refresh'[q].at = "refused", cookie' # 0
               PROVE  refresh'[q].token # cookie'
    BY DEF RefusedInv
  <2>1. lost = 0 /\ OneTab /\ q # r /\ refresh'[q] = refresh[q]
    BY <1>1, <1>4, <1>7 DEF OneTab
  <2>2. CASE ok
    BY <1>1, <1>2, <1>4, <2>1, <2>2 DEF NewestToken
  <2>3. CASE ~ok
    BY <1>1, <1>4, <2>1, <2>3 DEF SessInv, RefusedInv
  <2>4. QED
    BY <2>2, <2>3
<1>12. QED
  BY <1>8, <1>9, <1>10, <1>11 DEF SessInv

-----------------------------------------------------------------------------
(* A login issues both tokens to the browser; a logout takes them back;    *)
(* the provider sends a tab where it belongs.                              *)
LEMMA TabKeeps ==
  ASSUME SessInv, NEW t \in Tabs, Login(t) \/ Logout(t) \/ Redirect(t)
  PROVE  SessInv'
<1>1. UNCHANGED <<call, refresh, active>> /\ tab[t].open
  BY DEF Login, Logout, Redirect
<1>2. /\ tab' \in [Tabs -> TabStates]
      /\ \A u \in Tabs : /\ tab'[u].open <=> tab[u].open
                         /\ tab'[u].user => tab[u].user \/ u = t
  <2>1. CASE Login(t)
    BY <2>1, SessTyped DEF Login, SessInv, TabStates
  <2>2. CASE Logout(t)
    BY <2>2, SessTyped DEF Logout, SessInv, TabStates
  <2>3. CASE Redirect(t)
    BY <2>3, SessTyped DEF Redirect, SessInv, TabStates
  <2>4. QED
    BY <2>1, <2>2, <2>3
<1>3. TabsInv'
  BY <1>1, <1>2 DEF SessInv, TabsInv
<1>4. CASE Login(t)
  <2>1. /\ issued' = issued + 1 /\ issued \in Nat /\ cookie' = issued' /\ lost' = lost
        /\ tokens' = tokens \union {issued'} /\ access' = access \union {issued'}
    BY <1>4, SessTyped DEF Login, SessInv
  <2>2. SessTypeOK'
    <3>1. /\ tokens' \subseteq 1..issued' /\ access' \subseteq 1..issued'
          /\ issued' \in Nat /\ cookie' \in 0..issued'
      BY <2>1, TokensGrow
    <3>2. refresh' \in [Calls -> RefreshStates(issued')]
      <4>1. refresh = [q \in Calls |-> refresh[q]]
        BY SessTyped DEF SessInv
      <4>2. QED
        BY <1>1, <2>1, <4>1, TokensGrow
    <3>3. call' \in [Calls -> CallStates(issued')]
      BY <1>1, <2>1, TokensGrow
    <3>4. lost' \in 0..MaxLost /\ active' \in [Tabs -> Calls \union {NoCall}]
      BY <1>1, <2>1, SessTyped DEF SessInv
    <3>5. QED
      BY <1>2, <3>1, <3>2, <3>3, <3>4, SessTypedNext
  <2>3. \A q \in Calls : refresh[q].token \in 0..issued /\ refresh[q].token # cookie'
    BY <2>1, SessTyped DEF SessInv, RefreshStates
  <2>4. TokensInv'
    BY <1>1, <2>1, <2>3 DEF SessInv, TokensInv, NewestToken
  <2>5. RefusedInv'
    BY <1>1, <2>3 DEF RefusedInv
  <2>6. QED
    BY <1>3, <2>2, <2>4, <2>5 DEF SessInv
<1>5. CASE Logout(t)
  <2>1. /\ tokens' \subseteq tokens /\ tokens \ {cookie} \subseteq tokens' /\ UNCHANGED <<access, issued>>
        /\ cookie' \in {0, cookie}
    BY <1>5 DEF Logout
  <2>2. lost' \in 0..MaxLost /\ (lost' = 0 => lost = 0 /\ cookie' = 0)
    BY <1>5, LossCounted, SessTyped DEF Logout, SessInv
  <2>3. SessTypeOK'
    BY <1>1, <1>2, <2>1, <2>2, SessTyped, SessTypedNext DEF SessInv
  <2>4. \A q \in Calls : refresh[q].at = "issued" => refresh[q].token \in 1..issued
    BY SessTyped DEF SessInv, TokensInv, NewestToken
  <2>5. TokensInv'
    BY <1>1, <2>1, <2>2, <2>4 DEF SessInv, TokensInv, NewestToken
  <2>6. RefusedInv'
    BY <1>1, <2>2 DEF RefusedInv
  <2>7. QED
    BY <1>3, <2>3, <2>5, <2>6 DEF SessInv
<1>6. CASE Redirect(t)
  <2>1. UNCHANGED <<server, cookie, lost>>
    BY <1>6 DEF Redirect
  <2>2. SessTypeOK'
    BY <1>1, <1>2, <2>1, SessTyped, SessTypedNext DEF SessInv
  <2>3. TokensInv'
    BY <1>1, <2>1 DEF SessInv, TokensInv, NewestToken, Underway
  <2>4. RefusedInv'
    BY <1>1, <1>2, <2>1 DEF SessInv, RefusedInv, OneTab
  <2>5. QED
    BY <1>3, <2>2, <2>3, <2>4 DEF SessInv
<1>7. QED
  BY <1>4, <1>5, <1>6

(* An access token expires: not one that was just given.                   *)
LEMMA ExpireKeeps ==
  ASSUME SessInv, Expire
  PROVE  SessInv'
<1>1. PICK a \in access :
        /\ \A r \in Calls : /\ ~(call[r].at = "sent" /\ call[r].try = 2 /\ call[r].token = a)
                            /\ ~(refresh[r].at = "issued" /\ refresh[r].token = a)
        /\ access' = access \ {a}
        /\ UNCHANGED <<tokens, issued, cookie, tab, call, refresh, active, lost>>
  BY DEF Expire
<1>2. SessTypeOK'
  BY <1>1, SessTyped, SessTypedNext DEF SessInv
<1>3. TokensInv'
  BY <1>1 DEF SessInv, TokensInv, NewestToken, Underway
<1>4. TabsInv'
  BY <1>1, TabsStay
<1>5. RefusedInv'
  BY <1>1 DEF SessInv, RefusedInv, OneTab
<1>6. QED
  BY <1>2, <1>3, <1>4, <1>5 DEF SessInv

LEMMA SessStep == SessInv /\ [SessNext]_sessVars => SessInv'
<1> SUFFICES ASSUME SessInv, [SessNext]_sessVars
             PROVE  SessInv'
  OBVIOUS
<1>1. CASE UNCHANGED sessVars
  <2>1. SessTypeOK'
    BY <1>1, SessTyped, SessTypedNext DEF sessVars, SessInv
  <2>2. TokensInv'
    BY <1>1 DEF sessVars, SessInv, TokensInv, NewestToken, Underway
  <2>3. TabsInv'
    BY <1>1, TabsStay DEF sessVars
  <2>4. RefusedInv'
    BY <1>1 DEF sessVars, SessInv, RefusedInv, OneTab
  <2>5. QED
    BY <2>1, <2>2, <2>3, <2>4 DEF SessInv
<1>2. ASSUME NEW t \in Tabs, NEW page \in {"app", "login"}, Open(t, page)
      PROVE  SessInv'
  <2>1. PICK s \in Tabs \X {First} : s = <<t, First>> /\ TabOf(s) = t
    BY DEF TabOf
  <2>2. s \in Calls => call[s].at = "idle"
    BY <1>2, <2>1 DEF Open, SessInv, TabsInv
  <2>3. /\ tab' \in [Tabs -> TabStates]
        /\ \A u \in Tabs : /\ tab'[u].user <=> tab[u].user
                           /\ tab'[u].open <=> (tab[u].open \/ u = t)
    <3>1. tab \in [Tabs -> TabStates] /\ tab' = [tab EXCEPT ![t].open = TRUE, ![t].page = page]
      BY <1>2, SessTyped DEF Open, SessInv
    <3>2. tab' \in [Tabs -> TabStates] /\ \A u \in Tabs : u # t => tab'[u] = tab[u]
      BY <1>2, <3>1 DEF TabStates
    <3>3. tab'[t].open = TRUE /\ tab'[t].user = tab[t].user
      BY <3>1 DEF TabStates
    <3>4. QED
      BY <3>2, <3>3
  <2>4. call' = [call EXCEPT ![s] = Send(s, 1)] /\ UNCHANGED <<server, cookie, refresh, active, lost>>
    BY <1>2, <2>1 DEF Open
  <2>5. QED
    BY <2>1, <2>2, <2>3, <2>4, RequestsKeep
<1>3. ASSUME NEW r \in Calls, Request(r)
      PROVE  SessInv'
  <2>1. /\ tab' \in [Tabs -> TabStates] /\ tab' = tab
        /\ \A u \in Tabs : tab[u].open <=> (tab[u].open \/ u = TabOf(r))
    BY <1>3, SessTyped DEF Request, SessInv, TabsInv
  <2>2. QED
    BY <1>3, <2>1, RequestsKeep DEF Request
<1>4. ASSUME NEW r \in Calls, Serve(r) \/ RequestLost(r) \/ RefreshLost(r)
      PROVE  SessInv'
  BY <1>4, AnswerKeeps, JoinKeeps, LookupKeeps, RotateKeeps, GiveUpKeeps, IssueKeeps, SettleKeeps DEF Serve
<1>5. ASSUME NEW t \in Tabs, Login(t) \/ Logout(t) \/ Redirect(t)
      PROVE  SessInv'
  BY <1>5, TabKeeps
<1>6. QED
  BY <1>1, <1>2, <1>3, <1>4, <1>5, ExpireKeeps DEF SessNext

(* The inductive invariant of the session: the token of an answered        *)
(* refresh is the newest and known to nobody else, a cookie that was       *)
(* deleted has its successor under way unless one got lost, and every tab  *)
(* that waits does so for the one refresh it knows (coordinatedRefresh).   *)
THEOREM SessionInvariant == SessSpec => []SessInv
BY SessInitially, SessStep, PTL DEF SessSpec

(* Whatever the number of tabs, requests and logins, and whatever read or  *)
(* deletion fails, the browser is not left with a refresh token the server *)
(* does not know, unless the successor of one got lost: its insert failed, *)
(* the handler gave up after the deletion, or an answer did not arrive.    *)
THEOREM SessionIsKept == SessSpec => []SessionSurvives
<1>1. SessInv => SessionSurvives
  BY DEF SessInv, TokensInv, Underway, SessionSurvives
<1>2. QED
  BY <1>1, SessionInvariant, PTL

(* A request that waits for a refresh waits for the one its tab has under  *)
(* way: activeRefreshPromise is never cleared, and never replaced, under a *)
(* request that still awaits it.                                           *)
THEOREM NobodyWaitsInVain == SessSpec => []WaitersAreActive
<1>1. SessInv => WaitersAreActive
  <2> SUFFICES ASSUME SessInv, NEW r \in Calls, call[r].at = "waiting"
               PROVE  active[TabOf(r)] = call[r].on /\ refresh[call[r].on].at # "idle"
    BY DEF WaitersAreActive
  <2>1. QED
    BY DEF SessInv, TabsInv
<1>2. QED
  BY <1>1, SessionInvariant, PTL

(* A request fails because its refresh was refused, or could not read the  *)
(* token; none is sent again with a token that has expired.                *)
LEMMA FailsByRefusal ==
  ASSUME SessInv, [SessNext]_sessVars, NEW r \in Calls, Refused(r),
         lost' = 0, cookie # 0, Cardinality({t \in Tabs : tab[t].open}) = 1
  PROVE  /\ call[r].at = "waiting"
         /\ refresh[call[r].on].token # cookie \/ refresh[call[r].on].at = "unread"
<1>1. OneTab
  <2>1. IsFiniteSet({t \in Tabs : tab[t].open})
    BY FS_Subset, SessAssumption
  <2>2. PICK u : {t \in Tabs : tab[t].open} = {u}
    BY <2>1, FS_Singleton
  <2>3. QED
    BY <2>2 DEF OneTab
<1>2. call[r].at = "waiting" /\ call'[r].at = "over"
  BY DEF Refused, SessInv, TokensInv
<1>3. CASE \E q \in Calls : RefreshAnswer(q)
  <2>1. PICK q \in Calls : RefreshAnswer(q)
    BY <1>3
  <2>2. lost = 0
    BY <2>1 DEF RefreshAnswer
  <2>3. refresh[q].at \in {"refused", "unread"} /\ call[r].on = q
    <3>1. r \in Waiting(q)
      BY <1>2, <2>1 DEF RefreshAnswer, RefreshSettles
    <3>2. refresh[q].at # "issued"
      BY <1>2, <2>1, <3>1 DEF RefreshAnswer, RefreshSettles
    <3>3. QED
      BY <2>1, <3>1, <3>2 DEF RefreshAnswer, Waiting
  <2>4. QED
    BY <1>1, <1>2, <2>2, <2>3 DEF SessInv, RefusedInv
<1>4. CASE \E q \in Calls : RefreshLost(q)
  BY <1>4, LossCounted DEF RefreshLost
<1>5. CASE \E q \in Calls : Answer(q) \/ RequestLost(q) \/ Request(q) \/ Unauthorized(q)
  <2>1. PICK q, x : q \in Calls /\ call[q].at # "waiting" /\ call' = [call EXCEPT ![q] = x]
    BY <1>5 DEF Answer, RequestLost, Request, Unauthorized
  <2>2. QED
    BY <1>2, <2>1, SessTyped DEF SessInv
<1>6. CASE \E t \in Tabs, page \in {"app", "login"} : Open(t, page)
  <2>1. PICK t, x : t \in Tabs /\ ~tab[t].open /\ call' = [call EXCEPT ![<<t, First>>] = x]
    BY <1>6 DEF Open
  <2>2. r # <<t, First>>
    BY <1>2, <2>1 DEF SessInv, TabsInv
  <2>3. QED
    BY <1>2, <2>1, <2>2, SessTyped DEF SessInv
<1>7. CASE UNCHANGED call
  BY <1>2, <1>7
<1>8. QED
  <2>1. \/ \E q \in Calls : \/ Answer(q) \/ RequestLost(q) \/ Request(q) \/ Unauthorized(q)
                            \/ RefreshAnswer(q) \/ RefreshLost(q)
        \/ \E t \in Tabs, page \in {"app", "login"} : Open(t, page)
        \/ \E q \in Calls : Lookup(q) \/ Rotate(q) \/ GiveUp(q) \/ Issue(q)
        \/ \E t \in Tabs : Login(t) \/ Logout(t) \/ Redirect(t)
        \/ Expire \/ UNCHANGED sessVars
    BY DEF SessNext, Serve
  <2>2. (\E q \in Calls : Lookup(q) \/ Rotate(q) \/ GiveUp(q) \/ Issue(q)) => UNCHANGED call
    BY DEF Lookup, Rotate, GiveUp, Issue
  <2>3. (\E t \in Tabs : Login(t) \/ Logout(t) \/ Redirect(t)) => UNCHANGED call
    BY DEF Login, Logout, Redirect
  <2>4. Expire \/ UNCHANGED sessVars => UNCHANGED call
    BY DEF Expire, sessVars
  <2>5. QED
    BY <1>3, <1>4, <1>5, <1>6, <1>7, <2>1, <2>2, <2>3, <2>4

(* With one open tab and no successor lost, no request fails because the   *)
(* access token expired: it fails only when its refresh could not read the *)
(* token or was refused, and then carried the token of a session that is   *)
(* over (fetchJSON and coordinatedRefresh against the handler Refresh).    *)
THEOREM ExpiryAloneNeverFails == SessSpec => OneTabNeverFails
<1>1. SessInv /\ [SessNext]_sessVars =>
        [\A r \in Calls :
           /\ Refused(r) /\ lost' = 0 /\ cookie # 0
           /\ Cardinality({t \in Tabs : tab[t].open}) = 1
           => /\ call[r].at = "waiting"
              /\ refresh[call[r].on].token # cookie \/ refresh[call[r].on].at = "unread"]_sessVars
  BY FailsByRefusal
<1>2. QED
  BY <1>1, SessionInvariant, PTL DEF SessSpec, OneTabNeverFails

HIDE CallsOfTabs DEF server

-----------------------------------------------------------------------------
(* The parts of a behaviour.                                               *)
AllInv == SessInv /\ RelTypeOK /\ RegInv

LEMMA AllStep == AllInv /\ [AllNext]_allVars => AllInv'
<1> SUFFICES ASSUME AllInv, [AllNext]_allVars
             PROVE  AllInv'
  OBVIOUS
<1>1. [SessNext]_sessVars /\ [RelNext]_relVars /\ [RegNext]_regVars
  BY DEF AllNext, Rest, allVars, Sessions, Registries
<1>2. RelTypeOK'
  <2>1. CASE UNCHANGED relVars
    BY <2>1 DEF relVars, AllInv, RelTypeOK
  <2>2. CASE RelNext
    BY <2>2, TypesStep DEF RelNext, AllInv
  <2>3. QED
    BY <1>1, <2>1, <2>2
<1>3. SessInv' /\ RegInv'
  BY <1>1, SessStep, RegStep DEF AllInv
<1>4. QED
  BY <1>2, <1>3 DEF AllInv

(* The variables of session, release service and registry hold what the    *)
(* columns, cookies and React states they stand for can hold, in whichever *)
(* part a behaviour moves, and a command names a deployment that was       *)
(* started.                                                                *)
THEOREM PartsAreTyped == AllSpec => []PartsTyped
<1>1. AllInit => AllInv
  <2>1. RelInit => RelTypeOK
    BY DEF RelInit, RelTypeOK
  <2>2. QED
    BY <2>1, SessInitially, RegInitially DEF AllInit, AllInv
<1>2. AllInv => PartsTyped
  BY DEF AllInv, SessInv, RegInv, PartsTyped
<1>3. QED
  BY <1>1, <1>2, AllStep, PTL DEF AllSpec
=============================================================================
