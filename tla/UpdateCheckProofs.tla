--------------------------- MODULE UpdateCheckProofs ---------------------------
(***************************************************************************)
(* A live claim is never taken away, for any number of processes and of    *)
(* operations.  The rename of MoveClaim takes whatever is called           *)
(* active-claim by then; the argument is that it can only be the claim     *)
(* that was inspected, because a directory retired-claim-g takes one       *)
(* claim and the claim of g is the only one that was ever headed for it.   *)
(***************************************************************************)
EXTENDS UpdateCheck, TLAPS

Owning == {"reserved", "owner", "newest", "promote", "look", "retire", "move", "rename", "live",
           "reread", "own1", "own2", "fetch", "own", "fence", "fencing", "decide", "commit",
           "cancel", "withdraw", "refuse"}
Entering == {"reserved", "owner"}
Retiring == {"retire", "move"}
Plain == Places \ (Entering \union Retiring)

Directory ==
  /\ op \in [0..MaxGeneration -> Kinds] /\ lease \in [0..MaxGeneration -> BOOLEAN]
  /\ claim \in 0..MaxGeneration /\ retired \in [Generations -> 0..MaxGeneration]

Processes ==
  /\ at \in [Procs -> Places]
  /\ gen \in [Procs -> 0..MaxGeneration] /\ seen \in [Procs -> 0..MaxGeneration]

(* An operation belongs to the process that reserved it.                   *)
OwnOperation ==
  /\ \A p, q \in Procs : gen[p] = gen[q] /\ gen[p] # 0 => p = q
  /\ \A p \in Procs : at[p] \in Owning => gen[p] # 0

(* Every number in use was reserved, so that a new reservation is new.     *)
Reserved ==
  /\ claim # 0 => op[claim] # "none"
  /\ \A p \in Procs : gen[p] # 0 => op[gen[p]] # "none"
  /\ \A p \in Procs : at[p] \in Retiring => seen[p] # 0 /\ op[seen[p]] # "none"

(* An operation that is not pending yet, or may have its lease renewed, is *)
(* nobody's claim.                                                         *)
EnteringIsUnclaimed ==
  \A p \in Procs : at[p] \in Entering =>
    claim # gen[p] /\ \A q \in Procs : at[q] \in Retiring => seen[q] # gen[p]

(* A claim that is about to be retired is dead, and is moved only once.    *)
RetiringIsDead ==
  \A p \in Procs : at[p] \in Retiring => ~(op[seen[p]] = "pending" /\ lease[seen[p]])

MovesWhatItSaw ==
  \A p \in Procs : at[p] = "move" /\ retired[seen[p]] = 0 => claim = seen[p]

UpdInv ==
  /\ Directory /\ Processes
  /\ OwnOperation /\ Reserved /\ EnteringIsUnclaimed /\ RetiringIsDead /\ MovesWhatItSaw

-----------------------------------------------------------------------------
THEOREM UpdInitially == UpdInit => UpdInv
BY UpdateAssumption DEF UpdInit, UpdInv, Directory, Processes, OwnOperation, Reserved,
   EnteringIsUnclaimed, RetiringIsDead, MovesWhatItSaw, Kinds, Ended, Generations, Places, Owning,
   Entering, Retiring

(* Most steps change no claim: a process goes to a plain place, forgets    *)
(* its operation or keeps it, and an operation may end on the way.         *)
OperationsGoOn ==
  \A g \in 0..MaxGeneration :
    /\ op'[g] = "none" <=> op[g] = "none"
    /\ op'[g] = "pending" /\ lease'[g] => op[g] = "pending" /\ lease[g]

LEMMA PlainStep ==
  ASSUME UpdInv, NEW p \in Procs, NEW place \in Plain,
         op' \in [0..MaxGeneration -> Kinds], lease' \in [0..MaxGeneration -> BOOLEAN],
         OperationsGoOn, UNCHANGED <<claim, retired>>,
         Goto(p, place), place \in Owning => gen[p] # 0 /\ gen' = gen,
         gen' = gen \/ gen' = [gen EXCEPT ![p] = 0],
         seen' = seen \/ seen' = [seen EXCEPT ![p] = 0]
  PROVE  UpdInv'
<1> USE DEF UpdInv
<1>1. \A q \in Procs : q # p => at'[q] = at[q] /\ gen'[q] = gen[q] /\ seen'[q] = seen[q]
  BY DEF Goto, Processes
<1>2. at'[p] = place /\ gen'[p] \in {0, gen[p]} /\ seen'[p] \in 0..MaxGeneration
  BY UpdateAssumption DEF Goto, Processes
<1>3. place \notin Entering /\ place \notin Retiring /\ place \in Places
  BY DEF Plain
<1>4. Directory'
  BY DEF Directory
<1>5. Processes'
  BY <1>3, UpdateAssumption DEF Processes, Goto
<1>6. OwnOperation'
  <2>1. \A q \in Procs : gen'[q] # 0 => gen'[q] = gen[q]
    BY <1>1, <1>2
  <2>2. \A q, r \in Procs : gen'[q] = gen'[r] /\ gen'[q] # 0 => q = r
    BY <2>1 DEF OwnOperation
  <2>3. \A q \in Procs : at'[q] \in Owning => gen'[q] # 0
    <3>1. at'[p] \in Owning => gen'[p] # 0
      BY <1>2
    <3>2. QED
      BY <1>1, <3>1 DEF OwnOperation
  <2>4. QED
    BY <2>2, <2>3 DEF OwnOperation
<1>7. Reserved'
  <2>1. \A q \in Procs : gen'[q] # 0 => gen'[q] = gen[q]
    BY <1>1, <1>2
  <2>2. \A q \in Procs : at'[q] \in Retiring => q # p
    BY <1>2, <1>3
  <2>3. \A g \in 0..MaxGeneration : op[g] # "none" => op'[g] # "none"
    BY DEF OperationsGoOn
  <2>4. claim' # 0 => op'[claim'] # "none"
    BY <2>3 DEF Reserved, Directory
  <2>5. \A q \in Procs : gen'[q] # 0 => op'[gen'[q]] # "none"
    BY <2>1, <2>3 DEF Reserved, Processes
  <2>6. \A q \in Procs : at'[q] \in Retiring => seen'[q] # 0 /\ op'[seen'[q]] # "none"
    BY <1>1, <2>2, <2>3 DEF Reserved, Processes
  <2>7. QED
    BY <2>4, <2>5, <2>6 DEF Reserved
<1>8. EnteringIsUnclaimed'
  BY <1>1, <1>2, <1>3 DEF EnteringIsUnclaimed
<1>9. RetiringIsDead'
  BY <1>1, <1>2, <1>3 DEF RetiringIsDead, Processes, OperationsGoOn
<1>10. MovesWhatItSaw'
  BY <1>1, <1>2, <1>3 DEF MovesWhatItSaw, Retiring
<1>11. QED
  BY <1>4, <1>5, <1>6, <1>7, <1>8, <1>9, <1>10

(* An operation that ends is neither new nor live.                         *)
LEMMA EndingGoesOn ==
  ASSUME Directory, NEW g \in 0..MaxGeneration, NEW kind \in Ended, op[g] = "pending",
         Transition(g, kind)
  PROVE  /\ op' \in [0..MaxGeneration -> Kinds] /\ lease' \in [0..MaxGeneration -> BOOLEAN]
         /\ OperationsGoOn
BY DEF Directory, Transition, Ended, Kinds, OperationsGoOn

LEMMA StandingStill ==
  ASSUME Directory, UNCHANGED <<op, lease>>
  PROVE  /\ op' \in [0..MaxGeneration -> Kinds] /\ lease' \in [0..MaxGeneration -> BOOLEAN]
         /\ OperationsGoOn
BY DEF Directory, OperationsGoOn

(* Steps of one process that leave the directory alone.                    *)
Reading(p) ==
  \/ CheckForUpdate(p) \/ FreshStateResult(p) \/ CheckIsDue(p)
  \/ \E d \in Digests : AcknowledgeUpdate(p, d)
  \/ InspectActiveClaim(p) \/ ListPending(p) \/ HasActivePending(p)
  \/ IsSuperseded(p, "newest", "promote") \/ IsSuperseded(p, "promote", "look")
  \/ IsLive(p) \/ Reread(p) \/ MayFetch(p, "own1", "own2") \/ MayFetch(p, "own2", "fetch")
  \/ \E d \in Digests \union {None} : FetchCandidate(p, d)
  \/ MayFence(p) \/ ListLower(p) \/ MayDecide(p) \/ Decide(p) \/ WasFenced(p)
  \/ AnswerAfterLosing(p) \/ WaitUntilRetry(p) \/ Abandon(p)

LEMMA ReadingKeeps ==
  ASSUME UpdInv, NEW p \in Procs, Reading(p)
  PROVE  UpdInv'
<1>1. UNCHANGED <<op, lease, claim, retired>>
  BY DEF Reading, CheckForUpdate, FreshStateResult, CheckIsDue, AcknowledgeUpdate,
     InspectActiveClaim, ListPending, HasActivePending, IsSuperseded, IsLive, Reread, MayFetch,
     FetchCandidate, MayFence, ListLower, MayDecide, Decide, WasFenced, AnswerAfterLosing,
     WaitUntilRetry, Abandon, cacheDir
<1>2. /\ gen' = gen \/ gen' = [gen EXCEPT ![p] = 0]
      /\ seen' = seen \/ seen' = [seen EXCEPT ![p] = 0]
  BY DEF Reading, CheckForUpdate, FreshStateResult, CheckIsDue, AcknowledgeUpdate,
     InspectActiveClaim, ListPending, HasActivePending, IsSuperseded, IsLive, Reread, MayFetch,
     FetchCandidate, MayFence, ListLower, MayDecide, Decide, WasFenced, AnswerAfterLosing,
     WaitUntilRetry, Abandon, Return, locals
<1>3. \E place \in Plain : Goto(p, place) /\ (place \in Owning => at[p] \in Owning /\ gen' = gen)
  <2> USE DEF Plain, Places, Owning, Entering, Retiring
  <2>1. CASE CheckForUpdate(p) \/ FreshStateResult(p) \/ CheckIsDue(p)
    BY <2>1 DEF CheckForUpdate, FreshStateResult, CheckIsDue, Return, Goto
  <2>2. CASE \E d \in Digests : AcknowledgeUpdate(p, d)
    BY <2>2 DEF AcknowledgeUpdate, Goto
  <2>3. CASE InspectActiveClaim(p) \/ ListPending(p) \/ HasActivePending(p)
    BY <2>3 DEF InspectActiveClaim, ListPending, HasActivePending, Goto
  <2>4. CASE IsSuperseded(p, "newest", "promote") \/ IsSuperseded(p, "promote", "look")
    BY <2>4 DEF IsSuperseded, Goto, locals
  <2>5. CASE IsLive(p)
    BY <2>5 DEF IsLive, Goto, locals
  <2>6. CASE Reread(p) \/ MayFetch(p, "own1", "own2") \/ MayFetch(p, "own2", "fetch")
    BY <2>6 DEF Reread, MayFetch, Goto, locals
  <2>7. CASE \E d \in Digests \union {None} : FetchCandidate(p, d)
    BY <2>7 DEF FetchCandidate, Goto
  <2>8. CASE MayFence(p) \/ ListLower(p) \/ MayDecide(p) \/ Decide(p)
    BY <2>8 DEF MayFence, ListLower, MayDecide, Decide, Goto, locals
  <2>9. CASE WasFenced(p) \/ AnswerAfterLosing(p) \/ WaitUntilRetry(p)
    BY <2>9 DEF WasFenced, AnswerAfterLosing, WaitUntilRetry, Return, Goto
  <2>10. CASE Abandon(p)
    BY <2>10 DEF Abandon, Return, Goto, Cancels, locals
  <2>11. QED
    BY <2>1, <2>2, <2>3, <2>4, <2>5, <2>6, <2>7, <2>8, <2>9, <2>10 DEF Reading
<1>4. PICK place \in Plain : Goto(p, place) /\ (place \in Owning => at[p] \in Owning /\ gen' = gen)
  BY <1>3
<1>5. place \in Owning => gen[p] # 0 /\ gen' = gen
  BY <1>4 DEF UpdInv, OwnOperation
<1>6. /\ op' \in [0..MaxGeneration -> Kinds] /\ lease' \in [0..MaxGeneration -> BOOLEAN]
      /\ OperationsGoOn
  BY <1>1, StandingStill DEF UpdInv
<1>7. QED
  BY <1>1, <1>2, <1>4, <1>5, <1>6, PlainStep

(* Steps that end an operation, of their own or of a slower process.       *)
LEMMA CommitKeeps ==
  ASSUME UpdInv, NEW p \in Procs, Commit(p)
  PROVE  UpdInv'
<1>1. gen[p] \in 0..MaxGeneration /\ op[gen[p]] = "pending" /\ Transition(gen[p], "committed")
  BY DEF UpdInv, Processes, Commit
<1>2. /\ op' \in [0..MaxGeneration -> Kinds] /\ lease' \in [0..MaxGeneration -> BOOLEAN]
      /\ OperationsGoOn
  BY <1>1, EndingGoesOn DEF UpdInv, Ended
<1>3. "idle" \in Plain /\ "idle" \notin Owning
  BY DEF Plain, Places, Entering, Retiring, Owning
<1>4. /\ Goto(p, "idle") /\ UNCHANGED <<claim, retired>>
      /\ gen' = [gen EXCEPT ![p] = 0] /\ seen' = [seen EXCEPT ![p] = 0]
  BY DEF Commit, Return
<1>5. QED
  BY <1>2, <1>3, <1>4, PlainStep

LEMMA CancelKeeps ==
  ASSUME UpdInv, NEW p \in Procs, CancelOperation(p)
  PROVE  UpdInv'
<1>1. /\ op' \in [0..MaxGeneration -> Kinds] /\ lease' \in [0..MaxGeneration -> BOOLEAN]
      /\ OperationsGoOn
  <2>1. CASE op[gen[p]] = "pending"
    <3>1. gen[p] \in 0..MaxGeneration /\ Transition(gen[p], "cancelled")
      BY <2>1 DEF UpdInv, Processes, CancelOperation
    <3>2. QED
      BY <2>1, <3>1, EndingGoesOn DEF UpdInv, Ended
  <2>2. CASE op[gen[p]] # "pending"
    BY <2>2, StandingStill DEF UpdInv, CancelOperation
  <2>3. QED
    BY <2>1, <2>2
<1>2. PICK place \in {"lost", "idle"} : Goto(p, place)
  BY DEF CancelOperation, Return
<1>3. place \in Plain /\ place \notin Owning
  BY DEF Plain, Places, Entering, Retiring, Owning
<1>4. /\ UNCHANGED <<claim, retired>>
      /\ gen' = gen \/ gen' = [gen EXCEPT ![p] = 0]
      /\ seen' = seen \/ seen' = [seen EXCEPT ![p] = 0]
  BY DEF CancelOperation, Return, locals
<1>5. QED
  BY <1>1, <1>2, <1>3, <1>4, PlainStep

(* Nobody moves: an operation is fenced or its lease runs out.             *)
LEMMA EndingKeeps ==
  ASSUME UpdInv, op' \in [0..MaxGeneration -> Kinds], lease' \in [0..MaxGeneration -> BOOLEAN],
         OperationsGoOn, UNCHANGED <<claim, retired, at, gen, seen>>
  PROVE  UpdInv'
<1> USE DEF UpdInv
<1>1. Directory' /\ Processes' /\ OwnOperation'
  BY DEF Directory, Processes, OwnOperation
<1>2. Reserved'
  BY DEF Reserved, OperationsGoOn, Directory, Processes
<1>3. EnteringIsUnclaimed' /\ MovesWhatItSaw'
  BY DEF EnteringIsUnclaimed, MovesWhatItSaw
<1>4. RetiringIsDead'
  BY DEF RetiringIsDead, OperationsGoOn, Processes
<1>5. QED
  BY <1>1, <1>2, <1>3, <1>4

LEMMA FenceKeeps ==
  ASSUME UpdInv, NEW p \in Procs, NEW g \in Generations, FenceLower(p, g)
  PROVE  UpdInv'
<1>1. UNCHANGED <<claim, retired, at, gen, seen>>
  BY DEF FenceLower
<1>2. g \in 0..MaxGeneration
  BY UpdateAssumption DEF Generations
<1>3. /\ op' \in [0..MaxGeneration -> Kinds] /\ lease' \in [0..MaxGeneration -> BOOLEAN]
      /\ OperationsGoOn
  <2>1. CASE op[g] = "pending"
    <3>1. Transition(g, "fenced")
      BY <2>1 DEF FenceLower
    <3>2. QED
      BY <1>2, <2>1, <3>1, EndingGoesOn DEF UpdInv, Ended
  <2>2. CASE op[g] # "pending"
    BY <2>2, StandingStill DEF UpdInv, FenceLower
  <2>3. QED
    BY <2>1, <2>2
<1>4. QED
  BY <1>1, <1>3, EndingKeeps

LEMMA LeaseEndsKeeps ==
  ASSUME UpdInv, NEW g \in Generations, LeaseEnds(g)
  PROVE  UpdInv'
<1>1. UNCHANGED <<op, claim, retired, at, gen, seen>>
  BY DEF LeaseEnds, locals
<1>2. lease' \in [0..MaxGeneration -> BOOLEAN]
  BY DEF LeaseEnds, UpdInv, Directory
<1>3. op' \in [0..MaxGeneration -> Kinds] /\ OperationsGoOn
  BY <1>1 DEF LeaseEnds, OperationsGoOn, UpdInv, Directory
<1>4. QED
  BY <1>1, <1>2, <1>3, EndingKeeps

-----------------------------------------------------------------------------
(* The steps that make an operation.                                       *)

LEMMA ReserveKeeps ==
  ASSUME UpdInv, NEW p \in Procs, NEW g \in Generations, ReserveOperation(p, g)
  PROVE  UpdInv'
<1> USE DEF UpdInv
<1>1. /\ op' = [op EXCEPT ![g] = "reserved"] /\ op[g] = "none"
      /\ gen' = [gen EXCEPT ![p] = g] /\ at' = [at EXCEPT ![p] = "reserved"]
      /\ UNCHANGED <<lease, claim, retired, seen>>
  BY DEF ReserveOperation, Goto
<1>2. g \in 0..MaxGeneration /\ g # 0
  BY UpdateAssumption DEF Generations
<1>3. at'[p] = "reserved" /\ gen'[p] = g /\ op'[g] = "reserved"
  BY <1>1, <1>2 DEF Processes, Directory
<1>4. \A q \in Procs : q # p => at'[q] = at[q] /\ gen'[q] = gen[q]
  BY <1>1 DEF Processes
<1>5. \A h \in 0..MaxGeneration : h # g => op'[h] = op[h]
  BY <1>1 DEF Directory
<1>6. \A q \in Procs : gen[q] # g
  BY <1>1, <1>2 DEF Reserved
<1>7. claim # g /\ \A q \in Procs : at[q] \in Retiring => seen[q] # g
  BY <1>1, <1>2 DEF Reserved
<1>8. "reserved" \notin Retiring /\ "reserved" # "move" /\ "reserved" \in Places
  BY DEF Retiring, Places
<1>9. Directory' /\ Processes'
  BY <1>1, <1>2, <1>8 DEF Directory, Processes, Kinds
<1>10. OwnOperation'
  BY <1>2, <1>3, <1>4, <1>6 DEF OwnOperation
<1>11. Reserved'
  BY <1>1, <1>3, <1>4, <1>5, <1>6, <1>7, <1>8 DEF Reserved, Directory, Processes
<1>12. EnteringIsUnclaimed'
  BY <1>1, <1>3, <1>4, <1>7, <1>8 DEF EnteringIsUnclaimed
<1>13. RetiringIsDead'
  BY <1>1, <1>3, <1>4, <1>5, <1>7, <1>8 DEF RetiringIsDead, Processes
<1>14. MovesWhatItSaw'
  BY <1>1, <1>3, <1>4, <1>8 DEF MovesWhatItSaw
<1>15. QED
  BY <1>9, <1>10, <1>11, <1>12, <1>13, <1>14

(* The lease that begins is of an operation nobody has claimed.            *)
LEMMA EnterKeeps ==
  ASSUME UpdInv, NEW p \in Procs, MakePending(p) \/ WriteOwner(p)
  PROVE  UpdInv'
<1> USE DEF UpdInv
<1> DEFINE g == gen[p]
<1>1. at[p] \in Entering /\ at[p] \in Owning
  BY DEF MakePending, WriteOwner, Entering, Owning
<1>2. g \in 0..MaxGeneration /\ g # 0
  BY <1>1 DEF Processes, OwnOperation
<1>3. UNCHANGED <<claim, retired, gen, seen>>
  BY DEF MakePending, WriteOwner, locals
<1>4. /\ op' = op \/ op' = [op EXCEPT ![g] = "pending"]
      /\ lease' = lease \/ lease' = [lease EXCEPT ![g] = TRUE]
  BY DEF MakePending, WriteOwner
<1>5. PICK place \in {"owner", "newest", "lost"} : at' = [at EXCEPT ![p] = place]
  BY DEF MakePending, WriteOwner, Goto
<1>6. place \notin Retiring /\ place # "move" /\ place \in Places
  BY DEF Retiring, Places
<1>7. Directory' /\ Processes'
  BY <1>2, <1>3, <1>4, <1>5, <1>6 DEF Directory, Processes, Kinds
<1>8. at'[p] = place /\ \A q \in Procs : q # p => at'[q] = at[q]
  BY <1>5 DEF Processes
<1>9. OwnOperation'
  BY <1>2, <1>3, <1>8 DEF OwnOperation
<1>10. \A h \in 0..MaxGeneration : op'[h] = "none" => op[h] = "none"
  BY <1>2, <1>4 DEF Directory
<1>11. \A h \in 0..MaxGeneration : h # g => op'[h] = op[h] /\ lease'[h] = lease[h]
  BY <1>4 DEF Directory
<1>12. \A q \in Procs : at'[q] \in Retiring => at[q] \in Retiring /\ at'[q] = at[q]
  BY <1>6, <1>8
<1>13. Reserved'
  BY <1>3, <1>10, <1>12 DEF Reserved, Directory, Processes
<1>14. EnteringIsUnclaimed'
  BY <1>1, <1>3, <1>8, <1>12 DEF EnteringIsUnclaimed
<1>15. RetiringIsDead'
  <2>1. \A q \in Procs : at[q] \in Retiring => seen[q] # g
    BY <1>1 DEF EnteringIsUnclaimed
  <2>2. QED
    BY <1>3, <1>11, <1>12, <2>1 DEF RetiringIsDead, Processes
<1>16. MovesWhatItSaw'
  BY <1>3, <1>6, <1>8 DEF MovesWhatItSaw
<1>17. QED
  BY <1>7, <1>9, <1>13, <1>14, <1>15, <1>16

-----------------------------------------------------------------------------
(* The steps that look at, retire, move and make the claim.                *)

LEMMA LookKeeps ==
  ASSUME UpdInv, NEW p \in Procs, LookAtClaim(p)
  PROVE  UpdInv'
<1> USE DEF UpdInv
<1>1. UNCHANGED <<op, lease, claim, retired, gen>> /\ seen' = [seen EXCEPT ![p] = claim]
  BY DEF LookAtClaim, cacheDir
<1>2. PICK place \in {"rename", "cancel", "retire"} :
        at' = [at EXCEPT ![p] = place] /\ (place = "retire" => claim # 0 /\ ~Busy)
  BY DEF LookAtClaim, Goto
<1>3. place \notin Entering /\ place # "move" /\ place \in Places /\ at[p] \in Owning
  BY DEF LookAtClaim, Entering, Places, Owning
<1>4. place \in Retiring => place = "retire"
  BY <1>2 DEF Retiring
<1>5. /\ at'[p] = place /\ seen'[p] = claim
      /\ \A q \in Procs : q # p => at'[q] = at[q] /\ seen'[q] = seen[q]
  BY <1>1, <1>2 DEF Processes
<1>6. Directory' /\ Processes'
  BY <1>1, <1>2, <1>3 DEF Directory, Processes
<1>7. OwnOperation'
  BY <1>1, <1>3, <1>5 DEF OwnOperation
<1>8. Reserved'
  BY <1>1, <1>2, <1>4, <1>5 DEF Reserved
<1>9. EnteringIsUnclaimed'
  BY <1>1, <1>3, <1>5 DEF EnteringIsUnclaimed
<1>10. RetiringIsDead'
  BY <1>1, <1>2, <1>4, <1>5 DEF RetiringIsDead, Busy
<1>11. MovesWhatItSaw'
  BY <1>1, <1>3, <1>5 DEF MovesWhatItSaw
<1>12. QED
  BY <1>6, <1>7, <1>8, <1>9, <1>10, <1>11

LEMMA RetireKeeps ==
  ASSUME UpdInv, NEW p \in Procs, RetireActiveClaim(p)
  PROVE  UpdInv'
<1> USE DEF UpdInv
<1>1. UNCHANGED <<op, lease, claim, retired, gen, seen>>
  BY DEF RetireActiveClaim, cacheDir, locals
<1>2. PICK place \in {"move", "promote", "cancel"} :
        at' = [at EXCEPT ![p] = place] /\ (place = "move" => claim = seen[p])
  BY DEF RetireActiveClaim, Again, Goto
<1>3. /\ place \notin Entering /\ place \in Places
      /\ at[p] \in Owning /\ at[p] \in Retiring
  BY DEF RetireActiveClaim, Entering, Places, Owning, Retiring
<1>4. at'[p] = place /\ \A q \in Procs : q # p => at'[q] = at[q]
  BY <1>2 DEF Processes
<1>5. Directory' /\ Processes'
  BY <1>1, <1>2, <1>3 DEF Directory, Processes
<1>6. OwnOperation' /\ Reserved'
  BY <1>1, <1>3, <1>4 DEF OwnOperation, Reserved
<1>7. EnteringIsUnclaimed' /\ RetiringIsDead'
  BY <1>1, <1>3, <1>4 DEF EnteringIsUnclaimed, RetiringIsDead
<1>8. MovesWhatItSaw'
  BY <1>1, <1>2, <1>4 DEF MovesWhatItSaw
<1>9. QED
  BY <1>5, <1>6, <1>7, <1>8

(* What is moved is the claim that was seen; whoever else is about to move *)
(* it finds its place in retired taken.                                    *)
LEMMA MoveKeeps ==
  ASSUME UpdInv, NEW p \in Procs, MoveClaim(p)
  PROVE  UpdInv' /\ (Busy => claim' = claim)
<1> USE DEF UpdInv
<1>1. UNCHANGED <<op, lease, gen, seen>> /\ at[p] = "move"
  BY DEF MoveClaim, locals
<1>2. PICK place \in {"promote", "cancel"} : at' = [at EXCEPT ![p] = place]
  BY DEF MoveClaim, Again, Goto
<1>3. /\ place \notin Entering /\ place \notin Retiring /\ place # "move" /\ place \in Places
      /\ at[p] \in Owning /\ at[p] \in Retiring
  BY <1>1 DEF Entering, Retiring, Places, Owning
<1>4. at'[p] = place /\ \A q \in Procs : q # p => at'[q] = at[q]
  BY <1>2 DEF Processes
<1>5. seen[p] \in Generations
  BY <1>3, UpdateAssumption DEF Processes, Reserved, Generations
<1>6. CASE claim # 0 /\ retired[seen[p]] = 0
  <2>1. claim' = 0 /\ retired' = [retired EXCEPT ![seen[p]] = claim]
    BY <1>6 DEF MoveClaim
  <2>2. claim = seen[p]
    BY <1>1, <1>6 DEF MovesWhatItSaw
  <2>3. ~Busy
    BY <1>3, <2>2 DEF RetiringIsDead, Busy
  <2>4. Directory' /\ Processes'
    <3>1. 0 \in 0..MaxGeneration
      BY UpdateAssumption
    <3>2. Directory'
      BY <1>1, <2>1, <3>1 DEF Directory
    <3>3. Processes'
      BY <1>1, <1>2, <1>3 DEF Processes
    <3>4. QED
      BY <3>2, <3>3
  <2>5. OwnOperation' /\ Reserved'
    BY <1>1, <1>3, <1>4, <2>1 DEF OwnOperation, Reserved
  <2>6. EnteringIsUnclaimed'
    <3>1. \A q \in Procs : at'[q] \in Entering => gen[q] # 0
      BY <1>3, <1>4 DEF OwnOperation, Entering, Owning
    <3>2. QED
      BY <1>1, <1>3, <1>4, <2>1, <3>1 DEF EnteringIsUnclaimed
  <2>7. RetiringIsDead'
    BY <1>1, <1>3, <1>4 DEF RetiringIsDead
  <2>8. MovesWhatItSaw'
    <3>1. SUFFICES ASSUME NEW q \in Procs, at'[q] = "move", retired'[seen'[q]] = 0 PROVE FALSE
      BY DEF MovesWhatItSaw
    <3>2. q # p /\ at[q] = "move" /\ seen'[q] = seen[q]
      BY <1>1, <1>3, <1>4, <3>1
    <3>3. seen[q] \in Generations
      BY <3>2, UpdateAssumption DEF Processes, Reserved, Generations, Retiring
    <3>4. CASE seen[q] = seen[p]
      <4>1. retired'[seen[q]] = claim
        BY <1>5, <2>1, <3>4 DEF Directory
      <4>2. QED
        BY <1>6, <3>1, <3>2, <4>1
    <3>5. CASE seen[q] # seen[p]
      <4>1. retired[seen[q]] = 0
        BY <2>1, <3>1, <3>2, <3>3, <3>5 DEF Directory
      <4>2. claim = seen[q]
        BY <3>2, <4>1 DEF MovesWhatItSaw
      <4>3. QED
        BY <2>2, <3>5, <4>2
    <3>6. QED
      BY <3>4, <3>5
  <2>9. QED
    BY <2>3, <2>4, <2>5, <2>6, <2>7, <2>8
<1>7. CASE ~(claim # 0 /\ retired[seen[p]] = 0)
  <2>1. UNCHANGED <<claim, retired>>
    BY <1>7 DEF MoveClaim
  <2>2. Directory' /\ Processes'
    BY <1>1, <1>2, <1>3, <2>1 DEF Directory, Processes
  <2>3. OwnOperation' /\ Reserved'
    BY <1>1, <1>3, <1>4, <2>1 DEF OwnOperation, Reserved
  <2>4. EnteringIsUnclaimed' /\ RetiringIsDead'
    BY <1>1, <1>3, <1>4, <2>1 DEF EnteringIsUnclaimed, RetiringIsDead
  <2>5. MovesWhatItSaw'
    BY <1>1, <1>3, <1>4, <2>1 DEF MovesWhatItSaw
  <2>6. QED
    BY <2>1, <2>2, <2>3, <2>4, <2>5
<1>8. QED
  BY <1>6, <1>7

LEMMA RenameKeeps ==
  ASSUME UpdInv, NEW p \in Procs, RenameClaim(p)
  PROVE  UpdInv' /\ (Busy => claim' = claim)
<1> USE DEF UpdInv
<1>1. UNCHANGED <<op, lease, retired, gen, seen>> /\ at[p] = "rename"
  BY DEF RenameClaim, locals
<1>2. PICK place \in {"live", "promote", "cancel"} : at' = [at EXCEPT ![p] = place]
  BY DEF RenameClaim, Again, Goto
<1>3. /\ place \notin Entering /\ place \notin Retiring /\ place # "move" /\ place \in Places
      /\ at[p] \in Owning
  BY <1>1 DEF Entering, Retiring, Places, Owning
<1>4. at'[p] = place /\ \A q \in Procs : q # p => at'[q] = at[q]
  BY <1>2 DEF Processes
<1>5. claim' = claim \/ (claim = 0 /\ claim' = gen[p])
  BY DEF RenameClaim
<1>6. Busy => claim' = claim
  BY <1>5 DEF Busy
<1>7. gen[p] # 0 /\ gen[p] \in 0..MaxGeneration
  BY <1>3 DEF OwnOperation, Processes
<1>8. Directory' /\ Processes'
  BY <1>1, <1>2, <1>3, <1>5, <1>7 DEF Directory, Processes
<1>9. OwnOperation'
  BY <1>1, <1>3, <1>4 DEF OwnOperation
<1>10. Reserved'
  BY <1>1, <1>3, <1>4, <1>5, <1>7 DEF Reserved
<1>11. EnteringIsUnclaimed'
  <2>1. \A q \in Procs : at'[q] \in Entering => q # p /\ gen[q] # gen[p]
    BY <1>3, <1>4, <1>7 DEF OwnOperation
  <2>2. QED
    BY <1>1, <1>3, <1>4, <1>5, <2>1 DEF EnteringIsUnclaimed
<1>12. RetiringIsDead'
  BY <1>1, <1>3, <1>4 DEF RetiringIsDead
<1>13. MovesWhatItSaw'
  <2>1. \A q \in Procs : at[q] = "move" => seen[q] # 0
    BY DEF Reserved, Retiring
  <2>2. QED
    BY <1>1, <1>3, <1>4, <1>5, <2>1 DEF MovesWhatItSaw
<1>14. QED
  BY <1>6, <1>8, <1>9, <1>10, <1>11, <1>12, <1>13

-----------------------------------------------------------------------------
(* Only MoveClaim and RenameClaim change the claim.                        *)
LEMMA StepKeeps ==
  ASSUME UpdInv, UpdNext
  PROVE  UpdInv' /\ (Busy => claim' = claim)
<1>1. CASE \E p \in Procs : Reading(p)
  <2>1. claim' = claim
    BY <1>1 DEF Reading, CheckForUpdate, FreshStateResult, CheckIsDue, AcknowledgeUpdate,
       InspectActiveClaim, ListPending, HasActivePending, IsSuperseded, IsLive, Reread, MayFetch,
       FetchCandidate, MayFence, ListLower, MayDecide, Decide, WasFenced, AnswerAfterLosing,
       WaitUntilRetry, Abandon, cacheDir
  <2>2. QED
    BY <1>1, <2>1, ReadingKeeps
<1>2. CASE \E p \in Procs : MakePending(p) \/ WriteOwner(p)
  <2>1. claim' = claim
    BY <1>2 DEF MakePending, WriteOwner
  <2>2. QED
    BY <1>2, <2>1, EnterKeeps
<1>3. CASE \E p \in Procs : LookAtClaim(p) \/ RetireActiveClaim(p)
  <2>1. claim' = claim
    BY <1>3 DEF LookAtClaim, RetireActiveClaim, cacheDir
  <2>2. QED
    BY <1>3, <2>1, LookKeeps, RetireKeeps
<1>4. CASE \E p \in Procs : MoveClaim(p) \/ RenameClaim(p)
  BY <1>4, MoveKeeps, RenameKeeps
<1>5. CASE \E p \in Procs : Commit(p) \/ CancelOperation(p)
  <2>1. claim' = claim
    BY <1>5 DEF Commit, CancelOperation
  <2>2. QED
    BY <1>5, <2>1, CommitKeeps, CancelKeeps
<1>6. CASE \E p \in Procs, g \in Generations : ReserveOperation(p, g) \/ FenceLower(p, g)
  <2>1. claim' = claim
    BY <1>6 DEF ReserveOperation, FenceLower
  <2>2. QED
    BY <1>6, <2>1, ReserveKeeps, FenceKeeps
<1>7. CASE \E g \in Generations : LeaseEnds(g)
  <2>1. claim' = claim
    BY <1>7 DEF LeaseEnds
  <2>2. QED
    BY <1>7, <2>1, LeaseEndsKeeps
<1>8. QED
  BY <1>1, <1>2, <1>3, <1>4, <1>5, <1>6, <1>7 DEF UpdNext, Reading

LEMMA StutterKeeps ==
  ASSUME UpdInv, UNCHANGED updVars
  PROVE  UpdInv' /\ claim' = claim
BY DEF UpdInv, updVars, Directory, Processes, OwnOperation, Reserved, EnteringIsUnclaimed,
   RetiringIsDead, MovesWhatItSaw

(* The invariant of the claims: numbers belong to one process and are      *)
(* fresh, an operation is claimed only after its owner was written, and a  *)
(* process that retires a claim has seen a dead one (promoteOperationClaim *)
(* and retireActiveClaim).                                                 *)
THEOREM ClaimsInvariant == UpdSpec => []UpdInv
<1>1. UpdInv /\ [UpdNext]_updVars => UpdInv'
  BY StepKeeps, StutterKeeps
<1>2. QED
  BY <1>1, UpdInitially, PTL DEF UpdSpec

(* A claim whose owner is alive is never taken from it, for any number of  *)
(* processes, although the rename of retireActiveClaim acts on a name and  *)
(* not on the directory that was inspected.                                *)
THEOREM LiveClaimIsKept == UpdSpec => LiveClaimStays
<1>1. UpdInv /\ [UpdNext]_updVars => [Busy => claim' = claim]_updVars
  BY StepKeeps, StutterKeeps
<1>2. QED
  BY <1>1, ClaimsInvariant, PTL DEF UpdSpec, LiveClaimStays

-----------------------------------------------------------------------------
(* The refinement.  An operation past the test "newest" was the last one   *)
(* reserved, so that a process sees, when it lists the lower operations,   *)
(* every one that could still commit; it has fenced them all before it     *)
(* reads the cache it changes, and a higher one that commits first fences  *)
(* its own.                                                                *)

Passed == {"promote", "look", "retire", "move", "rename", "live", "reread", "own1", "own2",
           "fetch", "own", "fence", "fencing", "decide", "commit"}
Fencing == {"fencing", "decide", "commit"}
Checking == {"idle", "start", "reread", "own1", "own2", "fetch"}

CallTypes ==
  /\ DOMAIN saved = 0..MaxGeneration /\ DOMAIN next = Procs /\ DOMAIN todo = Procs
  /\ target \in [Procs -> Digests \union {None}] /\ acking \in [Procs -> BOOLEAN]

AcksNameReleases ==
  \A p \in Procs :
    /\ acking[p] => target[p] \in Digests
    /\ at[p] \in Checking => ~acking[p]

HasLatest == \E g \in 0..MaxGeneration : IsLatest(g)

Runs(p) == at[p] \in Passed /\ op[gen[p]] = "pending"

PassedIsNewest ==
  \A p \in Procs : Runs(p) =>
    \A h \in 0..MaxGeneration : op[h] = "committed" => h < gen[p]

LowerIsFenced ==
  \A p, q \in Procs :
    at[p] \in Fencing /\ Runs(q) /\ gen[q] < gen[p] => at[p] = "fencing" /\ gen[q] \in todo[p]

DecisionIsCurrent ==
  \A p \in Procs : at[p] = "commit" /\ op[gen[p]] = "pending" => next[p] = Wanted(p) /\ Acceptable(p)

NewIsUncommitted == \A p \in Procs : at[p] = "reserved" => op[gen[p]] # "committed"

CommitInv ==
  HasLatest /\ PassedIsNewest /\ LowerIsFenced /\ DecisionIsCurrent /\ NewIsUncommitted
CallInv == CallTypes /\ AcksNameReleases

-----------------------------------------------------------------------------
LEMMA LatestNow ==
  ASSUME NEW g \in 0..MaxGeneration, IsLatest(g)
  PROVE  Latest = g
<1>1. /\ Latest \in 0..MaxGeneration /\ op[Latest] = "committed"
      /\ \A h \in 0..MaxGeneration : op[h] = "committed" => h <= Latest
  BY DEF Latest, IsLatest
<1>2. QED
  BY <1>1, UpdateAssumption DEF IsLatest

LEMMA LatestThen ==
  ASSUME NEW g \in 0..MaxGeneration, IsLatest(g)'
  PROVE  Latest' = g
<1>1. /\ Latest' \in 0..MaxGeneration /\ op'[Latest'] = "committed"
      /\ \A h \in 0..MaxGeneration : op'[h] = "committed" => h <= Latest'
  BY DEF Latest, IsLatest
<1>2. QED
  BY <1>1, UpdateAssumption DEF IsLatest

(* The cache is the same as long as the same operations are committed.     *)
SameCommits ==
  /\ \A g \in 0..MaxGeneration : op'[g] = "committed" <=> op[g] = "committed"
  /\ saved' = saved

LEMMA CacheStands ==
  ASSUME HasLatest, SameCommits
  PROVE  HasLatest' /\ ReadState' = ReadState
<1>1. PICK g \in 0..MaxGeneration : IsLatest(g)
  BY DEF HasLatest
<1>2. IsLatest(g)'
  BY <1>1 DEF IsLatest, SameCommits
<1>3. Latest = g /\ Latest' = g
  BY <1>1, <1>2, LatestNow, LatestThen
<1>4. QED
  BY <1>2, <1>3 DEF HasLatest, ReadState, SameCommits

-----------------------------------------------------------------------------
(* What a step of p that commits nothing has to respect: the others stand  *)
(* still, p passes the test of the newest only as the newest, and p fences *)
(* and decides by what is there.                                           *)
OthersStand(p) ==
  \A q \in Procs : q # p =>
    /\ at'[q] = at[q] /\ gen'[q] = gen[q] /\ todo'[q] = todo[q]
    /\ next'[q] = next[q] /\ target'[q] = target[q] /\ acking'[q] = acking[q]
    /\ op'[gen[q]] = "pending" => op[gen[q]] = "pending"

PassesAsNewest(p) ==
  Runs(p)' =>
    /\ gen'[p] = gen[p] /\ op[gen[p]] = "pending"
    /\ at[p] \in Passed \/ (at[p] = "newest" /\ ~Superseded(p))

FencesAll(p) ==
  at'[p] \in Fencing =>
    /\ gen'[p] = gen[p] /\ gen[p] # 0
    /\ \A q \in Procs :
         Runs(q) /\ Runs(q)' /\ gen[q] < gen[p] => at'[p] = "fencing" /\ gen[q] \in todo'[p]

StartsNew(p) == at'[p] = "reserved" => op'[gen'[p]] # "committed"
DecidesNow(p) == at'[p] = "commit" => next'[p] = Wanted(p)' /\ Acceptable(p)'

LEMMA GuardsStand ==
  ASSUME UpdInv, CommitInv, NEW p \in Procs, SameCommits, OthersStand(p), PassesAsNewest(p),
         FencesAll(p), DecidesNow(p), StartsNew(p)
  PROVE  CommitInv' /\ ReadState' = ReadState
<1> USE DEF CommitInv
<1>1. HasLatest' /\ ReadState' = ReadState
  BY CacheStands
<1>2. ASSUME NEW q \in Procs, Runs(q)'
      PROVE  /\ gen'[q] = gen[q] /\ op[gen[q]] = "pending"
             /\ Runs(q) \/ (at[q] = "newest" /\ ~Superseded(q))
  BY <1>2 DEF Runs, OthersStand, PassesAsNewest
<1>3. PassedIsNewest'
  <2>1. SUFFICES ASSUME NEW q \in Procs, Runs(q)',
                        NEW h \in 0..MaxGeneration, op'[h] = "committed"
                 PROVE  h < gen'[q]
    BY DEF PassedIsNewest
  <2>2. op[h] = "committed"
    BY <2>1 DEF SameCommits
  <2>3. CASE Runs(q)
    BY <1>2, <2>1, <2>2, <2>3 DEF PassedIsNewest
  <2>4. CASE at[q] = "newest" /\ ~Superseded(q)
    <3>1. gen[q] \in 0..MaxGeneration /\ gen[q] # 0 /\ h # gen[q]
      BY <1>2, <2>1, <2>2, <2>4 DEF UpdInv, Processes, OwnOperation, Owning
    <3>2. h \in Generations => ~(h > gen[q])
      BY <2>2, <2>4 DEF Superseded
    <3>3. QED
      BY <1>2, <2>1, <3>1, <3>2, UpdateAssumption DEF Generations
  <2>5. QED
    BY <1>2, <2>1, <2>3, <2>4
<1>4. LowerIsFenced'
  <2>1. SUFFICES ASSUME NEW r \in Procs, NEW q \in Procs,
                        at'[r] \in Fencing, Runs(q)', gen'[q] < gen'[r]
                 PROVE  at'[r] = "fencing" /\ gen'[q] \in todo'[r]
    BY DEF LowerIsFenced
  <2>2. gen'[r] = gen[r] /\ gen[r] # 0
    <3>1. CASE r = p
      BY <2>1, <3>1 DEF FencesAll
    <3>2. CASE r # p
      BY <2>1, <3>2 DEF OthersStand, UpdInv, OwnOperation, Fencing, Owning
    <3>3. QED
      BY <3>1, <3>2
  <2>3. gen'[q] = gen[q] /\ Runs(q)
    <3>1. gen[r] \in Generations /\ op[gen[r]] # "none"
      BY <2>2, UpdateAssumption DEF UpdInv, Processes, Reserved, Generations
    <3>2. gen'[q] = gen[q]
      BY <1>2, <2>1
    <3>3. gen[r] > gen[q]
      BY <2>1, <2>2, <3>2, <3>1, UpdateAssumption DEF UpdInv, Processes, Generations
    <3>4. Superseded(q)
      BY <3>1, <3>3 DEF Superseded
    <3>5. QED
      BY <1>2, <2>1, <3>2, <3>4
  <2>4. CASE r = p
    BY <2>1, <2>2, <2>3, <2>4 DEF FencesAll
  <2>5. CASE r # p
    <3>1. at'[r] = at[r] /\ todo'[r] = todo[r]
      BY <2>5 DEF OthersStand
    <3>2. QED
      BY <2>1, <2>2, <2>3, <3>1 DEF LowerIsFenced
  <2>6. QED
    BY <2>4, <2>5
<1>5. DecisionIsCurrent'
  <2>1. SUFFICES ASSUME NEW q \in Procs, at'[q] = "commit", op'[gen'[q]] = "pending"
                 PROVE  next'[q] = Wanted(q)' /\ Acceptable(q)'
    BY DEF DecisionIsCurrent
  <2>2. CASE q = p
    BY <2>1, <2>2 DEF DecidesNow
  <2>3. CASE q # p
    <3>1. /\ at[q] = "commit" /\ op[gen[q]] = "pending"
          /\ next'[q] = next[q] /\ target'[q] = target[q] /\ acking'[q] = acking[q]
      BY <2>1, <2>3 DEF OthersStand
    <3>2. next[q] = Wanted(q) /\ Acceptable(q)
      BY <3>1 DEF DecisionIsCurrent
    <3>3. Wanted(q)' = Wanted(q)
      BY <1>1, <3>1 DEF Wanted
    <3>4. Acceptable(q)'
      BY <1>1, <3>1, <3>2, <3>3 DEF Acceptable
    <3>5. QED
      BY <3>1, <3>2, <3>3, <3>4
  <2>4. QED
    BY <2>2, <2>3
<1>6. NewIsUncommitted'
  BY DEF NewIsUncommitted, StartsNew, OthersStand, SameCommits, UpdInv, Processes
<1>7. QED
  BY <1>1, <1>3, <1>4, <1>5, <1>6

-----------------------------------------------------------------------------
(* Most steps do not fence: their process goes elsewhere.                  *)
Changes(p, before, after) == after = before \/ \E x : after = [before EXCEPT ![p] = x]

LocalStep(p) ==
  /\ Changes(p, gen, gen') /\ Changes(p, todo, todo') /\ Changes(p, next, next')
  /\ acking' = acking \/ \E b \in BOOLEAN : acking' = [acking EXCEPT ![p] = b]
  /\ target' = target \/ \E d \in Digests \union {None} : target' = [target EXCEPT ![p] = d]

AsksProperly(p) ==
  /\ acking'[p] => target'[p] \in Digests
  /\ at'[p] \in Checking => ~acking'[p]

LEMMA LocalStepStands ==
  ASSUME Processes, CallInv, NEW p \in Procs, LocalStep(p), NEW place, Goto(p, place)
  PROVE  /\ at'[p] = place
         /\ \A q \in Procs : q # p =>
              /\ at'[q] = at[q] /\ gen'[q] = gen[q] /\ todo'[q] = todo[q]
              /\ next'[q] = next[q] /\ target'[q] = target[q] /\ acking'[q] = acking[q]
<1> USE DEF CallInv, CallTypes, Processes
<1>1. at'[p] = place /\ \A q \in Procs : q # p => at'[q] = at[q]
  BY DEF Goto
<1>2. \A q \in Procs : q # p => gen'[q] = gen[q]
  BY DEF LocalStep, Changes
<1>3. \A q \in Procs : q # p => todo'[q] = todo[q] /\ next'[q] = next[q]
  BY DEF LocalStep, Changes
<1>4. \A q \in Procs : q # p => target'[q] = target[q] /\ acking'[q] = acking[q]
  BY DEF LocalStep
<1>5. QED
  BY <1>1, <1>2, <1>3, <1>4

LEMMA CallsStand ==
  ASSUME Processes, CallInv, NEW p \in Procs, LocalStep(p), NEW place, Goto(p, place),
         DOMAIN saved' = DOMAIN saved, AsksProperly(p)
  PROVE  CallInv'
<1>1. CallTypes'
  <2>1. DOMAIN next' = Procs /\ DOMAIN todo' = Procs
    BY DEF LocalStep, Changes, CallInv, CallTypes
  <2>2. target' \in [Procs -> Digests \union {None}]
    BY DEF LocalStep, CallInv, CallTypes
  <2>3. acking' \in [Procs -> BOOLEAN]
    BY DEF LocalStep, CallInv, CallTypes
  <2>4. QED
    BY <2>1, <2>2, <2>3 DEF CallInv, CallTypes
<1>2. AcksNameReleases'
  BY LocalStepStands DEF AcksNameReleases, AsksProperly, CallInv
<1>3. QED
  BY <1>1, <1>2 DEF CallInv

LEMMA QuietStep ==
  ASSUME UpdInv, CallInv, CommitInv, NEW p \in Procs, LocalStep(p), AsksProperly(p),
         NEW place, Goto(p, place), place \notin Fencing, SameCommits, StartsNew(p),
         \A q \in Procs : q # p => (op'[gen[q]] = "pending" => op[gen[q]] = "pending"),
         place \in Passed =>
           /\ gen' = gen /\ (op'[gen[p]] = "pending" => op[gen[p]] = "pending")
           /\ at[p] \in Passed \/ (at[p] = "newest" /\ ~Superseded(p))
  PROVE  CallInv' /\ CommitInv' /\ ReadState' = ReadState
<1>1. /\ at'[p] = place
      /\ \A q \in Procs : q # p =>
           /\ at'[q] = at[q] /\ gen'[q] = gen[q] /\ todo'[q] = todo[q]
           /\ next'[q] = next[q] /\ target'[q] = target[q] /\ acking'[q] = acking[q]
  BY LocalStepStands DEF UpdInv
<1>2. OthersStand(p)
  BY <1>1 DEF OthersStand
<1>3. PassesAsNewest(p)
  BY <1>1 DEF PassesAsNewest, Runs
<1>4. FencesAll(p) /\ DecidesNow(p)
  BY <1>1 DEF FencesAll, DecidesNow, Fencing
<1>5. CommitInv' /\ ReadState' = ReadState
  BY <1>2, <1>3, <1>4, GuardsStand
<1>6. CallInv'
  BY CallsStand DEF UpdInv, SameCommits
<1>7. QED
  BY <1>5, <1>6

LEMMA ReadingLocal ==
  ASSUME NEW p \in Procs, Reading(p)
  PROVE  LocalStep(p) /\ UNCHANGED <<op, saved>>
<1>1. UNCHANGED <<op, saved>>
  BY DEF Reading, CheckForUpdate, FreshStateResult, CheckIsDue, AcknowledgeUpdate,
     InspectActiveClaim, ListPending, HasActivePending, IsSuperseded, IsLive, Reread, MayFetch,
     FetchCandidate, MayFence, ListLower, MayDecide, Decide, WasFenced, AnswerAfterLosing,
     WaitUntilRetry, Abandon, cacheDir
<1>2. CASE FreshStateResult(p) \/ AnswerAfterLosing(p) \/ WasFenced(p)
  BY <1>1, <1>2 DEF FreshStateResult, AnswerAfterLosing, WasFenced, Return, LocalStep, Changes, locals
<1>3. CASE Abandon(p) \/ WaitUntilRetry(p)
  BY <1>1, <1>3 DEF Abandon, WaitUntilRetry, Return, LocalStep, Changes, locals
<1>4. CASE \/ CheckForUpdate(p) \/ CheckIsDue(p) \/ InspectActiveClaim(p)
           \/ IsSuperseded(p, "newest", "promote") \/ IsSuperseded(p, "promote", "look")
           \/ IsLive(p) \/ Reread(p) \/ MayFetch(p, "own1", "own2") \/ MayFetch(p, "own2", "fetch")
           \/ MayFence(p) \/ MayDecide(p)
  BY <1>1, <1>4 DEF CheckForUpdate, CheckIsDue, InspectActiveClaim, IsSuperseded, IsLive, Reread,
     MayFetch, MayFence, MayDecide, LocalStep, Changes, locals
<1>5. CASE \E d \in Digests : AcknowledgeUpdate(p, d)
  BY <1>1, <1>5 DEF AcknowledgeUpdate, LocalStep, Changes
<1>6. CASE \E d \in Digests \union {None} : FetchCandidate(p, d)
  BY <1>1, <1>6 DEF FetchCandidate, LocalStep, Changes
<1>7. CASE ListPending(p) \/ HasActivePending(p) \/ ListLower(p) \/ Decide(p)
  BY <1>1, <1>7 DEF ListPending, HasActivePending, ListLower, Decide, LocalStep, Changes
<1>8. QED
  BY <1>1, <1>2, <1>3, <1>4, <1>5, <1>6, <1>7 DEF Reading

LEMMA ReadingAsks ==
  ASSUME Processes, CallInv, NEW p \in Procs, Reading(p)
  PROVE  AsksProperly(p)
<1> USE DEF CallInv, CallTypes, AcksNameReleases, Processes, AsksProperly, Checking
<1>1. CASE FreshStateResult(p) \/ AnswerAfterLosing(p) \/ WasFenced(p)
  BY <1>1 DEF FreshStateResult, AnswerAfterLosing, WasFenced, Return, Goto, locals
<1>2. CASE Abandon(p) \/ WaitUntilRetry(p)
  BY <1>2 DEF Abandon, WaitUntilRetry, Return, Goto, locals
<1>3. CASE \/ CheckForUpdate(p) \/ CheckIsDue(p) \/ InspectActiveClaim(p)
           \/ IsSuperseded(p, "newest", "promote") \/ IsSuperseded(p, "promote", "look")
  BY <1>3 DEF CheckForUpdate, CheckIsDue, InspectActiveClaim, IsSuperseded, Goto, locals
<1>4. CASE \/ IsLive(p) \/ Reread(p) \/ MayFetch(p, "own1", "own2") \/ MayFetch(p, "own2", "fetch")
           \/ MayFence(p) \/ MayDecide(p)
  BY <1>4 DEF IsLive, Reread, MayFetch, MayFence, MayDecide, Goto, locals
<1>5. CASE \E d \in Digests : AcknowledgeUpdate(p, d)
  BY <1>5 DEF AcknowledgeUpdate, Goto
<1>6. CASE \E d \in Digests \union {None} : FetchCandidate(p, d)
  BY <1>6 DEF FetchCandidate, Goto
<1>7. CASE ListPending(p) \/ HasActivePending(p) \/ ListLower(p) \/ Decide(p)
  BY <1>7 DEF ListPending, HasActivePending, ListLower, Decide, Goto
<1>8. QED
  BY <1>1, <1>2, <1>3, <1>4, <1>5, <1>6, <1>7 DEF Reading

LEMMA ReadingPlace ==
  ASSUME Processes, NEW p \in Procs, Reading(p), ~(ListLower(p) \/ MayDecide(p) \/ Decide(p))
  PROVE  \E place \in Places \ (Fencing \union {"reserved"}) :
           /\ Goto(p, place)
           /\ place \in Passed =>
                /\ gen' = gen
                /\ at[p] \in Passed \/ (at[p] = "newest" /\ ~Superseded(p))
<1> USE DEF Passed, Places, Fencing
<1>1. CASE CheckForUpdate(p) \/ FreshStateResult(p) \/ CheckIsDue(p)
  BY <1>1 DEF CheckForUpdate, FreshStateResult, CheckIsDue, Return, Goto
<1>2. CASE \E d \in Digests : AcknowledgeUpdate(p, d)
  BY <1>2 DEF AcknowledgeUpdate, Goto
<1>3. CASE InspectActiveClaim(p) \/ ListPending(p) \/ HasActivePending(p)
  BY <1>3 DEF InspectActiveClaim, ListPending, HasActivePending, Goto
<1>4. CASE IsSuperseded(p, "newest", "promote") \/ IsSuperseded(p, "promote", "look")
  BY <1>4 DEF IsSuperseded, Goto, locals
<1>5. CASE IsLive(p) \/ Reread(p)
  BY <1>5 DEF IsLive, Reread, Goto, locals
<1>6. CASE MayFetch(p, "own1", "own2") \/ MayFetch(p, "own2", "fetch")
  BY <1>6 DEF MayFetch, Goto, locals
<1>7. CASE \E d \in Digests \union {None} : FetchCandidate(p, d)
  BY <1>7 DEF FetchCandidate, Goto
<1>8. CASE MayFence(p)
  BY <1>8 DEF MayFence, Goto, locals
<1>9. CASE WasFenced(p) \/ AnswerAfterLosing(p) \/ WaitUntilRetry(p)
  BY <1>9 DEF WasFenced, AnswerAfterLosing, WaitUntilRetry, Return, Goto
<1>10. CASE Abandon(p)
  BY <1>10 DEF Abandon, Return, Goto
<1>11. QED
  BY <1>1, <1>2, <1>3, <1>4, <1>5, <1>6, <1>7, <1>8, <1>9, <1>10 DEF Reading

LEMMA ReadingGuards ==
  ASSUME UpdInv, CallInv, CommitInv, NEW p \in Procs, Reading(p),
         ~(ListLower(p) \/ MayDecide(p) \/ Decide(p))
  PROVE  CallInv' /\ CommitInv' /\ ReadState' = ReadState
<1>1. LocalStep(p) /\ AsksProperly(p) /\ UNCHANGED <<op, saved>>
  BY ReadingLocal, ReadingAsks DEF UpdInv
<1>2. SameCommits
  BY <1>1 DEF SameCommits
<1>3. PICK place \in Places \ (Fencing \union {"reserved"}) :
        /\ Goto(p, place)
        /\ place \in Passed =>
             /\ gen' = gen
             /\ at[p] \in Passed \/ (at[p] = "newest" /\ ~Superseded(p))
  BY ReadingPlace DEF UpdInv
<1>4. StartsNew(p)
  BY <1>3 DEF StartsNew, Goto, UpdInv, Processes
<1>5. QED
  BY <1>1, <1>2, <1>3, <1>4, QuietStep

(* The operations that could commit before this one are listed, fenced,    *)
(* and then the cache is read.                                             *)
LEMMA FencingGuards ==
  ASSUME UpdInv, CallInv, CommitInv, NEW p \in Procs, ListLower(p) \/ MayDecide(p) \/ Decide(p)
  PROVE  CallInv' /\ CommitInv' /\ ReadState' = ReadState
<1>1. Reading(p) /\ at[p] \in Passed /\ at[p] \in Owning
  BY DEF Reading, ListLower, MayDecide, Decide, Passed, Owning
<1>2. LocalStep(p) /\ AsksProperly(p) /\ UNCHANGED <<op, saved>>
  BY <1>1, ReadingLocal, ReadingAsks DEF UpdInv
<1>3. SameCommits
  BY <1>2 DEF SameCommits
<1>4. UNCHANGED <<gen, target, acking>>
  BY DEF ListLower, MayDecide, Decide, locals
<1>5. \E place : Goto(p, place)
  BY DEF ListLower, MayDecide, Decide
<1>6. \A q \in Procs : q # p =>
        /\ at'[q] = at[q] /\ gen'[q] = gen[q] /\ todo'[q] = todo[q]
        /\ next'[q] = next[q] /\ target'[q] = target[q] /\ acking'[q] = acking[q]
  BY <1>2, <1>5, LocalStepStands DEF UpdInv
<1>7. OthersStand(p)
  BY <1>2, <1>6 DEF OthersStand
<1>8. PassesAsNewest(p)
  BY <1>1, <1>2, <1>4 DEF PassesAsNewest, Runs
<1>9. \A q \in Procs : Runs(q) => gen[q] \in Generations /\ op[gen[q]] = "pending"
  BY UpdateAssumption DEF Runs, UpdInv, Processes, OwnOperation, Passed, Owning, Generations
<1>10. FencesAll(p)
  <2>1. gen[p] # 0 /\ gen' = gen
    BY <1>1, <1>4 DEF UpdInv, OwnOperation
  <2>2. CASE ListLower(p)
    <3>1. /\ at'[p] = "fencing"
          /\ todo'[p] = {g \in Generations : g < gen[p] /\ op[g] = "pending"}
      BY <2>2 DEF ListLower, Goto, CallInv, CallTypes, UpdInv, Processes
    <3>2. QED
      BY <1>9, <2>1, <3>1 DEF FencesAll
  <2>3. CASE MayDecide(p)
    <3>1. at[p] = "fencing" /\ todo[p] = {} /\ todo' = todo
      BY <2>3 DEF MayDecide, locals
    <3>2. \A q \in Procs : ~(Runs(q) /\ gen[q] < gen[p])
      BY <3>1 DEF CommitInv, LowerIsFenced, Fencing
    <3>3. QED
      BY <2>1, <3>2 DEF FencesAll
  <2>4. CASE Decide(p)
    <3>1. at[p] = "decide"
      BY <2>4 DEF Decide
    <3>2. \A q \in Procs : ~(Runs(q) /\ gen[q] < gen[p])
      BY <3>1 DEF CommitInv, LowerIsFenced, Fencing
    <3>3. QED
      BY <2>1, <3>2 DEF FencesAll
  <2>5. QED
    BY <2>2, <2>3, <2>4
<1>11. DecidesNow(p)
  <2>1. CASE Decide(p)
    <3>1. ReadState' = ReadState
      BY <1>3, CacheStands DEF CommitInv
    <3>2. Wanted(p)' = Wanted(p)
      BY <1>4, <3>1 DEF Wanted
    <3>3. Acceptable(p)' <=> Acceptable(p)
      BY <1>4, <3>1, <3>2 DEF Acceptable
    <3>4. next'[p] = Wanted(p)
      BY <2>1 DEF Decide, CallInv, CallTypes
    <3>5. at'[p] = "commit" => Acceptable(p)
      BY <2>1 DEF Decide, Goto, UpdInv, Processes
    <3>6. QED
      BY <3>2, <3>3, <3>4, <3>5 DEF DecidesNow
  <2>2. CASE ListLower(p) \/ MayDecide(p)
    BY <2>2 DEF ListLower, MayDecide, Goto, DecidesNow, UpdInv, Processes
  <2>3. QED
    BY <2>1, <2>2
<1>12. CommitInv' /\ ReadState' = ReadState
  <2>1. StartsNew(p)
    BY DEF ListLower, MayDecide, Decide, Goto, StartsNew, UpdInv, Processes
  <2>2. QED
    BY <1>3, <1>7, <1>8, <1>10, <1>11, <2>1, GuardsStand
<1>13. CallInv'
  BY <1>2, <1>5, CallsStand DEF UpdInv
<1>14. QED
  BY <1>12, <1>13

-----------------------------------------------------------------------------
(* The steps that write the directory and commit nothing.                  *)

LEMMA EnteringGuards ==
  ASSUME UpdInv, CallInv, CommitInv, NEW p \in Procs,
         (\E g \in Generations : ReserveOperation(p, g)) \/ MakePending(p) \/ WriteOwner(p)
  PROVE  CallInv' /\ CommitInv' /\ ReadState' = ReadState
<1>1. UNCHANGED <<saved, todo, next, target, acking>>
  BY DEF ReserveOperation, MakePending, WriteOwner, locals
<1>2. PICK place \in {"reserved", "owner", "newest", "lost"} : Goto(p, place)
  BY DEF ReserveOperation, MakePending, WriteOwner
<1>3. place \notin Fencing /\ place \notin Passed /\ place \notin Checking
  BY DEF Fencing, Passed, Checking
<1>4. Changes(p, gen, gen')
  BY DEF Changes, ReserveOperation, MakePending, WriteOwner, locals
<1>5. LocalStep(p)
  BY <1>1, <1>4 DEF LocalStep, Changes
<1>6. AsksProperly(p)
  BY <1>1, <1>2, <1>3 DEF AsksProperly, CallInv, AcksNameReleases, Goto, UpdInv, Processes
<1>7. /\ \A g \in 0..MaxGeneration : op'[g] = "committed" <=> op[g] = "committed"
      /\ \A q \in Procs : q # p => (op'[gen[q]] = "pending" => op[gen[q]] = "pending")
  <2>1. CASE \E g \in Generations : ReserveOperation(p, g)
    BY <2>1, UpdateAssumption DEF ReserveOperation, UpdInv, Directory, Processes, Generations
  <2>2. CASE MakePending(p) \/ WriteOwner(p)
    <3>1. at[p] \in Owning
      BY <2>2 DEF MakePending, WriteOwner, Owning
    <3>2. gen[p] # 0 /\ \A q \in Procs : q # p => gen[q] # gen[p]
      BY <3>1 DEF UpdInv, OwnOperation
    <3>3. op' = op \/ op' = [op EXCEPT ![gen[p]] = "pending"]
      BY <2>2 DEF MakePending, WriteOwner
    <3>4. \A g \in 0..MaxGeneration : g # gen[p] => op'[g] = op[g]
      BY <3>3 DEF UpdInv, Directory
    <3>5. op'[gen[p]] = "committed" <=> op[gen[p]] = "committed"
      <4>1. CASE MakePending(p)
        <5>1. op'[gen[p]] = "pending"
          BY <4>1 DEF MakePending, UpdInv, Directory, Processes
        <5>2. op[gen[p]] # "committed"
          BY <4>1 DEF CommitInv, NewIsUncommitted, MakePending
        <5>3. QED
          BY <5>1, <5>2
      <4>2. CASE WriteOwner(p)
        BY <4>2 DEF WriteOwner
      <4>3. QED
        BY <2>2, <4>1, <4>2
    <3>6. QED
      BY <3>2, <3>4, <3>5 DEF UpdInv, Processes
  <2>3. QED
    BY <2>1, <2>2
<1>8. SameCommits
  BY <1>1, <1>7 DEF SameCommits
<1>9. StartsNew(p)
  <2>1. CASE \E g \in Generations : ReserveOperation(p, g)
    BY <2>1, UpdateAssumption DEF ReserveOperation, StartsNew, UpdInv, Directory, Processes,
       Generations
  <2>2. CASE MakePending(p) \/ WriteOwner(p)
    BY <2>2 DEF MakePending, WriteOwner, StartsNew, Goto, UpdInv, Processes
  <2>3. QED
    BY <2>1, <2>2
<1>10. QED
  BY <1>2, <1>3, <1>5, <1>6, <1>7, <1>8, <1>9, QuietStep

LEMMA ClaimingGuards ==
  ASSUME UpdInv, CallInv, CommitInv, NEW p \in Procs,
         LookAtClaim(p) \/ RetireActiveClaim(p) \/ MoveClaim(p) \/ RenameClaim(p)
  PROVE  CallInv' /\ CommitInv' /\ ReadState' = ReadState
<1>1. UNCHANGED <<op, saved, gen, todo, next, target, acking>> /\ at[p] \in Passed
  BY DEF LookAtClaim, RetireActiveClaim, MoveClaim, RenameClaim, locals, cacheDir, Passed
<1>2. PICK place \in {"rename", "cancel", "retire", "move", "promote", "live"} : Goto(p, place)
  BY DEF LookAtClaim, RetireActiveClaim, MoveClaim, RenameClaim, Again
<1>3. place \notin Fencing /\ place \notin Checking /\ place # "reserved"
  BY DEF Fencing, Checking
<1>4. LocalStep(p) /\ SameCommits
  BY <1>1 DEF LocalStep, Changes, SameCommits
<1>5. AsksProperly(p) /\ StartsNew(p)
  BY <1>1, <1>2, <1>3 DEF AsksProperly, StartsNew, CallInv, AcksNameReleases, Goto, UpdInv,
     Processes
<1>6. QED
  BY <1>1, <1>2, <1>3, <1>4, <1>5, QuietStep

LEMMA CancelGuards ==
  ASSUME UpdInv, CallInv, CommitInv, NEW p \in Procs, CancelOperation(p)
  PROVE  CallInv' /\ CommitInv' /\ ReadState' = ReadState
<1>1. saved' = saved
  BY DEF CancelOperation
<1>2. op' = op \/ (op[gen[p]] = "pending" /\ op' = [op EXCEPT ![gen[p]] = "cancelled"])
  BY DEF CancelOperation, Transition
<1>3. /\ \A g \in 0..MaxGeneration : op'[g] = "committed" <=> op[g] = "committed"
      /\ \A g \in 0..MaxGeneration : op'[g] = "pending" => op[g] = "pending"
  BY <1>2 DEF UpdInv, Directory
<1>4. PICK place \in {"lost", "idle"} : Goto(p, place)
  BY DEF CancelOperation, Return
<1>5. place \notin Fencing /\ place \notin Passed /\ place # "reserved"
  BY DEF Fencing, Passed
<1>6. LocalStep(p)
  BY DEF CancelOperation, Return, LocalStep, Changes, locals
<1>7. AsksProperly(p)
  BY DEF CancelOperation, Return, AsksProperly, Goto, locals, CallInv, CallTypes,
     AcksNameReleases, UpdInv, Processes, Checking
<1>8. SameCommits /\ StartsNew(p)
  BY <1>1, <1>3, <1>4, <1>5 DEF SameCommits, StartsNew, Goto, UpdInv, Processes
<1>9. \A q \in Procs : q # p => (op'[gen[q]] = "pending" => op[gen[q]] = "pending")
  BY <1>3 DEF UpdInv, Processes
<1>10. QED
  BY <1>4, <1>5, <1>6, <1>7, <1>8, <1>9, QuietStep

LEMMA FenceGuards ==
  ASSUME UpdInv, CallInv, CommitInv, NEW p \in Procs, NEW g \in Generations, FenceLower(p, g)
  PROVE  CallInv' /\ CommitInv' /\ ReadState' = ReadState
<1>1. /\ UNCHANGED <<saved, at, acking, gen, target, next>> /\ at[p] = "fencing"
      /\ todo' = [todo EXCEPT ![p] = todo[p] \ {g}]
  BY DEF FenceLower
<1>2. g \in 0..MaxGeneration
  BY UpdateAssumption DEF Generations
<1>3. \/ op[g] # "pending" /\ op' = op
      \/ op[g] = "pending" /\ op' = [op EXCEPT ![g] = "fenced"]
  BY DEF FenceLower, Transition
<1>4. /\ \A h \in 0..MaxGeneration : op'[h] = "committed" <=> op[h] = "committed"
      /\ \A h \in 0..MaxGeneration : op'[h] = "pending" => op[h] = "pending"
      /\ op'[g] # "pending"
  BY <1>2, <1>3 DEF UpdInv, Directory
<1>5. SameCommits
  BY <1>1, <1>4 DEF SameCommits
<1>6. /\ todo'[p] = todo[p] \ {g}
      /\ \A q \in Procs : q # p => todo'[q] = todo[q]
  BY <1>1 DEF CallInv, CallTypes
<1>7. OthersStand(p)
  BY <1>1, <1>4, <1>6 DEF OthersStand, UpdInv, Processes
<1>8. PassesAsNewest(p)
  BY <1>1, <1>4 DEF PassesAsNewest, Runs, UpdInv, Processes, Passed
<1>9. FencesAll(p)
  <2>1. gen[p] # 0
    BY <1>1 DEF UpdInv, OwnOperation, Owning
  <2>2. \A q \in Procs : Runs(q) /\ gen[q] < gen[p] => gen[q] \in todo[p]
    BY <1>1 DEF CommitInv, LowerIsFenced, Fencing
  <2>3. \A q \in Procs : Runs(q)' => gen[q] # g
    BY <1>1, <1>4 DEF Runs
  <2>4. QED
    BY <1>1, <1>6, <2>1, <2>2, <2>3 DEF FencesAll
<1>10. DecidesNow(p) /\ StartsNew(p)
  BY <1>1 DEF DecidesNow, StartsNew
<1>11. CommitInv' /\ ReadState' = ReadState
  BY <1>5, <1>7, <1>8, <1>9, <1>10, GuardsStand
<1>12. CallInv'
  BY <1>1 DEF CallInv, CallTypes, AcksNameReleases
<1>13. QED
  BY <1>11, <1>12

(* A lease that ends, and steps that change nothing.                       *)
LEMMA StandingGuards ==
  ASSUME CallInv, CommitInv, UNCHANGED <<op, saved, at, acking, gen, target, todo, next>>
  PROVE  CallInv' /\ CommitInv' /\ ReadState' = ReadState
<1>1. SameCommits
  BY DEF SameCommits
<1>2. HasLatest' /\ ReadState' = ReadState
  BY <1>1, CacheStands DEF CommitInv
<1>3. CallInv'
  BY DEF CallInv, CallTypes, AcksNameReleases
<1>4. PassedIsNewest' /\ LowerIsFenced' /\ NewIsUncommitted'
  BY DEF CommitInv, PassedIsNewest, LowerIsFenced, NewIsUncommitted, Runs
<1>5. ASSUME NEW p \in Procs
      PROVE  Wanted(p)' = Wanted(p) /\ (Acceptable(p)' <=> Acceptable(p))
  BY <1>2 DEF Wanted, Acceptable
<1>6. DecisionIsCurrent'
  BY <1>5 DEF CommitInv, DecisionIsCurrent
<1>7. QED
  BY <1>2, <1>3, <1>4, <1>6 DEF CommitInv

-----------------------------------------------------------------------------
(* The commit: it becomes the latest, what it commits was computed from    *)
(* the cache it replaces, and whoever could still commit has a higher      *)
(* number and has not read the cache yet.                                  *)
LEMMA CommitGuards ==
  ASSUME UpdInv, CallInv, CommitInv, NEW p \in Procs, Commit(p)
  PROVE  /\ CallInv' /\ CommitInv'
         /\ ReadState' = Wanted(p) /\ next[p] = Wanted(p) /\ Acceptable(p)
<1>1. at[p] = "commit"
  BY DEF Commit
<1>2. PICK g \in 0..MaxGeneration : g = gen[p] /\ g # 0
  BY <1>1 DEF UpdInv, Processes, OwnOperation, Owning
<1>3. /\ at[p] = "commit" /\ op[g] = "pending" /\ Runs(p)
      /\ op' = [op EXCEPT ![g] = "committed"] /\ saved' = [saved EXCEPT ![g] = next[p]]
  BY <1>2 DEF Commit, Transition, Runs, Passed
<1>4. LocalStep(p) /\ Goto(p, "idle") /\ AsksProperly(p)
  <2>1. LocalStep(p) /\ Goto(p, "idle")
    BY DEF Commit, Return, LocalStep, Changes
  <2>2. acking'[p] = FALSE
    BY DEF Commit, Return, CallInv, CallTypes
  <2>3. QED
    BY <2>1, <2>2 DEF AsksProperly
<1>5. CallInv'
  BY <1>3, <1>4, CallsStand DEF UpdInv
<1>6. /\ at'[p] = "idle"
      /\ \A q \in Procs : q # p =>
           /\ at'[q] = at[q] /\ gen'[q] = gen[q] /\ todo'[q] = todo[q]
           /\ next'[q] = next[q] /\ target'[q] = target[q] /\ acking'[q] = acking[q]
  BY <1>4, LocalStepStands DEF UpdInv
<1>7. op'[g] = "committed" /\ \A h \in 0..MaxGeneration : h # g => op'[h] = op[h]
  BY <1>3, <1>2 DEF UpdInv, Directory
<1>8. \A h \in 0..MaxGeneration : op[h] = "committed" => h < g
  BY <1>2, <1>3 DEF CommitInv, PassedIsNewest
<1>9. IsLatest(g)'
  BY <1>2, <1>7, <1>8, UpdateAssumption DEF IsLatest
<1>10. next[p] = Wanted(p) /\ Acceptable(p)
  BY <1>2, <1>3 DEF CommitInv, DecisionIsCurrent
<1>11. ReadState' = Wanted(p)
  <2>1. Latest' = g
    BY <1>2, <1>9, LatestThen
  <2>2. saved'[g] = next[p]
    BY <1>3, <1>2 DEF CallInv, CallTypes
  <2>3. QED
    BY <1>10, <2>1, <2>2 DEF ReadState
<1>12. ASSUME NEW q \in Procs, Runs(q)'
       PROVE  q # p /\ Runs(q) /\ gen'[q] = gen[q] /\ g < gen[q]
  <2>1. q # p
    BY <1>6, <1>12 DEF Runs, Passed
  <2>2. gen[q] \in 0..MaxGeneration /\ gen[q] # g
    BY <1>2, <2>1 DEF UpdInv, Processes, OwnOperation
  <2>3. Runs(q) /\ gen'[q] = gen[q]
    BY <1>6, <1>7, <1>12, <2>1, <2>2 DEF Runs
  <2>4. ~(gen[q] < g)
    BY <1>2, <1>3, <2>3 DEF CommitInv, LowerIsFenced, Fencing
  <2>5. QED
    BY <1>2, <2>1, <2>2, <2>3, <2>4, UpdateAssumption
<1>13. HasLatest'
  BY <1>2, <1>9 DEF HasLatest
<1>14. PassedIsNewest'
  <2>1. SUFFICES ASSUME NEW q \in Procs, Runs(q)',
                        NEW h \in 0..MaxGeneration, op'[h] = "committed"
                 PROVE  h < gen'[q]
    BY DEF PassedIsNewest
  <2>2. h <= g
    BY <1>2, <1>7, <1>8, <2>1, UpdateAssumption
  <2>3. g < gen[q] /\ gen'[q] = gen[q] /\ gen[q] \in 0..MaxGeneration
    BY <1>12, <2>1 DEF UpdInv, Processes
  <2>4. QED
    BY <1>2, <2>2, <2>3, UpdateAssumption
<1>15. LowerIsFenced'
  <2>1. SUFFICES ASSUME NEW r \in Procs, NEW q \in Procs,
                        at'[r] \in Fencing, Runs(q)', gen'[q] < gen'[r]
                 PROVE  at'[r] = "fencing" /\ gen'[q] \in todo'[r]
    BY DEF LowerIsFenced
  <2>2. r # p
    BY <1>6, <2>1 DEF Fencing
  <2>3. QED
    BY <1>6, <1>12, <2>1, <2>2 DEF CommitInv, LowerIsFenced
<1>16. DecisionIsCurrent'
  <2>1. SUFFICES ASSUME NEW q \in Procs, at'[q] = "commit", op'[gen'[q]] = "pending"
                 PROVE  FALSE
    BY DEF DecisionIsCurrent
  <2>2. Runs(q)'
    BY <2>1 DEF Runs, Passed
  <2>3. q # p /\ g < gen[q]
    BY <1>12, <2>2
  <2>4. at[q] = "commit"
    BY <1>6, <2>1, <2>3
  <2>5. QED
    BY <1>2, <1>3, <2>3, <2>4 DEF CommitInv, LowerIsFenced, Fencing
<1>17. NewIsUncommitted'
  <2>1. SUFFICES ASSUME NEW q \in Procs, at'[q] = "reserved"
                 PROVE  op'[gen'[q]] # "committed"
    BY DEF NewIsUncommitted
  <2>2. q # p /\ at[q] = "reserved" /\ gen'[q] = gen[q]
    BY <1>6, <2>1
  <2>3. gen[q] \in 0..MaxGeneration /\ gen[q] # g
    BY <1>2, <2>2 DEF UpdInv, Processes, OwnOperation
  <2>4. QED
    BY <1>7, <2>2, <2>3 DEF CommitInv, NewIsUncommitted
<1>18. QED
  BY <1>5, <1>10, <1>11, <1>13, <1>14, <1>15, <1>16, <1>17 DEF CommitInv

-----------------------------------------------------------------------------
(* Every step is one of the cache, or none.                                *)
TellsFromCache(p) ==
  \/ told' = told
  \/ told' = [told EXCEPT ![p] = None]
  \/ told' = [told EXCEPT ![p] = Cache!ResultForCandidate(ReadState)]

LEMMA ReadingTells ==
  ASSUME NEW p \in Procs, Reading(p)
  PROVE  TellsFromCache(p)
<1>1. CASE FreshStateResult(p) \/ AnswerAfterLosing(p) \/ WasFenced(p)
  BY <1>1 DEF FreshStateResult, AnswerAfterLosing, WasFenced, Tell, TellsFromCache
<1>2. CASE Abandon(p) \/ WaitUntilRetry(p)
  BY <1>2 DEF Abandon, WaitUntilRetry, Tell, TellsFromCache
<1>3. CASE \/ CheckForUpdate(p) \/ CheckIsDue(p) \/ InspectActiveClaim(p)
           \/ IsSuperseded(p, "newest", "promote") \/ IsSuperseded(p, "promote", "look")
           \/ IsLive(p) \/ Reread(p) \/ MayFetch(p, "own1", "own2") \/ MayFetch(p, "own2", "fetch")
           \/ MayFence(p) \/ MayDecide(p)
  BY <1>3 DEF CheckForUpdate, CheckIsDue, InspectActiveClaim, IsSuperseded, IsLive, Reread,
     MayFetch, MayFence, MayDecide, Tell, TellsFromCache
<1>4. CASE \/ \E d \in Digests : AcknowledgeUpdate(p, d)
           \/ \E d \in Digests \union {None} : FetchCandidate(p, d)
  BY <1>4 DEF AcknowledgeUpdate, FetchCandidate, Tell, TellsFromCache
<1>5. CASE ListPending(p) \/ HasActivePending(p) \/ ListLower(p) \/ Decide(p)
  BY <1>5 DEF ListPending, HasActivePending, ListLower, Decide, TellsFromCache
<1>6. QED
  BY <1>1, <1>2, <1>3, <1>4, <1>5 DEF Reading

LEMMA AnswerRefines ==
  ASSUME NEW p \in Procs, ReadState' = ReadState, TellsFromCache(p)
  PROVE  [Cache!CacheNext]_(Cache!cacheVars)
BY DEF TellsFromCache, Cache!CacheNext, Cache!cacheVars, Cache!Answer, Cache!Tell

LEMMA CommitRefines ==
  ASSUME CallInv, NEW p \in Procs, ReadState' = Wanted(p), next[p] = Wanted(p), Acceptable(p),
         Tell(p, AnswerAfter(p)) \/ Tell(p, None)
  PROVE  Cache!CacheNext
<1> DEFINE d == target[p]
<1>1. d \in Digests \union {None}
  BY DEF CallInv, CallTypes
<1>2. CASE acking[p]
  <2>1. d \in Digests
    BY <1>2 DEF CallInv, AcksNameReleases
  <2>2. Cache!Acknowledge(p, d)
    BY <1>2 DEF Wanted, Acceptable, AnswerAfter, Tell, Cache!Acknowledge, Cache!Tell
  <2>3. QED
    BY <2>1, <2>2 DEF Cache!CacheNext
<1>3. CASE ~acking[p] /\ d = None
  <2>1. Cache!Answer(p)
    BY <1>3 DEF Wanted, AnswerAfter, Tell, Cache!Answer, Cache!Tell
  <2>2. QED
    BY <2>1 DEF Cache!CacheNext
<1>4. CASE ~acking[p] /\ d # None /\ Cache!Fits(Cache!StateAfterCheck(ReadState, d))
  <2>1. Cache!Offer(p, d)
    BY <1>4 DEF Wanted, AnswerAfter, Tell, Cache!Offer, Cache!Tell
  <2>2. QED
    BY <1>1, <1>4, <2>1 DEF Cache!CacheNext
<1>5. CASE ~acking[p] /\ d # None /\ ~Cache!Fits(Cache!StateAfterCheck(ReadState, d))
  <2>1. ReadState' = Cache!Withdrawn(ReadState)
    BY <1>5 DEF Wanted
  <2>2. Cache!ResultForCandidate(Cache!Withdrawn(ReadState)) = None
    BY DEF Cache!ResultForCandidate, Cache!Withdrawn
  <2>3. Cache!Withdraw(p)
    BY <1>5, <2>1, <2>2 DEF Wanted, AnswerAfter, Tell, Cache!Withdraw, Cache!Tell
  <2>4. QED
    BY <2>3 DEF Cache!CacheNext
<1>6. QED
  BY <1>2, <1>3, <1>4, <1>5

LEMMA StepIsAtomic ==
  ASSUME UpdInv, CallInv, CommitInv, [UpdNext]_updVars
  PROVE  CallInv' /\ CommitInv' /\ [Cache!CacheNext]_(Cache!cacheVars)
<1>1. CASE \E p \in Procs : Reading(p)
  BY <1>1, ReadingGuards, FencingGuards, ReadingTells, AnswerRefines
<1>2. CASE \E p \in Procs : Commit(p)
  <2>1. PICK p \in Procs : Commit(p)
    BY <1>2
  <2>2. Tell(p, AnswerAfter(p)) \/ Tell(p, None)
    BY <2>1 DEF Commit
  <2>3. QED
    BY <2>1, <2>2, CommitGuards, CommitRefines
<1>3. CASE \E p \in Procs : \/ (\E g \in Generations : ReserveOperation(p, g))
                            \/ MakePending(p) \/ WriteOwner(p)
  <2>1. told' = told
    BY <1>3 DEF ReserveOperation, MakePending, WriteOwner
  <2>2. QED
    BY <1>3, <2>1, EnteringGuards, AnswerRefines DEF TellsFromCache
<1>4. CASE \E p \in Procs :
             LookAtClaim(p) \/ RetireActiveClaim(p) \/ MoveClaim(p) \/ RenameClaim(p)
  <2>1. told' = told
    BY <1>4 DEF LookAtClaim, RetireActiveClaim, MoveClaim, RenameClaim
  <2>2. QED
    BY <1>4, <2>1, ClaimingGuards, AnswerRefines DEF TellsFromCache
<1>5. CASE \E p \in Procs : CancelOperation(p)
  <2>1. told' = told
    BY <1>5 DEF CancelOperation
  <2>2. QED
    BY <1>5, <2>1, CancelGuards, AnswerRefines DEF TellsFromCache
<1>6. CASE \E p \in Procs, g \in Generations : FenceLower(p, g)
  <2>1. told' = told
    BY <1>6 DEF FenceLower
  <2>2. QED
    BY <1>6, <2>1, FenceGuards, AnswerRefines DEF TellsFromCache
<1>7. CASE (\E g \in Generations : LeaseEnds(g)) \/ UNCHANGED updVars
  <2>1. UNCHANGED <<op, saved, at, acking, gen, target, todo, next, told>>
    BY <1>7 DEF LeaseEnds, locals, updVars
  <2>2. QED
    BY <2>1, StandingGuards DEF Cache!cacheVars
<1>8. QED
  BY <1>1, <1>2, <1>3, <1>4, <1>5, <1>6, <1>7 DEF UpdNext, Reading

LEMMA InitiallyEmpty ==
  ASSUME UpdInit
  PROVE  CallInv /\ CommitInv /\ Cache!CacheInit
<1>1. IsLatest(0)
  BY UpdateAssumption DEF UpdInit, IsLatest
<1>2. HasLatest /\ Latest = 0
  BY <1>1, UpdateAssumption, LatestNow DEF HasLatest
<1>3. Cache!CacheInit
  BY <1>2, UpdateAssumption DEF UpdInit, ReadState, Cache!CacheInit
<1>4. CallInv
  BY DEF UpdInit, CallInv, CallTypes, AcksNameReleases
<1>5. PassedIsNewest /\ LowerIsFenced /\ DecisionIsCurrent /\ NewIsUncommitted
  BY DEF UpdInit, PassedIsNewest, LowerIsFenced, DecisionIsCurrent, NewIsUncommitted, Runs,
     Passed, Fencing
<1>6. QED
  BY <1>2, <1>3, <1>4, <1>5 DEF CommitInv

(* Checks and acknowledgements take effect in one step each, on the cache  *)
(* their answers speak of, for any number of processes that share the      *)
(* directory, are suspended past their leases or stop anywhere: the script *)
(* check-update.mjs implements UpdateCache.                                *)
THEOREM ChecksImplementCache == UpdSpec => ChecksAreAtomic
<1>1. UpdInit => UpdInv /\ CallInv /\ CommitInv /\ Cache!CacheInit
  BY UpdInitially, InitiallyEmpty
<1>2. UpdInv /\ CallInv /\ CommitInv /\ [UpdNext]_updVars
        => CallInv' /\ CommitInv' /\ [Cache!CacheNext]_(Cache!cacheVars)
  BY StepIsAtomic
<1>3. UpdInv /\ [UpdNext]_updVars => UpdInv'
  BY StepKeeps, StutterKeeps
<1>4. QED
  BY <1>1, <1>2, <1>3, PTL DEF UpdSpec, ChecksAreAtomic, Cache!CacheSpec

-----------------------------------------------------------------------------
(* Types.  What is saved, about to be saved and answered is made of the    *)
(* digests a manifest named, because a commit writes what was decided from *)
(* the cache and an answer is the candidate of a state.                    *)
Shapes ==
  /\ saved \in [0..MaxGeneration -> Cache!States] /\ next \in [Procs -> Cache!States]
  /\ todo \in [Procs -> SUBSET Generations]
  /\ told \in [Procs -> Digests \union {None, "acknowledged"}]

TypedInv == UpdInv /\ CallInv /\ CommitInv /\ Shapes

LEMMA StatesOf ==
  ASSUME NEW s \in Cache!States, NEW d \in Digests
  PROVE  /\ Cache!StateAfterCheck(s, d) \in Cache!States /\ Cache!Withdrawn(s) \in Cache!States
         /\ Cache!StateAfterAcknowledgement(s, d) \in Cache!States
BY UpdateAssumption DEF Cache!States, Cache!StateAfterCheck, Cache!Withdrawn,
   Cache!StateAfterAcknowledgement

LEMMA AnswerOf ==
  ASSUME NEW s \in Cache!States
  PROVE  Cache!ResultForCandidate(s) \in Digests \union {None}
BY UpdateAssumption DEF Cache!States, Cache!ResultForCandidate

LEMMA EmptyIsState == Cache!EmptyState \in Cache!States
BY DEF Cache!EmptyState, Cache!States

LEMMA ReadIsState ==
  ASSUME HasLatest, Shapes
  PROVE  ReadState \in Cache!States
<1>1. PICK g \in 0..MaxGeneration : IsLatest(g)
  BY DEF HasLatest
<1>2. Latest = g
  BY <1>1, LatestNow
<1>3. QED
  BY <1>2 DEF ReadState, Shapes

LEMMA WantedIsState ==
  ASSUME TypedInv, NEW p \in Procs
  PROVE  Wanted(p) \in Cache!States
<1>1. ReadState \in Cache!States
  BY ReadIsState DEF TypedInv, CommitInv
<1>2. target[p] \in Digests \union {None} /\ (acking[p] => target[p] \in Digests)
  BY DEF TypedInv, CallInv, CallTypes, AcksNameReleases
<1>3. CASE target[p] \in Digests
  <2>1. /\ Cache!StateAfterCheck(ReadState, target[p]) \in Cache!States
        /\ Cache!Withdrawn(ReadState) \in Cache!States
        /\ Cache!StateAfterAcknowledgement(ReadState, target[p]) \in Cache!States
    BY <1>1, <1>3, StatesOf
  <2>2. QED
    BY <1>1, <2>1 DEF Wanted
<1>4. CASE target[p] \notin Digests
  BY <1>1, <1>2, <1>4 DEF Wanted
<1>5. QED
  BY <1>3, <1>4

(* What is saved changes in a commit only.                                 *)
LEMMA SavedIsState ==
  ASSUME TypedInv, NEW p \in Procs, Commit(p)
  PROVE  saved' \in [0..MaxGeneration -> Cache!States]
BY DEF TypedInv, Shapes, Commit

(* What is next was wanted, or is empty.                                   *)
NextStep(p) ==
  \/ next' = next \/ next' = [next EXCEPT ![p] = Cache!EmptyState]
  \/ next' = [next EXCEPT ![p] = Wanted(p)]

TodoStep(p) ==
  \/ todo' = todo
  \/ \E s \in SUBSET Generations : todo' = [todo EXCEPT ![p] = s]

ToldStep(p) == TellsFromCache(p) \/ Tell(p, AnswerAfter(p)) \/ Tell(p, None)

LEMMA ShapesStand ==
  ASSUME TypedInv, NEW p \in Procs, NextStep(p), TodoStep(p), ToldStep(p),
         saved' \in [0..MaxGeneration -> Cache!States]
  PROVE  Shapes'
<1>1. next' \in [Procs -> Cache!States]
  BY EmptyIsState, WantedIsState DEF NextStep, TypedInv, Shapes
<1>2. todo' \in [Procs -> SUBSET Generations]
  BY DEF TodoStep, TypedInv, Shapes
<1>3. told' \in [Procs -> Digests \union {None, "acknowledged"}]
  <2>1. Cache!ResultForCandidate(ReadState) \in Digests \union {None}
    BY ReadIsState, AnswerOf DEF TypedInv, CommitInv
  <2>2. next[p] \in Cache!States
    BY DEF TypedInv, Shapes
  <2>3. AnswerAfter(p) \in Digests \union {None, "acknowledged"}
    BY <2>2, AnswerOf DEF AnswerAfter
  <2>4. told \in [Procs -> Digests \union {None, "acknowledged"}]
    BY DEF TypedInv, Shapes
  <2>5. QED
    BY <2>1, <2>3, <2>4 DEF ToldStep, TellsFromCache, Tell
<1>4. QED
  BY <1>1, <1>2, <1>3 DEF Shapes

LEMMA ReadingShapes ==
  ASSUME TypedInv, NEW p \in Procs, Reading(p)
  PROVE  saved' = saved /\ NextStep(p) /\ TodoStep(p)
<1>1. CASE FreshStateResult(p) \/ AnswerAfterLosing(p) \/ WasFenced(p)
  BY <1>1 DEF FreshStateResult, AnswerAfterLosing, WasFenced, Return, cacheDir, locals, NextStep,
     TodoStep
<1>2. CASE Abandon(p) \/ WaitUntilRetry(p)
  BY <1>2 DEF Abandon, WaitUntilRetry, Return, cacheDir, locals, NextStep, TodoStep
<1>3. CASE \/ CheckForUpdate(p) \/ CheckIsDue(p) \/ InspectActiveClaim(p)
           \/ IsSuperseded(p, "newest", "promote") \/ IsSuperseded(p, "promote", "look")
           \/ IsLive(p) \/ Reread(p) \/ MayFetch(p, "own1", "own2") \/ MayFetch(p, "own2", "fetch")
           \/ MayFence(p) \/ MayDecide(p)
  BY <1>3 DEF CheckForUpdate, CheckIsDue, InspectActiveClaim, IsSuperseded, IsLive, Reread,
     MayFetch, MayFence, MayDecide, cacheDir, locals, NextStep, TodoStep
<1>4. CASE \/ \E d \in Digests : AcknowledgeUpdate(p, d)
           \/ \E d \in Digests \union {None} : FetchCandidate(p, d)
  BY <1>4 DEF AcknowledgeUpdate, FetchCandidate, cacheDir, NextStep, TodoStep
<1>5. CASE ListPending(p) \/ HasActivePending(p) \/ ListLower(p) \/ Decide(p)
  BY <1>5 DEF ListPending, HasActivePending, ListLower, Decide, cacheDir, NextStep, TodoStep
<1>6. QED
  BY <1>1, <1>2, <1>3, <1>4, <1>5 DEF Reading

LEMMA OwningShapes ==
  ASSUME TypedInv, NEW p \in Procs,
         \/ \E g \in Generations : ReserveOperation(p, g) \/ FenceLower(p, g)
         \/ MakePending(p) \/ WriteOwner(p) \/ LookAtClaim(p) \/ RetireActiveClaim(p)
         \/ MoveClaim(p) \/ RenameClaim(p) \/ CancelOperation(p)
  PROVE  saved' = saved /\ NextStep(p) /\ TodoStep(p) /\ told' = told
<1>1. CASE \E g \in Generations : FenceLower(p, g)
  <2>1. PICK g \in Generations : FenceLower(p, g)
    BY <1>1
  <2>2. todo' = [todo EXCEPT ![p] = todo[p] \ {g}] /\ todo[p] \ {g} \in SUBSET Generations
    BY <2>1 DEF FenceLower, TypedInv, Shapes
  <2>3. QED
    BY <2>1, <2>2 DEF FenceLower, NextStep, TodoStep
<1>2. CASE \/ \E g \in Generations : ReserveOperation(p, g)
           \/ MakePending(p) \/ WriteOwner(p)
  BY <1>2 DEF ReserveOperation, MakePending, WriteOwner, locals, NextStep, TodoStep
<1>3. CASE LookAtClaim(p) \/ RetireActiveClaim(p) \/ MoveClaim(p) \/ RenameClaim(p)
  BY <1>3 DEF LookAtClaim, RetireActiveClaim, MoveClaim, RenameClaim, cacheDir, locals, NextStep,
     TodoStep
<1>4. CASE CancelOperation(p)
  BY <1>4 DEF CancelOperation, Return, locals, NextStep, TodoStep
<1>5. QED
  BY <1>1, <1>2, <1>3, <1>4

LEMMA TypedStep ==
  ASSUME TypedInv, [UpdNext]_updVars
  PROVE  TypedInv'
<1>1. UpdInv' /\ CallInv' /\ CommitInv'
  BY StepKeeps, StutterKeeps, StepIsAtomic DEF TypedInv
<1>2. saved \in [0..MaxGeneration -> Cache!States]
  BY DEF TypedInv, Shapes
<1>3. CASE \E p \in Procs : Reading(p)
  BY <1>2, <1>3, ReadingShapes, ReadingTells, ShapesStand, <1>1 DEF TypedInv, ToldStep
<1>4. CASE \E p \in Procs : Commit(p)
  <2>1. PICK p \in Procs : Commit(p)
    BY <1>4
  <2>2. NextStep(p) /\ TodoStep(p) /\ ToldStep(p)
    BY <2>1 DEF Commit, Return, NextStep, TodoStep, ToldStep
  <2>3. QED
    BY <1>1, <2>1, <2>2, SavedIsState, ShapesStand DEF TypedInv
<1>5. CASE \E p \in Procs :
             \/ \E g \in Generations : ReserveOperation(p, g) \/ FenceLower(p, g)
             \/ MakePending(p) \/ WriteOwner(p) \/ LookAtClaim(p) \/ RetireActiveClaim(p)
             \/ MoveClaim(p) \/ RenameClaim(p) \/ CancelOperation(p)
  BY <1>1, <1>2, <1>5, OwningShapes, ShapesStand DEF TypedInv, ToldStep, TellsFromCache
<1>6. CASE (\E g \in Generations : LeaseEnds(g)) \/ UNCHANGED updVars
  <2>1. UNCHANGED <<saved, todo, next, told>>
    BY <1>6 DEF LeaseEnds, locals, updVars
  <2>2. QED
    BY <1>1, <2>1 DEF TypedInv, Shapes
<1>7. QED
  BY <1>3, <1>4, <1>5, <1>6 DEF UpdNext, Reading

LEMMA TypedInitially ==
  ASSUME UpdInit
  PROVE  TypedInv
<1>1. UpdInv /\ CallInv /\ CommitInv
  BY UpdInitially, InitiallyEmpty
<1>2. Shapes
  BY EmptyIsState DEF UpdInit, Shapes
<1>3. QED
  BY <1>1, <1>2 DEF TypedInv

LEMMA TypesFollow == TypedInv => UpdTypeOK
BY DEF TypedInv, UpdInv, CallInv, CallTypes, Shapes, Directory, Processes, OwnOperation, UpdTypeOK
=============================================================================
