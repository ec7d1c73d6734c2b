----------------------------- MODULE UpdateCheck -----------------------------
(***************************************************************************)
(* The update check of the archify skill (scripts/check-update.mjs): any   *)
(* number of processes share a directory and nothing else, and coordinate  *)
(* by creating and renaming directories in it.                             *)
(*                                                                         *)
(*   - An operation is a generation: "reserved-g" is created once and      *)
(*     stays, "pending-g" is renamed to committed-g, fenced-g or           *)
(*     cancelled-g.  op[g] is the latest of these names.                   *)
(*   - "active-claim" is one directory; it holds the generation of its     *)
(*     owner, 0 when there is none.  A claim whose operation ended or whose*)
(*     lease ran out is moved to "retired-claim-g/active".                 *)
(*   - The committed generation with the highest number is the cache;      *)
(*     generation 0 stands for the empty cache before the first one.       *)
(*                                                                         *)
(* One step is one call that changes the directory, or one reading of it.  *)
(* A process may stop for good, or give up with cache-unavailable, at any  *)
(* step (Abandon): the checks of identity around each call notice more     *)
(* interference than matters, and which of them does is left open.  A      *)
(* lease may run out at any time: the clock of a process that was          *)
(* suspended does not wait for it.                                         *)
(***************************************************************************)
EXTENDS FiniteSets, Naturals

CONSTANTS
  Procs,         \* processes that call the script
  Digests,       \* the releases a manifest may name
  Newer,         \* those whose version is above the installed one
  Capacity,      \* how many digests a state file has room for (64 KB)
  None,          \* no candidate, no answer
  MaxGeneration  \* bound on the operations ever reserved

ASSUME UpdateAssumption ==
  /\ Newer \subseteq Digests /\ None \notin Digests /\ "acknowledged" \notin Digests
  /\ Capacity \in Nat /\ MaxGeneration \in Nat

VARIABLES
  op,       \* generation -> "none", "reserved", "pending", "committed", ...
  lease,    \* generation -> the operation's owner file is less than 30 s old
  saved,    \* generation -> state.json, once the operation is committed
  claim,    \* active-claim
  retired,  \* generation -> what lies in retired-claim-g, or 0
  at,       \* where each process is
  acking,   \* it acknowledges (else it checks)
  gen,      \* its operation, or 0
  target,   \* the digest it acknowledges, or fetched (None: the check failed)
  seen,     \* the claim it inspected last
  todo,     \* operations it still has to look at
  next,     \* the state it is about to commit
  told      \* its answer

cacheDir == <<op, lease, saved, claim, retired>>
locals == <<acking, gen, target, seen, todo, next>>
updVars == <<op, lease, saved, claim, retired, at, acking, gen, target, seen, todo, next, told>>

Generations == 1..MaxGeneration
Ended == {"committed", "fenced", "cancelled"}
Kinds == {"none", "reserved", "pending"} \union Ended

(* readState: the highest committed generation.                            *)
IsLatest(g) ==
  /\ g \in 0..MaxGeneration /\ op[g] = "committed"
  /\ \A h \in 0..MaxGeneration : op[h] = "committed" => h <= g
Latest == CHOOSE g \in 0..MaxGeneration : IsLatest(g)
ReadState == saved[Latest]

Cache == INSTANCE UpdateCache WITH cache <- ReadState

UpdInit ==
  /\ op = [g \in 0..MaxGeneration |-> IF g = 0 THEN "committed" ELSE "none"]
  /\ lease = [g \in 0..MaxGeneration |-> FALSE]
  /\ saved = [g \in 0..MaxGeneration |-> Cache!EmptyState]
  /\ claim = 0 /\ retired = [g \in Generations |-> 0]
  /\ at = [p \in Procs |-> "idle"]
  /\ acking = [p \in Procs |-> FALSE]
  /\ gen = [p \in Procs |-> 0]
  /\ target = [p \in Procs |-> None]
  /\ seen = [p \in Procs |-> 0]
  /\ todo = [p \in Procs |-> {}]
  /\ next = [p \in Procs |-> Cache!EmptyState]
  /\ told = [p \in Procs |-> None]

Goto(p, place) == at' = [at EXCEPT ![p] = place]
Tell(p, answer) == told' = [told EXCEPT ![p] = answer]

(* The call returns.                                                       *)
Return(p) ==
  /\ Goto(p, "idle")
  /\ acking' = [acking EXCEPT ![p] = FALSE]
  /\ gen' = [gen EXCEPT ![p] = 0]
  /\ target' = [target EXCEPT ![p] = None]
  /\ seen' = [seen EXCEPT ![p] = 0]
  /\ todo' = [todo EXCEPT ![p] = {}]
  /\ next' = [next EXCEPT ![p] = Cache!EmptyState]

(* The operation leaves "pending": a rename that succeeds once.            *)
Transition(g, kind) ==
  /\ op' = [op EXCEPT ![g] = kind]
  /\ lease' = [lease EXCEPT ![g] = FALSE]

-----------------------------------------------------------------------------
(* The calls, and what a check answers from a cache that is fresh enough.  *)

CheckForUpdate(p) ==
  /\ at[p] = "idle" /\ Goto(p, "start")
  /\ Tell(p, None)
  /\ UNCHANGED <<cacheDir, locals>>

AcknowledgeUpdate(p, d) ==
  /\ at[p] = "idle" /\ Goto(p, "inspect")
  /\ acking' = [acking EXCEPT ![p] = TRUE]
  /\ target' = [target EXCEPT ![p] = d]
  /\ Tell(p, None)
  /\ UNCHANGED <<cacheDir, gen, seen, todo, next>>

(* Whether nextCheckAt has passed is left open; the empty state has none.  *)
FreshStateResult(p) ==
  /\ at[p] = "start" /\ Latest # 0
  /\ Return(p) /\ Tell(p, Cache!ResultForCandidate(ReadState))
  /\ UNCHANGED cacheDir

CheckIsDue(p) ==
  /\ at[p] = "start" /\ Goto(p, "inspect")
  /\ UNCHANGED <<cacheDir, locals, told>>

-----------------------------------------------------------------------------
(* acquireOperation.                                                       *)

(* inspectActiveClaim: absent, busy, or else releasable.                   *)
Busy == claim # 0 /\ op[claim] = "pending" /\ lease[claim]

InspectActiveClaim(p) ==
  /\ at[p] = "inspect" /\ Goto(p, IF Busy THEN "lost" ELSE "list")
  /\ UNCHANGED <<cacheDir, locals, told>>

ListPending(p) ==
  /\ at[p] = "list" /\ Goto(p, "leases")
  /\ todo' = [todo EXCEPT ![p] = {g \in Generations : op[g] = "pending"}]
  /\ UNCHANGED <<cacheDir, acking, gen, target, seen, next, told>>

HasActivePending(p) ==
  /\ at[p] = "leases"
  /\ Goto(p, IF \E g \in todo[p] : op[g] = "pending" /\ lease[g] THEN "lost" ELSE "reserve")
  /\ todo' = [todo EXCEPT ![p] = {}]
  /\ UNCHANGED <<cacheDir, acking, gen, target, seen, next, told>>

(* Mutant of ReserveOperation: EEXIST is not looked at.                    *)
ReserveAnyway(p, g) ==
  /\ at[p] = "reserve" /\ Goto(p, "reserved")
  /\ op[g] \in {"none", "reserved"} /\ \A h \in 1..(g - 1) : op[h] # "none"
  /\ op' = [op EXCEPT ![g] = "reserved"]
  /\ gen' = [gen EXCEPT ![p] = g]
  /\ UNCHANGED <<lease, saved, claim, retired, acking, target, seen, todo, next, told>>

(* mkdir of the first name after the ones that exist.                      *)
ReserveOperation(p, g) ==
  /\ at[p] = "reserve" /\ Goto(p, "reserved")
  /\ op[g] = "none" /\ \A h \in 1..(g - 1) : op[h] # "none"
  /\ op' = [op EXCEPT ![g] = "reserved"]
  /\ gen' = [gen EXCEPT ![p] = g]
  /\ UNCHANGED <<lease, saved, claim, retired, acking, target, seen, todo, next, told>>

MakePending(p) ==
  /\ at[p] = "reserved" /\ Goto(p, "owner")
  /\ op' = [op EXCEPT ![gen[p]] = "pending"]
  /\ lease' = [lease EXCEPT ![gen[p]] = TRUE]
  /\ UNCHANGED <<saved, claim, retired, locals, told>>

(* A newer operation may have fenced this one before it had an owner.      *)
WriteOwner(p) ==
  /\ at[p] = "owner"
  /\ IF op[gen[p]] = "pending"
     THEN Goto(p, "newest") /\ lease' = [lease EXCEPT ![gen[p]] = TRUE]
     ELSE Goto(p, "lost") /\ UNCHANGED lease
  /\ UNCHANGED <<op, saved, claim, retired, locals, told>>

Superseded(p) == \E g \in Generations : g > gen[p] /\ op[g] # "none"

IsSuperseded(p, from, to) ==
  /\ at[p] = from /\ Goto(p, IF Superseded(p) THEN "cancel" ELSE to)
  /\ UNCHANGED <<cacheDir, locals, told>>

-----------------------------------------------------------------------------
(* promoteOperationClaim: at most eight attempts, any of which may be the  *)
(* last one here.                                                          *)
Again(p) == Goto(p, "promote") \/ Goto(p, "cancel")

LookAtClaim(p) ==
  /\ at[p] = "look"
  /\ Goto(p, IF claim = 0 THEN "rename"
             ELSE IF Busy \/ claim > gen[p] THEN "cancel" ELSE "retire")
  /\ seen' = [seen EXCEPT ![p] = claim]
  /\ UNCHANGED <<cacheDir, acking, gen, target, todo, next, told>>

(* The claim is still the one that was inspected; another one in its place *)
(* makes the call fail, see Abandon.                                       *)
RetireActiveClaim(p) ==
  /\ at[p] = "retire"
  /\ \/ claim = seen[p] /\ Goto(p, "move")
     \/ claim = 0 /\ Again(p)
  /\ UNCHANGED <<cacheDir, locals, told>>

(* Mutant of MoveClaim: the place it is moved to may be taken already.     *)
MoveOver(p) ==
  /\ at[p] = "move" /\ Again(p)
  /\ IF claim # 0
     THEN claim' = 0 /\ retired' = [retired EXCEPT ![seen[p]] = claim]
     ELSE UNCHANGED <<claim, retired>>
  /\ UNCHANGED <<op, lease, saved, locals, told>>

(* The rename takes whatever is called active-claim now; the directory     *)
(* retired-claim-g takes one only, because its guard file keeps it from    *)
(* being replaced.                                                         *)
MoveClaim(p) ==
  /\ at[p] = "move" /\ Again(p)
  /\ IF claim # 0 /\ retired[seen[p]] = 0
     THEN claim' = 0 /\ retired' = [retired EXCEPT ![seen[p]] = claim]
     ELSE UNCHANGED <<claim, retired>>
  /\ UNCHANGED <<op, lease, saved, locals, told>>

RenameClaim(p) ==
  /\ at[p] = "rename"
  /\ IF claim = 0 THEN claim' = gen[p] /\ Goto(p, "live") ELSE Again(p) /\ UNCHANGED claim
  /\ UNCHANGED <<op, lease, saved, retired, locals, told>>

IsLive(p) ==
  /\ at[p] = "live"
  /\ Goto(p, IF op[gen[p]] # "pending" \/ ~lease[gen[p]] THEN "cancel"
             ELSE IF acking[p] THEN "own" ELSE "reread")
  /\ UNCHANGED <<cacheDir, locals, told>>

-----------------------------------------------------------------------------
(* A check that got an operation reads again and asks for the manifest.    *)

OwnsClaim(p) == Busy /\ claim = gen[p]

Reread(p) ==
  /\ at[p] = "reread"
  /\ \/ Goto(p, "own1") /\ UNCHANGED told
     \/ Latest # 0 /\ Goto(p, "withdraw") /\ Tell(p, Cache!ResultForCandidate(ReadState))
  /\ UNCHANGED <<cacheDir, locals>>

MayFetch(p, from, to) ==
  /\ at[p] = from /\ Goto(p, IF OwnsClaim(p) THEN to ELSE "cancel")
  /\ UNCHANGED <<cacheDir, locals, told>>

(* The manifest that the network returns, or a failure or time-out (None). *)
FetchCandidate(p, d) ==
  /\ at[p] = "fetch" /\ Goto(p, "own")
  /\ target' = [target EXCEPT ![p] = d]
  /\ UNCHANGED <<cacheDir, acking, gen, seen, todo, next, told>>

-----------------------------------------------------------------------------
(* commitOperation.                                                        *)

MayFence(p) ==
  /\ at[p] = "own" /\ Goto(p, IF OwnsClaim(p) THEN "fence" ELSE "withdraw")
  /\ UNCHANGED <<cacheDir, locals, told>>

(* Mutant of ListLower: the operations before this one are left alone.     *)
ListNone(p) ==
  /\ at[p] = "fence" /\ Goto(p, "fencing")
  /\ UNCHANGED <<cacheDir, locals, told>>

ListLower(p) ==
  /\ at[p] = "fence" /\ Goto(p, "fencing")
  /\ todo' = [todo EXCEPT ![p] = {g \in Generations : g < gen[p] /\ op[g] = "pending"}]
  /\ UNCHANGED <<cacheDir, acking, gen, target, seen, next, told>>

FenceLower(p, g) ==
  /\ at[p] = "fencing" /\ g \in todo[p] /\ \A h \in todo[p] : g <= h
  /\ todo' = [todo EXCEPT ![p] = @ \ {g}]
  /\ IF op[g] = "pending" THEN Transition(g, "fenced") ELSE UNCHANGED <<op, lease>>
  /\ UNCHANGED <<saved, claim, retired, at, acking, gen, target, seen, next, told>>

MayDecide(p) ==
  /\ at[p] = "fencing" /\ todo[p] = {}
  /\ Goto(p, IF OwnsClaim(p) THEN "decide" ELSE "withdraw")
  /\ UNCHANGED <<cacheDir, locals, told>>

(* The state to commit, from the cache as it is now.                       *)
Wanted(p) ==
  IF acking[p] THEN Cache!StateAfterAcknowledgement(ReadState, target[p])
  ELSE IF target[p] = None THEN ReadState
  ELSE IF Cache!Fits(Cache!StateAfterCheck(ReadState, target[p]))
       THEN Cache!StateAfterCheck(ReadState, target[p])
  ELSE Cache!Withdrawn(ReadState)

Acceptable(p) ==
  /\ acking[p] => target[p] \in ReadState.offered \union ReadState.acknowledged
  /\ Cache!Fits(Wanted(p))

Decide(p) ==
  /\ at[p] = "decide" /\ Goto(p, IF Acceptable(p) THEN "commit" ELSE "refuse")
  /\ next' = [next EXCEPT ![p] = Wanted(p)]
  /\ UNCHANGED <<cacheDir, acking, gen, target, seen, todo, told>>

AnswerAfter(p) ==
  IF acking[p] THEN "acknowledged"
  ELSE IF target[p] = None THEN None ELSE Cache!ResultForCandidate(next[p])

(* The rename commits; a check of the directories that fails behind it     *)
(* leaves the caller without the answer.                                   *)
Commit(p) ==
  /\ at[p] = "commit" /\ op[gen[p]] = "pending"
  /\ Transition(gen[p], "committed")
  /\ saved' = [saved EXCEPT ![gen[p]] = next[p]]
  /\ Return(p)
  /\ Tell(p, AnswerAfter(p)) \/ Tell(p, None)
  /\ UNCHANGED <<claim, retired>>

(* A newer operation was faster.                                           *)
WasFenced(p) ==
  /\ at[p] = "commit" /\ op[gen[p]] # "pending"
  /\ IF acking[p] THEN Goto(p, "lost") /\ UNCHANGED locals ELSE Return(p)
  /\ UNCHANGED <<cacheDir, told>>

-----------------------------------------------------------------------------
(* The ways out.                                                           *)

CancelOperation(p) ==
  /\ at[p] \in {"cancel", "withdraw", "refuse"}
  /\ IF op[gen[p]] = "pending" THEN Transition(gen[p], "cancelled")
     ELSE UNCHANGED <<op, lease>>
  /\ IF at[p] = "cancel" \/ (at[p] = "withdraw" /\ acking[p])
     THEN Goto(p, "lost") /\ UNCHANGED locals
     ELSE Return(p)
  /\ UNCHANGED <<saved, claim, retired, told>>

(* A check that lost answers from the cache what it has on offer.          *)
AnswerAfterLosing(p) ==
  /\ at[p] = "lost" /\ ~acking[p] /\ Return(p)
  /\ Tell(p, IF ReadState.candidate \in ReadState.offered
             THEN Cache!ResultForCandidate(ReadState) ELSE None)
  /\ UNCHANGED cacheDir

(* An acknowledgement tries again until 1.2 s have passed.                 *)
WaitUntilRetry(p) ==
  /\ at[p] = "lost" /\ acking[p]
  /\ \/ Return(p)
     \/ Goto(p, "inspect") /\ gen' = [gen EXCEPT ![p] = 0]
        /\ next' = [next EXCEPT ![p] = Cache!EmptyState]
        /\ seen' = [seen EXCEPT ![p] = 0]
        /\ UNCHANGED <<acking, target, todo>>
  /\ UNCHANGED <<cacheDir, told>>

Cancels == {"owner", "reread", "own1", "own2", "fetch", "own", "fence", "fencing", "decide", "commit"}

Abandon(p) ==
  /\ at[p] # "idle" /\ Tell(p, None)
  /\ \/ Return(p)
     \/ at[p] \in Cancels /\ Goto(p, "refuse") /\ UNCHANGED locals
  /\ UNCHANGED cacheDir

LeaseEnds(g) ==
  /\ lease[g] /\ lease' = [lease EXCEPT ![g] = FALSE]
  /\ UNCHANGED <<op, saved, claim, retired, at, locals, told>>

UpdNext ==
  \/ \E p \in Procs :
       \/ CheckForUpdate(p) \/ FreshStateResult(p) \/ CheckIsDue(p)
       \/ InspectActiveClaim(p) \/ ListPending(p) \/ HasActivePending(p)
       \/ MakePending(p) \/ WriteOwner(p)
       \/ IsSuperseded(p, "newest", "promote") \/ IsSuperseded(p, "promote", "look")
       \/ LookAtClaim(p) \/ RetireActiveClaim(p) \/ MoveClaim(p) \/ RenameClaim(p) \/ IsLive(p)
       \/ Reread(p) \/ MayFetch(p, "own1", "own2") \/ MayFetch(p, "own2", "fetch")
       \/ MayFence(p) \/ ListLower(p) \/ MayDecide(p) \/ Decide(p) \/ Commit(p) \/ WasFenced(p)
       \/ CancelOperation(p) \/ AnswerAfterLosing(p) \/ WaitUntilRetry(p) \/ Abandon(p)
       \/ \E d \in Digests : AcknowledgeUpdate(p, d)
       \/ \E d \in Digests \union {None} : FetchCandidate(p, d)
       \/ \E g \in Generations : ReserveOperation(p, g) \/ FenceLower(p, g)
  \/ \E g \in Generations : LeaseEnds(g)

UpdSpec == UpdInit /\ [][UpdNext]_updVars

-----------------------------------------------------------------------------
Places == {"idle", "start", "inspect", "list", "leases", "reserve", "reserved", "owner", "newest",
           "promote", "look", "retire", "move", "rename", "live", "reread", "own1", "own2",
           "fetch", "own", "fence", "fencing", "decide", "commit", "cancel", "withdraw",
           "refuse", "lost"}

(* Types; and no two processes share an operation.                         *)
UpdTypeOK ==
  /\ op \in [0..MaxGeneration -> Kinds] /\ lease \in [0..MaxGeneration -> BOOLEAN]
  /\ saved \in [0..MaxGeneration -> Cache!States]
  /\ claim \in 0..MaxGeneration /\ retired \in [Generations -> 0..MaxGeneration]
  /\ at \in [Procs -> Places] /\ acking \in [Procs -> BOOLEAN]
  /\ gen \in [Procs -> 0..MaxGeneration]
  /\ \A p, q \in Procs : gen[p] = gen[q] /\ gen[p] # 0 => p = q
  /\ target \in [Procs -> Digests \union {None}]
  /\ seen \in [Procs -> 0..MaxGeneration] /\ todo \in [Procs -> SUBSET Generations]
  /\ next \in [Procs -> Cache!States]
  /\ told \in [Procs -> Digests \union {None, "acknowledged"}]

(* Every check and every acknowledgement takes effect in one step, on the  *)
(* cache its answer speaks of: no update is lost to a process that was     *)
(* suspended past its lease, whatever the order of the renames, nothing is *)
(* offered again once it was acknowledged, and an acknowledgement that was *)
(* answered stays.                                                         *)
ChecksAreAtomic == Cache!CacheSpec

(* A claim whose owner is alive is never taken from it, although the       *)
(* rename that retires a claim takes whatever has its name by then.        *)
LiveClaimStays == [][Busy => claim' = claim]_updVars
=============================================================================
