----------------------------- MODULE UpdateCache -----------------------------
(***************************************************************************)
(* What the update check of the archify skill promises, without its        *)
(* directories, claims and leases: one cache that every check and every    *)
(* acknowledgement reads and writes in a single step, and the answer each  *)
(* caller gets from the very cache it changed; None, that the cache is     *)
(* unavailable, may follow a change as well.  UpdateCheck implements this  *)
(* specification.                                                          *)
(***************************************************************************)
EXTENDS FiniteSets, Naturals

CONSTANTS
  Procs,     \* processes that call the script
  Digests,   \* the releases a manifest may name
  Newer,     \* those whose version is above the installed one
  Capacity,  \* how many digests a state file has room for (64 KB)
  None       \* no candidate, no answer

VARIABLES
  cache,  \* the candidate, what was offered and what was acknowledged
  told    \* the last answer to each process: a digest, "acknowledged" or None

cacheVars == <<cache, told>>

EmptyState == [candidate |-> None, offered |-> {}, acknowledged |-> {}]
States == [candidate : Digests \union {None}, offered : SUBSET Digests,
           acknowledged : SUBSET Digests]

Fits(s) == Cardinality(s.offered) + Cardinality(s.acknowledged) <= Capacity

(* resultForCandidate: silent, or the release to tell the user about.      *)
ResultForCandidate(s) ==
  IF s.candidate \in Newer \ s.acknowledged THEN s.candidate ELSE None

(* A check that found d, None for one that failed.                         *)
StateAfterCheck(s, d) ==
  [candidate |-> d,
   offered |-> s.offered \union ({d} \intersect (Newer \ s.acknowledged)),
   acknowledged |-> s.acknowledged]

Withdrawn(s) == [candidate |-> None, offered |-> s.offered, acknowledged |-> s.acknowledged]

StateAfterAcknowledgement(s, d) ==
  [candidate |-> s.candidate, offered |-> s.offered \ {d},
   acknowledged |-> s.acknowledged \union {d}]

-----------------------------------------------------------------------------
CacheInit ==
  /\ cache = EmptyState
  /\ told = [p \in Procs |-> None]

Tell(p, answer) == told' = [told EXCEPT ![p] = answer]

(* An answer from the cache as it is.                                      *)
Answer(p) ==
  /\ \/ Tell(p, None)
     \/ Tell(p, ResultForCandidate(cache))
  /\ UNCHANGED cache

Offer(p, d) ==
  /\ cache' = StateAfterCheck(cache, d)
  /\ Tell(p, ResultForCandidate(cache')) \/ Tell(p, None)

(* No room for the release that was found: nothing stays on offer.         *)
Withdraw(p) ==
  /\ cache' = Withdrawn(cache)
  /\ Tell(p, None)

Acknowledge(p, d) ==
  /\ d \in cache.offered \union cache.acknowledged
  /\ cache' = StateAfterAcknowledgement(cache, d)
  /\ Tell(p, "acknowledged") \/ Tell(p, None)

CacheNext ==
  \E p \in Procs :
    \/ Answer(p) \/ Withdraw(p)
    \/ \E d \in Digests : Offer(p, d) \/ Acknowledge(p, d)

CacheSpec == CacheInit /\ [][CacheNext]_cacheVars
=============================================================================
