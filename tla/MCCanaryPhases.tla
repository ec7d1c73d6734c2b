--------------------------- MODULE MCCanaryPhases ---------------------------
(***************************************************************************)
(* Walks the fleet size n from 1 to MaxFleet so that TLC evaluates the     *)
(* phase split of every fleet of that range, one state per size.           *)
(***************************************************************************)
EXTENDS CanaryPhases

CONSTANT MaxFleet

ASSUME MaxFleetAssumption == MaxFleet \in Nat \ {0}

VARIABLE n

FleetInit == n = 1

(* One more robot joins the fleet the next rollout is planned for.         *)
Enlarge == n < MaxFleet /\ n' = n + 1

FleetSpec == FleetInit /\ [][Enlarge]_n

(* The phases of every fleet size partition the fleet (TestRollout_        *)
(* FleetPhasePartitionIntegrity checks eight sizes of this).               *)
PartitionHolds == Partition(n)

(* The first phase is never larger than the 20% rule requires and never    *)
(* empty, whatever the fleet size.                                         *)
SentinelGroupMinimal == SmallestSentinelGroup(n)

(* The deploy page's sentinel count is the backend's first phase.          *)
PlanHolds == PlanMatchesDispatch(n)

(* Breaking out of the dispatch loop strands no robot, and the adjustment  *)
(* of the second boundary is dead code.                                    *)
BreakHolds == BreakStrandsNobody(n) /\ AdjustmentNeverNeeded(n)

(* The split of every fleet size is sound: ceilings, clamping, slices, the *)
(* early exit of the dispatch loop and the formula of the deploy page fit  *)
(* together, for the tiny fleets as well.                                  *)
SplitIsSound == PartitionHolds /\ PlanHolds /\ BreakHolds
=============================================================================
