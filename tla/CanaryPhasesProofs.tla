------------------------- MODULE CanaryPhasesProofs -------------------------
(***************************************************************************)
(* The phase split is right for a fleet of any size.                       *)
(***************************************************************************)
EXTENDS MCCanaryPhases, TLAPS

(* The boundaries of the phases as plain arithmetic.                       *)
LEMMA Boundaries ==
  ASSUME NEW m \in Nat \ {0}
  PROVE  /\ P1End(m) \in 1..m
         /\ 5 * P1End(m) >= m /\ 5 * P1End(m) < m + 5
         /\ P2End(m) \in P1End(m)..m
         /\ m >= 2 => ClampPhaseEnd(m, 60) > ClampPhaseEnd(m, 20)
BY DEF P1End, P2End, ClampPhaseEnd, CeilPercent

(* The slices lose no robot and update none twice.                         *)
LEMMA Partitioned == \A m \in Nat \ {0} : Partition(m)
BY Boundaries DEF Partition, PhaseDevices, PhaseOf, Phases

(* The first phase is as small as the 20% rule allows.                     *)
LEMMA SentinelGroup == \A m \in Nat \ {0} : SmallestSentinelGroup(m)
BY Boundaries DEF SmallestSentinelGroup

(* The deploy page and the dispatcher agree.                               *)
LEMMA PlanAgrees == \A m \in Nat \ {0} : PlanMatchesDispatch(m)
BY DEF PlanMatchesDispatch, SentinelCount, P1End, ClampPhaseEnd, CeilPercent

(* Breaking out of the loop strands no robot.                              *)
LEMMA NobodyStranded == \A m \in Nat \ {0} : BreakStrandsNobody(m)
BY Boundaries DEF BreakStrandsNobody, IsLastPhase, PhaseDevices, Phases

-----------------------------------------------------------------------------
FleetOK == n \in Nat \ {0}

(* The fleet is never empty.                                               *)
LEMMA FleetSize == FleetSpec => []FleetOK
<1>1. FleetInit => FleetOK
  BY DEF FleetInit, FleetOK
<1>2. FleetOK /\ [Enlarge]_n => FleetOK'
  BY DEF Enlarge, FleetOK
<1>3. QED
  BY <1>1, <1>2, PTL DEF FleetSpec

(* Whatever the size of the fleet, its three phases partition it.          *)
THEOREM PhasesPartitionFleet == FleetSpec => []PartitionHolds
<1>1. FleetOK => PartitionHolds
  BY Partitioned DEF PartitionHolds, FleetOK
<1>2. QED
  BY <1>1, FleetSize, PTL

(* Whatever the size of the fleet, the first phase is the smallest group   *)
(* of at least a fifth of it.                                              *)
THEOREM SmallestFirstPhase == FleetSpec => []SentinelGroupMinimal
<1>1. FleetOK => SentinelGroupMinimal
  BY SentinelGroup DEF SentinelGroupMinimal, FleetOK
<1>2. QED
  BY <1>1, FleetSize, PTL

(* Whatever the size of the fleet, the number of sentinel robots shown to  *)
(* the operator is the number updated first.                               *)
THEOREM PlanIsDispatched == FleetSpec => []PlanHolds
<1>1. FleetOK => PlanHolds
  BY PlanAgrees DEF PlanHolds, FleetOK
<1>2. QED
  BY <1>1, FleetSize, PTL

(* Whatever the size of the fleet, leaving the dispatch loop early strands *)
(* no robot, and the boundary adjustment of runCanary is dead code.        *)
THEOREM BreakIsSafe == FleetSpec => []BreakHolds
<1>1. FleetOK => BreakHolds
  BY NobodyStranded, Boundaries DEF BreakHolds, FleetOK, AdjustmentNeverNeeded
<1>2. QED
  BY <1>1, FleetSize, PTL

(* The split is sound for a fleet of any size.                             *)
THEOREM SplitSound == FleetSpec => []SplitIsSound
<1>1. PartitionHolds /\ PlanHolds /\ BreakHolds => SplitIsSound
  BY DEF SplitIsSound
<1>2. QED
  BY <1>1, PhasesPartitionFleet, PlanIsDispatched, BreakIsSafe, PTL
=============================================================================
