---------------------------- MODULE CanaryPhases ----------------------------
(***************************************************************************)
(* How a canary rollout splits its n target devices into three phases      *)
(* (runCanary and clampPhaseEnd in backend/internal/rollout/manager.go).   *)
(* Devices are named by their position 1..n in the targetDevices slice.    *)
(*                                                                         *)
(* The code computes ceil(n * 0.20) and ceil(n * 0.60) in float64.  For    *)
(* those two fractions the rounded product never crosses an integer, so    *)
(* the exact integer ceiling below is what the code returns.               *)
(***************************************************************************)
EXTENDS Integers

Phases == 1..3

(* The percentage a phase ends at.                                         *)
Percentage == [p \in Phases |-> IF p = 1 THEN 20 ELSE IF p = 2 THEN 60 ELSE 100]

CeilPercent(n, pct) == (n * pct + 99) \div 100

(* Mutant of ClampPhaseEnd: the ceiling replaced by truncation.            *)
FloorPhaseEnd(n, pct) ==
  LET end == (n * pct) \div 100
  IN  IF end < 1 THEN 1 ELSE IF end > n THEN n ELSE end

(* clampPhaseEnd: the ceiling of n * pct, kept within 1..n.                *)
ClampPhaseEnd(n, pct) ==
  LET end == CeilPercent(n, pct)
  IN  IF end < 1 THEN 1 ELSE IF end > n THEN n ELSE end

P1End(n) == ClampPhaseEnd(n, 20)

P2End(n) ==
  LET end == ClampPhaseEnd(n, 60)
  IN  IF end <= P1End(n) /\ P1End(n) < n THEN P1End(n) + 1 ELSE end

(* Mutant of PhaseDevices: the second slice starts on the last device of   *)
(* the first one.                                                          *)
OverlappingPhases(n) ==
  [p \in Phases |-> CASE p = 1 -> 1 .. P1End(n)
                      [] p = 2 -> P1End(n) .. P2End(n)
                      [] p = 3 -> (P2End(n) + 1) .. n]

(* The slices devices[:p1End], devices[p1End:p2End] and devices[p2End:].   *)
PhaseDevices(n) ==
  [p \in Phases |-> CASE p = 1 -> 1 .. P1End(n)
                      [] p = 2 -> (P1End(n) + 1) .. P2End(n)
                      [] p = 3 -> (P2End(n) + 1) .. n]

(* Mutant of IsLastPhase: the second phase is always taken for the last.   *)
EarlyLastPhase(n, p) == p = 3 \/ p = 2

(* isLastPhase: after this phase the dispatch loop breaks out.             *)
IsLastPhase(n, p) == p = 3 \/ (P2End(n) = n /\ p = 2)

(* sentinelCount of evaluateRolloutPlan in frontend/src/lib/planning.ts:   *)
(* how many devices the deploy page announces for the first phase.         *)
SentinelCount(n) ==
  LET ceil == (n + 4) \div 5 IN IF ceil < 1 THEN 1 ELSE ceil

-----------------------------------------------------------------------------
(* The phase a device is dispatched in.                                    *)
PhaseOf(n, d) == IF d <= P1End(n) THEN 1 ELSE IF d <= P2End(n) THEN 2 ELSE 3

(* Every device of the fleet is in exactly one phase, and it is the phase  *)
(* PhaseOf says: the slices lose no robot, and update none twice           *)
(* (runCanary's slicing, rollout/manager.go:80-94).                        *)
Partition(n) ==
  /\ \A p \in Phases : PhaseDevices(n)[p] \subseteq 1..n
  /\ \A d \in 1..n, p \in Phases : d \in PhaseDevices(n)[p] <=> p = PhaseOf(n, d)

(* The first phase is the smallest non-empty group of at least 20% of the  *)
(* fleet: one robot fewer would be under 20%, so the blast radius of the   *)
(* first phase is as small as the percentage allows.                       *)
SmallestSentinelGroup(n) ==
  /\ P1End(n) \in 1..n
  /\ 100 * P1End(n) >= 20 * n
  /\ P1End(n) = 1 \/ 100 * (P1End(n) - 1) < 20 * n

(* The number of sentinel robots the deploy page shows before the operator *)
(* confirms is the number the backend really updates first.                *)
PlanMatchesDispatch(n) == SentinelCount(n) = P1End(n)

(* When the dispatch loop breaks out after a phase, no robot is left in a  *)
(* later phase: the early exit never strands a robot.                      *)
BreakStrandsNobody(n) ==
  \A p \in Phases : IsLastPhase(n, p) =>
     \A q \in Phases : q > p => PhaseDevices(n)[q] = {}

(* The adjustment at manager.go:82-84 is never needed: a fleet of two or   *)
(* more always has a second phase without it.                              *)
AdjustmentNeverNeeded(n) ==
  n >= 2 => ClampPhaseEnd(n, 60) > ClampPhaseEnd(n, 20)
=============================================================================
