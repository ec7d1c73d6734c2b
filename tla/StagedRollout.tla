---------------------------- MODULE StagedRollout ----------------------------
(***************************************************************************)
(* What a canary rollout promises about the order of its updates, without  *)
(* statements, messages or restarts.  Devices are released phase by phase, *)
(* and a phase is released only while the deployment is running and after  *)
(* every device of the phases before it was commanded.  A device is        *)
(* commanded only once it is released.  The deployment may end at any time *)
(* (and then releases nothing more), and the rest of a release may be      *)
(* withdrawn.  Rollout, with the strategy canary, implements this.         *)
(***************************************************************************)
EXTENDS CanaryPhases

CONSTANT N   \* bound on the number of target devices

VARIABLES
  status,     \* of the deployment
  total,      \* how many devices it targets
  released,   \* devices that may be commanded
  commanded   \* devices an update command was published to

stagedVars == <<status, total, released, commanded>>

StagedInit ==
  /\ status = "none" /\ total = 0
  /\ released = {} /\ commanded = {}

Create ==
  /\ status = "none"
  /\ status' = "pending" /\ total' \in 1..N
  /\ UNCHANGED <<released, commanded>>

(* The launch does not look at the status it overwrites, but it comes      *)
(* before any release.                                                     *)
Run ==
  /\ status # "none" /\ released = {}
  /\ status' = "running"
  /\ UNCHANGED <<total, released, commanded>>

Release(p) ==
  /\ status = "running" /\ released = commanded
  /\ \A q \in Phases : q < p => PhaseDevices(total)[q] \subseteq commanded
  /\ PhaseDevices(total)[p] # {} /\ PhaseDevices(total)[p] \intersect commanded = {}
  /\ released' = commanded \union PhaseDevices(total)[p]
  /\ UNCHANGED <<status, total, commanded>>

Command(d) ==
  /\ d \in released
  /\ commanded' = commanded \union {d}
  /\ UNCHANGED <<status, total, released>>

End ==
  /\ status # "none"
  /\ status' \in {"completed", "rolled_back"}
  /\ UNCHANGED <<total, released, commanded>>

Withdraw ==
  /\ released' = commanded
  /\ UNCHANGED <<status, total, commanded>>

StagedNext ==
  \/ Create \/ Run \/ End \/ Withdraw
  \/ \E p \in Phases : Release(p)
  \/ \E d \in 1..total : Command(d)

StagedSpec == StagedInit /\ [][StagedNext]_stagedVars
=============================================================================
