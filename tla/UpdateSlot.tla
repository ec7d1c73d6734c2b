------------------------------ MODULE UpdateSlot ------------------------------
(***************************************************************************)
(* What a robot agent promises, without its state machine: one slot for an *)
(* update.  A handler takes the slot when it is free, goes through the     *)
(* stages in order or gives up at any of them, and only a handler that     *)
(* went through all of them may write the version it brought.  A rollback  *)
(* may write a version at any time, and a restart empties everything.      *)
(* RobotAgent implements this specification.                               *)
(***************************************************************************)
CONSTANTS Handlers, Versions, FactoryVersion

VARIABLES
  stage,    \* where each handler is with its update
  version   \* what the robot runs

slotVars == <<stage, version>>

Holding == {"interlock", "downloading", "verifying", "installing", "rebooting"}
Stages == Holding \union {"out", "done"}

Following ==
  [interlock |-> "downloading", downloading |-> "verifying", verifying |-> "installing",
   installing |-> "rebooting", rebooting |-> "done"]

Free == \A h \in Handlers : stage[h] \notin Holding

SlotInit ==
  /\ stage = [h \in Handlers |-> "out"]
  /\ version = FactoryVersion

Enter(h) ==
  /\ stage[h] = "out" /\ Free
  /\ stage' = [stage EXCEPT ![h] = "interlock"]
  /\ UNCHANGED version

Advance(h) ==
  /\ stage[h] \in Holding
  /\ stage' = [stage EXCEPT ![h] = Following[stage[h]]]
  /\ UNCHANGED version

GiveUp(h) ==
  /\ stage[h] \in Holding
  /\ stage' = [stage EXCEPT ![h] = "out"]
  /\ UNCHANGED version

Commit(h) ==
  /\ stage[h] = "done"
  /\ stage' = [stage EXCEPT ![h] = "out"]
  /\ version' \in Versions

Revert ==
  /\ version' \in Versions
  /\ UNCHANGED stage

Restart ==
  /\ stage' = [h \in Handlers |-> "out"]
  /\ version' = FactoryVersion

SlotNext ==
  \/ \E h \in Handlers : Enter(h) \/ Advance(h) \/ GiveUp(h) \/ Commit(h)
  \/ Revert \/ Restart

SlotSpec == SlotInit /\ [][SlotNext]_slotVars
=============================================================================
