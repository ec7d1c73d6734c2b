--------------------------- MODULE VisibilityPolling ---------------------------
(***************************************************************************)
(* useVisibilityPolling (frontend/src/hooks/useVisibilityPolling.ts): the  *)
(* effect that polls the backend while the page is visible.  Every mount   *)
(* of a page runs the effect anew, with its own variables cancelled,       *)
(* running and timer; the requests of an earlier mount may still be under  *)
(* way.  Timers, visibility events and answers arrive in any order.        *)
(***************************************************************************)
EXTENDS Naturals

CONSTANT Mounts   \* bound on how often the page is mounted

ASSUME MountsAssumption == Mounts \in Nat

VARIABLES
  pollVisible,   \* document.visibilityState
  pollMount,     \* the number of the last mount
  pollEffect     \* the variables of each mount's effect

pollVars == <<pollVisible, pollMount, pollEffect>>

(* "timers" counts the timers that will fire: the variable timer names     *)
(* only the last one set.                                                  *)
Fresh == [live |-> FALSE, running |-> FALSE, timers |-> 0]

PollInit ==
  /\ pollVisible = TRUE
  /\ pollMount = 0
  /\ pollEffect = [m \in 1..Mounts |-> Fresh]

Effect(m) == pollEffect[m]
Become(m, e) == pollEffect' = [pollEffect EXCEPT ![m] = e]

(* schedule: nothing after the clean-up.                                   *)
Schedule(e) == IF e.live THEN [e EXCEPT !.timers = @ + 1] ELSE e

(* run: without effect after the clean-up and during a request; a hidden   *)
(* page only sets the timer again.                                         *)
Run(e) ==
  IF ~e.live \/ e.running THEN e
  ELSE IF ~pollVisible THEN Schedule(e)
  ELSE [e EXCEPT !.running = TRUE]

MountEffect ==
  /\ pollMount < Mounts
  /\ pollMount > 0 => ~Effect(pollMount).live
  /\ pollMount' = pollMount + 1
  /\ Become(pollMount', Schedule([Fresh EXCEPT !.live = TRUE]))
  /\ UNCHANGED pollVisible

(* The clean-up of the effect clears the pending timer.                    *)
UnmountEffect ==
  /\ pollMount > 0 /\ Effect(pollMount).live
  /\ Become(pollMount, [live |-> FALSE, running |-> Effect(pollMount).running, timers |-> 0])
  /\ UNCHANGED <<pollVisible, pollMount>>

RunTimer(m) ==
  /\ Effect(m).timers > 0
  /\ Become(m, Run([Effect(m) EXCEPT !.timers = @ - 1]))
  /\ UNCHANGED <<pollVisible, pollMount>>

(* Mutant of RunSettles: a failed callback sets no timer.                  *)
RunSettlesWhenFine(m) ==
  /\ Effect(m).running
  /\ \E e \in {[Effect(m) EXCEPT !.running = FALSE]} : Become(m, e) \/ Become(m, Schedule(e))
  /\ UNCHANGED <<pollVisible, pollMount>>

(* The callback settles, well or badly (finally).                          *)
RunSettles(m) ==
  /\ Effect(m).running
  /\ Become(m, Schedule([Effect(m) EXCEPT !.running = FALSE]))
  /\ UNCHANGED <<pollVisible, pollMount>>

(* Mutant of Shown: the pending timer is left in place.                    *)
ShownKeepsTimer ==
  /\ ~pollVisible /\ pollVisible' = TRUE
  /\ pollEffect' = [m \in 1..Mounts |->
       IF ~Effect(m).live \/ Effect(m).running THEN Effect(m)
       ELSE [Effect(m) EXCEPT !.running = TRUE]]
  /\ UNCHANGED pollMount

(* handleVisibilityChange: a page that becomes visible polls at once, in   *)
(* place of the pending timer, unless a request is under way.              *)
Shown ==
  /\ ~pollVisible /\ pollVisible' = TRUE
  /\ pollEffect' = [m \in 1..Mounts |->
       IF ~Effect(m).live \/ Effect(m).running THEN Effect(m)
       ELSE [live |-> TRUE, running |-> TRUE, timers |-> 0]]
  /\ UNCHANGED pollMount

Hidden ==
  /\ pollVisible /\ pollVisible' = FALSE
  /\ UNCHANGED <<pollMount, pollEffect>>

PollNext ==
  \/ MountEffect \/ UnmountEffect \/ Shown \/ Hidden
  \/ \E m \in 1..Mounts : RunTimer(m) \/ RunSettles(m)

(* Timers fire, and a request is answered or fails.                        *)
PollFairness == \A m \in 1..Mounts : WF_pollVars(RunTimer(m)) /\ WF_pollVars(RunSettles(m))

PollSpec == PollInit /\ [][PollNext]_pollVars /\ PollFairness

-----------------------------------------------------------------------------
PollTypeOK ==
  /\ pollVisible \in BOOLEAN /\ pollMount \in 0..Mounts
  /\ pollEffect \in [1..Mounts -> [live : BOOLEAN, running : BOOLEAN, timers : 0..1]]

(* "Runs polling sequentially [...] preventing overlapping API calls"      *)
(* (useVisibilityPolling.ts:8): a mounted page has one chain of polls,     *)
(* either waiting for its only timer or for its only request; it is never  *)
(* broken, and never doubled by a visibility event that meets a timer.     *)
OneChain ==
  \A m \in 1..Mounts :
    LET e == Effect(m)
    IN  IF e.live THEN e.timers + (IF e.running THEN 1 ELSE 0) = 1 ELSE e.timers = 0

(* Polling goes on: a page that stays mounted and visible sends a request  *)
(* again and again (only the last mount is ever live, by OneChain).        *)
KeepsPolling ==
  []<>(pollMount > 0 => Effect(pollMount).running \/ ~Effect(pollMount).live \/ ~pollVisible)
=============================================================================
