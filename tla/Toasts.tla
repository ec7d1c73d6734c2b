-------------------------------- MODULE Toasts --------------------------------
(***************************************************************************)
(* The notifications of the dashboard (frontend context/ToastContext.tsx). *)
(* Every page shows its results through them, from callbacks that complete *)
(* in any order; each notification has a timer that outlives its place in  *)
(* the list.                                                               *)
(***************************************************************************)
EXTENDS Naturals, Sequences, SequencesExt

CONSTANTS
  MaxToasts,   \* bound on how many are ever shown
  OnScreen     \* how many are kept, five in the code

ASSUME ToastAssumption == OnScreen \in Nat

VARIABLES
  toasts,    \* the list, the newest first; a notification is its number
  timers,    \* the notifications whose timer has not fired
  shown      \* how many were shown

toastVars == <<toasts, timers, shown>>

ToastInit == toasts = <<>> /\ timers = {} /\ shown = 0

(* removeToast filters by the id; no two notifications have the same.      *)
Without(id) ==
  IF Contains(toasts, id) THEN RemoveAt(toasts, CHOOSE i \in DOMAIN toasts : toasts[i] = id)
  ELSE toasts
Newest(list) == SubSeq(list, 1, IF Len(list) < OnScreen THEN Len(list) ELSE OnScreen)

(* A duration of 0 keeps a notification until it is closed or pushed out.  *)
ShowToast(timed) ==
  /\ shown < MaxToasts /\ shown' = shown + 1
  /\ toasts' = Newest(<<shown'>> \o toasts)
  /\ timers' = IF timed THEN timers \union {shown'} ELSE timers

(* Mutant of ToastExpires: the oldest one is taken, whosever timer it was. *)
ToastDropsOldest(id) ==
  /\ id \in timers /\ timers' = timers \ {id}
  /\ toasts' = IF toasts = <<>> THEN toasts ELSE Front(toasts)
  /\ UNCHANGED shown

ToastExpires(id) ==
  /\ id \in timers /\ timers' = timers \ {id}
  /\ toasts' = Without(id)
  /\ UNCHANGED shown

(* The close button of a notification on the screen.                       *)
CloseToast(id) ==
  /\ Contains(toasts, id)
  /\ toasts' = Without(id)
  /\ UNCHANGED <<timers, shown>>

ToastNext ==
  \/ \E timed \in BOOLEAN : ShowToast(timed)
  \/ \E id \in 1..MaxToasts : ToastExpires(id) \/ CloseToast(id)

ToastFairness == \A id \in 1..MaxToasts : WF_toastVars(ToastExpires(id))

ToastSpec == ToastInit /\ [][ToastNext]_toastVars /\ ToastFairness

-----------------------------------------------------------------------------
(* The list holds the newest notifications that are still wanted, newest   *)
(* first, and never the same one twice.                                    *)
ToastTypeOK ==
  /\ timers \subseteq 1..shown /\ Len(toasts) <= OnScreen
  /\ \A i \in DOMAIN toasts : toasts[i] \in 1..shown /\ \A j \in 1..(i - 1) : toasts[j] > toasts[i]

(* A notification leaves the screen for three reasons only: its own timer, *)
(* its own close button, or as many newer ones as the screen holds.  The   *)
(* timer of one that was pushed out or closed early takes nobody else      *)
(* along.                                                                  *)
LeavesForItsOwnReason ==
  [][\A id \in 1..MaxToasts : Contains(toasts, id) /\ ~Contains(toasts', id) =>
       \/ timers' = timers \ {id} /\ id \in timers
       \/ toasts' = Without(id) /\ timers' = timers
       \/ Len(toasts') = OnScreen /\ \A i \in DOMAIN toasts' : toasts'[i] > id]_toastVars
=============================================================================
