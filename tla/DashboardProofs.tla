--------------------------- MODULE DashboardProofs ---------------------------
(***************************************************************************)
(* The hooks, widgets and pages of the dashboard: the polling chain, the   *)
(* notifications, the focus of a dialog, the launch, the monitor, the list *)
(* of releases and the fleet, each for any number of robots, releases,     *)
(* requests and mounts, and the types of all of them side by side.         *)
(***************************************************************************)
EXTENDS MCDashboard, FiniteSetTheorems, SequenceTheorems, TLAPS

Effects == [live : BOOLEAN, running : BOOLEAN, timers : Int]

(* An effect of a mounted page waits for its timer or for its request; one *)
(* of a page that was left may wait for a last answer, and sets no timer.  *)
Chain(e) ==
  IF e.live THEN \/ e.running /\ e.timers = 0
                 \/ ~e.running /\ e.timers = 1
  ELSE e.timers = 0

PollInv ==
  /\ pollEffect \in [1..Mounts -> Effects]
  /\ \A m \in 1..Mounts : Chain(pollEffect[m])

-----------------------------------------------------------------------------
(* The chain is kept by what happens to an effect.                         *)
LEMMA ScheduleKeeps ==
  ASSUME NEW e \in Effects, ~e.running, e.timers = 0
  PROVE  Schedule(e) \in Effects /\ Chain(Schedule(e))
<1>1. CASE e.live
  <2> DEFINE f == [e EXCEPT !.timers = @ + 1]
  <2>1. Schedule(e) = f
    BY <1>1 DEF Schedule
  <2>2. f \in Effects
    BY DEF Effects
  <2>3. ~f.running /\ f.timers = 1
    BY DEF Effects
  <2>4. f.live
    BY <1>1 DEF Effects
  <2> HIDE DEF f
  <2>5. Chain(f)
    BY <2>3, <2>4 DEF Chain
  <2>6. QED
    BY <2>1, <2>2, <2>5
<1>2. CASE ~e.live
  BY <1>2 DEF Schedule, Chain
<1>3. QED
  BY <1>1, <1>2

LEMMA EndingKeeps ==
  ASSUME NEW e \in Effects, Chain(e), e.running
  PROVE  /\ Schedule([e EXCEPT !.running = FALSE]) \in Effects
         /\ Chain(Schedule([e EXCEPT !.running = FALSE]))
<1> DEFINE f == [e EXCEPT !.running = FALSE]
<1>1. f \in Effects
  BY DEF Effects
<1>2. ~f.running
  BY DEF Effects
<1>3. f.timers = 0
  BY DEF Effects, Chain
<1> HIDE DEF f
<1>4. Schedule(f) \in Effects /\ Chain(Schedule(f))
  BY <1>1, <1>2, <1>3, ScheduleKeeps
<1>5. QED
  BY <1>4 DEF f

LEMMA FiringKeeps ==
  ASSUME NEW e \in Effects, Chain(e), e.timers > 0
  PROVE  /\ Run([e EXCEPT !.timers = @ - 1]) \in Effects
         /\ Chain(Run([e EXCEPT !.timers = @ - 1]))
<1> DEFINE f == [e EXCEPT !.timers = @ - 1]
<1>1. f \in Effects
  BY DEF Effects
<1>2. e.live /\ ~e.running /\ e.timers = 1
  BY DEF Chain, Effects
<1>3. f.live
  BY <1>2 DEF Effects
<1>4. ~f.running /\ f.timers = 0
  BY <1>2 DEF Effects
<1> HIDE DEF f
<1>5. CASE pollVisible
  <2>1. Run(f) = [f EXCEPT !.running = TRUE]
    BY <1>3, <1>4, <1>5 DEF Run
  <2>2. [f EXCEPT !.running = TRUE] \in Effects
    BY <1>1 DEF Effects
  <2>3. [f EXCEPT !.running = TRUE].running /\ [f EXCEPT !.running = TRUE].timers = 0
    BY <1>1, <1>4 DEF Effects
  <2>4. QED
    BY <2>1, <2>2, <2>3 DEF Chain, f
<1>6. CASE ~pollVisible
  <2>1. Run(f) = Schedule(f)
    BY <1>3, <1>4, <1>6 DEF Run
  <2>2. Schedule(f) \in Effects /\ Chain(Schedule(f))
    BY <1>1, <1>4, ScheduleKeeps
  <2>3. QED
    BY <2>1, <2>2 DEF f
<1>7. QED
  BY <1>5, <1>6

-----------------------------------------------------------------------------
(* It is enough to look at the effect that a step replaces.                *)
LEMMA BecomeKeeps ==
  ASSUME PollInv, NEW k, NEW e \in Effects, Chain(e), pollEffect' = [pollEffect EXCEPT ![k] = e]
  PROVE  PollInv'
<1>1. pollEffect' \in [1..Mounts -> Effects]
  BY DEF PollInv
<1>2. ASSUME NEW m \in 1..Mounts
      PROVE  pollEffect'[m] = e \/ pollEffect'[m] = pollEffect[m]
  BY DEF PollInv
<1>3. ASSUME NEW m \in 1..Mounts
      PROVE  Chain(pollEffect'[m])
  <2>1. CASE pollEffect'[m] = e
    BY <2>1
  <2>2. CASE pollEffect'[m] = pollEffect[m]
    BY <2>2 DEF PollInv
  <2>3. QED
    BY <1>2, <2>1, <2>2
<1>4. QED
  BY <1>1, <1>3 DEF PollInv

LEMMA PollStep == PollInv /\ [PollNext]_pollVars => PollInv'
<1> SUFFICES ASSUME PollInv, [PollNext]_pollVars
             PROVE  PollInv'
  OBVIOUS
<1>1. CASE MountEffect
  <2> DEFINE e == [Fresh EXCEPT !.live = TRUE]
  <2>1. Fresh \in Effects
    BY DEF Fresh, Effects
  <2>2. e \in Effects /\ ~e.running /\ e.timers = 0
    <3>1. ~Fresh.running /\ Fresh.timers = 0
      BY DEF Fresh
    <3>2. QED
      BY <2>1, <3>1 DEF Effects
  <2> HIDE DEF e
  <2>3. Schedule(e) \in Effects /\ Chain(Schedule(e))
    BY <2>2, ScheduleKeeps
  <2>4. pollEffect' = [pollEffect EXCEPT ![pollMount'] = Schedule(e)]
    BY <1>1 DEF MountEffect, Become, e
  <2>5. QED
    BY <2>3, <2>4, BecomeKeeps
<1>2. CASE UnmountEffect
  <2> DEFINE e == [live |-> FALSE, running |-> Effect(pollMount).running, timers |-> 0]
  <2>1. pollEffect' = [pollEffect EXCEPT ![pollMount] = e]
    BY <1>2 DEF UnmountEffect, Become
  <2>2. CASE pollMount \in 1..Mounts
    <3>1. Effect(pollMount).running \in BOOLEAN
      BY <2>2 DEF PollInv, Effects, Effect
    <3>2. e \in Effects /\ Chain(e)
      BY <3>1 DEF Effects, Chain
    <3>3. QED
      BY <2>1, <3>2, BecomeKeeps
  <2>3. CASE pollMount \notin 1..Mounts
    BY <2>1, <2>3 DEF PollInv
  <2>4. QED
    BY <2>2, <2>3
<1>3. CASE Shown
  <2> DEFINE e == [live |-> TRUE, running |-> TRUE, timers |-> 0]
  <2>1. e \in Effects /\ Chain(e)
    BY DEF Effects, Chain
  <2> HIDE DEF e
  <2>2. pollEffect' = [m \in 1..Mounts |->
          IF ~Effect(m).live \/ Effect(m).running THEN Effect(m) ELSE e]
    BY <1>3 DEF Shown, e
  <2>3. \A m \in 1..Mounts : pollEffect'[m] = pollEffect[m] \/ pollEffect'[m] = e
    BY <2>2 DEF Effect
  <2>4. pollEffect' \in [1..Mounts -> Effects]
    BY <2>1, <2>2 DEF PollInv, Effect
  <2>5. ASSUME NEW m \in 1..Mounts
        PROVE  Chain(pollEffect'[m])
    <3>1. CASE pollEffect'[m] = e
      BY <2>1, <3>1
    <3>2. CASE pollEffect'[m] = pollEffect[m]
      BY <3>2 DEF PollInv
    <3>3. QED
      BY <2>3, <3>1, <3>2
  <2>6. QED
    BY <2>4, <2>5 DEF PollInv
<1>4. CASE Hidden \/ UNCHANGED pollVars
  BY <1>4 DEF Hidden, pollVars, PollInv
<1>5. ASSUME NEW m \in 1..Mounts, RunTimer(m)
      PROVE  PollInv'
  <2>1. pollEffect[m] \in Effects /\ Chain(pollEffect[m]) /\ pollEffect[m].timers > 0
    BY <1>5 DEF PollInv, RunTimer, Effect
  <2> DEFINE e == Run([pollEffect[m] EXCEPT !.timers = @ - 1])
  <2>2. e \in Effects /\ Chain(e)
    BY <2>1, FiringKeeps
  <2>3. pollEffect' = [pollEffect EXCEPT ![m] = e]
    BY <1>5 DEF RunTimer, Become, Effect
  <2>4. QED
    BY <2>2, <2>3, BecomeKeeps
<1>6. ASSUME NEW m \in 1..Mounts, RunSettles(m)
      PROVE  PollInv'
  <2>1. pollEffect[m] \in Effects /\ Chain(pollEffect[m]) /\ pollEffect[m].running
    BY <1>6 DEF PollInv, RunSettles, Effect
  <2> DEFINE e == Schedule([pollEffect[m] EXCEPT !.running = FALSE])
  <2>2. e \in Effects /\ Chain(e)
    BY <2>1, EndingKeeps
  <2>3. pollEffect' = [pollEffect EXCEPT ![m] = e]
    BY <1>6 DEF RunSettles, Become, Effect
  <2>4. QED
    BY <2>2, <2>3, BecomeKeeps
<1>7. QED
  BY <1>1, <1>2, <1>3, <1>4, <1>5, <1>6 DEF PollNext

(* What the variables hold besides.                                        *)
PollWide == PollInv /\ pollVisible \in BOOLEAN /\ pollMount \in 0..Mounts

LEMMA PollInitially == PollInit => PollWide
<1>1. Fresh \in Effects /\ Chain(Fresh)
  BY DEF Fresh, Effects, Chain
<1>2. QED
  BY <1>1, MountsAssumption DEF PollInit, PollInv, PollWide

LEMMA PollWideStep == PollWide /\ [PollNext]_pollVars => PollWide'
<1> SUFFICES ASSUME PollWide, [PollNext]_pollVars
             PROVE  PollWide'
  OBVIOUS
<1>1. PollInv'
  BY PollStep DEF PollWide
<1>2. pollVisible' \in BOOLEAN
  BY DEF PollWide, PollNext, MountEffect, UnmountEffect, Shown, Hidden, RunTimer, RunSettles, pollVars
<1>3. pollMount' = pollMount \/ (pollMount < Mounts /\ pollMount' = pollMount + 1)
  BY DEF PollNext, MountEffect, UnmountEffect, Shown, Hidden, RunTimer, RunSettles, pollVars
<1>4. pollMount' \in 0..Mounts
  BY <1>3, MountsAssumption DEF PollWide
<1>5. QED
  BY <1>1, <1>2, <1>4 DEF PollWide

LEMMA PollTyped == PollWide => PollTypeOK
<1> SUFFICES ASSUME PollWide
             PROVE  PollTypeOK
  OBVIOUS
<1>1. ASSUME NEW e \in Effects, Chain(e)
      PROVE  e \in [live : BOOLEAN, running : BOOLEAN, timers : 0..1]
  <2>1. e.timers \in 0..1
    BY <1>1 DEF Chain
  <2>2. QED
    BY <2>1 DEF Effects
<1>2. pollEffect \in [1..Mounts -> [live : BOOLEAN, running : BOOLEAN, timers : 0..1]]
  BY <1>1 DEF PollWide, PollInv
<1>3. QED
  BY <1>2 DEF PollWide, PollTypeOK

(* A page polls in one chain, which is neither broken nor doubled, however *)
(* often the page is mounted: useVisibilityPolling never overlaps its      *)
(* requests within a mount, and an unmounted page sets no timer.           *)
THEOREM PollsInOneChain == PollSpec => []OneChain
<1>1. PollWide => OneChain
  <2> SUFFICES ASSUME PollWide, NEW m \in 1..Mounts
               PROVE  IF Effect(m).live
                      THEN Effect(m).timers + (IF Effect(m).running THEN 1 ELSE 0) = 1
                      ELSE Effect(m).timers = 0
    BY DEF OneChain
  <2>1. Effect(m) \in Effects /\ Chain(Effect(m))
    BY DEF PollInv, PollWide, Effect
  <2>2. QED
    BY <2>1 DEF Chain, Effects
<1>2. QED
  BY <1>1, PollInitially, PollWideStep, PTL DEF PollSpec

-----------------------------------------------------------------------------
(* The notifications (module Toasts).                                      *)
(* A list of numbers that fall from the front to the back.                 *)
Falling(list, top) ==
  /\ list \in Seq(Nat)
  /\ \A i \in 1..Len(list) : list[i] \in 1..top /\ \A j \in 1..(i - 1) : list[j] > list[i]

ToastInv ==
  /\ shown \in Nat /\ timers \subseteq 1..shown
  /\ Falling(toasts, shown) /\ Len(toasts) <= OnScreen

-----------------------------------------------------------------------------
(* The list without one of its members.                                    *)
LEMMA RemovalKeeps ==
  ASSUME NEW top \in Nat, NEW list, Falling(list, top), NEW i \in 1..Len(list)
  PROVE  /\ Falling(RemoveAt(list, i), top) /\ Len(RemoveAt(list, i)) = Len(list) - 1
         /\ \A j \in 1..Len(list) : list[j] # list[i] => Contains(RemoveAt(list, i), list[j])
<1>1. list \in Seq(Nat) /\ Len(list) \in Nat /\ i \in Nat
  BY DEF Falling
<1>2. PICK front, back : front = SubSeq(list, 1, i - 1) /\ back = SubSeq(list, i + 1, Len(list))
  OBVIOUS
<1>3. /\ front \in Seq(Nat) /\ Len(front) = i - 1
      /\ \A k \in 1..(i - 1) : front[k] = list[k]
  <2>1. \A k \in 1..(i - 1) : list[k] \in Nat
    BY <1>1
  <2>2. QED
    BY <1>1, <1>2, <2>1, SubSeqProperties
<1>4. /\ back \in Seq(Nat) /\ Len(back) = Len(list) - i
      /\ \A k \in 1..(Len(list) - i) : back[k] = list[i + k]
  <2>1. \A k \in (i + 1)..Len(list) : list[k] \in Nat
    BY <1>1
  <2>2. /\ back \in Seq(Nat)
        /\ Len(back) = IF i + 1 <= Len(list) THEN Len(list) - (i + 1) + 1 ELSE 0
        /\ \A k \in 1..(Len(list) - (i + 1) + 1) : back[k] = list[i + 1 + k - 1]
    BY <1>1, <1>2, <2>1, SubSeqProperties
  <2>3. Len(back) = Len(list) - i /\ Len(list) - (i + 1) + 1 = Len(list) - i
    BY <1>1, <2>2
  <2>4. \A k \in 1..(Len(list) - i) : i + 1 + k - 1 = i + k
    BY <1>1
  <2>5. \A k \in 1..(Len(list) - i) : back[k] = list[i + k]
    BY <2>2, <2>3, <2>4
  <2>6. QED
    BY <2>2, <2>3, <2>5
<1>5. PICK less : less = front \o back
  OBVIOUS
<1>6. /\ less \in Seq(Nat) /\ Len(less) = Len(list) - 1
      /\ \A k \in 1..(Len(list) - 1) : less[k] = IF k <= i - 1 THEN front[k] ELSE back[k - (i - 1)]
  <2>1. Len(front) = i - 1 /\ Len(front) + Len(back) = Len(list) - 1
    BY <1>1, <1>3, <1>4
  <2>2. /\ less \in Seq(Nat) /\ Len(less) = Len(front) + Len(back)
        /\ \A k \in 1..(Len(front) + Len(back)) :
             less[k] = IF k <= Len(front) THEN front[k] ELSE back[k - Len(front)]
    BY <1>3, <1>4, <1>5, ConcatProperties, Zenon
  <2>3. QED
    BY <2>1, <2>2, Zenon
<1>7. \A k \in 1..(Len(list) - 1) : less[k] = IF k < i THEN list[k] ELSE list[k + 1]
  <2> SUFFICES ASSUME NEW k \in 1..(Len(list) - 1)
               PROVE  less[k] = IF k < i THEN list[k] ELSE list[k + 1]
    OBVIOUS
  <2>1. CASE k < i
    BY <1>1, <1>3, <1>6, <2>1
  <2>2. CASE ~(k < i)
    <3>1. /\ k - (i - 1) \in 1..(Len(list) - i) /\ i + (k - (i - 1)) = k + 1
          /\ ~(k <= i - 1)
      BY <1>1, <2>2
    <3>2. back[k - (i - 1)] = list[k + 1]
      BY <1>4, <3>1
    <3>3. less[k] = back[k - (i - 1)]
      BY <1>6, <3>1
    <3>4. QED
      BY <2>2, <3>2, <3>3
  <2>3. QED
    BY <2>1, <2>2
<1>8. \A k \in 1..Len(less) : less[k] \in 1..top /\ \A j \in 1..(k - 1) : less[j] > less[k]
  <2> SUFFICES ASSUME NEW k \in 1..(Len(list) - 1)
               PROVE  less[k] \in 1..top /\ \A j \in 1..(k - 1) : less[j] > less[k]
    BY <1>6
  <2>1. PICK x \in 1..Len(list) : less[k] = list[x] /\ x = IF k < i THEN k ELSE k + 1
    BY <1>1, <1>7
  <2>2. list[x] \in 1..top /\ \A y \in 1..(x - 1) : list[y] > list[x]
    BY DEF Falling
  <2>3. ASSUME NEW j \in 1..(k - 1)
        PROVE  less[j] > less[k]
    <3>1. PICK y \in 1..(x - 1) : less[j] = list[y]
      <4>1. j \in 1..(Len(list) - 1)
        <5>1. /\ k \in Int /\ j \in Int /\ Len(list) \in Int
              /\ 1 <= j /\ j <= k - 1 /\ k <= Len(list) - 1
          BY <1>1
        <5>2. QED
          BY <5>1
      <4>2. CASE j < i
        <5>1. less[j] = list[j] /\ (x = k \/ x = k + 1)
          BY <1>7, <2>1, <4>1, <4>2
        <5>2. k \in Int /\ j \in Int /\ 1 <= j /\ j <= k - 1
          BY <1>1
        <5>3. j \in 1..(x - 1)
          BY <5>1, <5>2
        <5>4. QED
          BY <5>1, <5>3
      <4>3. CASE ~(j < i)
        <5>1. j + 1 \in 1..(x - 1)
          BY <1>1, <2>1, <4>3
        <5>2. QED
          BY <1>7, <4>1, <4>3, <5>1
      <4>4. QED
        BY <4>2, <4>3
    <3>2. QED
      BY <2>1, <2>2, <3>1
  <2>4. QED
    BY <2>1, <2>2, <2>3
<1>9. ASSUME NEW j \in 1..Len(list), list[j] # list[i]
      PROVE  Contains(less, list[j])
  <2>1. CASE j < i
    <3>1. j \in 1..(Len(list) - 1) /\ less[j] = list[j]
      BY <1>1, <1>7, <2>1
    <3>2. QED
      BY <1>6, <3>1 DEF Contains
  <2>2. CASE ~(j < i)
    <3>1. j > i
      BY <1>1, <1>9, <2>2
    <3>2. j - 1 \in 1..(Len(list) - 1) /\ ~(j - 1 < i) /\ j - 1 + 1 = j
      BY <1>1, <3>1
    <3>3. less[j - 1] = list[j]
      BY <1>7, <3>2
    <3>4. QED
      BY <1>6, <3>2, <3>3 DEF Contains
  <2>3. QED
    BY <2>1, <2>2
<1>10. RemoveAt(list, i) = less
  BY <1>2, <1>5 DEF RemoveAt
<1>11. QED
  BY <1>6, <1>8, <1>9, <1>10 DEF Falling

(* removeToast.                                                            *)
LEMMA WithoutKeeps ==
  ASSUME ToastInv, NEW id
  PROVE  /\ Falling(Without(id), shown) /\ Len(Without(id)) <= OnScreen
         /\ \A x : Contains(toasts, x) /\ x # id => Contains(Without(id), x)
<1>1. toasts \in Seq(Nat) /\ Len(toasts) \in Nat /\ DOMAIN toasts = 1..Len(toasts)
  BY DEF ToastInv, Falling
<1>2. CASE Contains(toasts, id)
  <2>1. PICK i \in 1..Len(toasts) : toasts[i] = id /\ Without(id) = RemoveAt(toasts, i)
    <3>1. \E i \in DOMAIN toasts : toasts[i] = id
      BY <1>1, <1>2 DEF Contains
    <3>2. QED
      BY <1>1, <1>2, <3>1 DEF Without
  <2>2. /\ Falling(Without(id), shown) /\ Len(Without(id)) = Len(toasts) - 1
        /\ \A j \in 1..Len(toasts) : toasts[j] # id => Contains(Without(id), toasts[j])
    BY <2>1, RemovalKeeps DEF ToastInv
  <2>3. Len(Without(id)) <= OnScreen
    BY <1>1, <2>2, ToastAssumption DEF ToastInv
  <2>4. ASSUME NEW x, Contains(toasts, x), x # id
        PROVE  Contains(Without(id), x)
    <3>1. PICK j \in 1..Len(toasts) : toasts[j] = x
      BY <2>4 DEF Contains
    <3>2. QED
      BY <2>2, <2>4, <3>1
  <2>5. QED
    BY <2>2, <2>3, <2>4
<1>3. CASE ~Contains(toasts, id)
  BY <1>3 DEF Without, ToastInv
<1>4. QED
  BY <1>2, <1>3

(* showToast: the list of the newest ones.                                 *)
LEMMA ShowKeeps ==
  ASSUME ToastInv, NEW list, list = Newest(<<shown + 1>> \o toasts)
  PROVE  /\ Falling(list, shown + 1) /\ Len(list) <= OnScreen
         /\ \A x : Contains(toasts, x) /\ ~Contains(list, x) =>
              Len(list) = OnScreen /\ \A i \in 1..Len(list) : list[i] > x
<1>1. /\ toasts \in Seq(Nat) /\ Len(toasts) \in Nat /\ shown \in Nat /\ OnScreen \in Nat
      /\ Len(toasts) <= OnScreen
  BY ToastAssumption DEF ToastInv, Falling
<1>2. PICK long : long = <<shown + 1>> \o toasts
  OBVIOUS
<1>3. /\ long \in Seq(Nat) /\ Len(long) = Len(toasts) + 1
      /\ long[1] = shown + 1 /\ \A k \in 1..Len(toasts) : long[k + 1] = toasts[k]
  <2>1. <<shown + 1>> \in Seq(Nat) /\ Len(<<shown + 1>>) = 1 /\ <<shown + 1>>[1] = shown + 1
    BY <1>1
  <2>2. /\ long \in Seq(Nat) /\ Len(long) = 1 + Len(toasts)
        /\ \A k \in 1..(1 + Len(toasts)) : long[k] = IF k <= 1 THEN <<shown + 1>>[k] ELSE toasts[k - 1]
    BY <1>1, <1>2, <2>1, ConcatProperties
  <2>3. \A k \in 1..Len(toasts) : k + 1 \in 1..(1 + Len(toasts)) /\ ~(k + 1 <= 1) /\ k + 1 - 1 = k
    BY <1>1
  <2>4. long[1] = shown + 1
    BY <1>1, <2>1, <2>2
  <2>5. \A k \in 1..Len(toasts) : long[k + 1] = toasts[k]
    BY <2>2, <2>3
  <2>6. QED
    BY <1>1, <2>2, <2>4, <2>5
<1>4. \A k \in 1..Len(toasts) : toasts[k] \in 1..shown /\ \A j \in 1..(k - 1) : toasts[j] > toasts[k]
  BY DEF ToastInv, Falling
<1>5. PICK n \in Nat : n = IF Len(long) < OnScreen THEN Len(long) ELSE OnScreen
  BY <1>1, <1>3
<1>6. /\ list \in Seq(Nat) /\ Len(list) = n /\ \A k \in 1..n : list[k] = long[k]
  <2>1. list = SubSeq(long, 1, n) /\ n <= Len(long)
    BY <1>1, <1>2, <1>3, <1>5 DEF Newest
  <2>2. \A k \in 1..n : long[k] \in Nat
    BY <1>3, <1>5, <2>1
  <2>3. 1 \in Int /\ n \in Int /\ \A k \in 1..n : long[k] \in Nat
    BY <1>5, <2>2
  <2>4. /\ SubSeq(long, 1, n) \in Seq(Nat)
        /\ Len(SubSeq(long, 1, n)) = IF 1 <= n THEN n - 1 + 1 ELSE 0
        /\ \A k \in 1..(n - 1 + 1) : SubSeq(long, 1, n)[k] = long[1 + k - 1]
    BY <2>3, SubSeqProperties
  <2>5. n - 1 + 1 = n /\ (IF 1 <= n THEN n - 1 + 1 ELSE 0) = n /\ \A k \in 1..n : 1 + k - 1 = k
    BY <1>5
  <2>6. QED
    BY <2>1, <2>4, <2>5
<1>7. \A k \in 1..Len(long) : long[k] \in 1..(shown + 1) /\ \A j \in 1..(k - 1) : long[j] > long[k]
  <2> SUFFICES ASSUME NEW k \in 1..Len(long)
               PROVE  long[k] \in 1..(shown + 1) /\ \A j \in 1..(k - 1) : long[j] > long[k]
    OBVIOUS
  <2>1. CASE k = 1
    BY <1>1, <1>3, <2>1
  <2>2. CASE k # 1
    <3>1. k - 1 \in 1..Len(toasts) /\ k - 1 + 1 = k
      BY <1>1, <1>3, <2>2
    <3>2. long[k] = toasts[k - 1] /\ toasts[k - 1] \in 1..shown
      BY <1>3, <1>4, <3>1
    <3>3. ASSUME NEW j \in 1..(k - 1)
          PROVE  long[j] > long[k]
      <4>1. CASE j = 1
        BY <1>1, <1>3, <3>2, <4>1
      <4>2. CASE j # 1
        <5>1. j - 1 \in 1..(k - 1 - 1) /\ j - 1 \in 1..Len(toasts) /\ j - 1 + 1 = j
          BY <1>1, <3>1, <4>2
        <5>2. long[j] = toasts[j - 1] /\ toasts[j - 1] > toasts[k - 1]
          BY <1>3, <1>4, <3>1, <5>1
        <5>3. QED
          BY <3>2, <5>2
      <4>3. QED
        BY <4>1, <4>2
    <3>4. long[k] \in 1..(shown + 1)
      BY <1>1, <3>2
    <3>5. QED
      BY <3>3, <3>4
  <2>3. QED
    BY <2>1, <2>2
<1>8. n <= Len(long)
  BY <1>1, <1>3, <1>5
<1>9. Falling(list, shown + 1)
  <2>1. 1..n \subseteq 1..Len(long) /\ \A k \in 1..n : 1..(k - 1) \subseteq 1..n
    BY <1>5, <1>8
  <2>2. \A k \in 1..n : list[k] = long[k] /\ \A j \in 1..(k - 1) : list[j] = long[j]
    BY <1>6, <2>1
  <2>3. \A k \in 1..n : list[k] \in 1..(shown + 1) /\ \A j \in 1..(k - 1) : list[j] > list[k]
    BY <1>7, <2>1, <2>2
  <2>4. QED
    BY <1>6, <2>3 DEF Falling
<1>10. Len(list) <= OnScreen
  BY <1>1, <1>3, <1>5, <1>6
<1>11. ASSUME NEW x, Contains(toasts, x), ~Contains(list, x)
       PROVE  Len(list) = OnScreen /\ \A i \in 1..Len(list) : list[i] > x
  <2>1. PICK k \in 1..Len(toasts) : toasts[k] = x
    BY <1>11 DEF Contains
  <2>2. k + 1 \in 1..Len(long) /\ long[k + 1] = x
    BY <1>1, <1>3, <2>1
  <2>3. ~(k + 1 <= n)
    BY <1>5, <1>6, <1>11, <2>2 DEF Contains
  <2>4. \A i \in 1..n : long[i] > long[k + 1]
    <3>1. n \in Nat /\ k \in Nat /\ n <= k
      BY <1>1, <1>5, <2>3
    <3>2. k + 1 - 1 = k
      BY <3>1
    <3>3. \A i \in 1..n : i \in 1..k
      BY <3>1
    <3>4. \A j \in 1..k : long[j] > long[k + 1]
      BY <1>7, <2>2, <3>2
    <3>5. QED
      BY <3>3, <3>4
  <2>5. \A i \in 1..n : list[i] > x
    BY <1>6, <2>2, <2>4
  <2>6. n = OnScreen
    BY <1>1, <1>3, <1>5, <2>2, <2>3
  <2>7. QED
    BY <1>6, <2>5, <2>6
<1>12. QED
  BY <1>9, <1>10, <1>11

LEMMA ToastStep == ToastInv /\ [ToastNext]_toastVars => ToastInv'
<1> SUFFICES ASSUME ToastInv, [ToastNext]_toastVars
             PROVE  ToastInv'
  OBVIOUS
<1>1. ASSUME NEW timed \in BOOLEAN, ShowToast(timed)
      PROVE  ToastInv'
  <2>1. shown' = shown + 1 /\ shown \in Nat /\ timers \subseteq 1..shown
    BY <1>1 DEF ShowToast, ToastInv
  <2>2. Falling(toasts', shown + 1) /\ Len(toasts') <= OnScreen
    BY <1>1, <2>1, ShowKeeps DEF ShowToast
  <2>3. timers' \subseteq 1..(shown + 1)
    <3>1. \A x \in 1..shown : x \in 1..(shown + 1)
      BY <2>1
    <3>2. timers' \subseteq timers \union {shown + 1} /\ shown + 1 \in 1..(shown + 1)
      BY <1>1, <2>1 DEF ShowToast
    <3>3. QED
      BY <2>1, <3>1, <3>2
  <2>4. QED
    BY <2>1, <2>2, <2>3 DEF ToastInv
<1>2. ASSUME NEW id, ToastExpires(id) \/ CloseToast(id)
      PROVE  ToastInv'
  <2>1. toasts' = Without(id) /\ shown' = shown /\ timers' \subseteq timers
    BY <1>2 DEF ToastExpires, CloseToast
  <2>2. QED
    BY <2>1, WithoutKeeps DEF ToastInv
<1>3. CASE UNCHANGED toastVars
  BY <1>3 DEF toastVars, ToastInv
<1>4. QED
  BY <1>1, <1>2, <1>3 DEF ToastNext

LEMMA ToastInitially == ToastInit => ToastInv
BY EmptySeq, ToastAssumption DEF ToastInit, ToastInv, Falling

(* Who leaves does so for a reason of its own.                             *)
LEMMA ToastLeaves ==
  ASSUME ToastInv, ToastNext, NEW id, Contains(toasts, id), ~Contains(toasts', id)
  PROVE  \/ timers' = timers \ {id} /\ id \in timers
         \/ toasts' = Without(id) /\ timers' = timers
         \/ Len(toasts') = OnScreen /\ \A i \in DOMAIN toasts' : toasts'[i] > id
<1>1. ASSUME NEW timed \in BOOLEAN, ShowToast(timed)
      PROVE  Len(toasts') = OnScreen /\ \A i \in DOMAIN toasts' : toasts'[i] > id
  <2>1. toasts' = Newest(<<shown + 1>> \o toasts)
    BY <1>1 DEF ShowToast
  <2>2. Falling(toasts', shown + 1) /\ Len(toasts') = OnScreen /\ \A i \in 1..Len(toasts') : toasts'[i] > id
    BY <2>1, ShowKeeps
  <2>3. DOMAIN toasts' = 1..Len(toasts')
    BY <2>2 DEF Falling
  <2>4. QED
    BY <2>2, <2>3
<1>2. ASSUME NEW other, ToastExpires(other) \/ CloseToast(other)
      PROVE  other = id
  <2>1. toasts' = Without(other)
    BY <1>2 DEF ToastExpires, CloseToast
  <2>2. QED
    BY <2>1, WithoutKeeps
<1>3. QED
  BY <1>1, <1>2 DEF ToastNext, ToastExpires, CloseToast

(* A notification leaves by its own timer, its own close button, or for    *)
(* as many newer ones as the screen holds (ToastContext.tsx).              *)
THEOREM ToastsLeaveForReasons == ToastSpec => LeavesForItsOwnReason
<1>1. ToastInv /\ [ToastNext]_toastVars =>
        [\A id \in 1..MaxToasts : Contains(toasts, id) /\ ~Contains(toasts', id) =>
           \/ timers' = timers \ {id} /\ id \in timers
           \/ toasts' = Without(id) /\ timers' = timers
           \/ Len(toasts') = OnScreen /\ \A i \in DOMAIN toasts' : toasts'[i] > id]_toastVars
  BY ToastLeaves
<1>2. QED
  BY <1>1, ToastInitially, ToastStep, PTL DEF ToastSpec, LeavesForItsOwnReason

-----------------------------------------------------------------------------
(* The focus of a dialog (module DialogFocus).                             *)
(* A dialog that was never busy remembers the button that opened it, as    *)
(* long as that is in the page, and the confirm button has the focus only  *)
(* while its box is checked.                                               *)
FocusInv ==
  /\ FocusTypeOK /\ renders \in Nat
  /\ dlgOpen /\ ~wasBusy => ~dlgBusy /\ (opener => previous = "opener")
  /\ focus = "confirm" => dlgAck

-----------------------------------------------------------------------------
LEMMA InsideIs == Inside = {"close", "check", "cancel", "confirm"}
<1>1. DOMAIN Order = 1..4
  BY DEF Order
<1>2. \A i \in 1..4 : i = 1 \/ i = 2 \/ i = 3 \/ i = 4
  OBVIOUS
<1>3. /\ Order[1] = "close" /\ Order[2] = "check" /\ Order[3] = "cancel" /\ Order[4] = "confirm"
  BY DEF Order
<1>4. QED
  BY <1>1, <1>2, <1>3 DEF Inside

(* What can take the focus: controls only of an open dialog, confirm only  *)
(* when its box is checked, the opener while it is there and enabled.      *)
LEMMA AbleIs ==
  ASSUME NEW open \in BOOLEAN, NEW busy \in BOOLEAN, NEW there \in BOOLEAN
  PROVE  /\ \A e \in Able(open, busy, there) \intersect Inside : open
         /\ "confirm" \in Able(open, busy, there) => dlgAck
         /\ there /\ ~busy => "opener" \in Able(open, busy, there)
BY InsideIs DEF Able, Enabled

(* Focusing gives the focus to the element or leaves it.                   *)
LEMMA FocusGoes ==
  ASSUME NEW e, NEW able, NEW at
  PROVE  /\ FocusOn(e, able, at) \in {e, at}
         /\ FocusOn(e, able, at) # at => e \in able
         /\ e \in able => FocusOn(e, able, at) = e
BY DEF FocusOn

(* From an enabled control of an idle dialog Tab goes to another one.      *)
LEMMA TabGoes ==
  ASSUME NEW back \in BOOLEAN
  PROVE  /\ Move(back) \in Inside \union {"page"}
         /\ Move(back) = "confirm" => dlgAck
         /\ focus \in Inside /\ ~dlgBusy /\ (focus = "confirm" => dlgAck) => Move(back) \in Inside
<1>1. CASE dlgBusy
  <2>1. Focusable = <<"check">> /\ Len(Focusable) = 1 /\ DOMAIN Focusable = {1} /\ Focusable[1] = "check"
    BY <1>1 DEF Focusable
  <2>2. Move(back) \in {"page", "check"}
    BY <2>1 DEF Move
  <2>3. QED
    BY <1>1, <2>2, InsideIs
<1>2. CASE ~dlgBusy /\ dlgAck
  <2>1. Focusable = Order
    BY <1>2 DEF Focusable
  <2>2. /\ Len(Order) = 4 /\ DOMAIN Order = 1..4
        /\ Order[1] = "close" /\ Order[2] = "check" /\ Order[3] = "cancel" /\ Order[4] = "confirm"
    BY DEF Order
  <2>3. PICK at : at = {i \in DOMAIN Order : Order[i] = focus}
    OBVIOUS
  <2>4. CASE at = {}
    <3>1. Move(back) = "page"
      BY <2>1, <2>3, <2>4 DEF Move
    <3>2. focus \notin Inside
      BY <2>2, <2>3, <2>4 DEF Inside
    <3>3. QED
      BY <3>1, <3>2, InsideIs
  <2>5. CASE at # {}
    <3>1. PICK i \in 1..4 : i = (CHOOSE j \in at : TRUE)
      BY <2>2, <2>3, <2>5
    <3>2. Move(back) = Order[((i - 1 + (IF back THEN -1 ELSE 1) + 4) % 4) + 1]
      BY <2>1, <2>2, <2>3, <2>5, <3>1 DEF Move
    <3>3. ((i - 1 + (IF back THEN -1 ELSE 1) + 4) % 4) + 1 \in 1..4
      OBVIOUS
    <3>4. Move(back) \in Inside
      BY <2>2, <3>2, <3>3 DEF Inside
    <3>5. QED
      BY <1>2, <3>4
  <2>6. QED
    BY <2>4, <2>5
<1>3. CASE ~dlgBusy /\ ~dlgAck
  <2>1. /\ Focusable = <<"close", "check", "cancel">>
        /\ Len(Focusable) = 3 /\ DOMAIN Focusable = 1..3
        /\ Focusable[1] = "close" /\ Focusable[2] = "check" /\ Focusable[3] = "cancel"
    BY <1>3 DEF Focusable
  <2>2. PICK at : at = {i \in DOMAIN Focusable : Focusable[i] = focus}
    OBVIOUS
  <2>3. CASE at = {}
    <3>1. Move(back) = "page"
      BY <2>2, <2>3 DEF Move
    <3>2. focus \notin {"close", "check", "cancel"}
      BY <2>1, <2>2, <2>3
    <3>3. QED
      BY <1>3, <3>1, <3>2, InsideIs
  <2>4. CASE at # {}
    <3>1. PICK i \in 1..3 : i = (CHOOSE j \in at : TRUE)
      BY <2>1, <2>2, <2>4
    <3>2. Move(back) = Focusable[((i - 1 + (IF back THEN -1 ELSE 1) + 3) % 3) + 1]
      BY <2>1, <2>2, <2>4, <3>1 DEF Move
    <3>3. ((i - 1 + (IF back THEN -1 ELSE 1) + 3) % 3) + 1 \in 1..3
      OBVIOUS
    <3>4. PICK k \in 1..3 : Move(back) = Focusable[k]
      BY <3>2, <3>3
    <3>5. Move(back) \in {"close", "check", "cancel"}
      BY <2>1, <3>4
    <3>6. QED
      BY <3>5, InsideIs
  <2>5. QED
    BY <2>3, <2>4
<1>4. QED
  BY <1>1, <1>2, <1>3

(* The effect runs again: the focus goes back to what it remembers, or     *)
(* stays where it is.                                                      *)
LEMMA RerunKeeps ==
  ASSUME FocusInv, NEW busy \in BOOLEAN, NEW at \in Places, Rerun(busy, at),
         dlgOpen, dlgOpen' = dlgOpen, dlgBusy' = busy, dlgAck' = dlgAck,
         opener' \in BOOLEAN, opener' => opener, wasBusy' \in BOOLEAN, wasBusy => wasBusy',
         renders' \in Nat, ~wasBusy' => ~busy, at = "confirm" => dlgAck
  PROVE  FocusInv'
<1> USE InsideIs
<1>1. PICK able : able = Able(TRUE, busy, opener')
  OBVIOUS
<1>2. focus' = FocusOn(previous, able, at) /\ previous' = focus' /\ frame' = TRUE
  BY <1>1 DEF Rerun, CleanUp
<1>3. focus' \in {previous, at} /\ (focus' # at => previous \in able)
  BY <1>2, FocusGoes
<1>4. focus' = "confirm" => dlgAck
  BY <1>1, <1>3, AbleIs
<1>5. ASSUME ~wasBusy', opener'
      PROVE  focus' = "opener"
  <2>1. previous = "opener" /\ ~busy
    BY <1>5 DEF FocusInv
  <2>2. "opener" \in able
    BY <1>1, <1>5, <2>1, AbleIs
  <2>3. QED
    BY <1>2, <2>1, <2>2, FocusGoes
<1>6. FocusTypeOK'
  BY <1>2, <1>3 DEF FocusInv, FocusTypeOK, Places
<1>7. QED
  BY <1>2, <1>4, <1>5, <1>6 DEF FocusInv

LEMMA FocusStep == FocusInv /\ [FocusNext]_focusVars => FocusInv'
<1> SUFFICES ASSUME FocusInv, [FocusNext]_focusVars
             PROVE  FocusInv'
  OBVIOUS
<1> USE InsideIs
<1>1. CASE Open
  BY <1>1 DEF Open, FocusInv, FocusTypeOK, Places
<1>2. CASE Frame
  <2>1. /\ focus' = FocusOn("cancel", Able(dlgOpen, dlgBusy, opener), focus) /\ frame' = FALSE
        /\ UNCHANGED <<dlgOpen, dlgBusy, dlgAck, opener, previous, wasBusy, renders>>
    BY <1>2 DEF Frame
  <2>2. focus' \in {"cancel", focus} /\ (focus' # focus => dlgOpen)
    BY <2>1, FocusGoes, AbleIs DEF FocusInv, FocusTypeOK
  <2>3. QED
    BY <2>1, <2>2 DEF FocusInv, FocusTypeOK, Places
<1>3. CASE Render
  <2>1. PICK at : at = (IF focus = "opener" /\ ~opener' THEN "body" ELSE focus)
    OBVIOUS
  <2>2. /\ Rerun(dlgBusy, at) /\ dlgOpen /\ renders' = renders + 1
        /\ UNCHANGED <<dlgOpen, dlgBusy, dlgAck, wasBusy>> /\ opener' \in {opener, FALSE}
    BY <1>3, <2>1 DEF Render
  <2>3. /\ at \in Places /\ (at = "confirm" => dlgAck) /\ opener' \in BOOLEAN
        /\ dlgBusy \in BOOLEAN /\ renders' \in Nat /\ wasBusy' \in BOOLEAN
    <3>1. at \in Places /\ (at = "confirm" => dlgAck)
      BY <2>1 DEF FocusInv, FocusTypeOK, Places
    <3>2. opener' \in BOOLEAN /\ dlgBusy \in BOOLEAN /\ wasBusy' \in BOOLEAN
      BY <2>2 DEF FocusInv, FocusTypeOK
    <3>3. renders' \in Nat
      BY <2>2 DEF FocusInv
    <3>4. QED
      BY <3>1, <3>2, <3>3
  <2>4. QED
    BY <2>2, <2>3, RerunKeeps DEF FocusInv
<1>4. CASE Check
  BY <1>4 DEF Check, FocusInv, FocusTypeOK, Places
<1>5. CASE Confirm
  <2>1. PICK at \in {focus, "body"} : Rerun(TRUE, at)
    BY <1>5 DEF Confirm
  <2>2. /\ at \in Places /\ opener' \in BOOLEAN /\ renders' \in Nat
        /\ dlgAck /\ UNCHANGED <<dlgOpen, dlgAck, opener, renders>>
        /\ dlgOpen /\ dlgBusy' = TRUE /\ wasBusy' = TRUE
    BY <1>5, <2>1 DEF Confirm, Enabled, FocusInv, FocusTypeOK, Places
  <2>3. QED
    BY <2>1, <2>2, RerunKeeps
<1>6. CASE ConfirmFails
  <2>1. /\ Rerun(FALSE, focus) /\ dlgOpen /\ dlgBusy' = FALSE
        /\ UNCHANGED <<dlgOpen, dlgAck, opener, wasBusy, renders>>
    BY <1>6 DEF ConfirmFails
  <2>2. /\ focus \in Places /\ opener' \in BOOLEAN /\ wasBusy' \in BOOLEAN
        /\ renders' \in Nat /\ (focus = "confirm" => dlgAck)
    BY <2>1 DEF FocusInv, FocusTypeOK
  <2>3. QED
    BY <2>1, <2>2, RerunKeeps
<1>7. CASE Close
  <2>1. PICK at : at = IF focus \in Inside THEN "body" ELSE focus
    OBVIOUS
  <2>2. /\ focus' = FocusOn(previous, Able(FALSE, dlgBusy, opener), at) /\ at \notin Inside
        /\ UNCHANGED <<dlgAck, dlgBusy, opener, previous, wasBusy, renders>>
        /\ dlgOpen' = FALSE /\ frame' = FALSE
    BY <1>7, <2>1 DEF Close, CleanUp
  <2>3. focus' \in {previous, at} /\ focus' \notin Inside
    <3>1. dlgBusy \in BOOLEAN /\ opener \in BOOLEAN
      BY DEF FocusInv, FocusTypeOK
    <3>2. focus' \in {previous, at} /\ (focus' # at => previous \in Able(FALSE, dlgBusy, opener))
      BY <2>2, FocusGoes
    <3>3. \A e \in Able(FALSE, dlgBusy, opener) : e \notin Inside
      BY <3>1, AbleIs
    <3>4. QED
      BY <2>2, <3>2, <3>3
  <2>4. QED
    BY <2>1, <2>2, <2>3 DEF FocusInv, FocusTypeOK, Places
<1>8. CASE RequestEnds
  BY <1>8 DEF RequestEnds, FocusInv, FocusTypeOK
<1>9. ASSUME NEW back \in BOOLEAN, Tab(back)
      PROVE  FocusInv'
  <2>1. focus' = Move(back) /\ dlgOpen
    BY <1>9 DEF Tab
  <2>2. UNCHANGED <<dlgOpen, dlgBusy, dlgAck, opener, previous, frame, wasBusy, opens, renders>>
    BY <1>9 DEF Tab
  <2>3. QED
    BY <2>1, <2>2, TabGoes DEF FocusInv, FocusTypeOK, Places
<1>10. CASE UNCHANGED focusVars
  BY <1>10 DEF focusVars, FocusInv, FocusTypeOK
<1>11. QED
  BY <1>1, <1>2, <1>3, <1>4, <1>5, <1>6, <1>7, <1>8, <1>9, <1>10 DEF FocusNext

LEMMA FocusInitially == FocusInit => FocusInv
<1> SUFFICES ASSUME FocusInit
             PROVE  FocusInv
  OBVIOUS
<1>1. FocusTypeOK
  BY InsideIs DEF FocusInit, FocusTypeOK, Places
<1>2. dlgOpen = FALSE /\ renders = 0 /\ focus = "page"
  BY DEF FocusInit
<1>3. QED
  BY <1>1, <1>2 DEF FocusInv

(* What a step may do to the focus.                                        *)
LEMMA FocusMoves ==
  ASSUME FocusInv, FocusNext
  PROVE  /\ (focus \in Inside) /\ ~dlgBusy /\ dlgOpen' /\ focus' \notin Inside =>
              frame' /\ (dlgBusy' \/ renders' > renders)
         /\ dlgOpen /\ ~dlgOpen' /\ ~wasBusy =>
              IF opener THEN focus' = "opener" ELSE focus' \notin Inside
<1> USE InsideIs
<1>1. CASE Open
  BY <1>1 DEF Open, FocusInv, FocusTypeOK
<1>2. CASE Frame
  <2>1. focus' \in {"cancel", focus}
    BY <1>2, FocusGoes DEF Frame
  <2>2. QED
    BY <1>2, <2>1 DEF Frame
<1>3. CASE Render
  <2>1. renders' = renders + 1 /\ renders \in Nat /\ frame' = TRUE /\ dlgOpen' = dlgOpen
    BY <1>3 DEF Render, Rerun, FocusInv
  <2>2. QED
    BY <1>3, <2>1 DEF Render
<1>4. CASE Check
  BY <1>4 DEF Check
<1>5. CASE Confirm
  <2>1. frame' = TRUE /\ dlgBusy' = TRUE /\ dlgOpen' = dlgOpen
    BY <1>5 DEF Confirm, Rerun
  <2>2. QED
    BY <1>5, <2>1 DEF Confirm
<1>6. CASE ConfirmFails
  BY <1>6 DEF ConfirmFails
<1>7. CASE Close
  <2>1. PICK at : at = IF focus \in Inside THEN "body" ELSE focus
    OBVIOUS
  <2>2. focus' = FocusOn(previous, Able(FALSE, dlgBusy, opener), at) /\ at \notin Inside
    BY <1>7, <2>1 DEF Close, CleanUp
  <2>3. focus' \notin Inside
    <3>1. dlgBusy \in BOOLEAN /\ opener \in BOOLEAN
      BY DEF FocusInv, FocusTypeOK
    <3>2. focus' \in {previous, at} /\ (focus' # at => previous \in Able(FALSE, dlgBusy, opener))
      BY <2>2, FocusGoes
    <3>3. \A e \in Able(FALSE, dlgBusy, opener) : e \notin Inside
      BY <3>1, AbleIs
    <3>4. QED
      BY <2>2, <3>2, <3>3
  <2>4. ASSUME ~wasBusy, opener
        PROVE  focus' = "opener"
    <3>1. dlgOpen
      BY <1>7 DEF Close
    <3>2. previous = "opener" /\ ~dlgBusy
      BY <2>4, <3>1 DEF FocusInv
    <3>3. dlgBusy \in BOOLEAN /\ opener \in BOOLEAN
      BY DEF FocusInv, FocusTypeOK
    <3>4. "opener" \in Able(FALSE, dlgBusy, opener)
      BY <2>4, <3>2, <3>3, AbleIs
    <3>5. QED
      BY <2>2, <3>2, <3>4, FocusGoes
  <2>5. QED
    BY <1>7, <2>3, <2>4 DEF Close
<1>8. CASE RequestEnds
  BY <1>8 DEF RequestEnds
<1>9. ASSUME NEW back \in BOOLEAN, Tab(back)
      PROVE  /\ (focus \in Inside) /\ ~dlgBusy /\ dlgOpen' /\ focus' \notin Inside =>
                  frame' /\ (dlgBusy' \/ renders' > renders)
             /\ dlgOpen /\ ~dlgOpen' /\ ~wasBusy =>
                  IF opener THEN focus' = "opener" ELSE focus' \notin Inside
  BY <1>9, TabGoes DEF Tab, FocusInv
<1>10. QED
  BY <1>1, <1>2, <1>3, <1>4, <1>5, <1>6, <1>7, <1>8, <1>9 DEF FocusNext

(* Tab never takes the focus out of an open dialog that is not busy, and a *)
(* dialog that was never busy gives it back to the button that opened it,  *)
(* or leaves it outside if a render removed that button                    *)
(* (useDialogFocus.ts, deployments/[id]/page.tsx:184).                     *)
THEOREM FocusStaysManaged == FocusSpec => FocusIsManaged
<1>1. FocusInv /\ [FocusNext]_focusVars =>
        /\ [(focus \in Inside) /\ ~dlgBusy /\ dlgOpen' /\ focus' \notin Inside =>
              frame' /\ (dlgBusy' \/ renders' > renders)]_focusVars
        /\ [dlgOpen /\ ~dlgOpen' /\ ~wasBusy =>
              IF opener THEN focus' = "opener" ELSE focus' \notin Inside]_focusVars
  BY FocusMoves
<1>2. QED
  BY <1>1, FocusInitially, FocusStep, PTL DEF FocusSpec, FocusIsManaged, TabStaysInside, FocusReturns

-----------------------------------------------------------------------------
(* The page that launches a rollout (module DeployPage).                   *)
(* What a request to create a deployment may be, and the requests that are *)
(* still under way.                                                        *)
Requests ==
  [nr : Nat, models : SUBSET Models(Robots), model : Models(Robots), at : {"sent", "created", "answered"}]
Pending == {p \in posted : p.at # "answered"}
Answered == {p \in posted : p.at = "answered"}

(* At most one request is under way, while the page is busy with it; what  *)
(* was created was for the model it names; an answered one has cost an     *)
(* answer or has left the page.                                            *)
LaunchInv ==
  /\ posted \subseteq Requests /\ posts \in Nat /\ unanswered \in Nat
  /\ \A p \in posted : p.nr \in 1..posts /\ p.models # {}
  /\ \A p \in posted : p.at # "sent" => p.models = {p.model}
  /\ \A p, q \in Pending : p = q
  /\ Pending # {} => launching /\ ~gone
  /\ IsFiniteSet(Answered)
  /\ Cardinality(Answered) <= unanswered + (IF gone THEN 1 ELSE 0)

Forms ==
  [scope : {"all", "factory", "custom"}, factory : Factories \union {""},
   selected : SUBSET Robots, firmware : BOOLEAN]

PageInv ==
  /\ query \in Queries /\ online \subseteq Robots /\ form \in Forms
  /\ loaded \in Nat /\ loaded <= MaxLoads /\ \A l \in loads : l.nr \in 1..loaded /\ l.query \in Queries
  /\ risk \in [open : BOOLEAN, ack : BOOLEAN] /\ launching \in BOOLEAN /\ gone \in BOOLEAN
  /\ launching => risk.open \/ gone

DeployInv == LaunchInv /\ PageInv

-----------------------------------------------------------------------------
(* What the page asks for names models that robots have.                   *)
LEMMA ModelsOfRobots ==
  ASSUME DeployInv
  PROVE  Models(Targets) \subseteq Models(Robots) /\ "all" \notin Models(Robots)
BY DeployAssumption DEF DeployInv, PageInv, Targets, Models

LEMMA RequestMarked ==
  ASSUME NEW p \in Requests, NEW at \in {"sent", "created", "answered"},
         NEW q, q = [p EXCEPT !.at = at]
  PROVE  q \in Requests /\ q.nr = p.nr /\ q.models = p.models /\ q.model = p.model /\ q.at = at
BY DEF Requests

(* The handlers that leave the requests alone.                             *)
LEMMA LaunchUntouched ==
  ASSUME DeployInv, UNCHANGED <<posted, posts, unanswered, launching, gone>>
  PROVE  LaunchInv'
BY DEF DeployInv, LaunchInv, Pending, Answered, Requests

LEMMA LaunchConfirmed ==
  ASSUME DeployInv, ConfirmLaunch
  PROVE  DeployInv'
<1>0. PICK m \in Models(Targets) : posted' = posted \union {Payload(m)}
  BY DEF ConfirmLaunch, ModelsToSend
<1>1. PICK p : p = Payload(m) /\ posted' = posted \union {p}
  BY <1>0
<1>2. /\ ~launching /\ launching' = TRUE /\ posts \in Nat /\ posts' = posts + 1 /\ risk.open
      /\ gone = FALSE /\ gone' = FALSE /\ Targets # {}
      /\ UNCHANGED <<query, loading, loads, loaded, online, form, risk, unanswered>>
  BY DEF ConfirmLaunch, MayConfirm, DeployInv, LaunchInv, PageInv
<1>3. p \in Requests /\ p.nr = posts + 1 /\ p.models # {} /\ p.at = "sent"
  <2>1. Models(Targets) # {}
    BY <1>1
  <2>2. QED
    BY <1>1, <1>2, <2>1, ModelsOfRobots DEF Payload, Requests
<1>4. Pending = {}
  BY <1>2 DEF DeployInv, LaunchInv
<1>5. Pending' = {p} /\ Answered' = Answered
  BY <1>1, <1>3, <1>4 DEF Pending, Answered
<1>6. LaunchInv'
  <2>1. \A r \in posted' : r \in posted \/ r = p
    BY <1>1
  <2>2. posted' \subseteq Requests' /\ posts' \in Nat /\ unanswered' \in Nat
    BY <1>1, <1>2, <1>3 DEF DeployInv, LaunchInv, Requests
  <2>3. \A r \in posted' : r.nr \in 1..posts' /\ r.models # {}
    BY <1>2, <1>3, <2>1 DEF DeployInv, LaunchInv
  <2>4. \A r \in posted' : r.at # "sent" => r.models = {r.model}
    BY <1>3, <2>1 DEF DeployInv, LaunchInv
  <2>5. IsFiniteSet(Answered') /\ Cardinality(Answered') <= unanswered' + (IF gone' THEN 1 ELSE 0)
    BY <1>2, <1>5 DEF DeployInv, LaunchInv
  <2>6. (\A r, s \in Pending' : r = s) /\ launching' /\ ~gone'
    BY <1>2, <1>5
  <2>7. QED
    BY <2>2, <2>3, <2>4, <2>5, <2>6 DEF LaunchInv
<1>7. PageInv'
  BY <1>2 DEF DeployInv, PageInv, Queries, Factories, Forms
<1>8. QED
  BY <1>6, <1>7 DEF DeployInv

-----------------------------------------------------------------------------
(* A request goes one step further.                                        *)
LEMMA LaunchProgresses ==
  ASSUME DeployInv, NEW p \in Pending, NEW at \in {"created", "answered"}, Progressed(p, at),
         p.models = {p.model}, posts' = posts, unanswered' \in Nat,
         at = "created" => UNCHANGED <<unanswered, launching, gone>>,
         at = "answered" => unanswered' + (IF gone' THEN 1 ELSE 0) = unanswered + 1
  PROVE  LaunchInv'
<1>1. PICK q : /\ q = [p EXCEPT !.at = at] /\ posted' = (posted \ {p}) \union {q}
  BY DEF Progressed
<1>2. p \in posted /\ p \in Requests /\ p.at # "answered" /\ \A r \in posted : r # p => r.at = "answered"
  BY DEF Pending, DeployInv, LaunchInv
<1>3. q \in Requests /\ q.nr = p.nr /\ q.models = p.models /\ q.model = p.model /\ q.at = at
  BY <1>1, <1>2, RequestMarked
<1>4. \A r \in posted' : (r \in posted /\ r.at = "answered") \/ r = q
  BY <1>1, <1>2
<1>5. posted' \subseteq Requests' /\ posts' \in Nat
  BY <1>3, <1>4 DEF DeployInv, LaunchInv, Requests
<1>6. \A r \in posted' : r.nr \in 1..posts' /\ r.models # {}
  BY <1>2, <1>3, <1>4 DEF DeployInv, LaunchInv
<1>7. \A r \in posted' : r.at # "sent" => r.models = {r.model}
  BY <1>3, <1>4 DEF DeployInv, LaunchInv
<1>8. launching /\ ~gone
  BY DEF DeployInv, LaunchInv
<1>9. IsFiniteSet(Answered) /\ Cardinality(Answered) \in Nat /\ Cardinality(Answered) <= unanswered
      /\ unanswered \in Nat
  BY <1>8, FS_CardinalityType DEF DeployInv, LaunchInv
<1>10. CASE at = "created"
  <2>1. Answered' = Answered /\ Pending' = {q}
    BY <1>1, <1>2, <1>3, <1>10 DEF Answered, Pending
  <2>2. QED
    BY <1>5, <1>6, <1>7, <1>8, <1>9, <1>10, <2>1 DEF LaunchInv
<1>11. CASE at = "answered"
  <2>1. Answered' = Answered \union {q} /\ Pending' = {}
    BY <1>1, <1>2, <1>3, <1>11 DEF Answered, Pending
  <2>2. IsFiniteSet(Answered') /\ Cardinality(Answered') \in Nat
        /\ Cardinality(Answered') <= Cardinality(Answered) + 1
    <3>1. /\ IsFiniteSet(Answered \union {q})
          /\ Cardinality(Answered \union {q}) \in {Cardinality(Answered), Cardinality(Answered) + 1}
      BY <1>9, FS_AddElement, Zenon
    <3>2. QED
      BY <1>9, <2>1, <3>1
  <2>3. Cardinality(Answered') <= unanswered' + (IF gone' THEN 1 ELSE 0)
    <3>1. unanswered' + (IF gone' THEN 1 ELSE 0) = unanswered + 1
      BY <1>11
    <3>2. Cardinality(Answered') <= unanswered + 1
      BY <1>9, <2>2
    <3>3. QED
      BY <3>1, <3>2, Zenon
  <2>4. QED
    BY <1>5, <1>6, <1>7, <2>1, <2>2, <2>3 DEF LaunchInv
<1>12. QED
  BY <1>10, <1>11

LEMMA LaunchServed ==
  ASSUME DeployInv, NEW p \in posted, Create(p) \/ Launched(p) \/ Refused(p) \/ Lost(p)
  PROVE  DeployInv'
<1>1. p.at # "answered" /\ p \in Pending /\ launching = TRUE /\ gone = FALSE /\ risk.open /\ unanswered \in Nat
      /\ p \in Requests
  BY DEF Create, Launched, Refused, Lost, Pending, DeployInv, LaunchInv, PageInv
<1>2. CASE Create(p)
  <2>1. p.models = {p.model}
    BY <1>1, <1>2, ModelsOfRobots DEF Create, Requests
  <2>2. UNCHANGED <<query, loading, loads, loaded, online, form, risk, launching, posts, unanswered, gone>>
    BY <1>2 DEF Create
  <2>3. LaunchInv'
    BY <1>1, <1>2, <2>1, <2>2, LaunchProgresses DEF Create
  <2>4. QED
    BY <2>2, <2>3 DEF DeployInv, PageInv, Queries, Factories, Forms
<1>3. CASE Launched(p)
  <2>1. /\ UNCHANGED <<query, loading, loads, loaded, online, form, launching, posts, unanswered>>
        /\ gone' = TRUE /\ risk' = [risk EXCEPT !.open = FALSE]
    BY <1>3 DEF Launched
  <2>2. LaunchInv'
    <3>1. p.models = {p.model} /\ Progressed(p, "answered")
      BY <1>3 DEF Launched, DeployInv, LaunchInv
    <3>2. unanswered' \in Nat /\ unanswered' + (IF gone' THEN 1 ELSE 0) = unanswered + 1
      BY <1>1, <2>1
    <3>3. QED
      BY <1>1, <2>1, <3>1, <3>2, LaunchProgresses
  <2>3. risk' \in [open : BOOLEAN, ack : BOOLEAN]
    BY <2>1 DEF DeployInv, PageInv
  <2>4. QED
    BY <2>1, <2>2, <2>3 DEF DeployInv, PageInv, Queries, Factories, Forms
<1>4. CASE Lost(p)
  <2>1. /\ UNCHANGED <<query, loading, loads, loaded, online, form, risk, posts, gone>>
        /\ launching' = FALSE /\ unanswered' = unanswered + 1
    BY <1>4 DEF Lost
  <2>2. LaunchInv'
    <3>1. p.models = {p.model} /\ Progressed(p, "answered")
      BY <1>4 DEF Lost, DeployInv, LaunchInv
    <3>2. unanswered' \in Nat /\ unanswered' + (IF gone' THEN 1 ELSE 0) = unanswered + 1
      BY <1>1, <2>1
    <3>3. QED
      BY <1>1, <2>1, <3>1, <3>2, LaunchProgresses
  <2>3. QED
    BY <2>1, <2>2 DEF DeployInv, PageInv, Queries, Factories, Forms
<1>5. CASE Refused(p)
  <2>1. /\ UNCHANGED <<query, loading, loads, loaded, online, form, risk, posts, unanswered, gone>>
        /\ launching' = FALSE /\ posted' = posted \ {p}
    BY <1>5 DEF Refused
  <2>2. Answered' = Answered /\ Pending' = {}
    BY <1>1, <2>1 DEF Answered, Pending, DeployInv, LaunchInv
  <2>3. \A r \in posted' : r \in posted
    BY <2>1
  <2>4. LaunchInv'
    BY <2>1, <2>2, <2>3 DEF DeployInv, LaunchInv, Requests
  <2>5. QED
    BY <2>1, <2>4 DEF DeployInv, PageInv, Queries, Factories, Forms
<1>6. QED
  BY <1>2, <1>3, <1>4, <1>5

-----------------------------------------------------------------------------
(* What the operator does on the page, and the loads.                      *)
LEMMA LaunchPageStep ==
  ASSUME DeployInv,
         \/ \E l \in loads : DataAnswered(l)
         \/ \E q \in Queries : Navigate(q)
         \/ \E s \in {"all", "factory", "custom"} : SetScope(s)
         \/ \E f \in Factories : SetFactory(f)
         \/ \E r \in Robots : Toggle(r)
         \/ SelectAll \/ OpenRisk \/ Acknowledge \/ CloseRisk
  PROVE  DeployInv'
<1>1. /\ query \in Queries /\ online \subseteq Robots /\ form \in Forms
      /\ loaded \in Nat /\ loaded <= MaxLoads
      /\ \A l \in loads : l.nr \in 1..loaded /\ l.query \in Queries
      /\ risk \in [open : BOOLEAN, ack : BOOLEAN] /\ launching \in BOOLEAN /\ gone \in BOOLEAN
      /\ launching => risk.open \/ gone
  BY DEF DeployInv, PageInv
<1>2. ASSUME NEW l \in loads, DataFails(l)
      PROVE  DeployInv'
  BY <1>1, <1>2, LaunchUntouched DEF DataFails, DeployInv, PageInv, Queries, Factories, Forms
<1>3. ASSUME NEW l \in loads, NEW seen \in SUBSET Robots, NEW catalog \in BOOLEAN, DataLoaded(l, seen, catalog)
      PROVE  DeployInv'
  <2>1. /\ UNCHANGED <<query, loaded, risk, launching, posted, posts, unanswered, gone>>
        /\ loads' = loads \ {l} /\ online' = seen
    BY <1>3 DEF DataLoaded
  <2>2. PICK f \in Factories :
          form' = [firmware |-> form.firmware \/ catalog,
                   factory |-> IF form.factory = "" THEN f ELSE form.factory,
                   scope |-> IF l.query = NoRobot THEN form.scope ELSE "custom",
                   selected |-> IF l.query = NoRobot THEN form.selected ELSE {l.query}]
    BY <1>3 DEF DataLoaded
  <2>3. form' \in Forms
    <3>1. /\ form.firmware \in BOOLEAN /\ form.factory \in Factories \union {""}
          /\ form.scope \in {"all", "factory", "custom"} /\ form.selected \in SUBSET Robots
      BY <1>1 DEF Forms
    <3>2. l.query # NoRobot => l.query \in Robots
      BY <1>1 DEF Queries
    <3>3. /\ (form.firmware \/ catalog) \in BOOLEAN
          /\ (IF form.factory = "" THEN f ELSE form.factory) \in Factories \union {""}
          /\ (IF l.query = NoRobot THEN form.scope ELSE "custom") \in {"all", "factory", "custom"}
          /\ (IF l.query = NoRobot THEN form.selected ELSE {l.query}) \in SUBSET Robots
      BY <3>1, <3>2
    <3>4. QED
      BY <2>2, <3>3 DEF Forms
  <2>4. QED
    BY <1>1, <2>1, <2>3, LaunchUntouched DEF DeployInv, PageInv, Queries, Factories, Forms
<1>4. ASSUME NEW q \in Queries, Navigate(q)
      PROVE  DeployInv'
  <2>1. /\ UNCHANGED <<loading, online, form, risk, launching, posted, posts, unanswered, gone>>
        /\ query' = q /\ loaded < MaxLoads /\ loaded' = loaded + 1
        /\ loads' = loads \union {[nr |-> loaded + 1, query |-> q]}
    BY <1>4 DEF Navigate, Load
  <2>2. \A l \in loads' : l.nr \in 1..loaded' /\ l.query \in Queries
    <3>1. PICK new : new = [nr |-> loaded + 1, query |-> q]
      OBVIOUS
    <3>2. new.nr \in 1..(loaded + 1) /\ new.query \in Queries
      BY <1>1, <3>1
    <3>3. \A l \in loads : l.nr \in 1..(loaded + 1) /\ l.query \in Queries
      BY <1>1
    <3>4. loads' = loads \union {new} /\ loaded' = loaded + 1
      BY <2>1, <3>1
    <3>5. QED
      BY <3>2, <3>3, <3>4
  <2>3. loaded' \in Nat /\ loaded' <= MaxLoads
    BY <1>1, <2>1, DeployAssumption
  <2>4. QED
    BY <1>1, <2>1, <2>2, <2>3, LaunchUntouched DEF DeployInv, PageInv, Queries, Factories, Forms
<1>5. ASSUME NEW f \in Forms, Edit(f)
      PROVE  DeployInv'
  <2>1. /\ UNCHANGED <<query, loading, loads, loaded, online, risk, launching, posted, posts, unanswered, gone>>
        /\ form' = f
    BY <1>5 DEF Edit
  <2>2. QED
    BY <1>1, <2>1, LaunchUntouched DEF DeployInv, PageInv, Queries, Factories, Forms
<1>6. ASSUME NEW s \in {"all", "factory", "custom"}, SetScope(s)
      PROVE  DeployInv'
  <2>1. [form EXCEPT !.scope = s] \in Forms
    BY <1>1 DEF Forms
  <2>2. QED
    BY <1>5, <1>6, <2>1 DEF SetScope
<1>7. ASSUME NEW f \in Factories, SetFactory(f)
      PROVE  DeployInv'
  <2>1. [form EXCEPT !.factory = f] \in Forms
    BY <1>1 DEF Forms
  <2>2. QED
    BY <1>5, <1>7, <2>1 DEF SetFactory
<1>8. ASSUME NEW rs \in SUBSET Robots, Edit([form EXCEPT !.selected = rs])
      PROVE  DeployInv'
  <2>1. [form EXCEPT !.selected = rs] \in Forms
    BY <1>1 DEF Forms
  <2>2. QED
    BY <1>5, <1>8, <2>1
<1>9. ASSUME NEW r \in Robots, Toggle(r)
      PROVE  DeployInv'
  <2>1. PICK rs : rs = IF r \in form.selected THEN form.selected \ {r} ELSE form.selected \union {r}
    OBVIOUS
  <2>2. rs \in SUBSET Robots
    BY <1>1, <2>1 DEF Forms
  <2>3. Edit([form EXCEPT !.selected = rs])
    BY <1>9, <2>1 DEF Toggle
  <2>4. QED
    BY <1>8, <2>2, <2>3
<1>10. ASSUME SelectAll
       PROVE  DeployInv'
  <2>1. PICK rs : rs = IF Cardinality(form.selected) = Cardinality(online) THEN {} ELSE online
    OBVIOUS
  <2>2. rs \in SUBSET Robots
    BY <1>1, <2>1
  <2>3. Edit([form EXCEPT !.selected = rs])
    BY <1>10, <2>1 DEF SelectAll
  <2>4. QED
    BY <1>8, <2>2, <2>3
<1>11. ASSUME OpenRisk \/ Acknowledge \/ CloseRisk
       PROVE  DeployInv'
  <2>1. UNCHANGED <<query, loading, loads, loaded, online, form, launching, posted, posts, unanswered, gone>>
    BY <1>11 DEF OpenRisk, Acknowledge, CloseRisk
  <2>2. /\ risk' \in [open : BOOLEAN, ack : BOOLEAN]
        /\ launching => risk'.open \/ gone
    <3>1. CASE OpenRisk
      BY <3>1 DEF OpenRisk
    <3>2. CASE Acknowledge
      <4>1. risk.open /\ risk' = [risk EXCEPT !.ack = ~risk.ack]
        BY <3>2 DEF Acknowledge
      <4>2. risk' \in [open : BOOLEAN, ack : BOOLEAN] /\ risk'.open = risk.open
        BY <1>1, <4>1
      <4>3. QED
        BY <4>1, <4>2
    <3>3. CASE CloseRisk
      <4>1. ~launching /\ risk' = [risk EXCEPT !.open = FALSE]
        BY <3>3 DEF CloseRisk
      <4>2. QED
        BY <1>1, <4>1
    <3>4. QED
      BY <1>11, <3>1, <3>2, <3>3
  <2>3. QED
    BY <1>1, <2>1, <2>2, LaunchUntouched DEF DeployInv, PageInv, Queries, Factories, Forms
<1>12. QED
  BY <1>2, <1>3, <1>4, <1>6, <1>7, <1>9, <1>10, <1>11 DEF DataAnswered

LEMMA DeployInitially == DeployInit => DeployInv
<1> SUFFICES ASSUME DeployInit
             PROVE  DeployInv
  OBVIOUS
<1>1. Answered = {} /\ Pending = {} /\ posted = {} /\ posts = 0 /\ unanswered = 0 /\ gone = FALSE
  BY DEF DeployInit, Answered, Pending
<1>2. LaunchInv
  <2>1. IsFiniteSet(Answered) /\ Cardinality(Answered) = 0
    BY <1>1, FS_EmptySet
  <2>2. 0 <= unanswered + (IF gone THEN 1 ELSE 0)
    BY <1>1
  <2>3. \A p \in posted : p.nr \in 1..posts /\ p.models # {} /\ (p.at # "sent" => p.models = {p.model})
    BY <1>1
  <2>4. QED
    BY <1>1, <2>1, <2>2, <2>3 DEF LaunchInv
<1>3. PageInv
  <2>1. loaded = 1 /\ loads = {[nr |-> 1, query |-> query]} /\ query \in Queries
    BY DEF DeployInit
  <2>2. 1 <= MaxLoads
    BY DeployAssumption
  <2>3. \A l \in loads : l.nr \in 1..loaded /\ l.query \in Queries
    BY <2>1
  <2>4. form \in Forms
    BY DEF DeployInit, Forms
  <2>5. risk \in [open : BOOLEAN, ack : BOOLEAN] /\ launching = FALSE /\ gone = FALSE /\ online = {}
    BY DEF DeployInit
  <2>6. QED
    BY <2>1, <2>2, <2>3, <2>4, <2>5 DEF PageInv
<1>4. QED
  BY <1>2, <1>3 DEF DeployInv

LEMMA DeployStep == DeployInv /\ [DeployNext]_deployVars => DeployInv'
<1> SUFFICES ASSUME DeployInv, [DeployNext]_deployVars
             PROVE  DeployInv'
  OBVIOUS
<1>1. CASE UNCHANGED deployVars
  <2>1. UNCHANGED <<query, loads, loaded, online, form, risk, launching, posted, posts, unanswered, gone>>
    BY <1>1 DEF deployVars
  <2>2. QED
    BY <2>1, LaunchUntouched DEF DeployInv, PageInv, Queries, Factories, Forms
<1>2. QED
  BY <1>1, LaunchConfirmed, LaunchServed, LaunchPageStep DEF DeployNext, Serve

LEMMA DeployTyped == DeployInv => DeployTypeOK
BY DEF DeployInv, LaunchInv, PageInv, DeployTypeOK, Forms

LEMMA LaunchIntended == DeployInv => RolloutsAreIntended
<1> SUFFICES ASSUME DeployInv
             PROVE  RolloutsAreIntended
  OBVIOUS
<1>1. OneModelPerRollout
  <2>1. \A p \in Created : p.models = {p.model}
    BY DEF Created, DeployInv, LaunchInv
  <2>2. QED
    BY <2>1, FS_Singleton DEF OneModelPerRollout
<1>2. OneRolloutPerAnswer
  <2>1. /\ IsFiniteSet(Answered) /\ Cardinality(Answered) \in Nat /\ unanswered \in Nat
        /\ Cardinality(Answered) <= unanswered + (IF gone THEN 1 ELSE 0)
    BY FS_CardinalityType DEF DeployInv, LaunchInv
  <2>2. CASE \E p \in Pending : p.at = "created"
    <3>1. PICK p \in Pending : p.at = "created"
      BY <2>2
    <3>2. Created = Answered \union {p} /\ ~gone
      <4>1. p \in posted /\ p.at = "created" /\ ~gone /\ \A r \in posted : r.at # "answered" => r = p
        BY <3>1 DEF Pending, DeployInv, LaunchInv
      <4>2. \A r : r \in Created <=> r \in Answered \/ r = p
        BY <4>1 DEF Created, Answered
      <4>3. QED
        BY <4>1, <4>2
    <3>3. /\ IsFiniteSet(Answered \union {p})
          /\ Cardinality(Answered \union {p}) \in {Cardinality(Answered), Cardinality(Answered) + 1}
      BY <2>1, FS_AddElement
    <3>4. QED
      BY <2>1, <3>2, <3>3 DEF OneRolloutPerAnswer
  <2>3. CASE ~\E p \in Pending : p.at = "created"
    <3>1. Created = Answered
      BY <2>3 DEF Created, Answered, Pending, DeployInv, LaunchInv, Requests
    <3>2. QED
      BY <2>1, <3>1 DEF OneRolloutPerAnswer
  <2>4. QED
    BY <2>2, <2>3
<1>3. QED
  BY <1>1, <1>2 DEF RolloutsAreIntended

(* A rollout that the page creates is for one model, and it creates no     *)
(* more of them than the operator was left without an answer to, plus one: *)
(* handleConfirmLaunch against CreateDeployment.                           *)
THEOREM LaunchesAreIntended == DeploySpec => []RolloutsAreIntended
BY DeployInitially, DeployStep, LaunchIntended, PTL DEF DeploySpec

-----------------------------------------------------------------------------
(* The monitor of a deployment (module DeploymentPage).                    *)
(* Nothing is under way on a page that is not open; the counter of notices *)
(* is what completionNotifiedRef remembers.                                *)
Unopened ==
  chain = "unmounted" => asked = {} /\ onPage = NoData /\ rollback.at = "idle" /\ ~rollback.open

MonitorInv ==
  /\ MonitorTypeOK /\ Unopened
  /\ \A q \in asked : q.answer \in Known
  /\ chain \in {"unmounted", "waiting", "running"}
  /\ rollback \in [open : BOOLEAN, ack : BOOLEAN, at : {"idle", "sent", "done", "reloading"}]
  /\ notified \in BOOLEAN /\ notices = IF notified THEN 1 ELSE 0

(* A request joins: one more of its kind, with what the backend has now.   *)
LEMMA AskAdds ==
  ASSUME MonitorInv, NEW why, Ask(why), why = "retry" \/ \A q \in asked : q.why # why
  PROVE  /\ \A q \in asked' : q.answer \in Known
         /\ \A k : (\E q \in asked' : q.why = k) <=> ((\E q \in asked : q.why = k) \/ k = why)
         /\ \A q, r \in asked' : q.why = r.why /\ q.why # "retry" => q = r
<1>1. PICK new : new = [why |-> why, nr |-> extra', answer |-> server]
  OBVIOUS
<1>2. asked' = asked \union {new} /\ new.why = why /\ new.answer \in Known
  BY <1>1 DEF Ask, MonitorInv, MonitorTypeOK
<1>3. \A q \in asked : q.answer \in Known
  BY DEF MonitorInv
<1>4. \A q, r \in asked : q.why = r.why /\ q.why # "retry" => q = r
  BY DEF MonitorInv, MonitorTypeOK
<1>5. QED
  BY <1>2, <1>3, <1>4

(* A request settles: the poll sets its timer, the rollback is over.       *)
LEMMA AnswerSettles ==
  ASSUME MonitorInv, NEW q \in asked, Settle(q)
  PROVE  /\ \A r \in asked' : r.answer \in Known
         /\ chain' \in {"waiting", "running"}
         /\ (chain' = "running") <=> (\E r \in asked' : r.why = "poll")
         /\ rollback' \in [open : BOOLEAN, ack : BOOLEAN, at : {"idle", "sent", "done", "reloading"}]
         /\ (rollback'.at = "reloading") <=> (\E r \in asked' : r.why = "rollback")
         /\ \A r, s \in asked' : r.why = s.why /\ r.why # "retry" => r = s
<1>1. /\ \A r \in asked : r.answer \in Known
      /\ chain \in {"waiting", "running"}
      /\ (chain = "running") <=> (\E r \in asked : r.why = "poll")
      /\ rollback \in [open : BOOLEAN, ack : BOOLEAN, at : {"idle", "sent", "done", "reloading"}]
      /\ (rollback.at = "reloading") <=> (\E r \in asked : r.why = "rollback")
      /\ \A r, s \in asked : r.why = s.why /\ r.why # "retry" => r = s
  BY DEF MonitorInv, MonitorTypeOK, Unopened
<1>2. /\ asked' = asked \ {q} /\ chain' = IF q.why = "poll" THEN "waiting" ELSE chain
      /\ rollback' = IF q.why = "rollback" THEN [rollback EXCEPT !.at = "idle"] ELSE rollback
  BY DEF Settle
<1>3. \A r \in asked : r \in asked' \/ r = q
  BY <1>2
<1>4. \A r \in asked' : r \in asked /\ r # q
  BY <1>2
<1>5. (chain' = "running") <=> (\E r \in asked' : r.why = "poll")
  <2>1. CASE q.why = "poll"
    BY <1>1, <1>2, <1>4, <2>1
  <2>2. CASE q.why # "poll"
    BY <1>1, <1>2, <1>3, <1>4, <2>2
  <2>3. QED
    BY <2>1, <2>2
<1>6. /\ rollback' \in [open : BOOLEAN, ack : BOOLEAN, at : {"idle", "sent", "done", "reloading"}]
      /\ (rollback'.at = "reloading") <=> (\E r \in asked' : r.why = "rollback")
  <2>1. CASE q.why = "rollback"
    <3>1. /\ [rollback EXCEPT !.at = "idle"] \in
               [open : BOOLEAN, ack : BOOLEAN, at : {"idle", "sent", "done", "reloading"}]
          /\ [rollback EXCEPT !.at = "idle"].at = "idle"
      BY <1>1
    <3>2. \A r \in asked' : r.why # "rollback"
      BY <1>1, <1>4, <2>1
    <3>3. QED
      BY <1>2, <2>1, <3>1, <3>2
  <2>2. CASE q.why # "rollback"
    BY <1>1, <1>2, <1>3, <1>4, <2>2
  <2>3. QED
    BY <2>1, <2>2
<1>7. QED
  BY <1>1, <1>2, <1>4, <1>5, <1>6

-----------------------------------------------------------------------------
LEMMA MonitorStep == MonitorInv /\ [MonitorNext]_monitorVars => MonitorInv'
<1> SUFFICES ASSUME MonitorInv, [MonitorNext]_monitorVars
             PROVE  MonitorInv'
  OBVIOUS
<1>0. /\ server \in Known /\ onPage \in Known
      /\ (chain = "running") <=> (\E q \in asked : q.why = "poll")
      /\ (rollback.at = "reloading") <=> (\E q \in asked : q.why = "rollback")
      /\ \A q, r \in asked : q.why = r.why /\ q.why # "retry" => q = r
      /\ chain = "unmounted" => asked = {} /\ onPage = NoData /\ rollback.at = "idle" /\ ~rollback.open
      /\ \A q \in asked : q.answer \in Known
      /\ chain \in {"unmounted", "waiting", "running"}
      /\ rollback \in [open : BOOLEAN, ack : BOOLEAN, at : {"idle", "sent", "done", "reloading"}]
      /\ notified \in BOOLEAN /\ notices = IF notified THEN 1 ELSE 0
  BY DEF MonitorInv, MonitorTypeOK, Unopened
<1>1. CASE UNCHANGED monitorVars
  BY <1>0, <1>1 DEF monitorVars, MonitorInv, MonitorTypeOK, Unopened, Known, NoData
<1>2. CASE Progress \/ RolledBack
  <2>1. UNCHANGED <<asked, extra, fails, onPage, stale, chain, notified, notices, completion, rollback>>
    BY <1>2 DEF Progress, RolledBack
  <2>2. server' \in Known
    <3>1. CASE RolledBack
      <4>1. server' = [server EXCEPT !.status = "rolled_back"]
        BY <3>1 DEF RolledBack
      <4>2. QED
        BY <1>0, <4>1 DEF Known
    <3>2. CASE Progress
      <4>1. PICK ended : ended = server.done + 1
        OBVIOUS
      <4>2. server' = [server EXCEPT !.done = ended] \/ server' = [status |-> "completed", done |-> ended]
        BY <3>2, <4>1 DEF Progress
      <4>3. server.done \in 0..Total /\ server.done < Total
        BY <1>0, <3>2 DEF Known, Progress
      <4>4. ended \in 0..Total
        BY <4>1, <4>3, MonitorAssumption
      <4>5. [server EXCEPT !.done = ended] \in Known /\ [status |-> "completed", done |-> ended] \in Known
        BY <1>0, <4>4 DEF Known
      <4>6. QED
        BY <4>2, <4>5
    <3>3. QED
      BY <1>2, <3>1, <3>2
  <2>3. QED
    BY <1>0, <2>1, <2>2 DEF MonitorInv, MonitorTypeOK, Unopened, Known, NoData
<1>3. CASE Mount
  <2>1. /\ chain = "unmounted" /\ chain' = "waiting" /\ Ask("first")
        /\ UNCHANGED <<server, onPage, notified, notices, rollback>>
    BY <1>3 DEF Mount
  <2>2. /\ \A q \in asked' : q.answer \in Known
        /\ \A k : (\E q \in asked' : q.why = k) <=> k = "first"
        /\ \A q, r \in asked' : q.why = r.why /\ q.why # "retry" => q = r
    BY <1>0, <2>1, AskAdds
  <2>3. QED
    BY <1>0, <2>1, <2>2 DEF MonitorInv, MonitorTypeOK, Unopened, Known, NoData
<1>4. CASE TimerFires
  <2>1. /\ chain = "waiting" /\ chain' = "running" /\ Ask("poll")
        /\ UNCHANGED <<server, onPage, notified, notices, rollback>>
    BY <1>4 DEF TimerFires
  <2>2. /\ \A q \in asked' : q.answer \in Known
        /\ \A k : (\E q \in asked' : q.why = k) <=> ((\E q \in asked : q.why = k) \/ k = "poll")
        /\ \A q, r \in asked' : q.why = r.why /\ q.why # "retry" => q = r
    <3>1. \A q \in asked : q.why # "poll"
      BY <1>0, <2>1
    <3>2. QED
      BY <2>1, <3>1, AskAdds
  <2>3. QED
    BY <1>0, <2>1, <2>2 DEF MonitorInv, MonitorTypeOK, Unopened, Known, NoData
<1>5. CASE RetryNow
  <2>1. /\ onPage # NoData /\ Ask("retry")
        /\ UNCHANGED <<server, onPage, chain, notified, notices, rollback>>
    BY <1>5 DEF RetryNow
  <2>2. /\ \A q \in asked' : q.answer \in Known
        /\ \A k : (\E q \in asked' : q.why = k) <=> ((\E q \in asked : q.why = k) \/ k = "retry")
        /\ \A q, r \in asked' : q.why = r.why /\ q.why # "retry" => q = r
    BY <2>1, AskAdds
  <2>3. QED
    BY <1>0, <2>1, <2>2 DEF MonitorInv, MonitorTypeOK, Unopened, Known, NoData
<1>6. CASE RollbackAnswered
  <2>1. /\ rollback.at = "done" /\ rollback' = [rollback EXCEPT !.open = FALSE, !.at = "reloading"] /\ Ask("rollback")
        /\ UNCHANGED <<server, onPage, chain, notified, notices>>
    BY <1>6 DEF RollbackAnswered
  <2>2. /\ \A q \in asked' : q.answer \in Known
        /\ \A k : (\E q \in asked' : q.why = k) <=> ((\E q \in asked : q.why = k) \/ k = "rollback")
        /\ \A q, r \in asked' : q.why = r.why /\ q.why # "retry" => q = r
    <3>1. \A q \in asked : q.why # "rollback"
      BY <1>0, <2>1
    <3>2. QED
      BY <2>1, <3>1, AskAdds
  <2>3. /\ rollback' \in [open : BOOLEAN, ack : BOOLEAN, at : {"idle", "sent", "done", "reloading"}]
        /\ rollback'.at = "reloading"
    BY <1>0, <2>1
  <2>4. chain # "unmounted"
    BY <1>0, <2>1
  <2>5. QED
    BY <1>0, <2>1, <2>2, <2>3, <2>4 DEF MonitorInv, MonitorTypeOK, Unopened, Known, NoData
<1>7. CASE Receive
  <2>1. PICK q \in asked : Answer(q) \/ Fail(q)
    BY <1>7 DEF Receive
  <2>2. Settle(q) /\ UNCHANGED server
    BY <2>1 DEF Answer, Fail
  <2>3. /\ \A r \in asked' : r.answer \in Known
        /\ chain' \in {"waiting", "running"}
        /\ (chain' = "running") <=> (\E r \in asked' : r.why = "poll")
        /\ rollback' \in [open : BOOLEAN, ack : BOOLEAN, at : {"idle", "sent", "done", "reloading"}]
        /\ (rollback'.at = "reloading") <=> (\E r \in asked' : r.why = "rollback")
        /\ \A r, s \in asked' : r.why = s.why /\ r.why # "retry" => r = s
    BY <2>2, AnswerSettles
  <2>4. onPage' \in Known /\ notified' \in BOOLEAN /\ notices' = IF notified' THEN 1 ELSE 0
    <3>1. CASE Fail(q)
      BY <1>0, <3>1 DEF Fail
    <3>2. CASE Answer(q)
      <4>1. PICK over \in BOOLEAN : over = Finished(q.answer)
        BY DEF Finished
      <4>2. /\ onPage' = q.answer /\ notified' = (notified \/ over)
            /\ over /\ ~notified => notices' = notices + 1
            /\ ~(over /\ ~notified) => notices' = notices
        BY <3>2, <4>1 DEF Answer, Notifies
      <4>3. QED
        BY <1>0, <4>1, <4>2
    <3>3. QED
      BY <2>1, <3>1, <3>2
  <2>5. QED
    BY <1>0, <2>2, <2>3, <2>4 DEF MonitorInv, MonitorTypeOK, Unopened, Known, NoData
<1>8. CASE CloseCompletion
  <2>1. UNCHANGED <<server, asked, extra, fails, onPage, stale, chain, notified, notices, rollback>>
    BY <1>8 DEF CloseCompletion
  <2>2. QED
    BY <1>0, <2>1 DEF MonitorInv, MonitorTypeOK, Unopened, Known, NoData
<1>9. CASE OpenRollback \/ AckRollback \/ CloseRollback \/ ConfirmRollback \/ ServeRollback \/ RollbackFails
  <2>1. UNCHANGED <<asked, onPage, chain, notified, notices>>
    BY <1>9 DEF OpenRollback, AckRollback, CloseRollback, ConfirmRollback, ServeRollback, RollbackFails, rest
  <2>2. server' \in Known
    <3>1. server' = server \/ server' = [server EXCEPT !.status = "rolled_back"]
      BY <1>9 DEF OpenRollback, AckRollback, CloseRollback, ConfirmRollback, ServeRollback, RollbackFails, rest
    <3>2. QED
      BY <1>0, <3>1 DEF Known
  <2>3. /\ rollback' \in [open : BOOLEAN, ack : BOOLEAN, at : {"idle", "sent", "done", "reloading"}]
        /\ rollback.at # "reloading" => rollback'.at # "reloading"
        /\ rollback.at = "reloading" => rollback'.at = "reloading"
        /\ chain # "unmounted"
    <3>1. CASE OpenRollback
      <4>1. rollback' = [rollback EXCEPT !.open = TRUE, !.ack = FALSE] /\ rollback.at = "idle" /\ chain # "unmounted"
        BY <1>0, <3>1 DEF OpenRollback
      <4>2. QED
        BY <1>0, <4>1
    <3>2. CASE AckRollback
      <4>1. rollback' = [rollback EXCEPT !.ack = ~rollback.ack] /\ chain # "unmounted"
        BY <1>0, <3>2 DEF AckRollback
      <4>2. QED
        BY <1>0, <4>1
    <3>3. CASE CloseRollback
      <4>1. rollback' = [rollback EXCEPT !.open = FALSE] /\ rollback.at = "idle" /\ chain # "unmounted"
        BY <1>0, <3>3 DEF CloseRollback
      <4>2. QED
        BY <1>0, <4>1
    <3>4. CASE ConfirmRollback
      <4>1. rollback' = [rollback EXCEPT !.at = "sent"] /\ rollback.at = "idle" /\ chain # "unmounted"
        BY <1>0, <3>4 DEF ConfirmRollback
      <4>2. QED
        BY <1>0, <4>1
    <3>5. CASE ServeRollback
      <4>1. rollback' = [rollback EXCEPT !.at = "done"] /\ rollback.at = "sent" /\ chain # "unmounted"
        BY <1>0, <3>5 DEF ServeRollback
      <4>2. QED
        BY <1>0, <4>1
    <3>6. CASE RollbackFails
      <4>1. rollback' = [rollback EXCEPT !.at = "idle"] /\ rollback.at \in {"sent", "done"} /\ chain # "unmounted"
        BY <1>0, <3>6 DEF RollbackFails
      <4>2. QED
        BY <1>0, <4>1
    <3>7. QED
      BY <1>9, <3>1, <3>2, <3>3, <3>4, <3>5, <3>6
  <2>4. (rollback'.at = "reloading") <=> (\E q \in asked' : q.why = "rollback")
    BY <1>0, <2>1, <2>3
  <2>5. QED
    BY <1>0, <2>1, <2>2, <2>3, <2>4 DEF MonitorInv, MonitorTypeOK, Unopened, Known, NoData
<1>10. QED
  BY <1>1, <1>2, <1>3, <1>4, <1>5, <1>6, <1>7, <1>8, <1>9 DEF MonitorNext

LEMMA MonitorInitially == MonitorInit => MonitorInv
<1> SUFFICES ASSUME MonitorInit
             PROVE  MonitorInv
  OBVIOUS
<1>1. [status |-> "running", done |-> 0] \in Known /\ NoData \in Known
  BY MonitorAssumption DEF Known, NoData
<1>2. rollback \in [open : BOOLEAN, ack : BOOLEAN, at : {"idle", "sent", "done", "reloading"}]
      /\ rollback.at = "idle" /\ ~rollback.open
  BY DEF MonitorInit
<1>3. asked = {} /\ chain = "unmounted" /\ onPage = NoData /\ notified = FALSE /\ notices = 0 /\ server \in Known
  BY <1>1 DEF MonitorInit
<1>4. QED
  BY <1>1, <1>2, <1>3 DEF MonitorInv, MonitorTypeOK, Unopened

(* The notice of a finished rollout is shown at most once.                 *)
THEOREM FinishedIsAnnouncedOnce == MonitorSpec => []NotifiedOnce
<1>1. MonitorInv => NotifiedOnce
  BY DEF MonitorInv, NotifiedOnce
<1>2. QED
  BY <1>1, MonitorInitially, MonitorStep, PTL DEF MonitorSpec

-----------------------------------------------------------------------------
(* The list of releases (module FirmwarePage).                             *)
Entries == [file : Files, tag : {"first", "edited"}]
Operation ==
  [at : {"idle", "sent", "done", "reloading"}, of : Files \union {NoFile}, load : Nat]

(* Nothing is served that the page does not know the answer of.            *)
NoneDone == \A k \in Kinds : op[k].at # "done"

(* An operation in progress has its release, and one that awaits a reload  *)
(* has its number; the others have none.                                   *)
BinariesInv ==
  /\ FirmwareTypeOK /\ releasesAt \subseteq Entries /\ fetched \in Nat
  /\ doubt \in BOOLEAN /\ fetchError \in BOOLEAN
  /\ \A q \in fetches : q.nr \in Nat \ {0} /\ q.seen \subseteq Entries
  /\ op \in [Kinds -> Operation]
  /\ \A k \in Kinds : (op[k].at # "reloading" => op[k].load = 0) /\ (op[k].at # "idle" => op[k].of \in Files)

(* Without doubt there is one load at most; unless an operation was served *)
(* and its answer is still awaited, the load brings the catalog as it is,  *)
(* and the list has it when no load is under way.                          *)
CatalogInv ==
  ~doubt =>
    /\ \A q, r \in fetches : q = r
    /\ NoneDone =>
         /\ \A q \in fetches : q.seen = releasesAt
         /\ fetched > 0 /\ fetches = {} => rows = releasesAt \/ fetchError

PageOK == BinariesInv /\ CatalogInv

-----------------------------------------------------------------------------
LEMMA FetchAdds ==
  ASSUME BinariesInv, Fetch
  PROVE  /\ fetched \in Nat /\ fetched' = fetched + 1 /\ doubt' \in BOOLEAN
         /\ \E new \in fetches' : new.nr = fetched' /\ new.seen = releasesAt
              /\ fetches' = fetches \union {new}
         /\ \A q \in fetches' : q.nr \in Nat \ {0} /\ q.seen \subseteq Entries
         /\ ~doubt' => ~doubt /\ fetches = {}
<1>1. PICK new : new = [nr |-> fetched', seen |-> releasesAt]
  OBVIOUS
<1>2. /\ fetched \in Nat /\ fetched' = fetched + 1 /\ fetches' = fetches \union {new}
      /\ doubt' = (doubt \/ fetches # {})
  BY <1>1 DEF Fetch, BinariesInv
<1>3. new.nr = fetched' /\ new.seen = releasesAt
  BY <1>1
<1>4. fetched' \in Nat \ {0} /\ releasesAt \subseteq Entries
  BY <1>2 DEF BinariesInv
<1>5. \A q \in fetches' : q.nr \in Nat \ {0} /\ q.seen \subseteq Entries
  BY <1>2, <1>3, <1>4 DEF BinariesInv
<1>6. QED
  BY <1>2, <1>3, <1>5

(* A load and its answer; the operation that awaits it ends.               *)
LEMMA FetchEnds ==
  ASSUME PageOK, NEW q \in fetches, FetchAnswered(q) \/ FetchFails(q)
  PROVE  PageOK'
<1>1. /\ fetches' = fetches \ {q} /\ op' = Released(q)
      /\ UNCHANGED <<releasesAt, fetched, editing, removing, doubt>>
  BY DEF FetchAnswered, FetchFails
<1>2. /\ q.nr \in Nat \ {0} /\ q.seen \subseteq Entries /\ op \in [Kinds -> Operation]
      /\ \A k \in Kinds : (op[k].at # "reloading" => op[k].load = 0) /\ (op[k].at # "idle" => op[k].of \in Files)
      /\ \A k \in Kinds : op[k].at = "reloading" => \E r \in fetches : r.nr = op[k].load
  BY DEF PageOK, BinariesInv, FirmwareTypeOK
<1>3. \A k \in Kinds : op'[k] = IF op[k].load = q.nr THEN Idle ELSE op[k]
  BY <1>1 DEF Released
<1>4. Idle \in Operation /\ Idle.at = "idle" /\ Idle.load = 0
  BY DEF Idle, Operation
<1>5. op' \in [Kinds -> Operation]
  <2>1. \A k \in Kinds : (IF op[k].load = q.nr THEN Idle ELSE op[k]) \in Operation
    BY <1>2, <1>4
  <2>2. QED
    BY <1>1, <2>1 DEF Released
<1>6. \A k \in Kinds : (op'[k].at # "reloading" => op'[k].load = 0) /\ (op'[k].at # "idle" => op'[k].of \in Files)
  BY <1>2, <1>3, <1>4
<1>7. \A k \in Kinds : op'[k].at = "reloading" => \E r \in fetches' : r.nr = op'[k].load
  <2> SUFFICES ASSUME NEW k \in Kinds, op'[k].at = "reloading"
               PROVE  \E r \in fetches' : r.nr = op'[k].load
    OBVIOUS
  <2>1. op'[k] = op[k] /\ op[k].load # q.nr
    BY <1>3, <1>4
  <2>2. PICK r \in fetches : r.nr = op[k].load
    BY <1>2, <2>1
  <2>3. QED
    BY <1>1, <2>1, <2>2
<1>8. \A k \in Kinds : op'[k].at = "done" <=> op[k].at = "done"
  <2>1. \A k \in Kinds : op[k].at = "done" => op[k].load # q.nr
    BY <1>2
  <2>2. QED
    BY <1>3, <1>4, <2>1
<1>9. rows' \in SUBSET Entries /\ fetchError' \in BOOLEAN /\ (fetchError' \/ rows' = q.seen)
  BY <1>2 DEF FetchAnswered, FetchFails, PageOK, BinariesInv, FirmwareTypeOK, Entries
<1>10. BinariesInv'
  <2>1. FirmwareTypeOK'
    BY <1>1, <1>7, <1>9 DEF PageOK, BinariesInv, FirmwareTypeOK, Entries
  <2>2. QED
    BY <1>1, <1>5, <1>6, <1>9, <2>1 DEF PageOK, BinariesInv, Entries, Operation
<1>11. CatalogInv'
  <2> SUFFICES ASSUME ~doubt'
               PROVE  /\ \A r, s \in fetches' : r = s
                      /\ NoneDone' => /\ \A r \in fetches' : r.seen = releasesAt'
                                      /\ rows' = releasesAt' \/ fetchError'
    BY DEF CatalogInv
  <2>1. ~doubt /\ fetches' = {}
    BY <1>1 DEF PageOK, CatalogInv
  <2>2. NoneDone' => NoneDone
    BY <1>8 DEF NoneDone
  <2>3. NoneDone => q.seen = releasesAt
    BY <2>1 DEF PageOK, CatalogInv
  <2>4. QED
    BY <1>1, <1>9, <2>1, <2>2, <2>3
<1>12. QED
  BY <1>10, <1>11 DEF PageOK

-----------------------------------------------------------------------------
(* The steps of one operation: its other half is in FetchAdds.             *)
LEMMA OperationMoves ==
  ASSUME PageOK, NEW k \in Kinds, NEW o \in Operation, op' = [op EXCEPT ![k] = o],
         o.at # "reloading" => o.load = 0, o.at # "idle" => o.of \in Files
  PROVE  /\ op' \in [Kinds -> Operation]
         /\ \A j \in Kinds : j # k => op'[j] = op[j]
         /\ op'[k] = o
         /\ \A j \in Kinds : (op'[j].at # "reloading" => op'[j].load = 0) /\ (op'[j].at # "idle" => op'[j].of \in Files)
<1>1. op \in [Kinds -> Operation]
  BY DEF PageOK, BinariesInv
<1>2. op' \in [Kinds -> Operation] /\ op'[k] = o /\ \A j \in Kinds : j # k => op'[j] = op[j]
  BY <1>1
<1>3. QED
  BY <1>2 DEF PageOK, BinariesInv

(* An operation moves, nothing is loaded; the backend may have changed.    *)
LEMMA OperationKeeps ==
  ASSUME PageOK, NEW k \in Kinds, NEW o \in Operation, op' = [op EXCEPT ![k] = o],
         o.at \in {"idle", "sent", "done"}, o.load = 0, o.at # "idle" => o.of \in Files,
         UNCHANGED <<rows, fetches, fetched, fetchError>>,
         editing' \in Files \union {NoFile}, removing' \in Files \union {NoFile},
         releasesAt' \subseteq Entries, doubt' \in BOOLEAN, doubt => doubt',
         doubt' \/ o.at = "done" \/ (op[k].at # "done" /\ releasesAt' = releasesAt)
  PROVE  PageOK'
<1>1. /\ op' \in [Kinds -> Operation]
      /\ \A j \in Kinds : j # k => op'[j] = op[j]
      /\ op'[k] = o
      /\ \A j \in Kinds : (op'[j].at # "reloading" => op'[j].load = 0) /\ (op'[j].at # "idle" => op'[j].of \in Files)
  BY OperationMoves
<1>2. BinariesInv'
  <2>1. \A j \in Kinds : op'[j].at = "reloading" => \E q \in fetches : q.nr = op'[j].load
    BY <1>1 DEF PageOK, BinariesInv, FirmwareTypeOK
  <2>2. FirmwareTypeOK'
    BY <2>1 DEF PageOK, BinariesInv, FirmwareTypeOK
  <2>3. QED
    BY <1>1, <2>2 DEF PageOK, BinariesInv, Entries, Operation
<1>3. CatalogInv'
  <2>1. CASE doubt'
    BY <2>1 DEF CatalogInv
  <2>2. CASE o.at = "done"
    <3>1. ~NoneDone'
      BY <1>1, <2>2 DEF NoneDone
    <3>2. QED
      BY <3>1 DEF PageOK, CatalogInv
  <2>3. CASE ~doubt' /\ o.at # "done"
    <3>1. op[k].at # "done" /\ releasesAt' = releasesAt /\ ~doubt
      BY <2>3
    <3>2. NoneDone' => NoneDone
      BY <1>1, <3>1 DEF NoneDone
    <3>3. QED
      BY <3>1, <3>2 DEF PageOK, CatalogInv
  <2>4. QED
    BY <2>1, <2>2, <2>3
<1>4. QED
  BY <1>2, <1>3 DEF PageOK

LEMMA OperationStep ==
  ASSUME PageOK, NEW k \in Kinds, ServeOp(k) \/ Fails(k) \/ AnswerLost(k) \/ \E f \in Files : Submit(k, f)
  PROVE  PageOK'
<1>1. /\ op \in [Kinds -> Operation] /\ releasesAt \subseteq Entries /\ doubt \in BOOLEAN
      /\ editing \in Files \union {NoFile} /\ removing \in Files \union {NoFile}
      /\ Idle \in Operation /\ Idle.at = "idle" /\ Idle.load = 0
      /\ op[k].at # "idle" => op[k].of \in Files
      /\ op[k].at # "reloading" => op[k].load = 0
  BY DEF PageOK, BinariesInv, FirmwareTypeOK, Idle, Operation
<1>2. CASE Fails(k)
  <2>1. /\ op' = [op EXCEPT ![k] = Idle] /\ op[k].at = "sent"
        /\ UNCHANGED <<releasesAt, rows, fetchError, editing, removing, fetches, fetched, doubt>>
    BY <1>2 DEF Fails, NoFetch
  <2>2. QED
    BY <1>1, <2>1, OperationKeeps
<1>3. CASE AnswerLost(k)
  <2>1. /\ op' = [op EXCEPT ![k] = Idle] /\ doubt' = TRUE
        /\ UNCHANGED <<releasesAt, rows, fetches, fetched, fetchError, editing, removing>>
    BY <1>3 DEF AnswerLost
  <2>2. QED
    BY <1>1, <2>1, OperationKeeps
<1>4. ASSUME NEW f \in Files, Submit(k, f)
      PROVE  PageOK'
  <2>1. PICK o : o = [at |-> "sent", of |-> f, load |-> 0]
    OBVIOUS
  <2>2. o \in Operation /\ o.at = "sent" /\ o.of \in Files /\ o.load = 0
    BY <2>1 DEF Operation
  <2>3. /\ op' = [op EXCEPT ![k] = o] /\ op[k].at = "idle"
        /\ UNCHANGED <<releasesAt, rows, fetchError, editing, removing, fetches, fetched, doubt>>
    BY <1>4, <2>1 DEF Submit, NoFetch
  <2>4. QED
    BY <1>1, <2>2, <2>3, OperationKeeps
<1>5. CASE ServeOp(k)
  <2>1. /\ op[k].at = "sent" /\ op' = [op EXCEPT ![k].at = "done"] /\ releasesAt' = After(k, op[k].of)
        /\ UNCHANGED <<rows, fetchError, editing, removing, fetches, fetched, doubt>>
    BY <1>5 DEF ServeOp, OpAt, NoFetch
  <2>2. PICK o : o = [op[k] EXCEPT !.at = "done"]
    OBVIOUS
  <2>3. o \in Operation /\ o.at = "done" /\ o.of = op[k].of /\ o.load = 0
    BY <1>1, <2>1, <2>2 DEF Operation
  <2>4. op' = [op EXCEPT ![k] = o]
    BY <1>1, <2>1, <2>2
  <2>5. releasesAt' \subseteq Entries
    <3>1. PICK others : others = {e \in releasesAt : e.file # op[k].of}
      OBVIOUS
    <3>2. op[k].of \in Files
      BY <1>1, <2>1
    <3>3. /\ others \subseteq Entries
          /\ [file |-> op[k].of, tag |-> "first"] \in Entries /\ [file |-> op[k].of, tag |-> "edited"] \in Entries
      BY <1>1, <3>1, <3>2 DEF Entries
    <3>4. \/ releasesAt' = others \/ releasesAt' = others \union {[file |-> op[k].of, tag |-> "first"]}
          \/ releasesAt' = others \union {[file |-> op[k].of, tag |-> "edited"]}
      BY <2>1, <3>1 DEF After, Kinds
    <3>5. QED
      BY <3>3, <3>4
  <2>6. QED
    BY <1>1, <2>1, <2>3, <2>4, <2>5, OperationKeeps
<1>6. QED
  BY <1>2, <1>3, <1>4, <1>5

(* The answer of an operation, and the load it starts.                     *)
LEMMA OperationSucceeds ==
  ASSUME PageOK, NEW k \in Kinds, Succeeds(k)
  PROVE  PageOK'
<1>1. /\ op \in [Kinds -> Operation] /\ op[k].at = "done" /\ op[k].of \in Files /\ op[k].load = 0
      /\ editing \in Files \union {NoFile} /\ removing \in Files \union {NoFile} /\ fetchError \in BOOLEAN
  BY DEF PageOK, BinariesInv, FirmwareTypeOK, Succeeds
<1>2. Fetch /\ UNCHANGED <<releasesAt, rows, fetchError>>
      /\ editing' \in Files \union {NoFile} /\ removing' \in Files \union {NoFile}
  BY <1>1 DEF Succeeds
<1>3. /\ fetched \in Nat /\ fetched' = fetched + 1 /\ doubt' \in BOOLEAN
      /\ \E new \in fetches' : new.nr = fetched' /\ new.seen = releasesAt
           /\ fetches' = fetches \union {new}
      /\ \A q \in fetches' : q.nr \in Nat \ {0} /\ q.seen \subseteq Entries
      /\ ~doubt' => ~doubt /\ fetches = {}
  BY <1>2, FetchAdds DEF PageOK
<1>4. PICK new \in fetches' : new.nr = fetched' /\ new.seen = releasesAt /\ fetches' = fetches \union {new}
  BY <1>3
<1>5. PICK o : /\ o \in Operation /\ op' = [op EXCEPT ![k] = o] /\ o.at \in {"idle", "reloading"}
               /\ o.at = "idle" => o.load = 0
               /\ o.at = "reloading" => o.of \in Files /\ o.load = fetched'
  <2>1. PICK o : o = IF k = "upload" THEN Idle ELSE [op[k] EXCEPT !.at = "reloading", !.load = fetched']
    OBVIOUS
  <2>2. op' = [op EXCEPT ![k] = o]
    <3>1. op' = [op EXCEPT ![k] = IF k = "upload" THEN Idle
                                  ELSE [op[k] EXCEPT !.at = "reloading", !.load = fetched']]
      BY Zenon DEF Succeeds
    <3>2. QED
      BY <2>1, <3>1, Zenon
  <2>3. CASE k = "upload"
    <3>1. o \in Operation /\ o.at = "idle" /\ o.load = 0
      BY <2>1, <2>3 DEF Idle, Operation
    <3>2. QED
      BY <2>2, <3>1
  <2>4. CASE k # "upload"
    <3>1. o = [op[k] EXCEPT !.at = "reloading", !.load = fetched'] /\ fetched' \in Nat
      BY <1>3, <2>1, <2>4
    <3>2. o \in Operation /\ o.at = "reloading" /\ o.of = op[k].of /\ o.load = fetched'
      BY <1>1, <3>1 DEF Operation
    <3>3. QED
      BY <1>1, <2>2, <3>2
  <2>5. QED
    BY <2>3, <2>4
<1>6. /\ op' \in [Kinds -> Operation]
      /\ \A j \in Kinds : j # k => op'[j] = op[j]
      /\ op'[k] = o
      /\ \A j \in Kinds : (op'[j].at # "reloading" => op'[j].load = 0) /\ (op'[j].at # "idle" => op'[j].of \in Files)
  BY <1>5, OperationMoves
<1>7. BinariesInv'
  <2>1. \A j \in Kinds : op'[j].at = "reloading" => \E q \in fetches' : q.nr = op'[j].load
    BY <1>4, <1>5, <1>6 DEF PageOK, BinariesInv, FirmwareTypeOK
  <2>2. FirmwareTypeOK'
    BY <1>2, <2>1 DEF PageOK, BinariesInv, FirmwareTypeOK
  <2>3. fetched' \in Nat
    BY <1>3
  <2>4. QED
    BY <1>1, <1>2, <1>3, <1>6, <2>2, <2>3 DEF PageOK, BinariesInv, Entries, Operation
<1>8. CatalogInv'
  BY <1>2, <1>3, <1>4 DEF CatalogInv
<1>9. QED
  BY <1>7, <1>8 DEF PageOK

-----------------------------------------------------------------------------
LEMMA CatalogStep == PageOK /\ [FirmwareNext]_firmwareVars => PageOK'
<1> SUFFICES ASSUME PageOK, [FirmwareNext]_firmwareVars
             PROVE  PageOK'
  OBVIOUS
<1>1. CASE Refresh
  <2>1. Fetch /\ UNCHANGED <<releasesAt, rows, fetchError, editing, removing, op>>
    BY <1>1 DEF Refresh
  <2>2. /\ fetched \in Nat /\ fetched' = fetched + 1 /\ doubt' \in BOOLEAN
        /\ \E new \in fetches' : new.nr = fetched' /\ new.seen = releasesAt
             /\ fetches' = fetches \union {new}
        /\ \A q \in fetches' : q.nr \in Nat \ {0} /\ q.seen \subseteq Entries
        /\ ~doubt' => ~doubt /\ fetches = {}
    BY <2>1, FetchAdds DEF PageOK
  <2>3. PICK new \in fetches' : new.seen = releasesAt /\ fetches' = fetches \union {new}
    BY <2>2
  <2>4. BinariesInv'
    <3>1. fetched' \in Nat /\ fetches \subseteq fetches'
      BY <2>2, <2>3
    <3>2. FirmwareTypeOK'
      BY <2>1, <3>1 DEF PageOK, BinariesInv, FirmwareTypeOK
    <3>3. QED
      BY <2>1, <2>2, <3>1, <3>2 DEF PageOK, BinariesInv, Entries, Operation
  <2>5. CatalogInv'
    BY <2>1, <2>2, <2>3 DEF CatalogInv
  <2>6. QED
    BY <2>4, <2>5 DEF PageOK
<1>2. CASE CloseDialog \/ (\E f \in Files : OpenEdit(f) \/ OpenRemove(f)) \/ UNCHANGED firmwareVars
  <2>1. /\ UNCHANGED <<releasesAt, rows, fetchError, op, fetches, fetched, doubt>>
        /\ editing' \in Files \union {NoFile} /\ removing' \in Files \union {NoFile}
    BY <1>2 DEF CloseDialog, OpenEdit, OpenRemove, NoFetch, firmwareVars, PageOK, BinariesInv, FirmwareTypeOK
  <2>2. BinariesInv'
    BY <2>1 DEF PageOK, BinariesInv, FirmwareTypeOK, Entries, Operation
  <2>3. CatalogInv'
    BY <2>1 DEF PageOK, CatalogInv, NoneDone
  <2>4. QED
    BY <2>2, <2>3 DEF PageOK
<1>3. QED
  BY <1>1, <1>2, FetchEnds, OperationStep, OperationSucceeds DEF FirmwareNext, Fetched, Settling

LEMMA CatalogInitially == FirmwareInit => PageOK
<1> SUFFICES ASSUME FirmwareInit
             PROVE  PageOK
  OBVIOUS
<1>1. Idle \in Operation /\ Idle.at = "idle" /\ Idle.load = 0
  BY DEF Idle, Operation
<1>2. \A k \in Kinds : op[k] = Idle
  BY DEF FirmwareInit
<1>3. op \in [Kinds -> Operation]
  BY <1>1 DEF FirmwareInit
<1>4. FirmwareTypeOK
  BY <1>1, <1>2 DEF FirmwareInit, FirmwareTypeOK
<1>5. BinariesInv
  BY <1>1, <1>2, <1>3, <1>4 DEF FirmwareInit, BinariesInv
<1>6. CatalogInv
  BY DEF FirmwareInit, CatalogInv
<1>7. QED
  BY <1>5, <1>6 DEF PageOK

(* The list shows the catalog although nothing polls.                      *)
THEOREM ListIsCurrent == FirmwareSpec => []CatalogIsCurrent
<1>1. PageOK => CatalogIsCurrent
  BY DEF PageOK, BinariesInv, CatalogInv, NoneDone, CatalogIsCurrent
<1>2. QED
  BY <1>1, CatalogInitially, CatalogStep, PTL DEF FirmwareSpec

-----------------------------------------------------------------------------
(* The fleet overview (module FleetPage).                                  *)
Prunings == [confirm : BOOLEAN, at : {"idle", "sent", "done", "reloading"}]

(* One poll and one reload after a pruning at most, each with a snapshot.  *)
FleetInv ==
  /\ FleetTypeOK
  /\ \A q \in pending : q.seen \in [Units -> States]
  /\ \A q, r \in pending : q.why = r.why /\ q.why \in {"poll", "pruned"} => q = r
  /\ pruning \in Prunings

LEMMA FleetAsked ==
  ASSUME FleetInv, NEW why, AskFleet(why), why \in {"poll", "pruned"} => \A q \in pending : q.why # why
  PROVE  /\ \A q \in pending' : q.seen \in [Units -> States]
         /\ \A k : (\E q \in pending' : q.why = k) <=> ((\E q \in pending : q.why = k) \/ k = why)
         /\ \A q, r \in pending' : q.why = r.why /\ q.why \in {"poll", "pruned"} => q = r
<1>1. PICK new : new = [why |-> why, nr |-> clicks', seen |-> registered]
  OBVIOUS
<1>2. pending' = pending \union {new} /\ new.why = why /\ new.seen \in [Units -> States]
  BY <1>1 DEF AskFleet, FleetInv, FleetTypeOK
<1>3. \A q \in pending : q.seen \in [Units -> States]
  BY DEF FleetInv
<1>4. \A q, r \in pending : q.why = r.why /\ q.why \in {"poll", "pruned"} => q = r
  BY DEF FleetInv
<1>5. QED
  BY <1>2, <1>3, <1>4

LEMMA FleetSettled ==
  ASSUME FleetInv, NEW q \in pending, FleetSettles(q), registered' = registered, view' \in {view, q.seen}
  PROVE  FleetInv'
<1>1. /\ \A r \in pending : r.seen \in [Units -> States]
      /\ (poll = "running") <=> (\E r \in pending : r.why = "poll")
      /\ (pruning.at = "reloading") <=> (\E r \in pending : r.why = "pruned")
      /\ pruning \in Prunings
      /\ \A r, s \in pending : r.why = s.why /\ r.why \in {"poll", "pruned"} => r = s
      /\ registered \in [Units -> States] /\ view \in [Units -> States]
  BY DEF FleetInv, FleetTypeOK
<1>2. /\ pending' = pending \ {q} /\ poll' = IF q.why = "poll" THEN "waiting" ELSE poll
      /\ pruning' = IF q.why = "pruned" THEN [pruning EXCEPT !.at = "idle"] ELSE pruning
  BY DEF FleetSettles
<1>3. \A r \in pending : r \in pending' \/ r = q
  BY <1>2
<1>4. \A r \in pending' : r \in pending /\ r # q
  BY <1>2
<1>5. (poll' = "running") <=> (\E r \in pending' : r.why = "poll")
  <2>1. CASE q.why = "poll"
    BY <1>1, <1>2, <1>4, <2>1
  <2>2. CASE q.why # "poll"
    BY <1>1, <1>2, <1>3, <1>4, <2>2
  <2>3. QED
    BY <2>1, <2>2
<1>6. pruning' \in Prunings /\ ((pruning'.at = "reloading") <=> (\E r \in pending' : r.why = "pruned"))
  <2>1. CASE q.why = "pruned"
    <3>1. [pruning EXCEPT !.at = "idle"] \in Prunings /\ [pruning EXCEPT !.at = "idle"].at = "idle"
      BY <1>1 DEF Prunings
    <3>2. \A r \in pending' : r.why # "pruned"
      BY <1>1, <1>4, <2>1
    <3>3. QED
      BY <1>2, <2>1, <3>1, <3>2
  <2>2. CASE q.why # "pruned"
    BY <1>1, <1>2, <1>3, <1>4, <2>2
  <2>3. QED
    BY <2>1, <2>2
<1>7. view' \in [Units -> States] /\ registered' \in [Units -> States]
  BY <1>1
<1>8. QED
  BY <1>1, <1>4, <1>5, <1>6, <1>7 DEF FleetInv, FleetTypeOK, States

(* The parts of the invariant that a step without a load disturbs.         *)
LEMMA FleetUntouched ==
  ASSUME FleetInv, UNCHANGED <<view, pending, poll>>, registered' \in [Units -> States],
         pruning' \in Prunings, (pruning'.at = "reloading") <=> (pruning.at = "reloading")
  PROVE  FleetInv'
BY DEF FleetInv, FleetTypeOK, States

LEMMA FleetStep == FleetInv /\ [FleetNext]_fleetVars => FleetInv'
<1> SUFFICES ASSUME FleetInv, [FleetNext]_fleetVars
             PROVE  FleetInv'
  OBVIOUS
<1>0. /\ registered \in [Units -> States] /\ view \in [Units -> States] /\ pruning \in Prunings
      /\ (poll = "running") <=> (\E r \in pending : r.why = "poll")
      /\ (pruning.at = "reloading") <=> (\E r \in pending : r.why = "pruned")
  BY DEF FleetInv, FleetTypeOK
<1>1. CASE \E u \in Units : RobotMoves(u)
  <2>1. PICK u \in Units, s \in {"online", "offline"} : registered' = [registered EXCEPT ![u] = s]
    BY <1>1 DEF RobotMoves
  <2>2. registered' \in [Units -> States]
    BY <1>0, <2>1 DEF States
  <2>3. UNCHANGED <<view, pending, poll, pruning>>
    BY <1>1 DEF RobotMoves
  <2>4. QED
    BY <1>0, <2>2, <2>3, FleetUntouched
<1>2. CASE OpenFleet
  <2>1. poll = "unmounted" /\ poll' = "waiting" /\ AskFleet("first") /\ UNCHANGED <<registered, view, pruning>>
    BY <1>2 DEF OpenFleet
  <2>2. /\ \A q \in pending' : q.seen \in [Units -> States]
        /\ \A k : (\E q \in pending' : q.why = k) <=> ((\E q \in pending : q.why = k) \/ k = "first")
        /\ \A q, r \in pending' : q.why = r.why /\ q.why \in {"poll", "pruned"} => q = r
    BY <2>1, FleetAsked
  <2>3. QED
    BY <1>0, <2>1, <2>2 DEF FleetInv, FleetTypeOK, States
<1>3. CASE FleetTimer
  <2>1. poll = "waiting" /\ poll' = "running" /\ AskFleet("poll") /\ UNCHANGED <<registered, view, pruning>>
    BY <1>3 DEF FleetTimer
  <2>2. /\ \A q \in pending' : q.seen \in [Units -> States]
        /\ \A k : (\E q \in pending' : q.why = k) <=> ((\E q \in pending : q.why = k) \/ k = "poll")
        /\ \A q, r \in pending' : q.why = r.why /\ q.why \in {"poll", "pruned"} => q = r
    <3>1. \A q \in pending : q.why # "poll"
      BY <1>0, <2>1
    <3>2. QED
      BY <2>1, <3>1, FleetAsked
  <2>3. QED
    BY <1>0, <2>1, <2>2 DEF FleetInv, FleetTypeOK, States
<1>4. CASE RefreshFleet
  <2>1. AskFleet("refresh") /\ UNCHANGED <<registered, view, poll, pruning>>
    BY <1>4 DEF RefreshFleet
  <2>2. /\ \A q \in pending' : q.seen \in [Units -> States]
        /\ \A k : (\E q \in pending' : q.why = k) <=> ((\E q \in pending : q.why = k) \/ k = "refresh")
        /\ \A q, r \in pending' : q.why = r.why /\ q.why \in {"poll", "pruned"} => q = r
    BY <2>1, FleetAsked
  <2>3. QED
    BY <1>0, <2>1, <2>2 DEF FleetInv, FleetTypeOK, States
<1>5. CASE FleetReceives
  <2>1. PICK q \in pending : FleetAnswered(q) \/ FleetFails(q)
    BY <1>5 DEF FleetReceives
  <2>2. FleetSettles(q) /\ registered' = registered /\ view' \in {view, q.seen}
    BY <2>1 DEF FleetAnswered, FleetFails
  <2>3. QED
    BY <2>2, FleetSettled
<1>6. CASE Pruned
  <2>1. /\ pruning.at = "done" /\ pruning' = [confirm |-> FALSE, at |-> "reloading"]
        /\ AskFleet("pruned") /\ UNCHANGED <<registered, view, poll>>
    BY <1>6 DEF Pruned
  <2>2. /\ \A q \in pending' : q.seen \in [Units -> States]
        /\ \A k : (\E q \in pending' : q.why = k) <=> ((\E q \in pending : q.why = k) \/ k = "pruned")
        /\ \A q, r \in pending' : q.why = r.why /\ q.why \in {"poll", "pruned"} => q = r
    <3>1. \A q \in pending : q.why # "pruned"
      BY <1>0, <2>1
    <3>2. QED
      BY <2>1, <3>1, FleetAsked
  <2>3. pruning' \in Prunings /\ pruning'.at = "reloading"
    BY <2>1 DEF Prunings
  <2>4. QED
    BY <1>0, <2>1, <2>2, <2>3 DEF FleetInv, FleetTypeOK, States
<1>7. CASE Removed
  <2>1. AskFleet("removed") /\ UNCHANGED <<registered, view, poll, pruning>>
    BY <1>7 DEF Removed
  <2>2. /\ \A q \in pending' : q.seen \in [Units -> States]
        /\ \A k : (\E q \in pending' : q.why = k) <=> ((\E q \in pending : q.why = k) \/ k = "removed")
        /\ \A q, r \in pending' : q.why = r.why /\ q.why \in {"poll", "pruned"} => q = r
    BY <2>1, FleetAsked
  <2>3. QED
    BY <1>0, <2>1, <2>2 DEF FleetInv, FleetTypeOK, States
<1>8. CASE ServePrune
  <2>1. /\ pruning.at = "sent" /\ pruning' = [pruning EXCEPT !.at = "done"]
        /\ registered' = [u \in Units |-> IF registered[u] = "offline" THEN "gone" ELSE registered[u]]
        /\ UNCHANGED <<view, pending, poll>>
    BY <1>8 DEF ServePrune
  <2>2. pruning' \in Prunings /\ pruning'.at = "done"
    BY <1>0, <2>1 DEF Prunings
  <2>3. registered' \in [Units -> States]
    BY <1>0, <2>1 DEF States
  <2>4. QED
    BY <2>1, <2>2, <2>3, FleetUntouched
<1>9. CASE PruneFails \/ Prune
  <2>1. pruning.at # "reloading" /\ UNCHANGED <<registered, view, pending, poll>>
    BY <1>9 DEF PruneFails, Prune
  <2>2. pruning' = [pruning EXCEPT !.at = "idle"] \/ pruning' = [pruning EXCEPT !.at = "sent"]
    BY <1>9 DEF PruneFails, Prune
  <2>3. pruning' \in Prunings /\ pruning'.at # "reloading"
    BY <1>0, <2>2 DEF Prunings
  <2>4. QED
    BY <1>0, <2>1, <2>3, FleetUntouched
<1>10. CASE \E c \in BOOLEAN : AskPrune(c)
  <2>1. PICK c \in BOOLEAN : pruning' = [pruning EXCEPT !.confirm = c]
    BY <1>10 DEF AskPrune
  <2>2. pruning' \in Prunings /\ pruning'.at = pruning.at
    BY <1>0, <2>1 DEF Prunings
  <2>3. UNCHANGED <<registered, view, pending, poll>>
    BY <1>10 DEF AskPrune
  <2>4. QED
    BY <1>0, <2>2, <2>3, FleetUntouched
<1>11. CASE ServeRemove
  <2>1. /\ registered' = [registered EXCEPT ![removal.unit] = "gone"]
        /\ UNCHANGED <<view, pending, poll, pruning>>
    BY <1>11 DEF ServeRemove
  <2>2. registered' \in [Units -> States]
    BY <1>0, <2>1 DEF States
  <2>3. QED
    BY <1>0, <2>1, <2>2, FleetUntouched
<1>12. CASE \/ (\E u \in Units : OpenDetail(u)) \/ CloseDetail \/ AskRemove
            \/ RemoveUnit \/ RemoveFails \/ UNCHANGED fleetVars
  <2>1. UNCHANGED <<registered, view, pending, poll, pruning>>
    BY <1>12 DEF OpenDetail, CloseDetail, AskRemove, Show, RemoveUnit, RemoveFails, fleetVars
  <2>2. QED
    BY <1>0, <2>1, FleetUntouched
<1>13. QED
  BY <1>1, <1>2, <1>3, <1>4, <1>5, <1>6, <1>7, <1>8, <1>9, <1>10, <1>11, <1>12 DEF FleetNext, Operations

LEMMA FleetInitially == FleetInit => FleetInv
<1> SUFFICES ASSUME FleetInit
             PROVE  FleetInv
  OBVIOUS
<1>1. registered \in [Units -> States] /\ view \in [Units -> States]
  BY DEF FleetInit, States
<1>2. pruning \in Prunings /\ pruning.at = "idle"
  BY DEF FleetInit, Prunings
<1>3. pending = {} /\ poll = "unmounted"
  BY DEF FleetInit
<1>4. QED
  BY <1>1, <1>2, <1>3 DEF FleetInv, FleetTypeOK

-----------------------------------------------------------------------------
(* The parts of a behaviour.                                               *)
AllInv ==
  PollWide /\ ToastInv /\ FocusInv /\ DeployInv /\ MonitorInv /\ PageOK /\ FleetInv

LEMMA AllInitially == AllInit => AllInv
BY PollInitially, ToastInitially, FocusInitially, DeployInitially, MonitorInitially,
   CatalogInitially, FleetInitially DEF AllInit, AllInv

LEMMA AllStep == AllInv /\ [AllNext]_allVars => AllInv'
<1> SUFFICES ASSUME AllInv, [AllNext]_allVars
             PROVE  AllInv'
  OBVIOUS
<1>1. /\ [PollNext]_pollVars /\ [ToastNext]_toastVars /\ [FocusNext]_focusVars
      /\ [DeployNext]_deployVars /\ [MonitorNext]_monitorVars
      /\ [FirmwareNext]_firmwareVars /\ [FleetNext]_fleetVars
  BY Zenon DEF AllNext, Rest, allVars
<1>2. PollWide' /\ ToastInv' /\ FocusInv'
  BY <1>1, PollWideStep, ToastStep, FocusStep DEF AllInv
<1>3. DeployInv' /\ MonitorInv'
  BY <1>1, DeployStep, MonitorStep DEF AllInv
<1>4. PageOK' /\ FleetInv'
  BY <1>1, CatalogStep, FleetStep DEF AllInv
<1>5. QED
  BY <1>2, <1>3, <1>4 DEF AllInv

LEMMA ToastsTyped == ToastInv => ToastTypeOK
BY DEF ToastInv, ToastTypeOK, Falling

(* The variables of hooks, widgets and pages hold what the React states    *)
(* they stand for can hold, in whichever part a behaviour moves.           *)
THEOREM WidgetsAreTyped == AllSpec => []WidgetsTyped
<1>1. AllInv => WidgetsTyped
  <2> SUFFICES ASSUME AllInv
               PROVE  WidgetsTyped
    OBVIOUS
  <2>1. PollTypeOK /\ ToastTypeOK /\ FocusTypeOK
    BY PollTyped, ToastsTyped DEF AllInv, FocusInv
  <2>2. DeployTypeOK /\ MonitorTypeOK
    BY DeployTyped DEF AllInv, MonitorInv
  <2>3. FirmwareTypeOK /\ FleetTypeOK
    BY DEF AllInv, PageOK, BinariesInv, FleetInv
  <2>4. QED
    BY <2>1, <2>2, <2>3 DEF WidgetsTyped
<1>2. QED
  BY <1>1, AllInitially, AllStep, PTL DEF AllSpec
=============================================================================
