----------------------------- MODULE SchedulerProofs -----------------------------
(***************************************************************************)
(* Theorems about Scheduler, for every set of tasks, number of priorities  *)
(* and width of the tick count: the arithmetic of delays and time-outs,    *)
(* the invariant that ties the places in the calls to the kernel's lists,  *)
(* and what follows from it.                                               *)
(***************************************************************************)
EXTENDS Scheduler, KernelProofs

\* vTaskDelayUntil (tasks.c 676-697) blocks exactly if the next wake time is not
\* yet reached: `late' ticks after the previous one, for n ticks, whichever of the
\* two times and of the present are behind an overflow of the tick count.
THEOREM ShouldDelayExact ==
  ASSUME NEW now \in Ticks, NEW late \in Ticks, NEW n \in Ticks, n > 0
  PROVE  LET previous == (now - late) % TICK_MOD
             wake     == (previous + n) % TICK_MOD
         IN  ShouldDelay(now, previous, wake) <=> n > late
<1> DEFINE M == TICK_MOD
           previous == (now - late) % TICK_MOD
           wake     == (previous + n) % TICK_MOD
<1>1. M \in Nat /\ M > 2
  BY KernelAssumption
<1>2. now \in 0 .. M - 1 /\ late \in 0 .. M - 1 /\ n \in 1 .. M - 1
  BY <1>1 DEF Ticks
<1>3. previous = IF now >= late THEN now - late ELSE now - late + M
  <2>1. now >= late => now - late \in Ticks
    BY <1>1, <1>2 DEF Ticks
  <2>2. now < late => now - late \in -TICK_MOD .. -1
    BY <1>1, <1>2
  <2> HIDE DEF M
  <2>3. now - late \in Int
    BY <1>2
  <2> QED
    BY <1>2, <2>1, <2>2, <2>3, TicksWrap DEF M
<1> HIDE DEF previous
<1>4. previous \in 0 .. M - 1
  BY <1>1, <1>2, <1>3
<1>5. wake = IF previous + n < M THEN previous + n ELSE previous + n - M
  <2>1. previous + n < M => previous + n \in Ticks
    BY <1>1, <1>2, <1>4 DEF Ticks
  <2>2. previous + n >= M => previous + n \in TICK_MOD .. 2 * TICK_MOD - 1
    BY <1>1, <1>2, <1>4
  <2>3. previous + n \in Int
    BY <1>1, <1>2, <1>4
  <2> HIDE DEF M
  <2> QED
    BY <1>1, <1>2, <1>4, <2>1, <2>2, <2>3, TicksWrap DEF M
<1> HIDE DEF wake, M
<1>6. ShouldDelay(now, previous, wake) <=> n > late
  BY <1>1, <1>2, <1>3, <1>4, <1>5 DEF ShouldDelay
<1>7. QED
  BY <1>6 DEF previous, wake

\* xTaskCheckForTimeOut (tasks.c 1858-1901) is exact for anything up to a whole lap
\* of the tick count, e ticks after the task began to wait: the wait has timed out
\* if and only if it was to last at most e ticks, and otherwise goes on for the rest.
THEOREM TimeOutExact ==
  ASSUME NEW kk, NEW timeOut, NEW entering \in Ticks, NEW n \in Ticks,
         NEW e \in 0 .. TICK_MOD,
         timeOut.timeOnEntering = entering,
         kk.tick = (entering + e) % TICK_MOD,
         (kk.overflows # timeOut.overflowCount) <=> (entering + e >= TICK_MOD)
  PROVE  /\ TimedOut(kk, timeOut, n) <=> n # portMAX_DELAY /\ e >= n
         /\ ~ TimedOut(kk, timeOut, n) /\ n # portMAX_DELAY =>
              TicksRemaining(kk, timeOut, n) = n - e
<1> DEFINE M == TICK_MOD
<1>1. M \in Nat /\ M > 2
  BY KernelAssumption
<1>2. entering \in 0 .. M - 1 /\ n \in 0 .. M - 1 /\ e \in 0 .. M
  BY <1>1 DEF Ticks
<1>3. kk.tick = IF entering + e < M THEN entering + e ELSE entering + e - M
  <2>1. entering + e < M => entering + e \in Ticks
    BY <1>1, <1>2 DEF Ticks
  <2>2. entering + e >= M => entering + e \in TICK_MOD .. 2 * TICK_MOD - 1
    BY <1>1, <1>2
  <2>3. entering + e \in Int
    BY <1>2
  <2> HIDE DEF M
  <2> QED
    BY <1>1, <1>2, <2>1, <2>2, <2>3, TicksWrap DEF M
<1>4. TicksSince(kk, timeOut) = IF e < M THEN e ELSE 0
  <2> DEFINE d == kk.tick - entering
  <2>1. d = IF entering + e < M THEN e ELSE e - M
    BY <1>1, <1>2, <1>3
  <2> HIDE DEF d
  <2>2. CASE entering + e < M
    <3>1. d \in Ticks /\ d \in Int /\ e < M
      BY <1>1, <1>2, <2>1, <2>2 DEF Ticks
    <3>2. d % TICK_MOD = d
      BY <3>1, TicksWrap
    <3> QED
      BY <2>1, <2>2, <3>1, <3>2 DEF TicksSince, d
  <2>3. CASE entering + e >= M /\ e < M
    <3>1. d \in -TICK_MOD .. -1 /\ d \in Int /\ d = e - M
      BY <1>1, <1>2, <2>1, <2>3
    <3>2. d % TICK_MOD = d + TICK_MOD
      BY <3>1, TicksWrap
    <3>3. d % TICK_MOD = e
      BY <1>1, <1>2, <3>1, <3>2
    <3> QED
      BY <2>3, <3>3 DEF TicksSince, d
  <2>4. CASE e = M
    <3>1. d = 0 /\ 0 \in Ticks
      BY <1>1, <1>2, <2>1, <2>4 DEF Ticks
    <3>2. d % TICK_MOD = 0
      BY <3>1, TicksWrap
    <3> QED
      BY <1>1, <2>4, <3>2 DEF TicksSince, d
  <2> QED
    BY <1>1, <1>2, <2>2, <2>3, <2>4
<1> DEFINE since == TicksSince(kk, timeOut)
           now   == kk.tick
           over  == kk.overflows # timeOut.overflowCount
<1>5. TimedOut(kk, timeOut, n) <=>
        n # portMAX_DELAY /\ ((over /\ now >= entering) \/ since >= n)
  BY DEF TimedOut
<1>6. over <=> entering + e >= M
  OBVIOUS
<1>7. now >= entering /\ entering + e >= M <=> e = M
  BY <1>1, <1>2, <1>3
<1>8. portMAX_DELAY = M - 1
  BY DEF portMAX_DELAY
<1>9. since = IF e < M THEN e ELSE 0
  BY <1>4
<1>10. TicksRemaining(kk, timeOut, n) = IF n = portMAX_DELAY THEN n ELSE n - since
  BY DEF TicksRemaining
<1> HIDE DEF since, now, over, M
<1>11. e = M => over /\ now >= entering
  BY <1>1, <1>2, <1>6, <1>7
<1>12. (over /\ now >= entering) => e = M
  BY <1>6, <1>7
<1>13. TimedOut(kk, timeOut, n) <=> n # portMAX_DELAY /\ e >= n
  <2>1. CASE e = M
    BY <1>1, <1>2, <1>5, <1>11, <2>1
  <2>2. CASE e < M
    BY <1>1, <1>2, <1>5, <1>9, <1>12, <2>2
  <2> QED
    BY <1>1, <1>2, <2>1, <2>2
<1>14. ~ TimedOut(kk, timeOut, n) /\ n # portMAX_DELAY => TicksRemaining(kk, timeOut, n) = n - e
  BY <1>1, <1>2, <1>9, <1>10, <1>13
<1>15. QED
  BY <1>13, <1>14

-------------------------------------------------------------------------------
(* The invariant *)

\* Where the scheduler is suspended.
Held == {"locked", "list", "delay", "delayUntil", "wait", "resumeAll", "reapLocked"}

\* How the places in the calls go with the kernel's state: the scheduler is
\* suspended as long as the current task is in a call that did it, nothing is put
\* off otherwise, the idle task reaps only what was deleted, and the current task is
\* ready unless it has just blocked.
Control ==
  /\ \A t \in AllTasks : pc[t] \in Held => t = k.current
  /\ k.schedulerSuspended = IF pc[k.current] \in Held THEN 1 ELSE 0
  /\ pc[IdleTask] \in {"app", "reapLocked", "reap"}
  /\ pc[IdleTask] # "app" => k.waitingTermination # <<>>
  /\ pc[k.current] \in {"delay", "delayUntil", "wait"} => argument[k.current] \in 1 .. portMAX_DELAY
  /\ k.schedulerSuspended = 0 => k.pendingReady = <<>> /\ k.missedTicks = 0 /\ ~ k.missedYield
  /\ pc[k.current] \notin {"yield", "resumeAll"} => IsReady(k, k.current)
  /\ k.basePriority = k.priority

\* Nobody who is ready goes before the current task, but for what a yield under way
\* or a handler's wake-up accounts for.
Top ==
  ~ ignoredYield /\ pc[k.current] \notin {"yield", "resumeAll"} =>
     \A u \in AllTasks : IsReady(k, u) =>
        \/ k.priority[u] <= k.priority[k.current]
        \/ pc[k.current] = "created" /\ k.priority[u] <= argument[k.current]

\* Types of what is not in the kernel.
CallTypes ==
  /\ pc \in [AllTasks -> Places]
  /\ argument \in [AllTasks -> Ticks \cup Priorities]
  /\ previousWake \in [AllTasks -> Ticks]
  /\ ignoredYield \in BOOLEAN

SInv == CallTypes /\ Sound(k) /\ TimesSound(k) /\ Control /\ Top

\* A switch while the scheduler runs settles everything: the next task may run.
Settled(kk) ==
  /\ Sound(kk) /\ TimesSound(kk) /\ Highest(kk)
  /\ kk.schedulerSuspended = 0 /\ kk.pendingReady = <<>>
  /\ kk.missedTicks = 0 /\ ~ kk.missedYield /\ kk.basePriority = kk.priority

LEMMA SettledInv ==
  ASSUME CallTypes', Settled(k'), \A t \in AllTasks : pc'[t] \notin Held,
         pc'[IdleTask] \in {"app", "reap"},
         pc'[IdleTask] # "app" => k'.waitingTermination # <<>>
  PROVE  SInv'
<1> DEFINE kk == k'
<1>1. kk.current \in AllTasks /\ \A t \in AllTasks : kk.priority[t] \in Nat
  BY SoundTypes DEF Settled
<1>2. pc'[kk.current] \notin Held /\ {"delay", "delayUntil", "wait"} \subseteq Held
  BY <1>1 DEF Held
<1>3. Control'
  BY <1>1, <1>2 DEF Control, Settled, Highest
<1>4. Top'
  BY DEF Top, Settled, Highest
<1> QED
  BY <1>3, <1>4 DEF SInv, Settled

\* A switch from a sound state settles it.
LEMMA SwitchSettles ==
  ASSUME NEW kk, Sound(kk), TimesSound(kk), kk.schedulerSuspended = 0, kk.pendingReady = <<>>,
         kk.missedTicks = 0, ~ kk.missedYield, kk.basePriority = kk.priority
  PROVE  /\ Settled(vTaskSwitchContext(kk))
         /\ vTaskSwitchContext(kk).waitingTermination = kk.waitingTermination
<1> DEFINE r == vTaskSwitchContext(kk)
<1>1. Sound(r) /\ Highest(r) /\ SwitchedTo(r, kk)
  BY Switches
<1> HIDE DEF r
<1>2. TimesSound(r)
  BY <1>1 DEF SwitchedTo, TimesSound
<1>3. Settled(r) /\ r.waitingTermination = kk.waitingTermination
  BY <1>1, <1>2 DEF SwitchedTo, Settled
<1> QED
  BY <1>3 DEF r

\* The idle task's list stays as long as the task taken out is not in it.
LEMMA StillReaping ==
  ASSUME NEW kk, Sound(kk), kk.waitingTermination # <<>>, NEW t,
         t \notin ToSet(kk.waitingTermination),
         NEW r, \A u \in AllTasks \ {t} : SamePlace(r, kk, u)
  PROVE  r.waitingTermination # <<>>
<1>1. kk.waitingTermination \in Seq(AllTasks)
  BY SoundTypes, ListTypes
<1>2. PICK u \in AllTasks : u \in ToSet(kk.waitingTermination)
  BY <1>1, InList
<1>3. u \in ToSet(r.waitingTermination)
  BY <1>2 DEF SamePlace
<1> QED
  BY <1>3 DEF ToSet

\* What is known when the current task is outside of any call.
LEMMA InApp ==
  ASSUME SInv, NEW t, At(t, "app")
  PROVE  /\ t = k.current /\ t \in AllTasks /\ pc[t] = "app"
         /\ \A u \in AllTasks : pc[u] \notin Held
         /\ pc[IdleTask] \in {"app", "reap"}
         /\ k.schedulerSuspended = 0 /\ k.pendingReady = <<>>
         /\ k.missedTicks = 0 /\ ~ k.missedYield
         /\ IsReady(k, t)
         /\ ~ ignoredYield => \A u \in AllTasks : IsReady(k, u) => k.priority[u] <= k.priority[t]
<1>1. t = k.current /\ t \in AllTasks /\ pc[t] = "app"
  BY SoundTypes DEF SInv, At
<1>2. "app" \notin Held /\ "reapLocked" \in Held
  BY DEF Held
<1>3. Control /\ Top /\ IdleTask \in AllTasks
  BY SoundTypes DEF SInv
<1>4. /\ \A u \in AllTasks : pc[u] \notin Held
      /\ pc[IdleTask] \in {"app", "reap"}
  BY <1>1, <1>2, <1>3 DEF Control
<1>5. k.schedulerSuspended = 0
  BY <1>1, <1>2, <1>3 DEF Control
<1> QED
  BY <1>1, <1>3, <1>4, <1>5 DEF Control, Top

-------------------------------------------------------------------------------
(* Calls that begin by suspending the scheduler *)

\* The control part of a step that leaves the scheduler suspended by the current task.
LEMMA HoldStep ==
  ASSUME SInv, NEW t, At(t, "app"), k' = vTaskSuspendAll(k),
         NEW place \in Held \ {"resumeAll"}, Goto(t, place),
         place = "reapLocked" <=> t = IdleTask,
         t = IdleTask => k.waitingTermination # <<>>,
         place \in {"delay", "delayUntil", "wait"} => argument'[t] \in 1 .. portMAX_DELAY,
         CallTypes', ignoredYield' = ignoredYield
  PROVE  SInv'
<1>1. /\ t = k.current /\ t \in AllTasks /\ pc[t] = "app"
      /\ \A u \in AllTasks : pc[u] \notin Held
      /\ pc[IdleTask] \in {"app", "reap"}
      /\ k.schedulerSuspended = 0 /\ IsReady(k, t)
      /\ ~ ignoredYield => \A u \in AllTasks : IsReady(k, u) => k.priority[u] <= k.priority[t]
  BY InApp
<1> DEFINE r == vTaskSuspendAll(k)
<1>2. /\ Sound(r) /\ TimesSound(r) /\ SameLists(r, k)
      /\ r.schedulerSuspended = 1 /\ r.current = k.current
      /\ r.basePriority = k.basePriority
  BY <1>1, SuspendsAll DEF SInv
<1> HIDE DEF r
<1>3. k' = r
  BY DEF r
<1>4. \A u \in AllTasks : IsReady(r, u) <=> IsReady(k, u)
  BY <1>2 DEF SameLists, IsReady
<1>5. pc \in [AllTasks -> Places] /\ IdleTask \in AllTasks
  BY SoundTypes DEF SInv, CallTypes
<1>6. pc' = [pc EXCEPT ![t] = place] /\ pc'[t] = place
  BY <1>1, <1>5 DEF Goto
<1>7. \A u \in AllTasks : pc'[u] \in Held => u = t
  BY <1>1, <1>5, <1>6
<1>8. /\ pc'[IdleTask] \in {"app", "reapLocked", "reap"}
      /\ pc'[IdleTask] # "app" => k.waitingTermination # <<>>
  <2>1. CASE t = IdleTask
    BY <1>6, <2>1
  <2>2. CASE t # IdleTask
    <3>1. pc'[IdleTask] = pc[IdleTask]
      BY <1>5, <1>6, <2>2
    <3>2. pc[IdleTask] # "app" => k.waitingTermination # <<>>
      BY DEF SInv, Control
    <3>3. QED
      BY <1>1, <3>1, <3>2
  <2>3. QED
    BY <2>1, <2>2
<1>9. Control'
  <2>1. k'.basePriority = k'.priority
    BY <1>2, <1>3 DEF SInv, Control, SameLists
  <2>2. k'.current = t /\ k'.schedulerSuspended = 1 /\ k'.waitingTermination = k.waitingTermination
    BY <1>1, <1>2, <1>3 DEF SameLists
  <2>3. IsReady(k', k'.current)
    BY <1>1, <1>3, <1>4, <2>2
  <2>4. QED
    BY <1>6, <1>7, <1>8, <2>1, <2>2, <2>3 DEF Control
<1>10. Top'
  <2>1. k'.current = t /\ k'.priority = k.priority
    BY <1>1, <1>2, <1>3 DEF SameLists
  <2>2. \A u \in AllTasks : IsReady(k', u) <=> IsReady(k, u)
    BY <1>3, <1>4
  <2>3. QED
    BY <1>1, <2>1, <2>2 DEF Top
<1>11. QED
  BY <1>2, <1>3, <1>9, <1>10 DEF SInv

LEMMA LockInv ==
  ASSUME SInv, NEW t \in AllTasks, Lock(t) \/ ListCall(t)
  PROVE  SInv'
<1>1. PICK place \in {"locked", "list"} :
         At(t, "app") /\ t # IdleTask /\ k' = vTaskSuspendAll(k) /\ Goto(t, place) /\ Keep
  BY DEF Lock, ListCall
<1>2. CallTypes' /\ ignoredYield' = ignoredYield
  BY <1>1 DEF SInv, CallTypes, Goto, Keep, Places
<1>3. place \in Held \ {"resumeAll"} /\ place # "reapLocked"
  BY DEF Held
<1>4. place \notin {"delay", "delayUntil", "wait"}
  OBVIOUS
<1>5. QED
  BY <1>1, <1>2, <1>3, <1>4, HoldStep

LEMMA IdleLookInv ==
  ASSUME SInv, IdleLook
  PROVE  SInv'
<1>1. /\ At(IdleTask, "app") /\ k.waitingTermination # <<>> /\ k' = vTaskSuspendAll(k)
      /\ Goto(IdleTask, "reapLocked") /\ Keep
  BY DEF IdleLook
<1>2. CallTypes' /\ ignoredYield' = ignoredYield
  BY <1>1 DEF SInv, CallTypes, Goto, Keep, Places
<1>3. "reapLocked" \in Held \ {"resumeAll"}
  BY DEF Held
<1>4. "reapLocked" \notin {"delay", "delayUntil", "wait"}
  OBVIOUS
<1>5. QED
  BY <1>1, <1>2, <1>3, <1>4, HoldStep

\* Delays asked for are tick counts.
LEMMA DelayTypes ==
  ASSUME NEW n \in Delays
  PROVE  /\ n \in Ticks /\ n \in Ticks \cup Priorities /\ n \in Nat
         /\ n > 0 => n \in 1 .. portMAX_DELAY
<1>1. n \in 0 .. portMAX_DELAY /\ portMAX_DELAY = TICK_MOD - 1 /\ TICK_MOD \in Nat
  BY SchedulerAssumption, KernelAssumption DEF portMAX_DELAY
<1>2. QED
  BY <1>1 DEF Ticks

LEMMA WaitCallInv ==
  ASSUME SInv, NEW t \in AllTasks, NEW n \in Delays, WaitCall(t, n)
  PROVE  SInv'
<1>1. /\ At(t, "app") /\ t # IdleTask /\ k' = vTaskSuspendAll(k) /\ Goto(t, "wait") /\ n > 0
      /\ argument' = [argument EXCEPT ![t] = n] /\ UNCHANGED <<previousWake, ignoredYield>>
  BY DEF WaitCall
<1>2. n \in Ticks \cup Priorities /\ n \in 1 .. portMAX_DELAY
  BY <1>1, DelayTypes
<1>3. CallTypes' /\ ignoredYield' = ignoredYield /\ argument'[t] = n
  BY <1>1, <1>2 DEF SInv, CallTypes, Goto, Places
<1>4. "wait" \in Held \ {"resumeAll"} /\ "wait" # "reapLocked"
  BY DEF Held
<1>5. QED
  BY <1>1, <1>2, <1>3, <1>4, HoldStep

LEMMA DelayUntilCallInv ==
  ASSUME SInv, NEW t \in AllTasks, NEW n \in Delays, NEW late \in Lateness,
         DelayUntilCall(t, n, late)
  PROVE  SInv'
<1>1. /\ At(t, "app") /\ t # IdleTask /\ k' = vTaskSuspendAll(k) /\ Goto(t, "delayUntil") /\ n > 0
      /\ argument' = [argument EXCEPT ![t] = n]
      /\ previousWake' = [previousWake EXCEPT ![t] = (k.tick - late) % TICK_MOD]
      /\ ignoredYield' = ignoredYield
  BY DEF DelayUntilCall
<1>2. n \in Ticks \cup Priorities /\ n \in 1 .. portMAX_DELAY
  BY <1>1, DelayTypes
<1>3. (k.tick - late) % TICK_MOD \in Ticks
  <2>1. k.tick \in Ticks /\ late \in Ticks
    BY SoundTypes, SchedulerAssumption DEF SInv
  <2>2. k.tick - late \in Int /\ TICK_MOD \in Nat \ {0}
    BY <2>1, KernelAssumption DEF Ticks
  <2>3. QED
    BY <2>2 DEF Ticks
<1>4. CallTypes' /\ argument'[t] = n
  <2>1. pc' \in [AllTasks -> Places]
    BY <1>1 DEF SInv, CallTypes, Goto, Places
  <2>2. argument' \in [AllTasks -> Ticks \cup Priorities] /\ argument'[t] = n
    BY <1>1, <1>2 DEF SInv, CallTypes
  <2>3. previousWake' \in [AllTasks -> Ticks]
    BY <1>1, <1>3 DEF SInv, CallTypes
  <2>4. QED
    BY <1>1, <2>1, <2>2, <2>3 DEF SInv, CallTypes
<1>5. "delayUntil" \in Held \ {"resumeAll"} /\ "delayUntil" # "reapLocked"
  BY DEF Held
<1>6. QED
  BY <1>1, <1>2, <1>4, <1>5, HoldStep

LEMMA DelayCallInv ==
  ASSUME SInv, NEW t \in AllTasks, NEW n \in Delays, DelayCall(t, n)
  PROVE  SInv'
<1>1. /\ At(t, "app") /\ t # IdleTask
      /\ k' = IF n = 0 THEN k ELSE vTaskSuspendAll(k)
      /\ Goto(t, IF n = 0 THEN "yield" ELSE "delay")
      /\ argument' = [argument EXCEPT ![t] = n] /\ UNCHANGED <<previousWake, ignoredYield>>
  BY DEF DelayCall
<1>2. n \in Ticks \cup Priorities /\ n \in Nat /\ (n > 0 => n \in 1 .. portMAX_DELAY)
  BY DelayTypes
<1>3. CallTypes' /\ ignoredYield' = ignoredYield /\ argument'[t] = n
  BY <1>1, <1>2 DEF SInv, CallTypes, Goto, Places
<1>4. CASE n = 0
  <2>1. k' = k /\ pc' = [pc EXCEPT ![t] = "yield"]
    BY <1>1, <1>4 DEF Goto
  <2>2. /\ t = k.current /\ pc[IdleTask] \in {"app", "reap"}
        /\ \A u \in AllTasks : pc[u] \notin Held
        /\ k.schedulerSuspended = 0
    BY <1>1, InApp
  <2>3. /\ pc'[t] = "yield" /\ \A u \in AllTasks \ {t} : pc'[u] = pc[u]
        /\ IdleTask \in AllTasks
    BY <2>1, SoundTypes DEF SInv, CallTypes
  <2>4. "yield" \notin Held /\ {"delay", "delayUntil", "wait"} \subseteq Held
    BY DEF Held
  <2>5. Control'
    BY <1>1, <2>1, <2>2, <2>3, <2>4 DEF SInv, Control
  <2>6. Top'
    BY <2>1, <2>2, <2>3 DEF Top
  <2>7. QED
    BY <1>3, <2>1, <2>5, <2>6 DEF SInv
<1>5. CASE n # 0
  <2>1. k' = vTaskSuspendAll(k) /\ Goto(t, "delay")
    BY <1>1, <1>5
  <2>2. n \in 1 .. portMAX_DELAY
    BY <1>2, <1>5
  <2>3. "delay" \in Held \ {"resumeAll"} /\ "delay" # "reapLocked"
    BY DEF Held
  <2>4. QED
    BY <1>1, <1>3, <2>1, <2>2, <2>3, HoldStep
<1>6. QED
  BY <1>4, <1>5

-------------------------------------------------------------------------------
(* Steps with the scheduler suspended *)

\* Where the current task is inside a call that has suspended the scheduler.
LEMMA InHeld ==
  ASSUME SInv, NEW place \in Held, NEW t, At(t, place)
  PROVE  /\ t = k.current /\ t \in AllTasks /\ pc[t] = place
         /\ \A u \in AllTasks \ {t} : pc[u] \notin Held
         /\ k.schedulerSuspended = 1
         /\ t = IdleTask => place = "reapLocked"
         /\ pc[IdleTask] \in {"app", "reapLocked", "reap"}
         /\ pc[IdleTask] # "app" => k.waitingTermination # <<>>
         /\ k.basePriority = k.priority
         /\ place # "resumeAll" => /\ IsReady(k, t)
                                   /\ t \notin ToSet(k.waitingTermination)
         /\ ~ ignoredYield /\ place # "resumeAll" =>
              \A u \in AllTasks : IsReady(k, u) => k.priority[u] <= k.priority[t]
<1>1. t = k.current /\ t \in AllTasks /\ pc[t] = place /\ Control /\ Top /\ IdleTask \in AllTasks
  BY SoundTypes DEF SInv, At
<1>2. "yield" \notin Held /\ "created" \notin Held /\ "app" \notin Held /\ "reap" \notin Held
  BY DEF Held
<1>3. \A u \in AllTasks \ {t} : pc[u] \notin Held
  BY <1>1 DEF Control
<1>4. t = IdleTask => place = "reapLocked"
  BY <1>1, <1>2 DEF Control
<1>5. place # "resumeAll" => IsReady(k, t)
  BY <1>1, <1>2 DEF Control
<1>6. place # "resumeAll" => t \notin ToSet(k.waitingTermination)
  BY <1>1, <1>5, SoundTypes DEF SInv, InPlace
<1>7. k.schedulerSuspended = 1
  BY <1>1 DEF Control
<1>8. ~ ignoredYield /\ place # "resumeAll" =>
        \A u \in AllTasks : IsReady(k, u) => k.priority[u] <= k.priority[t]
  BY <1>1, <1>2 DEF Top
<1>9. QED
  BY <1>1, <1>3, <1>4, <1>5, <1>6, <1>7, <1>8 DEF Control

LEMMA WalkListsInv ==
  ASSUME SInv, NEW t \in AllTasks, WalkLists(t)
  PROVE  SInv'
<1>1. At(t, "list") /\ k' = AfterTaskReport(k) /\ pc' = [pc EXCEPT ![t] = "locked"] /\ Keep
  BY DEF WalkLists, Goto
<1>2. "list" \in Held /\ "locked" \in Held /\ "list" # "resumeAll"
  BY DEF Held
<1>3. /\ t = k.current
      /\ \A u \in AllTasks \ {t} : pc[u] \notin Held
      /\ k.schedulerSuspended = 1 /\ t # IdleTask
      /\ pc[IdleTask] \in {"app", "reapLocked", "reap"}
      /\ pc[IdleTask] # "app" => k.waitingTermination # <<>>
      /\ k.basePriority = k.priority /\ IsReady(k, t)
      /\ ~ ignoredYield =>
           \A u \in AllTasks : IsReady(k, u) => k.priority[u] <= k.priority[t]
  BY <1>1, <1>2, InHeld
<1> DEFINE r == AfterTaskReport(k)
<1>4. /\ Sound(r) /\ TimesSound(r) /\ Calm(r, k)
      /\ r.waitingTermination = k.waitingTermination
      /\ \A u \in AllTasks : IsReady(r, u) <=> IsReady(k, u)
  BY Reports DEF SInv
<1> HIDE DEF r
<1>5. k' = r
  BY <1>1 DEF r
<1>6. CallTypes' /\ ignoredYield' = ignoredYield
  BY <1>1 DEF SInv, CallTypes, Keep, Places
<1>7. /\ pc'[t] = "locked" /\ \A u \in AllTasks \ {t} : pc'[u] = pc[u]
      /\ IdleTask \in AllTasks
  BY <1>1, SoundTypes DEF SInv, CallTypes
<1>8. Control'
  BY <1>2, <1>3, <1>4, <1>5, <1>7 DEF Control, Calm
<1>9. Top'
  BY <1>3, <1>4, <1>5, <1>6 DEF Top, Calm
<1>10. QED
  BY <1>4, <1>5, <1>6, <1>8, <1>9 DEF SInv

\* The current task has blocked, or need not: the call goes on with xTaskResumeAll.
LEMMA BlockStep ==
  ASSUME SInv, NEW place \in {"delay", "delayUntil", "wait"}, NEW t, At(t, place),
         Goto(t, "resumeAll"), ForgetArgument(t),
         Sound(k'), TimesSound(k'), k' = k \/ Parted(k', k)
  PROVE  SInv'
<1>1. place \in Held /\ place # "resumeAll" /\ "resumeAll" \in Held /\ place # "reapLocked"
  BY DEF Held
<1>2. /\ t = k.current /\ t \in AllTasks /\ pc[t] = place
      /\ \A u \in AllTasks \ {t} : pc[u] \notin Held
      /\ k.schedulerSuspended = 1 /\ t # IdleTask
      /\ pc[IdleTask] \in {"app", "reapLocked", "reap"}
      /\ pc[IdleTask] # "app" => k.waitingTermination # <<>>
      /\ k.basePriority = k.priority /\ t \notin ToSet(k.waitingTermination)
  BY <1>1, InHeld
<1>3. CallTypes'
  <2>1. 0 \in Ticks
    BY SoundTypes, FieldTypes DEF SInv
  <2>2. QED
    BY <2>1 DEF SInv, CallTypes, Goto, ForgetArgument, Places
<1>4. /\ pc'[t] = "resumeAll" /\ \A u \in AllTasks \ {t} : pc'[u] = pc[u]
      /\ IdleTask \in AllTasks
  BY <1>2, SoundTypes DEF SInv, CallTypes, Goto
<1>5. /\ k'.current = t /\ k'.schedulerSuspended = 1 /\ k'.basePriority = k'.priority
  BY <1>2 DEF Parted, Calm
<1>6. k.waitingTermination # <<>> => k'.waitingTermination # <<>>
  <2>1. CASE k' = k
    BY <2>1
  <2>2. CASE Parted(k', k)
    <3> DEFINE r == k'
    <3>1. \A u \in AllTasks \ {t} : SamePlace(r, k, u)
      BY <1>2, <2>2 DEF Parted
    <3> HIDE DEF r
    <3>2. k.waitingTermination # <<>> => r.waitingTermination # <<>>
      BY <1>2, <3>1, StillReaping DEF SInv
    <3>3. QED
      BY <3>2 DEF r
  <2>3. QED
    BY <2>1, <2>2
<1>7. Control'
  BY <1>1, <1>2, <1>4, <1>5, <1>6 DEF Control
<1>8. Top'
  BY <1>4, <1>5 DEF Top
<1>9. QED
  BY <1>3, <1>7, <1>8 DEF SInv

\* What the three calls that block know.
LEMMA AboutToBlock ==
  ASSUME SInv, NEW place \in {"delay", "delayUntil", "wait"}, NEW t, At(t, place)
  PROVE  /\ t = k.current /\ t \in AllTasks /\ t # IdleTask /\ IsReady(k, t)
         /\ SoundBut(k, t) /\ TimesSound(k) /\ Sound(k)
         /\ argument[t] \in 1 .. portMAX_DELAY
<1>1. place \in Held /\ place # "resumeAll" /\ place # "reapLocked"
  BY DEF Held
<1>2. t = k.current /\ t \in AllTasks /\ pc[t] = place /\ t # IdleTask /\ IsReady(k, t)
  BY <1>1, InHeld
<1>3. argument[t] \in 1 .. portMAX_DELAY
  BY <1>2 DEF SInv, Control
<1>4. QED
  BY <1>2, <1>3, SoundIsSoundBut DEF SInv

LEMMA DelayBlockInv ==
  ASSUME SInv, NEW t \in AllTasks, DelayBlock(t)
  PROVE  SInv'
<1>1. /\ At(t, "delay") /\ k' = BlockCurrentFor(k, argument[t])
      /\ Goto(t, "resumeAll") /\ ForgetArgument(t)
  BY DEF DelayBlock
<1>2. /\ t = k.current /\ t \in AllTasks /\ t # IdleTask
      /\ SoundBut(k, t) /\ TimesSound(k) /\ argument[t] \in 1 .. portMAX_DELAY
  BY <1>1, AboutToBlock
<1>3. ASSUME NEW n \in 1 .. portMAX_DELAY
      PROVE  LET r == BlockCurrentFor(k, n) IN Sound(r) /\ TimesSound(r) /\ Parted(r, k)
  BY <1>2, BlocksFor
<1>4. Sound(k') /\ TimesSound(k') /\ Parted(k', k)
  BY <1>1, <1>2, <1>3
<1>5. QED
  BY <1>1, <1>4, BlockStep

LEMMA WaitBlockInv ==
  ASSUME SInv, NEW t \in AllTasks, NEW e \in EventLists, WaitBlock(t, e)
  PROVE  SInv'
<1>1. /\ At(t, "wait") /\ k' = vTaskPlaceOnEventList(k, e, argument[t])
      /\ Goto(t, "resumeAll") /\ ForgetArgument(t)
  BY DEF WaitBlock
<1>2. /\ t = k.current /\ t \in AllTasks /\ t # IdleTask /\ IsReady(k, t)
      /\ Sound(k) /\ TimesSound(k) /\ argument[t] \in 1 .. portMAX_DELAY
  BY <1>1, AboutToBlock
<1>3. ASSUME NEW n \in 1 .. portMAX_DELAY
      PROVE  LET r == vTaskPlaceOnEventList(k, e, n) IN Sound(r) /\ TimesSound(r) /\ Parted(r, k)
  BY <1>2, PlacesOnEventList
<1>4. Sound(k') /\ TimesSound(k') /\ Parted(k', k)
  BY <1>1, <1>2, <1>3
<1>5. QED
  BY <1>1, <1>4, BlockStep

LEMMA DelayUntilBlockInv ==
  ASSUME SInv, NEW t \in AllTasks, DelayUntilBlock(t)
  PROVE  SInv'
<1> DEFINE wake == (previousWake[t] + argument[t]) % TICK_MOD
           r == prvAddCurrentTaskToDelayedList(RemoveGenericItem(k, t), wake)
<1>1. /\ At(t, "delayUntil")
      /\ k' = IF ShouldDelay(k.tick, previousWake[t], wake) THEN r ELSE k
      /\ Goto(t, "resumeAll") /\ ForgetArgument(t)
  BY DEF DelayUntilBlock
<1>2. /\ t = k.current /\ t \in AllTasks /\ t # IdleTask
      /\ SoundBut(k, t) /\ TimesSound(k) /\ Sound(k) /\ argument[t] \in 1 .. portMAX_DELAY
  BY <1>1, AboutToBlock
<1>3. wake \in Ticks /\ k.tick \in Ticks /\ previousWake[t] \in Ticks
  <2>1. previousWake[t] \in Ticks /\ k.tick \in Ticks
    BY <1>2, SoundTypes DEF SInv, CallTypes
  <2>2. previousWake[t] + argument[t] \in Int /\ TICK_MOD \in Nat \ {0}
    BY <1>2, <2>1, KernelAssumption DEF Ticks, portMAX_DELAY
  <2>3. QED
    BY <2>1, <2>2 DEF Ticks
<1> HIDE DEF wake
<1>4. CASE ShouldDelay(k.tick, previousWake[t], wake)
  <2>1. wake # k.tick
    <3>1. k.tick \in Nat /\ wake \in Nat /\ previousWake[t] \in Nat
      BY <1>3 DEF Ticks
    <3>2. QED
      BY <1>4, <3>1 DEF ShouldDelay
  <2>2. ASSUME NEW w \in Ticks, w # k.tick
        PROVE  LET s == prvAddCurrentTaskToDelayedList(RemoveGenericItem(k, t), w)
               IN  Sound(s) /\ TimesSound(s) /\ Parted(s, k)
    <3> DEFINE s == prvAddCurrentTaskToDelayedList(RemoveGenericItem(k, t), w)
    <3>1. Sound(s) /\ Parted(s, k)
      BY <1>2, Blocks, BlocksAlone
    <3>2. TimesSound(s)
      BY <1>2, <2>2, BlocksTimes
    <3> HIDE DEF s
    <3>3. QED
      BY <3>1, <3>2 DEF s
  <2>3. Sound(r) /\ TimesSound(r) /\ Parted(r, k)
    BY <1>3, <2>1, <2>2
  <2>4. QED
    BY <1>1, <1>4, <2>3, BlockStep
<1>5. CASE ~ ShouldDelay(k.tick, previousWake[t], wake)
  <2>1. k' = k
    BY <1>1, <1>5
  <2>2. Sound(k') /\ TimesSound(k')
    BY <1>2, <2>1
  <2>3. QED
    BY <1>1, <2>1, <2>2, BlockStep
<1>6. QED
  BY <1>4, <1>5

-------------------------------------------------------------------------------
(* Resuming the scheduler, and yields *)

\* xTaskResumeAll in one of the three calls that end a suspension: either the switch
\* has been done, or the same task goes on.
LEMMA ResumeStep ==
  ASSUME SInv, NEW place \in {"locked", "resumeAll", "reapLocked"}, NEW t, At(t, place),
         k' = xTaskResumeAll(k), NEW to \in {"app", "yield", "reap"}, Goto(t, to), Keep,
         to = "reap" <=> place = "reapLocked", t = IdleTask <=> place = "reapLocked",
         to = "yield" <=> place = "resumeAll" /\ ~ AlreadyYielded(k)
  PROVE  SInv'
<1>1. place \in Held
  BY DEF Held
<1>2. /\ t = k.current /\ t \in AllTasks /\ pc[t] = place
      /\ \A u \in AllTasks \ {t} : pc[u] \notin Held
      /\ k.schedulerSuspended = 1
      /\ pc[IdleTask] \in {"app", "reapLocked", "reap"}
      /\ pc[IdleTask] # "app" => k.waitingTermination # <<>>
      /\ k.basePriority = k.priority
      /\ place # "resumeAll" => IsReady(k, t)
      /\ ~ ignoredYield /\ place # "resumeAll" =>
           \A u \in AllTasks : IsReady(k, u) => k.priority[u] <= k.priority[t]
  BY <1>1, InHeld
<1> DEFINE r == xTaskResumeAll(k)
<1>3. Sound(r) /\ TimesSound(r) /\ Resumed(r, k)
  BY <1>2, ResumesAll DEF SInv
<1> HIDE DEF r
<1>4. k' = r
  BY DEF r
<1>5. CallTypes' /\ ignoredYield' = ignoredYield
  BY <1>2 DEF SInv, CallTypes, Goto, Keep, Places
<1>6. /\ pc'[t] = to /\ \A u \in AllTasks \ {t} : pc'[u] = pc[u]
      /\ IdleTask \in AllTasks
  BY <1>2, SoundTypes DEF SInv, CallTypes, Goto
<1>7. \A u \in AllTasks : pc'[u] \notin Held
  BY <1>2, <1>6 DEF Held
<1>8. pc'[IdleTask] \in {"app", "reap"}
  <2>1. CASE t = IdleTask
    BY <1>6, <2>1
  <2>2. CASE t # IdleTask
    BY <1>2, <1>6, <1>7, <2>2 DEF Held
  <2>3. QED
    BY <2>1, <2>2
<1>9. pc'[IdleTask] # "app" => r.waitingTermination # <<>>
  <2>1. k.waitingTermination # <<>> => r.waitingTermination # <<>>
    <3>1. k.waitingTermination \in Seq(AllTasks) /\ r.waitingTermination \in Seq(AllTasks)
      BY <1>3, SoundTypes, ListTypes DEF SInv
    <3>2. QED
      BY <1>3, <3>1, InList DEF Resumed
  <2>2. pc'[IdleTask] # "app" => pc[IdleTask] # "app"
    BY <1>2, <1>6
  <2>3. QED
    BY <1>2, <2>1, <2>2
<1>10. /\ r.schedulerSuspended = 0 /\ r.pendingReady = <<>>
       /\ r.missedTicks = 0 /\ ~ r.missedYield /\ r.basePriority = r.priority
  BY <1>2, <1>3 DEF Resumed
<1>11. CASE AlreadyYielded(k)
  <2>1. Settled(r)
    BY <1>3, <1>10, <1>11 DEF Settled, Resumed
  <2>2. QED
    BY <1>4, <1>5, <1>7, <1>8, <1>9, <2>1, SettledInv
<1>12. CASE ~ AlreadyYielded(k)
  <2>1. /\ r.current = t /\ r.priority = k.priority
        /\ \A u \in AllTasks : IsReady(k, u) => IsReady(r, u)
        /\ \A u \in AllTasks : IsReady(r, u) =>
             IsReady(k, u) \/ k.priority[u] < k.priority[t]
    BY <1>2, <1>3, <1>12 DEF Resumed
  <2>2. place # "resumeAll" => IsReady(r, t)
    BY <1>2, <2>1
  <2>3. place = "resumeAll" => to = "yield"
    BY <1>12
  <2>4. to \notin {"delay", "delayUntil", "wait"} /\ to \notin Held
    BY DEF Held
  <2>5. Control'
    BY <1>4, <1>6, <1>7, <1>8, <1>9, <1>10, <2>1, <2>2, <2>3, <2>4 DEF Control
  <2>6. Top'
    <3>1. \A u \in AllTasks : k.priority[u] \in Nat
      BY SoundTypes DEF SInv
    <3>2. QED
      BY <1>2, <1>4, <1>5, <1>6, <2>1, <2>3, <3>1 DEF Top
  <2>7. QED
    BY <1>3, <1>4, <1>5, <2>5, <2>6 DEF SInv
<1>13. QED
  BY <1>11, <1>12

LEMMA ResumeAllInv ==
  ASSUME SInv, NEW t \in AllTasks, ResumeAll(t)
  PROVE  SInv'
<1>1. /\ At(t, "resumeAll") /\ k' = xTaskResumeAll(k) /\ Keep
      /\ Goto(t, IF AlreadyYielded(k) THEN "app" ELSE "yield")
  BY DEF ResumeAll
<1>2. "resumeAll" \in Held
  BY DEF Held
<1>3. t # IdleTask
  BY <1>1, <1>2, InHeld
<1>4. CASE AlreadyYielded(k)
  <2>1. Goto(t, "app")
    BY <1>1, <1>4
  <2>2. QED
    BY <1>1, <1>3, <1>4, <2>1, ResumeStep
<1>5. CASE ~ AlreadyYielded(k)
  <2>1. Goto(t, "yield")
    BY <1>1, <1>5
  <2>2. QED
    BY <1>1, <1>3, <1>5, <2>1, ResumeStep
<1>6. QED
  BY <1>4, <1>5

LEMMA UnlockInv ==
  ASSUME SInv, NEW t \in AllTasks, Unlock(t)
  PROVE  SInv'
<1>1. At(t, "locked") /\ k' = xTaskResumeAll(k) /\ Keep /\ Goto(t, "app")
  BY DEF Unlock
<1>2. "locked" \in Held
  BY DEF Held
<1>3. t # IdleTask
  BY <1>1, <1>2, InHeld
<1>4. QED
  BY <1>1, <1>3, ResumeStep

LEMMA IdleUnlockInv ==
  ASSUME SInv, IdleUnlock
  PROVE  SInv'
<1>1. At(IdleTask, "reapLocked") /\ k' = xTaskResumeAll(k) /\ Keep /\ Goto(IdleTask, "reap")
  BY DEF IdleUnlock
<1>2. QED
  BY <1>1, ResumeStep

\* A switch outside of any suspension, from a sound state that is as far as the
\* present one.
LEMMA SwitchStep ==
  ASSUME \A u \in AllTasks : pc[u] \notin Held, Control, IdleTask \in AllTasks,
         NEW kk, Sound(kk), TimesSound(kk), kk.schedulerSuspended = 0, kk.pendingReady = <<>>,
         kk.missedTicks = 0, ~ kk.missedYield, kk.basePriority = kk.priority,
         k.waitingTermination # <<>> => kk.waitingTermination # <<>>,
         k' = vTaskSwitchContext(kk), CallTypes',
         \A u \in AllTasks : pc'[u] \in {pc[u], "app"}
  PROVE  SInv'
<1>1. Settled(k') /\ k'.waitingTermination = kk.waitingTermination
  BY SwitchSettles
<1>2. \A u \in AllTasks : pc'[u] \notin Held
  BY DEF Held
<1>3. pc'[IdleTask] \in {"app", "reap"}
  BY <1>2 DEF Control, Held
<1>4. pc'[IdleTask] # "app" => k'.waitingTermination # <<>>
  BY <1>1 DEF Control
<1>5. QED
  BY <1>1, <1>2, <1>3, <1>4, SettledInv

\* The kernel's state when no task is in a call that suspended the scheduler.
LEMMA InOpen ==
  ASSUME SInv, k.schedulerSuspended = 0
  PROVE  /\ \A u \in AllTasks : pc[u] \notin Held
         /\ Control /\ IdleTask \in AllTasks /\ k.current \in AllTasks
         /\ k.pendingReady = <<>> /\ k.missedTicks = 0 /\ ~ k.missedYield
         /\ k.basePriority = k.priority
<1>1. Control /\ k.current \in AllTasks /\ IdleTask \in AllTasks
  BY SoundTypes DEF SInv
<1>2. pc[k.current] \notin Held
  BY <1>1 DEF Control
<1>3. QED
  BY <1>1, <1>2 DEF Control

LEMMA YieldInv ==
  ASSUME SInv, NEW t \in AllTasks, Yield(t)
  PROVE  SInv'
<1>1. /\ k.current = t /\ pc[t] = "yield" /\ k' = vTaskSwitchContext(k)
      /\ pc' = [pc EXCEPT ![t] = "app"] /\ Keep
  BY DEF Yield, At, Goto
<1>2. k.schedulerSuspended = 0
  BY <1>1 DEF SInv, Control, Held
<1>3. CallTypes' /\ \A u \in AllTasks : pc'[u] \in {pc[u], "app"}
  BY <1>1 DEF SInv, CallTypes, Keep, Places
<1>4. Sound(k) /\ TimesSound(k)
  BY DEF SInv
<1>5. QED
  BY <1>1, <1>2, <1>3, <1>4, InOpen, SwitchStep

LEMMA IdleYieldInv ==
  ASSUME SInv, IdleYield
  PROVE  SInv'
<1>1. At(IdleTask, "app") /\ k' = vTaskSwitchContext(k) /\ pc' = pc /\ Keep
  BY DEF IdleYield
<1>2. k.schedulerSuspended = 0
  BY <1>1, InApp
<1>3. CallTypes' /\ \A u \in AllTasks : pc'[u] \in {pc[u], "app"}
  BY <1>1 DEF SInv, CallTypes, Keep, Places
<1>4. Sound(k) /\ TimesSound(k)
  BY DEF SInv
<1>5. QED
  BY <1>1, <1>2, <1>3, <1>4, InOpen, SwitchStep

\* The tick interrupt, with the scheduler running or suspended.
LEMMA TickInv ==
  ASSUME SInv, vTickISR
  PROVE  SInv'
<1>1. /\ k' = vTaskSwitchContext(vTaskIncrementTick(k))
      /\ ignoredYield' = (ignoredYield /\ k.schedulerSuspended # 0)
      /\ pc' = pc /\ argument' = argument /\ previousWake' = previousWake
  BY DEF vTickISR
<1>2. CallTypes' /\ Sound(k) /\ TimesSound(k)
  BY <1>1 DEF SInv, CallTypes
<1>3. CASE k.schedulerSuspended = 0
  <2> DEFINE kk == vTaskIncrementTick(k)
  <2>1. Sound(kk) /\ TimesSound(kk) /\ Later(kk, k)
    BY <1>2, <1>3, IncrementsTick
  <2> HIDE DEF kk
  <2>2. k' = vTaskSwitchContext(kk)
    BY <1>1 DEF kk
  <2>3. /\ \A u \in AllTasks : pc[u] \notin Held
        /\ Control /\ IdleTask \in AllTasks
        /\ k.pendingReady = <<>> /\ k.missedTicks = 0 /\ ~ k.missedYield
        /\ k.basePriority = k.priority
    BY <1>3, InOpen
  <2>4. /\ kk.schedulerSuspended = 0 /\ kk.missedTicks = 0 /\ ~ kk.missedYield
        /\ kk.basePriority = kk.priority
    BY <1>3, <2>1, <2>3 DEF Later
  <2>5. /\ k.waitingTermination \in Seq(AllTasks) /\ kk.waitingTermination \in Seq(AllTasks)
        /\ k.pendingReady \in Seq(AllTasks) /\ kk.pendingReady \in Seq(AllTasks)
    BY <1>2, <2>1, SoundTypes, ListTypes
  <2>6. kk.pendingReady = <<>> /\ (k.waitingTermination # <<>> => kk.waitingTermination # <<>>)
    <3>1. ToSet(kk.pendingReady) \subseteq ToSet(k.pendingReady)
      BY <2>1 DEF Later
    <3>2. ToSet(kk.waitingTermination) = ToSet(k.waitingTermination)
      BY <2>1 DEF Later
    <3>3. kk.pendingReady = <<>>
      BY <2>3, <2>5, <3>1, NoMore
    <3>4. kk.waitingTermination = <<>> => k.waitingTermination = <<>>
      BY <2>5, <3>2, NoMore
    <3>5. QED
      BY <3>3, <3>4
  <2>7. \A u \in AllTasks : pc'[u] \in {pc[u], "app"}
    BY <1>1
  <2>8. QED
    BY <1>2, <2>1, <2>2, <2>3, <2>4, <2>6, <2>7, SwitchStep
<1>4. CASE k.schedulerSuspended # 0
  <2>1. /\ k' \in KernelState /\ SameLists(k', k)
        /\ k'.current = k.current /\ k'.schedulerSuspended = k.schedulerSuspended
        /\ k'.basePriority = k.basePriority /\ k'.wake = k.wake /\ k'.tick = k.tick
        /\ k'.nextUnblock = k.nextUnblock
    BY <1>1, <1>2, <1>4, SoundTypes, HeldTick
  <2>2. Sound(k') /\ TimesSound(k')
    <3> DEFINE r == k'
    <3>1. r \in KernelState /\ SameLists(r, k)
      BY <2>1
    <3>2. TimesSound(r)
      BY <1>2, <2>1 DEF TimesSound, SameLists
    <3> HIDE DEF r
    <3>3. Sound(r)
      BY <1>2, <3>1, SoundSame
    <3>4. QED
      BY <3>2, <3>3 DEF r
  <2>3. \A u \in AllTasks : IsReady(k', u) <=> IsReady(k, u)
    BY <2>1 DEF SameLists, IsReady
  <2>4. Control /\ Top /\ k.current \in AllTasks
    BY SoundTypes DEF SInv
  <2>5. Control'
    BY <1>1, <1>4, <2>1, <2>3, <2>4 DEF Control, SameLists
  <2>6. Top'
    BY <1>1, <1>4, <2>1, <2>3, <2>4 DEF Top, SameLists
  <2>7. QED
    BY <1>2, <2>2, <2>5, <2>6 DEF SInv
<1>5. QED
  BY <1>3, <1>4

-------------------------------------------------------------------------------
(* Calls that make a task ready, or change its priority *)

\* A call of the current task that may end in a switch: if it does not, nobody who is
\* ready goes before the current task.
LEMMA YieldIfStep ==
  ASSUME SInv, NEW t, At(t, "app"), NEW c \in BOOLEAN, NEW kk,
         Sound(kk), TimesSound(kk), kk.current = t, kk.schedulerSuspended = 0,
         kk.pendingReady = <<>>, kk.missedTicks = 0, ~ kk.missedYield,
         kk.basePriority = kk.priority,
         k.waitingTermination # <<>> => kk.waitingTermination # <<>>,
         ~ c => IsReady(kk, t),
         ~ c /\ ~ ignoredYield =>
           \A u \in AllTasks : IsReady(kk, u) => kk.priority[u] <= kk.priority[t],
         k' = YieldIf(c, kk), pc' = pc, Keep
  PROVE  SInv'
<1>1. CallTypes' /\ ignoredYield' = ignoredYield
  BY DEF SInv, CallTypes, Keep
<1>2. /\ t \in AllTasks /\ pc[t] = "app"
      /\ \A u \in AllTasks : pc[u] \notin Held
      /\ k.schedulerSuspended = 0
  BY InApp
<1>3. Control /\ IdleTask \in AllTasks
  BY SoundTypes DEF SInv
<1>4. CASE c
  <2>1. k' = vTaskSwitchContext(kk)
    BY <1>4 DEF YieldIf
  <2>2. \A u \in AllTasks : pc'[u] \in {pc[u], "app"}
    OBVIOUS
  <2>3. QED
    BY <1>1, <1>2, <1>3, <2>1, <2>2, SwitchStep
<1>5. CASE ~ c
  <2>1. k' = kk
    BY <1>5 DEF YieldIf
  <2>2. pc'[kk.current] = "app" /\ pc' = pc
    BY <1>2
  <2>3. Control'
    BY <1>2, <1>3, <1>5, <2>1, <2>2 DEF Control
  <2>4. Top'
    BY <1>1, <1>5, <2>1, <2>2 DEF Top
  <2>5. QED
    BY <1>1, <2>1, <2>3, <2>4 DEF SInv
<1>6. QED
  BY <1>4, <1>5

LEMMA SignalInv ==
  ASSUME SInv, NEW t \in AllTasks, NEW e \in EventLists, Signal(t, e)
  PROVE  SInv'
<1> DEFINE h == Head(k.event[e])
           kk == xTaskRemoveFromEventList(k, e)
           c == UnblocksHigher(k, e)
<1>1. /\ At(t, "app") /\ k.event[e] # <<>> /\ k' = YieldIf(c, kk) /\ pc' = pc /\ Keep
  BY DEF Signal
<1>2. /\ t = k.current /\ t \in AllTasks
      /\ k.schedulerSuspended = 0 /\ k.pendingReady = <<>>
      /\ k.missedTicks = 0 /\ ~ k.missedYield /\ IsReady(k, t)
      /\ ~ ignoredYield => \A u \in AllTasks : IsReady(k, u) => k.priority[u] <= k.priority[t]
  BY <1>1, InApp
<1>3. Sound(kk) /\ TimesSound(kk) /\ Unblocked(kk, k, h)
  BY <1>1, RemovesFromEventList DEF SInv
<1>4. h \in AllTasks
  BY <1>1, WaitingIsBlocked DEF SInv
<1>5. c \in BOOLEAN /\ (c <=> k.priority[h] >= k.priority[t])
  BY <1>2 DEF UnblocksHigher
<1>6. \A u \in AllTasks : k.priority[u] \in Nat
  BY SoundTypes DEF SInv
<1> HIDE DEF kk, h, c
<1>7. /\ kk.current = t /\ kk.schedulerSuspended = 0 /\ kk.pendingReady = <<>>
      /\ kk.missedTicks = 0 /\ ~ kk.missedYield /\ kk.basePriority = kk.priority
      /\ kk.priority = k.priority
      /\ \A u \in AllTasks : IsReady(kk, u) <=> IsReady(k, u) \/ u = h
  BY <1>2, <1>3 DEF Unblocked, Calm, SInv, Control
<1>8. k.waitingTermination # <<>> => kk.waitingTermination # <<>>
  <2>1. k.waitingTermination \in Seq(AllTasks) /\ kk.waitingTermination \in Seq(AllTasks)
    BY <1>3, SoundTypes, ListTypes DEF SInv
  <2>2. QED
    BY <1>3, <2>1, NoMore DEF Unblocked
<1>9. IsReady(kk, t)
  BY <1>2, <1>7
<1>10. ~ c /\ ~ ignoredYield =>
         \A u \in AllTasks : IsReady(kk, u) => kk.priority[u] <= kk.priority[t]
  BY <1>2, <1>4, <1>5, <1>6, <1>7
<1>11. QED
  BY <1>1, <1>3, <1>5, <1>7, <1>8, <1>9, <1>10, YieldIfStep

LEMMA ResumeInv ==
  ASSUME SInv, NEW t \in AllTasks, NEW x \in Tasks, vTaskResume(t, x)
  PROVE  SInv'
<1> DEFINE kk == MoveToReady(k, x)
           c == k.priority[x] >= k.priority[t]
<1>1. /\ At(t, "app") /\ xTaskIsTaskSuspended(k, x)
      /\ k' = YieldIf(c, kk) /\ pc' = pc /\ Keep
  BY DEF vTaskResume
<1>2. /\ t = k.current /\ t \in AllTasks
      /\ k.schedulerSuspended = 0 /\ k.pendingReady = <<>>
      /\ k.missedTicks = 0 /\ ~ k.missedYield /\ IsReady(k, t)
      /\ ~ ignoredYield => \A u \in AllTasks : IsReady(k, u) => k.priority[u] <= k.priority[t]
  BY <1>1, InApp
<1>3. x \in AllTasks \ {IdleTask}
  BY KernelAssumption DEF AllTasks
<1>4. /\ Sound(kk) /\ TimesSound(kk) /\ Calm(kk, k) /\ kk.pendingReady = k.pendingReady
      /\ ToSet(kk.waitingTermination) = ToSet(k.waitingTermination)
      /\ \A u \in AllTasks : IsReady(kk, u) <=> IsReady(k, u) \/ u = x
  BY <1>1, <1>3, ResumesTask DEF SInv
<1>5. \A u \in AllTasks : k.priority[u] \in Nat
  BY SoundTypes DEF SInv
<1>6. c \in BOOLEAN /\ (~ c => k.priority[x] <= k.priority[t])
  BY <1>2, <1>3, <1>5
<1> HIDE DEF kk, c
<1>7. /\ kk.current = t /\ kk.schedulerSuspended = 0 /\ kk.pendingReady = <<>>
      /\ kk.missedTicks = 0 /\ ~ kk.missedYield /\ kk.basePriority = kk.priority
      /\ kk.priority = k.priority
  BY <1>2, <1>4 DEF Calm, SInv, Control
<1>8. k.waitingTermination # <<>> => kk.waitingTermination # <<>>
  <2>1. k.waitingTermination \in Seq(AllTasks) /\ kk.waitingTermination \in Seq(AllTasks)
    BY <1>4, SoundTypes, ListTypes DEF SInv
  <2>2. QED
    BY <1>4, <2>1, NoMore
<1>9. IsReady(kk, t)
  BY <1>2, <1>4
<1>10. ~ c /\ ~ ignoredYield =>
         \A u \in AllTasks : IsReady(kk, u) => kk.priority[u] <= kk.priority[t]
  BY <1>2, <1>4, <1>6, <1>7
<1>11. QED
  BY <1>1, <1>4, <1>6, <1>7, <1>8, <1>9, <1>10, YieldIfStep

\* A handler's wake-up: the places in the calls stay, and so does who runs. A task
\* that goes before the current one is accounted for by ignoredYield.
LEMMA HandlerStep ==
  ASSUME SInv, Sound(k'), TimesSound(k'), Calm(k', k), pc' = pc,
         UNCHANGED <<argument, previousWake>>, ignoredYield' \in BOOLEAN,
         ToSet(k'.waitingTermination) = ToSet(k.waitingTermination),
         k.schedulerSuspended = 0 /\ k.pendingReady = <<>> => k'.pendingReady = <<>>,
         \A u \in AllTasks : IsReady(k, u) => IsReady(k', u),
         ~ ignoredYield' => /\ ~ ignoredYield
                            /\ \A u \in AllTasks : IsReady(k', u) =>
                                 IsReady(k, u) \/ k.priority[u] <= k.priority[k.current]
  PROVE  SInv'
<1>1. CallTypes'
  BY DEF SInv, CallTypes
<1>2. Control /\ Top /\ k.current \in AllTasks
  BY SoundTypes DEF SInv
<1>3. k.waitingTermination # <<>> => k'.waitingTermination # <<>>
  <2> DEFINE r == k'
  <2>1. k.waitingTermination \in Seq(AllTasks) /\ r.waitingTermination \in Seq(AllTasks)
    BY SoundTypes, ListTypes DEF SInv
  <2>2. ToSet(k.waitingTermination) \subseteq ToSet(r.waitingTermination)
    OBVIOUS
  <2> HIDE DEF r
  <2>3. k.waitingTermination # <<>> => r.waitingTermination # <<>>
    BY <2>1, <2>2, NoMore
  <2>4. QED
    BY <2>3 DEF r
<1>4. /\ k'.current = k.current /\ k'.schedulerSuspended = k.schedulerSuspended
      /\ k'.missedTicks = k.missedTicks /\ k'.missedYield = k.missedYield
      /\ k'.priority = k.priority /\ k'.basePriority = k.basePriority
  BY DEF Calm
<1>5. Control'
  BY <1>2, <1>3, <1>4 DEF Control
<1>6. Top'
  BY <1>2, <1>4 DEF Top
<1>7. QED
  BY <1>1, <1>5, <1>6 DEF SInv

LEMMA SignalFromISRInv ==
  ASSUME SInv, NEW e \in EventLists, SignalFromISR(e)
  PROVE  SInv'
<1> DEFINE h == Head(k.event[e])
           kk == xTaskRemoveFromEventList(k, e)
<1>1. /\ k.event[e] # <<>> /\ k' = kk /\ pc' = pc /\ UNCHANGED <<argument, previousWake>>
      /\ ignoredYield' = (ignoredYield \/ (k.schedulerSuspended = 0 /\ UnblocksHigher(k, e)))
  BY DEF SignalFromISR
<1>2. Sound(kk) /\ TimesSound(kk) /\ Unblocked(kk, k, h)
  BY <1>1, RemovesFromEventList DEF SInv
<1>3. h \in AllTasks
  BY <1>1, WaitingIsBlocked DEF SInv
<1>4. UnblocksHigher(k, e) <=> k.priority[h] >= k.priority[k.current]
  BY DEF UnblocksHigher
<1>5. k.current \in AllTasks /\ \A u \in AllTasks : k.priority[u] \in Nat
  BY SoundTypes DEF SInv
<1> HIDE DEF kk, h
<1>6. /\ Calm(kk, k)
      /\ ToSet(kk.waitingTermination) = ToSet(k.waitingTermination)
      /\ k.schedulerSuspended = 0 /\ k.pendingReady = <<>> => kk.pendingReady = <<>>
      /\ \A u \in AllTasks : IsReady(k, u) => IsReady(kk, u)
      /\ k.schedulerSuspended = 0 => \A u \in AllTasks : IsReady(kk, u) => IsReady(k, u) \/ u = h
      /\ k.schedulerSuspended # 0 => \A u \in AllTasks : IsReady(kk, u) => IsReady(k, u)
  BY <1>2 DEF Unblocked
<1>7. ignoredYield' \in BOOLEAN
  BY <1>1 DEF SInv, CallTypes
<1>8. ~ ignoredYield' => /\ ~ ignoredYield
                         /\ \A u \in AllTasks : IsReady(kk, u) =>
                              IsReady(k, u) \/ k.priority[u] <= k.priority[k.current]
  <2>1. ~ ignoredYield' => /\ ~ ignoredYield
                           /\ k.schedulerSuspended = 0 => ~ k.priority[h] >= k.priority[k.current]
    BY <1>1, <1>4 DEF SInv, CallTypes
  <2>2. ~ k.priority[h] >= k.priority[k.current] => k.priority[h] <= k.priority[k.current]
    BY <1>3, <1>5
  <2>3. QED
    BY <1>6, <2>1, <2>2
<1>9. QED
  BY <1>1, <1>2, <1>6, <1>7, <1>8, HandlerStep

LEMMA ResumeFromISRInv ==
  ASSUME SInv, NEW x \in Tasks, xTaskResumeFromISR(x)
  PROVE  SInv'
<1>1. /\ xTaskIsTaskSuspended(k, x) /\ pc' = pc /\ UNCHANGED <<argument, previousWake>>
  BY DEF xTaskResumeFromISR
<1>2. x \in AllTasks \ {IdleTask}
  BY KernelAssumption DEF AllTasks
<1>3. Sound(k) /\ TimesSound(k) /\ ignoredYield \in BOOLEAN
  BY DEF SInv, CallTypes
<1>4. k.current \in AllTasks /\ \A u \in AllTasks : k.priority[u] \in Nat
  BY <1>3, SoundTypes
<1>5. CASE k.schedulerSuspended = 0
  <2> DEFINE kk == MoveToReady(k, x)
  <2>1. /\ k' = kk
        /\ ignoredYield' = (ignoredYield \/ k.priority[x] >= k.priority[k.current])
    BY <1>5 DEF xTaskResumeFromISR
  <2>2. /\ Sound(kk) /\ TimesSound(kk) /\ Calm(kk, k) /\ kk.pendingReady = k.pendingReady
        /\ ToSet(kk.waitingTermination) = ToSet(k.waitingTermination)
        /\ \A u \in AllTasks : IsReady(kk, u) <=> IsReady(k, u) \/ u = x
    BY <1>1, <1>2, <1>3, ResumesTask
  <2> HIDE DEF kk
  <2>3. ignoredYield' \in BOOLEAN
    BY <1>3, <2>1
  <2>4. ~ ignoredYield' => /\ ~ ignoredYield
                           /\ \A u \in AllTasks : IsReady(kk, u) =>
                                IsReady(k, u) \/ k.priority[u] <= k.priority[k.current]
    <3>1. ~ ignoredYield' => ~ ignoredYield /\ ~ k.priority[x] >= k.priority[k.current]
      BY <1>3, <2>1
    <3>2. ~ k.priority[x] >= k.priority[k.current] => k.priority[x] <= k.priority[k.current]
      BY <1>2, <1>4
    <3>3. QED
      BY <2>2, <3>1, <3>2
  <2>5. QED
    BY <1>1, <2>1, <2>2, <2>3, <2>4, HandlerStep
<1>6. CASE k.schedulerSuspended # 0
  <2> DEFINE kk == [k EXCEPT !.pendingReady = vListInsertEnd(@, x)]
  <2>1. k' = kk /\ ignoredYield' = ignoredYield
    BY <1>6 DEF xTaskResumeFromISR
  <2>2. NoEvent(k, x) /\ x \in k.suspended
    BY <1>1 DEF xTaskIsTaskSuspended, NoEvent, IsWaiting, IsPending
  <2>3. /\ Sound(kk) /\ Calm(kk, k)
        /\ kk.delayed = k.delayed /\ kk.overflowDelayed = k.overflowDelayed
        /\ kk.wake = k.wake /\ kk.nextUnblock = k.nextUnblock
        /\ kk.waitingTermination = k.waitingTermination
        /\ \A u \in AllTasks : SamePlace(kk, k, u)
    BY <1>2, <1>3, <2>2, AddsPending
  <2> HIDE DEF kk
  <2>4. TimesSound(kk)
    BY <1>3, <2>3 DEF TimesSound, Calm
  <2>5. \A u \in AllTasks : IsReady(kk, u) <=> IsReady(k, u)
    BY <1>3, <2>3, SameReady, SoundTypes
  <2>6. QED
    BY <1>1, <1>3, <1>6, <2>1, <2>3, <2>4, <2>5, HandlerStep
<1>7. QED
  BY <1>5, <1>6

-------------------------------------------------------------------------------
(* Calls that take a task away *)

\* vTaskSuspend and vTaskDelete: x leaves, and if it is the current task a yield
\* follows.
LEMMA LeaveStep ==
  ASSUME SInv, NEW t, At(t, "app"), t # IdleTask, NEW x \in AllTasks \ {IdleTask},
         x \notin ToSet(k.waitingTermination),
         NEW kk, Sound(kk), Calm(kk, k), LeftDelayed(kk, k, x),
         kk.pendingReady = vListRemove(k.pendingReady, x),
         \A u \in AllTasks \ {x} : SamePlace(kk, k, u), ~ IsReady(kk, x),
         k' = kk, Goto(t, IF x = t THEN "yield" ELSE "app"), Keep
  PROVE  SInv'
<1>1. /\ t = k.current /\ t \in AllTasks
      /\ \A u \in AllTasks : pc[u] \notin Held
      /\ pc[IdleTask] \in {"app", "reap"}
      /\ k.schedulerSuspended = 0 /\ k.pendingReady = <<>>
      /\ k.missedTicks = 0 /\ ~ k.missedYield /\ IsReady(k, t)
      /\ ~ ignoredYield => \A u \in AllTasks : IsReady(k, u) => k.priority[u] <= k.priority[t]
  BY InApp
<1>2. Sound(k) /\ TimesSound(k) /\ Control /\ IdleTask \in AllTasks
  BY SoundTypes DEF SInv
<1>3. TimesSound(kk)
  BY <1>2, SoundTypes, TimesWithout
<1>4. CallTypes' /\ ignoredYield' = ignoredYield
  BY DEF SInv, CallTypes, Keep, Goto, Places
<1>5. /\ pc'[t] = IF x = t THEN "yield" ELSE "app"
      /\ \A u \in AllTasks \ {t} : pc'[u] = pc[u]
  BY <1>1 DEF SInv, CallTypes, Goto
<1>6. \A u \in AllTasks : pc'[u] \notin Held
  BY <1>1, <1>5 DEF Held
<1>7. k.waitingTermination # <<>> => kk.waitingTermination # <<>>
  BY <1>2, StillReaping
<1>8. kk.pendingReady = <<>>
  <2>1. k.pendingReady \in Seq(AllTasks) /\ kk.pendingReady \in Seq(AllTasks)
    BY <1>2, SoundTypes, ListTypes
  <2>2. ToSet(vListRemove(k.pendingReady, x)) = ToSet(k.pendingReady) \ {x}
    <3>1. k \in KernelState /\ Once(k)
      BY <1>2, SoundTypes
    <3>2. QED
      BY <3>1, TakenOut
  <2>3. QED
    BY <1>1, <2>1, <2>2, NoMore
<1>9. \A u \in AllTasks \ {x} : IsReady(kk, u) <=> IsReady(k, u)
  BY <1>2, SoundTypes, SameReady
<1>10. /\ kk.current = t /\ kk.schedulerSuspended = 0 /\ kk.missedTicks = 0
       /\ ~ kk.missedYield /\ kk.priority = k.priority /\ kk.basePriority = kk.priority
  BY <1>1, <1>2 DEF Calm, Control
<1>11. Control'
  <2>1. x # t => IsReady(kk, t)
    BY <1>1, <1>9
  <2>2. pc'[t] \notin {"delay", "delayUntil", "wait"}
    BY <1>5
  <2>3. pc'[IdleTask] = pc[IdleTask]
    BY <1>2, <1>5
  <2>4. QED
    BY <1>1, <1>2, <1>5, <1>6, <1>7, <1>8, <1>10, <2>1, <2>2, <2>3 DEF Control
<1>12. Top'
  BY <1>1, <1>4, <1>5, <1>9, <1>10 DEF Top
<1>13. QED
  BY <1>3, <1>4, <1>11, <1>12 DEF SInv

LEMMA SuspendInv ==
  ASSUME SInv, NEW t \in AllTasks, NEW x \in Tasks, vTaskSuspend(t, x)
  PROVE  SInv'
<1> DEFINE kk == SuspendTask(k, x)
<1>1. /\ At(t, "app") /\ t # IdleTask /\ Alive(x) /\ k' = kk
      /\ Goto(t, IF x = t THEN "yield" ELSE "app") /\ Keep
  BY DEF vTaskSuspend
<1>2. x \in AllTasks \ {IdleTask} /\ x \notin ToSet(k.waitingTermination)
  BY <1>1, KernelAssumption DEF AllTasks, Alive
<1>3. Sound(kk) /\ SuspendedTo(kk, k, x) /\ kk.pendingReady = vListRemove(k.pendingReady, x)
  BY <1>2, SuspendsTask DEF SInv
<1> HIDE DEF kk
<1>4. LeftDelayed(kk, k, x) /\ Calm(kk, k) /\ \A u \in AllTasks \ {x} : SamePlace(kk, k, u)
  BY <1>3 DEF SuspendedTo, LeftDelayed, Calm
<1>5. ~ IsReady(kk, x)
  <2>1. InPlace(kk, x) /\ x \in kk.suspended
    BY <1>2, <1>3, SoundTypes DEF SuspendedTo
  <2>2. QED
    BY <2>1 DEF InPlace
<1>6. QED
  BY <1>1, <1>2, <1>3, <1>4, <1>5, LeaveStep

LEMMA DeleteInv ==
  ASSUME SInv, NEW t \in AllTasks, NEW x \in Tasks, vTaskDelete(t, x)
  PROVE  SInv'
<1> DEFINE g == RemoveEventItem(RemoveGenericItem(k, x), x)
           kk == [g EXCEPT !.waitingTermination = vListInsertEnd(@, x)]
<1>1. /\ At(t, "app") /\ t # IdleTask /\ Alive(x) /\ k' = kk
      /\ Goto(t, IF x = t THEN "yield" ELSE "app") /\ Keep
  BY DEF vTaskDelete
<1>2. x \in AllTasks \ {IdleTask} /\ x \notin ToSet(k.waitingTermination)
  BY <1>1, KernelAssumption DEF AllTasks, Alive
<1>3. Sound(kk) /\ DeletedTo(kk, k, x)
  BY <1>2, Deletes DEF SInv
<1> HIDE DEF kk
<1>4. /\ LeftDelayed(kk, k, x) /\ Calm(kk, k) /\ \A u \in AllTasks \ {x} : SamePlace(kk, k, u)
      /\ kk.pendingReady = vListRemove(k.pendingReady, x)
  BY <1>3 DEF DeletedTo, LeftDelayed, Calm
<1>5. ~ IsReady(kk, x)
  <2>1. InPlace(kk, x) /\ x \in ToSet(kk.waitingTermination)
    BY <1>2, <1>3, SoundTypes DEF DeletedTo
  <2>2. QED
    BY <2>1 DEF InPlace
<1>6. QED
  BY <1>1, <1>2, <1>3, <1>4, <1>5, LeaveStep

LEMMA IdleReapInv ==
  ASSUME SInv, IdleReap
  PROVE  SInv'
<1> DEFINE kk == [k EXCEPT !.waitingTermination = Tail(@)]
<1>1. At(IdleTask, "reap") /\ k' = kk /\ Goto(IdleTask, "app") /\ Keep
  BY DEF IdleReap
<1>2. /\ k.current = IdleTask /\ pc[IdleTask] = "reap" /\ "reap" \notin Held /\ "app" \notin Held
      /\ IdleTask \in AllTasks
  BY <1>1, SoundTypes DEF At, Held, SInv
<1>3. k.schedulerSuspended = 0 /\ k.waitingTermination # <<>> /\ IsReady(k, IdleTask)
  BY <1>2 DEF SInv, Control
<1>4. /\ Sound(kk) /\ TimesSound(kk) /\ Calm(kk, k) /\ kk.pendingReady = k.pendingReady
      /\ \A u \in AllTasks : IsReady(kk, u) <=> IsReady(k, u)
  BY <1>3, Reaps DEF SInv
<1> HIDE DEF kk
<1>5. CallTypes' /\ ignoredYield' = ignoredYield
  BY <1>1 DEF SInv, CallTypes, Keep, Goto, Places
<1>6. pc'[IdleTask] = "app" /\ \A u \in AllTasks : pc'[u] \in {pc[u], "app"}
  BY <1>1, <1>2 DEF SInv, CallTypes, Goto
<1>7. \A u \in AllTasks : pc'[u] \notin Held
  BY <1>2, <1>3, <1>6, InOpen
<1>8. Control'
  BY <1>1, <1>2, <1>3, <1>4, <1>6, <1>7 DEF SInv, Control, Calm
<1>9. Top'
  BY <1>1, <1>2, <1>3, <1>4, <1>5, <1>6 DEF SInv, Top, Calm
<1>10. QED
  BY <1>1, <1>4, <1>5, <1>8, <1>9 DEF SInv

-------------------------------------------------------------------------------
(* Creation *)

LEMMA CreateInv ==
  ASSUME SInv, NEW t \in AllTasks, NEW x \in Tasks, NEW p \in Priorities,
         xTaskGenericCreate(t, x, p)
  PROVE  SInv'
<1> DEFINE kk == AddNewTask(k, x, p)
<1>1. /\ At(t, "app") /\ t # IdleTask /\ x \in AllTasks \ Existing(k) /\ k' = kk
      /\ pc' = [pc EXCEPT ![t] = "created", ![x] = "app"]
      /\ argument' = [argument EXCEPT ![t] = p]
      /\ previousWake' = previousWake /\ ignoredYield' = ignoredYield
  BY DEF xTaskGenericCreate, AllTasks
<1>2. /\ t = k.current /\ t \in AllTasks
      /\ \A u \in AllTasks : pc[u] \notin Held
      /\ pc[IdleTask] \in {"app", "reap"}
      /\ k.schedulerSuspended = 0 /\ k.pendingReady = <<>>
      /\ k.missedTicks = 0 /\ ~ k.missedYield /\ IsReady(k, t)
      /\ ~ ignoredYield => \A u \in AllTasks : IsReady(k, u) => k.priority[u] <= k.priority[t]
  BY <1>1, InApp
<1>3. Sound(k) /\ Control /\ IdleTask \in AllTasks
  BY SoundTypes DEF SInv
<1>4. Sound(kk) /\ TimesSound(kk) /\ Created(kk, k, x, p) /\ x # IdleTask
  BY <1>1, AddsNewTask DEF SInv
<1>5. x # t
  <2>1. k.priority[t] \in Priorities
    BY <1>2, <1>3, SoundTypes
  <2>2. ~ NoPlace(k, t)
    BY <1>2, <2>1 DEF NoPlace, IsReady
  <2>3. QED
    BY <1>1, <2>2, ExistsSomewhere
<1> HIDE DEF kk
<1>6. CallTypes'
  BY <1>1 DEF SInv, CallTypes, Places
<1>7. /\ pc'[t] = "created" /\ pc'[x] = "app" /\ argument'[t] = p
      /\ \A u \in AllTasks \ {t, x} : pc'[u] = pc[u]
  BY <1>1, <1>2, <1>5 DEF SInv, CallTypes
<1>8. \A u \in AllTasks : pc'[u] \notin Held
  BY <1>2, <1>7 DEF Held
<1>9. /\ kk.current = t /\ kk.schedulerSuspended = 0 /\ kk.pendingReady = <<>>
      /\ kk.missedTicks = 0 /\ ~ kk.missedYield
      /\ kk.waitingTermination = k.waitingTermination
      /\ \A u \in AllTasks : IsReady(kk, u) <=> IsReady(k, u) \/ u = x
  BY <1>2, <1>4 DEF Created
<1>10. /\ kk.basePriority = kk.priority /\ kk.priority[x] = p
       /\ \A u \in AllTasks \ {x} : kk.priority[u] = k.priority[u]
  <2>1. k.priority \in [AllTasks -> Priorities]
    BY <1>3, SoundTypes DEF KernelState
  <2>2. k.basePriority = k.priority
    BY <1>3 DEF Control
  <2>3. /\ kk.priority = [k.priority EXCEPT ![x] = p]
        /\ kk.basePriority = [k.basePriority EXCEPT ![x] = p]
    BY <1>4 DEF Created
  <2>4. QED
    BY <1>1, <2>1, <2>2, <2>3
<1>11. Control'
  <2>1. pc'[IdleTask] = pc[IdleTask]
    BY <1>1, <1>3, <1>4, <1>7
  <2>2. QED
    BY <1>1, <1>2, <1>3, <1>7, <1>8, <1>9, <1>10, <2>1 DEF Control
<1>12. Top'
  <2>1. p <= p
    BY SoundTypes DEF Priorities
  <2>2. QED
    BY <1>1, <1>2, <1>5, <1>7, <1>9, <1>10, <2>1 DEF Top
<1>13. QED
  BY <1>1, <1>4, <1>6, <1>11, <1>12 DEF SInv

LEMMA CreateYieldInv ==
  ASSUME SInv, NEW t \in AllTasks, CreateYield(t)
  PROVE  SInv'
<1> DEFINE c == k.priority[t] < argument[t]
<1>1. /\ k.current = t /\ pc[t] = "created" /\ k' = YieldIf(c, k)
      /\ pc' = [pc EXCEPT ![t] = "app"] /\ ForgetArgument(t)
  BY DEF CreateYield, At, Goto
<1>2. "created" \notin Held /\ "app" \notin Held
  BY DEF Held
<1>3. Sound(k) /\ TimesSound(k) /\ Control /\ Top /\ IdleTask \in AllTasks /\ 0 \in Ticks
  BY SoundTypes, FieldTypes DEF SInv
<1>4. k.schedulerSuspended = 0 /\ IsReady(k, t) /\ t # IdleTask
  BY <1>1, <1>2, <1>3 DEF Control
<1>5. CallTypes' /\ ignoredYield' = ignoredYield
  BY <1>1, <1>3 DEF SInv, CallTypes, ForgetArgument, Places
<1>6. \A u \in AllTasks : pc'[u] \in {pc[u], "app"}
  BY <1>1 DEF SInv, CallTypes
<1>7. /\ \A u \in AllTasks : pc[u] \notin Held
      /\ k.pendingReady = <<>> /\ k.missedTicks = 0 /\ ~ k.missedYield
      /\ k.basePriority = k.priority
  BY <1>4, InOpen
<1>8. CASE c
  <2>1. k' = vTaskSwitchContext(k)
    BY <1>1, <1>8 DEF YieldIf
  <2>2. QED
    BY <1>3, <1>4, <1>5, <1>6, <1>7, <2>1, SwitchStep
<1>9. CASE ~ c
  <2>1. k' = k
    BY <1>1, <1>9 DEF YieldIf
  <2>2. /\ pc'[t] = "app" /\ pc'[IdleTask] = pc[IdleTask]
        /\ \A u \in AllTasks : pc'[u] \notin Held
    BY <1>1, <1>2, <1>3, <1>4, <1>6, <1>7 DEF SInv, CallTypes
  <2>3. Control'
    BY <1>1, <1>3, <1>4, <2>1, <2>2 DEF Control
  <2>4. \A u \in AllTasks : k.priority[u] <= argument[t] => k.priority[u] <= k.priority[t]
    <3>1. argument[t] \in Nat /\ \A u \in AllTasks : k.priority[u] \in Nat
      BY <1>3, SoundTypes, FieldTypes DEF SInv, CallTypes
    <3>2. QED
      BY <1>9, <3>1
  <2>5. Top'
    BY <1>1, <1>3, <1>5, <2>1, <2>2, <2>4 DEF Top
  <2>6. QED
    BY <1>3, <1>5, <2>1, <2>3, <2>5 DEF SInv
<1>10. QED
  BY <1>8, <1>9

-------------------------------------------------------------------------------
(* Priorities *)

\* vTaskPrioritySet of a task whose priority is not an inherited one: a ready task
\* goes to the list of its new priority, any other stays where it is.
Reprioritised(r, kk, x, p) ==
  /\ r.priority = [kk.priority EXCEPT ![x] = p]
  /\ r.basePriority = [kk.basePriority EXCEPT ![x] = p]
  /\ r.current = kk.current /\ r.schedulerSuspended = kk.schedulerSuspended
  /\ r.missedTicks = kk.missedTicks /\ r.missedYield = kk.missedYield
  /\ r.pendingReady = kk.pendingReady /\ r.waitingTermination = kk.waitingTermination
  /\ r.suspended = kk.suspended /\ r.tick = kk.tick
  /\ \A u \in AllTasks : /\ IsDelayed(r, u) <=> IsDelayed(kk, u)
                         /\ IsDelayed(r, u) => r.wake[u] = kk.wake[u]
  /\ \A u \in AllTasks : IsReady(r, u) <=> IsReady(kk, u)

\* The task control block is that of a new task of this priority, the lists are
\* untouched.
LEMMA RenumbersTask ==
  ASSUME NEW kk, Sound(kk), TimesSound(kk), NEW x \in AllTasks, NEW p \in Priorities
  PROVE  LET ke == InitialiseTask(kk, x, p)
         IN  /\ ke \in KernelState /\ Once(ke) /\ Initialised(ke, kk, x, p)
             /\ TimesSound(ke) /\ TopKnown(ke) /\ EventOnce(ke, x)
             /\ \A u \in AllTasks \ {x} : /\ InPlace(ke, u)
                                          /\ SamePlace(ke, kk, u) /\ SameEvent(ke, kk, u)
                                          /\ IsReady(ke, u) <=> IsReady(kk, u)
<1> DEFINE ke == InitialiseTask(kk, x, p)
<1>1. kk \in KernelState /\ Once(kk) /\ \A u \in AllTasks : InPlace(kk, u)
  BY SoundTypes
<1>2. ke \in KernelState /\ Initialised(ke, kk, x, p)
  BY <1>1, InitialisesTask
<1>3. \A u \in AllTasks \ {x} : SamePlace(ke, kk, u) /\ SameEvent(ke, kk, u)
  BY <1>1, NewSame
<1> HIDE DEF ke
<1>4. Once(ke)
  BY <1>1, <1>2 DEF Initialised, Once
<1>5. TimesSound(ke)
  BY <1>2 DEF Initialised, TimesSound
<1>6. TopKnown(ke)
  BY <1>2 DEF Initialised, Sound, TopKnown
<1>7. EventOnce(ke, x)
  <2>1. EventOnce(kk, x)
    BY <1>1 DEF InPlace, EventOnce
  <2>2. QED
    BY <1>2, <2>1 DEF Initialised, EventOnce, IsWaiting, IsPending
<1>8. \A u \in AllTasks \ {x} : InPlace(ke, u)
  BY <1>1, <1>3, PlaceKept
<1>9. \A u \in AllTasks \ {x} : IsReady(ke, u) <=> IsReady(kk, u)
  BY <1>1, <1>3, SameReady
<1>10. QED
  BY <1>2, <1>3, <1>4, <1>5, <1>6, <1>7, <1>8, <1>9 DEF ke

\* A ready task with a new priority moves to the list of that priority.
LEMMA MovesReady ==
  ASSUME NEW kk, Sound(kk), TimesSound(kk), NEW x \in AllTasks \ {IdleTask},
         NEW p \in Priorities, IsReady(kk, x)
  PROVE  LET r == MoveToReady(InitialiseTask(kk, x, p), x)
         IN  Sound(r) /\ TimesSound(r) /\ Reprioritised(r, kk, x, p)
<1> DEFINE ke == InitialiseTask(kk, x, p)
           r == MoveToReady(ke, x)
<1>1. /\ ke \in KernelState /\ Once(ke) /\ Initialised(ke, kk, x, p)
      /\ TimesSound(ke) /\ TopKnown(ke) /\ EventOnce(ke, x)
      /\ \A u \in AllTasks \ {x} : /\ InPlace(ke, u)
                                   /\ IsReady(ke, u) <=> IsReady(kk, u)
  BY RenumbersTask
<1> HIDE DEF ke
<1>2. SoundBut(ke, x)
  BY <1>1 DEF SoundBut
<1>3. NoEvent(ke, x)
  <2>1. NoEvent(kk, x)
    BY ReadyNoEvent
  <2>2. QED
    BY <1>1, <2>1 DEF Initialised, NoEvent
<1>4. Sound(r) /\ Moved(r, ke, x) /\ r.pendingReady = ke.pendingReady
  BY <1>2, <1>3, MovesToReady
<1> HIDE DEF r
<1>5. TimesSound(r)
  <2>1. LeftDelayed(r, ke, x)
    BY <1>4 DEF Moved, LeftDelayed, Calm
  <2>2. QED
    BY <1>1, <2>1, TimesWithout
<1>6. r.waitingTermination = kk.waitingTermination
  <2>1. kk.waitingTermination \in Seq(AllTasks) /\ IsInjective(kk.waitingTermination)
    BY SoundTypes, ListTypes DEF Once
  <2>2. x \notin ToSet(kk.waitingTermination)
    BY SoundTypes DEF InPlace
  <2>3. vListRemove(kk.waitingTermination, x) = kk.waitingTermination
    BY <2>1, <2>2, ListRemove
  <2>4. QED
    BY <1>1, <1>4, <2>3 DEF Initialised, Moved
<1>7. \A u \in AllTasks : IsReady(r, u) <=> IsReady(kk, u)
  <2>1. IsReady(r, x)
    BY <1>4 DEF Moved
  <2>2. \A u \in AllTasks \ {x} : IsReady(r, u) <=> IsReady(ke, u)
    BY <1>1, <1>4, SameReady DEF Moved
  <2>3. QED
    BY <1>1, <2>1, <2>2
<1>8. /\ r.suspended = kk.suspended
      /\ \A u \in AllTasks : /\ IsDelayed(r, u) <=> IsDelayed(kk, u)
                             /\ IsDelayed(r, u) => r.wake[u] = kk.wake[u]
  <2>1. ~ IsDelayed(kk, x) /\ x \notin kk.suspended
    BY SoundTypes DEF InPlace
  <2>2. ~ IsDelayed(r, x)
    BY <1>4, SoundTypes DEF Moved, InPlace
  <2>3. \A u \in AllTasks \ {x} : IsDelayed(r, u) <=> IsDelayed(kk, u)
    BY <1>1, <1>4 DEF Moved, SamePlace, IsDelayed, Initialised
  <2>4. \A u \in AllTasks \ {x} : r.wake[u] = kk.wake[u]
    BY <1>1, <1>4, MovedKeepsOrder DEF Initialised
  <2>5. r.suspended = kk.suspended
    BY <1>1, <1>4, <2>1 DEF Moved, Initialised
  <2>6. QED
    BY <2>1, <2>2, <2>3, <2>4, <2>5
<1>9. Reprioritised(r, kk, x, p)
  BY <1>1, <1>4, <1>6, <1>7, <1>8 DEF Reprioritised, Initialised, Moved, Calm
<1>10. QED
  BY <1>4, <1>5, <1>9 DEF r, ke

\* A blocked task with a new priority stays where it is.
LEMMA RenumbersBlocked ==
  ASSUME NEW kk, Sound(kk), TimesSound(kk), NEW x \in AllTasks \ {IdleTask},
         NEW p \in Priorities, ~ IsReady(kk, x)
  PROVE  LET r == InitialiseTask(kk, x, p)
         IN  Sound(r) /\ TimesSound(r) /\ Reprioritised(r, kk, x, p)
<1> DEFINE r == InitialiseTask(kk, x, p)
<1>1. /\ r \in KernelState /\ Once(r) /\ Initialised(r, kk, x, p)
      /\ TimesSound(r) /\ TopKnown(r) /\ EventOnce(r, x)
      /\ \A u \in AllTasks \ {x} : /\ SamePlace(r, kk, u) /\ SameEvent(r, kk, u)
                                   /\ IsReady(r, u) <=> IsReady(kk, u)
  BY RenumbersTask
<1>2. kk \in KernelState /\ \A u \in AllTasks : InPlace(kk, u)
  BY SoundTypes
<1> HIDE DEF r
<1>3. \A q \in Priorities : x \notin ToSet(kk.ready[q])
  BY <1>2 DEF InPlace, IsReady
<1>4. (\A q \in Priorities : x \notin ToSet(r.ready[q])) /\ ~ IsReady(r, x)
  <2>1. \A q \in Priorities : x \notin ToSet(r.ready[q])
    BY <1>1, <1>3 DEF Initialised
  <2>2. r.priority[x] \in Priorities
    BY <1>1, FieldTypes
  <2>3. QED
    BY <2>1, <2>2 DEF IsReady
<1>5. InPlace(r, x)
  <2>1. /\ IsDelayed(r, x) <=> IsDelayed(kk, x)
        /\ IsWaiting(r, x) <=> IsWaiting(kk, x)
        /\ IsPending(r, x) <=> IsPending(kk, x)
    BY <1>1 DEF Initialised, IsDelayed, IsWaiting, IsPending
  <2>2. /\ r.delayed = kk.delayed /\ r.overflowDelayed = kk.overflowDelayed
        /\ r.suspended = kk.suspended /\ r.waitingTermination = kk.waitingTermination
        /\ r.event = kk.event
    BY <1>1 DEF Initialised
  <2>3. QED
    BY <1>2, <1>4, <2>1, <2>2 DEF InPlace
<1>6. Sound(r)
  BY <1>1, <1>2, <1>5, SoundAgain
<1>7. Reprioritised(r, kk, x, p)
  BY <1>1, <1>4 DEF Reprioritised, Initialised, IsDelayed
<1>8. QED
  BY <1>1, <1>6, <1>7 DEF r

LEMMA PriorityIs ==
  ASSUME SInv, NEW x \in Tasks, NEW p \in Priorities
  PROVE  WithPriority(x, p) = IF IsReady(k, x) THEN MoveToReady(InitialiseTask(k, x, p), x)
                                               ELSE InitialiseTask(k, x, p)
<1>1. k \in KernelState /\ k.basePriority = k.priority
  BY SoundTypes DEF SInv, Control
<1>2. x \in AllTasks
  BY DEF AllTasks
<1> DEFINE kb == [k EXCEPT !.basePriority[x] = p]
<1>3. SetPriority(kb, x, p) = [SetPriority(k, x, p) EXCEPT !.basePriority[x] = p]
  BY <1>1 DEF SetPriority, KernelState
<1>4. x \in ToSet(k.ready[k.basePriority[x]]) <=> IsReady(k, x)
  BY <1>1 DEF IsReady
<1>5. WithPriority(x, p) =
        LET ke == SetEventValue(SetPriority(kb, x, p), x, p)
        IN  IF x \in ToSet(k.ready[k.basePriority[x]]) THEN MoveToReady(ke, x) ELSE ke
  BY <1>1 DEF WithPriority
<1>6. SetEventValue(SetPriority(kb, x, p), x, p) = InitialiseTask(k, x, p)
  BY <1>3 DEF InitialiseTask
<1> HIDE DEF kb
<1>7. QED
  BY <1>4, <1>5, <1>6

\* vTaskPrioritySet: the lists follow the priority.
LEMMA SetsPriority ==
  ASSUME SInv, NEW x \in Tasks, NEW p \in Priorities
  PROVE  LET r == WithPriority(x, p)
         IN  Sound(r) /\ TimesSound(r) /\ Reprioritised(r, k, x, p)
<1>1. Sound(k) /\ TimesSound(k)
  BY DEF SInv
<1>2. x \in AllTasks \ {IdleTask}
  BY KernelAssumption DEF AllTasks
<1>3. CASE IsReady(k, x)
  <2>1. WithPriority(x, p) = MoveToReady(InitialiseTask(k, x, p), x)
    BY <1>3, PriorityIs
  <2>2. QED
    BY <1>1, <1>2, <1>3, <2>1, MovesReady
<1>4. CASE ~ IsReady(k, x)
  <2>1. WithPriority(x, p) = InitialiseTask(k, x, p)
    BY <1>4, PriorityIs
  <2>2. QED
    BY <1>1, <1>2, <1>4, <2>1, RenumbersBlocked
<1>5. QED
  BY <1>3, <1>4

LEMMA PrioritySetInv ==
  ASSUME SInv, NEW t \in AllTasks, NEW x \in Tasks, NEW p \in Priorities,
         vTaskPrioritySet(t, x, p)
  PROVE  SInv'
<1> DEFINE kk == WithPriority(x, p)
           c == IF p > k.basePriority[x] THEN x # t ELSE x = t
<1>1. /\ At(t, "app") /\ p # k.basePriority[x] /\ k' = YieldIf(c, kk) /\ pc' = pc /\ Keep
  BY DEF vTaskPrioritySet
<1>2. /\ t = k.current /\ t \in AllTasks
      /\ k.schedulerSuspended = 0 /\ k.pendingReady = <<>>
      /\ k.missedTicks = 0 /\ ~ k.missedYield /\ IsReady(k, t)
      /\ ~ ignoredYield => \A u \in AllTasks : IsReady(k, u) => k.priority[u] <= k.priority[t]
  BY <1>1, InApp
<1>3. x \in AllTasks
  BY DEF AllTasks
<1>4. Sound(kk) /\ TimesSound(kk) /\ Reprioritised(kk, k, x, p)
  BY SetsPriority
<1> HIDE DEF kk
<1>5. /\ k.priority \in [AllTasks -> Priorities] /\ k.basePriority = k.priority
      /\ Priorities \subseteq Nat /\ p \in Nat
  BY SoundTypes, FieldTypes DEF SInv, Control, KernelState
<1>6. /\ kk.current = t /\ kk.schedulerSuspended = 0 /\ kk.pendingReady = <<>>
      /\ kk.missedTicks = 0 /\ ~ kk.missedYield /\ kk.basePriority = kk.priority
      /\ kk.waitingTermination = k.waitingTermination
      /\ \A u \in AllTasks : IsReady(kk, u) <=> IsReady(k, u)
  BY <1>2, <1>4, <1>5 DEF Reprioritised
<1>7. kk.priority[x] = p /\ \A u \in AllTasks \ {x} : kk.priority[u] = k.priority[u]
  BY <1>3, <1>4, <1>5 DEF Reprioritised
<1>8. c \in BOOLEAN
  OBVIOUS
<1>9. ~ c /\ ~ ignoredYield =>
        \A u \in AllTasks : IsReady(kk, u) => kk.priority[u] <= kk.priority[t]
  <2> SUFFICES ASSUME ~ c, ~ ignoredYield, NEW u \in AllTasks, IsReady(kk, u)
               PROVE  kk.priority[u] <= kk.priority[t]
    OBVIOUS
  <2>1. k.priority[u] \in Nat /\ k.priority[t] \in Nat /\ k.priority[x] \in Nat
    BY <1>2, <1>3, <1>5
  <2>2. k.priority[u] <= k.priority[t]
    BY <1>2, <1>6
  <2>3. CASE p > k.priority[x]
    <3>1. x = t
      BY <1>5, <2>3
    <3>2. kk.priority[t] = p
      BY <1>7, <3>1
    <3>3. kk.priority[u] = IF u = x THEN p ELSE k.priority[u]
      BY <1>7
    <3>4. QED
      BY <1>5, <2>1, <2>2, <2>3, <3>1, <3>2, <3>3
  <2>4. CASE ~ p > k.priority[x]
    <3>1. x # t /\ p < k.priority[x]
      BY <1>1, <1>5, <2>1, <2>4
    <3>2. kk.priority[t] = k.priority[t]
      BY <1>2, <1>7, <3>1
    <3>3. kk.priority[u] = IF u = x THEN p ELSE k.priority[u]
      BY <1>7
    <3>4. QED
      BY <1>5, <2>1, <2>2, <3>1, <3>2, <3>3
  <2>5. QED
    BY <2>3, <2>4
<1> HIDE DEF c
<1>10. QED
  BY <1>1, <1>2, <1>4, <1>6, <1>8, <1>9, YieldIfStep

-------------------------------------------------------------------------------
(* The invariant holds *)

\* The invariant at the start of the scheduler.
LEMMA SInvInit ==
  ASSUME Init
  PROVE  SInv
<1>1. Started(k)
  BY SchedulerAssumption, BootedSound DEF Init
<1>2. /\ k.current \in AllTasks /\ IdleTask \in AllTasks /\ 0 \in Ticks
  BY <1>1, SoundTypes, FieldTypes DEF Started
<1>3. CallTypes
  BY <1>2 DEF Init, CallTypes, Places
<1>4. \A t \in AllTasks : pc[t] = "app"
  BY DEF Init
<1>5. Control
  BY <1>1, <1>2, <1>4 DEF Started, Control, Held, Highest
<1>6. Top
  BY <1>1 DEF Started, Top, Highest
<1>7. QED
  BY <1>1, <1>3, <1>5, <1>6 DEF SInv, Started

\* Each action preserves the invariant, by the lemma of its own.
LEMMA SInvStep ==
  ASSUME SInv, [Next]_vars
  PROVE  SInv'
<1>1. ASSUME NEW t \in AllTasks, Continue(t)
      PROVE  SInv'
  <2>1. CASE ResumeAll(t)
    BY <2>1, ResumeAllInv
  <2>2. CASE Yield(t)
    BY <2>2, YieldInv
  <2>3. CASE Unlock(t)
    BY <2>3, UnlockInv
  <2>4. CASE vTaskList(t) \/ vTaskGetRunTimeStats(t)
    BY <2>4, WalkListsInv DEF vTaskList, vTaskGetRunTimeStats
  <2>5. CASE DelayBlock(t)
    BY <2>5, DelayBlockInv
  <2>6. CASE DelayUntilBlock(t)
    BY <2>6, DelayUntilBlockInv
  <2>7. CASE \E e \in EventLists : WaitBlock(t, e)
    BY <2>7, WaitBlockInv
  <2>8. CASE CreateYield(t)
    BY <2>8, CreateYieldInv
  <2>9. QED
    BY <1>1, <2>1, <2>2, <2>3, <2>4, <2>5, <2>6, <2>7, <2>8 DEF Continue
<1>2. ASSUME NEW t \in AllTasks, Call(t)
      PROVE  SInv'
  <2>1. CASE Lock(t) \/ ListCall(t)
    BY <2>1, LockInv
  <2>2. CASE \E n \in Delays : DelayCall(t, n)
    BY <2>2, DelayCallInv
  <2>3. CASE \E n \in Delays : WaitCall(t, n)
    BY <2>3, WaitCallInv
  <2>4. CASE \E n \in Delays, late \in Lateness : DelayUntilCall(t, n, late)
    BY <2>4, DelayUntilCallInv
  <2>5. CASE \E e \in EventLists : Signal(t, e)
    BY <2>5, SignalInv
  <2>6. CASE \E x \in Tasks : vTaskSuspend(t, x)
    BY <2>6, SuspendInv
  <2>7. CASE \E x \in Tasks : vTaskResume(t, x)
    BY <2>7, ResumeInv
  <2>8. CASE \E x \in Tasks : vTaskDelete(t, x)
    BY <2>8, DeleteInv
  <2>9. CASE \E x \in Tasks, p \in Priorities : vTaskPrioritySet(t, x, p)
    BY <2>9, PrioritySetInv
  <2>10. CASE \E x \in Tasks, p \in Priorities : xTaskGenericCreate(t, x, p)
    BY <2>10, CreateInv
  <2>11. QED
    BY <1>2, <2>1, <2>2, <2>3, <2>4, <2>5, <2>6, <2>7, <2>8, <2>9, <2>10 DEF Call
<1>3. CASE IdleStep
  BY <1>3, IdleLookInv, IdleUnlockInv, IdleReapInv, IdleYieldInv DEF IdleStep
<1>4. CASE Interrupt
  BY <1>4, TickInv, SignalFromISRInv, ResumeFromISRInv DEF Interrupt
<1>5. CASE UNCHANGED vars
  BY <1>5 DEF vars, SInv, CallTypes, Control, Top
<1>6. QED
  BY <1>1, <1>2, <1>3, <1>4, <1>5 DEF Next

LEMMA SInvAlways == Spec => []SInv
<1>1. Init => SInv
  BY SInvInit
<1>2. SInv /\ [Next]_vars => SInv'
  BY SInvStep
<1>3. QED
  BY <1>1, <1>2, PTL DEF Spec

-------------------------------------------------------------------------------
(* The theorems *)

\* The kernel's lists, priorities and counters stay in their ranges, whatever the
\* tasks call and whenever the interrupts come.
THEOREM KernelTypes == Spec => []TypeOK
<1>1. SInv => TypeOK
  BY DEF SInv, CallTypes, Sound, TypeOK
<1>2. QED
  BY <1>1, SInvAlways, PTL

LEMMA ExistingTasks ==
  ASSUME NEW kk \in KernelState
  PROVE  Existing(kk) \subseteq AllTasks
<1> SUFFICES ASSUME NEW t \in Existing(kk) PROVE t \in AllTasks
  OBVIOUS
<1>1. ~ NoPlace(kk, t)
  BY ExistsSomewhere
<1>2. /\ \A p \in Priorities : ToSet(kk.ready[p]) \subseteq AllTasks
      /\ ToSet(kk.delayed) \subseteq AllTasks /\ ToSet(kk.overflowDelayed) \subseteq AllTasks
      /\ ToSet(kk.waitingTermination) \subseteq AllTasks /\ kk.suspended \subseteq AllTasks
  BY ListTypes, InList
<1>3. QED
  BY <1>1, <1>2 DEF NoPlace

\* The processor is where it belongs: with no yield under way and no wake-up by a
\* handler outstanding, nobody who is ready has a higher priority than the task that
\* runs, for every number of tasks and priorities.
THEOREM HighestRuns == Spec => []RunsHighest
<1>1. SInv => RunsHighest
  <2> SUFFICES ASSUME SInv, k.schedulerSuspended = 0, ~ ignoredYield,
                      pc[k.current] \notin {"yield", "created"}
               PROVE  /\ IsReady(k, k.current)
                      /\ \A t \in Existing(k) : IsReady(k, t) => k.priority[t] <= k.priority[k.current]
    BY DEF RunsHighest
  <2>1. k.current \in AllTasks /\ k \in KernelState
    BY SoundTypes DEF SInv
  <2>2. "resumeAll" \in Held /\ pc[k.current] \notin Held
    BY <2>1, InOpen DEF Held
  <2>3. IsReady(k, k.current) /\ \A u \in AllTasks : IsReady(k, u) => k.priority[u] <= k.priority[k.current]
    BY <2>2 DEF SInv, Control, Top
  <2>4. Existing(k) \subseteq AllTasks
    BY <2>1, ExistingTasks
  <2>5. QED
    BY <2>3, <2>4
<1>2. QED
  BY <1>1, SInvAlways, PTL

\* The delayed lists stay sorted, with every time ahead of the tick count and none
\* before xNextTaskUnblockTime, wherever the tick count wraps.
THEOREM DelayedListsSound == Spec => []TimeListsSound
<1>1. SInv => TimeListsSound
  <2> SUFFICES ASSUME SInv PROVE TimeListsSound
    OBVIOUS
  <2>1. TimesSound(k) /\ k.delayed \in Seq(AllTasks)
    BY SoundTypes, ListTypes DEF SInv
  <2> DEFINE times == [i \in DOMAIN k.delayed |-> k.wake[k.delayed[i]]]
  <2>2. Len(times) = Len(k.delayed) /\ \A i \in 1 .. Len(k.delayed) : times[i] = k.wake[k.delayed[i]]
    <3>1. DOMAIN k.delayed = 1 .. Len(k.delayed) /\ Len(k.delayed) \in Nat
      BY <2>1
    <3>2. QED
      BY <3>1
  <2> HIDE DEF times
  <2>3. IsSorted(times, <=)
    BY <2>1, <2>2 DEF IsSorted, TimesSound, Sorted
  <2>4. QED
    BY <2>1, <2>3 DEF TimeListsSound, TimesSound, times
<1>2. QED
  BY <1>1, SInvAlways, PTL

\* The number of lists of L that hold t: one, if all that hold it are equal.
Holding(L, t) == Cardinality({l \in L : t \in ToSet(l)})

\* The number of lists that hold a task, from where the task is.
LEMMA CountLists ==
  ASSUME NEW L, NEW t
  PROVE  /\ (\A l \in L : t \notin ToSet(l)) => Holding(L, t) = 0
         /\ \A m \in L : t \in ToSet(m) /\ (\A l \in L : t \in ToSet(l) => l = m)
                           => Holding(L, t) = 1
<1> DEFINE H == {l \in L : t \in ToSet(l)}
<1>1. Holding(L, t) = Cardinality(H)
  BY DEF Holding
<1>2. (\A l \in L : t \notin ToSet(l)) => H = {}
  OBVIOUS
<1>3. \A m \in L : t \in ToSet(m) /\ (\A l \in L : t \in ToSet(l) => l = m) => H = {m}
  OBVIOUS
<1> HIDE DEF H
<1>4. H = {} => Cardinality(H) = 0
  BY FS_EmptySet
<1>5. \A m : H = {m} => Cardinality(H) = 1
  BY FS_Singleton
<1>6. QED
  BY <1>1, <1>2, <1>3, <1>4, <1>5

\* The lists of generic items that hold a task that exists: one, unless the task is
\* suspended.
LEMMA OneGenericList ==
  ASSUME SInv, NEW t \in Existing(k)
  PROVE  IF t \in k.suspended
         THEN \A l \in GenericLists : t \notin ToSet(l)
         ELSE \E m \in GenericLists : /\ t \in ToSet(m)
                                      /\ \A l \in GenericLists : t \in ToSet(l) => l = m
<1>1. k \in KernelState /\ t \in AllTasks /\ InPlace(k, t) /\ ~ NoPlace(k, t)
  BY SoundTypes, ExistingTasks, ExistsSomewhere DEF SInv
<1>2. /\ \A p \in Priorities : k.ready[p] \in GenericLists
      /\ k.delayed \in GenericLists /\ k.overflowDelayed \in GenericLists
      /\ k.waitingTermination \in GenericLists
      /\ \A l \in GenericLists : \/ \E p \in Priorities : l = k.ready[p]
                                 \/ l = k.delayed \/ l = k.overflowDelayed
                                 \/ l = k.waitingTermination
  <2>1. DOMAIN k.ready = Priorities
    BY <1>1 DEF KernelState
  <2>2. QED
    BY <2>1 DEF GenericLists, Range
<1>3. /\ \A p \in Priorities : t \in ToSet(k.ready[p]) => p = k.priority[t] /\ IsReady(k, t)
      /\ IsReady(k, t) => /\ t \notin ToSet(k.delayed) /\ t \notin ToSet(k.overflowDelayed)
                          /\ t \notin k.suspended /\ t \notin ToSet(k.waitingTermination)
      /\ t \in ToSet(k.delayed) => t \notin ToSet(k.overflowDelayed)
      /\ t \in ToSet(k.delayed) \/ t \in ToSet(k.overflowDelayed) =>
           t \notin k.suspended /\ t \notin ToSet(k.waitingTermination)
      /\ t \in ToSet(k.waitingTermination) => t \notin k.suspended
  BY <1>1 DEF InPlace, IsReady, IsDelayed
<1>4. CASE t \in k.suspended
  BY <1>2, <1>3, <1>4
<1>5. CASE t \notin k.suspended
  <2>1. \/ \E p \in Priorities : t \in ToSet(k.ready[p])
        \/ t \in ToSet(k.delayed) \/ t \in ToSet(k.overflowDelayed)
        \/ t \in ToSet(k.waitingTermination)
    BY <1>1, <1>5 DEF NoPlace
  <2>2. CASE t \in ToSet(k.delayed)
    <3>1. \A l \in GenericLists : t \in ToSet(l) => l = k.delayed
      BY <1>2, <1>3, <2>2
    <3>2. QED
      BY <1>2, <1>5, <2>2, <3>1
  <2>3. CASE t \in ToSet(k.overflowDelayed)
    <3>1. \A l \in GenericLists : t \in ToSet(l) => l = k.overflowDelayed
      BY <1>2, <1>3, <2>3
    <3>2. QED
      BY <1>2, <1>5, <2>3, <3>1
  <2>4. CASE t \in ToSet(k.waitingTermination)
    <3>1. \A l \in GenericLists : t \in ToSet(l) => l = k.waitingTermination
      BY <1>2, <1>3, <2>4
    <3>2. QED
      BY <1>2, <1>5, <2>4, <3>1
  <2>5. ASSUME NEW p \in Priorities, t \in ToSet(k.ready[p])
        PROVE  \E m \in GenericLists : /\ t \in ToSet(m)
                                       /\ \A l \in GenericLists : t \in ToSet(l) => l = m
    <3>1. \A l \in GenericLists : t \in ToSet(l) => l = k.ready[p]
      BY <1>2, <1>3, <2>5
    <3>2. QED
      BY <1>2, <2>5, <3>1
  <2>6. QED
    BY <1>5, <2>1, <2>2, <2>3, <2>4, <2>5
<1>6. QED
  BY <1>4, <1>5

\* No task's event item is in two lists.
LEMMA OneEventList ==
  ASSUME SInv, NEW t \in Existing(k)
  PROVE  \/ \A l \in EventItemLists : t \notin ToSet(l)
         \/ \E m \in EventItemLists : /\ t \in ToSet(m)
                                      /\ \A l \in EventItemLists : t \in ToSet(l) => l = m
<1>1. k \in KernelState /\ t \in AllTasks /\ InPlace(k, t)
  BY SoundTypes, ExistingTasks DEF SInv
<1>2. /\ \A e \in EventLists : k.event[e] \in EventItemLists
      /\ k.pendingReady \in EventItemLists
      /\ \A l \in EventItemLists : \/ \E e \in EventLists : l = k.event[e]
                                   \/ l = k.pendingReady
  <2>1. DOMAIN k.event = EventLists
    BY <1>1 DEF KernelState
  <2>2. QED
    BY <2>1 DEF EventItemLists, Range
<1>3. /\ \A e, f \in EventLists : t \in ToSet(k.event[e]) /\ t \in ToSet(k.event[f]) => e = f
      /\ \A e \in EventLists : t \in ToSet(k.event[e]) => t \notin ToSet(k.pendingReady)
  BY <1>1 DEF InPlace, IsWaiting, IsPending
<1>4. CASE t \in ToSet(k.pendingReady)
  <2>1. \A l \in EventItemLists : t \in ToSet(l) => l = k.pendingReady
    BY <1>2, <1>3, <1>4
  <2>2. QED
    BY <1>2, <1>4, <2>1
<1>5. ASSUME NEW e \in EventLists, t \in ToSet(k.event[e])
      PROVE  \E m \in EventItemLists : /\ t \in ToSet(m)
                                       /\ \A l \in EventItemLists : t \in ToSet(l) => l = m
  <2>1. \A l \in EventItemLists : t \in ToSet(l) => l = k.event[e]
    BY <1>2, <1>3, <1>5
  <2>2. QED
    BY <1>2, <1>5, <2>1
<1>6. QED
  BY <1>2, <1>4, <1>5

\* Every task's two list items are where the kernel looks for them: one generic list,
\* at most one event list, the ready list of the priority in use, and nothing put off
\* once the scheduler is resumed.
THEOREM ListsAlwaysAgree == Spec => []ListsAgree
<1>1. SInv => ListsAgree
  <2> SUFFICES ASSUME SInv PROVE ListsAgree
    OBVIOUS
  <2>1. k \in KernelState /\ Once(k) /\ Control
    BY SoundTypes DEF SInv
  <2>2. \A l \in GenericLists \cup EventItemLists : IsInjective(l)
    <3>1. DOMAIN k.ready = Priorities /\ DOMAIN k.event = EventLists
      BY <2>1 DEF KernelState
    <3>2. QED
      BY <2>1, <3>1 DEF Once, GenericLists, EventItemLists, Range
  <2>3. k.schedulerSuspended = 0 => k.pendingReady = <<>> /\ k.missedTicks = 0 /\ ~ k.missedYield
    BY <2>1 DEF Control
  <2>4. ASSUME NEW t \in Existing(k)
        PROVE  /\ Quantify(GenericLists, LAMBDA l : t \in ToSet(l)) + (IF t \in k.suspended THEN 1 ELSE 0) = 1
               /\ Quantify(EventItemLists, LAMBDA l : t \in ToSet(l)) <= 1
               /\ IsWaiting(k, t) \/ IsPending(k, t) => Blocked(t)
               /\ (\E p \in Priorities : t \in ToSet(k.ready[p])) => IsReady(k, t)
    <3>1. InPlace(k, t)
      BY SoundTypes, ExistingTasks DEF SInv
    <3> DEFINE n == Holding(GenericLists, t)
               m == Holding(EventItemLists, t)
    <3>2. n = IF t \in k.suspended THEN 0 ELSE 1
      BY OneGenericList, CountLists
    <3>3. m \in {0, 1}
      BY OneEventList, CountLists
    <3>4. /\ n = Quantify(GenericLists, LAMBDA l : t \in ToSet(l))
          /\ m = Quantify(EventItemLists, LAMBDA l : t \in ToSet(l))
      BY DEF Holding, Quantify
    <3> HIDE DEF n, m
    <3>5. n + (IF t \in k.suspended THEN 1 ELSE 0) = 1 /\ m <= 1
      BY <3>2, <3>3
    <3>6. IsWaiting(k, t) \/ IsPending(k, t) => Blocked(t)
      BY <3>1 DEF InPlace, Blocked
    <3>7. (\E p \in Priorities : t \in ToSet(k.ready[p])) => IsReady(k, t)
      BY <3>1 DEF InPlace, IsReady
    <3>8. QED
      BY <3>5, <3>6, <3>7, <3>4
  <2>5. QED
    BY <2>2, <2>3, <2>4 DEF ListsAgree
<1>2. QED
  BY <1>1, SInvAlways, PTL

-------------------------------------------------------------------------------
(* Delays last what was asked for *)

\* The ticks until a time that lies n ticks ahead.
LEMMA TicksAhead ==
  ASSUME NEW now \in Ticks, NEW n \in Ticks
  PROVE  (((now + n) % TICK_MOD) - now) % TICK_MOD = n
<1> DEFINE M == TICK_MOD
           w == (now + n) % TICK_MOD
<1>1. M \in Nat /\ M > 2 /\ now \in 0 .. M - 1 /\ n \in 0 .. M - 1
  BY KernelAssumption DEF Ticks
<1>2. w = IF now + n < M THEN now + n ELSE now + n - M
  <2>1. now + n < M => now + n \in Ticks
    BY <1>1 DEF Ticks
  <2>2. now + n >= M => now + n \in TICK_MOD .. 2 * TICK_MOD - 1
    BY <1>1
  <2>3. now + n \in Int
    BY <1>1
  <2> HIDE DEF M
  <2> QED
    BY <1>1, <2>1, <2>2, <2>3, TicksWrap DEF M
<1> HIDE DEF w
<1>3. CASE now + n < M
  <2>1. w - now \in Ticks /\ w - now \in Int /\ w - now = n
    BY <1>1, <1>2, <1>3 DEF Ticks
  <2>2. QED
    BY <2>1, TicksWrap DEF w
<1>4. CASE now + n >= M
  <2>1. w - now \in -TICK_MOD .. -1 /\ w - now \in Int /\ w - now + TICK_MOD = n
    BY <1>1, <1>2, <1>4
  <2>2. QED
    BY <2>1, TicksWrap DEF w
<1>5. QED
  BY <1>1, <1>3, <1>4

\* How far the previous wake time is behind.
LEMMA TicksBehind ==
  ASSUME NEW now \in Ticks, NEW previous \in Ticks
  PROVE  LET late == (now - previous) % TICK_MOD
         IN  late \in Ticks /\ previous = (now - late) % TICK_MOD
<1> DEFINE M == TICK_MOD
           late == (now - previous) % TICK_MOD
<1>1. M \in Nat /\ M > 2 /\ now \in 0 .. M - 1 /\ previous \in 0 .. M - 1
  BY KernelAssumption DEF Ticks
<1>2. late = IF now >= previous THEN now - previous ELSE now - previous + M
  <2>1. now >= previous => now - previous \in Ticks
    BY <1>1 DEF Ticks
  <2>2. now < previous => now - previous \in -TICK_MOD .. -1
    BY <1>1
  <2>3. now - previous \in Int
    BY <1>1
  <2> HIDE DEF M
  <2> QED
    BY <1>1, <2>1, <2>2, <2>3, TicksWrap DEF M
<1> HIDE DEF late
<1>3. late \in Ticks
  BY <1>1, <1>2 DEF Ticks
<1>4. CASE now >= previous
  <2>1. now - late = previous
    BY <1>1, <1>2, <1>4
  <2>2. QED
    BY <1>1, <1>3, <2>1, TicksWrap DEF late
<1>5. CASE now < previous
  <2>1. now - late \in -TICK_MOD .. -1 /\ now - late \in Int /\ now - late + TICK_MOD = previous
    BY <1>1, <1>2, <1>5
  <2>2. (now - late) % TICK_MOD = previous
    BY <2>1, TicksWrap
  <2>3. QED
    BY <1>3, <2>2 DEF late
<1>6. QED
  BY <1>1, <1>4, <1>5

\* The next wake time of vTaskDelayUntil, seen from the present.
LEMMA TicksUntil ==
  ASSUME NEW now \in Ticks, NEW late \in Ticks, NEW n \in Ticks, n > late
  PROVE  LET previous == (now - late) % TICK_MOD
             wake     == (previous + n) % TICK_MOD
         IN  (wake - now) % TICK_MOD = n - late
<1> DEFINE M == TICK_MOD
           previous == (now - late) % TICK_MOD
           wake     == (previous + n) % TICK_MOD
           ahead    == (now + (n - late)) % TICK_MOD
<1>1. /\ M \in Nat /\ M > 2 /\ now \in 0 .. M - 1 /\ late \in 0 .. M - 1 /\ n \in 0 .. M - 1
      /\ n - late \in Ticks /\ n - late \in 0 .. M - 1
  BY KernelAssumption DEF Ticks
<1>2. previous = IF now >= late THEN now - late ELSE now - late + M
  <2>1. now >= late => now - late \in Ticks
    BY <1>1 DEF Ticks
  <2>2. now < late => now - late \in -TICK_MOD .. -1
    BY <1>1
  <2>3. now - late \in Int
    BY <1>1
  <2> HIDE DEF M
  <2> QED
    BY <1>1, <2>1, <2>2, <2>3, TicksWrap DEF M
<1> HIDE DEF previous
<1>3. wake = IF previous + n < M THEN previous + n ELSE previous + n - M
  <2>1. previous + n < M => previous + n \in Ticks
    BY <1>1, <1>2 DEF Ticks
  <2>2. previous + n >= M => previous + n \in TICK_MOD .. 2 * TICK_MOD - 1
    BY <1>1, <1>2
  <2>3. previous + n \in Int
    BY <1>1, <1>2
  <2> HIDE DEF M
  <2> QED
    BY <1>1, <1>2, <2>1, <2>2, <2>3, TicksWrap DEF M
<1>4. ahead = IF now + (n - late) < M THEN now + (n - late) ELSE now + (n - late) - M
  <2>1. now + (n - late) < M => now + (n - late) \in Ticks
    BY <1>1 DEF Ticks
  <2>2. now + (n - late) >= M => now + (n - late) \in TICK_MOD .. 2 * TICK_MOD - 1
    BY <1>1
  <2>3. now + (n - late) \in Int
    BY <1>1
  <2> HIDE DEF M
  <2> QED
    BY <1>1, <2>1, <2>2, <2>3, TicksWrap DEF M
<1>5. (ahead - now) % TICK_MOD = n - late
  BY <1>1, TicksAhead
<1> HIDE DEF wake, ahead
<1>6. wake = ahead
  BY <1>1, <1>2, <1>3, <1>4
<1>7. QED
  BY <1>5, <1>6 DEF wake, previous

\* A task that blocks until w is in a delayed list with that time.
LEMMA BlockedUntil ==
  ASSUME NEW kk, NEW w \in Ticks, SoundBut(kk, kk.current), kk.current # IdleTask
  PROVE  LET r == prvAddCurrentTaskToDelayedList(RemoveGenericItem(kk, kk.current), w)
         IN  IsDelayed(r, kk.current) /\ r.wake[kk.current] = w /\ r.tick = kk.tick
<1> DEFINE g == RemoveGenericItem(kk, kk.current)
           r == prvAddCurrentTaskToDelayedList(g, w)
<1>1. /\ Calm(r, kk) /\ IsDelayed(r, kk.current)
      /\ g \in KernelState /\ GenericGone(g, kk, kk.current) /\ DelayedTo(r, g, w)
  BY Blocks
<1> HIDE DEF g, r
<1>2. g.current = kk.current /\ g.wake \in [AllTasks -> Ticks] /\ g.current \in AllTasks
  BY <1>1, FieldTypes DEF GenericGone, Calm, KernelState
<1>3. r.wake = [g.wake EXCEPT ![g.current] = w]
  BY <1>1 DEF DelayedTo
<1>4. IsDelayed(r, kk.current) /\ r.wake[kk.current] = w /\ r.tick = kk.tick
  BY <1>1, <1>2, <1>3 DEF Calm
<1>5. QED
  BY <1>4 DEF g, r

\* vTaskDelay's wait, and a timed wait for an event: n ticks, from the present.
LEMMA BlockedTicks ==
  ASSUME NEW kk, NEW n \in 1 .. portMAX_DELAY, SoundBut(kk, kk.current), kk.current # IdleTask
  PROVE  LET r == BlockCurrentFor(kk, n)
         IN  IsDelayed(r, kk.current) /\ TicksLeft(r, kk.current) = n
<1> DEFINE w == (kk.tick + n) % TICK_MOD
           r == BlockCurrentFor(kk, n)
<1>1. kk.tick \in Ticks /\ n \in Ticks
  <2>1. kk \in KernelState
    BY DEF SoundBut
  <2>2. QED
    BY <2>1, FieldTypes, KernelAssumption DEF Ticks, portMAX_DELAY
<1>2. w \in Ticks
  BY <1>1, WakeAhead
<1>3. (w - kk.tick) % TICK_MOD = n
  BY <1>1, TicksAhead
<1>4. r = prvAddCurrentTaskToDelayedList(RemoveGenericItem(kk, kk.current), w)
  BY DEF BlockCurrentFor
<1> HIDE DEF w, r
<1>5. IsDelayed(r, kk.current) /\ r.wake[kk.current] = w /\ r.tick = kk.tick
  BY <1>2, <1>4, BlockedUntil
<1>6. IsDelayed(r, kk.current) /\ TicksLeft(r, kk.current) = n
  BY <1>3, <1>5 DEF TicksLeft
<1>7. QED
  BY <1>6 DEF r

\* A wait for ever is no delay.
LEMMA WaitsTicks ==
  ASSUME NEW kk, Sound(kk), TimesSound(kk), NEW e \in EventLists,
         NEW n \in 1 .. portMAX_DELAY, IsReady(kk, kk.current), kk.current # IdleTask
  PROVE  LET r == vTaskPlaceOnEventList(kk, e, n)
         IN  /\ IsDelayed(r, kk.current) <=> n # portMAX_DELAY
             /\ IsDelayed(r, kk.current) => TicksLeft(r, kk.current) = n
             /\ n = portMAX_DELAY => kk.current \in r.suspended
<1> DEFINE t == kk.current
           ke == [kk EXCEPT !.event[e] = vListInsert(@, t, kk.eventValue)]
           r == vTaskPlaceOnEventList(kk, e, n)
<1>1. SoundBut(ke, t) /\ Calm(ke, kk)
  BY PutsOnEventList
<1>2. r = IF n = portMAX_DELAY
          THEN [RemoveGenericItem(ke, t) EXCEPT !.suspended = @ \cup {t}]
          ELSE BlockCurrentFor(ke, n)
  BY DEF vTaskPlaceOnEventList
<1> HIDE DEF ke, r
<1>3. ke.current = t /\ t \in AllTasks
  BY <1>1, SoundTypes DEF Calm
<1>4. CASE n = portMAX_DELAY
  <2>1. Sound(r) /\ SuspendedTo(r, ke, t)
    BY <1>1, <1>2, <1>3, <1>4, Suspends
  <2>2. t \in r.suspended /\ InPlace(r, t)
    BY <1>3, <2>1, SoundTypes DEF SuspendedTo
  <2>3. ~ IsDelayed(r, t)
    BY <2>2 DEF InPlace
  <2>4. QED
    BY <1>4, <2>2, <2>3 DEF r
<1>5. CASE n # portMAX_DELAY
  <2>1. r = BlockCurrentFor(ke, n)
    BY <1>2, <1>5
  <2>2. IsDelayed(r, t) /\ TicksLeft(r, t) = n
    BY <1>1, <1>3, <2>1, BlockedTicks
  <2>3. QED
    BY <1>5, <2>2 DEF r
<1>6. QED
  BY <1>4, <1>5

\* Only the calls that block come to xTaskResumeAll in that way.
LEMMA OnlyBlocks ==
  ASSUME CallTypes, Next, NEW t \in AllTasks, pc[t] # "resumeAll", pc'[t] = "resumeAll"
  PROVE  DelayBlock(t) \/ DelayUntilBlock(t) \/ \E e \in EventLists : WaitBlock(t, e)
<1> DEFINE Blocks3(u) == DelayBlock(u) \/ DelayUntilBlock(u) \/ \E e \in EventLists : WaitBlock(u, e)
<1>1. ASSUME NEW u \in AllTasks, NEW to, to # "resumeAll", Goto(u, to)
      PROVE  FALSE
  BY <1>1 DEF CallTypes, Goto
<1>2. ASSUME NEW u \in AllTasks, Continue(u)
      PROVE  Blocks3(t)
  <2>1. CASE ResumeAll(u)
    BY <1>1, <2>1 DEF ResumeAll
  <2>2. CASE Yield(u) \/ Unlock(u) \/ vTaskList(u) \/ vTaskGetRunTimeStats(u) \/ CreateYield(u)
    BY <1>1, <2>2 DEF Yield, Unlock, vTaskList, vTaskGetRunTimeStats, WalkLists, CreateYield
  <2>3. CASE Blocks3(u)
    <3>1. Goto(u, "resumeAll")
      BY <2>3 DEF DelayBlock, DelayUntilBlock, WaitBlock
    <3>2. u = t
      BY <3>1 DEF CallTypes, Goto
    <3>3. QED
      BY <2>3, <3>2
  <2>4. QED
    BY <1>2, <2>1, <2>2, <2>3 DEF Continue
<1>3. ASSUME NEW u \in AllTasks, Call(u)
      PROVE  FALSE
  <2>1. CASE Lock(u) \/ ListCall(u)
    BY <1>1, <2>1 DEF Lock, ListCall
  <2>2. CASE \E n \in Delays : DelayCall(u, n) \/ WaitCall(u, n)
    BY <1>1, <2>2 DEF DelayCall, WaitCall
  <2>3. CASE \E n \in Delays, late \in Lateness : DelayUntilCall(u, n, late)
    BY <1>1, <2>3 DEF DelayUntilCall
  <2>4. CASE \E e \in EventLists : Signal(u, e)
    BY <2>4 DEF Signal
  <2>5. CASE \E x \in Tasks : vTaskSuspend(u, x) \/ vTaskResume(u, x) \/ vTaskDelete(u, x)
    BY <1>1, <2>5 DEF vTaskSuspend, vTaskResume, vTaskDelete
  <2>6. CASE \E x \in Tasks, p \in Priorities :
               vTaskPrioritySet(u, x, p) \/ xTaskGenericCreate(u, x, p)
    <3>1. CASE \E x \in Tasks, p \in Priorities : vTaskPrioritySet(u, x, p)
      BY <3>1 DEF vTaskPrioritySet
    <3>2. ASSUME NEW x \in Tasks, pc' = [pc EXCEPT ![u] = "created", ![x] = "app"]
          PROVE  FALSE
      BY <3>2 DEF CallTypes
    <3>3. CASE \E x \in Tasks, p \in Priorities : xTaskGenericCreate(u, x, p)
      BY <3>2, <3>3 DEF xTaskGenericCreate
    <3>4. QED
      BY <2>6, <3>1, <3>3
  <2>7. QED
    BY <1>3, <2>1, <2>2, <2>3, <2>4, <2>5, <2>6 DEF Call
<1>4. CASE IdleStep
  <2>1. IdleTask \in AllTasks
    BY DEF AllTasks
  <2>2. QED
    BY <1>1, <1>4, <2>1 DEF IdleStep, IdleLook, IdleUnlock, IdleReap, IdleYield
<1>5. CASE Interrupt
  BY <1>5 DEF Interrupt, vTickISR, SignalFromISR, xTaskResumeFromISR
<1>6. QED
  BY <1>2, <1>3, <1>4, <1>5 DEF Next

\* What DelaysExact says of one task and one step.
DelayExact(t) ==
  LET late == (k.tick - previousWake[t]) % TICK_MOD
  IN  pc[t] # "resumeAll" /\ pc'[t] = "resumeAll" =>
        /\ IsDelayed(k', t) <=> CASE pc[t] = "delay"      -> TRUE
                                  [] pc[t] = "delayUntil" -> argument[t] > late
                                  [] pc[t] = "wait"       -> argument[t] # portMAX_DELAY
        /\ IsDelayed(k', t) =>
             TicksLeft(k', t) = IF pc[t] = "delayUntil" THEN argument[t] - late ELSE argument[t]

\* vTaskDelay blocks for the ticks of its argument.
LEMMA DelayIsExact ==
  ASSUME SInv, NEW t \in AllTasks, DelayBlock(t)
  PROVE  DelayExact(t)
<1>1. At(t, "delay") /\ pc[t] = "delay" /\ k' = BlockCurrentFor(k, argument[t])
  BY DEF DelayBlock, At
<1>2. /\ t = k.current /\ t # IdleTask /\ SoundBut(k, t) /\ argument[t] \in 1 .. portMAX_DELAY
  BY <1>1, AboutToBlock
<1>3. ASSUME NEW n \in 1 .. portMAX_DELAY
      PROVE  LET r == BlockCurrentFor(k, n) IN IsDelayed(r, t) /\ TicksLeft(r, t) = n
  BY <1>2, BlockedTicks
<1>4. IsDelayed(k', t) /\ TicksLeft(k', t) = argument[t]
  BY <1>1, <1>2, <1>3
<1>5. QED
  BY <1>1, <1>4 DEF DelayExact

\* A timed wait blocks for the ticks of its argument.
LEMMA WaitIsExact ==
  ASSUME SInv, NEW t \in AllTasks, NEW e \in EventLists, WaitBlock(t, e)
  PROVE  DelayExact(t)
<1>1. At(t, "wait") /\ pc[t] = "wait" /\ k' = vTaskPlaceOnEventList(k, e, argument[t])
  BY DEF WaitBlock, At
<1>2. /\ t = k.current /\ t # IdleTask /\ IsReady(k, t) /\ Sound(k) /\ TimesSound(k)
      /\ argument[t] \in 1 .. portMAX_DELAY
  BY <1>1, AboutToBlock
<1>3. ASSUME NEW n \in 1 .. portMAX_DELAY
      PROVE  LET r == vTaskPlaceOnEventList(k, e, n)
             IN  /\ IsDelayed(r, t) <=> n # portMAX_DELAY
                 /\ IsDelayed(r, t) => TicksLeft(r, t) = n
  BY <1>2, WaitsTicks
<1>4. /\ IsDelayed(k', t) <=> argument[t] # portMAX_DELAY
      /\ IsDelayed(k', t) => TicksLeft(k', t) = argument[t]
  BY <1>1, <1>2, <1>3
<1>5. QED
  BY <1>1, <1>4 DEF DelayExact

\* vTaskDelayUntil blocks for the ticks until its wake time.
LEMMA DelayUntilIsExact ==
  ASSUME SInv, NEW t \in AllTasks, DelayUntilBlock(t)
  PROVE  DelayExact(t)
<1> DEFINE n == argument[t]
           previous == previousWake[t]
           wake == (previous + n) % TICK_MOD
           late == (k.tick - previous) % TICK_MOD
           r == prvAddCurrentTaskToDelayedList(RemoveGenericItem(k, t), wake)
<1>1. /\ At(t, "delayUntil") /\ pc[t] = "delayUntil"
      /\ k' = IF ShouldDelay(k.tick, previous, wake) THEN r ELSE k
  BY DEF DelayUntilBlock, At
<1>2. /\ t = k.current /\ t # IdleTask /\ SoundBut(k, t) /\ Sound(k) /\ IsReady(k, t)
      /\ n \in 1 .. portMAX_DELAY
  BY <1>1, AboutToBlock
<1>3. k.tick \in Ticks /\ previous \in Ticks /\ n \in Ticks /\ n > 0
  BY <1>2, SoundTypes, KernelAssumption DEF SInv, CallTypes, Ticks, portMAX_DELAY
<1>4. late \in Ticks /\ previous = (k.tick - late) % TICK_MOD
  BY <1>3, TicksBehind
<1>5. wake \in Ticks
  <2>1. previous + n \in Int /\ TICK_MOD \in Nat \ {0}
    BY <1>3, KernelAssumption DEF Ticks
  <2>2. QED
    BY <2>1 DEF Ticks
<1>6. ShouldDelay(k.tick, previous, wake) <=> n > late
  <2>1. ASSUME NEW now \in Ticks, NEW l \in Ticks, NEW m \in Ticks, m > 0
        PROVE  LET p == (now - l) % TICK_MOD IN ShouldDelay(now, p, (p + m) % TICK_MOD) <=> m > l
    BY <2>1, ShouldDelayExact
  <2> HIDE DEF late, n, previous
  <2>2. QED
    BY <1>3, <1>4, <2>1
<1>7. n > late => (wake - k.tick) % TICK_MOD = n - late
  <2>1. ASSUME NEW now \in Ticks, NEW l \in Ticks, NEW m \in Ticks, m > l
        PROVE  LET p == (now - l) % TICK_MOD IN (((p + m) % TICK_MOD) - now) % TICK_MOD = m - l
    BY <2>1, TicksUntil
  <2> HIDE DEF late, n, previous
  <2>2. QED
    BY <1>3, <1>4, <2>1
<1>8. IsDelayed(r, t) /\ r.wake[t] = wake /\ r.tick = k.tick
  <2> HIDE DEF wake
  <2>1. QED
    BY <1>2, <1>5, BlockedUntil
<1>9. ~ IsDelayed(k, t)
  BY <1>2, SoundTypes DEF InPlace
<1> HIDE DEF r, wake
<1>10. /\ IsDelayed(k', t) <=> n > late
       /\ IsDelayed(k', t) => TicksLeft(k', t) = n - late
  <2>1. CASE n > late
    <3>1. k' = r
      BY <1>1, <1>6, <2>1
    <3>2. TicksLeft(r, t) = n - late
      BY <1>7, <1>8, <2>1 DEF TicksLeft
    <3>3. QED
      BY <1>8, <2>1, <3>1, <3>2
  <2>2. CASE ~ n > late
    <3>1. k' = k
      BY <1>1, <1>6, <2>2
    <3>2. QED
      BY <1>9, <2>2, <3>1
  <2>3. QED
    BY <2>1, <2>2
<1>11. QED
  BY <1>1, <1>10 DEF DelayExact

\* A delay and a timed wait last the ticks asked for, and vTaskDelayUntil blocks
\* exactly if its wake time is still to come, for the ticks until then: for every width
\* of the tick count, and whatever interrupts come between the call and the block.
THEOREM DelaysAreExact == Spec => DelaysExact
<1>1. ASSUME SInv, Next, NEW t \in Tasks PROVE DelayExact(t)
  <2>1. t \in AllTasks
    BY DEF AllTasks
  <2>2. CASE pc[t] # "resumeAll" /\ pc'[t] = "resumeAll"
    BY <1>1, <2>1, <2>2, OnlyBlocks, DelayIsExact, WaitIsExact, DelayUntilIsExact DEF SInv
  <2>3. CASE ~ (pc[t] # "resumeAll" /\ pc'[t] = "resumeAll")
    BY <2>3 DEF DelayExact
  <2>4. QED
    BY <2>2, <2>3
<1>2. SInv /\ [Next]_vars => [\A t \in Tasks : DelayExact(t)]_vars
  BY <1>1
<1>3. [][\A t \in Tasks : DelayExact(t)]_vars => DelaysExact
  BY PTL DEF DelaysExact, DelayExact
<1>4. QED
  BY <1>2, <1>3, SInvAlways, PTL DEF Spec

-------------------------------------------------------------------------------
(* The promise of TaskStates: what it sees of a kernel state *)

\* The state of a task, from the list it is in.
StateIn(kk, t) ==
  IF IsReady(kk, t) THEN "ready"
  ELSE IF IsDelayed(kk, t) THEN "delayed"
  ELSE IF t \in kk.suspended THEN "suspended"
  ELSE IF t \in ToSet(kk.waitingTermination) THEN "deleted" ELSE "none"

LeftIn(kk, t) == IF IsDelayed(kk, t) THEN TicksLeft(kk, t) - kk.missedTicks ELSE 0

NowIn(kk) == (kk.tick + kk.missedTicks) % TICK_MOD

\* The state told by the lists.
ListState(kk, t) ==
  CASE \E p \in Priorities : t \in ToSet(kk.ready[p]) -> "ready"
    [] IsDelayed(kk, t)                   -> "delayed"
    [] t \in kk.suspended                 -> "suspended"
    [] t \in ToSet(kk.waitingTermination) -> "deleted"
    [] OTHER                              -> "none"

\* A task in the lists is ready, delayed, suspended or deleted, one of the four.
LEMMA OneState ==
  ASSUME NEW kk, Sound(kk), NEW t \in AllTasks
  PROVE  /\ (\E p \in Priorities : t \in ToSet(kk.ready[p])) <=> IsReady(kk, t)
         /\ IsReady(kk, t) => ~IsDelayed(kk, t) /\ t \notin kk.suspended
                                /\ t \notin ToSet(kk.waitingTermination)
         /\ IsDelayed(kk, t) => t \notin kk.suspended /\ t \notin ToSet(kk.waitingTermination)
         /\ t \in kk.suspended => t \notin ToSet(kk.waitingTermination)
<1>1. InPlace(kk, t) /\ kk \in KernelState /\ kk.priority[t] \in Priorities
  BY SoundTypes DEF Sound
<1>2. QED
  BY <1>1 DEF InPlace, IsReady

LEMMA ListStateIsState ==
  ASSUME NEW kk, Sound(kk), NEW t \in AllTasks
  PROVE  ListState(kk, t) = StateIn(kk, t)
<1>1. CASE IsReady(kk, t)
  BY <1>1, OneState DEF ListState, StateIn
<1>2. CASE ~ IsReady(kk, t)
  BY <1>2, OneState DEF ListState, StateIn
<1>3. QED
  BY <1>1, <1>2

\* The states that the promise speaks of, before and after a step.
LEMMA StatesAre ==
  ASSUME Sound(k), Sound(k')
  PROVE  /\ \A t \in AllTasks : StateOf(t) = StateIn(k, t)
         /\ \A t \in AllTasks : StateOf(t)' = StateIn(k', t)
<1>1. \A t \in AllTasks : StateOf(t) = ListState(k, t)
  BY DEF StateOf, ListState
<1>2. \A t \in AllTasks : StateOf(t)' = ListState(k', t)
  BY DEF StateOf, ListState
<1>3. \A t \in AllTasks : ListState(k, t) = StateIn(k, t)
  BY ListStateIsState
<1>4. ASSUME NEW kk, Sound(kk), NEW t \in AllTasks PROVE ListState(kk, t) = StateIn(kk, t)
  BY <1>4, ListStateIsState
<1>5. \A t \in AllTasks : ListState(k', t) = StateIn(k', t)
  BY <1>4
<1>6. QED
  BY <1>1, <1>2, <1>3, <1>5

-------------------------------------------------------------------------------
(* Steps between kernel states, as the promise sees them *)

\* Nothing that is promised about task u changes.
SameSeen(r, kk, u) == StateIn(r, u) = StateIn(kk, u) /\ LeftIn(r, u) = LeftIn(kk, u)

\* What is promised about no single task.
SameRest(r, kk) ==
  /\ (r.schedulerSuspended > 0) = (kk.schedulerSuspended > 0)
  /\ NowIn(r) = NowIn(kk)
  /\ ToSet(r.pendingReady) = ToSet(kk.pendingReady)

Unseen(r, kk) == SameRest(r, kk) /\ \A u \in AllTasks : SameSeen(r, kk, u)

\* Task t is in state s from now on, the others stay.
Enters(r, kk, t, s) ==
  /\ SameRest(r, kk)
  /\ \A u \in AllTasks \ {t} : SameSeen(r, kk, u)
  /\ StateIn(r, t) = s /\ LeftIn(r, t) = 0

\* What is not seen after a step does not undo it.
LEMMA EntersThenUnseen ==
  ASSUME NEW a, NEW b, NEW c, NEW t \in AllTasks, NEW s, Enters(b, c, t, s), Unseen(a, b)
  PROVE  Enters(a, c, t, s)
BY DEF Enters, Unseen, SameRest, SameSeen

\* Two steps that are not seen.
LEMMA UnseenTrans ==
  ASSUME NEW a, NEW b, NEW c, Unseen(b, c), Unseen(a, b)
  PROVE  Unseen(a, c)
BY DEF Unseen, SameRest, SameSeen

\* A task that stays in its lists with its time is seen to stay.
LEMMA ListsTell ==
  ASSUME NEW r, NEW kk, NEW u \in AllTasks,
         IsReady(r, u) <=> IsReady(kk, u), IsDelayed(r, u) <=> IsDelayed(kk, u),
         u \in r.suspended <=> u \in kk.suspended,
         u \in ToSet(r.waitingTermination) <=> u \in ToSet(kk.waitingTermination),
         IsDelayed(r, u) => r.wake[u] = kk.wake[u],
         r.tick = kk.tick, r.missedTicks = kk.missedTicks
  PROVE  SameSeen(r, kk, u)
<1>1. StateIn(r, u) = StateIn(kk, u)
  BY DEF StateIn
<1>2. LeftIn(r, u) = LeftIn(kk, u)
  BY DEF LeftIn, TicksLeft
<1>3. QED
  BY <1>1, <1>2 DEF SameSeen

\* So it is when only its items are known to stay where they are.
LEMMA PlaceTells ==
  ASSUME NEW r, NEW kk \in KernelState, NEW u \in AllTasks, SamePlace(r, kk, u),
         r.wake[u] = kk.wake[u], r.tick = kk.tick, r.missedTicks = kk.missedTicks
  PROVE  SameSeen(r, kk, u)
<1>1. IsReady(r, u) <=> IsReady(kk, u)
  BY SameReady
<1>2. IsDelayed(r, u) <=> IsDelayed(kk, u)
  BY DEF SamePlace, IsDelayed
<1>3. QED
  BY <1>1, <1>2, ListsTell DEF SamePlace

\* An operation that leaves the counters alone and wakes no one.
LEMMA CalmRest ==
  ASSUME NEW r, NEW kk, Calm(r, kk), ToSet(r.pendingReady) = ToSet(kk.pendingReady)
  PROVE  SameRest(r, kk)
BY DEF Calm, SameRest, NowIn

\* The state of a task that is in a list.
LEMMA ListOfState ==
  ASSUME NEW kk, Sound(kk), NEW u \in AllTasks
  PROVE  /\ IsReady(kk, u) => StateIn(kk, u) = "ready" /\ LeftIn(kk, u) = 0
         /\ IsDelayed(kk, u) <=> StateIn(kk, u) = "delayed"
         /\ u \in kk.suspended => StateIn(kk, u) = "suspended" /\ LeftIn(kk, u) = 0
         /\ u \in ToSet(kk.waitingTermination) => StateIn(kk, u) = "deleted" /\ LeftIn(kk, u) = 0
<1>1. InPlace(kk, u)
  BY SoundTypes
<1>2. IsReady(kk, u) => ~ IsDelayed(kk, u)
  BY <1>1 DEF InPlace
<1>3. u \in kk.suspended => ~ IsReady(kk, u) /\ ~ IsDelayed(kk, u)
  BY <1>1 DEF InPlace
<1>4. u \in ToSet(kk.waitingTermination) =>
        ~ IsReady(kk, u) /\ ~ IsDelayed(kk, u) /\ u \notin kk.suspended
  BY <1>1 DEF InPlace
<1>5. QED
  BY <1>2, <1>3, <1>4 DEF StateIn, LeftIn

\* A switch is not seen.
LEMMA SwitchUnseen ==
  ASSUME NEW kk, Sound(kk), kk.schedulerSuspended = 0
  PROVE  Unseen(vTaskSwitchContext(kk), kk)
<1> DEFINE r == vTaskSwitchContext(kk)
<1>1. SwitchedTo(r, kk)
  BY Switches
<1> HIDE DEF r
<1>2. \A u \in AllTasks : SameSeen(r, kk, u)
  BY <1>1, ListsTell DEF SwitchedTo, IsDelayed
<1>3. SameRest(r, kk)
  BY <1>1 DEF SwitchedTo, SameRest, NowIn
<1>4. QED
  BY <1>2, <1>3 DEF Unseen, r

\* No step.
LEMMA UnseenSelf ==
  ASSUME NEW kk
  PROVE  Unseen(kk, kk)
BY DEF Unseen, SameRest, SameSeen

\* A switch or none.
LEMMA YieldIfUnseen ==
  ASSUME NEW kk, Sound(kk), kk.schedulerSuspended = 0, NEW c \in BOOLEAN
  PROVE  Unseen(YieldIf(c, kk), kk)
BY SwitchUnseen, UnseenSelf DEF YieldIf

-------------------------------------------------------------------------------
(* Steps of the promise *)

\* The time left is never more than the longest delay.
LEMMA LeftTypes ==
  ASSUME NEW kk, Sound(kk), TimesSound(kk), NEW u \in AllTasks
  PROVE  LeftIn(kk, u) \in Int /\ LeftIn(kk, u) <= portMAX_DELAY
<1>1. kk.missedTicks \in Nat /\ portMAX_DELAY \in Nat
  BY SoundTypes, KernelAssumption DEF portMAX_DELAY
<1>2. CASE IsDelayed(kk, u)
  <2>1. TicksLeft(kk, u) \in 1 .. portMAX_DELAY
    BY <1>2, LeftIs
  <2>2. LeftIn(kk, u) = TicksLeft(kk, u) - kk.missedTicks
    BY <1>2 DEF LeftIn
  <2>3. QED
    BY <1>1, <2>1, <2>2
<1>3. CASE ~ IsDelayed(kk, u)
  BY <1>1, <1>3 DEF LeftIn
<1>4. QED
  BY <1>2, <1>3

\* What the variables of the promise stand for.
PromiseVars ==
  <<[t \in AllTasks |-> StateOf(t)],
    [t \in AllTasks |-> IF IsDelayed(k, t) THEN TicksLeft(k, t) - k.missedTicks ELSE 0],
    ToSet(k.pendingReady), k.schedulerSuspended > 0, (k.tick + k.missedTicks) % TICK_MOD>>

\* Such a step stutters in the promise.
LEMMA UnseenStep ==
  ASSUME Sound(k), Sound(k'), Unseen(k', k)
  PROVE  UNCHANGED PromiseVars
<1>1. [t \in AllTasks |-> StateOf(t)]' = [t \in AllTasks |-> StateOf(t)]
  BY StatesAre DEF Unseen, SameSeen
<1>2. [t \in AllTasks |-> IF IsDelayed(k, t) THEN TicksLeft(k, t) - k.missedTicks ELSE 0]'
        = [t \in AllTasks |-> IF IsDelayed(k, t) THEN TicksLeft(k, t) - k.missedTicks ELSE 0]
  BY DEF Unseen, SameSeen, LeftIn
<1>3. /\ ToSet(k.pendingReady)' = ToSet(k.pendingReady)
      /\ (k.schedulerSuspended > 0)' = (k.schedulerSuspended > 0)
      /\ ((k.tick + k.missedTicks) % TICK_MOD)' = (k.tick + k.missedTicks) % TICK_MOD
  BY DEF Unseen, SameRest, NowIn
<1>4. QED
  BY <1>1, <1>2, <1>3 DEF PromiseVars

\* A step that brings task t to state s is an Enter of the promise.
LEMMA EnterStep ==
  ASSUME Sound(k), Sound(k'), NEW t \in AllTasks, NEW s, Enters(k', k, t, s)
  PROVE  Promise!Enter(t, s)
<1> DEFINE state == [u \in AllTasks |-> StateOf(u)]
           left == [u \in AllTasks |-> IF IsDelayed(k, u) THEN TicksLeft(k, u) - k.missedTicks ELSE 0]
<1>1. state' = [state EXCEPT ![t] = s]
  <2>1. state' = [u \in AllTasks |-> StateIn(k', u)] /\ state = [u \in AllTasks |-> StateIn(k, u)]
    BY StatesAre
  <2>2. \A u \in AllTasks : StateIn(k', u) = IF u = t THEN s ELSE StateIn(k, u)
    BY DEF Enters, SameSeen
  <2> HIDE DEF state
  <2>3. [state EXCEPT ![t] = s] = [u \in AllTasks |-> IF u = t THEN s ELSE StateIn(k, u)]
    BY <2>1
  <2>4. QED
    BY <2>1, <2>2, <2>3
<1>2. left' = [left EXCEPT ![t] = 0]
  <2>1. left' = [u \in AllTasks |-> LeftIn(k', u)] /\ left = [u \in AllTasks |-> LeftIn(k, u)]
    BY DEF LeftIn
  <2>2. QED
    BY <2>1 DEF Enters, SameSeen
<1>3. /\ ToSet(k.pendingReady)' = ToSet(k.pendingReady)
      /\ (k.schedulerSuspended > 0)' = (k.schedulerSuspended > 0)
      /\ ((k.tick + k.missedTicks) % TICK_MOD)' = (k.tick + k.missedTicks) % TICK_MOD
  BY DEF Enters, SameRest, NowIn
<1>4. QED
  BY <1>1, <1>2, <1>3 DEF Promise!Enter

\* The state and the time left of each task that the promise speaks of.
LEMMA PromiseIs ==
  ASSUME Sound(k), Sound(k')
  PROVE  /\ [t \in AllTasks |-> StateOf(t)] = [t \in AllTasks |-> StateIn(k, t)]
         /\ [t \in AllTasks |-> StateOf(t)]' = [t \in AllTasks |-> StateIn(k', t)]
         /\ [t \in AllTasks |-> IF IsDelayed(k, t) THEN TicksLeft(k, t) - k.missedTicks ELSE 0]
              = [t \in AllTasks |-> LeftIn(k, t)]
         /\ [t \in AllTasks |-> IF IsDelayed(k, t) THEN TicksLeft(k, t) - k.missedTicks ELSE 0]'
              = [t \in AllTasks |-> LeftIn(k', t)]
<1>1. \A t \in AllTasks : StateOf(t) = StateIn(k, t) /\ StateOf(t)' = StateIn(k', t)
  BY StatesAre
<1>2. [t \in AllTasks |-> StateOf(t)] = [t \in AllTasks |-> StateIn(k, t)]
  BY <1>1
<1>3. [t \in AllTasks |-> StateOf(t)]' = [t \in AllTasks |-> StateIn(k', t)]
  BY <1>1
<1>4. QED
  BY <1>2, <1>3 DEF LeftIn

\* vTaskSuspendAll is Hold.
LEMMA PromiseHold ==
  ASSUME SInv, SInv', k.schedulerSuspended = 0, k' = vTaskSuspendAll(k)
  PROVE  Promise!Hold
<1> DEFINE state == [u \in AllTasks |-> StateOf(u)]
           left == [u \in AllTasks |-> IF IsDelayed(k, u) THEN TicksLeft(k, u) - k.missedTicks ELSE 0]
<1>1. Sound(k) /\ TimesSound(k) /\ Sound(k')
  BY DEF SInv
<1>2. /\ SameLists(k', k) /\ k'.schedulerSuspended = 1 /\ k'.tick = k.tick
      /\ k'.wake = k.wake /\ k'.missedTicks = k.missedTicks
  BY <1>1, SuspendsAll
<1>3. ASSUME NEW u \in AllTasks PROVE SameSeen(k', k, u)
  <2>1. (IsReady(k', u) <=> IsReady(k, u)) /\ (IsDelayed(k', u) <=> IsDelayed(k, u))
    BY <1>2 DEF SameLists, IsReady, IsDelayed
  <2>2. QED
    BY <1>2, <2>1, ListsTell DEF SameLists
<1>4. state' = state /\ left' = left
  BY <1>1, <1>3, PromiseIs DEF SameSeen
<1>5. /\ ToSet(k.pendingReady)' = ToSet(k.pendingReady)
      /\ ~ (k.schedulerSuspended > 0) /\ (k.schedulerSuspended > 0)' = TRUE
      /\ ((k.tick + k.missedTicks) % TICK_MOD)' = (k.tick + k.missedTicks) % TICK_MOD
  BY <1>2 DEF SameLists
<1>6. QED
  BY <1>4, <1>5 DEF Promise!Hold

\* The current task joins a delayed list, within a suspension of the scheduler.
LEMMA PromiseDelay ==
  ASSUME SInv, SInv', k.schedulerSuspended = 1, IsReady(k, k.current), Parted(k', k),
         IsDelayed(k', k.current)
  PROVE  Promise!Delay(k.current)
<1> DEFINE state == [u \in AllTasks |-> StateOf(u)]
           left == [u \in AllTasks |-> IF IsDelayed(k, u) THEN TicksLeft(k, u) - k.missedTicks ELSE 0]
           t == k.current
<1>1. Sound(k) /\ TimesSound(k) /\ Sound(k') /\ TimesSound(k') /\ t \in AllTasks /\ k \in KernelState
  BY SoundTypes DEF SInv
<1>2. ASSUME NEW u \in AllTasks \ {t} PROVE SameSeen(k', k, u)
  BY <1>1, PlaceTells DEF Parted, Calm
<1>3. /\ StateIn(k, t) = "ready" /\ StateIn(k', t) = "delayed"
      /\ LeftIn(k', t) <= portMAX_DELAY
  BY <1>1, ListOfState, LeftTypes
<1>4. /\ state = [u \in AllTasks |-> StateIn(k, u)] /\ state' = [u \in AllTasks |-> StateIn(k', u)]
      /\ left = [u \in AllTasks |-> LeftIn(k, u)] /\ left' = [u \in AllTasks |-> LeftIn(k', u)]
  BY <1>1, PromiseIs
<1>5. state[t] = "ready" /\ state' = [state EXCEPT ![t] = "delayed"]
  <2> HIDE DEF state, t
  <2>1. QED
    BY <1>1, <1>2, <1>3, <1>4 DEF SameSeen
<1>6. left' = [left EXCEPT ![t] = left'[t]] /\ left'[t] <= portMAX_DELAY
  <2> HIDE DEF left, t
  <2>1. QED
    BY <1>1, <1>2, <1>3, <1>4 DEF SameSeen
<1>7. /\ ToSet(k.pendingReady)' = ToSet(k.pendingReady)
      /\ k.schedulerSuspended > 0
      /\ (k.schedulerSuspended > 0)' = (k.schedulerSuspended > 0)
      /\ ((k.tick + k.missedTicks) % TICK_MOD)' = (k.tick + k.missedTicks) % TICK_MOD
  BY DEF Parted, Calm
<1>8. QED
  BY <1>5, <1>6, <1>7 DEF Promise!Delay

\* A blocked task joins the pending list, as the scheduler is suspended.
LEMMA PromiseWake ==
  ASSUME SInv, SInv', NEW t \in AllTasks, k.schedulerSuspended # 0, PutOff(k', k, t),
         IsDelayed(k, t) \/ t \in k.suspended, ~ IsPending(k, t)
  PROVE  Promise!Wake(t)
<1> DEFINE state == [u \in AllTasks |-> StateOf(u)]
           left == [u \in AllTasks |-> IF IsDelayed(k, u) THEN TicksLeft(k, u) - k.missedTicks ELSE 0]
<1>1. Sound(k) /\ Sound(k') /\ k \in KernelState /\ k.schedulerSuspended \in Nat
  BY SoundTypes DEF SInv
<1>2. ASSUME NEW u \in AllTasks PROVE SameSeen(k', k, u)
  BY <1>1, PlaceTells DEF PutOff, Calm
<1>3. StateIn(k, t) \in {"delayed", "suspended"}
  BY <1>1, ListOfState
<1>4. state' = state /\ left' = left /\ state[t] \in {"delayed", "suspended"}
  BY <1>1, <1>2, <1>3, PromiseIs DEF SameSeen
<1>5. /\ ToSet(k.pendingReady)' = ToSet(k.pendingReady) \cup {t} /\ t \notin ToSet(k.pendingReady)
      /\ k.schedulerSuspended > 0
      /\ (k.schedulerSuspended > 0)' = (k.schedulerSuspended > 0)
      /\ ((k.tick + k.missedTicks) % TICK_MOD)' = (k.tick + k.missedTicks) % TICK_MOD
  BY <1>1 DEF PutOff, Calm, IsPending
<1>6. QED
  BY <1>4, <1>5 DEF Promise!Wake, Promise!Asleep

-------------------------------------------------------------------------------
(* Time that passes, and what was put off *)

\* What is to be ready after n ticks.
IsUp(kk, u, n) == IsPending(kk, u) \/ (IsDelayed(kk, u) /\ TicksLeft(kk, u) <= n)

Passed(r, kk, n) ==
  /\ r.pendingReady = <<>> /\ r.missedTicks = 0
  /\ r.suspended = kk.suspended \ ToSet(kk.pendingReady)
  /\ ToSet(r.waitingTermination) = ToSet(kk.waitingTermination)
  /\ \A u \in AllTasks :
       /\ IsReady(r, u) <=> IsReady(kk, u) \/ IsUp(kk, u, n)
       /\ IsDelayed(r, u) <=> IsDelayed(kk, u) /\ ~ IsUp(kk, u, n)
       /\ IsDelayed(r, u) => TicksLeft(r, u) = TicksLeft(kk, u) - n

\* The states of the tasks after some ticks.
LEMMA StatePassed ==
  ASSUME NEW kk, Sound(kk), TimesSound(kk), NEW r, Sound(r), TimesSound(r), NEW n,
         Passed(r, kk, n), NEW u \in AllTasks
  PROVE  /\ StateIn(r, u) = IF IsUp(kk, u, n) THEN "ready" ELSE StateIn(kk, u)
         /\ LeftIn(r, u) = IF IsDelayed(kk, u) /\ ~ IsUp(kk, u, n) THEN TicksLeft(kk, u) - n ELSE 0
<1>1. CASE IsUp(kk, u, n)
  <2>1. IsReady(r, u)
    BY <1>1 DEF Passed
  <2>2. StateIn(r, u) = "ready" /\ LeftIn(r, u) = 0
    BY <2>1, ListOfState
  <2>3. QED
    BY <1>1, <2>2
<1>2. CASE ~ IsUp(kk, u, n)
  <2>1. u \notin ToSet(kk.pendingReady)
    BY <1>2 DEF IsUp, IsPending
  <2>2. StateIn(r, u) = StateIn(kk, u)
    BY <1>2, <2>1 DEF Passed, StateIn
  <2>3. IsDelayed(r, u) => TicksLeft(r, u) - r.missedTicks = TicksLeft(kk, u) - n
    <3>1. IsDelayed(r, u) => TicksLeft(r, u) \in Int /\ r.missedTicks = 0
      <4>1. IsDelayed(r, u) => TicksLeft(r, u) \in 1 .. portMAX_DELAY
        BY LeftIs
      <4>2. QED
        BY <4>1 DEF Passed
    <3>2. IsDelayed(r, u) => TicksLeft(r, u) = TicksLeft(kk, u) - n
      BY DEF Passed
    <3>3. QED
      BY <3>1, <3>2
  <2>4. LeftIn(r, u) = IF IsDelayed(r, u) THEN TicksLeft(kk, u) - n ELSE 0
    BY <2>3 DEF LeftIn
  <2>5. IsDelayed(r, u) <=> IsDelayed(kk, u) /\ ~ IsUp(kk, u, n)
    BY DEF Passed
  <2>6. QED
    BY <1>2, <2>2, <2>4, <2>5
<1>3. QED
  BY <1>1, <1>2

\* What is ready in the promise is what is ready in the lists.
LEMMA PromiseSettles ==
  ASSUME SInv, SInv', NEW n \in Nat, NEW m \in Nat, Passed(k', k, n), n = k.missedTicks + m,
         k'.schedulerSuspended = 0,
         NEW after, after = [u \in AllTasks |-> IF IsDelayed(k, u) THEN LeftIn(k, u) - m ELSE 0]
  PROVE  Promise!Settle(after)
<1> DEFINE state == [u \in AllTasks |-> StateOf(u)]
           left == [u \in AllTasks |-> IF IsDelayed(k, u) THEN TicksLeft(k, u) - k.missedTicks ELSE 0]
           Up == {u \in AllTasks : state[u] = "delayed" /\ after[u] <= 0} \cup ToSet(k.pendingReady)
<1>1. Sound(k) /\ TimesSound(k) /\ Sound(k') /\ TimesSound(k')
  BY DEF SInv
<1>2. k.missedTicks \in Nat /\ k.pendingReady \in Seq(AllTasks)
  BY <1>1, SoundTypes, ListTypes
<1>3. /\ state = [u \in AllTasks |-> StateIn(k, u)] /\ state' = [u \in AllTasks |-> StateIn(k', u)]
      /\ left' = [u \in AllTasks |-> LeftIn(k', u)]
  BY <1>1, PromiseIs
<1>4. ASSUME NEW u \in AllTasks, IsDelayed(k, u) PROVE after[u] = TicksLeft(k, u) - n
  <2>1. TicksLeft(k, u) \in Int
    <3>1. TicksLeft(k, u) \in 1 .. portMAX_DELAY
      BY <1>1, <1>4, LeftIs
    <3>2. QED
      BY <3>1
  <2>2. after[u] = (TicksLeft(k, u) - k.missedTicks) - m
    BY <1>4 DEF LeftIn
  <2>3. QED
    BY <1>2, <2>1, <2>2
<1>5. ASSUME NEW u \in AllTasks PROVE u \in Up <=> IsUp(k, u, n)
  <2>1. state[u] = "delayed" <=> IsDelayed(k, u)
    BY <1>1, <1>3, ListOfState
  <2>2. IsDelayed(k, u) => TicksLeft(k, u) \in Int
    <3>1. IsDelayed(k, u) => TicksLeft(k, u) \in 1 .. portMAX_DELAY
      BY <1>1, LeftIs
    <3>2. QED
      BY <3>1
  <2>3. IsDelayed(k, u) => (after[u] <= 0 <=> TicksLeft(k, u) <= n)
    BY <1>4, <2>2
  <2> HIDE DEF state
  <2>4. QED
    BY <2>1, <2>3 DEF IsUp, IsPending
<1>6. state' = [u \in AllTasks |-> IF u \in Up THEN "ready" ELSE state[u]]
  <2>1. ASSUME NEW u \in AllTasks
        PROVE  StateIn(k', u) = IF u \in Up THEN "ready" ELSE StateIn(k, u)
    <3> HIDE DEF Up
    <3>1. QED
      BY <1>1, <1>5, StatePassed
  <2> HIDE DEF Up, state
  <2>2. QED
    BY <1>3, <2>1
<1>7. left' = [u \in AllTasks |-> IF u \in Up THEN 0 ELSE after[u]]
  <2>1. ASSUME NEW u \in AllTasks
        PROVE  LeftIn(k', u) = IF u \in Up THEN 0 ELSE after[u]
    <3>1. LeftIn(k', u) = IF IsDelayed(k, u) /\ ~ IsUp(k, u, n) THEN TicksLeft(k, u) - n ELSE 0
      BY <1>1, StatePassed
    <3>2. ~ IsDelayed(k, u) => after[u] = 0
      OBVIOUS
    <3> HIDE DEF Up
    <3>3. QED
      BY <1>4, <1>5, <3>1, <3>2
  <2> HIDE DEF Up, left
  <2>2. QED
    BY <1>3, <2>1
<1>8. ToSet(k.pendingReady)' = {}
  <2>1. k'.pendingReady = <<>>
    BY DEF Passed
  <2>2. QED
    BY <2>1, EmptySorted
<1>9. ~ (k.schedulerSuspended > 0)'
  BY SMT
<1>10. QED
  BY <1>6, <1>7, <1>8, <1>9 DEF Promise!Settle

\* The time promised, before and after.
LEMMA NowWhenSettled ==
  ASSUME NEW kk, Sound(kk), kk.missedTicks = 0
  PROVE  NowIn(kk) = kk.tick
<1>1. kk.tick \in Ticks /\ kk.tick \in Int
  BY SoundTypes, KernelAssumption DEF Ticks
<1>2. kk.tick % TICK_MOD = kk.tick
  BY <1>1, TicksWrap
<1>3. kk.tick + kk.missedTicks = kk.tick
  BY <1>1
<1>4. QED
  BY <1>2, <1>3 DEF NowIn

\* xTaskResumeAll is Release: it moves the pending tasks, and makes up for the ticks.
LEMMA PromiseRelease ==
  ASSUME SInv, SInv', k.schedulerSuspended = 1, k' = xTaskResumeAll(k)
  PROVE  Promise!Release
<1> DEFINE left == [u \in AllTasks |-> IF IsDelayed(k, u) THEN TicksLeft(k, u) - k.missedTicks ELSE 0]
<1>1. Sound(k) /\ TimesSound(k) /\ Sound(k')
  BY DEF SInv
<1>2. Resumed(k', k) /\ CaughtUp(k', k)
  BY <1>1, ResumesAll
<1>3. k.missedTicks \in Nat /\ k'.missedTicks = 0 /\ k'.schedulerSuspended = 0
  BY <1>1, <1>2, SoundTypes DEF Resumed
<1>4. Passed(k', k, k.missedTicks)
  BY <1>2 DEF Resumed, CaughtUp, Passed, IsUp
<1>5. left = [u \in AllTasks |-> IF IsDelayed(k, u) THEN LeftIn(k, u) - 0 ELSE 0]
  <2>1. \A u \in AllTasks : LeftIn(k, u) - 0 = LeftIn(k, u)
    BY <1>1, LeftTypes
  <2>2. \A u \in AllTasks : IsDelayed(k, u) => LeftIn(k, u) = TicksLeft(k, u) - k.missedTicks
    BY DEF LeftIn
  <2>3. QED
    BY <2>1, <2>2
<1>6. k.missedTicks = k.missedTicks + 0
  BY <1>3
<1>7. Promise!Settle(left)
  <2> HIDE DEF left
  <2>1. QED
    BY <1>3, <1>4, <1>5, <1>6, PromiseSettles
<1>8. NowIn(k') = NowIn(k)
  BY <1>1, <1>2, <1>3, NowWhenSettled DEF CaughtUp, NowIn
<1>9. /\ k.schedulerSuspended > 0 /\ (k.schedulerSuspended > 0)' = FALSE
      /\ ((k.tick + k.missedTicks) % TICK_MOD)' = (k.tick + k.missedTicks) % TICK_MOD
  BY <1>3, <1>8 DEF NowIn
<1>10. QED
  BY <1>7, <1>9 DEF Promise!Release

\* It is a Tick of the promise, which puts off what is up.
LEMMA PromiseHeldTick ==
  ASSUME SInv, SInv', k.schedulerSuspended # 0,
         k' = vTaskSwitchContext(vTaskIncrementTick(k))
  PROVE  Promise!Tick
<1> DEFINE state == [u \in AllTasks |-> StateOf(u)]
           left == [u \in AllTasks |-> IF IsDelayed(k, u) THEN TicksLeft(k, u) - k.missedTicks ELSE 0]
           after == [u \in AllTasks |-> IF state[u] = "delayed" THEN left[u] - 1 ELSE 0]
<1>1. Sound(k) /\ TimesSound(k) /\ Sound(k') /\ k \in KernelState /\ k.tick \in Nat
      /\ k.missedTicks \in Nat /\ k.schedulerSuspended \in Nat
  BY SoundTypes, FieldTypes DEF SInv
<1>2. /\ SameLists(k', k) /\ k'.schedulerSuspended = k.schedulerSuspended /\ k'.tick = k.tick
      /\ k'.wake = k.wake /\ k'.missedTicks = k.missedTicks + 1
  BY <1>1, HeldTick
<1>3. /\ state = [u \in AllTasks |-> StateIn(k, u)] /\ state' = [u \in AllTasks |-> StateIn(k', u)]
      /\ left = [u \in AllTasks |-> LeftIn(k, u)] /\ left' = [u \in AllTasks |-> LeftIn(k', u)]
  BY <1>1, PromiseIs
<1>4. ASSUME NEW u \in AllTasks PROVE StateIn(k', u) = StateIn(k, u)
  BY <1>2 DEF SameLists, StateIn, IsReady, IsDelayed
<1>5. ASSUME NEW u \in AllTasks
      PROVE  LeftIn(k', u) = IF StateIn(k, u) = "delayed" THEN LeftIn(k, u) - 1 ELSE 0
  <2>1. IsDelayed(k, u) <=> StateIn(k, u) = "delayed"
    BY <1>1, ListOfState
  <2>2. (IsDelayed(k', u) <=> IsDelayed(k, u)) /\ TicksLeft(k', u) = TicksLeft(k, u)
    BY <1>2 DEF SameLists, IsDelayed, TicksLeft
  <2>3. CASE IsDelayed(k, u)
    <3>1. TicksLeft(k, u) \in 1 .. portMAX_DELAY
      BY <1>1, <2>3, LeftIs
    <3>2. TicksLeft(k, u) - (k.missedTicks + 1) = (TicksLeft(k, u) - k.missedTicks) - 1
      BY <1>1, <3>1
    <3>3. QED
      BY <1>2, <2>1, <2>2, <2>3, <3>2 DEF LeftIn
  <2>4. CASE ~ IsDelayed(k, u)
    BY <2>1, <2>2, <2>4 DEF LeftIn
  <2>5. QED
    BY <2>3, <2>4
<1>6. state' = state /\ left' = after
  <2> HIDE DEF state, left
  <2>1. state' = state
    BY <1>3, <1>4
  <2>2. after = [u \in AllTasks |-> IF StateIn(k, u) = "delayed" THEN LeftIn(k, u) - 1 ELSE 0]
    BY <1>3
  <2> HIDE DEF after
  <2>3. left' = after
    BY <1>3, <1>5, <2>2
  <2>4. QED
    BY <2>1, <2>3
<1>7. (k'.tick + k'.missedTicks) % TICK_MOD
        = (((k.tick + k.missedTicks) % TICK_MOD) + 1) % (portMAX_DELAY + 1)
  <2>1. k.tick + k.missedTicks \in Nat /\ k'.tick + k'.missedTicks = (k.tick + k.missedTicks) + 1
    BY <1>1, <1>2
  <2>2. portMAX_DELAY + 1 = TICK_MOD
    BY KernelAssumption DEF portMAX_DELAY
  <2> HIDE DEF portMAX_DELAY
  <2>3. QED
    BY <2>1, <2>2, WrapsOnce
<1>8. /\ (k.schedulerSuspended > 0)' /\ (k.schedulerSuspended > 0)' = (k.schedulerSuspended > 0)
      /\ ToSet(k.pendingReady)' = ToSet(k.pendingReady)
  BY <1>1, <1>2 DEF SameLists
<1>9. QED
  BY <1>6, <1>7, <1>8 DEF Promise!Tick, Promise!Settle

\* A tick while the scheduler runs is a Tick that makes ready what is up.
LEMMA PromiseRunningTick ==
  ASSUME SInv, SInv', k.schedulerSuspended = 0,
         k' = vTaskSwitchContext(vTaskIncrementTick(k))
  PROVE  Promise!Tick
<1> DEFINE state == [u \in AllTasks |-> StateOf(u)]
           left == [u \in AllTasks |-> IF IsDelayed(k, u) THEN TicksLeft(k, u) - k.missedTicks ELSE 0]
           after == [u \in AllTasks |-> IF state[u] = "delayed" THEN left[u] - 1 ELSE 0]
           kk == vTaskIncrementTick(k)
<1>1. Sound(k) /\ TimesSound(k) /\ Sound(k') /\ k.pendingReady = <<>> /\ k.missedTicks = 0
      /\ k.pendingReady \in Seq(AllTasks)
  BY InOpen, SoundTypes, ListTypes DEF SInv
<1>2. Sound(kk) /\ Later(kk, k) /\ Elapsed(kk, k, 1)
  BY <1>1, IncrementsTick
<1> HIDE DEF kk
<1>3. kk.schedulerSuspended = 0 /\ kk.missedTicks = 0
  BY <1>1, <1>2 DEF Later
<1>4. SwitchedTo(k', kk)
  BY <1>2, <1>3, Switches DEF kk
<1>5. k'.schedulerSuspended = 0 /\ k'.missedTicks = 0 /\ k'.tick = (k.tick + 1) % TICK_MOD
  BY <1>2, <1>3, <1>4 DEF SwitchedTo, Elapsed
<1>6. Passed(k', k, 1)
  <2>1. ToSet(k.pendingReady) = {}
    BY <1>1, EmptySorted
  <2>2. k'.pendingReady = <<>>
    BY <1>5, InOpen DEF SInv, Control
  <2>3. ToSet(k'.waitingTermination) = ToSet(k.waitingTermination)
    BY <1>2, <1>4 DEF Later, SwitchedTo
  <2>4. k'.suspended = k.suspended \ ToSet(k.pendingReady)
    BY <1>2, <1>4, <2>1 DEF Elapsed, SwitchedTo
  <2>5. \A u \in AllTasks :
          /\ IsReady(k', u) <=> IsReady(kk, u)
          /\ IsDelayed(k', u) <=> IsDelayed(kk, u)
          /\ TicksLeft(k', u) = TicksLeft(kk, u)
    BY <1>4 DEF SwitchedTo, IsDelayed, TicksLeft
  <2>6. \A u \in AllTasks : IsUp(k, u, 1) <=> IsDelayed(k, u) /\ TicksLeft(k, u) <= 1
    BY <2>1 DEF IsUp, IsPending
  <2>7. \A u \in AllTasks : IsDelayed(k, u) => TicksLeft(k, u) \in Int
    <3>1. \A u \in AllTasks : IsDelayed(k, u) => TicksLeft(k, u) \in 1 .. portMAX_DELAY
      BY <1>1, LeftIs
    <3>2. QED
      BY <3>1
  <2>8. ASSUME NEW u \in AllTasks
        PROVE  /\ IsReady(k', u) <=> IsReady(k, u) \/ IsUp(k, u, 1)
               /\ IsDelayed(k', u) <=> IsDelayed(k, u) /\ ~ IsUp(k, u, 1)
               /\ IsDelayed(k', u) => TicksLeft(k', u) = TicksLeft(k, u) - 1
    BY <1>2, <2>5, <2>6, <2>7 DEF Elapsed
  <2>9. QED
    BY <1>5, <2>2, <2>3, <2>4, <2>8 DEF Passed
<1>7. after = [u \in AllTasks |-> IF IsDelayed(k, u) THEN LeftIn(k, u) - 1 ELSE 0]
  <2>1. state = [u \in AllTasks |-> StateIn(k, u)] /\ left = [u \in AllTasks |-> LeftIn(k, u)]
    BY <1>1, PromiseIs
  <2>2. \A u \in AllTasks : StateIn(k, u) = "delayed" <=> IsDelayed(k, u)
    BY <1>1, ListOfState
  <2> HIDE DEF state, left
  <2>3. QED
    BY <2>1, <2>2
<1>8. Promise!Settle(after)
  <2> HIDE DEF after
  <2>1. 1 = k.missedTicks + 1
    BY <1>1
  <2>2. QED
    BY <1>5, <1>6, <1>7, <2>1, PromiseSettles
<1>9. (k'.tick + k'.missedTicks) % TICK_MOD
        = (((k.tick + k.missedTicks) % TICK_MOD) + 1) % (portMAX_DELAY + 1)
  <2>1. NowIn(k) = k.tick /\ NowIn(k') = k'.tick
    BY <1>1, <1>5, NowWhenSettled
  <2>2. portMAX_DELAY + 1 = TICK_MOD
    BY KernelAssumption DEF portMAX_DELAY
  <2> HIDE DEF portMAX_DELAY
  <2>3. QED
    BY <1>5, <2>1, <2>2 DEF NowIn
<1>10. (k.schedulerSuspended > 0)' = (k.schedulerSuspended > 0)
  BY <1>5
<1>11. QED
  BY <1>8, <1>9, <1>10 DEF Promise!Tick

-------------------------------------------------------------------------------
(* Tasks that enter a state *)

ListsSame(r, kk, u) ==
  /\ IsReady(r, u) <=> IsReady(kk, u)
  /\ IsDelayed(r, u) <=> IsDelayed(kk, u)
  /\ u \in r.suspended <=> u \in kk.suspended
  /\ u \in ToSet(r.waitingTermination) <=> u \in ToSet(kk.waitingTermination)
  /\ r.wake[u] = kk.wake[u]

\* One task changes its lists, the others do not.
LEMMA EntersTells ==
  ASSUME NEW kk, NEW r, Sound(r), NEW t \in AllTasks, SameRest(r, kk),
         r.tick = kk.tick, r.missedTicks = kk.missedTicks,
         \A u \in AllTasks \ {t} : ListsSame(r, kk, u),
         NEW s, StateIn(r, t) = s /\ LeftIn(r, t) = 0
  PROVE  Enters(r, kk, t, s)
<1>1. \A u \in AllTasks \ {t} : SameSeen(r, kk, u)
  BY ListsTell DEF ListsSame
<1>2. QED
  BY <1>1 DEF Enters

\* A task whose items stay where they are keeps its lists.
LEMMA PlaceLists ==
  ASSUME NEW r, NEW kk \in KernelState, NEW u \in AllTasks, SamePlace(r, kk, u),
         r.wake[u] = kk.wake[u]
  PROVE  ListsSame(r, kk, u)
<1>1. IsReady(r, u) <=> IsReady(kk, u)
  BY SameReady
<1>2. IsDelayed(r, u) <=> IsDelayed(kk, u)
  BY DEF SamePlace, IsDelayed
<1>3. QED
  BY <1>1, <1>2 DEF ListsSame, SamePlace

\* The place of one task tells the state that it enters.
LEMMA EntersAlone ==
  ASSUME NEW kk, Sound(kk), NEW r, Sound(r), NEW t \in AllTasks, Calm(r, kk),
         ToSet(r.pendingReady) = ToSet(kk.pendingReady),
         \A u \in AllTasks \ {t} : SamePlace(r, kk, u) /\ r.wake[u] = kk.wake[u],
         NEW s, \/ s = "ready" /\ IsReady(r, t)
                \/ s = "suspended" /\ t \in r.suspended
                \/ s = "deleted" /\ t \in ToSet(r.waitingTermination)
  PROVE  Enters(r, kk, t, s)
<1>1. StateIn(r, t) = s /\ LeftIn(r, t) = 0
  BY ListOfState
<1>2. \A u \in AllTasks \ {t} : ListsSame(r, kk, u)
  BY SoundTypes, PlaceLists
<1>3. SameRest(r, kk) /\ r.tick = kk.tick /\ r.missedTicks = kk.missedTicks
  BY CalmRest DEF Calm
<1>4. QED
  BY <1>1, <1>2, <1>3, EntersTells

\* So does one task woken,
LEMMA WokenEnters ==
  ASSUME NEW kk, Sound(kk), NEW r, Sound(r), NEW t \in AllTasks, Woken(r, kk, {t}),
         t \notin ToSet(kk.pendingReady), t \notin ToSet(kk.waitingTermination)
  PROVE  Enters(r, kk, t, "ready")
<1>1. IsReady(r, t)
  BY DEF Woken
<1>2. StateIn(r, t) = "ready" /\ LeftIn(r, t) = 0
  BY <1>1, ListOfState
<1>3. \A u \in AllTasks \ {t} : ListsSame(r, kk, u)
  BY DEF Woken, ListsSame, IsDelayed
<1>4. ToSet(r.pendingReady) = ToSet(kk.pendingReady) /\ Calm(r, kk)
  BY DEF Woken
<1>5. SameRest(r, kk) /\ r.tick = kk.tick /\ r.missedTicks = kk.missedTicks
  BY <1>4, CalmRest DEF Calm
<1>6. QED
  BY <1>2, <1>3, <1>5, EntersTells

\* one task moved to its ready list,
LEMMA MovedEnters ==
  ASSUME NEW kk, Sound(kk), NEW r, Sound(r), NEW t \in AllTasks, Moved(r, kk, t),
         r.pendingReady = kk.pendingReady
  PROVE  Enters(r, kk, t, "ready")
<1>1. Once(kk) /\ kk \in KernelState
  BY SoundTypes
<1>2. \A u \in AllTasks \ {t} : SamePlace(r, kk, u) /\ r.wake[u] = kk.wake[u]
  BY <1>1, MovedKeepsOrder DEF Moved
<1>3. QED
  BY <1>2, EntersAlone DEF Moved

\* and one task created.
LEMMA CreatedEnters ==
  ASSUME NEW kk, Sound(kk), NEW r, Sound(r), NEW t \in AllTasks, NEW p, Created(r, kk, t, p)
  PROVE  Enters(r, kk, t, "ready")
<1>1. IsReady(r, t)
  BY DEF Created
<1>2. StateIn(r, t) = "ready" /\ LeftIn(r, t) = 0
  BY <1>1, ListOfState
<1>3. \A u \in AllTasks \ {t} : ListsSame(r, kk, u)
  BY DEF Created, ListsSame, IsDelayed
<1>4. SameRest(r, kk) /\ r.tick = kk.tick /\ r.missedTicks = kk.missedTicks
  BY DEF Created, SameRest, NowIn
<1>5. QED
  BY <1>2, <1>3, <1>4, EntersTells

\* The tasks that the API is given, and those that do not exist.
LEMMA AliveIsLive ==
  ASSUME Sound(k), NEW x \in AllTasks, Alive(x)
  PROVE  StateIn(k, x) \in {"ready", "delayed", "suspended"} /\ x \notin ToSet(k.waitingTermination)
<1>1. x \in Existing(k) /\ x \notin ToSet(k.waitingTermination)
  BY DEF Alive
<1>2. ~ NoPlace(k, x)
  BY <1>1, ExistsSomewhere
<1>3. InPlace(k, x)
  BY SoundTypes
<1>4. IsReady(k, x) \/ IsDelayed(k, x) \/ x \in k.suspended
  BY <1>1, <1>2, <1>3 DEF NoPlace, InPlace, IsReady, IsDelayed
<1>5. QED
  BY <1>1, <1>4 DEF StateIn

\* A task that does not exist has no state.
LEMMA AbsentIsNone ==
  ASSUME Sound(k), NEW x \in AllTasks, x \notin Existing(k)
  PROVE  StateIn(k, x) = "none"
<1>1. NoPlace(k, x) /\ k.priority[x] \in Priorities
  BY ExistsSomewhere, SoundTypes
<1>2. QED
  BY <1>1 DEF NoPlace, StateIn, IsReady, IsDelayed

\* What the promise calls these steps.
LEMMA PromiseEnters ==
  ASSUME SInv, SInv', NEW t \in AllTasks, NEW s, Enters(k', k, t, s)
  PROVE  /\ StateIn(k, t) \in {"ready", "delayed", "suspended"} =>
              /\ s = "suspended" => Promise!Suspend(t)
              /\ s = "deleted" => Promise!Delete(t)
         /\ StateIn(k, t) = "none" /\ s = "ready" => Promise!Create(t)
         /\ StateIn(k, t) = "deleted" /\ s = "none" => Promise!Reap(t)
         /\ (StateIn(k, t) \in {"delayed", "suspended"} /\ ~ IsPending(k, t)
               /\ k.schedulerSuspended = 0 /\ s = "ready") => Promise!MakeReady(t)
<1>1. Sound(k) /\ Sound(k')
  BY DEF SInv
<1>2. Promise!Enter(t, s)
  BY <1>1, EnterStep
<1>3. [u \in AllTasks |-> StateOf(u)][t] = StateIn(k, t)
  BY <1>1, StatesAre
<1>4. StateIn(k, t) \in {"ready", "delayed", "suspended"} => Promise!Live(t)
  BY <1>3 DEF Promise!Live
<1>5. /\ StateIn(k, t) = "none" /\ s = "ready" => Promise!Create(t)
      /\ StateIn(k, t) = "deleted" /\ s = "none" => Promise!Reap(t)
  BY <1>2, <1>3 DEF Promise!Create, Promise!Reap
<1>6. /\ Promise!Live(t) /\ s = "suspended" => Promise!Suspend(t)
      /\ Promise!Live(t) /\ s = "deleted" => Promise!Delete(t)
  BY <1>2 DEF Promise!Suspend, Promise!Delete
<1>7. StateIn(k, t) \in {"delayed", "suspended"} /\ ~ IsPending(k, t) => Promise!Asleep(t)
  BY <1>3 DEF Promise!Asleep, IsPending
<1>8. k.schedulerSuspended = 0 /\ Promise!Asleep(t) /\ s = "ready" => Promise!MakeReady(t)
  BY <1>2 DEF Promise!MakeReady
<1>9. QED
  BY <1>4, <1>5, <1>6, <1>7, <1>8

-------------------------------------------------------------------------------
(* Every step of the scheduler is one of the promise, or is not seen *)

Promised == Promise!Next \/ UNCHANGED PromiseVars

\* A step that is not seen is a stutter.
LEMMA UnseenPromised ==
  ASSUME SInv, SInv', Unseen(k', k)
  PROVE  Promised
<1>1. Sound(k) /\ Sound(k')
  BY DEF SInv
<1>2. QED
  BY <1>1, UnseenStep DEF Promised

\* The calls that begin with vTaskSuspendAll.
LEMMA HoldPromised ==
  ASSUME SInv, SInv', NEW t, At(t, "app"), k' = vTaskSuspendAll(k)
  PROVE  Promised
<1>1. k.schedulerSuspended = 0
  BY InApp
<1>2. Promise!Hold
  BY <1>1, PromiseHold
<1>3. QED
  BY <1>2 DEF Promised, Promise!Next

\* Those that end with xTaskResumeAll.
LEMMA ReleasePromised ==
  ASSUME SInv, SInv', NEW place \in Held, NEW t, At(t, place), k' = xTaskResumeAll(k)
  PROVE  Promised
<1>1. k.schedulerSuspended = 1
  BY InHeld
<1>2. Promise!Release
  BY <1>1, PromiseRelease
<1>3. QED
  BY <1>2 DEF Promised, Promise!Next

\* The tick interrupt.
LEMMA TickPromised ==
  ASSUME SInv, SInv', vTickISR
  PROVE  Promised
<1>1. k' = vTaskSwitchContext(vTaskIncrementTick(k))
  BY DEF vTickISR
<1>2. Promise!Tick
  BY <1>1, PromiseHeldTick, PromiseRunningTick
<1>3. QED
  BY <1>2 DEF Promised, Promise!Next

\* The current task begins to wait, for a while or for ever.
LEMMA PartPromised ==
  ASSUME SInv, SInv', NEW place \in {"delay", "delayUntil", "wait"}, NEW t, At(t, place),
         Parted(k', k), IsDelayed(k', t) \/ t \in k'.suspended
  PROVE  Promised
<1>1. t = k.current /\ t \in AllTasks /\ IsReady(k, t) /\ Sound(k) /\ Sound(k')
  BY AboutToBlock DEF SInv
<1>2. k.schedulerSuspended = 1
  BY InHeld DEF Held
<1>3. CASE IsDelayed(k', t)
  <2>1. Promise!Delay(t)
    BY <1>1, <1>2, <1>3, PromiseDelay
  <2>2. QED
    BY <1>1, <2>1 DEF Promised, Promise!Next
<1>4. CASE t \in k'.suspended
  <2>1. Enters(k', k, t, "suspended")
    <3>1. ASSUME NEW r, Sound(r), Parted(r, k), t \in r.suspended
          PROVE  Enters(r, k, t, "suspended")
      BY <1>1, <3>1, EntersAlone DEF Parted
    <3>2. QED
      BY <1>1, <1>4, <3>1
  <2>2. StateIn(k, t) = "ready"
    BY <1>1, ListOfState
  <2>3. Promise!Suspend(t)
    BY <1>1, <2>1, <2>2, PromiseEnters
  <2>4. QED
    BY <1>1, <2>3 DEF Promised, Promise!Next
<1>5. QED
  BY <1>3, <1>4

\* vTaskDelay.
LEMMA DelayBlockPromised ==
  ASSUME SInv, SInv', NEW t \in AllTasks, DelayBlock(t)
  PROVE  Promised
<1>1. At(t, "delay") /\ k' = BlockCurrentFor(k, argument[t])
  BY DEF DelayBlock
<1>2. /\ t = k.current /\ t # IdleTask /\ SoundBut(k, t) /\ TimesSound(k)
      /\ argument[t] \in 1 .. portMAX_DELAY
  BY <1>1, AboutToBlock
<1>3. Parted(k', k)
  BY <1>1, <1>2, BlocksFor
<1>4. IsDelayed(k', t)
  BY <1>1, <1>2, BlockedTicks
<1>5. QED
  BY <1>1, <1>3, <1>4, PartPromised

\* vTaskPlaceOnEventList, whose longest wait is a suspension.
LEMMA WaitBlockPromised ==
  ASSUME SInv, SInv', NEW t \in AllTasks, NEW e \in EventLists, WaitBlock(t, e)
  PROVE  Promised
<1>1. At(t, "wait") /\ k' = vTaskPlaceOnEventList(k, e, argument[t])
  BY DEF WaitBlock
<1>2. /\ t = k.current /\ t # IdleTask /\ IsReady(k, t) /\ Sound(k) /\ TimesSound(k)
      /\ argument[t] \in 1 .. portMAX_DELAY
  BY <1>1, AboutToBlock
<1>3. Parted(k', k)
  BY <1>1, <1>2, PlacesOnEventList
<1>4. IsDelayed(k', t) \/ t \in k'.suspended
  BY <1>1, <1>2, WaitsTicks
<1>5. QED
  BY <1>1, <1>3, <1>4, PartPromised

\* vTaskDelayUntil, which may find that the time has passed.
LEMMA DelayUntilBlockPromised ==
  ASSUME SInv, SInv', NEW t \in AllTasks, DelayUntilBlock(t)
  PROVE  Promised
<1> DEFINE wake == (previousWake[t] + argument[t]) % TICK_MOD
<1>1. /\ At(t, "delayUntil")
      /\ k' = IF ShouldDelay(k.tick, previousWake[t], wake)
              THEN prvAddCurrentTaskToDelayedList(RemoveGenericItem(k, t), wake) ELSE k
  BY DEF DelayUntilBlock
<1>2. /\ t = k.current /\ t # IdleTask /\ SoundBut(k, t) /\ Sound(k)
      /\ argument[t] \in 1 .. portMAX_DELAY
  BY <1>1, AboutToBlock
<1>3. wake \in Ticks
  <2>1. previousWake[t] \in Ticks
    BY DEF SInv, CallTypes
  <2>2. previousWake[t] + argument[t] \in Int /\ TICK_MOD \in Nat \ {0}
    BY <1>2, <2>1, KernelAssumption DEF Ticks, portMAX_DELAY
  <2>3. QED
    BY <2>2 DEF Ticks
<1> HIDE DEF wake
<1>4. CASE ShouldDelay(k.tick, previousWake[t], wake)
  <2>1. k' = prvAddCurrentTaskToDelayedList(RemoveGenericItem(k, t), wake)
    BY <1>1, <1>4
  <2>2. Parted(k', k) /\ IsDelayed(k', t)
    BY <1>2, <1>3, <2>1, BlocksAlone, BlockedUntil
  <2>3. QED
    BY <1>1, <2>2, PartPromised
<1>5. CASE ~ ShouldDelay(k.tick, previousWake[t], wake)
  <2>1. Unseen(k', k)
    BY <1>1, <1>5, UnseenSelf
  <2>2. QED
    BY <2>1, UnseenPromised
<1>6. QED
  BY <1>4, <1>5

\* A task becomes ready, and the current one yields if it has to.
LEMMA ReadyPromised ==
  ASSUME SInv, SInv', NEW x \in AllTasks, k.schedulerSuspended = 0, ~ IsPending(k, x),
         IsDelayed(k, x) \/ x \in k.suspended,
         NEW kk, Sound(kk), kk.schedulerSuspended = 0, Enters(kk, k, x, "ready"),
         NEW c \in BOOLEAN, k' = YieldIf(c, kk)
  PROVE  Promised
<1>1. Unseen(k', kk)
  BY YieldIfUnseen
<1>2. Enters(k', k, x, "ready")
  BY <1>1, EntersThenUnseen
<1>3. StateIn(k, x) \in {"delayed", "suspended"}
  BY ListOfState DEF SInv
<1>4. Promise!MakeReady(x)
  BY <1>2, <1>3, PromiseEnters
<1>5. QED
  BY <1>4 DEF Promised, Promise!Next

\* No task waits to be made ready while the scheduler runs.
LEMMA NonePending ==
  ASSUME SInv, k.schedulerSuspended = 0
  PROVE  \A u \in AllTasks : ~ IsPending(k, u)
<1>1. k.pendingReady = <<>>
  BY InOpen
<1>2. ToSet(k.pendingReady) = {}
  BY <1>1, EmptySorted
<1>3. QED
  BY <1>2 DEF IsPending

\* xTaskRemoveFromEventList with the scheduler running.
LEMMA UnblockEnters ==
  ASSUME SInv, k.schedulerSuspended = 0, NEW e \in EventLists, k.event[e] # <<>>
  PROVE  LET r == xTaskRemoveFromEventList(k, e)
             h == Head(k.event[e])
         IN  /\ Sound(r) /\ r.schedulerSuspended = 0 /\ Enters(r, k, h, "ready")
             /\ h \in AllTasks /\ ~ IsPending(k, h) /\ (IsDelayed(k, h) \/ h \in k.suspended)
<1> DEFINE r == xTaskRemoveFromEventList(k, e)
           h == Head(k.event[e])
<1>1. Sound(r) /\ Woken(r, k, {h})
  BY RemovesFromEventList DEF SInv
<1>2. /\ h \in AllTasks /\ h \notin ToSet(k.waitingTermination)
      /\ IsDelayed(k, h) \/ h \in k.suspended
  BY WaitingIsBlocked DEF SInv
<1> HIDE DEF r, h
<1>3. ~ IsPending(k, h) /\ h \notin ToSet(k.pendingReady)
  BY <1>2, NonePending DEF IsPending
<1>4. Enters(r, k, h, "ready")
  BY <1>1, <1>2, <1>3, WokenEnters DEF SInv
<1>5. r.schedulerSuspended = 0
  BY <1>1 DEF Woken, Calm
<1>6. QED
  BY <1>1, <1>2, <1>3, <1>4, <1>5 DEF r, h

\* A wake-up by a task.
LEMMA SignalPromised ==
  ASSUME SInv, SInv', NEW t \in AllTasks, NEW e \in EventLists, Signal(t, e)
  PROVE  Promised
<1>1. At(t, "app") /\ k.event[e] # <<>>
      /\ k' = YieldIf(UnblocksHigher(k, e), xTaskRemoveFromEventList(k, e))
  BY DEF Signal
<1>2. k.schedulerSuspended = 0
  BY <1>1, InApp
<1>3. UnblocksHigher(k, e) \in BOOLEAN
  BY DEF UnblocksHigher
<1>4. QED
  BY <1>1, <1>2, <1>3, UnblockEnters, ReadyPromised

\* A wake-up by a handler, which is put off if the scheduler is suspended.
LEMMA SignalFromISRPromised ==
  ASSUME SInv, SInv', NEW e \in EventLists, SignalFromISR(e)
  PROVE  Promised
<1>1. k.event[e] # <<>> /\ k' = xTaskRemoveFromEventList(k, e)
  BY DEF SignalFromISR
<1>2. CASE k.schedulerSuspended = 0
  <2>1. k' = YieldIf(FALSE, xTaskRemoveFromEventList(k, e))
    BY <1>1 DEF YieldIf
  <2>2. QED
    BY <1>1, <1>2, <2>1, UnblockEnters, ReadyPromised
<1>3. CASE k.schedulerSuspended # 0
  <2> DEFINE h == Head(k.event[e])
  <2>1. PutOff(k', k, h)
    BY <1>1, <1>3, RemovesFromEventList DEF SInv
  <2>2. h \in AllTasks /\ (IsDelayed(k, h) \/ h \in k.suspended)
    BY <1>1, WaitingIsBlocked DEF SInv
  <2>3. ~ IsPending(k, h)
    <3>1. k.event[e] \in Seq(AllTasks)
      BY ListTypes DEF SInv, Sound
    <3>2. h \in ToSet(k.event[e])
      BY <1>1, <3>1, InList
    <3>3. IsWaiting(k, h)
      BY <3>2 DEF IsWaiting
    <3>4. QED
      BY <2>2, <3>3 DEF SInv, Sound, InPlace
  <2> HIDE DEF h
  <2>4. Promise!Wake(h)
    BY <1>3, <2>1, <2>2, <2>3, PromiseWake
  <2>5. QED
    BY <2>2, <2>4 DEF Promised, Promise!Next
<1>4. QED
  BY <1>2, <1>3

\* The move of a suspended task to its ready list.
LEMMA ResumeEnters ==
  ASSUME SInv, k.schedulerSuspended = 0, NEW x \in Tasks, xTaskIsTaskSuspended(k, x)
  PROVE  LET r == MoveToReady(k, x)
         IN  /\ Sound(r) /\ r.schedulerSuspended = 0 /\ Enters(r, k, x, "ready")
             /\ x \in AllTasks /\ ~ IsPending(k, x) /\ (IsDelayed(k, x) \/ x \in k.suspended)
<1> DEFINE r == MoveToReady(k, x)
<1>1. x \in AllTasks \ {IdleTask}
  BY KernelAssumption DEF AllTasks
<1>2. Sound(r) /\ Moved(r, k, x) /\ r.pendingReady = k.pendingReady
  BY <1>1, ResumesTask DEF SInv
<1> HIDE DEF r
<1>3. Enters(r, k, x, "ready")
  BY <1>1, <1>2, MovedEnters DEF SInv
<1>4. r.schedulerSuspended = 0
  BY <1>2 DEF Moved, Calm
<1>5. QED
  BY <1>1, <1>2, <1>3, <1>4 DEF r, xTaskIsTaskSuspended

\* vTaskResume.
LEMMA ResumePromised ==
  ASSUME SInv, SInv', NEW t \in AllTasks, NEW x \in Tasks, vTaskResume(t, x)
  PROVE  Promised
<1> DEFINE c == k.priority[x] >= k.priority[t]
<1>1. At(t, "app") /\ xTaskIsTaskSuspended(k, x) /\ k' = YieldIf(c, MoveToReady(k, x))
  BY DEF vTaskResume
<1>2. k.schedulerSuspended = 0 /\ c \in BOOLEAN
  BY <1>1, InApp
<1> HIDE DEF c
<1>3. QED
  BY <1>1, <1>2, ResumeEnters, ReadyPromised

\* xTaskResumeFromISR, which is put off if the scheduler is suspended.
LEMMA ResumeFromISRPromised ==
  ASSUME SInv, SInv', NEW x \in Tasks, xTaskResumeFromISR(x)
  PROVE  Promised
<1>1. xTaskIsTaskSuspended(k, x)
  BY DEF xTaskResumeFromISR
<1>2. CASE k.schedulerSuspended = 0
  <2>1. k' = YieldIf(FALSE, MoveToReady(k, x))
    BY <1>2 DEF YieldIf, xTaskResumeFromISR
  <2>2. QED
    BY <1>1, <1>2, <2>1, ResumeEnters, ReadyPromised
<1>3. CASE k.schedulerSuspended # 0
  <2> DEFINE kk == [k EXCEPT !.pendingReady = vListInsertEnd(@, x)]
  <2>1. k' = kk
    BY <1>3 DEF xTaskResumeFromISR
  <2>2. NoEvent(k, x) /\ x \in k.suspended /\ ~ IsPending(k, x) /\ x \in AllTasks
    BY <1>1 DEF xTaskIsTaskSuspended, NoEvent, IsWaiting, IsPending, AllTasks
  <2>3. /\ Calm(kk, k) /\ kk.wake = k.wake
        /\ ToSet(kk.pendingReady) = ToSet(k.pendingReady) \cup {x}
        /\ kk.event = k.event
        /\ \A u \in AllTasks : SamePlace(kk, k, u)
    BY <2>2, AddsPending DEF SInv
  <2> HIDE DEF kk
  <2>4. PutOff(k', k, x)
    BY <2>1, <2>3 DEF PutOff, EventsFall
  <2>5. Promise!Wake(x)
    BY <1>3, <2>2, <2>4, PromiseWake
  <2>6. QED
    BY <2>2, <2>5 DEF Promised, Promise!Next
<1>4. QED
  BY <1>2, <1>3

\* vTaskSuspend and vTaskDelete.
LEMMA LeavePromised ==
  ASSUME SInv, SInv', NEW t \in AllTasks, NEW x \in Tasks, vTaskSuspend(t, x) \/ vTaskDelete(t, x)
  PROVE  Promised
<1>1. At(t, "app") /\ Alive(x)
  BY DEF vTaskSuspend, vTaskDelete
<1>2. x \in AllTasks \ {IdleTask} /\ Sound(k) /\ Sound(k') /\ k \in KernelState /\ Once(k)
  BY KernelAssumption, SoundTypes DEF AllTasks, SInv
<1>3. StateIn(k, x) \in {"ready", "delayed", "suspended"}
  BY <1>1, <1>2, AliveIsLive
<1>4. k.schedulerSuspended = 0
  BY <1>1, InApp
<1>5. ToSet(vListRemove(k.pendingReady, x)) = ToSet(k.pendingReady)
  <2>1. ToSet(vListRemove(k.pendingReady, x)) = ToSet(k.pendingReady) \ {x}
    BY <1>2, TakenOut
  <2>2. x \notin ToSet(k.pendingReady)
    BY <1>2, <1>4, NonePending DEF IsPending
  <2>3. QED
    BY <2>1, <2>2
<1>6. CASE vTaskSuspend(t, x)
  <2>1. k' = SuspendTask(k, x)
    BY <1>6 DEF vTaskSuspend
  <2>2. SuspendedTo(k', k, x) /\ k'.pendingReady = vListRemove(k.pendingReady, x)
    BY <1>2, <2>1, SuspendsTask
  <2>3. ASSUME NEW r, Sound(r), SuspendedTo(r, k, x),
               r.pendingReady = vListRemove(k.pendingReady, x)
        PROVE  Enters(r, k, x, "suspended")
    <3>1. \A u \in AllTasks \ {x} : SamePlace(r, k, u) /\ r.wake[u] = k.wake[u]
      BY <2>3 DEF SuspendedTo, KernelState
    <3>2. x \in r.suspended /\ Calm(r, k)
      BY <2>3 DEF SuspendedTo
    <3>3. QED
      BY <1>2, <1>5, <2>3, <3>1, <3>2, EntersAlone
  <2>4. Promise!Suspend(x)
    BY <1>2, <1>3, <2>2, <2>3, PromiseEnters
  <2>5. QED
    BY <1>2, <2>4 DEF Promised, Promise!Next
<1>7. CASE vTaskDelete(t, x)
  <2>1. k' = [RemoveEventItem(RemoveGenericItem(k, x), x) EXCEPT !.waitingTermination = vListInsertEnd(@, x)]
    BY <1>7 DEF vTaskDelete
  <2>2. DeletedTo(k', k, x)
    BY <1>2, <2>1, Deletes
  <2>3. ASSUME NEW r, Sound(r), DeletedTo(r, k, x)
        PROVE  Enters(r, k, x, "deleted")
    <3>1. \A u \in AllTasks \ {x} : SamePlace(r, k, u) /\ r.wake[u] = k.wake[u]
      BY <2>3 DEF DeletedTo, KernelState
    <3>2. /\ x \in ToSet(r.waitingTermination) /\ Calm(r, k)
          /\ r.pendingReady = vListRemove(k.pendingReady, x)
      BY <2>3 DEF DeletedTo
    <3>3. QED
      BY <1>2, <1>5, <2>3, <3>1, <3>2, EntersAlone
  <2>4. Promise!Delete(x)
    BY <1>2, <1>3, <2>2, <2>3, PromiseEnters
  <2>5. QED
    BY <1>2, <2>4 DEF Promised, Promise!Next
<1>8. QED
  BY <1>6, <1>7

\* xTaskGenericCreate.
LEMMA CreatePromised ==
  ASSUME SInv, SInv', NEW t \in AllTasks, NEW x \in Tasks, NEW p \in Priorities,
         xTaskGenericCreate(t, x, p)
  PROVE  Promised
<1>1. x \in AllTasks \ Existing(k) /\ k' = AddNewTask(k, x, p)
  BY DEF xTaskGenericCreate, AllTasks
<1>2. Created(k', k, x, p) /\ Sound(k) /\ Sound(k')
  BY <1>1, AddsNewTask DEF SInv
<1>3. StateIn(k, x) = "none"
  BY <1>1, <1>2, AbsentIsNone
<1>4. Enters(k', k, x, "ready")
  BY <1>1, <1>2, CreatedEnters
<1>5. Promise!Create(x)
  BY <1>1, <1>3, <1>4, PromiseEnters
<1>6. QED
  BY <1>1, <1>5 DEF Promised, Promise!Next

\* The idle task frees the first deleted task.
LEMMA ReapPromised ==
  ASSUME SInv, SInv', IdleReap
  PROVE  Promised
<1> DEFINE h == Head(k.waitingTermination)
           kk == [k EXCEPT !.waitingTermination = Tail(@)]
<1>1. k.current = IdleTask /\ pc[IdleTask] = "reap" /\ k' = kk
  BY DEF IdleReap, At
<1>2. k.waitingTermination # <<>> /\ Sound(k) /\ Sound(k') /\ TimesSound(k)
  BY <1>1, SoundTypes DEF SInv, Control
<1>3. h \in AllTasks /\ h \in ToSet(k.waitingTermination)
  <2>1. k.waitingTermination \in Seq(AllTasks)
    BY <1>2, SoundTypes, ListTypes
  <2>2. QED
    BY <1>2, <2>1, InList
<1>4. /\ Calm(kk, k) /\ kk.pendingReady = k.pendingReady
      /\ ToSet(kk.waitingTermination) = ToSet(k.waitingTermination) \ {h}
      /\ kk.delayed = k.delayed /\ kk.overflowDelayed = k.overflowDelayed
      /\ kk.suspended = k.suspended /\ kk.wake = k.wake
      /\ \A u \in AllTasks : IsReady(kk, u) <=> IsReady(k, u)
  BY <1>2, Reaps
<1> HIDE DEF kk, h
<1>5. ~ IsReady(k, h) /\ ~ IsDelayed(k, h) /\ h \notin k.suspended
  BY <1>2, <1>3, SoundTypes DEF InPlace
<1>6. StateIn(k, h) = "deleted"
  BY <1>2, <1>3, ListOfState
<1>7. StateIn(kk, h) = "none" /\ LeftIn(kk, h) = 0
  BY <1>3, <1>4, <1>5 DEF StateIn, LeftIn, IsDelayed
<1>8. \A u \in AllTasks \ {h} : ListsSame(kk, k, u)
  BY <1>4 DEF ListsSame, IsDelayed
<1>9. SameRest(kk, k) /\ kk.tick = k.tick /\ kk.missedTicks = k.missedTicks
  BY <1>4, CalmRest DEF Calm
<1>10. Sound(kk)
  BY <1>1, <1>2
<1>11. Enters(kk, k, h, "none")
  BY <1>3, <1>7, <1>8, <1>9, <1>10, EntersTells
<1>12. Promise!Reap(h)
  BY <1>1, <1>3, <1>6, <1>11, PromiseEnters
<1>13. QED
  BY <1>3, <1>12 DEF Promised, Promise!Next

\* Steps that only change who runs, or the order of a ready list.
LEMMA SwitchPromised ==
  ASSUME SInv, SInv', k.schedulerSuspended = 0, NEW c \in BOOLEAN, k' = YieldIf(c, k)
  PROVE  Promised
<1>1. Unseen(k', k)
  BY YieldIfUnseen DEF SInv
<1>2. QED
  BY <1>1, UnseenPromised

\* The yields.
LEMMA YieldPromised ==
  ASSUME SInv, SInv', (\E t \in AllTasks : Yield(t) \/ CreateYield(t)) \/ IdleYield
  PROVE  Promised
<1>1. k.schedulerSuspended = 0
  <2>1. pc[k.current] \in {"yield", "created", "app"}
    BY DEF Yield, CreateYield, IdleYield, At
  <2>2. QED
    BY <2>1 DEF SInv, Control, Held
<1>2. \E c \in BOOLEAN : k' = YieldIf(c, k)
  <2>1. ASSUME NEW t \in AllTasks, CreateYield(t) PROVE \E c \in BOOLEAN : k' = YieldIf(c, k)
    <3> DEFINE c == k.priority[t] < argument[t]
    <3>1. c \in BOOLEAN /\ k' = YieldIf(c, k)
      BY <2>1 DEF CreateYield
    <3> HIDE DEF c
    <3>2. QED
      BY <3>1
  <2>2. k' = vTaskSwitchContext(k) => k' = YieldIf(TRUE, k)
    BY DEF YieldIf
  <2>3. QED
    BY <2>1, <2>2 DEF Yield, IdleYield
<1>3. QED
  BY <1>1, <1>2, SwitchPromised

\* vTaskPrioritySet moves tasks between ready lists only.
LEMMA PriorityPromised ==
  ASSUME SInv, SInv', NEW t \in AllTasks, NEW x \in Tasks, NEW p \in Priorities,
         vTaskPrioritySet(t, x, p)
  PROVE  Promised
<1> DEFINE kk == WithPriority(x, p)
           c == IF p > k.basePriority[x] THEN x # t ELSE x = t
<1>1. At(t, "app") /\ k' = YieldIf(c, kk)
  BY DEF vTaskPrioritySet
<1>2. k.schedulerSuspended = 0
  BY <1>1, InApp
<1>3. Sound(kk) /\ Reprioritised(kk, k, x, p)
  BY SetsPriority
<1>4. c \in BOOLEAN
  OBVIOUS
<1> HIDE DEF kk, c
<1>5. Unseen(kk, k)
  <2>1. \A u \in AllTasks : SameSeen(kk, k, u)
    BY <1>3, ListsTell DEF Reprioritised
  <2>2. SameRest(kk, k)
    BY <1>3 DEF Reprioritised, SameRest, NowIn
  <2>3. QED
    BY <2>1, <2>2 DEF Unseen
<1>6. kk.schedulerSuspended = 0
  BY <1>2, <1>3 DEF Reprioritised
<1>7. Unseen(k', kk)
  BY <1>1, <1>3, <1>4, <1>6, YieldIfUnseen
<1>8. Unseen(k', k)
  BY <1>5, <1>7, UnseenTrans
<1>9. QED
  BY <1>8, UnseenPromised

\* vTaskList turns the ready lists only.
LEMMA WalkListsPromised ==
  ASSUME SInv, SInv', NEW t \in AllTasks, WalkLists(t)
  PROVE  Promised
<1> DEFINE kk == AfterTaskReport(k)
<1>1. k' = kk
  BY DEF WalkLists
<1>2. /\ Calm(kk, k) /\ kk.pendingReady = k.pendingReady
      /\ kk.waitingTermination = k.waitingTermination
      /\ kk.delayed = k.delayed /\ kk.overflowDelayed = k.overflowDelayed
      /\ kk.suspended = k.suspended /\ kk.wake = k.wake
      /\ \A u \in AllTasks : IsReady(kk, u) <=> IsReady(k, u)
  BY Reports DEF SInv
<1> HIDE DEF kk
<1>3. \A u \in AllTasks : SameSeen(kk, k, u)
  BY <1>2, ListsTell DEF Calm, IsDelayed
<1>4. SameRest(kk, k)
  BY <1>2, CalmRest
<1>5. QED
  BY <1>1, <1>3, <1>4, UnseenPromised DEF Unseen

\* vTaskDelay of no ticks only goes to its yield.
LEMMA DelayCallPromised ==
  ASSUME SInv, SInv', NEW t \in AllTasks, NEW n \in Delays, DelayCall(t, n)
  PROVE  Promised
<1>1. At(t, "app") /\ (k' = k \/ k' = vTaskSuspendAll(k))
  BY DEF DelayCall
<1>2. k' = k => Unseen(k', k)
  BY UnseenSelf
<1>3. QED
  BY <1>1, <1>2, UnseenPromised, HoldPromised

-------------------------------------------------------------------------------
\* Every step.
LEMMA StepPromised ==
  ASSUME SInv, SInv', [Next]_vars
  PROVE  Promised
<1>1. ASSUME NEW t \in AllTasks, Continue(t)
      PROVE  Promised
  <2>1. CASE ResumeAll(t) \/ Unlock(t)
    <3>1. PICK place \in {"resumeAll", "locked"} : At(t, place) /\ k' = xTaskResumeAll(k)
      BY <2>1 DEF ResumeAll, Unlock
    <3>2. QED
      BY <3>1, ReleasePromised DEF Held
  <2>2. CASE Yield(t) \/ CreateYield(t)
    BY <2>2, YieldPromised
  <2>3. CASE vTaskList(t) \/ vTaskGetRunTimeStats(t)
    BY <2>3, WalkListsPromised DEF vTaskList, vTaskGetRunTimeStats
  <2>4. CASE DelayBlock(t) \/ DelayUntilBlock(t) \/ \E e \in EventLists : WaitBlock(t, e)
    BY <2>4, DelayBlockPromised, DelayUntilBlockPromised, WaitBlockPromised
  <2>5. QED
    BY <1>1, <2>1, <2>2, <2>3, <2>4 DEF Continue
<1>2. ASSUME NEW t \in AllTasks, Call(t)
      PROVE  Promised
  <2>1. CASE Lock(t) \/ ListCall(t) \/ (\E n \in Delays : WaitCall(t, n))
               \/ \E n \in Delays, late \in Lateness : DelayUntilCall(t, n, late)
    <3>1. At(t, "app") /\ k' = vTaskSuspendAll(k)
      BY <2>1 DEF Lock, ListCall, WaitCall, DelayUntilCall
    <3>2. QED
      BY <3>1, HoldPromised
  <2>2. CASE \E n \in Delays : DelayCall(t, n)
    BY <2>2, DelayCallPromised
  <2>3. CASE \E e \in EventLists : Signal(t, e)
    BY <2>3, SignalPromised
  <2>4. CASE \E x \in Tasks : vTaskSuspend(t, x) \/ vTaskDelete(t, x)
    BY <2>4, LeavePromised
  <2>5. CASE \E x \in Tasks : vTaskResume(t, x)
    BY <2>5, ResumePromised
  <2>6. CASE \E x \in Tasks, p \in Priorities : vTaskPrioritySet(t, x, p)
    BY <2>6, PriorityPromised
  <2>7. CASE \E x \in Tasks, p \in Priorities : xTaskGenericCreate(t, x, p)
    BY <2>7, CreatePromised
  <2>8. QED
    BY <1>2, <2>1, <2>2, <2>3, <2>4, <2>5, <2>6, <2>7 DEF Call
<1>3. CASE IdleStep
  <2>1. CASE IdleLook
    BY <2>1, HoldPromised DEF IdleLook
  <2>2. CASE IdleUnlock
    BY <2>2, ReleasePromised DEF IdleUnlock, Held
  <2>3. QED
    BY <1>3, <2>1, <2>2, ReapPromised, YieldPromised DEF IdleStep
<1>4. CASE Interrupt
  BY <1>4, TickPromised, SignalFromISRPromised, ResumeFromISRPromised DEF Interrupt
<1>5. CASE UNCHANGED vars
  <2>1. k' = k
    BY <1>5 DEF vars
  <2>2. QED
    BY <2>1, UnseenSelf, UnseenPromised
<1>6. QED
  BY <1>1, <1>2, <1>3, <1>4, <1>5 DEF Next

\* After main, each task is ready or does not exist, and no tick has come.
LEMMA InitPromised ==
  ASSUME Init
  PROVE  Promise!TaskInit
<1> DEFINE state == [u \in AllTasks |-> StateOf(u)]
           left == [u \in AllTasks |-> IF IsDelayed(k, u) THEN TicksLeft(k, u) - k.missedTicks ELSE 0]
<1>1. Started(k)
  BY SchedulerAssumption, BootedSound DEF Init
<1>2. /\ Sound(k) /\ k.delayed = <<>> /\ k.overflowDelayed = <<>> /\ k.suspended = {}
      /\ k.waitingTermination = <<>> /\ k.pendingReady = <<>>
      /\ k.tick = 0 /\ k.missedTicks = 0 /\ k.schedulerSuspended = 0
  BY <1>1 DEF Started
<1>3. ToSet(<<>>) = {}
  BY EmptySorted
<1>4. \A u \in AllTasks : ~ IsDelayed(k, u)
  BY <1>2, <1>3 DEF IsDelayed
<1>5. ASSUME NEW u \in AllTasks PROVE StateOf(u) \in {"none", "ready"}
  <2>1. StateOf(u) = ListState(k, u)
    BY DEF StateOf, ListState
  <2>2. StateOf(u) = StateIn(k, u)
    BY <1>2, <2>1, ListStateIsState
  <2>3. StateIn(k, u) \in {"none", "ready"}
    BY <1>2, <1>3, <1>4 DEF StateIn
  <2>4. QED
    BY <2>2, <2>3
<1>6. state \in [AllTasks -> {"none", "ready"}] /\ left = [u \in AllTasks |-> 0]
  BY <1>4, <1>5
<1>7. ToSet(k.pendingReady) = {} /\ (k.schedulerSuspended > 0) = FALSE
  BY <1>2, <1>3
<1>8. (k.tick + k.missedTicks) % TICK_MOD = 0
  BY <1>2, NowWhenSettled DEF NowIn
<1>9. QED
  BY <1>6, <1>7, <1>8 DEF Promise!TaskInit

\* A refinement: however calls, ticks and handlers interleave, every task is in one
\* state, a delay lasts as long as it was asked for, whatever ticks come while the
\* scheduler is suspended, and who is woken meanwhile is ready when it is resumed.
THEOREM TasksKeepTheirPromise == Spec => ImplementsTaskStates
<1>1. Init => Promise!TaskInit
  BY InitPromised
<1>2. SInv /\ SInv' /\ [Next]_vars => [Promise!Next]_PromiseVars
  BY StepPromised DEF Promised
<1>3. [Promise!Next]_PromiseVars => [Promise!Next]_(Promise!vars)
  BY DEF PromiseVars, Promise!vars
<1>4. Init => SInv
  BY SInvInit
<1>5. SInv /\ [Next]_vars => SInv'
  BY SInvStep
<1>6. QED
  BY <1>1, <1>2, <1>3, <1>4, <1>5, PTL DEF Spec, ImplementsTaskStates, Promise!Spec

-------------------------------------------------------------------------------
(* Taking turns *)

\* Who is in front of a task that goes on waiting was in front of it before.
OrderKept(new, old) ==
  \A v \in ToSet(old) \cap ToSet(new) :
    \A u \in ToSet(new) \ {v} : Before(old, u, v) \/ Before(new, v, u)

\* The ready lists after a step: tasks have gone to the end, or one is taken out.
Queues(r, kk) ==
  \A p \in Priorities : \/ Grows(r.ready[p], kk.ready[p])
                        \/ \E t : r.ready[p] = vListRemove(kk.ready[p], t)

\* What RoundRobin says of one step.
InTurn(r, kk) ==
  \A p \in Priorities :
    LET old   == kk.ready[p]
        new   == r.ready[p]
        waits == (ToSet(old) \cap ToSet(new)) \ {r.current}
    IN  \A v \in waits :
          /\ \A u \in ToSet(new) \ {v} : Before(old, u, v) \/ Before(new, v, u)
          /\ r.current # kk.current /\ r.current \in ToSet(new) => Before(new, v, r.current)

\* A task that goes to the end overtakes nobody.
LEMMA GrowsKeepsOrder ==
  ASSUME NEW old \in Seq(AllTasks), NEW new \in Seq(AllTasks), Grows(new, old)
  PROVE  OrderKept(new, old)
<1> SUFFICES ASSUME NEW v \in ToSet(old) \cap ToSet(new), NEW u \in ToSet(new) \ {v}
             PROVE  Before(old, u, v) \/ Before(new, v, u)
  BY DEF OrderKept
<1>1. /\ DOMAIN old = 1 .. Len(old) /\ Len(old) \in Nat
      /\ DOMAIN new = 1 .. Len(new) /\ Len(new) \in Nat
  OBVIOUS
<1>2. PICK i \in 1 .. Len(old) : old[i] = v
  BY InList
<1>3. PICK j \in 1 .. Len(new) : new[j] = u
  BY InList
<1>4. i \in DOMAIN new /\ new[i] = v
  BY <1>1, <1>2 DEF Grows
<1>5. CASE j < i
  <2>1. j \in DOMAIN old /\ old[j] = u
    BY <1>1, <1>3, <1>5 DEF Grows
  <2>2. QED
    BY <1>1, <1>2, <1>5, <2>1 DEF Before
<1>6. CASE i < j
  BY <1>1, <1>3, <1>4, <1>6 DEF Before
<1>7. QED
  BY <1>1, <1>3, <1>4, <1>5, <1>6

\* Nor does anybody when a task is taken out.
LEMMA RemoveOvertakesNobody ==
  ASSUME NEW old \in Seq(AllTasks), IsInjective(old), NEW t
  PROVE  OrderKept(vListRemove(old, t), old)
<1> DEFINE new == vListRemove(old, t)
<1>1. new \in Seq(AllTasks) /\ \E i \in Nat : new = old \/ (i \in 1 .. Len(old) /\ IsWithout(new, old, i))
  BY ListRemove
<1> HIDE DEF new
<1>2. CASE new = old
  <2>1. Grows(new, old)
    BY <1>2 DEF Grows
  <2>2. QED
    BY <1>1, <2>1, GrowsKeepsOrder DEF new
<1>3. ASSUME NEW i \in 1 .. Len(old), IsWithout(new, old, i)
      PROVE  OrderKept(new, old)
  <2> SUFFICES ASSUME NEW v \in ToSet(old) \cap ToSet(new), NEW u \in ToSet(new) \ {v}
               PROVE  Before(old, u, v) \/ Before(new, v, u)
    BY DEF OrderKept
  <2>1. /\ DOMAIN old = 1 .. Len(old) /\ Len(old) \in Nat
        /\ DOMAIN new = 1 .. Len(new) /\ Len(new) \in Nat
    BY <1>1
  <2>2. PICK a \in 1 .. Len(new) : new[a] = v
    BY <1>1, InList
  <2>3. PICK b \in 1 .. Len(new) : new[b] = u
    BY <1>1, InList
  <2>4. CASE a < b
    BY <2>1, <2>2, <2>3, <2>4 DEF Before
  <2>5. CASE b < a
    <3> DEFINE A == IF a < i THEN a ELSE a + 1
               B == IF b < i THEN b ELSE b + 1
    <3>1. A \in 1 .. Len(old) /\ B \in 1 .. Len(old) /\ B < A /\ old[A] = v /\ old[B] = u
      BY <1>3, <2>1, <2>2, <2>3, <2>5 DEF IsWithout
    <3>2. QED
      BY <2>1, <3>1 DEF Before
  <2>6. QED
    BY <2>2, <2>3, <2>4, <2>5
<1>4. QED
  BY <1>1, <1>2, <1>3 DEF new

\* So the order of each ready list is kept.
LEMMA QueuesKeepOrder ==
  ASSUME NEW kk, Sound(kk), NEW r \in KernelState, Queues(r, kk), NEW p \in Priorities
  PROVE  OrderKept(r.ready[p], kk.ready[p])
<1>1. kk.ready[p] \in Seq(AllTasks) /\ r.ready[p] \in Seq(AllTasks) /\ IsInjective(kk.ready[p])
  BY ListTypes DEF Sound, Once
<1>2. CASE Grows(r.ready[p], kk.ready[p])
  BY <1>1, <1>2, GrowsKeepsOrder
<1>3. ASSUME NEW t, r.ready[p] = vListRemove(kk.ready[p], t)
      PROVE  OrderKept(r.ready[p], kk.ready[p])
  BY <1>1, <1>3, RemoveOvertakesNobody
<1>4. QED
  BY <1>2, <1>3 DEF Queues

\* A step that leaves the processor to who has it.
LEMMA StaysInTurn ==
  ASSUME NEW kk, Sound(kk), NEW r \in KernelState, Queues(r, kk), r.current = kk.current
  PROVE  InTurn(r, kk)
<1>1. \A p \in Priorities : OrderKept(r.ready[p], kk.ready[p])
  BY QueuesKeepOrder
<1>2. QED
  BY <1>1 DEF OrderKept, InTurn

\* The first of a list goes behind all the others, whose order stays.
LEMMA RotatedOrder ==
  ASSUME NEW s \in Seq(AllTasks), s # <<>>, NEW v \in ToSet(s) \ {Head(s)}
  PROVE  /\ Before(NextEntry(s), v, Head(s))
         /\ \A u \in ToSet(s) : Before(s, v, u) => u = Head(s) \/ Before(NextEntry(s), v, u)
<1> DEFINE r == NextEntry(s)
<1>1. /\ Len(s) \in Nat /\ Len(s) > 0 /\ Head(s) = s[1] /\ DOMAIN s = 1 .. Len(s)
      /\ Tail(s) \in Seq(AllTasks) /\ Len(Tail(s)) = Len(s) - 1 /\ Head(s) \in AllTasks
      /\ \A i \in 1 .. Len(s) - 1 : Tail(s)[i] = s[i + 1]
  BY InList
<1>2. /\ DOMAIN r = 1 .. Len(s) /\ r[Len(s)] = Head(s)
      /\ \A i \in 1 .. Len(s) - 1 : r[i] = s[i + 1]
  BY <1>1 DEF NextEntry
<1> HIDE DEF r
<1>3. PICK i \in 1 .. Len(s) : s[i] = v
  BY InList
<1>4. i > 1
  BY <1>1, <1>3
<1>5. r[i - 1] = v /\ i - 1 \in 1 .. Len(s) - 1
  BY <1>1, <1>2, <1>3, <1>4
<1>6. Before(r, v, Head(s))
  BY <1>1, <1>2, <1>5 DEF Before
<1>7. ASSUME NEW u \in ToSet(s), Before(s, v, u), u # Head(s)
      PROVE  Before(r, v, u)
  <2>1. PICK a \in 1 .. Len(s), b \in 1 .. Len(s) : a < b /\ s[a] = v /\ s[b] = u
    BY <1>1, <1>7 DEF Before
  <2>2. a > 1 /\ b > 1
    BY <1>1, <2>1
  <2>3. a - 1 \in 1 .. Len(s) - 1 /\ b - 1 \in 1 .. Len(s) - 1
    BY <1>1, <2>1, <2>2
  <2>4. r[a - 1] = v /\ r[b - 1] = u
    BY <1>2, <2>1, <2>3
  <2>5. a - 1 \in DOMAIN r /\ b - 1 \in DOMAIN r /\ a - 1 < b - 1
    BY <1>1, <1>2, <2>1, <2>3
  <2>6. QED
    BY <2>4, <2>5 DEF Before
<1>8. QED
  BY <1>6, <1>7 DEF r

\* A task takes its turn once others have queued up or one has left.
LEMMA SwitchesInTurn ==
  ASSUME NEW kk, Sound(kk), NEW m, Sound(m), Queues(m, kk), NEW r, Rotated(r, m)
  PROVE  InTurn(r, kk)
<1>1. PICK q \in Priorities :
        /\ m.ready[q] # <<>> /\ r.current = Head(m.ready[q])
        /\ \A p \in Priorities : r.ready[p] = IF p = q THEN NextEntry(m.ready[p]) ELSE m.ready[p]
  BY DEF Rotated
<1>2. /\ m \in KernelState /\ \A t \in AllTasks : InPlace(m, t)
      /\ \A p \in Priorities : m.ready[p] \in Seq(AllTasks)
  BY ListTypes DEF Sound
<1>3. r.current \in ToSet(m.ready[q]) /\ r.current \in AllTasks
  BY <1>1, <1>2, InList
<1>4. \A p \in Priorities : r.current \in ToSet(m.ready[p]) => p = q
  BY <1>2, <1>3 DEF InPlace
<1> SUFFICES ASSUME NEW p \in Priorities,
                    NEW v \in (ToSet(kk.ready[p]) \cap ToSet(r.ready[p])) \ {r.current}
             PROVE  /\ \A u \in ToSet(r.ready[p]) \ {v} :
                         Before(kk.ready[p], u, v) \/ Before(r.ready[p], v, u)
                    /\ r.current # kk.current /\ r.current \in ToSet(r.ready[p]) =>
                         Before(r.ready[p], v, r.current)
  BY DEF InTurn
<1>5. OrderKept(m.ready[p], kk.ready[p])
  BY <1>2, QueuesKeepOrder
<1>6. CASE p # q
  <2>1. r.ready[p] = m.ready[p]
    BY <1>1, <1>6
  <2>2. QED
    BY <1>4, <1>5, <1>6, <2>1 DEF OrderKept
<1>7. CASE p = q
  <2>1. /\ r.ready[p] = NextEntry(m.ready[p]) /\ m.ready[p] # <<>>
        /\ r.current = Head(m.ready[p])
    BY <1>1, <1>7
  <2>2. ToSet(r.ready[p]) = ToSet(m.ready[p])
    BY <1>2, <2>1, ListRotate
  <2>3. /\ Before(r.ready[p], v, r.current)
        /\ \A u \in ToSet(m.ready[p]) :
             Before(m.ready[p], v, u) => u = r.current \/ Before(r.ready[p], v, u)
    BY <1>2, <2>1, <2>2, RotatedOrder
  <2>4. \A u \in ToSet(m.ready[p]) \ {v} : Before(kk.ready[p], u, v) \/ Before(m.ready[p], v, u)
    BY <1>5, <2>2 DEF OrderKept
  <2>5. QED
    BY <2>2, <2>3, <2>4
<1>8. QED
  BY <1>6, <1>7

\* The same for vTaskSwitchContext.
LEMMA RotatesInTurn ==
  ASSUME NEW kk, Sound(kk), NEW m, Sound(m), Queues(m, kk), m.schedulerSuspended = 0
  PROVE  InTurn(vTaskSwitchContext(m), kk)
<1> DEFINE r == vTaskSwitchContext(m)
<1>1. Rotated(r, m)
  BY Switches
<1> HIDE DEF r
<1>2. InTurn(r, kk)
  BY <1>1, SwitchesInTurn
<1>3. QED
  BY <1>2 DEF r

\* Steps that leave the ready lists alone, and steps that only add to them.
LEMMA SameQueues ==
  ASSUME NEW kk, NEW r, r.ready = kk.ready
  PROVE  Queues(r, kk)
BY DEF Queues, Grows

LEMMA QueuedUpQueues ==
  ASSUME NEW kk, NEW r, QueuedUp(r, kk)
  PROVE  Queues(r, kk)
BY DEF Queues, QueuedUp

\* A call that may end in a switch.
LEMMA YieldIfInTurn ==
  ASSUME NEW kk, Sound(kk), NEW m, Sound(m), Queues(m, kk), m.schedulerSuspended = 0,
         m.current = kk.current, NEW c
  PROVE  InTurn(YieldIf(c, m), kk)
<1>1. CASE c
  BY <1>1, RotatesInTurn DEF YieldIf
<1>2. CASE ~ c
  <2>1. InTurn(m, kk)
    BY StaysInTurn DEF Sound
  <2>2. QED
    BY <1>2, <2>1 DEF YieldIf
<1>3. QED
  BY <1>1, <1>2

\* xTaskResumeAll: who was pending or due queues up, and then there may be a switch.
LEMMA ResumedInTurn ==
  ASSUME NEW kk, Sound(kk), TimesSound(kk), kk.schedulerSuspended = 1
  PROVE  InTurn(xTaskResumeAll(kk), kk)
<1> DEFINE r == xTaskResumeAll(kk)
<1>1. Sound(r) /\ TookTurn(r, kk)
  BY ResumesAll
<1> HIDE DEF r
<1>2. PICK m \in KernelState :
        /\ Sound(m) /\ QueuedUp(m, kk)
        /\ Rotated(r, m) \/ (r.ready = m.ready /\ r.current = kk.current)
  BY <1>1 DEF TookTurn
<1>3. Queues(m, kk)
  BY <1>2, QueuedUpQueues
<1>4. CASE Rotated(r, m)
  <2>1. InTurn(r, kk)
    BY <1>2, <1>3, <1>4, SwitchesInTurn
  <2>2. QED
    BY <2>1 DEF r
<1>5. CASE r.ready = m.ready /\ r.current = kk.current
  <2>1. Queues(r, kk)
    BY <1>3, <1>5 DEF Queues
  <2>2. InTurn(r, kk)
    BY <1>1, <1>5, <2>1, StaysInTurn DEF Sound
  <2>3. QED
    BY <2>2 DEF r
<1>6. QED
  BY <1>2, <1>4, <1>5

\* The current task leaves its ready list, and the others move up.
LEMMA BlocksReady ==
  ASSUME NEW kk, NEW w \in Ticks, SoundBut(kk, kk.current), kk.current # IdleTask
  PROVE  LET r == prvAddCurrentTaskToDelayedList(RemoveGenericItem(kk, kk.current), w)
         IN  r.current = kk.current /\ \A p \in Priorities : r.ready[p] = vListRemove(kk.ready[p], kk.current)
<1> DEFINE g == RemoveGenericItem(kk, kk.current)
           r == prvAddCurrentTaskToDelayedList(g, w)
<1>1. GenericGone(g, kk, kk.current) /\ DelayedTo(r, g, w)
  BY Blocks
<1> HIDE DEF g, r
<1>2. /\ r.ready = g.ready /\ r.current = g.current /\ g.current = kk.current
      /\ \A p \in Priorities : g.ready[p] = vListRemove(kk.ready[p], kk.current)
  BY <1>1 DEF GenericGone, DelayedTo, Calm
<1>3. QED
  BY <1>2 DEF g, r

\* vTaskDelay, and a timed wait.
LEMMA BlocksForReady ==
  ASSUME NEW kk, Sound(kk), NEW n \in 1 .. portMAX_DELAY, NEW ke, SoundBut(ke, kk.current),
         kk.current # IdleTask, ke.current = kk.current, ke.ready = kk.ready
  PROVE  LET r == BlockCurrentFor(ke, n) IN r.current = kk.current /\ Queues(r, kk)
<1> DEFINE w == (ke.tick + n) % TICK_MOD
           r == prvAddCurrentTaskToDelayedList(RemoveGenericItem(ke, ke.current), w)
<1>1. ke.tick \in Ticks
  BY FieldTypes DEF SoundBut
<1>2. w \in Ticks
  BY <1>1, WakeAhead
<1>3. BlockCurrentFor(ke, n) = r
  BY DEF BlockCurrentFor
<1> HIDE DEF w
<1>4. r.current = ke.current /\ \A p \in Priorities : r.ready[p] = vListRemove(ke.ready[p], ke.current)
  BY <1>2, BlocksReady
<1> HIDE DEF r
<1>5. Queues(r, kk)
  BY <1>4 DEF Queues
<1>6. QED
  BY <1>3, <1>4, <1>5

\* vTaskPlaceOnEventList, whose longest wait is a suspension.
LEMMA PlacesReady ==
  ASSUME NEW kk, Sound(kk), NEW e \in EventLists, NEW n \in 1 .. portMAX_DELAY,
         IsReady(kk, kk.current), kk.current # IdleTask
  PROVE  LET r == vTaskPlaceOnEventList(kk, e, n) IN r.current = kk.current /\ Queues(r, kk)
<1> DEFINE t == kk.current
           ke == [kk EXCEPT !.event[e] = vListInsert(@, t, kk.eventValue)]
           g == RemoveGenericItem(ke, t)
           r == vTaskPlaceOnEventList(kk, e, n)
<1>1. SoundBut(ke, t) /\ Calm(ke, kk)
  BY PutsOnEventList
<1>2. ke.ready = kk.ready /\ kk \in KernelState
  BY DEF Sound, KernelState
<1>3. r = IF n = portMAX_DELAY THEN [g EXCEPT !.suspended = @ \cup {t}] ELSE BlockCurrentFor(ke, n)
  BY DEF vTaskPlaceOnEventList
<1> HIDE DEF ke, r
<1>4. ke.current = t /\ ke \in KernelState /\ Once(ke) /\ t \in AllTasks
  BY <1>1, <1>2, FieldTypes DEF Calm, SoundBut
<1>5. CASE n = portMAX_DELAY
  <2>1. g \in KernelState /\ GenericGone(g, ke, t)
    BY <1>4, RemovesGeneric
  <2> HIDE DEF g
  <2>2. r.ready = g.ready /\ r.current = g.current
    BY <1>3, <1>5, <2>1 DEF KernelState
  <2>3. r.current = t /\ \A p \in Priorities : r.ready[p] = vListRemove(kk.ready[p], t)
    BY <1>2, <1>4, <2>1, <2>2 DEF GenericGone, Calm
  <2>4. QED
    BY <2>3 DEF Queues, r
<1>6. CASE n # portMAX_DELAY
  <2>1. r = BlockCurrentFor(ke, n)
    BY <1>3, <1>6
  <2>2. r.current = t /\ Queues(r, kk)
    BY <1>1, <1>2, <1>4, <2>1, BlocksForReady
  <2>3. QED
    BY <2>2 DEF r
<1>7. QED
  BY <1>5, <1>6

\* The first of an event list queues up, now or when the scheduler is resumed.
LEMMA UnblocksQueues ==
  ASSUME NEW kk, Sound(kk), NEW e \in EventLists, kk.event[e] # <<>>
  PROVE  Queues(xTaskRemoveFromEventList(kk, e), kk)
<1> DEFINE t == Head(kk.event[e])
           kr == RemoveEventItem(kk, t)
           r == xTaskRemoveFromEventList(kk, e)
<1>1. t \in AllTasks /\ ~ IsReady(kk, t)
  BY WaitingIsBlocked
<1>2. CASE kk.schedulerSuspended = 0
  <2>1. r = WakeUp(kk, t)
    BY <1>2 DEF xTaskRemoveFromEventList, WakeUp
  <2> HIDE DEF t
  <2>2. QueuedUp(WakeUp(kk, t), kk)
    BY <1>1, WokenOne
  <2>3. QED
    BY <2>1, <2>2, QueuedUpQueues
<1>3. CASE kk.schedulerSuspended # 0
  <2>1. r = [kr EXCEPT !.pendingReady = vListInsertEnd(@, t)]
    BY <1>3 DEF xTaskRemoveFromEventList
  <2>2. kr \in KernelState /\ EventGone(kr, kk, t)
    <3> HIDE DEF t
    <3>1. QED
      BY <1>1, RemovesEvent DEF Sound
  <2> HIDE DEF kr, r, t
  <2>3. r.ready = kr.ready
    BY <2>1, <2>2 DEF KernelState
  <2>4. r.ready = kk.ready
    BY <2>2, <2>3 DEF EventGone
  <2>5. QED
    BY <2>4, SameQueues DEF r
<1>4. QED
  BY <1>2, <1>3

\* A task taken out of all its lists.
LEMMA GoneQueues ==
  ASSUME NEW kk, Sound(kk), NEW t \in AllTasks
  PROVE  LET g == RemoveEventItem(RemoveGenericItem(kk, t), t)
         IN  g \in KernelState /\ g.current = kk.current /\ Queues(g, kk)
<1> DEFINE gg == RemoveGenericItem(kk, t)
           g == RemoveEventItem(gg, t)
<1>1. gg \in KernelState /\ Once(gg) /\ GenericGone(gg, kk, t)
  BY RemovesGeneric DEF Sound
<1> HIDE DEF gg
<1>2. g \in KernelState /\ EventGone(g, gg, t)
  BY <1>1, RemovesEvent
<1> HIDE DEF g
<1>3. /\ g.current = kk.current
      /\ \A p \in Priorities : g.ready[p] = vListRemove(kk.ready[p], t)
  BY <1>1, <1>2 DEF GenericGone, EventGone, Calm
<1>4. QED
  BY <1>2, <1>3 DEF Queues, g, gg

\* The steps of the API, one by one: vTaskSuspendAll.
LEMMA SuspendsInTurn ==
  ASSUME SInv, k.schedulerSuspended = 0, k' = vTaskSuspendAll(k)
  PROVE  InTurn(k', k)
<1> DEFINE r == vTaskSuspendAll(k)
<1>1. Sound(r) /\ SameLists(r, k) /\ r.current = k.current
  BY SuspendsAll DEF SInv
<1> HIDE DEF r
<1>2. InTurn(r, k)
  BY <1>1, SameQueues, StaysInTurn DEF SInv, SameLists, Sound
<1>3. QED
  BY <1>2 DEF r

\* A step that changes nothing in the kernel.
LEMMA SameInTurn ==
  ASSUME SInv, k' = k
  PROVE  InTurn(k', k)
<1>1. InTurn(k, k)
  BY SameQueues, StaysInTurn DEF SInv, Sound
<1>2. QED
  BY <1>1

\* The steps that end with xTaskResumeAll.
LEMMA UnlocksInTurn ==
  ASSUME SInv, NEW place \in Held, NEW t, At(t, place), k' = xTaskResumeAll(k)
  PROVE  InTurn(k', k)
<1>1. k.schedulerSuspended = 1
  BY InHeld
<1>2. InTurn(xTaskResumeAll(k), k)
  BY <1>1, ResumedInTurn DEF SInv
<1>3. QED
  BY <1>2

\* The yields.
LEMMA YieldsInTurn ==
  ASSUME SInv, k.schedulerSuspended = 0, k' = vTaskSwitchContext(k)
  PROVE  InTurn(k', k)
<1>1. InTurn(vTaskSwitchContext(k), k)
  BY SameQueues, RotatesInTurn DEF SInv
<1>2. QED
  BY <1>1

\* vTaskDelay.
LEMMA DelayBlockInTurn ==
  ASSUME SInv, SInv', NEW t \in AllTasks, DelayBlock(t)
  PROVE  InTurn(k', k)
<1>1. At(t, "delay") /\ k' = BlockCurrentFor(k, argument[t])
  BY DEF DelayBlock
<1>2. /\ t = k.current /\ t # IdleTask
      /\ SoundBut(k, t) /\ Sound(k) /\ argument[t] \in 1 .. portMAX_DELAY
  BY <1>1, AboutToBlock
<1>3. ASSUME NEW n \in 1 .. portMAX_DELAY
      PROVE  LET r == BlockCurrentFor(k, n) IN r.current = k.current /\ Queues(r, k)
  BY <1>2, BlocksForReady
<1>4. k'.current = k.current /\ Queues(k', k) /\ k' \in KernelState
  BY <1>1, <1>2, <1>3 DEF SInv, Sound
<1>5. QED
  BY <1>2, <1>4, StaysInTurn

\* A wait on an event list.
LEMMA WaitBlockInTurn ==
  ASSUME SInv, SInv', NEW t \in AllTasks, NEW e \in EventLists, WaitBlock(t, e)
  PROVE  InTurn(k', k)
<1>1. At(t, "wait") /\ k' = vTaskPlaceOnEventList(k, e, argument[t])
  BY DEF WaitBlock
<1>2. /\ t = k.current /\ t # IdleTask /\ IsReady(k, t)
      /\ Sound(k) /\ argument[t] \in 1 .. portMAX_DELAY
  BY <1>1, AboutToBlock
<1>3. ASSUME NEW n \in 1 .. portMAX_DELAY
      PROVE  LET r == vTaskPlaceOnEventList(k, e, n) IN r.current = k.current /\ Queues(r, k)
  BY <1>2, PlacesReady
<1>4. k'.current = k.current /\ Queues(k', k) /\ k' \in KernelState
  BY <1>1, <1>2, <1>3 DEF SInv, Sound
<1>5. QED
  BY <1>2, <1>4, StaysInTurn

\* vTaskDelayUntil, which need not block.
LEMMA DelayUntilBlockInTurn ==
  ASSUME SInv, SInv', NEW t \in AllTasks, DelayUntilBlock(t)
  PROVE  InTurn(k', k)
<1> DEFINE wake == (previousWake[t] + argument[t]) % TICK_MOD
<1>1. /\ At(t, "delayUntil")
      /\ k' = IF ShouldDelay(k.tick, previousWake[t], wake)
              THEN prvAddCurrentTaskToDelayedList(RemoveGenericItem(k, t), wake) ELSE k
  BY DEF DelayUntilBlock
<1>2. /\ t = k.current /\ t # IdleTask
      /\ SoundBut(k, t) /\ Sound(k) /\ argument[t] \in 1 .. portMAX_DELAY
  BY <1>1, AboutToBlock
<1>3. wake \in Ticks
  <2>1. previousWake[t] + argument[t] \in Int /\ TICK_MOD \in Nat \ {0}
    BY <1>2, KernelAssumption DEF SInv, CallTypes, Ticks
  <2>2. QED
    BY <2>1 DEF Ticks
<1> HIDE DEF wake
<1>4. CASE k' = k
  BY <1>4, SameInTurn
<1>5. CASE k' = prvAddCurrentTaskToDelayedList(RemoveGenericItem(k, t), wake)
  <2> DEFINE r == prvAddCurrentTaskToDelayedList(RemoveGenericItem(k, k.current), wake)
  <2>1. r.current = k.current /\ \A p \in Priorities : r.ready[p] = vListRemove(k.ready[p], k.current)
    BY <1>2, <1>3, BlocksReady
  <2>2. r = k'
    BY <1>2, <1>5
  <2>3. r \in KernelState
    BY <2>2 DEF SInv, Sound
  <2> HIDE DEF r
  <2>4. Queues(r, k)
    BY <2>1 DEF Queues
  <2>5. InTurn(r, k)
    BY <1>2, <2>1, <2>3, <2>4, StaysInTurn
  <2>6. QED
    BY <2>2, <2>5
<1>6. QED
  BY <1>1, <1>4, <1>5

\* A wake-up by a task, and by a handler.
LEMMA SignalInTurn ==
  ASSUME SInv, NEW t \in AllTasks, NEW e \in EventLists, Signal(t, e)
  PROVE  InTurn(k', k)
<1> DEFINE kk == xTaskRemoveFromEventList(k, e)
           c == UnblocksHigher(k, e)
<1>1. At(t, "app") /\ k.event[e] # <<>> /\ k' = YieldIf(c, kk)
  BY DEF Signal
<1>2. Sound(kk) /\ Unblocked(kk, k, Head(k.event[e])) /\ Queues(kk, k)
  BY <1>1, RemovesFromEventList, UnblocksQueues DEF SInv
<1>3. k.schedulerSuspended = 0
  BY <1>1, InApp
<1> HIDE DEF kk, c
<1>4. kk.current = k.current /\ kk.schedulerSuspended = 0
  BY <1>2, <1>3 DEF Unblocked, Calm
<1>5. InTurn(YieldIf(c, kk), k)
  BY <1>2, <1>4, YieldIfInTurn DEF SInv
<1>6. QED
  BY <1>1, <1>5

LEMMA SignalFromISRInTurn ==
  ASSUME SInv, NEW e \in EventLists, SignalFromISR(e)
  PROVE  InTurn(k', k)
<1> DEFINE kk == xTaskRemoveFromEventList(k, e)
<1>1. k.event[e] # <<>> /\ k' = kk
  BY DEF SignalFromISR
<1>2. Sound(kk) /\ Unblocked(kk, k, Head(k.event[e])) /\ Queues(kk, k)
  BY <1>1, RemovesFromEventList, UnblocksQueues DEF SInv
<1> HIDE DEF kk
<1>3. InTurn(kk, k)
  BY <1>2, StaysInTurn DEF SInv, Sound, Unblocked, Calm
<1>4. QED
  BY <1>1, <1>3

\* A suspended task that is resumed queues up.
LEMMA ResumeQueues ==
  ASSUME SInv, NEW x \in Tasks, xTaskIsTaskSuspended(k, x)
  PROVE  LET r == MoveToReady(k, x) IN Sound(r) /\ Calm(r, k) /\ Queues(r, k)
<1> DEFINE r == MoveToReady(k, x)
<1>1. x \in AllTasks \ {IdleTask}
  BY KernelAssumption DEF AllTasks
<1>2. Sound(r) /\ Calm(r, k) /\ Moved(r, k, x)
  BY <1>1, ResumesTask DEF SInv
<1> HIDE DEF r
<1>3. ~ IsReady(k, x)
  BY <1>1, SoundTypes DEF SInv, InPlace, xTaskIsTaskSuspended
<1>4. Queues(r, k)
  BY <1>1, <1>2, <1>3, MovedQueuesUp, QueuedUpQueues DEF SInv
<1>5. QED
  BY <1>2, <1>4 DEF r

\* vTaskResume, and xTaskResumeFromISR.
LEMMA ResumeInTurn ==
  ASSUME SInv, NEW t \in AllTasks, NEW x \in Tasks, vTaskResume(t, x)
  PROVE  InTurn(k', k)
<1> DEFINE kk == MoveToReady(k, x)
           c == k.priority[x] >= k.priority[t]
<1>1. At(t, "app") /\ xTaskIsTaskSuspended(k, x) /\ k' = YieldIf(c, kk)
  BY DEF vTaskResume
<1>2. k.schedulerSuspended = 0
  BY <1>1, InApp
<1>3. Sound(kk) /\ Calm(kk, k) /\ Queues(kk, k)
  BY <1>1, ResumeQueues
<1> HIDE DEF kk, c
<1>4. InTurn(YieldIf(c, kk), k)
  BY <1>2, <1>3, YieldIfInTurn DEF SInv, Calm
<1>5. QED
  BY <1>1, <1>4

LEMMA ResumeFromISRInTurn ==
  ASSUME SInv, NEW x \in Tasks, xTaskResumeFromISR(x)
  PROVE  InTurn(k', k)
<1>1. xTaskIsTaskSuspended(k, x)
  BY DEF xTaskResumeFromISR
<1>2. CASE k.schedulerSuspended = 0
  <2> DEFINE kk == MoveToReady(k, x)
  <2>1. k' = kk
    BY <1>2 DEF xTaskResumeFromISR
  <2>2. Sound(kk) /\ Calm(kk, k) /\ Queues(kk, k)
    BY <1>1, ResumeQueues
  <2> HIDE DEF kk
  <2>3. InTurn(kk, k)
    BY <2>2, StaysInTurn DEF SInv, Sound, Calm
  <2>4. QED
    BY <2>1, <2>3
<1>3. CASE k.schedulerSuspended # 0
  <2> DEFINE kk == [k EXCEPT !.pendingReady = vListInsertEnd(@, x)]
  <2>1. k' = kk
    BY <1>3 DEF xTaskResumeFromISR
  <2>2. k \in KernelState /\ x \in AllTasks
    BY DEF SInv, Sound, AllTasks
  <2>3. vListInsertEnd(k.pendingReady, x) \in Seq(AllTasks)
    BY <2>2, ListTypes, ListInsertEnd
  <2>4. kk \in KernelState /\ kk.ready = k.ready /\ kk.current = k.current
    BY <2>2, <2>3 DEF KernelState
  <2> HIDE DEF kk
  <2>5. InTurn(kk, k)
    BY <2>4, SameQueues, StaysInTurn DEF SInv
  <2>6. QED
    BY <2>1, <2>5
<1>4. QED
  BY <1>2, <1>3

\* vTaskSuspend and vTaskDelete take a task out of its list.
LEMMA LeaveInTurn ==
  ASSUME SInv, SInv', NEW x \in Tasks, NEW r,
         r.ready = RemoveEventItem(RemoveGenericItem(k, x), x).ready,
         r.current = RemoveEventItem(RemoveGenericItem(k, x), x).current, k' = r
  PROVE  InTurn(k', k)
<1> DEFINE g == RemoveEventItem(RemoveGenericItem(k, x), x)
<1>1. g.current = k.current /\ Queues(g, k)
  BY GoneQueues DEF SInv, AllTasks
<1>2. r.ready = g.ready /\ r.current = g.current
  OBVIOUS
<1>3. r \in KernelState
  BY DEF SInv, Sound
<1> HIDE DEF g
<1>4. Queues(r, k) /\ r.current = k.current
  BY <1>1, <1>2 DEF Queues
<1>5. InTurn(r, k)
  BY <1>3, <1>4, StaysInTurn DEF SInv
<1>6. QED
  BY <1>5

LEMMA SuspendInTurn ==
  ASSUME SInv, SInv', NEW t \in AllTasks, NEW x \in Tasks, vTaskSuspend(t, x)
  PROVE  InTurn(k', k)
<1> DEFINE g == RemoveEventItem(RemoveGenericItem(k, x), x)
           r == [g EXCEPT !.suspended = @ \cup {x}]
<1>1. k' = r
  BY DEF vTaskSuspend, SuspendTask
<1>2. g \in KernelState
  BY GoneQueues DEF SInv, AllTasks
<1>3. r.ready = g.ready /\ r.current = g.current
  <2> HIDE DEF g
  <2>1. QED
    BY <1>2 DEF KernelState
<1> HIDE DEF r
<1>4. QED
  BY <1>1, <1>3, LeaveInTurn

LEMMA DeleteInTurn ==
  ASSUME SInv, SInv', NEW t \in AllTasks, NEW x \in Tasks, vTaskDelete(t, x)
  PROVE  InTurn(k', k)
<1> DEFINE g == RemoveEventItem(RemoveGenericItem(k, x), x)
           r == [g EXCEPT !.waitingTermination = vListInsertEnd(@, x)]
<1>1. k' = r
  BY DEF vTaskDelete
<1>2. g \in KernelState
  BY GoneQueues DEF SInv, AllTasks
<1>3. r.ready = g.ready /\ r.current = g.current
  <2> HIDE DEF g
  <2>1. QED
    BY <1>2 DEF KernelState
<1> HIDE DEF r
<1>4. QED
  BY <1>1, <1>3, LeaveInTurn

\* A ready task whose priority changes goes to the end of its new list.
LEMMA PriorityQueues ==
  ASSUME SInv, NEW x \in Tasks, NEW p \in Priorities, p # k.priority[x]
  PROVE  Queues(WithPriority(x, p), k)
<1> DEFINE ke == InitialiseTask(k, x, p)
           r == MoveToReady(ke, x)
<1>1. x \in AllTasks \ {IdleTask} /\ Sound(k) /\ TimesSound(k)
  BY KernelAssumption DEF AllTasks, SInv
<1>2. /\ ke \in KernelState /\ Once(ke) /\ Initialised(ke, k, x, p)
      /\ TopKnown(ke) /\ EventOnce(ke, x) /\ \A u \in AllTasks \ {x} : InPlace(ke, u)
  BY <1>1, RenumbersTask
<1> HIDE DEF ke
<1>3. ke.ready = k.ready
  BY <1>2 DEF Initialised
<1>4. CASE IsReady(k, x)
  <2>1. SoundBut(ke, x)
    BY <1>2 DEF SoundBut
  <2>2. NoEvent(ke, x)
    <3>1. NoEvent(k, x)
      BY <1>1, <1>4, ReadyNoEvent
    <3>2. QED
      BY <1>2, <3>1 DEF Initialised, NoEvent
  <2>3. Moved(r, ke, x)
    BY <1>1, <2>1, <2>2, MovesToReady
  <2> HIDE DEF r
  <2>4. ke.priority[x] = p
    <3>1. k.priority \in [AllTasks -> Priorities]
      BY <1>1 DEF Sound, KernelState
    <3>2. ke.priority = [k.priority EXCEPT ![x] = p]
      BY <1>2 DEF Initialised
    <3>3. QED
      BY <1>1, <3>1, <3>2
  <2>5. k.ready[p] \in Seq(AllTasks) /\ vListRemove(k.ready[p], x) = k.ready[p]
    <3>1. x \notin ToSet(k.ready[p])
      BY <1>1, SoundTypes DEF InPlace
    <3>2. QED
      BY <1>1, <3>1, SoundTypes, ListTypes DEF vListRemove
  <2>6. \A q \in Priorities : r.ready[q] = IF q = p THEN Append(k.ready[q], x)
                                           ELSE vListRemove(k.ready[q], x)
    BY <1>3, <2>3, <2>4, <2>5 DEF Moved
  <2>7. Queues(r, k)
    BY <2>5, <2>6, AppendGrows DEF Queues
  <2>8. QED
    BY <1>4, <2>7, PriorityIs DEF r, ke
<1>5. CASE ~ IsReady(k, x)
  <2>1. WithPriority(x, p) = ke
    BY <1>5, PriorityIs DEF ke
  <2>2. QED
    BY <1>3, <2>1, SameQueues
<1>6. QED
  BY <1>4, <1>5

\* vTaskPrioritySet.
LEMMA PriorityInTurn ==
  ASSUME SInv, NEW t \in AllTasks, NEW x \in Tasks, NEW p \in Priorities,
         vTaskPrioritySet(t, x, p)
  PROVE  InTurn(k', k)
<1> DEFINE kk == WithPriority(x, p)
           c == IF p > k.basePriority[x] THEN x # t ELSE x = t
<1>1. At(t, "app") /\ p # k.basePriority[x] /\ k' = YieldIf(c, kk)
  BY DEF vTaskPrioritySet
<1>2. k.schedulerSuspended = 0 /\ p # k.priority[x]
  BY <1>1, InApp DEF SInv, Control
<1>3. Sound(kk) /\ Reprioritised(kk, k, x, p) /\ Queues(kk, k)
  BY <1>2, SetsPriority, PriorityQueues
<1> HIDE DEF kk, c
<1>4. InTurn(YieldIf(c, kk), k)
  BY <1>2, <1>3, YieldIfInTurn DEF SInv, Reprioritised
<1>5. QED
  BY <1>1, <1>4

\* xTaskGenericCreate, and the yield behind it.
LEMMA CreateInTurn ==
  ASSUME SInv, NEW t \in AllTasks, NEW x \in Tasks, NEW p \in Priorities,
         xTaskGenericCreate(t, x, p)
  PROVE  InTurn(k', k)
<1> DEFINE kk == AddNewTask(k, x, p)
<1>1. x \in AllTasks \ Existing(k) /\ k' = kk
  BY DEF xTaskGenericCreate, AllTasks
<1>2. Sound(kk) /\ Created(kk, k, x, p)
  BY <1>1, AddsNewTask DEF SInv
<1> HIDE DEF kk
<1>3. Queues(kk, k)
  <2>1. \A q \in Priorities : k.ready[q] \in Seq(AllTasks)
    BY SoundTypes, ListTypes DEF SInv
  <2>2. \A q \in Priorities : Grows(k.ready[q], k.ready[q])
    BY DEF Grows
  <2>3. \A q \in Priorities : kk.ready[q] = IF q = p THEN Append(k.ready[q], x) ELSE k.ready[q]
    BY <1>2 DEF Created
  <2>4. \A q \in Priorities : Grows(kk.ready[q], k.ready[q])
    BY <2>1, <2>2, <2>3, AppendGrows
  <2>5. QED
    BY <2>4 DEF Queues
<1>4. InTurn(kk, k)
  BY <1>2, <1>3, StaysInTurn DEF SInv, Sound, Created
<1>5. QED
  BY <1>1, <1>4

LEMMA CreateYieldInTurn ==
  ASSUME SInv, NEW t \in AllTasks, CreateYield(t)
  PROVE  InTurn(k', k)
<1> DEFINE c == k.priority[t] < argument[t]
<1>1. k.current = t /\ pc[t] = "created" /\ k' = YieldIf(c, k)
  BY DEF CreateYield, At
<1>2. k.schedulerSuspended = 0
  BY <1>1 DEF SInv, Control, Held
<1> HIDE DEF c
<1>3. InTurn(YieldIf(c, k), k)
  BY <1>2, SameQueues, YieldIfInTurn DEF SInv
<1>4. QED
  BY <1>1, <1>3

\* The idle task frees a deleted task.
LEMMA IdleReapInTurn ==
  ASSUME SInv, SInv', IdleReap
  PROVE  InTurn(k', k)
<1> DEFINE kk == [k EXCEPT !.waitingTermination = Tail(@)]
<1>1. k' = kk
  BY DEF IdleReap
<1>2. kk \in KernelState
  BY <1>1 DEF SInv, Sound
<1>3. kk.ready = k.ready /\ kk.current = k.current
  BY DEF SInv, Sound, KernelState
<1> HIDE DEF kk
<1>4. InTurn(kk, k)
  BY <1>2, <1>3, SameQueues, StaysInTurn DEF SInv
<1>5. QED
  BY <1>1, <1>4

\* The tick interrupt.
LEMMA TickInTurn ==
  ASSUME SInv, vTickISR
  PROVE  InTurn(k', k)
<1>1. k' = vTaskSwitchContext(vTaskIncrementTick(k)) /\ Sound(k) /\ TimesSound(k)
  BY DEF vTickISR, SInv
<1>2. CASE k.schedulerSuspended = 0
  <2> DEFINE kk == vTaskIncrementTick(k)
  <2>1. Sound(kk) /\ Later(kk, k)
    BY <1>1, <1>2, IncrementsTick
  <2> HIDE DEF kk
  <2>2. Queues(kk, k) /\ kk.schedulerSuspended = 0
    BY <1>2, <2>1, QueuedUpQueues DEF Later
  <2>3. InTurn(vTaskSwitchContext(kk), k)
    BY <1>1, <2>1, <2>2, RotatesInTurn
  <2>4. QED
    BY <1>1, <2>3 DEF kk
<1>3. CASE k.schedulerSuspended # 0
  <2> DEFINE r == vTaskSwitchContext(vTaskIncrementTick(k))
  <2>1. r \in KernelState /\ SameLists(r, k) /\ r.current = k.current
    BY <1>1, <1>3, HeldTick DEF Sound
  <2> HIDE DEF r
  <2>2. InTurn(r, k)
    BY <1>1, <2>1, SameQueues, StaysInTurn DEF SameLists
  <2>3. QED
    BY <1>1, <2>2 DEF r
<1>4. QED
  BY <1>2, <1>3

\* vTaskList goes on behind its walk through the lists.
LEMMA WalkIsListing ==
  ASSUME SInv, NEW t \in AllTasks, WalkLists(t)
  PROVE  Listing
<1>1. k.current = t /\ pc[t] = "list" /\ pc' = [pc EXCEPT ![t] = "locked"]
  BY DEF WalkLists, At, Goto
<1>2. QED
  BY <1>1 DEF SInv, CallTypes, Listing

\* Every step but that of vTaskList.
LEMMA StepInTurn ==
  ASSUME SInv, Next, ~ Listing
  PROVE  InTurn(k', k)
<1>1. SInv'
  BY SInvStep
<1>2. ASSUME NEW t \in AllTasks, Continue(t)
      PROVE  InTurn(k', k)
  <2>1. CASE ResumeAll(t)
    BY <2>1, UnlocksInTurn DEF ResumeAll, Held
  <2>2. CASE Yield(t)
    <3>1. k.current = t /\ pc[t] = "yield" /\ k' = vTaskSwitchContext(k)
      BY <2>2 DEF Yield, At
    <3>2. k.schedulerSuspended = 0
      BY <3>1 DEF SInv, Control, Held
    <3>3. QED
      BY <3>1, <3>2, YieldsInTurn
  <2>3. CASE Unlock(t)
    BY <2>3, UnlocksInTurn DEF Unlock, Held
  <2>4. CASE vTaskList(t) \/ vTaskGetRunTimeStats(t)
    BY <2>4, WalkIsListing DEF vTaskList, vTaskGetRunTimeStats
  <2>5. CASE DelayBlock(t)
    BY <1>1, <2>5, DelayBlockInTurn
  <2>6. CASE DelayUntilBlock(t)
    BY <1>1, <2>6, DelayUntilBlockInTurn
  <2>7. CASE \E e \in EventLists : WaitBlock(t, e)
    BY <1>1, <2>7, WaitBlockInTurn
  <2>8. CASE CreateYield(t)
    BY <2>8, CreateYieldInTurn
  <2>9. QED
    BY <1>2, <2>1, <2>2, <2>3, <2>4, <2>5, <2>6, <2>7, <2>8 DEF Continue
<1>3. ASSUME NEW t, At(t, "app"), k' = vTaskSuspendAll(k)
      PROVE  InTurn(k', k)
  <2>1. k.schedulerSuspended = 0
    BY <1>3, InApp
  <2>2. QED
    BY <1>3, <2>1, SuspendsInTurn
<1>4. ASSUME NEW t \in AllTasks, Call(t)
      PROVE  InTurn(k', k)
  <2>1. CASE Lock(t) \/ ListCall(t)
    BY <1>3, <2>1 DEF Lock, ListCall
  <2>2. CASE \E n \in Delays : DelayCall(t, n)
    <3>1. k' = k \/ (At(t, "app") /\ k' = vTaskSuspendAll(k))
      BY <2>2 DEF DelayCall
    <3>2. QED
      BY <1>3, <3>1, SameInTurn
  <2>3. CASE \E n \in Delays : WaitCall(t, n)
    BY <1>3, <2>3 DEF WaitCall
  <2>4. CASE \E n \in Delays, late \in Lateness : DelayUntilCall(t, n, late)
    BY <1>3, <2>4 DEF DelayUntilCall
  <2>5. CASE \E e \in EventLists : Signal(t, e)
    BY <2>5, SignalInTurn
  <2>6. CASE \E x \in Tasks : vTaskSuspend(t, x)
    BY <1>1, <2>6, SuspendInTurn
  <2>7. CASE \E x \in Tasks : vTaskResume(t, x)
    BY <2>7, ResumeInTurn
  <2>8. CASE \E x \in Tasks : vTaskDelete(t, x)
    BY <1>1, <2>8, DeleteInTurn
  <2>9. CASE \E x \in Tasks, p \in Priorities : vTaskPrioritySet(t, x, p)
    BY <2>9, PriorityInTurn
  <2>10. CASE \E x \in Tasks, p \in Priorities : xTaskGenericCreate(t, x, p)
    BY <2>10, CreateInTurn
  <2>11. QED
    BY <1>4, <2>1, <2>2, <2>3, <2>4, <2>5, <2>6, <2>7, <2>8, <2>9, <2>10 DEF Call
<1>5. CASE IdleStep
  <2>1. CASE IdleLook
    BY <1>3, <2>1 DEF IdleLook
  <2>2. CASE IdleUnlock
    BY <2>2, UnlocksInTurn DEF IdleUnlock, Held
  <2>3. CASE IdleReap
    BY <1>1, <2>3, IdleReapInTurn
  <2>4. CASE IdleYield
    <3>1. At(IdleTask, "app") /\ k' = vTaskSwitchContext(k)
      BY <2>4 DEF IdleYield
    <3>2. k.schedulerSuspended = 0
      BY <3>1, InApp
    <3>3. QED
      BY <3>1, <3>2, YieldsInTurn
  <2>5. QED
    BY <1>5, <2>1, <2>2, <2>3, <2>4 DEF IdleStep
<1>6. CASE Interrupt
  BY <1>6, TickInTurn, SignalFromISRInTurn, ResumeFromISRInTurn DEF Interrupt
<1>7. QED
  BY <1>2, <1>4, <1>5, <1>6 DEF Next

\* Nobody overtakes a task that waits in a ready list, and a task that gets the
\* processor goes behind all that wait with it, whatever calls and interrupts come.
THEOREM TurnsAreFair == Spec => RoundRobin
<1>1. SInv /\ [Next]_vars => [~ Listing => InTurn(k', k)]_vars
  BY StepInTurn
<1>2. [][~ Listing => InTurn(k', k)]_vars => RoundRobin
  BY PTL DEF RoundRobin, InTurn
<1>3. QED
  BY <1>1, <1>2, SInvAlways, PTL DEF Spec

=============================================================================
