----------------------------- MODULE Scheduler -----------------------------
(* The task API of the kernel (tasks.c) as called by running tasks and by   *)
(* interrupt handlers. One step is what runs with interrupts masked, or     *)
(* what runs with the scheduler suspended and touches nothing a handler     *)
(* touches; between two steps a tick or another interrupt may come.         *)
(*                                                                          *)
(* Only the current task takes steps; pc[t] is the place in the API call    *)
(* that t resumes at, "app" outside of any call.                            *)
EXTENDS TaskLists

CONSTANTS
  BootOrder,     \* the tasks in the order main creates them
  InitPriority,  \* their priorities
  Delays,        \* tick counts that tasks ask for
  Lateness,      \* ticks since the previous wake time when vTaskDelayUntil is called
  MaxMissed      \* bound: ticks that come while the scheduler is suspended

ASSUME SchedulerAssumption ==
  /\ BootOrder \in Seq(Tasks) /\ IsInjective(BootOrder)
  /\ InitPriority \in [Tasks -> Priorities]
  /\ Delays \subseteq 0..portMAX_DELAY
  /\ Lateness \subseteq Ticks
  /\ MaxMissed \in Nat

VARIABLES
  k,             \* the kernel
  pc,            \* place of each task
  argument,      \* argument of the delay, wait or creation in progress
  previousWake,  \* *pxPreviousWakeTime, during vTaskDelayUntil
  ignoredYield   \* ghost: a handler woke a task, and did not yield

vars == <<k, pc, argument, previousWake, ignoredYield>>

Places == {"app", "locked", "list", "delay", "delayUntil", "wait", "resumeAll",
           "yield", "created", "reap", "reapLocked"}

Init ==
  /\ k = Booted(BootOrder, InitPriority)
  /\ pc = [t \in AllTasks |-> "app"]
  /\ argument = [t \in AllTasks |-> 0]
  /\ previousWake = [t \in AllTasks |-> 0]
  /\ ignoredYield = FALSE

At(t, place) == k.current = t /\ pc[t] = place

Goto(t, place) == pc' = [pc EXCEPT ![t] = place]

\* A handle that may be passed to the API.
Alive(x) == x \in Existing(k) \ ({IdleTask} \cup ToSet(k.waitingTermination))

Keep == UNCHANGED <<argument, previousWake, ignoredYield>>

ForgetArgument(t) ==
  /\ argument' = [argument EXCEPT ![t] = 0]
  /\ previousWake' = [previousWake EXCEPT ![t] = 0]
  /\ UNCHANGED ignoredYield

-----------------------------------------------------------------------------
(* Steps shared by the calls *)

\* The last part of a call that blocks: xTaskResumeAll, then a yield unless
\* it has yielded already.
ResumeAll(t) ==
  /\ At(t, "resumeAll")
  /\ k' = xTaskResumeAll(k)
  /\ Goto(t, IF AlreadyYielded(k) THEN "app" ELSE "yield")
  /\ Keep

\* portYIELD_WITHIN_API
Yield(t) ==
  /\ At(t, "yield")
  /\ k' = vTaskSwitchContext(k)
  /\ Goto(t, "app")
  /\ Keep

\* vTaskSuspendAll ... xTaskResumeAll by the application.
Lock(t) ==
  /\ At(t, "app") /\ t # IdleTask
  /\ k' = vTaskSuspendAll(k)
  /\ Goto(t, "locked")
  /\ Keep

Unlock(t) ==
  /\ At(t, "locked")
  /\ k' = xTaskResumeAll(k)
  /\ Goto(t, "app")
  /\ Keep

\* vTaskList, and vTaskGetRunTimeStats if it is compiled in, walk through the
\* lists between the two.
ListCall(t) ==
  /\ At(t, "app") /\ t # IdleTask
  /\ k' = vTaskSuspendAll(k)
  /\ Goto(t, "list")
  /\ Keep

WalkLists(t) ==
  /\ At(t, "list")
  /\ k' = AfterTaskReport(k)
  /\ Goto(t, "locked")
  /\ Keep

vTaskList(t) == WalkLists(t)

\* The run times it writes are left out; what it does to the lists is the same.
vTaskGetRunTimeStats(t) == WalkLists(t)

-----------------------------------------------------------------------------
(* Delays *)

\* vTaskDelay: no delay is a yield, anything else starts with vTaskSuspendAll.
DelayCall(t, n) ==
  /\ At(t, "app") /\ t # IdleTask
  /\ k' = IF n = 0 THEN k ELSE vTaskSuspendAll(k)
  /\ Goto(t, IF n = 0 THEN "yield" ELSE "delay")
  /\ argument' = [argument EXCEPT ![t] = n]
  /\ UNCHANGED <<previousWake, ignoredYield>>

DelayBlock(t) ==
  /\ At(t, "delay")
  /\ k' = BlockCurrentFor(k, argument[t])
  /\ Goto(t, "resumeAll")
  /\ ForgetArgument(t)

\* The previous wake time is that many ticks ago.
DelayUntilCall(t, n, late) ==
  /\ At(t, "app") /\ t # IdleTask /\ n > 0
  /\ k' = vTaskSuspendAll(k)
  /\ Goto(t, "delayUntil")
  /\ argument' = [argument EXCEPT ![t] = n]
  /\ previousWake' = [previousWake EXCEPT ![t] = (k.tick - late) % TICK_MOD]
  /\ UNCHANGED ignoredYield

\* xShouldDelay of vTaskDelayUntil.
ShouldDelay_ComparesOnly(now, previous, wake) == wake > now
ShouldDelay(now, previous, wake) ==
  IF now < previous THEN wake < previous /\ wake > now
                    ELSE wake < previous \/ wake > now

DelayUntilBlock(t) ==
  LET wake == (previousWake[t] + argument[t]) % TICK_MOD
  IN  /\ At(t, "delayUntil")
      /\ k' = IF ShouldDelay(k.tick, previousWake[t], wake)
              THEN prvAddCurrentTaskToDelayedList(RemoveGenericItem(k, t), wake) ELSE k
      /\ Goto(t, "resumeAll")
      /\ ForgetArgument(t)

-----------------------------------------------------------------------------
(* Events: how queue.c uses vTaskPlaceOnEventList and                       *)
(* xTaskRemoveFromEventList.                                                *)

WaitCall(t, n) ==
  /\ At(t, "app") /\ t # IdleTask /\ n > 0
  /\ k' = vTaskSuspendAll(k)
  /\ Goto(t, "wait")
  /\ argument' = [argument EXCEPT ![t] = n]
  /\ UNCHANGED <<previousWake, ignoredYield>>

WaitBlock(t, e) ==
  /\ At(t, "wait")
  /\ k' = vTaskPlaceOnEventList(k, e, argument[t])
  /\ Goto(t, "resumeAll")
  /\ ForgetArgument(t)

Signal(t, e) ==
  /\ At(t, "app") /\ t # IdleTask
  /\ k.event[e] # <<>>
  /\ k' = YieldIf(UnblocksHigher(k, e), xTaskRemoveFromEventList(k, e))
  /\ UNCHANGED pc
  /\ Keep

SignalFromISR(e) ==
  /\ k.event[e] # <<>>
  /\ k' = xTaskRemoveFromEventList(k, e)
  /\ ignoredYield' = (ignoredYield \/ (k.schedulerSuspended = 0 /\ UnblocksHigher(k, e)))
  /\ UNCHANGED <<pc, argument, previousWake>>

-----------------------------------------------------------------------------
(* Suspending, resuming, priorities *)

vTaskSuspend(t, x) ==
  /\ At(t, "app") /\ t # IdleTask /\ Alive(x)
  /\ k' = SuspendTask(k, x)
  /\ Goto(t, IF x = t THEN "yield" ELSE "app")
  /\ Keep

vTaskResume(t, x) ==
  /\ At(t, "app") /\ t # IdleTask /\ Alive(x) /\ x # t
  /\ xTaskIsTaskSuspended(k, x)
  /\ k' = YieldIf(k.priority[x] >= k.priority[t], MoveToReady(k, x))
  /\ UNCHANGED pc
  /\ Keep

\* Called by an interrupt handler. The handlers of the application ignore
\* the returned xYieldRequired.
xTaskResumeFromISR(x) ==
  /\ Alive(x)
  /\ xTaskIsTaskSuspended(k, x)
  /\ IF k.schedulerSuspended = 0
     THEN /\ k' = MoveToReady(k, x)
          /\ ignoredYield' = (ignoredYield \/ k.priority[x] >= k.priority[k.current])
     ELSE /\ k' = [k EXCEPT !.pendingReady = vListInsertEnd(@, x)]
          /\ UNCHANGED ignoredYield
  /\ UNCHANGED <<pc, argument, previousWake>>

\* The priority in use changes only if it is not an inherited one. The list
\* looked in is that of the old base priority.
WithPriority(x, p) ==
  LET kb == [k EXCEPT !.basePriority[x] = p]
      kp == IF k.basePriority[x] = k.priority[x] THEN SetPriority(kb, x, p) ELSE kb
      ke == SetEventValue(kp, x, p)
  IN  IF x \in ToSet(k.ready[k.basePriority[x]]) THEN MoveToReady(ke, x) ELSE ke

vTaskPrioritySet(t, x, p) ==
  /\ At(t, "app") /\ t # IdleTask /\ Alive(x)
  /\ p # k.basePriority[x]
  /\ k' = YieldIf(IF p > k.basePriority[x] THEN x # t ELSE x = t, WithPriority(x, p))
  /\ UNCHANGED pc
  /\ Keep

-----------------------------------------------------------------------------
(* Creation and deletion *)

xTaskGenericCreate(t, x, p) ==
  /\ At(t, "app") /\ t # IdleTask
  /\ x \in Tasks \ Existing(k)
  /\ k' = AddNewTask(k, x, p)
  /\ pc' = [pc EXCEPT ![t] = "created", ![x] = "app"]
  /\ argument' = [argument EXCEPT ![t] = p]
  /\ UNCHANGED <<previousWake, ignoredYield>>

CreateYield(t) ==
  /\ At(t, "created")
  /\ k' = YieldIf(k.priority[t] < argument[t], k)
  /\ Goto(t, "app")
  /\ ForgetArgument(t)

vTaskDelete_KeepsEventItem(t, x) ==
  /\ At(t, "app") /\ t # IdleTask /\ Alive(x)
  /\ k' = [RemoveGenericItem(k, x) EXCEPT !.waitingTermination = vListInsertEnd(@, x)]
  /\ Goto(t, IF x = t THEN "yield" ELSE "app")
  /\ Keep
vTaskDelete(t, x) ==
  /\ At(t, "app") /\ t # IdleTask /\ Alive(x)
  /\ k' = [RemoveEventItem(RemoveGenericItem(k, x), x) EXCEPT !.waitingTermination = vListInsertEnd(@, x)]
  /\ Goto(t, IF x = t THEN "yield" ELSE "app")
  /\ Keep

\* prvCheckTasksWaitingTermination, called by the idle task: a look at the
\* list with the scheduler suspended, then the removal in a critical section.
IdleLook ==
  /\ At(IdleTask, "app") /\ k.waitingTermination # <<>>
  /\ k' = vTaskSuspendAll(k)
  /\ Goto(IdleTask, "reapLocked")
  /\ Keep

IdleUnlock ==
  /\ At(IdleTask, "reapLocked")
  /\ k' = xTaskResumeAll(k)
  /\ Goto(IdleTask, "reap")
  /\ Keep

IdleReap ==
  /\ At(IdleTask, "reap")
  /\ k' = [k EXCEPT !.waitingTermination = Tail(@)]
  /\ Goto(IdleTask, "app")
  /\ Keep

\* configIDLE_SHOULD_YIELD
IdleYield ==
  /\ At(IdleTask, "app") /\ Len(k.ready[0]) > 1
  /\ k' = vTaskSwitchContext(k)
  /\ UNCHANGED pc
  /\ Keep

-----------------------------------------------------------------------------
(* The tick interrupt *)

vTickISR ==
  /\ k.missedTicks < MaxMissed
  /\ k' = vTaskSwitchContext(vTaskIncrementTick(k))
  /\ ignoredYield' = (ignoredYield /\ k.schedulerSuspended # 0)
  /\ UNCHANGED <<pc, argument, previousWake>>

-----------------------------------------------------------------------------
\* What a call does once it has been made.
Continue(t) ==
  \/ ResumeAll(t) \/ Yield(t) \/ Unlock(t)
  \/ vTaskList(t) \/ vTaskGetRunTimeStats(t)
  \/ DelayBlock(t) \/ DelayUntilBlock(t) \/ \E e \in EventLists : WaitBlock(t, e)
  \/ CreateYield(t)

IdleStep == IdleLook \/ IdleUnlock \/ IdleReap \/ IdleYield

Call(t) ==
  \/ Lock(t) \/ ListCall(t)
  \/ \E n \in Delays : DelayCall(t, n) \/ WaitCall(t, n)
  \/ \E n \in Delays, late \in Lateness : DelayUntilCall(t, n, late)
  \/ \E e \in EventLists : Signal(t, e)
  \/ \E x \in Tasks : vTaskSuspend(t, x) \/ vTaskResume(t, x) \/ vTaskDelete(t, x)
  \/ \E x \in Tasks, p \in Priorities : vTaskPrioritySet(t, x, p) \/ xTaskGenericCreate(t, x, p)

Interrupt ==
  \/ vTickISR
  \/ \E e \in EventLists : SignalFromISR(e)
  \/ \E x \in Tasks : xTaskResumeFromISR(x)

Next == (\E t \in AllTasks : Continue(t) \/ Call(t)) \/ IdleStep \/ Interrupt

Spec == Init /\ [][Next]_vars

-----------------------------------------------------------------------------
(* Properties *)

TypeOK ==
  /\ k \in KernelState
  /\ pc \in [AllTasks -> Places]
  /\ argument \in [AllTasks -> Ticks \cup Priorities]
  /\ previousWake \in [AllTasks -> Ticks]
  /\ ignoredYield \in BOOLEAN

\* Every item is in one list, and the lists agree: a ready list holds tasks
\* of its priority, a task on an event list or pending is blocked, and what
\* is put off while the scheduler is suspended (ready tasks, ticks) is gone
\* once it is resumed. This is what makes the unlocked shortcuts of tasks.c,
\* such as reading the head of a list, find what they expect.
GenericLists == Range(k.ready) \cup {k.delayed, k.overflowDelayed, k.waitingTermination}
EventItemLists == Range(k.event) \cup {k.pendingReady}

Blocked(t) == IsDelayed(k, t) \/ t \in k.suspended

ListsAgree ==
  /\ \A l \in GenericLists \cup EventItemLists : IsInjective(l)
  /\ \A t \in Existing(k) :
       /\ Quantify(GenericLists, LAMBDA l : t \in ToSet(l)) + (IF t \in k.suspended THEN 1 ELSE 0) = 1
       /\ Quantify(EventItemLists, LAMBDA l : t \in ToSet(l)) <= 1
       /\ IsWaiting(k, t) \/ IsPending(k, t) => Blocked(t)
       /\ (\E p \in Priorities : t \in ToSet(k.ready[p])) => IsReady(k, t)
  /\ k.schedulerSuspended = 0 => k.pendingReady = <<>> /\ k.missedTicks = 0 /\ ~k.missedYield

\* When no yield is under way the current task is ready and no ready task
\* has a higher priority, except one that a handler woke since the last tick
\* (the handlers of this program do not yield).
RunsHighest ==
  (k.schedulerSuspended = 0 /\ ~ignoredYield /\ pc[k.current] \notin {"yield", "created"})
    => /\ IsReady(k, k.current)
       /\ \A t \in Existing(k) : IsReady(k, t) => k.priority[t] <= k.priority[k.current]

\* prvCheckDelayedTasks looks at the delayed list only when xTickCount has
\* reached xNextTaskUnblockTime: that must never be later than the first
\* task's time, which must be ahead, and the list must be empty when the tick
\* count overflows (configASSERT in vTaskIncrementTick, compiled out here).
TimeListsSound ==
  /\ \A t \in ToSet(k.delayed) : k.wake[t] > k.tick /\ k.wake[t] >= k.nextUnblock
  /\ \A t \in ToSet(k.overflowDelayed) : k.wake[t] < k.tick
  /\ IsSorted([i \in DOMAIN k.delayed |-> k.wake[k.delayed[i]]], <=)

\* A delay or a timed wait lasts the ticks asked for; vTaskDelayUntil blocks
\* if the end of the next period is ahead, for the ticks until then, wherever
\* the tick count wraps.
DelaysExact ==
  [][\A t \in Tasks :
       LET late == (k.tick - previousWake[t]) % TICK_MOD
       IN  pc[t] # "resumeAll" /\ pc'[t] = "resumeAll" =>
             /\ IsDelayed(k', t) <=> CASE pc[t] = "delay"      -> TRUE
                                       [] pc[t] = "delayUntil" -> argument[t] > late
                                       [] pc[t] = "wait"       -> argument[t] # portMAX_DELAY
             /\ IsDelayed(k', t) =>
                  TicksLeft(k', t) = IF pc[t] = "delayUntil" THEN argument[t] - late ELSE argument[t]]_vars

\* The state of a task is told by the list it is in.
StateOf(t) ==
  CASE \E p \in Priorities : t \in ToSet(k.ready[p]) -> "ready"
    [] IsDelayed(k, t)                   -> "delayed"
    [] t \in k.suspended                 -> "suspended"
    [] t \in ToSet(k.waitingTermination) -> "deleted"
    [] OTHER                             -> "none"

\* The detailed lists implement the promise of TaskStates.
Promise ==
  INSTANCE TaskStates WITH
    Tasks <- AllTasks, MaxDelay <- portMAX_DELAY,
    state <- [t \in AllTasks |-> StateOf(t)],
    left  <- [t \in AllTasks |-> IF IsDelayed(k, t) THEN TicksLeft(k, t) - k.missedTicks ELSE 0],
    woken <- ToSet(k.pendingReady),
    held  <- k.schedulerSuspended > 0,
    now   <- (k.tick + k.missedTicks) % TICK_MOD

ImplementsTaskStates == Promise!Spec

\* vTaskList writes one line for the task, with the list it is in.
Listed(kk, t) ==
  {line \in TaskReport(kk) : line[1] = t} =
    {<<t, IF IsReady(kk, t) THEN "R" ELSE IF IsDelayed(kk, t) THEN "B"
          ELSE IF t \in kk.suspended THEN "S" ELSE "D">>}

\* vTaskList (tasks.c 1327-1366) lists a task once, with its state, from its
\* creation on, and whenever it is not ready. A ready task goes missing only
\* when its priority is raised (or if that was done while it was blocked): the
\* walk begins at the highest priority that a task was created with, which
\* vTaskPrioritySet does not move.
ListedUnlessRaised ==
  [][\A t \in Existing(k') :
       \/ t \notin Existing(k)
       \/ ~IsReady(k', t)
       \/ IsReady(k, t) /\ Listed(k, t) /\ k'.priority[t] <= k.priority[t]
       => Listed(k', t)]_vars

\* Tasks of equal priority share the processor: nobody overtakes a task that
\* waits in a ready list, and a task that gets the processor goes behind all
\* that wait with it. With a switch at every tick each of them gets its turn.
\* The exception is vTaskList, which sends the next task of each list to its end.
Before(list, t, u) == \E i, j \in DOMAIN list : i < j /\ list[i] = t /\ list[j] = u

Listing == pc[k.current] = "list" /\ pc'[k.current] = "locked"

RoundRobin ==
  [][~Listing =>
       \A p \in Priorities :
         LET old   == k.ready[p]
             new   == k'.ready[p]
             waits == (ToSet(old) \cap ToSet(new)) \ {k'.current}
         IN  \A v \in waits :
               /\ \A u \in ToSet(new) \ {v} : Before(old, u, v) \/ Before(new, v, u)
               /\ k'.current # k.current /\ k'.current \in ToSet(new) => Before(new, v, k'.current)]_vars

=============================================================================
