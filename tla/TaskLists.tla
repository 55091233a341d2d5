----------------------------- MODULE TaskLists -----------------------------
(* The task lists of the FreeRTOS kernel (tasks.c, list.c) and the          *)
(* operations on them, as functions from kernel state to kernel state. The  *)
(* modules that model the API apply them inside their actions, so that what *)
(* the code does in one critical section stays one step.                    *)
(*                                                                          *)
(* A list is a sequence. A ready list is kept in the order in which         *)
(* listGET_OWNER_OF_NEXT_ENTRY will visit it: the item at pxIndex is last.  *)
(* vListInsertEnd puts an item behind pxIndex, hence at the end; taking the *)
(* next entry rotates the sequence; vListRemove leaves that order alone.    *)
EXTENDS Integers, Sequences, SequencesExt, FiniteSetsExt

CONSTANTS
  Tasks,           \* the tasks that may exist besides the idle task
  IdleTask,        \* prvIdleTask
  MAX_PRIORITIES,  \* configMAX_PRIORITIES
  TICK_MOD,        \* number of values of portTickType (2^32)
  OVERFLOW_MOD,    \* number of values of xNumOfOverflows (2^32)
  EventLists       \* the event lists of all queues

ASSUME KernelAssumption ==
  /\ IdleTask \notin Tasks
  /\ MAX_PRIORITIES \in Nat \ {0}
  /\ TICK_MOD \in Nat /\ TICK_MOD > 2
  /\ OVERFLOW_MOD \in Nat \ {0}

AllTasks      == Tasks \cup {IdleTask}
Priorities    == 0..MAX_PRIORITIES - 1
Ticks         == 0..TICK_MOD - 1
portMAX_DELAY == TICK_MOD - 1

-----------------------------------------------------------------------------
(* list.c *)

\* vListInsert: behind every item up to the first with a greater value.
vListInsert(list, t, value) ==
  LET i == SelectInSeq(list, LAMBDA u : value[u] > value[t])
  IN  IF i = 0 THEN Append(list, t) ELSE InsertAt(list, i, t)

\* vListInsertEnd: behind pxIndex, which then is the new item.
vListInsertEnd(list, t) == Append(list, t)

\* vListRemove, of a task that may be in the list.
vListRemove(list, t) ==
  IF t \in ToSet(list) THEN RemoveAt(list, CHOOSE i \in DOMAIN list : list[i] = t) ELSE list

\* listGET_OWNER_OF_NEXT_ENTRY, of a list that is not empty.
NextEntry(list) == Append(Tail(list), Head(list))

-----------------------------------------------------------------------------
(* The kernel's variables, as fields of one record k. A task's list items   *)
(* are in the lists that hold the task: generic items in ready, delayed,    *)
(* overflowDelayed, suspended, waitingTermination, event items in           *)
(* pendingReady and event.                                                  *)

KernelState ==
  [ready: [Priorities -> Seq(AllTasks)], delayed: Seq(AllTasks),
   overflowDelayed: Seq(AllTasks), suspended: SUBSET AllTasks,
   waitingTermination: Seq(AllTasks), pendingReady: Seq(AllTasks),
   event: [EventLists -> Seq(AllTasks)],
   priority: [AllTasks -> Priorities], basePriority: [AllTasks -> Priorities],
   wake: [AllTasks -> Ticks],                   \* value of the generic item
   eventValue: [AllTasks -> 0..MAX_PRIORITIES], \* value of the event item
   current: AllTasks, topReady: Priorities,
   topUsed: Priorities,                         \* highest priority a task was created with
   tick: Ticks, overflows: 0..OVERFLOW_MOD - 1, nextUnblock: Ticks,
   schedulerSuspended: Nat, missedTicks: Nat, missedYield: BOOLEAN]

Existing(k) ==
  (UNION {ToSet(k.ready[p]) : p \in Priorities}) \cup ToSet(k.delayed)
    \cup ToSet(k.overflowDelayed) \cup k.suspended \cup ToSet(k.waitingTermination)

IsReady(k, t)   == t \in ToSet(k.ready[k.priority[t]])
IsDelayed(k, t) == t \in ToSet(k.delayed) \cup ToSet(k.overflowDelayed)
IsWaiting(k, t) == \E e \in EventLists : t \in ToSet(k.event[e])
IsPending(k, t) == t \in ToSet(k.pendingReady)

\* vListRemove on the task's generic item, whichever list it is in. Its value
\* means nothing outside the delayed lists, and is 0 there.
RemoveGenericItem(k, t) ==
  [k EXCEPT !.ready = [p \in Priorities |-> vListRemove(@[p], t)],
            !.delayed = vListRemove(@, t), !.overflowDelayed = vListRemove(@, t),
            !.suspended = @ \ {t}, !.waitingTermination = vListRemove(@, t),
            !.wake[t] = 0]

\* vListRemove on the task's event item, if it is in a list.
RemoveEventItem(k, t) ==
  [k EXCEPT !.event = [e \in EventLists |-> vListRemove(@[e], t)],
            !.pendingReady = vListRemove(@, t)]

prvAddTaskToReadyQueue(k, t) ==
  LET p == k.priority[t]
  IN  [k EXCEPT !.ready[p] = vListInsertEnd(@, t), !.topReady = Max({@, p})]

SetPriority(k, t, p) == [k EXCEPT !.priority[t] = p]
SetEventValue(k, t, p) == [k EXCEPT !.eventValue[t] = MAX_PRIORITIES - p]

MoveToReady(k, t) == prvAddTaskToReadyQueue(RemoveGenericItem(k, t), t)
WakeUp(k, t)      == MoveToReady(RemoveEventItem(k, t), t)

-----------------------------------------------------------------------------
(* Context switch *)

\* The next task of the highest non-empty ready list, which then counts as
\* the last one visited. With the scheduler suspended only xMissedYield.
vTaskSwitchContext_NoRotation(k) ==
  IF k.schedulerSuspended # 0 THEN [k EXCEPT !.missedYield = TRUE]
  ELSE LET p == Max({q \in 0..k.topReady : k.ready[q] # <<>>})
       IN  [k EXCEPT !.topReady = p, !.current = Head(k.ready[p])]
vTaskSwitchContext(k) ==
  IF k.schedulerSuspended # 0 THEN [k EXCEPT !.missedYield = TRUE]
  ELSE LET p    == Max({q \in 0..k.topReady : k.ready[q] # <<>>})
           next == Head(k.ready[p])
       IN  [k EXCEPT !.topReady = p, !.current = next,
                     !.ready[p] = NextEntry(@)]

YieldIf(cond, k) == IF cond THEN vTaskSwitchContext(k) ELSE k

-----------------------------------------------------------------------------
(* Ticks and delays *)

prvAddCurrentTaskToDelayedList(k, timeToWake) ==
  LET t  == k.current
      kw == [k EXCEPT !.wake[t] = timeToWake]
  IN  IF timeToWake < k.tick
      THEN [kw EXCEPT !.overflowDelayed = vListInsert(@, t, kw.wake)]
      ELSE [kw EXCEPT !.delayed = vListInsert(@, t, kw.wake),
                      !.nextUnblock = Min({@, timeToWake})]

BlockCurrentFor_NoWrap(k, ticks) ==
  prvAddCurrentTaskToDelayedList(RemoveGenericItem(k, k.current), k.tick + ticks)
BlockCurrentFor(k, ticks) ==
  prvAddCurrentTaskToDelayedList(RemoveGenericItem(k, k.current), (k.tick + ticks) % TICK_MOD)

\* How far the wake time of a delayed task is ahead.
TicksLeft(k, t) == (k.wake[t] - k.tick) % TICK_MOD

NextUnblock(k) == IF k.delayed = <<>> THEN portMAX_DELAY ELSE k.wake[Head(k.delayed)]

\* The tasks at the head of the delayed list whose time has come.
Due(k) ==
  LET i == SelectInSeq(k.delayed, LAMBDA t : k.wake[t] > k.tick)
  IN  IF i = 0 THEN k.delayed ELSE SubSeq(k.delayed, 1, i - 1)

prvCheckDelayedTasks(k) ==
  IF k.tick < k.nextUnblock THEN k
  ELSE LET kd == FoldLeft(WakeUp, k, Due(k)) IN [kd EXCEPT !.nextUnblock = NextUnblock(kd)]

SwapDelayedLists_KeepsNextUnblock(k) ==
  [k EXCEPT !.delayed = k.overflowDelayed, !.overflowDelayed = k.delayed,
            !.overflows = (@ + 1) % OVERFLOW_MOD]
SwapDelayedLists(k) ==
  LET ks == [k EXCEPT !.delayed = k.overflowDelayed, !.overflowDelayed = k.delayed,
                      !.overflows = (@ + 1) % OVERFLOW_MOD]
  IN  [ks EXCEPT !.nextUnblock = NextUnblock(ks)]

vTaskIncrementTick(k) ==
  IF k.schedulerSuspended # 0 THEN [k EXCEPT !.missedTicks = @ + 1]
  ELSE LET kt == [k EXCEPT !.tick = (@ + 1) % TICK_MOD]
       IN  prvCheckDelayedTasks(IF kt.tick = 0 THEN SwapDelayedLists(kt) ELSE kt)

-----------------------------------------------------------------------------
(* Suspending and resuming the scheduler *)

vTaskSuspendAll(k) == [k EXCEPT !.schedulerSuspended = @ + 1]

\* xYieldRequired once the pending tasks are moved and the ticks are made up for.
ResumeNeedsYield_ForgetsPending(k) == k.missedTicks > 0 \/ k.missedYield
ResumeNeedsYield(k) ==
  \/ \E t \in ToSet(k.pendingReady) : k.priority[t] >= k.priority[k.current]
  \/ k.missedTicks > 0
  \/ k.missedYield

MovePending(k) == FoldLeft(WakeUp, k, k.pendingReady)
ProcessMissedTicks_Once(k) == vTaskIncrementTick([k EXCEPT !.missedTicks = 0])
ProcessMissedTicks(k) ==
  FoldLeft(LAMBDA kk, i : vTaskIncrementTick(kk), [k EXCEPT !.missedTicks = 0],
           [i \in 1..k.missedTicks |-> i])

xTaskResumeAll(k) ==
  LET kd == [k EXCEPT !.schedulerSuspended = @ - 1]
  IN  IF kd.schedulerSuspended # 0 THEN kd
      ELSE IF ResumeNeedsYield(kd)
           THEN vTaskSwitchContext([ProcessMissedTicks(MovePending(kd)) EXCEPT !.missedYield = FALSE])
           ELSE MovePending(kd)

\* Its return value, xAlreadyYielded.
AlreadyYielded(k) == k.schedulerSuspended = 1 /\ ResumeNeedsYield(k)

-----------------------------------------------------------------------------
(* Event lists *)

\* Sorted by the event item's value; waiting for ever is being in the
\* suspended list.
vTaskPlaceOnEventList(k, e, ticks) ==
  LET t  == k.current
      ke == [k EXCEPT !.event[e] = vListInsert(@, t, k.eventValue)]
  IN  IF ticks = portMAX_DELAY
      THEN [RemoveGenericItem(ke, t) EXCEPT !.suspended = @ \cup {t}]
      ELSE BlockCurrentFor(ke, ticks)

\* Only called when the list is not empty.
xTaskRemoveFromEventList(k, e) ==
  LET t  == Head(k.event[e])
      kr == RemoveEventItem(k, t)
  IN  IF k.schedulerSuspended = 0 THEN MoveToReady(kr, t)
      ELSE [kr EXCEPT !.pendingReady = vListInsertEnd(@, t)]

\* Its return value.
UnblocksHigher(k, e) == k.priority[Head(k.event[e])] >= k.priority[k.current]

-----------------------------------------------------------------------------
(* Time-outs: what a task remembers of the time it began to wait. *)

vTaskSetTimeOutState(k) == [overflowCount |-> k.overflows, timeOnEntering |-> k.tick]

TicksSince(k, timeOut) == (k.tick - timeOut.timeOnEntering) % TICK_MOD

\* xTaskCheckForTimeOut; if it is false the wait goes on for what is left.
TimedOut(k, timeOut, ticks) ==
  /\ ticks # portMAX_DELAY
  /\ \/ k.overflows # timeOut.overflowCount /\ k.tick >= timeOut.timeOnEntering
     \/ TicksSince(k, timeOut) >= ticks

TicksRemaining_StartsAgain(k, timeOut, ticks) == ticks
TicksRemaining(k, timeOut, ticks) ==
  IF ticks = portMAX_DELAY THEN ticks ELSE ticks - TicksSince(k, timeOut)

-----------------------------------------------------------------------------
(* Priority inheritance *)

\* The current task is about to wait for a mutex that holder has.
vTaskPriorityInherit_IfReady(k, holder) ==
  LET p  == k.priority[k.current]
      kp == SetPriority(SetEventValue(k, holder, p), holder, p)
  IN  IF k.priority[holder] < p /\ IsReady(k, holder) THEN MoveToReady(kp, holder) ELSE k
vTaskPriorityInherit(k, holder) ==
  LET p  == k.priority[k.current]
      kp == SetPriority(SetEventValue(k, holder, p), holder, p)
  IN  IF k.priority[holder] >= p THEN k
      ELSE IF IsReady(k, holder) THEN MoveToReady(kp, holder) ELSE kp

\* The holder gives the mutex back.
vTaskPriorityDisinherit(k, holder) ==
  LET p == k.basePriority[holder]
  IN  IF k.priority[holder] = p THEN k
      ELSE MoveToReady(SetEventValue(SetPriority(k, holder, p), holder, p), holder)

-----------------------------------------------------------------------------
(* Suspended tasks *)

xTaskIsTaskSuspended(k, t) ==
  t \in k.suspended /\ ~IsPending(k, t) /\ ~IsWaiting(k, t)

SuspendTask(k, t) ==
  [RemoveEventItem(RemoveGenericItem(k, t), t) EXCEPT !.suspended = @ \cup {t}]

-----------------------------------------------------------------------------
(* vTaskList *)

prvListTaskWithinSingleList(list, status) == {<<t, status>> : t \in ToSet(list)}

\* What it writes: each task with the character of its state. A task that
\* waits for ever is in the suspended list, and reported as suspended; a ready
\* task above every priority that tasks were created with is left out.
TaskReport(k) ==
  (UNION {prvListTaskWithinSingleList(k.ready[p], "R") : p \in 0..k.topUsed})
    \cup prvListTaskWithinSingleList(k.delayed, "B")
    \cup prvListTaskWithinSingleList(k.overflowDelayed, "B")
    \cup prvListTaskWithinSingleList(k.waitingTermination, "D")
    \cup {<<t, "S">> : t \in k.suspended}

\* What it does to the lists. It asks for the next entry until the first one
\* comes again, once more than there are tasks: each ready list it visits moves
\* on by one. In the other lists the place of pxIndex shows nowhere.
AfterTaskReport(k) ==
  [k EXCEPT !.ready = [p \in Priorities |->
                         IF p > k.topUsed \/ @[p] = <<>> THEN @[p] ELSE NextEntry(@[p])]]

-----------------------------------------------------------------------------
(* Creation: tasks made before the scheduler runs. The newest task of the   *)
(* highest priority so far is the current one.                              *)

NoTasks ==
  [ready |-> [p \in Priorities |-> <<>>], delayed |-> <<>>, overflowDelayed |-> <<>>,
   suspended |-> {}, waitingTermination |-> <<>>, pendingReady |-> <<>>,
   event |-> [e \in EventLists |-> <<>>],
   priority |-> [t \in AllTasks |-> 0], basePriority |-> [t \in AllTasks |-> 0],
   wake |-> [t \in AllTasks |-> 0], eventValue |-> [t \in AllTasks |-> 0],
   current |-> IdleTask, topReady |-> 0, topUsed |-> 0, tick |-> 0, overflows |-> 0,
   nextUnblock |-> portMAX_DELAY,
   schedulerSuspended |-> 0, missedTicks |-> 0, missedYield |-> FALSE]

InitialiseTask(k, t, p) ==
  SetEventValue([SetPriority(k, t, p) EXCEPT !.basePriority[t] = p], t, p)

\* Mutant: uxTopUsedPriority stays as it is.
AddNewTask_TopKept(k, t, p) == prvAddTaskToReadyQueue(InitialiseTask(k, t, p), t)
\* The part of xTaskGenericCreate inside the critical section, scheduler running.
AddNewTask(k, t, p) ==
  [prvAddTaskToReadyQueue(InitialiseTask(k, t, p), t) EXCEPT !.topUsed = Max({@, p})]

CreateBeforeStart(k, t, p) ==
  LET first == Existing(k) = {}
      kn    == AddNewTask(k, t, p)
  IN  IF first \/ k.priority[k.current] <= p THEN [kn EXCEPT !.current = t] ELSE kn

\* The tasks of order, with their priorities, and then the idle task.
Booted(order, prio) ==
  CreateBeforeStart(FoldLeft(LAMBDA k, t : CreateBeforeStart(k, t, prio[t]), NoTasks, order),
                    IdleTask, 0)

=============================================================================
