------------------------------- MODULE Queue -------------------------------
(* Queues, semaphores and mutexes (queue.c): the calls that block, as made  *)
(* by tasks, and their variants for interrupt handlers. One step is one     *)
(* critical section, or a piece of code that runs with the scheduler        *)
(* suspended and on data no handler touches (the event lists of a locked    *)
(* queue).                                                                  *)
EXTENDS TaskLists, FiniteSets

CONSTANTS
  Queues,       \* the queues that exist
  Uses,         \* possible kinds of the queues: functions Queues -> Kinds
  LENGTH,       \* uxLength by kind; 1 for a mutex
  Items,        \* what is sent
  NoTask,       \* NULL, as a mutex holder
  BootOrder,    \* for each use, the tasks in the order main creates them
  InitPriority, \* priority that main gives each task
  Calls,        \* for each kind, the calls made: <<task, operation, block time>>
  AltUsers,     \* for each kind, the tasks that use the alternative API too
  InitialCount, \* of the semaphores
  IsrSends,     \* ends of the queue that handlers send to
  MaxMissed,    \* bound: ticks while the scheduler is suspended
  MaxElapsed,   \* bound: ticks during one call. A ready task is not kept from
                \* running for as many ticks as the tick count has values.
  MaxLocked,    \* bound: items sent, and received, while a queue is locked
  MaxDepth      \* bound: nesting of a recursive mutex

Sends    == {"sendToBack", "sendToFront"}
Receives == {"receive", "peek"}

Kinds == {"data", "semaphore", "mutex", "recursive"}

ASSUME QueueAssumption ==
  /\ IsFiniteSet(Tasks)
  /\ EventLists = Queues \X {"send", "receive"}
  /\ Uses \subseteq [Queues -> Kinds]
  /\ LENGTH \in [Kinds -> Nat \ {0}] /\ LENGTH["mutex"] = 1 /\ LENGTH["recursive"] = 1
  /\ Items # {} /\ NoTask \notin AllTasks
  /\ \A kinds \in Uses : BootOrder[kinds] \in Seq(Tasks) /\ IsInjective(BootOrder[kinds])
  /\ InitPriority \in [Tasks -> Priorities]
  /\ \A kind \in Kinds : Calls[kind] \subseteq Tasks \X (Sends \cup Receives \cup {"delay"}) \X Ticks
  /\ AltUsers \in [Kinds -> SUBSET Tasks] /\ AltUsers["recursive"] = {}
  /\ InitialCount \in 0..LENGTH["semaphore"] /\ IsrSends \subseteq Sends
  /\ MaxElapsed \in 0..TICK_MOD - 1

VARIABLES
  k,        \* the kernel
  q,        \* the queues
  pc,       \* place of each task in its call
  frame,    \* arguments and local variables of that call
  asked,    \* ghost: the block time it was made with
  elapsed   \* ghost: ticks counted since it first found the queue full or empty

vars == <<k, q, pc, frame, asked, elapsed>>

Nothing == CHOOSE i \in Items : TRUE   \* a semaphore has no data
NoFrame == [op |-> "none", queue |-> CHOOSE x \in Queues : TRUE, item |-> Nothing,
            alt |-> FALSE, ticks |-> 0, entryTimeSet |-> FALSE,
            timeOut |-> [overflowCount |-> 0, timeOnEntering |-> 0], next |-> "app"]

Places   == {"app", "try", "altWait", "suspendAll", "lock", "isFull", "place",
             "unlockTx", "unlockRx", "resumeAll", "yield"}

IsMutex(x) == q[x].kind \in {"mutex", "recursive"}
uxLength(x) == LENGTH[q[x].kind]

\* xQueueCreateCountingSemaphore
CountingSemaphore(qn, count) == [qn EXCEPT !.messagesWaiting = count]

\* xQueueCreate, and xQueueCreateMutex, which gives the new mutex once.
NewQueue(kind) ==
  LET empty == [kind |-> kind, messagesWaiting |-> 0,
                store |-> [i \in 0..LENGTH[kind] - 1 |-> Nothing],
                writeTo |-> 0, readFrom |-> LENGTH[kind] - 1,
                rxLock |-> -1, txLock |-> -1,
                mutexHolder |-> NoTask, recursiveCallCount |-> 0]
  IN  CASE kind = "data"      -> empty
        [] kind = "semaphore" -> CountingSemaphore(empty, InitialCount)
        [] OTHER              -> [empty EXCEPT !.messagesWaiting = 1]

Init ==
  /\ \E kinds \in Uses :
       /\ k = Booted(BootOrder[kinds], InitPriority)
       /\ q = [x \in Queues |-> NewQueue(kinds[x])]
  /\ pc = [t \in AllTasks |-> "app"]
  /\ frame = [t \in AllTasks |-> NoFrame]
  /\ asked = [t \in AllTasks |-> 0]
  /\ elapsed = [t \in AllTasks |-> 0]

-----------------------------------------------------------------------------
(* The ring of items. pcReadFrom is the place last read from; items are put *)
(* at pcWriteTo, or to the front at pcReadFrom.                             *)

Unlocked == -1       \* queueUNLOCKED
LockedUnmodified == 0

After(x, i)  == (i + 1) % uxLength(x)
Behind(x, i) == (i - 1) % uxLength(x)

HasRoom(x)  == q[x].messagesWaiting < uxLength(x)
HasItem(x)  == q[x].messagesWaiting > 0

\* prvCopyDataToQueue, the queue's side of it. A mutex is given back when
\* its call count is unwound.
prvCopyDataToQueue_MovesFirst(x, item, op) ==
  LET qm == [q[x] EXCEPT !.messagesWaiting = @ + 1]
  IN  CASE IsMutex(x)         -> [qm EXCEPT !.mutexHolder = NoTask, !.recursiveCallCount = 0]
        [] q[x].kind = "semaphore" -> qm
        [] q[x].kind = "data" /\ op = "sendToBack" ->
             [qm EXCEPT !.store[q[x].writeTo] = item, !.writeTo = After(x, @)]
        [] q[x].kind = "data" /\ op = "sendToFront" ->
             [qm EXCEPT !.store[Behind(x, q[x].readFrom)] = item, !.readFrom = Behind(x, @)]
prvCopyDataToQueue(x, item, op) ==
  LET qm == [q[x] EXCEPT !.messagesWaiting = @ + 1]
  IN  CASE IsMutex(x)         -> [qm EXCEPT !.mutexHolder = NoTask, !.recursiveCallCount = 0]
        [] q[x].kind = "semaphore" -> qm
        [] q[x].kind = "data" /\ op = "sendToBack" ->
             [qm EXCEPT !.store[q[x].writeTo] = item, !.writeTo = After(x, @)]
        [] q[x].kind = "data" /\ op = "sendToFront" ->
             [qm EXCEPT !.store[q[x].readFrom] = item, !.readFrom = Behind(x, @)]

\* and the kernel's: a mutex that is given back takes the inherited priority away.
Disinherited(x) ==
  IF IsMutex(x) /\ q[x].mutexHolder # NoTask THEN vTaskPriorityDisinherit(k, q[x].mutexHolder) ELSE k

\* prvCopyDataFromQueue, the count, and for a mutex the holder.
Taken(x, t) ==
  LET qm == [q[x] EXCEPT !.messagesWaiting = @ - 1]
  IN  CASE q[x].kind = "data"      -> [qm EXCEPT !.readFrom = After(x, @)]
        [] q[x].kind = "semaphore" -> qm
        [] q[x].kind = "mutex"     -> [qm EXCEPT !.mutexHolder = t]
        [] q[x].kind = "recursive" -> [qm EXCEPT !.mutexHolder = t, !.recursiveCallCount = @ + 1]

\* Wake the first task that waits on list e, and yield to it if it should run.
WakeFirst(kk, e) ==
  IF kk.event[e] = <<>> THEN kk
  ELSE YieldIf(UnblocksHigher(kk, e), xTaskRemoveFromEventList(kk, e))

-----------------------------------------------------------------------------
At(t, place) == k.current = t /\ pc[t] = place
Goto(t, place) == pc' = [pc EXCEPT ![t] = place]

Return(t) ==
  /\ Goto(t, "app")
  /\ frame' = [frame EXCEPT ![t] = NoFrame]
  /\ asked' = [asked EXCEPT ![t] = 0]
  /\ elapsed' = [elapsed EXCEPT ![t] = 0]

\* Calls in the middle of a timed wait.
Timed(t) == frame[t].entryTimeSet /\ asked[t] # portMAX_DELAY

\* Ticks counted in this step, by every timed wait.
TimePasses ==
  LET n == (k'.tick - k.tick) % TICK_MOD
  IN  elapsed' = [t \in AllTasks |-> IF Timed(t) THEN elapsed[t] + n ELSE elapsed[t]]

\* The queue is full (empty). Leave if the call does not block; else note the
\* time, once, and go on to wait. What an endless wait notes is never read.
TimeNoted(ticks) == IF ticks = portMAX_DELAY THEN NoFrame.timeOut ELSE vTaskSetTimeOutState(k)

NotNow(t, f, n) ==
  /\ UNCHANGED <<k, q>>
  /\ IF f.ticks = 0 THEN Return(t)
     ELSE /\ Goto(t, IF f.alt THEN "altWait" ELSE "suspendAll")
          /\ frame' = [frame EXCEPT ![t] =
               IF f.entryTimeSet THEN f
               ELSE [f EXCEPT !.entryTimeSet = TRUE, !.timeOut = TimeNoted(f.ticks)]]
          /\ asked' = [asked EXCEPT ![t] = n]
          /\ UNCHANGED elapsed

\* First critical section of xQueueGenericSend.
TrySend(t, f, n) ==
  /\ f.op \in Sends
  /\ IF HasRoom(f.queue)
     THEN /\ q' = [q EXCEPT ![f.queue] = prvCopyDataToQueue(f.queue, f.item, f.op)]
          /\ k' = WakeFirst(Disinherited(f.queue), <<f.queue, "receive">>)
          /\ Return(t)
     ELSE NotNow(t, f, n)

\* First critical section of xQueueGenericReceive. A peek leaves the item and
\* wakes the next task that waits for one.
TryReceive(t, f, n) ==
  /\ f.op \in Receives
  /\ IF HasItem(f.queue)
     THEN /\ q' = IF f.op = "peek" THEN q ELSE [q EXCEPT ![f.queue] = Taken(f.queue, t)]
          /\ k' = WakeFirst(k, <<f.queue, IF f.op = "peek" THEN "receive" ELSE "send">>)
          /\ Return(t)
     ELSE NotNow(t, f, n)

Try(t, f, n) == TrySend(t, f, n) \/ TryReceive(t, f, n)

Retry(t) == At(t, "try") /\ Try(t, frame[t], asked[t])

SuspendAll(t) ==
  /\ At(t, "suspendAll")
  /\ k' = vTaskSuspendAll(k)
  /\ Goto(t, "lock")
  /\ UNCHANGED <<q, frame, asked, elapsed>>

\* prvLockQueue and xTaskCheckForTimeOut: nothing a handler does between the
\* two changes what the second sees.
LockAndCheck(t) ==
  LET f == frame[t]
      x == f.queue
      lock(n) == IF n = Unlocked THEN LockedUnmodified ELSE n
  IN  /\ At(t, "lock")
      /\ q' = [q EXCEPT ![x].rxLock = lock(@), ![x].txLock = lock(@)]
      /\ IF TimedOut(k, f.timeOut, f.ticks)
         THEN /\ Goto(t, "unlockTx")
              /\ frame' = [frame EXCEPT ![t].next = "app"]
         ELSE /\ Goto(t, "isFull")
              /\ frame' = [frame EXCEPT ![t].ticks = TicksRemaining(k, f.timeOut, @),
                                        ![t].timeOut = TimeNoted(f.ticks)]
      /\ UNCHANGED <<k, asked, elapsed>>

prvIsQueueFull(x)  == ~HasRoom(x)
prvIsQueueEmpty(x) == ~HasItem(x)

StillBlocked(t) ==
  LET f == frame[t] IN IF f.op \in Sends THEN prvIsQueueFull(f.queue) ELSE prvIsQueueEmpty(f.queue)

IsFullOrEmpty(t) ==
  /\ At(t, "isFull")
  /\ Goto(t, IF StillBlocked(t) THEN "place" ELSE "unlockTx")
  /\ frame' = [frame EXCEPT ![t].next = IF StillBlocked(t) THEN "yield" ELSE "try"]
  /\ UNCHANGED <<k, q, asked, elapsed>>

\* vTaskPriorityInherit if it is a mutex, and vTaskPlaceOnEventList.
PlacedOnList(t, ticks) ==
  LET f  == frame[t]
      ki == IF IsMutex(f.queue) /\ f.op \in Receives
            THEN vTaskPriorityInherit(k, q[f.queue].mutexHolder) ELSE k
  IN  vTaskPlaceOnEventList(ki, <<f.queue, IF f.op \in Sends THEN "send" ELSE "receive">>, ticks)

Place(t) ==
  /\ At(t, "place")
  /\ k' = PlacedOnList(t, frame[t].ticks)
  /\ Goto(t, "unlockTx")
  /\ UNCHANGED <<q, frame, asked, elapsed>>

\* The two critical sections of prvUnlockQueue. Each item that a handler
\* added (removed) meanwhile wakes a task; the tasks get pending.
WakeOnUnlock(kk, e) ==
  IF kk.event[e] = <<>> THEN kk
  ELSE [xTaskRemoveFromEventList(kk, e) EXCEPT !.missedYield = @ \/ UnblocksHigher(kk, e)]

WakeMany_Once(e, n) == IF n > 0 THEN WakeOnUnlock(k, e) ELSE k
WakeMany(e, n) == FoldLeft(LAMBDA kk, i : WakeOnUnlock(kk, e), k, [i \in 1..n |-> i])

UnlockTx(t) ==
  LET x == frame[t].queue
  IN  /\ At(t, "unlockTx")
      /\ k' = WakeMany(<<x, "receive">>, q[x].txLock)
      /\ q' = [q EXCEPT ![x].txLock = Unlocked]
      /\ Goto(t, "unlockRx")
      /\ UNCHANGED <<frame, asked, elapsed>>

UnlockRx(t) ==
  LET x == frame[t].queue
  IN  /\ At(t, "unlockRx")
      /\ k' = WakeMany(<<x, "send">>, q[x].rxLock)
      /\ q' = [q EXCEPT ![x].rxLock = Unlocked]
      /\ Goto(t, "resumeAll")
      /\ UNCHANGED <<frame, asked, elapsed>>

\* The call has waited (next = "yield"), finds that it need not ("try"), or
\* has timed out ("app").
ResumeAll(t) ==
  /\ At(t, "resumeAll")
  /\ k' = xTaskResumeAll(k)
  /\ UNCHANGED q
  /\ IF frame[t].next = "app"
     THEN /\ Goto(t, "app")
          /\ frame' = [frame EXCEPT ![t] = NoFrame]
          /\ asked' = [asked EXCEPT ![t] = 0]
          /\ LET n == (k'.tick - k.tick) % TICK_MOD
             IN  elapsed' = [u \in AllTasks |-> IF u = t THEN 0
                               ELSE IF Timed(u) THEN elapsed[u] + n ELSE elapsed[u]]
     ELSE /\ Goto(t, IF frame[t].next = "yield" /\ ~AlreadyYielded(k) THEN "yield" ELSE "try")
          /\ TimePasses
          /\ UNCHANGED <<frame, asked>>

Yield(t) ==
  /\ At(t, "yield")
  /\ k' = vTaskSwitchContext(k)
  /\ Goto(t, "try")
  /\ UNCHANGED <<q, frame, asked, elapsed>>

-----------------------------------------------------------------------------
(* The alternative API (configUSE_ALTERNATIVE_API) waits in one critical    *)
(* section, with the queue not locked and the scheduler not suspended.      *)

AltWaits(t) ==
  LET f    == frame[t]
      left == TicksRemaining(k, f.timeOut, f.ticks)
  IN  /\ At(t, "altWait")
      /\ UNCHANGED q
      /\ IF TimedOut(k, f.timeOut, f.ticks) THEN Return(t) /\ UNCHANGED k
         ELSE /\ k' = IF StillBlocked(t) THEN vTaskSwitchContext(PlacedOnList(t, left)) ELSE k
              /\ Goto(t, "try")
              /\ frame' = [frame EXCEPT ![t].ticks = left, ![t].timeOut = TimeNoted(f.ticks)]
              /\ UNCHANGED <<asked, elapsed>>

\* Second critical section of xQueueAltGenericSend, of xQueueAltGenericReceive.
AltSendWaits(t)    == frame[t].op \in Sends /\ AltWaits(t)
AltReceiveWaits(t) == frame[t].op \in Receives /\ AltWaits(t)

-----------------------------------------------------------------------------
(* Calls *)

Call(t, op, x, item, n) ==
  Try(t, [NoFrame EXCEPT !.op = op, !.queue = x, !.item = item, !.ticks = n], n)

AltCall(t, op, x, item, n) ==
  /\ t \in AltUsers[q[x].kind]
  /\ Try(t, [NoFrame EXCEPT !.op = op, !.queue = x, !.item = item, !.ticks = n, !.alt = TRUE], n)

ItemsFor(x) == IF q[x].kind = "data" THEN Items ELSE {Nothing}

Send(t) ==
  \E x \in Queues, n \in Ticks, op \in Sends :
    /\ ~IsMutex(x) /\ <<t, op, n>> \in Calls[q[x].kind]
    /\ \E item \in ItemsFor(x) : Call(t, op, x, item, n)

Receive(t) ==
  \E x \in Queues, n \in Ticks, op \in Receives :
    /\ ~IsMutex(x) /\ <<t, op, n>> \in Calls[q[x].kind]
    /\ Call(t, op, x, Nothing, n)

\* xSemaphoreTake on a mutex; xQueueTakeMutexRecursive by a task that does
\* not hold it.
TakeMutex(t) ==
  \E x \in Queues, n \in Ticks :
    /\ IsMutex(x) /\ q[x].mutexHolder # t /\ <<t, "receive", n>> \in Calls[q[x].kind]
    /\ Call(t, "receive", x, Nothing, n)

\* xSemaphoreGive by the holder; xQueueGiveMutexRecursive that unwinds the
\* last call. The block time is 0.
GiveMutex(t) ==
  \E x \in Queues :
    /\ IsMutex(x) /\ q[x].mutexHolder = t /\ q[x].recursiveCallCount <= 1
    /\ Call(t, "sendToBack", x, Nothing, 0)

\* xQueueAltGenericSend, with which the holder of a mutex gives it back
\* (xSemaphoreAltGive), and xQueueAltGenericReceive: their first critical
\* section is that of the calls above.
AltSend(t) ==
  \E x \in Queues, n \in Ticks, op \in Sends :
    /\ IF q[x].kind = "mutex" THEN q[x].mutexHolder = t /\ n = 0 /\ op = "sendToBack"
                              ELSE <<t, op, n>> \in Calls[q[x].kind]
    /\ \E item \in ItemsFor(x) : AltCall(t, op, x, item, n)

AltReceive(t) ==
  \E x \in Queues, n \in Ticks, op \in Receives :
    /\ <<t, op, n>> \in Calls[q[x].kind]
    /\ q[x].kind = "mutex" => q[x].mutexHolder # t /\ op = "receive"
    /\ AltCall(t, op, x, Nothing, n)

\* The holder takes a recursive mutex again, or unwinds a call that is not
\* the last.
Nest(t) ==
  \E x \in Queues, d \in {-1, 1} :
    /\ q[x].kind = "recursive" /\ q[x].mutexHolder = t
    /\ q[x].recursiveCallCount + d \in 1..MaxDepth
    /\ q' = [q EXCEPT ![x].recursiveCallCount = @ + d]
    /\ UNCHANGED <<k, pc, frame, asked, elapsed>>

\* vTaskDelay, in one step (Scheduler has it in detail): lets tasks of lower
\* priority run, whether this one holds a mutex or not.
Sleep(t) ==
  \E x \in Queues, n \in Ticks \ {0} :
    /\ <<t, "delay", n>> \in Calls[q[x].kind]
    /\ k' = vTaskSwitchContext(BlockCurrentFor(k, n))
    /\ UNCHANGED <<q, pc, frame, asked, elapsed>>

-----------------------------------------------------------------------------
(* Interrupt handlers. They do not yield. *)

xQueueGenericSendFromISR(x, item, op) ==
  LET e == <<x, "receive">>
      qn == prvCopyDataToQueue(x, item, op)
  IN  /\ ~IsMutex(x) /\ HasRoom(x) /\ q[x].txLock < MaxLocked
      /\ IF q[x].txLock = Unlocked
         THEN /\ q' = [q EXCEPT ![x] = qn]
              /\ k' = IF k.event[e] = <<>> THEN k ELSE xTaskRemoveFromEventList(k, e)
         ELSE /\ q' = [q EXCEPT ![x] = [qn EXCEPT !.txLock = @ + 1]]
              /\ UNCHANGED k
      /\ UNCHANGED <<pc, frame, asked, elapsed>>

xQueueReceiveFromISR(x) ==
  LET e == <<x, "send">>
      qn == Taken(x, NoTask)
  IN  /\ ~IsMutex(x) /\ HasItem(x) /\ q[x].rxLock < MaxLocked
      /\ IF q[x].rxLock = Unlocked
         THEN /\ q' = [q EXCEPT ![x] = qn]
              /\ k' = IF k.event[e] = <<>> THEN k ELSE xTaskRemoveFromEventList(k, e)
         ELSE /\ q' = [q EXCEPT ![x] = [qn EXCEPT !.rxLock = @ + 1]]
              /\ UNCHANGED k
      /\ UNCHANGED <<pc, frame, asked, elapsed>>

vTickISR ==
  /\ k.missedTicks < MaxMissed
  /\ \A t \in AllTasks : Timed(t) => elapsed[t] + k.missedTicks < MaxElapsed
  /\ k' = vTaskSwitchContext(vTaskIncrementTick(k))
  /\ TimePasses
  /\ UNCHANGED <<q, pc, frame, asked>>

Interrupt ==
  \/ vTickISR
  \/ \E x \in Queues : xQueueReceiveFromISR(x) \/ \E item \in ItemsFor(x), op \in IsrSends : xQueueGenericSendFromISR(x, item, op)

-----------------------------------------------------------------------------
Continue(t) ==
  \/ Retry(t) \/ SuspendAll(t) \/ LockAndCheck(t) \/ IsFullOrEmpty(t) \/ Place(t)
  \/ UnlockTx(t) \/ UnlockRx(t) \/ ResumeAll(t) \/ Yield(t)
  \/ AltSendWaits(t) \/ AltReceiveWaits(t)

\* Only the current task calls, and only outside of a call.
Begin(t) ==
  /\ At(t, "app")
  /\ \/ Send(t) \/ Receive(t) \/ TakeMutex(t) \/ GiveMutex(t) \/ Nest(t) \/ Sleep(t)
     \/ AltSend(t) \/ AltReceive(t)

Next == (\E t \in Tasks : Continue(t) \/ Begin(t)) \/ Interrupt

Spec == Init /\ [][Next]_vars

-----------------------------------------------------------------------------
(* Properties *)

TypeOK ==
  /\ k \in KernelState
  /\ \A x \in Queues :
       /\ q[x].messagesWaiting \in 0..uxLength(x)
       /\ q[x].writeTo \in DOMAIN q[x].store /\ q[x].readFrom \in DOMAIN q[x].store
       /\ q[x].mutexHolder \in AllTasks \cup {NoTask}
       /\ q[x].txLock >= Unlocked /\ q[x].rxLock >= Unlocked
  /\ pc \in [AllTasks -> Places]
  /\ \A t \in AllTasks : frame[t].ticks \in 0..asked[t] /\ asked[t] \in Ticks

\* Tasks in a call on x that do not wait: each looks at the queue again
\* before it blocks.
AboutTo(ops, x) ==
  {t \in Tasks : pc[t] # "app" /\ frame[t].op \in ops /\ frame[t].queue = x /\ IsReady(k, t)}

\* No wake-up is lost: when the queue is unlocked, tasks wait for items
\* (room) only if every item (free place) has a task about to take it,
\* whatever handlers did while the queue was locked.
NoLostWakeup ==
  k.schedulerSuspended = 0 =>
    \A x \in Queues :
      /\ k.event[<<x, "receive">>] # <<>> => q[x].messagesWaiting <= Cardinality(AboutTo(Receives, x))
      /\ k.event[<<x, "send">>] # <<>> =>
           uxLength(x) - q[x].messagesWaiting <= Cardinality(AboutTo(Sends, x))

\* A wait that is interrupted and taken up again is not shortened, and it
\* ends in time: a task on a timed wait has exactly what is left of the block
\* time it was called with; a call that gives up has waited all of it.
TimeoutHonest ==
  \A t \in Tasks :
    /\ IsDelayed(k, t) /\ ~IsPending(k, t) /\ pc[t] # "app" => asked[t] - elapsed[t] = (k.wake[t] - k.tick) % TICK_MOD
    /\ t \in k.suspended => asked[t] = portMAX_DELAY
    /\ pc[t] \in {"unlockTx", "unlockRx", "resumeAll"} /\ frame[t].next = "app" =>
         asked[t] # portMAX_DELAY /\ elapsed[t] >= asked[t]
    /\ pc[t] = "altWait" /\ TimedOut(k, frame[t].timeOut, frame[t].ticks) =>
         asked[t] # portMAX_DELAY /\ elapsed[t] >= asked[t]

\* The holder of a mutex has at least the priority of every task that waits
\* for it; a task that holds none has its own.
PriorityInherited ==
  /\ \A x \in Queues : \A t \in ToSet(k.event[<<x, "receive">>]) :
       q[x].mutexHolder # NoTask => k.priority[q[x].mutexHolder] >= k.priority[t]
  /\ \A t \in Tasks : k.priority[t] # k.basePriority[t] => \E x \in Queues : q[x].mutexHolder = t

\* The ring of items and its two pointers implement a bounded sequence.
Contents(x) == [i \in 1..q[x].messagesWaiting |-> q[x].store[(q[x].readFrom + i) % uxLength(x)]]

Promise == INSTANCE BoundedQueues WITH
  capacity <- [x \in Queues |-> uxLength(x)],
  contents <- [x \in Queues |-> Contents(x)]

ImplementsQueues == Promise!Spec
=============================================================================
