# MicroZedAMP: TLA+ models, checks and proofs

MicroZedAMP runs Linux on CPU0 and FreeRTOS V7 on CPU1 of a Zynq. The FreeRTOS
application (`latencydemo.c`) measures interrupt latency; the Linux program
`latencystat` controls it and prints the result. The two talk over rpmsg: two
rings in shared memory (`remoteproc.c`) and software interrupts in each
direction. Paths below are relative to
`src/src/FreeRTOS/sw_apps/FreeRTOS-AMP/src/`, or to the FreeRTOS `Source/`
directory for the kernel's files and its port (`port.c`, `portISR.c`,
`portmacro.h`).

## 1. Inventory

| component | state | operations | talks to |
|---|---|---|---|
| TX vring (`remoteproc.c`) | head, tail, ready, mutex, `txvring_kicks`, used ring, buffers | `__send_message`, `block_send_message`, `txvring_task`, `txvring_irq2` | sending tasks; Linux's virtio driver (shared memory, interrupts); kernel (semaphore, suspend / resume) |
| RX vring (`remoteproc.c`) | `rxvring_kicks`, used ring | `rxvring_irq3`, `rxvring_task`, `read_message`, the answers | Linux; `message_handler` (callback); TX vring |
| latency sampler (`latencydemo.c`) | two semaphores, enable flag, two histograms, timer registers | `task_latency`, `irq70_ttc`, `message_handler` | rpmsg channel; kernel; TTC timer |
| `latencystat` (Linux) | place in its command script; rows and bars of its graph | `rpmsg_send_message`, `rpmsg_read_response`, `print_graph_formatted`, `print_graph` | rpmsg channel |
| kernel: lists (`list.c`) | sorted and FIFO lists | insert, insert-end, remove, next entry | tasks, queues, timers |
| kernel: scheduler (`tasks.c`) | ready, delayed, suspended, pending-ready lists; ticks; scheduler-suspended count | create, delete, delay, suspend, resume, tick, switch, event lists, time-outs, priority inheritance, `vTaskList` | everything |
| kernel: queues (`queue.c`) | ring of items, two waiting lists, lock counters, holder | send, receive, peek, the alternative API, handlers' variants, lock / unlock, mutexes, semaphores | scheduler |
| kernel: timers (`timers.c`) | two timer lists, command queue | commands, expiry, tick overflow | scheduler, queues |
| port (`port.c`, `portISR.c`, `portmacro.h`) | nesting counter, interrupt mask, saved contexts, interrupt controller, trace buffer | critical sections, context switch, IRQ dispatch, tick handler; `xputs` (not modelled) | kernel above, hardware below |
| start-up (`main`, MMU and resource table, `heap_3.c`) | created objects, MMU sections, handlers | one straight line, each allocation of which may fail | everything, before the scheduler starts |
| `scutimer` driver and its two examples | registers of the private timer | initialise, load, start, stop, interrupts, self-test | port; interrupt controller |

What makes each correct, and what is hard about it:

- **TX vring.** Messages reach Linux in order, once, whole; Linux is interrupted
  only with its permission; nobody waits for ever. Hard: a message is reserved
  under the mutex, written outside it, published under it again; two parties
  publish (the sender and `txvring_task`); a 16-bit index is compared with a
  32-bit one; the kicks are counted in a handler and polled by a task that
  suspends itself.
- **RX vring.** Each kick is a request, each request is handled in order and
  answered completely. Hard: the same suspend race; a slot is read for each kick
  without a look at the ring Linux keeps; the buffer is returned before the
  handler has read it, and the answers take its address from there.
- **Latency sampler and `latencystat`.** The report holds all samples of the
  session and is not torn; START / STOP leave the timer and the semaphores as
  they were found; the graph shows the report. Hard: an interrupt handler, two
  tasks and a remote program share one histogram, of which a semaphore protects
  some accesses; rows and buckets are of different widths, in integer arithmetic.
- **Scheduler.** Tasks are in one list each, the highest-priority ready task
  runs, equal priorities take turns, delays are exact. Hard: ticks, wake-ups and
  yields that come while the scheduler is suspended; the overflow of the tick
  count; cached values (`uxTopReadyPriority`, `xNextTaskUnblockTime`); a report
  that walks through the lists it reports on.
- **Queues.** A bounded sequence; no lost wake-up; exact time-outs; priority
  inheritance. Hard: handlers add and remove items while a task is on its way to
  block; a wait that is resumed after another task took the item.
- **Timers.** A timer expires once per period, not early and not a lap late, also
  across the overflow of the tick count and with commands queued late. Hard: one
  sample of the time serves a whole loop of commands, to which handlers add.
- **Port.** Critical sections belong to the task that entered them, ticks
  go on, nothing runs before what it needs. Hard: one global nesting count for
  all tasks and handlers; timers that run on from the firmware before.

The hazards behind these are listed in `PROJECT.json`, each at its line.

## 2. Modules

| module | models | role |
|---|---|---|
| `RpmsgChannel` | – | abstract: a bounded FIFO channel |
| `TxVring` | `remoteproc.c` 95-313 | the TX ring; implements `RpmsgChannel` |
| `RpmsgLink` | – | abstract: requests handled in order, answers read in order |
| `RxVring` | `remoteproc.c`, RX side and answers | extends `TxVring`; both rings together implement `RpmsgLink` |
| `RpmsgEndpoint` | the link as its two ends see it | shared by the next two |
| `LatencyDemo` | `latencydemo.c` | sampler, interrupt handler, request handler |
| `LatencyStat` | `latencystat.c`, `latencyrpmsg.c` | the Linux client |
| `LatencyGraph` | `latencygraph.c` | rows and bars, as operators |
| `LatencySystem` | the last three joined by the link | composition |
| `TaskLists` | `list.c`, the helpers of `tasks.c` | functions from kernel state to kernel state |
| `Scheduler` | the task API of `tasks.c` | over `TaskLists`; implements `TaskStates` |
| `TaskStates` | – | abstract: states of tasks, and time |
| `Queue` | `queue.c` | over `TaskLists`; implements `BoundedQueues` |
| `BoundedQueues` | – | abstract: bounded sequences |
| `Timers` | `timers.c` | over `TaskLists` |
| `ScuTimer` | the private timer and its driver | functions from registers to registers |
| `Board` | `main`, `port.c`, `portISR.c`, `portmacro.h`, MMU set-up, examples | over `ScuTimer` |
| `TxVringProofs` | – | theorems about `TxVring`: credit, mutex, reservations; the ring as a channel |
| `RxVringProofs`, `LatencyProofs`, `BoardProofs` | – | theorems about `RxVring`, `LatencySystem`, `Board` |
| `SchedulerProofs` | – | theorems about `Scheduler`: its invariant, and the arithmetic of its delays |
| `QueueProofs` | – | theorems about `Queue`: its ring implements `BoundedQueues` |
| `KernelProofs` | – | lemmas for both: what each operation of `TaskLists` does to the lists |
| `FoldTheorems` | – | lemmas: induction over finite sets and over folds |
| `MC...` | – | instances for TLC |

### TX ring

A step of `TxVring` is a stretch of code between two places where another task
or a handler may come in: `Reserve` and `Bump` are the head of `__send_message`
inside the mutex, `Write` the header, data and used-ring entry written outside
it, `Commit` the second critical section. `TakeKick`, `NoKick`, `Suspend` are
`txvring_task`'s loop head, `Announce` and `Service` its two states.
`txvring_irq2` counts a kick and resumes the task if it is suspended;
`LinuxReceive` and `LinuxReturn` are the environment.

Data are abstracted to the number of the message: message `n` is the `n`-th
reservation and belongs into slot `n % VRING_SIZE`; `buf` says which message's
bytes a slot holds. Head and tail are naturals (32-bit in the code, and
`VRING_SIZE` divides 2^32); the index Linux reads is kept to its width, as
`published % IDX_MOD`.

Three stretches of that code are protected by nothing: `"write"` and `"commit"`
in `__send_message`, `"suspend"` between `vPortExitCritical` and
`vTaskSuspend`. The constant `Windows` says in which of them a switch (or, for
`"suspend"`, a kick) may fall. A run with a window closed considers only the
executions in which none falls there: what it shows holds of those executions,
and the runs `tx_write_race` and `tx_lost_wakeup` show what is lost in the
others. The theorems name the windows they need closed; most need none.

Assumed of Linux: one kick when its driver probes (`irq2_pending = 1` at the
start), then one kick per buffer it returns; it reads one message per interrupt;
it sends no request before it has read the announcement, so no task answers
before that.

### RX ring

`RxVring` extends `TxVring` by the other direction. `rxvring_irq3` counts,
`RxTakeKick`, `RxNoKick` and `RxSuspend` are the loop of `rxvring_task`;
`TakeSlot` and `ReadRequest` are `read_message` before the call of the handler,
split where the buffer has become Linux's again. The handler's answers are sends of
the task `RxTask` through `TxVring`'s own actions: one acknowledgement, and
`Segments` packets of a histogram for a GET. Each takes its destination from the
header in the request's buffer at the moment it reserves its slot, as
`block_send_message` does, so that a buffer written too early by Linux would be
seen. Linux's client leaves up to `pipeline` requests unanswered; two kicks
before the interrupt is taken are one interrupt.

### Latency measurement

`LatencyDemo` has one action per statement of `task_latency` that another actor
can observe, with the two semaphores `wait_for_irq` and `wait_for_clone` as
bits. `irq70_ttc` is one step (the application's handlers do not nest); a
`memset` or `memcpy` of the histogram is two, counters and then buckets, so that
a handler can run in between. `message_handler` handles one request after the
other and acknowledges it. `LatencyStat` is `main`'s script CLEAR, START, STOP,
CLONE, GET; it may be run again, and where `MayBeKilled`, killed at any place,
with what it left in the channel staying there. Assumed: the 10 s between START
and STOP contain at least one sample (`Slept`). `Overflow` is external: the TTC.

`LatencyGraph` has `print_graph_formatted`'s sorting of ticks into rows, and
`print_graph`'s bar as a number of whole blocks and eighths; only the length of a
bar matters to the property.

### Kernel

`TaskLists` holds the kernel's variables as one record `k` and the internal
functions of `tasks.c` as operators on it, under their names in the code, so
that what runs in one critical section remains one step of the modules above.
A list is a sequence: a ready list in the order in which
`listGET_OWNER_OF_NEXT_ENTRY` will visit it, so that taking the next task is a
rotation. `vListRemove` takes an item out wherever it is.

`Scheduler` steps through the API: a call that suspends the scheduler is
several steps (`DelayCall`, `DelayBlock`, `ResumeAll`, `Yield`), and ticks and
handlers (`SignalFromISR`, `xTaskResumeFromISR`) come between any two. Any task
may make any call at any time. `vTaskList` and `vTaskGetRunTimeStats` walk
through every list with `listGET_OWNER_OF_NEXT_ENTRY` and stop when they come
back to the first entry; that moves each ready list by one entry
(`AfterTaskReport`), so `RoundRobin` excepts that step. The walk begins at
`uxTopUsedPriority` (`topUsed`), the highest priority a task was created with;
`ListedUnlessRaised` says which tasks it may forget, and which not.

`Queue` does the same for `queue.c`: the first critical section (`Try`),
`SuspendAll`, `LockAndCheck`, `IsFullOrEmpty`, `Place`, the two halves of
`prvUnlockQueue`, `ResumeAll`, `Yield`, and back to `Try`. The alternative API
waits inside one critical section instead (`AltWait`), and tasks of both kinds meet at one
queue. `Sleep` is `vTaskDelay` in one step, which `Scheduler` has in detail.
The handlers of this program ignore the "yield required" result, so a woken
task waits for the next switch; the ghost `ignoredYield` records that, and
`RunsHighest` excludes exactly those moments.

`Timers` is the timer task with the functions it calls as steps of their own where an
interrupt may come between (`next`, `suspendAll`, `decide`, `expire`, `sample`,
`switch`, `receive`), and commands by a task and by handlers. A command is
stamped with the tick count when the call is made, and may be sent up to
`MaxAge` ticks later. The ghost `left` counts down each timer from its last
start; it is what the lists are compared with. The ghost `hurried` holds the timers
whose last START a handler stamped after the timer task had sampled the time;
the code takes some of these for late ones (section 4), and `NeverEarly` and
`PlaceTellsDue` except them. A command for a timer whose memory was freed
(`UseFreed`) ends the execution: what follows is undefined.

### Board

`Board` is one core from reset on. `Script` lists the calls of `main` (and of
the driver's two examples) in the order of the code, `Step` makes the next one;
an allocation may fail, which stops the system in its hook or ends `main`. From
`vPortISRStartFirstTask` on, any task may run; the module has the nesting count,
the mask bit, and what a context switch saves of them. A handler is several
steps (`CountTick`, `ClearTick`, `KickEnters`, `KickLeaves`). The timer's
registers are a record of `ScuTimer`, whose hardware counts by `Count`.
At reset the private timer, the sampling counter and the controller may be in any
state a firmware before has left them in: either may count, and the interrupt of
either may wait. `setup_handler` stops the sampling counter, and `StartedMeansReady`
depends on that. A firmware that was stopped inside its tick handler leaves
the timer's line up with nothing waiting (`StoppedInTick`); the line never rises
again, and `TicksGoOn` and the interrupt example's end except that start (section 4).

## 3. Runs

| run | question | result |
|---|---|---|
| `tx_fifo` | With no switch inside a window, is the ring a bounded FIFO channel (`ImplementsChannel`: nothing lost, repeated, reordered or torn), without overwriting (`NoOverwrite`) or stranding a message (`NothingStranded`), with one permission to publish (`OneCredit`) and the mutex held exactly inside critical sections (`MutexHeldInside`), and does every blocked send return (`SendReturns`, `ReservedIsRead`)? | yes |
| `tx_write_race` | Is what Linux is interrupted for completely written? | no, finding 1 |
| `tx_idx_wrap` | Is only published what a task reserved? | no, finding 2 |
| `tx_lost_wakeup` | Is every counted kick served? | no, finding 3 |
| `rpmsg` | Are the two rings together the link the programs rely on (`ImplementsLink`), is there a request for each kick (`KicksMatchRequests`), does a client that waits get every answer (`EveryRequestAnswered`)? | yes |
| `latency` | One client after the other: does the report hold every sample since CLEAR (`ReportComplete`), whole (`SnapshotConsistent`, `CopyUndisturbed`), does the graph show it (`GraphShowsReport`), is no give of the semaphore lost (`NoGiveLost`), does every session end, does STOP leave the timer off and both semaphores available? | yes |
| `latency_clear` | Is the snapshot consistent if a client was killed? | no, finding 4 |
| `latency_edge` | Is every sample in a bucket or counted as out of range? | no, finding 5 |
| `scheduler` | Arbitrary calls, ticks and interrupts: do the lists agree, does the highest ready task run (`RunsHighest`), are the time lists sound, delays exact, turns fair (`RoundRobin`), is `TaskStates` implemented, and does `vTaskList` forget none but raised tasks (`ListedUnlessRaised`)? | yes |
| `queue` | Blocking calls of both APIs against handlers and ticks: no lost wake-up, honest time-outs, inherited priorities, `BoundedQueues` implemented? | yes |
| `timers` | Does no callback run early (`NeverEarly`), does the timer task never sleep past a timer (`SleepsNoLonger`), is every timer in the list its due time belongs to (`PlaceTellsDue`), does an auto-reload timer go on until a STOP or DELETE, or a full queue, ends it (`AutoReloadGoesOn`), does every due timer expire (`DueExpires`)? | yes; `NeverEarly` and `PlaceTellsDue` but for hurried timers |
| `board` | Are critical sections private (`NestingPrivate`), is everything there when it is used (`StartedMeansReady`), whatever the firmware before left, do ticks go on (`TicksGoOn`), do the examples end (`ExamplesEnd`)? | yes |

Each property of the passing runs has at least one mutant in `PROJECT.json`, a
plausible bug of the code under which TLC finds it violated. The mutants stand
next to what they mutate, as `<definition>_<bug>`. `TypeOK` of the modules whose
run does not list it (`Queue`, `Timers`, `RxVring`, `LatencySystem`) was checked
while the modules were written.

### Bounds, and why they are enough

- **TX.** A ring of 3 slots is the smallest in which two messages wait; up to 6
  reservations lap it twice and fill it. Three tasks send (`txvring_task` its
  announcement, `rxvring_task`, and one more), so two can meet in `__send_message`
  while a third services kicks. `IDX_MOD` is a multiple of the ring size as 2^16
  is of 256, and larger than the number of messages except in `tx_idx_wrap`.
  `MaxSends` stops new sends, `MaxReads` Linux; the latter is never reached in
  `tx_fifo`, or the liveness properties would mean nothing.
- **rpmsg.** Rings of 2 slots, 3 requests, a histogram of 2 packets: the requests lap
  the RX ring and one GET's answers lap the TX ring. Clients wait for
  each answer or leave two requests unanswered. The windows are closed;
  with `"suspend"` open, a request can be stranded as in finding 3.
- **Latency.** Four buckets, of which two share a row of the graph, one has
  the next row to itself and one is too late for it, and a value outside; two
  buckets and the edge value in the two runs of the findings; 3 samples between
  two CLEARs; 2 requests in the channel, which only a killed client reaches.
  Sessions repeat without bound.
- **Scheduler.** Two tasks and the idle task, created at the lower of two priorities
  (so a task may be raised above every created one), an event list, the
  tick count modulo 4, so it overflows within every delay; delays 0, 1 and 3
  (`portMAX_DELAY`); `vTaskDelayUntil` called on time and 2 ticks late; 2 missed
  ticks. Tick and task state recur, so this covers executions of any length.
- **Queue.** One queue, which is a data queue of 2 places, a semaphore of 2 that
  starts at 1, a mutex or a recursive mutex (taken to depth 2), with calls by tasks
  of two priorities that block for ever, for 2 ticks, or not at all (the data queue has the
  unlimited send, the semaphore the timed one); in each but
  the last a task or two (`AltUsers`) also call the alternative API. A handler sends
  and receives at most twice while the queue is locked (`MaxLocked`; the code's
  lock counters have no bound). `MaxMissed` is 1 and `MaxElapsed` 3: a timed wait
  is not held up for as many ticks as the tick count has values, which in the code
  are 2^32 (`TimeOutExact`, section 5, says what happens up to that).
- **Timers.** One timer of periods 1 and 3, the tick count modulo 6, so that
  every period may cross its overflow; a command queue of 2; commands stamped up
  to one tick before they are sent (`MaxAge`), one from a handler in one turn
  of the timer task's loop (`MaxIsr`), two ticks while that task is busy (`MaxBusy`).
  The timer task is thus held up for less than a lap of the tick count between two
  samples; in the code a lap is 2^32 ticks.
- **Board.** Two tasks with critical sections,
  2 deep over all of them; a timer that expires at each count, left idle, counting
  or expired by the firmware before, and a sampling counter likewise; a resource table
  with a trace entry and three device entries.

Deadlock is checked in `scheduler`, `queue` and `timers`. The ring runs stop at
their bounds, `latency` when no further sample fits, `board` when an allocation
failed or an example has ended; their liveness properties say what may not be left
waiting.

### Fairness

`TxVring!FairSpec`: weak fairness of every task's steps, of the handler and of
Linux: tasks of equal priority are switched at each tick, and all of the
application's tasks have the same one. Taking the mutex is strongly fair: the
others yield, or are preempted, outside their critical sections too, waiting tasks
of one priority are woken in order, and `RoundRobin` (`scheduler`) shows that a
woken task gets its turn. `RxVring!SysFairness` adds the same for `rxvring_task` and
its handler; nothing makes the client write.
`LatencySystem` assumes the same, with strong fairness for the one semaphore that
message_handler waits for (`CloneLock`); it assumes nothing about the user, who
may or may not run or kill `latencystat`. `Timers!Fairness`: the current task goes on,
and time passes where the bound allows it. `Board!Fairness`: main and handlers
go on, an outermost critical section is left again and again, the timer counts, the
tick's interrupt is not for ever passed over for others, and the polling example
looks at the counter often enough to see it change. `Scheduler` and `Queue` state
no fairness: their promises about progress are stated as safety (`RunsHighest`,
`RoundRobin`, `NoLostWakeup`, `DelaysExact`), which does not depend on what
applications do.

## 4. Findings

1. **A message is published before it is written** (`tx_write_race`). Between
   the reservation and the end of the write, a kick served by `txvring_task` finds
   `ring_tx_used->idx != ring_tx_used_head` and publishes the slot. Linux reads
   the previous content. The other window has a related effect, which no run shows: a
   message that `txvring_task` publishes while its sender waits for the second lock
   makes the sender publish once more.
2. **The comparison of a 16-bit with a 32-bit counter** (`tx_idx_wrap`): after
   65536 messages they never agree again, and every kick publishes a stale slot.
3. **Lost wake-up** (`tx_lost_wakeup`): the critical section ends before
   `vTaskSuspend(NULL)`, so a kick in between is counted and not served; as Linux
   kicks only in return, none follows. `rxvring_task` has the same structure.
4. **CLEAR takes no semaphore** (`latency_clear`): it tears the histogram when it
   comes during sampling, as after a client was killed.
5. **A sample of exactly `HISTOGRAM_SIZE`** (`latency_edge`) increments the word
   behind the array and is counted nowhere.

Met while modelling, and not the subject of a run:

- `1 / portTICK_RATE_MS` is 0 with 10 ms ticks, so these delays only yield;
  `memset(hdr, 0, (char)PACKET_LEN_MAX)` clears nothing, although its comment says
  it clears the message; `task_latency` starts the counter before it enables the
  interrupt.
- `xputs` runs without a lock: its critical section is commented out (`port.c`
  262, 276), and the comment above `safe_printf` (`port.c` 312-315) speaks of a
  semaphore that nothing takes. Tasks that log preempt each other, so a comparison with
  the end of the buffer may be stale when the copy begins, and the copy then leaves the
  buffer. A string that was cut leaves the write position at the start of
  the buffer, so the next one overwrites its second part. There is nothing to promise of
  the trace buffer, and it is not modelled.
- `setupIRQhandler` (`port.c` 401-404, 418) clears the pending bit at an address
  in the driver's instance instead of the controller's, and clears nothing. A firmware
  stopped inside its tick handler (between the interrupt's acknowledgement and the
  clearing of the event flag) leaves the flag set, and the next one gets no ticks: the
  private timer's interrupt is one of edge, and nothing in the set-up clears the flag.
- A request that came before `task_latency` had created its semaphores
  (`latencydemo.c` 319) would use a null handle; only the timing of the start
  excludes it.
- `prvProcessReceivedCommands` samples the time once, before its loop (`timers.c` 502). A
  START that a handler stamps with a later tick has its time in the future of that
  sample, and `prvInsertTimerInActiveList` takes it for one from before an overflow
  (`timers.c` 476-482, against its comment at 478-480): the callback runs at once,
  and that of an auto-reload timer over and over, until its next time has come round the tick
  count. A CHANGE_PERIOD counts from the sample and not from the call.
- A timer that is still in the current list when the lists are exchanged expires there,
  and if it is to be reloaded for a time behind the overflow, its START goes through the
  command queue (`timers.c` 598-613). There it may come behind a STOP or DELETE, or
  behind the callback's own STOP: the STOP is then undone, and after the DELETE a freed
  timer is used (`UseFreed`; for a task's DELETE this takes two ticks during one turn of
  the timer task's loop). If the queue is full, the timer stops for good; the
  assertion that would tell is compiled out.
- `vTaskList` begins at `uxTopUsedPriority`, which only the creation of tasks raises
  (`tasks.c` 552-555, 1327): a task that `vTaskPrioritySet` raised above every created
  priority is not listed, against "Lists all the current tasks" (`task.h` 1026). It
  moves each ready list by one (`tasks.c` 2204-2221), so a task
  misses its turn, against "an equal share of the processor time"
  (`tasks.c` 1706-1708); a task blocked without time limit is listed as
  suspended (S), where `task.h` 1029-1030 promises blocked (B).
- A task whose timed wait for a mutex ends leaves the holder with the inherited
  priority until it gives the mutex back, which it then does without a yield
  (`queue.c` 1097); the event list of a queue keeps its order when the priority of
  a waiting task changes (`tasks.c` 2420).
- With a `value_increment` of 20, a remainder of 1 in `print_graph` is drawn as one
  eighth of a block and not half a block.
- The examples of the timer driver would wait for ever if their timer expired
  between loading it and the loop; their periods are long enough
  (`PeriodIsLong`).

## 5. Proofs

Every theorem holds for all values of the constants that the named assumptions
of the module admit; TLC evaluates these assumptions in the runs.

| theorem | module | states | holds |
|---|---|---|---|
| `TypeCorrect` | `TxVringProofs` | `[]TypeOK` | always |
| `CreditConserved` | `TxVringProofs` | `[]OneCredit` | always |
| `MutexCorrect` | `TxVringProofs` | `[]MutexHeldInside` | always |
| `ReservationsDistinct` | `TxVringProofs` | `[]ReservationsUnique` | always |
| `FullTestKeepsSlotsApart` | `TxVringProofs` | `[]OutstandingSlotsDiffer` | always |
| `TailBehindReader` | `TxVringProofs` | `[]ReturnedIsRead` | always |
| `NothingOverwritten` | `TxVringProofs` | `[]NoOverwrite` | `WriteClosed` |
| `NobodyStranded` | `TxVringProofs` | `[]NothingStranded` | `WindowsClosed`, `[]IndexUnwrapped` |
| `OnlyReservedPublished` | `TxVringProofs` | `[]NothingInvented` | the same |
| `OnlyWrittenPublished` | `TxVringProofs` | `[]PublishedIsWritten` | the same |
| `RingIsChannel` | `TxVringProofs` | each step is a step of `RpmsgChannel` or none | the same |
| `OnlyRequestsRead` | `RxVringProofs` | `[]NoEmptyRead`, half of `KicksMatchRequests` | always |
| `CopyIsUndisturbed` | `LatencyProofs` | `[]CopyUndisturbed` | always |
| `GivesCount` | `LatencyProofs` | `NoGiveLost`, an action property | always |
| `SnapshotIsConsistent` | `LatencyProofs` | `[]SnapshotConsistent` | `NobodyKilled`, `NoEdge` |
| `ReportIsComplete` | `LatencyProofs` | `[]ReportComplete` | the same |
| `EverySampleIsCounted` | `LatencyProofs` | `[]EverySampleCounted` | the same |
| `GraphShowsTheReport` | `LatencyProofs` | `[]GraphShowsReport` | the same and `AxisFine` |
| `CriticalSectionsPrivate` | `BoardProofs` | `[]NestingPrivate` | always |
| `SetupComplete` | `BoardProofs` | `[]StartedMeansReady` | always |
| `ShouldDelayExact` | `SchedulerProofs` | `vTaskDelayUntil` blocks iff the wake time is still to come | always |
| `TimeOutExact` | `SchedulerProofs` | a time-out is told iff the block time has passed | always |
| `KernelTypes` | `SchedulerProofs` | `[]TypeOK` | always |
| `ListsAlwaysAgree` | `SchedulerProofs` | `[]ListsAgree` | always |
| `HighestRuns` | `SchedulerProofs` | `[]RunsHighest` | always |
| `DelayedListsSound` | `SchedulerProofs` | `[]TimeListsSound` | always |
| `DelaysAreExact` | `SchedulerProofs` | `DelaysExact`, an action property | always |
| `TurnsAreFair` | `SchedulerProofs` | `RoundRobin`, an action property | always |
| `TasksKeepTheirPromise` | `SchedulerProofs` | `ImplementsTaskStates`, the refinement of `TaskStates` | always |
| `RingsAreSequences` | `QueueProofs` | `ImplementsQueues`, the refinement of `BoundedQueues` | always |
| `NoWakeupIsLost` | `QueueProofs` | `[]NoLostWakeup` | always |
| `TimeOutsAreHonest` | `QueueProofs` | `[]TimeoutHonest` | always |

The hypotheses are those of the runs, and each is needed: `WindowsClosed` (and
`WriteClosed`, its half) without which finding 1 is the counterexample;
`IndexUnwrapped`, finding 2; `NobodyKilled`, finding 4; `NoEdge`, finding 5. `AxisFine`, that a block of the graph's bars
stands for at most 8 samples, is a bound of the proof; a block of the program stands
for 2.

**TX, credit and mutex.** `OneCredit` is not inductive alone: when Linux takes an
interrupt and finds no new message, the credit vanishes. `IrqHasMessage` excludes
that: the messages Linux has read and the interrupt pending at it, 0 or 1, add up
to the messages published, so with an interrupt pending the two 16-bit indices are
one increment apart. That they then differ is arithmetic modulo `IDX_MOD`
(`Division`, `RemaindersDiffer`, `NextIdxDiffers`), with `IDX_MOD > 1` from
`SizeAssumption`. `ReservationsUnique` is not inductive either: a second task could
reserve at the same head between a reservation and its `Bump`. The mutex
excludes it (`OneInside`), and the bound of all reservations in progress by the
head separates those past `Bump` from the next one.

**TX, the channel.** Four invariants build on each other. `HeadBehindTail`: the
reservations not yet returned are fewer than `VRING_SIZE`, although `Reserve`
compares remainders only; two of them in one slot would be a ring size apart.
`AnnounceInv` ties `txvring_task` to Linux's first kick, which returns no buffer:
until the announcement nothing is delivered, so the tail stays behind the reader.
`PublishInv`, for closed windows, is why one comparison of `idx` with `head` is
enough: the task in the middle of a send is the last to have reserved
(`SenderIsLast`), so at most its message is missing from `published`, and the flag
`ring_tx_ready` is up only when nothing waits (`ReadyIsUpToDate`). `WrittenIntact`
carries each message's bytes from its write to its reading. `RingIsChannel` then
maps the steps one by one: `Write` and `Commit` send, `LinuxReceive` receives, all
others leave the channel alone.

**RX.** A kick moves from Linux's interrupt to the count to the task that reads;
only `LinuxWrite` adds one, together with a request. The other half of
`KicksMatchRequests` (no request without a kick, for a client that waits) needs
the order of the answers in both rings and is left to TLC.

**Latency, the semaphores.** `CopyUndisturbed` speaks of an interrupt that takes no
semaphore. The invariant (`IInv`) says who owns what: `wait_for_clone` is taken by
the sampler or by the request handler, never both (`CloneTakenOnce`); the interrupt
is enabled only while the sampler owns it and `wait_for_irq` is taken
(`IrqOwned`); and `sampling_running` tells at the head of the loop whether the
sampler owns it (`RunningAgrees`). The client does not matter here, so both
theorems hold with clients killed at any place, where the snapshot itself may be
torn (finding 4).

**Latency, the report.** What the client prints is the end of a chain through
every actor, and `ReportInv` has a clause per link. `OneAtATime`: one request or one
answer is under way, and which one follows from the client's place in its script.
`HandlerFollows`: `message_handler` is at that request. `SamplerFollows`: between
CLEAR and START, and from CLONE's copy on, the sampler is at rest, because CLONE
waits for its semaphore. `TakenFollows` counts the samples since CLEAR.
`HistFollows` says what both histograms then hold: nothing, the samples taken, or
the copy of them; counters and buckets agree by lemmas about the sum and the last
non-empty bucket, which are folds (`FoldTheorems`). For the graph, each bucket falls
into exactly one row, and a bar is monotone in its number of samples.

**Board.** `NestingPrivate` says what a running task sees. The invariant adds
what makes that last: the saved contexts of all tasks while a handler runs, the levels a
handler has added (1, or 2 inside its own critical section), and main's count,
which is above that of any critical section, so that no allocation of main
turns interrupts on. That the firmware's script never unmasks them, as an
example's does, is `AmpNeverUnmasks`. `StartedMeansReady` holds because of the order of
`main`'s script: `ReadyInv` says for each thing that is set up which places of the
script are behind it, and that it is not undone; which call stands at which place is
computed from the script (`ScriptPlaces`, `StepPlace`), and that the walk through the
resource table enters every device is induction along it (`MmuWalk`). Of the sampling
counter, which the firmware before may have left running with its interrupt waiting,
`TtcReady` says that once main has stopped it, it runs and interrupts only where its
semaphores exist; the stop in `setup_handler` is what establishes it.

**Kernel, the scheduler.** One invariant, `SInv`, carries the type and the four
properties of the run; each of the actions of `Scheduler` has its lemma
(`...Inv`). None of the properties is inductive alone, and not even the five
together: `vTaskSwitchContext` finds the highest task only if `uxTopReadyPriority` is not
below any ready one, `vTaskDelay` puts the caller into one list only if it was in
no other than its ready list, and a tick wakes all that is due only if the delayed list is
sorted. `SInv` has five parts.

- `Sound` (`KernelProofs`): no list holds a task twice; the two list items of each task are
  in at most one list each, the ready list being that of its priority, and an event
  item only if the task is blocked (`InPlace`); `uxTopReadyPriority` bounds the non-empty
  ready lists, and the idle task is ready (`TopKnown`), so that the search downwards ends.
- `TimesSound`: both delayed lists are sorted, one lies ahead of the tick count and the other
  behind it, and no wake time is before `xNextTaskUnblockTime`. It is broken for the moment
  between the increment of the tick and `prvCheckDelayedTasks` (`TimesOverdue`),
  whose loop restores it (`ChecksDelayed`).
- `Control`: the scheduler is suspended exactly while the current task is inside a
  call that did so, nobody else is inside one, nothing is put off otherwise; the idle
  task reaps only what was deleted; the current task is ready unless it has just
  blocked. The last clause, that no priority is inherited, is why the invariant is
  `Scheduler`'s and not the kernel's: there are no mutexes here.
- `Top`: nobody who is ready goes before the current task, except for a yield under way
  or a handler that woke someone without one; a task between `xTaskGenericCreate`'s
  critical section and its yield may be below the one it created, and not
  below any other.
- `CallTypes`: types of what is not in the kernel.

That each task is in *some* list follows at the end, from the definition of
`Existing`. Loops of the code are folds here: waking what is pending
(`WakesAll`), the missed ticks (`TicksAll`), main's creations (`CreatesAll`); each is an
induction by `FoldTheorems`. `SchedulerAssumption` says that main creates each task
once, as its code does. `DelaysAreExact` needs `SInv` for the argument of a call
in progress, and the arithmetic below for the ticks. TLC found no state of the run
`scheduler` that violates `SInv`.

**Kernel, taking turns.** `TurnsAreFair` compares each ready list before and after a step. All
that the code does to one comes down to three moves (`Queues`, `Rotated`): tasks go to the end, one
task is taken out, and the first goes behind the others as it gets the processor. None of them lets
a task overtake one that waits (`OrderKept`), and a step makes the last move at most once, after
the others: `xTaskResumeAll`, which may wake many tasks, let many ticks pass and then
switch, is such a step (`TookTurn`). A task whose priority changes goes to the end of its new list. That
a task is in no ready list but that of its priority (`Sound`) makes the turn of one
list no affair of the others.

**Kernel, the promise.** `TasksKeepTheirPromise` maps each step of `Scheduler` to a step
of `TaskStates` or to none (`StepPromised`, a lemma per action). What the promise calls the state of
a task is told by the list it is in, and `Sound` makes that one state (`OneState`,
`ListStateIsState`). It is not what `vTaskList` prints, which forgets raised tasks. Calls that suspend the scheduler are `Hold`, those that
resume it `Release`, and what blocks, wakes, creates or deletes one task moves that one alone
(`EntersAlone`); switches, priorities and reports are not seen. The core is time: `Elapsed` says of any
number of ticks which tasks they wake and what is left to the others, whichever of the two
delayed lists these are in and wherever the count wraps (`IncrementsTick`, `TicksAll`), and
`CaughtUp` says the same of `xTaskResumeAll`, which first moves the pending tasks and then
makes up for the ticks; `PromiseSettles` finds in both the tasks that the promise makes ready.

**Kernel, the arithmetic.** `ShouldDelayExact` and `TimeOutExact` are about the tick
count of any width and all values of the times involved; `TimeOutExact` holds up to
and including one whole lap, which is as far as the overflow counter lets
`xTaskCheckForTimeOut` see.

**Kernel, the queues.** `RingsAreSequences` maps every step of `Queue` to a step of
`BoundedQueues` or to none, for any set of queues of any kinds and lengths. A record of a queue
keeps three accounts of its items, `uxMessagesWaiting`, `pcWriteTo` and `pcReadFrom`, and `Ring`
says how they agree: `pcWriteTo` is `uxMessagesWaiting + 1` places after `pcReadFrom`, which
points one place before the first item. `JoinsBack`, `JoinsFront` and `LeavesFront` are the three
moves on the ring; they come down to which places of a ring are apart (`ApartOnRing`). A
semaphore and a mutex hold nothing and move neither pointer (`NoData`). `CallsInv` adds what a
call in progress carries from one critical section to the next: a queue and an item, through
any number of retries (`ContinueStep`) and whatever handlers did to the locked queue
(`InterruptStep`). The theorem is about safety, as the abstract specification is.

**Kernel, no lost wake-up.** `NoLostWakeup` speaks of the moments at which the scheduler runs, and
says then that while a task waits for an item (for room) there are as many ready tasks that will look
as there are items (free places). It is not inductive: between `vTaskSuspendAll` and
`xTaskResumeAll` a handler that finds the queue locked wakes nobody and only counts, a task woken
then is pending and not ready, and the current task joins the event list at a place where
it is still the one that runs. `WakeInv` says what holds in every state. `EnoughFor`, for each end
of each queue: what is there is no more than the tasks that are awake, ready or pending, and on
their way to look (`Takers`), plus the wake-ups that the lock of that end still owes (`Late`).
`WaitersFit`: who is in an event list is in a call on that end of that queue. `CallFits`: who is
about to wait (`Place`) saw nothing to take, or what came since was counted by the lock. `LocksFit` and
`HeldInv`: a queue is locked, and the scheduler suspended, exactly by the current task's call,
and nothing is pending otherwise. `MutexFits`: a mutex that is taken has a holder, whose
priority can be raised, and no handler touches it. Of the kernel the proof needs `Sound` and
`TimesSound` of the scheduler's invariant, with priorities that are inherited, and one relation per
operation: `Follows` (nobody goes to sleep, whoever is awake stays awake; `TickFollows`,
`ResumeRises`, `InheritFollows`, `DisinheritFollows`) or `Parted` (the current task alone goes to
sleep). Each step of `Queue` is then one of two: it wakes tasks at most, and as many as
it adds to what is there (`RisingKeeps`), or it puts the current task to sleep at
a queue that has nothing for it (`SleepingKeeps`). A task that takes an item leaves `Takers` with it,
so one item never serves two. The proof assumes finitely many tasks, and that `main` creates each
task once (`QueueAssumption`). TLC found no state of the run `queue` that violates `WakeInv`.

**Kernel, honest time-outs.** `TimeoutHonest` compares what a wait really took (the ghosts
`asked` and `elapsed`, in plain naturals) with what the code can see of it: a tick count modulo
2^w, an overflow count, the time noted last and the ticks that were left then. It speaks
of tasks that wait or give up, and says nothing of a call between two critical sections.
`TimeInv` does (`CallTimed`), of every task at every place of its call: with `Since` the ticks
counted since the time was last noted, the tick count is `timeOnEntering + Since` modulo `TICK_MOD`; the
overflow count has gone on only if that sum has passed `TICK_MOD`; the frame's block time is what is
left of the call's; a delayed task has that much left on the kernel's delayed list; and a call that
is on its way out has waited all of it. `CheckIsExact` draws from it that `xTaskCheckForTimeOut`
decides rightly, `TimedNoted` that the time it notes then keeps the relation. Time passes in
two steps only: the tick, and `xTaskResumeAll`, which makes up for the missed ticks in one go.
`TickCounts` and `ResumeCounts` of `KernelProofs` say of them how far the count moves, when the
overflow count does, and whose waits get shorter by how much. Every other step keeps the times of all tasks but
the current one (`Still`). A wait is not held up for a whole lap of the tick count
(`MaxElapsed < TICK_MOD`, and the tick's guard); beyond it `xTaskCheckForTimeOut` itself cannot
tell. TLC found no state of the run `queue` that violates `TimeInv`.

**Induction.** The library's induction theorems take an operator as a parameter,
which the installed provers cannot instantiate. `FoldTheorems` does without: an
induction is stated over a *set* of naturals, or a set of finite sets (`SetInduction`),
closed under the step, and the fold of the community modules is characterised by
the function it runs along. It gives what the proofs use of folds: their step, their
independence of the order of choice, sums, maxima.

Only model-checked: liveness and `ENABLED`, which are out of the prover's reach, and
with them the liveness parts of `ImplementsChannel` and `ImplementsLink`; the other
half of `KicksMatchRequests` (no request without a kick, for a client that waits),
which needs the order of the answers in both rings, and these are filtered by
`SelectSeq`, of which the provers know nothing; of `Queue`, who inherits which priority (`PriorityInherited`, which a second
mutex can break: a task gives back all that it inherited with the first one); of `Scheduler`, `ListedUnlessRaised`; all of `Timers`, and of `Board` what is
about progress (`TicksGoOn`, `ExamplesEnd`). `ReservationsUnique` is proved only: where no
task may be switched out inside a send, it says no more than `MutexHeldInside`.

## 6. Not modelled

- The port's assembly beyond what it saves and restores of nesting and mask; the
  bits of MMU entries beyond what they allow; co-processor registers.
- The trace buffer and `xputs` (section 4).
- What `task_demo` logs of its own delay; wording and layout of all output, the
  graph's axes and labels, the hexadecimal dump.
- `vPortFree`, and what `malloc` does. In the driver, the prescaler, the
  macro that disables the interrupt, and the generated documentation.
- In the kernel: queue deletion, `xQueueReset` after creation, the registry, the
  co-routine API (compiled out), trace hooks, task tags, stack checks, functions
  that only report, the percentages of `vTaskGetRunTimeStats`.
- In `latencystat`: errors of read and write; what Linux's driver keeps when the
  device is closed and opened again.
- Build, board and linker files: configuration.

## 7. Plan

1. Two queues: the order of waiting tasks after a priority changed, and a task
   that holds a mutex while it waits elsewhere.
2. `PlaceTellsDue` and `NeverEarly` of `Timers`, with the lemmas of `KernelProofs`
   on the tick count.
3. The other half of `KicksMatchRequests`, from an invariant on the order of answers
   that counts them and does not filter.
