--------------------------------- MODULE Board ---------------------------------
(***************************************************************************)
(* One core of the board from reset on: what main sets up before the       *)
(* scheduler runs (latencydemo.c, remoteproc.c, port.c), and the layer     *)
(* under the kernel afterwards (portISR.c, portmacro.h): masking, nesting, *)
(* context switches, the tick's timer and the interrupts.  The same core   *)
(* also runs the two examples of the timer driver.                         *)
(*                                                                         *)
(* Which task runs is the kernel's choice (module Scheduler); here it may  *)
(* be any task.                                                            *)
(***************************************************************************)
EXTENDS ScuTimer, Sequences, FiniteSets, SequencesExt

CONSTANTS
  Programs,       \* the programs to start: "amp", "polled", "intr"
  LOAD,           \* the timer's load value
  Sections,       \* sections of the address space: 0 .. n
  resources,      \* the resource table's entries, in order
  MMUTable,       \* the section that holds the MMU table
  CriticalTasks,  \* bound: the tasks that enter critical sections
  MaxNesting      \* bound: critical sections entered at a time, over all tasks

TICK == 29        \* the private timer, XPAR_SCUTIMER_INTR
TTC == 70         \* the sampling counter
Kicks == {2, 3}   \* Linux's kicks for the TX and the RX ring
Irqs == Kicks \cup {TICK, TTC}

AppTasks == {"TXVRING_TASK", "RXVRING_TASK", "TIMER", "TASKDEMO"}
Tasks == AppTasks \cup {"IDLE"}
Objects == Tasks \cup {"stdio", "hist", "txring_mutex", "wait_for_irq", "wait_for_clone"}

ASSUME BoardAssumption ==
  /\ Programs \subseteq {"amp", "polled", "intr"}
  /\ LOAD \in Nat \ {0}
  /\ MMUTable \in Sections
  /\ resources \in Seq([type : {"TRACE", "MMU"}, da : Sections])
  \* The MMU entries are the devices' sections; the table is in memory.
  /\ \A i \in DOMAIN resources : resources[i].type = "MMU" => resources[i].da # MMUTable
  /\ CriticalTasks \subseteq Tasks /\ MaxNesting \in Nat

VARIABLES
  program, pc,            \* pc: the step of main's script that is next
  mode,                   \* "main", "task", "irq", "halted", "done"
  masked,                 \* bit: the core takes no interrupt
  ulCriticalNesting,
  pxCurrentTCB,
  ctx,                    \* the saved nesting and mask bit of each task
  irq, stage,             \* the interrupt being handled and how far its handler is
  tm, Timer,              \* the private timer's registers, the driver's instance
  enabled, connected, pending,   \* the interrupt controller, as sets of interrupts
  made,                   \* the objects that were allocated
  handler, mmu, ttc,
  TimerExpired, looked,   \* the interrupt example's count, and main's copy of it
  depth                   \* critical sections each task is in (history)

kernelVars == <<mode, masked, ulCriticalNesting, pxCurrentTCB, ctx, irq, stage, depth>>
timerVars == <<tm, Timer, pending>>
gicVars == <<enabled, connected>>
setupVars == <<made, handler, mmu, ttc>>
exampleVars == <<TimerExpired, looked>>
vars == <<program, pc, kernelVars, timerVars, gicVars, setupVars, exampleVars>>

\* pxPortInitialiseStack: no critical section, interrupts on.
FirstContext == [nesting |-> 0, masked |-> 0]

\* ulCriticalNesting is 9999 until the first task runs, so that no critical
\* section of main turns interrupts on; here anything above MaxNesting.
BootNesting == MaxNesting + 2

-------------------------------------------------------------------------------
(* main, one step per call that changes state *)

Setup == << "trace_init", "mmu_resource_table_setup", "hist", "register_handler", "txring_mutex",
            "TXVRING_TASK", "RXVRING_TASK", "TIMER", "TASKDEMO",
            "IDLE", "disable" >>
TickTimer == << "gic", "connect", "cfg", "reload", "load", "start", "enable", "irq" >>

Script == [
  amp |-> Setup \o TickTimer \o << "setup_handler", "ttc", "first_task" >>,
  polled |-> << "cfg", "load", "snapshot", "start", "poll" >>,
  intr |-> << "cfg", "selftest", "gic", "connect", "enable", "irq", "unmask",
              "reload", "load", "start", "wait", "stop", "disconnect" >>]

At(step) ==
  /\ mode = "main"
  /\ pc <= Len(Script[program])
  /\ Script[program][pc] = step
Step(step) == At(step) /\ pc' = pc + 1 /\ UNCHANGED program

\* The line is up with nothing waiting: the firmware before was stopped inside its
\* tick handler, before that cleared the event. The line never rises again.
StoppedInTick == Line(tm) = 1 /\ TICK \notin pending

\* Reset, or a restart of the firmware: the private timer and the sampling counter
\* may still run, and their interrupts wait at the controller, from the firmware
\* before. The counter's interrupt is one of level.
Init ==
  /\ program \in Programs /\ pc = 1
  /\ mode = "main" /\ masked = 1
  /\ ulCriticalNesting = BootNesting
  /\ pxCurrentTCB = "IDLE"
  /\ ctx = [t \in Tasks |-> FirstContext]
  /\ irq = TICK /\ stage = "exit"
  /\ tm \in {Reset} \cup [load : {LOAD}, counter : {0, LOAD}, enable : Bit,
                          reload : Bit, irq : Bit, event : Bit]
  /\ Timer = NoInstance
  /\ enabled = {} /\ connected = {}
  /\ made = {} /\ handler = 0
  /\ ttc \in {"off", "counting", "overflowed"}
  /\ \E tick \in {{}, {TICK}} :
       pending = tick \cup (IF ttc = "overflowed" THEN {TTC} ELSE {})
  /\ mmu = [s \in Sections |-> "memory"]
  /\ TimerExpired = 0 /\ looked = 0
  /\ depth = [t \in Tasks |-> 0]

\* A critical section that main enters and leaves.
CriticalInMain == masked' = IF ulCriticalNesting = 0 THEN 0 ELSE 1

\* pvPortMalloc returns NULL: its hook masks interrupts and stops.
vApplicationMallocFailedHook == mode' = "halted" /\ masked' = 1

\* A kernel object: allocated with the scheduler suspended, initialised in a
\* critical section.
Allocate(object) ==
  \/ /\ made' = made \cup {object}
     /\ CriticalInMain
     /\ UNCHANGED mode
  \/ /\ vApplicationMallocFailedHook
     /\ UNCHANGED made

TraceInit ==
  /\ Step("trace_init")
  /\ Allocate("stdio")
  /\ UNCHANGED <<ulCriticalNesting, pxCurrentTCB, ctx, irq, stage, depth, timerVars,
                 gicVars, handler, mmu, ttc, exampleVars>>

enable_tlb(table, section) == [table EXCEPT ![section] = "device"]
disable_tlb(table, section) == [table EXCEPT ![section] = "none"]

mmu_resource_table_setup ==
  /\ Step("mmu_resource_table_setup")
  /\ mmu' = disable_tlb(
       FoldLeft(LAMBDA table, e : IF e.type = "MMU" THEN enable_tlb(table, e.da) ELSE table,
                mmu, resources), MMUTable)
  /\ UNCHANGED <<kernelVars, timerVars, gicVars, made, handler, ttc, exampleVars>>

\* hist and hist_clone; without memory main logs it and returns.
AllocateHist ==
  /\ Step("hist")
  /\ \/ made' = made \cup {"hist"} /\ UNCHANGED mode
     \/ mode' = "done" /\ UNCHANGED made
  /\ UNCHANGED <<masked, ulCriticalNesting, pxCurrentTCB, ctx, irq, stage, depth,
                 timerVars, gicVars, handler, mmu, ttc, exampleVars>>

register_handler ==
  /\ Step("register_handler")
  /\ handler' = 1
  /\ UNCHANGED <<kernelVars, timerVars, gicVars, made, mmu, ttc, exampleVars>>

CreateMutex ==
  /\ Step("txring_mutex")
  /\ Allocate("txring_mutex")
  /\ UNCHANGED <<ulCriticalNesting, pxCurrentTCB, ctx, irq, stage, depth, timerVars,
                 gicVars, handler, mmu, ttc, exampleVars>>

\* Before the scheduler runs the last created of the highest tasks is current.
CreateTask(t) ==
  /\ Step(t)
  /\ Allocate(t)
  /\ ctx' = [ctx EXCEPT ![t] = FirstContext]
  /\ pxCurrentTCB' = IF t \in AppTasks THEN t ELSE pxCurrentTCB
  /\ UNCHANGED <<ulCriticalNesting, irq, stage, depth, timerVars, gicVars, handler,
                 mmu, ttc, exampleVars>>

\* The scheduler is started with interrupts off.
vTaskStartScheduler ==
  /\ Step("disable")
  /\ masked' = 1
  /\ UNCHANGED <<mode, ulCriticalNesting, pxCurrentTCB, ctx, irq, stage, depth,
                 timerVars, gicVars, setupVars, exampleVars>>

-------------------------------------------------------------------------------
(* The driver's calls, of prvSetupTimerInterrupt and of the examples *)

\* A change of the registers that raises the core's line is latched by the
\* interrupt controller.
SetTimer(new) ==
  /\ tm' = new
  /\ pending' = IF Line(new) > Line(tm) THEN pending \cup {TICK} ELSE pending

DriverCall(call, registers) ==
  /\ Step(call)
  /\ Timer.ready = 1
  /\ SetTimer(registers)
  /\ Timer' = [Timer EXCEPT !.started =
                 CASE call = "start" -> 1 [] call = "stop" -> 0 [] OTHER -> @]
  /\ UNCHANGED <<kernelVars, gicVars, setupVars, exampleVars>>

CfgInitialize ==
  /\ Step("cfg")
  /\ Timer' = XScuTimer_CfgInitialize(Timer)
  /\ UNCHANGED <<kernelVars, tm, pending, gicVars, setupVars, exampleVars>>

TimerCalls ==
  \/ CfgInitialize
  \/ DriverCall("selftest", XScuTimer_SelfTest(tm, LOAD))
  \/ DriverCall("reload", XScuTimer_EnableAutoReload(tm))
  \/ DriverCall("load", XScuTimer_LoadTimer(tm, LOAD))
  \/ DriverCall("start", XScuTimer_Start(tm))
  \/ DriverCall("irq", XScuTimer_EnableInterrupt(tm))
  \/ DriverCall("stop", XScuTimer_Stop(tm))

\* The interrupt controller: its initialisation, the timer's handler, its enable.
SetupGic ==
  /\ \/ Step("gic") /\ connected' = {} /\ enabled' = {}
     \/ Step("connect") /\ connected' = connected \cup {TICK} /\ UNCHANGED enabled
     \/ Step("enable") /\ enabled' = enabled \cup {TICK} /\ UNCHANGED connected
  /\ UNCHANGED <<kernelVars, timerVars, setupVars, exampleVars>>

\* setupIRQhandler: disable and disconnect, connect and enable.  The clearing of
\* the pending bit in between is written to an address of the driver's instance,
\* not of the controller, and clears nothing.
setupIRQhandler(irqs) ==
  /\ connected' = connected \cup irqs
  /\ enabled' = enabled \cup irqs

\* remoteproc_init_irqs and the TTC's: called through the handler that
\* register_handler stored.
SetupHandler ==
  /\ Step("setup_handler")
  /\ IF handler = 1 THEN setupIRQhandler(Kicks) ELSE UNCHANGED gicVars
  /\ UNCHANGED <<kernelVars, timerVars, setupVars, exampleVars>>

\* Mutant: the sampling counter is left as it is.
SetupTtc_NoStop ==
  /\ Step("ttc")
  /\ IF handler = 1 THEN setupIRQhandler({TTC}) ELSE UNCHANGED gicVars
  /\ UNCHANGED <<kernelVars, timerVars, made, handler, mmu, ttc, exampleVars>>

\* The counter is stopped, and its interrupt is acknowledged and disabled there,
\* which takes the level away from the controller.
SetupTtc ==
  /\ Step("ttc")
  /\ IF handler = 1
     THEN /\ ttc' = "off" /\ pending' = pending \ {TTC}
          /\ setupIRQhandler({TTC})
     ELSE UNCHANGED <<ttc, pending, gicVars>>
  /\ UNCHANGED <<kernelVars, tm, Timer, made, handler, mmu, exampleVars>>

-------------------------------------------------------------------------------
(* Contexts and critical sections (portISR.c, portmacro.h) *)

\* portSAVE_CONTEXT pushes nesting and mask bit on the task's stack, and
\* portRESTORE_CONTEXT pops them; a running task has nothing pushed.
Saved == [nesting |-> ulCriticalNesting, masked |-> masked]

portRESTORE_CONTEXT(contexts, t) ==
  /\ mode' = "task"
  /\ pxCurrentTCB' = t
  /\ ctx' = [contexts EXCEPT ![t] = FirstContext]
  /\ masked' = contexts[t].masked
  /\ ulCriticalNesting' = contexts[t].nesting

vPortISRStartFirstTask ==
  /\ Step("first_task")
  /\ portRESTORE_CONTEXT(ctx, pxCurrentTCB)
  /\ UNCHANGED <<irq, stage, depth, timerVars, gicVars, setupVars, exampleVars>>

outside == <<program, pc, timerVars, gicVars, setupVars, exampleVars>>

InTask == mode = "task"
Inside == FoldFunction(+, 0, depth)

\* portYIELD, by a task that may be in a critical section.
vPortYieldProcessor ==
  /\ InTask
  /\ \E t \in Tasks : portRESTORE_CONTEXT([ctx EXCEPT ![pxCurrentTCB] = Saved], t)
  /\ UNCHANGED <<irq, stage, depth, outside>>

vPortEnterCritical ==
  /\ InTask
  /\ pxCurrentTCB \in CriticalTasks /\ Inside < MaxNesting
  /\ masked' = 1
  /\ ulCriticalNesting' = ulCriticalNesting + 1
  /\ depth' = [depth EXCEPT ![pxCurrentTCB] = @ + 1]
  /\ UNCHANGED <<mode, pxCurrentTCB, ctx, irq, stage, outside>>

\* vPortExitCritical: the outermost exit turns interrupts on.
ExitCritical ==
  /\ ulCriticalNesting' = IF ulCriticalNesting > 0 THEN ulCriticalNesting - 1 ELSE 0
  /\ masked' = IF ulCriticalNesting = 1 THEN 0 ELSE masked

vPortExitCritical ==
  /\ InTask
  /\ depth[pxCurrentTCB] > 0
  /\ ExitCritical
  /\ depth' = [depth EXCEPT ![pxCurrentTCB] = @ - 1]
  /\ UNCHANGED <<mode, pxCurrentTCB, ctx, irq, stage, outside>>

-------------------------------------------------------------------------------
(* Interrupts *)

\* The vector and vFreeRTOS_IRQInterrupt: save the context, count one nesting
\* level so that a handler's critical section does not turn interrupts on.
\* Mutant: without that level.
vFreeRTOS_IRQInterrupt_NoLevel(i) ==
  /\ mode \in {"task", "irq"} /\ masked = 0
  /\ i \in pending \cap enabled \cap connected
  /\ mode' = "irq" /\ masked' = 1 /\ irq' = i /\ stage' = "entry"
  /\ ctx' = [ctx EXCEPT ![pxCurrentTCB] = Saved]
  /\ pending' = pending \ {i}
  /\ UNCHANGED <<program, pc, ulCriticalNesting, pxCurrentTCB, depth, tm, Timer, gicVars,
                 setupVars, exampleVars>>

vFreeRTOS_IRQInterrupt(i) ==
  /\ mode \in {"task", "irq"} /\ masked = 0
  /\ i \in pending \cap enabled \cap connected
  /\ mode' = "irq" /\ masked' = 1 /\ irq' = i /\ stage' = "entry"
  /\ ctx' = [ctx EXCEPT ![pxCurrentTCB] = Saved]
  /\ ulCriticalNesting' = ulCriticalNesting + 1
  /\ pending' = pending \ {i}
  /\ UNCHANGED <<program, pc, pxCurrentTCB, depth, tm, Timer, gicVars, setupVars,
                 exampleVars>>

InHandler(irqs, where) == mode = "irq" /\ irq \in irqs /\ stage = where

\* vTickISR: count the tick and let the kernel choose a task, then clear the
\* timer's event flag.
CountTick ==
  /\ InHandler({TICK}, "entry")
  /\ \E t \in Tasks : pxCurrentTCB' = t
  /\ stage' = "clear"
  /\ UNCHANGED <<mode, masked, ulCriticalNesting, ctx, irq, depth, outside>>

\* Mutant: the event flag is left set.
ClearTick_Never ==
  /\ InHandler({TICK}, "clear")
  /\ stage' = "exit"
  /\ UNCHANGED <<mode, masked, ulCriticalNesting, pxCurrentTCB, ctx, irq, depth, outside>>

ClearTick ==
  /\ InHandler({TICK}, "clear")
  /\ SetTimer(XScuTimer_ClearInterruptStatus(tm))
  /\ stage' = "exit"
  /\ UNCHANGED <<program, pc, mode, masked, ulCriticalNesting, pxCurrentTCB, ctx, irq,
                 depth, Timer, gicVars, setupVars, exampleVars>>

\* txvring_irq2 and rxvring_irq3 count the kick in a critical section and then
\* resume their task; irq70_ttc stops the counter.
KickEnters ==
  /\ InHandler(Kicks, "entry")
  /\ masked' = 1
  /\ ulCriticalNesting' = ulCriticalNesting + 1
  /\ stage' = "inside"
  /\ UNCHANGED <<mode, pxCurrentTCB, ctx, irq, depth, outside>>

KickLeaves ==
  /\ InHandler(Kicks, "inside")
  /\ ExitCritical
  /\ stage' = "exit"
  /\ UNCHANGED <<mode, pxCurrentTCB, ctx, irq, depth, outside>>

irq70_ttc ==
  /\ InHandler({TTC}, "entry")
  /\ ttc' = "off"
  /\ stage' = "exit"
  /\ UNCHANGED <<program, pc, mode, masked, ulCriticalNesting, pxCurrentTCB, ctx, irq,
                 depth, timerVars, gicVars, made, handler, mmu, exampleVars>>

LeaveInterrupt ==
  /\ InHandler(Irqs, "exit")
  /\ portRESTORE_CONTEXT(ctx, pxCurrentTCB)
  /\ irq' = TICK
  /\ UNCHANGED <<stage, depth, outside>>

Handler == CountTick \/ ClearTick \/ KickEnters \/ KickLeaves \/ irq70_ttc \/ LeaveInterrupt

-------------------------------------------------------------------------------
(* What tasks do to the board: task_latency's start *)

InTaskOnly(t) == InTask /\ pxCurrentTCB = t /\ depth[t] = 0

CreateSemaphores ==
  /\ InTaskOnly("TIMER")
  /\ \E s \in {"wait_for_irq", "wait_for_clone"} :
       /\ s \notin made
       /\ s = "wait_for_clone" => "wait_for_irq" \in made
       /\ \/ made' = made \cup {s} /\ UNCHANGED <<mode, masked>>
          \/ vApplicationMallocFailedHook /\ UNCHANGED made
  /\ UNCHANGED <<program, pc, ulCriticalNesting, pxCurrentTCB, ctx, irq, stage, depth,
                 timerVars, gicVars, handler, mmu, ttc, exampleVars>>

\* Only a task that has its semaphores starts the sampling counter.
StartTtc ==
  /\ InTaskOnly("TIMER")
  /\ {"wait_for_irq", "wait_for_clone"} \subseteq made
  /\ ttc = "off"
  /\ ttc' = "counting"
  /\ UNCHANGED <<program, pc, kernelVars, timerVars, gicVars, made, handler, mmu,
                 exampleVars>>

\* A wild access: FreeRTOS_ExHandler logs it and stops.
FreeRTOS_ExHandler ==
  /\ "stdio" \in made
  /\ mode \in {"main", "task", "irq"}
  /\ mode' = "halted" /\ masked' = 1
  /\ UNCHANGED <<program, pc, ulCriticalNesting, pxCurrentTCB, ctx, irq, stage, depth,
                 timerVars, gicVars, setupVars, exampleVars>>

-------------------------------------------------------------------------------
(* The driver's examples *)

\* ScuTimerPolledExample: read the counter, start, read until it has changed.
\* `looked' is the first reading.
Snapshot ==
  /\ Step("snapshot")
  /\ looked' = XScuTimer_GetCounterValue(tm)
  /\ UNCHANGED <<kernelVars, timerVars, gicVars, setupVars, TimerExpired>>

Poll ==
  /\ Step("poll")
  /\ XScuTimer_GetCounterValue(tm) # looked
  /\ mode' = "done"
  /\ UNCHANGED <<masked, ulCriticalNesting, pxCurrentTCB, ctx, irq, stage, depth,
                 timerVars, gicVars, setupVars, exampleVars>>

\* ScuTimerIntrExample: interrupts on, wait for the third expiry, disconnect.
ExceptionEnable ==
  /\ Step("unmask")
  /\ masked' = 0
  /\ UNCHANGED <<mode, ulCriticalNesting, pxCurrentTCB, ctx, irq, stage, depth,
                 timerVars, gicVars, setupVars, exampleVars>>

Wait ==
  /\ At("wait")
  /\ TimerExpired # looked
  /\ looked' = TimerExpired
  /\ pc' = IF TimerExpired = 3 THEN pc + 1 ELSE pc
  /\ UNCHANGED <<program, kernelVars, timerVars, gicVars, setupVars,
                 TimerExpired>>

Disconnect ==
  /\ Step("disconnect")
  /\ connected' = connected \ {TICK}
  /\ mode' = "done"
  /\ UNCHANGED <<masked, ulCriticalNesting, pxCurrentTCB, ctx, irq, stage, depth,
                 timerVars, enabled, setupVars, exampleVars>>

\* TimerIntrHandler, with the library's vector around it.
TimerIntrHandler_NoClear ==
  /\ mode = "main" /\ masked = 0
  /\ TICK \in pending \cap enabled \cap connected
  /\ pending' = pending \ {TICK}
  /\ TimerExpired' = TimerExpired + 1
  /\ tm' = IF TimerExpired' = 3 THEN XScuTimer_DisableAutoReload(tm) ELSE tm
  /\ UNCHANGED <<program, pc, kernelVars, Timer, gicVars, setupVars, looked>>

TimerIntrHandler ==
  /\ mode = "main" /\ masked = 0
  /\ TICK \in pending \cap enabled \cap connected
  /\ pending' = pending \ {TICK}
  /\ IF XScuTimer_IsExpired(tm)
     THEN LET cleared == XScuTimer_ClearInterruptStatus(tm)
          IN  /\ TimerExpired' = TimerExpired + 1
              /\ tm' = IF TimerExpired + 1 = 3
                       THEN XScuTimer_DisableAutoReload(cleared) ELSE cleared
     ELSE UNCHANGED <<TimerExpired, tm>>
  /\ UNCHANGED <<program, pc, kernelVars, Timer, gicVars, setupVars, looked>>

-------------------------------------------------------------------------------
(* The hardware and Linux *)

\* The examples' periods (0xFF and 0xFFFF counts) are long against the steps
\* between which nothing may expire: loading the timer and starting the polling
\* loop; an expiry and the look at its count (a fourth one before the look at the
\* third would leave the example waiting for ever).
PeriodIsLong ==
  Expires(tm) =>
    /\ program = "polled" => ~ (At("snapshot") \/ At("start"))
    /\ program = "intr" => looked = TimerExpired

\* The timer is followed until the program has stopped.
CountDown ==
  /\ mode \notin {"halted", "done"}
  /\ CanCount(tm)
  /\ PeriodIsLong
  /\ SetTimer(Count(tm))
  /\ UNCHANGED <<program, pc, kernelVars, Timer, gicVars, setupVars, exampleVars>>

LinuxKick ==
  /\ program = "amp" /\ mode # "halted"
  /\ \E i \in Kicks \ pending : pending' = pending \cup {i}
  /\ UNCHANGED <<program, pc, kernelVars, tm, Timer, gicVars, setupVars,
                 exampleVars>>

\* The sampling counter overflows.
TtcOverflow ==
  /\ ttc = "counting"
  /\ ttc' = "overflowed"
  /\ pending' = pending \cup {TTC}
  /\ UNCHANGED <<program, pc, kernelVars, tm, Timer, gicVars, made, handler, mmu,
                 exampleVars>>

Main ==
  \/ TraceInit \/ mmu_resource_table_setup \/ AllocateHist
  \/ register_handler \/ CreateMutex
  \/ \E t \in Tasks : CreateTask(t)
  \/ vTaskStartScheduler
  \/ TimerCalls \/ SetupGic \/ SetupHandler \/ SetupTtc \/ vPortISRStartFirstTask
  \/ Snapshot \/ Poll \/ ExceptionEnable \/ Wait \/ Disconnect

TaskStep ==
  \/ vPortYieldProcessor \/ vPortEnterCritical \/ vPortExitCritical
  \/ CreateSemaphores \/ StartTtc

Next ==
  \/ Main \/ TaskStep \/ Handler \/ TimerIntrHandler \/ FreeRTOS_ExHandler
  \/ \E i \in Irqs : vFreeRTOS_IRQInterrupt(i)
  \/ CountDown \/ LinuxKick \/ TtcOverflow

\* main and the handlers run on, an outermost critical section is left,
\* the timer counts; the tick is not for ever passed over for the kicks, and the
\* polling loop reads the counter often enough to see it change.
Fairness ==
  /\ WF_vars(Main) /\ WF_vars(Handler) /\ WF_vars(TimerIntrHandler)
  /\ WF_vars(vPortExitCritical) /\ SF_vars(vPortExitCritical /\ masked' = 0)
  /\ WF_vars(CountDown)
  /\ SF_vars(vFreeRTOS_IRQInterrupt(TICK))
  /\ SF_vars(Poll)

Spec == Init /\ [][Next]_vars
FairSpec == Spec /\ Fairness

-------------------------------------------------------------------------------
(* Properties *)

\* Critical sections are the task's own (portISR.c 98, 205-241; portmacro.h
\* 106-189): the running task takes interrupts exactly when it is in none, a
\* task switched out comes back to as many as it had entered, even when it
\* yielded inside one, and nothing else than a task ever runs with interrupts on.
NestingPrivate ==
  program = "amp" =>
    /\ mode = "task" =>
         /\ ulCriticalNesting = depth[pxCurrentTCB]
         /\ masked = IF depth[pxCurrentTCB] > 0 THEN 1 ELSE 0
    /\ mode # "task" => masked = 1
    /\ \A t \in Tasks :
         (mode = "irq" \/ t # pxCurrentTCB) /\ mode # "halted" =>
           ctx[t] = [nesting |-> depth[t], masked |-> IF depth[t] > 0 THEN 1 ELSE 0]

\* What each handler needs.
NeededBy(i) == CASE i = 2 -> {"TXVRING_TASK", "txring_mutex"}
                 [] i = 3 -> {"RXVRING_TASK"}
                 [] i = TTC -> {"hist", "wait_for_irq"}
                 [] OTHER -> {"IDLE"}

\* Set-up is complete when it is used (latencydemo.c 363-396, port.c 186-197,
\* 431-513, remoteproc.c 386-412, 449-472): a task runs only with every task, the
\* mutexes, the tick, the handlers and the devices' sections there and the MMU
\* table out of reach; a handler runs only when what it uses exists.
StartedMeansReady ==
  program = "amp" /\ mode \in {"task", "irq"} =>
    /\ Tasks \cup {"stdio", "hist", "txring_mutex"} \subseteq made
    /\ Irqs \subseteq enabled \cap connected
    /\ tm.enable = 1 /\ tm.reload = 1 /\ tm.irq = 1 /\ tm.load = LOAD
    /\ \A e \in Range(resources) : e.type = "MMU" => mmu[e.da] = "device"
    /\ mmu[MMUTable] = "none"
    /\ mode = "irq" => NeededBy(irq) \subseteq made

\* Ticks go on (portISR.c 165-176, port.c 466-513): whatever else the firmware
\* before left in the timer and at the controller, and whatever critical sections,
\* kicks and set-up steps are in the way, the handler counts a tick again and
\* again. Expiries before the event flag is cleared are one tick.
TicksGoOn ==
  program = "amp" /\ ~StoppedInTick =>
    []<>(InHandler({TICK}, "clear") \/ mode \in {"halted", "done"})

\* The driver's examples come to their end (xscutimer_polled_example.c 136-188,
\* xscutimer_intr_example.c 166-246), whatever state they find the timer in; the
\* interrupt example does not if the program before was stopped in its handler.
ExamplesEnd ==
  program # "amp" /\ ~(program = "intr" /\ StoppedInTick) => <>(mode = "done")
===============================================================================
