------------------------------- MODULE BoardProofs -------------------------------
(***************************************************************************)
(* Critical sections are private to the task that enters them, for every   *)
(* set of tasks that use them, every depth, and every set-up.  Set-up is   *)
(* complete when it is used, for every resource table and whatever timer,  *)
(* sampling counter and interrupts the firmware before left behind.        *)
(***************************************************************************)
EXTENDS Board, FoldTheorems, TLAPS

\* What a task that is in n critical sections is resumed with.
Context(n) == [nesting |-> n, masked |-> IF n > 0 THEN 1 ELSE 0]

Types ==
  /\ pc \in Nat \ {0}
  /\ mode \in {"main", "task", "irq", "halted", "done"}
  /\ masked \in Bit /\ ulCriticalNesting \in Nat
  /\ pxCurrentTCB \in Tasks
  /\ ctx \in [Tasks -> [nesting : Nat, masked : Bit]]
  /\ depth \in [Tasks -> Nat]

InMain ==
  mode \in {"main", "done"} =>
    /\ masked = 1 /\ ulCriticalNesting = BootNesting
    /\ \A t \in Tasks : depth[t] = 0 /\ ctx[t] = Context(0)

InTaskMode ==
  mode = "task" =>
    /\ ulCriticalNesting = Context(depth[pxCurrentTCB]).nesting
    /\ masked = Context(depth[pxCurrentTCB]).masked
    /\ \A t \in Tasks : t # pxCurrentTCB => ctx[t] = Context(depth[t])

\* The handler counts one level, and one more inside its own critical section.
InInterrupt ==
  mode = "irq" =>
    /\ masked = 1
    /\ ulCriticalNesting = IF stage = "inside" THEN 2 ELSE 1
    /\ \A t \in Tasks : ctx[t] = Context(depth[t])

Stopped == mode = "halted" => masked = 1

Contexts == Types /\ InMain /\ InTaskMode /\ InInterrupt /\ Stopped

\* The inductive invariant.
IInv == program = "amp" => Contexts

-------------------------------------------------------------------------------
(* Facts about contexts and the script *)

LEMMA ContextFields ==
  ASSUME NEW n \in Nat
  PROVE  /\ Context(n) \in [nesting : Nat, masked : Bit]
         /\ Context(n).nesting = n
         /\ Context(n).masked = IF n > 0 THEN 1 ELSE 0
         /\ Context(0) = FirstContext
BY DEF Context, Bit, FirstContext

\* The firmware's script does not turn interrupts on, as an example's does: the
\* first task's context does.
LEMMA AmpNeverUnmasks ==
  ASSUME NEW i \in 1 .. Len(Script["amp"])
  PROVE  Script["amp"][i] # "unmask"
<1> DEFINE S == Objects \cup {"trace_init", "mmu_resource_table_setup",
                  "register_handler", "disable", "gic", "connect", "cfg", "reload",
                  "load", "start", "enable", "irq", "setup_handler", "ttc", "first_task"}
           Rest == << "setup_handler", "ttc", "first_task" >>
<1>1. Setup \in Seq(S)
  BY DEF Setup, Objects, Tasks, AppTasks
<1>2. TickTimer \in Seq(S)
  BY DEF TickTimer
<1>3. Rest \in Seq(S)
  OBVIOUS
<1>4. Script["amp"] = (Setup \o TickTimer) \o Rest
  BY DEF Script
<1>5. "unmask" \notin S
  BY DEF Objects, Tasks, AppTasks
<1> HIDE DEF S, Rest
<1>6. Script["amp"] \in Seq(S)
  BY <1>1, <1>2, <1>3, <1>4
<1>7. QED
  BY <1>5, <1>6

-------------------------------------------------------------------------------
(* Steps that leave the contexts alone *)

LEMMA Frame ==
  ASSUME Contexts, UNCHANGED kernelVars, pc' \in Nat \ {0}
  PROVE  Contexts'
BY DEF Contexts, Types, InMain, InTaskMode, InInterrupt, Stopped, kernelVars

\* A step of main with interrupts off, whether it goes on or stops.
LEMMA MainFrame ==
  ASSUME Contexts, mode = "main", pc' \in Nat \ {0},
         mode' \in {"main", "done", "halted"}, masked' = 1,
         pxCurrentTCB' \in Tasks,
         ctx' \in [Tasks -> [nesting : Nat, masked : Bit]],
         \A t \in Tasks : ctx'[t] = ctx[t],
         UNCHANGED <<ulCriticalNesting, depth>>
  PROVE  Contexts'
BY DEF Contexts, Types, InMain, InTaskMode, InInterrupt, Stopped, Bit

\* A step of main's script counts the step, and is made in main.
LEMMA StepsForward ==
  ASSUME Contexts, NEW step, Step(step)
  PROVE  /\ pc' \in Nat \ {0} /\ pc \in 1 .. Len(Script[program])
         /\ mode = "main" /\ masked = 1 /\ ulCriticalNesting = BootNesting
         /\ Script[program][pc] = step /\ program' = program
BY DEF Contexts, Types, InMain, Step, At

\* The steps of main before the first task's.
MainBefore ==
  \/ TraceInit \/ mmu_resource_table_setup \/ AllocateHist
  \/ register_handler \/ CreateMutex
  \/ \E t \in Tasks : CreateTask(t)
  \/ vTaskStartScheduler
  \/ TimerCalls \/ SetupGic \/ SetupHandler \/ SetupTtc

\* Allocation leaves interrupts off: the nesting count is above every section's.
LEMMA AllocateMasked ==
  ASSUME Contexts, mode = "main", NEW object, Allocate(object)
  PROVE  masked' = 1 /\ mode' \in {"main", "halted"}
<1>1. ulCriticalNesting # 0
  BY BoardAssumption DEF Contexts, InMain, BootNesting
<1>2. QED
  BY <1>1 DEF Allocate, CriticalInMain, vApplicationMallocFailedHook

LEMMA MainBeforeStep ==
  ASSUME Contexts, MainBefore
  PROVE  Contexts'
<1>1. CASE TraceInit
  <2>1. Step("trace_init") /\ Allocate("stdio")
    BY <1>1 DEF TraceInit
  <2>2. UNCHANGED <<ulCriticalNesting, pxCurrentTCB, ctx, depth>>
    BY <1>1 DEF TraceInit
  <2> QED
    BY <2>1, <2>2, StepsForward, AllocateMasked, MainFrame DEF Contexts, Types
<1>2. CASE CreateMutex
  <2>1. Step("txring_mutex") /\ Allocate("txring_mutex")
    BY <1>2 DEF CreateMutex
  <2>2. UNCHANGED <<ulCriticalNesting, pxCurrentTCB, ctx, depth>>
    BY <1>2 DEF CreateMutex
  <2> QED
    BY <2>1, <2>2, StepsForward, AllocateMasked, MainFrame DEF Contexts, Types
<1>3. ASSUME NEW t \in Tasks, CreateTask(t)
      PROVE  Contexts'
  <2>1. Step(t) /\ Allocate(t)
    BY <1>3 DEF CreateTask
  <2>2. /\ ctx' = [ctx EXCEPT ![t] = FirstContext]
        /\ pxCurrentTCB' = IF t \in AppTasks THEN t ELSE pxCurrentTCB
        /\ UNCHANGED <<ulCriticalNesting, depth>>
    BY <1>3 DEF CreateTask
  <2>3. mode = "main"
    BY <2>1, StepsForward
  <2>4. \A u \in Tasks : ctx'[u] = ctx[u]
    BY <2>2, <2>3, ContextFields DEF Contexts, Types, InMain
  <2>5. ctx' \in [Tasks -> [nesting : Nat, masked : Bit]]
    BY <2>2, ContextFields DEF Contexts, Types
  <2>6. pxCurrentTCB' \in Tasks
    BY <2>2 DEF Contexts, Types
  <2> QED
    BY <2>1, <2>2, <2>3, <2>4, <2>5, <2>6, StepsForward, AllocateMasked, MainFrame
<1>4. CASE AllocateHist
  <2>1. /\ Step("hist") /\ mode' \in {"main", "done"}
        /\ UNCHANGED <<masked, ulCriticalNesting, pxCurrentTCB, ctx, depth>>
    BY <1>4 DEF AllocateHist, Step, At
  <2> QED
    BY <2>1, StepsForward, MainFrame DEF Contexts, Types
<1>5. CASE vTaskStartScheduler
  <2>1. /\ Step("disable") /\ masked' = 1
        /\ UNCHANGED <<mode, ulCriticalNesting, pxCurrentTCB, ctx, depth>>
    BY <1>5 DEF vTaskStartScheduler
  <2> QED
    BY <2>1, StepsForward, MainFrame DEF Contexts, Types
<1>6. CASE \/ mmu_resource_table_setup \/ register_handler \/ TimerCalls
           \/ SetupGic \/ SetupHandler \/ SetupTtc
  <2>1. (\E step : Step(step)) /\ UNCHANGED kernelVars
    BY <1>6 DEF mmu_resource_table_setup, register_handler, TimerCalls,
                CfgInitialize, DriverCall, SetupGic, SetupHandler, SetupTtc
  <2> QED
    BY <2>1, StepsForward, Frame
<1>7. QED
  BY <1>1, <1>2, <1>3, <1>4, <1>5, <1>6 DEF MainBefore

-------------------------------------------------------------------------------
(* Context switches *)

\* Restoring a task from contexts that are right for every task.
LEMMA Restored ==
  ASSUME Contexts, NEW t \in Tasks, NEW contexts \in [Tasks -> [nesting : Nat, masked : Bit]],
         \A u \in Tasks : contexts[u] = Context(depth[u]),
         portRESTORE_CONTEXT(contexts, t), depth' = depth, pc' \in Nat \ {0}
  PROVE  Contexts'
<1>1. /\ mode' = "task" /\ pxCurrentTCB' = t
      /\ ctx' = [contexts EXCEPT ![t] = FirstContext]
      /\ masked' = contexts[t].masked
      /\ ulCriticalNesting' = contexts[t].nesting
  BY DEF portRESTORE_CONTEXT
<1>2. depth \in [Tasks -> Nat]
  BY DEF Contexts, Types
<1>3. contexts[t] \in [nesting : Nat, masked : Bit]
  OBVIOUS
<1>4. FirstContext \in [nesting : Nat, masked : Bit]
  BY DEF FirstContext, Bit
<1>5. ctx' \in [Tasks -> [nesting : Nat, masked : Bit]]
  BY <1>1, <1>4
<1>6. Types'
  BY <1>1, <1>2, <1>3, <1>5 DEF Types
<1>7. \A u \in Tasks : u # t => ctx'[u] = Context(depth[u])
  BY <1>1
<1>8. contexts[t] = Context(depth[t])
  OBVIOUS
<1>9. InTaskMode'
  BY <1>1, <1>7, <1>8 DEF InTaskMode
<1>10. QED
  BY <1>1, <1>6, <1>9 DEF Contexts, InMain, InInterrupt, Stopped

\* Of the script's last steps the firmware has only the first task's start.
LEMMA MainAfterStep ==
  ASSUME Contexts, program = "amp",
         vPortISRStartFirstTask \/ Snapshot \/ Poll \/ ExceptionEnable \/ Wait \/ Disconnect
  PROVE  Contexts'
<1>1. CASE vPortISRStartFirstTask
  <2>1. /\ Step("first_task") /\ portRESTORE_CONTEXT(ctx, pxCurrentTCB)
        /\ depth' = depth
    BY <1>1 DEF vPortISRStartFirstTask
  <2>2. mode = "main" /\ pc' \in Nat \ {0}
    BY <2>1, StepsForward
  <2>3. \A u \in Tasks : ctx[u] = Context(depth[u])
    BY <2>2 DEF Contexts, InMain
  <2> QED
    BY <2>1, <2>2, <2>3, Restored DEF Contexts, Types
<1>2. CASE Snapshot
  <2>1. Step("snapshot") /\ UNCHANGED kernelVars
    BY <1>2 DEF Snapshot
  <2> QED
    BY <2>1, StepsForward, Frame
<1>3. CASE Poll
  <2>1. /\ Step("poll") /\ mode' = "done"
        /\ UNCHANGED <<masked, ulCriticalNesting, pxCurrentTCB, ctx, depth>>
    BY <1>3 DEF Poll
  <2> QED
    BY <2>1, StepsForward, MainFrame DEF Contexts, Types
<1>4. CASE ExceptionEnable
  <2>1. Step("unmask")
    BY <1>4 DEF ExceptionEnable
  <2> QED
    BY <2>1, StepsForward, AmpNeverUnmasks
<1>5. CASE Wait
  <2>1. UNCHANGED kernelVars /\ pc' \in {pc, pc + 1}
    BY <1>5 DEF Wait
  <2> QED
    BY <2>1, Frame DEF Contexts, Types
<1>6. CASE Disconnect
  <2>1. /\ Step("disconnect") /\ mode' = "done"
        /\ UNCHANGED <<masked, ulCriticalNesting, pxCurrentTCB, ctx, depth>>
    BY <1>6 DEF Disconnect
  <2> QED
    BY <2>1, StepsForward, MainFrame DEF Contexts, Types
<1>7. QED
  BY <1>1, <1>2, <1>3, <1>4, <1>5, <1>6

\* What a context switch pushes is what the running task has to come back to.
LEMMA SavedIsContext ==
  ASSUME Contexts, mode = "task"
  PROVE  /\ [ctx EXCEPT ![pxCurrentTCB] = Saved] \in [Tasks -> [nesting : Nat, masked : Bit]]
         /\ \A u \in Tasks :
              [ctx EXCEPT ![pxCurrentTCB] = Saved][u] = Context(depth[u])
<1>1. /\ pxCurrentTCB \in Tasks /\ depth \in [Tasks -> Nat]
      /\ ctx \in [Tasks -> [nesting : Nat, masked : Bit]]
  BY DEF Contexts, Types
<1>2. depth[pxCurrentTCB] \in Nat
  BY <1>1
<1>3. Saved = Context(depth[pxCurrentTCB])
  BY <1>2 DEF Contexts, InTaskMode, Saved, Context
<1>4. Saved \in [nesting : Nat, masked : Bit]
  BY <1>2, <1>3, ContextFields
<1>5. \A u \in Tasks : u # pxCurrentTCB => ctx[u] = Context(depth[u])
  BY DEF Contexts, InTaskMode
<1> HIDE DEF Saved
<1>6. QED
  BY <1>1, <1>3, <1>4, <1>5

LEMMA TaskStepPreserves ==
  ASSUME Contexts, TaskStep
  PROVE  Contexts'
<1> USE DEF InTask
<1>1. CASE vPortYieldProcessor
  <2>1. /\ mode = "task" /\ depth' = depth /\ pc' = pc
        /\ \E t \in Tasks : portRESTORE_CONTEXT([ctx EXCEPT ![pxCurrentTCB] = Saved], t)
    BY <1>1 DEF vPortYieldProcessor, outside
  <2>2. PICK t \in Tasks : portRESTORE_CONTEXT([ctx EXCEPT ![pxCurrentTCB] = Saved], t)
    BY <2>1
  <2>3. pc' \in Nat \ {0}
    BY <2>1 DEF Contexts, Types
  <2> QED
    BY <2>1, <2>2, <2>3, SavedIsContext, Restored
<1>2. CASE vPortEnterCritical
  <2>1. /\ mode = "task" /\ mode' = mode
        /\ masked' = 1 /\ ulCriticalNesting' = ulCriticalNesting + 1
        /\ depth' = [depth EXCEPT ![pxCurrentTCB] = @ + 1]
        /\ UNCHANGED <<pxCurrentTCB, ctx, pc>>
    BY <1>2 DEF vPortEnterCritical, outside
  <2>2. pxCurrentTCB \in Tasks /\ depth \in [Tasks -> Nat]
    BY DEF Contexts, Types
  <2>3. /\ depth' \in [Tasks -> Nat]
        /\ depth'[pxCurrentTCB] = depth[pxCurrentTCB] + 1
        /\ \A t \in Tasks : t # pxCurrentTCB => depth'[t] = depth[t]
    BY <2>1, <2>2
  <2>4. ulCriticalNesting = depth[pxCurrentTCB] /\ depth[pxCurrentTCB] \in Nat
    BY <2>1, <2>2, ContextFields DEF Contexts, InTaskMode
  <2>5. Types'
    BY <2>1, <2>3 DEF Contexts, Types, Bit
  <2>6. InTaskMode'
    <3>1. depth'[pxCurrentTCB'] \in Nat /\ depth'[pxCurrentTCB'] > 0
      BY <2>1, <2>3, <2>4
    <3>2. /\ ulCriticalNesting' = Context(depth'[pxCurrentTCB']).nesting
          /\ masked' = Context(depth'[pxCurrentTCB']).masked
      BY <2>1, <2>3, <2>4, <3>1, ContextFields
    <3>3. \A t \in Tasks : t # pxCurrentTCB' => ctx'[t] = Context(depth'[t])
      BY <2>1, <2>3 DEF Contexts, InTaskMode
    <3> QED
      BY <3>2, <3>3 DEF InTaskMode
  <2> QED
    BY <2>1, <2>5, <2>6 DEF Contexts, InMain, InInterrupt, Stopped
<1>3. CASE vPortExitCritical
  <2>1. /\ mode = "task" /\ mode' = mode /\ depth[pxCurrentTCB] > 0
        /\ ExitCritical
        /\ depth' = [depth EXCEPT ![pxCurrentTCB] = @ - 1]
        /\ UNCHANGED <<pxCurrentTCB, ctx, pc>>
    BY <1>3 DEF vPortExitCritical, outside
  <2>2. pxCurrentTCB \in Tasks /\ depth \in [Tasks -> Nat] /\ depth[pxCurrentTCB] \in Nat
    BY DEF Contexts, Types
  <2>3. /\ depth'[pxCurrentTCB] = depth[pxCurrentTCB] - 1
        /\ depth[pxCurrentTCB] - 1 \in Nat
        /\ \A t \in Tasks : t # pxCurrentTCB => depth'[t] = depth[t]
    BY <2>1, <2>2
  <2>4. depth' \in [Tasks -> Nat]
    BY <2>1, <2>2, <2>3
  <2>5. ulCriticalNesting = depth[pxCurrentTCB] /\ masked = 1
    BY <2>1, <2>2, ContextFields DEF Contexts, InTaskMode
  <2>6. /\ ulCriticalNesting' = depth[pxCurrentTCB] - 1
        /\ masked' = IF depth[pxCurrentTCB] - 1 > 0 THEN 1 ELSE 0
    BY <2>1, <2>2, <2>5 DEF ExitCritical
  <2>7. Types'
    BY <2>1, <2>3, <2>4, <2>6 DEF Contexts, Types, Bit
  <2>8. InTaskMode'
    <3>1. /\ ulCriticalNesting' = Context(depth'[pxCurrentTCB']).nesting
          /\ masked' = Context(depth'[pxCurrentTCB']).masked
      BY <2>1, <2>3, <2>6, ContextFields
    <3>2. \A t \in Tasks : t # pxCurrentTCB' => ctx'[t] = Context(depth'[t])
      BY <2>1, <2>3 DEF Contexts, InTaskMode
    <3> QED
      BY <3>1, <3>2 DEF InTaskMode
  <2> QED
    BY <2>1, <2>7, <2>8 DEF Contexts, InMain, InInterrupt, Stopped
<1>4. CASE CreateSemaphores
  <2>1. /\ mode = "task"
        /\ \/ UNCHANGED kernelVars
           \/ mode' = "halted" /\ masked' = 1
        /\ UNCHANGED <<pc, ulCriticalNesting, pxCurrentTCB, ctx, irq, stage, depth>>
    BY <1>4 DEF CreateSemaphores, InTaskOnly, vApplicationMallocFailedHook, kernelVars
  <2>2. CASE UNCHANGED kernelVars
    BY <2>1, <2>2, Frame DEF Contexts, Types
  <2>3. CASE mode' = "halted" /\ masked' = 1
    BY <2>1, <2>3 DEF Contexts, Types, InMain, InTaskMode, InInterrupt, Stopped, Bit
  <2> QED
    BY <2>1, <2>2, <2>3
<1>5. CASE StartTtc
  <2>1. UNCHANGED kernelVars /\ pc' = pc
    BY <1>5 DEF StartTtc
  <2> QED
    BY <2>1, Frame DEF Contexts, Types
<1>6. QED
  BY <1>1, <1>2, <1>3, <1>4, <1>5 DEF TaskStep

-------------------------------------------------------------------------------
(* Interrupts *)

\* Only a running task is interrupted: everything else is masked.
LEMMA InterruptPreserves ==
  ASSUME Contexts, NEW i \in Irqs, vFreeRTOS_IRQInterrupt(i)
  PROVE  Contexts'
<1>1. /\ masked = 0 /\ mode \in {"task", "irq"}
      /\ mode' = "irq" /\ masked' = 1 /\ stage' = "entry"
      /\ ctx' = [ctx EXCEPT ![pxCurrentTCB] = Saved]
      /\ ulCriticalNesting' = ulCriticalNesting + 1
      /\ UNCHANGED <<pc, pxCurrentTCB, depth>>
  BY DEF vFreeRTOS_IRQInterrupt
<1>2. mode = "task"
  BY <1>1 DEF Contexts, InInterrupt
<1>3. /\ pxCurrentTCB \in Tasks /\ depth \in [Tasks -> Nat]
      /\ depth[pxCurrentTCB] \in Nat
  BY DEF Contexts, Types
<1>4. ulCriticalNesting = 0
  BY <1>1, <1>2, <1>3, ContextFields DEF Contexts, InTaskMode
<1>5. Types'
  BY <1>1, <1>2, <1>4, SavedIsContext DEF Contexts, Types, Bit
<1>6. InInterrupt'
  BY <1>1, <1>2, <1>4, SavedIsContext DEF InInterrupt
<1>7. QED
  BY <1>1, <1>5, <1>6 DEF Contexts, InMain, InTaskMode, Stopped

LEMMA HandlerPreserves ==
  ASSUME Contexts, Handler
  PROVE  Contexts'
<1>1. CASE LeaveInterrupt
  <2>1. /\ mode = "irq" /\ portRESTORE_CONTEXT(ctx, pxCurrentTCB)
        /\ depth' = depth /\ pc' = pc
    BY <1>1 DEF LeaveInterrupt, InHandler, outside
  <2>2. \A u \in Tasks : ctx[u] = Context(depth[u])
    BY <2>1 DEF Contexts, InInterrupt
  <2> QED
    BY <2>1, <2>2, Restored DEF Contexts, Types
<1>2. CASE CountTick \/ ClearTick \/ irq70_ttc
  <2>1. /\ mode = "irq" /\ mode' = mode /\ stage # "inside" /\ stage' # "inside"
        /\ pxCurrentTCB' \in Tasks
        /\ UNCHANGED <<masked, ulCriticalNesting, ctx, depth, pc>>
    BY <1>2 DEF CountTick, ClearTick, irq70_ttc, InHandler, outside, Contexts, Types
  <2> QED
    BY <2>1 DEF Contexts, Types, InMain, InTaskMode, InInterrupt, Stopped
<1>3. CASE KickEnters
  <2>1. /\ mode = "irq" /\ mode' = mode /\ stage = "entry" /\ stage' = "inside"
        /\ masked' = 1 /\ ulCriticalNesting' = ulCriticalNesting + 1
        /\ UNCHANGED <<pxCurrentTCB, ctx, depth, pc>>
    BY <1>3 DEF KickEnters, InHandler, outside
  <2>2. ulCriticalNesting' = 2
    BY <2>1 DEF Contexts, InInterrupt
  <2> QED
    BY <2>1, <2>2 DEF Contexts, Types, InMain, InTaskMode, InInterrupt, Stopped
<1>4. CASE KickLeaves
  <2>1. /\ mode = "irq" /\ mode' = mode /\ stage = "inside" /\ stage' = "exit"
        /\ ExitCritical
        /\ UNCHANGED <<pxCurrentTCB, ctx, depth, pc>>
    BY <1>4 DEF KickLeaves, InHandler, outside
  <2>2. ulCriticalNesting = 2 /\ masked = 1
    BY <2>1 DEF Contexts, InInterrupt
  <2>3. ulCriticalNesting' = 1 /\ masked' = 1
    BY <2>1, <2>2 DEF ExitCritical
  <2> QED
    BY <2>1, <2>3 DEF Contexts, Types, InMain, InTaskMode, InInterrupt, Stopped, Bit
<1>5. QED
  BY <1>1, <1>2, <1>3, <1>4 DEF Handler

LEMMA ExceptionPreserves ==
  ASSUME Contexts, FreeRTOS_ExHandler
  PROVE  Contexts'
BY DEF FreeRTOS_ExHandler, Contexts, Types, InMain, InTaskMode, InInterrupt, Stopped, Bit

-------------------------------------------------------------------------------
(* The theorem *)

LEMMA ContextsInit == Init => Contexts
<1> SUFFICES ASSUME Init PROVE Contexts
  OBVIOUS
<1>1. Types
  BY BoardAssumption DEF Init, Types, Bit, BootNesting, Tasks, FirstContext
<1>2. InMain
  BY ContextFields DEF Init, InMain
<1>3. QED
  BY <1>1, <1>2 DEF Init, Contexts, InTaskMode, InInterrupt, Stopped

LEMMA ProgramConstant == Next => program' = program
BY DEF Next, Main, TimerCalls, CfgInitialize, DriverCall, SetupGic, SetupHandler, SetupTtc,
       TraceInit, mmu_resource_table_setup, AllocateHist, register_handler,
       CreateMutex, CreateTask, vTaskStartScheduler, vPortISRStartFirstTask, Snapshot, Poll,
       ExceptionEnable, Wait, Disconnect, Step, TaskStep, vPortYieldProcessor,
       vPortEnterCritical, vPortExitCritical, CreateSemaphores, StartTtc, Handler, CountTick,
       ClearTick, KickEnters, KickLeaves, irq70_ttc, LeaveInterrupt, outside, TimerIntrHandler,
       FreeRTOS_ExHandler, vFreeRTOS_IRQInterrupt, CountDown, LinuxKick, TtcOverflow

LEMMA ContextsStep == IInv /\ [Next]_vars => IInv'
<1> SUFFICES ASSUME Contexts, program = "amp", Next PROVE Contexts'
  <2>1. ASSUME IInv, UNCHANGED vars PROVE IInv'
    BY <2>1 DEF IInv, vars, kernelVars, Contexts, Types, InMain, InTaskMode, InInterrupt,
                Stopped
  <2> QED
    BY <2>1, ProgramConstant DEF IInv
<1>1. CASE Main
  BY <1>1, MainBeforeStep, MainAfterStep DEF Main, MainBefore
<1>2. CASE TaskStep
  BY <1>2, TaskStepPreserves
<1>3. CASE Handler
  BY <1>3, HandlerPreserves
<1>4. CASE FreeRTOS_ExHandler
  BY <1>4, ExceptionPreserves
<1>5. CASE \E i \in Irqs : vFreeRTOS_IRQInterrupt(i)
  BY <1>5, InterruptPreserves
<1>6. CASE TimerIntrHandler \/ CountDown \/ LinuxKick \/ TtcOverflow
  <2>1. UNCHANGED kernelVars /\ pc' = pc
    BY <1>6 DEF TimerIntrHandler, CountDown, LinuxKick, TtcOverflow
  <2> QED
    BY <2>1, Frame DEF Contexts, Types
<1>7. QED
  BY <1>1, <1>2, <1>3, <1>4, <1>5, <1>6 DEF Next

LEMMA ContextsImply == IInv => NestingPrivate
<1> SUFFICES ASSUME Contexts, program = "amp" PROVE NestingPrivate
  BY DEF IInv, NestingPrivate
<1>1. \A t \in Tasks : depth[t] \in Nat
  BY DEF Contexts, Types
<1>2. mode = "task" =>
        /\ ulCriticalNesting = depth[pxCurrentTCB]
        /\ masked = IF depth[pxCurrentTCB] > 0 THEN 1 ELSE 0
  BY <1>1, ContextFields DEF Contexts, Types, InTaskMode
<1>3. mode # "task" => masked = 1
  BY DEF Contexts, Types, InMain, InInterrupt, Stopped
<1>4. \A t \in Tasks :
        (mode = "irq" \/ t # pxCurrentTCB) /\ mode # "halted" => ctx[t] = Context(depth[t])
  BY DEF Contexts, Types, InMain, InTaskMode, InInterrupt
<1>5. QED
  BY <1>2, <1>3, <1>4 DEF NestingPrivate, Context

\* Critical sections are private to their task, however tasks are switched and
\* interrupted inside and outside them (portISR.c 98-241, portmacro.h 106-189).
THEOREM CriticalSectionsPrivate == Spec => []NestingPrivate
<1>1. Init => IInv
  BY ContextsInit DEF IInv
<1>2. QED
  BY <1>1, ContextsStep, ContextsImply, PTL DEF Spec

-------------------------------------------------------------------------------
(* The script of the firmware, step by step *)

\* Where each step of the firmware's main is.
PlaceOf(step, i) ==
  /\ step = "trace_init" => i = 1
  /\ step = "mmu_resource_table_setup" => i = 2
  /\ step = "hist" => i = 3
  /\ step = "register_handler" => i = 4
  /\ step = "txring_mutex" => i = 5
  /\ step = "TXVRING_TASK" => i = 6
  /\ step = "RXVRING_TASK" => i = 7
  /\ step = "TIMER" => i = 8
  /\ step = "TASKDEMO" => i = 9
  /\ step = "IDLE" => i = 10
  /\ step = "disable" => i = 11
  /\ step = "gic" => i = 12
  /\ step = "connect" => i = 13
  /\ step = "cfg" => i = 14
  /\ step = "reload" => i = 15
  /\ step = "load" => i = 16
  /\ step = "start" => i = 17
  /\ step = "enable" => i = 18
  /\ step = "irq" => i = 19
  /\ step = "setup_handler" => i = 20
  /\ step = "ttc" => i = 21
  /\ step = "first_task" => i = 22
  /\ step \notin {"selftest", "stop", "snapshot", "poll", "unmask", "wait", "disconnect"}

LEMMA SetupPlaces == Len(Setup) = 11 /\ \A i \in 1 .. 11 : PlaceOf(Setup[i], i)
<1>1. Len(Setup) = 11
  BY DEF Setup
<1>2. /\ Setup[1] = "trace_init" /\ Setup[2] = "mmu_resource_table_setup"
      /\ Setup[3] = "hist" /\ Setup[4] = "register_handler" /\ Setup[5] = "txring_mutex"
      /\ Setup[6] = "TXVRING_TASK" /\ Setup[7] = "RXVRING_TASK" /\ Setup[8] = "TIMER"
      /\ Setup[9] = "TASKDEMO" /\ Setup[10] = "IDLE" /\ Setup[11] = "disable"
  BY DEF Setup
<1>3. \A i \in 1 .. 11 : i \in {1, 2, 3, 4, 5, 6, 7, 8, 9, 10, 11}
  OBVIOUS
<1>4. QED
  BY <1>1, <1>2, <1>3 DEF PlaceOf

LEMMA TickTimerPlaces == Len(TickTimer) = 8 /\ \A i \in 1 .. 8 : PlaceOf(TickTimer[i], i + 11)
<1>1. Len(TickTimer) = 8
  BY DEF TickTimer
<1>2. /\ TickTimer[1] = "gic" /\ TickTimer[2] = "connect" /\ TickTimer[3] = "cfg"
      /\ TickTimer[4] = "reload" /\ TickTimer[5] = "load" /\ TickTimer[6] = "start"
      /\ TickTimer[7] = "enable" /\ TickTimer[8] = "irq"
  BY DEF TickTimer
<1>3. \A i \in 1 .. 8 : i \in {1, 2, 3, 4, 5, 6, 7, 8}
  OBVIOUS
<1>4. QED
  BY <1>1, <1>2, <1>3 DEF PlaceOf

LEMMA Concat ==
  ASSUME NEW S, NEW s \in Seq(S), NEW t \in Seq(S)
  PROVE  /\ s \o t \in Seq(S) /\ Len(s \o t) = Len(s) + Len(t)
         /\ \A i \in 1 .. Len(s) : (s \o t)[i] = s[i]
         /\ \A i \in 1 .. Len(t) : (s \o t)[Len(s) + i] = t[i]
OBVIOUS

LEMMA ScriptPlaces ==
  /\ Len(Script["amp"]) = 22
  /\ \A i \in 1 .. 22 : PlaceOf(Script["amp"][i], i)
<1> DEFINE Rest == << "setup_handler", "ttc", "first_task" >>
           S == {"trace_init", "mmu_resource_table_setup", "hist", "register_handler",
                 "txring_mutex", "TXVRING_TASK", "RXVRING_TASK", "TIMER", "TASKDEMO", "IDLE",
                 "disable", "gic", "connect", "cfg", "reload", "load", "start", "enable",
                 "irq", "setup_handler", "ttc", "first_task"}
<1>1. Script["amp"] = (Setup \o TickTimer) \o Rest
  BY DEF Script
<1>2. Setup \in Seq(S) /\ TickTimer \in Seq(S) /\ Rest \in Seq(S)
  BY DEF Setup, TickTimer
<1>3. Len(Rest) = 3 /\ \A i \in 1 .. 3 : PlaceOf(Rest[i], i + 19)
  <2>1. Rest[1] = "setup_handler" /\ Rest[2] = "ttc" /\ Rest[3] = "first_task" /\ Len(Rest) = 3
    OBVIOUS
  <2>2. \A i \in 1 .. 3 : i \in {1, 2, 3}
    OBVIOUS
  <2> HIDE DEF Rest
  <2>3. QED
    BY <2>1, <2>2 DEF PlaceOf
<1> HIDE DEF Rest, S
<1> DEFINE Front2 == Setup \o TickTimer
<1>4. /\ Front2 \in Seq(S) /\ Len(Front2) = Len(Setup) + Len(TickTimer)
      /\ \A i \in 1 .. Len(Setup) : Front2[i] = Setup[i]
      /\ \A i \in 1 .. Len(TickTimer) : Front2[Len(Setup) + i] = TickTimer[i]
  BY <1>2, Concat
<1>5. /\ Len(Front2 \o Rest) = Len(Front2) + Len(Rest)
      /\ \A i \in 1 .. Len(Front2) : (Front2 \o Rest)[i] = Front2[i]
      /\ \A i \in 1 .. Len(Rest) : (Front2 \o Rest)[Len(Front2) + i] = Rest[i]
  BY <1>2, <1>4, Concat
<1>6. Script["amp"] = Front2 \o Rest
  BY <1>1
<1> HIDE DEF Front2
<1>7. Len(Front2) = 19 /\ Len(Script["amp"]) = 22
  BY <1>3, <1>4, <1>5, <1>6, SetupPlaces, TickTimerPlaces
<1>8. ASSUME NEW i \in 1 .. 11 PROVE PlaceOf(Script["amp"][i], i)
  <2>1. i \in 1 .. Len(Setup) /\ i \in 1 .. Len(Front2)
    BY <1>7, SetupPlaces
  <2>2. Script["amp"][i] = Setup[i]
    BY <1>4, <1>5, <1>6, <2>1
  <2>3. QED
    BY <2>2, SetupPlaces
<1>9. ASSUME NEW i \in 1 .. 8 PROVE PlaceOf(Script["amp"][11 + i], 11 + i)
  <2>1. i \in 1 .. Len(TickTimer) /\ 11 + i \in 1 .. Len(Front2) /\ i + 11 = 11 + i
    BY <1>7, TickTimerPlaces
  <2>2. Script["amp"][11 + i] = Front2[11 + i]
    BY <1>5, <1>6, <2>1
  <2>3. Front2[11 + i] = TickTimer[i]
    BY <1>4, <2>1, SetupPlaces
  <2>4. QED
    BY <2>1, <2>2, <2>3, TickTimerPlaces
<1>10. ASSUME NEW i \in 1 .. 3 PROVE PlaceOf(Script["amp"][19 + i], 19 + i)
  <2>1. i \in 1 .. Len(Rest) /\ i + 19 = 19 + i
    BY <1>3
  <2>2. Script["amp"][19 + i] = Rest[i]
    BY <1>5, <1>6, <1>7, <2>1
  <2>3. QED
    BY <1>3, <2>1, <2>2
<1>11. ASSUME NEW i \in 1 .. 22 PROVE PlaceOf(Script["amp"][i], i)
  <2>1. \/ i \in 1 .. 11
        \/ i - 11 \in 1 .. 8 /\ 11 + (i - 11) = i
        \/ i - 19 \in 1 .. 3 /\ 19 + (i - 19) = i
    OBVIOUS
  <2>2. CASE i - 11 \in 1 .. 8 /\ 11 + (i - 11) = i
    <3>1. PlaceOf(Script["amp"][11 + (i - 11)], 11 + (i - 11))
      BY <1>9, <2>2
    <3>2. QED
      BY <2>2, <3>1
  <2>3. CASE i - 19 \in 1 .. 3 /\ 19 + (i - 19) = i
    <3>1. PlaceOf(Script["amp"][19 + (i - 19)], 19 + (i - 19))
      BY <1>10, <2>3
    <3>2. QED
      BY <2>3, <3>1
  <2>4. QED
    BY <1>8, <2>1, <2>2, <2>3
<1>12. QED
  BY <1>7, <1>11

LEMMA StepPlace ==
  ASSUME Contexts, program = "amp", NEW step, Step(step)
  PROVE  /\ pc \in 1 .. 22 /\ pc' = pc + 1 /\ mode = "main"
         /\ PlaceOf(step, pc)
<1>1. pc \in 1 .. Len(Script["amp"]) /\ Script["amp"][pc] = step /\ mode = "main"
  BY StepsForward
<1>2. pc' = pc + 1
  BY DEF Step
<1>3. QED
  BY <1>1, <1>2, ScriptPlaces

-------------------------------------------------------------------------------
(* The table walk *)

Attributes == {"memory", "device", "none"}

MmuStep(table, e) == IF e.type = "MMU" THEN enable_tlb(table, e.da) ELSE table
MmuIter(table) ==
  CHOOSE iter : iter = [s \in SUBSET DOMAIN resources |->
                          IF s = {} THEN table
                          ELSE MmuStep(iter[s \ {Max(s)}], resources[Max(s)])]

LEMMA MmuUnfolds ==
  ASSUME NEW table
  PROVE  FoldLeft(LAMBDA t, e : IF e.type = "MMU" THEN enable_tlb(t, e.da) ELSE t,
                  table, resources) = MmuIter(table)[DOMAIN resources]
BY DEF FoldLeft, MapThenFoldSet, MmuIter, MmuStep

\* The resource table as a function of its indices.
LEMMA EntriesAre ==
  /\ Len(resources) \in Nat /\ DOMAIN resources = 1 .. Len(resources)
  /\ resources \in [1 .. Len(resources) -> [type : {"TRACE", "MMU"}, da : Sections]]
  /\ \A i \in 1 .. Len(resources) :
       /\ resources[i] \in [type : {"TRACE", "MMU"}, da : Sections]
       /\ resources[i].da \in Sections
       /\ resources[i].type = "MMU" => resources[i].da # MMUTable
<1> DEFINE E == [type : {"TRACE", "MMU"}, da : Sections]
<1>1. resources \in Seq(E)
  BY BoardAssumption
<1>2. /\ Len(resources) \in Nat /\ DOMAIN resources = 1 .. Len(resources)
      /\ resources \in [1 .. Len(resources) -> E]
  <2> HIDE DEF E
  <2> QED
    BY <1>1
<1>3. \A i \in 1 .. Len(resources) : resources[i] \in E
  <2> HIDE DEF E
  <2> QED
    BY <1>2
<1>4. \A i \in 1 .. Len(resources) : resources[i].type = "MMU" => resources[i].da # MMUTable
  BY <1>2, BoardAssumption
<1>5. QED
  BY <1>2, <1>3, <1>4

\* After the first m entries the devices among them are mapped as devices.
DevicesUpTo(table, m) ==
  \A i \in 1 .. m : resources[i].type = "MMU" => table[resources[i].da] = "device"

\* The walk maps the section of every MMU entry as a device.
LEMMA MmuWalk ==
  ASSUME NEW table \in [Sections -> Attributes]
  PROVE  LET walked == FoldLeft(LAMBDA t, e : IF e.type = "MMU" THEN enable_tlb(t, e.da)
                                              ELSE t, table, resources)
         IN  /\ walked \in [Sections -> Attributes]
             /\ DevicesUpTo(walked, Len(resources))
<1> DEFINE n == Len(resources)
           E == [type : {"TRACE", "MMU"}, da : Sections]
           R == [Sections -> Attributes]
           G == [p \in E \X R |-> MmuStep(p[2], p[1])]
           g == MmuIter(table)
           Next1(iter) == [s \in SUBSET DOMAIN resources |->
                             IF s = {} THEN table
                             ELSE MmuStep(iter[s \ {Max(s)}], resources[Max(s)])]
<1>1. n \in Nat /\ resources \in [1 .. n -> E] /\ DOMAIN resources = 1 .. n
  BY EntriesAre
<1>2. ASSUME NEW e \in E, NEW t \in R
      PROVE  /\ MmuStep(t, e) \in R
             /\ e.type = "MMU" => MmuStep(t, e)[e.da] = "device"
             /\ \A s \in Sections : t[s] = "device" => MmuStep(t, e)[s] = "device"
  BY DEF MmuStep, enable_tlb, Attributes
<1>3. G \in [E \X R -> R] /\ \A e \in E, t \in R : G[<<e, t>>] = MmuStep(t, e)
  BY <1>2
<1> HIDE DEF G, R, E, n
<1>4. table \in R
  BY DEF R
<1>5. PICK k \in [SUBSET (1 .. n) -> R] : LastFolds(k, resources, n, table, G)
  BY <1>1, <1>3, <1>4, LastFirst
<1>6. ASSUME NEW s \in SUBSET (1 .. n)
      PROVE  k[s] = IF s = {} THEN table ELSE MmuStep(k[s \ {Max(s)}], resources[Max(s)])
  <2>1. CASE s = {}
    BY <1>5, <2>1 DEF LastFolds
  <2>2. CASE s # {}
    <3>1. Max(s) \in 1 .. n
      BY <1>1, <2>2, MaxIsLast
    <3>2. resources[Max(s)] \in E /\ k[s \ {Max(s)}] \in R
      BY <1>1, <3>1
    <3>3. k[s] = G[<<resources[Max(s)], k[s \ {Max(s)}]>>]
      BY <1>5, <2>2 DEF LastFolds
    <3>4. QED
      BY <1>3, <2>2, <3>2, <3>3
  <2>3. QED
    BY <2>1, <2>2
<1>7. k = Next1(k)
  BY <1>1, <1>6
<1>8. g = Next1(g)
  BY <1>7 DEF MmuIter
<1> HIDE DEF g
<1>9. \A s \in SUBSET (1 .. n) :
        g[s] = IF s = {} THEN table ELSE MmuStep(g[s \ {Max(s)}], resources[Max(s)])
  BY <1>1, <1>8
<1> DEFINE T == {m \in Nat : m <= n => g[1 .. m] \in R /\ DevicesUpTo(g[1 .. m], m)}
<1>10. 0 \in T
  <2>1. 1 .. 0 = {}
    OBVIOUS
  <2>2. g[1 .. 0] = table
    BY <1>9, <2>1
  <2>3. QED
    BY <1>4, <2>1, <2>2 DEF DevicesUpTo
<1>11. ASSUME NEW m \in Nat, m \in T PROVE m + 1 \in T
  <2> SUFFICES ASSUME m + 1 <= n
               PROVE  g[1 .. m + 1] \in R /\ DevicesUpTo(g[1 .. m + 1], m + 1)
    OBVIOUS
  <2>0. n \in Nat /\ m + 1 \in Nat /\ m + 1 > 0 /\ (m + 1) - 1 = m
    BY <1>1
  <2>1. /\ Max(1 .. m + 1) = m + 1 /\ (1 .. m + 1) \ {m + 1} = 1 .. m
        /\ 1 .. m + 1 \in SUBSET (1 .. n) /\ m + 1 \in 1 .. m + 1
    <3>1. Max(1 .. m + 1) = m + 1 /\ (1 .. m + 1) \ {m + 1} = 1 .. m
      BY <2>0, MaxIsLast
    <3>2. QED
      BY <2>0, <3>1
  <2>2. g[1 .. m + 1] = MmuStep(g[1 .. m], resources[m + 1])
    BY <1>9, <2>1
  <2>3. g[1 .. m] \in R /\ DevicesUpTo(g[1 .. m], m)
    BY <1>1, <1>11
  <2>4. resources[m + 1] \in E /\ \A i \in 1 .. m : resources[i] \in E
    BY <1>1
  <2>5. DevicesUpTo(g[1 .. m + 1], m + 1)
    <3>1. ASSUME NEW i \in 1 .. m + 1, resources[i].type = "MMU"
          PROVE  g[1 .. m + 1][resources[i].da] = "device"
      <4>1. CASE i = m + 1
        BY <1>2, <2>2, <2>3, <2>4, <3>1, <4>1
      <4>2. CASE i \in 1 .. m
        <5>1. g[1 .. m][resources[i].da] = "device" /\ resources[i].da \in Sections
          BY <2>3, <2>4, <3>1, <4>2 DEF DevicesUpTo, E
        <5>2. QED
          BY <1>2, <2>2, <2>3, <2>4, <5>1
      <4>3. QED
        BY <4>1, <4>2
    <3>2. QED
      BY <3>1 DEF DevicesUpTo
  <2>6. QED
    BY <1>2, <2>2, <2>3, <2>4, <2>5
<1> HIDE DEF T
<1>12. n \in T
  BY <1>1, <1>10, <1>11, SetInduction
<1>13. g[1 .. n] \in R /\ DevicesUpTo(g[1 .. n], n)
  BY <1>1, <1>12 DEF T
<1>14. QED
  BY <1>1, <1>13, MmuUnfolds DEF R, g, n
-------------------------------------------------------------------------------
(* Set-up is complete when it is used *)

Sems == {"wait_for_irq", "wait_for_clone"}
Active == mode \in {"main", "task", "irq"}

\* Each conjunct says what a step of main has done once it is behind.
ObjectsMade ==
  /\ pc > 1 => "stdio" \in made
  /\ pc > 3 => "hist" \in made
  /\ pc > 5 => "txring_mutex" \in made
  /\ pc > 6 => "TXVRING_TASK" \in made
  /\ pc > 7 => "RXVRING_TASK" \in made
  /\ pc > 8 => "TIMER" \in made
  /\ pc > 9 => "TASKDEMO" \in made
  /\ pc > 10 => "IDLE" \in made

MmuReady ==
  /\ mmu \in [Sections -> Attributes]
  /\ pc > 2 => DevicesUpTo(mmu, Len(resources)) /\ mmu[MMUTable] = "none"

\* From "gic" on nothing is taken away from the controller.
GicReady ==
  /\ pc > 4 => handler = 1
  /\ pc > 13 => TICK \in connected
  /\ pc > 18 => TICK \in enabled
  /\ pc > 20 => Kicks \subseteq enabled \cap connected
  /\ pc > 21 => TTC \in enabled \cap connected

TimerReady ==
  /\ tm \in [load : Nat, counter : Nat, enable : Bit, reload : Bit, irq : Bit, event : Bit]
  /\ pc > 15 => tm.reload = 1
  /\ pc > 16 => tm.load = LOAD
  /\ pc > 17 => tm.enable = 1
  /\ pc > 19 => tm.irq = 1

\* Once main has stopped the firmware before's sampling counter, it runs, and its
\* interrupt waits, only for a task that has its semaphores.
TtcReady ==
  /\ pending \subseteq Irqs /\ irq \in Irqs
  /\ pc > 21 /\ ttc # "off" => Sems \subseteq made
  /\ pc > 21 /\ TTC \in pending => "wait_for_irq" \in made
  /\ mode = "irq" /\ irq = TTC => "wait_for_irq" \in made

Started == mode # "main" => pc > 22

Ready == Started /\ ObjectsMade /\ MmuReady /\ GicReady /\ TimerReady /\ TtcReady

\* The inductive invariant, of a core that has not stopped.
ReadyInv == program = "amp" /\ Active => Ready

LEMMA ReadyInit == Init => ReadyInv
<1> SUFFICES ASSUME Init PROVE Ready
  BY DEF ReadyInv
<1>1. pc = 1 /\ mode = "main" /\ pending \subseteq {TICK, TTC} /\ irq = TICK
  BY DEF Init
<1>2. Started /\ ObjectsMade /\ GicReady
  BY <1>1 DEF Started, ObjectsMade, GicReady
<1>3. MmuReady
  BY <1>1 DEF Init, MmuReady, Attributes
<1>4. tm \in [load : Nat, counter : Nat, enable : Bit, reload : Bit, irq : Bit, event : Bit]
  BY BoardAssumption DEF Init, Reset, Bit
<1>5. TimerReady
  BY <1>1, <1>4 DEF TimerReady
<1>6. TtcReady
  BY <1>1 DEF TtcReady, Irqs, TICK, TTC, Kicks
<1>7. QED
  BY <1>2, <1>3, <1>5, <1>6 DEF Ready

\* Steps that set nothing up: of tasks, handlers and the hardware.
LEMMA ReadyFrame ==
  ASSUME Ready, pc' = pc, mode = "main" => mode' = "main", made \subseteq made',
         UNCHANGED <<mmu, handler, gicVars>>, TimerReady', TtcReady'
  PROVE  Ready'
BY DEF Ready, Started, ObjectsMade, MmuReady, GicReady, gicVars

LEMMA TimerKept ==
  ASSUME TimerReady, pc' = pc,
         \/ tm' = tm
         \/ CanCount(tm) /\ tm' = Count(tm)
         \/ tm' = XScuTimer_ClearInterruptStatus(tm)
  PROVE  TimerReady'
<1>1. CASE CanCount(tm) /\ tm' = Count(tm)
  <2>1. /\ tm.counter \in Nat /\ tm.load \in Nat
        /\ (IF tm.counter = 0 THEN tm.load ELSE tm.counter - 1) \in Nat
    BY DEF TimerReady
  <2>2. (IF Expires(tm) THEN 1 ELSE tm.event) \in Bit
    BY DEF TimerReady, Bit
  <2>3. /\ tm' \in [load : Nat, counter : Nat, enable : Bit, reload : Bit, irq : Bit, event : Bit]
        /\ tm'.reload = tm.reload /\ tm'.load = tm.load /\ tm'.enable = tm.enable
        /\ tm'.irq = tm.irq
    BY <1>1, <2>1, <2>2 DEF TimerReady, Count
  <2>4. QED
    BY <2>3 DEF TimerReady
<1>2. CASE tm' = XScuTimer_ClearInterruptStatus(tm)
  BY <1>2 DEF TimerReady, XScuTimer_ClearInterruptStatus, Bit
<1>3. QED
  BY <1>1, <1>2 DEF TimerReady

\* A change of the timer's registers makes only the tick wait.
LEMMA SetTimerPending ==
  ASSUME TtcReady, NEW registers, SetTimer(registers),
         UNCHANGED <<made, ttc, irq, mode>>, pc' > 21 => pc > 21
  PROVE  TtcReady' /\ tm' = registers
<1>1. pending' \in {pending, pending \cup {TICK}} /\ tm' = registers
  BY DEF SetTimer
<1>2. QED
  BY <1>1 DEF TtcReady, Irqs, TICK, TTC

-------------------------------------------------------------------------------
(* The steps of main *)

LEMMA TtcKept ==
  ASSUME TtcReady, made \subseteq made', UNCHANGED <<ttc, irq, pending>>,
         mode' = "irq" => mode = "irq", pc' > 21 => pc > 21
  PROVE  TtcReady'
BY DEF TtcReady

\* The steps that allocate.
LEMMA ReadyObjects ==
  ASSUME Contexts, program = "amp", Ready, Active',
         TraceInit \/ AllocateHist \/ CreateMutex \/ \E t \in Tasks : CreateTask(t)
  PROVE  Ready'
<1>1. ASSUME NEW object, NEW step, Step(step), made' = made \cup {object}, mode' = "main",
             PlaceOf(step, pc) => pc \in {1, 3, 5, 6, 7, 8, 9, 10},
             PlaceOf(step, pc) =>
               /\ pc = 1 => object = "stdio"
               /\ pc = 3 => object = "hist"
               /\ pc = 5 => object = "txring_mutex"
               /\ pc = 6 => object = "TXVRING_TASK"
               /\ pc = 7 => object = "RXVRING_TASK"
               /\ pc = 8 => object = "TIMER"
               /\ pc = 9 => object = "TASKDEMO"
               /\ pc = 10 => object = "IDLE",
             UNCHANGED <<irq, tm, pending, gicVars, handler, mmu, ttc>>
      PROVE  Ready'
  <2>1. pc \in 1 .. 22 /\ pc' = pc + 1 /\ mode = "main" /\ PlaceOf(step, pc)
    BY <1>1, StepPlace
  <2>2. TtcReady'
    BY <1>1, <2>1, TtcKept DEF Ready
  <2>3. MmuReady' /\ GicReady' /\ TimerReady' /\ Started'
    BY <1>1, <2>1 DEF Ready, MmuReady, GicReady, TimerReady, Started, gicVars
  <2>4. ObjectsMade'
    BY <1>1, <2>1 DEF Ready, ObjectsMade
  <2>5. QED
    BY <2>2, <2>3, <2>4 DEF Ready
<1>2. ASSUME NEW object, Allocate(object) PROVE made' = made \cup {object} /\ mode' = mode
  BY <1>2 DEF Allocate, vApplicationMallocFailedHook, Active
<1>3. CASE TraceInit
  <2>1. /\ Step("trace_init") /\ Allocate("stdio")
        /\ UNCHANGED <<irq, tm, pending, gicVars, handler, mmu, ttc>>
    BY <1>3 DEF TraceInit, timerVars
  <2>2. mode' = "main"
    BY <1>2, <2>1, StepPlace
  <2>3. PlaceOf("trace_init", pc) => pc = 1
    BY DEF PlaceOf
  <2>4. QED
    BY <1>1, <1>2, <2>1, <2>2, <2>3
<1>4. CASE AllocateHist
  <2>1. /\ Step("hist") /\ made' = made \cup {"hist"} /\ mode' = mode
        /\ UNCHANGED <<irq, tm, pending, gicVars, handler, mmu, ttc>>
    BY <1>4 DEF AllocateHist, timerVars, Active
  <2>2. mode' = "main"
    BY <2>1, StepPlace
  <2>3. PlaceOf("hist", pc) => pc = 3
    BY DEF PlaceOf
  <2>4. QED
    BY <1>1, <2>1, <2>2, <2>3
<1>5. CASE CreateMutex
  <2>1. /\ Step("txring_mutex") /\ Allocate("txring_mutex")
        /\ UNCHANGED <<irq, tm, pending, gicVars, handler, mmu, ttc>>
    BY <1>5 DEF CreateMutex, timerVars
  <2>2. mode' = "main"
    BY <1>2, <2>1, StepPlace
  <2>3. PlaceOf("txring_mutex", pc) => pc = 5
    BY DEF PlaceOf
  <2>4. QED
    BY <1>1, <1>2, <2>1, <2>2, <2>3
<1>6. ASSUME NEW t \in Tasks, CreateTask(t)
      PROVE  Ready'
  <2>1. /\ Step(t) /\ Allocate(t)
        /\ UNCHANGED <<irq, tm, pending, gicVars, handler, mmu, ttc>>
    BY <1>6 DEF CreateTask, timerVars
  <2>2. mode' = "main"
    BY <1>2, <2>1, StepPlace
  <2>3. PlaceOf(t, pc) =>
          /\ t = "TXVRING_TASK" => pc = 6
          /\ t = "RXVRING_TASK" => pc = 7
          /\ t = "TIMER" => pc = 8
          /\ t = "TASKDEMO" => pc = 9
          /\ t = "IDLE" => pc = 10
    BY DEF PlaceOf
  <2>4. t \in {"TXVRING_TASK", "RXVRING_TASK", "TIMER", "TASKDEMO", "IDLE"}
    BY DEF Tasks, AppTasks
  <2>5. QED
    BY <1>1, <1>2, <2>1, <2>2, <2>3, <2>4
<1>7. QED
  BY <1>3, <1>4, <1>5, <1>6

\* The walk through the resource table, then the table itself out of reach.
LEMMA ReadyMmu ==
  ASSUME Contexts, program = "amp", Ready, mmu_resource_table_setup
  PROVE  Ready'
<1> DEFINE walked == FoldLeft(LAMBDA t, e : IF e.type = "MMU" THEN enable_tlb(t, e.da)
                                            ELSE t, mmu, resources)
<1>1. /\ Step("mmu_resource_table_setup") /\ mmu' = disable_tlb(walked, MMUTable)
      /\ UNCHANGED <<mode, irq, tm, pending, gicVars, handler, ttc, made>>
  BY DEF mmu_resource_table_setup, timerVars, kernelVars
<1>2. walked \in [Sections -> Attributes] /\ DevicesUpTo(walked, Len(resources))
  BY MmuWalk DEF Ready, MmuReady
<1> HIDE DEF walked
<1>3. pc = 2 /\ pc' = 3 /\ mode = "main"
  <2>1. PlaceOf("mmu_resource_table_setup", pc) => pc = 2
    BY DEF PlaceOf
  <2>2. QED
    BY <1>1, <2>1, StepPlace
<1>4. mmu' \in [Sections -> Attributes] /\ mmu'[MMUTable] = "none"
  BY <1>1, <1>2, BoardAssumption DEF disable_tlb, Attributes
<1>5. DevicesUpTo(mmu', Len(resources))
  <2>1. ASSUME NEW i \in 1 .. Len(resources), resources[i].type = "MMU"
        PROVE  mmu'[resources[i].da] = "device"
    <3>1. walked[resources[i].da] = "device"
      BY <1>2, <2>1 DEF DevicesUpTo
    <3>2. resources[i].da \in Sections /\ resources[i].da # MMUTable
      BY <2>1, EntriesAre
    <3>3. mmu' = [walked EXCEPT ![MMUTable] = "none"]
      BY <1>1 DEF disable_tlb
    <3>4. QED
      BY <1>2, <3>1, <3>2, <3>3
  <2>2. QED
    BY <2>1 DEF DevicesUpTo
<1>6. MmuReady'
  BY <1>4, <1>5 DEF MmuReady
<1>7. Started' /\ ObjectsMade' /\ GicReady' /\ TimerReady'
  BY <1>1, <1>3 DEF Ready, Started, ObjectsMade, GicReady, TimerReady, gicVars
<1>8. TtcReady'
  BY <1>1, <1>3, TtcKept DEF Ready
<1>9. QED
  BY <1>6, <1>7, <1>8 DEF Ready

\* The steps that set up the timer, the controller and the handlers.
LEMMA ReadyOthers ==
  ASSUME Contexts, program = "amp", Ready,
         \/ register_handler \/ vTaskStartScheduler \/ SetupGic
         \/ SetupHandler \/ SetupTtc \/ CfgInitialize
  PROVE  Ready'
<1>1. UNCHANGED <<mode, irq, tm, mmu, made>> /\ \E step : Step(step)
  BY DEF register_handler, vTaskStartScheduler, SetupGic, SetupHandler, SetupTtc,
         CfgInitialize, timerVars, kernelVars, setupVars
<1>2. pc \in 1 .. 22 /\ pc' = pc + 1 /\ mode = "main"
  BY <1>1, StepPlace
<1>3. TtcReady'
  <2>1. CASE SetupTtc
    <3>1. /\ Step("ttc")
          /\ handler = 1 => ttc' = "off" /\ pending' = pending \ {TTC}
      BY <2>1 DEF SetupTtc
    <3>2. PlaceOf("ttc", pc)
      BY <3>1, StepPlace
    <3>3. pc = 21
      BY <3>2 DEF PlaceOf
    <3>4. ttc' = "off" /\ pending' = pending \ {TTC}
      BY <3>1, <3>3 DEF Ready, GicReady
    <3>5. QED
      BY <1>1, <1>2, <3>4 DEF Ready, TtcReady
  <2>2. CASE \/ register_handler \/ vTaskStartScheduler \/ SetupGic \/ SetupHandler
             \/ CfgInitialize
    <3>1. UNCHANGED <<ttc, pending>>
      BY <2>2 DEF register_handler, vTaskStartScheduler, SetupGic, SetupHandler,
                  CfgInitialize, timerVars, setupVars
    <3>2. \E step \in {"register_handler", "disable", "gic", "connect", "enable",
                       "setup_handler", "cfg"} : Step(step)
      BY <2>2 DEF register_handler, vTaskStartScheduler, SetupGic, SetupHandler,
                  CfgInitialize
    <3>3. PICK step \in {"register_handler", "disable", "gic", "connect", "enable",
                         "setup_handler", "cfg"} : Step(step)
      BY <3>2
    <3>4. PlaceOf(step, pc)
      BY <3>3, StepPlace
    <3>5. pc # 21
      BY <3>4 DEF PlaceOf
    <3>6. pc' > 21 => pc > 21
      BY <1>2, <3>5
    <3>7. QED
      BY <1>1, <3>1, <3>6, TtcKept DEF Ready
  <2>3. QED
    BY <2>1, <2>2
<1>4. pc \in {4, 11, 12, 13, 14, 18, 20, 21}
  <2>1. \E step \in {"register_handler", "disable", "gic", "connect", "enable",
                     "setup_handler", "ttc", "cfg"} : Step(step)
    BY DEF register_handler, vTaskStartScheduler, SetupGic, SetupHandler, SetupTtc,
           CfgInitialize
  <2>2. PICK step \in {"register_handler", "disable", "gic", "connect", "enable",
                       "setup_handler", "ttc", "cfg"} : Step(step)
    BY <2>1
  <2>3. PlaceOf(step, pc)
    BY <2>2, StepPlace
  <2>4. QED
    BY <2>3 DEF PlaceOf
<1>5. Started' /\ ObjectsMade' /\ MmuReady' /\ TimerReady'
  BY <1>1, <1>2, <1>4 DEF Ready, Started, ObjectsMade, MmuReady, TimerReady
<1>6. GicReady'
  <2>1. CASE vTaskStartScheduler \/ CfgInitialize
    <3>1. UNCHANGED <<gicVars, handler>>
      BY <2>1 DEF vTaskStartScheduler, CfgInitialize, setupVars
    <3>2. pc \in {11, 14}
      <4>1. Step("disable") \/ Step("cfg")
        BY <2>1 DEF vTaskStartScheduler, CfgInitialize
      <4>2. PlaceOf("disable", pc) \/ PlaceOf("cfg", pc)
        BY <4>1, StepPlace
      <4>3. QED
        BY <4>2 DEF PlaceOf
    <3>3. QED
      BY <1>2, <3>1, <3>2 DEF Ready, GicReady, gicVars
  <2>2. CASE register_handler
    <3>1. Step("register_handler") /\ handler' = 1 /\ UNCHANGED gicVars
      BY <2>2 DEF register_handler
    <3>2. PlaceOf("register_handler", pc)
      BY <3>1, StepPlace
    <3>3. pc = 4
      BY <3>2 DEF PlaceOf
    <3>4. QED
      BY <1>2, <3>1, <3>3 DEF Ready, GicReady, gicVars
  <2>3. CASE SetupGic
    <3>1. /\ \/ Step("gic") /\ connected' = {} /\ enabled' = {}
             \/ Step("connect") /\ connected' = connected \cup {TICK} /\ UNCHANGED enabled
             \/ Step("enable") /\ enabled' = enabled \cup {TICK} /\ UNCHANGED connected
          /\ UNCHANGED handler
      BY <2>3 DEF SetupGic, setupVars
    <3>2. /\ Step("gic") => pc = 12
          /\ Step("connect") => pc = 13
          /\ Step("enable") => pc = 18
      <4>1. /\ Step("gic") => PlaceOf("gic", pc)
            /\ Step("connect") => PlaceOf("connect", pc)
            /\ Step("enable") => PlaceOf("enable", pc)
        BY StepPlace
      <4>2. QED
        BY <4>1 DEF PlaceOf
    <3>3. QED
      BY <1>2, <3>1, <3>2 DEF Ready, GicReady
  <2>4. CASE SetupHandler \/ SetupTtc
    <3>1. \/ Step("setup_handler") /\ (handler = 1 => setupIRQhandler(Kicks))
          \/ Step("ttc") /\ (handler = 1 => setupIRQhandler({TTC}))
      BY <2>4 DEF SetupHandler, SetupTtc
    <3>2. handler' = handler
      BY <2>4 DEF SetupHandler, SetupTtc, setupVars
    <3>3. /\ Step("setup_handler") => pc = 20
          /\ Step("ttc") => pc = 21
      <4>1. /\ Step("setup_handler") => PlaceOf("setup_handler", pc)
            /\ Step("ttc") => PlaceOf("ttc", pc)
        BY StepPlace
      <4>2. QED
        BY <4>1 DEF PlaceOf
    <3>4. handler = 1
      BY <3>1, <3>3 DEF Ready, GicReady
    <3>5. QED
      BY <1>2, <3>1, <3>2, <3>3, <3>4 DEF Ready, GicReady, setupIRQhandler
  <2>5. QED
    BY <2>1, <2>2, <2>3, <2>4
<1>7. QED
  BY <1>3, <1>5, <1>6 DEF Ready

LEMMA ReadyTimer ==
  ASSUME Contexts, program = "amp", Ready, TimerCalls, ~ CfgInitialize
  PROVE  Ready'
<1>1. \E call \in {"selftest", "reload", "load", "start", "irq", "stop"} : Step(call)
  BY DEF TimerCalls, DriverCall
<1>2. /\ UNCHANGED <<mode, irq, gicVars, handler, mmu, made, ttc>>
      /\ \E registers : SetTimer(registers)
  BY DEF TimerCalls, DriverCall, kernelVars, setupVars
<1>3. PICK call \in {"selftest", "reload", "load", "start", "irq", "stop"} : Step(call)
  BY <1>1
<1>4. PlaceOf(call, pc) /\ pc \in 1 .. 22 /\ pc' = pc + 1 /\ mode = "main"
  BY <1>3, StepPlace
<1>5. /\ call \in {"reload", "load", "start", "irq"}
      /\ call = "reload" => pc = 15
      /\ call = "load" => pc = 16
      /\ call = "start" => pc = 17
      /\ call = "irq" => pc = 19
  BY <1>3, <1>4 DEF PlaceOf
<1>6. TtcReady'
  BY <1>2, <1>4, <1>5, SetTimerPending DEF Ready
<1>7. Started' /\ ObjectsMade' /\ MmuReady' /\ GicReady'
  BY <1>2, <1>4, <1>5 DEF Ready, Started, ObjectsMade, MmuReady, GicReady, gicVars
<1>8. \/ pc = 15 /\ tm' = XScuTimer_EnableAutoReload(tm)
      \/ pc = 16 /\ tm' = XScuTimer_LoadTimer(tm, LOAD)
      \/ pc = 17 /\ tm' = XScuTimer_Start(tm)
      \/ pc = 19 /\ tm' = XScuTimer_EnableInterrupt(tm)
  <2>1. /\ Step("selftest") => PlaceOf("selftest", pc)
        /\ Step("stop") => PlaceOf("stop", pc)
        /\ Step("reload") => PlaceOf("reload", pc)
        /\ Step("load") => PlaceOf("load", pc)
        /\ Step("start") => PlaceOf("start", pc)
        /\ Step("irq") => PlaceOf("irq", pc)
    BY StepPlace
  <2>2. /\ ~ Step("selftest") /\ ~ Step("stop")
        /\ Step("reload") => pc = 15
        /\ Step("load") => pc = 16
        /\ Step("start") => pc = 17
        /\ Step("irq") => pc = 19
    BY <2>1 DEF PlaceOf
  <2>3. QED
    BY <2>2 DEF TimerCalls, DriverCall, SetTimer
<1>9. TimerReady'
  <2>1. LOAD \in Nat
    BY BoardAssumption
  <2>2. CASE pc = 15 /\ tm' = XScuTimer_EnableAutoReload(tm)
    BY <1>4, <2>2 DEF Ready, TimerReady, XScuTimer_EnableAutoReload, Bit
  <2>3. CASE pc = 16 /\ tm' = XScuTimer_LoadTimer(tm, LOAD)
    <3>1. tm' = [tm EXCEPT !.load = LOAD, !.counter = LOAD]
      BY <2>3 DEF XScuTimer_LoadTimer, WriteLoad
    <3>2. /\ tm' \in [load : Nat, counter : Nat, enable : Bit, reload : Bit, irq : Bit,
                      event : Bit]
          /\ tm'.reload = tm.reload /\ tm'.load = LOAD
      BY <2>1, <3>1 DEF Ready, TimerReady
    <3>3. QED
      BY <1>4, <2>3, <3>2 DEF Ready, TimerReady
  <2>4. CASE pc = 17 /\ tm' = XScuTimer_Start(tm)
    BY <1>4, <2>4 DEF Ready, TimerReady, XScuTimer_Start, Bit
  <2>5. CASE pc = 19 /\ tm' = XScuTimer_EnableInterrupt(tm)
    BY <1>4, <2>5 DEF Ready, TimerReady, XScuTimer_EnableInterrupt, Bit
  <2>6. QED
    BY <1>8, <2>2, <2>3, <2>4, <2>5
<1>10. QED
  BY <1>6, <1>7, <1>9 DEF Ready

LEMMA ReadyMain ==
  ASSUME Contexts, program = "amp", Ready, Active', Main
  PROVE  Ready'
<1>1. CASE vPortISRStartFirstTask
  <2>1. /\ Step("first_task") /\ mode' = "task"
        /\ UNCHANGED <<irq, timerVars, gicVars, setupVars>>
    BY <1>1 DEF vPortISRStartFirstTask, portRESTORE_CONTEXT
  <2>2. PlaceOf("first_task", pc) /\ pc' = pc + 1
    BY <2>1, StepPlace
  <2>3. pc = 22
    BY <2>2 DEF PlaceOf
  <2>4. TtcReady'
    BY <2>1, <2>2, <2>3, TtcKept DEF Ready, timerVars, setupVars
  <2>5. Started' /\ ObjectsMade' /\ MmuReady' /\ GicReady' /\ TimerReady'
    BY <2>1, <2>2, <2>3
       DEF Ready, Started, ObjectsMade, MmuReady, GicReady, TimerReady, gicVars, timerVars,
           setupVars
  <2>6. QED
    BY <2>4, <2>5 DEF Ready
<1>2. ASSUME Snapshot \/ Poll \/ ExceptionEnable \/ Wait \/ Disconnect PROVE FALSE
  <2>1. CASE Snapshot \/ Poll \/ ExceptionEnable \/ Disconnect
    <3>1. \E step \in {"snapshot", "poll", "unmask", "disconnect"} : Step(step)
      BY <2>1 DEF Snapshot, Poll, ExceptionEnable, Disconnect
    <3>2. PICK step \in {"snapshot", "poll", "unmask", "disconnect"} : Step(step)
      BY <3>1
    <3>3. PlaceOf(step, pc)
      BY <3>2, StepPlace
    <3>4. QED
      BY <3>3 DEF PlaceOf
  <2>2. CASE Wait
    <3>1. pc \in 1 .. 22 /\ Script["amp"][pc] = "wait"
      BY <2>2, ScriptPlaces, SMTT(30) DEF Wait, At, Contexts, Types
    <3>2. PlaceOf("wait", pc)
      BY <3>1, ScriptPlaces
    <3>3. QED
      BY <3>2 DEF PlaceOf
  <2>3. QED
    BY <1>2, <2>1, <2>2
<1>3. QED
  BY <1>1, <1>2, ReadyObjects, ReadyMmu, ReadyOthers, ReadyTimer DEF Main, TimerCalls

-------------------------------------------------------------------------------
(* Everything else *)

LEMMA ReadyTask ==
  ASSUME program = "amp", Ready, Active', TaskStep
  PROVE  Ready'
<1>1. CASE CreateSemaphores
  <2>1. /\ made \subseteq made' /\ mode = "task" /\ mode' = mode
        /\ UNCHANGED <<pc, irq, tm, pending, gicVars, handler, mmu, ttc>>
    BY <1>1 DEF CreateSemaphores, InTaskOnly, InTask, vApplicationMallocFailedHook, Active,
                timerVars
  <2>2. TtcReady' /\ TimerReady'
    BY <2>1, TtcKept, TimerKept DEF Ready
  <2>3. QED
    BY <2>1, <2>2, ReadyFrame
<1>2. CASE StartTtc
  <2>1. /\ mode = "task" /\ Sems \subseteq made
        /\ UNCHANGED <<pc, mode, irq, tm, pending, gicVars, handler, mmu, made>>
    BY <1>2 DEF StartTtc, InTaskOnly, InTask, kernelVars, timerVars, Sems
  <2>2. TtcReady'
    BY <2>1 DEF Ready, TtcReady
  <2>3. TimerReady'
    BY <2>1, TimerKept DEF Ready
  <2>4. QED
    BY <2>1, <2>2, <2>3, ReadyFrame
<1>3. CASE vPortYieldProcessor \/ vPortEnterCritical \/ vPortExitCritical
  <2>1. /\ mode = "task" /\ mode' = "task"
        /\ UNCHANGED <<pc, irq, timerVars, gicVars, setupVars>>
    BY <1>3 DEF vPortYieldProcessor, vPortEnterCritical, vPortExitCritical,
                InTask, portRESTORE_CONTEXT, outside
  <2>2. TtcReady' /\ TimerReady'
    BY <2>1, TtcKept, TimerKept DEF Ready, timerVars, setupVars
  <2>3. QED
    BY <2>1, <2>2, ReadyFrame DEF setupVars
<1>4. QED
  BY <1>1, <1>2, <1>3 DEF TaskStep

LEMMA ReadyInterrupts ==
  ASSUME Contexts, program = "amp", Ready,
         \/ Handler \/ TimerIntrHandler
         \/ \E i \in Irqs : vFreeRTOS_IRQInterrupt(i)
  PROVE  Ready'
<1>1. ASSUME NEW i \in Irqs, vFreeRTOS_IRQInterrupt(i)
      PROVE  Ready'
  <2>1. /\ mode \in {"task", "irq"} /\ mode' = "irq" /\ irq' = i /\ i \in pending
        /\ pending' = pending \ {i}
        /\ UNCHANGED <<pc, tm, gicVars, setupVars>>
    BY <1>1 DEF vFreeRTOS_IRQInterrupt
  <2>2. TtcReady'
    <3>1. pc > 21
      BY <2>1 DEF Ready, Started, Contexts, Types
    <3>2. QED
      BY <2>1, <3>1 DEF Ready, TtcReady, setupVars
  <2>3. TimerReady'
    BY <2>1, TimerKept DEF Ready
  <2>4. QED
    BY <2>1, <2>2, <2>3, ReadyFrame DEF setupVars
<1>2. CASE ClearTick
  <2>1. /\ mode = "irq" /\ SetTimer(XScuTimer_ClearInterruptStatus(tm))
        /\ UNCHANGED <<pc, mode, irq, gicVars, setupVars>>
    BY <1>2 DEF ClearTick, InHandler
  <2>2. TtcReady' /\ tm' = XScuTimer_ClearInterruptStatus(tm)
    BY <2>1, SetTimerPending DEF Ready, setupVars
  <2>3. TimerReady'
    BY <2>1, <2>2, TimerKept DEF Ready
  <2>4. QED
    BY <2>1, <2>2, <2>3, ReadyFrame DEF setupVars
<1>3. CASE irq70_ttc
  <2>1. /\ mode = "irq" /\ ttc' = "off"
        /\ UNCHANGED <<pc, mode, irq, timerVars, gicVars, made, handler, mmu>>
    BY <1>3 DEF irq70_ttc, InHandler
  <2>2. TtcReady'
    BY <2>1 DEF Ready, TtcReady, timerVars
  <2>3. TimerReady'
    BY <2>1, TimerKept DEF Ready, timerVars
  <2>4. QED
    BY <2>1, <2>2, <2>3, ReadyFrame
<1>4. CASE LeaveInterrupt
  <2>1. /\ mode = "irq" /\ mode' = "task" /\ irq' = TICK
        /\ UNCHANGED <<pc, timerVars, gicVars, setupVars>>
    BY <1>4 DEF LeaveInterrupt, InHandler, portRESTORE_CONTEXT, outside
  <2>2. TtcReady'
    BY <2>1 DEF Ready, TtcReady, timerVars, setupVars, Irqs
  <2>3. TimerReady'
    BY <2>1, TimerKept DEF Ready, timerVars
  <2>4. QED
    BY <2>1, <2>2, <2>3, ReadyFrame DEF setupVars
<1>5. CASE CountTick \/ KickEnters \/ KickLeaves
  <2>1. /\ mode = "irq" /\ UNCHANGED <<pc, mode, irq, timerVars, gicVars, setupVars>>
    BY <1>5 DEF CountTick, KickEnters, KickLeaves, InHandler, outside
  <2>2. TtcReady' /\ TimerReady'
    BY <2>1, TtcKept, TimerKept DEF Ready, timerVars, setupVars
  <2>3. QED
    BY <2>1, <2>2, ReadyFrame DEF setupVars
<1>6. ASSUME TimerIntrHandler PROVE FALSE
  BY <1>6 DEF TimerIntrHandler, Contexts, InMain
<1>7. QED
  BY <1>1, <1>2, <1>3, <1>4, <1>5, <1>6 DEF Handler

LEMMA ReadyHardware ==
  ASSUME program = "amp", Ready, CountDown \/ LinuxKick \/ TtcOverflow
  PROVE  Ready'
<1>1. CASE CountDown
  <2>1. /\ CanCount(tm) /\ SetTimer(Count(tm))
        /\ UNCHANGED <<pc, mode, irq, gicVars, setupVars>>
    BY <1>1 DEF CountDown, kernelVars
  <2>2. TtcReady' /\ tm' = Count(tm)
    BY <2>1, SetTimerPending DEF Ready, setupVars
  <2>3. TimerReady'
    BY <2>1, <2>2, TimerKept DEF Ready
  <2>4. QED
    BY <2>1, <2>2, <2>3, ReadyFrame DEF setupVars
<1>2. CASE LinuxKick
  <2>1. /\ \E i \in Kicks : pending' = pending \cup {i}
        /\ UNCHANGED <<pc, mode, irq, tm, gicVars, setupVars>>
    BY <1>2 DEF LinuxKick, kernelVars
  <2>2. TtcReady'
    BY <2>1 DEF Ready, TtcReady, setupVars, Kicks, Irqs, TICK, TTC
  <2>3. TimerReady'
    BY <2>1, TimerKept DEF Ready
  <2>4. QED
    BY <2>1, <2>2, <2>3, ReadyFrame DEF setupVars
<1>3. CASE TtcOverflow
  <2>1. /\ ttc = "counting" /\ ttc' = "overflowed" /\ pending' = pending \cup {TTC}
        /\ UNCHANGED <<pc, mode, irq, tm, gicVars, made, handler, mmu>>
    BY <1>3 DEF TtcOverflow, kernelVars
  <2>2. TtcReady'
    BY <2>1 DEF Ready, TtcReady, Sems, Irqs, TTC
  <2>3. TimerReady'
    BY <2>1, TimerKept DEF Ready
  <2>4. QED
    BY <2>1, <2>2, <2>3, ReadyFrame
<1>4. QED
  BY <1>1, <1>2, <1>3

\* A core that has stopped stays so.
LEMMA StoppedStays == Next /\ Active' => Active
BY DEF Next, Main, TimerCalls, CfgInitialize, DriverCall, SetupGic, SetupHandler, SetupTtc,
       TraceInit, mmu_resource_table_setup, AllocateHist, register_handler,
       CreateMutex, CreateTask, vTaskStartScheduler, vPortISRStartFirstTask, Snapshot, Poll,
       ExceptionEnable, Wait, Disconnect, Step, At, TaskStep, vPortYieldProcessor,
       vPortEnterCritical, vPortExitCritical, CreateSemaphores, StartTtc, InTaskOnly,
       InTask, Handler, CountTick, ClearTick, KickEnters, KickLeaves, irq70_ttc,
       LeaveInterrupt, InHandler, outside,
       TimerIntrHandler, FreeRTOS_ExHandler, vFreeRTOS_IRQInterrupt, CountDown, LinuxKick,
       TtcOverflow, Active, kernelVars

LEMMA ReadyStep ==
  ASSUME IInv, ReadyInv, [Next]_vars
  PROVE  ReadyInv'
<1>1. CASE UNCHANGED vars
  BY <1>1 DEF vars, kernelVars, timerVars, gicVars, setupVars, ReadyInv, Active, Ready, Started,
              ObjectsMade, MmuReady, GicReady, TimerReady, TtcReady
<1>2. CASE Next
  <2> SUFFICES ASSUME program = "amp", Active' PROVE Ready'
    BY <1>2, ProgramConstant DEF ReadyInv
  <2>1. Contexts /\ Ready
    BY <1>2, StoppedStays DEF IInv, ReadyInv
  <2>2. ~ FreeRTOS_ExHandler
    BY DEF FreeRTOS_ExHandler, Active
  <2>3. QED
    BY <1>2, <2>1, <2>2, ReadyMain, ReadyTask, ReadyInterrupts, ReadyHardware DEF Next
<1>3. QED
  BY <1>1, <1>2

LEMMA ReadyImplies ==
  ASSUME IInv, ReadyInv
  PROVE  StartedMeansReady
<1> SUFFICES ASSUME program = "amp", mode \in {"task", "irq"} PROVE StartedMeansReady
  BY DEF StartedMeansReady
<1>1. pc > 22 /\ pc \in Nat /\ Ready
  BY DEF ReadyInv, Active, Ready, Started, IInv, Contexts, Types
<1>2. Tasks \cup {"stdio", "hist", "txring_mutex"} \subseteq made
  BY <1>1 DEF Ready, ObjectsMade, Tasks, AppTasks
<1>3. Irqs \subseteq enabled \cap connected
  BY <1>1 DEF Ready, GicReady, Irqs
<1>4. tm.enable = 1 /\ tm.reload = 1 /\ tm.irq = 1 /\ tm.load = LOAD
  BY <1>1 DEF Ready, TimerReady
<1>5. DevicesUpTo(mmu, Len(resources)) /\ mmu[MMUTable] = "none"
  BY <1>1 DEF Ready, MmuReady
<1>6. \A e \in Range(resources) : e.type = "MMU" => mmu[e.da] = "device"
  <2>1. DOMAIN resources = 1 .. Len(resources)
    BY BoardAssumption
  <2>2. QED
    BY <1>5, <2>1 DEF DevicesUpTo, Range
<1>7. mode = "irq" => NeededBy(irq) \subseteq made
  BY <1>1, <1>2 DEF Ready, TtcReady, NeededBy, Irqs, TTC, TICK, Kicks, Tasks, AppTasks
<1>8. QED
  BY <1>2, <1>3, <1>4, <1>5, <1>6, <1>7 DEF StartedMeansReady

\* Set-up is complete when it is used (latencydemo.c 363-396, port.c 186-197,
\* 431-513, remoteproc.c 386-412, 449-472), for every resource table, every load
\* value and every state that the firmware before left the timer, the sampling
\* counter and their interrupts in: a task, and a handler, runs only with
\* everything it needs.
THEOREM SetupComplete == Spec => []StartedMeansReady
<1>1. Init => IInv /\ ReadyInv
  BY ContextsInit, ReadyInit DEF IInv
<1>2. IInv /\ ReadyInv /\ [Next]_vars => IInv' /\ ReadyInv'
  BY ContextsStep, ReadyStep
<1>3. IInv /\ ReadyInv => StartedMeansReady
  BY ReadyImplies
<1>4. QED
  BY <1>1, <1>2, <1>3, PTL DEF Spec
===============================================================================
