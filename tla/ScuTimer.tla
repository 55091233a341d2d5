------------------------------- MODULE ScuTimer -------------------------------
(***************************************************************************)
(* The private timer of a Cortex-A9 core and its driver (scutimer_v1_01_a) *)
(* as operators: the registers are a record, a driver call maps the        *)
(* registers before it to the registers after it.                          *)
(***************************************************************************)
EXTENDS Naturals

Bit == {0, 1}

\* xscutimer_hw.h: the load, counter, control (enable, reload, irq) and
\* interrupt status (event) registers.
Registers(maxLoad) ==
  [load : 0 .. maxLoad, counter : 0 .. maxLoad,
   enable : Bit, reload : Bit, irq : Bit, event : Bit]
Reset == [load |-> 0, counter |-> 0, enable |-> 0, reload |-> 0, irq |-> 0, event |-> 0]

\* The core's interrupt line.
Line(tm) == tm.event * tm.irq

-------------------------------------------------------------------------------
(* The hardware *)

\* A write of the load register also writes the counter.
WriteLoad(tm, value) == [tm EXCEPT !.load = value, !.counter = value]

\* One count.  At zero the event flag is set, and stays set until it is
\* cleared; the counter then starts again, or stays at zero.
CanCount(tm) == tm.enable = 1 /\ (tm.counter > 0 \/ (tm.reload = 1 /\ tm.load > 0))
Expires(tm) == tm.counter = 1
Count(tm) ==
  [tm EXCEPT !.counter = IF @ = 0 THEN tm.load ELSE @ - 1,
             !.event = IF Expires(tm) THEN 1 ELSE @]

-------------------------------------------------------------------------------
(* The driver *)

XScuTimer_LoadTimer(tm, value) == WriteLoad(tm, value)
XScuTimer_GetCounterValue(tm) == tm.counter
XScuTimer_IsExpired(tm) == tm.event = 1
XScuTimer_EnableAutoReload(tm) == [tm EXCEPT !.reload = 1]
XScuTimer_DisableAutoReload(tm) == [tm EXCEPT !.reload = 0]
XScuTimer_EnableInterrupt(tm) == [tm EXCEPT !.irq = 1]
XScuTimer_ClearInterruptStatus(tm) == [tm EXCEPT !.event = 0]
XScuTimer_Start(tm) == [tm EXCEPT !.enable = 1]
XScuTimer_Stop(tm) == [tm EXCEPT !.enable = 0]

\* The driver instance.  A started timer is not initialised again.
NoInstance == [ready |-> 0, started |-> 0]
XScuTimer_CfgInitialize(inst) ==
  IF inst.started = 1 THEN inst ELSE [ready |-> 1, started |-> 0]

\* Stop the timer, write a test value, put the load and the control registers
\* back: the counter is not put back, it starts again from the load value.
XScuTimer_SelfTest(tm, test) ==
  LET stopped == XScuTimer_Stop(tm)
      tested == XScuTimer_LoadTimer(stopped, test)
      restored == XScuTimer_LoadTimer(tested, tm.load)
  IN  [restored EXCEPT !.enable = tm.enable]
===============================================================================
