------------------------------- MODULE MCTimers -------------------------------
(* Instances of Timers: the timer task, a task that uses one or two timers, *)
(* and a tick count of a few values, so that it overflows within a period.  *)
EXTENDS Timers

CONSTANTS tmr, app

MCTasks == {tmr, app}
===============================================================================
