---------------------------- MODULE MCScheduler ----------------------------
(* Two tasks beside the idle task, two priorities, four tick values, one    *)
(* event list. Both are created at the lower priority.                      *)
EXTENDS Scheduler

CONSTANTS t1, t2

MCTasks        == {t1, t2}
MCBootOrder    == <<t1, t2>>
MCInitPriority == (t1 :> 0) @@ (t2 :> 0)
=============================================================================
