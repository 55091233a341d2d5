----------------------------- MODULE TaskStates -----------------------------
(* What the kernel promises about tasks and time. Every task is in one      *)
(* state. No tick is lost: a delayed task is ready at the tick its time is  *)
(* up or, while switching is held off, as soon as it is allowed again; the  *)
(* same for a task that is woken meanwhile.                                 *)
EXTENDS Integers

CONSTANTS Tasks,   \* all tasks
          MaxDelay \* longest delay

VARIABLES state,   \* state of each task
          left,    \* ticks left to each delayed task
          woken,   \* tasks woken and not yet ready
          held,    \* the scheduler is suspended
          now      \* ticks so far, modulo MaxDelay + 1

vars == <<state, left, woken, held, now>>

States == {"none", "ready", "delayed", "suspended", "deleted"}

TaskInit ==
  /\ state \in [Tasks -> {"none", "ready"}]
  /\ left = [t \in Tasks |-> 0] /\ woken = {} /\ held = FALSE /\ now = 0

Enter(t, s) ==
  /\ state' = [state EXCEPT ![t] = s]
  /\ left' = [left EXCEPT ![t] = 0]
  /\ UNCHANGED <<woken, held, now>>

Live(t) == state[t] \in {"ready", "delayed", "suspended"}
Asleep(t) == state[t] \in {"delayed", "suspended"} /\ t \notin woken

\* For some number of ticks, of which some may have gone by uncounted.
Delay(t) ==
  /\ state[t] = "ready" /\ held
  /\ state' = [state EXCEPT ![t] = "delayed"]
  /\ left' = [left EXCEPT ![t] = left'[t]] /\ left'[t] <= MaxDelay
  /\ UNCHANGED <<woken, held, now>>

Suspend(t) == Live(t) /\ Enter(t, "suspended")
MakeReady(t) == Asleep(t) /\ ~held /\ Enter(t, "ready")

Wake(t) ==
  /\ Asleep(t) /\ held
  /\ woken' = woken \cup {t}
  /\ UNCHANGED <<state, left, held, now>>

Create(t) == state[t] = "none" /\ Enter(t, "ready")
Delete(t) == Live(t) /\ Enter(t, "deleted")
Reap(t)   == state[t] = "deleted" /\ Enter(t, "none")

\* Tasks whose time is up are ready, unless that is held off.
Settle(after) ==
  LET Up == {t \in Tasks : state[t] = "delayed" /\ after[t] <= 0} \cup woken
  IN  IF held' THEN UNCHANGED <<state, woken>> /\ left' = after
      ELSE /\ state' = [t \in Tasks |-> IF t \in Up THEN "ready" ELSE state[t]]
           /\ left' = [t \in Tasks |-> IF t \in Up THEN 0 ELSE after[t]]
           /\ woken' = {}

Hold    == ~held /\ held' = TRUE /\ UNCHANGED <<state, left, woken, now>>
Release == held /\ held' = FALSE /\ now' = now /\ Settle(left)

Tick ==
  /\ now' = (now + 1) % (MaxDelay + 1)
  /\ UNCHANGED held
  /\ Settle([t \in Tasks |-> IF state[t] = "delayed" THEN left[t] - 1 ELSE 0])

Next ==
  \/ Hold \/ Release \/ Tick
  \/ \E t \in Tasks : \/ Delay(t) \/ Suspend(t) \/ MakeReady(t) \/ Wake(t)
                      \/ Create(t) \/ Delete(t) \/ Reap(t)

Spec == TaskInit /\ [][Next]_vars

=============================================================================
