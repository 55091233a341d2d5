-------------------------------- MODULE Timers --------------------------------
(* Software timers (timers.c): the timer service task, the commands that    *)
(* tasks and interrupt handlers send it through xTimerQueue, and the two    *)
(* lists of active timers, whose roles are exchanged when the tick count    *)
(* overflows. The kernel below it is that of TaskLists.                     *)
(*                                                                          *)
(* The timer task has the highest priority, so that only interrupts come    *)
(* between its steps; callbacks run in it. A callback may stop its timer.   *)
EXTENDS TaskLists

CONSTANTS
  TmrSvc,        \* prvTimerTask
  App,           \* a task that uses timers
  Timers,        \* handles
  Periods,       \* periods that timers are given
  QUEUE_LENGTH,  \* configTIMER_QUEUE_LENGTH
  IsrCommands,   \* commands that interrupt handlers send
  MaxAge,        \* bound: ticks from a task's reading the tick count to its command
  MaxBusy,       \* bound: ticks while the timer task is ready, in one turn of its loop
  MaxIsr         \* bound: commands from interrupts, in one turn of its loop

ASSUME TimersAssumption ==
  /\ Tasks = {TmrSvc, App} /\ TmrSvc # App
  /\ MAX_PRIORITIES > 2
  /\ EventLists = {"timerQueue"}
  /\ Periods \subseteq Ticks \ {0}
  /\ QUEUE_LENGTH \in Nat \ {0}
  /\ IsrCommands \subseteq {"START", "STOP", "CHANGE_PERIOD"}

VARIABLES
  k,             \* the kernel
  pc,            \* place of the timer task
  nextExpire,    \* its locals: xNextExpireTime, xListWasEmpty,
  listWasEmpty,
  lastTime,      \* prvSampleTimeNow's static xLastTime, which is also the
                 \*   xTimeNow of whoever called it last
  current, overflow,  \* pxCurrentTimerList, pxOverflowTimerList
  period, reload, value,  \* fields of the timers; value: of the list item
  alive,         \* timers whose memory is allocated
  queue,         \* xTimerQueue
  call,          \* the command App is about to send, if any
  owned,         \* timers App has created and not asked to delete
  left,          \* ghost: ticks until each active timer is due, by its last start
  hurried,       \* ghost: timers whose last START was stamped after the task
                 \*   had sampled the time by which it carried it out
  early,         \* ghost: has the callback of another timer run before it was due?
  busy, isr      \* ghosts for the bounds

timerVars == <<period, reload, value, alive>>
listVars == <<current, overflow>>
taskVars == <<pc, nextExpire, listWasEmpty, lastTime>>
appVars == <<call, owned>>
vars == <<k, taskVars, listVars, timerVars, queue, appVars, left, hurried, early, busy, isr>>

NoCall == <<>>
InList(t) == t \in ToSet(current) \cup ToSet(overflow)

\* age (a ghost): ticks since the command was stamped.
Command(id, t, v) == [id |-> id, timer |-> t, value |-> v, age |-> 0]

Init ==
  /\ k = Booted(<<TmrSvc, App>>, [t \in Tasks |-> IF t = TmrSvc THEN 2 ELSE 1])
  /\ pc = "next"
  /\ nextExpire = 0 /\ listWasEmpty = TRUE /\ lastTime = 0
  /\ current = <<>> /\ overflow = <<>>
  /\ period = [t \in Timers |-> 0]
  /\ reload = [t \in Timers |-> FALSE]
  /\ value = [t \in Timers |-> 0]
  /\ alive = {}
  /\ queue = <<>>
  /\ call = NoCall
  /\ owned = {}
  /\ left = [t \in Timers |-> 0]
  /\ hurried = {}
  /\ early = FALSE
  /\ busy = 0 /\ isr = 0

-----------------------------------------------------------------------------
(* Time. A step in which n ticks are counted (more than one when the        *)
(* scheduler makes up for those it missed) takes n off everything measured. *)

Awake == k.current = TmrSvc \/ IsReady(k, TmrSvc) \/ IsPending(k, TmrSvc)
Older(c, n) == [c EXCEPT !.age = @ + n]

TimePasses ==
  LET n == (k'.tick - k.tick) % TICK_MOD
  IN  /\ left' = [t \in Timers |-> IF InList(t) THEN left[t] - n ELSE 0]
      /\ queue' = [i \in DOMAIN queue |-> Older(queue[i], n)]
      /\ call' = [i \in DOMAIN call |-> Older(call[i], n)]

-----------------------------------------------------------------------------
(* The command queue *)

HasRoom(messages) == Len(messages) < QUEUE_LENGTH

\* xQueueSendToBack with no block time: the message is dropped if there is no
\* room. Whoever waits for it is woken, and runs if its priority says so.
Sent(messages, c) == IF HasRoom(messages) THEN Append(messages, c) ELSE messages

WakeReceiver(kk, yields) ==
  IF kk.event["timerQueue"] = <<>> THEN kk
  ELSE YieldIf(yields /\ UnblocksHigher(kk, "timerQueue"),
               xTaskRemoveFromEventList(kk, "timerQueue"))

-----------------------------------------------------------------------------
(* Insertion into the list of active timers *)

\* Mutant: a wrap of the tick count between command and processing is forgotten.
AlreadyExpired_NoWrap(t, next, commandTime) ==
  next <= lastTime /\ (lastTime - commandTime) % TICK_MOD >= period[t]

\* Mutant: any wrap in between passes for an expiry.
AlreadyExpired_AnyWrap(t, next, commandTime) ==
  IF next <= lastTime THEN (lastTime - commandTime) % TICK_MOD >= period[t]
  ELSE lastTime < commandTime

\* prvInsertTimerInActiveList returns pdTRUE: the timer's time has passed
\* between the command and its processing.
AlreadyExpired(t, next, commandTime) ==
  IF next <= lastTime THEN (lastTime - commandTime) % TICK_MOD >= period[t]
  ELSE lastTime < commandTime /\ next >= commandTime

\* ... and otherwise it is put into one of the lists, of which cur and ovf are
\* what the timer's removal left. A value means nothing outside the lists.
InsertInto(cur, ovf, t, next) ==
  LET v == [value EXCEPT ![t] = next]
  IN  /\ value' = v
      /\ IF next <= lastTime
         THEN current' = cur /\ overflow' = vListInsert(ovf, t, v)
         ELSE current' = vListInsert(cur, t, v) /\ overflow' = ovf

Removed(cur, ovf, t) ==
  value' = [value EXCEPT ![t] = 0] /\ current' = cur /\ overflow' = ovf

InsertTimer(cur, ovf, t, next, late) ==
  IF late THEN Removed(cur, ovf, t) ELSE InsertInto(cur, ovf, t, next)

\* The START by which the task reloads a timer bears the time at which the timer
\* was due, l ticks from now.
Reload(t, v, l) == [Command("START", t, v) EXCEPT !.age = -l]

\* The callback of a timer that is due in l ticks.
Callback(l, isHurried) == early' = (early \/ (l > 0 /\ ~isHurried))

\* What it may leave in the queue: it may stop its timer.
AfterCallback(t, messages) == {messages, Sent(messages, Command("STOP", t, 0))}

-----------------------------------------------------------------------------
(* The timer task: prvTimerTask *)

Running(place) == k.current = TmrSvc /\ pc = place

\* The locals of prvTimerTask mean nothing once they are used.
ForgetNext == nextExpire' = 0 /\ listWasEmpty' = TRUE

\* prvGetNextExpireTime.
GetNextExpireTime ==
  /\ Running("next")
  /\ listWasEmpty' = (current = <<>>)
  /\ nextExpire' = IF current = <<>> THEN 0 ELSE value[Head(current)]
  /\ pc' = "suspendAll"
  /\ busy' = 0 /\ isr' = 0
  /\ UNCHANGED <<k, lastTime, listVars, timerVars, queue, appVars, left, hurried, early>>

\* Mutant: an overflow of the tick count is not noticed.
SampleTimeNow_NoSwitch(switch, go) ==
  /\ lastTime' = k.tick
  /\ pc' = go

\* prvSampleTimeNow, up to the exchange of the lists.
SampleTimeNow(switch, go) ==
  /\ lastTime' = k.tick
  /\ pc' = IF k.tick < lastTime THEN switch ELSE go

\* prvProcessTimerOrBlockTask.
SuspendAndSample ==
  /\ Running("suspendAll")
  /\ k' = vTaskSuspendAll(k)
  /\ SampleTimeNow("switchSuspended", "decide")
  /\ UNCHANGED <<nextExpire, listWasEmpty, listVars, timerVars, queue, appVars,
                 left, hurried, early, busy, isr>>

Expired == ~listWasEmpty /\ nextExpire <= lastTime

HasExpired ==
  /\ Running("decide")
  /\ Expired
  /\ k' = xTaskResumeAll(k)
  /\ pc' = "expire"
  /\ TimePasses
  /\ UNCHANGED <<nextExpire, listWasEmpty, lastTime, listVars, timerVars, owned, hurried, early, busy, isr>>

\* vTaskPlaceOnEventListRestricted: at the end of the event list, and never in
\* the suspended list.
vTaskPlaceOnEventListRestricted(kk, e, ticks) ==
  BlockCurrentFor([kk EXCEPT !.event[e] = Append(@, kk.current)], ticks)

\* Mutant: the wait is not shortened by the time that has passed.
WaitForMessage_WholeTime ==
  /\ Running("decide")
  /\ ~Expired
  /\ k' = IF queue = <<>>
          THEN vTaskPlaceOnEventListRestricted(k, "timerQueue", nextExpire) ELSE k
  /\ pc' = "resumeAll"
  /\ UNCHANGED <<nextExpire, listWasEmpty, lastTime, listVars, timerVars, queue, appVars,
                 left, hurried, early, busy, isr>>

\* vQueueWaitForMessageRestricted: wait until the next timer expires or, with no
\* timer in the current list, until the tick count overflows.
WaitForMessage ==
  /\ Running("decide")
  /\ ~Expired
  /\ k' = IF queue = <<>>
          THEN vTaskPlaceOnEventListRestricted(k, "timerQueue", (nextExpire - lastTime) % TICK_MOD) ELSE k
  /\ pc' = "resumeAll"
  /\ UNCHANGED <<nextExpire, listWasEmpty, lastTime, listVars, timerVars, queue, appVars,
                 left, hurried, early, busy, isr>>

ResumeAll ==
  /\ Running("resumeAll")
  /\ k' = IF AlreadyYielded(k) THEN xTaskResumeAll(k) ELSE vTaskSwitchContext(xTaskResumeAll(k))
  /\ pc' = "sample"
  /\ ForgetNext
  /\ TimePasses
  /\ UNCHANGED <<lastTime, listVars, timerVars, owned, hurried, early, busy, isr>>

\* prvProcessExpiredTimer: an auto-reload timer is due again one period after
\* it was due; if that has passed too, a command sees to it.
ProcessExpiredTimer ==
  /\ Running("expire")
  /\ LET t    == Head(current)
         next == (nextExpire + period[t]) % TICK_MOD
         late == AlreadyExpired(t, next, nextExpire)
     IN  /\ InsertTimer(Tail(current), overflow, t, next, late \/ ~reload[t])
         /\ Callback(left[t], t \in hurried)
         /\ queue' \in AfterCallback(t, IF reload[t] /\ late THEN Sent(queue, Reload(t, nextExpire, left[t]))
                                        ELSE queue)
         /\ left' = [left EXCEPT ![t] = IF reload[t] /\ ~late THEN @ + period[t] ELSE 0]
         /\ hurried' = IF reload[t] /\ ~late THEN hurried ELSE hurried \ {t}
  /\ pc' = "sample"
  /\ ForgetNext
  /\ UNCHANGED <<k, lastTime, period, reload, alive, appVars, busy, isr>>

\* Mutant: a timer that is due again after the overflow is left to the exchange.
Restarted_NotSent(t, stays, messages) == messages

\* It cannot join a list while they are exchanged: a command restarts it.
Restarted(t, stays, messages) ==
  IF reload[t] /\ ~stays THEN Sent(messages, Reload(t, value[t], left[t])) ELSE messages

\* prvSwitchTimerLists: what is still in the current list has expired. A timer
\* that is due again before the overflow goes round once more.
SwitchExpire ==
  /\ Running("switchSuspended") \/ Running("switch")
  /\ current # <<>>
  /\ LET t     == Head(current)
         again == (value[t] + period[t]) % TICK_MOD
         stays == reload[t] /\ again > value[t]
         v     == [value EXCEPT ![t] = again]
     IN  /\ IF stays THEN value' = v /\ current' = vListInsert(Tail(current), t, v) /\ UNCHANGED overflow
                     ELSE Removed(Tail(current), overflow, t)
         /\ Callback(left[t], t \in hurried)
         /\ \E messages \in AfterCallback(t, queue) : queue' = Restarted(t, stays, messages)
         /\ left' = [left EXCEPT ![t] = IF stays THEN @ + period[t] ELSE 0]
         /\ hurried' = IF stays THEN hurried ELSE hurried \ {t}
  /\ UNCHANGED <<k, taskVars, period, reload, alive, appVars, busy, isr>>

SwitchLists ==
  /\ Running("switchSuspended") \/ Running("switch")
  /\ current = <<>>
  /\ current' = overflow /\ overflow' = current
  /\ k' = IF pc = "switch" THEN k ELSE xTaskResumeAll(k)
  /\ pc' = IF pc = "switch" THEN "receive" ELSE "sample"
  /\ ForgetNext
  /\ TimePasses
  /\ UNCHANGED <<lastTime, timerVars, owned, hurried, early, busy, isr>>

-----------------------------------------------------------------------------
(* prvProcessReceivedCommands: the time is sampled once, before the loop. *)

Sample ==
  /\ Running("sample")
  /\ SampleTimeNow("switch", "receive")
  /\ UNCHANGED <<k, nextExpire, listWasEmpty, listVars, timerVars, queue, appVars,
                 left, hurried, early, busy, isr>>

NoMoreCommands ==
  /\ Running("receive")
  /\ queue = <<>>
  /\ pc' = "next"
  /\ UNCHANGED <<k, nextExpire, listWasEmpty, lastTime, listVars, timerVars, queue, appVars,
                 left, hurried, early, busy, isr>>

\* The next command; the timer is taken out of the list it is in.
Receive(id) ==
  /\ Running("receive")
  /\ queue # <<>>
  /\ Head(queue).id = id /\ Head(queue).timer \in alive
  /\ UNCHANGED <<k, taskVars, appVars, busy, isr>>

Cmd == Head(queue)
Without(list) == vListRemove(list, Cmd.timer)

\* A timer that was freed is written to: what follows is undefined.
UseFreed ==
  /\ Running("receive")
  /\ queue # <<>>
  /\ Cmd.timer \notin alive
  /\ pc' = "undefined"
  /\ UNCHANGED <<k, nextExpire, listWasEmpty, lastTime, listVars, timerVars, queue, appVars,
                 left, hurried, early, busy, isr>>

\* A handler may send a START between the sample and its processing, stamped
\* with a tick after the sample.
ProcessStart ==
  /\ Receive("START")
  /\ LET t     == Cmd.timer
         next  == (Cmd.value + period[t]) % TICK_MOD
         due   == period[t] - Cmd.age
         late  == AlreadyExpired(t, next, Cmd.value)
         stale == Cmd.age < (k.tick - lastTime) % TICK_MOD
     IN  /\ InsertTimer(Without(current), Without(overflow), t, next, late)
         /\ left' = [left EXCEPT ![t] = IF late THEN 0 ELSE due]
         /\ hurried' = IF stale /\ ~late THEN hurried \cup {t} ELSE hurried \ {t}
         /\ IF late
            THEN /\ Callback(due, stale)
                 /\ \E messages \in AfterCallback(t, Tail(queue)) :
                      queue' = IF reload[t] THEN Sent(messages, Reload(t, next, due)) ELSE messages
            ELSE queue' = Tail(queue) /\ UNCHANGED early
  /\ UNCHANGED <<period, reload, alive>>

ProcessStop ==
  /\ Receive("STOP")
  /\ Removed(Without(current), Without(overflow), Cmd.timer)
  /\ left' = [left EXCEPT ![Cmd.timer] = 0]
  /\ hurried' = hurried \ {Cmd.timer}
  /\ queue' = Tail(queue)
  /\ UNCHANGED <<period, reload, alive, early>>

ProcessChangePeriod ==
  /\ Receive("CHANGE_PERIOD")
  /\ LET t == Cmd.timer
     IN  /\ period' = [period EXCEPT ![t] = Cmd.value]
         /\ InsertInto(Without(current), Without(overflow), t, (lastTime + Cmd.value) % TICK_MOD)
         /\ left' = [left EXCEPT ![t] = Cmd.value - ((k.tick - lastTime) % TICK_MOD)]
  /\ hurried' = hurried \ {Cmd.timer}
  /\ queue' = Tail(queue)
  /\ UNCHANGED <<reload, alive, early>>

ProcessDelete ==
  /\ Receive("DELETE")
  /\ Removed(Without(current), Without(overflow), Cmd.timer)
  /\ alive' = alive \ {Cmd.timer}
  /\ left' = [left EXCEPT ![Cmd.timer] = 0]
  /\ hurried' = hurried \ {Cmd.timer}
  /\ queue' = Tail(queue)
  /\ period' = [period EXCEPT ![Cmd.timer] = 0]
  /\ reload' = [reload EXCEPT ![Cmd.timer] = FALSE]
  /\ UNCHANGED early

prvTimerTask ==
  \/ GetNextExpireTime \/ SuspendAndSample \/ HasExpired \/ WaitForMessage \/ ResumeAll
  \/ ProcessExpiredTimer \/ SwitchExpire \/ SwitchLists
  \/ Sample \/ NoMoreCommands
  \/ ProcessStart \/ ProcessStop \/ ProcessChangePeriod \/ ProcessDelete \/ UseFreed

-----------------------------------------------------------------------------
(* The API, as App and interrupt handlers call it *)

AppRuns == k.current = App

\* xTimerCreate.
Create ==
  /\ AppRuns /\ call = NoCall
  /\ \E t \in Timers \ alive, p \in Periods, r \in BOOLEAN :
       /\ alive' = alive \cup {t}
       /\ owned' = owned \cup {t}
       /\ period' = [period EXCEPT ![t] = p]
       /\ reload' = [reload EXCEPT ![t] = r]
  /\ UNCHANGED <<k, taskVars, listVars, value, queue, call, left, hurried, early, busy, isr>>

Commands(t) ==
  {Command("START", t, k.tick), Command("STOP", t, 0), Command("DELETE", t, 0)}
    \cup {Command("CHANGE_PERIOD", t, p) : p \in Periods}

\* xTimerStart and the others read the tick count before xTimerGenericCommand.
Stamp ==
  /\ AppRuns /\ call = NoCall
  /\ \E t \in owned : \E c \in Commands(t) : call' = <<c>>
  /\ UNCHANGED <<k, taskVars, listVars, timerVars, queue, owned, left, hurried, early, busy, isr>>

\* xTimerGenericCommand.
xTimerGenericCommand ==
  /\ AppRuns /\ call # NoCall
  /\ queue' = Sent(queue, call[1])
  /\ k' = IF HasRoom(queue) THEN WakeReceiver(k, TRUE) ELSE k
  /\ owned' = IF HasRoom(queue) /\ call[1].id = "DELETE" THEN owned \ {call[1].timer} ELSE owned
  /\ call' = NoCall
  /\ UNCHANGED <<taskVars, listVars, timerVars, left, hurried, early, busy, isr>>

\* The FromISR variants; there is none of xTimerDelete.
xTimerGenericCommandFromISR ==
  /\ isr < MaxIsr
  /\ isr' = isr + 1
  /\ \E t \in owned : \E c \in Commands(t) :
       /\ c.id \in IsrCommands
       /\ queue' = Sent(queue, c)
       /\ k' = IF HasRoom(queue) THEN WakeReceiver(k, TRUE) ELSE k
  /\ UNCHANGED <<taskVars, listVars, timerVars, appVars, left, hurried, early, busy>>

\* The two bounds on how many ticks come while something is not done.
TickHeld ==
  \/ Awake /\ busy = MaxBusy
  \/ \E i \in DOMAIN call : call[i].age >= MaxAge

\* The tick interrupt.
Tick ==
  /\ ~TickHeld
  /\ k' = vTaskSwitchContext(vTaskIncrementTick(k))
  /\ busy' = IF Awake THEN busy + 1 ELSE busy
  /\ TimePasses
  /\ UNCHANGED <<taskVars, listVars, timerVars, owned, hurried, early, isr>>

Next ==
  \/ prvTimerTask
  \/ pc = "undefined" /\ UNCHANGED vars
  \/ Create \/ Stamp \/ xTimerGenericCommand \/ xTimerGenericCommandFromISR
  \/ Tick

Spec == Init /\ [][Next]_vars

\* Weak fairness of the task of highest priority, of a task that is sending a
\* command, and of the tick, with what enables these actions written out.
Fairness ==
  /\ []<>(k.current # TmrSvc \/ pc = "undefined") \/ []<><<prvTimerTask>>_vars
  /\ []<>(~AppRuns \/ call = NoCall) \/ []<><<xTimerGenericCommand>>_vars
  /\ []<>TickHeld \/ []<><<Tick>>_vars
FairSpec == Spec /\ Fairness

-----------------------------------------------------------------------------
(* Properties *)

Places == {"next", "suspendAll", "switchSuspended", "decide", "resumeAll", "expire",
           "sample", "switch", "receive", "undefined"}

TypeOK ==
  /\ k \in KernelState
  /\ pc \in Places
  /\ {nextExpire, lastTime} \subseteq Ticks
  /\ ToSet(current) \cap ToSet(overflow) = {}
  /\ Len(queue) <= QUEUE_LENGTH
  /\ owned \subseteq alive
  /\ \A t \in Timers : InList(t) => t \in alive

\* A callback never runs before its timer's period has gone by since the START
\* was stamped (for a new period: since the task's last sample), or since the
\* timer was last due. The exception is a START that a handler stamps after the
\* task has sampled the time: prvInsertTimerInActiveList takes it for one from
\* before an overflow of the tick count (timers.c 476-482), and the callback runs
\* at once, or a whole turn of the tick count early.
NeverEarly == ~early

\* When the timer task sleeps, no timer, hurried or not, is due before it wakes:
\* the nearest expiry time of the current list, or the overflow of the tick count, was
\* turned into the right number of ticks.
SleepsNoLonger ==
  IsDelayed(k, TmrSvc) =>
    \A t \in Timers : InList(t) =>
      left[t] >= (k.wake[TmrSvc] - k.tick) % TICK_MOD

\* A timer's place in the lists tells when it is due: counted from the time the
\* task last sampled, the current list holds the timers due before the next
\* overflow of the tick count - while lists are being exchanged, before the
\* last - and the overflow list the others. A timer that a START from after the
\* sample put into a list is excepted.
PlaceTellsDue ==
  \A t \in Timers : InList(t) /\ t \notin hurried =>
    LET due == lastTime + left[t] + ((k.tick - lastTime) % TICK_MOD)
        end == IF pc \in {"switch", "switchSuspended"} THEN 0 ELSE TICK_MOD
    IN  /\ value[t] = due % TICK_MOD
        /\ t \in ToSet(current) <=> due < end

\* An auto-reload timer goes on - it is in a list, or a START for it is on its
\* way - until a STOP or DELETE for it is carried out, across the exchange of
\* the lists and late reloads; unless the reload finds the command queue full
\* (configASSERT( xResult ), compiled out here).
Going(t) ==
  InList(t) \/ \E i \in DOMAIN queue : queue[i].timer = t /\ queue[i].id = "START"

AutoReloadGoesOn ==
  [][\A t \in alive :
       reload[t] /\ Going(t) =>
         \/ Going(t)'
         \/ Running("receive") /\ Cmd.timer = t /\ Cmd.id \in {"STOP", "DELETE"}
         \/ ~HasRoom(queue')]_vars

\* The task is about to call t's callback.
Expiring(t) ==
  /\ pc \in {"expire", "switchSuspended", "switch"}
  /\ current # <<>> /\ Head(current) = t

\* A timer that is due expires, unless it is restarted or stopped first: it is
\* never left in the wrong list, or behind a wait that does not end.
DueExpires ==
  \A t \in Timers :
    InList(t) /\ left[t] <= 0 ~> Expiring(t) \/ ~InList(t) \/ left[t] > 0 \/ pc = "undefined"
===============================================================================
