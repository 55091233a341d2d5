-------------------------------- MODULE TxVring --------------------------------
(***************************************************************************)
(* The TX vring of remoteproc.c: FreeRTOS tasks that send rpmsg messages   *)
(* to Linux (__send_message), the task that services Linux's kicks         *)
(* (txvring_task), the interrupt handler that counts the kicks             *)
(* (txvring_irq2), and, as the environment, the Linux virtio driver.       *)
(*                                                                         *)
(* Linux hands FreeRTOS one permission to publish a message per kick, and  *)
(* kicks again when it has returned the buffer of the message it read.     *)
(*                                                                         *)
(* The n-th reserved message is called n; it goes to slot n % VRING_SIZE.  *)
(* ring_tx_used_head and ring_tx_used_tail are 32 bits wide in the code    *)
(* and VRING_SIZE divides 2^32: they are naturals here.  The index Linux   *)
(* reads, ring_tx_used->idx, is an unsigned short: `published' counts the  *)
(* increments and `ring_tx_used_idx' is what the 16-bit field shows.       *)
(***************************************************************************)
EXTENDS Integers, Sequences, FiniteSets

CONSTANTS
  Senders,      \* the tasks that call block_send_message, other than TxTask
  TxTask,       \* txvring_task
  Free,         \* the value of txring_mutex when nobody holds it
  VRING_SIZE,   \* descriptors in the ring (256 in the code)
  IDX_MOD,      \* 2^16 for an unsigned short
  Windows,      \* the unprotected windows in which a switch or a kick may fall
  MaxSends,     \* bound: no new send starts once this many slots were reserved
  MaxReads      \* bound: messages Linux reads

Tasks == Senders \cup {TxTask}
Slots == 0 .. VRING_SIZE - 1

\* The stretches of the code that nothing protects:
\*   "write"   in __send_message, from the first unlock to the last byte written
\*   "commit"  in __send_message, from there to the second lock
\*   "suspend" in txvring_task, between vPortExitCritical and vTaskSuspend
\* A run that leaves one out considers the executions in which no time slice
\* ends (no kick arrives, for "suspend") inside it.
AllWindows == {"write", "commit", "suspend"}

ASSUME SizeAssumption ==
  /\ VRING_SIZE \in Nat \ {0, 1}
  /\ IDX_MOD \in Nat \ {0}
  /\ IDX_MOD % VRING_SIZE = 0
ASSUME TaskAssumption == TxTask \notin Senders /\ Free \notin Tasks
ASSUME BoundAssumption == MaxSends \in Nat /\ MaxReads \in Nat
ASSUME WindowAssumption == Windows \subseteq AllWindows

VARIABLES
  pc,                   \* where each task is
  num,                  \* the message each task is sending
  state,                \* txvring_task's state machine
  txring_mutex,
  ring_tx_used_head, ring_tx_used_tail, ring_tx_ready,
  txvring_kicks,
  published,            \* increments of ring_tx_used->idx so far
  buf,                  \* the message each slot's buffer holds
  irq2_pending,         \* bit: Linux's kick is pending at the interrupt controller
  linux_irq,            \* bit: FreeRTOS's kick is pending at Linux
  linux_holds,          \* bit: Linux has read a message and not returned its buffer
  delivered             \* the messages Linux has read, oldest first

taskVars == <<pc, num, state>>
ringVars == <<ring_tx_used_head, ring_tx_used_tail, ring_tx_ready>>
sharedVars == <<published, buf>>
linuxVars == <<linux_irq, linux_holds, delivered>>
vars == <<taskVars, txring_mutex, ringVars, txvring_kicks, sharedVars,
          irq2_pending, linuxVars>>

Unwritten == -1
SendLabels == {"send_lock", "reserve", "bump", "write", "commit_lock", "commit"}
TxLabels == {"poll", "to_suspend", "suspended",
             "announce_lock", "announce", "service_lock", "service_tail", "service"}

\* ring_tx_used->idx and Linux's last_used_idx, 16 bits each.
ring_tx_used_idx == published % IDX_MOD
last_used_idx == Len(delivered) % IDX_MOD

Init ==
  /\ pc = [t \in Tasks |-> IF t = TxTask THEN "poll" ELSE "idle"]
  /\ num = [t \in Tasks |-> 0]
  /\ state = "SERVICE_ANNOUNCE"
  /\ txring_mutex = Free
  /\ ring_tx_used_head = 0
  /\ ring_tx_used_tail = VRING_SIZE - 1
  /\ ring_tx_ready = 0
  /\ txvring_kicks = 0
  /\ published = 0
  /\ buf = [s \in Slots |-> Unwritten]
  /\ irq2_pending = 1        \* the kick of Linux's driver when it probes
  /\ linux_irq = 0
  /\ linux_holds = 0
  /\ delivered = <<>>

-------------------------------------------------------------------------------
(* Scheduling and the mutex *)

InClosedWindow(t) ==
  \/ pc[t] = "write" /\ "write" \notin Windows
  \/ pc[t] = "commit_lock" /\ "commit" \notin Windows

\* Task t is at `from' and may run.
At(t, from) ==
  /\ pc[t] = from
  /\ \A u \in Tasks \ {t} : ~InClosedWindow(u)

Goto(t, to) == pc' = [pc EXCEPT ![t] = to]

\* xSemaphoreTake(txring_mutex, portMAX_DELAY): block until the mutex is free.
lock_txring_mutex(t, from, to) ==
  /\ At(t, from)
  /\ txring_mutex = Free
  /\ txring_mutex' = t
  /\ Goto(t, to)
  /\ UNCHANGED <<num, state, ringVars, txvring_kicks, sharedVars, irq2_pending, linuxVars>>

unlock_txring_mutex == txring_mutex' = Free

\* ring_tx_used->idx += 1, flush, swirq_to_linux(NOTIFY_LINUX_IRQ, 1).
Publish ==
  /\ published' = published + 1
  /\ linux_irq' = 1
  /\ UNCHANGED <<buf, linux_holds, delivered>>

NoPublish == UNCHANGED <<sharedVars, linuxVars>>

-------------------------------------------------------------------------------
(* __send_message, called by block_send_message *)

\* A task starts to send.  Linux addresses the service, and so gives the tasks
\* something to answer, only once it has read the announcement.
BeginSend(t) ==
  /\ At(t, "idle")
  /\ delivered # <<>>
  /\ ring_tx_used_head < MaxSends
  /\ Goto(t, "send_lock")
  /\ UNCHANGED <<num, state, txring_mutex, ringVars, txvring_kicks, sharedVars,
                 irq2_pending, linuxVars>>

SendLock(t) == lock_txring_mutex(t, "send_lock", "reserve")

\* Mutant: the ring is never full.
RingFull_Never == FALSE

RingFull == ring_tx_used_head % VRING_SIZE = ring_tx_used_tail % VRING_SIZE

\* Mutant: the early return keeps the mutex.
SendFull_KeepsMutex(t) ==
  /\ At(t, "reserve")
  /\ RingFull
  /\ Goto(t, "send_lock")
  /\ UNCHANGED <<num, state, txring_mutex, ringVars, txvring_kicks, sharedVars, irq2_pending,
                 linuxVars>>

\* The ring is full: unlock, fail, and let block_send_message yield and retry.
SendFull(t) ==
  /\ At(t, "reserve")
  /\ RingFull
  /\ unlock_txring_mutex
  /\ Goto(t, "send_lock")
  /\ UNCHANGED <<num, state, ringVars, txvring_kicks, sharedVars, irq2_pending, linuxVars>>

\* index = head % VRING_SIZE, and there is room.
Reserve(t) ==
  /\ At(t, "reserve")
  /\ ~RingFull
  /\ num' = [num EXCEPT ![t] = ring_tx_used_head]
  /\ Goto(t, "bump")
  /\ UNCHANGED <<state, txring_mutex, ringVars, txvring_kicks, sharedVars, irq2_pending, linuxVars>>

Bump(t) ==
  /\ At(t, "bump")
  /\ ring_tx_used_head' = ring_tx_used_head + 1
  /\ unlock_txring_mutex
  /\ Goto(t, "write")
  /\ UNCHANGED <<num, state, ring_tx_used_tail, ring_tx_ready, txvring_kicks, sharedVars,
                 irq2_pending, linuxVars>>

\* Mutant: the slot is computed from the head again, after the unlock.
Write_RereadsHead(t) ==
  /\ At(t, "write")
  /\ buf' = [buf EXCEPT ![ring_tx_used_head % VRING_SIZE] = num[t]]
  /\ Goto(t, "commit_lock")
  /\ UNCHANGED <<num, state, txring_mutex, ringVars, txvring_kicks, published,
                 irq2_pending, linuxVars>>

\* Header, data and used-ring entry, outside the mutex.
Write(t) ==
  /\ At(t, "write")
  /\ buf' = [buf EXCEPT ![num[t] % VRING_SIZE] = num[t]]
  /\ Goto(t, "commit_lock")
  /\ UNCHANGED <<num, state, txring_mutex, ringVars, txvring_kicks, published,
                 irq2_pending, linuxVars>>

CommitLock(t) == lock_txring_mutex(t, "commit_lock", "commit")

\* Where a task goes when its send is done.  txvring_task sends only the
\* announcement, and is RUNNING from then on.
SendDone(t) ==
  /\ Goto(t, IF t = TxTask THEN "poll" ELSE "idle")
  /\ state' = IF t = TxTask THEN "RUNNING" ELSE state

\* Mutants: Linux's permission is not used up; it is used up without a check.
Commit_KeepsReady(t) ==
  /\ At(t, "commit")
  /\ IF ring_tx_ready > 0 THEN Publish ELSE NoPublish
  /\ unlock_txring_mutex
  /\ SendDone(t)
  /\ UNCHANGED <<num, ringVars, txvring_kicks, irq2_pending>>
Commit_Unchecked(t) ==
  /\ At(t, "commit")
  /\ Publish
  /\ ring_tx_ready' = ring_tx_ready - 1
  /\ unlock_txring_mutex
  /\ SendDone(t)
  /\ UNCHANGED <<num, ring_tx_used_head, ring_tx_used_tail, txvring_kicks, irq2_pending>>

\* Publish if Linux is ready, otherwise leave it to txvring_task.
Commit(t) ==
  /\ At(t, "commit")
  /\ IF ring_tx_ready > 0
       THEN Publish /\ ring_tx_ready' = ring_tx_ready - 1
       ELSE NoPublish /\ UNCHANGED ring_tx_ready
  /\ unlock_txring_mutex
  /\ SendDone(t)
  /\ UNCHANGED <<num, ring_tx_used_head, ring_tx_used_tail, txvring_kicks, irq2_pending>>

Send(t) ==
  \/ SendLock(t) \/ SendFull(t) \/ Reserve(t) \/ Bump(t)
  \/ Write(t) \/ CommitLock(t) \/ Commit(t)

-------------------------------------------------------------------------------
(* txvring_task and txvring_irq2 *)

\* The critical section at the head of the loop, with a kick to serve.
TakeKick ==
  /\ At(TxTask, "poll")
  /\ txvring_kicks > 0
  /\ txvring_kicks' = txvring_kicks - 1
  /\ Goto(TxTask, IF state = "SERVICE_ANNOUNCE" THEN "announce_lock" ELSE "service_lock")
  /\ UNCHANGED <<num, state, txring_mutex, ringVars, sharedVars, irq2_pending, linuxVars>>

\* ... and without one: leave the critical section, on the way to suspend.
NoKick ==
  /\ At(TxTask, "poll")
  /\ txvring_kicks = 0
  /\ Goto(TxTask, "to_suspend")
  /\ UNCHANGED <<num, state, txring_mutex, ringVars, txvring_kicks, sharedVars,
                 irq2_pending, linuxVars>>

\* vTaskSuspend(NULL).
Suspend ==
  /\ At(TxTask, "to_suspend")
  /\ Goto(TxTask, "suspended")
  /\ UNCHANGED <<num, state, txring_mutex, ringVars, txvring_kicks, sharedVars,
                 irq2_pending, linuxVars>>

AnnounceLock == lock_txring_mutex(TxTask, "announce_lock", "announce")

\* ring_tx_ready = 1, then block_send_message(announcement).
Announce ==
  /\ At(TxTask, "announce")
  /\ ring_tx_ready' = 1
  /\ unlock_txring_mutex
  /\ Goto(TxTask, "send_lock")
  /\ UNCHANGED <<num, state, ring_tx_used_head, ring_tx_used_tail, txvring_kicks,
                 sharedVars, irq2_pending, linuxVars>>

ServiceLock == lock_txring_mutex(TxTask, "service_lock", "service_tail")

\* Linux has released a buffer.
ServiceTail ==
  /\ At(TxTask, "service_tail")
  /\ ring_tx_used_tail' = ring_tx_used_tail + 1
  /\ Goto(TxTask, "service")
  /\ UNCHANGED <<num, state, txring_mutex, ring_tx_used_head, ring_tx_ready,
                 txvring_kicks, sharedVars, irq2_pending, linuxVars>>

\* Mutant: pending messages are forgotten.
Service_OnlyReady ==
  /\ At(TxTask, "service")
  /\ ring_tx_ready' = 1
  /\ NoPublish
  /\ unlock_txring_mutex
  /\ Goto(TxTask, "poll")
  /\ UNCHANGED <<num, state, ring_tx_used_head, ring_tx_used_tail, txvring_kicks, irq2_pending>>

\* Publish the next message if one seems pending, else remember that Linux is
\* ready.  The comparison is between a 16-bit and a 32-bit counter.
Service ==
  /\ At(TxTask, "service")
  /\ IF ring_tx_used_idx # ring_tx_used_head
       THEN Publish /\ UNCHANGED ring_tx_ready
       ELSE NoPublish /\ ring_tx_ready' = 1
  /\ unlock_txring_mutex
  /\ Goto(TxTask, "poll")
  /\ UNCHANGED <<num, state, ring_tx_used_head, ring_tx_used_tail, txvring_kicks, irq2_pending>>

\* Mutant: the task is not resumed.
txvring_irq2_NoResume ==
  /\ irq2_pending = 1
  /\ "suspend" \notin Windows => pc[TxTask] # "to_suspend"
  /\ irq2_pending' = 0
  /\ txvring_kicks' = txvring_kicks + 1
  /\ UNCHANGED <<taskVars, txring_mutex, ringVars, sharedVars, linuxVars>>

\* Count the kick; xTaskResumeFromISR resumes the task only if it is suspended.
txvring_irq2 ==
  /\ irq2_pending = 1
  /\ "suspend" \notin Windows => pc[TxTask] # "to_suspend"
  /\ irq2_pending' = 0
  /\ txvring_kicks' = txvring_kicks + 1
  /\ pc' = [pc EXCEPT ![TxTask] = IF @ = "suspended" THEN "poll" ELSE @]
  /\ UNCHANGED <<num, state, txring_mutex, ringVars, sharedVars, linuxVars>>

txvring_task ==
  \/ TakeKick \/ NoKick \/ Suspend \/ AnnounceLock \/ Announce
  \/ ServiceLock \/ ServiceTail \/ Service

-------------------------------------------------------------------------------
(* The Linux virtio driver, as FreeRTOS sees it *)

\* Linux's handler takes the interrupt and the buffer after the last it read;
\* with none there, it returns without a kick.
LinuxReceive ==
  /\ linux_irq = 1
  /\ Len(delivered) < MaxReads
  /\ linux_irq' = 0
  /\ IF last_used_idx # ring_tx_used_idx
       THEN /\ delivered' = Append(delivered, buf[last_used_idx % VRING_SIZE])
            /\ linux_holds' = 1
       ELSE UNCHANGED <<linux_holds, delivered>>
  /\ UNCHANGED <<taskVars, txring_mutex, ringVars, txvring_kicks, sharedVars, irq2_pending>>

\* Linux gives the buffer back and kicks FreeRTOS.
LinuxReturn ==
  /\ linux_holds = 1
  /\ linux_holds' = 0
  /\ irq2_pending' = 1
  /\ UNCHANGED <<taskVars, txring_mutex, ringVars, txvring_kicks, sharedVars,
                 linux_irq, delivered>>

Next ==
  \/ \E t \in Senders : BeginSend(t)
  \/ \E t \in Tasks : Send(t)
  \/ txvring_task
  \/ txvring_irq2
  \/ LinuxReceive
  \/ LinuxReturn

\* Tasks of one priority share the processor in turn, so a task that can run
\* does.  A task that waits for the mutex gets it if it keeps becoming free:
\* the others yield, or are preempted, outside their critical sections too.
Fairness ==
  /\ \A t \in Tasks :
       /\ WF_vars(SendFull(t) \/ Reserve(t) \/ Bump(t) \/ Write(t) \/ Commit(t))
       /\ SF_vars(SendLock(t) \/ CommitLock(t))
  /\ WF_vars(TakeKick \/ NoKick \/ Suspend \/ Announce \/ ServiceTail \/ Service)
  /\ SF_vars(AnnounceLock \/ ServiceLock)
  /\ WF_vars(txvring_irq2)
  /\ WF_vars(LinuxReceive)
  /\ WF_vars(LinuxReturn)

Spec == Init /\ [][Next]_vars
FairSpec == Spec /\ Fairness

-------------------------------------------------------------------------------
(* Properties *)

TypeOK ==
  /\ pc \in [Tasks -> SendLabels \cup TxLabels \cup {"idle"}]
  /\ num \in [Tasks -> Nat]
  /\ state \in {"SERVICE_ANNOUNCE", "RUNNING"}
  /\ txring_mutex \in Tasks \cup {Free}
  /\ ring_tx_used_head \in Nat
  /\ ring_tx_used_tail \in Nat
  /\ ring_tx_ready \in Nat
  /\ txvring_kicks \in Nat
  /\ published \in Nat
  /\ buf \in [Slots -> Int]
  /\ irq2_pending \in {0, 1}
  /\ linux_irq \in {0, 1}
  /\ linux_holds \in {0, 1}
  /\ delivered \in Seq(Int)

\* txvring_task has taken a kick and not yet acted on it.
Serving == pc[TxTask] \in {"announce_lock", "announce",
                           "service_lock", "service_tail", "service"}

\* The permission to publish is one token that goes round: Linux's kick pending
\* at the interrupt controller, counted in txvring_kicks, in the hands of
\* txvring_task, kept in ring_tx_ready, spent on an interrupt to Linux, held by
\* Linux with the buffer it reads.
Credit == irq2_pending + txvring_kicks + (IF Serving THEN 1 ELSE 0)
          + ring_tx_ready + linux_irq + linux_holds

\* There is exactly one such token at all times, whatever the interleaving.  So
\* ring_tx_ready and txvring_kicks never exceed 1, FreeRTOS never interrupts
\* Linux twice for one kick (lines 281-294), and no kick is ever lost by merging
\* with a pending one.
OneCredit == Credit = 1

Critical == {"reserve", "bump", "commit", "announce", "service_tail", "service"}

\* txring_mutex is held exactly by the task inside a critical section of
\* lines 164-192 or 252-295: no path, the ring-full return included, leaves with
\* it held, or releases it for another.
MutexHeldInside == \A t \in Tasks : pc[t] \in Critical <=> txring_mutex = t

InSend == {"bump", "write", "commit_lock", "commit"}

\* No two tasks ever fill the same reservation of the ring (lines 252-260), also
\* with switches in the windows; proved, no run checks it.
ReservationsUnique ==
  \A t, u \in Tasks :
    t # u /\ pc[t] \in InSend /\ pc[u] \in InSend => num[t] # num[u]

\* Buffers that Linux has given back: the tail starts at VRING_SIZE - 1 and moves
\* when txvring_task serves a returned buffer.
returned == ring_tx_used_tail - (VRING_SIZE - 1)

\* A task writes into a slot only when no other message that Linux has not given
\* back occupies it: "the queue is full when head == tail" (lines 99-102) leaves
\* no room for the overwrite, across any number of laps.
NoOverwrite ==
  \A t \in Tasks : pc[t] = "write" =>
    \A n \in returned .. ring_tx_used_head - 1 :
      n # num[t] => n % VRING_SIZE # num[t] % VRING_SIZE

\* When Linux is waiting for data (ring_tx_ready) and no task is inside a send,
\* everything reserved was published: no message waits in the ring with nobody
\* left to publish it (lines 182-191 against 281-294).
NothingStranded ==
  ring_tx_ready > 0 /\ (\A t \in Tasks : pc[t] \notin InSend)
    => published = ring_tx_used_head

\* What Linux is interrupted for is a message of which every byte was written.
\* Lines 183-184: "If there is message pending in the TX ring, send it."
PublishedIsWritten ==
  \A n \in Len(delivered) .. published - 1 : buf[n % VRING_SIZE] = n

\* ring_tx_used->idx never runs ahead of ring_tx_used_head: nothing is published
\* that no task reserved.
NothingInvented == published <= ring_tx_used_head

\* A kick that the interrupt handler counted is served (lines 137 and 157-162).
KickServed == txvring_kicks > 0 ~> txvring_kicks = 0

\* The tasks inside __send_message whose message is not complete yet.
Incomplete == {t \in Tasks : pc[t] = "write"}

\* The ring implements the bounded FIFO channel: the messages whose write is
\* complete are the accepted ones, and Linux reads them in order, once, whole.
Channel == INSTANCE RpmsgChannel WITH
  Capacity <- VRING_SIZE - 1,
  accepted <- ring_tx_used_head - Cardinality(Incomplete),
  read <- delivered
ImplementsChannel == Channel!ChanSpec

\* block_send_message "will not return until it sends successfully" (line 301):
\* every call returns, however full the ring is when it starts.
SendReturns == \A t \in Tasks : pc[t] = "send_lock" ~> pc[t] \in {"idle", "poll"}

\* Each reserved message is read by Linux in the end, without further sends.
ReservedIsRead ==
  \A n \in 1 .. MaxSends : ring_tx_used_head >= n ~> Len(delivered) >= n
===============================================================================
