------------------------------ MODULE LatencyDemo ------------------------------
(***************************************************************************)
(* The FreeRTOS application latencydemo.c: the sampler task_latency, the   *)
(* timer's interrupt handler irq70_ttc, and message_handler, which the     *)
(* rxvring task calls for each request.  One processor runs all three: an  *)
(* interrupt handler is one step, the tasks interleave.  The rpmsg channel *)
(* is RpmsgEndpoint's.                                                     *)
(*                                                                         *)
(* The histogram is a record of the fields of struct histogram; a memset   *)
(* or memcpy of it is two steps, first the counters and then the buckets,  *)
(* in the order of their addresses.                                        *)
(***************************************************************************)
EXTENDS RpmsgEndpoint

CONSTANTS
  HISTOGRAM_SIZE,   \* buckets (1000 in the code)
  Values,           \* counter values an interrupt may read
  InvalidMin,       \* 0xffffffff
  MaxSamples        \* bound: samples between two CLEARs

Buckets == 0 .. HISTOGRAM_SIZE - 1

ASSUME HistogramAssumption ==
  /\ HISTOGRAM_SIZE \in Nat \ {0}
  /\ Values \subseteq Nat
  /\ InvalidMin \in Nat
  /\ \A v \in Values : v < InvalidMin
ASSUME SampleBoundAssumption == MaxSamples \in Nat

VARIABLES
  pc,                   \* task_latency
  hpc,                  \* message_handler
  histogram_enable,
  sampling_running,
  wait_for_irq, wait_for_clone,     \* binary semaphores: 1 when available
  counter_on,           \* TTC: the counter counts
  interrupt_register,   \* TTC: the counter overflowed
  interrupt_enable,     \* TTC: an overflow interrupts
  hist, hist_clone,
  beyond,               \* 1 once the word after hist->data was incremented
  taken                 \* history: interrupts since the last CLEAR

semVars == <<wait_for_irq, wait_for_clone>>
ttcVars == <<counter_on, interrupt_register, interrupt_enable>>
histVars == <<hist, hist_clone, beyond, taken>>
channelVars == <<requests, to_linux>>
demoVars == <<pc, hpc, histogram_enable, sampling_running, semVars, ttcVars, histVars>>

NoBuckets == [b \in Buckets |-> 0]
ZeroHist == [sample_count |-> 0, out_count |-> 0, total_sum |-> 0,
             min |-> 0, max |-> 0, data |-> NoBuckets]
ClearedHist == [ZeroHist EXCEPT !.min = InvalidMin]

\* task_latency has cleared the histogram and made its semaphores; malloc's
\* content of hist_clone is not used before the first CLONE.
DemoInit ==
  /\ pc = "check"
  /\ hpc = "wait"
  /\ histogram_enable = 0
  /\ sampling_running = 0
  /\ wait_for_irq = 1
  /\ wait_for_clone = 1
  /\ counter_on = 0
  /\ interrupt_register = 0
  /\ interrupt_enable = 0
  /\ hist = ClearedHist
  /\ hist_clone = ClearedHist
  /\ beyond = 0
  /\ taken = 0

-------------------------------------------------------------------------------
(* The timer and its interrupt handler *)

\* The counter reaches its end and starts again.
Overflow ==
  /\ counter_on = 1
  /\ interrupt_register = 0
  /\ taken < MaxSamples
  /\ interrupt_register' = 1
  /\ UNCHANGED <<pc, hpc, histogram_enable, sampling_running, semVars, counter_on,
                 interrupt_enable, histVars, channelVars>>

\* The sample goes into the histogram.  A value equal to HISTOGRAM_SIZE passes
\* the test for the array and lands behind it.
AddSample(v) ==
  LET outside == v > HISTOGRAM_SIZE IN
  /\ hist' = [sample_count |-> hist.sample_count + 1,
              out_count |-> IF outside THEN hist.out_count + 1 ELSE hist.out_count,
              total_sum |-> hist.total_sum + v,
              min |-> IF v < hist.min THEN v ELSE hist.min,
              max |-> IF v > hist.max THEN v ELSE hist.max,
              data |-> IF v \in Buckets THEN [hist.data EXCEPT ![v] = @ + 1]
                                        ELSE hist.data]
  /\ beyond' = IF v = HISTOGRAM_SIZE THEN 1 ELSE beyond
  /\ taken' = taken + 1
  /\ UNCHANGED hist_clone

\* Stop the timer, record the sample, xSemaphoreGiveFromISR(wait_for_irq): a
\* give of an available semaphore changes nothing.
irq70_ttc(v) ==
  /\ interrupt_register = 1
  /\ interrupt_enable = 1
  /\ counter_on' = 0
  /\ interrupt_enable' = 0
  /\ interrupt_register' = 0
  /\ AddSample(v)
  /\ wait_for_irq' = 1
  /\ UNCHANGED <<pc, hpc, histogram_enable, sampling_running, wait_for_clone, channelVars>>

-------------------------------------------------------------------------------
(* task_latency *)

\* The tests at the head of the loop.
CheckEnabled ==
  /\ pc = "check"
  /\ histogram_enable = 1
  /\ pc' = IF sampling_running = 0 THEN "lock" ELSE "take"
  /\ sampling_running' = 1
  /\ UNCHANGED <<hpc, histogram_enable, semVars, ttcVars, histVars, channelVars>>

CheckDisabled ==
  /\ pc = "check"
  /\ histogram_enable = 0
  /\ sampling_running = 1
  /\ pc' = "stop_take"
  /\ sampling_running' = 0
  /\ UNCHANGED <<hpc, histogram_enable, semVars, ttcVars, histVars, channelVars>>

\* clone_lock_mutex, for the entire sampling time.
LockClone ==
  /\ pc = "lock"
  /\ wait_for_clone = 1
  /\ wait_for_clone' = 0
  /\ pc' = "take"
  /\ UNCHANGED <<hpc, histogram_enable, sampling_running, wait_for_irq, ttcVars,
                 histVars, channelVars>>

\* xSemaphoreTake(wait_for_irq, 1000 ms) succeeds.
TakeIrq ==
  /\ pc \in {"take", "stop_take"}
  /\ wait_for_irq = 1
  /\ wait_for_irq' = 0
  /\ pc' = IF pc = "take" THEN "arm_counter" ELSE "stop_counter"
  /\ UNCHANGED <<hpc, histogram_enable, sampling_running, wait_for_clone, ttcVars,
                 histVars, channelVars>>

\* Mutant: the sampler arms the timer although the take timed out.
TakeIrqTimeout_ArmsAnyway ==
  /\ pc \in {"take", "stop_take"}
  /\ wait_for_irq = 0
  /\ pc' = IF pc = "take" THEN "arm_counter" ELSE "stop_counter"
  /\ UNCHANGED <<hpc, histogram_enable, sampling_running, semVars, ttcVars,
                 histVars, channelVars>>

\* It times out: log while sampling, carry on regardless while stopping.
TakeIrqTimeout ==
  /\ pc \in {"take", "stop_take"}
  /\ wait_for_irq = 0
  /\ pc' = IF pc = "take" THEN "check" ELSE "stop_counter"
  /\ UNCHANGED <<hpc, histogram_enable, sampling_running, semVars, ttcVars,
                 histVars, channelVars>>

\* Reset the counter, then enable its interrupt.
ArmCounter ==
  /\ pc = "arm_counter"
  /\ counter_on' = 1
  /\ pc' = "arm_irq"
  /\ UNCHANGED <<hpc, histogram_enable, sampling_running, semVars, interrupt_register,
                 interrupt_enable, histVars, channelVars>>

ArmIrq ==
  /\ pc = "arm_irq"
  /\ interrupt_enable' = 1
  /\ pc' = "check"
  /\ UNCHANGED <<hpc, histogram_enable, sampling_running, semVars, counter_on,
                 interrupt_register, histVars, channelVars>>

StopCounter ==
  /\ pc = "stop_counter"
  /\ counter_on' = 0
  /\ pc' = "stop_irq"
  /\ UNCHANGED <<hpc, histogram_enable, sampling_running, semVars, interrupt_register,
                 interrupt_enable, histVars, channelVars>>

\* Mutant: the timer's interrupt stays enabled while sampling is off.
StopIrq_Forgotten ==
  /\ pc = "stop_irq"
  /\ pc' = "stop_give"
  /\ UNCHANGED <<hpc, histogram_enable, sampling_running, semVars, ttcVars,
                 histVars, channelVars>>

StopIrq ==
  /\ pc = "stop_irq"
  /\ interrupt_enable' = 0
  /\ pc' = "stop_give"
  /\ UNCHANGED <<hpc, histogram_enable, sampling_running, semVars, counter_on,
                 interrupt_register, histVars, channelVars>>

\* Mutant: it is not given back.
StopGive_Forgotten ==
  /\ pc = "stop_give"
  /\ pc' = "stop_unlock"
  /\ UNCHANGED <<hpc, histogram_enable, sampling_running, semVars, ttcVars,
                 histVars, channelVars>>

\* xSemaphoreGive(wait_for_irq).
StopGive ==
  /\ pc = "stop_give"
  /\ wait_for_irq' = 1
  /\ pc' = "stop_unlock"
  /\ UNCHANGED <<hpc, histogram_enable, sampling_running, wait_for_clone, ttcVars,
                 histVars, channelVars>>

\* clone_unlock_mutex.
StopUnlock ==
  /\ pc = "stop_unlock"
  /\ wait_for_clone' = 1
  /\ pc' = "check"
  /\ UNCHANGED <<hpc, histogram_enable, sampling_running, wait_for_irq, ttcVars,
                 histVars, channelVars>>

task_latency ==
  \/ CheckEnabled \/ CheckDisabled \/ LockClone \/ TakeIrq \/ TakeIrqTimeout
  \/ ArmCounter \/ ArmIrq \/ StopCounter \/ StopIrq \/ StopGive \/ StopUnlock

-------------------------------------------------------------------------------
(* message_handler *)

\* The request at the head of the channel is cmd.
Request(cmd) == requests # <<>> /\ Head(requests) = cmd

demoButHist == <<pc, histogram_enable, sampling_running, semVars, ttcVars>>

\* CLEAR: clear_histogram, which takes no semaphore.
ClearCounters ==
  /\ hpc = "wait"
  /\ Request("CLEAR")
  /\ hist' = [ZeroHist EXCEPT !.data = hist.data]
  /\ taken' = 0
  /\ hpc' = "clear_data"
  /\ UNCHANGED <<demoButHist, hist_clone, beyond, channelVars>>

ClearData ==
  /\ hpc = "clear_data"
  /\ hist' = [hist EXCEPT !.data = NoBuckets]
  /\ hpc' = "clear_min"
  /\ UNCHANGED <<demoButHist, hist_clone, beyond, taken, channelVars>>

ClearMin ==
  /\ hpc = "clear_min"
  /\ hist' = [hist EXCEPT !.min = InvalidMin]
  /\ hpc' = "ack"
  /\ UNCHANGED <<demoButHist, hist_clone, beyond, taken, channelVars>>

\* START, STOP and QUIT set the flag.
SetEnable ==
  /\ hpc = "wait"
  /\ \E cmd \in {"START", "STOP", "QUIT"} :
       /\ Request(cmd)
       /\ histogram_enable' = IF cmd = "START" THEN 1 ELSE 0
  /\ hpc' = "ack"
  /\ UNCHANGED <<pc, sampling_running, semVars, ttcVars, histVars, channelVars>>

\* Mutant: the handler copies without the semaphore.
CloneLock_NoWait ==
  /\ hpc = "wait"
  /\ Request("CLONE")
  /\ wait_for_clone' = 0
  /\ hpc' = "copy_counters"
  /\ UNCHANGED <<pc, histogram_enable, sampling_running, wait_for_irq, ttcVars, histVars,
                 channelVars>>

\* CLONE: clone_lock_mutex, memcpy, clone_unlock_mutex.
CloneLock ==
  /\ hpc = "wait"
  /\ Request("CLONE")
  /\ wait_for_clone = 1
  /\ wait_for_clone' = 0
  /\ hpc' = "copy_counters"
  /\ UNCHANGED <<pc, histogram_enable, sampling_running, wait_for_irq, ttcVars, histVars,
                 channelVars>>

CopyCounters ==
  /\ hpc = "copy_counters"
  /\ hist_clone' = [hist EXCEPT !.data = hist_clone.data]
  /\ hpc' = "copy_data"
  /\ UNCHANGED <<demoButHist, hist, beyond, taken, channelVars>>

CopyData ==
  /\ hpc = "copy_data"
  /\ hist_clone' = [hist_clone EXCEPT !.data = hist.data]
  /\ hpc' = "clone_unlock"
  /\ UNCHANGED <<demoButHist, hist, beyond, taken, channelVars>>

\* Mutant: the handler keeps the semaphore.
CloneUnlock_Forgotten ==
  /\ hpc = "clone_unlock"
  /\ hpc' = "ack"
  /\ UNCHANGED <<demoButHist, histVars, channelVars>>

CloneUnlock ==
  /\ hpc = "clone_unlock"
  /\ wait_for_clone' = 1
  /\ hpc' = "ack"
  /\ UNCHANGED <<pc, histogram_enable, sampling_running, wait_for_irq, ttcVars, histVars,
                 channelVars>>

\* GET needs no preparation.
Get ==
  /\ hpc = "wait"
  /\ Request("GET")
  /\ hpc' = "ack"
  /\ UNCHANGED <<demoButHist, histVars, channelVars>>

\* remoteproc_request_ack and, for GET, remoteproc_request_response.
Acknowledge ==
  /\ hpc = "ack"
  /\ to_linux' = to_linux \o
       (IF Request("GET") THEN <<Ack("GET"), Data(hist_clone)>>
                          ELSE <<Ack(Head(requests))>>)
  /\ requests' = Tail(requests)
  /\ hpc' = "wait"
  /\ UNCHANGED <<demoButHist, histVars>>

message_handler ==
  \/ ClearCounters \/ ClearData \/ ClearMin \/ SetEnable
  \/ CloneLock \/ CopyCounters \/ CopyData \/ CloneUnlock
  \/ Get \/ Acknowledge

DemoNext ==
  \/ Overflow
  \/ \E v \in Values : irq70_ttc(v)
  \/ task_latency
  \/ message_handler

-------------------------------------------------------------------------------
(* Properties *)

HistType == [sample_count : Nat, out_count : Nat, total_sum : Nat, min : Nat, max : Nat,
             data : [Buckets -> Nat]]

SamplerLabels == {"check", "lock", "take", "arm_counter", "arm_irq", "stop_take",
                  "stop_counter", "stop_irq", "stop_give", "stop_unlock"}
HandlerLabels == {"wait", "clear_data", "clear_min", "copy_counters", "copy_data",
                  "clone_unlock", "ack"}

DemoTypeOK ==
  /\ pc \in SamplerLabels
  /\ hpc \in HandlerLabels
  /\ histogram_enable \in {0, 1}
  /\ sampling_running \in {0, 1}
  /\ wait_for_irq \in {0, 1}
  /\ wait_for_clone \in {0, 1}
  /\ counter_on \in {0, 1}
  /\ interrupt_register \in {0, 1}
  /\ interrupt_enable \in {0, 1}
  /\ hist \in HistType
  /\ hist_clone \in HistType
  /\ beyond \in {0, 1}
  /\ taken \in Nat

\* While message_handler copies the histogram (line 320), the timer's interrupt
\* is disabled and the sampler is not about to enable it: the handler that
\* changes the histogram cannot run, although it takes no semaphore itself.
CopyUndisturbed ==
  hpc \in {"copy_counters", "copy_data"} =>
    /\ interrupt_enable = 0
    /\ pc \in {"check", "lock"}

\* When the interrupt handler gives wait_for_irq, the semaphore is taken: no
\* give is lost, so each sample that was armed lets the sampler arm one more
\* (lines 205-222), and the sampler never arms the timer during a sample.
NoGiveLost ==
  [][\A v \in Values : irq70_ttc(v) => wait_for_irq = 0]_demoVars
===============================================================================
