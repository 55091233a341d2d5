------------------------------ MODULE LatencyProofs ------------------------------
(***************************************************************************)
(* The two semaphores of latencydemo.c keep its interrupt handler, its     *)
(* sampler and its request handler apart, for every size of histogram,     *)
(* every value sampled and every client, killed or not.                    *)
(***************************************************************************)
EXTENDS LatencySystem, FoldTheorems, TLAPS

StopLabels == {"stop_take", "stop_counter", "stop_irq", "stop_give", "stop_unlock"}
ArmLabels == {"arm_counter", "arm_irq"}

\* The sampler has taken wait_for_clone and not given it back.
Sampling ==
  \/ pc \in {"take"} \cup ArmLabels \cup StopLabels
  \/ pc = "check" /\ sampling_running = 1

Copying == hpc \in {"copy_counters", "copy_data", "clone_unlock"}

\* sampling_running says whether the sampler is on its way to take or to stop.
RunningAgrees ==
  /\ pc \in {"lock", "take"} \cup ArmLabels => sampling_running = 1
  /\ pc \in StopLabels => sampling_running = 0
  /\ pc \in {"check", "lock", "take"} \cup ArmLabels \cup StopLabels
  /\ sampling_running \in {0, 1}

\* wait_for_clone is available or taken once.
CloneTakenOnce ==
  /\ wait_for_clone \in {0, 1}
  /\ wait_for_clone = 1 => ~ Sampling /\ ~ Copying
  /\ ~ (Sampling /\ Copying)

\* The interrupt is enabled only while the sampler is between two samples, with
\* wait_for_irq taken; wait_for_irq is taken and nobody gives it while arming.
IrqOwned ==
  /\ interrupt_enable \in {0, 1} /\ wait_for_irq \in {0, 1}
  /\ interrupt_enable = 1 => wait_for_irq = 0 /\ Sampling
  /\ interrupt_enable = 1 => pc \notin ArmLabels \cup {"stop_give", "stop_unlock"}
  /\ pc \in ArmLabels => wait_for_irq = 0

\* The inductive invariant.
IInv == RunningAgrees /\ CloneTakenOnce /\ IrqOwned

-------------------------------------------------------------------------------

LEMMA IInvInit == Init => IInv
BY DEF Init, DemoInit, IInv, RunningAgrees, CloneTakenOnce, IrqOwned, Sampling, Copying,
       StopLabels, ArmLabels

LEMMA ClientLeavesDemo == ClientStep => UNCHANGED demoVars
BY DEF ClientStep, ClientSend

LEMMA FrameIInv == IInv /\ UNCHANGED demoVars => IInv'
BY DEF demoVars, semVars, ttcVars, IInv, RunningAgrees, CloneTakenOnce, IrqOwned, Sampling,
       Copying

LEMMA TimerPreserves ==
  ASSUME IInv, Overflow \/ \E v \in Values : irq70_ttc(v)
  PROVE  IInv'
<1>1. CASE Overflow
  BY <1>1 DEF Overflow, semVars, IInv, RunningAgrees, CloneTakenOnce, IrqOwned, Sampling,
              Copying
<1>2. ASSUME NEW v \in Values, irq70_ttc(v) PROVE IInv'
  <2>1. /\ interrupt_enable = 1 /\ interrupt_enable' = 0 /\ wait_for_irq' = 1
        /\ UNCHANGED <<pc, hpc, sampling_running, wait_for_clone>>
    BY <1>2 DEF irq70_ttc
  <2> QED
    BY <2>1 DEF IInv, RunningAgrees, CloneTakenOnce, IrqOwned, Sampling, Copying
<1>3. QED
  BY <1>1, <1>2

LEMMA SamplerPreserves ==
  ASSUME IInv, task_latency
  PROVE  IInv'
<1> USE DEF IInv, RunningAgrees, CloneTakenOnce, IrqOwned, Sampling, Copying, StopLabels,
            ArmLabels, semVars, ttcVars
<1>1. CASE CheckEnabled
  BY <1>1 DEF CheckEnabled
<1>2. CASE CheckDisabled
  BY <1>2 DEF CheckDisabled
<1>3. CASE LockClone
  BY <1>3 DEF LockClone
<1>4. CASE TakeIrq
  BY <1>4 DEF TakeIrq
<1>5. CASE TakeIrqTimeout
  BY <1>5 DEF TakeIrqTimeout
<1>6. CASE ArmCounter
  BY <1>6 DEF ArmCounter
<1>7. CASE ArmIrq
  <2>1. /\ pc = "arm_irq" /\ pc' = "check" /\ interrupt_enable' = 1
        /\ UNCHANGED <<hpc, sampling_running, wait_for_irq, wait_for_clone>>
    BY <1>7 DEF ArmIrq
  <2>2. sampling_running = 1 /\ wait_for_irq = 0
    BY <2>1
  <2>3. RunningAgrees' /\ IrqOwned'
    BY <2>1, <2>2
  <2>4. CloneTakenOnce'
    BY <2>1, <2>2
  <2> QED
    BY <2>3, <2>4
<1>8. CASE StopCounter
  BY <1>8 DEF StopCounter
<1>9. CASE StopIrq
  BY <1>9 DEF StopIrq
<1>10. CASE StopGive
  BY <1>10 DEF StopGive
<1>11. CASE StopUnlock
  BY <1>11 DEF StopUnlock
<1>12. QED
  BY <1>1, <1>2, <1>3, <1>4, <1>5, <1>6, <1>7, <1>8, <1>9, <1>10, <1>11
     DEF task_latency

LEMMA HandlerPreserves ==
  ASSUME IInv, message_handler
  PROVE  IInv'
<1> USE DEF IInv, RunningAgrees, CloneTakenOnce, IrqOwned, Sampling, Copying, semVars,
            ttcVars, demoButHist
<1>1. CASE ClearCounters \/ ClearData \/ ClearMin
  BY <1>1 DEF ClearCounters, ClearData, ClearMin
<1>2. CASE SetEnable
  BY <1>2 DEF SetEnable
<1>3. CASE CloneLock
  BY <1>3 DEF CloneLock
<1>4. CASE CopyCounters \/ CopyData
  BY <1>4 DEF CopyCounters, CopyData
<1>5. CASE CloneUnlock
  BY <1>5 DEF CloneUnlock
<1>6. CASE Get \/ Acknowledge
  BY <1>6 DEF Get, Acknowledge
<1>7. QED
  BY <1>1, <1>2, <1>3, <1>4, <1>5, <1>6 DEF message_handler

LEMMA IInvStep == IInv /\ [Next]_vars => IInv'
<1> SUFFICES ASSUME IInv, [Next]_vars PROVE IInv'
  OBVIOUS
<1>1. CASE DemoNext
  BY <1>1, TimerPreserves, SamplerPreserves, HandlerPreserves DEF DemoNext
<1>2. CASE ClientStep
  BY <1>2, ClientLeavesDemo, FrameIInv
<1>3. CASE UNCHANGED vars
  BY <1>3, FrameIInv DEF vars
<1>4. QED
  BY <1>1, <1>2, <1>3 DEF Next

LEMMA IInvHolds == Spec => []IInv
BY IInvInit, IInvStep, PTL DEF Spec

\* The copy for CLONE is not disturbed (latencydemo.c 319-323, 205-257): the
\* interrupt handler takes no semaphore, but the sampler lets no interrupt come
\* unless it holds the one that message_handler copies under.
THEOREM CopyIsUndisturbed == Spec => []CopyUndisturbed
<1>1. IInv => CopyUndisturbed
  BY DEF IInv, RunningAgrees, CloneTakenOnce, IrqOwned, Sampling, Copying, StopLabels,
         ArmLabels, CopyUndisturbed
<1>2. QED
  BY <1>1, IInvHolds, PTL

\* No give of wait_for_irq is lost (latencydemo.c 150, 205-222): the handler gives
\* only a semaphore that is taken.
THEOREM GivesCount == Spec => NoGiveLost
<1>1. IInv => \A v \in Values : irq70_ttc(v) => wait_for_irq = 0
  BY DEF IInv, IrqOwned, irq70_ttc
<1>2. IInv /\ [Next]_vars => [\A v \in Values : irq70_ttc(v) => wait_for_irq = 0]_demoVars
  BY <1>1
<1>3. QED
  BY <1>2, IInvHolds, PTL DEF Spec, NoGiveLost

-------------------------------------------------------------------------------
(* The report, when every client runs to its end and no value is equal to  *)
(* HISTOGRAM_SIZE.                                                         *)

NobodyKilled == MayBeKilled = FALSE
NoEdge == HISTOGRAM_SIZE \notin Values

Clearing == {"clear_data", "clear_min"}

\* The commands of this session that have taken effect; CLONE and CLEAR from their
\* first step on.
Stage == IF phase = "write" \/ (requests # <<>> /\ hpc = "wait") THEN command_no - 1
                                                                ELSE command_no

\* There is one command or its acknowledgement in the channel while latencystat
\* waits for it, and after GET the histogram as message_handler copied it.
OneAtATime ==
  /\ command_no \in 1 .. 5 /\ phase \in {"write", "ack", "data", "print"}
  /\ phase \in {"data", "print"} => command_no = 5
  /\ phase # "ack" => requests = <<>> /\ hpc = "wait"
  /\ phase \in {"write", "print"} => to_linux = <<>>
  /\ phase = "data" => to_linux = <<Data(hist_clone)>>
  /\ phase = "print" => report = <<Data(hist_clone)>>
  /\ phase = "ack" /\ requests # <<>> => requests = <<Script[command_no]>> /\ to_linux = <<>>
  /\ phase = "ack" /\ requests = <<>> =>
       /\ hpc = "wait"
       /\ to_linux = IF command_no = 5 THEN <<Ack("GET"), Data(hist_clone)>>
                                       ELSE <<Ack(Script[command_no])>>

\* message_handler works on the command that latencystat waits for.
HandlerFollows ==
  /\ hpc \in Clearing \cup {"copy_counters", "copy_data", "clone_unlock", "wait", "ack"}
  /\ hpc \in Clearing => command_no = 1
  /\ Copying => command_no = 4

\* The sampler has stopped, and is not told to start.
Quiet == pc = "check" /\ sampling_running = 0 /\ histogram_enable = 0

\* What the sampler does follows the commands: it samples from START on, and
\* before CLONE has the semaphore it has stopped.
SamplerFollows ==
  /\ histogram_enable = IF Stage = 2 THEN 1 ELSE 0
  /\ Stage \in {0, 1, 4, 5} => Quiet
  /\ Stage = 2 => pc \notin StopLabels
  /\ Stage = 2 /\ taken > 0 => Sampling
  /\ Stage = 3 => Sampling \/ Quiet
  /\ Stage = 3 => pc \notin {"lock"}

\* Samples are counted from CLEAR on, and there are some when STOP is sent.
TakenFollows ==
  /\ taken \in Nat
  /\ Stage = 1 => taken = 0
  /\ command_no \in {3, 4, 5} /\ ~ (command_no = 3 /\ phase = "write") => taken > 0

\* The histogram that the interrupt handler changes.
Counts(h) ==
  /\ h.sample_count = h.out_count + SumOver(h.data, Buckets)
  /\ h.sample_count > 0 => h.min <= h.max

HistFollows ==
  /\ hist \in HistType /\ hist_clone \in HistType
  /\ hist.sample_count = taken
  /\ hpc \notin Clearing => Counts(hist)
  /\ hpc \in Clearing => hist.sample_count = 0 /\ hist.out_count = 0
  /\ hpc = "clear_min" => hist.data = NoBuckets
  /\ hpc \notin {"copy_counters", "copy_data"} => Counts(hist_clone)
  /\ hpc = "copy_data" => hist_clone = [hist EXCEPT !.data = hist_clone.data]
  /\ Stage \in {4, 5} /\ hpc \notin {"copy_counters", "copy_data"} => hist_clone = hist

ReportInv == OneAtATime /\ HandlerFollows /\ SamplerFollows /\ TakenFollows /\ HistFollows

LEMMA CountsIsConsistent == ASSUME NEW h PROVE Counts(h) <=> Consistent(h)
BY DEF Counts, Consistent, SumOver

LEMMA BucketsFinite == IsFiniteSet(Buckets)
BY HistogramAssumption, FS_Interval DEF Buckets

LEMMA ScriptIs ==
  /\ Len(Script) = 5
  /\ Script[1] = "CLEAR" /\ Script[2] = "START" /\ Script[3] = "STOP"
  /\ Script[4] = "CLONE" /\ Script[5] = "GET"
BY DEF Script

\* While message_handler works on a command, it is latencystat's current one.
LEMMA InHandler ==
  ASSUME OneAtATime, hpc # "wait"
  PROVE  /\ phase = "ack" /\ requests = <<Script[command_no]>> /\ to_linux = <<>>
         /\ Stage = command_no
BY DEF OneAtATime, Stage

\* A request that message_handler is about to read is latencystat's current one.
LEMMA AtCommand ==
  ASSUME OneAtATime, hpc = "wait", NEW cmd, Request(cmd)
  PROVE  /\ phase = "ack" /\ requests = <<Script[command_no]>> /\ to_linux = <<>>
         /\ cmd = Script[command_no] /\ Stage = command_no - 1
BY DEF OneAtATime, Stage, Request

LEMMA CommandOf ==
  ASSUME command_no \in 1 .. 5
  PROVE  /\ Script[command_no] = "CLEAR" => command_no = 1
         /\ Script[command_no] = "START" => command_no = 2
         /\ Script[command_no] = "STOP" => command_no = 3
         /\ Script[command_no] = "CLONE" => command_no = 4
         /\ Script[command_no] = "GET" => command_no = 5
         /\ Script[command_no] # "QUIT"
<1>1. command_no \in {1, 2, 3, 4, 5}
  OBVIOUS
<1>2. QED
  BY <1>1, ScriptIs

channelState == <<command_no, phase, report, requests, to_linux, hpc>>

LEMMA FrameChannel ==
  ASSUME UNCHANGED channelState
  PROVE  /\ Stage' = Stage
         /\ OneAtATime /\ UNCHANGED hist_clone => OneAtATime'
         /\ HandlerFollows => HandlerFollows'
BY DEF channelState, Stage, OneAtATime, HandlerFollows, Copying

-------------------------------------------------------------------------------

LEMMA ReportInvInit == Init => ReportInv
<1> SUFFICES ASSUME Init PROVE ReportInv
  OBVIOUS
<1>1. /\ pc = "check" /\ hpc = "wait" /\ histogram_enable = 0 /\ sampling_running = 0
      /\ hist = ClearedHist /\ hist_clone = ClearedHist /\ taken = 0
      /\ command_no = 1 /\ phase = "write" /\ requests = <<>> /\ to_linux = <<>>
  BY DEF Init, DemoInit, ClientInit
<1>2. OneAtATime /\ HandlerFollows
  BY <1>1 DEF OneAtATime, HandlerFollows, Clearing, Copying
<1>3. Stage = 0
  BY <1>1 DEF Stage
<1>4. SamplerFollows /\ TakenFollows
  BY <1>1, <1>3 DEF SamplerFollows, TakenFollows, Quiet
<1>5. NoBuckets \in [Buckets -> Nat] /\ \A b \in Buckets : NoBuckets[b] = 0
  BY DEF NoBuckets
<1>6. SumOver(NoBuckets, Buckets) = 0
  BY <1>5, BucketsFinite, SumOfZeros
<1>7. /\ ClearedHist \in HistType
      /\ ClearedHist.sample_count = 0 /\ ClearedHist.out_count = 0
      /\ ClearedHist.data = NoBuckets
  BY <1>5, HistogramAssumption DEF ClearedHist, ZeroHist, HistType
<1>8. Counts(ClearedHist)
  BY <1>6, <1>7 DEF Counts
<1>9. HistFollows
  BY <1>1, <1>3, <1>7, <1>8 DEF HistFollows, Clearing
<1>10. QED
  BY <1>2, <1>4, <1>9 DEF ReportInv

\* A sample is counted in its bucket or as out of range.
LEMMA SampleCounted ==
  ASSUME NoEdge, hist \in HistType, Counts(hist), NEW v \in Values, AddSample(v)
  PROVE  /\ hist' \in HistType
         /\ hist'.sample_count = hist.sample_count + 1
         /\ Counts(hist')
<1> DEFINE out == IF v > HISTOGRAM_SIZE THEN hist.out_count + 1 ELSE hist.out_count
           low == IF v < hist.min THEN v ELSE hist.min
           high == IF v > hist.max THEN v ELSE hist.max
           data == IF v \in Buckets THEN [hist.data EXCEPT ![v] = @ + 1] ELSE hist.data
<1>1. /\ hist.sample_count \in Nat /\ hist.out_count \in Nat /\ hist.total_sum \in Nat
      /\ hist.min \in Nat /\ hist.max \in Nat /\ hist.data \in [Buckets -> Nat]
  BY DEF HistType
<1>2. v \in Nat /\ HISTOGRAM_SIZE \in Nat /\ v # HISTOGRAM_SIZE
  BY HistogramAssumption DEF NoEdge
<1>3. hist' = [sample_count |-> hist.sample_count + 1, out_count |-> out,
               total_sum |-> hist.total_sum + v, min |-> low, max |-> high, data |-> data]
  BY DEF AddSample
<1>4. data \in [Buckets -> Nat]
  BY <1>1
<1>5. out \in Nat /\ low \in Nat /\ high \in Nat /\ low <= high
  BY <1>1, <1>2
<1>6. SumOver(hist.data, Buckets) \in Nat
  BY <1>1, BucketsFinite, SumIsNat DEF NatValued
<1>7. out + SumOver(data, Buckets) = hist.out_count + SumOver(hist.data, Buckets) + 1
  <2>1. CASE v \in Buckets
    <3>1. out = hist.out_count
      BY <2>1, <1>2 DEF Buckets
    <3>2. SumOver(data, Buckets) = SumOver(hist.data, Buckets) + 1
      BY <2>1, <1>1, BucketsFinite, SumAddsOne
    <3> HIDE DEF out, data
    <3>3. QED
      BY <3>1, <3>2, <1>1, <1>6
  <2>2. CASE v \notin Buckets
    <3>1. out = hist.out_count + 1
      BY <2>2, <1>2 DEF Buckets
    <3>2. data = hist.data
      BY <2>2
    <3> HIDE DEF out, data
    <3>3. QED
      BY <3>1, <3>2, <1>1, <1>6
  <2>3. QED
    BY <2>1, <2>2
<1> HIDE DEF out, low, high, data
<1>8. hist' \in HistType
  BY <1>1, <1>2, <1>3, <1>4, <1>5 DEF HistType
<1>9. /\ hist'.sample_count = hist.sample_count + 1 /\ hist'.out_count = out
      /\ hist'.min = low /\ hist'.max = high /\ hist'.data = data
  BY <1>3
<1>10. hist.sample_count = hist.out_count + SumOver(hist.data, Buckets)
  BY DEF Counts
<1>11. Counts(hist')
  BY <1>1, <1>5, <1>6, <1>7, <1>9, <1>10 DEF Counts
<1>12. QED
  BY <1>8, <1>9, <1>11

LEMMA FrameHist ==
  ASSUME UNCHANGED <<channelState, hist, hist_clone, taken>>
  PROVE  /\ TakenFollows => TakenFollows'
         /\ HistFollows => HistFollows'
<1>1. Stage' = Stage
  BY FrameChannel
<1>2. TakenFollows => TakenFollows'
  BY <1>1 DEF TakenFollows, channelState
<1>3. HistFollows => HistFollows'
  BY <1>1 DEF HistFollows, Counts, channelState
<1>4. QED
  BY <1>2, <1>3

\* The sampler's own steps touch neither the channel nor the histogram, and take it
\* from sampling to stopping to quiet.
LEMMA SamplerReport ==
  ASSUME IInv, ReportInv, task_latency, UNCHANGED clientVars
  PROVE  ReportInv'
<1>1. UNCHANGED <<channelState, hist, hist_clone, taken, histogram_enable>>
  BY DEF task_latency, CheckEnabled, CheckDisabled, LockClone, TakeIrq, TakeIrqTimeout,
         ArmCounter, ArmIrq, StopCounter, StopIrq, StopGive, StopUnlock, histVars,
         channelVars, clientVars, channelState
<1>2. OneAtATime' /\ HandlerFollows' /\ TakenFollows' /\ HistFollows'
  BY <1>1, FrameChannel, FrameHist DEF ReportInv
<1>3. Stage' = Stage /\ taken' = taken /\ histogram_enable' = histogram_enable
  BY <1>1, FrameChannel
<1>4. SamplerFollows'
  <2> USE DEF SamplerFollows, Quiet, Sampling, StopLabels, ArmLabels
  <2>1. SamplerFollows /\ RunningAgrees
    BY DEF ReportInv, IInv
  <2>2. Stage \in 0 .. 5
    BY DEF ReportInv, OneAtATime, Stage
  <2>3. CASE CheckEnabled
    BY <1>3, <2>1, <2>2, <2>3 DEF CheckEnabled
  <2>4. CASE CheckDisabled
    BY <1>3, <2>1, <2>2, <2>4 DEF CheckDisabled
  <2>5. CASE LockClone
    BY <1>3, <2>1, <2>2, <2>5 DEF LockClone, RunningAgrees
  <2>6. CASE TakeIrq
    BY <1>3, <2>1, <2>2, <2>6 DEF TakeIrq, RunningAgrees
  <2>7. CASE TakeIrqTimeout
    BY <1>3, <2>1, <2>2, <2>7 DEF TakeIrqTimeout, RunningAgrees
  <2>8. CASE ArmCounter
    BY <1>3, <2>1, <2>2, <2>8 DEF ArmCounter, RunningAgrees
  <2>9. CASE ArmIrq
    BY <1>3, <2>1, <2>2, <2>9 DEF ArmIrq, RunningAgrees
  <2>10. CASE StopCounter
    BY <1>3, <2>1, <2>2, <2>10 DEF StopCounter, RunningAgrees
  <2>11. CASE StopIrq
    BY <1>3, <2>1, <2>2, <2>11 DEF StopIrq, RunningAgrees
  <2>12. CASE StopGive
    BY <1>3, <2>1, <2>2, <2>12 DEF StopGive, RunningAgrees
  <2>13. CASE StopUnlock
    BY <1>3, <2>1, <2>2, <2>13 DEF StopUnlock, RunningAgrees
  <2>14. QED
    BY <2>3, <2>4, <2>5, <2>6, <2>7, <2>8, <2>9, <2>10, <2>11, <2>12, <2>13
       DEF task_latency
<1>5. QED
  BY <1>2, <1>4 DEF ReportInv

\* An interrupt comes only while the sampler samples: neither before START, nor
\* while the histogram is cleared or copied, nor after.
LEMMA TimerReport ==
  ASSUME IInv, ReportInv, NoEdge, UNCHANGED clientVars,
         Overflow \/ \E v \in Values : irq70_ttc(v)
  PROVE  ReportInv'
<1>1. CASE Overflow
  <2>1. UNCHANGED <<channelState, hist, hist_clone, taken, pc, sampling_running,
                    histogram_enable>>
    BY <1>1 DEF Overflow, histVars, channelVars, clientVars, channelState
  <2>2. OneAtATime' /\ HandlerFollows' /\ TakenFollows' /\ HistFollows' /\ Stage' = Stage
    BY <2>1, FrameChannel, FrameHist DEF ReportInv
  <2>3. SamplerFollows'
    BY <2>1, <2>2 DEF ReportInv, SamplerFollows, Quiet, Sampling
  <2>4. QED
    BY <2>2, <2>3 DEF ReportInv
<1>2. ASSUME NEW v \in Values, irq70_ttc(v) PROVE ReportInv'
  <2>1. /\ interrupt_enable = 1 /\ AddSample(v)
        /\ UNCHANGED <<channelState, hist_clone, pc, sampling_running, histogram_enable>>
    BY <1>2 DEF irq70_ttc, AddSample, channelVars, clientVars, channelState
  <2>2. taken' = taken + 1 /\ taken \in Nat
    BY <2>1 DEF AddSample, ReportInv, TakenFollows
  <2>3. Sampling /\ ~ Copying
    BY <2>1 DEF IInv, IrqOwned, CloneTakenOnce
  <2>4. Stage \in {2, 3}
    <3>1. Stage \in 0 .. 5
      BY DEF ReportInv, OneAtATime, Stage
    <3>2. ~ Quiet
      BY <2>3 DEF Quiet, Sampling, StopLabels, ArmLabels
    <3>3. QED
      BY <3>1, <3>2 DEF ReportInv, SamplerFollows
  <2>5. hpc \notin Clearing
    BY <2>4, InHandler DEF ReportInv, HandlerFollows, Clearing
  <2>6. OneAtATime' /\ HandlerFollows' /\ Stage' = Stage
    BY <2>1, FrameChannel DEF ReportInv
  <2>7. SamplerFollows'
    <3>1. Sampling' /\ UNCHANGED <<pc, sampling_running, histogram_enable>>
      BY <2>1, <2>3 DEF Sampling
    <3>2. QED
      BY <3>1, <2>3, <2>4, <2>6 DEF ReportInv, SamplerFollows, Quiet
  <2>8. TakenFollows'
    BY <2>1, <2>2, <2>4, <2>6 DEF ReportInv, TakenFollows, channelState
  <2>9. HistFollows'
    <3>1. hist \in HistType /\ Counts(hist)
      BY <2>5 DEF ReportInv, HistFollows
    <3>2. /\ hist' \in HistType /\ hist'.sample_count = hist.sample_count + 1
          /\ Counts(hist')
      BY <2>1, <3>1, SampleCounted
    <3>3. hpc' = hpc /\ hist_clone' = hist_clone
      BY <2>1 DEF channelState
    <3>4. hpc \notin {"copy_counters", "copy_data", "clone_unlock"}
      BY <2>3 DEF Copying
    <3>5. /\ hist_clone \in HistType /\ Counts(hist_clone) /\ hist.sample_count = taken
      BY <3>4 DEF ReportInv, HistFollows
    <3>6. Counts(hist)' /\ Counts(hist_clone)'
      BY <3>2, <3>3, <3>5 DEF Counts
    <3>7. QED
      BY <2>2, <2>4, <2>5, <2>6, <3>2, <3>3, <3>4, <3>5, <3>6 DEF HistFollows, Clearing
  <2>10. QED
    BY <2>6, <2>7, <2>8, <2>9 DEF ReportInv
<1>3. QED
  BY <1>1, <1>2

\* message_handler's steps leave the sampler's variables but the flag and the
\* semaphore alone.
LEMMA SamplerOf ==
  ASSUME SamplerFollows, Stage \in 0 .. 5, Stage' = Stage, taken' = taken,
         UNCHANGED <<pc, sampling_running, histogram_enable>>
  PROVE  SamplerFollows'
BY DEF SamplerFollows, Quiet, Sampling

LEMMA StageIs ==
  ASSUME OneAtATime
  PROVE  Stage \in 0 .. 5 /\ command_no \in 1 .. 5
BY DEF OneAtATime, Stage

\* CLEAR comes while nothing samples.
LEMMA ClearReport ==
  ASSUME ReportInv, ClearCounters \/ ClearData \/ ClearMin, UNCHANGED clientVars
  PROVE  ReportInv'
<1> USE DEF ReportInv
<1>1. CASE ClearCounters
  <2>1. /\ hpc = "wait" /\ Request("CLEAR") /\ hpc' = "clear_data" /\ taken' = 0
        /\ hist' = [ZeroHist EXCEPT !.data = hist.data] /\ hist_clone' = hist_clone
        /\ UNCHANGED <<command_no, phase, report, requests, to_linux>>
        /\ UNCHANGED <<pc, sampling_running, histogram_enable>>
    BY <1>1 DEF ClearCounters, demoButHist, channelVars, clientVars
  <2>2. phase = "ack" /\ requests = <<Script[command_no]>> /\ to_linux = <<>> /\ Stage = 0
        /\ command_no = 1
    BY <2>1, AtCommand, CommandOf, StageIs
  <2>3. Stage' = 1
    BY <2>1, <2>2 DEF Stage
  <2>4. OneAtATime' /\ HandlerFollows'
    BY <2>1, <2>2 DEF OneAtATime, HandlerFollows, Clearing, Copying
  <2>5. SamplerFollows' /\ TakenFollows'
    BY <2>1, <2>2, <2>3 DEF SamplerFollows, Quiet, TakenFollows
  <2>6. HistFollows'
    <3>1. /\ hist \in HistType /\ hist_clone \in HistType /\ Counts(hist_clone)
      BY <2>1 DEF HistFollows
    <3>2. /\ hist' \in HistType /\ hist'.sample_count = 0 /\ hist'.out_count = 0
      BY <2>1, <3>1 DEF HistType, ZeroHist
    <3>3. Counts(hist_clone)'
      BY <2>1, <3>1 DEF Counts
    <3>4. QED
      BY <2>1, <2>3, <3>1, <3>2, <3>3 DEF HistFollows, Clearing
  <2>7. QED
    BY <2>4, <2>5, <2>6
<1>2. CASE ClearData
  <2>1. /\ hpc = "clear_data" /\ hpc' = "clear_min" /\ UNCHANGED <<taken, hist_clone>>
        /\ hist' = [hist EXCEPT !.data = NoBuckets]
        /\ UNCHANGED <<command_no, phase, report, requests, to_linux>>
        /\ UNCHANGED <<pc, sampling_running, histogram_enable>>
    BY <1>2 DEF ClearData, demoButHist, channelVars, clientVars
  <2>2. phase = "ack" /\ requests = <<Script[command_no]>> /\ Stage = 1 /\ command_no = 1
    BY <2>1, InHandler DEF HandlerFollows, Clearing
  <2>3. Stage' = 1
    BY <2>1, <2>2 DEF Stage
  <2>4. OneAtATime' /\ HandlerFollows'
    BY <2>1, <2>2 DEF OneAtATime, HandlerFollows, Clearing, Copying
  <2>5. SamplerFollows' /\ TakenFollows'
    BY <2>1, <2>2, <2>3 DEF SamplerFollows, Quiet, TakenFollows
  <2>6. HistFollows'
    <3>1. /\ hist \in HistType /\ hist_clone \in HistType /\ Counts(hist_clone)
          /\ hist.sample_count = 0 /\ hist.out_count = 0 /\ taken = 0
      BY <2>1, <2>2 DEF HistFollows, Clearing, TakenFollows
    <3>2. /\ hist' \in HistType /\ hist'.sample_count = 0 /\ hist'.out_count = 0
          /\ hist'.data = NoBuckets
      BY <2>1, <3>1 DEF HistType, NoBuckets
    <3>3. Counts(hist_clone)'
      BY <2>1, <3>1 DEF Counts
    <3>4. QED
      BY <2>1, <2>3, <3>1, <3>2, <3>3 DEF HistFollows, Clearing
  <2>7. QED
    BY <2>4, <2>5, <2>6
<1>3. CASE ClearMin
  <2>1. /\ hpc = "clear_min" /\ hpc' = "ack" /\ UNCHANGED <<taken, hist_clone>>
        /\ hist' = [hist EXCEPT !.min = InvalidMin]
        /\ UNCHANGED <<command_no, phase, report, requests, to_linux>>
        /\ UNCHANGED <<pc, sampling_running, histogram_enable>>
    BY <1>3 DEF ClearMin, demoButHist, channelVars, clientVars
  <2>2. phase = "ack" /\ requests = <<Script[command_no]>> /\ Stage = 1 /\ command_no = 1
    BY <2>1, InHandler DEF HandlerFollows, Clearing
  <2>3. Stage' = 1
    BY <2>1, <2>2 DEF Stage
  <2>4. OneAtATime' /\ HandlerFollows'
    BY <2>1, <2>2 DEF OneAtATime, HandlerFollows, Clearing, Copying
  <2>5. SamplerFollows' /\ TakenFollows'
    BY <2>1, <2>2, <2>3 DEF SamplerFollows, Quiet, TakenFollows
  <2>6. HistFollows'
    <3>1. /\ hist \in HistType /\ hist_clone \in HistType /\ Counts(hist_clone)
          /\ hist.sample_count = 0 /\ hist.out_count = 0 /\ taken = 0
          /\ hist.data = NoBuckets
      BY <2>1, <2>2 DEF HistFollows, Clearing, TakenFollows
    <3>2. /\ hist' \in HistType /\ hist'.sample_count = 0 /\ hist'.out_count = 0
          /\ hist'.data = NoBuckets
      BY <2>1, <3>1, HistogramAssumption DEF HistType
    <3>3. \A b \in Buckets : NoBuckets[b] = 0
      BY DEF NoBuckets
    <3>4. SumOver(NoBuckets, Buckets) = 0
      BY <3>3, BucketsFinite, SumOfZeros
    <3>5. Counts(hist)' /\ Counts(hist_clone)'
      BY <2>1, <3>1, <3>2, <3>4 DEF Counts
    <3>6. QED
      BY <2>1, <2>3, <3>1, <3>2, <3>5 DEF HistFollows, Clearing
  <2>7. QED
    BY <2>4, <2>5, <2>6
<1>4. QED
  BY <1>1, <1>2, <1>3

\* START finds the sampler quiet, STOP finds it sampling.
LEMMA SetEnableReport ==
  ASSUME IInv, ReportInv, SetEnable, UNCHANGED clientVars
  PROVE  ReportInv'
<1> USE DEF ReportInv
<1>1. PICK cmd \in {"START", "STOP", "QUIT"} :
        /\ hpc = "wait" /\ Request(cmd)
        /\ histogram_enable' = IF cmd = "START" THEN 1 ELSE 0
  BY DEF SetEnable
<1>2. /\ hpc' = "ack" /\ UNCHANGED <<taken, hist, hist_clone, pc, sampling_running>>
      /\ UNCHANGED <<command_no, phase, report, requests, to_linux>>
  BY DEF SetEnable, histVars, channelVars, clientVars
<1>3. /\ phase = "ack" /\ requests = <<Script[command_no]>> /\ to_linux = <<>>
      /\ cmd = Script[command_no] /\ Stage = command_no - 1 /\ command_no \in 1 .. 5
  BY <1>1, AtCommand, StageIs
<1>4. Stage' = command_no
  BY <1>2, <1>3 DEF Stage
<1>5. \/ cmd = "START" /\ command_no = 2
      \/ cmd = "STOP" /\ command_no = 3
  BY <1>3, CommandOf
<1>6. OneAtATime' /\ HandlerFollows'
  BY <1>2, <1>3, <1>5 DEF OneAtATime, HandlerFollows, Clearing, Copying
<1>7. TakenFollows'
  BY <1>2, <1>3, <1>4, <1>5 DEF TakenFollows
<1>8. HistFollows'
  BY <1>1, <1>2, <1>3, <1>4, <1>5 DEF HistFollows, Clearing, Counts
<1>9. SamplerFollows'
  <2>1. CASE cmd = "START"
    BY <1>1, <1>2, <1>3, <1>4, <1>5, <2>1
       DEF SamplerFollows, TakenFollows, Quiet, StopLabels
  <2>2. CASE cmd = "STOP"
    <3>1. Sampling /\ pc # "lock"
      BY <1>3, <1>5, <2>2
         DEF SamplerFollows, TakenFollows, Sampling, StopLabels, ArmLabels
    <3>2. Sampling'
      BY <3>1, <1>2 DEF Sampling
    <3>3. QED
      BY <1>1, <1>2, <1>4, <1>5, <2>2, <3>1, <3>2 DEF SamplerFollows
  <2>3. QED
    BY <1>5, <2>1, <2>2
<1>10. QED
  BY <1>6, <1>7, <1>8, <1>9

\* CLONE gets the semaphore only from a sampler that has stopped, and the copy is of
\* a histogram at rest.
LEMMA CloneReport ==
  ASSUME IInv, ReportInv, CloneLock \/ CopyCounters \/ CopyData \/ CloneUnlock,
         UNCHANGED clientVars
  PROVE  ReportInv'
<1> USE DEF ReportInv
<1>1. CASE CloneLock
  <2>1. /\ hpc = "wait" /\ Request("CLONE") /\ hpc' = "copy_counters"
        /\ wait_for_clone = 1 /\ UNCHANGED <<taken, hist, hist_clone>>
        /\ UNCHANGED <<command_no, phase, report, requests, to_linux>>
        /\ UNCHANGED <<pc, sampling_running, histogram_enable>>
    BY <1>1 DEF CloneLock, histVars, channelVars, clientVars
  <2>2. phase = "ack" /\ requests = <<Script[command_no]>> /\ Stage = 3 /\ command_no = 4
    BY <2>1, AtCommand, CommandOf, StageIs
  <2>3. Stage' = 4
    BY <2>1, <2>2 DEF Stage
  <2>4. OneAtATime' /\ HandlerFollows'
    BY <2>1, <2>2 DEF OneAtATime, HandlerFollows, Clearing, Copying
  <2>5. Quiet
    BY <2>1, <2>2 DEF SamplerFollows, IInv, CloneTakenOnce
  <2>6. SamplerFollows' /\ TakenFollows'
    BY <2>1, <2>2, <2>3, <2>5 DEF SamplerFollows, Quiet, TakenFollows
  <2>7. HistFollows'
    BY <2>1, <2>3 DEF HistFollows, Clearing, Counts
  <2>8. QED
    BY <2>4, <2>6, <2>7
<1>2. CASE CopyCounters
  <2>1. /\ hpc = "copy_counters" /\ hpc' = "copy_data" /\ UNCHANGED <<taken, hist>>
        /\ hist_clone' = [hist EXCEPT !.data = hist_clone.data]
        /\ UNCHANGED <<command_no, phase, report, requests, to_linux>>
        /\ UNCHANGED <<pc, sampling_running, histogram_enable>>
    BY <1>2 DEF CopyCounters, demoButHist, channelVars, clientVars
  <2>2. phase = "ack" /\ requests = <<Script[command_no]>> /\ Stage = 4 /\ command_no = 4
    BY <2>1, InHandler DEF HandlerFollows, Copying
  <2>3. Stage' = 4
    BY <2>1, <2>2 DEF Stage
  <2>4. OneAtATime' /\ HandlerFollows'
    BY <2>1, <2>2 DEF OneAtATime, HandlerFollows, Clearing, Copying
  <2>5. SamplerFollows' /\ TakenFollows'
    BY <2>1, <2>2, <2>3 DEF SamplerFollows, Quiet, TakenFollows
  <2>6. HistFollows'
    <3>1. hist \in HistType /\ hist_clone \in HistType /\ Counts(hist)
          /\ hist.sample_count = taken
      BY <2>1 DEF HistFollows, Clearing
    <3>2. /\ hist_clone' \in HistType
          /\ hist_clone'.data = hist_clone.data
      BY <2>1, <3>1 DEF HistType
    <3>3. hist_clone' = [hist EXCEPT !.data = hist_clone'.data]
      BY <2>1, <3>2
    <3>4. Counts(hist)'
      BY <2>1, <3>1 DEF Counts
    <3>5. QED
      BY <2>1, <2>3, <3>1, <3>2, <3>3, <3>4 DEF HistFollows, Clearing
  <2>7. QED
    BY <2>4, <2>5, <2>6
<1>3. CASE CopyData
  <2>1. /\ hpc = "copy_data" /\ hpc' = "clone_unlock" /\ UNCHANGED <<taken, hist>>
        /\ hist_clone' = [hist_clone EXCEPT !.data = hist.data]
        /\ UNCHANGED <<command_no, phase, report, requests, to_linux>>
        /\ UNCHANGED <<pc, sampling_running, histogram_enable>>
    BY <1>3 DEF CopyData, demoButHist, channelVars, clientVars
  <2>2. phase = "ack" /\ requests = <<Script[command_no]>> /\ Stage = 4 /\ command_no = 4
    BY <2>1, InHandler DEF HandlerFollows, Copying
  <2>3. Stage' = 4
    BY <2>1, <2>2 DEF Stage
  <2>4. OneAtATime' /\ HandlerFollows'
    BY <2>1, <2>2 DEF OneAtATime, HandlerFollows, Clearing, Copying
  <2>5. SamplerFollows' /\ TakenFollows'
    BY <2>1, <2>2, <2>3 DEF SamplerFollows, Quiet, TakenFollows
  <2>6. HistFollows'
    <3>1. /\ hist \in HistType /\ hist_clone \in HistType /\ Counts(hist)
          /\ hist.sample_count = taken
          /\ hist_clone = [hist EXCEPT !.data = hist_clone.data]
      BY <2>1 DEF HistFollows, Clearing
    <3>2. hist_clone' = hist
      BY <2>1, <3>1 DEF HistType
    <3>3. Counts(hist)' /\ Counts(hist_clone)'
      BY <2>1, <3>1, <3>2 DEF Counts
    <3>4. QED
      BY <2>1, <2>3, <3>1, <3>2, <3>3 DEF HistFollows, Clearing
  <2>7. QED
    BY <2>4, <2>5, <2>6
<1>4. CASE CloneUnlock
  <2>1. /\ hpc = "clone_unlock" /\ hpc' = "ack" /\ UNCHANGED <<taken, hist, hist_clone>>
        /\ UNCHANGED <<command_no, phase, report, requests, to_linux>>
        /\ UNCHANGED <<pc, sampling_running, histogram_enable>>
    BY <1>4 DEF CloneUnlock, histVars, channelVars, clientVars
  <2>2. phase = "ack" /\ requests = <<Script[command_no]>> /\ Stage = 4 /\ command_no = 4
    BY <2>1, InHandler DEF HandlerFollows, Copying
  <2>3. Stage' = 4
    BY <2>1, <2>2 DEF Stage
  <2>4. OneAtATime' /\ HandlerFollows'
    BY <2>1, <2>2 DEF OneAtATime, HandlerFollows, Clearing, Copying
  <2>5. SamplerFollows' /\ TakenFollows'
    BY <2>1, <2>2, <2>3 DEF SamplerFollows, Quiet, TakenFollows
  <2>6. HistFollows'
    BY <2>1, <2>2, <2>3 DEF HistFollows, Clearing, Counts
  <2>7. QED
    BY <2>4, <2>5, <2>6
<1>5. QED
  BY <1>1, <1>2, <1>3, <1>4

\* The acknowledgement, and for GET the copy, are the only messages to Linux.
LEMMA AnswerReport ==
  ASSUME ReportInv, Get \/ Acknowledge, UNCHANGED clientVars
  PROVE  ReportInv'
<1> USE DEF ReportInv
<1>1. CASE Get
  <2>1. /\ hpc = "wait" /\ Request("GET") /\ hpc' = "ack"
        /\ UNCHANGED <<taken, hist, hist_clone>>
        /\ UNCHANGED <<command_no, phase, report, requests, to_linux>>
        /\ UNCHANGED <<pc, sampling_running, histogram_enable>>
    BY <1>1 DEF Get, demoButHist, histVars, channelVars, clientVars
  <2>2. phase = "ack" /\ requests = <<Script[command_no]>> /\ Stage = 4 /\ command_no = 5
    BY <2>1, AtCommand, CommandOf, StageIs
  <2>3. Stage' = 5
    BY <2>1, <2>2 DEF Stage
  <2>4. OneAtATime' /\ HandlerFollows'
    BY <2>1, <2>2 DEF OneAtATime, HandlerFollows, Clearing, Copying
  <2>5. SamplerFollows' /\ TakenFollows'
    BY <2>1, <2>2, <2>3 DEF SamplerFollows, Quiet, TakenFollows
  <2>6. HistFollows'
    BY <2>1, <2>2, <2>3 DEF HistFollows, Clearing, Counts
  <2>7. QED
    BY <2>4, <2>5, <2>6
<1>2. CASE Acknowledge
  <2>1. /\ hpc = "ack" /\ hpc' = "wait" /\ UNCHANGED <<taken, hist, hist_clone>>
        /\ UNCHANGED <<command_no, phase, report>> /\ requests' = Tail(requests)
        /\ to_linux' = to_linux \o
              (IF Request("GET") THEN <<Ack("GET"), Data(hist_clone)>>
                                 ELSE <<Ack(Head(requests))>>)
        /\ UNCHANGED <<pc, sampling_running, histogram_enable>>
    BY <1>2 DEF Acknowledge, demoButHist, histVars, clientVars
  <2>2. /\ phase = "ack" /\ requests = <<Script[command_no]>> /\ to_linux = <<>>
        /\ Stage = command_no /\ command_no \in 1 .. 5
    BY <2>1, InHandler, StageIs
  <2>3. requests' = <<>> /\ Head(requests) = Script[command_no] /\ requests # <<>>
    BY <2>1, <2>2
  <2>4. Stage' = Stage
    BY <2>1, <2>2, <2>3 DEF Stage
  <2>5. to_linux' = IF command_no = 5 THEN <<Ack("GET"), Data(hist_clone)>>
                                     ELSE <<Ack(Script[command_no])>>
    <3>1. Request("GET") <=> command_no = 5
      BY <2>2, <2>3, CommandOf, ScriptIs DEF Request
    <3>2. QED
      BY <2>1, <2>2, <2>3, <3>1
  <2>6. OneAtATime' /\ HandlerFollows'
    BY <2>1, <2>2, <2>3, <2>5 DEF OneAtATime, HandlerFollows, Clearing, Copying
  <2>7. SamplerFollows'
    BY <2>1, <2>2, <2>4, StageIs, SamplerOf
  <2>8. TakenFollows'
    BY <2>1, <2>4 DEF TakenFollows
  <2>9. HistFollows'
    BY <2>1, <2>4 DEF HistFollows, Clearing, Counts
  <2>10. QED
    BY <2>6, <2>7, <2>8, <2>9
<1>3. QED
  BY <1>1, <1>2

\* latencystat's steps change only the channel and its own state; STOP waits until
\* there are samples.
LEMMA ClientReport ==
  ASSUME NobodyKilled, ReportInv, ClientStep
  PROVE  ReportInv'
<1> USE DEF ReportInv
<1>1. UNCHANGED <<pc, hpc, sampling_running, histogram_enable, taken, hist, hist_clone>>
  BY ClientLeavesDemo DEF demoVars, histVars
<1>2. command_no \in 1 .. 5 /\ Stage \in 0 .. 5
  BY StageIs
<1>3. ASSUME OneAtATime', Stage' = Stage,
             command_no' \in {3, 4, 5} /\ ~ (command_no' = 3 /\ phase' = "write") => taken > 0,
             HandlerFollows'
      PROVE  ReportInv'
  <2>1. SamplerFollows'
    BY <1>1, <1>2, <1>3, SamplerOf
  <2>2. TakenFollows'
    BY <1>1, <1>3 DEF TakenFollows
  <2>3. HistFollows'
    BY <1>1, <1>3 DEF HistFollows, Counts
  <2>4. QED
    BY <1>3, <2>1, <2>2, <2>3
<1>4. CASE ClientSend
  <2>1. /\ phase = "write" /\ requests' = Append(requests, Script[command_no])
        /\ phase' = "ack" /\ UNCHANGED <<command_no, report, to_linux>>
        /\ Script[command_no] = "STOP" => taken > 0
    BY <1>4 DEF ClientSend, SendCommand, Slept
  <2>2. requests = <<>> /\ to_linux = <<>> /\ hpc = "wait"
    BY <2>1 DEF OneAtATime
  <2>3. requests' = <<Script[command_no]>>
    BY <2>1, <2>2
  <2>4. OneAtATime' /\ HandlerFollows'
    BY <1>1, <2>1, <2>2, <2>3 DEF OneAtATime, HandlerFollows, Clearing, Copying
  <2>5. Stage' = Stage
    BY <1>1, <2>1, <2>2, <2>3 DEF Stage
  <2>6. command_no \in {3, 4, 5} => taken > 0
    BY <2>1, ScriptIs DEF TakenFollows
  <2>7. QED
    BY <1>3, <2>1, <2>4, <2>5, <2>6
<1>5. CASE ReadAck
  <2>1. /\ phase = "ack" /\ to_linux # <<>> /\ to_linux' = Tail(to_linux)
        /\ UNCHANGED <<report, requests>>
    BY <1>5 DEF ReadAck
  <2>2. requests = <<>> /\ hpc = "wait" /\ Stage = command_no
    BY <2>1 DEF OneAtATime, Stage
  <2>3. to_linux = IF command_no = 5 THEN <<Ack("GET"), Data(hist_clone)>>
                                    ELSE <<Ack(Script[command_no])>>
    BY <2>1, <2>2 DEF OneAtATime
  <2>4. Head(to_linux) = Ack(Script[command_no])
    BY <2>3, ScriptIs
  <2>5. CASE command_no < 5
    <3>1. command_no' = command_no + 1 /\ phase' = "write"
      BY <1>5, <2>4, <2>5, ScriptIs DEF ReadAck
    <3>2. to_linux' = <<>>
      BY <2>1, <2>3, <2>5
    <3>3. OneAtATime' /\ HandlerFollows'
      BY <1>1, <1>2, <2>1, <2>2, <2>5, <3>1, <3>2
         DEF OneAtATime, HandlerFollows, Clearing, Copying
    <3>4. Stage' = Stage
      BY <1>2, <2>2, <3>1 DEF Stage
    <3>5. command_no' \in {4, 5} => taken > 0
      BY <1>2, <2>1, <3>1 DEF TakenFollows
    <3>6. QED
      BY <1>3, <3>1, <3>3, <3>4, <3>5
  <2>6. CASE command_no = 5
    <3>1. UNCHANGED command_no /\ phase' = "data"
      BY <1>5, <2>4, <2>6, ScriptIs DEF ReadAck
    <3>2. to_linux' = <<Data(hist_clone)>>
      BY <2>1, <2>3, <2>6
    <3>3. OneAtATime' /\ HandlerFollows'
      BY <1>1, <2>1, <2>2, <2>6, <3>1, <3>2
         DEF OneAtATime, HandlerFollows, Clearing, Copying
    <3>4. Stage' = Stage
      BY <1>1, <2>1, <2>2, <3>1 DEF Stage
    <3>5. taken > 0
      BY <2>1, <2>6 DEF TakenFollows
    <3>6. QED
      BY <1>3, <3>3, <3>4, <3>5
  <2>7. QED
    BY <1>2, <2>5, <2>6
<1>6. CASE ReadResponse
  <2>1. /\ phase = "data" /\ to_linux' = Tail(to_linux) /\ report' = <<Head(to_linux)>>
        /\ phase' = "print" /\ UNCHANGED <<command_no, requests>>
    BY <1>6 DEF ReadResponse
  <2>2. /\ command_no = 5 /\ requests = <<>> /\ hpc = "wait" /\ to_linux = <<Data(hist_clone)>>
    BY <2>1 DEF OneAtATime
  <2>3. to_linux' = <<>> /\ report' = <<Data(hist_clone)>>
    BY <2>1, <2>2
  <2>4. OneAtATime' /\ HandlerFollows'
    BY <1>1, <2>1, <2>2, <2>3 DEF OneAtATime, HandlerFollows, Clearing, Copying
  <2>5. Stage' = Stage
    BY <1>1, <2>1, <2>2 DEF Stage
  <2>6. taken > 0
    BY <2>1, <2>2 DEF TakenFollows
  <2>7. QED
    BY <1>3, <2>4, <2>5, <2>6
<1>7. CASE Restart
  <2>1. /\ phase = "print" /\ command_no' = 1 /\ phase' = "write"
        /\ UNCHANGED <<requests, to_linux>>
    BY <1>7 DEF Restart, StartOver
  <2>2. command_no = 5 /\ requests = <<>> /\ to_linux = <<>> /\ hpc = "wait"
    BY <2>1 DEF OneAtATime
  <2>3. Stage = 5 /\ Stage' = 0
    BY <1>1, <2>1, <2>2 DEF Stage
  <2>4. OneAtATime' /\ HandlerFollows'
    BY <1>1, <2>1, <2>2 DEF OneAtATime, HandlerFollows, Clearing, Copying
  <2>5. SamplerFollows'
    BY <1>1, <2>3 DEF SamplerFollows, Quiet
  <2>6. TakenFollows'
    BY <1>1, <2>1, <2>3 DEF TakenFollows
  <2>7. HistFollows'
    BY <1>1, <2>2, <2>3 DEF HistFollows, Clearing, Counts
  <2>8. QED
    BY <2>4, <2>5, <2>6, <2>7
<1>8. ~ Kill
  BY DEF Kill, NobodyKilled
<1>9. QED
  BY <1>4, <1>5, <1>6, <1>7, <1>8 DEF ClientStep

LEMMA ReportInvStep ==
  ASSUME NobodyKilled, NoEdge
  PROVE  IInv /\ ReportInv /\ [Next]_vars => ReportInv'
<1> SUFFICES ASSUME IInv, ReportInv, [Next]_vars PROVE ReportInv'
  OBVIOUS
<1>1. CASE DemoNext /\ UNCHANGED clientVars
  <2>1. CASE Overflow \/ \E v \in Values : irq70_ttc(v)
    BY <1>1, <2>1, TimerReport
  <2>2. CASE task_latency
    BY <1>1, <2>2, SamplerReport
  <2>3. CASE message_handler
    BY <1>1, <2>3, ClearReport, SetEnableReport, CloneReport, AnswerReport
       DEF message_handler
  <2>4. QED
    BY <1>1, <2>1, <2>2, <2>3 DEF DemoNext
<1>2. CASE ClientStep
  BY <1>2, ClientReport
<1>3. CASE UNCHANGED vars
  <2>1. /\ UNCHANGED <<channelState, hist, hist_clone, taken>>
        /\ UNCHANGED <<pc, sampling_running, histogram_enable>>
    BY <1>3 DEF vars, demoVars, histVars, clientVars, channelVars, channelState
  <2>2. OneAtATime' /\ HandlerFollows' /\ TakenFollows' /\ HistFollows' /\ Stage' = Stage
    BY <2>1, FrameChannel, FrameHist DEF ReportInv
  <2>3. SamplerFollows'
    BY <2>1, <2>2, StageIs, SamplerOf DEF ReportInv
  <2>4. QED
    BY <2>2, <2>3 DEF ReportInv
<1>4. QED
  BY <1>1, <1>2, <1>3 DEF Next

LEMMA ReportInvHolds ==
  ASSUME NobodyKilled, NoEdge
  PROVE  Spec => []ReportInv
<1>1. IInv /\ ReportInv /\ [Next]_vars => ReportInv'
  BY ReportInvStep
<1>2. QED
  BY <1>1, ReportInvInit, IInvHolds, PTL DEF Spec

\* The copy that message_handler sends is a consistent histogram whenever it is not
\* being made (latencydemo.c 306-330), if no client is killed and no value is equal
\* to HISTOGRAM_SIZE: both are needed, as runs latency_clear and latency_edge show.
THEOREM SnapshotIsConsistent ==
  ASSUME NobodyKilled, NoEdge
  PROVE  Spec => []SnapshotConsistent
<1>1. ReportInv => SnapshotConsistent
  BY CountsIsConsistent DEF ReportInv, HistFollows, SnapshotConsistent
<1>2. QED
  BY <1>1, ReportInvHolds, PTL

\* latencystat prints the histogram of every sample taken since its CLEAR, at least
\* one and those after STOP included (latencystat.c 62-98, 126-132): the commands keep
\* their order, CLONE waits for the sampler to stop, and no sample comes after its copy.
THEOREM ReportIsComplete ==
  ASSUME NobodyKilled, NoEdge
  PROVE  Spec => []ReportComplete
<1>1. ASSUME ReportInv, phase = "print"
      PROVE  /\ report[1].kind = "DATA"
             /\ report[1].body.sample_count = taken
             /\ report[1].body.sample_count > 0
             /\ Consistent(report[1].body)
  <2>1. /\ report = <<Data(hist_clone)>> /\ command_no = 5 /\ requests = <<>>
        /\ hpc = "wait"
    BY <1>1 DEF ReportInv, OneAtATime
  <2>2. Stage = 5
    BY <1>1, <2>1 DEF Stage
  <2>3. hist_clone = hist /\ hist.sample_count = taken /\ Counts(hist_clone)
    BY <1>1, <2>1, <2>2 DEF ReportInv, HistFollows
  <2>4. taken > 0
    BY <1>1, <2>1 DEF ReportInv, TakenFollows
  <2>5. report[1].kind = "DATA" /\ report[1].body = hist_clone
    BY <2>1 DEF Data
  <2>6. QED
    BY <2>3, <2>4, <2>5, CountsIsConsistent
<1>2. ReportInv => ReportComplete
  BY <1>1 DEF ReportComplete
<1>3. QED
  BY <1>2, ReportInvHolds, PTL

\* Outside CLEAR every sample is in a bucket or counted as out of range
\* (latencydemo.c 127-146), if no value is equal to HISTOGRAM_SIZE and no client is
\* killed.
THEOREM EverySampleIsCounted ==
  ASSUME NobodyKilled, NoEdge
  PROVE  Spec => []EverySampleCounted
<1>1. ReportInv => EverySampleCounted
  BY CountsIsConsistent DEF ReportInv, HistFollows, EverySampleCounted, Clearing
<1>2. QED
  BY <1>1, ReportInvHolds, PTL

-------------------------------------------------------------------------------
(* The graph *)

ZeroRows == [r \in 1 .. buckets |-> 0]
TickSeq(size) == [k \in 1 .. size |-> k - 1]

\* The samples of bucket i go into its row.
RowStep(data, rows, i) ==
  IF data[i] # 0 /\ RowOf(i) <= buckets
  THEN [rows EXCEPT ![RowOf(i)] = @ + data[i]] ELSE rows

RowIter(data, size) ==
  CHOOSE iter : iter = [s \in SUBSET DOMAIN TickSeq(size) |->
                          IF s = {} THEN ZeroRows
                          ELSE RowStep(data, iter[s \ {Max(s)}], TickSeq(size)[Max(s)])]

LEMMA RowsUnfolds ==
  ASSUME NEW data, NEW size
  PROVE  Rows(data, size) = RowIter(data, size)[DOMAIN TickSeq(size)]
BY DEF Rows, FoldLeft, MapThenFoldSet, RowIter, RowStep, ZeroRows, TickSeq

LEMMA Divides ==
  ASSUME NEW a \in Nat, NEW b \in Nat \ {0}
  PROVE  /\ a \div b \in Nat
         /\ (a \div b) * b <= a /\ a < (a \div b + 1) * b
OBVIOUS

LEMMA Rest ==
  ASSUME NEW a \in Nat, NEW b \in Nat \ {0}
  PROVE  a % b = a - (a \div b) * b
OBVIOUS

LEMMA TimesMonotone ==
  ASSUME NEW a \in Int, NEW c \in Int, NEW b \in Nat \ {0}, a <= c
  PROVE  a * b <= c * b
OBVIOUS

\* A bucket's row is the one whose range of time has its time.
LEMMA RowOfIs ==
  ASSUME NEW i \in Nat
  PROVE  /\ RowOf(i) \in Nat \ {0}
         /\ \A r \in Nat \ {0} :
              RowOf(i) = r <=> /\ (r - 1) * bucket_value <= CLK_TIME_NSEC(i)
                               /\ CLK_TIME_NSEC(i) < r * bucket_value
<1> DEFINE a == CLK_TIME_NSEC(i)
           q == a \div bucket_value
<1>1. bucket_value \in Nat \ {0} /\ NSEC \in Nat /\ CLK_FREQ \in Nat \ {0}
  BY GraphAssumption
<1>2. a \in Nat
  <2>1. i * NSEC \in Nat
    BY <1>1
  <2>2. QED
    BY <1>1, <2>1, Divides DEF CLK_TIME_NSEC
<1>3. q \in Nat /\ q * bucket_value <= a /\ a < (q + 1) * bucket_value
  BY <1>1, <1>2, Divides
<1>4. RowOf(i) = q + 1
  BY DEF RowOf
<1> HIDE DEF a, q
<1>5. ASSUME NEW r \in Nat \ {0}, (r - 1) * bucket_value <= a, a < r * bucket_value
      PROVE  r = q + 1
  <2>1. CASE r <= q
    <3>1. r * bucket_value <= q * bucket_value
      BY <1>1, <1>3, <2>1, TimesMonotone
    <3>2. r * bucket_value \in Int /\ q * bucket_value \in Int
      BY <1>1, <1>3
    <3>3. QED
      BY <1>2, <1>3, <1>5, <3>1, <3>2
  <2>2. CASE q + 1 <= r - 1
    <3>1. (q + 1) * bucket_value <= (r - 1) * bucket_value
      BY <1>1, <1>3, <2>2, TimesMonotone
    <3>2. (q + 1) * bucket_value \in Int /\ (r - 1) * bucket_value \in Int
      BY <1>1, <1>3
    <3>3. QED
      BY <1>2, <1>3, <1>5, <3>1, <3>2
  <2>3. QED
    BY <1>3, <2>1, <2>2
<1>6. q + 1 - 1 = q
  BY <1>3
<1>7. ASSUME NEW r \in Nat \ {0}
      PROVE  r = q + 1 <=> (r - 1) * bucket_value <= a /\ a < r * bucket_value
  BY <1>3, <1>5, <1>6
<1>8. QED
  BY <1>3, <1>4, <1>7 DEF a

\* Each row of the graph has the samples of its buckets.
LEMMA RowsAreSums ==
  ASSUME NEW data \in [Buckets -> Nat], NEW r \in 1 .. buckets
  PROVE  /\ Rows(data, HISTOGRAM_SIZE) \in [1 .. buckets -> Nat]
         /\ Rows(data, HISTOGRAM_SIZE)[r] = SumOver(data, {i \in Buckets : RowOf(i) = r})
<1> DEFINE n == HISTOGRAM_SIZE
           ticks == TickSeq(n)
           R == [1 .. buckets -> Nat]
           G == [p \in Buckets \X R |-> RowStep(data, p[2], p[1])]
           g == RowIter(data, n)
           Step(iter) == [s \in SUBSET DOMAIN ticks |->
                            IF s = {} THEN ZeroRows
                            ELSE RowStep(data, iter[s \ {Max(s)}], ticks[Max(s)])]
<1>1. n \in Nat /\ buckets \in Nat
  BY HistogramAssumption, GraphAssumption
<1>2. ticks \in [1 .. n -> Buckets] /\ ZeroRows \in R
  BY <1>1 DEF TickSeq, Buckets, ZeroRows
<1>3. ASSUME NEW i \in Buckets, NEW rows \in R
      PROVE  RowStep(data, rows, i) \in R
  <2>1. i \in Nat
    BY <1>1 DEF Buckets
  <2>2. RowOf(i) \in Nat \ {0}
    BY <2>1, RowOfIs
  <2>3. CASE data[i] # 0 /\ RowOf(i) <= buckets
    <3>1. RowOf(i) \in 1 .. buckets
      BY <2>2, <2>3, <1>1
    <3>2. rows[RowOf(i)] + data[i] \in Nat
      BY <3>1
    <3>3. [rows EXCEPT ![RowOf(i)] = @ + data[i]] \in R
      BY <3>1, <3>2
    <3>4. QED
      BY <2>3, <3>3 DEF RowStep
  <2>4. CASE ~ (data[i] # 0 /\ RowOf(i) <= buckets)
    BY <2>4 DEF RowStep
  <2>5. QED
    BY <2>3, <2>4
<1>4. G \in [Buckets \X R -> R]
  BY <1>3
<1>5. \A i \in Buckets, rows \in R : G[<<i, rows>>] = RowStep(data, rows, i)
  OBVIOUS
<1> HIDE DEF G, R
<1>6. PICK k \in [SUBSET (1 .. n) -> R] : LastFolds(k, ticks, n, ZeroRows, G)
  BY <1>1, <1>2, <1>4, LastFirst
<1>7. DOMAIN ticks = 1 .. n
  BY DEF TickSeq
<1>8. k = Step(k)
  <2>1. ASSUME NEW s \in SUBSET (1 .. n)
        PROVE  k[s] = IF s = {} THEN ZeroRows
                      ELSE RowStep(data, k[s \ {Max(s)}], ticks[Max(s)])
    <3>1. CASE s = {}
      BY <1>6, <3>1 DEF LastFolds
    <3>2. CASE s # {}
      <4>1. Max(s) \in 1 .. n
        BY <1>1, <3>2, MaxIsLast
      <4>2. ticks[Max(s)] \in Buckets /\ k[s \ {Max(s)}] \in R
        BY <1>2, <4>1
      <4>3. k[s] = G[<<ticks[Max(s)], k[s \ {Max(s)}]>>]
        BY <1>6, <3>2 DEF LastFolds
      <4>4. QED
        BY <1>5, <3>2, <4>2, <4>3
    <3>3. QED
      BY <3>1, <3>2
  <2>2. QED
    BY <1>7, <2>1
<1>9. g = Step(g)
  BY <1>8 DEF RowIter
<1> HIDE DEF g, ticks
<1>10. \A s \in SUBSET (1 .. n) :
         g[s] = IF s = {} THEN ZeroRows
                ELSE RowStep(data, g[s \ {Max(s)}], ticks[Max(s)])
  BY <1>7, <1>9
<1> DEFINE In(m) == {i \in 0 .. m - 1 : RowOf(i) = r}
           T == {m \in Nat : m <= n => g[1 .. m] \in R /\ g[1 .. m][r] = SumOver(data, In(m))}
<1>11. 0 \in T
  <2>1. 1 .. 0 = {} /\ In(0) = {}
    OBVIOUS
  <2>2. g[{}] = ZeroRows /\ ZeroRows[r] = 0
    BY <1>10 DEF ZeroRows
  <2>3. QED
    BY <1>2, <2>1, <2>2, SumOfNone
<1>12. ASSUME NEW m \in Nat, m \in T PROVE m + 1 \in T
  <2> SUFFICES ASSUME m + 1 <= n
               PROVE  g[1 .. m + 1] \in R /\ g[1 .. m + 1][r] = SumOver(data, In(m + 1))
    OBVIOUS
  <2>1. /\ Max(1 .. m + 1) = m + 1 /\ (1 .. m + 1) \ {m + 1} = 1 .. m
        /\ 1 .. m + 1 \in SUBSET (1 .. n) /\ 1 .. m + 1 # {}
    <3>1. m + 1 \in 1 .. m + 1
      OBVIOUS
    <3>2. QED
      BY <1>1, <3>1, MaxIsLast
  <2>2. ticks[m + 1] = m /\ m \in Buckets
    BY <1>1 DEF ticks, TickSeq, Buckets
  <2> DEFINE rows == g[1 .. m]
  <2>3. rows \in R /\ rows[r] = SumOver(data, In(m))
    BY <1>12, <1>1
  <2>4. g[1 .. m + 1] = RowStep(data, rows, m)
    BY <1>10, <2>1, <2>2
  <2>5. RowStep(data, rows, m) \in R
    BY <1>3, <2>2, <2>3
  <2>6. In(m) \in SUBSET Buckets /\ In(m + 1) \in SUBSET Buckets
    BY <1>1 DEF Buckets
  <2>7. IsFiniteSet(In(m)) /\ IsFiniteSet(In(m + 1))
    BY <2>6, BucketsFinite, FS_Subset
  <2>8. NatValued(data, In(m)) /\ NatValued(data, In(m + 1))
    BY <2>6 DEF NatValued
  <2>9. RowStep(data, rows, m)[r] = SumOver(data, In(m + 1))
    <3>1. CASE RowOf(m) = r
      <4>1. m \in In(m + 1) /\ In(m + 1) \ {m} = In(m)
        BY <3>1
      <4>2. SumOver(data, In(m + 1)) = data[m] + SumOver(data, In(m))
        BY <2>7, <2>8, <4>1, SumTakesOut
      <4>3. data[m] \in Nat /\ SumOver(data, In(m)) \in Nat
        BY <2>2, <2>7, <2>8, SumIsNat
      <4>4. RowStep(data, rows, m)[r] = rows[r] + data[m]
        <5>1. RowOf(m) <= buckets
          BY <3>1, <1>1
        <5>2. CASE data[m] # 0
          BY <2>3, <3>1, <5>1, <5>2 DEF RowStep, R
        <5>3. CASE data[m] = 0
          BY <2>3, <4>3, <5>3 DEF RowStep
        <5>4. QED
          BY <5>2, <5>3
      <4> HIDE DEF rows, In
      <4>5. QED
        BY <2>3, <4>2, <4>3, <4>4
    <3>2. CASE RowOf(m) # r
      <4>1. In(m + 1) = In(m)
        BY <3>2
      <4>2. RowStep(data, rows, m)[r] = rows[r]
        BY <2>3, <3>2 DEF RowStep, R
      <4>3. QED
        BY <2>3, <4>1, <4>2
    <3>3. QED
      BY <3>1, <3>2
  <2>10. QED
    BY <2>4, <2>5, <2>9
<1> HIDE DEF T
<1>13. n \in T
  BY <1>1, <1>11, <1>12, SetInduction
<1>14. In(n) = {i \in Buckets : RowOf(i) = r}
  BY DEF Buckets
<1>15. Rows(data, n) = g[1 .. n]
  BY <1>7, RowsUnfolds DEF g, ticks
<1>16. g[1 .. n] \in R /\ g[1 .. n][r] = SumOver(data, In(n))
  BY <1>1, <1>13 DEF T
<1> HIDE DEF In, n
<1>17. QED
  BY <1>14, <1>15, <1>16 DEF R, n

\* A block of the graph stands for at most as many samples as it has eighths.  In the
\* code value_increment is 20 (latencystat.c 165), and haxis_value so 2.
AxisFine == haxis_value <= 8

\* The axis is long enough for value_max, and a value is so many full blocks and a
\* rest.
LEMMA AxisReaches ==
  ASSUME AxisFine, NEW v \in Nat, v <= value_max
  PROVE  /\ haxis_value \in 1 .. 8 /\ haxis_count \in Nat
         /\ v \div haxis_value \in Nat /\ v % haxis_value \in 0 .. haxis_value - 1
         /\ v = (v \div haxis_value) * haxis_value + (v % haxis_value)
         /\ v \div haxis_value <= haxis_count
         /\ v \div haxis_value = haxis_count => v % haxis_value = 0
<1> DEFINE h == haxis_value
           c == haxis_count
           q == v \div h
<1>1. h \in 1 .. 8
  BY GraphAssumption DEF AxisFine, haxis_value
<1>2. value_max \in Nat /\ value_max + h - 1 \in Nat
  BY <1>1, GraphAssumption
<1>3. c \in Nat /\ c * h <= value_max + h - 1 /\ value_max + h - 1 < (c + 1) * h
  BY <1>1, <1>2, Divides DEF haxis_count
<1>4. q \in Nat /\ q * h <= v /\ v < (q + 1) * h /\ v % h = v - q * h
  BY <1>1, Divides, Rest
<1> HIDE DEF h, c, q
<1>5. /\ c * h \in Int /\ q * h \in Int
      /\ (c + 1) * h = c * h + h /\ (q + 1) * h = q * h + h
  BY <1>1, <1>3, <1>4
<1>6. v % h \in 0 .. h - 1 /\ v = q * h + (v % h)
  BY <1>1, <1>4, <1>5
<1>7. q <= c
  <2>1. CASE c + 1 <= q
    <3>1. (c + 1) * h <= q * h
      BY <1>1, <1>3, <1>4, <2>1, TimesMonotone
    <3>2. QED
      BY <1>1, <1>2, <1>3, <1>4, <1>5, <3>1
  <2>2. QED
    BY <1>3, <1>4, <2>1
<1>8. ASSUME q = c PROVE v % h = 0
  BY <1>1, <1>2, <1>3, <1>4, <1>5, <1>8
<1>9. QED
  BY <1>1, <1>3, <1>4, <1>6, <1>7, <1>8 DEF h, c, q

LEMMA SmallerOf ==
  ASSUME NEW a \in Nat, NEW b \in Nat
  PROVE  Min({a, b}) = IF a <= b THEN a ELSE b
<1> DEFINE m == IF a <= b THEN a ELSE b
<1>1. m \in {a, b} /\ \A y \in {a, b} : m <= y
  OBVIOUS
<1>2. ASSUME NEW z \in {a, b}, \A y \in {a, b} : z <= y PROVE z = m
  BY <1>1, <1>2
<1>3. QED
  BY <1>1, <1>2 DEF Min

\* A bar is as long as eight eighths per full block and one per sample of the rest.
LEMMA BarLength ==
  ASSUME AxisFine, NEW v \in Nat, v <= value_max
  PROVE  Length(Bar(v)) = 8 * (v \div haxis_value) + (v % haxis_value)
<1> DEFINE h == haxis_value
           q == v \div h
           r == v % h
           n == Min({haxis_count, q + 1})
           bar == Bar(v)
<1>1. /\ h \in 1 .. 8 /\ haxis_count \in Nat /\ q \in Nat /\ r \in 0 .. h - 1
      /\ v = q * h + r /\ q <= haxis_count /\ (q = haxis_count => r = 0)
  BY AxisReaches
<1>2. n = IF haxis_count <= q + 1 THEN haxis_count ELSE q + 1
  BY <1>1, SmallerOf
<1>3. bar = [k \in 1 .. n |-> print_block(IF v >= k * h THEN 100
                                          ELSE (v - (k - 1) * h) * 10)]
  BY DEF Bar
<1> HIDE DEF h, q, r, n, bar
<1>4. ASSUME NEW k \in 1 .. q PROVE print_block(IF v >= k * h THEN 100
                                                ELSE (v - (k - 1) * h) * 10) = 8
  <2>1. k * h <= q * h /\ k * h \in Int /\ q * h \in Int
    BY <1>1, TimesMonotone
  <2>2. v >= k * h
    BY <1>1, <2>1
  <2>3. QED
    BY <2>2 DEF print_block
<1>5. print_block(IF v >= (q + 1) * h THEN 100 ELSE (v - (q + 1 - 1) * h) * 10) = r
  <2>1. (q + 1) * h = q * h + h /\ q + 1 - 1 = q /\ q * h \in Int
    BY <1>1
  <2>2. ~ (v >= (q + 1) * h) /\ v - (q + 1 - 1) * h = r
    BY <1>1, <2>1
  <2>3. ~ (r * 10 >= 80) /\ (r * 10) \div 10 = r
    BY <1>1
  <2>4. QED
    BY <2>2, <2>3 DEF print_block
<1>6. n \in Nat /\ (n = q \/ n = q + 1) /\ (n = q => r = 0)
  BY <1>1, <1>2
<1>7. \A k \in 1 .. q : k \in 1 .. n => bar[k] = 8
  BY <1>3, <1>4
<1>8. bar \in [1 .. n -> Nat] /\ (n = q + 1 => bar[q + 1] = r)
  <2>1. DOMAIN bar = 1 .. n /\ bar = [k \in 1 .. n |-> bar[k]]
    BY <1>3
  <2>2. n = q + 1 => bar[q + 1] = r
    BY <1>1, <1>3, <1>5, <1>6
  <2>3. ASSUME NEW k \in 1 .. n PROVE bar[k] \in Nat
    BY <1>1, <1>6, <1>7, <2>2
  <2>4. QED
    BY <2>1, <2>2, <2>3
<1>9. \A k \in 1 .. q : bar[k] = 8
  BY <1>1, <1>6, <1>7
<1>10. SumOver(bar, 1 .. q) = q * 8
  BY <1>1, <1>9, SumOfEquals
<1>11. Length(bar) = SumOver(bar, 1 .. n)
  BY <1>6, <1>8, SeqSum DEF Length
<1>12. SumOver(bar, 1 .. n) = 8 * q + r
  <2>1. CASE n = q
    BY <1>1, <1>6, <1>10, <2>1
  <2>2. CASE n = q + 1
    <3>1. IsFiniteSet(1 .. n) /\ NatValued(bar, 1 .. n)
      <4>1. n \in Int /\ 1 \in Int
        BY <1>6
      <4>2. QED
        BY <1>8, <4>1, FS_Interval DEF NatValued
    <3>2. q + 1 \in 1 .. n /\ (1 .. n) \ {q + 1} = 1 .. q /\ NatValued(bar, 1 .. n)
      BY <1>1, <2>2, <3>1
    <3>3. SumOver(bar, 1 .. n) = bar[q + 1] + SumOver(bar, (1 .. n) \ {q + 1})
      BY <3>1, <3>2, SumTakesOut
    <3>4. SumOver(bar, (1 .. n) \ {q + 1}) = q * 8
      BY <1>10, <3>2
    <3>5. bar[q + 1] = r /\ q * 8 = 8 * q /\ q * 8 \in Int /\ r \in Int
      BY <1>1, <1>8, <2>2
    <3>6. QED
      BY <3>3, <3>4, <3>5
  <2>3. QED
    BY <1>6, <2>1, <2>2
<1>13. QED
  BY <1>11, <1>12 DEF h, q, r, bar

\* The longer bar has more samples.
LEMMA LongerBar ==
  ASSUME AxisFine, NEW v \in Nat, NEW w \in Nat, v < w, w <= value_max
  PROVE  Length(Bar(v)) < Length(Bar(w))
<1> DEFINE h == haxis_value
           q == v \div h
           r == v % h
           p == w \div h
           s == w % h
<1>1. v <= value_max
  BY GraphAssumption
<1>2. Length(Bar(v)) = 8 * q + r /\ Length(Bar(w)) = 8 * p + s
  BY <1>1, BarLength
<1>3. /\ h \in 1 .. 8 /\ q \in Nat /\ r \in 0 .. h - 1 /\ v = q * h + r
      /\ p \in Nat /\ s \in 0 .. h - 1 /\ w = p * h + s
  BY <1>1, AxisReaches
<1> HIDE DEF h, q, r, p, s
<1>4. 8 * q + r < 8 * p + s
  <2>1. CASE q < p
    BY <1>3, <2>1
  <2>2. CASE q = p
    <3>1. q * h \in Int /\ q * h = p * h
      BY <1>3, <2>2
    <3>2. QED
      BY <1>3, <2>2, <3>1
  <2>3. CASE p < q
    <3>1. (p + 1) * h <= q * h /\ (p + 1) * h = p * h + h /\ p * h \in Int /\ q * h \in Int
      BY <1>3, <2>3, TimesMonotone
    <3>2. QED
      BY <1>3, <3>1
  <2>4. QED
    BY <1>3, <2>1, <2>2, <2>3
<1>5. QED
  BY <1>2, <1>4

\* The graph shows the report (latencystat.c 169-179, latencygraph.c 84-95): each row
\* has the samples of its range of time, and of two rows up to value_max the one with
\* more samples has the longer bar, as long as a block stands for at most 8 samples.
THEOREM GraphShowsTheReport ==
  ASSUME NobodyKilled, NoEdge, AxisFine
  PROVE  Spec => []GraphShowsReport
<1> DEFINE In(r) == {i \in Buckets : RowOf(i) = r}
           Within(r) == {i \in Buckets : /\ (r - 1) * bucket_value <= CLK_TIME_NSEC(i)
                                         /\ CLK_TIME_NSEC(i) < r * bucket_value}
<1>1. ASSUME NEW r \in 1 .. buckets PROVE Within(r) = In(r)
  <2>1. Buckets \subseteq Nat /\ r \in Nat \ {0}
    BY GraphAssumption, HistogramAssumption DEF Buckets
  <2>2. QED
    BY <2>1, RowOfIs
<1>2. ASSUME ReportInv, phase = "print"
      PROVE  LET data == report[1].body.data
                 rows == Rows(data, HISTOGRAM_SIZE)
             IN  /\ \A r \in 1 .. buckets : rows[r] = SumOver(data, Within(r))
                 /\ \A r, s \in 1 .. buckets :
                      rows[r] < rows[s] /\ rows[s] <= value_max =>
                        Length(Bar(rows[r])) < Length(Bar(rows[s]))
  <2> DEFINE data == report[1].body.data
             rows == Rows(data, HISTOGRAM_SIZE)
  <2>1. report = <<Data(hist_clone)>> /\ hist_clone \in HistType
    BY <1>2 DEF ReportInv, OneAtATime, HistFollows
  <2>2. data = hist_clone.data /\ hist_clone.data \in [Buckets -> Nat]
    BY <2>1 DEF Data, HistType
  <2>3. data \in [Buckets -> Nat]
    BY <2>2
  <2> HIDE DEF data
  <2>4. ASSUME NEW r \in 1 .. buckets
        PROVE  rows \in [1 .. buckets -> Nat] /\ rows[r] = SumOver(data, Within(r))
    BY <1>1, <2>3, RowsAreSums
  <2>5. ASSUME NEW r \in 1 .. buckets, NEW s \in 1 .. buckets,
               rows[r] < rows[s], rows[s] <= value_max
        PROVE  Length(Bar(rows[r])) < Length(Bar(rows[s]))
    <3>1. rows[r] \in Nat /\ rows[s] \in Nat
      BY <2>4
    <3> HIDE DEF rows
    <3>2. QED
      BY <2>5, <3>1, LongerBar
  <2>6. QED
    BY <2>4, <2>5 DEF data
<1>3. ReportInv => GraphShowsReport
  BY <1>2 DEF GraphShowsReport, SumOver
<1>4. QED
  BY <1>3, ReportInvHolds, PTL
===============================================================================
