----------------------------- MODULE LatencySystem -----------------------------
(***************************************************************************)
(* latencystat and the FreeRTOS application joined by the rpmsg channel.   *)
(***************************************************************************)
EXTENDS LatencyDemo, LatencyStat, LatencyGraph, FiniteSetsExt

vars == <<demoVars, clientVars, channelVars>>

Init == DemoInit /\ ClientInit /\ requests = <<>> /\ to_linux = <<>>

\* latencystat's sleep(10) between START and STOP outlasts many samples, each of
\* which takes less than a millisecond.
Slept == taken > 0

\* A command is written; STOP only after the sleep.
ClientSend ==
  /\ Script[command_no] = "STOP" => Slept
  /\ SendCommand
  /\ UNCHANGED demoVars

ClientStep ==
  \/ ClientSend
  \/ (ReadAck \/ ReadResponse) /\ UNCHANGED demoVars
  \/ (Restart \/ Kill) /\ UNCHANGED demoVars

Next == (DemoNext /\ UNCHANGED clientVars) \/ ClientStep

\* The tasks share the processor in turns, the timer runs, and interrupts are
\* taken; clone_lock_mutex succeeds if the semaphore keeps becoming available.
\* Nothing makes the user run latencystat again, or kill it.
Fairness ==
  /\ WF_vars(Overflow /\ UNCHANGED clientVars)
  /\ WF_vars((\E v \in Values : irq70_ttc(v)) /\ UNCHANGED clientVars)
  /\ WF_vars(task_latency /\ UNCHANGED clientVars)
  /\ WF_vars((message_handler /\ ~CloneLock) /\ UNCHANGED clientVars)
  /\ SF_vars(CloneLock /\ UNCHANGED clientVars)
  /\ WF_vars(ClientSend)
  /\ WF_vars((ReadAck \/ ReadResponse) /\ UNCHANGED demoVars)

Spec == Init /\ [][Next]_vars /\ Fairness

-------------------------------------------------------------------------------
(* Properties *)

TypeOK ==
  /\ DemoTypeOK
  /\ requests \in Seq(Commands)
  /\ \A i \in DOMAIN to_linux :
       \/ to_linux[i] \in [kind : {"ACK"}, body : Commands]
       \/ to_linux[i] \in [kind : {"DATA"}, body : HistType]
  /\ command_no \in DOMAIN Script
  /\ phase \in {"write", "ack", "data", "print"}

\* Every sample of the histogram is in a bucket or counted as out of range
\* (latencydemo.h, lines 27-31), and the extremes are in order.
Consistent(h) ==
  /\ h.sample_count = h.out_count + MapThenSumSet(LAMBDA b : h.data[b], Buckets)
  /\ h.sample_count > 0 => h.min <= h.max

\* The snapshot is consistent whenever message_handler is not copying: it was
\* never taken while the histogram was half cleared or half updated.
SnapshotConsistent == hpc \notin {"copy_counters", "copy_data"} => Consistent(hist_clone)

\* Outside CLEAR, each sample taken is in a bucket or counted as out of range.
\* latencydemo.c line 141: "value is outside the range of the histogram, count
\* it separately".
EverySampleCounted == hpc \notin {"clear_data", "clear_min"} => Consistent(hist)

\* What latencystat prints is a histogram of every sample taken since its CLEAR
\* (latencystat.c 62-98, 126-132): one that the sampler takes after STOP, because
\* it had read the flag before (latencydemo.c 197), still comes before CLONE's
\* copy, and none comes between the copy and the print; and there is one at least,
\* so that the average is never of none.
ReportComplete ==
  phase = "print" =>
    /\ report[1].kind = "DATA"
    /\ report[1].body.sample_count = taken
    /\ report[1].body.sample_count > 0
    /\ Consistent(report[1].body)

\* The graph shows the report (latencystat.c 169-179, latencygraph.c 84-95): each
\* row has the samples of its range of time, though several buckets may share a
\* row and late ones have none, and of two rows up to value_max the one with more
\* samples has the longer bar.
GraphShowsReport ==
  phase = "print" =>
    LET data == report[1].body.data
        rows == Rows(data, HISTOGRAM_SIZE)
        Within(r) == {i \in Buckets : /\ (r - 1) * bucket_value <= CLK_TIME_NSEC(i)
                                     /\ CLK_TIME_NSEC(i) < r * bucket_value}
    IN  /\ \A r \in 1 .. buckets : rows[r] = MapThenSumSet(LAMBDA i : data[i], Within(r))
        /\ \A r, s \in 1 .. buckets :
             rows[r] < rows[s] /\ rows[s] <= value_max =>
               Length(Bar(rows[r])) < Length(Bar(rows[s]))

\* Every run of latencystat gets its report: each command is acknowledged, CLONE
\* included, which waits for the semaphore that the sampler holds as long as it
\* samples and gives back after STOP (lines 240-257).
SessionEnds == phase = "write" ~> phase = "print"

\* Once sampling is switched off for good, the sampler ends with the timer off
\* and both semaphores available, as the first START found them (lines 249-257).
StopSettles ==
  <>[](histogram_enable = 0) =>
    <>[](/\ counter_on = 0 /\ interrupt_enable = 0
         /\ wait_for_irq = 1 /\ wait_for_clone = 1)
===============================================================================
