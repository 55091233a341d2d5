----------------------------- MODULE RpmsgEndpoint -----------------------------
(***************************************************************************)
(* What latencystat (Linux) and the FreeRTOS application share: the rpmsg  *)
(* channel as its two ends see it, and the commands of latencydemo.h.      *)
(* TxVring and RxVring say how a channel is built from a ring.             *)
(***************************************************************************)
EXTENDS Naturals, Sequences

VARIABLES
  requests,     \* commands latencystat wrote that FreeRTOS has not finished
  to_linux      \* messages FreeRTOS sent that latencystat has not read

Commands == {"CLEAR", "START", "STOP", "CLONE", "GET", "QUIT"}

\* A message to Linux is the acknowledgement of a command or a histogram.
Ack(cmd) == [kind |-> "ACK", body |-> cmd]
Data(h) == [kind |-> "DATA", body |-> h]
===============================================================================
