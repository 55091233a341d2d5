----------------------------- MODULE RpmsgChannel -----------------------------
(***************************************************************************)
(* What the TX side of remoteproc.c promises its callers: a bounded FIFO   *)
(* channel from the FreeRTOS tasks to Linux.  Messages are named by the    *)
(* order in which they are accepted (0, 1, 2, ...), so "in order, exactly  *)
(* once, with the content that was sent" is: the n-th thing Linux reads is *)
(* message n.                                                              *)
(***************************************************************************)
EXTENDS Naturals, Sequences

CONSTANT Capacity       \* messages accepted and not yet read

VARIABLES accepted,     \* number of messages accepted from the tasks
          read          \* what Linux has read, oldest first

chanVars == <<accepted, read>>

ChanInit == accepted = 0 /\ read = <<>>

\* A task hands over the next message; there must be room for it.
Accept ==
  /\ accepted - Len(read) < Capacity
  /\ accepted' = accepted + 1
  /\ UNCHANGED read

\* Linux reads the oldest accepted message it has not read.
Deliver ==
  /\ Len(read) < accepted
  /\ read' = Append(read, Len(read))
  /\ UNCHANGED accepted

ChanNext == Accept \/ Deliver

ChanSpec == ChanInit /\ [][ChanNext]_chanVars /\ WF_chanVars(Deliver)
===============================================================================
