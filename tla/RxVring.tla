-------------------------------- MODULE RxVring --------------------------------
(***************************************************************************)
(* The RX vring of remoteproc.c on top of the TX vring: the interrupt      *)
(* handler that counts Linux's kicks (rxvring_irq3), the task that reads   *)
(* the requests (rxvring_task, read_message) and the handler's answers     *)
(* (remoteproc_request_ack, remoteproc_request_response), which rxvring    *)
(* sends through the TX ring like any other sender.                        *)
(*                                                                         *)
(* The n-th request of the client is called n (from 1) and was put into    *)
(* slot (n - 1) % VRING_SIZE.  The RX ring's interrupt is one bit at the   *)
(* interrupt controller: two kicks before it is taken are one interrupt.   *)
(***************************************************************************)
EXTENDS TxVring

CONSTANTS
  RxTask,        \* rxvring_task, one of the Senders
  Segments,      \* packets of DATA_LEN_MAX bytes a histogram is cut into
  MaxRequests,   \* bound: requests the client writes
  MaxPipeline    \* bound: requests the client leaves unanswered at a time

ASSUME RxAssumption ==
  /\ RxTask \in Senders
  /\ Segments \in Nat
  /\ MaxRequests \in Nat
  /\ MaxPipeline \in 1 .. VRING_SIZE

VARIABLES
  rx_pc,           \* where rxvring_task is, when it is not inside __send_message
  rxvring_kicks,
  ring_rx_used_idx,
  hdr,             \* read_message: the slot of the request being handled
  req,             \* the request as read_message found it in its buffer
  sent,            \* answers to it that were handed to __send_message
  handled,         \* requests whose handler has returned
  rx_buf,          \* the request each slot's buffer holds
  irq3_pending,    \* bit: Linux's kick is pending at the interrupt controller
  written,         \* the requests the client wrote, oldest first
  pipeline,        \* requests this client leaves unanswered at a time
  body             \* what each reserved TX message says, in reservation order

rxTaskVars == <<rx_pc, hdr, req, sent, handled>>
rxVars == <<rxTaskVars, rxvring_kicks, ring_rx_used_idx, rx_buf, irq3_pending,
            written, pipeline, body>>
sysVars == <<vars, rxVars>>

\* CLEAR stands for the commands that are only acknowledged, GET for the one
\* that the histogram follows.
Kinds == {"CLEAR", "GET"}
Request(kind, n) == [kind |-> kind, n |-> n]
NoRequest == Request("CLEAR", 0)

\* An answer names the request it answers and the one whose header gave the
\* address it goes to; part 0 is the acknowledgement.
Answer(r, to, part) == [re |-> r.n, to |-> to, part |-> part]
Parts(r) == 1 + IF r.kind = "GET" THEN Segments ELSE 0
AnswersTo(r) == [i \in 1 .. Parts(r) |-> Answer(r, r.n, i - 1)]

\* A message that answers nothing: the announcement, another task's message.
NoAnswer == Answer(NoRequest, 0, 0)

\* The answers among the messages that Linux has read, or not read yet.
Replies(messages) == SelectSeq(messages, LAMBDA m : m # NoAnswer)
Got == Replies([i \in 1 .. Len(delivered) |->
                 IF delivered[i] \in 0 .. Len(body) - 1 THEN body[delivered[i] + 1]
                                                        ELSE NoAnswer])
InFlight == Replies(SubSeq(body, Len(delivered) + 1, Len(body)))

\* Requests whose last answer the client has read.
Answered == Len(SelectSeq(Got, LAMBDA a :
              a.re \in 1 .. Len(written) /\ a.part = Parts(written[a.re]) - 1))

RxInit ==
  /\ Init
  /\ rx_pc = "poll"
  /\ rxvring_kicks = 0
  /\ ring_rx_used_idx = 0
  /\ hdr = 0
  /\ req = NoRequest
  /\ sent = 0
  /\ handled = 0
  /\ rx_buf = [s \in Slots |-> NoRequest]
  /\ irq3_pending = 0
  /\ written = <<>>
  /\ pipeline \in 1 .. MaxPipeline
  /\ body = <<>>

-------------------------------------------------------------------------------
(* rxvring_irq3 and the loop of rxvring_task *)

RxAt(label) == At(RxTask, "idle") /\ rx_pc = label

\* Mutant: the count is not taken down.
RxTakeKick_Keeps ==
  /\ RxAt("poll")
  /\ rxvring_kicks > 0
  /\ rx_pc' = "read"
  /\ UNCHANGED <<vars, hdr, req, sent, handled, rxvring_kicks, ring_rx_used_idx,
                 rx_buf, irq3_pending, written, pipeline, body>>

RxTakeKick ==
  /\ RxAt("poll")
  /\ rxvring_kicks > 0
  /\ rxvring_kicks' = rxvring_kicks - 1
  /\ rx_pc' = "read"
  /\ UNCHANGED <<vars, hdr, req, sent, handled, ring_rx_used_idx, rx_buf,
                 irq3_pending, written, pipeline, body>>

RxNoKick ==
  /\ RxAt("poll")
  /\ rxvring_kicks = 0
  /\ rx_pc' = "to_suspend"
  /\ UNCHANGED <<vars, hdr, req, sent, handled, rxvring_kicks, ring_rx_used_idx,
                 rx_buf, irq3_pending, written, pipeline, body>>

RxSuspend ==
  /\ RxAt("to_suspend")
  /\ rx_pc' = "suspended"
  /\ UNCHANGED <<vars, hdr, req, sent, handled, rxvring_kicks, ring_rx_used_idx,
                 rx_buf, irq3_pending, written, pipeline, body>>

\* Count the kick; resume the task only if it is suspended.
rxvring_irq3 ==
  /\ irq3_pending = 1
  /\ "suspend" \notin Windows => rx_pc # "to_suspend"
  /\ irq3_pending' = 0
  /\ rxvring_kicks' = rxvring_kicks + 1
  /\ rx_pc' = IF rx_pc = "suspended" THEN "poll" ELSE rx_pc
  /\ UNCHANGED <<vars, hdr, req, sent, handled, ring_rx_used_idx, rx_buf,
                 written, pipeline, body>>

-------------------------------------------------------------------------------
(* read_message and the handler it calls *)

\* Mutant: the index is moved before the slot is computed from it.
TakeSlot_AfterIdx ==
  /\ RxAt("read")
  /\ ring_rx_used_idx' = ring_rx_used_idx + 1
  /\ hdr' = ring_rx_used_idx' % VRING_SIZE
  /\ rx_pc' = "handle"
  /\ UNCHANGED <<vars, req, sent, handled, rxvring_kicks, rx_buf, irq3_pending,
                 written, pipeline, body>>

\* The slot, and the buffer is Linux's again: idx += 1 comes before the handler.
TakeSlot ==
  /\ RxAt("read")
  /\ hdr' = ring_rx_used_idx % VRING_SIZE
  /\ ring_rx_used_idx' = ring_rx_used_idx + 1
  /\ rx_pc' = "handle"
  /\ UNCHANGED <<vars, req, sent, handled, rxvring_kicks, rx_buf, irq3_pending,
                 written, pipeline, body>>

\* req.state is read from the buffer, and rxcallback_handler is called.
ReadRequest ==
  /\ RxAt("handle")
  /\ req' = rx_buf[hdr]
  /\ sent' = 0
  /\ rx_pc' = "reply"
  /\ UNCHANGED <<vars, hdr, handled, rxvring_kicks, ring_rx_used_idx, rx_buf,
                 irq3_pending, written, pipeline, body>>

\* The acknowledgement, then the histogram in packets of DATA_LEN_MAX: each a
\* block_send_message, to the address that the buffer's header has by now.
SendAnswer ==
  /\ rx_pc = "reply"
  /\ sent < Parts(req)
  /\ BeginSend(RxTask)
  /\ UNCHANGED rxVars

\* Mutant: the handler returns with the histogram's last packet unsent.
HandlerReturns_Early ==
  /\ RxAt("reply")
  /\ sent >= Parts(req) - 1 /\ sent > 0
  /\ handled' = handled + 1
  /\ rx_pc' = "poll"
  /\ UNCHANGED <<vars, hdr, req, sent, rxvring_kicks, ring_rx_used_idx, rx_buf,
                 irq3_pending, written, pipeline, body>>

HandlerReturns ==
  /\ RxAt("reply")
  /\ sent = Parts(req)
  /\ handled' = handled + 1
  /\ rx_pc' = "poll"
  /\ UNCHANGED <<vars, hdr, req, sent, rxvring_kicks, ring_rx_used_idx, rx_buf,
                 irq3_pending, written, pipeline, body>>

rxvring_task ==
  \/ RxTakeKick \/ RxNoKick \/ RxSuspend
  \/ TakeSlot \/ ReadRequest \/ SendAnswer \/ HandlerReturns

-------------------------------------------------------------------------------
(* The Linux client and its driver *)

\* The client writes a request when fewer than `pipeline' wait for an answer.
\* The driver puts it into a buffer that was never used or that was given back,
\* and kicks.
LinuxWrite ==
  /\ delivered # <<>>
  /\ Len(written) < MaxRequests
  /\ Len(written) - Answered < pipeline
  /\ Len(written) - ring_rx_used_idx < VRING_SIZE
  /\ \E kind \in Kinds :
       LET r == Request(kind, Len(written) + 1)
       IN  /\ written' = Append(written, r)
           /\ rx_buf' = [rx_buf EXCEPT ![Len(written) % VRING_SIZE] = r]
  /\ irq3_pending' = 1
  /\ UNCHANGED <<vars, rxTaskVars, rxvring_kicks, ring_rx_used_idx, pipeline, body>>

-------------------------------------------------------------------------------
(* The TX ring's steps; a reservation fixes what its message says. *)

Reserving(t) ==
  /\ Bump(t)
  /\ body' = Append(body, IF t = RxTask THEN Answer(req, rx_buf[hdr].n, sent) ELSE NoAnswer)
  /\ sent' = IF t = RxTask THEN sent + 1 ELSE sent
  /\ UNCHANGED <<rx_pc, hdr, req, handled, rxvring_kicks, ring_rx_used_idx, rx_buf,
                 irq3_pending, written, pipeline>>

TxStep ==
  /\ \/ \E t \in Senders \ {RxTask} : BeginSend(t)
     \/ \E t \in Tasks : \/ SendLock(t) \/ SendFull(t) \/ Reserve(t)
                         \/ Write(t) \/ CommitLock(t) \/ Commit(t)
     \/ txvring_task
     \/ txvring_irq2
     \/ LinuxReceive
     \/ LinuxReturn
  /\ UNCHANGED rxVars

SysNext ==
  \/ rxvring_task
  \/ rxvring_irq3
  \/ LinuxWrite
  \/ \E t \in Tasks : Reserving(t)
  \/ TxStep

\* rxvring_task runs when it can, and interrupts are taken.
SysFairness ==
  /\ Fairness
  /\ WF_sysVars(rxvring_task)
  /\ WF_sysVars(rxvring_irq3)

SysSpec == RxInit /\ [][SysNext]_sysVars
SysFairSpec == SysSpec /\ SysFairness

-------------------------------------------------------------------------------
(* Properties *)

RxLabels == {"poll", "to_suspend", "suspended", "read", "handle", "reply"}
RequestType == [kind : Kinds, n : 0 .. MaxRequests]

RxTypeOK ==
  /\ TypeOK
  /\ rx_pc \in RxLabels
  /\ rxvring_kicks \in 0 .. MaxRequests
  /\ ring_rx_used_idx \in 0 .. MaxRequests
  /\ hdr \in Slots
  /\ req \in RequestType
  /\ sent \in 0 .. 1 + Segments
  /\ handled \in 0 .. MaxRequests
  /\ rx_buf \in [Slots -> RequestType]
  /\ irq3_pending \in {0, 1}
  /\ written \in Seq(RequestType)
  /\ pipeline \in 1 .. MaxPipeline
  /\ Len(body) = ring_tx_used_head

\* The kicks for the RX ring that were not turned into a read yet.
RxKicks == irq3_pending + rxvring_kicks + (IF rx_pc = "read" THEN 1 ELSE 0)

\* rxvring_task reads a slot for each kick without looking whether Linux filled
\* it (lines 218-223, 324): there is never a kick without a request.
NoEmptyRead == RxKicks <= Len(written) - ring_rx_used_idx

\* ... and, when the client waits for each answer, never a request without its
\* kick.
KicksMatchRequests ==
  /\ NoEmptyRead
  /\ pipeline = 1 => RxKicks = Len(written) - ring_rx_used_idx

\* The two rings together implement the link: requests handled in order, each
\* answered completely before the next, answers read in order.  The buffer that
\* read_message gave back (line 333) still holds the request and its sender's
\* address when the handler uses them.
Link == INSTANCE RpmsgLink WITH
  Requests <- [kind : Kinds, n : 1 .. MaxRequests],
  Answers <- AnswersTo,
  requests <- SubSeq(written, handled + 1, Len(written)),
  to_linux <- InFlight,
  answered <- IF rx_pc = "reply" THEN sent ELSE 0,
  got <- Got
ImplementsLink == Link!LinkSpec

\* A client that waits for each answer gets all of them: no request is stranded
\* in the RX ring, and none of its answers in the TX ring.
EveryRequestAnswered ==
  \A n \in 1 .. MaxRequests :
    pipeline = 1 /\ Len(written) >= n ~> Answered >= n
===============================================================================
