------------------------------ MODULE RxVringProofs ------------------------------
(***************************************************************************)
(* rxvring_task never reads a slot that Linux has not filled: for every    *)
(* ring, every client, however many requests it leaves unanswered, and     *)
(* every choice of Windows.                                                *)
(***************************************************************************)
EXTENDS RxVring, TLAPS

\* What is counted.
CountTypes ==
  /\ irq3_pending \in {0, 1}
  /\ rxvring_kicks \in Nat
  /\ ring_rx_used_idx \in Nat
  /\ written \in Seq([kind : Kinds, n : Nat])

\* The inductive invariant.
IInv == CountTypes /\ NoEmptyRead

\* Everything the invariant speaks of.
counted == <<irq3_pending, rxvring_kicks, rx_pc, ring_rx_used_idx, written>>

LEMMA IInvInit == RxInit => IInv
BY DEF RxInit, IInv, CountTypes, NoEmptyRead, RxKicks

LEMMA FrameIInv == IInv /\ UNCHANGED counted => IInv'
BY DEF IInv, CountTypes, NoEmptyRead, RxKicks, counted

LEMMA LenIsNat == CountTypes => Len(written) \in Nat
BY DEF CountTypes

LEMMA TaskPreserves ==
  ASSUME IInv, rxvring_task
  PROVE  IInv'
<1> USE LenIsNat DEF IInv, CountTypes, NoEmptyRead, RxKicks, RxAt
<1>1. CASE RxTakeKick
  BY <1>1 DEF RxTakeKick
<1>2. CASE TakeSlot
  BY <1>2 DEF TakeSlot
<1>3. CASE RxNoKick \/ RxSuspend \/ ReadRequest \/ HandlerReturns
  <2>1. /\ rx_pc # "read" /\ rx_pc' # "read"
        /\ UNCHANGED <<irq3_pending, rxvring_kicks, ring_rx_used_idx, written>>
    BY <1>3 DEF RxNoKick, RxSuspend, ReadRequest, HandlerReturns
  <2> QED
    BY <2>1
<1>4. CASE SendAnswer
  BY <1>4, FrameIInv DEF SendAnswer, rxVars, rxTaskVars, counted
<1>5. QED
  BY <1>1, <1>2, <1>3, <1>4 DEF rxvring_task

LEMMA InterruptPreserves ==
  ASSUME IInv, rxvring_irq3
  PROVE  IInv'
<1>1. /\ irq3_pending = 1 /\ irq3_pending' = 0
      /\ rxvring_kicks' = rxvring_kicks + 1
      /\ rx_pc' = "read" <=> rx_pc = "read"
      /\ UNCHANGED <<ring_rx_used_idx, written>>
  BY DEF rxvring_irq3
<1>2. QED
  BY <1>1, LenIsNat DEF IInv, CountTypes, NoEmptyRead, RxKicks

\* Two kicks may become one interrupt, but no kick comes without a request.
LEMMA LinuxPreserves ==
  ASSUME IInv, LinuxWrite
  PROVE  IInv'
<1>1. /\ irq3_pending' = 1
      /\ UNCHANGED <<rxvring_kicks, rx_pc, ring_rx_used_idx>>
  BY DEF LinuxWrite, rxTaskVars
<1>2. PICK kind \in Kinds : written' = Append(written, Request(kind, Len(written) + 1))
  BY DEF LinuxWrite
<1>3. Request(kind, Len(written) + 1) \in [kind : Kinds, n : Nat]
  BY LenIsNat DEF IInv, Request
<1>4. /\ written' \in Seq([kind : Kinds, n : Nat])
      /\ Len(written') = Len(written) + 1
  BY <1>2, <1>3 DEF IInv, CountTypes
<1>5. QED
  BY <1>1, <1>4, LenIsNat DEF IInv, CountTypes, NoEmptyRead, RxKicks

LEMMA IInvStep == IInv /\ [SysNext]_sysVars => IInv'
<1> SUFFICES ASSUME IInv, [SysNext]_sysVars PROVE IInv'
  OBVIOUS
<1>1. CASE rxvring_task
  BY <1>1, TaskPreserves
<1>2. CASE rxvring_irq3
  BY <1>2, InterruptPreserves
<1>3. CASE LinuxWrite
  BY <1>3, LinuxPreserves
<1>4. CASE (\E t \in Tasks : Reserving(t)) \/ TxStep
  BY <1>4, FrameIInv DEF Reserving, TxStep, rxVars, rxTaskVars, counted
<1>5. CASE UNCHANGED sysVars
  BY <1>5, FrameIInv DEF sysVars, rxVars, rxTaskVars, counted
<1>6. QED
  BY <1>1, <1>2, <1>3, <1>4, <1>5 DEF SysNext

\* No slot is read without a request in it (remoteproc.c 205-230, 318-342): the
\* index of the used ring never passes what Linux wrote, although read_message does
\* not look at the ring Linux keeps.
THEOREM OnlyRequestsRead == SysSpec => []NoEmptyRead
<1>1. IInv => NoEmptyRead
  BY DEF IInv
<1>2. QED
  BY <1>1, IInvInit, IInvStep, PTL DEF SysSpec
===============================================================================
