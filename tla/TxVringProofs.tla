----------------------------- MODULE TxVringProofs -----------------------------
(***************************************************************************)
(* Theorems about TxVring, for every set of sending tasks, every ring size *)
(* and every choice of Windows; and about its ring as a channel: what the  *)
(* full test is worth across laps, and, for executions in which no switch  *)
(* falls inside a send's unprotected windows, that nothing is overwritten  *)
(* or stranded and that the ring implements RpmsgChannel.                  *)
(***************************************************************************)
EXTENDS TxVring, TLAPS, FiniteSetTheorems

-------------------------------------------------------------------------------
(* Arithmetic of the ring *)

\* Division with remainder.
LEMMA Division ==
  ASSUME NEW m \in Nat, m > 0, NEW n \in Nat
  PROVE  \E q \in Nat : n = m * q + (n % m) /\ (n % m) \in Nat
<1>1. n = m * (n \div m) + (n % m)
  BY SMT
<1>2. (n \div m) \in Nat
  BY SMT
<1>3. (n % m) \in Nat
  BY SMT
<1>4. QED
  BY <1>1, <1>2, <1>3

\* Two multiples of m are not between 0 and m apart.
LEMMA MultiplesApart ==
  ASSUME NEW m \in Nat, NEW p \in Nat, NEW q \in Nat, NEW r \in Nat,
         NEW d \in Nat, 0 < d, d < m, m * p + r + d = m * q + r
  PROVE  FALSE
<1>1. m * (q - p) = d
  BY SMT
<1>2. CASE q - p <= 0
  BY <1>1, <1>2, SMT
<1>3. CASE q - p >= 1
  <2>1. m * (q - p) >= m
    BY <1>3, SMT
  <2> QED
    BY <1>1, <2>1, SMT
<1>4. QED
  BY <1>2, <1>3

\* Numbers less than m apart have different remainders: within one lap of the
\* ring, different messages have different slots.
LEMMA RemaindersDiffer ==
  ASSUME NEW m \in Nat, NEW n \in Nat, NEW d \in Nat, 0 < d, d < m
  PROVE  (n + d) % m # n % m
<1> SUFFICES ASSUME (n + d) % m = n % m PROVE FALSE
  OBVIOUS
<1>1. m > 0 /\ n + d \in Nat
  OBVIOUS
<1>2. \E p \in Nat : n = m * p + (n % m) /\ (n % m) \in Nat
  BY <1>1, Division, Zenon
<1>3. \E q \in Nat : n + d = m * q + ((n + d) % m) /\ ((n + d) % m) \in Nat
  BY <1>1, Division, Zenon
<1>4. PICK p \in Nat : n = m * p + (n % m) /\ (n % m) \in Nat
  BY <1>2
<1>5. PICK q \in Nat : n + d = m * q + ((n + d) % m)
  BY <1>3
<1> DEFINE r == n % m
<1>6. r \in Nat /\ n = m * p + r /\ n + d = m * q + r
  BY <1>4, <1>5
<1>7. m * p + r + d = m * q + r
  BY <1>6
<1> HIDE DEF r
<1>8. QED
  BY <1>6, <1>7, MultiplesApart

-------------------------------------------------------------------------------
(* Type correctness *)

\* A remainder is a slot of the ring.
LEMMA RemainderIsSlot ==
  ASSUME NEW n \in Nat
  PROVE  n % VRING_SIZE \in Slots /\ n % IDX_MOD \in Nat
BY SizeAssumption DEF Slots

\* TypeOK holds at the start.
LEMMA TypeInit == Init => TypeOK
<1> SUFFICES ASSUME Init PROVE TypeOK
  OBVIOUS
<1>1. pc \in [Tasks -> SendLabels \cup TxLabels \cup {"idle"}]
  BY DEF Init, SendLabels, TxLabels
<1>2. VRING_SIZE - 1 \in Nat
  BY SizeAssumption
<1>3. buf \in [Slots -> Int]
  BY DEF Init, Unwritten
<1>4. delivered \in Seq(Int)
  BY DEF Init
<1>5. QED
  BY <1>1, <1>2, <1>3, <1>4 DEF Init, TypeOK

\* TypeOK is preserved by the steps of a send.
LEMMA TypeSend ==
  ASSUME TypeOK, NEW t \in Tasks, BeginSend(t) \/ Send(t)
  PROVE  TypeOK'
<1> USE DEF TypeOK, taskVars, ringVars, sharedVars, linuxVars, At, Goto, SendLabels, TxLabels
<1>1. CASE BeginSend(t)
  BY <1>1 DEF BeginSend
<1>2. CASE SendLock(t)
  BY <1>2 DEF SendLock, lock_txring_mutex
<1>3. CASE SendFull(t)
  BY <1>3 DEF SendFull, unlock_txring_mutex
<1>4. CASE Reserve(t)
  BY <1>4 DEF Reserve
<1>5. CASE Bump(t)
  BY <1>5 DEF Bump, unlock_txring_mutex
<1>6. CASE Write(t)
  <2>1. num[t] \in Nat /\ num[t] % VRING_SIZE \in Slots
    BY RemainderIsSlot
  <2>2. buf' \in [Slots -> Int]
    BY <1>6, <2>1 DEF Write
  <2> QED
    BY <1>6, <2>2 DEF Write
<1>7. CASE CommitLock(t)
  BY <1>7 DEF CommitLock, lock_txring_mutex
<1>8. CASE Commit(t)
  <2>1. published' \in Nat /\ linux_irq' \in {0, 1} /\ ring_tx_ready' \in Nat
        /\ buf' = buf /\ linux_holds' = linux_holds /\ delivered' = delivered
    BY <1>8 DEF Commit, Publish, NoPublish
  <2>2. pc' \in [Tasks -> SendLabels \cup TxLabels \cup {"idle"}]
        /\ state' \in {"SERVICE_ANNOUNCE", "RUNNING"}
    BY <1>8 DEF Commit, SendDone
  <2> QED
    BY <1>8, <2>1, <2>2 DEF Commit, unlock_txring_mutex
<1>9. QED
  BY <1>1, <1>2, <1>3, <1>4, <1>5, <1>6, <1>7, <1>8 DEF Send

\* TypeOK is preserved by txvring_task.
LEMMA TypeTask ==
  ASSUME TypeOK, txvring_task
  PROVE  TypeOK'
<1> USE DEF TypeOK, taskVars, ringVars, sharedVars, linuxVars, At, Goto, SendLabels, TxLabels, Tasks
<1>1. CASE TakeKick
  BY <1>1 DEF TakeKick
<1>2. CASE NoKick
  BY <1>2 DEF NoKick
<1>3. CASE Suspend
  BY <1>3 DEF Suspend
<1>4. CASE AnnounceLock
  BY <1>4 DEF AnnounceLock, lock_txring_mutex
<1>5. CASE Announce
  BY <1>5 DEF Announce, unlock_txring_mutex
<1>6. CASE ServiceLock
  BY <1>6 DEF ServiceLock, lock_txring_mutex
<1>7. CASE ServiceTail
  BY <1>7 DEF ServiceTail
<1>8. CASE Service
  <2>1. published' \in Nat /\ linux_irq' \in {0, 1} /\ ring_tx_ready' \in Nat
        /\ buf' = buf /\ linux_holds' = linux_holds /\ delivered' = delivered
    BY <1>8 DEF Service, Publish, NoPublish
  <2> QED
    BY <1>8, <2>1 DEF Service, unlock_txring_mutex
<1>9. QED
  BY <1>1, <1>2, <1>3, <1>4, <1>5, <1>6, <1>7, <1>8 DEF txvring_task

\* TypeOK is preserved by the interrupt handler and by Linux.
LEMMA TypeLinux ==
  ASSUME TypeOK, txvring_irq2 \/ LinuxReceive \/ LinuxReturn
  PROVE  TypeOK'
<1> USE DEF TypeOK, taskVars, ringVars, sharedVars, linuxVars, SendLabels, TxLabels, Tasks
<1>1. CASE txvring_irq2
  BY <1>1 DEF txvring_irq2
<1>2. CASE LinuxReceive
  <2>1. last_used_idx \in Nat
    BY SizeAssumption DEF last_used_idx
  <2>2. buf[last_used_idx % VRING_SIZE] \in Int
    BY <2>1, RemainderIsSlot
  <2>3. delivered' \in Seq(Int)
    BY <1>2, <2>2, \A s \in Seq(Int), m \in Int : Append(s, m) \in Seq(Int) DEF LinuxReceive
  <2> QED
    BY <1>2, <2>3 DEF LinuxReceive
<1>3. CASE LinuxReturn
  BY <1>3 DEF LinuxReturn
<1>4. QED
  BY <1>1, <1>2, <1>3

\* A step of the specification preserves TypeOK.
LEMMA TypeStep ==
  ASSUME TypeOK, [Next]_vars
  PROVE  TypeOK'
<1>1. CASE UNCHANGED vars
  BY <1>1 DEF TypeOK, vars, taskVars, ringVars, sharedVars, linuxVars
<1>2. CASE Next
  BY <1>2, TypeSend, TypeTask, TypeLinux DEF Next, Tasks
<1>3. QED
  BY <1>1, <1>2

\* Every variable of the ring always has its type.
THEOREM TypeCorrect == Spec => []TypeOK
<1>1. Init => TypeOK
  BY TypeInit
<1>2. TypeOK /\ [Next]_vars => TypeOK'
  BY TypeStep
<1>3. QED
  BY <1>1, <1>2, PTL DEF Spec

-------------------------------------------------------------------------------
(* One permission to publish *)

\* The steps of a send keep the token single: Commit moves it from
\* ring_tx_ready to the interrupt, the others leave it where it is.
LEMMA CreditSend ==
  ASSUME TypeOK, OneCredit, NEW t \in Tasks, BeginSend(t) \/ Send(t)
  PROVE  OneCredit'
<1> USE DEF OneCredit, Credit, Serving, TypeOK, taskVars, ringVars, sharedVars,
            linuxVars, At, Goto, Tasks
<1>1. CASE BeginSend(t)
  BY <1>1 DEF BeginSend
<1>2. CASE SendLock(t)
  BY <1>2 DEF SendLock, lock_txring_mutex
<1>3. CASE SendFull(t)
  BY <1>3 DEF SendFull
<1>4. CASE Reserve(t)
  BY <1>4 DEF Reserve
<1>5. CASE Bump(t)
  BY <1>5 DEF Bump
<1>6. CASE Write(t)
  BY <1>6 DEF Write
<1>7. CASE CommitLock(t)
  BY <1>7 DEF CommitLock, lock_txring_mutex
<1>8. CASE Commit(t)
  <2>1. Serving' = FALSE \/ Serving' = Serving
    BY <1>8 DEF Commit, SendDone
  <2>2. Serving => Serving'
    BY <1>8 DEF Commit, SendDone
  <2>3. CASE ring_tx_ready > 0
    BY <1>8, <2>1, <2>2, <2>3 DEF Commit, Publish
  <2>4. CASE ~(ring_tx_ready > 0)
    BY <1>8, <2>1, <2>2, <2>4 DEF Commit, NoPublish
  <2> QED
    BY <2>3, <2>4
<1>9. QED
  BY <1>1, <1>2, <1>3, <1>4, <1>5, <1>6, <1>7, <1>8 DEF Send

\* txvring_task takes the token from txvring_kicks and passes it on.
LEMMA CreditTask ==
  ASSUME TypeOK, OneCredit, txvring_task
  PROVE  OneCredit'
<1> USE DEF OneCredit, Credit, Serving, TypeOK, taskVars, ringVars, sharedVars,
            linuxVars, At, Goto, Tasks
<1>1. CASE TakeKick
  BY <1>1 DEF TakeKick
<1>2. CASE NoKick
  BY <1>2 DEF NoKick
<1>3. CASE Suspend
  BY <1>3 DEF Suspend
<1>4. CASE AnnounceLock
  BY <1>4 DEF AnnounceLock, lock_txring_mutex
<1>5. CASE Announce
  BY <1>5 DEF Announce
<1>6. CASE ServiceLock
  BY <1>6 DEF ServiceLock, lock_txring_mutex
<1>7. CASE ServiceTail
  BY <1>7 DEF ServiceTail
<1>8. CASE Service
  <2>1. CASE ring_tx_used_idx # ring_tx_used_head
    BY <1>8, <2>1 DEF Service, Publish
  <2>2. CASE ring_tx_used_idx = ring_tx_used_head
    BY <1>8, <2>2 DEF Service, NoPublish
  <2> QED
    BY <2>1, <2>2
<1>9. QED
  BY <1>1, <1>2, <1>3, <1>4, <1>5, <1>6, <1>7, <1>8 DEF txvring_task

\* While the token is an interrupt to Linux, Linux has a message to read: its
\* last_used_idx is one behind.  So the interrupt that finds nothing, which
\* would destroy the token, never happens.
IrqHasMessage == Len(delivered) + linux_irq = published

CreditInv == TypeOK /\ OneCredit /\ IrqHasMessage

\* The 16-bit index has at least two values, since the ring has.
LEMMA IdxModLarge == IDX_MOD > 1
BY SizeAssumption

\* One increment always shows in the 16-bit index.
LEMMA NextIdxDiffers ==
  ASSUME NEW n \in Nat
  PROVE  n % IDX_MOD # (n + 1) % IDX_MOD
<1>1. IDX_MOD \in Nat /\ 1 \in Nat /\ 0 < 1 /\ 1 < IDX_MOD
  BY IdxModLarge, SizeAssumption
<1>2. QED
  BY <1>1, RemaindersDiffer

\* Each step preserves the link between the interrupt and the indices: only one
\* interrupt can be pending when the token is single.
LEMMA IrqHasMessageStep ==
  ASSUME CreditInv, [Next]_vars
  PROVE  IrqHasMessage'
<1> USE DEF CreditInv, IrqHasMessage, OneCredit, Credit, Serving, TypeOK, taskVars,
            ringVars, sharedVars, linuxVars
<1>1. ASSUME NEW t \in Tasks, BeginSend(t) \/ Send(t)
      PROVE  IrqHasMessage'
  <2>1. CASE Commit(t)
    <3>1. CASE ring_tx_ready > 0
      BY <2>1, <3>1 DEF Commit, Publish
    <3>2. CASE ~(ring_tx_ready > 0)
      BY <2>1, <3>2 DEF Commit, NoPublish
    <3> QED
      BY <3>1, <3>2
  <2>2. CASE ~Commit(t)
    BY <1>1, <2>2 DEF BeginSend, Send, SendLock, SendFull, Reserve, Bump, Write, CommitLock,
                      lock_txring_mutex
  <2> QED
    BY <2>1, <2>2
<1>2. ASSUME txvring_task
      PROVE  IrqHasMessage'
  <2>1. CASE Service
    <3>1. Serving
      BY <2>1 DEF Service, At
    <3>2. CASE ring_tx_used_idx # ring_tx_used_head
      BY <2>1, <3>1, <3>2 DEF Service, Publish
    <3>3. CASE ring_tx_used_idx = ring_tx_used_head
      BY <2>1, <3>3 DEF Service, NoPublish
    <3> QED
      BY <3>2, <3>3
  <2>2. CASE ~Service
    BY <1>2, <2>2 DEF txvring_task, TakeKick, NoKick, Suspend, AnnounceLock, Announce,
                      ServiceLock, ServiceTail, lock_txring_mutex
  <2> QED
    BY <2>1, <2>2
<1>3. CASE txvring_irq2
  BY <1>3 DEF txvring_irq2
<1>4. CASE LinuxReceive
  <2>1. published = Len(delivered) + 1 /\ Len(delivered) \in Nat
    BY <1>4 DEF LinuxReceive
  <2>2. last_used_idx # ring_tx_used_idx
    BY <2>1, NextIdxDiffers DEF last_used_idx, ring_tx_used_idx
  <2>3. PICK m : delivered' = Append(delivered, m)
    BY <1>4, <2>2 DEF LinuxReceive
  <2>4. Len(delivered') = Len(delivered) + 1
    BY <2>3
  <2> QED
    BY <1>4, <2>1, <2>4 DEF LinuxReceive
<1>5. CASE LinuxReturn
  BY <1>5 DEF LinuxReturn
<1>6. CASE UNCHANGED vars
  BY <1>6 DEF vars
<1>7. QED
  BY <1>1, <1>2, <1>3, <1>4, <1>5, <1>6 DEF Next, Tasks

\* The interrupt handler, Linux and a stuttering step keep the token single.
LEMMA CreditLinux ==
  ASSUME CreditInv, txvring_irq2 \/ LinuxReceive \/ LinuxReturn
  PROVE  OneCredit'
<1> USE DEF CreditInv, OneCredit, Credit, Serving, TypeOK, taskVars, ringVars, sharedVars,
            linuxVars, Tasks
<1>1. CASE txvring_irq2
  BY <1>1 DEF txvring_irq2
<1>2. CASE LinuxReceive
  <2>1. published = Len(delivered) + 1 /\ Len(delivered) \in Nat
    BY <1>2 DEF LinuxReceive, IrqHasMessage
  <2>2. last_used_idx # ring_tx_used_idx
    BY <2>1, NextIdxDiffers DEF last_used_idx, ring_tx_used_idx
  <2>3. linux_irq = 1 /\ linux_irq' = 0 /\ linux_holds' = 1
    BY <1>2, <2>2 DEF LinuxReceive
  <2>4. UNCHANGED <<irq2_pending, txvring_kicks, ring_tx_ready, pc>>
    BY <1>2 DEF LinuxReceive
  <2> QED
    BY <2>3, <2>4
<1>3. CASE LinuxReturn
  BY <1>3 DEF LinuxReturn
<1>4. QED
  BY <1>1, <1>2, <1>3

LEMMA CreditHolds == Spec => []CreditInv
<1>1. Init => CreditInv
  <2> SUFFICES ASSUME Init PROVE CreditInv
    OBVIOUS
  <2>1. TypeOK
    BY TypeInit
  <2>2. OneCredit /\ IrqHasMessage
    BY DEF Init, OneCredit, Credit, Serving, IrqHasMessage, Tasks
  <2> QED
    BY <2>1, <2>2 DEF CreditInv
<1>2. CreditInv /\ [Next]_vars => CreditInv'
  <2> SUFFICES ASSUME CreditInv, [Next]_vars PROVE CreditInv'
    OBVIOUS
  <2>1. TypeOK'
    BY TypeStep DEF CreditInv
  <2>2. OneCredit'
    <3>1. CASE UNCHANGED vars
      BY <3>1 DEF CreditInv, OneCredit, Credit, Serving, vars, taskVars, ringVars, linuxVars
    <3>2. CASE Next
      BY <3>2, CreditSend, CreditTask, CreditLinux DEF Next, Tasks, CreditInv
    <3> QED
      BY <3>1, <3>2
  <2> QED
    BY <2>1, <2>2, IrqHasMessageStep DEF CreditInv
<1>3. QED
  BY <1>1, <1>2, PTL DEF Spec

\* For every set of senders, ring size and choice of windows: there is always
\* exactly one permission to publish.
THEOREM CreditConserved == Spec => []OneCredit
<1>1. CreditInv => OneCredit
  BY DEF CreditInv
<1>2. QED
  BY <1>1, CreditHolds, PTL

-------------------------------------------------------------------------------
(* The mutex *)

\* A take of the free mutex puts its taker, and nobody else, inside.
LEMMA MutexTake ==
  ASSUME TypeOK, MutexHeldInside, NEW t \in Tasks, NEW from, from \notin Critical,
         NEW to \in Critical,
         lock_txring_mutex(t, from, to)
  PROVE  MutexHeldInside'
BY TaskAssumption DEF TypeOK, MutexHeldInside, lock_txring_mutex, At, Goto

\* A task that leaves its critical section frees the mutex.
LEMMA MutexGive ==
  ASSUME TypeOK, MutexHeldInside, NEW t \in Tasks, pc[t] \in Critical,
         NEW to, to \notin Critical, txring_mutex' = Free, Goto(t, to)
  PROVE  MutexHeldInside'
BY TaskAssumption DEF TypeOK, MutexHeldInside, Goto

\* A task that stays inside or outside leaves the mutex as it is.
LEMMA MutexKeep ==
  ASSUME TypeOK, MutexHeldInside, NEW t \in Tasks, NEW to, pc[t] \in Critical <=> to \in Critical,
         UNCHANGED txring_mutex, Goto(t, to)
  PROVE  MutexHeldInside'
BY DEF TypeOK, MutexHeldInside, Goto

\* Every step keeps the mutex with the task inside a critical section.
LEMMA MutexStep ==
  ASSUME TypeOK, MutexHeldInside, [Next]_vars
  PROVE  MutexHeldInside'
<1>1. ASSUME NEW t \in Tasks, BeginSend(t) \/ Send(t)
      PROVE  MutexHeldInside'
  <2>1. CASE BeginSend(t)
    BY <2>1, MutexKeep DEF BeginSend, At, Critical
  <2>2. CASE SendLock(t)
    BY <2>2, MutexTake DEF SendLock, Critical
  <2>3. CASE SendFull(t)
    BY <2>3, MutexGive DEF SendFull, unlock_txring_mutex, At, Critical
  <2>4. CASE Reserve(t)
    BY <2>4, MutexKeep DEF Reserve, At, Critical
  <2>5. CASE Bump(t)
    BY <2>5, MutexGive DEF Bump, unlock_txring_mutex, At, Critical
  <2>6. CASE Write(t)
    BY <2>6, MutexKeep DEF Write, At, Critical
  <2>7. CASE CommitLock(t)
    BY <2>7, MutexTake DEF CommitLock, Critical
  <2>8. CASE Commit(t)
    <3> DEFINE to == IF t = TxTask THEN "poll" ELSE "idle"
    <3>1. to \notin Critical /\ pc[t] \in Critical /\ txring_mutex' = Free /\ Goto(t, to)
      BY <2>8 DEF Commit, SendDone, unlock_txring_mutex, At, Critical
    <3> QED
      BY <3>1, MutexGive
  <2> QED
    BY <1>1, <2>1, <2>2, <2>3, <2>4, <2>5, <2>6, <2>7, <2>8 DEF Send
<1>2. ASSUME txvring_task
      PROVE  MutexHeldInside'
  <2>0. TxTask \in Tasks
    BY DEF Tasks
  <2>1. CASE TakeKick
    BY <2>0, <2>1, MutexKeep DEF TakeKick, At, Critical
  <2>2. CASE NoKick
    BY <2>0, <2>2, MutexKeep DEF NoKick, At, Critical
  <2>3. CASE Suspend
    BY <2>0, <2>3, MutexKeep DEF Suspend, At, Critical
  <2>4. CASE AnnounceLock
    BY <2>0, <2>4, MutexTake DEF AnnounceLock, Critical
  <2>5. CASE Announce
    BY <2>0, <2>5, MutexGive DEF Announce, unlock_txring_mutex, At, Critical
  <2>6. CASE ServiceLock
    BY <2>0, <2>6, MutexTake DEF ServiceLock, Critical
  <2>7. CASE ServiceTail
    BY <2>0, <2>7, MutexKeep DEF ServiceTail, At, Critical
  <2>8. CASE Service
    BY <2>0, <2>8, MutexGive DEF Service, unlock_txring_mutex, At, Critical
  <2> QED
    BY <1>2, <2>1, <2>2, <2>3, <2>4, <2>5, <2>6, <2>7, <2>8 DEF txvring_task
<1>3. CASE txvring_irq2
  BY <1>3 DEF txvring_irq2, TypeOK, MutexHeldInside, Critical
<1>4. CASE LinuxReceive \/ LinuxReturn \/ UNCHANGED vars
  BY <1>4 DEF LinuxReceive, LinuxReturn, vars, taskVars, MutexHeldInside
<1>5. QED
  BY <1>1, <1>2, <1>3, <1>4 DEF Next, Tasks

\* For every set of senders and choice of windows, the mutex is held exactly by
\* the task inside a critical section.
THEOREM MutexCorrect == Spec => []MutexHeldInside
<1>1. Init => MutexHeldInside
  BY TaskAssumption DEF Init, MutexHeldInside, Critical, Tasks
<1>2. TypeOK /\ MutexHeldInside /\ [Next]_vars => MutexHeldInside'
  BY MutexStep
<1>3. QED
  BY <1>1, <1>2, TypeCorrect, PTL DEF Spec

-------------------------------------------------------------------------------
(* Reservations *)

\* A task about to reserve holds the head's number; one that has reserved holds
\* a number below the head.
ReservedBelowHead ==
  \A t \in Tasks :
    /\ pc[t] = "bump" => num[t] = ring_tx_used_head
    /\ pc[t] \in {"write", "commit_lock", "commit"} => num[t] < ring_tx_used_head

ReservationInv == ReservedBelowHead /\ ReservationsUnique

\* Two tasks are never both at "reserve" or "bump".
LEMMA OneInside ==
  ASSUME MutexHeldInside, NEW t \in Tasks, NEW u \in Tasks,
         pc[t] \in Critical, pc[u] \in Critical
  PROVE  t = u
BY DEF MutexHeldInside

\* Every step keeps reservations below the head and distinct.
LEMMA ReservationStep ==
  ASSUME TypeOK, MutexHeldInside, ReservationInv, [Next]_vars
  PROVE  ReservationInv'
<1> USE DEF ReservationInv, ReservedBelowHead, ReservationsUnique, InSend, TypeOK
<1>1. ASSUME NEW t \in Tasks, Reserve(t)
      PROVE  ReservationInv'
  <2>1. \A u \in Tasks : u # t => pc[u] # "bump"
    BY <1>1, OneInside DEF Reserve, At, Critical
  <2> QED
    BY <1>1, <2>1 DEF Reserve, Goto, ringVars
<1>2. ASSUME NEW t \in Tasks, Bump(t)
      PROVE  ReservationInv'
  <2>1. \A u \in Tasks : u # t => pc[u] # "bump"
    BY <1>2, OneInside DEF Bump, At, Critical
  <2> QED
    BY <1>2, <2>1 DEF Bump, At, Goto
<1>3. ASSUME NEW t \in Tasks,
             \/ BeginSend(t) \/ SendLock(t) \/ SendFull(t)
             \/ Write(t) \/ CommitLock(t) \/ Commit(t)
      PROVE  ReservationInv'
  <2>1. UNCHANGED <<num, ring_tx_used_head>>
    BY <1>3 DEF BeginSend, SendLock, SendFull, Write, CommitLock, Commit, lock_txring_mutex, ringVars
  <2>2. \E to \in {"send_lock", "reserve", "commit_lock", "commit", "poll", "idle"} :
          /\ Goto(t, to)
          /\ to \in {"commit_lock", "commit"} => pc[t] \in {"write", "commit_lock"}
    <3>1. CASE BeginSend(t) \/ SendFull(t)
      BY <3>1 DEF BeginSend, SendFull
    <3>2. CASE SendLock(t)
      BY <3>2 DEF SendLock, lock_txring_mutex
    <3>3. CASE Write(t)
      BY <3>3 DEF Write, At
    <3>4. CASE CommitLock(t)
      BY <3>4 DEF CommitLock, lock_txring_mutex, At
    <3>5. CASE Commit(t)
      <4>1. CASE t = TxTask
        BY <3>5, <4>1 DEF Commit, SendDone
      <4>2. CASE t # TxTask
        BY <3>5, <4>2 DEF Commit, SendDone
      <4> QED
        BY <4>1, <4>2
    <3> QED
      BY <1>3, <3>1, <3>2, <3>3, <3>4, <3>5
  <2>3. \A u \in Tasks :
          /\ pc'[u] = "bump" => pc[u] = "bump"
          /\ pc'[u] \in {"write", "commit_lock", "commit"} =>
               pc[u] \in {"write", "commit_lock", "commit"}
    BY <2>2 DEF Goto
  <2> QED
    BY <2>1, <2>3
<1>4. ASSUME txvring_task
      PROVE  ReservationInv'
  <2>1. UNCHANGED <<num, ring_tx_used_head>>
    BY <1>4 DEF txvring_task, TakeKick, NoKick, Suspend, AnnounceLock, Announce,
                ServiceLock, ServiceTail, Service, lock_txring_mutex, ringVars
  <2>2. PICK to \in {"to_suspend", "suspended", "announce_lock", "announce", "send_lock",
                     "service_lock", "service_tail", "service", "poll"} : Goto(TxTask, to)
    BY <1>4 DEF txvring_task, TakeKick, NoKick, Suspend, AnnounceLock, Announce,
                ServiceLock, ServiceTail, Service, lock_txring_mutex
  <2> QED
    BY <2>1, <2>2 DEF Goto
<1>5. CASE txvring_irq2
  BY <1>5 DEF txvring_irq2, ringVars
<1>6. CASE LinuxReceive \/ LinuxReturn \/ UNCHANGED vars
  BY <1>6 DEF LinuxReceive, LinuxReturn, vars, taskVars, ringVars
<1>7. QED
  BY <1>1, <1>2, <1>3, <1>4, <1>5, <1>6 DEF Next, Send, Tasks

LEMMA ReservationsHold == Spec => []ReservationInv
<1>1. Init => ReservationInv
  BY DEF Init, ReservationInv, ReservedBelowHead, ReservationsUnique, InSend, Tasks
<1>2. TypeOK /\ MutexHeldInside /\ ReservationInv /\ [Next]_vars => ReservationInv'
  BY ReservationStep
<1>3. QED
  BY <1>1, <1>2, TypeCorrect, MutexCorrect, PTL DEF Spec

\* For every set of senders and choice of windows, no two sends share a
\* reservation.
THEOREM ReservationsDistinct == Spec => []ReservationsUnique
<1>1. ReservationInv => ReservationsUnique
  BY DEF ReservationInv
<1>2. QED
  BY <1>1, ReservationsHold, PTL

-------------------------------------------------------------------------------
(* The ring as a channel *)

\* A number below the modulus is its own remainder.
LEMMA SmallRemainder ==
  ASSUME NEW m \in Nat, NEW n \in Nat, n < m
  PROVE  n % m = n
<1>1. PICK q \in Nat : n = m * q + (n % m) /\ (n % m) \in Nat
  BY Division
<1>2. CASE q = 0
  BY <1>1, <1>2
<1>3. CASE q >= 1
  <2>1. m * q >= m
    BY <1>3, SMT
  <2> QED
    BY <1>1, <2>1, SMT
<1>4. QED
  BY <1>2, <1>3

-------------------------------------------------------------------------------
(* Steps that touch no reservation *)

\* A step other than Reserve, Bump and Write leaves the reservations and the
\* buffers alone; the tail moves by at most one.
Quiet ==
  /\ UNCHANGED <<num, ring_tx_used_head, buf>>
  /\ ring_tx_used_tail' = ring_tx_used_tail \/ ring_tx_used_tail' = ring_tx_used_tail + 1
  /\ \A u \in Tasks :
       /\ pc'[u] = "bump" => pc[u] = "bump"
       /\ pc'[u] = "write" <=> pc[u] = "write"

LEMMA QuietSend ==
  ASSUME TypeOK, NEW t \in Tasks,
         BeginSend(t) \/ SendLock(t) \/ SendFull(t) \/ CommitLock(t) \/ Commit(t)
  PROVE  Quiet
<1> USE DEF TypeOK, Quiet, At, Goto, ringVars, sharedVars
<1>1. CASE BeginSend(t)
  BY <1>1 DEF BeginSend
<1>2. CASE SendLock(t)
  BY <1>2 DEF SendLock, lock_txring_mutex
<1>3. CASE SendFull(t)
  BY <1>3 DEF SendFull
<1>4. CASE CommitLock(t)
  BY <1>4 DEF CommitLock, lock_txring_mutex
<1>5. CASE Commit(t)
  <2>1. UNCHANGED <<num, ring_tx_used_head, ring_tx_used_tail, buf>>
    BY <1>5 DEF Commit, Publish, NoPublish
  <2>2. PICK to \in {"poll", "idle"} : Goto(t, to) /\ pc[t] = "commit"
    <3>1. CASE t = TxTask
      BY <1>5, <3>1 DEF Commit, SendDone
    <3>2. CASE t # TxTask
      BY <1>5, <3>2 DEF Commit, SendDone
    <3> QED
      BY <3>1, <3>2
  <2> QED
    BY <2>1, <2>2
<1>6. QED
  BY <1>1, <1>2, <1>3, <1>4, <1>5

LEMMA QuietTask ==
  ASSUME TypeOK, txvring_task
  PROVE  Quiet
<1> USE DEF TypeOK, Quiet, At, Goto, ringVars, sharedVars, Tasks
<1>1. CASE TakeKick \/ NoKick \/ Suspend
  BY <1>1 DEF TakeKick, NoKick, Suspend
<1>2. CASE AnnounceLock \/ ServiceLock
  BY <1>2 DEF AnnounceLock, ServiceLock, lock_txring_mutex
<1>3. CASE Announce
  BY <1>3 DEF Announce
<1>4. CASE ServiceTail
  BY <1>4 DEF ServiceTail
<1>5. CASE Service
  BY <1>5 DEF Service, Publish, NoPublish
<1>6. QED
  BY <1>1, <1>2, <1>3, <1>4, <1>5 DEF txvring_task

LEMMA QuietLinux ==
  ASSUME TypeOK, txvring_irq2 \/ LinuxReceive \/ LinuxReturn \/ UNCHANGED vars
  PROVE  Quiet
<1> USE DEF TypeOK, Quiet, ringVars, sharedVars, taskVars, Tasks
<1>1. CASE txvring_irq2
  BY <1>1 DEF txvring_irq2
<1>2. CASE LinuxReceive \/ LinuxReturn
  BY <1>2 DEF LinuxReceive, LinuxReturn
<1>3. CASE UNCHANGED vars
  BY <1>3 DEF vars
<1>4. QED
  BY <1>1, <1>2, <1>3

LEMMA QuietStep ==
  ASSUME TypeOK, [Next]_vars, \A t \in Tasks : ~ Reserve(t) /\ ~ Bump(t) /\ ~ Write(t)
  PROVE  Quiet
<1>1. CASE UNCHANGED vars
  BY <1>1, QuietLinux
<1>2. ASSUME NEW t \in Tasks, BeginSend(t) \/ Send(t)
      PROVE  Quiet
  BY <1>2, QuietSend DEF Send
<1>3. CASE txvring_task
  BY <1>3, QuietTask
<1>4. CASE txvring_irq2 \/ LinuxReceive \/ LinuxReturn
  BY <1>4, QuietLinux
<1>5. QED
  BY <1>1, <1>2, <1>3, <1>4 DEF Next, Tasks

-------------------------------------------------------------------------------
(* The full test *)

\* The head never passes the tail: the ring is full when they meet, and between
\* the test and the increment the mutex keeps others from moving the head.
HeadBehindTail ==
  /\ VRING_SIZE - 1 <= ring_tx_used_tail
  /\ ring_tx_used_head <= ring_tx_used_tail
  /\ \A t \in Tasks : pc[t] = "bump" => ring_tx_used_head < ring_tx_used_tail

LEMMA HeadBehindTailStep ==
  ASSUME TypeOK, MutexHeldInside, HeadBehindTail, [Next]_vars
  PROVE  HeadBehindTail'
<1> USE SizeAssumption DEF HeadBehindTail, TypeOK
<1>1. ASSUME NEW t \in Tasks, Reserve(t) PROVE HeadBehindTail'
  <2>1. ring_tx_used_head # ring_tx_used_tail
    BY <1>1 DEF Reserve, RingFull
  <2>2. UNCHANGED <<ring_tx_used_head, ring_tx_used_tail>>
    BY <1>1 DEF Reserve, ringVars
  <2> QED
    BY <2>1, <2>2
<1>2. ASSUME NEW t \in Tasks, Bump(t) PROVE HeadBehindTail'
  <2>1. \A u \in Tasks : u # t => pc[u] # "bump"
    BY <1>2, OneInside DEF Bump, At, Critical
  <2>2. \A u \in Tasks : pc'[u] # "bump"
    BY <1>2, <2>1 DEF Bump, Goto
  <2> QED
    BY <1>2, <2>2 DEF Bump, At
<1>3. ASSUME NEW t \in Tasks, Write(t) PROVE HeadBehindTail'
  BY <1>3 DEF Write, Goto, ringVars
<1>4. CASE \A t \in Tasks : ~ Reserve(t) /\ ~ Bump(t) /\ ~ Write(t)
  BY <1>4, QuietStep DEF Quiet
<1>5. QED
  BY <1>1, <1>2, <1>3, <1>4

LEMMA HeadBehindTailHolds == Spec => []HeadBehindTail
<1>1. Init => HeadBehindTail
  BY SizeAssumption DEF Init, HeadBehindTail, Tasks
<1>2. TypeOK /\ MutexHeldInside /\ HeadBehindTail /\ [Next]_vars => HeadBehindTail'
  BY HeadBehindTailStep
<1>3. QED
  BY <1>1, <1>2, TypeCorrect, MutexCorrect, PTL DEF Spec

\* The messages reserved and not given back by Linux.
Outstanding == returned .. ring_tx_used_head - 1

\* No two of them share a slot.
OutstandingSlotsDiffer ==
  \A m, n \in Outstanding : m # n => m % VRING_SIZE # n % VRING_SIZE

\* Two messages less than a lap apart have different slots.
LEMMA LapSlotsDiffer ==
  ASSUME NEW m \in Int, NEW n \in Int, m # n,
         m >= 0, n >= 0, m - n < VRING_SIZE, n - m < VRING_SIZE
  PROVE  m % VRING_SIZE # n % VRING_SIZE
<1>1. CASE m < n
  <2>1. m \in Nat /\ n - m \in Nat /\ 0 < n - m /\ n - m < VRING_SIZE /\ VRING_SIZE \in Nat
    BY <1>1, SizeAssumption
  <2>2. (m + (n - m)) % VRING_SIZE # m % VRING_SIZE
    BY <2>1, RemaindersDiffer
  <2>3. m + (n - m) = n
    OBVIOUS
  <2> QED
    BY <2>2, <2>3
<1>2. CASE n < m
  <2>1. n \in Nat /\ m - n \in Nat /\ 0 < m - n /\ m - n < VRING_SIZE /\ VRING_SIZE \in Nat
    BY <1>2, SizeAssumption
  <2>2. (n + (m - n)) % VRING_SIZE # n % VRING_SIZE
    BY <2>1, RemaindersDiffer
  <2>3. n + (m - n) = m
    OBVIOUS
  <2> QED
    BY <2>2, <2>3
<1>3. QED
  BY <1>1, <1>2

\* "The queue is full when head == tail" (remoteproc.c lines 99-102) keeps
\* outstanding messages in different slots, for every ring size, across any number
\* of laps and wherever a task is switched out: at most VRING_SIZE - 1 are
\* outstanding.
THEOREM FullTestKeepsSlotsApart == Spec => []OutstandingSlotsDiffer
<1>1. TypeOK /\ HeadBehindTail => OutstandingSlotsDiffer
  <2> SUFFICES ASSUME TypeOK, HeadBehindTail, NEW m \in Outstanding, NEW n \in Outstanding,
                      m # n
               PROVE  m % VRING_SIZE # n % VRING_SIZE
    BY DEF OutstandingSlotsDiffer
  <2>1. /\ m \in Int /\ n \in Int /\ m >= 0 /\ n >= 0
        /\ m - n < VRING_SIZE /\ n - m < VRING_SIZE
    BY SizeAssumption DEF Outstanding, returned, HeadBehindTail, TypeOK
  <2> QED
    BY <2>1, LapSlotsDiffer
<1>2. QED
  BY <1>1, TypeCorrect, HeadBehindTailHolds, PTL

-------------------------------------------------------------------------------
(* No switch between the reservation and the end of the write *)

WriteClosed == "write" \notin Windows

\* The task that writes made the last reservation: nobody else runs.
WriterIsLast == \A t \in Tasks : pc[t] = "write" => num[t] = ring_tx_used_head - 1

LEMMA WriterIsLastStep ==
  ASSUME WriteClosed, TypeOK, MutexHeldInside, ReservationInv, WriterIsLast, [Next]_vars
  PROVE  WriterIsLast'
<1> USE DEF WriterIsLast, TypeOK
<1>1. ASSUME NEW t \in Tasks, Reserve(t) PROVE WriterIsLast'
  BY <1>1 DEF Reserve, At, Goto, ringVars
<1>2. ASSUME NEW t \in Tasks, Bump(t) PROVE WriterIsLast'
  <2>1. \A u \in Tasks : u # t => pc[u] # "write"
    BY <1>2 DEF WriteClosed, Bump, At, InClosedWindow
  <2>2. num[t] = ring_tx_used_head
    BY <1>2 DEF ReservationInv, ReservedBelowHead, Bump, At
  <2>3. ring_tx_used_head' = ring_tx_used_head + 1 /\ num' = num
        /\ \A u \in Tasks : u # t => pc'[u] = pc[u]
    BY <1>2 DEF Bump, Goto
  <2>4. \A u \in Tasks : pc'[u] = "write" => u = t
    BY <2>1, <2>3
  <2>5. num'[t] = ring_tx_used_head' - 1
    BY <2>2, <2>3
  <2> QED
    BY <2>4, <2>5
<1>3. ASSUME NEW t \in Tasks, Write(t) PROVE WriterIsLast'
  BY <1>3 DEF Write, Goto, ringVars
<1>4. CASE \A t \in Tasks : ~ Reserve(t) /\ ~ Bump(t) /\ ~ Write(t)
  BY <1>4, QuietStep DEF Quiet
<1>5. QED
  BY <1>1, <1>2, <1>3, <1>4

LEMMA WriterIsLastHolds ==
  ASSUME WriteClosed
  PROVE  Spec => []WriterIsLast
<1>1. Init => WriterIsLast
  BY DEF Init, WriterIsLast, Tasks
<1>2. TypeOK /\ MutexHeldInside /\ ReservationInv /\ WriterIsLast /\ [Next]_vars => WriterIsLast'
  BY WriterIsLastStep
<1>3. QED
  BY <1>1, <1>2, TypeCorrect, MutexCorrect, ReservationsHold, PTL DEF Spec

\* A task writes only into a slot that no other message in the ring occupies
\* (lines 99-102, 164-180), if no switch falls between its reservation and the
\* end of its write.  A kick to txvring_task before the commit, and an index that
\* wrapped, do no harm to this.
THEOREM NothingOverwritten ==
  ASSUME WriteClosed
  PROVE  Spec => []NoOverwrite
<1>1. TypeOK /\ HeadBehindTail /\ WriterIsLast => NoOverwrite
  <2> SUFFICES ASSUME TypeOK, HeadBehindTail, WriterIsLast, NEW t \in Tasks, pc[t] = "write",
                      NEW n \in returned .. ring_tx_used_head - 1, n # num[t]
               PROVE  n % VRING_SIZE # num[t] % VRING_SIZE
    BY DEF NoOverwrite
  <2>1. num[t] = ring_tx_used_head - 1 /\ num[t] \in Nat
    BY DEF WriterIsLast, TypeOK
  <2>2. /\ n \in Int /\ n >= 0
        /\ n - num[t] < VRING_SIZE /\ num[t] - n < VRING_SIZE
    BY <2>1, SizeAssumption DEF returned, HeadBehindTail, TypeOK
  <2> QED
    BY <2>1, <2>2, LapSlotsDiffer
<1>2. QED
  BY <1>1, TypeCorrect, HeadBehindTailHolds, WriterIsLastHolds, PTL

-------------------------------------------------------------------------------
(* The announcement and the buffers given back *)

\* txvring_task has not announced its service yet.
Unannounced ==
  /\ state = "SERVICE_ANNOUNCE"
  /\ pc[TxTask] \in {"poll", "to_suspend", "suspended", "announce_lock", "announce"}

\* txvring_task's place agrees with its state machine.
PlaceAgrees ==
  /\ pc[TxTask] \in {"announce_lock", "announce"} => state = "SERVICE_ANNOUNCE"
  /\ pc[TxTask] \in {"service_lock", "service_tail", "service"} => state = "RUNNING"

\* Until then nothing was reserved, published or given back, and nobody else sends.
SilentBefore ==
  Unannounced =>
    /\ ring_tx_used_head = 0 /\ published = 0 /\ linux_holds = 0
    /\ ring_tx_used_tail = VRING_SIZE - 1
    /\ \A t \in Senders : pc[t] = "idle"

AnnounceInv == PlaceAgrees /\ SilentBefore

LEMMA TasksDisjoint == TxTask \in Tasks /\ \A t \in Senders : t \in Tasks /\ t # TxTask
BY TaskAssumption DEF Tasks

LEMMA AnnounceSend ==
  ASSUME CreditInv, AnnounceInv, NEW t \in Tasks, (t \in Senders /\ BeginSend(t)) \/ Send(t)
  PROVE  AnnounceInv'
<1> USE TasksDisjoint DEF AnnounceInv, PlaceAgrees, SilentBefore, Unannounced, CreditInv, TypeOK,
        At, Goto, ringVars, sharedVars, linuxVars
<1>1. CASE t \in Senders /\ BeginSend(t)
  <2>1. t # TxTask /\ Len(delivered) # 0
    BY <1>1 DEF BeginSend
  <2>2. published # 0
    BY <2>1 DEF IrqHasMessage
  <2> QED
    BY <1>1, <2>1, <2>2 DEF BeginSend
<1>2. CASE Send(t)
  <2>1. pc[t] \in SendLabels
    BY <1>2 DEF Send, SendLock, SendFull, Reserve, Bump, Write, CommitLock, Commit,
                lock_txring_mutex, SendLabels
  <2>2. ~ Unannounced
    BY <2>1 DEF SendLabels, Tasks
  <2>3. ~ Unannounced' /\ PlaceAgrees'
    <3>1. CASE SendLock(t) \/ SendFull(t) \/ Reserve(t) \/ Bump(t) \/ Write(t) \/ CommitLock(t)
      <4>1. state' = state /\ \A u \in Tasks : u # t => pc'[u] = pc[u]
        BY <3>1 DEF SendLock, SendFull, Reserve, Bump, Write, CommitLock, lock_txring_mutex
      <4>2. pc'[t] \in SendLabels
        BY <3>1 DEF SendLock, SendFull, Reserve, Bump, Write, CommitLock, lock_txring_mutex,
                    SendLabels
      <4> QED
        BY <2>2, <4>1, <4>2 DEF SendLabels
    <3>2. CASE Commit(t)
      <4>1. CASE t = TxTask
        BY <3>2, <4>1 DEF Commit, SendDone
      <4>2. CASE t # TxTask
        BY <2>2, <3>2, <4>2 DEF Commit, SendDone
      <4> QED
        BY <4>1, <4>2
    <3> QED
      BY <1>2, <3>1, <3>2 DEF Send
  <2> QED
    BY <2>3
<1>3. QED
  BY <1>1, <1>2

LEMMA AnnounceTask ==
  ASSUME CreditInv, AnnounceInv, txvring_task
  PROVE  AnnounceInv'
<1> USE TasksDisjoint DEF AnnounceInv, PlaceAgrees, SilentBefore, Unannounced, CreditInv, TypeOK,
        At, Goto, ringVars, sharedVars, linuxVars
<1>1. CASE TakeKick
  BY <1>1 DEF TakeKick
<1>2. CASE NoKick \/ Suspend
  BY <1>2 DEF NoKick, Suspend
<1>3. CASE AnnounceLock \/ ServiceLock
  BY <1>3 DEF AnnounceLock, ServiceLock, lock_txring_mutex
<1>4. CASE Announce
  BY <1>4 DEF Announce
<1>5. CASE ServiceTail
  BY <1>5 DEF ServiceTail
<1>6. CASE Service
  BY <1>6 DEF Service
<1>7. QED
  BY <1>1, <1>2, <1>3, <1>4, <1>5, <1>6 DEF txvring_task

LEMMA AnnounceStep ==
  ASSUME CreditInv, AnnounceInv, [Next]_vars
  PROVE  AnnounceInv'
<1> USE TasksDisjoint DEF AnnounceInv, PlaceAgrees, SilentBefore, Unannounced, CreditInv, TypeOK,
        ringVars, sharedVars, taskVars
<1>1. CASE txvring_irq2
  BY <1>1 DEF txvring_irq2, linuxVars
<1>2. CASE LinuxReceive
  <2>1. linux_irq = 1 /\ published # 0
    BY <1>2 DEF LinuxReceive, IrqHasMessage
  <2> QED
    BY <1>2, <2>1 DEF LinuxReceive
<1>3. CASE LinuxReturn
  BY <1>3 DEF LinuxReturn
<1>4. CASE UNCHANGED vars
  BY <1>4 DEF vars, linuxVars
<1>5. QED
  BY <1>1, <1>2, <1>3, <1>4, AnnounceSend, AnnounceTask DEF Next, Tasks

LEMMA AnnounceHolds == Spec => []AnnounceInv
<1>1. Init => AnnounceInv
  BY TasksDisjoint DEF Init, AnnounceInv, PlaceAgrees, SilentBefore, Unannounced
<1>2. CreditInv /\ AnnounceInv /\ [Next]_vars => AnnounceInv'
  BY AnnounceStep
<1>3. QED
  BY <1>1, <1>2, CreditHolds, PTL DEF Spec

\* 1 while txvring_task is about to move the tail for a kick it has taken.
InHand == IF pc[TxTask] \in {"service_lock", "service_tail"} THEN 1 ELSE 0

\* Each message Linux has read is held by it, has its return under way as a kick,
\* or is behind the tail.
BuffersCounted ==
  ~ Unannounced =>
    Len(delivered) = returned + linux_holds + irq2_pending + txvring_kicks + InHand

LEMMA BuffersSend ==
  ASSUME CreditInv, AnnounceInv, BuffersCounted, NEW t \in Tasks,
         (t \in Senders /\ BeginSend(t)) \/ Send(t)
  PROVE  BuffersCounted'
<1> USE TasksDisjoint DEF CreditInv, TypeOK, ringVars, sharedVars, linuxVars
<1>1. UNCHANGED <<ring_tx_used_tail, linux_holds, irq2_pending, txvring_kicks, delivered>>
  <2>1. CASE Commit(t)
    BY <2>1 DEF Commit, Publish, NoPublish
  <2>2. CASE ~ Commit(t)
    BY <2>2 DEF BeginSend, Send, SendLock, SendFull, Reserve, Bump, Write, CommitLock,
                lock_txring_mutex
  <2> QED
    BY <2>1, <2>2
<1>2. CASE t # TxTask
  <2>1. state' = state /\ pc'[TxTask] = pc[TxTask]
    <3>1. CASE Commit(t)
      BY <1>2, <3>1 DEF Commit, SendDone, Goto
    <3>2. CASE ~ Commit(t)
      BY <1>2, <3>2 DEF BeginSend, Send, SendLock, SendFull, Reserve, Bump, Write, CommitLock,
                        lock_txring_mutex, Goto
    <3> QED
      BY <3>1, <3>2
  <2> QED
    BY <1>1, <2>1 DEF BuffersCounted, Unannounced, InHand, returned
<1>3. CASE t = TxTask
  <2>1. pc[t] \in SendLabels
    BY <1>3 DEF Send, SendLock, SendFull, Reserve, Bump, Write, CommitLock, Commit,
                lock_txring_mutex, SendLabels, At
  <2>2. pc'[t] \in SendLabels \cup {"poll"}
    <3>1. CASE Commit(t)
      BY <1>3, <3>1 DEF Commit, SendDone, Goto
    <3>2. CASE ~ Commit(t)
      BY <1>3, <3>2 DEF Send, SendLock, SendFull, Reserve, Bump, Write, CommitLock,
                        lock_txring_mutex, Goto, SendLabels
    <3> QED
      BY <3>1, <3>2
  <2>3. ~ Unannounced /\ InHand = 0 /\ InHand' = 0
    BY <1>3, <2>1, <2>2 DEF SendLabels, Unannounced, InHand
  <2> QED
    BY <1>1, <2>3 DEF BuffersCounted, returned
<1>4. QED
  BY <1>2, <1>3

LEMMA BuffersTask ==
  ASSUME CreditInv, AnnounceInv, BuffersCounted, txvring_task
  PROVE  BuffersCounted'
<1> USE TasksDisjoint DEF CreditInv, TypeOK, At, Goto, ringVars, sharedVars, linuxVars,
        BuffersCounted, Unannounced, InHand, returned
<1>1. CASE TakeKick
  <2>1. /\ pc[TxTask] = "poll" /\ txvring_kicks' = txvring_kicks - 1
        /\ pc'[TxTask] = (IF state = "SERVICE_ANNOUNCE" THEN "announce_lock" ELSE "service_lock")
        /\ UNCHANGED <<state, ring_tx_used_tail, linux_holds, irq2_pending, delivered>>
    BY <1>1 DEF TakeKick
  <2>2. CASE state = "SERVICE_ANNOUNCE"
    BY <2>1, <2>2
  <2>3. CASE state # "SERVICE_ANNOUNCE"
    <3>1. Len(delivered) = returned + linux_holds + irq2_pending + txvring_kicks
      BY <2>1, <2>3, SizeAssumption
    <3>2. InHand' = 1 /\ returned' = returned
      BY <2>1, <2>3
    <3> QED
      BY <2>1, <3>1, <3>2, SizeAssumption
  <2> QED
    BY <2>2, <2>3
<1>2. CASE NoKick \/ Suspend
  BY <1>2 DEF NoKick, Suspend
<1>3. CASE AnnounceLock \/ ServiceLock
  BY <1>3 DEF AnnounceLock, ServiceLock, lock_txring_mutex
<1>4. CASE Announce
  <2>1. Unannounced /\ Serving
    BY <1>4 DEF Announce, AnnounceInv, PlaceAgrees, Serving
  <2>2. Len(delivered) = 0 /\ ring_tx_used_tail = VRING_SIZE - 1 /\ linux_holds = 0
        /\ irq2_pending = 0 /\ txvring_kicks = 0
    BY <2>1 DEF AnnounceInv, SilentBefore, IrqHasMessage, OneCredit, Credit
  <2>3. UNCHANGED <<ring_tx_used_tail, linux_holds, irq2_pending, txvring_kicks, delivered>>
        /\ pc'[TxTask] = "send_lock"
    BY <1>4 DEF Announce
  <2> QED
    BY <2>2, <2>3, SizeAssumption
<1>5. CASE ServiceTail
  BY <1>5, SizeAssumption DEF ServiceTail
<1>6. CASE Service
  BY <1>6 DEF Service, Publish, NoPublish, AnnounceInv, PlaceAgrees
<1>7. QED
  BY <1>1, <1>2, <1>3, <1>4, <1>5, <1>6 DEF txvring_task

LEMMA BuffersStep ==
  ASSUME CreditInv, AnnounceInv, BuffersCounted, [Next]_vars
  PROVE  BuffersCounted'
<1> USE TasksDisjoint DEF CreditInv, TypeOK, ringVars, sharedVars, taskVars, BuffersCounted,
        Unannounced, InHand, returned
<1>1. CASE txvring_irq2
  <2>1. /\ irq2_pending = 1 /\ irq2_pending' = 0 /\ txvring_kicks' = txvring_kicks + 1
        /\ pc' = [pc EXCEPT ![TxTask] = IF pc[TxTask] = "suspended" THEN "poll"
                                        ELSE pc[TxTask]]
        /\ UNCHANGED <<state, ring_tx_used_tail, linux_holds, delivered>>
    BY <1>1 DEF txvring_irq2, linuxVars
  <2>2. pc'[TxTask] = IF pc[TxTask] = "suspended" THEN "poll" ELSE pc[TxTask]
    BY <2>1 DEF Tasks
  <2>3. Unannounced' = Unannounced /\ InHand' = InHand /\ returned' = returned
    BY <2>1, <2>2, SizeAssumption
  <2>4. InHand \in {0, 1} /\ returned \in Int /\ Len(delivered) \in Nat
    BY SizeAssumption
  <2> QED
    BY <2>1, <2>3, <2>4
<1>2. CASE LinuxReceive
  <2>1. linux_irq = 1 /\ published = Len(delivered) + 1 /\ linux_holds = 0
    BY <1>2 DEF LinuxReceive, IrqHasMessage, OneCredit, Credit
  <2>2. last_used_idx # ring_tx_used_idx
    BY <2>1, NextIdxDiffers DEF last_used_idx, ring_tx_used_idx
  <2>3. PICK m : delivered' = Append(delivered, m) /\ linux_holds' = 1
    BY <1>2, <2>2 DEF LinuxReceive
  <2>4. Len(delivered') = Len(delivered) + 1
    BY <2>3
  <2>5. UNCHANGED <<pc, state, ring_tx_used_tail, irq2_pending, txvring_kicks>>
    BY <1>2 DEF LinuxReceive
  <2>6. /\ Unannounced' = Unannounced /\ InHand' = InHand /\ returned' = returned
        /\ InHand \in {0, 1} /\ returned \in Int /\ Len(delivered) \in Nat
    BY <2>5, SizeAssumption
  <2> HIDE DEF Unannounced, InHand, returned
  <2> QED
    BY <2>1, <2>3, <2>4, <2>5, <2>6
<1>3. CASE LinuxReturn
  <2>1. irq2_pending = 0 /\ irq2_pending' = 1 /\ linux_holds = 1 /\ linux_holds' = 0
        /\ UNCHANGED <<pc, state, ring_tx_used_tail, txvring_kicks, delivered>>
    BY <1>3 DEF LinuxReturn, OneCredit, Credit
  <2> QED
    BY <2>1, SizeAssumption
<1>4. CASE UNCHANGED vars
  BY <1>4 DEF vars, linuxVars
<1>5. QED
  BY <1>1, <1>2, <1>3, <1>4, BuffersSend, BuffersTask DEF Next, Tasks

LEMMA BuffersHold == Spec => []BuffersCounted
<1>1. Init => BuffersCounted
  BY TasksDisjoint DEF Init, BuffersCounted, Unannounced
<1>2. CreditInv /\ AnnounceInv /\ BuffersCounted /\ [Next]_vars => BuffersCounted'
  BY BuffersStep
<1>3. QED
  BY <1>1, <1>2, CreditHolds, AnnounceHolds, PTL DEF Spec

\* Linux is not taken to have given back what it has not read.
ReturnedIsRead == returned <= Len(delivered)

\* txvring_task moves the tail once for each buffer that Linux has read and given
\* back, and never for the kick of Linux's probe (lines 157-192): for every set of
\* senders, every ring size and every choice of windows, the room a sender sees is
\* room Linux has made.
THEOREM TailBehindReader == Spec => []ReturnedIsRead
<1>1. CreditInv /\ AnnounceInv /\ BuffersCounted => ReturnedIsRead
  BY SizeAssumption DEF CreditInv, TypeOK, AnnounceInv, SilentBefore, BuffersCounted, InHand,
     returned, ReturnedIsRead, IrqHasMessage
<1>2. QED
  BY <1>1, CreditHolds, AnnounceHolds, BuffersHold, PTL

-------------------------------------------------------------------------------
(* No switch inside a send outside the mutex *)

\* No time slice ends between the reservation and the commit.
WindowsClosed == "write" \notin Windows /\ "commit" \notin Windows

\* The 16-bit index still tells how much was published.
IndexUnwrapped == ring_tx_used_head < IDX_MOD

Passed == {"write", "commit_lock", "commit"}

\* A message on its way is the last reserved, and the next to publish if Linux
\* waits for one.
SenderIsLast ==
  \A t \in Tasks : pc[t] \in Passed =>
    /\ num[t] = ring_tx_used_head - 1
    /\ published <= num[t]
    /\ ring_tx_ready > 0 => published = num[t]

\* With none on its way, Linux waits only when all is published.
ReadyIsUpToDate ==
  (\A t \in Tasks : pc[t] \notin Passed) =>
    /\ published <= ring_tx_used_head
    /\ ring_tx_ready > 0 => published = ring_tx_used_head

PublishInv == SenderIsLast /\ ReadyIsUpToDate

\* A task inside the mutex is the only one between Bump and the end of its send.
LEMMA NobodyElsePassed ==
  ASSUME WindowsClosed, MutexHeldInside, NEW t \in Tasks, NEW from \in Critical, At(t, from)
  PROVE  \A u \in Tasks : u # t => pc[u] \notin Passed
<1> SUFFICES ASSUME NEW u \in Tasks, u # t PROVE pc[u] \notin Passed
  OBVIOUS
<1>1. pc[u] # "write" /\ pc[u] # "commit_lock"
  BY DEF At, InClosedWindow, WindowsClosed
<1>2. pc[u] # "commit"
  BY OneInside DEF At, Critical
<1>3. QED
  BY <1>1, <1>2 DEF Passed

\* What PublishInv speaks of stays as it is.
LEMMA PublishFrame ==
  ASSUME PublishInv,
         UNCHANGED <<ring_tx_used_head, published, ring_tx_ready, num>>,
         \A u \in Tasks : pc'[u] \in Passed <=> pc[u] \in Passed
  PROVE  PublishInv'
BY DEF PublishInv, SenderIsLast, ReadyIsUpToDate

LEMMA PublishSend ==
  ASSUME WindowsClosed, TypeOK, OneCredit, MutexHeldInside, ReservationInv, PublishInv,
         NEW t \in Tasks, BeginSend(t) \/ Send(t)
  PROVE  PublishInv'
<1> USE DEF TypeOK, At, Goto, ringVars, sharedVars
<1>1. CASE BeginSend(t) \/ SendFull(t)
  BY <1>1, PublishFrame DEF BeginSend, SendFull, Passed
<1>2. CASE SendLock(t) \/ CommitLock(t)
  BY <1>2, PublishFrame DEF SendLock, CommitLock, lock_txring_mutex, Passed
<1>3. CASE Reserve(t)
  <2>1. \A u \in Tasks : u # t => pc[u] \notin Passed
    BY <1>3, NobodyElsePassed DEF Reserve, Critical
  <2>2. \A u \in Tasks : pc[u] \notin Passed /\ pc'[u] \notin Passed
    BY <1>3, <2>1 DEF Reserve, Passed
  <2> QED
    BY <1>3, <2>2 DEF Reserve, PublishInv, SenderIsLast, ReadyIsUpToDate
<1>4. CASE Bump(t)
  <2>1. \A u \in Tasks : u # t => pc[u] \notin Passed
    BY <1>4, NobodyElsePassed DEF Bump, Critical
  <2>2. \A u \in Tasks : pc[u] \notin Passed
    BY <1>4, <2>1 DEF Bump, Passed
  <2>3. published <= ring_tx_used_head /\ (ring_tx_ready > 0 => published = ring_tx_used_head)
    BY <2>2 DEF PublishInv, ReadyIsUpToDate
  <2>4. num[t] = ring_tx_used_head
    BY <1>4 DEF Bump, ReservationInv, ReservedBelowHead
  <2>5. /\ ring_tx_used_head' = ring_tx_used_head + 1
        /\ UNCHANGED <<num, published, ring_tx_ready>>
        /\ pc'[t] \in Passed
        /\ \A u \in Tasks : u # t => pc'[u] \notin Passed
    BY <1>4, <2>1 DEF Bump, Passed
  <2> QED
    BY <2>3, <2>4, <2>5 DEF PublishInv, SenderIsLast, ReadyIsUpToDate
<1>5. CASE Write(t)
  BY <1>5, PublishFrame DEF Write, Passed
<1>6. CASE Commit(t)
  <2>1. \A u \in Tasks : u # t => pc[u] \notin Passed
    BY <1>6, NobodyElsePassed DEF Commit, Critical
  <2>2. \A u \in Tasks : pc'[u] \notin Passed
    <3>1. CASE t = TxTask
      BY <1>6, <2>1, <3>1 DEF Commit, SendDone, Passed
    <3>2. CASE t # TxTask
      BY <1>6, <2>1, <3>2 DEF Commit, SendDone, Passed
    <3> QED
      BY <3>1, <3>2
  <2>3. /\ num[t] = ring_tx_used_head - 1 /\ published <= num[t]
        /\ ring_tx_ready > 0 => published = num[t]
    BY <1>6 DEF Commit, PublishInv, SenderIsLast, Passed
  <2>4. ring_tx_ready <= 1
    BY DEF OneCredit, Credit
  <2>5. CASE ring_tx_ready > 0
    BY <1>6, <2>2, <2>3, <2>4, <2>5 DEF Commit, Publish, PublishInv, SenderIsLast, ReadyIsUpToDate
  <2>6. CASE ~ (ring_tx_ready > 0)
    BY <1>6, <2>2, <2>3, <2>6 DEF Commit, NoPublish, PublishInv, SenderIsLast, ReadyIsUpToDate
  <2> QED
    BY <2>5, <2>6
<1>7. QED
  BY <1>1, <1>2, <1>3, <1>4, <1>5, <1>6 DEF Send

LEMMA PublishTask ==
  ASSUME WindowsClosed, IndexUnwrapped, CreditInv, MutexHeldInside, AnnounceInv, PublishInv,
         txvring_task
  PROVE  PublishInv'
<1> USE TasksDisjoint DEF CreditInv, TypeOK, At, Goto, ringVars, sharedVars
<1>1. CASE TakeKick \/ NoKick \/ Suspend \/ ServiceTail
  BY <1>1, PublishFrame DEF TakeKick, NoKick, Suspend, ServiceTail, Passed
<1>2. CASE AnnounceLock \/ ServiceLock
  BY <1>2, PublishFrame DEF AnnounceLock, ServiceLock, lock_txring_mutex, Passed
<1>3. CASE Announce
  <2>1. \A u \in Tasks : u # TxTask => pc[u] \notin Passed
    BY <1>3, NobodyElsePassed DEF Announce, Critical
  <2>2. \A u \in Tasks : pc'[u] \notin Passed
    BY <1>3, <2>1 DEF Announce, Passed
  <2>3. ring_tx_used_head = 0 /\ published = 0
    BY <1>3 DEF Announce, AnnounceInv, PlaceAgrees, SilentBefore, Unannounced
  <2> QED
    BY <1>3, <2>2, <2>3 DEF Announce, PublishInv, SenderIsLast, ReadyIsUpToDate
<1>4. CASE Service
  <2>1. \A u \in Tasks : u # TxTask => pc[u] \notin Passed
    BY <1>4, NobodyElsePassed DEF Service, Critical
  <2>2. \A u \in Tasks : pc[u] \notin Passed /\ pc'[u] \notin Passed
    BY <1>4, <2>1 DEF Service, Passed
  <2>3. published <= ring_tx_used_head /\ ring_tx_ready = 0
    BY <1>4, <2>2 DEF Service, PublishInv, ReadyIsUpToDate, OneCredit, Credit, Serving
  <2>4. ring_tx_used_idx = published
    BY <2>3, SmallRemainder, SizeAssumption DEF IndexUnwrapped, ring_tx_used_idx
  <2>5. CASE published # ring_tx_used_head
    BY <1>4, <2>2, <2>3, <2>4, <2>5 DEF Service, Publish, PublishInv, SenderIsLast, ReadyIsUpToDate
  <2>6. CASE published = ring_tx_used_head
    BY <1>4, <2>2, <2>4, <2>6 DEF Service, NoPublish, PublishInv, SenderIsLast, ReadyIsUpToDate
  <2> QED
    BY <2>5, <2>6
<1>5. QED
  BY <1>1, <1>2, <1>3, <1>4 DEF txvring_task

LEMMA PublishStep ==
  ASSUME WindowsClosed, IndexUnwrapped, CreditInv, MutexHeldInside, ReservationInv, AnnounceInv,
         PublishInv, [Next]_vars
  PROVE  PublishInv'
<1> USE TasksDisjoint DEF CreditInv, TypeOK, ringVars, sharedVars, taskVars
<1>1. CASE txvring_irq2
  BY <1>1, PublishFrame DEF txvring_irq2, Passed
<1>2. CASE LinuxReceive \/ LinuxReturn
  BY <1>2, PublishFrame DEF LinuxReceive, LinuxReturn
<1>3. CASE UNCHANGED vars
  BY <1>3, PublishFrame DEF vars
<1>4. QED
  BY <1>1, <1>2, <1>3, PublishSend, PublishTask DEF Next, Tasks

LEMMA PublishHolds ==
  ASSUME WindowsClosed
  PROVE  Spec /\ []IndexUnwrapped => []PublishInv
<1>1. Init => PublishInv
  BY DEF Init, PublishInv, SenderIsLast, ReadyIsUpToDate, Tasks, Passed
<1>2. /\ IndexUnwrapped /\ CreditInv /\ MutexHeldInside /\ ReservationInv /\ AnnounceInv
      /\ PublishInv /\ [Next]_vars
      => PublishInv'
  BY PublishStep
<1>3. QED
  BY <1>1, <1>2, CreditHolds, MutexCorrect, ReservationsHold, AnnounceHolds, PTL DEF Spec

\* With no switch inside a send outside the mutex, and before the 16-bit index
\* wraps, no reserved message is left in the ring with nobody to publish it
\* (remoteproc.c 182-191 against 281-294).
THEOREM NobodyStranded ==
  ASSUME WindowsClosed
  PROVE  Spec /\ []IndexUnwrapped => []NothingStranded
<1>1. PublishInv => NothingStranded
  BY DEF PublishInv, ReadyIsUpToDate, NothingStranded, InSend, Passed
<1>2. QED
  BY <1>1, PublishHolds, PTL

\* Under the same conditions nothing is published that no task reserved; findings
\* 1 and 2 of the README are what happens without either of them.
THEOREM OnlyReservedPublished ==
  ASSUME WindowsClosed
  PROVE  Spec /\ []IndexUnwrapped => []NothingInvented
<1>1. TypeOK /\ PublishInv => NothingInvented
  <2> SUFFICES ASSUME TypeOK, PublishInv PROVE published <= ring_tx_used_head
    BY DEF NothingInvented
  <2>1. CASE \E t \in Tasks : pc[t] \in Passed
    BY <2>1 DEF PublishInv, SenderIsLast, TypeOK
  <2>2. CASE \A t \in Tasks : pc[t] \notin Passed
    BY <2>2 DEF PublishInv, ReadyIsUpToDate
  <2> QED
    BY <2>1, <2>2
<1>2. QED
  BY <1>1, TypeCorrect, PublishHolds, PTL

-------------------------------------------------------------------------------
(* What the buffers hold *)

\* Each outstanding message is whole in its slot, unless its sender still writes it.
WrittenIntact ==
  \A n \in Outstanding :
    (\A t \in Tasks : pc[t] = "write" => num[t] # n) => buf[n % VRING_SIZE] = n

LEMMA WrittenIntactStep ==
  ASSUME TypeOK, HeadBehindTail, ReservationInv, NoOverwrite, WrittenIntact, [Next]_vars
  PROVE  WrittenIntact'
<1> USE DEF TypeOK
<1>0. returned \in Int /\ ring_tx_used_head \in Nat
  BY SizeAssumption DEF returned
<1>1. ASSUME NEW t \in Tasks, Reserve(t) PROVE WrittenIntact'
  <2>1. /\ UNCHANGED <<ring_tx_used_head, ring_tx_used_tail, buf>>
        /\ \A u \in Tasks : u # t => pc'[u] = pc[u] /\ num'[u] = num[u]
        /\ pc[t] # "write"
    BY <1>1 DEF Reserve, At, Goto, ringVars, sharedVars
  <2>2. Outstanding' = Outstanding
    BY <2>1 DEF Outstanding, returned
  <2>3. ASSUME NEW n \in Outstanding', \A u \in Tasks : pc'[u] = "write" => num'[u] # n
        PROVE  buf'[n % VRING_SIZE] = n
    <3>1. n \in Outstanding
      BY <2>2
    <3>2. \A u \in Tasks : pc[u] = "write" => num[u] # n
      BY <2>1, <2>3
    <3>3. buf[n % VRING_SIZE] = n
      BY <3>1, <3>2 DEF WrittenIntact
    <3> QED
      BY <2>1, <3>3
  <2> QED
    BY <2>3 DEF WrittenIntact
<1>2. ASSUME NEW t \in Tasks, Bump(t) PROVE WrittenIntact'
  <2>1. /\ ring_tx_used_head' = ring_tx_used_head + 1
        /\ UNCHANGED <<ring_tx_used_tail, buf, num>>
        /\ \A u \in Tasks : u # t => pc'[u] = pc[u]
        /\ pc[t] = "bump" /\ pc'[t] = "write"
    BY <1>2 DEF Bump, At, Goto, sharedVars
  <2>2. num[t] = ring_tx_used_head
    BY <2>1 DEF ReservationInv, ReservedBelowHead
  <2> SUFFICES ASSUME NEW n \in Outstanding', \A u \in Tasks : pc'[u] = "write" => num'[u] # n
               PROVE  buf'[n % VRING_SIZE] = n
    BY DEF WrittenIntact
  <2>3. n # ring_tx_used_head
    BY <2>1, <2>2
  <2>4. n \in Outstanding
    BY <1>0, <2>1, <2>3 DEF Outstanding, returned
  <2> QED
    BY <2>1, <2>4 DEF WrittenIntact
<1>3. ASSUME NEW t \in Tasks, Write(t) PROVE WrittenIntact'
  <2>1. /\ buf' = [buf EXCEPT ![num[t] % VRING_SIZE] = num[t]]
        /\ UNCHANGED <<ring_tx_used_head, ring_tx_used_tail, num>>
        /\ \A u \in Tasks : u # t => pc'[u] = pc[u]
        /\ pc[t] = "write"
    BY <1>3 DEF Write, At, Goto, ringVars
  <2> SUFFICES ASSUME NEW n \in Outstanding', \A u \in Tasks : pc'[u] = "write" => num'[u] # n
               PROVE  buf'[n % VRING_SIZE] = n
    BY DEF WrittenIntact
  <2>2. n \in Outstanding /\ n \in returned .. ring_tx_used_head - 1
    BY <2>1 DEF Outstanding, returned
  <2>3. CASE n = num[t]
    BY <2>1, <2>3, RemainderIsSlot
  <2>4. CASE n # num[t]
    <3>1. n % VRING_SIZE # num[t] % VRING_SIZE
      BY <2>1, <2>2, <2>4 DEF NoOverwrite
    <3>2. buf[n % VRING_SIZE] = n
      BY <2>1, <2>2, <2>4 DEF WrittenIntact
    <3>3. n \in Nat
      BY <1>0, <2>2, SizeAssumption DEF HeadBehindTail, returned
    <3> QED
      BY <2>1, <3>1, <3>2, <3>3, RemainderIsSlot
  <2> QED
    BY <2>3, <2>4
<1>4. CASE \A t \in Tasks : ~ Reserve(t) /\ ~ Bump(t) /\ ~ Write(t)
  <2>1. Quiet
    BY <1>4, QuietStep
  <2>2. Outstanding' \subseteq Outstanding
    BY <1>0, <2>1, SizeAssumption DEF Outstanding, returned, Quiet
  <2> QED
    BY <2>1, <2>2 DEF WrittenIntact, Quiet
<1>5. QED
  BY <1>1, <1>2, <1>3, <1>4

LEMMA WrittenIntactHolds ==
  ASSUME WriteClosed
  PROVE  Spec => []WrittenIntact
<1>1. Init => WrittenIntact
  BY SizeAssumption DEF Init, WrittenIntact, Outstanding, returned
<1>2. TypeOK /\ HeadBehindTail /\ ReservationInv /\ NoOverwrite /\ WrittenIntact /\ [Next]_vars
      => WrittenIntact'
  BY WrittenIntactStep
<1>3. QED
  BY <1>1, <1>2, TypeCorrect, HeadBehindTailHolds, ReservationsHold, NothingOverwritten, PTL
     DEF Spec

\* Messages published and not read are outstanding, and nobody still writes them.
LEMMA UnreadIsWritten ==
  ASSUME TypeOK, ReturnedIsRead, NothingInvented, PublishInv, WrittenIntact,
         NEW n \in Len(delivered) .. published - 1
  PROVE  buf[n % VRING_SIZE] = n
<1>1. Len(delivered) \in Nat /\ returned \in Int
  BY SizeAssumption DEF TypeOK, returned
<1>2. n \in Outstanding
  BY <1>1 DEF Outstanding, ReturnedIsRead, NothingInvented, TypeOK
<1>3. \A t \in Tasks : pc[t] = "write" => num[t] # n
  BY <1>1 DEF PublishInv, SenderIsLast, Passed, TypeOK
<1>4. QED
  BY <1>2, <1>3 DEF WrittenIntact

\* What Linux is interrupted for was written to the last byte (lines 164-192,
\* 183-184), if no switch falls inside a send outside the mutex and the index has
\* not wrapped.
THEOREM OnlyWrittenPublished ==
  ASSUME WindowsClosed
  PROVE  Spec /\ []IndexUnwrapped => []PublishedIsWritten
<1>0. WriteClosed
  BY DEF WindowsClosed, WriteClosed
<1>1. TypeOK /\ ReturnedIsRead /\ NothingInvented /\ PublishInv /\ WrittenIntact
      => PublishedIsWritten
  BY UnreadIsWritten DEF PublishedIsWritten
<1>2. QED
  BY <1>0, <1>1, TypeCorrect, TailBehindReader, OnlyReservedPublished, PublishHolds,
     WrittenIntactHolds, PTL

-------------------------------------------------------------------------------
(* The ring implements the channel *)

\* What the refinement mapping makes of `accepted'.
Accepted == ring_tx_used_head - Cardinality(Incomplete)

\* With at most one task writing, `accepted' is the head, less the message it writes.
AcceptedIs ==
  /\ \A t \in Tasks : pc[t] = "write" => Accepted = ring_tx_used_head - 1
  /\ (\A t \in Tasks : pc[t] # "write") => Accepted = ring_tx_used_head

LEMMA AcceptedFromHead ==
  ASSUME TypeOK, ReservationsUnique, WriterIsLast
  PROVE  AcceptedIs
<1>1. ASSUME NEW t \in Tasks, pc[t] = "write"
      PROVE  Accepted = ring_tx_used_head - 1
  <2>1. \A u \in Tasks : pc[u] = "write" => u = t
    BY <1>1 DEF ReservationsUnique, WriterIsLast, InSend
  <2>2. Incomplete = {t}
    BY <1>1, <2>1 DEF Incomplete
  <2>3. Cardinality(Incomplete) = 1
    BY <2>2, FS_Singleton
  <2> QED
    BY <2>3 DEF Accepted
<1>2. ASSUME \A t \in Tasks : pc[t] # "write"
      PROVE  Accepted = ring_tx_used_head
  <2>1. Incomplete = {}
    BY <1>2 DEF Incomplete
  <2>2. Cardinality(Incomplete) = 0
    BY <2>1, FS_EmptySet
  <2> QED
    BY <2>2 DEF Accepted, TypeOK
<1>3. QED
  BY <1>1, <1>2 DEF AcceptedIs

\* The state facts the steps of the refinement rest on.
RefineInv ==
  /\ TypeOK /\ MutexHeldInside /\ HeadBehindTail /\ ReservationInv /\ WriterIsLast
  /\ IrqHasMessage /\ ReturnedIsRead /\ NothingInvented /\ PublishInv /\ WrittenIntact
  /\ AcceptedIs

ChannelStep == [Channel!ChanNext]_(Channel!chanVars)

\* Write completes a message: the channel accepts it, and has room for it.
LEMMA WriteAccepts ==
  ASSUME WriteClosed, RefineInv, AcceptedIs', NEW t \in Tasks, Write(t)
  PROVE  Channel!Accept
<1> USE DEF RefineInv, TypeOK
<1>1. /\ pc[t] = "write" /\ pc'[t] = "commit_lock"
      /\ \A u \in Tasks : u # t => pc'[u] = pc[u]
      /\ UNCHANGED <<ring_tx_used_head, delivered>>
  BY DEF Write, At, Goto, ringVars, linuxVars
<1>2. \A u \in Tasks : pc'[u] # "write"
  <2>1. \A u \in Tasks : u # t => pc[u] # "write"
    BY DEF Write, At, InClosedWindow, WriteClosed
  <2> QED
    BY <1>1, <2>1
<1>3. Accepted = ring_tx_used_head - 1
  BY <1>1 DEF AcceptedIs
<1>4. Accepted' = ring_tx_used_head
  BY <1>1, <1>2 DEF AcceptedIs
<1>5. Len(delivered) \in Nat /\ ring_tx_used_tail - (VRING_SIZE - 1) <= Len(delivered)
  BY DEF ReturnedIsRead, returned
<1>6. Accepted - Len(delivered) < VRING_SIZE - 1
  BY <1>3, <1>5, SizeAssumption DEF HeadBehindTail
<1>7. Accepted' = Accepted + 1
  BY <1>3, <1>4
<1>8. QED
  BY <1>1, <1>6, <1>7 DEF Channel!Accept, Accepted

\* Linux's read delivers the oldest message it has not read, whole.
LEMMA ReceiveDelivers ==
  ASSUME IndexUnwrapped, RefineInv, LinuxReceive
  PROVE  Channel!Deliver
<1> USE DEF RefineInv, TypeOK
<1>1. /\ published = Len(delivered) + 1 /\ Len(delivered) \in Nat
      /\ UNCHANGED <<pc, ring_tx_used_head>>
  BY DEF LinuxReceive, IrqHasMessage, taskVars, ringVars
<1>2. last_used_idx # ring_tx_used_idx
  BY <1>1, NextIdxDiffers DEF last_used_idx, ring_tx_used_idx
<1>3. delivered' = Append(delivered, buf[last_used_idx % VRING_SIZE])
  BY <1>2 DEF LinuxReceive
<1>4. last_used_idx = Len(delivered)
  <2>1. IDX_MOD \in Nat /\ Len(delivered) < IDX_MOD
    BY <1>1, SizeAssumption DEF IndexUnwrapped, NothingInvented
  <2> QED
    BY <1>1, <2>1, SmallRemainder DEF last_used_idx
<1>5. buf[Len(delivered) % VRING_SIZE] = Len(delivered)
  <2>1. Len(delivered) \in Len(delivered) .. published - 1
    BY <1>1
  <2> QED
    BY <2>1, UnreadIsWritten
<1>6. Len(delivered) < Accepted
  <2>1. CASE \E t \in Tasks : pc[t] = "write"
    <3>1. PICK t \in Tasks : pc[t] = "write"
      BY <2>1
    <3>2. published <= num[t] /\ num[t] = ring_tx_used_head - 1
      BY <3>1 DEF PublishInv, SenderIsLast, Passed
    <3> QED
      BY <1>1, <3>1, <3>2 DEF AcceptedIs
  <2>2. CASE \A t \in Tasks : pc[t] # "write"
    BY <1>1, <2>2 DEF AcceptedIs, NothingInvented
  <2> QED
    BY <2>1, <2>2
<1>7. Accepted' = Accepted
  BY <1>1 DEF Accepted, Incomplete
<1>8. QED
  BY <1>3, <1>4, <1>5, <1>6, <1>7 DEF Channel!Deliver, Accepted

\* Bump reserves the message that its task then writes: nothing is accepted yet.
LEMMA BumpStutters ==
  ASSUME WriteClosed, RefineInv, AcceptedIs', NEW t \in Tasks, Bump(t)
  PROVE  UNCHANGED Channel!chanVars
<1> USE DEF RefineInv, TypeOK
<1>1. /\ pc[t] = "bump" /\ pc'[t] = "write"
      /\ ring_tx_used_head' = ring_tx_used_head + 1
      /\ UNCHANGED delivered
  BY DEF Bump, At, Goto, linuxVars
<1>2. \A u \in Tasks : pc[u] # "write"
  BY <1>1 DEF Bump, At, InClosedWindow, WriteClosed
<1>3. Accepted = ring_tx_used_head
  BY <1>2 DEF AcceptedIs
<1>4. Accepted' = ring_tx_used_head' - 1
  BY <1>1 DEF AcceptedIs
<1>5. Accepted' = Accepted
  BY <1>1, <1>3, <1>4
<1>6. QED
  BY <1>1, <1>5 DEF Channel!chanVars, Accepted

\* Every other step leaves head, writers and what Linux has read alone.
LEMMA OthersStutter ==
  ASSUME TypeOK, [Next]_vars, ~ LinuxReceive,
         \A t \in Tasks : ~ Bump(t) /\ ~ Write(t)
  PROVE  UNCHANGED Channel!chanVars
<1>1. UNCHANGED delivered
  <2>1. ASSUME NEW t \in Tasks, BeginSend(t) \/ Send(t) PROVE UNCHANGED delivered
    <3>1. CASE Commit(t)
      BY <3>1 DEF Commit, Publish, NoPublish, linuxVars
    <3>2. CASE ~ Commit(t)
      BY <2>1, <3>2 DEF BeginSend, Send, SendLock, SendFull, Reserve, Bump, Write, CommitLock,
                        lock_txring_mutex, linuxVars
    <3> QED
      BY <3>1, <3>2
  <2>2. CASE txvring_task
    <3>1. CASE Service
      BY <3>1 DEF Service, Publish, NoPublish, linuxVars
    <3>2. CASE ~ Service
      BY <2>2, <3>2 DEF txvring_task, TakeKick, NoKick, Suspend, AnnounceLock, Announce,
                        ServiceLock, ServiceTail, lock_txring_mutex, linuxVars
    <3> QED
      BY <3>1, <3>2
  <2>3. CASE txvring_irq2 \/ LinuxReturn \/ UNCHANGED vars
    BY <2>3 DEF txvring_irq2, LinuxReturn, vars, linuxVars
  <2> QED
    BY <2>1, <2>2, <2>3 DEF Next, Tasks
<1>2. /\ UNCHANGED ring_tx_used_head
      /\ \A u \in Tasks : pc'[u] = "write" <=> pc[u] = "write"
  <2>1. ASSUME NEW t \in Tasks, Reserve(t)
        PROVE  /\ UNCHANGED ring_tx_used_head
               /\ \A u \in Tasks : pc'[u] = "write" <=> pc[u] = "write"
    BY <2>1 DEF Reserve, At, Goto, ringVars, TypeOK
  <2>2. CASE \A t \in Tasks : ~ Reserve(t) /\ ~ Bump(t) /\ ~ Write(t)
    BY <2>2, QuietStep DEF Quiet
  <2> QED
    BY <2>1, <2>2
<1>3. Incomplete' = Incomplete
  BY <1>2 DEF Incomplete
<1>4. QED
  BY <1>1, <1>2, <1>3 DEF Channel!chanVars

\* For every set of senders and every ring size: with no switch inside a send
\* outside the mutex, and as long as the 16-bit index has not wrapped, every step of
\* the ring (remoteproc.c 95-313) is a step of the bounded FIFO channel, or none.
\* What Linux reads is the messages sent, in order, once and whole.
THEOREM RingIsChannel ==
  ASSUME WindowsClosed
  PROVE  Spec /\ []IndexUnwrapped => Channel!ChanInit /\ [][Channel!ChanNext]_(Channel!chanVars)
<1>0. WriteClosed
  BY DEF WindowsClosed, WriteClosed
<1>1. Init => Channel!ChanInit
  <2> SUFFICES ASSUME Init PROVE Channel!ChanInit
    OBVIOUS
  <2>1. Incomplete = {}
    BY DEF Init, Incomplete
  <2>2. Cardinality(Incomplete) = 0
    BY <2>1, FS_EmptySet
  <2> QED
    BY <2>2 DEF Init, Channel!ChanInit
<1>2. TypeOK /\ ReservationInv /\ WriterIsLast => AcceptedIs
  BY AcceptedFromHead DEF ReservationInv
<1>3. IndexUnwrapped /\ RefineInv /\ AcceptedIs' /\ [Next]_vars => ChannelStep
  <2> SUFFICES ASSUME IndexUnwrapped, RefineInv, AcceptedIs', [Next]_vars
               PROVE  Channel!Accept \/ Channel!Deliver \/ UNCHANGED Channel!chanVars
    BY DEF ChannelStep, Channel!ChanNext
  <2>1. CASE \E t \in Tasks : Write(t)
    BY <1>0, <2>1, WriteAccepts
  <2>2. CASE \E t \in Tasks : Bump(t)
    BY <1>0, <2>2, BumpStutters
  <2>3. CASE LinuxReceive
    BY <2>3, ReceiveDelivers
  <2>4. CASE ~ LinuxReceive /\ \A t \in Tasks : ~ Bump(t) /\ ~ Write(t)
    BY <2>4, OthersStutter DEF RefineInv
  <2> QED
    BY <2>1, <2>2, <2>3, <2>4
<1>4. QED
  BY <1>0, <1>1, <1>2, <1>3, TypeCorrect, MutexCorrect, HeadBehindTailHolds, ReservationsHold,
     WriterIsLastHolds, CreditHolds, TailBehindReader, OnlyReservedPublished, PublishHolds,
     WrittenIntactHolds, PTL DEF Spec, RefineInv, CreditInv, ChannelStep
===============================================================================
