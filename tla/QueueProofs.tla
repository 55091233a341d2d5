------------------------------ MODULE QueueProofs ------------------------------
(***************************************************************************)
(* Theorems about Queue: the rings of items are bounded sequences, no      *)
(* wake-up is lost, and time-outs are honest.                              *)
(***************************************************************************)
EXTENDS Queue, KernelProofs

-------------------------------------------------------------------------------
(* The ring of items *)

\* A record that has the fields of a queue.
IsQueue(r) ==
  r = [kind |-> r.kind, messagesWaiting |-> r.messagesWaiting, store |-> r.store,
       writeTo |-> r.writeTo, readFrom |-> r.readFrom,
       rxLock |-> r.rxLock, txLock |-> r.txLock,
       mutexHolder |-> r.mutexHolder, recursiveCallCount |-> r.recursiveCallCount]

\* pcWriteTo is one place behind the last item, counted from pcReadFrom, which is one
\* before the first; a semaphore and a mutex have no data and move neither.
Ring(r) ==
  LET n == LENGTH[r.kind]
  IN  /\ r.kind \in Kinds /\ r.messagesWaiting \in 0 .. n
      /\ r.store \in [0 .. n - 1 -> Items]
      /\ r.writeTo \in 0 .. n - 1 /\ r.readFrom \in 0 .. n - 1
      /\ IF r.kind = "data" THEN r.writeTo = (r.readFrom + r.messagesWaiting + 1) % n
                            ELSE r.store = [i \in 0 .. n - 1 |-> Nothing]

ItemsOf(r) ==
  [i \in 1 .. r.messagesWaiting |-> r.store[(r.readFrom + i) % LENGTH[r.kind]]]

LEMMA Lengths ==
  ASSUME NEW kind \in Kinds
  PROVE  LENGTH[kind] \in Nat \ {0}
BY QueueAssumption

LEMMA NothingIsItem == Nothing \in Items
BY QueueAssumption DEF Nothing

\* The place i behind place f, on a ring of n places.
LEMMA OnRing ==
  ASSUME NEW n \in Nat \ {0}, NEW f \in 0 .. n - 1, NEW i \in 0 .. n
  PROVE  /\ (f + i) % n = IF f + i < n THEN f + i ELSE f + i - n
         /\ (f + i) % n \in 0 .. n - 1
<1>1. f + i \in 0 .. n - 1 \/ f + i \in n .. 2 * n - 1
  OBVIOUS
<1>2. f + i \in Int
  OBVIOUS
<1>3. CASE f + i \in 0 .. n - 1
  <2>1. (f + i) % n = f + i
    BY <1>2, <1>3, OneLap
  <2> QED
    BY <1>3, <2>1
<1>4. CASE f + i \in n .. 2 * n - 1
  <2>1. (f + i) % n = f + i - n
    BY <1>2, <1>4, OneLap
  <2> QED
    BY <1>4, <2>1
<1> QED
  BY <1>1, <1>3, <1>4

\* The next place but i.
LEMMA NextOnRing ==
  ASSUME NEW n \in Nat \ {0}, NEW f \in 0 .. n - 1, NEW i \in 0 .. n
  PROVE  (((f + i) % n) + 1) % n = (f + i + 1) % n
<1> DEFINE w == (f + i) % n
<1>1. w \in 0 .. n - 1 /\ w = IF f + i < n THEN f + i ELSE f + i - n
  BY OnRing
<1> HIDE DEF w
<1>2. (w + 1) % n = IF w + 1 < n THEN w + 1 ELSE w + 1 - n
  <2>1. 1 \in 0 .. n
    OBVIOUS
  <2> QED
    BY <1>1, <2>1, OnRing
<1>3. CASE i < n
  <2>1. i + 1 \in 0 .. n
    BY <1>3
  <2>2. (f + (i + 1)) % n = IF f + (i + 1) < n THEN f + (i + 1) ELSE f + (i + 1) - n
    BY <2>1, OnRing
  <2>3. f + (i + 1) = f + i + 1
    OBVIOUS
  <2> QED
    BY <1>1, <1>2, <2>2, <2>3 DEF w
<1>4. CASE i = n
  <2>1. w = f
    BY <1>1, <1>4
  <2>2. (f + n + 1) % n = (f + 1) % n
    <3>1. CASE f + 1 < n
      <4>1. f + n + 1 \in n .. 2 * n - 1 /\ f + n + 1 \in Int
        BY <3>1
      <4>2. (f + n + 1) % n = f + n + 1 - n
        BY <4>1, OneLap
      <4>3. f + 1 \in 0 .. n - 1 /\ f + 1 \in Int
        BY <3>1
      <4>4. (f + 1) % n = f + 1
        BY <4>3, OneLap
      <4> QED
        BY <4>2, <4>4
    <3>2. CASE f + 1 = n
      <4>1. f + n + 1 = 2 * n
        BY <3>2
      <4>2. (2 * n) % n = 0
        BY SMT
      <4>3. n % n = 0
        BY SMT
      <4> QED
        BY <3>2, <4>1, <4>2, <4>3
    <3> QED
      BY <3>1, <3>2
  <2> QED
    BY <1>4, <2>1, <2>2 DEF w
<1> QED
  BY <1>3, <1>4

\* Places less than a lap apart differ.
LEMMA ApartOnRing ==
  ASSUME NEW n \in Nat \ {0}, NEW f \in 0 .. n - 1, NEW i \in 1 .. n, NEW j \in 1 .. n,
         (f + i) % n = (f + j) % n
  PROVE  i = j
<1>1. i \in 0 .. n /\ j \in 0 .. n
  OBVIOUS
<1>2. (f + i) % n = IF f + i < n THEN f + i ELSE f + i - n
  BY <1>1, OnRing
<1>3. (f + j) % n = IF f + j < n THEN f + j ELSE f + j - n
  BY <1>1, OnRing
<1> QED
  BY <1>2, <1>3

\* What a ring record says of its items.
LEMMA RingTypes ==
  ASSUME NEW r, Ring(r)
  PROVE  /\ LENGTH[r.kind] \in Nat \ {0} /\ r.messagesWaiting \in Nat
         /\ r.messagesWaiting <= LENGTH[r.kind]
         /\ r.readFrom \in 0 .. LENGTH[r.kind] - 1
         /\ \A i \in 1 .. LENGTH[r.kind] :
              /\ (r.readFrom + i) % LENGTH[r.kind] \in 0 .. LENGTH[r.kind] - 1
              /\ r.store[(r.readFrom + i) % LENGTH[r.kind]] \in Items
         /\ ItemsOf(r) \in Seq(Items) /\ Len(ItemsOf(r)) = r.messagesWaiting
         /\ r.store \in [0 .. LENGTH[r.kind] - 1 -> Items]
<1> DEFINE n == LENGTH[r.kind]
           m == r.messagesWaiting
           f == r.readFrom
<1>1. n \in Nat \ {0}
  BY Lengths DEF Ring
<1>2. m \in 0 .. n /\ f \in 0 .. n - 1 /\ r.store \in [0 .. n - 1 -> Items]
  BY DEF Ring
<1>3. ItemsOf(r) = [i \in 1 .. m |-> r.store[(f + i) % n]]
  BY DEF ItemsOf
<1> HIDE DEF n, m, f
<1>4. \A i \in 1 .. n : (f + i) % n \in 0 .. n - 1
  <2>1. ASSUME NEW i \in 1 .. n PROVE (f + i) % n \in 0 .. n - 1
    BY <1>1, <1>2, OnRing
  <2> QED
    BY <2>1
<1>5. \A i \in 1 .. n : r.store[(f + i) % n] \in Items
  BY <1>2, <1>4
<1>6. \A i \in 1 .. m : r.store[(f + i) % n] \in Items
  BY <1>1, <1>2, <1>5
<1>7. m \in Nat /\ m <= n
  BY <1>1, <1>2
<1>8. ItemsOf(r) \in Seq(Items) /\ Len(ItemsOf(r)) = m
  <2> DEFINE g == [i \in 1 .. m |-> r.store[(f + i) % n]]
  <2>1. g \in [1 .. m -> Items]
    BY <1>6
  <2> HIDE DEF g
  <2>2. g \in Seq(Items) /\ Len(g) = m
    BY <1>7, <2>1
  <2> QED
    BY <1>3, <2>2 DEF g
<1> QED
  BY <1>1, <1>2, <1>4, <1>5, <1>7, <1>8 DEF n, m, f

\* Two sequences are one if they agree in length and items.
LEMMA SameItems ==
  ASSUME NEW S, NEW a \in Seq(S), NEW b \in Seq(S), Len(a) = Len(b),
         \A i \in 1 .. Len(a) : a[i] = b[i]
  PROVE  a = b
OBVIOUS

\* An item that joins at the back.
LEMMA JoinsBack ==
  ASSUME NEW r, Ring(r), r.kind = "data", r.messagesWaiting < LENGTH[r.kind],
         NEW item \in Items, NEW s,
         s.kind = r.kind, s.messagesWaiting = r.messagesWaiting + 1,
         s.store = [r.store EXCEPT ![r.writeTo] = item],
         s.writeTo = (r.writeTo + 1) % LENGTH[r.kind], s.readFrom = r.readFrom
  PROVE  Ring(s) /\ ItemsOf(s) = Append(ItemsOf(r), item)
<1> DEFINE n == LENGTH[r.kind]
           m == r.messagesWaiting
           f == r.readFrom
           w == r.writeTo
<1>1. n \in Nat \ {0} /\ m \in 0 .. n - 1 /\ f \in 0 .. n - 1 /\ w \in 0 .. n - 1
  BY Lengths DEF Ring
<1>2. /\ w = (f + m + 1) % n /\ r.store \in [0 .. n - 1 -> Items]
      /\ LENGTH[s.kind] = n
  BY DEF Ring
<1>3. /\ s.messagesWaiting = m + 1 /\ s.readFrom = f /\ s.writeTo = (w + 1) % n
      /\ s.store = [r.store EXCEPT ![w] = item]
      /\ s.kind \in Kinds /\ s.kind = "data"
  BY DEF Ring
<1>4. s.store \in [0 .. n - 1 -> Items]
  BY <1>1, <1>2, <1>3
<1> HIDE DEF n, m, f, w
<1>5. f + (m + 1) = f + m + 1
  BY <1>1
<1>6. s.writeTo = (f + (m + 1) + 1) % n
  <2>1. m + 1 \in 0 .. n
    BY <1>1
  <2>2. (((f + (m + 1)) % n) + 1) % n = (f + (m + 1) + 1) % n
    BY <1>1, <2>1, NextOnRing
  <2> QED
    BY <1>2, <1>3, <1>5, <2>2
<1>7. s.writeTo \in 0 .. n - 1
  <2>1. 1 \in 0 .. n
    BY <1>1
  <2>2. (w + 1) % n \in 0 .. n - 1
    BY <1>1, <2>1, OnRing
  <2> QED
    BY <1>3, <2>2
<1>8. Ring(s)
  <2>1. s.messagesWaiting \in 0 .. n
    BY <1>1, <1>3
  <2> QED
    BY <1>1, <1>2, <1>3, <1>4, <1>6, <1>7, <2>1 DEF Ring
<1>9. /\ ItemsOf(r) \in Seq(Items) /\ Len(ItemsOf(r)) = m
      /\ ItemsOf(s) \in Seq(Items) /\ Len(ItemsOf(s)) = m + 1
  BY <1>3, <1>8, RingTypes DEF m
<1>10. /\ ItemsOf(r) = [i \in 1 .. m |-> r.store[(f + i) % n]]
       /\ ItemsOf(s) = [i \in 1 .. m + 1 |-> s.store[(f + i) % n]]
  BY <1>2, <1>3 DEF ItemsOf, n, m, f
<1>11. ASSUME NEW i \in 1 .. m + 1 PROVE ItemsOf(s)[i] = Append(ItemsOf(r), item)[i]
  <2>1. i \in 1 .. n /\ m + 1 \in 1 .. n /\ i \in 0 .. n
    BY <1>1
  <2>2. (f + i) % n \in 0 .. n - 1
    BY <1>1, <2>1, OnRing
  <2>3. CASE i = m + 1
    <3>1. ItemsOf(s)[i] = item
      BY <1>2, <1>3, <1>5, <1>10, <2>2, <2>3
    <3> QED
      BY <1>9, <2>3, <3>1
  <2>4. CASE i \in 1 .. m
    <3>1. (f + i) % n # (f + (m + 1)) % n
      BY <1>1, <2>1, <2>4, ApartOnRing
    <3>2. ItemsOf(s)[i] = r.store[(f + i) % n]
      BY <1>2, <1>3, <1>5, <1>10, <2>2, <3>1
    <3>3. Append(ItemsOf(r), item)[i] = ItemsOf(r)[i]
      BY <1>9, <2>4
    <3> QED
      BY <1>10, <2>4, <3>2, <3>3
  <2>5. i = m + 1 \/ i \in 1 .. m
    BY <1>1
  <2> QED
    BY <2>3, <2>4, <2>5
<1>12. Append(ItemsOf(r), item) \in Seq(Items) /\ Len(Append(ItemsOf(r), item)) = m + 1
  BY <1>9
<1> QED
  BY <1>8, <1>9, <1>11, <1>12, SameItems

\* An item that joins at the front.
LEMMA JoinsFront ==
  ASSUME NEW r, Ring(r), r.kind = "data", r.messagesWaiting < LENGTH[r.kind],
         NEW item \in Items, NEW s,
         s.kind = r.kind, s.messagesWaiting = r.messagesWaiting + 1,
         s.store = [r.store EXCEPT ![r.readFrom] = item],
         s.writeTo = r.writeTo, s.readFrom = (r.readFrom - 1) % LENGTH[r.kind]
  PROVE  Ring(s) /\ ItemsOf(s) = <<item>> \o ItemsOf(r)
<1> DEFINE n == LENGTH[r.kind]
           m == r.messagesWaiting
           f == r.readFrom
           g == s.readFrom
<1>1. n \in Nat \ {0} /\ m \in 0 .. n - 1 /\ f \in 0 .. n - 1
  BY Lengths DEF Ring
<1>2. /\ s.writeTo \in 0 .. n - 1 /\ s.writeTo = (f + m + 1) % n
      /\ r.store \in [0 .. n - 1 -> Items] /\ LENGTH[s.kind] = n
      /\ s.messagesWaiting = m + 1
      /\ g = (f - 1) % n
      /\ s.store = [r.store EXCEPT ![f] = item]
      /\ s.kind \in Kinds /\ s.kind = "data"
  BY DEF Ring
<1>3. s.store \in [0 .. n - 1 -> Items]
  BY <1>1, <1>2
<1> HIDE DEF n, m, f, g
<1>4. g = IF f = 0 THEN n - 1 ELSE f - 1
  <2>1. CASE f = 0
    <3>1. f - 1 \in -n .. -1 /\ f - 1 \in Int
      BY <1>1, <2>1
    <3>2. (f - 1) % n = f - 1 + n
      BY <1>1, <3>1, OneLap
    <3> QED
      BY <1>1, <1>2, <2>1, <3>2
  <2>2. CASE f # 0
    <3>1. f - 1 \in 0 .. n - 1 /\ f - 1 \in Int
      BY <1>1, <2>2
    <3> QED
      BY <1>1, <1>2, <2>2, <3>1, OneLap
  <2> QED
    BY <2>1, <2>2
<1>5. g \in 0 .. n - 1
  BY <1>1, <1>4
<1>6. ASSUME NEW i \in 1 .. n
      PROVE  (g + i) % n = (f + (i - 1)) % n /\ (g + i) % n \in 0 .. n - 1
  <2>1. i \in 0 .. n /\ i - 1 \in 0 .. n
    BY <1>1
  <2>2. (g + i) % n = IF g + i < n THEN g + i ELSE g + i - n
    BY <1>1, <1>5, <2>1, OnRing
  <2>3. (f + (i - 1)) % n = IF f + (i - 1) < n THEN f + (i - 1) ELSE f + (i - 1) - n
    BY <1>1, <2>1, OnRing
  <2>4. (g + i) % n \in 0 .. n - 1
    BY <1>1, <1>5, <2>1, OnRing
  <2> QED
    BY <1>1, <1>4, <2>1, <2>2, <2>3, <2>4
<1>7. s.writeTo = (g + (m + 1) + 1) % n
  <2>1. m + 1 \in 1 .. n /\ m + 1 \in 0 .. n /\ m \in 0 .. n /\ m + 1 - 1 = m
    BY <1>1
  <2>2. (((g + (m + 1)) % n) + 1) % n = (g + (m + 1) + 1) % n
    BY <1>1, <1>5, <2>1, NextOnRing
  <2>3. (((f + m) % n) + 1) % n = (f + m + 1) % n
    BY <1>1, <2>1, NextOnRing
  <2>4. (g + (m + 1)) % n = (f + m) % n
    BY <1>6, <2>1
  <2> QED
    BY <1>2, <2>2, <2>3, <2>4
<1>8. Ring(s)
  <2>1. m + 1 \in 0 .. n
    BY <1>1
  <2> QED
    BY <1>1, <1>2, <1>3, <1>5, <1>7, <2>1 DEF Ring, g
<1>9. /\ ItemsOf(r) \in Seq(Items) /\ Len(ItemsOf(r)) = m
      /\ ItemsOf(s) \in Seq(Items) /\ Len(ItemsOf(s)) = m + 1
  BY <1>2, <1>8, RingTypes DEF m
<1>10. /\ ItemsOf(r) = [i \in 1 .. m |-> r.store[(f + i) % n]]
       /\ ItemsOf(s) = [i \in 1 .. m + 1 |-> s.store[(g + i) % n]]
  BY <1>2 DEF ItemsOf, n, m, f, g
<1>11. ASSUME NEW i \in 1 .. m + 1 PROVE ItemsOf(s)[i] = (<<item>> \o ItemsOf(r))[i]
  <2>1. i \in 1 .. n /\ i \in 1 .. m + 1
    BY <1>1
  <2>2. (g + i) % n = (f + (i - 1)) % n /\ (g + i) % n \in 0 .. n - 1
    BY <1>6, <2>1
  <2>3. CASE i = 1
    <3>1. (f + (i - 1)) % n = f
      <4>1. f + (i - 1) = f
        BY <1>1, <2>3
      <4>2. f % n = f
        BY <1>1, OneLap
      <4> QED
        BY <4>1, <4>2
    <3>2. ItemsOf(s)[i] = item
      BY <1>1, <1>2, <1>10, <2>2, <3>1
    <3>3. (<<item>> \o ItemsOf(r))[1] = item
      BY <1>9
    <3> QED
      BY <2>3, <3>2, <3>3
  <2>4. CASE i # 1
    <3>1. i - 1 \in 1 .. m /\ i - 1 \in 1 .. n /\ n \in 1 .. n
      BY <1>1, <2>1, <2>4
    <3>2. (f + (i - 1)) % n # f
      <4>1. i - 1 # n /\ n \in 0 .. n
        BY <1>1, <3>1
      <4>2. (f + (i - 1)) % n # (f + n) % n
        BY <1>1, <3>1, <4>1, ApartOnRing
      <4>3. (f + n) % n = IF f + n < n THEN f + n ELSE f + n - n
        BY <1>1, <4>1, OnRing
      <4> QED
        BY <1>1, <4>2, <4>3
    <3>3. ItemsOf(s)[i] = r.store[(f + (i - 1)) % n]
      BY <1>1, <1>2, <1>10, <2>2, <3>2
    <3>4. (<<item>> \o ItemsOf(r))[i] = ItemsOf(r)[i - 1]
      BY <1>9, <2>4, <3>1
    <3> QED
      BY <1>10, <3>1, <3>3, <3>4
  <2> QED
    BY <2>3, <2>4
<1>12. <<item>> \o ItemsOf(r) \in Seq(Items) /\ Len(<<item>> \o ItemsOf(r)) = m + 1
  BY <1>9
<1> QED
  BY <1>8, <1>9, <1>11, <1>12, SameItems

\* An item that leaves at the front.
LEMMA LeavesFront ==
  ASSUME NEW r, Ring(r), r.kind = "data", r.messagesWaiting > 0, NEW s,
         s.kind = r.kind, s.messagesWaiting = r.messagesWaiting - 1,
         s.store = r.store, s.writeTo = r.writeTo,
         s.readFrom = (r.readFrom + 1) % LENGTH[r.kind]
  PROVE  Ring(s) /\ ItemsOf(r) # <<>> /\ ItemsOf(s) = Tail(ItemsOf(r))
<1> DEFINE n == LENGTH[r.kind]
           m == r.messagesWaiting
           f == r.readFrom
           g == s.readFrom
<1>1. n \in Nat \ {0} /\ m \in 1 .. n /\ f \in 0 .. n - 1
  BY Lengths DEF Ring
<1>2. /\ s.writeTo \in 0 .. n - 1 /\ s.writeTo = (f + m + 1) % n
      /\ s.store \in [0 .. n - 1 -> Items] /\ LENGTH[s.kind] = n
      /\ s.messagesWaiting = m - 1 /\ g = (f + 1) % n
      /\ s.kind \in Kinds /\ s.kind = "data" /\ s.store = r.store
  BY DEF Ring
<1> HIDE DEF n, m, f, g
<1>3. g \in 0 .. n - 1 /\ g = IF f + 1 < n THEN f + 1 ELSE f + 1 - n
  <2>1. 1 \in 0 .. n
    BY <1>1
  <2>2. (f + 1) % n \in 0 .. n - 1 /\ (f + 1) % n = IF f + 1 < n THEN f + 1 ELSE f + 1 - n
    BY <1>1, <2>1, OnRing
  <2> QED
    BY <1>2, <2>2
<1>4. ASSUME NEW i \in 0 .. n - 1 PROVE (g + i) % n = (f + (i + 1)) % n
  <2>1. i \in 0 .. n /\ i + 1 \in 0 .. n
    BY <1>1
  <2>2. (g + i) % n = IF g + i < n THEN g + i ELSE g + i - n
    BY <1>1, <1>3, <2>1, OnRing
  <2>3. (f + (i + 1)) % n = IF f + (i + 1) < n THEN f + (i + 1) ELSE f + (i + 1) - n
    BY <1>1, <2>1, OnRing
  <2> QED
    BY <1>1, <1>3, <2>2, <2>3
<1>5. s.writeTo = (g + (m - 1) + 1) % n
  <2>1. m - 1 \in 0 .. n - 1 /\ m - 1 \in 0 .. n /\ m \in 0 .. n /\ m - 1 + 1 = m
    BY <1>1
  <2>2. (((g + (m - 1)) % n) + 1) % n = (g + (m - 1) + 1) % n
    BY <1>1, <1>3, <2>1, NextOnRing
  <2>3. (((f + m) % n) + 1) % n = (f + m + 1) % n
    BY <1>1, <2>1, NextOnRing
  <2>4. (g + (m - 1)) % n = (f + (m - 1 + 1)) % n
    BY <1>4, <2>1
  <2>5. (g + (m - 1)) % n = (f + m) % n
    BY <2>1, <2>4
  <2> QED
    BY <1>2, <2>2, <2>3, <2>5
<1>6. Ring(s)
  <2>1. m - 1 \in 0 .. n
    BY <1>1
  <2> QED
    BY <1>2, <1>3, <1>5, <2>1 DEF Ring, g
<1>7. /\ ItemsOf(r) \in Seq(Items) /\ Len(ItemsOf(r)) = m
      /\ ItemsOf(s) \in Seq(Items) /\ Len(ItemsOf(s)) = m - 1
  BY <1>2, <1>6, RingTypes DEF m
<1>8. /\ ItemsOf(r) = [i \in 1 .. m |-> r.store[(f + i) % n]]
      /\ ItemsOf(s) = [i \in 1 .. m - 1 |-> s.store[(g + i) % n]]
  BY <1>2 DEF ItemsOf, n, m, f, g
<1>9. ItemsOf(r) # <<>>
  BY <1>1, <1>7
<1>10. Tail(ItemsOf(r)) \in Seq(Items) /\ Len(Tail(ItemsOf(r))) = m - 1
  BY <1>1, <1>7, <1>9
<1>11. ASSUME NEW i \in 1 .. m - 1 PROVE ItemsOf(s)[i] = Tail(ItemsOf(r))[i]
  <2>1. i \in 0 .. n - 1 /\ i + 1 \in 1 .. m
    BY <1>1
  <2>2. (g + i) % n = (f + (i + 1)) % n
    BY <1>4, <2>1
  <2>3. Tail(ItemsOf(r))[i] = ItemsOf(r)[i + 1]
    BY <1>7, <1>9
  <2>4. ItemsOf(r)[i + 1] = r.store[(f + (i + 1)) % n]
    BY <1>8, <2>1
  <2>5. ItemsOf(s)[i] = r.store[(g + i) % n]
    BY <1>2, <1>8
  <2> QED
    BY <2>2, <2>3, <2>4, <2>5
<1> QED
  BY <1>6, <1>7, <1>9, <1>10, <1>11, SameItems

\* A semaphore and a mutex hold nothing, as often as they are available.
LEMMA NoData ==
  ASSUME NEW r, Ring(r), r.kind # "data", NEW s, s.kind = r.kind, s.store = r.store,
         s.writeTo = r.writeTo, s.readFrom = r.readFrom
  PROVE  /\ r.messagesWaiting < LENGTH[r.kind] /\ s.messagesWaiting = r.messagesWaiting + 1 =>
              Ring(s) /\ ItemsOf(s) = Append(ItemsOf(r), Nothing)
         /\ r.messagesWaiting > 0 /\ s.messagesWaiting = r.messagesWaiting - 1 =>
              Ring(s) /\ ItemsOf(r) # <<>> /\ ItemsOf(s) = Tail(ItemsOf(r))
<1> DEFINE n == LENGTH[r.kind]
           m == r.messagesWaiting
<1>1. n \in Nat \ {0} /\ m \in 0 .. n /\ r.readFrom \in 0 .. n - 1
  BY Lengths DEF Ring
<1>2. r.store = [i \in 0 .. n - 1 |-> Nothing]
  BY DEF Ring
<1>3. ItemsOf(r) = [i \in 1 .. m |-> Nothing]
  <2>1. ASSUME NEW i \in 1 .. m PROVE r.store[(r.readFrom + i) % n] = Nothing
    <3>1. i \in 1 .. n
      BY <1>1
    <3>2. (r.readFrom + i) % n \in 0 .. n - 1
      BY <3>1, RingTypes
    <3> QED
      BY <1>2, <3>2
  <2> QED
    BY <2>1 DEF ItemsOf
<1>4. ASSUME NEW j \in 0 .. n, s.messagesWaiting = j
      PROVE  Ring(s) /\ ItemsOf(s) = [i \in 1 .. j |-> Nothing]
  <2>1. Ring(s)
    BY <1>4 DEF Ring
  <2>2. ASSUME NEW i \in 1 .. j PROVE s.store[(s.readFrom + i) % n] = Nothing
    <3>1. i \in 1 .. n
      BY <1>1
    <3>2. (s.readFrom + i) % n \in 0 .. n - 1
      BY <3>1, RingTypes
    <3> QED
      BY <1>2, <3>2
  <2>3. ItemsOf(s) = [i \in 1 .. j |-> s.store[(s.readFrom + i) % n]]
    BY <1>4 DEF ItemsOf
  <2> QED
    BY <2>1, <2>2, <2>3
<1> HIDE DEF n, m
<1>5. /\ Nothing \in Items
      /\ \A j \in 0 .. n : /\ [i \in 1 .. j |-> Nothing] \in Seq(Items)
                           /\ Len([i \in 1 .. j |-> Nothing]) = j
  BY <1>1, NothingIsItem
<1>6. ASSUME m < n, s.messagesWaiting = m + 1
      PROVE  Ring(s) /\ ItemsOf(s) = Append(ItemsOf(r), Nothing)
  <2>1. m + 1 \in 0 .. n
    BY <1>1, <1>6
  <2>2. Ring(s) /\ ItemsOf(s) = [i \in 1 .. m + 1 |-> Nothing]
    BY <1>4, <1>6, <2>1
  <2>3. Append([i \in 1 .. m |-> Nothing], Nothing) = [i \in 1 .. m + 1 |-> Nothing]
    BY <1>1, <1>5, <2>1
  <2> QED
    BY <1>3, <2>2, <2>3
<1>7. ASSUME m > 0, s.messagesWaiting = m - 1
      PROVE  Ring(s) /\ ItemsOf(r) # <<>> /\ ItemsOf(s) = Tail(ItemsOf(r))
  <2>1. m - 1 \in 0 .. n
    BY <1>1, <1>7
  <2>2. Ring(s) /\ ItemsOf(s) = [i \in 1 .. m - 1 |-> Nothing]
    BY <1>4, <1>7, <2>1
  <2>3. ItemsOf(r) # <<>>
    BY <1>1, <1>3, <1>5, <1>7
  <2>4. Tail([i \in 1 .. m |-> Nothing]) = [i \in 1 .. m - 1 |-> Nothing]
    BY <1>1, <1>5, <1>7, <2>1, <2>3
  <2> QED
    BY <1>3, <2>2, <2>3, <2>4
<1> QED
  BY <1>6, <1>7 DEF n, m

-------------------------------------------------------------------------------
(* The operations on a queue *)

\* An update of other fields changes nothing about the ring.
LEMMA SameRing ==
  ASSUME NEW r, Ring(r), NEW s, s.kind = r.kind, s.messagesWaiting = r.messagesWaiting,
         s.store = r.store, s.writeTo = r.writeTo, s.readFrom = r.readFrom
  PROVE  Ring(s) /\ ItemsOf(s) = ItemsOf(r)
BY DEF Ring, ItemsOf

\* The locks are no part of the ring.
LEMMA LocksKeepRing ==
  ASSUME NEW r, IsQueue(r), Ring(r), NEW a,
         NEW s, s = [r EXCEPT !.rxLock = a] \/ s = [r EXCEPT !.txLock = a]
  PROVE  IsQueue(s) /\ Ring(s) /\ s.kind = r.kind /\ ItemsOf(s) = ItemsOf(r)
<1>1. IsQueue(s) /\ s.kind = r.kind /\ s.messagesWaiting = r.messagesWaiting
      /\ s.store = r.store /\ s.writeTo = r.writeTo /\ s.readFrom = r.readFrom
  BY DEF IsQueue
<1> QED
  BY <1>1, SameRing

\* prvCopyDataToQueue: the item joins at one of the ends.
LEMMA PutsItem ==
  ASSUME NEW x \in Queues, IsQueue(q[x]), Ring(q[x]), HasRoom(x), NEW item \in Items, NEW op \in Sends
  PROVE  LET s == prvCopyDataToQueue(x, item, op)
         IN  /\ IsQueue(s) /\ Ring(s) /\ s.kind = q[x].kind
             /\ s.txLock = q[x].txLock /\ s.rxLock = q[x].rxLock
             /\ \E i \in Items : \/ ItemsOf(s) = Append(ItemsOf(q[x]), i)
                                 \/ ItemsOf(s) = <<i>> \o ItemsOf(q[x])
<1> DEFINE r == q[x]
           s == prvCopyDataToQueue(x, item, op)
           qm == [r EXCEPT !.messagesWaiting = @ + 1]
<1>1. r.messagesWaiting < LENGTH[r.kind] /\ r.kind \in Kinds
  BY DEF HasRoom, uxLength, Ring
<1>2. IsQueue(qm) /\ qm.kind = r.kind /\ qm.messagesWaiting = r.messagesWaiting + 1
      /\ qm.store = r.store /\ qm.writeTo = r.writeTo /\ qm.readFrom = r.readFrom
      /\ qm.txLock = r.txLock /\ qm.rxLock = r.rxLock
  BY DEF IsQueue
<1>3. CASE r.kind # "data"
  <2>1. s = IF IsMutex(x) THEN [qm EXCEPT !.mutexHolder = NoTask, !.recursiveCallCount = 0] ELSE qm
    <3>1. CASE IsMutex(x)
      <4>1. s = [qm EXCEPT !.mutexHolder = NoTask, !.recursiveCallCount = 0]
        BY <3>1 DEF prvCopyDataToQueue, IsMutex
      <4> QED
        BY <3>1, <4>1
    <3>2. CASE ~ IsMutex(x)
      <4>1. r.kind = "semaphore"
        BY <1>1, <1>3, <3>2 DEF Kinds, IsMutex
      <4>2. s = qm
        BY <4>1 DEF prvCopyDataToQueue, IsMutex
      <4> QED
        BY <3>2, <4>2
    <3> QED
      BY <3>1, <3>2
  <2> HIDE DEF qm
  <2>2. /\ IsQueue(s) /\ s.kind = r.kind /\ s.messagesWaiting = r.messagesWaiting + 1
        /\ s.store = r.store /\ s.writeTo = r.writeTo /\ s.readFrom = r.readFrom
        /\ s.txLock = r.txLock /\ s.rxLock = r.rxLock
    BY <1>2, <2>1 DEF IsQueue
  <2> HIDE DEF s
  <2>3. Ring(s) /\ ItemsOf(s) = Append(ItemsOf(r), Nothing)
    BY <1>1, <1>3, <2>2, NoData
  <2> QED
    BY <2>2, <2>3, NothingIsItem DEF s
<1>4. CASE r.kind = "data" /\ op = "sendToBack"
  <2>1. s = [qm EXCEPT !.store[r.writeTo] = item, !.writeTo = After(x, @)]
    BY <1>4 DEF prvCopyDataToQueue, IsMutex
  <2> HIDE DEF qm
  <2>2. /\ IsQueue(s) /\ s.kind = r.kind /\ s.messagesWaiting = r.messagesWaiting + 1
        /\ s.store = [r.store EXCEPT ![r.writeTo] = item]
        /\ s.writeTo = (r.writeTo + 1) % LENGTH[r.kind] /\ s.readFrom = r.readFrom
        /\ s.txLock = r.txLock /\ s.rxLock = r.rxLock
    BY <1>2, <2>1, ZenonT(60) DEF IsQueue, After, uxLength
  <2> HIDE DEF s
  <2>3. Ring(s) /\ ItemsOf(s) = Append(ItemsOf(r), item)
    BY <1>1, <1>4, <2>2, JoinsBack
  <2> QED
    BY <2>2, <2>3 DEF s
<1>5. CASE r.kind = "data" /\ op = "sendToFront"
  <2>1. s = [qm EXCEPT !.store[r.readFrom] = item, !.readFrom = Behind(x, @)]
    BY <1>5 DEF prvCopyDataToQueue, IsMutex
  <2> HIDE DEF qm
  <2>2. /\ IsQueue(s) /\ s.kind = r.kind /\ s.messagesWaiting = r.messagesWaiting + 1
        /\ s.store = [r.store EXCEPT ![r.readFrom] = item]
        /\ s.readFrom = (r.readFrom - 1) % LENGTH[r.kind] /\ s.writeTo = r.writeTo
        /\ s.txLock = r.txLock /\ s.rxLock = r.rxLock
    BY <1>2, <2>1, ZenonT(60) DEF IsQueue, Behind, uxLength
  <2> HIDE DEF s
  <2>3. Ring(s) /\ ItemsOf(s) = <<item>> \o ItemsOf(r)
    BY <1>1, <1>5, <2>2, JoinsFront
  <2> QED
    BY <2>2, <2>3 DEF s
<1> QED
  BY <1>3, <1>4, <1>5 DEF Sends

\* prvCopyDataFromQueue, and the count: the first item leaves.
LEMMA TakesItem ==
  ASSUME NEW x \in Queues, IsQueue(q[x]), Ring(q[x]), HasItem(x), NEW t
  PROVE  LET s == Taken(x, t)
         IN  /\ IsQueue(s) /\ Ring(s) /\ s.kind = q[x].kind
             /\ s.txLock = q[x].txLock /\ s.rxLock = q[x].rxLock
             /\ ItemsOf(q[x]) # <<>> /\ ItemsOf(s) = Tail(ItemsOf(q[x]))
<1> DEFINE r == q[x]
           s == Taken(x, t)
           qm == [r EXCEPT !.messagesWaiting = @ - 1]
<1>1. r.messagesWaiting > 0 /\ r.kind \in Kinds
  BY DEF HasItem, Ring
<1>2. IsQueue(qm) /\ qm.kind = r.kind /\ qm.messagesWaiting = r.messagesWaiting - 1
      /\ qm.store = r.store /\ qm.writeTo = r.writeTo /\ qm.readFrom = r.readFrom
      /\ qm.txLock = r.txLock /\ qm.rxLock = r.rxLock
  BY DEF IsQueue
<1>3. CASE r.kind # "data"
  <2>1. s = CASE r.kind = "semaphore" -> qm
              [] r.kind = "mutex"     -> [qm EXCEPT !.mutexHolder = t]
              [] r.kind = "recursive" -> [qm EXCEPT !.mutexHolder = t, !.recursiveCallCount = @ + 1]
    BY <1>1, <1>3 DEF Taken, Kinds
  <2> HIDE DEF qm
  <2>2. /\ IsQueue(s) /\ s.kind = r.kind /\ s.messagesWaiting = r.messagesWaiting - 1
        /\ s.store = r.store /\ s.writeTo = r.writeTo /\ s.readFrom = r.readFrom
        /\ s.txLock = r.txLock /\ s.rxLock = r.rxLock
    BY <1>1, <1>2, <1>3, <2>1 DEF IsQueue, Kinds
  <2> HIDE DEF s
  <2>3. Ring(s) /\ ItemsOf(r) # <<>> /\ ItemsOf(s) = Tail(ItemsOf(r))
    BY <1>1, <1>3, <2>2, NoData
  <2> QED
    BY <2>2, <2>3 DEF s
<1>4. CASE r.kind = "data"
  <2>1. s = [qm EXCEPT !.readFrom = After(x, @)]
    BY <1>4 DEF Taken
  <2> HIDE DEF qm
  <2>2. /\ IsQueue(s) /\ s.kind = r.kind /\ s.messagesWaiting = r.messagesWaiting - 1
        /\ s.store = r.store /\ s.writeTo = r.writeTo
        /\ s.readFrom = (r.readFrom + 1) % LENGTH[r.kind]
        /\ s.txLock = r.txLock /\ s.rxLock = r.rxLock
    BY <1>2, <2>1, ZenonT(60) DEF IsQueue, After, uxLength
  <2> HIDE DEF s
  <2>3. Ring(s) /\ ItemsOf(r) # <<>> /\ ItemsOf(s) = Tail(ItemsOf(r))
    BY <1>1, <1>4, <2>2, LeavesFront
  <2> QED
    BY <2>2, <2>3 DEF s
<1> QED
  BY <1>3, <1>4

-------------------------------------------------------------------------------
(* Every step on the queues *)

QueuesInv ==
  /\ q = [x \in Queues |-> q[x]]
  /\ \A x \in Queues : IsQueue(q[x]) /\ Ring(q[x])

\* Nothing, or one queue, changes.
SameItemsIn(x) == q'[x].kind = q[x].kind /\ ItemsOf(q'[x]) = ItemsOf(q[x])

OneJoins(x) ==
  \E i \in Items : \/ ItemsOf(q'[x]) = Append(ItemsOf(q[x]), i)
                   \/ ItemsOf(q'[x]) = <<i>> \o ItemsOf(q[x])

OneLeaves(x) == ItemsOf(q[x]) # <<>> /\ ItemsOf(q'[x]) = Tail(ItemsOf(q[x]))

ItemsStep ==
  \/ \A x \in Queues : SameItemsIn(x)
  \/ \E x \in Queues : /\ \A y \in Queues \ {x} : SameItemsIn(y)
                       /\ q'[x].kind = q[x].kind /\ (OneJoins(x) \/ OneLeaves(x))

\* A step of the items is one of the sequences.
LEMMA StepIsPromised ==
  ASSUME QueuesInv, QueuesInv', ItemsStep
  PROVE  Promise!Next \/ UNCHANGED <<[x \in Queues |-> uxLength(x)], [x \in Queues |-> Contents(x)]>>
<1> DEFINE capacity == [x \in Queues |-> uxLength(x)]
           contents == [x \in Queues |-> Contents(x)]
<1>1. /\ \A x \in Queues : Contents(x) = ItemsOf(q[x]) /\ uxLength(x) = LENGTH[q[x].kind]
      /\ \A x \in Queues : Contents(x)' = ItemsOf(q'[x]) /\ uxLength(x)' = LENGTH[q'[x].kind]
  BY DEF Contents, ItemsOf, uxLength
<1>2. CASE \A x \in Queues : SameItemsIn(x)
  <2>1. capacity' = capacity /\ contents' = contents
    BY <1>1, <1>2 DEF SameItemsIn
  <2> QED
    BY <2>1
<1>3. ASSUME NEW x \in Queues, \A y \in Queues \ {x} : SameItemsIn(y),
             q'[x].kind = q[x].kind, OneJoins(x) \/ OneLeaves(x)
      PROVE  Promise!Next
  <2> DEFINE s == ItemsOf(q'[x])
  <2>1. capacity' = capacity
    BY <1>1, <1>3 DEF SameItemsIn
  <2>2. contents' = [contents EXCEPT ![x] = s]
    BY <1>1, <1>3 DEF SameItemsIn
  <2>3. Promise!Change(x, s)
    BY <2>1, <2>2 DEF Promise!Change
  <2>4. contents[x] = ItemsOf(q[x]) /\ capacity[x] = LENGTH[q[x].kind]
    BY <1>1
  <2>5. CASE OneLeaves(x)
    <3>1. Promise!Receive(x)
      BY <2>3, <2>4, <2>5 DEF OneLeaves, Promise!Receive
    <3> QED
      BY <3>1 DEF Promise!Next
  <2>6. CASE OneJoins(x)
    <3>1. PICK i \in Items : s = Append(contents[x], i) \/ s = <<i>> \o contents[x]
      BY <2>4, <2>6 DEF OneJoins
    <3>2. contents[x] \in Seq(Items) /\ s \in Seq(Items) /\ Len(s) <= capacity[x]
          /\ capacity[x] \in Nat
      BY <1>3, <2>4, RingTypes DEF QueuesInv
    <3> HIDE DEF s, contents, capacity
    <3>3. Len(s) = Len(contents[x]) + 1
      BY <3>1, <3>2
    <3>4. Len(contents[x]) < capacity[x]
      BY <3>2, <3>3
    <3>5. Promise!SendToBack(x, i) \/ Promise!SendToFront(x, i)
      BY <2>3, <3>1, <3>4 DEF Promise!SendToBack, Promise!SendToFront, contents, capacity
    <3> QED
      BY <3>5 DEF Promise!Next
  <2> QED
    BY <1>3, <2>5, <2>6
<1> QED
  BY <1>2, <1>3 DEF ItemsStep

\* One queue becomes s.
LEMMA OneQueueChanges ==
  ASSUME QueuesInv, NEW x \in Queues, NEW s, IsQueue(s), Ring(s), s.kind = q[x].kind,
         q' = [q EXCEPT ![x] = s],
         \/ ItemsOf(s) = ItemsOf(q[x])
         \/ \E i \in Items : \/ ItemsOf(s) = Append(ItemsOf(q[x]), i)
                             \/ ItemsOf(s) = <<i>> \o ItemsOf(q[x])
         \/ ItemsOf(q[x]) # <<>> /\ ItemsOf(s) = Tail(ItemsOf(q[x]))
  PROVE  QueuesInv' /\ ItemsStep
<1>1. q' = [y \in Queues |-> IF y = x THEN s ELSE q[y]]
  BY DEF QueuesInv
<1>2. q'[x] = s /\ \A y \in Queues \ {x} : q'[y] = q[y]
  BY <1>1
<1>3. QueuesInv'
  BY <1>1, <1>2 DEF QueuesInv
<1>4. \A y \in Queues \ {x} : SameItemsIn(y)
  BY <1>2 DEF SameItemsIn
<1>5. SameItemsIn(x) \/ OneJoins(x) \/ OneLeaves(x)
  BY <1>2 DEF SameItemsIn, OneJoins, OneLeaves
<1>6. q'[x].kind = q[x].kind
  BY <1>2
<1> QED
  BY <1>3, <1>4, <1>5, <1>6 DEF ItemsStep

LEMMA NoQueueChanges ==
  ASSUME QueuesInv, UNCHANGED q
  PROVE  QueuesInv' /\ ItemsStep
BY DEF QueuesInv, ItemsStep, SameItemsIn

-------------------------------------------------------------------------------
(* The calls in progress *)

IsFrame(f) ==
  f = [op |-> f.op, queue |-> f.queue, item |-> f.item, alt |-> f.alt, ticks |-> f.ticks,
       entryTimeSet |-> f.entryTimeSet, timeOut |-> f.timeOut, next |-> f.next]

\* A task inside a call works on a queue, with an item.
CallOn(place, f) ==
  /\ IsFrame(f) /\ f.item \in Items
  /\ place # "app" => f.queue \in Queues /\ f.op \in Sends \cup Receives

CallsInv ==
  /\ pc = [t \in AllTasks |-> pc[t]] /\ frame = [t \in AllTasks |-> frame[t]]
  /\ \A t \in AllTasks : CallOn(pc[t], frame[t])

LEMMA NoFrameIsFrame == IsFrame(NoFrame) /\ NoFrame.item \in Items
BY NothingIsItem DEF NoFrame, IsFrame

\* What a call notes of the time leaves it a call on the same queue.
LEMMA FrameKeeps ==
  ASSUME NEW f, IsFrame(f), NEW a,
         NEW g, \/ g = [f EXCEPT !.ticks = a] \/ g = [f EXCEPT !.timeOut = a]
                \/ g = [f EXCEPT !.next = a]
  PROVE  IsFrame(g) /\ g.item = f.item /\ g.queue = f.queue /\ g.op = f.op
BY DEF IsFrame

\* One task goes on.
LEMMA OneCallChanges ==
  ASSUME CallsInv, NEW t \in AllTasks, NEW place, NEW f, CallOn(place, f),
         pc' = [pc EXCEPT ![t] = place], frame' = [frame EXCEPT ![t] = f]
  PROVE  CallsInv'
<1>1. /\ pc' = [u \in AllTasks |-> IF u = t THEN place ELSE pc[u]]
      /\ frame' = [u \in AllTasks |-> IF u = t THEN f ELSE frame[u]]
  BY DEF CallsInv
<1>2. \A u \in AllTasks : CallOn(pc'[u], frame'[u])
  BY <1>1 DEF CallsInv
<1> QED
  BY <1>1, <1>2 DEF CallsInv

LEMMA NoCallChanges ==
  ASSUME CallsInv, UNCHANGED <<pc, frame>>
  PROVE  CallsInv'
BY DEF CallsInv

\* The first critical section of a call, and each later look.
LEMMA TryStep ==
  ASSUME QueuesInv, CallsInv, NEW t \in AllTasks, NEW f, NEW n, IsFrame(f), f.item \in Items,
         f.queue \in Queues, f.op \in Sends \cup Receives, Try(t, f, n)
  PROVE  QueuesInv' /\ ItemsStep /\ CallsInv'
<1> DEFINE x == f.queue
<1>1. IsQueue(q[x]) /\ Ring(q[x])
  BY DEF QueuesInv
<1>2. Return(t) => CallsInv'
  <2> SUFFICES ASSUME Return(t) PROVE CallsInv'
    OBVIOUS
  <2>1. CallOn("app", NoFrame)
    BY NoFrameIsFrame DEF CallOn
  <2> QED
    BY <2>1, OneCallChanges DEF Return, Goto
<1>3. NotNow(t, f, n) => QueuesInv' /\ ItemsStep /\ CallsInv'
  <2> SUFFICES ASSUME NotNow(t, f, n) PROVE QueuesInv' /\ ItemsStep /\ CallsInv'
    OBVIOUS
  <2>1. QueuesInv' /\ ItemsStep
    BY NoQueueChanges DEF NotNow
  <2>2. CASE f.ticks = 0
    BY <1>2, <2>1, <2>2 DEF NotNow
  <2>3. CASE f.ticks # 0
    <3> DEFINE place == IF f.alt THEN "altWait" ELSE "suspendAll"
               g == IF f.entryTimeSet THEN f
                    ELSE [f EXCEPT !.entryTimeSet = TRUE, !.timeOut = TimeNoted(f.ticks)]
    <3>1. IsFrame(g) /\ g.item = f.item /\ g.queue = f.queue /\ g.op = f.op
      BY DEF IsFrame
    <3>2. pc' = [pc EXCEPT ![t] = place] /\ frame' = [frame EXCEPT ![t] = g]
      BY <2>3 DEF NotNow, Goto
    <3> HIDE DEF g
    <3>3. CallOn(place, g)
      BY <3>1 DEF CallOn
    <3>4. CallsInv'
      BY <3>2, <3>3, OneCallChanges
    <3> QED
      BY <2>1, <3>4
  <2> QED
    BY <2>2, <2>3
<1>4. CASE TrySend(t, f, n)
  <2>1. CASE HasRoom(x)
    <3> DEFINE s == prvCopyDataToQueue(x, f.item, f.op)
    <3>1. q' = [q EXCEPT ![x] = s] /\ Return(t) /\ f.op \in Sends
      BY <1>4, <2>1 DEF TrySend
    <3>2. /\ IsQueue(s) /\ Ring(s) /\ s.kind = q[x].kind
          /\ \E i \in Items : \/ ItemsOf(s) = Append(ItemsOf(q[x]), i)
                              \/ ItemsOf(s) = <<i>> \o ItemsOf(q[x])
      BY <1>1, <2>1, <3>1, PutsItem
    <3> HIDE DEF s
    <3> QED
      BY <1>2, <3>1, <3>2, OneQueueChanges
  <2>2. CASE ~ HasRoom(x)
    BY <1>3, <1>4, <2>2 DEF TrySend
  <2> QED
    BY <2>1, <2>2
<1>5. CASE TryReceive(t, f, n)
  <2>1. CASE HasItem(x)
    <3> DEFINE s == Taken(x, t)
    <3>1. q' = (IF f.op = "peek" THEN q ELSE [q EXCEPT ![x] = s]) /\ Return(t)
      BY <1>5, <2>1 DEF TryReceive
    <3>2. /\ IsQueue(s) /\ Ring(s) /\ s.kind = q[x].kind
          /\ ItemsOf(q[x]) # <<>> /\ ItemsOf(s) = Tail(ItemsOf(q[x]))
      BY <1>1, <2>1, TakesItem
    <3> HIDE DEF s
    <3>3. f.op # "peek" => QueuesInv' /\ ItemsStep
      BY <3>1, <3>2, OneQueueChanges
    <3>4. f.op = "peek" => QueuesInv' /\ ItemsStep
      BY <3>1, NoQueueChanges
    <3> QED
      BY <1>2, <3>1, <3>3, <3>4
  <2>2. CASE ~ HasItem(x)
    BY <1>3, <1>5, <2>2 DEF TryReceive
  <2> QED
    BY <2>1, <2>2
<1> QED
  BY <1>4, <1>5 DEF Try

\* Taking up a call again.
LEMMA ContinueStep ==
  ASSUME QueuesInv, CallsInv, NEW t \in Tasks, Continue(t)
  PROVE  QueuesInv' /\ ItemsStep /\ CallsInv'
<1> DEFINE f == frame[t]
           x == f.queue
<1>0. t \in AllTasks
  BY DEF AllTasks
<1>1. IsFrame(f) /\ f.item \in Items
  BY <1>0 DEF CallsInv, CallOn
<1>2. pc[t] # "app" => x \in Queues /\ f.op \in Sends \cup Receives
  BY <1>0 DEF CallsInv, CallOn
<1>3. frame = [frame EXCEPT ![t] = f]
  BY DEF CallsInv
<1>4. x \in Queues => IsQueue(q[x]) /\ Ring(q[x])
  BY DEF QueuesInv
<1>5. ASSUME NEW place, NEW g, pc[t] # "app", IsFrame(g), g.item = f.item, g.queue = f.queue, g.op = f.op,
             pc' = [pc EXCEPT ![t] = place], frame' = [frame EXCEPT ![t] = g]
      PROVE  CallsInv'
  <2>1. CallOn(place, g)
    BY <1>1, <1>2, <1>5 DEF CallOn
  <2> QED
    BY <1>0, <1>5, <2>1, OneCallChanges
<1>6. ASSUME NEW place, pc[t] # "app", pc' = [pc EXCEPT ![t] = place], frame' = frame
      PROVE  CallsInv'
  BY <1>1, <1>3, <1>5, <1>6
<1>7. CASE Retry(t)
  BY <1>0, <1>1, <1>2, <1>7, TryStep DEF Retry, At
<1>8. CASE SuspendAll(t)
  BY <1>6, <1>8, NoQueueChanges DEF SuspendAll, At, Goto
<1>9. CASE LockAndCheck(t)
  <2> DEFINE lock(n) == IF n = Unlocked THEN LockedUnmodified ELSE n
             rx == lock(q[x].rxLock)
             tx == lock(q[x].txLock)
             r == q[x]
             rl == [r EXCEPT !.rxLock = rx]
             s == [rl EXCEPT !.txLock = tx]
  <2>1. pc[t] # "app" /\ x \in Queues
    BY <1>2, <1>9 DEF LockAndCheck, At
  <2>2. q' = [q EXCEPT ![x].rxLock = lock(q[x].rxLock), ![x].txLock = lock(q[x].txLock)]
    BY <1>9 DEF LockAndCheck
  <2>3. q' = [q EXCEPT ![x] = s]
    BY <2>2 DEF QueuesInv, IsQueue
  <2>4. IsQueue(r) /\ Ring(r) /\ rl = [r EXCEPT !.rxLock = rx] /\ s = [rl EXCEPT !.txLock = tx]
    BY <1>4, <2>1
  <2> HIDE DEF rx, tx, r, rl, s
  <2>5. IsQueue(rl) /\ Ring(rl) /\ rl.kind = r.kind /\ ItemsOf(rl) = ItemsOf(r)
    BY <2>4, LocksKeepRing
  <2>6. IsQueue(s) /\ Ring(s) /\ s.kind = rl.kind /\ ItemsOf(s) = ItemsOf(rl)
    BY <2>4, <2>5, LocksKeepRing, ZenonT(60)
  <2>7. QueuesInv' /\ ItemsStep
    BY <2>1, <2>3, <2>5, <2>6, OneQueueChanges DEF r
  <2>8. \E place, g : /\ IsFrame(g) /\ g.item = f.item /\ g.queue = f.queue /\ g.op = f.op
                      /\ pc' = [pc EXCEPT ![t] = place] /\ frame' = [frame EXCEPT ![t] = g]
    <3>1. CASE TimedOut(k, f.timeOut, f.ticks)
      <4> DEFINE g == [f EXCEPT !.next = "app"]
      <4>1. IsFrame(g) /\ g.item = f.item /\ g.queue = f.queue /\ g.op = f.op
        BY <1>1, FrameKeeps
      <4>2. pc' = [pc EXCEPT ![t] = "unlockTx"] /\ frame' = [frame EXCEPT ![t] = g]
        BY <1>9, <3>1 DEF LockAndCheck, Goto
      <4> QED
        BY <4>1, <4>2
    <3>2. CASE ~ TimedOut(k, f.timeOut, f.ticks)
      <4> DEFINE left == TicksRemaining(k, f.timeOut, f.ticks)
                 noted == TimeNoted(f.ticks)
                 h == [f EXCEPT !.ticks = left]
                 g == [h EXCEPT !.timeOut = noted]
      <4>1. h = [f EXCEPT !.ticks = left]
        OBVIOUS
      <4>2. g = [h EXCEPT !.timeOut = noted]
        OBVIOUS
      <4> HIDE DEF f, left, noted, h, g
      <4>3. IsFrame(h) /\ h.item = f.item /\ h.queue = f.queue /\ h.op = f.op
        BY <1>1, <4>1, FrameKeeps
      <4>4. IsFrame(g) /\ g.item = h.item /\ g.queue = h.queue /\ g.op = h.op
        BY <4>3, <4>2, FrameKeeps
      <4>5. IsFrame(g) /\ g.item = f.item /\ g.queue = f.queue /\ g.op = f.op
        BY <4>3, <4>4
      <4> USE DEF f, left, noted, h, g
      <4>6. /\ pc' = [pc EXCEPT ![t] = "isFull"]
            /\ frame' = [frame EXCEPT ![t].ticks = TicksRemaining(k, f.timeOut, @),
                                      ![t].timeOut = TimeNoted(f.ticks)]
        BY <1>9, <3>2 DEF LockAndCheck, Goto
      <4>7. frame' = [frame EXCEPT ![t] = g]
        BY <1>0, <4>6 DEF CallsInv
      <4> QED
        BY <4>5, <4>6, <4>7
    <3> QED
      BY <3>1, <3>2
  <2> QED
    BY <1>5, <2>1, <2>7, <2>8
<1>10. CASE IsFullOrEmpty(t)
  <2> DEFINE g == [f EXCEPT !.next = IF StillBlocked(t) THEN "yield" ELSE "try"]
             place == IF StillBlocked(t) THEN "place" ELSE "unlockTx"
  <2>1. IsFrame(g) /\ g.item = f.item /\ g.queue = f.queue /\ g.op = f.op
    BY <1>1 DEF IsFrame
  <2>2. /\ pc[t] # "app" /\ pc' = [pc EXCEPT ![t] = place] /\ UNCHANGED q
        /\ frame' = [frame EXCEPT ![t].next = IF StillBlocked(t) THEN "yield" ELSE "try"]
    BY <1>10 DEF IsFullOrEmpty, Goto, At
  <2>3. frame' = [frame EXCEPT ![t] = g]
    BY <1>0, <2>2 DEF CallsInv
  <2> HIDE DEF g, place
  <2> QED
    BY <1>5, <2>1, <2>2, <2>3, NoQueueChanges
<1>11. CASE Place(t)
  BY <1>6, <1>11, NoQueueChanges DEF Place, At, Goto
<1>12. CASE UnlockTx(t)
  <2> DEFINE s == [q[x] EXCEPT !.txLock = Unlocked]
  <2>1. /\ pc[t] # "app" /\ x \in Queues /\ pc' = [pc EXCEPT ![t] = "unlockRx"] /\ frame' = frame
        /\ q' = [q EXCEPT ![x].txLock = Unlocked]
    BY <1>2, <1>12 DEF UnlockTx, At, Goto
  <2>2. IsQueue(q[x]) /\ Ring(q[x])
    BY <2>1 DEF QueuesInv
  <2>3. q' = [q EXCEPT ![x] = s]
    BY <2>1, <2>2 DEF QueuesInv, IsQueue
  <2>4. IsQueue(s) /\ Ring(s) /\ s.kind = q[x].kind /\ ItemsOf(s) = ItemsOf(q[x])
    BY <2>2, LocksKeepRing
  <2> HIDE DEF s
  <2> QED
    BY <1>6, <2>1, <2>3, <2>4, OneQueueChanges
<1>13. CASE UnlockRx(t)
  <2> DEFINE s == [q[x] EXCEPT !.rxLock = Unlocked]
  <2>1. /\ pc[t] # "app" /\ x \in Queues /\ pc' = [pc EXCEPT ![t] = "resumeAll"] /\ frame' = frame
        /\ q' = [q EXCEPT ![x].rxLock = Unlocked]
    BY <1>2, <1>13 DEF UnlockRx, At, Goto
  <2>2. IsQueue(q[x]) /\ Ring(q[x])
    BY <2>1 DEF QueuesInv
  <2>3. q' = [q EXCEPT ![x] = s]
    BY <2>1, <2>2 DEF QueuesInv, IsQueue
  <2>4. IsQueue(s) /\ Ring(s) /\ s.kind = q[x].kind /\ ItemsOf(s) = ItemsOf(q[x])
    BY <2>2, LocksKeepRing
  <2> HIDE DEF s
  <2> QED
    BY <1>6, <2>1, <2>3, <2>4, OneQueueChanges
<1>14. ASSUME Goto(t, "app"), frame' = [frame EXCEPT ![t] = NoFrame] PROVE CallsInv'
  <2>1. CallOn("app", NoFrame)
    BY NoFrameIsFrame DEF CallOn
  <2> QED
    BY <1>0, <1>14, <2>1, OneCallChanges DEF Goto
<1>15. CASE ResumeAll(t)
  <2>1. pc[t] # "app" /\ UNCHANGED q
    BY <1>15 DEF ResumeAll, At
  <2>2. CASE f.next = "app"
    BY <1>14, <1>15, <2>1, <2>2, NoQueueChanges DEF ResumeAll
  <2>3. CASE f.next # "app"
    <3>1. \E place : pc' = [pc EXCEPT ![t] = place] /\ frame' = frame
      BY <1>15, <2>3 DEF ResumeAll, Goto
    <3> QED
      BY <1>6, <2>1, <3>1, NoQueueChanges
  <2> QED
    BY <2>2, <2>3
<1>16. CASE Yield(t)
  BY <1>6, <1>16, NoQueueChanges DEF Yield, At, Goto
<1>17. CASE AltWaits(t)
  <2>1. pc[t] # "app" /\ UNCHANGED q
    BY <1>17 DEF AltWaits, At
  <2>2. CASE TimedOut(k, f.timeOut, f.ticks)
    BY <1>14, <1>17, <2>1, <2>2, NoQueueChanges DEF AltWaits, Return
  <2>3. CASE ~ TimedOut(k, f.timeOut, f.ticks)
    <3> DEFINE left == TicksRemaining(k, f.timeOut, f.ticks)
               noted == TimeNoted(f.ticks)
               h == [f EXCEPT !.ticks = left]
               g == [h EXCEPT !.timeOut = noted]
    <3>1. h = [f EXCEPT !.ticks = left]
      OBVIOUS
    <3>2. g = [h EXCEPT !.timeOut = noted]
      OBVIOUS
    <3> HIDE DEF f, left, noted, h, g
    <3>3. IsFrame(h) /\ h.item = f.item /\ h.queue = f.queue /\ h.op = f.op
      BY <1>1, <3>1, FrameKeeps
    <3>4. IsFrame(g) /\ g.item = h.item /\ g.queue = h.queue /\ g.op = h.op
      BY <3>3, <3>2, FrameKeeps
    <3>5. IsFrame(g) /\ g.item = f.item /\ g.queue = f.queue /\ g.op = f.op
      BY <3>3, <3>4
    <3> USE DEF f, left, noted, h, g
    <3>6. /\ pc' = [pc EXCEPT ![t] = "try"]
          /\ frame' = [frame EXCEPT ![t].ticks = left, ![t].timeOut = TimeNoted(f.ticks)]
      BY <1>17, <2>3 DEF AltWaits, Goto
    <3>7. frame' = [frame EXCEPT ![t] = g]
      BY <1>0, <3>6 DEF CallsInv
    <3> HIDE DEF g
    <3> QED
      BY <1>5, <2>1, <3>5, <3>6, <3>7, NoQueueChanges
  <2> QED
    BY <2>2, <2>3
<1> QED
  BY <1>7, <1>8, <1>9, <1>10, <1>11, <1>12, <1>13, <1>15, <1>16, <1>17
     DEF Continue, AltSendWaits, AltReceiveWaits

\* A call that begins.
LEMMA CallStep ==
  ASSUME QueuesInv, CallsInv, NEW t \in AllTasks, NEW x \in Queues, NEW item \in Items,
         NEW op \in Sends \cup Receives, NEW n,
         Call(t, op, x, item, n) \/ AltCall(t, op, x, item, n)
  PROVE  QueuesInv' /\ ItemsStep /\ CallsInv'
<1> DEFINE f1 == [NoFrame EXCEPT !.op = op]
           f2 == [f1 EXCEPT !.queue = x]
           f3 == [f2 EXCEPT !.item = item]
           f == [f3 EXCEPT !.ticks = n]
           alt == TRUE
           g == [f EXCEPT !.alt = alt]
<1>1. Try(t, f, n) \/ Try(t, g, n)
  BY DEF Call, AltCall
<1>2. /\ f1 = [NoFrame EXCEPT !.op = op] /\ f2 = [f1 EXCEPT !.queue = x]
      /\ f3 = [f2 EXCEPT !.item = item] /\ f = [f3 EXCEPT !.ticks = n]
      /\ g = [f EXCEPT !.alt = alt]
  OBVIOUS
<1> HIDE DEF f1, f2, f3, f, alt, g
<1>3. IsFrame(f1) /\ f1.op = op
  BY <1>2, NoFrameIsFrame DEF IsFrame
<1>4. IsFrame(f2) /\ f2.queue = x /\ f2.op = f1.op
  BY <1>2, <1>3 DEF IsFrame
<1>5. IsFrame(f3) /\ f3.item = item /\ f3.queue = f2.queue /\ f3.op = f2.op
  BY <1>2, <1>4 DEF IsFrame
<1>6. IsFrame(f) /\ f.item = f3.item /\ f.queue = f3.queue /\ f.op = f3.op
  BY <1>2, <1>5 DEF IsFrame
<1>7. IsFrame(g) /\ g.item = f.item /\ g.queue = f.queue /\ g.op = f.op
  BY <1>2, <1>6 DEF IsFrame
<1>8. Try(t, f, n) => QueuesInv' /\ ItemsStep /\ CallsInv'
  BY <1>3, <1>4, <1>5, <1>6, TryStep
<1>9. Try(t, g, n) => QueuesInv' /\ ItemsStep /\ CallsInv'
  BY <1>3, <1>4, <1>5, <1>6, <1>7, TryStep
<1> QED
  BY <1>1, <1>8, <1>9

\* Beginning one.
LEMMA BeginStep ==
  ASSUME QueuesInv, CallsInv, NEW t \in Tasks, Begin(t)
  PROVE  QueuesInv' /\ ItemsStep /\ CallsInv'
<1>1. t \in AllTasks
  BY DEF AllTasks
<1>2. \A x \in Queues : ItemsFor(x) \subseteq Items
  BY NothingIsItem DEF ItemsFor
<1>3. CASE Send(t) \/ AltSend(t)
  <2>1. PICK x \in Queues, n \in Ticks, op \in Sends, item \in Items :
          Call(t, op, x, item, n) \/ AltCall(t, op, x, item, n)
    BY <1>2, <1>3 DEF Send, AltSend
  <2> QED
    BY <1>1, <2>1, CallStep
<1>4. CASE Receive(t) \/ AltReceive(t)
  <2>1. PICK x \in Queues, n \in Ticks, op \in Receives :
          Call(t, op, x, Nothing, n) \/ AltCall(t, op, x, Nothing, n)
    BY <1>4 DEF Receive, AltReceive
  <2> QED
    BY <1>1, <2>1, CallStep, NothingIsItem
<1>5. CASE TakeMutex(t) \/ GiveMutex(t)
  <2>1. PICK x \in Queues : \/ \E n \in Ticks : Call(t, "receive", x, Nothing, n)
                            \/ Call(t, "sendToBack", x, Nothing, 0)
    BY <1>5 DEF TakeMutex, GiveMutex
  <2>2. "receive" \in Sends \cup Receives /\ "sendToBack" \in Sends \cup Receives
    BY DEF Sends, Receives
  <2> QED
    BY <1>1, <2>1, <2>2, CallStep, NothingIsItem
<1>6. CASE Nest(t)
  <2>1. PICK x \in Queues, d \in {-1, 1} :
          /\ q' = [q EXCEPT ![x].recursiveCallCount = @ + d]
          /\ UNCHANGED <<k, pc, frame, asked, elapsed>>
    BY <1>6 DEF Nest
  <2> DEFINE r == q[x]
             s == [r EXCEPT !.recursiveCallCount = @ + d]
  <2>2. IsQueue(r) /\ Ring(r)
    BY DEF QueuesInv
  <2>3. q' = [q EXCEPT ![x] = s]
    BY <2>1
  <2> HIDE DEF r
  <2>4. IsQueue(s) /\ s.kind = r.kind /\ s.messagesWaiting = r.messagesWaiting
        /\ s.store = r.store /\ s.writeTo = r.writeTo /\ s.readFrom = r.readFrom
    BY <2>2 DEF IsQueue
  <2> HIDE DEF s
  <2>5. Ring(s) /\ ItemsOf(s) = ItemsOf(r)
    BY <2>2, <2>4, SameRing
  <2>6. QueuesInv' /\ ItemsStep
    BY <2>3, <2>4, <2>5, OneQueueChanges DEF r
  <2> QED
    BY <2>1, <2>6, NoCallChanges
<1>7. CASE Sleep(t)
  BY <1>7, NoQueueChanges, NoCallChanges DEF Sleep
<1> QED
  BY <1>3, <1>4, <1>5, <1>6, <1>7 DEF Begin

\* Interrupts, also on a locked queue.
LEMMA InterruptStep ==
  ASSUME QueuesInv, CallsInv, Interrupt
  PROVE  QueuesInv' /\ ItemsStep /\ CallsInv'
<1>1. CASE vTickISR
  BY <1>1, NoQueueChanges, NoCallChanges DEF vTickISR
<1>2. ASSUME NEW x \in Queues, xQueueReceiveFromISR(x)
      PROVE  QueuesInv' /\ ItemsStep /\ CallsInv'
  <2> DEFINE qn == Taken(x, NoTask)
             s == [qn EXCEPT !.rxLock = @ + 1]
  <2>1. HasItem(x) /\ (q' = [q EXCEPT ![x] = qn] \/ q' = [q EXCEPT ![x] = s])
        /\ UNCHANGED <<pc, frame>>
    BY <1>2 DEF xQueueReceiveFromISR
  <2>2. IsQueue(q[x]) /\ Ring(q[x])
    BY DEF QueuesInv
  <2>3. /\ IsQueue(qn) /\ Ring(qn) /\ qn.kind = q[x].kind
        /\ ItemsOf(q[x]) # <<>> /\ ItemsOf(qn) = Tail(ItemsOf(q[x]))
    BY <2>1, <2>2, TakesItem
  <2> HIDE DEF qn
  <2>4. IsQueue(s) /\ Ring(s) /\ s.kind = qn.kind /\ ItemsOf(s) = ItemsOf(qn)
    BY <2>3, LocksKeepRing
  <2> HIDE DEF s
  <2>5. QueuesInv' /\ ItemsStep
    BY <2>1, <2>3, <2>4, OneQueueChanges
  <2> QED
    BY <2>1, <2>5, NoCallChanges
<1>3. ASSUME NEW x \in Queues, NEW item \in ItemsFor(x), NEW op \in IsrSends,
             xQueueGenericSendFromISR(x, item, op)
      PROVE  QueuesInv' /\ ItemsStep /\ CallsInv'
  <2> DEFINE qn == prvCopyDataToQueue(x, item, op)
             s == [qn EXCEPT !.txLock = @ + 1]
  <2>1. HasRoom(x) /\ (q' = [q EXCEPT ![x] = qn] \/ q' = [q EXCEPT ![x] = s])
        /\ UNCHANGED <<pc, frame>>
    BY <1>3 DEF xQueueGenericSendFromISR
  <2>2. IsQueue(q[x]) /\ Ring(q[x])
    BY DEF QueuesInv
  <2>3. item \in Items /\ op \in Sends
    BY QueueAssumption, NothingIsItem DEF ItemsFor
  <2>4. /\ IsQueue(qn) /\ Ring(qn) /\ qn.kind = q[x].kind
        /\ \E i \in Items : \/ ItemsOf(qn) = Append(ItemsOf(q[x]), i)
                            \/ ItemsOf(qn) = <<i>> \o ItemsOf(q[x])
    BY <2>1, <2>2, <2>3, PutsItem
  <2> HIDE DEF qn
  <2>5. IsQueue(s) /\ Ring(s) /\ s.kind = qn.kind /\ ItemsOf(s) = ItemsOf(qn)
    BY <2>4, LocksKeepRing
  <2> HIDE DEF s
  <2>6. QueuesInv' /\ ItemsStep
    BY <2>1, <2>4, <2>5, OneQueueChanges
  <2> QED
    BY <2>1, <2>6, NoCallChanges
<1> QED
  BY <1>1, <1>2, <1>3 DEF Interrupt

-------------------------------------------------------------------------------
(* The rings are sequences *)

LEMMA NewQueueIsRing ==
  ASSUME NEW kind \in Kinds
  PROVE  LET s == NewQueue(kind) IN IsQueue(s) /\ Ring(s) /\ s.kind = kind
<1> DEFINE n == LENGTH[kind]
           empty == [kind |-> kind, messagesWaiting |-> 0,
                     store |-> [i \in 0 .. n - 1 |-> Nothing],
                     writeTo |-> 0, readFrom |-> n - 1, rxLock |-> -1, txLock |-> -1,
                     mutexHolder |-> NoTask, recursiveCallCount |-> 0]
           s == NewQueue(kind)
<1>1. n \in Nat \ {0}
  BY Lengths
<1>2. 0 \in 0 .. n - 1 /\ n - 1 \in 0 .. n - 1 /\ 0 \in 0 .. n
  BY <1>1
<1>3. (n - 1 + 0 + 1) % n = 0
  <2>1. n - 1 + 0 + 1 = n
    BY <1>1
  <2>2. n % n = 0
    BY <1>1
  <2> QED
    BY <2>1, <2>2
<1>4. [i \in 0 .. n - 1 |-> Nothing] \in [0 .. n - 1 -> Items]
  BY NothingIsItem
<1>5. CASE kind = "data"
  <2>1. s = empty
    BY <1>5 DEF NewQueue
  <2>2. /\ IsQueue(s) /\ s.kind = kind /\ s.messagesWaiting = 0 /\ s.writeTo = 0
        /\ s.readFrom = n - 1 /\ s.store = [i \in 0 .. n - 1 |-> Nothing]
    BY <2>1 DEF IsQueue
  <2> HIDE DEF s
  <2>3. s.writeTo = (s.readFrom + s.messagesWaiting + 1) % LENGTH[s.kind]
    BY <1>3, <2>2
  <2>4. Ring(s)
    BY <1>2, <1>4, <1>5, <2>2, <2>3 DEF Ring
  <2> QED
    BY <2>2, <2>4 DEF s
<1>6. CASE kind # "data"
  <2>1. PICK m : m \in 0 .. n /\ s = [empty EXCEPT !.messagesWaiting = m]
    <3>1. CASE kind = "semaphore"
      <4>1. NewQueue("semaphore") = [empty EXCEPT !.messagesWaiting = InitialCount]
        BY <3>1 DEF NewQueue, CountingSemaphore
      <4>2. InitialCount \in 0 .. n
        BY <3>1, QueueAssumption
      <4> QED
        BY <3>1, <4>1, <4>2
    <3>2. CASE kind \in {"mutex", "recursive"}
      <4>1. s = [empty EXCEPT !.messagesWaiting = 1]
        BY <3>2 DEF NewQueue
      <4>2. LENGTH["mutex"] = 1 /\ LENGTH["recursive"] = 1
        BY QueueAssumption
      <4>3. 1 \in 0 .. n
        BY <3>2, <4>2
      <4> HIDE DEF s, empty, n
      <4> QED
        BY <4>1, <4>3
    <3> QED
      BY <1>6, <3>1, <3>2 DEF Kinds
  <2>2. /\ IsQueue(s) /\ s.kind = kind /\ s.messagesWaiting = m /\ s.writeTo = 0
        /\ s.readFrom = n - 1 /\ s.store = [i \in 0 .. n - 1 |-> Nothing]
    BY <2>1 DEF IsQueue
  <2> HIDE DEF s
  <2>3. Ring(s)
    BY <1>2, <1>4, <1>6, <2>1, <2>2 DEF Ring
  <2> QED
    BY <2>2, <2>3 DEF s
<1> QED
  BY <1>5, <1>6

LEMMA QueueInit == Init => QueuesInv /\ CallsInv
<1> SUFFICES ASSUME Init PROVE QueuesInv /\ CallsInv
  OBVIOUS
<1>1. PICK kinds \in Uses : q = [x \in Queues |-> NewQueue(kinds[x])]
  BY DEF Init
<1>2. \A x \in Queues : kinds[x] \in Kinds
  BY QueueAssumption
<1>3. \A x \in Queues : IsQueue(q[x]) /\ Ring(q[x])
  BY <1>1, <1>2, NewQueueIsRing
<1>4. QueuesInv
  BY <1>1, <1>3 DEF QueuesInv
<1>5. pc = [t \in AllTasks |-> "app"] /\ frame = [t \in AllTasks |-> NoFrame]
  BY DEF Init
<1>6. CallOn("app", NoFrame)
  BY NoFrameIsFrame DEF CallOn
<1> HIDE DEF NoFrame
<1>7. CallsInv
  BY <1>5, <1>6 DEF CallsInv
<1> QED
  BY <1>4, <1>7

LEMMA QueueNext ==
  ASSUME QueuesInv, CallsInv, [Next]_vars
  PROVE  QueuesInv' /\ ItemsStep /\ CallsInv'
<1>1. CASE Next
  BY <1>1, BeginStep, ContinueStep, InterruptStep DEF Next
<1>2. CASE UNCHANGED vars
  BY <1>2, NoQueueChanges, NoCallChanges DEF vars
<1> QED
  BY <1>1, <1>2

\* A refinement: the ring of each queue, its two pointers and its count are a bounded
\* sequence that items join at either end and leave at the front, one at a time,
\* whichever of the calls, of tasks or of handlers, on a locked queue or not, meet.
THEOREM RingsAreSequences == Spec => ImplementsQueues
<1> DEFINE capacity == [x \in Queues |-> uxLength(x)]
           contents == [x \in Queues |-> Contents(x)]
<1>1. Init => Promise!QueuesInit
  <2> SUFFICES ASSUME Init PROVE Promise!QueuesInit
    OBVIOUS
  <2>1. QueuesInv
    BY QueueInit
  <2>2. \A x \in Queues : /\ uxLength(x) \in Nat \ {0}
                          /\ Len(Contents(x)) <= uxLength(x)
    <3>1. ASSUME NEW x \in Queues PROVE uxLength(x) \in Nat \ {0} /\ Len(Contents(x)) <= uxLength(x)
      <4>1. Ring(q[x]) /\ Contents(x) = ItemsOf(q[x]) /\ uxLength(x) = LENGTH[q[x].kind]
        BY <2>1 DEF QueuesInv, Contents, ItemsOf, uxLength
      <4> QED
        BY <4>1, RingTypes
    <3> QED
      BY <3>1
  <2> QED
    BY <2>2 DEF Promise!QueuesInit
<1>2. QueuesInv /\ CallsInv /\ [Next]_vars => QueuesInv' /\ CallsInv'
  BY QueueNext
<1>3. QueuesInv /\ CallsInv /\ [Next]_vars => [Promise!Next]_<<capacity, contents>>
  BY QueueNext, StepIsPromised
<1> QED
  BY QueueInit, <1>1, <1>2, <1>3, PTL DEF Spec, ImplementsQueues, Promise!Spec

-------------------------------------------------------------------------------
(* No wake-up is lost. What holds outside of a suspension of the scheduler  *)
(* (NoLostWakeup) is not inductive: a handler that finds the queue locked   *)
(* wakes nobody and counts, and what is woken then is pending. WakeInv says *)
(* at every step who is awake, or will be woken, for what there is to take. *)

\* Where a task is with the scheduler suspended by it, and where the queue is locked.
Held      == {"lock", "isFull", "place", "unlockTx", "unlockRx", "resumeAll"}
TxLocking == {"isFull", "place", "unlockTx"}
RxLocking == TxLocking \cup {"unlockRx"}
Unlocking == {"unlockTx", "unlockRx", "resumeAll"}

Ends   == {"send", "receive"}
Ops(d) == IF d = "receive" THEN Receives ELSE Sends

\* A task whose call will look at the queue again, and one that has put itself on the
\* event list and has yet to give up the processor.
OnWay(p, f)   == p \in {"yield", "try"} \/ (p \in Unlocking /\ f.next \in {"yield", "try"})
Parting(p, f) == p = "yield" \/ (p \in Unlocking /\ f.next = "yield")

Heads(p, f, x, d) == OnWay(p, f) /\ f.op \in Ops(d) /\ f.queue = x

\* The tasks that are awake and will look at x for an item (a place).
Takers(kk, pp, ff, x, d) == {t \in Tasks : Heads(pp[t], ff[t], x, d) /\ Awake(kk, t)}

\* Of a queue record: what waits to be taken (filled), how often the event list of
\* that end will be looked at when the queue is unlocked.
Wanted(s, d) == IF d = "receive" THEN s.messagesWaiting ELSE LENGTH[s.kind] - s.messagesWaiting
LockOf(s, d) == IF d = "receive" THEN s.txLock ELSE s.rxLock
Late(s, d)   == IF LockOf(s, d) > 0 THEN LockOf(s, d) ELSE 0

\* The scheduler is suspended exactly inside the current task's call, and the current
\* task is ready unless it is about to give up the processor.
HeldInv(kk, pp, ff) ==
  /\ Sound(kk) /\ TimesSound(kk) /\ Quiet(kk)
  /\ \A t \in AllTasks : pp[t] \in Held => t = kk.current
  /\ kk.schedulerSuspended = IF pp[kk.current] \in Held THEN 1 ELSE 0
  /\ pp[IdleTask] = "app"
  /\ IsReady(kk, kk.current) \/ Parting(pp[kk.current], ff[kk.current])

\* A queue is locked exactly by the current task's call on it.
LocksFit(qq, p, f) ==
  \A x \in Queues :
    /\ qq[x].txLock \in Nat \cup {Unlocked} /\ qq[x].rxLock \in Nat \cup {Unlocked}
    /\ qq[x].txLock # Unlocked <=> p \in TxLocking /\ f.queue = x
    /\ qq[x].rxLock # Unlocked <=> p \in RxLocking /\ f.queue = x

Mutexes == {"mutex", "recursive"}

\* A mutex that is taken has a holder, and no handler touches it.
MutexFits(s) ==
  s.kind \in Mutexes =>
    /\ s.txLock <= 0
    /\ s.mutexHolder \in IF s.messagesWaiting = 0 THEN Tasks ELSE {NoTask}

\* A call with time left. It goes to wait only if all there is to take came while the
\* queue was locked.
CallFits(qq, p, f) ==
  /\ f.ticks \in Ticks /\ f.timeOut.timeOnEntering \in Ticks
  /\ p \in {"isFull", "place"} => f.ticks > 0
  /\ p # "app" /\ qq[f.queue].kind \in Mutexes => f.op \in Receives
  /\ p = "place" =>
       /\ f.next = "yield"
       /\ \A d \in Ends : f.op \in Ops(d) => Wanted(qq[f.queue], d) <= Late(qq[f.queue], d)

\* Who waits in an event list is a task whose call is on that end of that queue.
WaitersFit(kk, pp, ff) ==
  \A x \in Queues, d \in Ends : \A t \in ToSet(kk.event[<<x, d>>]) :
    t \in Tasks /\ Heads(pp[t], ff[t], x, d)

\* While a task waits for an item (a place), each one there is has a task that is
\* awake to take it, or will wake one when the queue is unlocked.
EnoughFor(kk, qq, pp, ff, x, d) ==
  kk.event[<<x, d>>] # <<>> =>
    Wanted(qq[x], d) <= Cardinality(Takers(kk, pp, ff, x, d)) + Late(qq[x], d)

WakeInv ==
  /\ HeldInv(k, pc, frame)
  /\ LocksFit(q, pc[k.current], frame[k.current])
  /\ \A x \in Queues : MutexFits(q[x])
  /\ \A t \in AllTasks : CallFits(q, pc[t], frame[t])
  /\ WaitersFit(k, pc, frame)
  /\ \A x \in Queues, d \in Ends : EnoughFor(k, q, pc, frame, x, d)

\* Sets of tasks, one of which gains W and loses D.
LEMMA CountsOn ==
  ASSUME NEW T \in SUBSET Tasks, NEW S \in SUBSET Tasks, NEW D \in SUBSET Tasks,
         NEW W \in SUBSET Tasks, (T \ D) \cup W \subseteq S, W \cap T = {}
  PROVE  /\ Cardinality(T) \in Nat /\ Cardinality(S) \in Nat
         /\ Cardinality(D) \in Nat /\ Cardinality(W) \in Nat
         /\ Cardinality(T) + Cardinality(W) - Cardinality(D) <= Cardinality(S)
<1> DEFINE R == T \ D
           U == R \cup W
<1>1. IsFiniteSet(Tasks)
  BY QueueAssumption
<1>2. R \in SUBSET Tasks /\ U \in SUBSET S /\ R \cap W = {} /\ R \cup (T \cap D) = T
  OBVIOUS
<1>3. T \cap D \in SUBSET D /\ R \cap (T \cap D) = {}
  OBVIOUS
<1>4. IsFiniteSet(T) /\ IsFiniteSet(S) /\ IsFiniteSet(D) /\ IsFiniteSet(W) /\ IsFiniteSet(R)
  BY <1>1, <1>2, FS_Subset
<1> HIDE DEF R
<1>5. IsFiniteSet(T \cap D) /\ Cardinality(T \cap D) <= Cardinality(D)
  BY <1>3, <1>4, FS_Subset
<1>6. Cardinality(U) = Cardinality(R) + Cardinality(W)
  <2>1. Cardinality(U) = Cardinality(R) + Cardinality(W) - Cardinality(R \cap W)
    BY <1>4, FS_Union
  <2>2. Cardinality(R \cap W) = 0
    BY <1>2, FS_EmptySet
  <2>3. Cardinality(R) \in Nat /\ Cardinality(W) \in Nat
    BY <1>4, FS_CardinalityType
  <2> QED
    BY <2>1, <2>2, <2>3
<1>7. Cardinality(T) = Cardinality(R) + Cardinality(T \cap D)
  <2>1. Cardinality(R \cup (T \cap D))
          = Cardinality(R) + Cardinality(T \cap D) - Cardinality(R \cap (T \cap D))
    BY <1>4, <1>5, FS_Union
  <2>2. Cardinality(R \cap (T \cap D)) = 0
    BY <1>3, FS_EmptySet
  <2>3. Cardinality(R) \in Nat /\ Cardinality(T \cap D) \in Nat
    BY <1>4, <1>5, FS_CardinalityType
  <2> QED
    BY <1>2, <2>1, <2>2, <2>3
<1>8. Cardinality(U) <= Cardinality(S)
  BY <1>2, <1>4, FS_Subset
<1>9. /\ Cardinality(T) \in Nat /\ Cardinality(S) \in Nat /\ Cardinality(D) \in Nat
      /\ Cardinality(W) \in Nat /\ Cardinality(R) \in Nat /\ Cardinality(T \cap D) \in Nat
  BY <1>4, <1>5, FS_CardinalityType
<1> QED
  BY <1>5, <1>6, <1>7, <1>8, <1>9

\* n of the tasks in event list e were woken, if there were so many.
Wakes(r, kk, e, n) ==
  r.event[e] # <<>> =>
    \E W \in SUBSET ToSet(kk.event[e]) :
      /\ IsFiniteSet(W) /\ Cardinality(W) = n
      /\ \A u \in W : Awake(r, u) /\ ~ Awake(kk, u)

LEMMA WakesNone ==
  ASSUME NEW r, NEW kk, NEW e
  PROVE  Wakes(r, kk, e, 0)
<1>1. IsFiniteSet({}) /\ Cardinality({}) = 0
  BY FS_EmptySet
<1>2. {} \in SUBSET ToSet(kk.event[e])
  OBVIOUS
<1> QED
  BY <1>1, <1>2 DEF Wakes

LEMMA WantedTypes ==
  ASSUME NEW s, Ring(s), s.txLock \in Nat \cup {Unlocked}, s.rxLock \in Nat \cup {Unlocked},
         NEW d \in Ends
  PROVE  Wanted(s, d) \in Nat /\ Late(s, d) \in Nat
<1>1. LENGTH[s.kind] \in Nat /\ s.messagesWaiting \in Nat /\ s.messagesWaiting <= LENGTH[s.kind]
  BY RingTypes
<1> QED
  BY <1>1 DEF Wanted, Late, LockOf, Unlocked

\* The current task goes on at p, with f.
Moves(p, f) ==
  /\ pc' = [pc EXCEPT ![k.current] = p]
  /\ frame' = [frame EXCEPT ![k.current] = f]

LEMMA MovesOne ==
  ASSUME CallsInv, Sound(k), NEW p, NEW f, Moves(p, f)
  PROVE  /\ pc'[k.current] = p /\ frame'[k.current] = f
         /\ \A u \in AllTasks \ {k.current} : pc'[u] = pc[u] /\ frame'[u] = frame[u]
         /\ k.current \in AllTasks
<1>1. k.current \in AllTasks
  BY SoundTypes
<1>2. /\ pc = [t \in AllTasks |-> pc[t]] /\ frame = [t \in AllTasks |-> frame[t]]
  BY DEF CallsInv
<1> QED
  BY <1>1, <1>2 DEF Moves

\* Who looks, and what is wanted, before and after.
LEMMA Balance ==
  ASSUME NEW w0 \in Nat, NEW w1 \in Nat, NEW l0 \in Nat, NEW l1 \in Nat, NEW n \in Nat,
         NEW out \in {0, 1}, NEW before \in Nat, NEW after \in Nat, NEW gone \in Nat,
         w0 <= before + l0, w1 - l1 <= w0 - l0 + n - out,
         before + n - gone <= after, gone <= out
  PROVE  w1 <= after + l1
OBVIOUS

\* What the step takes from those who look after end d of x, and gives to them, for what
\* it adds to what is wanted.
LEMMA EnoughKeeps ==
  ASSUME CallsInv, Sound(k), WaitersFit(k, pc, frame),
         NEW p, NEW f, Moves(p, f), NEW x \in Queues, NEW d \in Ends,
         EnoughFor(k, q, pc, frame, x, d),
         NEW n \in Nat, NEW out \in {0, 1}, Wakes(k', k, <<x, d>>, n),
         k'.event[<<x, d>>] # <<>> => k.event[<<x, d>>] # <<>>,
         \A u \in Tasks \ {k.current} : Awake(k, u) => Awake(k', u),
         out = 0 /\ Heads(pc[k.current], frame[k.current], x, d) /\ Awake(k, k.current) =>
           Heads(p, f, x, d) /\ Awake(k', k.current),
         k.current \in ToSet(k.event[<<x, d>>]) => Heads(p, f, x, d),
         Wanted(q[x], d) \in Nat, Late(q[x], d) \in Nat,
         Wanted(q'[x], d) \in Nat, Late(q'[x], d) \in Nat,
         Wanted(q'[x], d) - Late(q'[x], d) <= Wanted(q[x], d) - Late(q[x], d) + n - out
  PROVE  EnoughFor(k', q', pc', frame', x, d)
<1> SUFFICES ASSUME k'.event[<<x, d>>] # <<>>
             PROVE  Wanted(q'[x], d) <= Cardinality(Takers(k', pc', frame', x, d)) + Late(q'[x], d)
  BY DEF EnoughFor
<1> DEFINE t == k.current
           T == Takers(k, pc, frame, x, d)
           S == Takers(k', pc', frame', x, d)
           D == IF out = 0 THEN {} ELSE {t} \cap Tasks
<1>1. T \in SUBSET Tasks /\ S \in SUBSET Tasks /\ D \in SUBSET Tasks
  BY DEF Takers
<1>2. PICK W \in SUBSET ToSet(k.event[<<x, d>>]) :
        IsFiniteSet(W) /\ Cardinality(W) = n /\ \A u \in W : Awake(k', u) /\ ~ Awake(k, u)
  BY DEF Wakes
<1>3. /\ pc'[t] = p /\ frame'[t] = f
      /\ \A u \in AllTasks \ {t} : pc'[u] = pc[u] /\ frame'[u] = frame[u]
  BY MovesOne
<1>4. \A u \in W : u \in Tasks /\ Heads(pc[u], frame[u], x, d)
  BY DEF WaitersFit
<1>5. W \in SUBSET Tasks /\ W \cap T = {}
  BY <1>2, <1>4 DEF Takers
<1>6. ASSUME NEW u \in W PROVE u \in S
  <2>1. Heads(pc'[u], frame'[u], x, d)
    BY <1>3, <1>4 DEF AllTasks
  <2> QED
    BY <1>2, <1>4, <2>1 DEF Takers
<1>7. ASSUME NEW u \in T, u \notin D PROVE u \in S
  <2>1. u \in Tasks /\ Heads(pc[u], frame[u], x, d) /\ Awake(k, u)
    BY DEF Takers
  <2>2. CASE u = t
    <3>1. out = 0
      BY <1>7, <2>1, <2>2
    <3> QED
      BY <1>3, <2>1, <2>2, <3>1 DEF Takers
  <2>3. CASE u # t
    <3>1. pc'[u] = pc[u] /\ frame'[u] = frame[u] /\ Awake(k', u)
      BY <1>3, <2>1, <2>3 DEF AllTasks
    <3> QED
      BY <2>1, <3>1 DEF Takers
  <2> QED
    BY <2>2, <2>3
<1> HIDE DEF T, S, D
<1>8. (T \ D) \cup W \subseteq S
  BY <1>6, <1>7
<1>9. /\ Cardinality(T) \in Nat /\ Cardinality(S) \in Nat /\ Cardinality(D) \in Nat
      /\ Cardinality(T) + Cardinality(W) - Cardinality(D) <= Cardinality(S)
  BY <1>1, <1>5, <1>8, CountsOn
<1>10. Cardinality(D) <= out
  <2>1. CASE out = 0
    BY <2>1, FS_EmptySet DEF D
  <2>2. CASE out = 1
    <3>1. D \in SUBSET {t} /\ IsFiniteSet({t}) /\ Cardinality({t}) = 1
      BY FS_Singleton DEF D
    <3> QED
      BY <2>2, <3>1, FS_Subset
  <2> QED
    BY <2>1, <2>2
<1>11. Wanted(q[x], d) <= Cardinality(T) + Late(q[x], d)
  BY DEF EnoughFor, T
<1>12. Cardinality(T) + n - Cardinality(D) <= Cardinality(S)
  BY <1>2, <1>9
<1>13. Wanted(q'[x], d) <= Cardinality(S) + Late(q'[x], d)
  BY ONLY Wanted(q[x], d) \in Nat, Late(q[x], d) \in Nat, Wanted(q'[x], d) \in Nat,
          Late(q'[x], d) \in Nat, n \in Nat, out \in {0, 1},
          Wanted(q'[x], d) - Late(q'[x], d) <= Wanted(q[x], d) - Late(q[x], d) + n - out,
          <1>9, <1>10, <1>11, <1>12, Balance
<1> QED
  BY <1>13 DEF S

\* How the kernel comes out of a step after which the current task is at p with f.
Leaves(p, f) ==
  /\ Sound(k') /\ TimesSound(k') /\ Quiet(k')
  /\ k'.schedulerSuspended = IF p \in Held THEN 1 ELSE 0
  /\ p \in Held => k'.current = k.current
  /\ IsReady(k', k'.current) \/ (k'.current = k.current /\ Parting(p, f))
  /\ k.current = IdleTask => p = "app"

LEMMA HeldKept ==
  ASSUME CallsInv, HeldInv(k, pc, frame), NEW p, NEW f, Moves(p, f), Leaves(p, f)
  PROVE  HeldInv(k', pc', frame')
<1> DEFINE t == k.current
           c == k'.current
<1>1. /\ pc'[t] = p /\ frame'[t] = f /\ t \in AllTasks
      /\ \A u \in AllTasks \ {t} : pc'[u] = pc[u] /\ frame'[u] = frame[u]
  BY MovesOne DEF HeldInv
<1>2. c \in AllTasks /\ IdleTask \in AllTasks
  BY SoundTypes DEF Leaves
<1>3. \A u \in AllTasks \ {t} : pc'[u] \notin Held
  BY <1>1 DEF HeldInv
<1>4. \A u \in AllTasks : pc'[u] \in Held => u = c
  BY <1>1, <1>3 DEF Leaves
<1>5. pc'[c] \in Held <=> p \in Held
  BY <1>1, <1>2, <1>3 DEF Leaves
<1>6. k'.schedulerSuspended = IF pc'[c] \in Held THEN 1 ELSE 0
  BY <1>5 DEF Leaves
<1>7. pc'[IdleTask] = "app"
  BY <1>1, <1>2 DEF Leaves, HeldInv
<1>8. IsReady(k', c) \/ Parting(pc'[c], frame'[c])
  BY <1>1 DEF Leaves
<1> QED
  BY <1>4, <1>6, <1>7, <1>8 DEF Leaves, HeldInv

\* No queue is locked by a task that gives up the processor.
LEMMA LocksKept ==
  ASSUME CallsInv, HeldInv(k, pc, frame), NEW p, NEW f, Moves(p, f), Leaves(p, f),
         LocksFit(q', p, f)
  PROVE  LocksFit(q', pc'[k'.current], frame'[k'.current])
<1> DEFINE t == k.current
           c == k'.current
<1>1. /\ pc'[t] = p /\ frame'[t] = f
      /\ \A u \in AllTasks \ {t} : pc'[u] = pc[u] /\ frame'[u] = frame[u]
  BY MovesOne DEF HeldInv
<1>2. CASE c = t
  BY <1>1, <1>2
<1>3. CASE c # t
  <2>1. c \in AllTasks /\ p \notin Held
    BY <1>3, SoundTypes DEF Leaves
  <2>2. pc'[c] \notin Held
    BY <1>1, <1>3, <2>1 DEF HeldInv
  <2>3. TxLocking \subseteq Held /\ RxLocking \subseteq Held
    BY DEF TxLocking, RxLocking, Held
  <2>4. p \notin TxLocking /\ p \notin RxLocking /\ pc'[c] \notin TxLocking /\ pc'[c] \notin RxLocking
    BY <2>1, <2>2, <2>3
  <2>5. ASSUME NEW P, NEW F, P \notin TxLocking, P \notin RxLocking PROVE LocksFit(q', P, F)
    BY <2>4, <2>5 DEF LocksFit
  <2> QED
    BY <2>4, <2>5
<1> QED
  BY <1>2, <1>3

\* The calls of the other tasks.
LEMMA CallsFitKept ==
  ASSUME CallsInv, HeldInv(k, pc, frame), \A u \in AllTasks : CallFits(q, pc[u], frame[u]),
         NEW p, NEW f, Moves(p, f), \A x \in Queues : q'[x].kind = q[x].kind, CallFits(q', p, f)
  PROVE  \A u \in AllTasks : CallFits(q', pc'[u], frame'[u])
<1> DEFINE t == k.current
<1>1. /\ pc'[t] = p /\ frame'[t] = f
      /\ \A u \in AllTasks \ {t} : pc'[u] = pc[u] /\ frame'[u] = frame[u]
  BY MovesOne DEF HeldInv
<1>2. ASSUME NEW u \in AllTasks \ {t} PROVE CallFits(q', pc[u], frame[u])
  <2>1. pc[u] # "place"
    BY DEF HeldInv, Held
  <2>2. pc[u] # "app" => frame[u].queue \in Queues
    BY DEF CallsInv, CallOn
  <2>3. CallFits(q, pc[u], frame[u])
    OBVIOUS
  <2> QED
    BY <2>1, <2>2, <2>3 DEF CallFits
<1> QED
  BY <1>1, <1>2

\* Who has not begun to wait.
LEMMA WaitersKept ==
  ASSUME CallsInv, Sound(k), WaitersFit(k, pc, frame), NEW p, NEW f, Moves(p, f),
         \A x \in Queues, d \in Ends :
           /\ ToSet(k'.event[<<x, d>>]) \subseteq ToSet(k.event[<<x, d>>]) \cup {k.current}
           /\ k.current \in ToSet(k'.event[<<x, d>>]) => k.current \in Tasks /\ Heads(p, f, x, d)
  PROVE  WaitersFit(k', pc', frame')
<1> DEFINE t == k.current
<1>1. /\ pc'[t] = p /\ frame'[t] = f
      /\ \A u \in AllTasks \ {t} : pc'[u] = pc[u] /\ frame'[u] = frame[u]
  BY MovesOne
<1>2. ASSUME NEW x \in Queues, NEW d \in Ends, NEW u \in ToSet(k'.event[<<x, d>>])
      PROVE  u \in Tasks /\ Heads(pc'[u], frame'[u], x, d)
  <2>1. CASE u = t
    BY <1>1, <1>2, <2>1
  <2>2. CASE u # t
    <3>1. u \in ToSet(k.event[<<x, d>>])
      BY <1>2, <2>2
    <3>2. u \in Tasks /\ Heads(pc[u], frame[u], x, d)
      BY <3>1 DEF WaitersFit
    <3> QED
      BY <1>1, <2>2, <3>2 DEF AllTasks
  <2> QED
    BY <2>1, <2>2
<1> QED
  BY <1>2 DEF WaitersFit

\* The current task is ready, and in no event list, unless it is about to give up the
\* processor.
LEMMA CurrentReady ==
  ASSUME HeldInv(k, pc, frame), ~ Parting(pc[k.current], frame[k.current])
  PROVE  /\ IsReady(k, k.current) /\ NoEvent(k, k.current)
         /\ \A x \in Queues, d \in Ends : k.current \notin ToSet(k.event[<<x, d>>])
<1>1. IsReady(k, k.current) /\ Sound(k) /\ k.current \in AllTasks
  BY SoundTypes DEF HeldInv
<1>2. NoEvent(k, k.current)
  BY <1>1, ReadyNoEvent
<1>3. \A x \in Queues, d \in Ends : <<x, d>> \in EventLists
  BY QueueAssumption DEF Ends
<1> QED
  BY <1>1, <1>2, <1>3 DEF NoEvent

\* All of it, after a step of a task or of a handler.
LEMMA StepKeeps ==
  ASSUME CallsInv, WakeInv, NEW p, NEW f, Moves(p, f), Leaves(p, f),
         \A x \in Queues : q'[x].kind = q[x].kind /\ MutexFits(q'[x]),
         LocksFit(q', p, f), CallFits(q', p, f),
         \A x \in Queues, d \in Ends :
           /\ ToSet(k'.event[<<x, d>>]) \subseteq ToSet(k.event[<<x, d>>]) \cup {k.current}
           /\ k.current \in ToSet(k'.event[<<x, d>>]) => k.current \in Tasks /\ Heads(p, f, x, d)
           /\ EnoughFor(k', q', pc', frame', x, d)
  PROVE  WakeInv'
<1>1. HeldInv(k', pc', frame')
  BY HeldKept DEF WakeInv
<1>2. LocksFit(q', pc'[k'.current], frame'[k'.current])
  BY LocksKept DEF WakeInv
<1>3. \A u \in AllTasks : CallFits(q', pc'[u], frame'[u])
  BY CallsFitKept DEF WakeInv
<1>4. Sound(k) /\ WaitersFit(k, pc, frame)
  BY DEF WakeInv, HeldInv
<1>5. WaitersFit(k', pc', frame')
  BY <1>4, WaitersKept
<1> QED
  BY <1>1, <1>2, <1>3, <1>5 DEF WakeInv

\* What is wanted at the ends of a queue is a number.
LEMMA NumbersIn ==
  ASSUME QueuesInv, NEW p, NEW f, LocksFit(q, p, f), NEW x \in Queues, NEW d \in Ends
  PROVE  Wanted(q[x], d) \in Nat /\ Late(q[x], d) \in Nat
<1>1. Ring(q[x]) /\ q[x].txLock \in Nat \cup {Unlocked} /\ q[x].rxLock \in Nat \cup {Unlocked}
  BY DEF QueuesInv, LocksFit
<1> QED
  BY <1>1, WantedTypes

LEMMA NumbersAfter ==
  ASSUME QueuesInv', NEW p, NEW f, LocksFit(q', p, f), NEW x \in Queues, NEW d \in Ends
  PROVE  Wanted(q'[x], d) \in Nat /\ Late(q'[x], d) \in Nat
<1>1. /\ Ring(q'[x]) /\ q'[x].txLock \in Nat \cup {Unlocked}
      /\ q'[x].rxLock \in Nat \cup {Unlocked}
  BY DEF QueuesInv, LocksFit
<1> QED
  BY <1>1, WantedTypes

\* A list that lost tasks, at most.
LEMMA StillSome ==
  ASSUME Sound(k), Sound(k'), EventsFall(k', k), NEW e \in EventLists, k'.event[e] # <<>>
  PROVE  k.event[e] # <<>>
<1>1. k \in KernelState /\ k' \in KernelState
  BY SoundTypes
<1>2. k.event[e] \in Seq(AllTasks) /\ k'.event[e] \in Seq(AllTasks)
  BY <1>1, ListTypes
<1>3. ToSet(k'.event[e]) \subseteq ToSet(k.event[e])
  BY DEF EventsFall
<1> QED
  BY <1>2, <1>3, NoMore

\* Nothing that is wanted at end d of x lacks a task that will look, after the step.
Served(p, f, x, d) ==
  \/ Wanted(q'[x], d) <= Late(q'[x], d)
  \/ \E n \in Nat, out \in {0, 1} :
       /\ Wakes(k', k, <<x, d>>, n)
       /\ out = 0 /\ Heads(pc[k.current], frame[k.current], x, d) => Heads(p, f, x, d)
       /\ k.event[<<x, d>>] # <<>> =>
            Wanted(q'[x], d) - Late(q'[x], d) <= Wanted(q[x], d) - Late(q[x], d) + n - out

LEMMA NobodyNeeded ==
  ASSUME NEW kk, NEW qq, NEW pp, NEW ff, NEW x, NEW d, Wanted(qq[x], d) \in Nat, Late(qq[x], d) \in Nat,
         Wanted(qq[x], d) <= Late(qq[x], d)
  PROVE  EnoughFor(kk, qq, pp, ff, x, d)
<1> DEFINE T == Takers(kk, pp, ff, x, d)
<1>1. T \in SUBSET Tasks /\ {} \in SUBSET Tasks /\ (T \ {}) \cup {} \subseteq T /\ {} \cap T = {}
  BY DEF Takers
<1> HIDE DEF T
<1>2. Cardinality(T) \in Nat
  BY <1>1, CountsOn
<1> QED
  BY <1>2 DEF EnoughFor, T

\* The step of a kernel that wakes tasks at most: what it wakes, and what the current
\* task's step does to what is wanted.
LEMMA RisingKeeps ==
  ASSUME QueuesInv, QueuesInv', CallsInv, WakeInv, NEW p, NEW f, Moves(p, f), Leaves(p, f),
         Rises(k', k),
         \A x \in Queues : q'[x].kind = q[x].kind /\ MutexFits(q'[x]),
         LocksFit(q', p, f), CallFits(q', p, f),
         \A x \in Queues, d \in Ends :
           /\ k.current \in ToSet(k.event[<<x, d>>]) => Heads(p, f, x, d)
           /\ Served(p, f, x, d)
  PROVE  WakeInv'
<1>1. Sound(k) /\ Sound(k') /\ WaitersFit(k, pc, frame) /\ k.current \in AllTasks /\ EventsFall(k', k)
  BY SoundTypes DEF WakeInv, HeldInv, Leaves, Rises
<1>2. ASSUME NEW x \in Queues, NEW d \in Ends
      PROVE  /\ ToSet(k'.event[<<x, d>>]) \subseteq ToSet(k.event[<<x, d>>])
             /\ k.current \in ToSet(k.event[<<x, d>>]) => k.current \in Tasks /\ Heads(p, f, x, d)
             /\ EnoughFor(k', q', pc', frame', x, d)
  <2>1. <<x, d>> \in EventLists
    BY QueueAssumption DEF Ends
  <2>2. ToSet(k'.event[<<x, d>>]) \subseteq ToSet(k.event[<<x, d>>])
    BY <1>1, <2>1 DEF EventsFall
  <2>3. k.current \in ToSet(k.event[<<x, d>>]) => k.current \in Tasks /\ Heads(p, f, x, d)
    BY <1>1 DEF WaitersFit
  <2>4. Served(p, f, x, d)
    OBVIOUS
  <2>5. EnoughFor(k, q, pc, frame, x, d) /\ LocksFit(q, pc[k.current], frame[k.current])
    BY DEF WakeInv
  <2>6. /\ Wanted(q[x], d) \in Nat /\ Late(q[x], d) \in Nat
        /\ Wanted(q'[x], d) \in Nat /\ Late(q'[x], d) \in Nat
    BY <2>5, NumbersIn, NumbersAfter
  <2>7. k'.event[<<x, d>>] # <<>> => k.event[<<x, d>>] # <<>>
    BY <1>1, <2>1, StillSome
  <2>8. \A u \in AllTasks : Awake(k, u) => Awake(k', u)
    BY DEF Rises
  <2>9. \A u \in Tasks \ {k.current} : Awake(k, u) => Awake(k', u)
    BY <2>8 DEF AllTasks
  <2>10. k.current \in ToSet(k.event[<<x, d>>]) => Heads(p, f, x, d)
    BY <2>3
  <2>11. CASE Wanted(q'[x], d) <= Late(q'[x], d)
    BY <2>2, <2>3, <2>6, <2>11, NobodyNeeded
  <2>12. CASE k.event[<<x, d>>] = <<>>
    <3>1. EnoughFor(k', q', pc', frame', x, d)
      BY <2>7, <2>12 DEF EnoughFor
    <3> QED
      BY <2>2, <2>3, <3>1
  <2>13. CASE k.event[<<x, d>>] # <<>> /\ ~ (Wanted(q'[x], d) <= Late(q'[x], d))
    <3>1. PICK n \in Nat, out \in {0, 1} :
            /\ Wakes(k', k, <<x, d>>, n)
            /\ out = 0 /\ Heads(pc[k.current], frame[k.current], x, d) => Heads(p, f, x, d)
            /\ Wanted(q'[x], d) - Late(q'[x], d) <= Wanted(q[x], d) - Late(q[x], d) + n - out
      BY <2>4, <2>13 DEF Served
    <3>2. out = 0 /\ Heads(pc[k.current], frame[k.current], x, d) /\ Awake(k, k.current) =>
            Heads(p, f, x, d) /\ Awake(k', k.current)
      BY <1>1, <2>8, <3>1
    <3>3. EnoughFor(k', q', pc', frame', x, d)
      BY <1>1, <2>5, <2>6, <2>7, <2>9, <2>10, <3>1, <3>2, EnoughKeeps
    <3> QED
      BY <2>2, <2>3, <3>3
  <2> QED
    BY <2>11, <2>12, <2>13
<1>3. \A x \in Queues, d \in Ends :
        /\ ToSet(k'.event[<<x, d>>]) \subseteq ToSet(k.event[<<x, d>>]) \cup {k.current}
        /\ k.current \in ToSet(k'.event[<<x, d>>]) => k.current \in Tasks /\ Heads(p, f, x, d)
        /\ EnoughFor(k', q', pc', frame', x, d)
  BY <1>2
<1> QED
  BY <1>3, StepKeeps

\* The step in which the current task goes to sleep, or to wait at end e of a queue that
\* has nothing for it.
LEMMA SleepingKeeps ==
  ASSUME QueuesInv, CallsInv, WakeInv, UNCHANGED q, NEW p, NEW f, Moves(p, f), Leaves(p, f),
         LocksFit(q, p, f), CallFits(q, p, f), k.current \in Tasks,
         \A u \in Tasks \ {k.current} : Awake(k, u) => Awake(k', u),
         \A x \in Queues, d \in Ends :
           /\ ~ Heads(pc[k.current], frame[k.current], x, d)
           /\ \/ ToSet(k'.event[<<x, d>>]) = ToSet(k.event[<<x, d>>])
              \/ /\ ToSet(k'.event[<<x, d>>]) \subseteq ToSet(k.event[<<x, d>>]) \cup {k.current}
                 /\ Heads(p, f, x, d) /\ Wanted(q[x], d) <= Late(q[x], d)
  PROVE  WakeInv'
<1>1. Sound(k) /\ Sound(k') /\ WaitersFit(k, pc, frame) /\ LocksFit(q', p, f) /\ CallFits(q', p, f)
  BY DEF WakeInv, HeldInv, Leaves
<1>2. \A x \in Queues : q'[x].kind = q[x].kind /\ MutexFits(q'[x])
  BY DEF WakeInv
<1>3. ASSUME NEW x \in Queues, NEW d \in Ends
      PROVE  /\ ToSet(k'.event[<<x, d>>]) \subseteq ToSet(k.event[<<x, d>>]) \cup {k.current}
             /\ k.current \in ToSet(k'.event[<<x, d>>]) => Heads(p, f, x, d)
             /\ EnoughFor(k', q', pc', frame', x, d)
  <2>1. k.current \notin ToSet(k.event[<<x, d>>])
    BY <1>1 DEF WaitersFit
  <2>2. EnoughFor(k, q, pc, frame, x, d) /\ Wanted(q[x], d) \in Nat /\ Late(q[x], d) \in Nat
    BY NumbersIn DEF WakeInv
  <2>3. CASE ToSet(k'.event[<<x, d>>]) = ToSet(k.event[<<x, d>>])
    <3>0. k'.event[<<x, d>>] # <<>> => k.event[<<x, d>>] # <<>>
      <4>1. k.event[<<x, d>>] \in Seq(AllTasks) /\ k'.event[<<x, d>>] \in Seq(AllTasks)
        BY <1>1, SoundTypes, ListTypes, QueueAssumption DEF Ends
      <4> QED
        BY <2>3, <4>1, NoMore
    <3>1. Wakes(k', k, <<x, d>>, 0)
      BY WakesNone
    <3>2. /\ k'.event[<<x, d>>] # <<>> => k.event[<<x, d>>] # <<>>
          /\ 0 = 0 /\ Heads(pc[k.current], frame[k.current], x, d) /\ Awake(k, k.current) =>
               Heads(p, f, x, d) /\ Awake(k', k.current)
          /\ k.current \in ToSet(k.event[<<x, d>>]) => Heads(p, f, x, d)
          /\ Wanted(q'[x], d) \in Nat /\ Late(q'[x], d) \in Nat
          /\ Wanted(q'[x], d) - Late(q'[x], d) <= Wanted(q[x], d) - Late(q[x], d) + 0 - 0
      BY <2>1, <2>2, <2>3, <3>0
    <3>3. 0 \in Nat /\ 0 \in {0, 1}
      OBVIOUS
    <3>4. EnoughFor(k', q', pc', frame', x, d)
      BY <1>1, <2>2, <3>1, <3>2, <3>3, EnoughKeeps
    <3> QED
      BY <2>1, <2>3, <3>4
  <2>4. CASE ToSet(k'.event[<<x, d>>]) # ToSet(k.event[<<x, d>>])
    <3>1. Wanted(q'[x], d) <= Late(q'[x], d) /\ Wanted(q'[x], d) \in Nat /\ Late(q'[x], d) \in Nat
      BY <2>2, <2>4
    <3>2. EnoughFor(k', q', pc', frame', x, d)
      BY <3>1, NobodyNeeded
    <3> QED
      BY <2>4, <3>2
  <2> QED
    BY <2>3, <2>4
<1> QED
  BY <1>1, <1>2, <1>3, StepKeeps

-------------------------------------------------------------------------------
(* Each step of a call *)

\* A step that leaves the queues alone, and the call on its way if it was.
LEMMA SameQueuesKeep ==
  ASSUME QueuesInv, CallsInv, WakeInv, UNCHANGED q, NEW p, NEW f, Moves(p, f), Leaves(p, f),
         Rises(k', k), LocksFit(q, p, f), CallFits(q, p, f),
         \A x \in Queues, d \in Ends :
           Heads(pc[k.current], frame[k.current], x, d) => Heads(p, f, x, d)
  PROVE  WakeInv'
<1>1. QueuesInv'
  BY NoQueueChanges
<1>2. \A x \in Queues : q'[x].kind = q[x].kind /\ MutexFits(q'[x])
  BY DEF WakeInv
<1>3. LocksFit(q', p, f) /\ CallFits(q', p, f)
  OBVIOUS
<1>4. k.current \in AllTasks /\ WaitersFit(k, pc, frame)
  BY SoundTypes DEF WakeInv, HeldInv
<1>5. ASSUME NEW x \in Queues, NEW d \in Ends
      PROVE  /\ k.current \in ToSet(k.event[<<x, d>>]) => Heads(p, f, x, d)
             /\ Served(p, f, x, d)
  <2>1. k.current \in ToSet(k.event[<<x, d>>]) => Heads(p, f, x, d)
    BY <1>4 DEF WaitersFit
  <2>2. Wakes(k', k, <<x, d>>, 0)
    BY WakesNone
  <2>3. Wanted(q[x], d) \in Nat /\ Late(q[x], d) \in Nat
    BY NumbersIn DEF WakeInv
  <2>4. Wanted(q'[x], d) - Late(q'[x], d) <= Wanted(q[x], d) - Late(q[x], d) + 0 - 0
    BY <2>3
  <2> QED
    BY <2>1, <2>2, <2>4 DEF Served
<1> QED
  BY <1>1, <1>2, <1>3, <1>5, RisingKeeps

\* The current task, and what is known of its call.
LEMMA OwnCall ==
  ASSUME CallsInv, WakeInv
  PROVE  LET t == k.current
         IN  /\ t \in AllTasks /\ Sound(k) /\ TimesSound(k) /\ Quiet(k)
             /\ HeldInv(k, pc, frame) /\ LocksFit(q, pc[t], frame[t])
             /\ CallFits(q, pc[t], frame[t])
             /\ CallOn(pc[t], frame[t])
             /\ k.schedulerSuspended = IF pc[t] \in Held THEN 1 ELSE 0
             /\ pc[t] # "app" => t \in Tasks /\ t # IdleTask
             /\ pc = [pc EXCEPT ![t] = pc[t]] /\ frame = [frame EXCEPT ![t] = frame[t]]
<1>1. Sound(k) /\ k.current \in AllTasks
  BY SoundTypes DEF WakeInv, HeldInv
<1> QED
  BY <1>1 DEF WakeInv, HeldInv, CallsInv, AllTasks

\* vTaskSuspendAll.
LEMMA SuspendAllWakes ==
  ASSUME QueuesInv, CallsInv, WakeInv, NEW t, SuspendAll(t)
  PROVE  WakeInv'
<1> DEFINE f == frame[t]
<1>1. k.current = t /\ pc[t] = "suspendAll" /\ UNCHANGED q /\ Moves("lock", f) /\ k' = vTaskSuspendAll(k)
  BY OwnCall DEF SuspendAll, At, Goto, Moves
<1>2. /\ Sound(k) /\ TimesSound(k) /\ k.schedulerSuspended = 0 /\ t # IdleTask /\ t \in AllTasks
      /\ LocksFit(q, "suspendAll", f) /\ CallFits(q, "suspendAll", f)
  BY <1>1, OwnCall DEF Held
<1>3. Sound(k') /\ TimesSound(k') /\ SameLists(k', k) /\ k'.schedulerSuspended = 1 /\ k'.current = t
  BY <1>1, <1>2, SuspendsAll
<1>4. Rises(k', k)
  BY <1>3, RisesSame
<1>5. ~ Parting(pc[k.current], frame[k.current])
  BY <1>1 DEF Parting, Unlocking
<1>6. IsReady(k, t)
  BY <1>1, <1>5, CurrentReady DEF WakeInv
<1>7. Leaves("lock", f)
  BY <1>1, <1>2, <1>3, <1>4, <1>6 DEF Leaves, Rises, Quiet, Held
<1>8. LocksFit(q, "lock", f) /\ CallFits(q, "lock", f)
  BY <1>2 DEF LocksFit, CallFits, TxLocking, RxLocking
<1>9. \A x \in Queues, d \in Ends : ~ Heads(pc[k.current], frame[k.current], x, d)
  BY <1>1 DEF Heads, OnWay, Unlocking
<1> QED
  BY <1>1, <1>4, <1>7, <1>8, <1>9, SameQueuesKeep

\* prvIsQueueFull, prvIsQueueEmpty: who goes to wait saw nothing to take.
LEMMA StillBlockedWants ==
  ASSUME QueuesInv, NEW t, CallOn(pc[t], frame[t]), pc[t] # "app", StillBlocked(t)
  PROVE  \A d \in Ends : frame[t].op \in Ops(d) => Wanted(q[frame[t].queue], d) <= 0
<1> DEFINE f == frame[t]
           x == f.queue
<1>1. x \in Queues /\ f.op \in Sends \cup Receives
  BY DEF CallOn
<1>2. /\ LENGTH[q[x].kind] \in Nat /\ q[x].messagesWaiting \in Nat
      /\ q[x].messagesWaiting <= LENGTH[q[x].kind]
  BY <1>1, RingTypes DEF QueuesInv
<1>3. IF f.op \in Sends THEN ~ (q[x].messagesWaiting < LENGTH[q[x].kind])
                        ELSE ~ (q[x].messagesWaiting > 0)
  BY DEF StillBlocked, prvIsQueueFull, prvIsQueueEmpty, HasRoom, HasItem, uxLength
<1>4. f.op \in Sends => f.op \notin Receives
  BY DEF Sends, Receives
<1> HIDE DEF x
<1>5. ASSUME NEW d \in Ends, f.op \in Ops(d) PROVE Wanted(q[x], d) <= 0
  BY <1>1, <1>2, <1>3, <1>4, <1>5 DEF Ops, Ends, Wanted
<1> QED
  BY <1>5 DEF x

LEMMA IsFullOrEmptyWakes ==
  ASSUME QueuesInv, CallsInv, WakeInv, NEW t, IsFullOrEmpty(t)
  PROVE  WakeInv'
<1> DEFINE f == frame[t]
           next == IF StillBlocked(t) THEN "yield" ELSE "try"
           g == [f EXCEPT !.next = next]
           p == IF StillBlocked(t) THEN "place" ELSE "unlockTx"
<1>1. /\ k.current = t /\ pc[t] = "isFull" /\ UNCHANGED <<k, q>>
      /\ pc' = [pc EXCEPT ![t] = p] /\ frame' = [frame EXCEPT ![t].next = next]
  BY DEF IsFullOrEmpty, At, Goto
<1>2. /\ Sound(k) /\ TimesSound(k) /\ Quiet(k) /\ k.schedulerSuspended = 1 /\ t # IdleTask
      /\ t \in AllTasks /\ LocksFit(q, "isFull", f) /\ CallFits(q, "isFull", f)
      /\ CallOn(pc[t], frame[t])
  BY <1>1, OwnCall DEF Held
<1>3. Moves(p, g)
  BY <1>1, <1>2 DEF CallsInv, Moves
<1>4. /\ g.next = next /\ g.op = f.op /\ g.queue = f.queue /\ g.ticks = f.ticks
      /\ g.timeOut = f.timeOut
  BY <1>2 DEF CallOn, IsFrame
<1> HIDE DEF g
<1>5. Rises(k', k)
  BY <1>1 DEF Rises, EventsFall
<1>6. ~ Parting(pc[k.current], frame[k.current])
  BY <1>1 DEF Parting, Unlocking
<1>7. IsReady(k, t)
  BY <1>1, <1>6, CurrentReady DEF WakeInv
<1>8. p \in {"place", "unlockTx"} /\ p \in Held /\ p # "app"
  BY DEF Held
<1>9. Leaves(p, g)
  BY <1>1, <1>2, <1>7, <1>8 DEF Leaves
<1>10. LocksFit(q, p, g)
  BY <1>2, <1>4 DEF LocksFit, TxLocking, RxLocking
<1>11. CallFits(q, p, g)
  <2>1. CASE ~ StillBlocked(t)
    BY <1>2, <1>4, <2>1 DEF CallFits
  <2>2. CASE StillBlocked(t)
    <3>1. \A d \in Ends : f.op \in Ops(d) => Wanted(q[f.queue], d) <= 0
      BY <1>1, <1>2, <2>2, StillBlockedWants
    <3>2. f.queue \in Queues
      BY <1>1, <1>2 DEF CallOn
    <3>3. \A d \in Ends : Wanted(q[f.queue], d) \in Nat /\ Late(q[f.queue], d) \in Nat
      BY <1>2, <3>2, NumbersIn
    <3>4. \A d \in Ends : f.op \in Ops(d) => Wanted(q[f.queue], d) <= Late(q[f.queue], d)
      BY <3>1, <3>3
    <3> QED
      BY <1>2, <1>4, <2>2, <3>4 DEF CallFits
  <2> QED
    BY <2>1, <2>2
<1>12. \A x \in Queues, d \in Ends : ~ Heads(pc[k.current], frame[k.current], x, d)
  BY <1>1 DEF Heads, OnWay, Unlocking
<1> HIDE DEF p
<1> QED
  BY <1>1, <1>3, <1>5, <1>9, <1>10, <1>11, <1>12, SameQueuesKeep

\* portYIELD_WITHIN_API.
LEMMA YieldWakes ==
  ASSUME QueuesInv, CallsInv, WakeInv, NEW t, Yield(t)
  PROVE  WakeInv'
<1> DEFINE f == frame[t]
<1>1. k.current = t /\ pc[t] = "yield" /\ UNCHANGED q /\ Moves("try", f) /\ k' = vTaskSwitchContext(k)
  BY OwnCall DEF Yield, At, Goto, Moves
<1>2. /\ Sound(k) /\ TimesSound(k) /\ Quiet(k) /\ k.schedulerSuspended = 0 /\ t # IdleTask /\ t \in AllTasks
      /\ LocksFit(q, "yield", f) /\ CallFits(q, "yield", f)
  BY <1>1, OwnCall DEF Held
<1>3. Follows(k', k) /\ Highest(k')
  BY <1>1, <1>2, SwitchFollows, Switches
<1>4. Leaves("try", f)
  BY <1>1, <1>2, <1>3 DEF Leaves, Follows, Highest, Held
<1>5. LocksFit(q, "try", f) /\ CallFits(q, "try", f)
  BY <1>2 DEF LocksFit, CallFits, TxLocking, RxLocking
<1>6. \A x \in Queues, d \in Ends : Heads(pc[k.current], frame[k.current], x, d) => Heads("try", f, x, d)
  BY <1>1 DEF Heads, OnWay
<1>7. Rises(k', k)
  BY <1>3 DEF Follows
<1> QED
  BY <1>1, <1>4, <1>5, <1>6, <1>7, SameQueuesKeep

LEMMA NoFrameFits ==
  /\ CallFits(q, "app", NoFrame) /\ NoFrame.next = "app"
  /\ \A x, d : ~ Heads("app", NoFrame, x, d)
<1>1. 0 \in Ticks
  BY KernelAssumption DEF Ticks
<1>2. NoFrame.ticks = 0 /\ NoFrame.timeOut.timeOnEntering = 0 /\ NoFrame.next = "app"
  BY DEF NoFrame
<1> QED
  BY <1>1, <1>2 DEF CallFits, Heads, OnWay, Unlocking

\* xTaskResumeAll, and where the call goes on.
LEMMA ResumeAllWakes ==
  ASSUME QueuesInv, CallsInv, WakeInv, NEW t, ResumeAll(t)
  PROVE  WakeInv'
<1> DEFINE f == frame[t]
<1>1. k.current = t /\ pc[t] = "resumeAll" /\ UNCHANGED q /\ k' = xTaskResumeAll(k)
  BY DEF ResumeAll, At
<1>2. /\ Sound(k) /\ TimesSound(k) /\ k.schedulerSuspended = 1 /\ t # IdleTask /\ t \in AllTasks
      /\ LocksFit(q, "resumeAll", f) /\ CallFits(q, "resumeAll", f)
  BY <1>1, OwnCall DEF Held
<1>3. /\ Sound(k') /\ TimesSound(k') /\ Rises(k', k) /\ Quiet(k') /\ k'.schedulerSuspended = 0
      /\ IsReady(k', k'.current) \/ (k'.current = t /\ ~ AlreadyYielded(k))
  BY <1>1, <1>2, ResumeRises
<1>4. f.next # "yield" => IsReady(k, t) /\ IsReady(k', t)
  <2>1. f.next # "yield" => ~ Parting(pc[k.current], frame[k.current])
    BY <1>1 DEF Parting
  <2> QED
    BY <1>1, <1>2, <1>3, <2>1, CurrentReady DEF WakeInv, Rises
<1>5. ASSUME NEW p, NEW g, p \notin Held, Parting(p, g) \/ ~ (f.next = "yield" /\ ~ AlreadyYielded(k))
      PROVE  Leaves(p, g)
  BY <1>1, <1>2, <1>3, <1>4, <1>5 DEF Leaves
<1>6. ASSUME NEW p, NEW g, p \notin Held PROVE LocksFit(q, p, g)
  BY <1>2, <1>6 DEF LocksFit, TxLocking, RxLocking, Held
<1>7. CASE f.next = "app"
  <2>1. Moves("app", NoFrame)
    BY <1>1, <1>7 DEF ResumeAll, Goto, Moves
  <2>2. "app" \notin Held
    BY DEF Held
  <2>3. Leaves("app", NoFrame) /\ LocksFit(q, "app", NoFrame)
    BY <1>5, <1>6, <1>7, <2>2
  <2>4. \A x \in Queues, d \in Ends : ~ Heads(pc[k.current], frame[k.current], x, d)
    BY <1>1, <1>7 DEF Heads, OnWay
  <2> QED
    BY <1>1, <1>3, <2>1, <2>3, <2>4, NoFrameFits, SameQueuesKeep
<1>8. CASE f.next # "app"
  <2> DEFINE p == IF f.next = "yield" /\ ~ AlreadyYielded(k) THEN "yield" ELSE "try"
  <2>1. Moves(p, f)
    BY <1>1, <1>8, OwnCall DEF ResumeAll, Goto, Moves
  <2>2. p \notin Held /\ p \in {"yield", "try"}
    BY DEF Held
  <2>3. Parting(p, f) \/ ~ (f.next = "yield" /\ ~ AlreadyYielded(k))
    BY DEF Parting
  <2> HIDE DEF p
  <2>4. Leaves(p, f) /\ LocksFit(q, p, f)
    BY <1>5, <1>6, <2>2, <2>3
  <2>5. CallFits(q, p, f)
    BY <1>2, <2>2 DEF CallFits
  <2>6. \A x \in Queues, d \in Ends : Heads(pc[k.current], frame[k.current], x, d) => Heads(p, f, x, d)
    BY <1>1, <2>2 DEF Heads, OnWay
  <2> QED
    BY <1>1, <1>3, <2>1, <2>4, <2>5, <2>6, SameQueuesKeep
<1> QED
  BY <1>7, <1>8

-------------------------------------------------------------------------------
(* Items come and go *)

\* prvCopyDataToQueue: one more, and a mutex has no holder.
LEMMA PutsOne ==
  ASSUME NEW x \in Queues, IsQueue(q[x]), Ring(q[x]), MutexFits(q[x]), HasRoom(x),
         NEW item \in Items, NEW op \in Sends
  PROVE  LET s == prvCopyDataToQueue(x, item, op)
         IN  /\ IsQueue(s) /\ Ring(s) /\ s.kind = q[x].kind
             /\ s.messagesWaiting = q[x].messagesWaiting + 1
             /\ s.txLock = q[x].txLock /\ s.rxLock = q[x].rxLock /\ MutexFits(s)
<1> DEFINE r == q[x]
           s == prvCopyDataToQueue(x, item, op)
<1>1. /\ IsQueue(s) /\ Ring(s) /\ s.kind = r.kind
      /\ s.txLock = r.txLock /\ s.rxLock = r.rxLock
      /\ \E i \in Items : ItemsOf(s) = Append(ItemsOf(r), i) \/ ItemsOf(s) = <<i>> \o ItemsOf(r)
  BY PutsItem
<1>2. r.kind \in Mutexes => s.mutexHolder = NoTask
  <2> SUFFICES ASSUME r.kind \in Mutexes PROVE s.mutexHolder = NoTask
    OBVIOUS
  <2> DEFINE qm == [r EXCEPT !.messagesWaiting = @ + 1]
             qn == [qm EXCEPT !.mutexHolder = NoTask]
  <2>1. IsQueue(qm)
    BY DEF IsQueue
  <2>2. IsMutex(x)
    BY DEF IsMutex, Mutexes
  <2>3. s = [qm EXCEPT !.mutexHolder = NoTask, !.recursiveCallCount = 0]
    BY <2>2 DEF prvCopyDataToQueue, IsMutex
  <2> HIDE DEF qm
  <2> QED
    BY <2>1, <2>3 DEF IsQueue
<1> HIDE DEF s
<1>3. s.messagesWaiting = r.messagesWaiting + 1 /\ r.messagesWaiting \in Nat
  <2>1. PICK i \in Items : ItemsOf(s) = Append(ItemsOf(r), i) \/ ItemsOf(s) = <<i>> \o ItemsOf(r)
    BY <1>1
  <2>2. /\ ItemsOf(s) \in Seq(Items) /\ Len(ItemsOf(s)) = s.messagesWaiting
        /\ ItemsOf(r) \in Seq(Items) /\ Len(ItemsOf(r)) = r.messagesWaiting
        /\ r.messagesWaiting \in Nat
    BY <1>1, RingTypes
  <2> HIDE DEF r
  <2>3. Len(ItemsOf(s)) = Len(ItemsOf(r)) + 1
    <3>1. Len(Append(ItemsOf(r), i)) = Len(ItemsOf(r)) + 1
      BY <2>2
    <3>2. Len(<<i>> \o ItemsOf(r)) = Len(ItemsOf(r)) + 1
      BY <2>2
    <3> QED
      BY <2>1, <3>1, <3>2
  <2> QED
    BY <2>2, <2>3
<1>4. MutexFits(s)
  BY <1>1, <1>2, <1>3 DEF MutexFits
<1> QED
  BY <1>1, <1>3, <1>4 DEF s

\* prvCopyDataFromQueue, and the count: one less, and a mutex has a holder.
LEMMA TakesOne ==
  ASSUME NEW x \in Queues, IsQueue(q[x]), Ring(q[x]), MutexFits(q[x]), HasItem(x),
         NEW t, t \in Tasks \/ ~ IsMutex(x)
  PROVE  LET s == Taken(x, t)
         IN  /\ IsQueue(s) /\ Ring(s) /\ s.kind = q[x].kind
             /\ s.messagesWaiting = q[x].messagesWaiting - 1
             /\ s.txLock = q[x].txLock /\ s.rxLock = q[x].rxLock /\ MutexFits(s)
<1> DEFINE r == q[x]
           s == Taken(x, t)
<1>1. /\ IsQueue(s) /\ Ring(s) /\ s.kind = r.kind
      /\ s.txLock = r.txLock /\ s.rxLock = r.rxLock
      /\ ItemsOf(r) # <<>> /\ ItemsOf(s) = Tail(ItemsOf(r))
  BY TakesItem
<1>2. r.kind \in Mutexes => s.mutexHolder = t
  <2> DEFINE qm == [r EXCEPT !.messagesWaiting = @ - 1]
  <2>1. IsQueue(qm)
    BY DEF IsQueue
  <2>2. r.kind = "mutex" => s = [qm EXCEPT !.mutexHolder = t]
    BY DEF Taken
  <2>3. r.kind = "recursive" => s = [qm EXCEPT !.mutexHolder = t, !.recursiveCallCount = @ + 1]
    BY DEF Taken
  <2> HIDE DEF qm, s
  <2> QED
    BY <2>1, <2>2, <2>3 DEF IsQueue, Mutexes
<1> HIDE DEF s
<1>3. s.messagesWaiting = r.messagesWaiting - 1 /\ r.messagesWaiting \in Nat
      /\ r.messagesWaiting <= LENGTH[r.kind] /\ r.messagesWaiting >= 1
  <2>2. /\ ItemsOf(s) \in Seq(Items) /\ Len(ItemsOf(s)) = s.messagesWaiting
        /\ ItemsOf(r) \in Seq(Items) /\ Len(ItemsOf(r)) = r.messagesWaiting
        /\ r.messagesWaiting \in Nat /\ r.messagesWaiting <= LENGTH[r.kind]
    BY <1>1, RingTypes
  <2> HIDE DEF r
  <2>3. Len(ItemsOf(s)) = Len(ItemsOf(r)) - 1 /\ Len(ItemsOf(r)) >= 1
    BY <1>1, <2>2
  <2> QED
    BY <2>2, <2>3
<1>4. MutexFits(s)
  <2> SUFFICES ASSUME r.kind \in Mutexes PROVE MutexFits(s)
    BY <1>1 DEF MutexFits
  <2>1. LENGTH[r.kind] = 1 /\ t \in Tasks
    BY QueueAssumption DEF Mutexes, IsMutex
  <2>2. s.messagesWaiting = 0
    BY <1>3, <2>1
  <2> QED
    BY <1>1, <1>2, <2>1, <2>2 DEF MutexFits
<1> QED
  BY <1>1, <1>3, <1>4 DEF s

\* One queue is another record, the others are what they were.
LEMMA OneBecomes ==
  ASSUME QueuesInv, NEW x \in Queues, NEW s, q' = [q EXCEPT ![x] = s]
  PROVE  q'[x] = s /\ \A y \in Queues \ {x} : q'[y] = q[y]
<1>1. q' = [y \in Queues |-> IF y = x THEN s ELSE q[y]]
  BY DEF QueuesInv
<1> QED
  BY <1>1

\* The first who waits in e is awake: WakeFirst, and the same without the yield.
LEMMA WakesFirst ==
  ASSUME NEW k0, NEW kk, Follows(kk, k0), NEW e \in EventLists, kk.event[e] = k0.event[e], NEW r,
         \/ kk.event[e] = <<>> /\ r = kk
         \/ kk.event[e] # <<>> /\ Follows(r, xTaskRemoveFromEventList(kk, e))
  PROVE  Follows(r, k0) /\ Wakes(r, k0, e, 1)
<1>1. CASE kk.event[e] = <<>>
  BY <1>1 DEF Wakes
<1>2. CASE kk.event[e] # <<>>
  <2> DEFINE t == Head(kk.event[e])
             m == xTaskRemoveFromEventList(kk, e)
  <2>1. /\ Follows(m, kk) /\ t \in ToSet(kk.event[e]) /\ t \in AllTasks
        /\ Awake(m, t) /\ ~ Awake(kk, t)
    BY <1>2, RemoveFollows DEF Follows
  <2>2. Follows(r, m)
    BY <1>2
  <2> HIDE DEF t, m
  <2>3. Follows(r, kk)
    BY <2>1, <2>2, FollowsTrans
  <2>4. Follows(r, k0)
    BY <2>3, FollowsTrans
  <2>5. Awake(r, t) /\ ~ Awake(k0, t)
    BY <2>1, <2>2 DEF Follows, Rises
  <2>6. IsFiniteSet({t}) /\ Cardinality({t}) = 1 /\ {t} \in SUBSET ToSet(k0.event[e])
    BY <2>1, FS_Singleton
  <2> QED
    BY <2>4, <2>5, <2>6 DEF Wakes
<1> QED
  BY <1>1, <1>2

LEMMA WakeFirstWakes ==
  ASSUME NEW k0, NEW kk, Follows(kk, k0), NEW e \in EventLists, kk.event[e] = k0.event[e]
  PROVE  Follows(WakeFirst(kk, e), k0) /\ Wakes(WakeFirst(kk, e), k0, e, 1)
<1> DEFINE r == WakeFirst(kk, e)
           m == xTaskRemoveFromEventList(kk, e)
<1>1. kk.event[e] = <<>> => r = kk
  BY DEF WakeFirst
<1>2. kk.event[e] # <<>> => Follows(r, m)
  <2> SUFFICES ASSUME kk.event[e] # <<>> PROVE Follows(r, m)
    OBVIOUS
  <2>1. Sound(m) /\ TimesSound(m)
    BY RemoveFollows DEF Follows
  <2>2. r = YieldIf(UnblocksHigher(kk, e), m)
    BY DEF WakeFirst
  <2> HIDE DEF r, m
  <2> QED
    BY <2>1, <2>2, YieldIfFollows
<1> HIDE DEF r
<1>3. Follows(r, k0) /\ Wakes(r, k0, e, 1)
  BY <1>1, <1>2, WakesFirst
<1> QED
  BY <1>3 DEF r

\* A kernel that follows leaves the current task what it was: ready, or parting.
LEMMA FollowsLeaves ==
  ASSUME CallsInv, WakeInv, Follows(k', k), NEW p, NEW f,
         p \in Held <=> pc[k.current] \in Held, k.current = IdleTask => p = "app",
         Parting(pc[k.current], frame[k.current]) => Parting(p, f)
  PROVE  Leaves(p, f)
<1>1. HeldInv(k, pc, frame) /\ k.current \in AllTasks
  BY OwnCall
<1>2. p \in Held => k.schedulerSuspended = 1
  BY <1>1 DEF HeldInv
<1>3. k'.schedulerSuspended = IF p \in Held THEN 1 ELSE 0
  BY <1>1 DEF HeldInv, Follows
<1>4. IsReady(k, k.current) => IsReady(k', k.current)
  BY <1>1 DEF Follows, Rises
<1>5. IsReady(k', k'.current) \/ (k'.current = k.current /\ Parting(p, f))
  BY <1>1, <1>4 DEF HeldInv, Follows
<1>6. Sound(k') /\ TimesSound(k') /\ Quiet(k')
  BY <1>1 DEF HeldInv, Follows
<1>7. p \in Held => k'.current = k.current
  BY <1>2 DEF Follows
<1> QED
  BY <1>3, <1>5, <1>6, <1>7 DEF Leaves

\* At most what there is in x changes, and who holds it.
OnlyIn(x) ==
  /\ \A y \in Queues \ {x} : q'[y] = q[y]
  /\ q'[x].kind = q[x].kind /\ MutexFits(q'[x])
  /\ q'[x].txLock = q[x].txLock /\ q'[x].rxLock = q[x].rxLock

\* The current task, outside of the kernel, in its first look at x or a later one.
LEMMA LookWakes ==
  ASSUME QueuesInv, CallsInv, WakeInv, QueuesInv', k.current \in Tasks,
         pc[k.current] \in {"app", "try"}, NEW x \in Queues,
         pc[k.current] = "try" => frame[k.current].queue = x,
         NEW p, NEW f, p \in {"app", "suspendAll", "altWait"}, Moves(p, f), CallFits(q', p, f),
         Follows(k', k), OnlyIn(x),
         \A d \in Ends : Served(p, f, x, d)
  PROVE  WakeInv'
<1> DEFINE t == k.current
<1>1. /\ ~ Parting(pc[t], frame[t]) /\ pc[t] \notin Held /\ p \notin Held
      /\ t # IdleTask
  BY KernelAssumption DEF Parting, Unlocking, Held
<1>2. Leaves(p, f) /\ Rises(k', k)
  BY <1>1, FollowsLeaves DEF Follows
<1>3. \A y \in Queues, d \in Ends : t \notin ToSet(k.event[<<y, d>>])
  BY <1>1, CurrentReady DEF WakeInv
<1>4. \A y \in Queues : q'[y].kind = q[y].kind /\ MutexFits(q'[y])
                        /\ q'[y].txLock = q[y].txLock /\ q'[y].rxLock = q[y].rxLock
  <2> TAKE y \in Queues
  <2>1. CASE y = x
    BY <2>1 DEF OnlyIn
  <2>2. CASE y # x
    BY <2>2 DEF WakeInv, OnlyIn
  <2> QED
    BY <2>1, <2>2
<1>5. LocksFit(q, pc[t], frame[t])
  BY OwnCall
<1>6. TxLocking \subseteq Held /\ RxLocking \subseteq Held
  BY DEF TxLocking, RxLocking, Held
<1>7. LocksFit(q', p, f)
  BY <1>1, <1>4, <1>5, <1>6 DEF LocksFit
<1>8. ASSUME NEW y \in Queues, NEW d \in Ends PROVE Served(p, f, y, d)
  <2>1. CASE y = x
    BY <2>1
  <2>2. CASE y # x
    <3>1. ~ Heads(pc[t], frame[t], y, d)
      BY <2>2 DEF Heads, OnWay, Unlocking
    <3>2. Wakes(k', k, <<y, d>>, 0)
      BY WakesNone
    <3>3. q'[y] = q[y] /\ Wanted(q[y], d) \in Nat /\ Late(q[y], d) \in Nat
      BY <1>5, <2>2, NumbersIn DEF OnlyIn
    <3>4. Wanted(q'[y], d) - Late(q'[y], d) <= Wanted(q[y], d) - Late(q[y], d) + 0 - 0
      BY <3>3
    <3> QED
      BY <3>1, <3>2, <3>4 DEF Served
  <2> QED
    BY <2>1, <2>2
<1> QED
  BY <1>2, <1>3, <1>4, <1>7, <1>8, RisingKeeps

\* The end of x that is not the one the call is on, or is and has nothing for it.
LEMMA ServedSame ==
  ASSUME QueuesInv, CallsInv, WakeInv, NEW p, NEW f, NEW x \in Queues, NEW d \in Ends, q'[x] = q[x],
         ~ Heads(pc[k.current], frame[k.current], x, d) \/ Wanted(q[x], d) <= 0
  PROVE  Served(p, f, x, d)
<1>1. Wanted(q[x], d) \in Nat /\ Late(q[x], d) \in Nat
  BY NumbersIn DEF WakeInv
<1>2. CASE Wanted(q[x], d) <= 0
  BY <1>1, <1>2 DEF Served
<1>3. CASE ~ Heads(pc[k.current], frame[k.current], x, d)
  <2>1. Wakes(k', k, <<x, d>>, 0)
    BY WakesNone
  <2>2. Wanted(q'[x], d) - Late(q'[x], d) <= Wanted(q[x], d) - Late(q[x], d) + 0 - 0
    BY <1>1
  <2> QED
    BY <1>3, <2>1, <2>2 DEF Served
<1> QED
  BY <1>2, <1>3

\* A call that finds nothing to take, or no room.
LEMMA NotNowWakes ==
  ASSUME QueuesInv, CallsInv, WakeInv, NEW t, k.current = t, t \in Tasks, pc[t] \in {"app", "try"},
         NEW f, IsFrame(f), f.queue \in Queues, f.op \in Sends \cup Receives,
         f.ticks \in Ticks, f.timeOut.timeOnEntering \in Ticks, pc[t] = "try" => f = frame[t],
         f.ticks # 0 /\ IsMutex(f.queue) => f.op \in Receives,
         \A d \in Ends : f.op \in Ops(d) => Wanted(q[f.queue], d) <= 0,
         NEW n, NotNow(t, f, n)
  PROVE  WakeInv'
<1> DEFINE x == f.queue
<1>1. UNCHANGED k /\ UNCHANGED q
  BY DEF NotNow
<1>2. Follows(k', k)
  BY <1>1, OwnCall, FollowsSelf
<1>3. QueuesInv'
  BY <1>1, NoQueueChanges
<1>4. OnlyIn(x)
  BY <1>1 DEF WakeInv, OnlyIn
<1>5. ASSUME NEW p, NEW g, NEW d \in Ends PROVE Served(p, g, x, d)
  <2>1. ~ Heads(pc[k.current], frame[k.current], x, d) \/ Wanted(q[x], d) <= 0
    BY DEF Heads, OnWay, Unlocking
  <2> QED
    BY <1>1, <2>1, ServedSame
<1>6. ASSUME NEW p, NEW g, p \in {"app", "suspendAll", "altWait"}, Moves(p, g), CallFits(q', p, g)
      PROVE  WakeInv'
  <2>1. \A d \in Ends : Served(p, g, x, d)
    BY <1>5
  <2>2. pc[k.current] = "try" => frame[k.current].queue = x
    OBVIOUS
  <2> HIDE DEF x
  <2>3. x \in Queues
    BY DEF x
  <2> QED
    BY <1>2, <1>3, <1>4, <1>6, <2>1, <2>2, <2>3, LookWakes
<1>7. CASE f.ticks = 0
  <2>1. Moves("app", NoFrame)
    BY <1>7 DEF NotNow, Return, Goto, Moves
  <2>2. CallFits(q', "app", NoFrame)
    BY <1>1, NoFrameFits
  <2> QED
    BY <1>6, <2>1, <2>2
<1>8. CASE f.ticks # 0
  <2> DEFINE p == IF f.alt THEN "altWait" ELSE "suspendAll"
             g == IF f.entryTimeSet THEN f
                  ELSE [f EXCEPT !.entryTimeSet = TRUE, !.timeOut = TimeNoted(f.ticks)]
  <2>1. Moves(p, g)
    BY <1>8 DEF NotNow, Goto, Moves
  <2>2. /\ g.ticks = f.ticks /\ g.op = f.op /\ g.queue = f.queue
        /\ g.timeOut = f.timeOut \/ g.timeOut = TimeNoted(f.ticks)
    BY DEF IsFrame
  <2> HIDE DEF g
  <2>3. TimeNoted(f.ticks).timeOnEntering \in Ticks
    <3>1. k.tick \in Ticks
      BY OwnCall, SoundTypes
    <3>2. NoFrame.timeOut.timeOnEntering = 0 /\ 0 \in Ticks
      BY KernelAssumption DEF NoFrame, Ticks
    <3> QED
      BY <3>1, <3>2 DEF TimeNoted, vTaskSetTimeOutState
  <2>4. CallFits(q', p, g)
    BY <1>1, <1>8, <2>2, <2>3 DEF CallFits, IsMutex, Mutexes
  <2> HIDE DEF p
  <2>5. p \in {"app", "suspendAll", "altWait"}
    BY DEF p
  <2> QED
    BY <1>6, <2>1, <2>4, <2>5
<1> QED
  BY <1>7, <1>8

\* xQueueGenericSend, with room: an item more, and who waits for one is woken.
LEMMA SendWakes ==
  ASSUME QueuesInv, CallsInv, WakeInv, NEW t, k.current = t, t \in Tasks, pc[t] \in {"app", "try"},
         NEW x \in Queues, NEW item \in Items, NEW op \in Sends, HasRoom(x),
         pc[t] = "try" => frame[t].queue = x /\ frame[t].op = op,
         IsMutex(x) => q[x].mutexHolder = t,
         q' = [q EXCEPT ![x] = prvCopyDataToQueue(x, item, op)],
         k' = WakeFirst(Disinherited(x), <<x, "receive">>), Moves("app", NoFrame), QueuesInv'
  PROVE  WakeInv'
<1> DEFINE s == prvCopyDataToQueue(x, item, op)
           kd == Disinherited(x)
           e == <<x, "receive">>
<1>1. /\ IsQueue(s) /\ Ring(s) /\ s.kind = q[x].kind
      /\ s.messagesWaiting = q[x].messagesWaiting + 1
      /\ s.txLock = q[x].txLock /\ s.rxLock = q[x].rxLock /\ MutexFits(s)
  BY PutsOne DEF QueuesInv, WakeInv
<1>2. q'[x] = s /\ \A y \in Queues \ {x} : q'[y] = q[y]
  BY OneBecomes
<1> HIDE DEF s
<1>3. t \in AllTasks \ {IdleTask} /\ IsReady(k, t)
  <2>1. ~ Parting(pc[k.current], frame[k.current])
    BY DEF Parting, Unlocking
  <2> QED
    BY <2>1, CurrentReady, KernelAssumption DEF WakeInv, AllTasks
<1>4. Sound(k) /\ TimesSound(k)
  BY OwnCall
<1>5. Follows(kd, k) /\ kd.event = k.event
  <2>1. kd = k \/ kd = vTaskPriorityDisinherit(k, t)
    BY DEF Disinherited
  <2> QED
    BY <1>3, <1>4, <2>1, DisinheritFollows, FollowsSelf
<1> HIDE DEF kd
<1>6. Follows(k', k) /\ Wakes(k', k, e, 1)
  <2>1. e \in EventLists
    BY QueueAssumption
  <2>2. Follows(WakeFirst(kd, e), k) /\ Wakes(WakeFirst(kd, e), k, e, 1)
    BY <1>5, <2>1, WakeFirstWakes
  <2> QED
    BY <2>2 DEF kd
<1>7. op \notin Receives
  BY DEF Sends, Receives
<1>8. ASSUME NEW d \in Ends PROVE Served("app", NoFrame, x, d)
  <2>1. /\ LENGTH[q[x].kind] \in Nat /\ q[x].messagesWaiting \in Nat
        /\ Late(q[x], d) \in Nat /\ Late(q'[x], d) = Late(q[x], d)
    BY <1>1, <1>2, NumbersIn, RingTypes DEF QueuesInv, WakeInv, Late, LockOf
  <2>2. CASE d = "receive"
    <3>1. ~ Heads(pc[t], frame[t], x, d)
      BY <1>7, <2>2 DEF Heads, OnWay, Unlocking, Ops
    <3>2. Wanted(q'[x], d) - Late(q'[x], d) <= Wanted(q[x], d) - Late(q[x], d) + 1 - 0
      BY <1>1, <1>2, <2>1, <2>2 DEF Wanted
    <3> QED
      BY <1>6, <2>2, <3>1, <3>2 DEF Served
  <2>3. CASE d = "send"
    <3>1. Wakes(k', k, <<x, d>>, 0)
      BY WakesNone
    <3>2. Wanted(q'[x], d) - Late(q'[x], d) <= Wanted(q[x], d) - Late(q[x], d) + 0 - 1
      BY <1>1, <1>2, <2>1, <2>3 DEF Wanted
    <3> QED
      BY <3>1, <3>2 DEF Served
  <2> QED
    BY <2>2, <2>3 DEF Ends
<1>9. CallFits(q', "app", NoFrame)
  <2>1. CallFits(q, "app", NoFrame)
    BY NoFrameFits
  <2> QED
    BY <2>1 DEF CallFits
<1>10. OnlyIn(x)
  BY <1>1, <1>2 DEF OnlyIn
<1>11. ASSUME NEW p, NEW f, p = "app", f = NoFrame PROVE WakeInv'
  <2>1. /\ \A d \in Ends : Served(p, f, x, d)
        /\ Moves(p, f) /\ CallFits(q', p, f)
    BY <1>8, <1>9, <1>11
  <2>2. /\ pc[k.current] = "try" => frame[k.current].queue = x
        /\ p \in {"app", "suspendAll", "altWait"}
        /\ k.current \in Tasks /\ pc[k.current] \in {"app", "try"}
    BY <1>11
  <2> QED
    BY ONLY QueuesInv, CallsInv, WakeInv, QueuesInv', x \in Queues, <1>6, <1>10, <2>1, <2>2, LookWakes
<1> QED
  BY <1>11

\* xQueueGenericReceive, with an item: it is taken, and who waits for room is woken; or
\* it is left, and so is the next who waits for it.
LEMMA ReceiveWakes ==
  ASSUME QueuesInv, CallsInv, WakeInv, NEW t, k.current = t, t \in Tasks, pc[t] \in {"app", "try"},
         NEW x \in Queues, NEW op \in Receives, HasItem(x),
         pc[t] = "try" => frame[t].queue = x /\ frame[t].op = op,
         q' = IF op = "peek" THEN q ELSE [q EXCEPT ![x] = Taken(x, t)],
         k' = WakeFirst(k, <<x, IF op = "peek" THEN "receive" ELSE "send">>),
         Moves("app", NoFrame), QueuesInv'
  PROVE  WakeInv'
<1> DEFINE s == Taken(x, t)
           end == IF op = "peek" THEN "receive" ELSE "send"
           e == <<x, end>>
<1>1. /\ IsQueue(s) /\ Ring(s) /\ s.kind = q[x].kind
      /\ s.messagesWaiting = q[x].messagesWaiting - 1
      /\ s.txLock = q[x].txLock /\ s.rxLock = q[x].rxLock /\ MutexFits(s)
  BY TakesOne DEF QueuesInv, WakeInv
<1>2. q'[x] = (IF op = "peek" THEN q[x] ELSE s) /\ \A y \in Queues \ {x} : q'[y] = q[y]
  BY OneBecomes
<1> HIDE DEF s
<1>3. Follows(k', k) /\ Wakes(k', k, e, 1)
  <2>1. Follows(k, k) /\ k.event[e] = k.event[e]
    BY OwnCall, FollowsSelf
  <2>2. e \in EventLists
    BY QueueAssumption
  <2> HIDE DEF e
  <2>3. Follows(WakeFirst(k, e), k) /\ Wakes(WakeFirst(k, e), k, e, 1)
    BY <2>1, <2>2, WakeFirstWakes
  <2> QED
    BY <2>3 DEF e
<1>4. op \notin Sends
  BY DEF Sends, Receives
<1>5. ASSUME NEW d \in Ends PROVE Served("app", NoFrame, x, d)
  <2>1. /\ LENGTH[q[x].kind] \in Nat /\ q[x].messagesWaiting \in Nat
        /\ Late(q[x], d) \in Nat /\ Late(q'[x], d) = Late(q[x], d)
    BY <1>1, <1>2, NumbersIn, RingTypes DEF QueuesInv, WakeInv, Late, LockOf
  <2>2. CASE d = "send" /\ op # "peek"
    <3>1. ~ Heads(pc[t], frame[t], x, d)
      BY <1>4, <2>2 DEF Heads, OnWay, Unlocking, Ops
    <3>2. Wanted(q'[x], d) - Late(q'[x], d) <= Wanted(q[x], d) - Late(q[x], d) + 1 - 0
      BY <1>1, <1>2, <2>1, <2>2 DEF Wanted
    <3> QED
      BY <1>3, <2>2, <3>1, <3>2 DEF Served
  <2>3. CASE d = "send" /\ op = "peek"
    <3>1. ~ Heads(pc[t], frame[t], x, d)
      BY <1>4, <2>3 DEF Heads, OnWay, Unlocking, Ops
    <3>2. q'[x] = q[x]
      BY <1>2, <2>3
    <3> QED
      BY <3>1, <3>2, ServedSame
  <2>4. CASE d = "receive" /\ op # "peek"
    <3>1. Wakes(k', k, <<x, d>>, 0)
      BY WakesNone
    <3>2. Wanted(q'[x], d) - Late(q'[x], d) <= Wanted(q[x], d) - Late(q[x], d) + 0 - 1
      BY <1>1, <1>2, <2>1, <2>4 DEF Wanted
    <3> QED
      BY <3>1, <3>2 DEF Served
  <2>5. CASE d = "receive" /\ op = "peek"
    <3>1. Wanted(q'[x], d) - Late(q'[x], d) <= Wanted(q[x], d) - Late(q[x], d) + 1 - 1
      BY <1>1, <1>2, <2>1, <2>5 DEF Wanted
    <3> QED
      BY <1>3, <2>5, <3>1 DEF Served
  <2> QED
    BY <2>2, <2>3, <2>4, <2>5 DEF Ends
<1>6. CallFits(q', "app", NoFrame)
  <2>1. CallFits(q, "app", NoFrame)
    BY NoFrameFits
  <2> QED
    BY <2>1 DEF CallFits
<1>7. OnlyIn(x)
  BY <1>1, <1>2 DEF OnlyIn, WakeInv
<1>8. ASSUME NEW p, NEW f, p = "app", f = NoFrame PROVE WakeInv'
  <2>1. /\ \A d \in Ends : Served(p, f, x, d)
        /\ Moves(p, f) /\ CallFits(q', p, f)
    BY <1>5, <1>6, <1>8
  <2>2. /\ pc[k.current] = "try" => frame[k.current].queue = x
        /\ p \in {"app", "suspendAll", "altWait"}
        /\ k.current \in Tasks /\ pc[k.current] \in {"app", "try"}
    BY <1>8
  <2> QED
    BY ONLY QueuesInv, CallsInv, WakeInv, QueuesInv', x \in Queues, <1>3, <1>7, <2>1, <2>2, LookWakes
<1> QED
  BY <1>8

\* Either, or nothing to do yet.
LEMMA TryWakes ==
  ASSUME QueuesInv, CallsInv, WakeInv, NEW t, k.current = t, t \in Tasks, pc[t] \in {"app", "try"},
         NEW f, IsFrame(f), f.item \in Items, f.queue \in Queues, f.op \in Sends \cup Receives,
         f.ticks \in Ticks, f.timeOut.timeOnEntering \in Ticks, pc[t] = "try" => f = frame[t],
         f.op \in Sends /\ IsMutex(f.queue) => q[f.queue].mutexHolder = t /\ f.ticks = 0,
         NEW n, Try(t, f, n)
  PROVE  WakeInv'
<1> DEFINE x == f.queue
<1>1. QueuesInv'
  <2>1. t \in AllTasks
    BY DEF AllTasks
  <2> QED
    BY <2>1, TryStep
<1>2. /\ LENGTH[q[x].kind] \in Nat /\ q[x].messagesWaiting \in Nat
      /\ q[x].messagesWaiting <= LENGTH[q[x].kind]
  BY RingTypes DEF QueuesInv
<1>3. f.op \in Sends => f.op \notin Receives
  BY DEF Sends, Receives
<1>4. ASSUME NotNow(t, f, n), \A d \in Ends : f.op \in Ops(d) => Wanted(q[x], d) <= 0
      PROVE  WakeInv'
  <2>1. f.ticks # 0 /\ IsMutex(f.queue) => f.op \in Receives
    OBVIOUS
  <2> QED
    BY <1>4, <2>1, NotNowWakes
<1>5. ASSUME Return(t) PROVE Moves("app", NoFrame)
  BY <1>5 DEF Return, Goto, Moves
<1>6. CASE TrySend(t, f, n)
  <2>1. CASE HasRoom(x)
    <3>1. /\ q' = [q EXCEPT ![x] = prvCopyDataToQueue(x, f.item, f.op)] /\ Return(t)
          /\ k' = WakeFirst(Disinherited(x), <<x, "receive">>) /\ f.op \in Sends
      BY <1>6, <2>1 DEF TrySend
    <3>2. Moves("app", NoFrame)
      BY <1>5, <3>1
    <3>3. /\ pc[t] = "try" => frame[t].queue = x /\ frame[t].op = f.op
          /\ IsMutex(x) => q[x].mutexHolder = t
      BY <3>1
    <3> HIDE DEF x
    <3>4. x \in Queues
      BY DEF x
    <3> QED
      BY <1>1, <2>1, <3>1, <3>2, <3>3, <3>4, SendWakes
  <2>2. CASE ~ HasRoom(x)
    <3>1. NotNow(t, f, n) /\ f.op \in Sends
      BY <1>6, <2>2 DEF TrySend
    <3>2. \A d \in Ends : f.op \in Ops(d) => Wanted(q[x], d) <= 0
      BY <1>2, <1>3, <2>2, <3>1 DEF Ops, Ends, Wanted, HasRoom, uxLength
    <3> QED
      BY <1>4, <3>1, <3>2
  <2> QED
    BY <2>1, <2>2
<1>7. CASE TryReceive(t, f, n)
  <2>1. CASE HasItem(x)
    <3>1. /\ q' = (IF f.op = "peek" THEN q ELSE [q EXCEPT ![x] = Taken(x, t)]) /\ Return(t)
          /\ k' = WakeFirst(k, <<x, IF f.op = "peek" THEN "receive" ELSE "send">>) /\ f.op \in Receives
      BY <1>7, <2>1 DEF TryReceive
    <3>2. Moves("app", NoFrame)
      BY <1>5, <3>1
    <3>3. pc[t] = "try" => frame[t].queue = x /\ frame[t].op = f.op
      OBVIOUS
    <3> HIDE DEF x
    <3>4. x \in Queues
      BY DEF x
    <3> QED
      BY <1>1, <2>1, <3>1, <3>2, <3>3, <3>4, ReceiveWakes
  <2>2. CASE ~ HasItem(x)
    <3>1. NotNow(t, f, n) /\ f.op \in Receives
      BY <1>7, <2>2 DEF TryReceive
    <3>2. \A d \in Ends : f.op \in Ops(d) => Wanted(q[x], d) <= 0
      BY <1>2, <1>3, <2>2, <3>1 DEF Ops, Ends, Wanted, HasItem
    <3> QED
      BY <1>4, <3>1, <3>2
  <2> QED
    BY <2>1, <2>2
<1> QED
  BY <1>6, <1>7 DEF Try

LEMMA RetryWakes ==
  ASSUME QueuesInv, CallsInv, WakeInv, NEW t \in Tasks, Retry(t)
  PROVE  WakeInv'
<1> DEFINE f == frame[t]
<1>1. k.current = t /\ pc[t] = "try" /\ Try(t, f, asked[t])
  BY DEF Retry, At
<1>2. CallOn("try", f) /\ CallFits(q, "try", f)
  BY <1>1, OwnCall
<1>3. /\ IsFrame(f) /\ f.item \in Items /\ f.queue \in Queues /\ f.op \in Sends \cup Receives
      /\ f.ticks \in Ticks /\ f.timeOut.timeOnEntering \in Ticks
      /\ IsMutex(f.queue) => f.op \in Receives
  BY <1>2 DEF CallOn, CallFits, IsMutex, Mutexes
<1>4. f.op \in Receives => f.op \notin Sends
  BY DEF Sends, Receives
<1>5. f.op \in Sends /\ IsMutex(f.queue) => q[f.queue].mutexHolder = t /\ f.ticks = 0
  BY <1>3, <1>4
<1>6. pc[t] \in {"app", "try"} /\ (pc[t] = "try" => f = frame[t])
  BY <1>1
<1> HIDE DEF f
<1> QED
  BY <1>1, <1>3, <1>5, <1>6, TryWakes

-------------------------------------------------------------------------------
(* The queue locked, and unlocked *)

\* At most the locks of x change.
OnlyLocks(x) ==
  /\ \A y \in Queues \ {x} : q'[y] = q[y]
  /\ q'[x].kind = q[x].kind /\ q'[x].messagesWaiting = q[x].messagesWaiting
  /\ q'[x].mutexHolder = q[x].mutexHolder
  /\ q[x].kind \in Mutexes => q'[x].txLock <= 0

\* The call of the current task remains one that parts, or that heads for a queue.
StaysOn(p, f) ==
  /\ Parting(pc[k.current], frame[k.current]) => Parting(p, f)
  /\ \A y \in Queues, d \in Ends :
       Heads(pc[k.current], frame[k.current], y, d) => Heads(p, f, y, d)

\* Who is woken makes up for what the locks of x no longer promise.
MadeUpFor(x) ==
  \A d \in Ends : \E n \in Nat : /\ Wakes(k', k, <<x, d>>, n)
                                 /\ Late(q[x], d) <= Late(q'[x], d) + n

LEMMA LocksKeep ==
  ASSUME QueuesInv, CallsInv, WakeInv, QueuesInv', NEW x \in Queues, OnlyLocks(x), MadeUpFor(x),
         NEW p, NEW f, Moves(p, f), Leaves(p, f), Rises(k', k),
         StaysOn(p, f), LocksFit(q', p, f), CallFits(q', p, f)
  PROVE  WakeInv'
<1> DEFINE t == k.current
<1>1. WaitersFit(k, pc, frame) /\ LocksFit(q, pc[t], frame[t])
  BY OwnCall DEF WakeInv
<1>3. \A y \in Queues : q'[y].kind = q[y].kind /\ MutexFits(q'[y])
  <2> TAKE y \in Queues
  <2>1. MutexFits(q[y])
    BY DEF WakeInv
  <2>2. CASE y = x
    BY <2>1, <2>2 DEF MutexFits, OnlyLocks
  <2>3. CASE y # x
    BY <2>1, <2>3 DEF OnlyLocks
  <2> QED
    BY <2>2, <2>3
<1>4. ASSUME NEW y \in Queues, NEW d \in Ends
      PROVE  /\ t \in ToSet(k.event[<<y, d>>]) => Heads(p, f, y, d)
             /\ Served(p, f, y, d)
  <2>1. t \in ToSet(k.event[<<y, d>>]) => Heads(p, f, y, d)
    BY <1>1 DEF WaitersFit, StaysOn
  <2>2. /\ Wanted(q[y], d) \in Nat /\ Late(q[y], d) \in Nat
        /\ Wanted(q'[y], d) \in Nat /\ Late(q'[y], d) \in Nat
    BY <1>1, NumbersIn, NumbersAfter
  <2>3. Wanted(q'[y], d) = Wanted(q[y], d)
    BY DEF Wanted, OnlyLocks
  <2>4. PICK n \in Nat : Wakes(k', k, <<y, d>>, n) /\ Late(q[y], d) <= Late(q'[y], d) + n
    <3>1. CASE y = x
      BY <3>1 DEF MadeUpFor
    <3>2. CASE y # x
      <4>1. 0 \in Nat /\ Wakes(k', k, <<y, d>>, 0) /\ Late(q[y], d) <= Late(q'[y], d) + 0
        BY <2>2, <3>2, WakesNone DEF OnlyLocks
      <4> QED
        BY <4>1
    <3> QED
      BY <3>1, <3>2
  <2>5. Wanted(q'[y], d) - Late(q'[y], d) <= Wanted(q[y], d) - Late(q[y], d) + n - 0
    BY <2>2, <2>3, <2>4
  <2>6. Heads(pc[t], frame[t], y, d) => Heads(p, f, y, d)
    BY DEF StaysOn
  <2> QED
    BY <2>1, <2>4, <2>5, <2>6 DEF Served
<1> QED
  BY <1>3, <1>4, RisingKeeps

\* The same, with the scheduler suspended before and after.
LEMMA LockingKeeps ==
  ASSUME QueuesInv, CallsInv, WakeInv, QueuesInv', NEW x \in Queues, OnlyLocks(x), MadeUpFor(x),
         NEW p, NEW f, Moves(p, f), p \in Held, pc[k.current] \in Held, Follows(k', k),
         StaysOn(p, f), LocksFit(q', p, f), CallFits(q', p, f)
  PROVE  WakeInv'
<1>1. k.current # IdleTask
  BY OwnCall DEF Held
<1>2. Leaves(p, f) /\ Rises(k', k)
  BY <1>1, FollowsLeaves DEF Follows, StaysOn
<1> QED
  BY ONLY QueuesInv, CallsInv, WakeInv, QueuesInv', x \in Queues, OnlyLocks(x), MadeUpFor(x),
          Moves(p, f), StaysOn(p, f), LocksFit(q', p, f), CallFits(q', p, f), <1>2, LocksKeep

\* xTaskCheckForTimeOut: what is left of a wait that is not over is some ticks.
LEMMA LeftFits ==
  ASSUME NEW kk, kk.tick \in Ticks, NEW timeOut, timeOut.timeOnEntering \in Ticks, NEW n \in Ticks,
         ~ TimedOut(kk, timeOut, n)
  PROVE  TicksRemaining(kk, timeOut, n) \in Ticks /\ TicksRemaining(kk, timeOut, n) > 0
<1> DEFINE m == TicksSince(kk, timeOut)
<1>1. TICK_MOD \in Nat /\ TICK_MOD > 2
  BY KernelAssumption
<1>2. m \in Ticks
  <2>1. kk.tick - timeOut.timeOnEntering \in Int
    BY <1>1 DEF Ticks
  <2> QED
    BY <1>1, <2>1 DEF Ticks, TicksSince
<1>3. CASE n = portMAX_DELAY
  BY <1>1, <1>3 DEF TicksRemaining, portMAX_DELAY, Ticks
<1>4. CASE n # portMAX_DELAY
  <2>1. ~ (m >= n) /\ TicksRemaining(kk, timeOut, n) = n - m
    BY <1>4 DEF TimedOut, TicksRemaining
  <2> HIDE DEF m
  <2> QED
    BY <1>1, <1>2, <2>1 DEF Ticks
<1> QED
  BY <1>3, <1>4

LEMMA NotedFits == ASSUME Sound(k), NEW n PROVE TimeNoted(n).timeOnEntering \in Ticks
<1>1. k.tick \in Ticks
  BY SoundTypes
<1>2. NoFrame.timeOut.timeOnEntering = 0 /\ 0 \in Ticks
  BY KernelAssumption DEF NoFrame, Ticks
<1> QED
  BY <1>1, <1>2 DEF TimeNoted, vTaskSetTimeOutState

\* prvLockQueue and xTaskCheckForTimeOut.
LEMMA LockAndCheckWakes ==
  ASSUME QueuesInv, CallsInv, WakeInv, NEW t \in Tasks, LockAndCheck(t)
  PROVE  WakeInv'
<1> DEFINE f == frame[t]
           x == f.queue
           lock(n) == IF n = Unlocked THEN LockedUnmodified ELSE n
           s == [q[x] EXCEPT !.rxLock = lock(@), !.txLock = lock(@)]
<1>1. /\ k.current = t /\ pc[t] = "lock" /\ UNCHANGED k
      /\ q' = [q EXCEPT ![x].rxLock = lock(@), ![x].txLock = lock(@)]
  BY DEF LockAndCheck, At
<1>2. /\ t \in AllTasks /\ Sound(k) /\ TimesSound(k) /\ CallOn("lock", f) /\ CallFits(q, "lock", f)
      /\ LocksFit(q, "lock", f)
  BY <1>1, OwnCall
<1>3. /\ IsFrame(f) /\ x \in Queues /\ IsQueue(q[x])
      /\ q[x].txLock = Unlocked /\ q[x].rxLock = Unlocked
  BY <1>2 DEF CallOn, QueuesInv, LocksFit, TxLocking, RxLocking
<1>4. q' = [q EXCEPT ![x] = s]
  BY <1>1, <1>3 DEF QueuesInv, IsQueue
<1>5. /\ s.kind = q[x].kind /\ s.messagesWaiting = q[x].messagesWaiting
      /\ s.mutexHolder = q[x].mutexHolder /\ s.txLock = 0 /\ s.rxLock = 0
  BY <1>3 DEF IsQueue, LockedUnmodified
<1> HIDE DEF s
<1>6. q'[x] = s /\ \A y \in Queues \ {x} : q'[y] = q[y]
  BY <1>3, <1>4, OneBecomes
<1>7. QueuesInv'
  BY ContinueStep DEF Continue
<1>8. Follows(k', k)
  BY <1>1, <1>2, FollowsSelf
<1>9. ASSUME NEW p, p \in {"isFull", "unlockTx"}, NEW g, g.queue = x PROVE LocksFit(q', p, g)
  BY <1>2, <1>3, <1>5, <1>6, <1>9 DEF LocksFit, TxLocking, RxLocking, Unlocked
<1>10. ASSUME NEW p, p \in {"isFull", "unlockTx"}, NEW g, g.queue = x, g.op = f.op,
              g.ticks \in Ticks, g.timeOut.timeOnEntering \in Ticks, p = "isFull" => g.ticks > 0
       PROVE  CallFits(q', p, g)
  BY <1>2, <1>3, <1>5, <1>6, <1>10 DEF CallFits
<1>11. ASSUME NEW p, NEW g PROVE StaysOn(p, g)
  BY <1>1 DEF StaysOn, Heads, OnWay, Unlocking, Parting
<1>12. ASSUME NEW d \in Ends PROVE \E n \in Nat : /\ Wakes(k', k, <<x, d>>, n)
                                                  /\ Late(q[x], d) <= Late(q'[x], d) + n
  <2>1. Late(q[x], d) = 0 /\ Late(q'[x], d) = 0
    BY <1>3, <1>5, <1>6 DEF Late, LockOf, Unlocked
  <2>2. 0 \in Nat /\ Wakes(k', k, <<x, d>>, 0) /\ Late(q[x], d) <= Late(q'[x], d) + 0
    BY <2>1, WakesNone
  <2> QED
    BY <2>2
<1>13. OnlyLocks(x) /\ MadeUpFor(x)
  BY <1>5, <1>6, <1>12 DEF OnlyLocks, MadeUpFor
<1>14. pc[k.current] \in Held
  BY <1>1 DEF Held
<1>15. ASSUME NEW p, p \in {"isFull", "unlockTx"}, NEW g, g.queue = x, g.op = f.op, Moves(p, g),
              g.ticks \in Ticks, g.timeOut.timeOnEntering \in Ticks, p = "isFull" => g.ticks > 0
       PROVE  WakeInv'
  <2>1. LocksFit(q', p, g) /\ CallFits(q', p, g) /\ p \in Held
    BY <1>9, <1>10, <1>15 DEF Held
  <2>2. StaysOn(p, g)
    BY <1>11
  <2> HIDE DEF x
  <2> QED
    BY ONLY QueuesInv, CallsInv, WakeInv, <1>3, <1>7, <1>8, <1>13, <1>14, <1>15, <2>1, <2>2,
            LockingKeeps
<1>16. CASE TimedOut(k, f.timeOut, f.ticks)
  <2> DEFINE g == [f EXCEPT !.next = "app"]
  <2>1. g.queue = x /\ g.op = f.op /\ g.ticks = f.ticks /\ g.timeOut = f.timeOut
    BY <1>3 DEF IsFrame
  <2>2. Moves("unlockTx", g)
    BY <1>1, <1>2, <1>16 DEF LockAndCheck, Goto, Moves, CallsInv
  <2> HIDE DEF g
  <2>3. g.ticks \in Ticks /\ g.timeOut.timeOnEntering \in Ticks
    BY <1>2, <2>1 DEF CallFits
  <2> QED
    BY <1>15, <2>1, <2>2, <2>3
<1>17. CASE ~ TimedOut(k, f.timeOut, f.ticks)
  <2> DEFINE left == TicksRemaining(k, f.timeOut, f.ticks)
             noted == TimeNoted(f.ticks)
             g == [f EXCEPT !.ticks = left, !.timeOut = noted]
  <2>1. g.queue = x /\ g.op = f.op /\ g.ticks = left /\ g.timeOut = noted
    BY <1>3 DEF IsFrame
  <2>2. /\ pc' = [pc EXCEPT ![t] = "isFull"]
        /\ frame' = [frame EXCEPT ![t].ticks = TicksRemaining(k, f.timeOut, @),
                                  ![t].timeOut = TimeNoted(f.ticks)]
    BY <1>17 DEF LockAndCheck, Goto
  <2>3. Moves("isFull", g)
    BY <1>1, <1>2, <2>2 DEF Moves, CallsInv
  <2>4. k.tick \in Ticks /\ f.ticks \in Ticks /\ f.timeOut.timeOnEntering \in Ticks
    BY <1>2, SoundTypes DEF CallFits
  <2>5. left \in Ticks /\ left > 0
    BY <1>17, <2>4, LeftFits
  <2>6. noted.timeOnEntering \in Ticks
    BY <1>2, NotedFits
  <2> HIDE DEF g, left, noted
  <2> QED
    BY <1>15, <2>1, <2>3, <2>5, <2>6
<1> QED
  BY <1>16, <1>17

\* The fold of prvUnlockQueue over what came while the queue was locked.
UnlockIter(kk, e, list) ==
  CHOOSE iter : iter = [s \in SUBSET DOMAIN list |->
                          IF s = {} THEN kk ELSE WakeOnUnlock(iter[s \ {Max(s)}], e)]

LEMMA UnlockUnfolds ==
  ASSUME NEW kk, NEW e, NEW list
  PROVE  FoldLeft(LAMBDA x, i : WakeOnUnlock(x, e), kk, list) = UnlockIter(kk, e, list)[DOMAIN list]
BY DEF FoldLeft, MapThenFoldSet, UnlockIter

\* One more task is woken, if there is one.
LEMMA WakesMore ==
  ASSUME NEW k0, Sound(k0), NEW kk, Follows(kk, k0), kk.schedulerSuspended # 0, NEW e \in EventLists,
         NEW m \in Nat, Wakes(kk, k0, e, m)
  PROVE  LET r == WakeOnUnlock(kk, e)
         IN  /\ Follows(r, k0) /\ r.schedulerSuspended # 0 /\ r \in KernelState
             /\ Wakes(r, k0, e, m + 1) /\ Still(r, kk, AllTasks)
<1> DEFINE t == Head(kk.event[e])
           d == xTaskRemoveFromEventList(kk, e)
           r == WakeOnUnlock(kk, e)
<1>0. Sound(kk) /\ TimesSound(kk) /\ kk \in KernelState
  BY SoundTypes DEF Follows
<1>1. CASE kk.event[e] = <<>>
  <2>1. r = kk
    BY <1>1 DEF WakeOnUnlock
  <2> HIDE DEF r
  <2> QED
    BY <1>0, <1>1, <2>1, StillSelf DEF r, Wakes
<1>2. CASE kk.event[e] # <<>>
  <2>1. /\ Follows(d, kk) /\ t \in ToSet(kk.event[e]) /\ t \in AllTasks
        /\ Awake(d, t) /\ ~ Awake(kk, t)
    BY <1>0, <1>2, RemoveFollows
  <2>2. r = [d EXCEPT !.missedYield = @ \/ UnblocksHigher(kk, e)]
    BY <1>2 DEF WakeOnUnlock
  <2> DEFINE b == d.missedYield \/ UnblocksHigher(kk, e)
  <2>3. r = [d EXCEPT !.missedYield = b] /\ b \in BOOLEAN
    BY <2>2 DEF UnblocksHigher
  <2> HIDE DEF d, t, r, b
  <2>4. d \in KernelState /\ d.schedulerSuspended # 0 /\ Sound(d) /\ TimesSound(d)
    BY <2>1, SoundTypes DEF Follows
  <2>5. r \in KernelState
    BY <2>3, <2>4 DEF KernelState
  <2>6. /\ SameLists(r, d) /\ r.current = d.current
        /\ r.schedulerSuspended = d.schedulerSuspended
        /\ r.wake = d.wake /\ r.tick = d.tick /\ r.nextUnblock = d.nextUnblock
    BY <2>3, <2>4 DEF KernelState, SameLists
  <2>7. Sound(r) /\ Rises(r, d)
    BY <2>4, <2>5, <2>6, SoundSame, RisesSame
  <2>8. TimesSound(r)
    BY <2>4, <2>6 DEF TimesSound, SameLists
  <2>9. Follows(r, d)
    BY <2>4, <2>6, <2>7, <2>8 DEF Follows, Quiet
  <2>10. Follows(r, kk)
    BY <2>1, <2>9, FollowsTrans
  <2>11. Follows(r, k0)
    BY <2>10, FollowsTrans
  <2>12. PICK W \in SUBSET ToSet(k0.event[e]) :
           IsFiniteSet(W) /\ Cardinality(W) = m /\ \A u \in W : Awake(kk, u) /\ ~ Awake(k0, u)
    BY <1>2 DEF Wakes
  <2> DEFINE V == W \cup {t}
  <2>13. t \in ToSet(k0.event[e]) /\ t \notin W /\ ~ Awake(k0, t)
    BY <2>1, <2>12 DEF Follows, Rises, EventsFall
  <2>14. IsFiniteSet(V) /\ Cardinality(V) = m + 1
    BY <2>12, <2>13, FS_AddElement
  <2>15. W \subseteq AllTasks
    <3>1. k0.event[e] \in Seq(AllTasks)
      BY SoundTypes, ListTypes
    <3> QED
      BY <3>1, InList
  <2>17. \A u \in AllTasks : Awake(kk, u) => Awake(r, u)
    BY <2>10 DEF Follows, Rises
  <2>18. Awake(r, t)
    BY <2>1, <2>9 DEF Follows, Rises
  <2>19. \A u \in W : Awake(r, u)
    BY <2>12, <2>15, <2>17
  <2>20. V \in SUBSET ToSet(k0.event[e]) /\ \A u \in V : Awake(r, u) /\ ~ Awake(k0, u)
    BY <2>12, <2>13, <2>18, <2>19
  <2> HIDE DEF V
  <2>21. Wakes(r, k0, e, m + 1)
    BY <2>14, <2>20 DEF Wakes
  <2>22. r.overflows = d.overflows /\ r.missedTicks = d.missedTicks
    BY <2>3, <2>4 DEF KernelState
  <2>23. Still(r, d, AllTasks) /\ Still(d, kk, AllTasks)
    BY <1>0, <1>2, <2>6, <2>22, StillSame, RemoveStill DEF d
  <2>24. Still(r, kk, AllTasks)
    BY <2>23, StillTrans
  <2> QED
    BY <2>4, <2>5, <2>6, <2>11, <2>21, <2>24 DEF r
<1> QED
  BY <1>1, <1>2

\* prvUnlockQueue wakes a task for each time the queue was marked, while there are any.
LEMMA WakesMany ==
  ASSUME Sound(k), TimesSound(k), k.schedulerSuspended # 0, NEW e \in EventLists, NEW n \in Nat
  PROVE  /\ Follows(WakeMany(e, n), k) /\ Wakes(WakeMany(e, n), k, e, n)
         /\ Still(WakeMany(e, n), k, AllTasks)
<1> DEFINE list == [i \in 1 .. n |-> i]
           R == {r \in KernelState : /\ Follows(r, k) /\ r.schedulerSuspended # 0
                                     /\ Still(r, k, AllTasks)}
           G == [p \in Nat \X R |-> WakeOnUnlock(p[2], e)]
           g == UnlockIter(k, e, list)
           Next1(iter) == [s \in SUBSET DOMAIN list |->
                             IF s = {} THEN k ELSE WakeOnUnlock(iter[s \ {Max(s)}], e)]
<1>1. list \in [1 .. n -> Nat] /\ DOMAIN list = 1 .. n
  OBVIOUS
<1> HIDE DEF list
<1>2. ASSUME NEW r \in R, NEW m \in Nat, Wakes(r, k, e, m)
      PROVE  WakeOnUnlock(r, e) \in R /\ Wakes(WakeOnUnlock(r, e), k, e, m + 1)
  <2> DEFINE w == WakeOnUnlock(r, e)
  <2>1. /\ Follows(w, k) /\ w.schedulerSuspended # 0 /\ w \in KernelState
        /\ Wakes(w, k, e, m + 1) /\ Still(w, r, AllTasks)
    BY <1>2, WakesMore
  <2> HIDE DEF w
  <2>2. Still(w, k, AllTasks)
    BY <2>1, StillTrans
  <2> QED
    BY <2>1, <2>2 DEF w
<1>3. G \in [Nat \X R -> R] /\ \A i \in Nat, r \in R : G[<<i, r>>] = WakeOnUnlock(r, e)
  <2>1. ASSUME NEW r \in R PROVE WakeOnUnlock(r, e) \in R
    <3>1. 0 \in Nat /\ Wakes(r, k, e, 0)
      BY WakesNone
    <3> HIDE DEF R
    <3> QED
      BY <1>2, <3>1
  <2> HIDE DEF R
  <2> QED
    BY <2>1
<1>4. k \in R
  BY FollowsSelf, SoundTypes, StillSelf
<1> HIDE DEF G
<1>5. PICK f \in [SUBSET (1 .. n) -> R] : LastFolds(f, list, n, k, G)
  <2> HIDE DEF R
  <2> QED
    BY <1>1, <1>3, <1>4, LastFirst
<1>0. \A r \in R : Follows(r, k) /\ Still(r, k, AllTasks)
  OBVIOUS
<1> HIDE DEF R
<1>6. ASSUME NEW s \in SUBSET (1 .. n)
      PROVE  f[s] = IF s = {} THEN k ELSE WakeOnUnlock(f[s \ {Max(s)}], e)
  <2>1. CASE s = {}
    BY <1>5, <2>1 DEF LastFolds
  <2>2. CASE s # {}
    <3>1. Max(s) \in 1 .. n
      BY <1>1, <2>2, MaxIsLast
    <3>2. list[Max(s)] \in Nat /\ f[s \ {Max(s)}] \in R
      BY <1>1, <3>1
    <3>3. f[s] = G[<<list[Max(s)], f[s \ {Max(s)}]>>]
      BY <1>5, <2>2 DEF LastFolds
    <3> QED
      BY <1>3, <2>2, <3>2, <3>3
  <2> QED
    BY <2>1, <2>2
<1>7. f = Next1(f)
  BY <1>1, <1>6
<1>8. g = Next1(g)
  BY <1>7 DEF UnlockIter
<1> HIDE DEF g
<1>9. \A s \in SUBSET (1 .. n) :
        g[s] = IF s = {} THEN k ELSE WakeOnUnlock(g[s \ {Max(s)}], e)
  BY <1>1, <1>8
<1> DEFINE T == {m \in Nat : m <= n => g[1 .. m] \in R /\ Wakes(g[1 .. m], k, e, m)}
<1>10. 0 \in T
  <2>1. 1 .. 0 = {}
    OBVIOUS
  <2>2. g[1 .. 0] = k
    BY <1>9, <2>1
  <2> QED
    BY <1>4, <2>1, <2>2, WakesNone
<1>11. ASSUME NEW m \in Nat, m \in T PROVE m + 1 \in T
  <2> SUFFICES ASSUME m + 1 <= n
               PROVE  g[1 .. m + 1] \in R /\ Wakes(g[1 .. m + 1], k, e, m + 1)
    OBVIOUS
  <2>0. n \in Nat /\ m + 1 \in Nat /\ m + 1 > 0 /\ (m + 1) - 1 = m
    BY <1>1
  <2>1. /\ Max(1 .. m + 1) = m + 1 /\ (1 .. m + 1) \ {m + 1} = 1 .. m
        /\ 1 .. m + 1 \in SUBSET (1 .. n) /\ 1 .. m + 1 # {}
    <3>1. Max(1 .. m + 1) = m + 1 /\ (1 .. m + 1) \ {m + 1} = 1 .. m
      BY <2>0, MaxIsLast
    <3>2. 1 .. m + 1 \in SUBSET (1 .. n)
      <4> HIDE DEF T
      <4>1. \A j \in 1 .. m + 1 : j \in 1 .. n
        BY <2>0
      <4> QED
        BY <4>1
    <3>3. m + 1 \in 1 .. m + 1
      BY <2>0
    <3> QED
      BY <3>1, <3>2, <3>3
  <2>2. g[1 .. m + 1] = WakeOnUnlock(g[1 .. m], e)
    BY <1>9, <2>1
  <2>3. g[1 .. m] \in R /\ Wakes(g[1 .. m], k, e, m)
    BY <1>1, <1>11
  <2> QED
    BY <1>2, <2>2, <2>3
<1>12. n \in T
  <2> HIDE DEF T
  <2> QED
    BY <1>1, <1>10, <1>11, SetInduction
<1>13. g[1 .. n] \in R /\ Wakes(g[1 .. n], k, e, n)
  BY <1>1, <1>12
<1>14. FoldLeft(LAMBDA kk, i : WakeOnUnlock(kk, e), k, list) = g[1 .. n]
  BY <1>1, UnlockUnfolds DEF g
<1>15. WakeMany(e, n) = g[1 .. n]
  BY <1>14 DEF WakeMany, list
<1> QED
  BY <1>0, <1>13, <1>15

\* The two critical sections of prvUnlockQueue.
LEMMA UnlockTxWakes ==
  ASSUME QueuesInv, CallsInv, WakeInv, NEW t \in Tasks, UnlockTx(t)
  PROVE  WakeInv'
<1> DEFINE f == frame[t]
           x == f.queue
           s == [q[x] EXCEPT !.txLock = Unlocked]
           n == q[x].txLock
           e == <<x, "receive">>
<1>1. /\ k.current = t /\ pc[t] = "unlockTx" /\ k' = WakeMany(e, n)
      /\ q' = [q EXCEPT ![x].txLock = Unlocked] /\ Moves("unlockRx", f)
  BY OwnCall DEF UnlockTx, At, Goto, Moves
<1>2. /\ t \in AllTasks /\ Sound(k) /\ TimesSound(k) /\ CallOn("unlockTx", f)
      /\ CallFits(q, "unlockTx", f) /\ LocksFit(q, "unlockTx", f) /\ k.schedulerSuspended = 1
  BY <1>1, OwnCall DEF Held
<1>3. x \in Queues /\ IsQueue(q[x]) /\ n \in Nat /\ e \in EventLists
  BY <1>2, QueueAssumption DEF CallOn, QueuesInv, LocksFit, TxLocking
<1>4. q' = [q EXCEPT ![x] = s]
  BY <1>1, <1>3 DEF QueuesInv, IsQueue
<1>5. /\ s.kind = q[x].kind /\ s.messagesWaiting = q[x].messagesWaiting
      /\ s.mutexHolder = q[x].mutexHolder /\ s.txLock = Unlocked /\ s.rxLock = q[x].rxLock
  BY <1>3 DEF IsQueue
<1> HIDE DEF s
<1>6. q'[x] = s /\ \A y \in Queues \ {x} : q'[y] = q[y]
  BY <1>3, <1>4, OneBecomes
<1>7. QueuesInv'
  BY ContinueStep DEF Continue
<1> HIDE DEF e
<1>8. Follows(k', k) /\ Wakes(k', k, e, n)
  <2> HIDE DEF n
  <2> QED
    BY <1>1, <1>2, <1>3, WakesMany
<1>9. LocksFit(q', "unlockRx", f)
  BY <1>2, <1>5, <1>6 DEF LocksFit, TxLocking, RxLocking, Unlocked
<1>10. CallFits(q', "unlockRx", f)
  BY <1>2, <1>3, <1>5, <1>6 DEF CallFits
<1>11. StaysOn("unlockRx", f)
  BY <1>1 DEF StaysOn, Heads, OnWay, Unlocking, Parting
<1>12. OnlyLocks(x)
  BY <1>5, <1>6 DEF OnlyLocks, Unlocked
<1>13. MadeUpFor(x)
  <2>1. Late(q[x], "receive") <= Late(q'[x], "receive") + n
    BY <1>3, <1>5, <1>6 DEF Late, LockOf, Unlocked
  <2>2. Late(q'[x], "send") = Late(q[x], "send") /\ Late(q[x], "send") \in Nat
    <3>1. "send" \in Ends
      BY DEF Ends
    <3>2. Late(q[x], "send") \in Nat
      BY <1>2, <1>3, <3>1, NumbersIn
    <3> QED
      BY <1>5, <1>6, <3>2 DEF Late, LockOf
  <2>3. Wakes(k', k, <<x, "send">>, 0) /\ Wakes(k', k, <<x, "receive">>, n)
    BY <1>8, WakesNone DEF e
  <2>4. Late(q[x], "send") <= Late(q'[x], "send") + 0
    BY <2>2
  <2> HIDE DEF x, n
  <2> QED
    BY <1>3, <2>1, <2>3, <2>4 DEF MadeUpFor, Ends
<1>14. pc[k.current] \in Held /\ "unlockRx" \in Held
  BY <1>1 DEF Held
<1> HIDE DEF f, x
<1> QED
  BY ONLY QueuesInv, CallsInv, WakeInv, <1>1, <1>3, <1>7, <1>8, <1>9, <1>10, <1>11, <1>12, <1>13,
          <1>14, LockingKeeps

LEMMA UnlockRxWakes ==
  ASSUME QueuesInv, CallsInv, WakeInv, NEW t \in Tasks, UnlockRx(t)
  PROVE  WakeInv'
<1> DEFINE f == frame[t]
           x == f.queue
           s == [q[x] EXCEPT !.rxLock = Unlocked]
           n == q[x].rxLock
           e == <<x, "send">>
<1>1. /\ k.current = t /\ pc[t] = "unlockRx" /\ k' = WakeMany(e, n)
      /\ q' = [q EXCEPT ![x].rxLock = Unlocked] /\ Moves("resumeAll", f)
  BY OwnCall DEF UnlockRx, At, Goto, Moves
<1>2. /\ t \in AllTasks /\ Sound(k) /\ TimesSound(k) /\ CallOn("unlockRx", f)
      /\ CallFits(q, "unlockRx", f) /\ LocksFit(q, "unlockRx", f) /\ k.schedulerSuspended = 1
  BY <1>1, OwnCall DEF Held
<1>3. x \in Queues /\ IsQueue(q[x]) /\ n \in Nat /\ e \in EventLists
  BY <1>2, QueueAssumption DEF CallOn, QueuesInv, LocksFit, TxLocking, RxLocking
<1>4. q' = [q EXCEPT ![x] = s]
  BY <1>1, <1>3 DEF QueuesInv, IsQueue
<1>5. /\ s.kind = q[x].kind /\ s.messagesWaiting = q[x].messagesWaiting
      /\ s.mutexHolder = q[x].mutexHolder /\ s.rxLock = Unlocked /\ s.txLock = q[x].txLock
  BY <1>3 DEF IsQueue
<1> HIDE DEF s
<1>6. q'[x] = s /\ \A y \in Queues \ {x} : q'[y] = q[y]
  BY <1>3, <1>4, OneBecomes
<1>7. QueuesInv'
  BY ContinueStep DEF Continue
<1> HIDE DEF e
<1>8. Follows(k', k) /\ Wakes(k', k, e, n)
  <2> HIDE DEF n
  <2> QED
    BY <1>1, <1>2, <1>3, WakesMany
<1>9. LocksFit(q', "resumeAll", f)
  BY <1>2, <1>5, <1>6 DEF LocksFit, TxLocking, RxLocking, Unlocked
<1>10. CallFits(q', "resumeAll", f)
  BY <1>2, <1>3, <1>5, <1>6 DEF CallFits
<1>11. StaysOn("resumeAll", f)
  BY <1>1 DEF StaysOn, Heads, OnWay, Unlocking, Parting
<1>12. OnlyLocks(x)
  <2>1. MutexFits(q[x])
    BY <1>3 DEF WakeInv
  <2> QED
    BY <1>5, <1>6, <2>1 DEF OnlyLocks, MutexFits
<1>13. MadeUpFor(x)
  <2>1. Late(q[x], "send") <= Late(q'[x], "send") + n
    BY <1>3, <1>5, <1>6 DEF Late, LockOf, Unlocked
  <2>2. Late(q'[x], "receive") = Late(q[x], "receive") /\ Late(q[x], "receive") \in Nat
    <3>1. "receive" \in Ends
      BY DEF Ends
    <3>2. Late(q[x], "receive") \in Nat
      BY <1>2, <1>3, <3>1, NumbersIn
    <3> QED
      BY <1>5, <1>6, <3>2 DEF Late, LockOf
  <2>3. Wakes(k', k, <<x, "receive">>, 0) /\ Wakes(k', k, <<x, "send">>, n)
    BY <1>8, WakesNone DEF e
  <2>4. Late(q[x], "receive") <= Late(q'[x], "receive") + 0
    BY <2>2
  <2> HIDE DEF x, n
  <2> QED
    BY <1>3, <2>1, <2>3, <2>4 DEF MadeUpFor, Ends
<1>14. pc[k.current] \in Held /\ "resumeAll" \in Held
  BY <1>1 DEF Held
<1> HIDE DEF f, x
<1> QED
  BY ONLY QueuesInv, CallsInv, WakeInv, <1>1, <1>3, <1>7, <1>8, <1>9, <1>10, <1>11, <1>12, <1>13,
          <1>14, LockingKeeps

-------------------------------------------------------------------------------
(* The current task begins to wait *)

\* The end of the queue at which a call waits.
EndOf(f) == IF f.op \in Sends THEN "send" ELSE "receive"

LEMMA EndFits ==
  ASSUME NEW f, f.op \in Sends \cup Receives
  PROVE  /\ EndOf(f) \in Ends /\ f.op \in Ops(EndOf(f))
         /\ \A d \in Ends : f.op \in Ops(d) => d = EndOf(f)
BY DEF EndOf, Ends, Ops, Sends, Receives

\* A mutex with nothing to take has a holder.
LEMMA HolderKnown ==
  ASSUME QueuesInv, NEW x \in Queues, MutexFits(q[x]), IsMutex(x),
         q[x].txLock \in Nat \cup {Unlocked}, Wanted(q[x], "receive") <= Late(q[x], "receive")
  PROVE  q[x].mutexHolder \in Tasks
<1>1. q[x].messagesWaiting \in Nat
  BY RingTypes DEF QueuesInv
<1>2. q[x].txLock <= 0 /\ q[x].mutexHolder \in IF q[x].messagesWaiting = 0 THEN Tasks ELSE {NoTask}
  BY DEF MutexFits, IsMutex, Mutexes
<1>3. Late(q[x], "receive") = 0
  BY <1>2 DEF Late, LockOf, Unlocked
<1>4. q[x].messagesWaiting = 0
  BY <1>1, <1>3 DEF Wanted
<1> QED
  BY <1>2, <1>4

\* vTaskPriorityInherit and vTaskPlaceOnEventList: the current task waits, and nobody
\* else goes to sleep.
LEMMA PlacedWaits ==
  ASSUME Sound(k), TimesSound(k), Quiet(k), NEW t \in Tasks, k.current = t, IsReady(k, t),
         CallOn(pc[t], frame[t]), pc[t] # "app", NEW n \in 1 .. portMAX_DELAY,
         IsMutex(frame[t].queue) /\ frame[t].op \in Receives => q[frame[t].queue].mutexHolder \in Tasks
  PROVE  LET r == PlacedOnList(t, n)
         IN  /\ Sound(r) /\ TimesSound(r) /\ Quiet(r) /\ r.current = t
             /\ r.schedulerSuspended = k.schedulerSuspended
             /\ \A u \in Tasks \ {t} : Awake(k, u) => Awake(r, u)
             /\ Joins(r, k, <<frame[t].queue, EndOf(frame[t])>>)
<1> DEFINE f  == frame[t]
           x  == f.queue
           ki == IF IsMutex(x) /\ f.op \in Receives
                 THEN vTaskPriorityInherit(k, q[x].mutexHolder) ELSE k
           e  == <<x, EndOf(f)>>
           r  == PlacedOnList(t, n)
<1>1. e \in EventLists
  BY EndFits, QueueAssumption DEF CallOn, Ends
<1>2. t \in AllTasks /\ t # IdleTask
  BY KernelAssumption DEF AllTasks
<1>3. Follows(ki, k) /\ ki.current = k.current /\ ki.event = k.event
  <2>1. CASE IsMutex(x) /\ f.op \in Receives
    <3>1. q[x].mutexHolder \in AllTasks \ {IdleTask}
      BY <2>1, KernelAssumption DEF AllTasks
    <3> QED
      BY <2>1, <3>1, InheritFollows
  <2>2. CASE ~ (IsMutex(x) /\ f.op \in Receives)
    BY <2>2, FollowsSelf
  <2> QED
    BY <2>1, <2>2
<1>4. r = vTaskPlaceOnEventList(ki, e, n)
  BY DEF PlacedOnList, EndOf
<1> HIDE DEF ki, e, r
<1>5. /\ Sound(ki) /\ TimesSound(ki) /\ Quiet(ki) /\ IsReady(ki, t)
      /\ ki.schedulerSuspended = k.schedulerSuspended
      /\ \A u \in AllTasks : Awake(k, u) => Awake(ki, u)
  BY <1>2, <1>3 DEF Follows, Rises
<1>6. Sound(r) /\ TimesSound(r) /\ Parted(r, ki) /\ Joins(r, ki, e)
  BY <1>1, <1>2, <1>3, <1>4, <1>5, PlacesOnEventList
<1>7. /\ r.current = t /\ r.schedulerSuspended = k.schedulerSuspended
      /\ r.missedTicks = ki.missedTicks /\ r.missedYield = ki.missedYield
      /\ r.pendingReady = ki.pendingReady
  BY <1>3, <1>5, <1>6 DEF Parted, Calm
<1>8. Quiet(r)
  BY <1>5, <1>7 DEF Quiet
<1>9. \A u \in Tasks \ {t} : Awake(k, u) => Awake(r, u)
  BY <1>3, <1>5, <1>6, PartedOthers DEF AllTasks
<1>10. Joins(r, k, e)
  BY <1>3, <1>6 DEF Joins
<1> QED
  BY <1>6, <1>7, <1>8, <1>9, <1>10 DEF r, e

\* What the event lists are then, in the words of SleepingKeeps.
LEMMA JoinsOne ==
  ASSUME NEW r, NEW f, f.queue \in Queues, f.op \in Sends \cup Receives,
         Joins(r, k, <<f.queue, EndOf(f)>>), NEW p, NEW g, OnWay(p, g),
         g.op = f.op, g.queue = f.queue,
         \A d \in Ends : f.op \in Ops(d) => Wanted(q[f.queue], d) <= Late(q[f.queue], d),
         NEW x \in Queues, NEW d \in Ends
  PROVE  \/ ToSet(r.event[<<x, d>>]) = ToSet(k.event[<<x, d>>])
         \/ /\ ToSet(r.event[<<x, d>>]) \subseteq ToSet(k.event[<<x, d>>]) \cup {k.current}
            /\ Heads(p, g, x, d) /\ Wanted(q[x], d) <= Late(q[x], d)
<1>1. <<x, d>> \in EventLists
  BY QueueAssumption DEF Ends
<1>2. ToSet(r.event[<<x, d>>]) =
        ToSet(k.event[<<x, d>>]) \cup (IF <<x, d>> = <<f.queue, EndOf(f)>> THEN {k.current} ELSE {})
  BY <1>1 DEF Joins
<1>3. CASE x = f.queue /\ d = EndOf(f)
  BY <1>2, <1>3, EndFits DEF Heads
<1>4. CASE ~ (x = f.queue /\ d = EndOf(f))
  <2>1. <<x, d>> # <<f.queue, EndOf(f)>>
    BY <1>4
  <2> QED
    BY <1>2, <2>1
<1> QED
  BY <1>3, <1>4

\* Place.
LEMMA PlaceWakes ==
  ASSUME QueuesInv, CallsInv, WakeInv, NEW t \in Tasks, Place(t)
  PROVE  WakeInv'
<1> DEFINE f == frame[t]
           x == f.queue
<1>1. /\ k.current = t /\ pc[t] = "place" /\ UNCHANGED q /\ k' = PlacedOnList(t, f.ticks)
      /\ Moves("unlockTx", f)
  BY OwnCall DEF Place, At, Goto, Moves
<1>2. /\ Sound(k) /\ TimesSound(k) /\ Quiet(k) /\ k.schedulerSuspended = 1
      /\ LocksFit(q, "place", f) /\ CallFits(q, "place", f) /\ CallOn("place", f) /\ t # IdleTask
  BY <1>1, OwnCall DEF Held
<1>3. /\ x \in Queues /\ f.op \in Sends \cup Receives /\ MutexFits(q[x])
      /\ q[x].txLock \in Nat \cup {Unlocked}
  BY <1>2 DEF CallOn, WakeInv, LocksFit
<1>4. /\ f.next = "yield" /\ f.ticks \in 1 .. portMAX_DELAY
      /\ \A d \in Ends : f.op \in Ops(d) => Wanted(q[x], d) <= Late(q[x], d)
  BY <1>2, KernelAssumption DEF CallFits, Ticks, portMAX_DELAY
<1>5. IsMutex(x) /\ f.op \in Receives => q[x].mutexHolder \in Tasks
  <2>1. f.op \in Receives => Wanted(q[x], "receive") <= Late(q[x], "receive")
    BY <1>4 DEF Ends, Ops
  <2> QED
    BY <1>3, <2>1, HolderKnown
<1>6. ~ Parting(pc[k.current], frame[k.current])
  BY <1>1 DEF Parting, Unlocking
<1>7. IsReady(k, t)
  BY <1>1, <1>6, CurrentReady DEF WakeInv
<1>8. /\ Sound(k') /\ TimesSound(k') /\ Quiet(k') /\ k'.current = t
      /\ k'.schedulerSuspended = k.schedulerSuspended
      /\ \A u \in Tasks \ {t} : Awake(k, u) => Awake(k', u)
      /\ Joins(k', k, <<x, EndOf(f)>>)
  BY <1>1, <1>2, <1>4, <1>5, <1>7, PlacedWaits
<1>9. Leaves("unlockTx", f)
  BY <1>1, <1>2, <1>4, <1>8 DEF Leaves, Parting, Unlocking, Held
<1>10. LocksFit(q, "unlockTx", f)
  BY <1>2 DEF LocksFit, TxLocking, RxLocking
<1>11. CallFits(q, "unlockTx", f)
  BY <1>2 DEF CallFits
<1>12. OnWay("unlockTx", f)
  BY <1>4 DEF OnWay, Unlocking
<1>13. ASSUME NEW y \in Queues, NEW d \in Ends
       PROVE  /\ ~ Heads(pc[k.current], frame[k.current], y, d)
              /\ \/ ToSet(k'.event[<<y, d>>]) = ToSet(k.event[<<y, d>>])
                 \/ /\ ToSet(k'.event[<<y, d>>]) \subseteq ToSet(k.event[<<y, d>>]) \cup {k.current}
                    /\ Heads("unlockTx", f, y, d) /\ Wanted(q[y], d) <= Late(q[y], d)
  <2>1. ~ Heads(pc[k.current], frame[k.current], y, d)
    BY <1>1 DEF Heads, OnWay, Unlocking
  <2> QED
    BY <1>3, <1>4, <1>8, <1>12, <2>1, JoinsOne
<1> QED
  BY <1>1, <1>8, <1>9, <1>10, <1>11, <1>13, SleepingKeeps

\* A switch of the context after the current task has gone to sleep.
LEMMA SwitchesAway ==
  ASSUME NEW b, Sound(b), TimesSound(b), Quiet(b), b.schedulerSuspended = 0
  PROVE  LET r == vTaskSwitchContext(b)
         IN  /\ Sound(r) /\ TimesSound(r) /\ Quiet(r) /\ r.schedulerSuspended = 0
             /\ IsReady(r, r.current) /\ r.event = b.event
             /\ \A u \in AllTasks : Awake(b, u) => Awake(r, u)
<1> DEFINE r == vTaskSwitchContext(b)
<1>1. Follows(r, b) /\ Highest(r) /\ SwitchedTo(r, b)
  BY SwitchFollows, Switches
<1> HIDE DEF r
<1> QED
  BY <1>1 DEF r, Follows, Rises, Highest, SwitchedTo

\* What the alternative API does, once it finds its queue full or empty.
LEMMA AltBlocks ==
  ASSUME QueuesInv, CallsInv, WakeInv, NEW t \in Tasks, k.current = t, pc[t] = "altWait",
         StillBlocked(t), UNCHANGED q, NEW n \in 1 .. portMAX_DELAY,
         k' = vTaskSwitchContext(PlacedOnList(t, n)),
         NEW g, Moves("try", g), CallFits(q, "try", g), g.op = frame[t].op, g.queue = frame[t].queue
  PROVE  WakeInv'
<1> DEFINE f == frame[t]
           x == f.queue
           b == PlacedOnList(t, n)
<1>1. /\ Sound(k) /\ TimesSound(k) /\ Quiet(k) /\ k.schedulerSuspended = 0
      /\ LocksFit(q, "altWait", f) /\ CallOn("altWait", f) /\ t # IdleTask
  BY OwnCall DEF Held
<1>2. /\ x \in Queues /\ f.op \in Sends \cup Receives /\ MutexFits(q[x])
      /\ q[x].txLock \in Nat \cup {Unlocked}
  BY <1>1 DEF CallOn, WakeInv, LocksFit
<1>3. \A d \in Ends : f.op \in Ops(d) => Wanted(q[x], d) <= Late(q[x], d)
  <2>1. \A d \in Ends : f.op \in Ops(d) => Wanted(q[x], d) <= 0
    BY <1>1, StillBlockedWants
  <2>2. \A d \in Ends : Wanted(q[x], d) \in Nat /\ Late(q[x], d) \in Nat
    BY <1>1, <1>2, NumbersIn
  <2> QED
    BY <2>1, <2>2
<1>4. IsMutex(x) /\ f.op \in Receives => q[x].mutexHolder \in Tasks
  <2>1. f.op \in Receives => Wanted(q[x], "receive") <= Late(q[x], "receive")
    BY <1>3 DEF Ends, Ops
  <2> QED
    BY <1>2, <2>1, HolderKnown
<1>5. ~ Parting(pc[k.current], frame[k.current])
  BY DEF Parting, Unlocking
<1>6. IsReady(k, t)
  BY <1>5, CurrentReady DEF WakeInv
<1>7. /\ Sound(b) /\ TimesSound(b) /\ Quiet(b) /\ b.schedulerSuspended = 0
      /\ \A u \in Tasks \ {t} : Awake(k, u) => Awake(b, u)
      /\ Joins(b, k, <<x, EndOf(f)>>)
  BY <1>1, <1>4, <1>6, PlacedWaits
<1> HIDE DEF b
<1>8. /\ Sound(k') /\ TimesSound(k') /\ Quiet(k') /\ k'.schedulerSuspended = 0
      /\ IsReady(k', k'.current) /\ k'.event = b.event
      /\ \A u \in AllTasks : Awake(b, u) => Awake(k', u)
  BY <1>7, SwitchesAway DEF b
<1>9. Leaves("try", g)
  BY <1>1, <1>8 DEF Leaves, Held
<1>10. LocksFit(q, "try", g)
  BY <1>1 DEF LocksFit, TxLocking, RxLocking
<1>11. Joins(k', k, <<x, EndOf(f)>>)
  BY <1>7, <1>8 DEF Joins
<1>12. \A u \in Tasks \ {k.current} : Awake(k, u) => Awake(k', u)
  BY <1>7, <1>8 DEF AllTasks
<1>13. OnWay("try", g)
  BY DEF OnWay
<1>14. ASSUME NEW y \in Queues, NEW d \in Ends
       PROVE  /\ ~ Heads(pc[k.current], frame[k.current], y, d)
              /\ \/ ToSet(k'.event[<<y, d>>]) = ToSet(k.event[<<y, d>>])
                 \/ /\ ToSet(k'.event[<<y, d>>]) \subseteq ToSet(k.event[<<y, d>>]) \cup {k.current}
                    /\ Heads("try", g, y, d) /\ Wanted(q[y], d) <= Late(q[y], d)
  <2>1. ~ Heads(pc[k.current], frame[k.current], y, d)
    BY DEF Heads, OnWay, Unlocking
  <2> QED
    BY <1>2, <1>3, <1>11, <1>13, <2>1, JoinsOne
<1> QED
  BY <1>9, <1>10, <1>12, <1>14, SleepingKeeps

\* The second critical section of the alternative API.
LEMMA AltWaitsWakes ==
  ASSUME QueuesInv, CallsInv, WakeInv, NEW t \in Tasks, AltWaits(t)
  PROVE  WakeInv'
<1> DEFINE f == frame[t]
<1>1. k.current = t /\ pc[t] = "altWait" /\ UNCHANGED q
  BY DEF AltWaits, At
<1>2. /\ t \in AllTasks /\ Sound(k) /\ TimesSound(k) /\ CallOn("altWait", f)
      /\ CallFits(q, "altWait", f) /\ LocksFit(q, "altWait", f) /\ t # IdleTask
  BY <1>1, OwnCall
<1>3. ASSUME NEW p, p \in {"app", "try"}, NEW g, Moves(p, g), CallFits(q, p, g), UNCHANGED k
      PROVE  WakeInv'
  <2>1. Follows(k', k) /\ Rises(k', k)
    BY <1>2, <1>3, FollowsSelf DEF Follows
  <2>2. ~ Parting(pc[k.current], frame[k.current]) /\ pc[t] \notin Held /\ p \notin Held
    BY <1>1, <1>3 DEF Parting, Unlocking, Held
  <2>3. Leaves(p, g)
    BY <1>1, <1>2, <2>1, <2>2, FollowsLeaves
  <2>4. LocksFit(q, p, g)
    BY <1>2, <1>3 DEF LocksFit, TxLocking, RxLocking
  <2>5. \A x \in Queues, d \in Ends : ~ Heads(pc[k.current], frame[k.current], x, d)
    BY <1>1 DEF Heads, OnWay, Unlocking
  <2> QED
    BY <1>1, <1>3, <2>1, <2>3, <2>4, <2>5, SameQueuesKeep
<1>4. CASE TimedOut(k, f.timeOut, f.ticks)
  <2>1. Moves("app", NoFrame) /\ UNCHANGED k
    BY <1>1, <1>4 DEF AltWaits, Return, Goto, Moves
  <2> QED
    BY <1>3, <2>1, NoFrameFits
<1>5. CASE ~ TimedOut(k, f.timeOut, f.ticks)
  <2> DEFINE left == TicksRemaining(k, f.timeOut, f.ticks)
             noted == TimeNoted(f.ticks)
             g == [f EXCEPT !.ticks = left, !.timeOut = noted]
  <2>1. g.queue = f.queue /\ g.op = f.op /\ g.ticks = left /\ g.timeOut = noted
    BY <1>2 DEF CallOn, IsFrame
  <2>2. /\ pc' = [pc EXCEPT ![t] = "try"]
        /\ frame' = [frame EXCEPT ![t].ticks = left, ![t].timeOut = TimeNoted(f.ticks)]
        /\ k' = IF StillBlocked(t) THEN vTaskSwitchContext(PlacedOnList(t, left)) ELSE k
    BY <1>5 DEF AltWaits, Goto
  <2>3. Moves("try", g)
    BY <1>1, <1>2, <2>2 DEF Moves, CallsInv
  <2>4. k.tick \in Ticks /\ f.ticks \in Ticks /\ f.timeOut.timeOnEntering \in Ticks
    BY <1>2, SoundTypes DEF CallFits
  <2>5. left \in Ticks /\ left > 0
    BY <1>5, <2>4, LeftFits
  <2>6. noted.timeOnEntering \in Ticks
    BY <1>2, NotedFits
  <2> HIDE DEF g, left, noted
  <2>7. CallFits(q, "try", g)
    BY <1>2, <2>1, <2>5, <2>6 DEF CallFits
  <2>8. CASE ~ StillBlocked(t)
    BY <1>3, <2>2, <2>3, <2>7, <2>8
  <2>9. CASE StillBlocked(t)
    <3>1. left \in 1 .. portMAX_DELAY
      BY <2>5, KernelAssumption DEF Ticks, portMAX_DELAY
    <3> QED
      BY <1>1, <2>1, <2>2, <2>3, <2>7, <2>9, <3>1, AltBlocks
  <2> QED
    BY <2>8, <2>9
<1> QED
  BY <1>4, <1>5

\* vTaskDelay.
LEMMA SleepWakes ==
  ASSUME QueuesInv, CallsInv, WakeInv, NEW t \in Tasks, At(t, "app"), Sleep(t)
  PROVE  WakeInv'
<1> DEFINE f == frame[t]
<1>1. PICK n \in Ticks \ {0} : /\ k' = vTaskSwitchContext(BlockCurrentFor(k, n))
                               /\ UNCHANGED <<q, pc, frame>>
  BY DEF Sleep
<1>2. k.current = t /\ pc[t] = "app"
  BY DEF At
<1>3. /\ Sound(k) /\ TimesSound(k) /\ Quiet(k) /\ k.schedulerSuspended = 0 /\ t \in AllTasks
      /\ LocksFit(q, "app", f) /\ CallFits(q, "app", f)
  BY <1>2, OwnCall DEF Held
<1>4. Moves("app", f)
  BY <1>1, <1>2, OwnCall DEF Moves
<1>5. t # IdleTask
  BY KernelAssumption
<1>6. SoundBut(k, t) /\ n \in 1 .. portMAX_DELAY
  BY <1>3, SoundIsSoundBut, KernelAssumption DEF Ticks, portMAX_DELAY
<1> DEFINE b == BlockCurrentFor(k, n)
<1>7. Sound(b) /\ TimesSound(b) /\ Parted(b, k) /\ b.event = k.event
  BY <1>2, <1>3, <1>5, <1>6, BlocksFor
<1> HIDE DEF b
<1>8. /\ b.schedulerSuspended = 0 /\ b.missedTicks = k.missedTicks
      /\ b.missedYield = k.missedYield /\ b.pendingReady = k.pendingReady
  BY <1>3, <1>7 DEF Parted, Calm
<1>9. Quiet(b)
  BY <1>3, <1>8 DEF Quiet
<1>10. /\ Sound(k') /\ TimesSound(k') /\ Quiet(k') /\ k'.schedulerSuspended = 0
       /\ IsReady(k', k'.current) /\ k'.event = b.event
       /\ \A u \in AllTasks : Awake(b, u) => Awake(k', u)
  BY <1>1, <1>7, <1>8, <1>9, SwitchesAway DEF b
<1>11. \A u \in Tasks \ {k.current} : Awake(k, u) => Awake(k', u)
  BY <1>3, <1>7, <1>10, PartedOthers DEF AllTasks
<1>12. Leaves("app", f)
  BY <1>2, <1>5, <1>10 DEF Leaves, Held
<1>13. \A x \in Queues, d \in Ends :
         /\ ~ Heads(pc[k.current], frame[k.current], x, d)
         /\ ToSet(k'.event[<<x, d>>]) = ToSet(k.event[<<x, d>>])
  BY <1>2, <1>7, <1>10 DEF Heads, OnWay, Unlocking
<1> QED
  BY <1>1, <1>2, <1>3, <1>4, <1>11, <1>12, <1>13, SleepingKeeps

\* A recursive mutex, taken again or given back once: nothing that matters here.
LEMMA NestWakes ==
  ASSUME QueuesInv, CallsInv, WakeInv, QueuesInv', NEW t \in Tasks, Nest(t)
  PROVE  WakeInv'
<1>1. PICK x \in Queues, d \in {-1, 1} :
        /\ q' = [q EXCEPT ![x].recursiveCallCount = @ + d]
        /\ UNCHANGED <<k, pc, frame>>
  BY DEF Nest
<1> DEFINE s == [q[x] EXCEPT !.recursiveCallCount = @ + d]
           p == pc[k.current]
           f == frame[k.current]
<1>2. IsQueue(q[x]) /\ MutexFits(q[x])
  BY DEF QueuesInv, WakeInv
<1>3. q' = [q EXCEPT ![x] = s]
  BY <1>1
<1>4. /\ s.kind = q[x].kind /\ s.messagesWaiting = q[x].messagesWaiting
      /\ s.mutexHolder = q[x].mutexHolder /\ s.txLock = q[x].txLock /\ s.rxLock = q[x].rxLock
  BY <1>2 DEF IsQueue
<1> HIDE DEF s
<1>5. q'[x] = s /\ \A y \in Queues \ {x} : q'[y] = q[y]
  BY <1>3, OneBecomes
<1>6. OnlyLocks(x)
  BY <1>2, <1>4, <1>5 DEF OnlyLocks, MutexFits
<1>7. /\ Sound(k) /\ TimesSound(k) /\ HeldInv(k, pc, frame) /\ LocksFit(q, p, f)
      /\ CallFits(q, p, f) /\ CallOn(p, f) /\ Moves(p, f)
  BY <1>1, OwnCall DEF Moves
<1>8. Follows(k', k)
  BY <1>1, <1>7, FollowsSelf
<1>9. Leaves(p, f) /\ Rises(k', k)
  BY <1>7, <1>8, FollowsLeaves DEF HeldInv, Follows
<1>10. MadeUpFor(x)
  <2> SUFFICES ASSUME NEW e \in Ends
               PROVE  \E n \in Nat : Wakes(k', k, <<x, e>>, n) /\ Late(q[x], e) <= Late(q'[x], e) + n
    BY DEF MadeUpFor
  <2>1. Late(q'[x], e) = Late(q[x], e)
    BY <1>4, <1>5 DEF Late, LockOf
  <2>2. Late(q[x], e) \in Nat
    BY <1>7, NumbersIn
  <2>3. 0 \in Nat /\ Wakes(k', k, <<x, e>>, 0) /\ Late(q[x], e) <= Late(q'[x], e) + 0
    BY <2>1, <2>2, WakesNone
  <2> QED
    BY <2>3
<1>11. StaysOn(p, f)
  BY DEF StaysOn
<1>12. \A y \in Queues : /\ q'[y].txLock = q[y].txLock /\ q'[y].rxLock = q[y].rxLock
                         /\ q'[y].kind = q[y].kind /\ q'[y].messagesWaiting = q[y].messagesWaiting
  BY <1>4, <1>5
<1>13. LocksFit(q', p, f)
  BY <1>7, <1>12 DEF LocksFit
<1>14. CallFits(q', p, f)
  <2>1. p # "app" => f.queue \in Queues
    BY <1>7 DEF CallOn
  <2>2. CASE p = "app"
    BY <1>7, <2>2 DEF CallFits
  <2>3. CASE p # "app"
    <3>1. /\ q'[f.queue].kind = q[f.queue].kind
          /\ \A e \in Ends : Wanted(q'[f.queue], e) = Wanted(q[f.queue], e)
                             /\ Late(q'[f.queue], e) = Late(q[f.queue], e)
      BY <1>12, <2>1, <2>3 DEF Wanted, Late, LockOf
    <3> QED
      BY <1>7, <3>1 DEF CallFits
  <2> QED
    BY <2>2, <2>3
<1> HIDE DEF p, f
<1> QED
  BY ONLY QueuesInv, CallsInv, WakeInv, QueuesInv', <1>1, <1>6, <1>7, <1>9, <1>10, <1>11, <1>13,
          <1>14, LocksKeep

-------------------------------------------------------------------------------
(* Interrupt handlers *)

\* A handler leaves the current task in its call.
LEMMA HandlerLeaves ==
  ASSUME CallsInv, WakeInv, UNCHANGED <<pc, frame>>, Follows(k', k)
  PROVE  LET p == pc[k.current]
             f == frame[k.current]
         IN  Moves(p, f) /\ Leaves(p, f) /\ Rises(k', k)
<1> DEFINE p == pc[k.current]
           f == frame[k.current]
<1>1. HeldInv(k, pc, frame) /\ Moves(p, f)
  BY OwnCall DEF Moves
<1>2. Leaves(p, f) /\ Rises(k', k)
  BY <1>1, FollowsLeaves DEF HeldInv, Follows
<1> QED
  BY <1>1, <1>2

\* vTickISR.
LEMMA TickWakes ==
  ASSUME QueuesInv, CallsInv, WakeInv, vTickISR
  PROVE  WakeInv'
<1> DEFINE p == pc[k.current]
           f == frame[k.current]
<1>1. k' = vTaskSwitchContext(vTaskIncrementTick(k)) /\ UNCHANGED <<q, pc, frame>>
  BY DEF vTickISR
<1>2. /\ Sound(k) /\ TimesSound(k) /\ Quiet(k) /\ LocksFit(q, p, f) /\ CallFits(q, p, f)
  BY OwnCall
<1>3. Follows(k', k)
  BY <1>1, <1>2, TickFollows
<1>4. Moves(p, f) /\ Leaves(p, f) /\ Rises(k', k)
  BY <1>1, <1>3, HandlerLeaves
<1>5. \A x \in Queues, d \in Ends : Heads(pc[k.current], frame[k.current], x, d) => Heads(p, f, x, d)
  OBVIOUS
<1> HIDE DEF p, f
<1> QED
  BY ONLY QueuesInv, CallsInv, WakeInv, <1>1, <1>2, <1>4, <1>5, SameQueuesKeep

\* A handler adds to what is wanted at end d of x, and takes from the other end: it notes
\* that on a locked queue, and else wakes a task.
HandlerServes(x, d) ==
  /\ \A y \in Queues \ {x} : q'[y] = q[y]
  /\ q'[x].kind = q[x].kind /\ ~ IsMutex(x)
  /\ Wanted(q'[x], d) = Wanted(q[x], d) + 1
  /\ IF LockOf(q[x], d) = Unlocked
     THEN LockOf(q'[x], d) = Unlocked /\ Wakes(k', k, <<x, d>>, 1)
     ELSE LockOf(q'[x], d) = LockOf(q[x], d) + 1
  /\ \A e \in Ends \ {d} : /\ Wanted(q'[x], e) = Wanted(q[x], e) - 1
                           /\ LockOf(q'[x], e) = LockOf(q[x], e)

\* Another queue, or the other end: nothing more is wanted than was.
LEMMA HandlerSpares ==
  ASSUME QueuesInv, NEW p, NEW f, LocksFit(q, p, f), NEW x \in Queues, NEW d \in Ends,
         HandlerServes(x, d), NEW y \in Queues, NEW e \in Ends, ~ (y = x /\ e = d)
  PROVE  Wanted(q'[y], e) <= Wanted(q[y], e) /\ Late(q'[y], e) = Late(q[y], e)
<1>1. Wanted(q[y], e) \in Nat
  BY NumbersIn
<1>2. CASE y = x
  BY <1>1, <1>2 DEF HandlerServes, Late
<1>3. CASE y # x
  BY <1>1, <1>3 DEF HandlerServes
<1> QED
  BY <1>2, <1>3

\* This end: what more is wanted is made up for.
LEMMA HandlerMakesUp ==
  ASSUME QueuesInv, NEW p, NEW f, LocksFit(q, p, f), NEW x \in Queues, NEW d \in Ends,
         HandlerServes(x, d)
  PROVE  /\ LockOf(q[x], d) \in Nat \cup {Unlocked}
         /\ IF LockOf(q[x], d) = Unlocked THEN Late(q'[x], d) = Late(q[x], d)
                                          ELSE Late(q'[x], d) = Late(q[x], d) + 1
<1>1. LockOf(q[x], d) \in Nat \cup {Unlocked}
  BY DEF LocksFit, LockOf
<1>2. IF LockOf(q[x], d) = Unlocked THEN LockOf(q'[x], d) = Unlocked
                                    ELSE LockOf(q'[x], d) = LockOf(q[x], d) + 1
  BY DEF HandlerServes
<1> DEFINE l == LockOf(q[x], d)
           m == LockOf(q'[x], d)
<1>3. Late(q[x], d) = (IF l > 0 THEN l ELSE 0) /\ Late(q'[x], d) = (IF m > 0 THEN m ELSE 0)
  BY DEF Late
<1> HIDE DEF l, m
<1>4. IF l = Unlocked THEN m = Unlocked ELSE m = l + 1
  BY <1>2 DEF l, m
<1>5. l \in Nat \cup {Unlocked}
  BY <1>1 DEF l
<1>6. IF l = Unlocked THEN Late(q'[x], d) = Late(q[x], d) ELSE Late(q'[x], d) = Late(q[x], d) + 1
  BY <1>3, <1>4, <1>5 DEF Unlocked
<1> QED
  BY <1>1, <1>6 DEF l

\* A queue stays locked, or unlocked.
LEMMA HandlerKeepsLocks ==
  ASSUME QueuesInv, NEW p, NEW f, LocksFit(q, p, f), NEW x \in Queues, NEW d \in Ends,
         HandlerServes(x, d)
  PROVE  LocksFit(q', p, f)
<1>1. ASSUME NEW y \in Queues, NEW e \in Ends
      PROVE  /\ LockOf(q'[y], e) \in Nat \cup {Unlocked}
             /\ LockOf(q'[y], e) = Unlocked <=> LockOf(q[y], e) = Unlocked
  <2>1. LockOf(q[y], e) \in Nat \cup {Unlocked}
    BY DEF LocksFit, LockOf
  <2>2. CASE y = x /\ e = d
    BY <2>1, <2>2 DEF HandlerServes, Unlocked
  <2>3. CASE ~ (y = x /\ e = d)
    <3>1. LockOf(q'[y], e) = LockOf(q[y], e)
      BY <2>3 DEF HandlerServes
    <3> QED
      BY <2>1, <3>1
  <2> QED
    BY <2>2, <2>3
<1>2. ASSUME NEW y \in Queues
      PROVE  /\ q'[y].txLock \in Nat \cup {Unlocked} /\ q'[y].rxLock \in Nat \cup {Unlocked}
             /\ q'[y].txLock = Unlocked <=> q[y].txLock = Unlocked
             /\ q'[y].rxLock = Unlocked <=> q[y].rxLock = Unlocked
  <2>1. "receive" \in Ends /\ "send" \in Ends
    BY DEF Ends
  <2>2. /\ LockOf(q'[y], "receive") = q'[y].txLock /\ LockOf(q[y], "receive") = q[y].txLock
        /\ LockOf(q'[y], "send") = q'[y].rxLock /\ LockOf(q[y], "send") = q[y].rxLock
    BY DEF LockOf
  <2> QED
    BY <1>1, <2>1, <2>2
<1> QED
  BY <1>2 DEF LocksFit

\* A call that goes to wait still misses nothing.
LEMMA HandlerKeepsCall ==
  ASSUME QueuesInv, NEW p, NEW f, LocksFit(q, p, f), CallOn(p, f), CallFits(q, p, f),
         NEW x \in Queues, NEW d \in Ends, HandlerServes(x, d)
  PROVE  CallFits(q', p, f)
<1>1. p # "app" => f.queue \in Queues
  BY DEF CallOn
<1>2. \A y \in Queues : q'[y].kind = q[y].kind
  BY DEF HandlerServes
<1>3. ASSUME p = "place", NEW e \in Ends, f.op \in Ops(e)
      PROVE  Wanted(q'[f.queue], e) <= Late(q'[f.queue], e)
  <2>1. f.queue \in Queues /\ Wanted(q[f.queue], e) <= Late(q[f.queue], e)
    BY <1>1, <1>3 DEF CallFits
  <2>2. Wanted(q[f.queue], e) \in Nat /\ Late(q[f.queue], e) \in Nat
    BY <2>1, NumbersIn
  <2>3. CASE ~ (f.queue = x /\ e = d)
    <3>1. Wanted(q'[f.queue], e) <= Wanted(q[f.queue], e) /\ Late(q'[f.queue], e) = Late(q[f.queue], e)
      BY <2>1, <2>3, HandlerSpares
    <3>2. Wanted(q'[f.queue], e) \in Int
      <4>1. CASE f.queue = x
        BY <2>2, <2>3, <4>1 DEF HandlerServes
      <4>2. CASE f.queue # x
        BY <2>1, <2>2, <4>2 DEF HandlerServes
      <4> QED
        BY <4>1, <4>2
    <3> QED
      BY <2>1, <2>2, <3>1, <3>2
  <2>4. CASE f.queue = x /\ e = d
    <3>1. LockOf(q[x], d) # Unlocked
      BY <1>3, <2>4 DEF LocksFit, LockOf, TxLocking, RxLocking
    <3>2. Late(q'[x], d) = Late(q[x], d) + 1 /\ Wanted(q'[x], d) = Wanted(q[x], d) + 1
      BY <3>1, HandlerMakesUp DEF HandlerServes
    <3> QED
      BY <2>1, <2>2, <2>4, <3>2
  <2> QED
    BY <2>3, <2>4
<1>4. \A e \in Ends : p = "place" /\ f.op \in Ops(e) => Wanted(q'[f.queue], e) <= Late(q'[f.queue], e)
  BY <1>3
<1> QED
  BY <1>1, <1>2, <1>4 DEF CallFits

LEMMA HandlerKeeps ==
  ASSUME QueuesInv, QueuesInv', CallsInv, WakeInv, UNCHANGED <<pc, frame>>, Follows(k', k),
         NEW x \in Queues, NEW d \in Ends, HandlerServes(x, d)
  PROVE  WakeInv'
<1> DEFINE p == pc[k.current]
           f == frame[k.current]
<1>1. Moves(p, f) /\ Leaves(p, f) /\ Rises(k', k)
  BY HandlerLeaves
<1>2. LocksFit(q, p, f) /\ CallOn(p, f) /\ CallFits(q, p, f)
  BY OwnCall
<1>3. WaitersFit(k, pc, frame) /\ k.current \in AllTasks
  BY OwnCall DEF WakeInv
<1> HIDE DEF p, f
<1>4. LocksFit(q', p, f) /\ CallFits(q', p, f)
  BY <1>2, HandlerKeepsLocks, HandlerKeepsCall
<1>5. \A y \in Queues : q'[y].kind = q[y].kind /\ MutexFits(q'[y])
  <2> TAKE y \in Queues
  <2>1. CASE y = x
    BY <2>1 DEF HandlerServes, IsMutex, MutexFits, Mutexes
  <2>2. CASE y # x
    BY <2>2 DEF HandlerServes, WakeInv
  <2> QED
    BY <2>1, <2>2
<1>6. ASSUME NEW y \in Queues, NEW e \in Ends
      PROVE  /\ k.current \in ToSet(k.event[<<y, e>>]) => Heads(p, f, y, e)
             /\ Served(p, f, y, e)
  <2>1. k.current \in ToSet(k.event[<<y, e>>]) => Heads(p, f, y, e)
    BY <1>3 DEF WaitersFit, p, f
  <2>2. /\ Wanted(q[y], e) \in Nat /\ Late(q[y], e) \in Nat
        /\ Wanted(q'[y], e) \in Nat /\ Late(q'[y], e) \in Nat
    BY <1>2, <1>4, NumbersIn, NumbersAfter
  <2>3. PICK n \in Nat : /\ Wakes(k', k, <<y, e>>, n)
                         /\ Wanted(q'[y], e) - Late(q'[y], e) <= Wanted(q[y], e) - Late(q[y], e) + n
    <3>1. CASE ~ (y = x /\ e = d)
      <4>1. Wanted(q'[y], e) <= Wanted(q[y], e) /\ Late(q'[y], e) = Late(q[y], e)
        BY <1>2, <3>1, HandlerSpares
      <4>2. /\ 0 \in Nat /\ Wakes(k', k, <<y, e>>, 0)
            /\ Wanted(q'[y], e) - Late(q'[y], e) <= Wanted(q[y], e) - Late(q[y], e) + 0
        BY <2>2, <4>1, WakesNone
      <4> QED
        BY <4>2
    <3>2. CASE y = x /\ e = d
      <4>1. CASE LockOf(q[x], d) = Unlocked
        <5>1. /\ Late(q'[x], d) = Late(q[x], d) /\ Wanted(q'[x], d) = Wanted(q[x], d) + 1
              /\ Wakes(k', k, <<x, d>>, 1)
          BY <1>2, <4>1, HandlerMakesUp DEF HandlerServes
        <5>2. /\ 1 \in Nat /\ Wakes(k', k, <<y, e>>, 1)
              /\ Wanted(q'[y], e) - Late(q'[y], e) <= Wanted(q[y], e) - Late(q[y], e) + 1
          BY <2>2, <3>2, <5>1
        <5> QED
          BY <5>2
      <4>2. CASE LockOf(q[x], d) # Unlocked
        <5>1. Late(q'[x], d) = Late(q[x], d) + 1 /\ Wanted(q'[x], d) = Wanted(q[x], d) + 1
          BY <1>2, <4>2, HandlerMakesUp DEF HandlerServes
        <5>2. /\ 0 \in Nat /\ Wakes(k', k, <<y, e>>, 0)
              /\ Wanted(q'[y], e) - Late(q'[y], e) <= Wanted(q[y], e) - Late(q[y], e) + 0
          BY <2>2, <3>2, <5>1, WakesNone
        <5> QED
          BY <5>2
      <4> QED
        BY <4>1, <4>2
    <3> QED
      BY <3>1, <3>2
  <2>4. /\ 0 \in {0, 1}
        /\ 0 = 0 /\ Heads(pc[k.current], frame[k.current], y, e) => Heads(p, f, y, e)
        /\ Wanted(q'[y], e) - Late(q'[y], e) <= Wanted(q[y], e) - Late(q[y], e) + n - 0
    BY <2>2, <2>3 DEF p, f
  <2> QED
    BY <2>1, <2>3, <2>4 DEF Served
<1> QED
  BY ONLY QueuesInv, QueuesInv', CallsInv, WakeInv, <1>1, <1>4, <1>5, <1>6, RisingKeeps

\* Whom a handler wakes.
LEMMA HandlerWakes ==
  ASSUME CallsInv, WakeInv, NEW e \in EventLists,
         k' = IF k.event[e] = <<>> THEN k ELSE xTaskRemoveFromEventList(k, e)
  PROVE  Follows(k', k) /\ Wakes(k', k, e, 1)
<1>1. Sound(k) /\ TimesSound(k)
  BY OwnCall
<1>2. Follows(k, k)
  BY <1>1, FollowsSelf
<1>3. CASE k.event[e] = <<>>
  <2>1. k' = k
    BY <1>3
  <2> QED
    BY <1>2, <1>3, <2>1, WakesFirst
<1>4. CASE k.event[e] # <<>>
  <2> DEFINE r == xTaskRemoveFromEventList(k, e)
  <2>1. Follows(r, k) /\ k' = r
    BY <1>1, <1>4, RemoveFollows
  <2>2. Follows(r, r)
    BY <2>1, FollowsSelf DEF Follows
  <2> QED
    BY <1>2, <1>4, <2>1, <2>2, WakesFirst
<1> QED
  BY <1>3, <1>4

\* xQueueGenericSendFromISR.
LEMMA SendISRWakes ==
  ASSUME QueuesInv, QueuesInv', CallsInv, WakeInv, NEW x \in Queues, NEW item \in Items,
         NEW op \in Sends, xQueueGenericSendFromISR(x, item, op)
  PROVE  WakeInv'
<1> DEFINE e  == <<x, "receive">>
           qn == prvCopyDataToQueue(x, item, op)
           s  == [qn EXCEPT !.txLock = @ + 1]
<1>1. ~ IsMutex(x) /\ HasRoom(x) /\ UNCHANGED <<pc, frame>>
  BY DEF xQueueGenericSendFromISR
<1>2. IF q[x].txLock = Unlocked
      THEN /\ q' = [q EXCEPT ![x] = qn]
           /\ k' = IF k.event[e] = <<>> THEN k ELSE xTaskRemoveFromEventList(k, e)
      ELSE q' = [q EXCEPT ![x] = s] /\ k' = k
  BY DEF xQueueGenericSendFromISR
<1>3. IsQueue(q[x]) /\ Ring(q[x]) /\ MutexFits(q[x])
  BY DEF QueuesInv, WakeInv
<1>4. /\ IsQueue(qn) /\ qn.kind = q[x].kind /\ qn.messagesWaiting = q[x].messagesWaiting + 1
      /\ qn.txLock = q[x].txLock /\ qn.rxLock = q[x].rxLock
  BY <1>1, <1>3, PutsOne
<1> HIDE DEF qn
<1>5. /\ s.kind = q[x].kind /\ s.messagesWaiting = q[x].messagesWaiting + 1
      /\ s.txLock = q[x].txLock + 1 /\ s.rxLock = q[x].rxLock
  BY <1>4 DEF IsQueue
<1> HIDE DEF s
<1>6. e \in EventLists /\ "receive" \in Ends
  BY QueueAssumption DEF Ends
<1>7. q[x].messagesWaiting \in Nat /\ LENGTH[q[x].kind] \in Nat
  BY <1>3, RingTypes
<1>8. /\ \A y \in Queues \ {x} : q'[y] = q[y]
      /\ q'[x] = IF q[x].txLock = Unlocked THEN qn ELSE s
  BY <1>2, OneBecomes
<1>9. Follows(k', k) /\ (q[x].txLock = Unlocked => Wakes(k', k, e, 1))
  <2>1. CASE q[x].txLock = Unlocked
    BY <1>2, <1>6, <2>1, HandlerWakes
  <2>2. CASE q[x].txLock # Unlocked
    BY <1>2, <2>2, OwnCall, FollowsSelf
  <2> QED
    BY <2>1, <2>2
<1> HIDE DEF e
<1>10. /\ q'[x].kind = q[x].kind /\ q'[x].messagesWaiting = q[x].messagesWaiting + 1
       /\ q'[x].rxLock = q[x].rxLock
       /\ q'[x].txLock = IF q[x].txLock = Unlocked THEN Unlocked ELSE q[x].txLock + 1
  BY <1>4, <1>5, <1>8
<1>11. HandlerServes(x, "receive")
  BY <1>1, <1>7, <1>8, <1>9, <1>10 DEF HandlerServes, Wanted, LockOf, Ends, e
<1> QED
  BY ONLY QueuesInv, QueuesInv', CallsInv, WakeInv, x \in Queues, <1>1, <1>6, <1>9, <1>11,
          HandlerKeeps

\* xQueueReceiveFromISR.
LEMMA ReceiveISRWakes ==
  ASSUME QueuesInv, QueuesInv', CallsInv, WakeInv, NEW x \in Queues, xQueueReceiveFromISR(x)
  PROVE  WakeInv'
<1> DEFINE e  == <<x, "send">>
           qn == Taken(x, NoTask)
           s  == [qn EXCEPT !.rxLock = @ + 1]
<1>1. ~ IsMutex(x) /\ HasItem(x) /\ UNCHANGED <<pc, frame>>
  BY DEF xQueueReceiveFromISR
<1>2. IF q[x].rxLock = Unlocked
      THEN /\ q' = [q EXCEPT ![x] = qn]
           /\ k' = IF k.event[e] = <<>> THEN k ELSE xTaskRemoveFromEventList(k, e)
      ELSE q' = [q EXCEPT ![x] = s] /\ k' = k
  BY DEF xQueueReceiveFromISR
<1>3. IsQueue(q[x]) /\ Ring(q[x]) /\ MutexFits(q[x])
  BY DEF QueuesInv, WakeInv
<1>4. /\ IsQueue(qn) /\ qn.kind = q[x].kind /\ qn.messagesWaiting = q[x].messagesWaiting - 1
      /\ qn.txLock = q[x].txLock /\ qn.rxLock = q[x].rxLock
  BY <1>1, <1>3, TakesOne
<1> HIDE DEF qn
<1>5. /\ s.kind = q[x].kind /\ s.messagesWaiting = q[x].messagesWaiting - 1
      /\ s.rxLock = q[x].rxLock + 1 /\ s.txLock = q[x].txLock
  BY <1>4 DEF IsQueue
<1> HIDE DEF s
<1>6. e \in EventLists /\ "send" \in Ends
  BY QueueAssumption DEF Ends
<1>7. q[x].messagesWaiting \in Nat /\ LENGTH[q[x].kind] \in Nat
  BY <1>3, RingTypes
<1>8. /\ \A y \in Queues \ {x} : q'[y] = q[y]
      /\ q'[x] = IF q[x].rxLock = Unlocked THEN qn ELSE s
  BY <1>2, OneBecomes
<1>9. Follows(k', k) /\ (q[x].rxLock = Unlocked => Wakes(k', k, e, 1))
  <2>1. CASE q[x].rxLock = Unlocked
    BY <1>2, <1>6, <2>1, HandlerWakes
  <2>2. CASE q[x].rxLock # Unlocked
    BY <1>2, <2>2, OwnCall, FollowsSelf
  <2> QED
    BY <2>1, <2>2
<1> HIDE DEF e
<1>10. /\ q'[x].kind = q[x].kind /\ q'[x].messagesWaiting = q[x].messagesWaiting - 1
       /\ q'[x].txLock = q[x].txLock
       /\ q'[x].rxLock = IF q[x].rxLock = Unlocked THEN Unlocked ELSE q[x].rxLock + 1
  BY <1>4, <1>5, <1>8
<1>11. HandlerServes(x, "send")
  BY <1>1, <1>7, <1>8, <1>9, <1>10 DEF HandlerServes, Wanted, LockOf, Ends, e
<1> QED
  BY ONLY QueuesInv, QueuesInv', CallsInv, WakeInv, x \in Queues, <1>1, <1>6, <1>9, <1>11,
          HandlerKeeps

LEMMA InterruptWakes ==
  ASSUME QueuesInv, CallsInv, WakeInv, Interrupt
  PROVE  WakeInv'
<1>1. QueuesInv'
  BY InterruptStep
<1>2. ASSUME NEW x \in Queues, NEW item \in ItemsFor(x), NEW op \in IsrSends,
             xQueueGenericSendFromISR(x, item, op)
      PROVE  WakeInv'
  <2>1. item \in Items /\ op \in Sends
    BY QueueAssumption, NothingIsItem DEF ItemsFor
  <2> QED
    BY <1>1, <1>2, <2>1, SendISRWakes
<1> QED
  BY <1>1, <1>2, TickWakes, ReceiveISRWakes DEF Interrupt

-------------------------------------------------------------------------------
(* All the steps *)

\* A call, by either interface.
LEMMA CallWakes ==
  ASSUME QueuesInv, CallsInv, WakeInv, NEW t \in Tasks, At(t, "app"), NEW x \in Queues,
         NEW item \in Items, NEW op \in Sends \cup Receives, NEW n \in Ticks,
         op \in Sends /\ IsMutex(x) => q[x].mutexHolder = t /\ n = 0,
         Call(t, op, x, item, n) \/ AltCall(t, op, x, item, n)
  PROVE  WakeInv'
<1> DEFINE f1 == [NoFrame EXCEPT !.op = op]
           f2 == [f1 EXCEPT !.queue = x]
           f3 == [f2 EXCEPT !.item = item]
           f == [f3 EXCEPT !.ticks = n]
           alt == TRUE
           g == [f EXCEPT !.alt = alt]
<1>1. Try(t, f, n) \/ Try(t, g, n)
  BY DEF Call, AltCall
<1>2. /\ f1 = [NoFrame EXCEPT !.op = op] /\ f2 = [f1 EXCEPT !.queue = x]
      /\ f3 = [f2 EXCEPT !.item = item] /\ f = [f3 EXCEPT !.ticks = n]
      /\ g = [f EXCEPT !.alt = alt]
  OBVIOUS
<1> HIDE DEF f1, f2, f3, f, alt, g
<1>3. NoFrame.timeOut.timeOnEntering = 0 /\ 0 \in Ticks
  BY KernelAssumption DEF NoFrame, Ticks
<1>4. IsFrame(f1) /\ f1.op = op /\ f1.timeOut = NoFrame.timeOut
  BY <1>2, NoFrameIsFrame DEF IsFrame
<1>5. IsFrame(f2) /\ f2.queue = x /\ f2.op = f1.op /\ f2.timeOut = f1.timeOut
  BY <1>2, <1>4 DEF IsFrame
<1>6. IsFrame(f3) /\ f3.item = item /\ f3.queue = f2.queue /\ f3.op = f2.op /\ f3.timeOut = f2.timeOut
  BY <1>2, <1>5 DEF IsFrame
<1>7. /\ IsFrame(f) /\ f.item = f3.item /\ f.queue = f3.queue /\ f.op = f3.op
      /\ f.timeOut = f3.timeOut /\ f.ticks = n
  BY <1>2, <1>6 DEF IsFrame
<1>8. /\ IsFrame(g) /\ g.item = f.item /\ g.queue = f.queue /\ g.op = f.op
      /\ g.timeOut = f.timeOut /\ g.ticks = f.ticks
  BY <1>2, <1>7 DEF IsFrame
<1>9. k.current = t /\ pc[t] = "app"
  BY DEF At
<1>10. ASSUME NEW h, IsFrame(h), h.item = item, h.queue = x, h.op = op, h.ticks = n,
              h.timeOut.timeOnEntering = 0, Try(t, h, n)
       PROVE  WakeInv'
  BY <1>3, <1>9, <1>10, TryWakes
<1>11. /\ IsFrame(f) /\ f.item = item /\ f.queue = x /\ f.op = op /\ f.ticks = n
       /\ f.timeOut.timeOnEntering = 0
  BY <1>3, <1>4, <1>5, <1>6, <1>7
<1>12. /\ IsFrame(g) /\ g.item = item /\ g.queue = x /\ g.op = op /\ g.ticks = n
       /\ g.timeOut.timeOnEntering = 0
  BY <1>8, <1>11
<1> QED
  BY <1>1, <1>10, <1>11, <1>12

LEMMA BeginWakes ==
  ASSUME QueuesInv, CallsInv, WakeInv, NEW t \in Tasks, Begin(t)
  PROVE  WakeInv'
<1>1. At(t, "app") /\ QueuesInv'
  BY BeginStep DEF Begin
<1>2. \A x \in Queues : ItemsFor(x) \subseteq Items
  BY NothingIsItem DEF ItemsFor
<1>3. /\ 0 \in Ticks /\ Nothing \in Items
      /\ \A op \in Receives : op \notin Sends
      /\ "receive" \in Receives /\ "sendToBack" \in Sends
  BY KernelAssumption, NothingIsItem DEF Ticks, Sends, Receives
<1>4. CASE Send(t)
  <2>1. PICK x \in Queues, n \in Ticks, op \in Sends, item \in Items :
          ~ IsMutex(x) /\ Call(t, op, x, item, n)
    BY <1>2, <1>4 DEF Send
  <2> QED
    BY <1>1, <2>1, CallWakes
<1>5. CASE Receive(t) \/ TakeMutex(t) \/ AltReceive(t)
  <2>1. PICK x \in Queues, n \in Ticks, op \in Receives :
          Call(t, op, x, Nothing, n) \/ AltCall(t, op, x, Nothing, n)
    BY <1>3, <1>5 DEF Receive, TakeMutex, AltReceive
  <2> QED
    BY <1>1, <1>3, <2>1, CallWakes
<1>6. CASE GiveMutex(t)
  <2>1. PICK x \in Queues : q[x].mutexHolder = t /\ Call(t, "sendToBack", x, Nothing, 0)
    BY <1>6 DEF GiveMutex
  <2> QED
    BY <1>1, <1>3, <2>1, CallWakes
<1>7. CASE AltSend(t)
  <2>1. PICK x \in Queues, n \in Ticks, op \in Sends, item \in Items :
          /\ q[x].kind = "mutex" => q[x].mutexHolder = t /\ n = 0
          /\ AltCall(t, op, x, item, n)
    BY <1>2, <1>7 DEF AltSend
  <2>2. q[x].kind # "recursive"
    BY <2>1, QueueAssumption DEF AltCall
  <2>3. IsMutex(x) => q[x].mutexHolder = t /\ n = 0
    BY <2>1, <2>2 DEF IsMutex
  <2> QED
    BY <1>1, <2>1, <2>3, CallWakes
<1>8. CASE Nest(t) \/ Sleep(t)
  BY <1>1, <1>8, NestWakes, SleepWakes
<1> QED
  BY <1>4, <1>5, <1>6, <1>7, <1>8 DEF Begin

LEMMA ContinueWakes ==
  ASSUME QueuesInv, CallsInv, WakeInv, NEW t \in Tasks, Continue(t)
  PROVE  WakeInv'
<1>1. CASE Retry(t) \/ SuspendAll(t) \/ LockAndCheck(t) \/ IsFullOrEmpty(t) \/ Place(t)
  BY <1>1, RetryWakes, SuspendAllWakes, LockAndCheckWakes, IsFullOrEmptyWakes, PlaceWakes
<1>2. CASE UnlockTx(t) \/ UnlockRx(t) \/ ResumeAll(t) \/ Yield(t)
  BY <1>2, UnlockTxWakes, UnlockRxWakes, ResumeAllWakes, YieldWakes
<1>3. CASE AltSendWaits(t) \/ AltReceiveWaits(t)
  BY <1>3, AltWaitsWakes DEF AltSendWaits, AltReceiveWaits
<1> QED
  BY <1>1, <1>2, <1>3 DEF Continue

LEMMA WakeNext ==
  ASSUME QueuesInv, CallsInv, WakeInv, [Next]_vars
  PROVE  WakeInv'
<1>1. CASE Next
  BY <1>1, BeginWakes, ContinueWakes, InterruptWakes DEF Next
<1>2. CASE UNCHANGED vars
  <2>1. UNCHANGED <<k, q, pc, frame>>
    BY <1>2 DEF vars
  <2> QED
    BY <2>1 DEF WakeInv
<1> QED
  BY <1>1, <1>2

-------------------------------------------------------------------------------
(* The first state *)

LEMMA NewQueueIsFree ==
  ASSUME NEW kind \in Kinds
  PROVE  LET s == NewQueue(kind)
         IN  s.txLock = Unlocked /\ s.rxLock = Unlocked /\ MutexFits(s)
<1> DEFINE n == LENGTH[kind]
           empty == [kind |-> kind, messagesWaiting |-> 0,
                     store |-> [i \in 0 .. n - 1 |-> Nothing],
                     writeTo |-> 0, readFrom |-> n - 1, rxLock |-> -1, txLock |-> -1,
                     mutexHolder |-> NoTask, recursiveCallCount |-> 0]
           s == NewQueue(kind)
<1>1. /\ s.kind = kind /\ s.txLock = -1 /\ s.rxLock = -1 /\ s.mutexHolder = NoTask
      /\ kind \in Mutexes => s.messagesWaiting = 1
  <2>1. CASE kind = "data"
    <3>1. NewQueue("data") = empty
      BY <2>1 DEF NewQueue
    <3> QED
      BY <2>1, <3>1 DEF Mutexes
  <2>2. CASE kind = "semaphore"
    <3>1. NewQueue("semaphore") = [empty EXCEPT !.messagesWaiting = InitialCount]
      BY <2>2 DEF NewQueue, CountingSemaphore
    <3> QED
      BY <2>2, <3>1 DEF Mutexes
  <2>3. CASE kind \in Mutexes
    <3>1. s = [empty EXCEPT !.messagesWaiting = 1]
      BY <2>3 DEF NewQueue, Mutexes
    <3> QED
      BY <3>1
  <2> QED
    BY <2>1, <2>2, <2>3 DEF Kinds, Mutexes
<1> HIDE DEF s
<1>2. MutexFits(s)
  BY <1>1 DEF MutexFits
<1> QED
  BY <1>1, <1>2 DEF s, Unlocked

\* Nobody waits in a kernel that has just been started.
LEMMA NobodyWaits ==
  ASSUME NEW kk, Started(kk), NEW e \in EventLists
  PROVE  kk.event[e] = <<>>
<1>1. Sound(kk) /\ kk \in KernelState
  BY SoundTypes DEF Started
<1>2. kk.event[e] \in Seq(AllTasks)
  BY <1>1, ListTypes
<1>3. ASSUME NEW t \in AllTasks PROVE t \notin ToSet(kk.event[e])
  <2>1. ~ IsDelayed(kk, t) /\ t \notin kk.suspended
    BY EmptySorted DEF IsDelayed, Started
  <2>2. ~ IsWaiting(kk, t)
    BY <1>1, <2>1 DEF Sound, InPlace
  <2> QED
    BY <2>2 DEF IsWaiting
<1>4. ToSet(kk.event[e]) \subseteq AllTasks
  BY <1>2, InList
<1>5. ToSet(kk.event[e]) \subseteq ToSet(<<>>)
  BY <1>3, <1>4
<1>6. <<>> \in Seq(AllTasks)
  OBVIOUS
<1> QED
  BY <1>2, <1>5, <1>6, NoMore

LEMMA WakeInit == Init => WakeInv
<1> SUFFICES ASSUME Init PROVE WakeInv
  OBVIOUS
<1>1. PICK kinds \in Uses : /\ k = Booted(BootOrder[kinds], InitPriority)
                            /\ q = [x \in Queues |-> NewQueue(kinds[x])]
  BY DEF Init
<1>2. Started(k)
  BY <1>1, QueueAssumption, BootedSound
<1>3. /\ Sound(k) /\ TimesSound(k) /\ k.schedulerSuspended = 0 /\ k.current \in AllTasks
      /\ IdleTask \in AllTasks /\ Quiet(k) /\ IsReady(k, k.current)
  BY <1>2, SoundTypes DEF Started, Quiet, Highest
<1>4. \A t \in AllTasks : pc[t] = "app" /\ frame[t] = NoFrame
  BY DEF Init
<1>5. "app" \notin Held /\ "app" \notin TxLocking /\ "app" \notin RxLocking
  BY DEF Held, TxLocking, RxLocking
<1>6. HeldInv(k, pc, frame)
  BY <1>3, <1>4, <1>5 DEF HeldInv
<1>7. \A x \in Queues : q[x].txLock = Unlocked /\ q[x].rxLock = Unlocked /\ MutexFits(q[x])
  BY <1>1, NewQueueIsFree, QueueAssumption
<1>8. LocksFit(q, pc[k.current], frame[k.current])
  BY <1>3, <1>4, <1>5, <1>7 DEF LocksFit
<1>9. \A t \in AllTasks : CallFits(q, pc[t], frame[t])
  BY <1>4, NoFrameFits
<1>10. \A x \in Queues, d \in Ends : k.event[<<x, d>>] = <<>>
  BY <1>2, NobodyWaits, QueueAssumption DEF Ends
<1>11. WaitersFit(k, pc, frame)
  BY <1>10, EmptySorted DEF WaitersFit
<1> QED
  BY <1>6, <1>7, <1>8, <1>9, <1>10, <1>11 DEF WakeInv, EnoughFor

-------------------------------------------------------------------------------
(* The invariant implies the property *)

LEMMA WakeImplies ==
  ASSUME QueuesInv, CallsInv, WakeInv
  PROVE  NoLostWakeup
<1> SUFFICES ASSUME k.schedulerSuspended = 0, NEW x \in Queues, NEW d \in Ends,
                    k.event[<<x, d>>] # <<>>
             PROVE  Wanted(q[x], d) <= Cardinality(AboutTo(Ops(d), x))
  BY DEF NoLostWakeup, Wanted, Ends, Ops, uxLength
<1> DEFINE T == Takers(k, pc, frame, x, d)
           A == AboutTo(Ops(d), x)
<1>1. /\ k.current \in AllTasks /\ pc[k.current] \notin Held /\ Quiet(k)
      /\ LocksFit(q, pc[k.current], frame[k.current])
  BY OwnCall
<1>2. LockOf(q[x], d) = Unlocked
  BY <1>1 DEF LocksFit, LockOf, TxLocking, RxLocking, Held
<1>3. Late(q[x], d) = 0 /\ Wanted(q[x], d) \in Nat
  BY <1>1, <1>2, NumbersIn DEF Late, Unlocked
<1>4. k.pendingReady = <<>>
  BY <1>1 DEF Quiet
<1>5. T \subseteq A
  BY <1>4, EmptySorted DEF Takers, AboutTo, Heads, OnWay, Awake, IsPending, Unlocking
<1>6. T \in SUBSET Tasks /\ A \in SUBSET Tasks
  BY DEF Takers, AboutTo
<1> HIDE DEF T, A
<1>7. Cardinality(T) \in Nat /\ Cardinality(A) \in Nat /\ Cardinality(T) <= Cardinality(A)
  BY <1>5, <1>6, FS_Subset, FS_CardinalityType, QueueAssumption
<1>8. Wanted(q[x], d) <= Cardinality(T) + Late(q[x], d)
  BY DEF WakeInv, EnoughFor, T
<1> QED
  BY <1>3, <1>7, <1>8 DEF A

\* No wake-up is lost, whatever calls and handlers meet on a queue, locked or not: while a
\* task waits for an item (for room), each item (each free place) there is has a task of
\* its own that is ready and will look.
THEOREM NoWakeupIsLost == Spec => []NoLostWakeup
<1>1. Init => QueuesInv /\ CallsInv /\ WakeInv
  BY QueueInit, WakeInit
<1>2. QueuesInv /\ CallsInv /\ WakeInv /\ [Next]_vars => QueuesInv' /\ CallsInv' /\ WakeInv'
  BY QueueNext, WakeNext
<1>3. QueuesInv /\ CallsInv /\ WakeInv => NoLostWakeup
  BY WakeImplies
<1> QED
  BY <1>1, <1>2, <1>3, PTL DEF Spec

-------------------------------------------------------------------------------
(* Time-outs are honest. What TimeoutHonest says of a task that waits, or   *)
(* gives up, is not inductive: TimeInv says at every step of a call how the *)
(* ticks that its frame counts from relate to those that have passed.       *)

\* The ticks since the call last noted the time: it has e behind it, and had f.ticks of
\* its a left then.
Since(f, a, e) == e - (a - f.ticks)

\* The call of task t at place p, made with block time a, has seen e ticks. What it has
\* noted of the time tells how many: the tick count is that far ahead, and has wrapped
\* around at most once since. What it still waits for, if it does, is what is left.
CallTimed(kk, t, p, f, a, e) ==
  /\ p = "app" => ~ f.entryTimeSet /\ e = 0
  /\ t \in kk.suspended => a = portMAX_DELAY
  /\ p # "app" =>
       /\ f.entryTimeSet /\ f.ticks \in 0 .. a
       /\ a = portMAX_DELAY => f.ticks = portMAX_DELAY
       /\ IsDelayed(kk, t) =>
            a # portMAX_DELAY /\ (~ IsPending(kk, t) => TicksLeft(kk, t) = a - e)
       /\ p \in Unlocking /\ f.next = "app" => a # portMAX_DELAY /\ e >= a
       /\ a # portMAX_DELAY =>
            /\ Since(f, a, e) \in Nat /\ (p \in {"isFull", "place"} => Since(f, a, e) = 0)
            /\ kk.tick = (f.timeOut.timeOnEntering + Since(f, a, e)) % TICK_MOD
            /\ kk.overflows # f.timeOut.overflowCount =>
                 f.timeOut.timeOnEntering + Since(f, a, e) >= TICK_MOD
            /\ e + kk.missedTicks < TICK_MOD

TimeInv ==
  /\ asked \in [AllTasks -> Ticks] /\ elapsed \in [AllTasks -> Nat]
  /\ \A t \in AllTasks : CallTimed(k, t, pc[t], frame[t], asked[t], elapsed[t])

\* Less than a lap after a tick count was noted, it tells how long ago that was, and the
\* overflow count has not gone on unless the tick count is behind again.
LEMMA LapTells ==
  ASSUME NEW t0 \in Ticks, NEW n \in Ticks, NEW tick, tick = (t0 + n) % TICK_MOD
  PROVE  /\ (tick - t0) % TICK_MOD = n
         /\ t0 + n >= TICK_MOD => tick < t0
<1> DEFINE M == TICK_MOD
<1>1. M \in Nat /\ M > 2 /\ t0 \in 0 .. M - 1 /\ n \in 0 .. M - 1
  BY KernelAssumption DEF Ticks
<1>2. (tick - t0) % TICK_MOD = n
  BY TicksApart
<1> HIDE DEF M
<1>3. ASSUME t0 + n >= M PROVE tick < t0
  <2>1. t0 + n \in Int /\ t0 + n \in M .. 2 * M - 1
    BY <1>1, <1>3
  <2>2. tick = (t0 + n) - M
    BY <2>1, TicksWrap DEF M
  <2> QED
    BY <1>1, <2>2
<1> QED
  BY <1>2, <1>3 DEF M

\* xTaskCheckForTimeOut is exact: it finds that the time is up when it is, and else how
\* much of it is left.
LEMMA CheckIsExact ==
  ASSUME NEW kk, Sound(kk), NEW t, NEW p, p # "app", NEW f, f.timeOut.timeOnEntering \in Ticks,
         NEW a \in Ticks, NEW e \in Nat, CallTimed(kk, t, p, f, a, e)
  PROVE  /\ TimedOut(kk, f.timeOut, f.ticks) <=> a # portMAX_DELAY /\ e >= a
         /\ TicksRemaining(kk, f.timeOut, f.ticks) = IF a = portMAX_DELAY THEN a ELSE a - e
         /\ f.ticks = portMAX_DELAY <=> a = portMAX_DELAY
<1> DEFINE t0 == f.timeOut.timeOnEntering
           n == Since(f, a, e)
<1>1. /\ kk.tick \in Ticks /\ kk.missedTicks \in Nat /\ TICK_MOD \in Nat /\ TICK_MOD > 2
      /\ Ticks = 0 .. TICK_MOD - 1 /\ portMAX_DELAY = TICK_MOD - 1
  BY SoundTypes, KernelAssumption DEF Ticks, portMAX_DELAY
<1>2. f.ticks \in 0 .. a /\ (a = portMAX_DELAY => f.ticks = portMAX_DELAY)
  BY DEF CallTimed
<1>3. a \in 0 .. TICK_MOD - 1 /\ f.ticks \in Nat /\ f.ticks <= a
  BY <1>1, <1>2
<1>4. f.ticks = portMAX_DELAY <=> a = portMAX_DELAY
  BY <1>1, <1>2, <1>3
<1>5. CASE a = portMAX_DELAY
  BY <1>4, <1>5 DEF TimedOut, TicksRemaining
<1>6. CASE a # portMAX_DELAY
  <2>1. /\ n \in Nat /\ kk.tick = (t0 + n) % TICK_MOD
        /\ kk.overflows # f.timeOut.overflowCount => t0 + n >= TICK_MOD
        /\ e + kk.missedTicks < TICK_MOD
    BY <1>6 DEF CallTimed
  <2>2. n = e - (a - f.ticks)
    BY DEF Since
  <2> HIDE DEF n, t0
  <2>3. n \in Ticks /\ f.ticks - n = a - e /\ (n >= f.ticks <=> e >= a)
    <3>1. e < TICK_MOD
      BY <1>1, <2>1
    <3>2. e \in Nat
      OBVIOUS
    <3> QED
      BY ONLY <1>1, <1>3, <2>1, <2>2, <3>1, <3>2
  <2>4. t0 \in Ticks
    BY DEF t0
  <2>5. (kk.tick - t0) % TICK_MOD = n /\ (t0 + n >= TICK_MOD => kk.tick < t0)
    BY <2>1, <2>3, <2>4, LapTells
  <2>6. TicksSince(kk, f.timeOut) = n
    BY <2>5 DEF TicksSince, t0
  <2>7. ~ (kk.overflows # f.timeOut.overflowCount /\ kk.tick >= t0)
    BY <1>1, <2>1, <2>4, <2>5 DEF Ticks
  <2>8. TimedOut(kk, f.timeOut, f.ticks) <=> n >= f.ticks
    BY <1>4, <1>6, <2>6, <2>7 DEF TimedOut, t0
  <2>9. TicksRemaining(kk, f.timeOut, f.ticks) = f.ticks - n
    BY <1>4, <1>6, <2>6 DEF TicksRemaining
  <2> QED
    BY <1>4, <1>6, <2>3, <2>8, <2>9
<1> QED
  BY <1>5, <1>6

\* A frame that says the same of the time.
SameTimes(g, f) ==
  g.ticks = f.ticks /\ g.entryTimeSet = f.entryTimeSet /\ g.timeOut = f.timeOut

\* A call that goes on, or stays where it is, while time stands still.
LEMMA TimedOn ==
  ASSUME NEW kk, NEW r, NEW t, Still(r, kk, {t}), NEW p, NEW f, NEW a, NEW e,
         CallTimed(kk, t, p, f, a, e), NEW p2, NEW g, SameTimes(g, f), p2 = "app" <=> p = "app",
         p2 \in Unlocking /\ g.next = "app" => p \in Unlocking /\ f.next = "app",
         p2 \in {"isFull", "place"} => p \in {"isFull", "place"}
  PROVE  CallTimed(r, t, p2, g, a, e)
<1>1. Since(g, a, e) = Since(f, a, e)
  BY DEF Since, SameTimes
<1>2. /\ r.tick = kk.tick /\ r.overflows = kk.overflows /\ r.missedTicks = kk.missedTicks
      /\ t \in r.suspended => t \in kk.suspended
      /\ IsDelayed(r, t) => IsDelayed(kk, t)
      /\ IsDelayed(r, t) /\ ~ IsPending(r, t) => ~ IsPending(kk, t) /\ TicksLeft(r, t) = TicksLeft(kk, t)
  BY DEF Still, Rests, TicksLeft
<1> QED
  BY <1>1, <1>2 DEF CallTimed, SameTimes

\* The first look, or one after which what is left was noted: the call counts from now.
LEMMA TimedAnew ==
  ASSUME NEW kk, Sound(kk), NEW t, t \notin kk.suspended, ~ IsDelayed(kk, t),
         NEW a \in Ticks, NEW e \in Nat,
         a # portMAX_DELAY => e <= a /\ e + kk.missedTicks < TICK_MOD,
         NEW p, p # "app", p \notin Unlocking, NEW g, g.entryTimeSet,
         g.ticks = IF a = portMAX_DELAY THEN a ELSE a - e,
         a # portMAX_DELAY => g.timeOut = vTaskSetTimeOutState(kk)
  PROVE  /\ CallTimed(kk, t, p, g, a, e)
         /\ a # portMAX_DELAY => Since(g, a, e) = 0
<1>1. /\ kk.tick \in Ticks /\ TICK_MOD \in Nat /\ Ticks = 0 .. TICK_MOD - 1
      /\ portMAX_DELAY = TICK_MOD - 1
  BY SoundTypes, KernelAssumption DEF Ticks, portMAX_DELAY
<1>2. a \in Nat /\ e \in Nat
  BY <1>1
<1>3. g.ticks \in 0 .. a
  BY <1>2
<1>4. ASSUME a # portMAX_DELAY
      PROVE  /\ Since(g, a, e) = 0
             /\ kk.tick = (g.timeOut.timeOnEntering + 0) % TICK_MOD
             /\ kk.overflows = g.timeOut.overflowCount
  <2>1. Since(g, a, e) = 0
    BY <1>2, <1>4 DEF Since
  <2>2. g.timeOut.timeOnEntering = kk.tick /\ g.timeOut.overflowCount = kk.overflows
    BY <1>4 DEF vTaskSetTimeOutState
  <2>3. kk.tick + 0 = kk.tick /\ kk.tick \in Int
    BY <1>1
  <2>4. kk.tick % TICK_MOD = kk.tick
    BY <1>1, <2>3, TicksWrap
  <2> QED
    BY <2>1, <2>2, <2>3, <2>4
<1> QED
  BY <1>3, <1>4 DEF CallTimed

\* A call that has just noted the time, and is put on the event list for what is left.
LEMMA TimedWait ==
  ASSUME NEW kk, NEW r, NEW S, Still(r, kk, S), NEW t, NEW p, p # "app", NEW f,
         NEW a \in Ticks, NEW e \in Nat, CallTimed(kk, t, p, f, a, e),
         a # portMAX_DELAY => Since(f, a, e) = 0, WaitsFor(r, t, f.ticks),
         NEW p2, p2 # "app", ~ (p2 \in Unlocking /\ f.next = "app")
  PROVE  CallTimed(r, t, p2, f, a, e)
<1>1. TICK_MOD \in Nat /\ Ticks = 0 .. TICK_MOD - 1 /\ portMAX_DELAY = TICK_MOD - 1
  BY KernelAssumption DEF Ticks, portMAX_DELAY
<1>2. f.ticks \in 0 .. a /\ (a = portMAX_DELAY => f.ticks = portMAX_DELAY) /\ f.entryTimeSet
  BY DEF CallTimed
<1>3. f.ticks = portMAX_DELAY <=> a = portMAX_DELAY
  BY <1>1, <1>2
<1>4. a # portMAX_DELAY => f.ticks = a - e
  BY <1>1, <1>2 DEF Since
<1>5. /\ t \in r.suspended => a = portMAX_DELAY
      /\ IsDelayed(r, t) =>
           a # portMAX_DELAY /\ (~ IsPending(r, t) => TicksLeft(r, t) = a - e)
  BY <1>3, <1>4 DEF WaitsFor
<1>6. r.tick = kk.tick /\ r.overflows = kk.overflows /\ r.missedTicks = kk.missedTicks
  BY DEF Still
<1> QED
  BY <1>2, <1>5, <1>6 DEF CallTimed

\* Outside of a call.
LEMMA TimedApp ==
  ASSUME NEW kk, NEW t, t \notin kk.suspended, NEW f, ~ f.entryTimeSet, NEW a
  PROVE  CallTimed(kk, t, "app", f, a, 0)
BY DEF CallTimed

\* The tick count goes on, less than a lap after it was noted.
LEMMA LapGoesOn ==
  ASSUME NEW t0 \in Ticks, NEW s \in Nat, NEW n \in Nat, s + n < TICK_MOD,
         NEW tick, tick = (t0 + s) % TICK_MOD
  PROVE  /\ (tick + n) % TICK_MOD = (t0 + (s + n)) % TICK_MOD
         /\ tick + n >= TICK_MOD => t0 + (s + n) >= TICK_MOD
<1> DEFINE M == TICK_MOD
<1>1. M \in Nat /\ M > 2 /\ t0 \in 0 .. M - 1 /\ M = TICK_MOD
  BY KernelAssumption DEF Ticks
<1> HIDE DEF M
<1>2. t0 + s \in Int /\ t0 + (s + n) \in Int /\ t0 + (s + n) \in 0 .. 2 * M - 1
  BY <1>1
<1>3. CASE t0 + s < M
  <2>1. t0 + s \in Ticks
    BY <1>1, <1>2, <1>3 DEF Ticks
  <2>2. tick = t0 + s
    BY <1>2, <2>1, TicksWrap
  <2>3. tick + n = t0 + (s + n)
    BY <1>1, <2>2
  <2> QED
    BY <1>1, <2>3
<1>4. CASE t0 + s >= M
  <2>1. t0 + s \in M .. 2 * M - 1 /\ t0 + (s + n) \in M .. 2 * M - 1
    BY <1>1, <1>2, <1>4
  <2>2. tick = (t0 + s) - M
    BY <1>1, <1>2, <2>1, TicksWrap
  <2>3. (t0 + (s + n)) % TICK_MOD = (t0 + (s + n)) - M
    BY <1>1, <1>2, <2>1, TicksWrap
  <2>4. tick + n = (t0 + (s + n)) - M /\ tick + n \in Int /\ tick + n \in 0 .. M - 1
    BY <1>1, <2>1, <2>2
  <2>5. (tick + n) % TICK_MOD = tick + n
    BY <1>1, <2>4, TicksWrap DEF Ticks
  <2> QED
    BY <1>1, <2>1, <2>3, <2>4, <2>5
<1> QED
  BY <1>1, <1>3, <1>4

LEMMA SinceGoesOn ==
  ASSUME NEW ticks \in Nat, NEW a \in Nat, ticks <= a, NEW e \in Nat, NEW n \in Nat,
         NEW m \in Nat, NEW lap \in Nat, e + (m + n) < lap, e - (a - ticks) \in Nat
  PROVE  /\ (e + n) - (a - ticks) = (e - (a - ticks)) + n
         /\ (e - (a - ticks)) + n < lap /\ (e - (a - ticks)) + n \in Nat
OBVIOUS

\* n ticks are counted, by the kernel and by each call in the middle of a timed wait.
LEMMA TimedLater ==
  ASSUME NEW kk, Sound(kk), NEW r, NEW n \in Ticks, Counts(r, kk, n), NEW t \in AllTasks,
         NEW p, NEW f, f.timeOut.timeOnEntering \in Ticks, NEW a \in Ticks, NEW e \in Nat,
         CallTimed(kk, t, p, f, a, e), p # "app", a # portMAX_DELAY,
         r.missedTicks + n \in Nat, e + (r.missedTicks + n) < TICK_MOD, r.missedTicks \in Nat,
         NEW p2, p2 # "app", p2 \in {"isFull", "place"} => p2 = p /\ n = 0,
         p2 \in Unlocking /\ f.next = "app" => p \in Unlocking /\ f.next = "app"
  PROVE  CallTimed(r, t, p2, f, a, e + n)
<1> DEFINE t0 == f.timeOut.timeOnEntering
           s == Since(f, a, e)
<1>1. /\ f.entryTimeSet /\ f.ticks \in 0 .. a /\ s \in Nat
      /\ kk.tick = (t0 + s) % TICK_MOD
      /\ kk.overflows # f.timeOut.overflowCount => t0 + s >= TICK_MOD
      /\ IsDelayed(kk, t) /\ ~ IsPending(kk, t) => TicksLeft(kk, t) = a - e
      /\ p \in Unlocking /\ f.next = "app" => e >= a
      /\ t \notin kk.suspended
  BY ONLY CallTimed(kk, t, p, f, a, e), p # "app", a # portMAX_DELAY DEF CallTimed
<1>2. /\ TICK_MOD \in Nat /\ a \in Nat /\ n \in Nat /\ f.ticks \in Nat /\ f.ticks <= a
      /\ Ticks = 0 .. TICK_MOD - 1
  BY <1>1, KernelAssumption DEF Ticks
<1>3. t0 \in Ticks
  OBVIOUS
<1>4. Since(f, a, e + n) = s + n /\ s + n < TICK_MOD /\ s + n \in Nat
  <2>1. s = e - (a - f.ticks) /\ Since(f, a, e + n) = (e + n) - (a - f.ticks)
    BY DEF Since
  <2>2. s \in Nat /\ TICK_MOD \in Nat /\ a \in Nat /\ n \in Nat /\ f.ticks \in Nat /\ f.ticks <= a
    BY <1>1, <1>2
  <2> HIDE DEF s
  <2>3. e - (a - f.ticks) \in Nat
    BY <2>1, <2>2
  <2>4. /\ (e + n) - (a - f.ticks) = (e - (a - f.ticks)) + n
        /\ (e - (a - f.ticks)) + n < TICK_MOD /\ (e - (a - f.ticks)) + n \in Nat
    BY ONLY <2>2, <2>3, e \in Nat, r.missedTicks \in Nat, e + (r.missedTicks + n) < TICK_MOD,
            SinceGoesOn
  <2> QED
    BY ONLY <2>1, <2>4
<1> HIDE DEF s, t0
<1>5. /\ (kk.tick + n) % TICK_MOD = (t0 + (s + n)) % TICK_MOD
      /\ kk.tick + n >= TICK_MOD => t0 + (s + n) >= TICK_MOD
  BY <1>1, <1>2, <1>3, <1>4, LapGoesOn
<1>6. r.tick = (t0 + (s + n)) % TICK_MOD
  BY <1>5 DEF Counts
<1>7. r.overflows # f.timeOut.overflowCount => t0 + (s + n) >= TICK_MOD
  <2>1. CASE r.overflows # kk.overflows
    BY <1>5, <2>1 DEF Counts
  <2>2. CASE kk.overflows # f.timeOut.overflowCount
    BY <1>1, <1>2, <1>3, <2>2 DEF Ticks
  <2> QED
    BY <2>1, <2>2
<1>8. (e + n) + r.missedTicks < TICK_MOD
  BY <1>2
<1>9. /\ t \notin r.suspended
      /\ IsDelayed(r, t) /\ ~ IsPending(r, t) => TicksLeft(r, t) = a - (e + n)
  <2>1. /\ t \notin r.suspended
        /\ IsDelayed(r, t) /\ ~ IsPending(r, t) => TicksLeft(r, t) = (a - e) - n
    BY <1>1 DEF Counts
  <2>2. (a - e) - n = a - (e + n)
    BY <1>2
  <2> QED
    BY <2>1, <2>2
<1>10. p2 \in Unlocking /\ f.next = "app" => e + n >= a
  BY <1>1, <1>2
<1>11. p2 \in {"isFull", "place"} => s + n = 0
  <2>1. p \in {"isFull", "place"} => s = 0
    BY DEF CallTimed, s
  <2> QED
    BY <2>1
<1> QED
  BY <1>1, <1>4, <1>6, <1>7, <1>8, <1>9, <1>10, <1>11 DEF CallTimed, t0

\* Nobody outside of a call, or in an endless wait, counts.
LEMMA UntimedLater ==
  ASSUME NEW kk, NEW r, NEW n, Counts(r, kk, n), NEW t \in AllTasks, NEW p, NEW f,
         NEW a, NEW e, CallTimed(kk, t, p, f, a, e), p = "app" \/ a = portMAX_DELAY,
         NEW p2, p2 = "app" <=> p = "app",
         p2 \in Unlocking /\ f.next = "app" => p \in Unlocking /\ f.next = "app"
  PROVE  CallTimed(r, t, p2, f, a, e)
<1>1. /\ t \in r.suspended => t \in kk.suspended
      /\ IsDelayed(r, t) => IsDelayed(kk, t)
  BY DEF Counts
<1> QED
  BY <1>1 DEF CallTimed

-------------------------------------------------------------------------------
(* What a step keeps of it *)

\* Time stands still; the current task goes on at p with f, a and e.
LEMMA TimesKeep ==
  ASSUME CallsInv, Sound(k), TimeInv, NEW p, NEW f, Moves(p, f), NEW a \in Ticks, NEW e \in Nat,
         asked' = [asked EXCEPT ![k.current] = a], elapsed' = [elapsed EXCEPT ![k.current] = e],
         Still(k', k, AllTasks \ {k.current}), CallTimed(k', k.current, p, f, a, e)
  PROVE  TimeInv'
<1> DEFINE c == k.current
<1>1. /\ pc'[c] = p /\ frame'[c] = f /\ c \in AllTasks
      /\ \A u \in AllTasks \ {c} : pc'[u] = pc[u] /\ frame'[u] = frame[u]
  BY MovesOne
<1>2. /\ asked' \in [AllTasks -> Ticks] /\ elapsed' \in [AllTasks -> Nat]
      /\ asked'[c] = a /\ elapsed'[c] = e
      /\ \A u \in AllTasks \ {c} : asked'[u] = asked[u] /\ elapsed'[u] = elapsed[u]
  BY <1>1 DEF TimeInv
<1>3. ASSUME NEW u \in AllTasks \ {c}
      PROVE  CallTimed(k', u, pc'[u], frame'[u], asked'[u], elapsed'[u])
  <2>1. CallTimed(k, u, pc[u], frame[u], asked[u], elapsed[u])
    BY DEF TimeInv
  <2>2. Still(k', k, {u})
    BY DEF Still
  <2>3. SameTimes(frame[u], frame[u])
    BY DEF SameTimes
  <2>4. CallTimed(k', u, pc[u], frame[u], asked[u], elapsed[u])
    BY ONLY <2>1, <2>2, <2>3, TimedOn
  <2> QED
    BY <1>1, <1>2, <2>4
<1>4. CallTimed(k', c, pc'[c], frame'[c], asked'[c], elapsed'[c])
  BY <1>1, <1>2
<1>5. \A u \in AllTasks : CallTimed(k', u, pc'[u], frame'[u], asked'[u], elapsed'[u])
  BY <1>3, <1>4
<1> QED
  BY <1>2, <1>5 DEF TimeInv

\* The same, and the call of the current task goes on with what it has noted.
LEMMA SameTimesKeep ==
  ASSUME CallsInv, Sound(k), TimeInv, NEW p, NEW f, Moves(p, f), UNCHANGED <<asked, elapsed>>,
         Still(k', k, AllTasks), SameTimes(f, frame[k.current]), p = "app" <=> pc[k.current] = "app",
         p \in Unlocking /\ f.next = "app" =>
           pc[k.current] \in Unlocking /\ frame[k.current].next = "app",
         p \in {"isFull", "place"} => pc[k.current] \in {"isFull", "place"}
  PROVE  TimeInv'
<1> DEFINE c == k.current
<1>1. c \in AllTasks
  BY SoundTypes
<1>2. /\ asked[c] \in Ticks /\ elapsed[c] \in Nat
      /\ asked' = [asked EXCEPT ![c] = asked[c]] /\ elapsed' = [elapsed EXCEPT ![c] = elapsed[c]]
  BY <1>1 DEF TimeInv
<1>3. CallTimed(k, c, pc[c], frame[c], asked[c], elapsed[c])
  BY <1>1 DEF TimeInv
<1>4. Still(k', k, {c}) /\ Still(k', k, AllTasks \ {c})
  BY <1>1 DEF Still
<1>5. CallTimed(k', c, p, f, asked[c], elapsed[c])
  BY <1>3, <1>4, TimedOn
<1> QED
  BY <1>2, <1>4, <1>5, TimesKeep

\* The current task returns from its call.
LEMMA ReturnKeeps ==
  ASSUME CallsInv, Sound(k), TimeInv, Moves("app", NoFrame), k.current \notin k.suspended,
         asked' = [asked EXCEPT ![k.current] = 0], elapsed' = [elapsed EXCEPT ![k.current] = 0],
         Still(k', k, AllTasks)
  PROVE  TimeInv'
<1>1. k.current \in AllTasks /\ 0 \in Ticks /\ 0 \in Nat
  BY SoundTypes, KernelAssumption DEF Ticks
<1>2. k.current \notin k'.suspended /\ Still(k', k, AllTasks \ {k.current})
  BY <1>1 DEF Still, Rests
<1>3. ~ NoFrame.entryTimeSet
  BY DEF NoFrame
<1>4. CallTimed(k', k.current, "app", NoFrame, 0, 0)
  BY <1>2, <1>3, TimedApp
<1> QED
  BY <1>1, <1>2, <1>4, TimesKeep

LEMMA LapBounds ==
  ASSUME NEW e \in Nat, NEW m \in Nat, NEW n \in Nat, NEW lap \in Nat, e + (m + n) < lap
  PROVE  n \in 0 .. lap - 1 /\ m + n \in Nat
OBVIOUS

\* n ticks pass for a task, if it is on a timed wait.
Passed(u) == IF Timed(u) THEN elapsed[u] + ((k'.tick - k.tick) % TICK_MOD) ELSE elapsed[u]

LEMMA TicksTime ==
  ASSUME CallsInv, WakeInv, TimeInv, NEW n \in Nat, Counts(k', k, n), k'.missedTicks \in Nat,
         NEW u \in AllTasks, Timed(u) => elapsed[u] + (k'.missedTicks + n) < TICK_MOD,
         NEW p2, p2 = "app" <=> pc[u] = "app", p2 \in {"isFull", "place"} => p2 = pc[u] /\ n = 0,
         p2 \in Unlocking /\ frame[u].next = "app" => pc[u] \in Unlocking /\ frame[u].next = "app"
  PROVE  CallTimed(k', u, p2, frame[u], asked[u], Passed(u)) /\ Passed(u) \in Nat
<1> DEFINE p == pc[u]
           f == frame[u]
           a == asked[u]
           e == elapsed[u]
<1>1. /\ CallTimed(k, u, p, f, a, e) /\ a \in Ticks /\ e \in Nat
      /\ f.timeOut.timeOnEntering \in Ticks /\ Sound(k) /\ k.tick \in Ticks
      /\ TICK_MOD \in Nat /\ Ticks = 0 .. TICK_MOD - 1
  BY SoundTypes, KernelAssumption DEF TimeInv, WakeInv, HeldInv, CallFits, Ticks
<1>2. Timed(u) <=> p # "app" /\ a # portMAX_DELAY
  BY <1>1 DEF Timed, CallTimed
<1>3. CASE Timed(u)
  <2>0. e + (k'.missedTicks + n) < TICK_MOD
    BY <1>3
  <2>1. n \in Ticks /\ e + (k'.missedTicks + n) < TICK_MOD /\ k'.missedTicks + n \in Nat
    BY ONLY <1>1, <2>0, n \in Nat, k'.missedTicks \in Nat, LapBounds
  <2>2. k'.tick = (k.tick + n) % TICK_MOD
    BY DEF Counts
  <2>3. (k'.tick - k.tick) % TICK_MOD = n
    BY <1>1, <2>1, <2>2, TicksApart
  <2>4. Passed(u) = e + n
    BY <1>3, <2>3 DEF Passed
  <2> HIDE DEF p, f, a, e
  <2>5. CallTimed(k', u, p2, f, a, e + n)
    BY ONLY <1>1, <1>2, <1>3, <2>1, n \in Nat, Counts(k', k, n), u \in AllTasks,
            k'.missedTicks \in Nat, p2 = "app" <=> p = "app",
            p2 \in {"isFull", "place"} => p2 = p /\ n = 0,
            p2 \in Unlocking /\ f.next = "app" => p \in Unlocking /\ f.next = "app", TimedLater
       DEF p, f
  <2> QED
    BY <1>1, <2>4, <2>5 DEF f, a
<1>4. CASE ~ Timed(u)
  <2>1. CallTimed(k', u, p2, f, a, e)
    BY <1>1, <1>2, <1>4, UntimedLater
  <2> QED
    BY <1>1, <1>4, <2>1 DEF Passed
<1> QED
  BY <1>3, <1>4

\* Ticks are counted, for the kernel and for every timed wait; the current task goes on.
LEMMA TicksKeep ==
  ASSUME CallsInv, WakeInv, TimeInv, NEW n \in Nat, Counts(k', k, n), k'.missedTicks \in Nat,
         \A u \in AllTasks : Timed(u) => elapsed[u] + (k'.missedTicks + n) < TICK_MOD,
         k.schedulerSuspended # 0 /\ n # 0 => pc[k.current] = "resumeAll",
         NEW p, p = "app" <=> pc[k.current] = "app", p = pc[k.current] \/ p \in {"yield", "try"},
         Moves(p, frame[k.current]), UNCHANGED asked, TimePasses
  PROVE  TimeInv'
<1> DEFINE c == k.current
<1>1. /\ pc'[c] = p /\ frame'[c] = frame[c] /\ c \in AllTasks
      /\ \A u \in AllTasks \ {c} : pc'[u] = pc[u] /\ frame'[u] = frame[u]
  BY MovesOne DEF WakeInv, HeldInv
<1>2. /\ \A u \in AllTasks : pc[u] \in Held => u = c
      /\ k.schedulerSuspended = IF pc[c] \in Held THEN 1 ELSE 0
  BY DEF WakeInv, HeldInv
<1>3. ASSUME NEW u \in AllTasks
      PROVE  /\ CallTimed(k', u, pc'[u], frame'[u], asked'[u], Passed(u))
             /\ Passed(u) \in Nat
  <2>1. frame'[u] = frame[u] /\ asked'[u] = asked[u] /\ (pc'[u] = "app" <=> pc[u] = "app")
        /\ (pc'[u] = pc[u] \/ pc'[u] \in {"yield", "try"})
    BY <1>1
  <2>2. pc'[u] \in {"isFull", "place"} => pc'[u] = pc[u] /\ n = 0
    BY <1>2, <2>1 DEF Held
  <2>3. pc'[u] \in Unlocking => pc[u] \in Unlocking
    BY <2>1 DEF Unlocking
  <2>4. CallTimed(k', u, pc'[u], frame[u], asked[u], Passed(u)) /\ Passed(u) \in Nat
    BY <2>1, <2>2, <2>3, TicksTime
  <2> QED
    BY <2>1, <2>4
<1>4. elapsed' = [u \in AllTasks |-> Passed(u)]
  <2>1. TimePasses
    OBVIOUS
  <2> QED
    BY ONLY <2>1 DEF TimePasses, Passed
<1>5. elapsed' \in [AllTasks -> Nat] /\ \A u \in AllTasks : elapsed'[u] = Passed(u)
  BY <1>3, <1>4
<1>6. \A u \in AllTasks : CallTimed(k', u, pc'[u], frame'[u], asked'[u], elapsed'[u])
  BY <1>3, <1>5
<1> QED
  BY <1>5, <1>6 DEF TimeInv

-------------------------------------------------------------------------------
(* Who is woken waits no more, and nobody else's wait changes *)

LEMMA WakeFirstStill ==
  ASSUME NEW kk, Sound(kk), TimesSound(kk), NEW e \in EventLists
  PROVE  Still(WakeFirst(kk, e), kk, AllTasks)
<1> DEFINE m == xTaskRemoveFromEventList(kk, e)
<1>1. CASE kk.event[e] = <<>>
  BY <1>1, StillSelf DEF WakeFirst
<1>2. CASE kk.event[e] # <<>>
  <2>1. Sound(m) /\ Still(m, kk, AllTasks)
    BY <1>2, RemoveFollows, RemoveStill DEF Follows
  <2>2. WakeFirst(kk, e) = YieldIf(UnblocksHigher(kk, e), m)
    BY <1>2 DEF WakeFirst
  <2> HIDE DEF m
  <2>3. Still(WakeFirst(kk, e), m, AllTasks)
    BY <2>1, <2>2, YieldIfStill
  <2> QED
    BY <2>1, <2>3, StillTrans
<1> QED
  BY <1>1, <1>2

\* vTaskPriorityInherit and vTaskPlaceOnEventList: the current task waits for n ticks.
LEMMA PlacedStill ==
  ASSUME Sound(k), TimesSound(k), Quiet(k), NEW t \in Tasks, k.current = t, IsReady(k, t),
         CallOn(pc[t], frame[t]), pc[t] # "app", NEW n \in 1 .. portMAX_DELAY,
         IsMutex(frame[t].queue) /\ frame[t].op \in Receives => q[frame[t].queue].mutexHolder \in Tasks
  PROVE  /\ Still(PlacedOnList(t, n), k, AllTasks \ {t})
         /\ WaitsFor(PlacedOnList(t, n), t, n)
<1> DEFINE f  == frame[t]
           x  == f.queue
           ki == IF IsMutex(x) /\ f.op \in Receives
                 THEN vTaskPriorityInherit(k, q[x].mutexHolder) ELSE k
           e  == <<x, EndOf(f)>>
           r  == PlacedOnList(t, n)
<1>1. e \in EventLists
  BY EndFits, QueueAssumption DEF CallOn, Ends
<1>2. t \in AllTasks /\ t # IdleTask
  BY KernelAssumption DEF AllTasks
<1>3. Follows(ki, k) /\ ki.current = t /\ Still(ki, k, AllTasks)
  <2>1. CASE IsMutex(x) /\ f.op \in Receives
    <3>1. q[x].mutexHolder \in AllTasks \ {IdleTask}
      BY <2>1, KernelAssumption DEF AllTasks
    <3> QED
      BY <2>1, <3>1, InheritFollows, InheritStill
  <2>2. CASE ~ (IsMutex(x) /\ f.op \in Receives)
    BY <2>2, FollowsSelf, StillSelf
  <2> QED
    BY <2>1, <2>2
<1>4. r = vTaskPlaceOnEventList(ki, e, n)
  BY DEF PlacedOnList, EndOf
<1> HIDE DEF ki, e, r
<1>5. Sound(ki) /\ TimesSound(ki) /\ IsReady(ki, ki.current) /\ ki.current # IdleTask
  BY <1>2, <1>3 DEF Follows, Rises
<1>6. Parted(r, ki)
  BY <1>1, <1>4, <1>5, PlacesOnEventList
<1>7. Still(r, ki, AllTasks \ {t})
  BY <1>3, <1>6, PartedStill
<1>8. Still(ki, k, AllTasks \ {t})
  BY <1>3 DEF Still
<1>9. Still(r, k, AllTasks \ {t})
  BY <1>7, <1>8, StillTrans
<1>10. WaitsFor(r, t, n)
  BY <1>1, <1>3, <1>4, <1>5, PlacesWaits
<1> QED
  BY <1>9, <1>10 DEF r

\* A handler that wakes a task.
LEMMA HandlerTimes ==
  ASSUME CallsInv, WakeInv, TimeInv, UNCHANGED <<pc, frame, asked, elapsed>>, NEW e \in EventLists,
         k' = k \/ k' = IF k.event[e] = <<>> THEN k ELSE xTaskRemoveFromEventList(k, e)
  PROVE  TimeInv'
<1> DEFINE c == k.current
<1>1. /\ Sound(k) /\ TimesSound(k)
      /\ pc = [pc EXCEPT ![c] = pc[c]] /\ frame = [frame EXCEPT ![c] = frame[c]]
  BY OwnCall
<1>2. Still(k', k, AllTasks)
  BY <1>1, RemoveStill, StillSelf
<1>3. Moves(pc[c], frame[c])
  BY <1>1 DEF Moves
<1>4. SameTimes(frame[c], frame[c])
  BY DEF SameTimes
<1> QED
  BY <1>1, <1>2, <1>3, <1>4, SameTimesKeep

-------------------------------------------------------------------------------
(* Each step of a call, and its time *)

LEMMA SuspendAllTimes ==
  ASSUME CallsInv, WakeInv, TimeInv, NEW t, SuspendAll(t)
  PROVE  TimeInv'
<1>1. /\ k.current = t /\ pc[t] = "suspendAll" /\ Moves("lock", frame[t])
      /\ UNCHANGED <<asked, elapsed>> /\ k' = vTaskSuspendAll(k)
  BY OwnCall DEF SuspendAll, At, Goto, Moves
<1>2. Sound(k) /\ TimesSound(k) /\ k.schedulerSuspended = 0
  BY <1>1, OwnCall DEF Held
<1>3. /\ SameLists(k', k) /\ k'.wake = k.wake /\ k'.tick = k.tick
      /\ k'.overflows = k.overflows /\ k'.missedTicks = k.missedTicks
  BY <1>1, <1>2, SuspendsAll
<1>4. Still(k', k, AllTasks)
  BY <1>3, StillSame
<1>5. SameTimes(frame[t], frame[t]) /\ "lock" \notin Unlocking
  BY DEF SameTimes, Unlocking
<1> QED
  BY <1>1, <1>2, <1>4, <1>5, SameTimesKeep

LEMMA IsFullOrEmptyTimes ==
  ASSUME CallsInv, WakeInv, TimeInv, NEW t, IsFullOrEmpty(t)
  PROVE  TimeInv'
<1> DEFINE f == frame[t]
           next == IF StillBlocked(t) THEN "yield" ELSE "try"
           g == [f EXCEPT !.next = next]
           p == IF StillBlocked(t) THEN "place" ELSE "unlockTx"
<1>1. /\ k.current = t /\ pc[t] = "isFull" /\ UNCHANGED <<k, asked, elapsed>>
      /\ pc' = [pc EXCEPT ![t] = p] /\ frame' = [frame EXCEPT ![t].next = next]
  BY DEF IsFullOrEmpty, At, Goto
<1>2. Sound(k) /\ t \in AllTasks /\ CallOn(pc[t], frame[t])
  BY <1>1, OwnCall
<1>3. Moves(p, g)
  BY <1>1, <1>2 DEF CallsInv, Moves
<1>4. g.next = next /\ SameTimes(g, f)
  BY <1>2 DEF CallOn, IsFrame, SameTimes
<1>5. p # "app" /\ next # "app" /\ (p \in {"isFull", "place"} => pc[t] \in {"isFull", "place"})
  BY <1>1
<1>6. Still(k', k, AllTasks)
  BY <1>1, StillSelf
<1> HIDE DEF g, p, next
<1> QED
  BY <1>1, <1>2, <1>3, <1>4, <1>5, <1>6, SameTimesKeep

LEMMA UnlockTxTimes ==
  ASSUME CallsInv, WakeInv, TimeInv, NEW t, UnlockTx(t)
  PROVE  TimeInv'
<1> DEFINE f == frame[t]
           x == f.queue
           e == <<x, "receive">>
           n == q[x].txLock
<1>1. /\ k.current = t /\ pc[t] = "unlockTx" /\ UNCHANGED <<asked, elapsed>>
      /\ k' = WakeMany(e, n) /\ Moves("unlockRx", f)
  BY OwnCall DEF UnlockTx, At, Goto, Moves
<1>2. /\ Sound(k) /\ TimesSound(k) /\ k.schedulerSuspended # 0
      /\ LocksFit(q, "unlockTx", f) /\ CallOn("unlockTx", f)
  BY <1>1, OwnCall DEF Held
<1>3. e \in EventLists /\ n \in Nat
  BY <1>2, QueueAssumption DEF CallOn, LocksFit, TxLocking
<1>4. Still(k', k, AllTasks)
  BY <1>1, <1>2, <1>3, WakesMany
<1>5. SameTimes(f, frame[t]) /\ "unlockTx" \in Unlocking
  BY DEF SameTimes, Unlocking
<1> QED
  BY <1>1, <1>2, <1>4, <1>5, SameTimesKeep

LEMMA UnlockRxTimes ==
  ASSUME CallsInv, WakeInv, TimeInv, NEW t, UnlockRx(t)
  PROVE  TimeInv'
<1> DEFINE f == frame[t]
           x == f.queue
           e == <<x, "send">>
           n == q[x].rxLock
<1>1. /\ k.current = t /\ pc[t] = "unlockRx" /\ UNCHANGED <<asked, elapsed>>
      /\ k' = WakeMany(e, n) /\ Moves("resumeAll", f)
  BY OwnCall DEF UnlockRx, At, Goto, Moves
<1>2. /\ Sound(k) /\ TimesSound(k) /\ k.schedulerSuspended # 0
      /\ LocksFit(q, "unlockRx", f) /\ CallOn("unlockRx", f)
  BY <1>1, OwnCall DEF Held
<1>3. e \in EventLists /\ n \in Nat
  BY <1>2, QueueAssumption DEF CallOn, LocksFit, RxLocking
<1>4. Still(k', k, AllTasks)
  BY <1>1, <1>2, <1>3, WakesMany
<1>5. SameTimes(f, frame[t]) /\ "unlockRx" \in Unlocking
  BY DEF SameTimes, Unlocking
<1> QED
  BY <1>1, <1>2, <1>4, <1>5, SameTimesKeep

LEMMA YieldTimes ==
  ASSUME CallsInv, WakeInv, TimeInv, NEW t, Yield(t)
  PROVE  TimeInv'
<1>1. /\ k.current = t /\ pc[t] = "yield" /\ Moves("try", frame[t])
      /\ UNCHANGED <<asked, elapsed>> /\ k' = vTaskSwitchContext(k)
  BY OwnCall DEF Yield, At, Goto, Moves
<1>2. Sound(k)
  BY OwnCall
<1>3. Still(k', k, AllTasks)
  BY <1>1, <1>2, SwitchStill
<1>4. SameTimes(frame[t], frame[t]) /\ "try" \notin Unlocking
  BY DEF SameTimes, Unlocking
<1> QED
  BY <1>1, <1>2, <1>3, <1>4, SameTimesKeep

\* The time of the current task's call. Unless it is about to give up the processor it
\* does not wait.
LEMMA OwnTimes ==
  ASSUME CallsInv, WakeInv, TimeInv
  PROVE  LET t == k.current
         IN  /\ CallTimed(k, t, pc[t], frame[t], asked[t], elapsed[t])
             /\ asked[t] \in Ticks /\ elapsed[t] \in Nat
             /\ asked = [asked EXCEPT ![t] = asked[t]]
             /\ elapsed = [elapsed EXCEPT ![t] = elapsed[t]]
             /\ ~ Parting(pc[t], frame[t]) =>
                  IsReady(k, t) /\ t \notin k.suspended /\ ~ IsDelayed(k, t)
<1> DEFINE t == k.current
<1>1. t \in AllTasks /\ Sound(k) /\ HeldInv(k, pc, frame)
  BY OwnCall
<1>2. /\ CallTimed(k, t, pc[t], frame[t], asked[t], elapsed[t])
      /\ asked[t] \in Ticks /\ elapsed[t] \in Nat
      /\ asked = [asked EXCEPT ![t] = asked[t]] /\ elapsed = [elapsed EXCEPT ![t] = elapsed[t]]
  BY <1>1 DEF TimeInv
<1>3. ASSUME ~ Parting(pc[t], frame[t])
      PROVE  IsReady(k, t) /\ t \notin k.suspended /\ ~ IsDelayed(k, t)
  <2>1. IsReady(k, t)
    BY <1>1, <1>3, CurrentReady
  <2> QED
    BY <1>1, <2>1 DEF Sound, InPlace
<1> QED
  BY <1>2, <1>3

\* xTaskCheckForTimeOut finds the time not up: what is left is noted.
LEMMA TimedNoted ==
  ASSUME CallsInv, WakeInv, TimeInv, NEW t, k.current = t, pc[t] \in {"lock", "altWait"},
         ~ TimedOut(k, frame[t].timeOut, frame[t].ticks), NEW g,
         g.ticks = TicksRemaining(k, frame[t].timeOut, frame[t].ticks),
         g.timeOut = TimeNoted(frame[t].ticks), g.entryTimeSet = frame[t].entryTimeSet,
         NEW p, p # "app", p \notin Unlocking
  PROVE  /\ CallTimed(k, t, p, g, asked[t], elapsed[t])
         /\ asked[t] # portMAX_DELAY => Since(g, asked[t], elapsed[t]) = 0
<1> DEFINE f == frame[t]
           a == asked[t]
           e == elapsed[t]
<1>1. /\ Sound(k) /\ CallTimed(k, t, pc[t], f, a, e) /\ a \in Ticks /\ e \in Nat
      /\ CallFits(q, pc[t], f) /\ t \notin k.suspended /\ ~ IsDelayed(k, t)
  BY OwnCall, OwnTimes DEF Parting, Unlocking
<1>2. f.timeOut.timeOnEntering \in Ticks /\ pc[t] # "app"
  BY <1>1 DEF CallFits
<1> HIDE DEF f, a, e
<1>3. /\ ~ (a # portMAX_DELAY /\ e >= a)
      /\ TicksRemaining(k, f.timeOut, f.ticks) = IF a = portMAX_DELAY THEN a ELSE a - e
      /\ f.ticks = portMAX_DELAY <=> a = portMAX_DELAY
  BY <1>1, <1>2, CheckIsExact DEF f
<1>4. a # portMAX_DELAY => e <= a /\ e + k.missedTicks < TICK_MOD
  <2>1. a \in Nat
    BY <1>1, KernelAssumption DEF Ticks
  <2>2. a # portMAX_DELAY => e + k.missedTicks < TICK_MOD
    BY <1>1, <1>2 DEF CallTimed
  <2> QED
    BY <1>1, <1>3, <2>1, <2>2
<1>5. /\ g.entryTimeSet /\ g.ticks = (IF a = portMAX_DELAY THEN a ELSE a - e)
      /\ a # portMAX_DELAY => g.timeOut = vTaskSetTimeOutState(k)
  BY <1>1, <1>2, <1>3 DEF CallTimed, TimeNoted, f
<1>6. /\ CallTimed(k, t, p, g, a, e)
      /\ a # portMAX_DELAY => Since(g, a, e) = 0
  BY <1>1, <1>4, <1>5, TimedAnew
<1> QED
  BY <1>6 DEF a, e

LEMMA LockAndCheckTimes ==
  ASSUME CallsInv, WakeInv, TimeInv, NEW t, LockAndCheck(t)
  PROVE  TimeInv'
<1> DEFINE f == frame[t]
           a == asked[t]
           e == elapsed[t]
<1>1. k.current = t /\ pc[t] = "lock" /\ UNCHANGED <<k, asked, elapsed>>
  BY DEF LockAndCheck, At
<1>2. /\ t \in AllTasks /\ Sound(k) /\ CallOn("lock", f) /\ CallFits(q, "lock", f)
      /\ CallTimed(k, t, "lock", f, a, e) /\ a \in Ticks /\ e \in Nat
      /\ asked' = [asked EXCEPT ![t] = a] /\ elapsed' = [elapsed EXCEPT ![t] = e]
  BY <1>1, OwnCall, OwnTimes
<1>3. IsFrame(f) /\ f.timeOut.timeOnEntering \in Ticks
  BY <1>2 DEF CallOn, CallFits
<1>4. Still(k', k, AllTasks \ {t})
  BY <1>1, StillSelf
<1> HIDE DEF a, e
<1>5. ASSUME NEW p, NEW g, Moves(p, g), CallTimed(k, t, p, g, a, e)
      PROVE  TimeInv'
  <2>1. CallTimed(k', k.current, p, g, a, e)
    BY <1>1, <1>5
  <2> QED
    BY <1>1, <1>2, <1>4, <1>5, <2>1, TimesKeep
<1>6. CASE TimedOut(k, f.timeOut, f.ticks)
  <2> DEFINE g == [f EXCEPT !.next = "app"]
  <2>1. g.ticks = f.ticks /\ g.timeOut = f.timeOut /\ g.entryTimeSet = f.entryTimeSet
    BY <1>3 DEF IsFrame
  <2>2. Moves("unlockTx", g)
    BY <1>1, <1>2, <1>6 DEF LockAndCheck, Goto, Moves, CallsInv
  <2> HIDE DEF g
  <2>3. a # portMAX_DELAY /\ e >= a
    BY <1>2, <1>3, <1>6, CheckIsExact
  <2>4. Since(g, a, e) = Since(f, a, e)
    BY <2>1 DEF Since
  <2>5. CallTimed(k, t, "unlockTx", g, a, e)
    BY <1>2, <2>1, <2>3, <2>4 DEF CallTimed
  <2> QED
    BY <1>5, <2>2, <2>5
<1>7. CASE ~ TimedOut(k, f.timeOut, f.ticks)
  <2> DEFINE left == TicksRemaining(k, f.timeOut, f.ticks)
             noted == TimeNoted(f.ticks)
             g == [f EXCEPT !.ticks = left, !.timeOut = noted]
  <2>1. g.ticks = left /\ g.timeOut = noted /\ g.entryTimeSet = f.entryTimeSet
    BY <1>3 DEF IsFrame
  <2>2. /\ pc' = [pc EXCEPT ![t] = "isFull"]
        /\ frame' = [frame EXCEPT ![t].ticks = TicksRemaining(k, f.timeOut, @),
                                  ![t].timeOut = TimeNoted(f.ticks)]
    BY <1>7 DEF LockAndCheck, Goto
  <2>3. Moves("isFull", g)
    BY <1>1, <1>2, <2>2 DEF Moves, CallsInv
  <2> HIDE DEF g
  <2>4. CallTimed(k, t, "isFull", g, a, e)
    BY <1>1, <1>7, <2>1, TimedNoted DEF Unlocking, a, e
  <2> QED
    BY <1>5, <2>3, <2>4
<1> QED
  BY <1>6, <1>7

\* A mutex that the current task is about to wait for has a holder.
LEMMA PlaceHolder ==
  ASSUME QueuesInv, CallsInv, WakeInv, NEW t, k.current = t, pc[t] = "place"
  PROVE  IsMutex(frame[t].queue) /\ frame[t].op \in Receives =>
           q[frame[t].queue].mutexHolder \in Tasks
<1> DEFINE f == frame[t]
           x == f.queue
<1>1. LocksFit(q, "place", f) /\ CallFits(q, "place", f) /\ CallOn("place", f)
  BY OwnCall
<1>2. x \in Queues /\ MutexFits(q[x]) /\ q[x].txLock \in Nat \cup {Unlocked}
  BY <1>1 DEF CallOn, WakeInv, LocksFit
<1>3. f.op \in Receives => Wanted(q[x], "receive") <= Late(q[x], "receive")
  BY <1>1 DEF CallFits, Ends, Ops
<1> QED
  BY <1>2, <1>3, HolderKnown

LEMMA PlaceTimes ==
  ASSUME QueuesInv, CallsInv, WakeInv, TimeInv, NEW t \in Tasks, Place(t)
  PROVE  TimeInv'
<1> DEFINE f == frame[t]
           a == asked[t]
           e == elapsed[t]
<1>1. /\ k.current = t /\ pc[t] = "place" /\ k' = PlacedOnList(t, f.ticks)
      /\ Moves("unlockTx", f) /\ UNCHANGED <<asked, elapsed>>
  BY OwnCall DEF Place, At, Goto, Moves
<1>2. /\ Sound(k) /\ TimesSound(k) /\ Quiet(k) /\ CallOn(pc[t], f) /\ CallFits(q, "place", f)
      /\ CallTimed(k, t, "place", f, a, e) /\ a \in Ticks /\ e \in Nat
      /\ asked' = [asked EXCEPT ![t] = a] /\ elapsed' = [elapsed EXCEPT ![t] = e]
      /\ IsReady(k, t)
  BY <1>1, OwnCall, OwnTimes DEF Parting, Unlocking
<1>3. f.next = "yield" /\ f.ticks \in 1 .. portMAX_DELAY
  BY <1>2, KernelAssumption DEF CallFits, Ticks, portMAX_DELAY
<1>4. IsMutex(f.queue) /\ f.op \in Receives => q[f.queue].mutexHolder \in Tasks
  BY <1>1, PlaceHolder
<1>5. Still(k', k, AllTasks \ {t}) /\ WaitsFor(k', t, f.ticks)
  BY <1>1, <1>2, <1>3, <1>4, PlacedStill
<1> HIDE DEF f, a, e
<1>6. a # portMAX_DELAY => Since(f, a, e) = 0
  BY <1>2 DEF CallTimed
<1>7. CallTimed(k', t, "unlockTx", f, a, e)
  BY <1>2, <1>3, <1>5, <1>6, TimedWait
<1> QED
  BY <1>1, <1>2, <1>5, <1>7, TimesKeep

\* The alternative API: a mutex that is not there to be taken has a holder.
LEMMA AltHolder ==
  ASSUME QueuesInv, CallsInv, WakeInv, NEW t, k.current = t, pc[t] = "altWait", StillBlocked(t)
  PROVE  IsMutex(frame[t].queue) /\ frame[t].op \in Receives =>
           q[frame[t].queue].mutexHolder \in Tasks
<1> DEFINE f == frame[t]
           x == f.queue
<1>1. LocksFit(q, "altWait", f) /\ CallOn("altWait", f)
  BY OwnCall
<1>2. /\ x \in Queues /\ f.op \in Sends \cup Receives /\ MutexFits(q[x])
      /\ q[x].txLock \in Nat \cup {Unlocked}
  BY <1>1 DEF CallOn, WakeInv, LocksFit
<1>3. f.op \in Receives => Wanted(q[x], "receive") <= 0
  BY <1>1, StillBlockedWants DEF Ends, Ops
<1>4. Wanted(q[x], "receive") \in Nat /\ Late(q[x], "receive") \in Nat
  BY <1>1, <1>2, NumbersIn DEF Ends
<1>5. f.op \in Receives => Wanted(q[x], "receive") <= Late(q[x], "receive")
  BY <1>3, <1>4
<1> QED
  BY <1>2, <1>5, HolderKnown

LEMMA WaitsOn ==
  ASSUME NEW b, NEW r, NEW t, Still(r, b, {t}), NEW n, WaitsFor(b, t, n)
  PROVE  WaitsFor(r, t, n)
BY DEF Still, Rests, WaitsFor, TicksLeft

LEMMA AltWaitsTimes ==
  ASSUME QueuesInv, CallsInv, WakeInv, TimeInv, NEW t \in Tasks, AltWaits(t)
  PROVE  TimeInv'
<1> DEFINE f == frame[t]
           a == asked[t]
           e == elapsed[t]
<1>1. k.current = t /\ pc[t] = "altWait"
  BY DEF AltWaits, At
<1>2. /\ t \in AllTasks /\ Sound(k) /\ TimesSound(k) /\ Quiet(k) /\ CallOn("altWait", f)
      /\ CallFits(q, "altWait", f) /\ a \in Ticks /\ e \in Nat
      /\ asked = [asked EXCEPT ![t] = a] /\ elapsed = [elapsed EXCEPT ![t] = e]
      /\ IsReady(k, t) /\ t \notin k.suspended
  BY <1>1, OwnCall, OwnTimes DEF Parting, Unlocking
<1>3. IsFrame(f) /\ k.tick \in Ticks /\ f.ticks \in Ticks /\ f.timeOut.timeOnEntering \in Ticks
  BY <1>2, SoundTypes DEF CallOn, CallFits
<1>4. CASE TimedOut(k, f.timeOut, f.ticks)
  <2>1. /\ Moves("app", NoFrame) /\ UNCHANGED k
        /\ asked' = [asked EXCEPT ![t] = 0] /\ elapsed' = [elapsed EXCEPT ![t] = 0]
    BY <1>1, <1>4 DEF AltWaits, Return, Goto, Moves
  <2>2. Still(k', k, AllTasks)
    BY <2>1, StillSelf
  <2> QED
    BY <1>1, <1>2, <2>1, <2>2, ReturnKeeps
<1>5. CASE ~ TimedOut(k, f.timeOut, f.ticks)
  <2> DEFINE left == TicksRemaining(k, f.timeOut, f.ticks)
             noted == TimeNoted(f.ticks)
             g == [f EXCEPT !.ticks = left, !.timeOut = noted]
             b == PlacedOnList(t, left)
  <2>1. /\ g.ticks = left /\ g.timeOut = noted /\ g.entryTimeSet = f.entryTimeSet
    BY <1>3 DEF IsFrame
  <2>2. /\ pc' = [pc EXCEPT ![t] = "try"]
        /\ frame' = [frame EXCEPT ![t].ticks = left, ![t].timeOut = TimeNoted(f.ticks)]
        /\ k' = IF StillBlocked(t) THEN vTaskSwitchContext(b) ELSE k
        /\ UNCHANGED <<asked, elapsed>>
    BY <1>5 DEF AltWaits, Goto
  <2>3. Moves("try", g)
    BY <1>1, <1>2, <2>2 DEF Moves, CallsInv
  <2>4. left \in 1 .. portMAX_DELAY
    BY <1>3, <1>5, LeftFits, KernelAssumption DEF Ticks, portMAX_DELAY
  <2> HIDE DEF g
  <2>5. CallTimed(k, t, "try", g, a, e) /\ (a # portMAX_DELAY => Since(g, a, e) = 0)
    BY <1>1, <1>5, <2>1, TimedNoted DEF Unlocking
  <2>6. Still(k', k, AllTasks \ {t}) /\ CallTimed(k', t, "try", g, a, e)
    <3>1. CASE ~ StillBlocked(t)
      BY <2>2, <2>5, <3>1, StillSelf
    <3>2. CASE StillBlocked(t)
      <4>1. IsMutex(f.queue) /\ f.op \in Receives => q[f.queue].mutexHolder \in Tasks
        BY <1>1, <3>2, AltHolder
      <4>2. Still(b, k, AllTasks \ {t}) /\ WaitsFor(b, t, left) /\ Sound(b)
        BY <1>1, <1>2, <2>4, <4>1, PlacedStill, PlacedWaits
      <4>3. k' = vTaskSwitchContext(b)
        BY <2>2, <3>2
      <4> HIDE DEF b, left, f, a, e
      <4>4. Still(k', b, AllTasks)
        BY <4>2, <4>3, SwitchStill
      <4>5. Still(k', b, AllTasks \ {t}) /\ Still(k', b, {t})
        BY <1>2, <4>4 DEF Still
      <4>6. Still(k', k, AllTasks \ {t})
        BY <4>2, <4>5, StillTrans
      <4>7. WaitsFor(k', t, g.ticks)
        BY <2>1, <4>2, <4>5, WaitsOn
      <4>8. CallTimed(k', t, "try", g, a, e)
        BY <1>2, <2>5, <4>6, <4>7, TimedWait DEF Unlocking
      <4> QED
        BY <4>6, <4>8
    <3> QED
      BY <3>1, <3>2
  <2>7. asked' = [asked EXCEPT ![t] = a] /\ elapsed' = [elapsed EXCEPT ![t] = e]
    BY <1>2, <2>2
  <2> HIDE DEF a, e
  <2> QED
    BY <1>1, <1>2, <2>3, <2>6, <2>7, TimesKeep
<1> QED
  BY <1>4, <1>5

\* xTaskResumeAll: the ticks that were put off are counted, by the calls too.
LEMMA ResumeAllTimes ==
  ASSUME CallsInv, WakeInv, TimeInv, NEW t, ResumeAll(t)
  PROVE  TimeInv'
<1> DEFINE f == frame[t]
           n == k.missedTicks
<1>1. k.current = t /\ pc[t] = "resumeAll" /\ k' = xTaskResumeAll(k)
  BY DEF ResumeAll, At
<1>2. /\ Sound(k) /\ TimesSound(k) /\ k.schedulerSuspended = 1 /\ t \in AllTasks
      /\ n \in Nat /\ TICK_MOD \in Nat
  BY <1>1, OwnCall, SoundTypes, KernelAssumption DEF Held
<1>3. Counts(k', k, n) /\ k'.missedTicks = 0
  BY <1>1, <1>2, ResumeCounts
<1>4. ASSUME NEW u \in AllTasks, Timed(u) PROVE elapsed[u] + (k'.missedTicks + n) < TICK_MOD
  <2>1. CallTimed(k, u, pc[u], frame[u], asked[u], elapsed[u]) /\ elapsed[u] \in Nat
    BY DEF TimeInv
  <2>2. elapsed[u] + n < TICK_MOD
    BY <1>4, <2>1 DEF CallTimed, Timed
  <2>3. k'.missedTicks + n = n
    BY <1>2, <1>3
  <2> QED
    BY <2>2, <2>3
<1>5. k'.missedTicks \in Nat
  BY <1>3
<1> HIDE DEF n
<1>6. CASE f.next = "app"
  <2>1. /\ Moves("app", NoFrame) /\ asked' = [asked EXCEPT ![t] = 0]
        /\ elapsed' = [u \in AllTasks |-> IF u = t THEN 0 ELSE Passed(u)]
    <3>1. /\ Moves("app", NoFrame) /\ asked' = [asked EXCEPT ![t] = 0]
      BY <1>1, <1>6 DEF ResumeAll, Goto, Moves
    <3>2. elapsed' = [u \in AllTasks |-> IF u = t THEN 0
                        ELSE IF Timed(u) THEN elapsed[u] + ((k'.tick - k.tick) % TICK_MOD) ELSE elapsed[u]]
      BY <1>6 DEF ResumeAll
    <3> QED
      BY ONLY <3>1, <3>2 DEF Passed
  <2>2. /\ pc'[t] = "app" /\ frame'[t] = NoFrame
        /\ \A u \in AllTasks \ {t} : pc'[u] = pc[u] /\ frame'[u] = frame[u]
    BY <1>1, <1>2, <2>1, MovesOne
  <2>3. /\ asked' \in [AllTasks -> Ticks] /\ asked'[t] = 0
        /\ \A u \in AllTasks \ {t} : asked'[u] = asked[u]
    <3>1. asked \in [AllTasks -> Ticks] /\ 0 \in Ticks
      BY KernelAssumption DEF TimeInv, Ticks
    <3> QED
      BY <1>2, <2>1, <3>1
  <2>4. ASSUME NEW u \in AllTasks \ {t}
        PROVE  CallTimed(k', u, pc[u], frame[u], asked[u], Passed(u)) /\ Passed(u) \in Nat
    <3>1. pc[u] \notin {"isFull", "place"}
      BY <1>1 DEF WakeInv, HeldInv, Held
    <3> QED
      BY <1>2, <1>3, <1>4, <1>5, <3>1, TicksTime
  <2>5. CallTimed(k', t, "app", NoFrame, 0, 0)
    <3>1. t \notin k.suspended
      BY <1>1, <1>6, OwnTimes DEF Parting
    <3>2. t \notin k'.suspended /\ ~ NoFrame.entryTimeSet
      BY <1>2, <1>3, <3>1 DEF Counts, NoFrame
    <3> QED
      BY <3>2, TimedApp
  <2>6. /\ elapsed' \in [AllTasks -> Nat] /\ elapsed'[t] = 0
        /\ \A u \in AllTasks \ {t} : elapsed'[u] = Passed(u)
    BY <1>2, <2>1, <2>4
  <2>7. \A u \in AllTasks : CallTimed(k', u, pc'[u], frame'[u], asked'[u], elapsed'[u])
    BY <2>2, <2>3, <2>4, <2>5, <2>6
  <2> QED
    BY <2>3, <2>6, <2>7 DEF TimeInv
<1>7. CASE f.next # "app"
  <2> DEFINE p == IF f.next = "yield" /\ ~ AlreadyYielded(k) THEN "yield" ELSE "try"
  <2>1. Moves(p, f) /\ TimePasses /\ UNCHANGED asked
    BY <1>1, <1>7, OwnCall DEF ResumeAll, Goto, Moves
  <2>2. p \in {"yield", "try"} /\ p # "app"
    OBVIOUS
  <2> HIDE DEF p
  <2> QED
    BY <1>1, <1>2, <1>3, <1>4, <1>5, <2>1, <2>2, TicksKeep
<1> QED
  BY <1>6, <1>7

LEMMA TickTimes ==
  ASSUME CallsInv, WakeInv, TimeInv, vTickISR
  PROVE  TimeInv'
<1> DEFINE c == k.current
<1>1. /\ k' = vTaskSwitchContext(vTaskIncrementTick(k)) /\ UNCHANGED <<pc, frame, asked>> /\ TimePasses
      /\ \A u \in AllTasks : Timed(u) => elapsed[u] + k.missedTicks < MaxElapsed
  BY DEF vTickISR
<1>2. /\ Sound(k) /\ TimesSound(k) /\ Quiet(k) /\ c \in AllTasks /\ k.missedTicks \in Nat
      /\ pc = [pc EXCEPT ![c] = pc[c]] /\ frame = [frame EXCEPT ![c] = frame[c]]
  BY OwnCall, SoundTypes
<1>3. PICK n \in 0 .. 1 : /\ Counts(k', k, n) /\ k'.missedTicks + n = k.missedTicks + 1
                          /\ k.schedulerSuspended # 0 => n = 0
  BY <1>1, <1>2, TickCounts
<1>4. k'.missedTicks \in Nat
  <2>1. Sound(k')
    BY <1>1, <1>2, TickFollows DEF Follows
  <2> QED
    BY <2>1, SoundTypes
<1>5. ASSUME NEW u \in AllTasks, Timed(u) PROVE elapsed[u] + (k'.missedTicks + n) < TICK_MOD
  <2>1. elapsed[u] \in Nat /\ elapsed[u] + k.missedTicks < MaxElapsed
    BY <1>1, <1>5 DEF TimeInv
  <2>2. MaxElapsed \in Nat /\ MaxElapsed < TICK_MOD /\ TICK_MOD \in Nat
    BY QueueAssumption, KernelAssumption
  <2>3. elapsed[u] + (k.missedTicks + 1) < TICK_MOD
    BY <1>2, <2>1, <2>2
  <2> QED
    BY <1>3, <2>3
<1>6. Moves(pc[c], frame[c])
  BY <1>1, <1>2 DEF Moves
<1> QED
  BY <1>1, <1>3, <1>4, <1>5, <1>6, TicksKeep

\* vTaskDelay is no call on a queue.
LEMMA SleepTimes ==
  ASSUME CallsInv, WakeInv, TimeInv, NEW t \in Tasks, At(t, "app"), Sleep(t)
  PROVE  TimeInv'
<1> DEFINE f == frame[t]
           a == asked[t]
           e == elapsed[t]
<1>1. PICK n \in Ticks \ {0} : /\ k' = vTaskSwitchContext(BlockCurrentFor(k, n))
                               /\ UNCHANGED <<pc, frame, asked, elapsed>>
  BY DEF Sleep
<1>2. k.current = t /\ pc[t] = "app"
  BY DEF At
<1>3. /\ Sound(k) /\ TimesSound(k) /\ t \in AllTasks /\ a \in Ticks /\ e \in Nat
      /\ pc = [pc EXCEPT ![t] = pc[t]] /\ frame = [frame EXCEPT ![t] = f]
      /\ asked = [asked EXCEPT ![t] = a] /\ elapsed = [elapsed EXCEPT ![t] = e]
      /\ CallTimed(k, t, "app", f, a, e)
  BY <1>2, OwnCall, OwnTimes
<1>4. Moves("app", f)
  BY <1>1, <1>2, <1>3 DEF Moves
<1>5. SoundBut(k, t) /\ n \in 1 .. portMAX_DELAY /\ t # IdleTask
  BY <1>3, SoundIsSoundBut, KernelAssumption DEF Ticks, portMAX_DELAY
<1> DEFINE b == BlockCurrentFor(k, n)
<1>6. Sound(b) /\ Parted(b, k) /\ t \notin b.suspended
  BY <1>2, <1>3, <1>5, BlocksFor, BlocksWaits
<1> HIDE DEF b
<1>7. Still(k', b, AllTasks)
  BY <1>1, <1>6, SwitchStill DEF b
<1>8. Still(b, k, AllTasks \ {t}) /\ Still(k', b, AllTasks \ {t})
  BY <1>2, <1>6, <1>7, PartedStill DEF Still
<1>9. Still(k', k, AllTasks \ {t})
  BY <1>8, StillTrans
<1>10. t \notin k'.suspended /\ ~ f.entryTimeSet /\ e = 0
  BY <1>3, <1>6, <1>7 DEF Still, Rests, CallTimed
<1>11. CallTimed(k', t, "app", f, a, e)
  BY <1>10, TimedApp
<1>12. asked' = [asked EXCEPT ![t] = a] /\ elapsed' = [elapsed EXCEPT ![t] = e]
  BY <1>1, <1>3
<1> HIDE DEF f, a, e
<1> QED
  BY <1>2, <1>3, <1>4, <1>9, <1>11, <1>12, TimesKeep

\* A call that finds nothing to take, or no room: it returns, or notes the time, once.
LEMMA NotNowTimes ==
  ASSUME CallsInv, WakeInv, TimeInv, NEW t \in Tasks, k.current = t, pc[t] \in {"app", "try"},
         NEW f, IsFrame(f), NEW n, pc[t] = "try" => f = frame[t] /\ n = asked[t],
         pc[t] = "app" => ~ f.entryTimeSet /\ n \in Ticks /\ f.ticks = n,
         NotNow(t, f, n)
  PROVE  TimeInv'
<1> DEFINE e == elapsed[t]
<1>1. /\ Sound(k) /\ t \in AllTasks /\ e \in Nat /\ n \in Ticks /\ UNCHANGED k
      /\ t \notin k.suspended /\ ~ IsDelayed(k, t) /\ Quiet(k) /\ k.schedulerSuspended = 0
      /\ CallTimed(k, t, pc[t], frame[t], asked[t], e)
      /\ elapsed = [elapsed EXCEPT ![t] = e] /\ asked = [asked EXCEPT ![t] = asked[t]]
      /\ frame = [frame EXCEPT ![t] = frame[t]]
  BY OwnCall, OwnTimes DEF Parting, Unlocking, Held, NotNow
<1>2. Still(k', k, AllTasks) /\ Still(k', k, AllTasks \ {t})
  BY <1>1, StillSelf
<1>3. CASE f.ticks = 0
  <2>1. /\ Moves("app", NoFrame)
        /\ asked' = [asked EXCEPT ![t] = 0] /\ elapsed' = [elapsed EXCEPT ![t] = 0]
    BY <1>3 DEF NotNow, Return, Goto, Moves
  <2> QED
    BY <1>1, <1>2, <2>1, ReturnKeeps
<1>4. CASE f.ticks # 0
  <2> DEFINE p == IF f.alt THEN "altWait" ELSE "suspendAll"
             noted == TimeNoted(f.ticks)
             g1 == [f EXCEPT !.entryTimeSet = TRUE]
             g2 == [g1 EXCEPT !.timeOut = noted]
             g == IF f.entryTimeSet THEN f ELSE g2
  <2>1. /\ pc' = [pc EXCEPT ![t] = p] /\ frame' = [frame EXCEPT ![t] = g]
        /\ asked' = [asked EXCEPT ![t] = n] /\ UNCHANGED elapsed
    <3>1. /\ pc' = [pc EXCEPT ![t] = p] /\ asked' = [asked EXCEPT ![t] = n] /\ UNCHANGED elapsed
          /\ frame' = [frame EXCEPT ![t] =
               IF f.entryTimeSet THEN f
               ELSE [f EXCEPT !.entryTimeSet = TRUE, !.timeOut = TimeNoted(f.ticks)]]
      BY <1>4 DEF NotNow, Goto
    <3>2. g2 = [f EXCEPT !.entryTimeSet = TRUE, !.timeOut = TimeNoted(f.ticks)]
      OBVIOUS
    <3> HIDE DEF g2, p
    <3> QED
      BY <3>1, <3>2
  <2>0. g1 = [f EXCEPT !.entryTimeSet = TRUE] /\ g2 = [g1 EXCEPT !.timeOut = noted]
    OBVIOUS
  <2> HIDE DEF g1, g2
  <2>2. g1.entryTimeSet = TRUE /\ g1.ticks = f.ticks /\ IsFrame(g1)
    BY <2>0 DEF IsFrame
  <2>3. g2.entryTimeSet = TRUE /\ g2.ticks = f.ticks /\ g2.timeOut = noted
    BY <2>0, <2>2 DEF IsFrame
  <2>4. p # "app" /\ p \notin Unlocking /\ p \notin {"isFull", "place"}
    BY DEF Unlocking
  <2> HIDE DEF p, e
  <2>5. Moves(p, g) /\ elapsed' = [elapsed EXCEPT ![t] = e]
    BY <1>1, <2>1 DEF Moves
  <2>6. CASE pc[t] = "try"
    <3>1. frame[t].entryTimeSet
      BY <1>1, <2>6 DEF CallTimed
    <3>2. g = frame[t] /\ UNCHANGED <<asked, elapsed>>
      BY <1>1, <2>1, <2>6, <3>1
    <3>3. SameTimes(g, frame[t])
      BY <3>2 DEF SameTimes
    <3> HIDE DEF g
    <3> QED
      BY <1>1, <1>2, <2>4, <2>5, <2>6, <3>2, <3>3, SameTimesKeep
  <2>7. CASE pc[t] = "app"
    <3>1. g.entryTimeSet /\ g.ticks = n /\ g.timeOut = noted /\ e = 0
      BY <1>1, <2>3, <2>7 DEF CallTimed
    <3>2. k.missedTicks = 0 /\ n \in Nat /\ TICK_MOD \in Nat /\ TICK_MOD > 0
      BY <1>1, KernelAssumption DEF Quiet, Ticks
    <3>3. /\ g.ticks = IF n = portMAX_DELAY THEN n ELSE n - e
          /\ n # portMAX_DELAY => e <= n /\ e + k.missedTicks < TICK_MOD
      BY <3>1, <3>2
    <3>4. n # portMAX_DELAY => g.timeOut = vTaskSetTimeOutState(k)
      BY <2>7, <3>1 DEF TimeNoted
    <3> HIDE DEF g
    <3>5. CallTimed(k, t, p, g, n, e)
      BY <1>1, <2>4, <3>1, <3>3, <3>4, TimedAnew
    <3>6. CallTimed(k', t, p, g, n, e)
      BY <1>1, <3>5
    <3> QED
      BY <1>1, <1>2, <2>1, <2>5, <3>6, TimesKeep
  <2> QED
    BY <2>6, <2>7
<1> QED
  BY <1>3, <1>4

LEMMA TryTimes ==
  ASSUME CallsInv, WakeInv, TimeInv, NEW t \in Tasks, k.current = t, pc[t] \in {"app", "try"},
         NEW f, IsFrame(f), f.queue \in Queues, NEW n,
         pc[t] = "try" => f = frame[t] /\ n = asked[t],
         pc[t] = "app" => ~ f.entryTimeSet /\ n \in Ticks /\ f.ticks = n,
         f.op \in Sends /\ IsMutex(f.queue) => q[f.queue].mutexHolder = t,
         Try(t, f, n)
  PROVE  TimeInv'
<1> DEFINE x == f.queue
           kd == Disinherited(x)
<1>1. /\ Sound(k) /\ TimesSound(k) /\ t \in AllTasks \ {IdleTask} /\ IsReady(k, t) /\ t \notin k.suspended
  BY OwnCall, OwnTimes, KernelAssumption DEF Parting, Unlocking
<1>2. <<x, "receive">> \in EventLists /\ <<x, "send">> \in EventLists
  BY QueueAssumption
<1>3. ASSUME Return(t), Still(k', k, AllTasks) PROVE TimeInv'
  <2>1. /\ Moves("app", NoFrame)
        /\ asked' = [asked EXCEPT ![t] = 0] /\ elapsed' = [elapsed EXCEPT ![t] = 0]
    BY <1>3 DEF Return, Goto, Moves
  <2> QED
    BY <1>1, <1>3, <2>1, ReturnKeeps
<1>4. CASE TrySend(t, f, n) /\ HasRoom(x)
  <2>1. Return(t) /\ k' = WakeFirst(kd, <<x, "receive">>) /\ f.op \in Sends
    BY <1>4 DEF TrySend
  <2>2. kd = k \/ kd = vTaskPriorityDisinherit(k, t)
    BY <2>1 DEF Disinherited
  <2>3. Sound(kd) /\ TimesSound(kd) /\ Still(kd, k, AllTasks)
    BY <1>1, <2>2, DisinheritFollows, DisinheritStill, StillSelf DEF Follows
  <2> HIDE DEF kd
  <2>4. Still(k', kd, AllTasks)
    BY <1>2, <2>1, <2>3, WakeFirstStill
  <2>5. Still(k', k, AllTasks)
    BY <2>3, <2>4, StillTrans
  <2> QED
    BY <1>3, <2>1, <2>5
<1>5. CASE TryReceive(t, f, n) /\ HasItem(x)
  <2>1. Return(t) /\ k' = WakeFirst(k, <<x, IF f.op = "peek" THEN "receive" ELSE "send">>)
    BY <1>5 DEF TryReceive
  <2>2. Still(k', k, AllTasks)
    BY <1>1, <1>2, <2>1, WakeFirstStill
  <2> QED
    BY <1>3, <2>1, <2>2
<1>6. CASE NotNow(t, f, n)
  BY <1>6, NotNowTimes
<1> QED
  BY <1>4, <1>5, <1>6 DEF Try, TrySend, TryReceive

LEMMA RetryTimes ==
  ASSUME CallsInv, WakeInv, TimeInv, NEW t \in Tasks, Retry(t)
  PROVE  TimeInv'
<1> DEFINE f == frame[t]
<1>1. k.current = t /\ pc[t] = "try" /\ Try(t, f, asked[t])
  BY DEF Retry, At
<1>2. CallOn("try", f) /\ CallFits(q, "try", f)
  BY <1>1, OwnCall
<1>3. /\ IsFrame(f) /\ f.queue \in Queues /\ (IsMutex(f.queue) => f.op \notin Sends)
  BY <1>2 DEF CallOn, CallFits, IsMutex, Mutexes, Sends, Receives
<1>4. pc[t] \in {"app", "try"} /\ pc[t] # "app"
  BY <1>1
<1>5. (pc[t] = "try" => f = frame[t])
  OBVIOUS
<1> HIDE DEF f
<1> QED
  BY <1>1, <1>3, <1>4, <1>5, TryTimes

-------------------------------------------------------------------------------
(* All the steps, and time *)

\* A call, by either interface.
LEMMA CallTimes ==
  ASSUME CallsInv, WakeInv, TimeInv, NEW t \in Tasks, At(t, "app"), NEW x \in Queues,
         NEW item, NEW op, NEW n \in Ticks, op \in Sends /\ IsMutex(x) => q[x].mutexHolder = t,
         Call(t, op, x, item, n) \/ AltCall(t, op, x, item, n)
  PROVE  TimeInv'
<1> DEFINE f1 == [NoFrame EXCEPT !.op = op]
           f2 == [f1 EXCEPT !.queue = x]
           f3 == [f2 EXCEPT !.item = item]
           f == [f3 EXCEPT !.ticks = n]
           alt == TRUE
           g == [f EXCEPT !.alt = alt]
<1>1. Try(t, f, n) \/ Try(t, g, n)
  BY DEF Call, AltCall
<1>2. /\ f1 = [NoFrame EXCEPT !.op = op] /\ f2 = [f1 EXCEPT !.queue = x]
      /\ f3 = [f2 EXCEPT !.item = item] /\ f = [f3 EXCEPT !.ticks = n]
      /\ g = [f EXCEPT !.alt = alt]
  OBVIOUS
<1> HIDE DEF f1, f2, f3, f, alt, g
<1>3. ~ NoFrame.entryTimeSet
  BY DEF NoFrame
<1>4. IsFrame(f1) /\ f1.op = op /\ f1.entryTimeSet = NoFrame.entryTimeSet
  BY <1>2, NoFrameIsFrame DEF IsFrame
<1>5. IsFrame(f2) /\ f2.queue = x /\ f2.op = f1.op /\ f2.entryTimeSet = f1.entryTimeSet
  BY <1>2, <1>4 DEF IsFrame
<1>6. IsFrame(f3) /\ f3.queue = f2.queue /\ f3.op = f2.op /\ f3.entryTimeSet = f2.entryTimeSet
  BY <1>2, <1>5 DEF IsFrame
<1>7. /\ IsFrame(f) /\ f.queue = f3.queue /\ f.op = f3.op
      /\ f.entryTimeSet = f3.entryTimeSet /\ f.ticks = n
  BY <1>2, <1>6 DEF IsFrame
<1>8. /\ IsFrame(g) /\ g.queue = f.queue /\ g.op = f.op
      /\ g.entryTimeSet = f.entryTimeSet /\ g.ticks = f.ticks
  BY <1>2, <1>7 DEF IsFrame
<1>9. k.current = t /\ pc[t] = "app"
  BY DEF At
<1>10. ASSUME NEW h, IsFrame(h), h.queue = x, h.op = op, h.ticks = n, ~ h.entryTimeSet, Try(t, h, n)
       PROVE  TimeInv'
  <2>1. /\ h.queue \in Queues /\ (h.op \in Sends /\ IsMutex(h.queue) => q[h.queue].mutexHolder = t)
        /\ pc[t] \in {"app", "try"} /\ pc[t] # "try"
    BY <1>9, <1>10
  <2> QED
    BY ONLY CallsInv, WakeInv, TimeInv, t \in Tasks, n \in Ticks, <1>9, <1>10, <2>1, TryTimes
<1>11. IsFrame(f) /\ f.queue = x /\ f.op = op /\ f.ticks = n /\ ~ f.entryTimeSet
  BY <1>3, <1>4, <1>5, <1>6, <1>7
<1>12. IsFrame(g) /\ g.queue = x /\ g.op = op /\ g.ticks = n /\ ~ g.entryTimeSet
  BY <1>8, <1>11
<1> QED
  BY <1>1, <1>10, <1>11, <1>12

LEMMA BeginTimes ==
  ASSUME CallsInv, WakeInv, TimeInv, NEW t \in Tasks, Begin(t)
  PROVE  TimeInv'
<1>1. At(t, "app")
  BY DEF Begin
<1>2. /\ 0 \in Ticks /\ "receive" \in Receives
      /\ \A op \in Receives : op \notin Sends
      /\ \A x \in Queues : ItemsFor(x) \subseteq Items
  BY KernelAssumption, NothingIsItem DEF Ticks, Sends, Receives, ItemsFor
<1>3. CASE Send(t)
  <2>1. PICK x \in Queues, n \in Ticks, op \in Sends, item \in Items :
          ~ IsMutex(x) /\ Call(t, op, x, item, n)
    BY <1>2, <1>3 DEF Send
  <2> QED
    BY <1>1, <2>1, CallTimes
<1>4. CASE Receive(t) \/ TakeMutex(t) \/ AltReceive(t)
  <2>1. PICK x \in Queues, n \in Ticks, op \in Receives :
          Call(t, op, x, Nothing, n) \/ AltCall(t, op, x, Nothing, n)
    BY <1>2, <1>4 DEF Receive, TakeMutex, AltReceive
  <2> QED
    BY <1>1, <1>2, <2>1, CallTimes
<1>5. CASE GiveMutex(t)
  <2>1. PICK x \in Queues : q[x].mutexHolder = t /\ Call(t, "sendToBack", x, Nothing, 0)
    BY <1>5 DEF GiveMutex
  <2> QED
    BY <1>1, <1>2, <2>1, CallTimes
<1>6. CASE AltSend(t)
  <2>1. PICK x \in Queues, n \in Ticks, op \in Sends, item \in Items :
          /\ q[x].kind = "mutex" => q[x].mutexHolder = t
          /\ AltCall(t, op, x, item, n)
    BY <1>2, <1>6 DEF AltSend
  <2>2. q[x].kind # "recursive"
    BY <2>1, QueueAssumption DEF AltCall
  <2>3. IsMutex(x) => q[x].mutexHolder = t
    BY <2>1, <2>2 DEF IsMutex
  <2> QED
    BY <1>1, <2>1, <2>3, CallTimes
<1>7. CASE Nest(t)
  <2>1. UNCHANGED <<k, pc, frame, asked, elapsed>>
    BY <1>7 DEF Nest
  <2> QED
    BY <2>1 DEF TimeInv
<1>8. CASE Sleep(t)
  BY <1>1, <1>8, SleepTimes
<1> QED
  BY <1>3, <1>4, <1>5, <1>6, <1>7, <1>8 DEF Begin

LEMMA ContinueTimes ==
  ASSUME QueuesInv, CallsInv, WakeInv, TimeInv, NEW t \in Tasks, Continue(t)
  PROVE  TimeInv'
<1>1. CASE Retry(t) \/ SuspendAll(t) \/ LockAndCheck(t) \/ IsFullOrEmpty(t) \/ Place(t)
  BY <1>1, RetryTimes, SuspendAllTimes, LockAndCheckTimes, IsFullOrEmptyTimes, PlaceTimes
<1>2. CASE UnlockTx(t) \/ UnlockRx(t) \/ ResumeAll(t) \/ Yield(t)
  BY <1>2, UnlockTxTimes, UnlockRxTimes, ResumeAllTimes, YieldTimes
<1>3. CASE AltSendWaits(t) \/ AltReceiveWaits(t)
  BY <1>3, AltWaitsTimes DEF AltSendWaits, AltReceiveWaits
<1> QED
  BY <1>1, <1>2, <1>3 DEF Continue

LEMMA InterruptTimes ==
  ASSUME CallsInv, WakeInv, TimeInv, Interrupt
  PROVE  TimeInv'
<1>1. CASE vTickISR
  BY <1>1, TickTimes
<1>2. ASSUME NEW x \in Queues, xQueueReceiveFromISR(x) PROVE TimeInv'
  <2> DEFINE e == <<x, "send">>
  <2>1. e \in EventLists /\ UNCHANGED <<pc, frame, asked, elapsed>>
    BY <1>2, QueueAssumption DEF xQueueReceiveFromISR
  <2>2. k' = k \/ k' = IF k.event[e] = <<>> THEN k ELSE xTaskRemoveFromEventList(k, e)
    BY <1>2 DEF xQueueReceiveFromISR
  <2> HIDE DEF e
  <2> QED
    BY <2>1, <2>2, HandlerTimes
<1>3. ASSUME NEW x \in Queues, NEW item, NEW op, xQueueGenericSendFromISR(x, item, op)
      PROVE  TimeInv'
  <2> DEFINE e == <<x, "receive">>
  <2>1. e \in EventLists /\ UNCHANGED <<pc, frame, asked, elapsed>>
    BY <1>3, QueueAssumption DEF xQueueGenericSendFromISR
  <2>2. k' = k \/ k' = IF k.event[e] = <<>> THEN k ELSE xTaskRemoveFromEventList(k, e)
    BY <1>3 DEF xQueueGenericSendFromISR
  <2> HIDE DEF e
  <2> QED
    BY <2>1, <2>2, HandlerTimes
<1> QED
  BY <1>1, <1>2, <1>3 DEF Interrupt

LEMMA TimeNext ==
  ASSUME QueuesInv, CallsInv, WakeInv, TimeInv, [Next]_vars
  PROVE  TimeInv'
<1>1. CASE Next
  BY <1>1, BeginTimes, ContinueTimes, InterruptTimes DEF Next
<1>2. CASE UNCHANGED vars
  <2>1. UNCHANGED <<k, pc, frame, asked, elapsed>>
    BY <1>2 DEF vars
  <2> QED
    BY <2>1 DEF TimeInv
<1> QED
  BY <1>1, <1>2

LEMMA TimeInit == Init => TimeInv
<1> SUFFICES ASSUME Init PROVE TimeInv
  OBVIOUS
<1>1. PICK kinds \in Uses : k = Booted(BootOrder[kinds], InitPriority)
  BY DEF Init
<1>2. Started(k)
  BY <1>1, QueueAssumption, BootedSound
<1>3. 0 \in Ticks /\ ~ NoFrame.entryTimeSet
  BY KernelAssumption DEF Ticks, NoFrame
<1>4. /\ asked = [t \in AllTasks |-> 0] /\ elapsed = [t \in AllTasks |-> 0]
      /\ \A t \in AllTasks : pc[t] = "app" /\ frame[t] = NoFrame
  BY DEF Init
<1>5. ASSUME NEW t \in AllTasks PROVE CallTimed(k, t, pc[t], frame[t], asked[t], elapsed[t])
  <2>1. t \notin k.suspended /\ pc[t] = "app" /\ ~ frame[t].entryTimeSet /\ elapsed[t] = 0
    BY <1>2, <1>3, <1>4 DEF Started
  <2> QED
    BY <2>1, TimedApp
<1>6. asked \in [AllTasks -> Ticks] /\ elapsed \in [AllTasks -> Nat]
  BY <1>3, <1>4
<1> QED
  BY <1>5, <1>6 DEF TimeInv

LEMMA TimeImplies ==
  ASSUME CallsInv, WakeInv, TimeInv
  PROVE  TimeoutHonest
<1> SUFFICES ASSUME NEW t \in Tasks
             PROVE  /\ IsDelayed(k, t) /\ ~IsPending(k, t) /\ pc[t] # "app" =>
                         asked[t] - elapsed[t] = (k.wake[t] - k.tick) % TICK_MOD
                    /\ t \in k.suspended => asked[t] = portMAX_DELAY
                    /\ pc[t] \in Unlocking /\ frame[t].next = "app" =>
                         asked[t] # portMAX_DELAY /\ elapsed[t] >= asked[t]
                    /\ pc[t] = "altWait" /\ TimedOut(k, frame[t].timeOut, frame[t].ticks) =>
                         asked[t] # portMAX_DELAY /\ elapsed[t] >= asked[t]
  BY DEF TimeoutHonest, Unlocking
<1> DEFINE f == frame[t]
<1>1. /\ CallTimed(k, t, pc[t], f, asked[t], elapsed[t])
      /\ asked[t] \in Ticks /\ elapsed[t] \in Nat /\ "app" \notin Unlocking
  BY DEF TimeInv, AllTasks, Unlocking
<1>2. Sound(k) /\ f.timeOut.timeOnEntering \in Ticks
  BY OwnCall DEF WakeInv, CallFits, AllTasks
<1> HIDE DEF f
<1>3. ASSUME IsDelayed(k, t), ~IsPending(k, t), pc[t] # "app"
      PROVE  asked[t] - elapsed[t] = (k.wake[t] - k.tick) % TICK_MOD
  BY <1>1, <1>3 DEF CallTimed, TicksLeft
<1>4. ASSUME t \in k.suspended PROVE asked[t] = portMAX_DELAY
  BY <1>1, <1>4 DEF CallTimed
<1>5. ASSUME pc[t] \in Unlocking, f.next = "app"
      PROVE  asked[t] # portMAX_DELAY /\ elapsed[t] >= asked[t]
  BY <1>1, <1>5 DEF CallTimed
<1>6. ASSUME pc[t] = "altWait", TimedOut(k, f.timeOut, f.ticks)
      PROVE  asked[t] # portMAX_DELAY /\ elapsed[t] >= asked[t]
  BY <1>1, <1>2, <1>6, CheckIsExact
<1> QED
  BY <1>3, <1>4, <1>5, <1>6 DEF f

\* Time-outs are honest, wherever the tick count wraps around and however often a wait is
\* interrupted: a task on a timed wait has exactly what is left of the block time of its
\* call, only an endless wait suspends it, and a call that gives up has waited all of it.
THEOREM TimeOutsAreHonest == Spec => []TimeoutHonest
<1>1. Init => QueuesInv /\ CallsInv /\ WakeInv /\ TimeInv
  BY QueueInit, WakeInit, TimeInit
<1>2. QueuesInv /\ CallsInv /\ WakeInv /\ TimeInv /\ [Next]_vars
        => QueuesInv' /\ CallsInv' /\ WakeInv' /\ TimeInv'
  BY QueueNext, WakeNext, TimeNext
<1>3. CallsInv /\ WakeInv /\ TimeInv => TimeoutHonest
  BY TimeImplies
<1> QED
  BY <1>1, <1>2, <1>3, PTL DEF Spec

===============================================================================
