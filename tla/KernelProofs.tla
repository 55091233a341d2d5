------------------------------- MODULE KernelProofs -------------------------------
(***************************************************************************)
(* What the operations of TaskLists do to the kernel's lists, for every    *)
(* set of tasks, number of priorities and width of the tick count: each    *)
(* task stays in the lists it belongs to, and the delayed lists stay       *)
(* sorted.  The modules that model the API cite one lemma per operation.   *)
(***************************************************************************)
EXTENDS TaskLists, FoldTheorems, TLAPS

Sorted(list, value) ==
  \A i, j \in 1 .. Len(list) : i < j => value[list[i]] <= value[list[j]]

-------------------------------------------------------------------------------
(* list.c *)

\* A list as a set of its items.
LEMMA InList ==
  ASSUME NEW S, NEW s \in Seq(S)
  PROVE  /\ \A u : u \in ToSet(s) <=> \E i \in 1 .. Len(s) : s[i] = u
         /\ ToSet(s) \subseteq S
         /\ s = <<>> <=> ToSet(s) = {}
         /\ IsInjective(s) <=> \A i, j \in 1 .. Len(s) : s[i] = s[j] => i = j
         /\ s # <<>> => Len(s) > 0 /\ Head(s) = s[1] /\ Head(s) \in ToSet(s)
BY DEF ToSet, IsInjective

\* r is s without its i-th item.
IsWithout(r, s, i) ==
  /\ Len(r) = Len(s) - 1
  /\ \A j \in 1 .. Len(r) : r[j] = IF j < i THEN s[j] ELSE s[j + 1]

\* Two sequences, joined.
LEMMA Joined ==
  ASSUME NEW S, NEW a \in Seq(S), NEW b \in Seq(S)
  PROVE  /\ a \o b \in Seq(S) /\ Len(a \o b) = Len(a) + Len(b)
         /\ \A j \in 1 .. Len(a) : (a \o b)[j] = a[j]
         /\ \A j \in 1 .. Len(b) : (a \o b)[Len(a) + j] = b[j]
OBVIOUS

\* Two parts around the i-th item, joined, leave that item out.
LEMMA JoinWithout ==
  ASSUME NEW S, NEW s \in Seq(S), NEW i \in 1 .. Len(s), NEW a \in Seq(S), NEW b \in Seq(S),
         Len(a) = i - 1, \A j \in 1 .. i - 1 : a[j] = s[j],
         Len(b) = Len(s) - i, \A j \in 1 .. Len(s) - i : b[j] = s[i + j]
  PROVE  a \o b \in Seq(S) /\ IsWithout(a \o b, s, i)
<1>1. ASSUME NEW j \in 1 .. Len(s) - 1
      PROVE  (a \o b)[j] = IF j < i THEN s[j] ELSE s[j + 1]
  <2>1. CASE j < i
    <3>1. (a \o b)[j] = a[j]
      BY <2>1, Joined
    <3>2. QED
      BY <2>1, <3>1
  <2>2. CASE ~ (j < i)
    <3>1. j - (i - 1) \in 1 .. Len(b) /\ Len(a) + (j - (i - 1)) = j
      BY <2>2
    <3>0. (a \o b)[j] = b[j - (i - 1)]
      BY <3>1, Joined
    <3>2. b[j - (i - 1)] = s[i + (j - (i - 1))] /\ i + (j - (i - 1)) = j + 1
      BY <3>1
    <3>3. QED
      BY <2>2, <3>0, <3>2
  <2>3. QED
    BY <2>1, <2>2
<1>2. a \o b \in Seq(S) /\ Len(a \o b) = Len(s) - 1
  <2>1. a \o b \in Seq(S) /\ Len(a \o b) = Len(a) + Len(b)
    BY Joined
  <2>2. (i - 1) + (Len(s) - i) = Len(s) - 1
    OBVIOUS
  <2>3. QED
    BY <2>1, <2>2
<1>3. QED
  BY <1>1, <1>2 DEF IsWithout

\* vListRemove's step on a list: one item out, the order of the others kept.
LEMMA RemoveAtTakesOut ==
  ASSUME NEW S, NEW s \in Seq(S), NEW i \in 1 .. Len(s)
  PROVE  RemoveAt(s, i) \in Seq(S) /\ IsWithout(RemoveAt(s, i), s, i)
<1>1. /\ SubSeq(s, 1, i - 1) \in Seq(S) /\ Len(SubSeq(s, 1, i - 1)) = i - 1
      /\ \A j \in 1 .. i - 1 : SubSeq(s, 1, i - 1)[j] = s[j]
  OBVIOUS
<1>2. /\ SubSeq(s, i + 1, Len(s)) \in Seq(S) /\ Len(SubSeq(s, i + 1, Len(s))) = Len(s) - i
      /\ \A j \in 1 .. Len(s) - i : SubSeq(s, i + 1, Len(s))[j] = s[i + j]
  OBVIOUS
<1>3. QED
  BY <1>1, <1>2, JoinWithout DEF RemoveAt

\* vListRemove takes one item out and leaves the order of the others; it leaves a
\* list that does not hold the task as it is.
LEMMA ListRemove ==
  ASSUME NEW S, NEW s \in Seq(S), NEW t, IsInjective(s)
  PROVE  /\ vListRemove(s, t) \in Seq(S)
         /\ IsInjective(vListRemove(s, t))
         /\ ToSet(vListRemove(s, t)) = ToSet(s) \ {t}
         /\ t \notin ToSet(s) => vListRemove(s, t) = s
         /\ \E i \in Nat : \/ vListRemove(s, t) = s
                           \/ i \in 1 .. Len(s) /\ IsWithout(vListRemove(s, t), s, i)
<1>1. CASE t \notin ToSet(s)
  <2>1. vListRemove(s, t) = s
    BY <1>1 DEF vListRemove
  <2>2. QED
    BY <1>1, <2>1
<1>2. CASE t \in ToSet(s)
  <2>1. PICK i \in 1 .. Len(s) : s[i] = t
    BY <1>2, InList
  <2>2. \A j \in 1 .. Len(s) : s[j] = t => j = i
    BY <2>1, InList
  <2>3. (CHOOSE j \in DOMAIN s : s[j] = t) = i
    BY <2>1, <2>2
  <2>4. vListRemove(s, t) = RemoveAt(s, i)
    BY <1>2, <2>3 DEF vListRemove
  <2> DEFINE r == RemoveAt(s, i)
  <2>5. r \in Seq(S) /\ IsWithout(r, s, i)
    BY RemoveAtTakesOut
  <2> HIDE DEF r
  <2>6. /\ Len(r) = Len(s) - 1
        /\ \A j \in 1 .. Len(r) : r[j] = IF j < i THEN s[j] ELSE s[j + 1]
    BY <2>5 DEF IsWithout
  <2>7. IsInjective(r)
    <3>1. ASSUME NEW j \in 1 .. Len(r), NEW m \in 1 .. Len(r), r[j] = r[m] PROVE j = m
      <4> DEFINE J == IF j < i THEN j ELSE j + 1
                 M == IF m < i THEN m ELSE m + 1
      <4>1. J \in 1 .. Len(s) /\ M \in 1 .. Len(s) /\ r[j] = s[J] /\ r[m] = s[M]
        BY <2>6
      <4>2. \A a, b \in 1 .. Len(s) : s[a] = s[b] => a = b
        BY InList
      <4>3. J = M
        <5> HIDE DEF J, M
        <5> QED
          BY <3>1, <4>1, <4>2
      <4>4. QED
        BY <4>3
    <3>2. QED
      BY <2>5, <3>1, InList
  <2>8. ToSet(r) = ToSet(s) \ {t}
    <3>1. ASSUME NEW u \in ToSet(r) PROVE u \in ToSet(s) \ {t}
      <4>1. PICK j \in 1 .. Len(r) : r[j] = u
        BY <2>5, InList
      <4> DEFINE J == IF j < i THEN j ELSE j + 1
      <4>2. J \in 1 .. Len(s) /\ r[j] = s[J] /\ J # i
        BY <2>6
      <4>3. QED
        BY <2>2, <4>1, <4>2, InList
    <3>2. ASSUME NEW u \in ToSet(s) \ {t} PROVE u \in ToSet(r)
      <4>1. PICK j \in 1 .. Len(s) : s[j] = u
        BY InList
      <4>2. j # i
        BY <2>1, <4>1
      <4> DEFINE J == IF j < i THEN j ELSE j - 1
      <4>3. J \in 1 .. Len(r) /\ r[J] = s[j]
        <5>1. CASE j < i
          BY <2>6, <5>1
        <5>2. CASE j > i
          BY <2>6, <5>2
        <5>3. QED
          BY <4>2, <5>1, <5>2
      <4>4. QED
        BY <2>5, <4>1, <4>3, InList
    <3>3. QED
      BY <3>1, <3>2
  <2>9. QED
    BY <1>2, <2>4, <2>5, <2>7, <2>8 DEF r
<1>3. QED
  BY <1>1, <1>2

\* A sorted list without one of its items is sorted.
LEMMA RemoveKeepsOrder ==
  ASSUME NEW S, NEW s \in Seq(S), NEW t, IsInjective(s), NEW value, Sorted(s, value)
  PROVE  Sorted(vListRemove(s, t), value)
<1> DEFINE r == vListRemove(s, t)
<1>1. r \in Seq(S) /\ \E i \in Nat : r = s \/ (i \in 1 .. Len(s) /\ IsWithout(r, s, i))
  BY ListRemove
<1> HIDE DEF r
<1>2. CASE r = s
  BY <1>2 DEF r
<1>3. ASSUME NEW i \in 1 .. Len(s), IsWithout(r, s, i) PROVE Sorted(r, value)
  <2>1. ASSUME NEW j \in 1 .. Len(r), NEW m \in 1 .. Len(r), j < m
        PROVE  value[r[j]] <= value[r[m]]
    <3> DEFINE J == IF j < i THEN j ELSE j + 1
               M == IF m < i THEN m ELSE m + 1
    <3>1. J \in 1 .. Len(s) /\ M \in 1 .. Len(s) /\ J < M /\ r[j] = s[J] /\ r[m] = s[M]
      BY <1>1, <1>3, <2>1 DEF IsWithout
    <3>2. QED
      BY <3>1 DEF Sorted
  <2>2. QED
    BY <2>1 DEF Sorted
<1>4. QED
  BY <1>1, <1>2, <1>3 DEF r

\* r is s with t as its i-th item.
IsWith(r, s, i, t) ==
  /\ Len(r) = Len(s) + 1
  /\ \A j \in 1 .. Len(r) : r[j] = IF j < i THEN s[j] ELSE IF j = i THEN t ELSE s[j - 1]

LEMMA JoinLen ==
  ASSUME NEW S, NEW s \in Seq(S), NEW t \in Seq(S)
  PROVE  s \o t \in Seq(S) /\ Len(s \o t) = Len(s) + Len(t)
OBVIOUS

\* A part that ends in t, joined with the rest of s, puts t into s.
LEMMA JoinBehind ==
  ASSUME NEW S, NEW s \in Seq(S), NEW t \in S, NEW i \in 1 .. Len(s) + 1,
         NEW a \in Seq(S), NEW b \in Seq(S),
         Len(a) = i, \A j \in 1 .. i - 1 : a[j] = s[j], a[i] = t,
         Len(b) = Len(s) + 1 - i, \A j \in 1 .. Len(s) + 1 - i : b[j] = s[i - 1 + j]
  PROVE  a \o b \in Seq(S) /\ IsWith(a \o b, s, i, t)
<1>1. a \o b \in Seq(S) /\ Len(a \o b) = Len(s) + 1
  <2>1. a \o b \in Seq(S) /\ Len(a \o b) = Len(a) + Len(b)
    BY JoinLen
  <2>2. Len(a) + Len(b) = Len(s) + 1
    OBVIOUS
  <2>3. QED
    BY <2>1, <2>2
<1>2. ASSUME NEW j \in 1 .. Len(s) + 1
      PROVE  (a \o b)[j] = IF j < i THEN s[j] ELSE IF j = i THEN t ELSE s[j - 1]
  <2>1. CASE j <= i
    <3>1. (a \o b)[j] = a[j]
      BY <2>1
    <3>2. j < i => a[j] = s[j]
      OBVIOUS
    <3>3. QED
      BY <2>1, <3>1, <3>2
  <2>2. CASE j > i
    <3>1. (a \o b)[j] = b[j - i]
      BY <2>2
    <3>2. j - i \in 1 .. Len(s) + 1 - i /\ i - 1 + (j - i) = j - 1
      BY <2>2
    <3>3. b[j - i] = s[j - 1]
      BY <3>2
    <3>4. QED
      BY <2>2, <3>1, <3>3
  <2>3. QED
    BY <2>1, <2>2
<1>3. QED
  BY <1>1, <1>2 DEF IsWith

\* Two parts of s with t between them put t into s.
LEMMA JoinWith ==
  ASSUME NEW S, NEW s \in Seq(S), NEW t \in S, NEW i \in 1 .. Len(s) + 1,
         NEW a \in Seq(S), NEW b \in Seq(S),
         Len(a) = i - 1, \A j \in 1 .. i - 1 : a[j] = s[j],
         Len(b) = Len(s) + 1 - i, \A j \in 1 .. Len(s) + 1 - i : b[j] = s[i - 1 + j]
  PROVE  (a \o <<t>>) \o b \in Seq(S) /\ IsWith((a \o <<t>>) \o b, s, i, t)
<1>1. a \o <<t>> \in Seq(S) /\ Len(a \o <<t>>) = i
      /\ (\A j \in 1 .. i - 1 : (a \o <<t>>)[j] = s[j]) /\ (a \o <<t>>)[i] = t
  OBVIOUS
<1>2. ASSUME NEW c \in Seq(S), Len(c) = i, \A j \in 1 .. i - 1 : c[j] = s[j], c[i] = t
      PROVE  c \o b \in Seq(S) /\ IsWith(c \o b, s, i, t)
  BY <1>2, JoinBehind
<1>3. QED
  BY <1>1, <1>2

\* vListInsert's step on a list: one item in, the order of the others kept.
LEMMA InsertAtPutsIn ==
  ASSUME NEW S, NEW s \in Seq(S), NEW t \in S, NEW i \in 1 .. Len(s)
  PROVE  InsertAt(s, i, t) \in Seq(S) /\ IsWith(InsertAt(s, i, t), s, i, t)
<1>1. /\ SubSeq(s, 1, i - 1) \in Seq(S) /\ Len(SubSeq(s, 1, i - 1)) = i - 1
      /\ \A j \in 1 .. i - 1 : SubSeq(s, 1, i - 1)[j] = s[j]
  OBVIOUS
<1>2. /\ SubSeq(s, i, Len(s)) \in Seq(S) /\ Len(SubSeq(s, i, Len(s))) = Len(s) + 1 - i
      /\ \A j \in 1 .. Len(s) + 1 - i : SubSeq(s, i, Len(s))[j] = s[i - 1 + j]
  OBVIOUS
<1>3. i \in 1 .. Len(s) + 1
  OBVIOUS
<1>4. QED
  BY <1>1, <1>2, <1>3, JoinWith DEF InsertAt

\* vListInsertEnd's step on a list.
LEMMA AppendPutsIn ==
  ASSUME NEW S, NEW s \in Seq(S), NEW t \in S
  PROVE  Append(s, t) \in Seq(S) /\ IsWith(Append(s, t), s, Len(s) + 1, t)
BY DEF IsWith

\* Putting a new task in adds it, wherever it is put.
LEMMA WithAdds ==
  ASSUME NEW S, NEW s \in Seq(S), NEW t \in S, NEW i \in 1 .. Len(s) + 1,
         NEW r \in Seq(S), IsWith(r, s, i, t)
  PROVE  /\ ToSet(r) = ToSet(s) \cup {t}
         /\ IsInjective(s) /\ t \notin ToSet(s) => IsInjective(r)
<1>1. /\ Len(r) = Len(s) + 1
      /\ \A j \in 1 .. Len(r) : r[j] = IF j < i THEN s[j] ELSE IF j = i THEN t ELSE s[j - 1]
  BY DEF IsWith
<1>2. ASSUME NEW u \in ToSet(r) PROVE u \in ToSet(s) \cup {t}
  <2>1. PICK j \in 1 .. Len(r) : r[j] = u
    BY InList
  <2> DEFINE J == IF j < i THEN j ELSE j - 1
  <2>2. j = i \/ (J \in 1 .. Len(s) /\ r[j] = s[J])
    BY <1>1
  <2>3. CASE j = i
    BY <1>1, <2>1, <2>3
  <2>4. CASE j # i
    BY <2>1, <2>2, <2>4, InList
  <2>5. QED
    BY <2>3, <2>4
<1>3. ASSUME NEW u \in ToSet(s) PROVE u \in ToSet(r)
  <2>1. PICK j \in 1 .. Len(s) : s[j] = u
    BY InList
  <2> DEFINE J == IF j < i THEN j ELSE j + 1
  <2>2. J \in 1 .. Len(r) /\ r[J] = s[j]
    BY <1>1
  <2>3. QED
    BY <2>1, <2>2, InList
<1>4. t \in ToSet(r)
  <2>1. i \in 1 .. Len(r) /\ r[i] = t
    BY <1>1
  <2>2. QED
    BY <2>1, InList
<1>5. ASSUME IsInjective(s), t \notin ToSet(s) PROVE IsInjective(r)
  <2>1. \A j \in 1 .. Len(s) : s[j] # t
    BY <1>5, InList
  <2>2. \A j, m \in 1 .. Len(s) : s[j] = s[m] => j = m
    BY <1>5, InList
  <2>3. ASSUME NEW j \in 1 .. Len(r), NEW m \in 1 .. Len(r), r[j] = r[m] PROVE j = m
    <3> DEFINE J == IF j < i THEN j ELSE j - 1
               M == IF m < i THEN m ELSE m - 1
    <3>1. j # i => J \in 1 .. Len(s) /\ r[j] = s[J]
      BY <1>1
    <3>2. m # i => M \in 1 .. Len(s) /\ r[m] = s[M]
      BY <1>1
    <3>3. r[i] = t
      BY <1>1
    <3>4. CASE j = i \/ m = i
      BY <2>1, <2>3, <3>1, <3>2, <3>3, <3>4
    <3>5. CASE j # i /\ m # i
      <4>1. J = M
        BY <2>2, <2>3, <3>1, <3>2, <3>5
      <4>2. QED
        BY <3>5, <4>1
    <3>6. QED
      BY <3>4, <3>5
  <2>4. QED
    BY <2>3, InList
<1>6. QED
  BY <1>2, <1>3, <1>4, <1>5

\* vListInsertEnd.
LEMMA ListInsertEnd ==
  ASSUME NEW S, NEW s \in Seq(S), NEW t \in S
  PROVE  /\ vListInsertEnd(s, t) \in Seq(S)
         /\ ToSet(vListInsertEnd(s, t)) = ToSet(s) \cup {t}
         /\ IsInjective(s) /\ t \notin ToSet(s) => IsInjective(vListInsertEnd(s, t))
<1>1. PICK r \in Seq(S) : r = vListInsertEnd(s, t) /\ IsWith(r, s, Len(s) + 1, t)
  BY AppendPutsIn DEF vListInsertEnd
<1>2. PICK i \in 1 .. Len(s) + 1 : IsWith(r, s, i, t)
  BY <1>1
<1>3. QED
  BY <1>1, <1>2, WithAdds

\* vListInsert finds a place behind everything not greater and before everything
\* that follows it, if the list is sorted.
LEMMA InsertPlace ==
  ASSUME NEW S, NEW s \in Seq(S), NEW t \in S, NEW value, \A u \in S : value[u] \in Nat
  PROVE  \E i \in 1 .. Len(s) + 1 :
           /\ vListInsert(s, t, value) \in Seq(S) /\ IsWith(vListInsert(s, t, value), s, i, t)
           /\ \A j \in 1 .. i - 1 : value[s[j]] <= value[t]
           /\ i <= Len(s) => value[t] < value[s[i]]
<1> DEFINE I == {j \in 1 .. Len(s) : value[s[j]] > value[t]}
<1>1. SelectInSeq(s, LAMBDA u : value[u] > value[t]) = IF I # {} THEN Min(I) ELSE 0
  BY DEF SelectInSeq
<1>2. I \in SUBSET Nat /\ \A j \in 1 .. Len(s) : j \in I <=> value[s[j]] > value[t]
  OBVIOUS
<1>3. \A j \in 1 .. Len(s) : value[s[j]] \in Nat /\ value[t] \in Nat
  OBVIOUS
<1>4. I \in SUBSET (1 .. Len(s))
  OBVIOUS
<1> HIDE DEF I
<1>5. CASE I = {}
  <2>1. vListInsert(s, t, value) = Append(s, t)
    BY <1>1, <1>5 DEF vListInsert
  <2>2. \A j \in 1 .. Len(s) : value[s[j]] <= value[t]
    BY <1>2, <1>3, <1>5
  <2>3. Len(s) + 1 \in 1 .. Len(s) + 1 /\ (Len(s) + 1) - 1 = Len(s) /\ ~ (Len(s) + 1 <= Len(s))
    OBVIOUS
  <2>4. QED
    BY <2>1, <2>2, <2>3, AppendPutsIn
<1>6. CASE I # {}
  <2>1. PICK m \in I : \A y \in I : m <= y
    BY <1>2, <1>6, LeastNatural
  <2>2. Min(I) = m
    <3>1. ASSUME NEW x \in I, \A y \in I : x <= y PROVE x = m
      BY <1>2, <2>1, <3>1
    <3>2. QED
      BY <2>1, <3>1 DEF Min
  <2>3. m \in 1 .. Len(s) /\ m # 0 /\ value[t] < value[s[m]]
    BY <1>2, <1>3, <1>4, <2>1
  <2>4. vListInsert(s, t, value) = InsertAt(s, m, t)
    BY <1>1, <1>6, <2>2, <2>3 DEF vListInsert
  <2>5. ASSUME NEW j \in 1 .. m - 1 PROVE value[s[j]] <= value[t]
    <3>1. j \in 1 .. Len(s) /\ ~ (m <= j)
      BY <2>3
    <3>2. j \notin I
      BY <2>1, <3>1
    <3>3. QED
      BY <1>2, <1>3, <3>1, <3>2
  <2>6. m \in 1 .. Len(s) + 1
    BY <2>3
  <2>7. QED
    BY <2>3, <2>4, <2>5, <2>6, InsertAtPutsIn
<1>7. QED
  BY <1>5, <1>6

\* vListInsert adds one item and keeps a sorted list sorted.
LEMMA ListInsert ==
  ASSUME NEW S, NEW s \in Seq(S), NEW t \in S, NEW value, \A u \in S : value[u] \in Nat
  PROVE  /\ vListInsert(s, t, value) \in Seq(S)
         /\ ToSet(vListInsert(s, t, value)) = ToSet(s) \cup {t}
         /\ IsInjective(s) /\ t \notin ToSet(s) => IsInjective(vListInsert(s, t, value))
         /\ Sorted(s, value) => Sorted(vListInsert(s, t, value), value)
<1> DEFINE r == vListInsert(s, t, value)
<1>1. PICK i \in 1 .. Len(s) + 1 :
           /\ r \in Seq(S) /\ IsWith(r, s, i, t)
           /\ \A j \in 1 .. i - 1 : value[s[j]] <= value[t]
           /\ i <= Len(s) => value[t] < value[s[i]]
  BY InsertPlace
<1> HIDE DEF r
<1>2. ASSUME Sorted(s, value) PROVE Sorted(r, value)
  <2>1. /\ Len(r) = Len(s) + 1
        /\ \A j \in 1 .. Len(r) : r[j] = IF j < i THEN s[j] ELSE IF j = i THEN t ELSE s[j - 1]
    BY <1>1 DEF IsWith
  <2>2. ASSUME NEW j \in i .. Len(s) PROVE value[t] < value[s[j]]
    <3>1. i \in 1 .. Len(s) /\ j \in 1 .. Len(s) /\ (i < j \/ i = j)
      OBVIOUS
    <3>2. value[s[i]] <= value[s[j]]
      BY <1>2, <3>1 DEF Sorted
    <3>3. value[t] < value[s[i]] /\ value[s[i]] \in Nat /\ value[s[j]] \in Nat /\ value[t] \in Nat
      BY <1>1, <3>1
    <3>4. QED
      BY <3>2, <3>3
  <2>3. ASSUME NEW j \in 1 .. Len(r), NEW m \in 1 .. Len(r), j < m
        PROVE  value[r[j]] <= value[r[m]]
    <3> DEFINE J == IF j < i THEN j ELSE j - 1
               M == IF m < i THEN m ELSE m - 1
    <3>1. j # i => J \in 1 .. Len(s) /\ r[j] = s[J]
      BY <2>1
    <3>2. m # i => M \in 1 .. Len(s) /\ r[m] = s[M]
      BY <2>1
    <3>3. r[i] = t /\ value[t] \in Nat
      BY <2>1
    <3>4. CASE j = i
      <4>1. m # i /\ M \in i .. Len(s)
        BY <2>1, <2>3, <3>4
      <4>2. value[t] < value[s[M]] /\ value[s[M]] \in Nat
        BY <2>2, <3>2, <4>1
      <4>3. QED
        BY <3>2, <3>3, <3>4, <4>1, <4>2
    <3>5. CASE m = i
      <4>1. j # i /\ J \in 1 .. i - 1
        BY <2>3, <3>5
      <4>2. QED
        BY <1>1, <3>1, <3>3, <3>5, <4>1
    <3>6. CASE j # i /\ m # i
      <4>1. J < M
        BY <2>3, <3>6
      <4>2. QED
        BY <1>2, <3>1, <3>2, <3>6, <4>1 DEF Sorted
    <3>7. QED
      BY <3>4, <3>5, <3>6
  <2>4. QED
    BY <2>3 DEF Sorted
<1>3. QED
  BY <1>1, <1>2, WithAdds DEF r

\* listGET_OWNER_OF_NEXT_ENTRY changes only the order.
LEMMA ListRotate ==
  ASSUME NEW S, NEW s \in Seq(S), s # <<>>
  PROVE  /\ NextEntry(s) \in Seq(S) /\ NextEntry(s) # <<>>
         /\ ToSet(NextEntry(s)) = ToSet(s)
         /\ IsInjective(s) => IsInjective(NextEntry(s))
<1> DEFINE r == NextEntry(s)
<1>1. /\ r \in Seq(S) /\ Len(r) = Len(s) /\ Len(s) \in Nat \ {0}
      /\ \A j \in 1 .. Len(r) : r[j] = IF j < Len(s) THEN s[j + 1] ELSE s[1]
  BY DEF NextEntry
<1> HIDE DEF r
<1>2. ASSUME NEW u \in ToSet(r) PROVE u \in ToSet(s)
  <2>1. PICK j \in 1 .. Len(r) : r[j] = u
    BY <1>1, InList
  <2> DEFINE J == IF j < Len(s) THEN j + 1 ELSE 1
  <2>2. J \in 1 .. Len(s) /\ s[J] = u
    BY <1>1, <2>1
  <2>3. QED
    BY <2>2, InList
<1>3. ASSUME NEW u \in ToSet(s) PROVE u \in ToSet(r)
  <2>1. PICK j \in 1 .. Len(s) : s[j] = u
    BY InList
  <2> DEFINE J == IF j = 1 THEN Len(s) ELSE j - 1
  <2>2. J \in 1 .. Len(r) /\ r[J] = u
    BY <1>1, <2>1
  <2>3. QED
    BY <1>1, <2>2, InList
<1>4. ASSUME IsInjective(s) PROVE IsInjective(r)
  <2>1. ASSUME NEW j \in 1 .. Len(r), NEW m \in 1 .. Len(r), r[j] = r[m] PROVE j = m
    <3> DEFINE J == IF j < Len(s) THEN j + 1 ELSE 1
               M == IF m < Len(s) THEN m + 1 ELSE 1
    <3>1. J \in 1 .. Len(s) /\ M \in 1 .. Len(s) /\ s[J] = s[M]
      BY <1>1, <2>1
    <3>2. J = M
      BY <1>4, <3>1, InList
    <3>3. QED
      BY <1>1, <3>2
  <2>2. QED
    BY <1>1, <2>1, InList
<1>5. r # <<>>
  BY <1>1
<1>6. QED
  BY <1>1, <1>2, <1>3, <1>4, <1>5 DEF r

\* Removing the first item.
LEMMA ListTail ==
  ASSUME NEW S, NEW s \in Seq(S), s # <<>>, IsInjective(s)
  PROVE  /\ Tail(s) \in Seq(S) /\ IsInjective(Tail(s))
         /\ ToSet(Tail(s)) = ToSet(s) \ {Head(s)}
<1> DEFINE r == Tail(s)
<1>1. /\ r \in Seq(S) /\ Len(s) \in Nat \ {0} /\ Len(r) = Len(s) - 1
      /\ \A j \in 1 .. Len(r) : r[j] = s[j + 1]
      /\ Head(s) = s[1]
  OBVIOUS
<1> HIDE DEF r
<1>2. \A j, m \in 1 .. Len(s) : s[j] = s[m] => j = m
  BY InList
<1>3. ASSUME NEW u \in ToSet(r) PROVE u \in ToSet(s) \ {s[1]}
  <2>1. PICK j \in 1 .. Len(r) : r[j] = u
    BY <1>1, InList
  <2>2. j + 1 \in 1 .. Len(s) /\ 1 \in 1 .. Len(s) /\ s[j + 1] = u /\ j + 1 # 1
    BY <1>1, <2>1
  <2>3. QED
    BY <1>2, <2>2, InList
<1>4. ASSUME NEW u \in ToSet(s) \ {s[1]} PROVE u \in ToSet(r)
  <2>1. PICK j \in 1 .. Len(s) : s[j] = u
    BY InList
  <2>2. j # 1
    BY <2>1
  <2>3. j - 1 \in 1 .. Len(r) /\ r[j - 1] = u
    BY <1>1, <2>1, <2>2
  <2>4. QED
    BY <1>1, <2>3, InList
<1>5. IsInjective(r)
  <2>1. ASSUME NEW j \in 1 .. Len(r), NEW m \in 1 .. Len(r), r[j] = r[m] PROVE j = m
    <3>1. j + 1 \in 1 .. Len(s) /\ m + 1 \in 1 .. Len(s) /\ s[j + 1] = s[m + 1]
      BY <1>1, <2>1
    <3>2. j + 1 = m + 1
      BY <1>2, <3>1
    <3>3. QED
      BY <3>2
  <2>2. QED
    BY <1>1, <2>1, InList
<1>6. QED
  BY <1>1, <1>3, <1>4, <1>5 DEF r

-------------------------------------------------------------------------------
(* The lists agree *)

\* Every list holds a task once.
Once(kk) ==
  /\ \A p \in Priorities : IsInjective(kk.ready[p])
  /\ \A e \in EventLists : IsInjective(kk.event[e])
  /\ IsInjective(kk.delayed) /\ IsInjective(kk.overflowDelayed)
  /\ IsInjective(kk.waitingTermination) /\ IsInjective(kk.pendingReady)

\* t's generic item is in one list at most, and in the ready list of its priority;
\* its event item is in one list at most, and only if it is blocked.
InPlace(kk, t) ==
  /\ \A p \in Priorities : t \in ToSet(kk.ready[p]) => kk.priority[t] = p
  /\ IsReady(kk, t) => ~ IsDelayed(kk, t) /\ t \notin kk.suspended
  /\ t \in ToSet(kk.delayed) => t \notin ToSet(kk.overflowDelayed)
  /\ IsDelayed(kk, t) => t \notin kk.suspended
  /\ t \in ToSet(kk.waitingTermination) =>
       ~ IsReady(kk, t) /\ ~ IsDelayed(kk, t) /\ t \notin kk.suspended
  /\ \A e, f \in EventLists : t \in ToSet(kk.event[e]) /\ t \in ToSet(kk.event[f]) => e = f
  /\ ~ (IsWaiting(kk, t) /\ IsPending(kk, t))
  /\ IsWaiting(kk, t) \/ IsPending(kk, t) => IsDelayed(kk, t) \/ t \in kk.suspended

\* uxTopReadyPriority is not below any ready task, and the idle task is ready.
TopKnown(kk) ==
  /\ \A p \in Priorities : kk.ready[p] # <<>> => p <= kk.topReady
  /\ IdleTask \in ToSet(kk.ready[0])

Sound(kk) ==
  /\ kk \in KernelState
  /\ Once(kk)
  /\ \A t \in AllTasks : InPlace(kk, t)
  /\ TopKnown(kk)

\* What most operations leave alone.
Calm(r, kk) ==
  /\ r.current = kk.current /\ r.tick = kk.tick /\ r.overflows = kk.overflows
  /\ r.schedulerSuspended = kk.schedulerSuspended
  /\ r.missedTicks = kk.missedTicks /\ r.missedYield = kk.missedYield
  /\ r.priority = kk.priority /\ r.basePriority = kk.basePriority

SamePlace(r, kk, u) ==
  /\ r.priority[u] = kk.priority[u]
  /\ \A p \in Priorities : u \in ToSet(r.ready[p]) <=> u \in ToSet(kk.ready[p])
  /\ u \in ToSet(r.delayed) <=> u \in ToSet(kk.delayed)
  /\ u \in ToSet(r.overflowDelayed) <=> u \in ToSet(kk.overflowDelayed)
  /\ u \in r.suspended <=> u \in kk.suspended
  /\ u \in ToSet(r.waitingTermination) <=> u \in ToSet(kk.waitingTermination)

SameEvent(r, kk, u) ==
  /\ \A e \in EventLists : u \in ToSet(r.event[e]) <=> u \in ToSet(kk.event[e])
  /\ u \in ToSet(r.pendingReady) <=> u \in ToSet(kk.pendingReady)

NoPlace(kk, t) ==
  /\ \A p \in Priorities : t \notin ToSet(kk.ready[p])
  /\ t \notin ToSet(kk.delayed) /\ t \notin ToSet(kk.overflowDelayed)
  /\ t \notin kk.suspended /\ t \notin ToSet(kk.waitingTermination)

NoEvent(kk, t) ==
  /\ \A e \in EventLists : t \notin ToSet(kk.event[e])
  /\ t \notin ToSet(kk.pendingReady)

\* A task whose lists an operation does not touch stays in place.
LEMMA PlaceKept ==
  ASSUME NEW r, NEW kk \in KernelState, NEW u \in AllTasks,
         SamePlace(r, kk, u), SameEvent(r, kk, u), InPlace(kk, u)
  PROVE  InPlace(r, u)
<1>1. kk.priority[u] \in Priorities
  BY DEF KernelState
<1>2. IsReady(r, u) <=> IsReady(kk, u)
  BY <1>1 DEF IsReady, SamePlace
<1>3. IsDelayed(r, u) <=> IsDelayed(kk, u)
  BY DEF IsDelayed, SamePlace
<1>4. IsWaiting(r, u) <=> IsWaiting(kk, u)
  BY DEF IsWaiting, SameEvent
<1>5. IsPending(r, u) <=> IsPending(kk, u)
  BY DEF IsPending, SameEvent
<1>6. QED
  BY <1>2, <1>3, <1>4, <1>5 DEF InPlace, SamePlace, SameEvent

\* The lists of a state of the right type.
LEMMA ListTypes ==
  ASSUME NEW kk \in KernelState
  PROVE  /\ \A p \in Priorities : kk.ready[p] \in Seq(AllTasks)
         /\ \A e \in EventLists : kk.event[e] \in Seq(AllTasks)
         /\ kk.delayed \in Seq(AllTasks) /\ kk.overflowDelayed \in Seq(AllTasks)
         /\ kk.waitingTermination \in Seq(AllTasks) /\ kk.pendingReady \in Seq(AllTasks)
         /\ kk.suspended \in SUBSET AllTasks
BY DEF KernelState

\* What the type of the kernel's record says of its fields.
LEMMA FieldTypes ==
  ASSUME NEW kk \in KernelState
  PROVE  /\ kk.current \in AllTasks /\ IdleTask \in AllTasks
         /\ \A t \in AllTasks : kk.priority[t] \in Priorities /\ kk.wake[t] \in Nat
         /\ kk.topReady \in Nat /\ kk.topReady \in Priorities
         /\ kk.tick \in Ticks /\ kk.nextUnblock \in Ticks
         /\ Ticks \subseteq Nat /\ Priorities \subseteq Nat /\ 0 \in Priorities /\ 0 \in Ticks
         /\ kk.schedulerSuspended \in Nat /\ kk.missedTicks \in Nat
<1>1. Ticks \subseteq Nat /\ Priorities \subseteq Nat /\ 0 \in Priorities /\ 0 \in Ticks
  BY KernelAssumption DEF Ticks, Priorities
<1>2. QED
  BY <1>1 DEF KernelState, AllTasks

\* Taking a task's generic item out of whatever list it is in.
GenericGone(r, kk, t) ==
  /\ \A p \in Priorities : r.ready[p] = vListRemove(kk.ready[p], t)
  /\ r.delayed = vListRemove(kk.delayed, t)
  /\ r.overflowDelayed = vListRemove(kk.overflowDelayed, t)
  /\ r.waitingTermination = vListRemove(kk.waitingTermination, t)
  /\ r.suspended = kk.suspended \ {t}
  /\ r.wake = [kk.wake EXCEPT ![t] = 0]
  /\ r.event = kk.event /\ r.pendingReady = kk.pendingReady
  /\ r.topReady = kk.topReady /\ r.nextUnblock = kk.nextUnblock
  /\ r.eventValue = kk.eventValue
  /\ Calm(r, kk)

\* vListRemove of a task's generic list item: the task is in no list of states, the
\* others are where they were.
LEMMA RemovesGeneric ==
  ASSUME NEW kk \in KernelState, NEW t \in AllTasks, Once(kk)
  PROVE  LET r == RemoveGenericItem(kk, t)
         IN  /\ r \in KernelState /\ Once(r)
             /\ GenericGone(r, kk, t)
             /\ NoPlace(r, t)
             /\ \A u \in AllTasks \ {t} : SamePlace(r, kk, u)
             /\ \A u \in AllTasks : SameEvent(r, kk, u)
<1> DEFINE r == RemoveGenericItem(kk, t)
           ready == [p \in Priorities |-> vListRemove(kk.ready[p], t)]
           delayed == vListRemove(kk.delayed, t)
           overflow == vListRemove(kk.overflowDelayed, t)
           ended == vListRemove(kk.waitingTermination, t)
<1>1. /\ ready \in [Priorities -> Seq(AllTasks)]
      /\ delayed \in Seq(AllTasks) /\ overflow \in Seq(AllTasks) /\ ended \in Seq(AllTasks)
      /\ \A p \in Priorities : /\ IsInjective(ready[p])
                               /\ ToSet(ready[p]) = ToSet(kk.ready[p]) \ {t}
      /\ IsInjective(delayed) /\ ToSet(delayed) = ToSet(kk.delayed) \ {t}
      /\ IsInjective(overflow) /\ ToSet(overflow) = ToSet(kk.overflowDelayed) \ {t}
      /\ IsInjective(ended) /\ ToSet(ended) = ToSet(kk.waitingTermination) \ {t}
  BY ListTypes, ListRemove DEF Once
<1>2. r = [kk EXCEPT !.ready = ready, !.delayed = delayed, !.overflowDelayed = overflow,
                     !.suspended = kk.suspended \ {t}, !.waitingTermination = ended,
                     !.wake = [kk.wake EXCEPT ![t] = 0]]
  BY DEF RemoveGenericItem, KernelState
<1>3. 0 \in Ticks
  BY KernelAssumption DEF Ticks
<1> HIDE DEF ready, delayed, overflow, ended, r
<1>4. r \in KernelState
  BY <1>1, <1>2, <1>3 DEF KernelState
<1>5. /\ r.ready = ready /\ r.delayed = delayed /\ r.overflowDelayed = overflow
      /\ r.waitingTermination = ended /\ r.suspended = kk.suspended \ {t}
      /\ r.wake = [kk.wake EXCEPT ![t] = 0]
      /\ r.event = kk.event /\ r.pendingReady = kk.pendingReady
      /\ r.topReady = kk.topReady /\ r.nextUnblock = kk.nextUnblock
      /\ r.eventValue = kk.eventValue /\ Calm(r, kk)
  BY <1>2 DEF KernelState, Calm
<1>6. Once(r)
  BY <1>1, <1>5 DEF Once
<1>7. GenericGone(r, kk, t)
  BY <1>5 DEF GenericGone, ready, delayed, overflow, ended
<1>8. NoPlace(r, t)
  BY <1>1, <1>5 DEF NoPlace
<1>9. \A u \in AllTasks \ {t} : SamePlace(r, kk, u)
  BY <1>1, <1>5 DEF SamePlace, Calm
<1>10. \A u \in AllTasks : SameEvent(r, kk, u)
  BY <1>5 DEF SameEvent
<1>11. QED
  BY <1>4, <1>6, <1>7, <1>8, <1>9, <1>10 DEF r

\* Taking its event item out.
EventGone(r, kk, t) ==
  /\ \A e \in EventLists : r.event[e] = vListRemove(kk.event[e], t)
  /\ r.pendingReady = vListRemove(kk.pendingReady, t)
  /\ r.ready = kk.ready /\ r.delayed = kk.delayed /\ r.overflowDelayed = kk.overflowDelayed
  /\ r.suspended = kk.suspended /\ r.waitingTermination = kk.waitingTermination
  /\ r.wake = kk.wake /\ r.topReady = kk.topReady /\ r.nextUnblock = kk.nextUnblock
  /\ r.eventValue = kk.eventValue
  /\ Calm(r, kk)

\* vListRemove of a task's event list item.
LEMMA RemovesEvent ==
  ASSUME NEW kk \in KernelState, NEW t \in AllTasks, Once(kk)
  PROVE  LET r == RemoveEventItem(kk, t)
         IN  /\ r \in KernelState /\ Once(r)
             /\ EventGone(r, kk, t)
             /\ NoEvent(r, t)
             /\ \A u \in AllTasks : SamePlace(r, kk, u)
             /\ \A u \in AllTasks \ {t} : SameEvent(r, kk, u)
<1> DEFINE r == RemoveEventItem(kk, t)
           event == [e \in EventLists |-> vListRemove(kk.event[e], t)]
           pending == vListRemove(kk.pendingReady, t)
<1>1. /\ event \in [EventLists -> Seq(AllTasks)] /\ pending \in Seq(AllTasks)
      /\ \A e \in EventLists : /\ IsInjective(event[e])
                               /\ ToSet(event[e]) = ToSet(kk.event[e]) \ {t}
      /\ IsInjective(pending) /\ ToSet(pending) = ToSet(kk.pendingReady) \ {t}
  BY ListTypes, ListRemove DEF Once
<1>2. r = [kk EXCEPT !.event = event, !.pendingReady = pending]
  BY DEF RemoveEventItem, KernelState
<1> HIDE DEF event, pending, r
<1>3. r \in KernelState
  BY <1>1, <1>2 DEF KernelState
<1>4. /\ r.event = event /\ r.pendingReady = pending
      /\ r.ready = kk.ready /\ r.delayed = kk.delayed /\ r.overflowDelayed = kk.overflowDelayed
      /\ r.suspended = kk.suspended /\ r.waitingTermination = kk.waitingTermination
      /\ r.wake = kk.wake /\ r.topReady = kk.topReady /\ r.nextUnblock = kk.nextUnblock
      /\ r.eventValue = kk.eventValue /\ Calm(r, kk)
  BY <1>2 DEF KernelState, Calm
<1>5. Once(r)
  BY <1>1, <1>4 DEF Once
<1>6. EventGone(r, kk, t)
  BY <1>4 DEF EventGone, event, pending
<1>7. NoEvent(r, t)
  BY <1>1, <1>4 DEF NoEvent
<1>8. \A u \in AllTasks : SamePlace(r, kk, u)
  BY <1>4 DEF SamePlace, Calm
<1>9. \A u \in AllTasks \ {t} : SameEvent(r, kk, u)
  BY <1>1, <1>4 DEF SameEvent
<1>10. QED
  BY <1>3, <1>5, <1>6, <1>7, <1>8, <1>9 DEF r

\* prvAddTaskToReadyQueue, of a task that is in no list.
MadeReady(r, kk, t) ==
  /\ \A p \in Priorities :
       r.ready[p] = IF p = kk.priority[t] THEN Append(kk.ready[p], t) ELSE kk.ready[p]
  /\ r.topReady >= kk.topReady /\ r.topReady >= kk.priority[t]
  /\ r.delayed = kk.delayed /\ r.overflowDelayed = kk.overflowDelayed
  /\ r.suspended = kk.suspended /\ r.waitingTermination = kk.waitingTermination
  /\ r.event = kk.event /\ r.pendingReady = kk.pendingReady
  /\ r.wake = kk.wake /\ r.nextUnblock = kk.nextUnblock /\ r.eventValue = kk.eventValue
  /\ Calm(r, kk)

LEMMA MaxOfTwo ==
  ASSUME NEW a \in Nat, NEW b \in Nat
  PROVE  Max({a, b}) \in {a, b} /\ Max({a, b}) >= a /\ Max({a, b}) >= b
<1>1. \E z \in {a, b} : \A y \in {a, b} : z >= y
  <2>1. CASE a >= b
    BY <2>1
  <2>2. CASE b >= a
    BY <2>2
  <2>3. QED
    BY <2>1, <2>2
<1>2. Max({a, b}) \in {a, b} /\ \A y \in {a, b} : Max({a, b}) >= y
  BY <1>1 DEF Max
<1>3. QED
  BY <1>2

LEMMA MinOfTwo ==
  ASSUME NEW a \in Nat, NEW b \in Nat
  PROVE  Min({a, b}) \in {a, b} /\ Min({a, b}) <= a /\ Min({a, b}) <= b
<1>1. \E z \in {a, b} : \A y \in {a, b} : z <= y
  <2>1. CASE a <= b
    BY <2>1
  <2>2. CASE b <= a
    BY <2>2
  <2>3. QED
    BY <2>1, <2>2
<1>2. Min({a, b}) \in {a, b} /\ \A y \in {a, b} : Min({a, b}) <= y
  BY <1>1 DEF Min
<1>3. QED
  BY <1>2

\* prvAddTaskToReadyQueue, of a task in no list.
LEMMA AddsToReady ==
  ASSUME NEW kk \in KernelState, NEW t \in AllTasks, Once(kk), NoPlace(kk, t)
  PROVE  LET r == prvAddTaskToReadyQueue(kk, t)
         IN  /\ r \in KernelState /\ Once(r)
             /\ MadeReady(r, kk, t)
             /\ IsReady(r, t)
             /\ \A p \in Priorities : t \in ToSet(r.ready[p]) => p = r.priority[t]
             /\ t \notin ToSet(r.delayed) /\ t \notin ToSet(r.overflowDelayed)
             /\ t \notin r.suspended /\ t \notin ToSet(r.waitingTermination)
             /\ \A u \in AllTasks \ {t} : SamePlace(r, kk, u)
             /\ \A u \in AllTasks : SameEvent(r, kk, u)
<1> DEFINE r == prvAddTaskToReadyQueue(kk, t)
           p0 == kk.priority[t]
           list == vListInsertEnd(kk.ready[p0], t)
           ready == [kk.ready EXCEPT ![p0] = list]
           top == Max({kk.topReady, p0})
<1>1. p0 \in Priorities /\ kk.topReady \in Priorities /\ Priorities \subseteq Nat
  BY KernelAssumption DEF KernelState, Priorities
<1>2. /\ list \in Seq(AllTasks) /\ IsInjective(list)
      /\ ToSet(list) = ToSet(kk.ready[p0]) \cup {t} /\ list = Append(kk.ready[p0], t)
  <2>1. kk.ready[p0] \in Seq(AllTasks) /\ t \notin ToSet(kk.ready[p0]) /\ IsInjective(kk.ready[p0])
    BY <1>1, ListTypes DEF NoPlace, Once
  <2>2. QED
    BY <2>1, ListInsertEnd DEF vListInsertEnd
<1>3. top \in Priorities /\ top >= kk.topReady /\ top >= p0
  BY <1>1, MaxOfTwo
<1>4. r = [kk EXCEPT !.ready = ready, !.topReady = top]
  BY DEF prvAddTaskToReadyQueue, KernelState
<1> HIDE DEF list, p0, top, r
<1>5. ready \in [Priorities -> Seq(AllTasks)]
  BY <1>1, <1>2 DEF KernelState
<1>6. \A p \in Priorities : ready[p] = IF p = p0 THEN list ELSE kk.ready[p]
  BY <1>1 DEF KernelState
<1> HIDE DEF ready
<1>7. r \in KernelState
  BY <1>3, <1>4, <1>5 DEF KernelState
<1>8. /\ r.ready = ready /\ r.topReady = top
      /\ r.delayed = kk.delayed /\ r.overflowDelayed = kk.overflowDelayed
      /\ r.suspended = kk.suspended /\ r.waitingTermination = kk.waitingTermination
      /\ r.event = kk.event /\ r.pendingReady = kk.pendingReady
      /\ r.wake = kk.wake /\ r.nextUnblock = kk.nextUnblock /\ r.eventValue = kk.eventValue
      /\ Calm(r, kk)
  BY <1>4 DEF KernelState, Calm
<1>9. Once(r)
  BY <1>2, <1>6, <1>8 DEF Once
<1>10. MadeReady(r, kk, t)
  BY <1>2, <1>3, <1>6, <1>8 DEF MadeReady, p0
<1>11. r.priority[t] = p0
  BY <1>8 DEF Calm, p0
<1>12. IsReady(r, t)
  BY <1>1, <1>2, <1>6, <1>8, <1>11 DEF IsReady
<1>13. \A p \in Priorities : t \in ToSet(r.ready[p]) => p = r.priority[t]
  BY <1>6, <1>8, <1>11 DEF NoPlace
<1>14. /\ t \notin ToSet(r.delayed) /\ t \notin ToSet(r.overflowDelayed)
       /\ t \notin r.suspended /\ t \notin ToSet(r.waitingTermination)
  BY <1>8 DEF NoPlace
<1>15. \A u \in AllTasks \ {t} : SamePlace(r, kk, u)
  BY <1>2, <1>6, <1>8 DEF SamePlace, Calm
<1>16. \A u \in AllTasks : SameEvent(r, kk, u)
  BY <1>8 DEF SameEvent
<1>17. QED
  BY <1>7, <1>9, <1>10, <1>12, <1>13, <1>14, <1>15, <1>16 DEF r

\* A task's event item is in one list at most.
EventOnce(kk, t) ==
  /\ \A e, f \in EventLists : t \in ToSet(kk.event[e]) /\ t \in ToSet(kk.event[f]) => e = f
  /\ ~ (IsWaiting(kk, t) /\ IsPending(kk, t))

\* Sound, if the generic item of t were taken out.
SoundBut(kk, t) ==
  /\ kk \in KernelState /\ Once(kk)
  /\ \A u \in AllTasks \ {t} : InPlace(kk, u)
  /\ EventOnce(kk, t)
  /\ TopKnown(kk)

LEMMA SoundIsSoundBut ==
  ASSUME NEW kk, Sound(kk), NEW t \in AllTasks
  PROVE  SoundBut(kk, t)
<1>1. InPlace(kk, t)
  BY DEF Sound
<1>2. EventOnce(kk, t)
  BY <1>1 DEF InPlace, EventOnce
<1>3. QED
  BY <1>2 DEF Sound, SoundBut

\* A task in no event list is in at most one.
LEMMA NoEventOnce ==
  ASSUME NEW kk, NEW t, NoEvent(kk, t)
  PROVE  EventOnce(kk, t) /\ ~ IsWaiting(kk, t) /\ ~ IsPending(kk, t)
BY DEF NoEvent, EventOnce, IsWaiting, IsPending

\* Only t has changed its place, and is where it should be.
LEMMA SoundAgain ==
  ASSUME NEW kk \in KernelState, NEW r \in KernelState, NEW t \in AllTasks, Once(r), TopKnown(r),
         \A u \in AllTasks \ {t} : InPlace(kk, u),
         \A u \in AllTasks \ {t} : SamePlace(r, kk, u) /\ SameEvent(r, kk, u),
         InPlace(r, t)
  PROVE  Sound(r)
<1>1. \A u \in AllTasks \ {t} : InPlace(r, u)
  BY PlaceKept
<1>2. QED
  BY <1>1 DEF Sound

LEMMA SamePlaceTrans ==
  ASSUME NEW a, NEW b, NEW c, NEW u, SamePlace(a, b, u), SamePlace(b, c, u)
  PROVE  SamePlace(a, c, u)
BY DEF SamePlace

LEMMA SameEventTrans ==
  ASSUME NEW a, NEW b, NEW c, NEW u, SameEvent(a, b, u), SameEvent(b, c, u)
  PROVE  SameEvent(a, c, u)
BY DEF SameEvent

LEMMA CalmTrans ==
  ASSUME NEW a, NEW b, NEW c, Calm(a, b), Calm(b, c)
  PROVE  Calm(a, c)
BY DEF Calm

\* The test that finds the highest ready list sees it empty exactly if no task is in it.
LEMMA EmptyList ==
  ASSUME NEW kk \in KernelState, NEW p \in Priorities
  PROVE  kk.ready[p] # <<>> <=> \E u \in AllTasks : u \in ToSet(kk.ready[p])
<1>1. kk.ready[p] \in Seq(AllTasks)
  BY ListTypes
<1>2. QED
  BY <1>1, InList

\* A task that becomes ready leaves the list it was in.
Moved(r, kk, t) ==
  /\ r.delayed = vListRemove(kk.delayed, t)
  /\ r.overflowDelayed = vListRemove(kk.overflowDelayed, t)
  /\ r.waitingTermination = vListRemove(kk.waitingTermination, t)
  /\ r.suspended = kk.suspended \ {t}
  /\ r.wake = [kk.wake EXCEPT ![t] = 0]
  /\ r.nextUnblock = kk.nextUnblock
  /\ Calm(r, kk)
  /\ IsReady(r, t)
  /\ \A u \in AllTasks \ {t} : SamePlace(r, kk, u)
  /\ \A p \in Priorities : r.ready[p] = LET rest == vListRemove(kk.ready[p], t)
                                       IN  IF p = kk.priority[t] THEN Append(rest, t) ELSE rest

\* A task moved to the ready list of its priority leaves the kernel sound.
LEMMA MovesToReady ==
  ASSUME NEW kk, NEW t \in AllTasks, SoundBut(kk, t), NoEvent(kk, t),
         t = IdleTask => kk.priority[t] = 0
  PROVE  LET r == MoveToReady(kk, t)
         IN  /\ Sound(r) /\ Moved(r, kk, t)
             /\ r.event = kk.event /\ r.pendingReady = kk.pendingReady
<1> DEFINE g == RemoveGenericItem(kk, t)
           r == MoveToReady(kk, t)
<1>1. /\ g \in KernelState /\ Once(g) /\ GenericGone(g, kk, t) /\ NoPlace(g, t)
      /\ \A u \in AllTasks \ {t} : SamePlace(g, kk, u)
      /\ \A u \in AllTasks : SameEvent(g, kk, u)
  BY RemovesGeneric DEF SoundBut
<1>2. r = prvAddTaskToReadyQueue(g, t)
  BY DEF MoveToReady
<1> HIDE DEF g, r
<1>3. /\ r \in KernelState /\ Once(r) /\ MadeReady(r, g, t) /\ IsReady(r, t)
      /\ \A p \in Priorities : t \in ToSet(r.ready[p]) => p = r.priority[t]
      /\ t \notin ToSet(r.delayed) /\ t \notin ToSet(r.overflowDelayed)
      /\ t \notin r.suspended /\ t \notin ToSet(r.waitingTermination)
      /\ \A u \in AllTasks \ {t} : SamePlace(r, g, u)
      /\ \A u \in AllTasks : SameEvent(r, g, u)
  BY <1>1, <1>2, AddsToReady
<1>4. \A u \in AllTasks \ {t} : SamePlace(r, kk, u)
  BY <1>1, <1>3, SamePlaceTrans
<1>5. \A u \in AllTasks : SameEvent(r, kk, u)
  BY <1>1, <1>3, SameEventTrans
<1>6. r.event = kk.event /\ r.pendingReady = kk.pendingReady
  BY <1>1, <1>3 DEF GenericGone, MadeReady
<1>7. Moved(r, kk, t)
  <2>1. Calm(r, kk)
    BY <1>1, <1>3, CalmTrans DEF GenericGone, MadeReady
  <2>2. ASSUME NEW p \in Priorities
        PROVE  r.ready[p] = IF p = kk.priority[t] THEN Append(vListRemove(kk.ready[p], t), t)
                                                  ELSE vListRemove(kk.ready[p], t)
    <3>1. g.ready[p] = vListRemove(kk.ready[p], t) /\ g.priority = kk.priority
      BY <1>1 DEF GenericGone, Calm
    <3>2. r.ready[p] = IF p = g.priority[t] THEN Append(g.ready[p], t) ELSE g.ready[p]
      BY <1>3 DEF MadeReady
    <3>3. QED
      BY <3>1, <3>2
  <2>3. /\ r.delayed = vListRemove(kk.delayed, t)
        /\ r.overflowDelayed = vListRemove(kk.overflowDelayed, t)
        /\ r.waitingTermination = vListRemove(kk.waitingTermination, t)
        /\ r.suspended = kk.suspended \ {t}
        /\ r.wake = [kk.wake EXCEPT ![t] = 0]
        /\ r.nextUnblock = kk.nextUnblock
    BY <1>1, <1>3 DEF GenericGone, MadeReady
  <2>4. QED
    BY <1>3, <1>4, <2>1, <2>2, <2>3 DEF Moved
<1>8. InPlace(r, t)
  <2>1. ~ IsWaiting(r, t) /\ ~ IsPending(r, t) /\ EventOnce(r, t)
    <3>1. NoEvent(r, t)
      BY <1>5 DEF NoEvent, SameEvent
    <3>2. QED
      BY <3>1, NoEventOnce
  <2>2. QED
    BY <1>3, <2>1 DEF InPlace, EventOnce, IsDelayed
<1>9. TopKnown(r)
  <2>1. r.topReady \in Nat /\ g.topReady \in Nat /\ g.topReady = kk.topReady
        /\ r.topReady >= g.topReady /\ r.topReady >= r.priority[t]
        /\ 0 \in Priorities /\ Priorities \subseteq Nat
    <3>1. r.topReady \in Nat /\ g.topReady \in Nat /\ 0 \in Priorities /\ Priorities \subseteq Nat
      BY <1>1, <1>3, FieldTypes
    <3>2. g.topReady = kk.topReady
      BY <1>1 DEF GenericGone
    <3>3. r.topReady >= g.topReady /\ r.topReady >= g.priority[t] /\ r.priority = g.priority
      BY <1>3 DEF MadeReady, Calm
    <3>4. QED
      BY <3>1, <3>2, <3>3
  <2>2. ASSUME NEW p \in Priorities, r.ready[p] # <<>> PROVE p <= r.topReady
    <3>1. PICK u \in AllTasks : u \in ToSet(r.ready[p])
      BY <1>3, <2>2, EmptyList
    <3>2. CASE u = t
      BY <1>3, <2>1, <3>1, <3>2
    <3>3. CASE u # t
      <4>1. u \in ToSet(kk.ready[p])
        BY <1>4, <3>1, <3>3 DEF SamePlace
      <4>2. kk.ready[p] # <<>>
        BY <4>1, EmptyList DEF SoundBut
      <4>3. p <= kk.topReady
        BY <4>2 DEF SoundBut, TopKnown
      <4>4. QED
        BY <2>1, <4>3
    <3>4. QED
      BY <3>2, <3>3
  <2>3. IdleTask \in ToSet(r.ready[0])
    <3>1. CASE t = IdleTask
      <4>1. r.priority[t] = 0
        BY <1>1, <1>3, <3>1 DEF GenericGone, MadeReady, Calm
      <4>2. QED
        BY <1>3, <3>1, <4>1 DEF IsReady
    <3>2. CASE t # IdleTask
      BY <1>4, <2>1, <3>2 DEF SoundBut, TopKnown, SamePlace, AllTasks
    <3>3. QED
      BY <3>1, <3>2
  <2>4. QED
    BY <2>2, <2>3 DEF TopKnown
<1>10. Sound(r)
  BY <1>3, <1>4, <1>5, <1>8, <1>9, SoundAgain DEF SoundBut
<1>11. QED
  BY <1>6, <1>7, <1>10 DEF r

\* The idle task is always ready, at priority 0: there is always a task to switch to.
LEMMA IdlePriority ==
  ASSUME NEW kk, Sound(kk)
  PROVE  kk.priority[IdleTask] = 0 /\ IsReady(kk, IdleTask)
<1>1. IdleTask \in AllTasks /\ 0 \in Priorities
  BY KernelAssumption DEF AllTasks, Priorities
<1>2. QED
  BY <1>1 DEF Sound, TopKnown, InPlace, IsReady

\* A blocked or pending task that is woken.
LEMMA WakesUp ==
  ASSUME NEW kk, Sound(kk), NEW t \in AllTasks
  PROVE  LET r == WakeUp(kk, t)
         IN  /\ Sound(r) /\ Moved(r, kk, t)
             /\ \A e \in EventLists : r.event[e] = vListRemove(kk.event[e], t)
             /\ r.pendingReady = vListRemove(kk.pendingReady, t)
<1> DEFINE v == RemoveEventItem(kk, t)
           r == WakeUp(kk, t)
<1>1. /\ v \in KernelState /\ Once(v) /\ EventGone(v, kk, t) /\ NoEvent(v, t)
      /\ \A u \in AllTasks : SamePlace(v, kk, u)
      /\ \A u \in AllTasks \ {t} : SameEvent(v, kk, u)
  BY RemovesEvent DEF Sound
<1>2. r = MoveToReady(v, t)
  BY DEF WakeUp
<1> HIDE DEF v, r
<1>3. SoundBut(v, t)
  <2>1. \A u \in AllTasks \ {t} : InPlace(v, u)
    BY <1>1, PlaceKept DEF Sound
  <2>2. TopKnown(v)
    BY <1>1 DEF EventGone, Sound, TopKnown
  <2>3. QED
    BY <1>1, <2>1, <2>2, NoEventOnce DEF SoundBut
<1>4. t = IdleTask => v.priority[t] = 0
  BY <1>1, IdlePriority DEF EventGone, Calm
<1>5. /\ Sound(r) /\ Moved(r, v, t) /\ r.event = v.event /\ r.pendingReady = v.pendingReady
  BY <1>1, <1>2, <1>3, <1>4, MovesToReady
<1>6. Moved(r, kk, t)
  <2>1. Calm(r, kk)
    BY <1>1, <1>5, CalmTrans DEF Moved, EventGone
  <2>2. \A u \in AllTasks \ {t} : SamePlace(r, kk, u)
    BY <1>1, <1>5, SamePlaceTrans DEF Moved
  <2>3. v.ready = kk.ready /\ v.priority = kk.priority
    BY <1>1 DEF EventGone, Calm
  <2>4. \A p \in Priorities : r.ready[p] = IF p = kk.priority[t] THEN Append(vListRemove(kk.ready[p], t), t)
                                                                 ELSE vListRemove(kk.ready[p], t)
    BY <1>5, <2>3 DEF Moved
  <2>5. /\ r.delayed = vListRemove(kk.delayed, t)
        /\ r.overflowDelayed = vListRemove(kk.overflowDelayed, t)
        /\ r.waitingTermination = vListRemove(kk.waitingTermination, t)
        /\ r.suspended = kk.suspended \ {t}
        /\ r.wake = [kk.wake EXCEPT ![t] = 0]
        /\ r.nextUnblock = kk.nextUnblock /\ IsReady(r, t)
    BY <1>1, <1>5 DEF Moved, EventGone
  <2>6. QED
    BY <2>1, <2>2, <2>4, <2>5 DEF Moved
<1>7. QED
  BY <1>1, <1>5, <1>6 DEF r, EventGone

-------------------------------------------------------------------------------
(* Blocking, suspending, deleting *)

\* Nobody but the idle task is taken out, so it stays ready.
LEMMA TopKnownKept ==
  ASSUME NEW kk \in KernelState, NEW r \in KernelState, NEW t \in AllTasks \ {IdleTask},
         TopKnown(kk), r.topReady = kk.topReady,
         \A p \in Priorities : r.ready[p] = vListRemove(kk.ready[p], t), Once(kk)
  PROVE  TopKnown(r)
<1>1. ASSUME NEW p \in Priorities, r.ready[p] # <<>> PROVE p <= r.topReady
  <2>1. PICK u \in AllTasks : u \in ToSet(r.ready[p])
    BY <1>1, EmptyList
  <2>2. ToSet(r.ready[p]) = ToSet(kk.ready[p]) \ {t}
    BY ListTypes, ListRemove DEF Once
  <2>3. kk.ready[p] # <<>>
    BY <2>1, <2>2, EmptyList
  <2>4. QED
    BY <2>3 DEF TopKnown
<1>2. IdleTask \in ToSet(r.ready[0])
  <2>1. 0 \in Priorities /\ kk.ready[0] \in Seq(AllTasks) /\ IsInjective(kk.ready[0])
    BY FieldTypes, ListTypes DEF Once
  <2>2. ToSet(r.ready[0]) = ToSet(kk.ready[0]) \ {t}
    BY <2>1, ListRemove
  <2>3. QED
    BY <2>2 DEF TopKnown
<1>3. QED
  BY <1>1, <1>2 DEF TopKnown

\* The current task, which is in no list, goes to one of the delayed lists.
DelayedTo(r, kk, w) ==
  LET t == kk.current
  IN  /\ r.wake = [kk.wake EXCEPT ![t] = w]
      /\ IF w < kk.tick
         THEN /\ r.overflowDelayed = vListInsert(kk.overflowDelayed, t, r.wake)
              /\ r.delayed = kk.delayed /\ r.nextUnblock = kk.nextUnblock
         ELSE /\ r.delayed = vListInsert(kk.delayed, t, r.wake)
              /\ r.overflowDelayed = kk.overflowDelayed
              /\ r.nextUnblock = Min({kk.nextUnblock, w})
      /\ r.ready = kk.ready /\ r.topReady = kk.topReady /\ r.suspended = kk.suspended
      /\ r.waitingTermination = kk.waitingTermination
      /\ r.event = kk.event /\ r.pendingReady = kk.pendingReady
      /\ r.eventValue = kk.eventValue
      /\ Calm(r, kk)

\* prvAddCurrentTaskToDelayedList, of a task in no list.
LEMMA AddsToDelayed ==
  ASSUME NEW kk \in KernelState, NEW w \in Ticks, Once(kk), NoPlace(kk, kk.current)
  PROVE  LET r == prvAddCurrentTaskToDelayedList(kk, w)
             t == kk.current
         IN  /\ r \in KernelState /\ Once(r)
             /\ DelayedTo(r, kk, w)
             /\ ToSet(r.delayed) = ToSet(kk.delayed) \cup (IF w < kk.tick THEN {} ELSE {t})
             /\ ToSet(r.overflowDelayed) =
                  ToSet(kk.overflowDelayed) \cup (IF w < kk.tick THEN {t} ELSE {})
             /\ \A u \in AllTasks \ {t} : SamePlace(r, kk, u)
             /\ \A u \in AllTasks : SameEvent(r, kk, u)
<1> DEFINE t == kk.current
           r == prvAddCurrentTaskToDelayedList(kk, w)
           wake == [kk.wake EXCEPT ![t] = w]
           late == vListInsert(kk.overflowDelayed, t, wake)
           soon == vListInsert(kk.delayed, t, wake)
           next == Min({kk.nextUnblock, w})
<1>1. t \in AllTasks /\ wake \in [AllTasks -> Ticks] /\ next \in Ticks
  <2>1. kk.nextUnblock \in Nat /\ w \in Nat /\ kk.nextUnblock \in Ticks /\ t \in AllTasks
    BY FieldTypes
  <2>2. next \in {kk.nextUnblock, w}
    BY <2>1, MinOfTwo
  <2>3. wake \in [AllTasks -> Ticks]
    BY DEF KernelState
  <2>4. QED
    BY <2>1, <2>2, <2>3
<1>2. \A u \in AllTasks : wake[u] \in Nat
  BY <1>1, FieldTypes
<1>3. /\ late \in Seq(AllTasks) /\ IsInjective(late) /\ ToSet(late) = ToSet(kk.overflowDelayed) \cup {t}
      /\ soon \in Seq(AllTasks) /\ IsInjective(soon) /\ ToSet(soon) = ToSet(kk.delayed) \cup {t}
  <2>1. /\ kk.overflowDelayed \in Seq(AllTasks) /\ IsInjective(kk.overflowDelayed)
        /\ kk.delayed \in Seq(AllTasks) /\ IsInjective(kk.delayed)
        /\ t \notin ToSet(kk.overflowDelayed) /\ t \notin ToSet(kk.delayed)
    BY ListTypes DEF Once, NoPlace
  <2> HIDE DEF wake
  <2>2. QED
    BY <1>1, <1>2, <2>1, ListInsert
<1>4. r = IF w < kk.tick
          THEN [kk EXCEPT !.wake = wake, !.overflowDelayed = late]
          ELSE [kk EXCEPT !.wake = wake, !.delayed = soon, !.nextUnblock = next]
  BY DEF prvAddCurrentTaskToDelayedList, KernelState
<1> HIDE DEF t, r, wake, late, soon, next
<1>5. r \in KernelState
  <2>1. CASE w < kk.tick
    BY <1>1, <1>3, <1>4, <2>1 DEF KernelState
  <2>2. CASE ~ (w < kk.tick)
    BY <1>1, <1>3, <1>4, <2>2 DEF KernelState
  <2>3. QED
    BY <2>1, <2>2
<1>6. /\ r.wake = wake
      /\ IF w < kk.tick
         THEN r.overflowDelayed = late /\ r.delayed = kk.delayed /\ r.nextUnblock = kk.nextUnblock
         ELSE r.delayed = soon /\ r.overflowDelayed = kk.overflowDelayed /\ r.nextUnblock = next
      /\ r.ready = kk.ready /\ r.topReady = kk.topReady /\ r.suspended = kk.suspended
      /\ r.waitingTermination = kk.waitingTermination
      /\ r.event = kk.event /\ r.pendingReady = kk.pendingReady
      /\ r.eventValue = kk.eventValue /\ Calm(r, kk)
  <2>1. CASE w < kk.tick
    BY <1>4, <2>1 DEF KernelState, Calm
  <2>2. CASE ~ (w < kk.tick)
    BY <1>4, <2>2 DEF KernelState, Calm
  <2>3. QED
    BY <2>1, <2>2
<1>7. Once(r)
  BY <1>3, <1>6 DEF Once
<1>8. DelayedTo(r, kk, w)
  BY <1>6 DEF DelayedTo, t, wake, late, soon, next
<1>9. /\ ToSet(r.delayed) = ToSet(kk.delayed) \cup (IF w < kk.tick THEN {} ELSE {t})
      /\ ToSet(r.overflowDelayed) = ToSet(kk.overflowDelayed) \cup (IF w < kk.tick THEN {t} ELSE {})
  BY <1>3, <1>6
<1>10. \A u \in AllTasks \ {t} : SamePlace(r, kk, u)
  BY <1>6, <1>9 DEF SamePlace, Calm
<1>11. \A u \in AllTasks : SameEvent(r, kk, u)
  BY <1>6 DEF SameEvent
<1>12. QED
  BY <1>5, <1>7, <1>8, <1>9, <1>10, <1>11 DEF r, t

\* The current task blocks until w.
LEMMA Blocks ==
  ASSUME NEW kk, NEW w \in Ticks, SoundBut(kk, kk.current), kk.current # IdleTask
  PROVE  LET g == RemoveGenericItem(kk, kk.current)
             r == prvAddCurrentTaskToDelayedList(g, w)
         IN  /\ Sound(r) /\ Calm(r, kk) /\ IsDelayed(r, kk.current)
             /\ g \in KernelState /\ Once(g) /\ GenericGone(g, kk, kk.current)
             /\ NoPlace(g, kk.current) /\ DelayedTo(r, g, w)
             /\ r.event = kk.event /\ r.pendingReady = kk.pendingReady
             /\ r.waitingTermination = vListRemove(kk.waitingTermination, kk.current)
             /\ \A u \in AllTasks \ {kk.current} : SamePlace(r, kk, u)
<1> DEFINE t == kk.current
           g == RemoveGenericItem(kk, t)
           r == prvAddCurrentTaskToDelayedList(g, w)
<1>1. kk \in KernelState /\ Once(kk) /\ t \in AllTasks
  BY FieldTypes DEF SoundBut
<1>2. /\ g \in KernelState /\ Once(g) /\ GenericGone(g, kk, t) /\ NoPlace(g, t)
      /\ \A u \in AllTasks \ {t} : SamePlace(g, kk, u)
      /\ \A u \in AllTasks : SameEvent(g, kk, u)
  BY <1>1, RemovesGeneric
<1> HIDE DEF g
<1>3. g.current = t
  BY <1>2 DEF GenericGone, Calm
<1>4. /\ r \in KernelState /\ Once(r)
      /\ DelayedTo(r, g, w)
      /\ ToSet(r.delayed) = ToSet(g.delayed) \cup (IF w < g.tick THEN {} ELSE {t})
      /\ ToSet(r.overflowDelayed) = ToSet(g.overflowDelayed) \cup (IF w < g.tick THEN {t} ELSE {})
      /\ \A u \in AllTasks \ {t} : SamePlace(r, g, u)
      /\ \A u \in AllTasks : SameEvent(r, g, u)
  BY <1>2, <1>3, AddsToDelayed
<1> HIDE DEF r
<1>5. \A u \in AllTasks \ {t} : SamePlace(r, kk, u)
  BY <1>2, <1>4, SamePlaceTrans
<1>6. \A u \in AllTasks : SameEvent(r, kk, u)
  BY <1>2, <1>4, SameEventTrans
<1>7. /\ r.event = kk.event /\ r.pendingReady = kk.pendingReady
      /\ r.waitingTermination = vListRemove(kk.waitingTermination, t)
      /\ \A p \in Priorities : r.ready[p] = vListRemove(kk.ready[p], t)
      /\ r.topReady = kk.topReady
  BY <1>2, <1>4 DEF GenericGone, DelayedTo
<1>8. Calm(r, kk)
  BY <1>2, <1>4, CalmTrans DEF GenericGone, DelayedTo
<1>9. /\ \A p \in Priorities : t \notin ToSet(r.ready[p])
      /\ t \notin r.suspended /\ t \notin ToSet(r.waitingTermination)
      /\ t \in ToSet(r.delayed) <=> ~ (w < g.tick)
      /\ t \in ToSet(r.overflowDelayed) <=> w < g.tick
  BY <1>2, <1>4 DEF NoPlace, DelayedTo
<1>10. IsDelayed(r, t) /\ ~ IsReady(r, t)
  <2>1. r.priority[t] \in Priorities
    BY <1>1, <1>4, FieldTypes
  <2>2. QED
    BY <1>9, <2>1 DEF IsDelayed, IsReady
<1>11. EventOnce(r, t)
  BY <1>1, <1>6 DEF SoundBut, EventOnce, SameEvent, IsWaiting, IsPending
<1>12. InPlace(r, t)
  BY <1>9, <1>10, <1>11 DEF InPlace, EventOnce
<1>13. TopKnown(r)
  BY <1>1, <1>4, <1>7, TopKnownKept DEF SoundBut
<1>14. Sound(r)
  BY <1>1, <1>4, <1>5, <1>6, <1>12, <1>13, SoundAgain DEF SoundBut
<1>15. QED
  BY <1>2, <1>4, <1>5, <1>7, <1>8, <1>10, <1>14 DEF r, g

\* A task that was taken out joins the suspended tasks.
LEMMA AddsToSuspended ==
  ASSUME NEW kk \in KernelState, NEW t \in AllTasks, Once(kk), NoPlace(kk, t)
  PROVE  LET r == [kk EXCEPT !.suspended = @ \cup {t}]
         IN  /\ r \in KernelState /\ Once(r) /\ Calm(r, kk)
             /\ r.suspended = kk.suspended \cup {t}
             /\ r.ready = kk.ready /\ r.topReady = kk.topReady
             /\ r.delayed = kk.delayed /\ r.overflowDelayed = kk.overflowDelayed
             /\ r.waitingTermination = kk.waitingTermination
             /\ r.event = kk.event /\ r.pendingReady = kk.pendingReady
             /\ r.wake = kk.wake /\ r.nextUnblock = kk.nextUnblock
             /\ \A u \in AllTasks \ {t} : SamePlace(r, kk, u)
             /\ \A u \in AllTasks : SameEvent(r, kk, u)
<1> DEFINE r == [kk EXCEPT !.suspended = @ \cup {t}]
<1>1. r = [kk EXCEPT !.suspended = kk.suspended \cup {t}]
  BY DEF KernelState
<1> HIDE DEF r
<1>2. r \in KernelState
  BY <1>1 DEF KernelState
<1>3. /\ r.suspended = kk.suspended \cup {t}
      /\ r.ready = kk.ready /\ r.topReady = kk.topReady
      /\ r.delayed = kk.delayed /\ r.overflowDelayed = kk.overflowDelayed
      /\ r.waitingTermination = kk.waitingTermination
      /\ r.event = kk.event /\ r.pendingReady = kk.pendingReady
      /\ r.wake = kk.wake /\ r.nextUnblock = kk.nextUnblock
      /\ Calm(r, kk)
  BY <1>1 DEF KernelState, Calm
<1>4. Once(r)
  BY <1>3 DEF Once
<1>5. \A u \in AllTasks \ {t} : SamePlace(r, kk, u)
  BY <1>3 DEF SamePlace, Calm
<1>6. \A u \in AllTasks : SameEvent(r, kk, u)
  BY <1>3 DEF SameEvent
<1>7. QED
  BY <1>2, <1>3, <1>4, <1>5, <1>6 DEF r

\* A task is suspended, whether or not it waits for an event at the same time.
SuspendedTo(r, kk, t) ==
  /\ r.suspended = kk.suspended \cup {t}
  /\ r.delayed = vListRemove(kk.delayed, t)
  /\ r.overflowDelayed = vListRemove(kk.overflowDelayed, t)
  /\ r.waitingTermination = vListRemove(kk.waitingTermination, t)
  /\ r.wake = [kk.wake EXCEPT ![t] = 0] /\ r.nextUnblock = kk.nextUnblock
  /\ Calm(r, kk)
  /\ \A u \in AllTasks \ {t} : SamePlace(r, kk, u)

\* A task moved to the suspended list.
LEMMA Suspends ==
  ASSUME NEW kk, NEW t \in AllTasks, SoundBut(kk, t), t # IdleTask
  PROVE  LET r == [RemoveGenericItem(kk, t) EXCEPT !.suspended = @ \cup {t}]
         IN  /\ Sound(r) /\ SuspendedTo(r, kk, t)
             /\ r.event = kk.event /\ r.pendingReady = kk.pendingReady
<1> DEFINE g == RemoveGenericItem(kk, t)
           r == [g EXCEPT !.suspended = @ \cup {t}]
<1>1. kk \in KernelState /\ Once(kk)
  BY DEF SoundBut
<1>2. /\ g \in KernelState /\ Once(g) /\ GenericGone(g, kk, t) /\ NoPlace(g, t)
      /\ \A u \in AllTasks \ {t} : SamePlace(g, kk, u)
      /\ \A u \in AllTasks : SameEvent(g, kk, u)
  BY <1>1, RemovesGeneric
<1> HIDE DEF g
<1>3. /\ r \in KernelState /\ Once(r) /\ Calm(r, g)
      /\ r.suspended = g.suspended \cup {t}
      /\ r.ready = g.ready /\ r.topReady = g.topReady
      /\ r.delayed = g.delayed /\ r.overflowDelayed = g.overflowDelayed
      /\ r.waitingTermination = g.waitingTermination
      /\ r.event = g.event /\ r.pendingReady = g.pendingReady
      /\ r.wake = g.wake /\ r.nextUnblock = g.nextUnblock
      /\ \A u \in AllTasks \ {t} : SamePlace(r, g, u)
      /\ \A u \in AllTasks : SameEvent(r, g, u)
  BY <1>2, AddsToSuspended
<1> HIDE DEF r
<1>4. \A u \in AllTasks \ {t} : SamePlace(r, kk, u)
  BY <1>2, <1>3, SamePlaceTrans
<1>5. \A u \in AllTasks : SameEvent(r, kk, u)
  BY <1>2, <1>3, SameEventTrans
<1>6. Calm(r, kk)
  BY <1>2, <1>3, CalmTrans DEF GenericGone
<1>7. SuspendedTo(r, kk, t) /\ r.event = kk.event /\ r.pendingReady = kk.pendingReady
  BY <1>2, <1>3, <1>4, <1>6 DEF SuspendedTo, GenericGone
<1>8. /\ \A p \in Priorities : t \notin ToSet(r.ready[p])
      /\ t \notin ToSet(r.delayed) /\ t \notin ToSet(r.overflowDelayed)
      /\ t \in r.suspended /\ t \notin ToSet(r.waitingTermination)
  BY <1>2, <1>3 DEF NoPlace
<1>9. ~ IsReady(r, t) /\ ~ IsDelayed(r, t)
  <2>1. r.priority[t] \in Priorities
    BY <1>3, FieldTypes
  <2>2. QED
    BY <1>8, <2>1 DEF IsDelayed, IsReady
<1>10. EventOnce(r, t)
  BY <1>5 DEF SoundBut, EventOnce, SameEvent, IsWaiting, IsPending
<1>11. InPlace(r, t)
  BY <1>8, <1>9, <1>10 DEF InPlace, EventOnce
<1>12. TopKnown(r)
  <2>1. r.topReady = kk.topReady /\ \A p \in Priorities : r.ready[p] = vListRemove(kk.ready[p], t)
    BY <1>2, <1>3 DEF GenericGone
  <2>2. QED
    BY <1>1, <1>3, <2>1, TopKnownKept DEF SoundBut
<1>13. Sound(r)
  BY <1>1, <1>3, <1>4, <1>5, <1>11, <1>12, SoundAgain DEF SoundBut
<1>14. QED
  BY <1>7, <1>13 DEF r, g

\* Taking out both items, in the order of vTaskSuspend and vTaskDelete.
LEMMA RemovesBoth ==
  ASSUME NEW kk, Sound(kk), NEW t \in AllTasks \ {IdleTask}
  PROVE  LET r == RemoveEventItem(RemoveGenericItem(kk, t), t)
         IN  /\ r \in KernelState /\ Once(r) /\ Calm(r, kk) /\ NoPlace(r, t) /\ NoEvent(r, t)
             /\ \A u \in AllTasks \ {t} : SamePlace(r, kk, u) /\ SameEvent(r, kk, u)
             /\ TopKnown(r)
             /\ r.suspended = kk.suspended \ {t}
             /\ r.delayed = vListRemove(kk.delayed, t)
             /\ r.overflowDelayed = vListRemove(kk.overflowDelayed, t)
             /\ r.waitingTermination = vListRemove(kk.waitingTermination, t)
             /\ \A e \in EventLists : r.event[e] = vListRemove(kk.event[e], t)
             /\ r.pendingReady = vListRemove(kk.pendingReady, t)
             /\ r.wake = [kk.wake EXCEPT ![t] = 0] /\ r.nextUnblock = kk.nextUnblock
<1> DEFINE g == RemoveGenericItem(kk, t)
           r == RemoveEventItem(g, t)
<1>1. kk \in KernelState /\ Once(kk) /\ TopKnown(kk)
  BY DEF Sound
<1>2. /\ g \in KernelState /\ Once(g) /\ GenericGone(g, kk, t) /\ NoPlace(g, t)
      /\ \A u \in AllTasks \ {t} : SamePlace(g, kk, u)
      /\ \A u \in AllTasks : SameEvent(g, kk, u)
  BY <1>1, RemovesGeneric
<1> HIDE DEF g
<1>3. /\ r \in KernelState /\ Once(r) /\ EventGone(r, g, t) /\ NoEvent(r, t)
      /\ \A u \in AllTasks : SamePlace(r, g, u)
      /\ \A u \in AllTasks \ {t} : SameEvent(r, g, u)
  BY <1>2, RemovesEvent
<1> HIDE DEF r
<1>4. \A u \in AllTasks \ {t} : SamePlace(r, kk, u)
  BY <1>2, <1>3, SamePlaceTrans
<1>5. \A u \in AllTasks \ {t} : SameEvent(r, kk, u)
  BY <1>2, <1>3, SameEventTrans
<1>6. Calm(r, kk)
  BY <1>2, <1>3, CalmTrans DEF GenericGone, EventGone
<1>7. NoPlace(r, t)
  BY <1>2, <1>3 DEF NoPlace, EventGone
<1>8. TopKnown(r)
  <2>1. r.topReady = kk.topReady /\ \A p \in Priorities : r.ready[p] = vListRemove(kk.ready[p], t)
    BY <1>2, <1>3 DEF GenericGone, EventGone
  <2>2. QED
    BY <1>1, <1>3, <2>1, TopKnownKept
<1>9. /\ r.suspended = kk.suspended \ {t}
      /\ r.delayed = vListRemove(kk.delayed, t)
      /\ r.overflowDelayed = vListRemove(kk.overflowDelayed, t)
      /\ r.waitingTermination = vListRemove(kk.waitingTermination, t)
      /\ r.wake = [kk.wake EXCEPT ![t] = 0] /\ r.nextUnblock = kk.nextUnblock
  BY <1>2, <1>3 DEF GenericGone, EventGone
<1>10. /\ \A e \in EventLists : r.event[e] = vListRemove(kk.event[e], t)
       /\ r.pendingReady = vListRemove(kk.pendingReady, t)
  BY <1>2, <1>3 DEF GenericGone, EventGone
<1>11. QED
  BY <1>3, <1>4, <1>5, <1>6, <1>7, <1>8, <1>9, <1>10 DEF r, g

\* vTaskSuspend's critical section: out of its lists, into the suspended one.
LEMMA SuspendsTask ==
  ASSUME NEW kk, Sound(kk), NEW t \in AllTasks \ {IdleTask}
  PROVE  LET r == SuspendTask(kk, t)
         IN  /\ Sound(r) /\ SuspendedTo(r, kk, t)
             /\ r.pendingReady = vListRemove(kk.pendingReady, t)
<1> DEFINE g == RemoveEventItem(RemoveGenericItem(kk, t), t)
           r == [g EXCEPT !.suspended = @ \cup {t}]
<1>1. SuspendTask(kk, t) = r
  BY DEF SuspendTask
<1>2. /\ g \in KernelState /\ Once(g) /\ Calm(g, kk) /\ NoPlace(g, t) /\ NoEvent(g, t)
      /\ \A u \in AllTasks \ {t} : SamePlace(g, kk, u) /\ SameEvent(g, kk, u)
      /\ TopKnown(g)
      /\ g.suspended = kk.suspended \ {t}
      /\ g.delayed = vListRemove(kk.delayed, t)
      /\ g.overflowDelayed = vListRemove(kk.overflowDelayed, t)
      /\ g.waitingTermination = vListRemove(kk.waitingTermination, t)
      /\ g.pendingReady = vListRemove(kk.pendingReady, t)
      /\ g.wake = [kk.wake EXCEPT ![t] = 0] /\ g.nextUnblock = kk.nextUnblock
  BY RemovesBoth
<1> HIDE DEF g
<1>3. /\ r \in KernelState /\ Once(r) /\ Calm(r, g)
      /\ r.suspended = g.suspended \cup {t}
      /\ r.ready = g.ready /\ r.topReady = g.topReady
      /\ r.delayed = g.delayed /\ r.overflowDelayed = g.overflowDelayed
      /\ r.waitingTermination = g.waitingTermination
      /\ r.event = g.event /\ r.pendingReady = g.pendingReady
      /\ r.wake = g.wake /\ r.nextUnblock = g.nextUnblock
      /\ \A u \in AllTasks \ {t} : SamePlace(r, g, u)
      /\ \A u \in AllTasks : SameEvent(r, g, u)
  BY <1>2, AddsToSuspended
<1> HIDE DEF r
<1>4. \A u \in AllTasks \ {t} : SamePlace(r, kk, u) /\ SameEvent(r, kk, u)
  BY <1>2, <1>3, SamePlaceTrans, SameEventTrans
<1>5. Calm(r, kk)
  BY <1>2, <1>3, CalmTrans
<1>6. SuspendedTo(r, kk, t) /\ r.pendingReady = vListRemove(kk.pendingReady, t)
  BY <1>2, <1>3, <1>4, <1>5 DEF SuspendedTo
<1>7. /\ \A p \in Priorities : t \notin ToSet(r.ready[p])
      /\ t \notin ToSet(r.delayed) /\ t \notin ToSet(r.overflowDelayed)
      /\ t \in r.suspended /\ t \notin ToSet(r.waitingTermination)
  BY <1>2, <1>3 DEF NoPlace
<1>8. ~ IsReady(r, t) /\ ~ IsDelayed(r, t)
  <2>1. r.priority[t] \in Priorities
    BY <1>3, FieldTypes
  <2>2. QED
    BY <1>7, <2>1 DEF IsDelayed, IsReady
<1>9. EventOnce(r, t) /\ ~ IsWaiting(r, t) /\ ~ IsPending(r, t)
  <2>1. NoEvent(r, t)
    BY <1>2, <1>3 DEF NoEvent
  <2>2. QED
    BY <2>1, NoEventOnce
<1>10. InPlace(r, t)
  BY <1>7, <1>8, <1>9 DEF InPlace, EventOnce
<1>11. TopKnown(r)
  BY <1>2, <1>3 DEF TopKnown
<1>12. Sound(r)
  BY <1>3, <1>4, <1>10, <1>11, SoundAgain DEF Sound
<1>13. QED
  BY <1>1, <1>6, <1>12

\* A deleted task waits for the idle task.
DeletedTo(r, kk, t) ==
  /\ r.suspended = kk.suspended \ {t}
  /\ r.delayed = vListRemove(kk.delayed, t)
  /\ r.overflowDelayed = vListRemove(kk.overflowDelayed, t)
  /\ t \in ToSet(r.waitingTermination)
  /\ r.wake = [kk.wake EXCEPT ![t] = 0] /\ r.nextUnblock = kk.nextUnblock
  /\ r.pendingReady = vListRemove(kk.pendingReady, t)
  /\ Calm(r, kk)
  /\ \A u \in AllTasks \ {t} : SamePlace(r, kk, u)

\* vTaskDelete's critical section: out of its lists, into the one of tasks to reap.
LEMMA Deletes ==
  ASSUME NEW kk, Sound(kk), NEW t \in AllTasks \ {IdleTask}
  PROVE  LET g == RemoveEventItem(RemoveGenericItem(kk, t), t)
             r == [g EXCEPT !.waitingTermination = vListInsertEnd(@, t)]
         IN  Sound(r) /\ DeletedTo(r, kk, t)
<1> DEFINE g == RemoveEventItem(RemoveGenericItem(kk, t), t)
           list == vListInsertEnd(g.waitingTermination, t)
           r == [g EXCEPT !.waitingTermination = vListInsertEnd(@, t)]
<1>1. /\ g \in KernelState /\ Once(g) /\ Calm(g, kk) /\ NoPlace(g, t) /\ NoEvent(g, t)
      /\ \A u \in AllTasks \ {t} : SamePlace(g, kk, u) /\ SameEvent(g, kk, u)
      /\ TopKnown(g)
      /\ g.suspended = kk.suspended \ {t}
      /\ g.delayed = vListRemove(kk.delayed, t)
      /\ g.overflowDelayed = vListRemove(kk.overflowDelayed, t)
      /\ g.waitingTermination = vListRemove(kk.waitingTermination, t)
      /\ g.pendingReady = vListRemove(kk.pendingReady, t)
      /\ g.wake = [kk.wake EXCEPT ![t] = 0] /\ g.nextUnblock = kk.nextUnblock
  BY RemovesBoth
<1> HIDE DEF g
<1>2. /\ list \in Seq(AllTasks) /\ IsInjective(list)
      /\ ToSet(list) = ToSet(g.waitingTermination) \cup {t}
  <2>1. /\ g.waitingTermination \in Seq(AllTasks) /\ IsInjective(g.waitingTermination)
        /\ t \notin ToSet(g.waitingTermination)
    BY <1>1, ListTypes DEF Once, NoPlace
  <2>2. QED
    BY <2>1, ListInsertEnd
<1>3. r = [g EXCEPT !.waitingTermination = list]
  BY <1>1 DEF KernelState
<1> HIDE DEF list, r
<1>4. r \in KernelState
  BY <1>1, <1>2, <1>3 DEF KernelState
<1>5. /\ r.waitingTermination = list
      /\ r.suspended = g.suspended /\ r.ready = g.ready /\ r.topReady = g.topReady
      /\ r.delayed = g.delayed /\ r.overflowDelayed = g.overflowDelayed
      /\ r.event = g.event /\ r.pendingReady = g.pendingReady
      /\ r.wake = g.wake /\ r.nextUnblock = g.nextUnblock
      /\ Calm(r, g)
  BY <1>1, <1>3 DEF KernelState, Calm
<1>6. Once(r)
  BY <1>1, <1>2, <1>5 DEF Once
<1>7. \A u \in AllTasks \ {t} : SamePlace(r, kk, u) /\ SameEvent(r, kk, u)
  <2>1. \A u \in AllTasks \ {t} : SamePlace(r, g, u) /\ SameEvent(r, g, u)
    BY <1>2, <1>5 DEF SamePlace, SameEvent, Calm
  <2>2. QED
    BY <1>1, <2>1, SamePlaceTrans, SameEventTrans
<1>8. Calm(r, kk)
  BY <1>1, <1>5, CalmTrans
<1>9. t \in ToSet(r.waitingTermination)
  BY <1>2, <1>5
<1>10. DeletedTo(r, kk, t)
  BY <1>1, <1>5, <1>7, <1>8, <1>9 DEF DeletedTo
<1>11. /\ \A p \in Priorities : t \notin ToSet(r.ready[p])
       /\ t \notin ToSet(r.delayed) /\ t \notin ToSet(r.overflowDelayed)
       /\ t \notin r.suspended
  BY <1>1, <1>5 DEF NoPlace
<1>12. ~ IsReady(r, t) /\ ~ IsDelayed(r, t)
  <2>1. r.priority[t] \in Priorities
    BY <1>4, FieldTypes
  <2>2. QED
    BY <1>11, <2>1 DEF IsDelayed, IsReady
<1>13. EventOnce(r, t) /\ ~ IsWaiting(r, t) /\ ~ IsPending(r, t)
  <2>1. NoEvent(r, t)
    BY <1>1, <1>5 DEF NoEvent
  <2>2. QED
    BY <2>1, NoEventOnce
<1>14. InPlace(r, t)
  BY <1>11, <1>12, <1>13 DEF InPlace, EventOnce
<1>15. TopKnown(r)
  BY <1>1, <1>5 DEF TopKnown
<1>16. Sound(r)
  BY <1>4, <1>6, <1>7, <1>14, <1>15, SoundAgain DEF Sound
<1>17. QED
  BY <1>10, <1>16 DEF r, g

-------------------------------------------------------------------------------
(* Waking several tasks, one after the other *)

\* Tasks join the ready lists at their ends only.
Grows(new, old) == \A i \in DOMAIN old : i \in DOMAIN new /\ new[i] = old[i]

QueuedUp(r, kk) == \A p \in Priorities : Grows(r.ready[p], kk.ready[p])

LEMMA QueuedUpTrans ==
  ASSUME NEW a, NEW b, NEW c, QueuedUp(a, b), QueuedUp(b, c)
  PROVE  QueuedUp(a, c)
BY DEF QueuedUp, Grows

LEMMA AppendGrows ==
  ASSUME NEW list \in Seq(AllTasks), NEW t
  PROVE  Grows(Append(list, t), list)
<1>1. DOMAIN list = 1 .. Len(list) /\ Len(list) \in Nat
  OBVIOUS
<1>2. DOMAIN Append(list, t) = 1 .. Len(list) + 1 /\ \A i \in 1 .. Len(list) : Append(list, t)[i] = list[i]
  OBVIOUS
<1>3. QED
  BY <1>1, <1>2 DEF Grows

\* A task that was not ready, and becomes it.
LEMMA MovedQueuesUp ==
  ASSUME NEW kk, Sound(kk), NEW t \in AllTasks, ~ IsReady(kk, t), NEW r, Moved(r, kk, t)
  PROVE  QueuedUp(r, kk)
<1> SUFFICES ASSUME NEW p \in Priorities
             PROVE  Grows(r.ready[p], kk.ready[p])
  BY DEF QueuedUp
<1>1. kk.ready[p] \in Seq(AllTasks)
  BY ListTypes DEF Sound
<1>2. t \notin ToSet(kk.ready[p])
  BY DEF Sound, InPlace, IsReady
<1>3. vListRemove(kk.ready[p], t) = kk.ready[p]
  BY <1>2 DEF vListRemove
<1>4. r.ready[p] = Append(kk.ready[p], t) \/ r.ready[p] = kk.ready[p]
  BY <1>3 DEF Moved
<1>5. Grows(kk.ready[p], kk.ready[p])
  BY DEF Grows
<1>6. QED
  BY <1>1, <1>4, <1>5, AppendGrows

\* Nobody has begun to wait for an event.
EventsFall(r, kk) == \A e \in EventLists : ToSet(r.event[e]) \subseteq ToSet(kk.event[e])

LEMMA EventsFallTrans ==
  ASSUME NEW a, NEW b, NEW c, EventsFall(a, b), EventsFall(b, c)
  PROVE  EventsFall(a, c)
BY DEF EventsFall

\* All the tasks of W have become ready; the other tasks are where they were, and
\* the delayed lists are still sorted.
Woken(r, kk, W) ==
  /\ Calm(r, kk) /\ EventsFall(r, kk)
  /\ r.nextUnblock = kk.nextUnblock
  /\ ToSet(r.delayed) = ToSet(kk.delayed) \ W
  /\ ToSet(r.overflowDelayed) = ToSet(kk.overflowDelayed) \ W
  /\ ToSet(r.waitingTermination) = ToSet(kk.waitingTermination) \ W
  /\ r.suspended = kk.suspended \ W
  /\ ToSet(r.pendingReady) = ToSet(kk.pendingReady) \ W
  /\ \A u \in AllTasks \ W : r.wake[u] = kk.wake[u]
  /\ Sorted(kk.delayed, kk.wake) => Sorted(r.delayed, r.wake)
  /\ Sorted(kk.overflowDelayed, kk.wake) => Sorted(r.overflowDelayed, r.wake)
  /\ \A u \in AllTasks : IsReady(r, u) <=> IsReady(kk, u) \/ u \in W

\* Sortedness depends on the values of the list's tasks only.
LEMMA SortedSame ==
  ASSUME NEW list \in Seq(AllTasks), NEW value, NEW other, Sorted(list, value),
         \A u \in ToSet(list) : other[u] = value[u]
  PROVE  Sorted(list, other)
<1>1. \A i \in 1 .. Len(list) : list[i] \in ToSet(list)
  BY InList
<1>2. QED
  BY <1>1 DEF Sorted

\* Without the task whose wake time is reset.
LEMMA SortedWithout ==
  ASSUME NEW list \in Seq(AllTasks), IsInjective(list), NEW t, NEW value, Sorted(list, value),
         NEW other, \A u \in AllTasks \ {t} : other[u] = value[u]
  PROVE  Sorted(vListRemove(list, t), other)
<1> DEFINE rest == vListRemove(list, t)
<1>1. rest \in Seq(AllTasks) /\ ToSet(rest) = ToSet(list) \ {t} /\ ToSet(list) \subseteq AllTasks
  BY ListRemove, InList
<1>2. Sorted(rest, value)
  BY RemoveKeepsOrder
<1> HIDE DEF rest
<1>3. Sorted(rest, other)
  BY <1>1, <1>2, SortedSame
<1>4. QED
  BY <1>3 DEF rest

\* Of all the lists of a state, what taking a task out of them does.
LEMMA TakenOut ==
  ASSUME NEW kk \in KernelState, Once(kk), NEW t
  PROVE  /\ ToSet(vListRemove(kk.delayed, t)) = ToSet(kk.delayed) \ {t}
         /\ ToSet(vListRemove(kk.overflowDelayed, t)) = ToSet(kk.overflowDelayed) \ {t}
         /\ ToSet(vListRemove(kk.waitingTermination, t)) = ToSet(kk.waitingTermination) \ {t}
         /\ ToSet(vListRemove(kk.pendingReady, t)) = ToSet(kk.pendingReady) \ {t}
<1>1. /\ kk.delayed \in Seq(AllTasks) /\ kk.overflowDelayed \in Seq(AllTasks)
      /\ kk.waitingTermination \in Seq(AllTasks) /\ kk.pendingReady \in Seq(AllTasks)
  BY ListTypes
<1>2. /\ IsInjective(kk.delayed) /\ IsInjective(kk.overflowDelayed)
      /\ IsInjective(kk.waitingTermination) /\ IsInjective(kk.pendingReady)
  BY DEF Once
<1>3. QED
  BY <1>1, <1>2, ListRemove

LEMMA SameReady ==
  ASSUME NEW r, NEW kk \in KernelState, NEW u \in AllTasks, SamePlace(r, kk, u)
  PROVE  IsReady(r, u) <=> IsReady(kk, u)
<1>1. kk.priority[u] \in Priorities
  BY FieldTypes
<1>2. QED
  BY <1>1 DEF SamePlace, IsReady

\* A task that became ready, as far as the delayed lists go.
LEMMA MovedKeepsOrder ==
  ASSUME NEW r, NEW kk \in KernelState, Once(kk), NEW t \in AllTasks, Moved(r, kk, t)
  PROVE  /\ \A u \in AllTasks \ {t} : r.wake[u] = kk.wake[u]
         /\ Sorted(kk.delayed, kk.wake) => Sorted(r.delayed, r.wake)
         /\ Sorted(kk.overflowDelayed, kk.wake) => Sorted(r.overflowDelayed, r.wake)
<1>1. kk.wake \in [AllTasks -> Ticks]
  BY DEF KernelState
<1>2. \A u \in AllTasks \ {t} : r.wake[u] = kk.wake[u]
  BY <1>1 DEF Moved
<1>3. /\ r.delayed = vListRemove(kk.delayed, t)
      /\ r.overflowDelayed = vListRemove(kk.overflowDelayed, t)
  BY DEF Moved
<1>4. /\ kk.delayed \in Seq(AllTasks) /\ kk.overflowDelayed \in Seq(AllTasks)
      /\ IsInjective(kk.delayed) /\ IsInjective(kk.overflowDelayed)
  BY ListTypes DEF Once
<1>5. ASSUME Sorted(kk.delayed, kk.wake) PROVE Sorted(r.delayed, r.wake)
  <2>1. Sorted(vListRemove(kk.delayed, t), r.wake)
    BY <1>2, <1>4, <1>5, SortedWithout
  <2>2. QED
    BY <1>3, <2>1
<1>6. ASSUME Sorted(kk.overflowDelayed, kk.wake) PROVE Sorted(r.overflowDelayed, r.wake)
  <2>1. Sorted(vListRemove(kk.overflowDelayed, t), r.wake)
    BY <1>2, <1>4, <1>6, SortedWithout
  <2>2. QED
    BY <1>3, <2>1
<1>7. QED
  BY <1>2, <1>5, <1>6

\* One wake-up makes one task ready and leaves the others alone.
LEMMA WokenOne ==
  ASSUME NEW kk, Sound(kk), NEW t \in AllTasks
  PROVE  /\ Sound(WakeUp(kk, t)) /\ Woken(WakeUp(kk, t), kk, {t})
         /\ ~ IsReady(kk, t) => QueuedUp(WakeUp(kk, t), kk)
<1> DEFINE r == WakeUp(kk, t)
<1>1. /\ Sound(r) /\ Moved(r, kk, t) /\ r.pendingReady = vListRemove(kk.pendingReady, t)
      /\ \A e \in EventLists : r.event[e] = vListRemove(kk.event[e], t)
  BY WakesUp
<1> HIDE DEF r
<1>2. kk \in KernelState /\ Once(kk)
  BY DEF Sound
<1>10. EventsFall(r, kk)
  <2>1. ASSUME NEW e \in EventLists PROVE ToSet(r.event[e]) \subseteq ToSet(kk.event[e])
    <3>1. kk.event[e] \in Seq(AllTasks) /\ IsInjective(kk.event[e])
      BY <1>2, ListTypes DEF Once
    <3>2. ToSet(r.event[e]) = ToSet(kk.event[e]) \ {t}
      BY <1>1, <3>1, ListRemove
    <3>3. QED
      BY <3>2
  <2>2. QED
    BY <2>1 DEF EventsFall
<1>3. /\ ToSet(r.delayed) = ToSet(kk.delayed) \ {t}
      /\ ToSet(r.overflowDelayed) = ToSet(kk.overflowDelayed) \ {t}
      /\ ToSet(r.waitingTermination) = ToSet(kk.waitingTermination) \ {t}
      /\ ToSet(r.pendingReady) = ToSet(kk.pendingReady) \ {t}
  <2>1. /\ r.delayed = vListRemove(kk.delayed, t)
        /\ r.overflowDelayed = vListRemove(kk.overflowDelayed, t)
        /\ r.waitingTermination = vListRemove(kk.waitingTermination, t)
    BY <1>1 DEF Moved
  <2>2. QED
    BY <1>1, <1>2, <2>1, TakenOut
<1>4. /\ \A u \in AllTasks \ {t} : r.wake[u] = kk.wake[u]
      /\ Sorted(kk.delayed, kk.wake) => Sorted(r.delayed, r.wake)
      /\ Sorted(kk.overflowDelayed, kk.wake) => Sorted(r.overflowDelayed, r.wake)
  BY <1>1, <1>2, MovedKeepsOrder
<1>5. \A u \in AllTasks : IsReady(r, u) <=> IsReady(kk, u) \/ u \in {t}
  <2>1. \A u \in AllTasks \ {t} : IsReady(r, u) <=> IsReady(kk, u)
    BY <1>1, <1>2, SameReady DEF Moved
  <2>2. QED
    BY <1>1, <2>1 DEF Moved
<1>6. Calm(r, kk) /\ r.nextUnblock = kk.nextUnblock /\ r.suspended = kk.suspended \ {t}
  BY <1>1 DEF Moved
<1>7. Woken(r, kk, {t})
  BY <1>3, <1>4, <1>5, <1>6, <1>10 DEF Woken
<1>8. ~ IsReady(kk, t) => QueuedUp(r, kk)
  BY <1>1, MovedQueuesUp
<1>9. QED
  BY <1>1, <1>7, <1>8 DEF r

LEMMA WokenNone ==
  ASSUME NEW kk
  PROVE  Woken(kk, kk, {})
BY DEF Woken, Calm, EventsFall

LEMMA WokenTrans ==
  ASSUME NEW a, NEW b, NEW c, NEW V, NEW W, Woken(a, b, V), Woken(b, c, W)
  PROVE  Woken(a, c, W \cup V)
<1>1. Calm(a, c) /\ EventsFall(a, c)
  BY CalmTrans, EventsFallTrans DEF Woken
<1>2. /\ a.nextUnblock = c.nextUnblock
      /\ \A u \in AllTasks \ (W \cup V) : a.wake[u] = c.wake[u]
      /\ Sorted(c.delayed, c.wake) => Sorted(a.delayed, a.wake)
      /\ Sorted(c.overflowDelayed, c.wake) => Sorted(a.overflowDelayed, a.wake)
      /\ \A u \in AllTasks : IsReady(a, u) <=> IsReady(c, u) \/ u \in W \cup V
  BY DEF Woken
<1>3. /\ ToSet(a.delayed) = ToSet(c.delayed) \ (W \cup V)
      /\ ToSet(a.overflowDelayed) = ToSet(c.overflowDelayed) \ (W \cup V)
      /\ ToSet(a.waitingTermination) = ToSet(c.waitingTermination) \ (W \cup V)
      /\ ToSet(a.pendingReady) = ToSet(c.pendingReady) \ (W \cup V)
      /\ a.suspended = c.suspended \ (W \cup V)
  BY DEF Woken
<1>4. QED
  BY <1>1, <1>2, <1>3 DEF Woken

\* The fold of WakeUp, as a recursive function on the sets of indices.
WakeIter(kk, list) ==
  CHOOSE iter : iter = [s \in SUBSET DOMAIN list |->
                          IF s = {} THEN kk ELSE WakeUp(iter[s \ {Max(s)}], list[Max(s)])]

\* Waking a list of tasks, as the function the fold runs along.
LEMMA WakeUnfolds ==
  ASSUME NEW kk, NEW list
  PROVE  FoldLeft(WakeUp, kk, list) = WakeIter(kk, list)[DOMAIN list]
BY DEF FoldLeft, MapThenFoldSet, WakeIter

LEMMA ListIsFunction ==
  ASSUME NEW S, NEW s \in Seq(S)
  PROVE  /\ Len(s) \in Nat /\ DOMAIN s = 1 .. Len(s) /\ s \in [1 .. Len(s) -> S]
         /\ ToSet(s) = {s[i] : i \in 1 .. Len(s)}
BY DEF ToSet

\* Waking a list of tasks makes exactly these ready, and puts them behind the tasks
\* that were ready before, by induction along the list.
LEMMA WakesAll ==
  ASSUME NEW kk, Sound(kk), NEW list \in Seq(AllTasks)
  PROVE  LET r == FoldLeft(WakeUp, kk, list)
         IN  /\ Sound(r) /\ Woken(r, kk, ToSet(list))
             /\ IsInjective(list) /\ (\A t \in ToSet(list) : ~ IsReady(kk, t)) => QueuedUp(r, kk)
<1> DEFINE n == Len(list)
           Fresh == IsInjective(list) /\ \A t \in ToSet(list) : ~ IsReady(kk, t)
           R == {r \in KernelState : Sound(r)}
           G == [p \in AllTasks \X R |-> WakeUp(p[2], p[1])]
           g == WakeIter(kk, list)
           Next1(iter) == [s \in SUBSET DOMAIN list |->
                             IF s = {} THEN kk ELSE WakeUp(iter[s \ {Max(s)}], list[Max(s)])]
<1>1. n \in Nat /\ list \in [1 .. n -> AllTasks] /\ DOMAIN list = 1 .. n
  BY ListIsFunction
<1>2. ASSUME NEW t \in AllTasks, NEW r \in R
      PROVE  /\ WakeUp(r, t) \in R /\ Woken(WakeUp(r, t), r, {t})
             /\ ~ IsReady(r, t) => QueuedUp(WakeUp(r, t), r)
  <2>1. /\ Sound(WakeUp(r, t)) /\ Woken(WakeUp(r, t), r, {t})
        /\ ~ IsReady(r, t) => QueuedUp(WakeUp(r, t), r)
    BY <1>2, WokenOne
  <2>2. QED
    BY <2>1 DEF Sound
<1>3. G \in [AllTasks \X R -> R] /\ \A t \in AllTasks, r \in R : G[<<t, r>>] = WakeUp(r, t)
  BY <1>2
<1>4. kk \in R
  BY DEF Sound
<1> HIDE DEF G, n
<1>5. PICK f \in [SUBSET (1 .. n) -> R] : LastFolds(f, list, n, kk, G)
  <2> HIDE DEF R
  <2> QED
    BY <1>1, <1>3, <1>4, LastFirst
<1>0. \A r \in R : Sound(r)
  OBVIOUS
<1> HIDE DEF R
<1>6. ASSUME NEW s \in SUBSET (1 .. n)
      PROVE  f[s] = IF s = {} THEN kk ELSE WakeUp(f[s \ {Max(s)}], list[Max(s)])
  <2>1. CASE s = {}
    BY <1>5, <2>1 DEF LastFolds
  <2>2. CASE s # {}
    <3>1. Max(s) \in 1 .. n
      BY <1>1, <2>2, MaxIsLast
    <3>2. list[Max(s)] \in AllTasks /\ f[s \ {Max(s)}] \in R
      BY <1>1, <3>1
    <3>3. f[s] = G[<<list[Max(s)], f[s \ {Max(s)}]>>]
      BY <1>5, <2>2 DEF LastFolds
    <3>4. QED
      BY <1>3, <2>2, <3>2, <3>3
  <2>3. QED
    BY <2>1, <2>2
<1>7. f = Next1(f)
  BY <1>1, <1>6
<1>8. g = Next1(g)
  BY <1>7 DEF WakeIter
<1> HIDE DEF g
<1>9. \A s \in SUBSET (1 .. n) :
        g[s] = IF s = {} THEN kk ELSE WakeUp(g[s \ {Max(s)}], list[Max(s)])
  BY <1>1, <1>8
<1> DEFINE First(m) == {list[i] : i \in 1 .. m}
           T == {m \in Nat : m <= n => /\ g[1 .. m] \in R /\ Woken(g[1 .. m], kk, First(m))
                                       /\ Fresh => QueuedUp(g[1 .. m], kk)}
<1>10. 0 \in T
  <2>1. 1 .. 0 = {} /\ First(0) = {}
    OBVIOUS
  <2>2. g[1 .. 0] = kk
    BY <1>9, <2>1
  <2>3. QueuedUp(kk, kk)
    BY DEF QueuedUp, Grows
  <2>4. QED
    BY <1>4, <2>1, <2>2, <2>3, WokenNone
<1>11. ASSUME NEW m \in Nat, m \in T PROVE m + 1 \in T
  <2> SUFFICES ASSUME m + 1 <= n
               PROVE  /\ g[1 .. m + 1] \in R /\ Woken(g[1 .. m + 1], kk, First(m + 1))
                      /\ Fresh => QueuedUp(g[1 .. m + 1], kk)
    OBVIOUS
  <2>0. n \in Nat /\ m + 1 \in Nat /\ m + 1 > 0 /\ (m + 1) - 1 = m
    BY <1>1
  <2>1. /\ Max(1 .. m + 1) = m + 1 /\ (1 .. m + 1) \ {m + 1} = 1 .. m
        /\ 1 .. m + 1 \in SUBSET (1 .. n) /\ 1 .. m + 1 # {}
    <3>1. Max(1 .. m + 1) = m + 1 /\ (1 .. m + 1) \ {m + 1} = 1 .. m
      BY <2>0, MaxIsLast
    <3>2. QED
      BY <2>0, <3>1
  <2>2. g[1 .. m + 1] = WakeUp(g[1 .. m], list[m + 1])
    BY <1>9, <2>1
  <2>3. /\ g[1 .. m] \in R /\ Woken(g[1 .. m], kk, First(m))
        /\ Fresh => QueuedUp(g[1 .. m], kk)
    BY <1>1, <1>11
  <2>4. list[m + 1] \in AllTasks /\ First(m + 1) = First(m) \cup {list[m + 1]}
    BY <1>1
  <2>5. Fresh => list[m + 1] \notin First(m) /\ ~ IsReady(kk, list[m + 1])
    <3>1. \A i \in 1 .. m : i \in DOMAIN list /\ i # m + 1
      BY <1>1
    <3>2. m + 1 \in DOMAIN list /\ list[m + 1] \in ToSet(list)
      BY <1>1, ListIsFunction
    <3>3. QED
      BY <3>1, <3>2 DEF IsInjective
  <2> HIDE DEF First, Fresh
  <2>6. /\ g[1 .. m + 1] \in R /\ Woken(g[1 .. m + 1], g[1 .. m], {list[m + 1]})
        /\ ~ IsReady(g[1 .. m], list[m + 1]) => QueuedUp(g[1 .. m + 1], g[1 .. m])
    BY <1>2, <2>2, <2>3, <2>4
  <2>7. Fresh => ~ IsReady(g[1 .. m], list[m + 1])
    BY <2>3, <2>4, <2>5 DEF Woken
  <2>8. Fresh => QueuedUp(g[1 .. m + 1], kk)
    BY <2>3, <2>6, <2>7, QueuedUpTrans
  <2>9. QED
    BY <2>3, <2>4, <2>6, <2>8, WokenTrans
<1>12. n \in T
  <2> HIDE DEF T
  <2> QED
    BY <1>1, <1>10, <1>11, SetInduction
<1>13. /\ g[1 .. n] \in R /\ Woken(g[1 .. n], kk, First(n))
       /\ Fresh => QueuedUp(g[1 .. n], kk)
  <2> HIDE DEF Fresh, First
  <2> QED
    BY <1>1, <1>12
<1>14. First(n) = ToSet(list)
  BY ListIsFunction DEF n
<1>15. FoldLeft(WakeUp, kk, list) = g[1 .. n]
  BY <1>1, WakeUnfolds DEF g
<1>16. QED
  BY <1>0, <1>13, <1>14, <1>15

-------------------------------------------------------------------------------
(* The tick count *)

\* Remainders of what is less than one lap outside the tick count's range.
LEMMA OneLap ==
  ASSUME NEW m \in Nat \ {0}, NEW x \in Int
  PROVE  /\ x \in 0 .. m - 1 => x % m = x
         /\ x \in m .. 2 * m - 1 => x % m = x - m
         /\ x \in -m .. -1 => x % m = x + m
<1>1. PICK q \in Int : x = m * q + (x % m)
  <2>1. x = m * (x \div m) + (x % m) /\ (x \div m) \in Int
    BY SMT
  <2> QED
    BY <2>1
<1>2. x % m \in 0 .. m - 1
  BY SMT
<1> DEFINE r == x % m
<1>3. x = m * q + r /\ r \in 0 .. m - 1
  BY <1>1, <1>2
<1> HIDE DEF r
<1>4. x \in 0 .. m - 1 => r = x
  <2>1. CASE q = 0
    BY <2>1, <1>3, SMT
  <2>2. CASE q >= 1
    <3>1. m * q >= m
      BY <2>2, SMT
    <3> QED
      BY <3>1, <1>3, SMT
  <2>3. CASE q <= -1
    <3>1. m * q <= -m
      BY <2>3, SMT
    <3> QED
      BY <3>1, <1>3, SMT
  <2> QED
    BY <2>1, <2>2, <2>3
<1>5. x \in m .. 2 * m - 1 => r = x - m
  <2>1. CASE q = 1
    BY <2>1, <1>3, SMT
  <2>2. CASE q >= 2
    <3>1. m * q >= 2 * m
      BY <2>2, SMT
    <3> QED
      BY <3>1, <1>3, SMT
  <2>3. CASE q <= 0
    <3>1. m * q <= 0
      BY <2>3, SMT
    <3> QED
      BY <3>1, <1>3, SMT
  <2> QED
    BY <2>1, <2>2, <2>3
<1>6. x \in -m .. -1 => r = x + m
  <2>1. CASE q = -1
    BY <2>1, <1>3, SMT
  <2>2. CASE q >= 0
    <3>1. m * q >= 0
      BY <2>2, SMT
    <3> QED
      BY <3>1, <1>3, SMT
  <2>3. CASE q <= -2
    <3>1. m * q <= -(2 * m)
      BY <2>3, SMT
    <3> QED
      BY <3>1, <1>3, SMT
  <2> QED
    BY <2>1, <2>2, <2>3
<1>7. QED
  BY <1>4, <1>5, <1>6 DEF r

\* The arithmetic of a tick count that wraps at most once.
LEMMA TicksWrap ==
  ASSUME NEW x \in Int
  PROVE  /\ x \in Ticks => x % TICK_MOD = x
         /\ x \in TICK_MOD .. 2 * TICK_MOD - 1 => x % TICK_MOD = x - TICK_MOD
         /\ x \in -TICK_MOD .. -1 => x % TICK_MOD = x + TICK_MOD
<1>1. TICK_MOD \in Nat \ {0}
  BY KernelAssumption
<1>2. QED
  BY <1>1, OneLap DEF Ticks

\* A remainder is the only number in its range that is a multiple away.
LEMMA RemainderIs ==
  ASSUME NEW m \in Nat \ {0}, NEW x \in Int, NEW p \in Int, NEW y \in 0 .. m - 1, x = m * p + y
  PROVE  x % m = y
<1> DEFINE r == x % m
<1>1. PICK q \in Int : x = m * q + (x % m)
  <2>1. x = m * (x \div m) + (x % m) /\ (x \div m) \in Int
    BY SMT
  <2> QED
    BY <2>1
<1>2. r \in 0 .. m - 1
  BY SMT
<1>3. m * q + r = m * p + y
  BY <1>1
<1> HIDE DEF r
<1> DEFINE d == q - p
<1>4. m * d = y - r /\ d \in Int
  BY <1>2, <1>3, SMT
<1> HIDE DEF d
<1>5. CASE d >= 1
  <2>1. m * d >= m
    BY <1>4, <1>5, SMT
  <2>2. QED
    BY <1>2, <1>4, <2>1, SMT
<1>6. CASE d <= -1
  <2>1. m * d <= -m
    BY <1>4, <1>6, SMT
  <2>2. QED
    BY <1>2, <1>4, <2>1, SMT
<1>7. CASE d = 0
  BY <1>2, <1>4, <1>7, SMT
<1>8. QED
  BY <1>4, <1>5, <1>6, <1>7 DEF r

\* A tick count that wraps, one tick later.
LEMMA WrapsOnce ==
  ASSUME NEW x \in Nat
  PROVE  ((x % TICK_MOD) + 1) % TICK_MOD = (x + 1) % TICK_MOD
<1> DEFINE m == TICK_MOD
           y == x % m
<1>0. m \in Nat /\ m > 2
  BY KernelAssumption
<1> HIDE DEF m
<1>1. PICK q \in Int : x = m * q + (x % m)
  <2>1. x = m * (x \div m) + (x % m) /\ (x \div m) \in Int
    BY <1>0, SMT
  <2> QED
    BY <2>1
<1>2. y \in 0 .. m - 1 /\ x = m * q + y
  BY <1>0, <1>1, SMT
<1> HIDE DEF y
<1>3. CASE y # m - 1
  <2>1. y + 1 \in 0 .. m - 1 /\ x + 1 = m * q + (y + 1) /\ m \in Nat \ {0} /\ x + 1 \in Int
    BY <1>0, <1>2, <1>3, SMT
  <2>2. (x + 1) % m = y + 1
    BY <2>1, RemainderIs
  <2>3. (y + 1) % m = y + 1
    BY <2>1, OneLap
  <2>4. QED
    BY <2>2, <2>3 DEF m, y
<1>4. CASE y = m - 1
  <2>1. /\ x + 1 = m * (q + 1) + 0 /\ 0 \in 0 .. m - 1 /\ q + 1 \in Int
        /\ m \in Nat \ {0} /\ x + 1 \in Int
    BY <1>0, <1>2, <1>4, SMT
  <2>2. (x + 1) % m = 0
    BY <2>1, RemainderIs
  <2>3. (y + 1) % m = 0
    <3>1. y + 1 = m /\ m \in m .. 2 * m - 1 /\ m \in Int
      BY <1>0, <1>4
    <3>2. m % m = m - m
      BY <2>1, <3>1, OneLap
    <3>3. QED
      BY <1>0, <3>1, <3>2
  <2>4. QED
    BY <2>2, <2>3 DEF m, y
<1>5. QED
  BY <1>3, <1>4

\* The tick count after the next one is 0 at portMAX_DELAY.
LEMMA NextTick ==
  ASSUME NEW t \in Ticks
  PROVE  /\ (t + 1) % TICK_MOD = IF t = portMAX_DELAY THEN 0 ELSE t + 1
         /\ (t + 1) % TICK_MOD \in Ticks
<1>1. TICK_MOD \in Nat /\ TICK_MOD > 2 /\ t \in 0 .. TICK_MOD - 1 /\ t + 1 \in Int
  BY KernelAssumption DEF Ticks
<1>2. CASE t = TICK_MOD - 1
  <2>1. t + 1 \in TICK_MOD .. 2 * TICK_MOD - 1
    BY <1>1, <1>2
  <2>2. (t + 1) % TICK_MOD = (t + 1) - TICK_MOD
    BY <1>1, <2>1, TicksWrap
  <2>3. QED
    BY <1>1, <1>2, <2>2 DEF portMAX_DELAY, Ticks
<1>3. CASE t # TICK_MOD - 1
  <2>1. t + 1 \in Ticks
    BY <1>1, <1>3 DEF Ticks
  <2>2. (t + 1) % TICK_MOD = t + 1
    BY <1>1, <2>1, TicksWrap
  <2>3. QED
    BY <1>3, <2>1, <2>2 DEF portMAX_DELAY
<1>4. QED
  BY <1>2, <1>3

\* The times in the delayed lists.
TimesSound(kk) ==
  /\ Sorted(kk.delayed, kk.wake) /\ Sorted(kk.overflowDelayed, kk.wake)
  /\ \A t \in ToSet(kk.delayed) : kk.wake[t] > kk.tick /\ kk.wake[t] >= kk.nextUnblock
  /\ \A t \in ToSet(kk.overflowDelayed) : kk.wake[t] < kk.tick

\* Between the increment of the tick count and the look at the delayed list.
TimesOverdue(kk) ==
  /\ Sorted(kk.delayed, kk.wake) /\ Sorted(kk.overflowDelayed, kk.wake)
  /\ \A t \in ToSet(kk.delayed) : kk.wake[t] >= kk.nextUnblock
  /\ \A t \in ToSet(kk.overflowDelayed) : kk.wake[t] < kk.tick

\* Waking tasks disturbs nothing.
LEMMA WokenTimes ==
  ASSUME NEW kk \in KernelState, TimesSound(kk), NEW r, NEW W, Woken(r, kk, W)
  PROVE  TimesSound(r)
<1>1. r.tick = kk.tick /\ r.nextUnblock = kk.nextUnblock
  BY DEF Woken, Calm
<1>2. Sorted(r.delayed, r.wake) /\ Sorted(r.overflowDelayed, r.wake)
  BY DEF Woken, TimesSound
<1>3. ToSet(kk.delayed) \subseteq AllTasks /\ ToSet(kk.overflowDelayed) \subseteq AllTasks
  BY ListTypes, InList
<1>4. /\ \A t \in ToSet(r.delayed) : t \in ToSet(kk.delayed) /\ r.wake[t] = kk.wake[t]
      /\ \A t \in ToSet(r.overflowDelayed) :
           t \in ToSet(kk.overflowDelayed) /\ r.wake[t] = kk.wake[t]
  BY <1>3 DEF Woken
<1>5. QED
  BY <1>1, <1>2, <1>4 DEF TimesSound

\* What a tick's wake-ups leave in the delayed lists.
LEMMA OverdueWoken ==
  ASSUME NEW kk \in KernelState, TimesOverdue(kk), NEW r, NEW W, Woken(r, kk, W)
  PROVE  /\ Sorted(r.delayed, r.wake) /\ Sorted(r.overflowDelayed, r.wake)
         /\ r.tick = kk.tick
         /\ \A t \in ToSet(r.overflowDelayed) : r.wake[t] < r.tick
         /\ \A t \in ToSet(r.delayed) : t \in ToSet(kk.delayed) \ W /\ r.wake[t] = kk.wake[t]
<1>1. r.tick = kk.tick
  BY DEF Woken, Calm
<1>2. Sorted(r.delayed, r.wake) /\ Sorted(r.overflowDelayed, r.wake)
  BY DEF Woken, TimesOverdue
<1>3. ToSet(kk.delayed) \subseteq AllTasks /\ ToSet(kk.overflowDelayed) \subseteq AllTasks
  BY ListTypes, InList
<1>4. /\ \A t \in ToSet(r.delayed) : t \in ToSet(kk.delayed) \ W /\ r.wake[t] = kk.wake[t]
      /\ \A t \in ToSet(r.overflowDelayed) :
           t \in ToSet(kk.overflowDelayed) /\ r.wake[t] = kk.wake[t]
  BY <1>3 DEF Woken
<1>5. QED
  BY <1>1, <1>2, <1>4 DEF TimesOverdue

\* A state whose lists and priorities are those of a sound one is sound.
SameLists(r, kk) ==
  /\ r.ready = kk.ready /\ r.delayed = kk.delayed /\ r.overflowDelayed = kk.overflowDelayed
  /\ r.suspended = kk.suspended /\ r.waitingTermination = kk.waitingTermination
  /\ r.event = kk.event /\ r.pendingReady = kk.pendingReady
  /\ r.priority = kk.priority /\ r.topReady = kk.topReady

\* What is left alone stays sound.
LEMMA SoundSame ==
  ASSUME NEW kk, Sound(kk), NEW r \in KernelState, SameLists(r, kk)
  PROVE  Sound(r)
<1>1. kk \in KernelState
  BY DEF Sound
<1>2. \A u \in AllTasks : SamePlace(r, kk, u) /\ SameEvent(r, kk, u)
  BY DEF SameLists, SamePlace, SameEvent
<1>3. \A u \in AllTasks : InPlace(r, u)
  BY <1>1, <1>2, PlaceKept DEF Sound
<1>4. Once(r) /\ TopKnown(r)
  BY DEF Sound, SameLists, Once, TopKnown
<1>5. QED
  BY <1>3, <1>4 DEF Sound

\* The first of a sorted list has the least value.
LEMMA HeadLeast ==
  ASSUME NEW S, NEW s \in Seq(S), NEW value, \A u \in S : value[u] \in Nat, Sorted(s, value),
         NEW u \in ToSet(s)
  PROVE  s # <<>> /\ Head(s) \in S /\ value[Head(s)] <= value[u]
<1>1. PICK i \in 1 .. Len(s) : s[i] = u
  BY InList
<1>2. s # <<>> /\ Head(s) = s[1] /\ Len(s) \in Nat /\ 1 \in 1 .. Len(s)
  BY <1>1
<1>3. CASE i = 1
  BY <1>1, <1>2, <1>3
<1>4. CASE i # 1
  <2>1. 1 < i
    BY <1>2, <1>4
  <2>2. value[s[1]] <= value[s[i]]
    BY <1>2, <2>1 DEF Sorted
  <2>3. QED
    BY <1>1, <1>2, <2>2
<1>5. QED
  BY <1>3, <1>4

\* xNextTaskUnblockTime, as it is computed, is not behind any wake time of the list.
LEMMA NextUnblockIs ==
  ASSUME NEW kk \in KernelState, Sorted(kk.delayed, kk.wake)
  PROVE  /\ NextUnblock(kk) \in Ticks
         /\ \A t \in ToSet(kk.delayed) : kk.wake[t] >= NextUnblock(kk)
<1>1. /\ kk.delayed \in Seq(AllTasks) /\ kk.wake \in [AllTasks -> Ticks]
      /\ \A u \in AllTasks : kk.wake[u] \in Nat
  BY ListTypes, FieldTypes DEF KernelState
<1>2. portMAX_DELAY \in Ticks
  BY KernelAssumption DEF portMAX_DELAY, Ticks
<1>3. CASE kk.delayed = <<>>
  <2>1. ToSet(kk.delayed) = {}
    BY <1>3 DEF ToSet
  <2>2. QED
    BY <1>2, <1>3, <2>1 DEF NextUnblock
<1>4. CASE kk.delayed # <<>>
  <2>1. NextUnblock(kk) = kk.wake[Head(kk.delayed)]
    BY <1>4 DEF NextUnblock
  <2>2. Head(kk.delayed) \in AllTasks
    BY <1>1, <1>4
  <2>3. \A t \in ToSet(kk.delayed) : kk.wake[Head(kk.delayed)] <= kk.wake[t]
    BY <1>1, HeadLeast
  <2>4. \A t \in ToSet(kk.delayed) : t \in AllTasks
    BY <1>1, InList
  <2>5. QED
    BY <1>1, <2>1, <2>2, <2>3, <2>4
<1>5. QED
  BY <1>3, <1>4

\* prvCheckDelayedTasks stops at the first task whose time is ahead: nothing behind
\* it is due.
LEMMA DueAreFirst ==
  ASSUME NEW kk \in KernelState, Sorted(kk.delayed, kk.wake)
  PROVE  /\ Due(kk) \in Seq(AllTasks)
         /\ ToSet(Due(kk)) \subseteq ToSet(kk.delayed)
         /\ \A t \in ToSet(kk.delayed) \ ToSet(Due(kk)) : kk.wake[t] > kk.tick
         /\ \A t \in ToSet(Due(kk)) : kk.wake[t] <= kk.tick
         /\ IsInjective(kk.delayed) => IsInjective(Due(kk))
<1> DEFINE s == kk.delayed
           value == kk.wake
           now == kk.tick
           I == {j \in 1 .. Len(s) : value[s[j]] > now}
<1>0. s \in Seq(AllTasks) /\ now \in Nat /\ \A u \in AllTasks : value[u] \in Nat
  BY ListTypes, FieldTypes
<1>1. Due(kk) = LET i == IF I # {} THEN Min(I) ELSE 0 IN IF i = 0 THEN s ELSE SubSeq(s, 1, i - 1)
  BY DEF Due, SelectInSeq
<1>2. Sorted(s, value)
  OBVIOUS
<1>3. /\ I \in SUBSET Nat /\ I \in SUBSET (1 .. Len(s)) /\ Len(s) \in Nat
      /\ \A j \in 1 .. Len(s) : j \in I <=> value[s[j]] > now
  BY <1>0
<1>4. \A j \in 1 .. Len(s) : value[s[j]] \in Nat
  BY <1>0
<1> HIDE DEF I, s, value, now
<1>5. CASE I = {}
  <2>1. Due(kk) = s
    BY <1>1, <1>5
  <2>2. ASSUME NEW u \in ToSet(s) PROVE value[u] <= now
    <3>1. PICK j \in 1 .. Len(s) : s[j] = u
      BY <1>0, InList
    <3>2. QED
      BY <1>0, <1>3, <1>4, <1>5, <3>1
  <2>3. QED
    BY <1>0, <2>1, <2>2 DEF s, value, now
<1>6. CASE I # {}
  <2>1. PICK m \in I : \A y \in I : m <= y
    BY <1>3, <1>6, LeastNatural
  <2>2. Min(I) = m
    <3>1. ASSUME NEW x \in I, \A y \in I : x <= y PROVE x = m
      BY <1>3, <2>1, <3>1
    <3>2. QED
      BY <2>1, <3>1 DEF Min
  <2>3. m \in 1 .. Len(s) /\ m # 0 /\ value[s[m]] > now
    BY <1>3, <2>1
  <2>4. Due(kk) = SubSeq(s, 1, m - 1)
    BY <1>1, <1>6, <2>2, <2>3
  <2>5. /\ SubSeq(s, 1, m - 1) \in Seq(AllTasks) /\ Len(SubSeq(s, 1, m - 1)) = m - 1
        /\ \A j \in 1 .. m - 1 : SubSeq(s, 1, m - 1)[j] = s[j]
    BY <1>0, <2>3
  <2> DEFINE d == SubSeq(s, 1, m - 1)
  <2>6. d \in Seq(AllTasks) /\ Len(d) = m - 1 /\ \A j \in 1 .. m - 1 : d[j] = s[j]
    BY <2>5
  <2> HIDE DEF d
  <2>7. ToSet(d) \subseteq ToSet(s)
    <3>1. ASSUME NEW u \in ToSet(d) PROVE u \in ToSet(s)
      <4>1. PICK j \in 1 .. Len(d) : d[j] = u
        BY <2>6, InList
      <4>2. j \in 1 .. Len(s) /\ s[j] = u
        BY <1>3, <2>3, <2>6, <4>1
      <4>3. QED
        BY <1>0, <4>2, InList
    <3>2. QED
      BY <3>1
  <2>8. ASSUME NEW u \in ToSet(s) \ ToSet(d) PROVE value[u] > now
    <3>1. PICK j \in 1 .. Len(s) : s[j] = u
      BY <1>0, InList
    <3>2. j \notin 1 .. m - 1
      <4>1. ASSUME j \in 1 .. m - 1 PROVE FALSE
        <5>1. j \in 1 .. Len(d) /\ d[j] = u
          BY <2>6, <3>1, <4>1
        <5>2. u \in ToSet(d)
          BY <2>6, <5>1, InList
        <5>3. QED
          BY <2>8, <5>2
      <4>2. QED
        BY <4>1
    <3>3. j = m \/ m < j
      BY <1>3, <2>3, <3>2
    <3>4. value[s[m]] <= value[s[j]]
      BY <1>2, <1>4, <2>3, <3>3 DEF Sorted
    <3>5. QED
      BY <1>0, <1>4, <2>3, <3>1, <3>4
  <2>9. ASSUME NEW u \in ToSet(d) PROVE value[u] <= now
    <3>1. PICK j \in 1 .. Len(d) : d[j] = u
      BY <2>6, InList
    <3>2. j \in 1 .. Len(s) /\ s[j] = u /\ ~ (m <= j)
      BY <1>3, <2>3, <2>6, <3>1
    <3>3. j \notin I
      BY <2>1, <3>2
    <3>4. QED
      BY <1>0, <1>3, <1>4, <3>2, <3>3
  <2>10. ASSUME IsInjective(s) PROVE IsInjective(d)
    <3>1. DOMAIN d = 1 .. m - 1 /\ DOMAIN s = 1 .. Len(s) /\ 1 .. m - 1 \subseteq 1 .. Len(s)
      BY <1>0, <1>3, <2>3, <2>6
    <3>2. QED
      BY <2>6, <2>10, <3>1 DEF IsInjective
  <2>11. QED
    BY <2>4, <2>6, <2>7, <2>8, <2>9, <2>10 DEF d, s, value, now
<1>7. QED
  BY <1>5, <1>6

\* What the passing of time leaves as it was: a task that was ready still is.
Later(r, kk) ==
  /\ r.current = kk.current /\ r.schedulerSuspended = kk.schedulerSuspended
  /\ r.missedTicks = kk.missedTicks /\ r.missedYield = kk.missedYield
  /\ r.priority = kk.priority /\ r.basePriority = kk.basePriority
  /\ ToSet(r.pendingReady) \subseteq ToSet(kk.pendingReady)
  /\ ToSet(r.waitingTermination) = ToSet(kk.waitingTermination)
  /\ \A u \in AllTasks : IsReady(kk, u) => IsReady(r, u)
  /\ QueuedUp(r, kk) /\ EventsFall(r, kk)

LEMMA LaterTrans ==
  ASSUME NEW a, NEW b, NEW c, Later(a, b), Later(b, c)
  PROVE  Later(a, c)
BY QueuedUpTrans, EventsFallTrans DEF Later

LEMMA SameQueuedUp ==
  ASSUME NEW r, NEW kk, r.ready = kk.ready
  PROVE  QueuedUp(r, kk)
BY DEF QueuedUp, Grows

LEMMA LaterSelf ==
  ASSUME NEW kk
  PROVE  Later(kk, kk)
BY SameQueuedUp DEF Later, EventsFall

\* The tasks that are woken from the delayed list do not wait to be reaped.
LEMMA WokenLater ==
  ASSUME NEW kk, Sound(kk), NEW r, NEW W \in SUBSET ToSet(kk.delayed), Woken(r, kk, W), QueuedUp(r, kk)
  PROVE  Later(r, kk)
<1>1. kk \in KernelState /\ ToSet(kk.delayed) \subseteq AllTasks
  BY ListTypes, InList DEF Sound
<1>2. \A t \in W : t \notin ToSet(kk.waitingTermination)
  BY <1>1 DEF Sound, InPlace, IsDelayed
<1>3. ToSet(r.waitingTermination) = ToSet(kk.waitingTermination)
  BY <1>2 DEF Woken
<1>4. QED
  BY <1>3 DEF Woken, Calm, Later

\* Exactly the tasks whose time has come have left the delayed list.
IsDue(kk, u) == u \in ToSet(kk.delayed) /\ kk.wake[u] <= kk.tick

Checked(r, kk) ==
  /\ r.tick = kk.tick /\ r.overflows = kk.overflows /\ r.suspended = kk.suspended
  /\ ToSet(r.overflowDelayed) = ToSet(kk.overflowDelayed)
  /\ \A u \in AllTasks :
       /\ IsReady(r, u) <=> IsReady(kk, u) \/ IsDue(kk, u)
       /\ u \in ToSet(r.delayed) <=> u \in ToSet(kk.delayed) /\ ~ IsDue(kk, u)
       /\ ~ IsDue(kk, u) => r.wake[u] = kk.wake[u]

\* A task that is woken from the delayed list is in no other list.
LEMMA WokenChecked ==
  ASSUME NEW kk, Sound(kk), NEW r, NEW W, Woken(r, kk, W),
         \A u \in AllTasks : u \in W <=> IsDue(kk, u), W \subseteq AllTasks
  PROVE  Checked(r, kk)
<1>1. kk \in KernelState /\ kk.suspended \subseteq AllTasks
      /\ ToSet(kk.overflowDelayed) \subseteq AllTasks /\ ToSet(kk.delayed) \subseteq AllTasks
  BY ListTypes, InList DEF Sound
<1>2. \A u \in W : /\ u \notin kk.suspended /\ u \notin ToSet(kk.overflowDelayed)
  BY <1>1 DEF Sound, InPlace, IsDelayed, IsDue
<1>3. r.suspended = kk.suspended /\ ToSet(r.overflowDelayed) = ToSet(kk.overflowDelayed)
  BY <1>2 DEF Woken
<1>4. r.tick = kk.tick /\ r.overflows = kk.overflows
  BY DEF Woken, Calm
<1>5. \A u \in AllTasks :
        /\ IsReady(r, u) <=> IsReady(kk, u) \/ IsDue(kk, u)
        /\ u \in ToSet(r.delayed) <=> u \in ToSet(kk.delayed) /\ ~ IsDue(kk, u)
        /\ ~ IsDue(kk, u) => r.wake[u] = kk.wake[u]
  BY DEF Woken
<1>6. QED
  BY <1>3, <1>4, <1>5 DEF Checked

\* prvCheckDelayedTasks wakes all that is due and nothing else, so that the delayed
\* list is ahead of the tick count again.
LEMMA ChecksDelayed ==
  ASSUME NEW kk, Sound(kk), TimesOverdue(kk)
  PROVE  LET r == prvCheckDelayedTasks(kk)
         IN  Sound(r) /\ TimesSound(r) /\ Later(r, kk) /\ Checked(r, kk)
<1>1. kk \in KernelState
  BY DEF Sound
<1>2. CASE kk.tick < kk.nextUnblock
  <2>1. prvCheckDelayedTasks(kk) = kk
    BY <1>2 DEF prvCheckDelayedTasks
  <2>2. /\ \A t \in AllTasks : kk.wake[t] \in Nat
        /\ kk.tick \in Nat /\ kk.nextUnblock \in Nat
    BY <1>1, FieldTypes
  <2>3. ToSet(kk.delayed) \subseteq AllTasks
    BY <1>1, ListTypes, InList
  <2>4. \A t \in ToSet(kk.delayed) : kk.wake[t] > kk.tick
    BY <1>2, <2>2, <2>3 DEF TimesOverdue
  <2>5. TimesSound(kk)
    BY <2>4 DEF TimesOverdue, TimesSound
  <2>6. \A u \in AllTasks : ~ IsDue(kk, u)
    BY <2>2, <2>4 DEF IsDue
  <2>7. Checked(kk, kk)
    BY <2>6 DEF Checked
  <2>8. QED
    BY <2>1, <2>5, <2>7, LaterSelf
<1>3. CASE ~ (kk.tick < kk.nextUnblock)
  <2> DEFINE kd == FoldLeft(WakeUp, kk, Due(kk))
             W == ToSet(Due(kk))
             r == [kd EXCEPT !.nextUnblock = NextUnblock(kd)]
  <2>1. prvCheckDelayedTasks(kk) = r
    BY <1>3 DEF prvCheckDelayedTasks
  <2>2. /\ Due(kk) \in Seq(AllTasks) /\ W \in SUBSET ToSet(kk.delayed)
        /\ \A t \in ToSet(kk.delayed) \ W : kk.wake[t] > kk.tick
        /\ \A t \in W : kk.wake[t] <= kk.tick
        /\ IsInjective(Due(kk))
    BY <1>1, DueAreFirst DEF TimesOverdue, Sound, Once
  <2> DEFINE due == Due(kk)
  <2>16. \A t \in ToSet(due) : ~ IsReady(kk, t)
    <3>1. ToSet(due) \subseteq ToSet(kk.delayed) /\ ToSet(kk.delayed) \subseteq AllTasks
      BY <1>1, <2>2, ListTypes, InList
    <3> HIDE DEF due
    <3>2. QED
      BY <3>1 DEF Sound, InPlace, IsDelayed
  <2>17. due \in Seq(AllTasks) /\ IsInjective(due)
    BY <2>2
  <2>3. Sound(kd) /\ Woken(kd, kk, W) /\ QueuedUp(kd, kk)
    <3> HIDE DEF due
    <3>1. LET r2 == FoldLeft(WakeUp, kk, due)
          IN  Sound(r2) /\ Woken(r2, kk, ToSet(due)) /\ QueuedUp(r2, kk)
      BY <2>16, <2>17, WakesAll
    <3>2. QED
      BY <3>1 DEF due
  <2> HIDE DEF kd, W, due
  <2>4. Later(kd, kk)
    BY <2>2, <2>3, WokenLater
  <2>5. /\ Sorted(kd.delayed, kd.wake) /\ Sorted(kd.overflowDelayed, kd.wake)
        /\ kd.tick = kk.tick
        /\ \A t \in ToSet(kd.overflowDelayed) : kd.wake[t] < kd.tick
        /\ \A t \in ToSet(kd.delayed) : t \in ToSet(kk.delayed) \ W /\ kd.wake[t] = kk.wake[t]
    BY <1>1, <2>3, OverdueWoken
  <2>6. \A t \in ToSet(kd.delayed) : kd.wake[t] > kd.tick
    BY <2>2, <2>5
  <2>7. kd \in KernelState
    BY <2>3 DEF Sound
  <2>8. /\ NextUnblock(kd) \in Ticks
        /\ \A t \in ToSet(kd.delayed) : kd.wake[t] >= NextUnblock(kd)
    BY <2>5, <2>7, NextUnblockIs
  <2>9. /\ r \in KernelState /\ SameLists(r, kd)
        /\ r.current = kd.current /\ r.schedulerSuspended = kd.schedulerSuspended
        /\ r.missedTicks = kd.missedTicks /\ r.missedYield = kd.missedYield
        /\ r.basePriority = kd.basePriority
        /\ r.wake = kd.wake /\ r.tick = kd.tick /\ r.nextUnblock = NextUnblock(kd)
        /\ r.overflows = kd.overflows
    BY <2>7, <2>8 DEF KernelState, SameLists
  <2> HIDE DEF r
  <2>10. Sound(r)
    BY <2>3, <2>9, SoundSame
  <2>11. TimesSound(r)
    BY <2>5, <2>6, <2>8, <2>9 DEF TimesSound, SameLists
  <2>12. Later(r, kd)
    BY <2>9, SameQueuedUp DEF Later, SameLists, IsReady, EventsFall
  <2>13. Later(r, kk)
    BY <2>4, <2>12, LaterTrans
  <2>14. Checked(kd, kk)
    <3>1. W \subseteq AllTasks /\ kk.tick \in Nat /\ \A u \in AllTasks : kk.wake[u] \in Nat
      BY <1>1, <2>2, ListTypes, InList, FieldTypes
    <3>2. \A u \in AllTasks : u \in W <=> IsDue(kk, u)
      BY <2>2, <3>1 DEF IsDue
    <3>3. QED
      BY <2>3, <3>1, <3>2, WokenChecked
  <2>15. Checked(r, kk)
    <3>1. \A u \in AllTasks : IsReady(r, u) <=> IsReady(kd, u)
      BY <2>9 DEF SameLists, IsReady
    <3>2. QED
      BY <2>9, <2>14, <3>1 DEF Checked, SameLists
  <2>18. QED
    BY <2>1, <2>10, <2>11, <2>13, <2>15
<1>4. QED
  BY <1>2, <1>3

LEMMA EmptySorted ==
  ASSUME NEW value
  PROVE  Sorted(<<>>, value) /\ ToSet(<<>>) = {}
BY DEF Sorted, ToSet

\* The two delayed lists have changed places.
Swapped(r, kk) ==
  /\ r.delayed = kk.overflowDelayed /\ r.overflowDelayed = kk.delayed
  /\ r.wake = kk.wake /\ r.tick = kk.tick /\ r.suspended = kk.suspended
  /\ \A u \in AllTasks : IsReady(r, u) <=> IsReady(kk, u)

\* When the tick count overflows, the delayed list is empty and the list of those
\* that wait beyond the overflow takes its place.
LEMMA SwapsLists ==
  ASSUME NEW kk, Sound(kk), kk.tick = 0, kk.delayed = <<>>,
         Sorted(kk.overflowDelayed, kk.wake)
  PROVE  LET r == SwapDelayedLists(kk)
         IN  Sound(r) /\ TimesOverdue(r) /\ Later(r, kk) /\ Swapped(r, kk)
<1> DEFINE ks == [kk EXCEPT !.delayed = kk.overflowDelayed, !.overflowDelayed = kk.delayed,
                            !.overflows = (@ + 1) % OVERFLOW_MOD]
           r == [ks EXCEPT !.nextUnblock = NextUnblock(ks)]
<1>1. kk \in KernelState
  BY DEF Sound
<1>2. ks \in KernelState
  <2>1. (kk.overflows + 1) % OVERFLOW_MOD \in 0 .. OVERFLOW_MOD - 1
    <3>1. kk.overflows \in Nat /\ OVERFLOW_MOD \in Nat \ {0}
      BY <1>1, KernelAssumption DEF KernelState
    <3>2. QED
      BY <3>1
  <2> DEFINE ka == [kk EXCEPT !.delayed = kk.overflowDelayed]
             kb == [ka EXCEPT !.overflowDelayed = kk.delayed]
             n == (kk.overflows + 1) % OVERFLOW_MOD
  <2>2. ka \in KernelState
    BY <1>1 DEF KernelState
  <2>3. ks = [kb EXCEPT !.overflows = n]
    BY <1>1 DEF KernelState
  <2> HIDE DEF ka
  <2>4. kb \in KernelState
    BY <1>1, <2>2 DEF KernelState
  <2> HIDE DEF kb, n
  <2>5. n \in 0 .. OVERFLOW_MOD - 1
    BY <2>1 DEF n
  <2> HIDE DEF ks
  <2>6. QED
    BY <2>3, <2>4, <2>5 DEF KernelState
<1>3. /\ ks.delayed = kk.overflowDelayed /\ ks.overflowDelayed = kk.delayed
      /\ ks.ready = kk.ready /\ ks.suspended = kk.suspended
      /\ ks.waitingTermination = kk.waitingTermination
      /\ ks.event = kk.event /\ ks.pendingReady = kk.pendingReady
      /\ ks.priority = kk.priority /\ ks.basePriority = kk.basePriority
      /\ ks.topReady = kk.topReady /\ ks.wake = kk.wake /\ ks.tick = kk.tick
      /\ ks.current = kk.current /\ ks.schedulerSuspended = kk.schedulerSuspended
      /\ ks.missedTicks = kk.missedTicks /\ ks.missedYield = kk.missedYield
  BY <1>1 DEF KernelState
<1>4. r = SwapDelayedLists(kk)
  BY DEF SwapDelayedLists
<1> HIDE DEF ks
<1>5. Sorted(ks.delayed, ks.wake) /\ Sorted(ks.overflowDelayed, ks.wake)
  BY <1>3, EmptySorted
<1>6. /\ NextUnblock(ks) \in Ticks
      /\ \A t \in ToSet(ks.delayed) : ks.wake[t] >= NextUnblock(ks)
  BY <1>2, <1>5, NextUnblockIs
<1>7. /\ r \in KernelState /\ SameLists(r, ks)
      /\ r.current = ks.current /\ r.schedulerSuspended = ks.schedulerSuspended
      /\ r.missedTicks = ks.missedTicks /\ r.missedYield = ks.missedYield
      /\ r.basePriority = ks.basePriority
      /\ r.wake = ks.wake /\ r.tick = ks.tick /\ r.nextUnblock = NextUnblock(ks)
  BY <1>2, <1>6 DEF KernelState, SameLists
<1> HIDE DEF r
<1>8. Sound(ks)
  <2>1. \A u \in AllTasks : IsReady(ks, u) <=> IsReady(kk, u)
    BY <1>3 DEF IsReady
  <2>2. \A u \in AllTasks : IsDelayed(ks, u) <=> IsDelayed(kk, u)
    BY <1>3 DEF IsDelayed
  <2>3. \A u \in AllTasks : /\ IsWaiting(ks, u) <=> IsWaiting(kk, u)
                            /\ IsPending(ks, u) <=> IsPending(kk, u)
    BY <1>3 DEF IsWaiting, IsPending
  <2>4. \A u \in AllTasks : InPlace(ks, u)
    BY <1>3, <2>1, <2>2, <2>3 DEF Sound, InPlace
  <2>5. Once(ks) /\ TopKnown(ks)
    BY <1>3 DEF Sound, Once, TopKnown
  <2>6. QED
    BY <1>2, <2>4, <2>5 DEF Sound
<1>9. Sound(r)
  BY <1>7, <1>8, SoundSame
<1>10. TimesOverdue(r)
  <2>1. ToSet(r.overflowDelayed) = {}
    BY <1>3, <1>7, EmptySorted DEF SameLists
  <2>2. QED
    BY <1>5, <1>6, <1>7, <2>1 DEF TimesOverdue, SameLists
<1>11. Later(r, kk) /\ Swapped(r, kk)
  BY <1>3, <1>7, SameQueuedUp DEF Later, Swapped, SameLists, IsReady, EventsFall
<1>12. QED
  BY <1>4, <1>9, <1>10, <1>11

\* The ticks that are left to a delayed task, from the list it is in.
LEMMA LeftIs ==
  ASSUME NEW kk, Sound(kk), TimesSound(kk), NEW u \in AllTasks
  PROVE  /\ u \in ToSet(kk.delayed) => TicksLeft(kk, u) = kk.wake[u] - kk.tick
         /\ u \in ToSet(kk.overflowDelayed) => TicksLeft(kk, u) = kk.wake[u] - kk.tick + TICK_MOD
         /\ IsDelayed(kk, u) => TicksLeft(kk, u) \in 1 .. portMAX_DELAY
<1>1. kk.wake[u] \in Ticks /\ kk.tick \in Ticks
  BY FieldTypes DEF Sound, KernelState
<1>2. TICK_MOD \in Nat /\ TICK_MOD > 2 /\ Ticks = 0 .. TICK_MOD - 1 /\ portMAX_DELAY = TICK_MOD - 1
  BY KernelAssumption DEF Ticks, portMAX_DELAY
<1>3. ASSUME u \in ToSet(kk.delayed)
      PROVE  TicksLeft(kk, u) = kk.wake[u] - kk.tick /\ TicksLeft(kk, u) \in 1 .. portMAX_DELAY
  <2>1. kk.wake[u] > kk.tick
    BY <1>3 DEF TimesSound
  <2>2. /\ kk.wake[u] - kk.tick \in Ticks /\ kk.wake[u] - kk.tick \in Int
        /\ kk.wake[u] - kk.tick \in 1 .. portMAX_DELAY
    BY <1>1, <1>2, <2>1
  <2>3. QED
    BY <2>2, TicksWrap DEF TicksLeft
<1>4. ASSUME u \in ToSet(kk.overflowDelayed)
      PROVE  TicksLeft(kk, u) = kk.wake[u] - kk.tick + TICK_MOD /\ TicksLeft(kk, u) \in 1 .. portMAX_DELAY
  <2>1. kk.wake[u] < kk.tick
    BY <1>4 DEF TimesSound
  <2>2. /\ kk.wake[u] - kk.tick \in -TICK_MOD .. -1 /\ kk.wake[u] - kk.tick \in Int
        /\ kk.wake[u] - kk.tick + TICK_MOD \in 1 .. portMAX_DELAY
    BY <1>1, <1>2, <2>1
  <2>3. QED
    BY <2>2, TicksWrap DEF TicksLeft
<1>5. QED
  BY <1>3, <1>4 DEF IsDelayed

\* What n ticks do to the tasks: each delayed one is ready when its time is up, and
\* not before; the others have n ticks less to wait.
Elapsed(r, kk, n) ==
  /\ r.tick = (kk.tick + n) % TICK_MOD
  /\ r.overflows # kk.overflows => kk.tick + n >= TICK_MOD
  /\ r.suspended = kk.suspended
  /\ \A u \in AllTasks :
       /\ IsReady(r, u) <=> IsReady(kk, u) \/ (IsDelayed(kk, u) /\ TicksLeft(kk, u) <= n)
       /\ IsDelayed(r, u) <=> IsDelayed(kk, u) /\ TicksLeft(kk, u) > n
       /\ IsDelayed(r, u) => TicksLeft(r, u) = TicksLeft(kk, u) - n

LEMMA ElapsedNone ==
  ASSUME NEW kk, Sound(kk), TimesSound(kk)
  PROVE  Elapsed(kk, kk, 0)
<1>1. \A u \in AllTasks : IsDelayed(kk, u) => TicksLeft(kk, u) \in 1 .. portMAX_DELAY
  BY LeftIs
<1>2. kk.tick \in Ticks /\ kk.tick \in Int /\ portMAX_DELAY \in Int
  BY FieldTypes, KernelAssumption DEF Sound, portMAX_DELAY
<1>3. (kk.tick + 0) % TICK_MOD = kk.tick
  BY <1>2, TicksWrap
<1>4. \A u \in AllTasks :
        IsDelayed(kk, u) => ~ (TicksLeft(kk, u) <= 0) /\ TicksLeft(kk, u) > 0
                            /\ TicksLeft(kk, u) = TicksLeft(kk, u) - 0
  BY <1>1, <1>2
<1>5. QED
  BY <1>3, <1>4 DEF Elapsed

LEMMA ElapsedTrans ==
  ASSUME NEW a, NEW b, NEW c, NEW n \in Nat, Elapsed(a, b, 1), Elapsed(b, c, n),
         Sound(b), TimesSound(b), Sound(c), TimesSound(c)
  PROVE  Elapsed(a, c, n + 1)
<1>1. c.tick \in Nat /\ portMAX_DELAY \in Int
  BY FieldTypes, KernelAssumption DEF Sound, portMAX_DELAY
<1>2. a.tick = (c.tick + (n + 1)) % TICK_MOD
  <2>1. c.tick + n \in Nat /\ (c.tick + n) + 1 = c.tick + (n + 1)
    BY <1>1
  <2>2. QED
    BY <2>1, WrapsOnce DEF Elapsed
<1>3. ASSUME NEW u \in AllTasks
      PROVE  /\ IsReady(a, u) <=> IsReady(c, u) \/ (IsDelayed(c, u) /\ TicksLeft(c, u) <= n + 1)
             /\ IsDelayed(a, u) <=> IsDelayed(c, u) /\ TicksLeft(c, u) > n + 1
             /\ IsDelayed(a, u) => TicksLeft(a, u) = TicksLeft(c, u) - (n + 1)
  <2>1. IsDelayed(c, u) => TicksLeft(c, u) \in Int
    BY <1>1, LeftIs
  <2>2. /\ IsReady(a, u) <=> IsReady(b, u) \/ (IsDelayed(b, u) /\ TicksLeft(b, u) <= 1)
        /\ IsDelayed(a, u) <=> IsDelayed(b, u) /\ TicksLeft(b, u) > 1
        /\ IsDelayed(a, u) => TicksLeft(a, u) = TicksLeft(b, u) - 1
    BY DEF Elapsed
  <2>3. /\ IsReady(b, u) <=> IsReady(c, u) \/ (IsDelayed(c, u) /\ TicksLeft(c, u) <= n)
        /\ IsDelayed(b, u) <=> IsDelayed(c, u) /\ TicksLeft(c, u) > n
        /\ IsDelayed(b, u) => TicksLeft(b, u) = TicksLeft(c, u) - n
    BY DEF Elapsed
  <2>4. QED
    BY <2>1, <2>2, <2>3
<1>4. a.suspended = c.suspended
  BY DEF Elapsed
<1>6. ASSUME a.overflows # c.overflows PROVE c.tick + (n + 1) >= TICK_MOD
  <2>1. b.tick = (c.tick + n) % TICK_MOD /\ TICK_MOD \in Nat
    BY KernelAssumption DEF Elapsed
  <2>2. b.overflows # c.overflows => c.tick + n >= TICK_MOD
    BY DEF Elapsed
  <2>3. a.overflows # b.overflows => b.tick + 1 >= TICK_MOD
    BY DEF Elapsed
  <2>4. c.tick + n < TICK_MOD => b.tick = c.tick + n
    <3>1. c.tick + n < TICK_MOD => c.tick + n \in Ticks /\ c.tick + n \in Int
      BY <1>1, <2>1 DEF Ticks
    <3> QED
      BY <2>1, <3>1, TicksWrap
  <2>5. c.tick + n < TICK_MOD => a.overflows # b.overflows
    BY <1>1, <1>6, <2>1, <2>2
  <2> QED
    BY <1>1, <2>1, <2>3, <2>4, <2>5
<1>5. QED
  BY <1>2, <1>3, <1>4, <1>6 DEF Elapsed

\* One tick, as to the tasks that wait for this side of the overflow.
LEMMA TickElapses ==
  ASSUME NEW kk, Sound(kk), TimesSound(kk), kk.tick # portMAX_DELAY,
         NEW kt, SameLists(kt, kk), kt.wake = kk.wake, kt.tick = kk.tick + 1,
         kt.overflows = kk.overflows,
         NEW r, Sound(r), TimesSound(r), Checked(r, kt)
  PROVE  Elapsed(r, kk, 1)
<1>1. /\ kk.tick \in Ticks /\ \A u \in AllTasks : kk.wake[u] \in Ticks
      /\ Ticks = 0 .. TICK_MOD - 1 /\ portMAX_DELAY = TICK_MOD - 1
      /\ TICK_MOD \in Nat /\ TICK_MOD > 2
  BY FieldTypes, KernelAssumption DEF Sound, KernelState, Ticks, portMAX_DELAY
<1>2. r.tick = (kk.tick + 1) % TICK_MOD /\ r.tick = kk.tick + 1
  BY NextTick, <1>1 DEF Checked
<1>3. r.suspended = kk.suspended /\ r.overflows = kk.overflows
  BY DEF Checked, SameLists
<1>4. ASSUME NEW u \in AllTasks
      PROVE  /\ IsReady(r, u) <=> IsReady(kk, u) \/ (IsDelayed(kk, u) /\ TicksLeft(kk, u) <= 1)
             /\ IsDelayed(r, u) <=> IsDelayed(kk, u) /\ TicksLeft(kk, u) > 1
             /\ IsDelayed(r, u) => TicksLeft(r, u) = TicksLeft(kk, u) - 1
  <2>1. /\ IsDue(kt, u) <=> u \in ToSet(kk.delayed) /\ kk.wake[u] <= kk.tick + 1
        /\ IsReady(kt, u) <=> IsReady(kk, u)
    BY DEF IsDue, SameLists, IsReady
  <2>2. /\ IsReady(r, u) <=> IsReady(kk, u) \/ IsDue(kt, u)
        /\ u \in ToSet(r.delayed) <=> u \in ToSet(kk.delayed) /\ ~ IsDue(kt, u)
        /\ u \in ToSet(r.overflowDelayed) <=> u \in ToSet(kk.overflowDelayed)
        /\ ~ IsDue(kt, u) => r.wake[u] = kk.wake[u]
    BY <2>1 DEF Checked, SameLists
  <2>3. /\ u \in ToSet(kk.delayed) => TicksLeft(kk, u) = kk.wake[u] - kk.tick
        /\ u \in ToSet(kk.overflowDelayed) => TicksLeft(kk, u) = kk.wake[u] - kk.tick + TICK_MOD
    BY LeftIs
  <2>4. /\ u \in ToSet(r.delayed) => TicksLeft(r, u) = r.wake[u] - r.tick
        /\ u \in ToSet(r.overflowDelayed) => TicksLeft(r, u) = r.wake[u] - r.tick + TICK_MOD
    BY LeftIs
  <2>5. u \in ToSet(kk.delayed) => u \notin ToSet(kk.overflowDelayed)
    BY DEF Sound, InPlace
  <2>6. kk.wake[u] \in Ticks
    BY <1>1
  <2>7. CASE u \in ToSet(kk.delayed)
    <3>1. TicksLeft(kk, u) = kk.wake[u] - kk.tick /\ u \notin ToSet(kk.overflowDelayed)
      BY <2>3, <2>5, <2>7
    <3>2. IsDue(kt, u) <=> TicksLeft(kk, u) <= 1
      BY <1>1, <2>1, <2>6, <2>7, <3>1
    <3>3. TicksLeft(kk, u) <= 1 <=> ~ (TicksLeft(kk, u) > 1)
      BY <1>1, <2>6, <3>1
    <3>4. ~ IsDue(kt, u) => TicksLeft(r, u) = kk.wake[u] - (kk.tick + 1)
      BY <1>2, <2>2, <2>4, <2>7
    <3>5. kk.wake[u] - (kk.tick + 1) = TicksLeft(kk, u) - 1
      BY <1>1, <2>6, <3>1
    <3>6. QED
      BY <2>2, <2>7, <3>1, <3>2, <3>3, <3>4, <3>5 DEF IsDelayed
  <2>8. CASE u \in ToSet(kk.overflowDelayed)
    <3>1. TicksLeft(kk, u) = kk.wake[u] - kk.tick + TICK_MOD /\ u \notin ToSet(kk.delayed)
      BY <2>3, <2>5, <2>8
    <3>2. TicksLeft(kk, u) > 1 /\ ~ (TicksLeft(kk, u) <= 1)
      BY <1>1, <2>6, <3>1
    <3>3. ~ IsDue(kt, u)
      BY <2>1, <3>1
    <3>4. TicksLeft(r, u) = kk.wake[u] - (kk.tick + 1) + TICK_MOD
      BY <1>2, <2>2, <2>4, <2>8, <3>3
    <3>5. kk.wake[u] - (kk.tick + 1) + TICK_MOD = TicksLeft(kk, u) - 1
      BY <1>1, <2>6, <3>1
    <3>6. QED
      BY <2>2, <2>8, <3>2, <3>3, <3>4, <3>5 DEF IsDelayed
  <2>9. CASE ~ IsDelayed(kk, u)
    BY <2>1, <2>2, <2>9 DEF IsDelayed
  <2>10. QED
    BY <2>7, <2>8, <2>9 DEF IsDelayed
<1>5. QED
  BY <1>2, <1>3, <1>4 DEF Elapsed

\* The tick at which the count overflows: all that wait are in the other list.
LEMMA OverflowElapses ==
  ASSUME NEW kk, Sound(kk), TimesSound(kk), kk.tick = portMAX_DELAY,
         NEW kt, SameLists(kt, kk), kt.wake = kk.wake, kt.tick = 0, kt.delayed = <<>>,
         NEW ks, Swapped(ks, kt),
         NEW r, Sound(r), TimesSound(r), Checked(r, ks)
  PROVE  Elapsed(r, kk, 1)
<1>1. /\ kk.tick \in Ticks /\ \A u \in AllTasks : kk.wake[u] \in Ticks
      /\ Ticks = 0 .. TICK_MOD - 1 /\ portMAX_DELAY = TICK_MOD - 1
      /\ TICK_MOD \in Nat /\ TICK_MOD > 2
  BY FieldTypes, KernelAssumption DEF Sound, KernelState, Ticks, portMAX_DELAY
<1>2. r.tick = (kk.tick + 1) % TICK_MOD /\ r.tick = 0
  BY NextTick, <1>1 DEF Checked, Swapped
<1>3. r.suspended = kk.suspended /\ kk.tick + 1 >= TICK_MOD
  BY <1>1 DEF Checked, Swapped, SameLists
<1>0. ToSet(kk.delayed) = {} /\ ToSet(r.overflowDelayed) = {}
  BY EmptySorted DEF Checked, Swapped, SameLists
<1>4. ASSUME NEW u \in AllTasks
      PROVE  /\ IsReady(r, u) <=> IsReady(kk, u) \/ (IsDelayed(kk, u) /\ TicksLeft(kk, u) <= 1)
             /\ IsDelayed(r, u) <=> IsDelayed(kk, u) /\ TicksLeft(kk, u) > 1
             /\ IsDelayed(r, u) => TicksLeft(r, u) = TicksLeft(kk, u) - 1
  <2>1. /\ IsDue(ks, u) <=> u \in ToSet(kk.overflowDelayed) /\ kk.wake[u] <= 0
        /\ IsReady(ks, u) <=> IsReady(kk, u)
    BY DEF IsDue, SameLists, Swapped, IsReady
  <2>2. /\ IsReady(r, u) <=> IsReady(kk, u) \/ IsDue(ks, u)
        /\ u \in ToSet(r.delayed) <=> u \in ToSet(kk.overflowDelayed) /\ ~ IsDue(ks, u)
        /\ ~ IsDue(ks, u) => r.wake[u] = kk.wake[u]
    BY <2>1 DEF Checked, SameLists, Swapped
  <2>3. u \in ToSet(kk.overflowDelayed) => TicksLeft(kk, u) = kk.wake[u] - kk.tick + TICK_MOD
    BY LeftIs
  <2>4. u \in ToSet(r.delayed) => TicksLeft(r, u) = r.wake[u] - r.tick
    BY LeftIs
  <2>6. kk.wake[u] \in Ticks
    BY <1>1
  <2>7. CASE u \in ToSet(kk.overflowDelayed)
    <3>1. IsDelayed(kk, u) /\ TicksLeft(kk, u) = kk.wake[u] + 1
      BY <1>1, <2>3, <2>6, <2>7 DEF IsDelayed
    <3>2. IsDue(ks, u) <=> TicksLeft(kk, u) <= 1
      BY <1>1, <2>1, <2>6, <2>7, <3>1
    <3>3. IsDelayed(r, u) <=> ~ IsDue(ks, u)
      BY <1>0, <2>2, <2>7 DEF IsDelayed
    <3>4. ~ IsDue(ks, u) => TicksLeft(r, u) = TicksLeft(kk, u) - 1
      BY <1>1, <1>2, <2>2, <2>4, <2>6, <2>7, <3>1
    <3>5. TicksLeft(kk, u) \in Int
      BY <1>1, <2>6, <3>1
    <3>6. QED
      BY <2>1, <2>2, <3>1, <3>2, <3>3, <3>4, <3>5
  <2>8. CASE u \notin ToSet(kk.overflowDelayed)
    BY <1>0, <2>1, <2>2, <2>8 DEF IsDelayed
  <2>9. QED
    BY <2>7, <2>8
<1>5. QED
  BY <1>2, <1>3, <1>4 DEF Elapsed

\* vTaskIncrementTick, the scheduler running.
LEMMA IncrementsTick ==
  ASSUME NEW kk, Sound(kk), TimesSound(kk), kk.schedulerSuspended = 0
  PROVE  LET r == vTaskIncrementTick(kk)
         IN  Sound(r) /\ TimesSound(r) /\ Later(r, kk) /\ Elapsed(r, kk, 1)
<1> DEFINE kt == [kk EXCEPT !.tick = (@ + 1) % TICK_MOD]
<1>1. kk \in KernelState /\ kk.tick \in Ticks /\ kk.tick \in Nat
  BY FieldTypes DEF Sound
<1>2. /\ (kk.tick + 1) % TICK_MOD \in Ticks
      /\ (kk.tick + 1) % TICK_MOD = IF kk.tick = portMAX_DELAY THEN 0 ELSE kk.tick + 1
  BY <1>1, NextTick
<1>3. /\ kt \in KernelState /\ SameLists(kt, kk)
      /\ kt.current = kk.current /\ kt.schedulerSuspended = kk.schedulerSuspended
      /\ kt.missedTicks = kk.missedTicks /\ kt.missedYield = kk.missedYield
      /\ kt.basePriority = kk.basePriority
      /\ kt.wake = kk.wake /\ kt.nextUnblock = kk.nextUnblock
      /\ kt.overflows = kk.overflows
      /\ kt.tick = IF kk.tick = portMAX_DELAY THEN 0 ELSE kk.tick + 1
  <2> DEFINE n == (kk.tick + 1) % TICK_MOD
  <2>1. kt = [kk EXCEPT !.tick = n]
    OBVIOUS
  <2>2. n \in Ticks /\ n = IF kk.tick = portMAX_DELAY THEN 0 ELSE kk.tick + 1
    BY <1>2
  <2> HIDE DEF n, kt
  <2>3. kt \in KernelState /\ kt.tick = n
    BY <1>1, <2>1, <2>2, ZenonT(40) DEF KernelState
  <2>4. /\ SameLists(kt, kk)
        /\ kt.current = kk.current /\ kt.schedulerSuspended = kk.schedulerSuspended
        /\ kt.missedTicks = kk.missedTicks /\ kt.missedYield = kk.missedYield
        /\ kt.basePriority = kk.basePriority
        /\ kt.wake = kk.wake /\ kt.nextUnblock = kk.nextUnblock
        /\ kt.overflows = kk.overflows
    BY <1>1, <2>1 DEF KernelState, SameLists
  <2>5. QED
    BY <2>2, <2>3, <2>4
<1>4. vTaskIncrementTick(kk)
        = prvCheckDelayedTasks(IF kt.tick = 0 THEN SwapDelayedLists(kt) ELSE kt)
  BY DEF vTaskIncrementTick
<1> HIDE DEF kt
<1>5. Sound(kt) /\ Later(kt, kk)
  BY <1>3, SoundSame, SameQueuedUp DEF Later, SameLists, IsReady, EventsFall
<1>6. /\ ToSet(kk.delayed) \subseteq AllTasks /\ ToSet(kk.overflowDelayed) \subseteq AllTasks
      /\ \A t \in AllTasks : kk.wake[t] \in Ticks /\ kk.wake[t] \in Nat
      /\ kk.delayed \in Seq(AllTasks)
  BY <1>1, ListTypes, InList, FieldTypes DEF KernelState
<1>7. CASE kt.tick = 0
  <2>1. kk.tick = portMAX_DELAY
    BY <1>1, <1>3, <1>7
  <2>2. ASSUME NEW t \in ToSet(kk.delayed) PROVE FALSE
    <3>1. kk.wake[t] > portMAX_DELAY /\ kk.wake[t] \in Ticks
      BY <1>6, <2>1 DEF TimesSound
    <3>2. QED
      BY <3>1, KernelAssumption DEF Ticks, portMAX_DELAY
  <2>3. kt.delayed = <<>>
    BY <1>3, <1>6, <2>2, InList DEF SameLists
  <2>4. Sorted(kt.overflowDelayed, kt.wake)
    BY <1>3 DEF SameLists, TimesSound
  <2> DEFINE ks == SwapDelayedLists(kt)
  <2>5. Sound(ks) /\ TimesOverdue(ks) /\ Later(ks, kt) /\ Swapped(ks, kt)
    BY <1>5, <1>7, <2>3, <2>4, SwapsLists
  <2> HIDE DEF ks
  <2>6. LET r == prvCheckDelayedTasks(ks) IN Sound(r) /\ TimesSound(r) /\ Later(r, ks) /\ Checked(r, ks)
    BY <2>5, ChecksDelayed
  <2>7. vTaskIncrementTick(kk) = prvCheckDelayedTasks(ks)
    BY <1>4, <1>7 DEF ks
  <2> DEFINE r == prvCheckDelayedTasks(ks)
  <2>8. Sound(r) /\ TimesSound(r) /\ Later(r, ks) /\ Checked(r, ks)
    BY <2>6
  <2> HIDE DEF r
  <2>9. Elapsed(r, kk, 1)
    BY <1>3, <1>7, <2>1, <2>3, <2>5, <2>8, OverflowElapses
  <2>10. Later(r, kk)
    BY <1>5, <2>5, <2>8, LaterTrans
  <2>11. QED
    BY <2>7, <2>8, <2>9, <2>10 DEF r
<1>8. CASE kt.tick # 0
  <2>1. kt.tick = kk.tick + 1
    BY <1>3, <1>8
  <2>2. \A t \in ToSet(kt.overflowDelayed) : kt.wake[t] < kt.tick
    BY <1>1, <1>3, <1>6, <2>1 DEF TimesSound, SameLists
  <2>3. TimesOverdue(kt)
    BY <1>3, <2>2 DEF TimesSound, TimesOverdue, SameLists
  <2>4. LET r == prvCheckDelayedTasks(kt) IN Sound(r) /\ TimesSound(r) /\ Later(r, kt) /\ Checked(r, kt)
    BY <1>5, <2>3, ChecksDelayed
  <2>5. vTaskIncrementTick(kk) = prvCheckDelayedTasks(kt)
    BY <1>4, <1>8
  <2> DEFINE r == prvCheckDelayedTasks(kt)
  <2>6. Sound(r) /\ TimesSound(r) /\ Later(r, kt) /\ Checked(r, kt)
    BY <2>4
  <2> HIDE DEF r
  <2>7. kk.tick # portMAX_DELAY
    BY <1>3, <1>8
  <2>8. Elapsed(r, kk, 1)
    BY <1>3, <2>1, <2>6, <2>7, TickElapses
  <2>9. Later(r, kk)
    BY <1>5, <2>6, LaterTrans
  <2>10. QED
    BY <2>5, <2>6, <2>8, <2>9 DEF r
<1>9. QED
  BY <1>7, <1>8

\* The fold over the ticks that were missed.
TickIter(kk, list) ==
  CHOOSE iter : iter = [s \in SUBSET DOMAIN list |->
                          IF s = {} THEN kk ELSE vTaskIncrementTick(iter[s \ {Max(s)}])]

\* Missed ticks, as the function the fold runs along.
LEMMA TickUnfolds ==
  ASSUME NEW kk, NEW list
  PROVE  FoldLeft(LAMBDA x, i : vTaskIncrementTick(x), kk, list) = TickIter(kk, list)[DOMAIN list]
BY DEF FoldLeft, MapThenFoldSet, TickIter

\* Any number of missed ticks, one after the other, leave the kernel sound.
LEMMA TicksAll ==
  ASSUME NEW kk, Sound(kk), TimesSound(kk), kk.schedulerSuspended = 0, NEW n \in Nat
  PROVE  LET r == FoldLeft(LAMBDA x, i : vTaskIncrementTick(x), kk, [i \in 1 .. n |-> i])
         IN  Sound(r) /\ TimesSound(r) /\ Later(r, kk) /\ Elapsed(r, kk, n)
<1> DEFINE list == [i \in 1 .. n |-> i]
           R == {r \in KernelState : Sound(r) /\ TimesSound(r) /\ r.schedulerSuspended = 0}
           G == [p \in Nat \X R |-> vTaskIncrementTick(p[2])]
           g == TickIter(kk, list)
           Next1(iter) == [s \in SUBSET DOMAIN list |->
                             IF s = {} THEN kk ELSE vTaskIncrementTick(iter[s \ {Max(s)}])]
<1>1. list \in [1 .. n -> Nat] /\ DOMAIN list = 1 .. n
  OBVIOUS
<1> HIDE DEF list
<1>2. ASSUME NEW r \in R
      PROVE  /\ vTaskIncrementTick(r) \in R /\ Later(vTaskIncrementTick(r), r)
             /\ Elapsed(vTaskIncrementTick(r), r, 1)
  <2> DEFINE q == vTaskIncrementTick(r)
  <2>1. Sound(q) /\ TimesSound(q) /\ Later(q, r) /\ Elapsed(q, r, 1)
    BY <1>2, IncrementsTick
  <2>2. r.schedulerSuspended = 0
    BY <1>2
  <2> HIDE DEF q
  <2>3. q \in R
    BY <2>1, <2>2 DEF Sound, Later
  <2>4. QED
    BY <2>1, <2>3 DEF q
<1>3. G \in [Nat \X R -> R] /\ \A i \in Nat, r \in R : G[<<i, r>>] = vTaskIncrementTick(r)
  BY <1>2
<1>4. kk \in R
  BY DEF Sound
<1> HIDE DEF G
<1>5. PICK f \in [SUBSET (1 .. n) -> R] : LastFolds(f, list, n, kk, G)
  <2> HIDE DEF R
  <2> QED
    BY <1>1, <1>3, <1>4, LastFirst
<1>0. \A r \in R : Sound(r) /\ TimesSound(r)
  OBVIOUS
<1> HIDE DEF R
<1>6. ASSUME NEW s \in SUBSET (1 .. n)
      PROVE  f[s] = IF s = {} THEN kk ELSE vTaskIncrementTick(f[s \ {Max(s)}])
  <2>1. CASE s = {}
    BY <1>5, <2>1 DEF LastFolds
  <2>2. CASE s # {}
    <3>1. Max(s) \in 1 .. n
      BY <1>1, <2>2, MaxIsLast
    <3>2. list[Max(s)] \in Nat /\ f[s \ {Max(s)}] \in R
      BY <1>1, <3>1
    <3>3. f[s] = G[<<list[Max(s)], f[s \ {Max(s)}]>>]
      BY <1>5, <2>2 DEF LastFolds
    <3>4. QED
      BY <1>3, <2>2, <3>2, <3>3
  <2>3. QED
    BY <2>1, <2>2
<1>7. f = Next1(f)
  BY <1>1, <1>6
<1>8. g = Next1(g)
  BY <1>7 DEF TickIter
<1> HIDE DEF g
<1>9. \A s \in SUBSET (1 .. n) :
        g[s] = IF s = {} THEN kk ELSE vTaskIncrementTick(g[s \ {Max(s)}])
  BY <1>1, <1>8
<1> DEFINE T == {m \in Nat : m <= n =>
                           g[1 .. m] \in R /\ Later(g[1 .. m], kk) /\ Elapsed(g[1 .. m], kk, m)}
<1>10. 0 \in T
  <2>1. 1 .. 0 = {}
    OBVIOUS
  <2>2. g[1 .. 0] = kk
    BY <1>9, <2>1
  <2>3. QED
    BY <1>0, <1>4, <2>1, <2>2, LaterSelf, ElapsedNone
<1>11. ASSUME NEW m \in Nat, m \in T PROVE m + 1 \in T
  <2> SUFFICES ASSUME m + 1 <= n
               PROVE  g[1 .. m + 1] \in R /\ Later(g[1 .. m + 1], kk) /\ Elapsed(g[1 .. m + 1], kk, m + 1)
    OBVIOUS
  <2>0. n \in Nat /\ m + 1 \in Nat /\ m + 1 > 0 /\ (m + 1) - 1 = m
    BY <1>1
  <2>1. /\ Max(1 .. m + 1) = m + 1 /\ (1 .. m + 1) \ {m + 1} = 1 .. m
        /\ 1 .. m + 1 \in SUBSET (1 .. n) /\ 1 .. m + 1 # {}
    <3>1. Max(1 .. m + 1) = m + 1 /\ (1 .. m + 1) \ {m + 1} = 1 .. m
      BY <2>0, MaxIsLast
    <3>2. 1 .. m + 1 \in SUBSET (1 .. n)
      <4> HIDE DEF T, R
      <4>1. \A j \in 1 .. m + 1 : j \in 1 .. n
        BY <2>0
      <4>2. QED
        BY <4>1
    <3>3. m + 1 \in 1 .. m + 1
      BY <2>0
    <3>4. QED
      BY <3>1, <3>2, <3>3
  <2>2. g[1 .. m + 1] = vTaskIncrementTick(g[1 .. m])
    BY <1>9, <2>1
  <2>3. g[1 .. m] \in R /\ Later(g[1 .. m], kk) /\ Elapsed(g[1 .. m], kk, m)
    BY <1>1, <1>11
  <2>4. g[1 .. m + 1] \in R /\ Later(g[1 .. m + 1], g[1 .. m])
        /\ Elapsed(g[1 .. m + 1], g[1 .. m], 1)
    BY <1>2, <2>2, <2>3
  <2>5. Later(g[1 .. m + 1], kk)
    BY <2>3, <2>4, LaterTrans
  <2>6. Elapsed(g[1 .. m + 1], kk, m + 1)
    BY <1>0, <1>4, <2>3, <2>4, ElapsedTrans
  <2>7. QED
    BY <2>4, <2>5, <2>6
<1>12. n \in T
  <2> HIDE DEF T
  <2> QED
    BY <1>1, <1>10, <1>11, SetInduction
<1>13. g[1 .. n] \in R /\ Later(g[1 .. n], kk) /\ Elapsed(g[1 .. n], kk, n)
  BY <1>1, <1>12
<1>14. FoldLeft(LAMBDA x, i : vTaskIncrementTick(x), kk, list) = g[1 .. n]
  BY <1>1, TickUnfolds DEF g
<1>15. QED
  BY <1>0, <1>13, <1>14 DEF list

-------------------------------------------------------------------------------
(* The context switch and the end of a suspension of the scheduler *)

LEMMA MaxOfSome ==
  ASSUME NEW n \in Nat, NEW s \in SUBSET (0 .. n), s # {}
  PROVE  Max(s) \in s /\ \A y \in s : y <= Max(s)
<1> DEFINE T == {k \in Nat : \E x \in s : k = n - x}
<1>1. T \in SUBSET Nat /\ T # {}
  <2>1. PICK x \in s : TRUE
    OBVIOUS
  <2>2. n - x \in T
    BY <2>1
  <2>3. QED
    BY <2>2
<1> HIDE DEF T
<1>2. PICK m \in T : \A y \in T : m <= y
  BY <1>1, LeastNatural
<1>3. PICK x \in s : m = n - x
  BY <1>2 DEF T
<1>4. ASSUME NEW y \in s PROVE x >= y
  <2>1. n - y \in T
    <3>1. n - y \in Nat
      OBVIOUS
    <3>2. QED
      BY <3>1 DEF T
  <2>2. n - x <= n - y /\ x \in Nat /\ y \in Nat
    BY <1>2, <1>3, <2>1
  <2>3. QED
    BY <2>2
<1>5. \E z \in s : \A y \in s : z >= y
  BY <1>4
<1>6. Max(s) \in s /\ \A y \in s : Max(s) >= y
  BY <1>5 DEF Max
<1>7. \A y \in s : y \in Nat
  OBVIOUS
<1>8. QED
  BY <1>6, <1>7

\* The current task is ready, and nobody who is ready goes before it.
Highest(kk) ==
  /\ IsReady(kk, kk.current)
  /\ \A u \in AllTasks : IsReady(kk, u) => kk.priority[u] <= kk.priority[kk.current]

\* What changes is who runs, and the order of its ready list.
SwitchedTo(r, kk) ==
  /\ r.delayed = kk.delayed /\ r.overflowDelayed = kk.overflowDelayed
  /\ r.suspended = kk.suspended /\ r.waitingTermination = kk.waitingTermination
  /\ r.event = kk.event /\ r.pendingReady = kk.pendingReady
  /\ r.priority = kk.priority /\ r.basePriority = kk.basePriority
  /\ r.wake = kk.wake /\ r.tick = kk.tick /\ r.nextUnblock = kk.nextUnblock
  /\ r.overflows = kk.overflows
  /\ r.schedulerSuspended = kk.schedulerSuspended
  /\ r.missedTicks = kk.missedTicks /\ r.missedYield = kk.missedYield
  /\ \A u \in AllTasks : IsReady(r, u) <=> IsReady(kk, u)

\* The next task of one ready list runs, and goes to the end of the list.
Rotated(r, kk) ==
  \E p \in Priorities :
    /\ kk.ready[p] # <<>> /\ r.current = Head(kk.ready[p])
    /\ \A q \in Priorities : r.ready[q] = IF q = p THEN NextEntry(kk.ready[q]) ELSE kk.ready[q]

\* vTaskSwitchContext chooses a ready task of the highest priority.
LEMMA Switches ==
  ASSUME NEW kk, Sound(kk), kk.schedulerSuspended = 0
  PROVE  LET r == vTaskSwitchContext(kk)
         IN  Sound(r) /\ Highest(r) /\ SwitchedTo(r, kk) /\ Rotated(r, kk)
<1> DEFINE Q == {q \in 0 .. kk.topReady : kk.ready[q] # <<>>}
           p == Max(Q)
           next == Head(kk.ready[p])
           r == vTaskSwitchContext(kk)
<1>1. /\ kk \in KernelState /\ kk.topReady \in Nat /\ kk.topReady \in Priorities
      /\ Priorities \subseteq Nat /\ 0 \in Priorities /\ IdleTask \in AllTasks
      /\ \A u \in AllTasks : kk.priority[u] \in Priorities
  BY FieldTypes DEF Sound
<1>2. /\ \A q \in Priorities : kk.ready[q] # <<>> => q <= kk.topReady
      /\ kk.ready[0] # <<>>
  <2>1. kk.ready[0] # <<>>
    BY <1>1, EmptyList DEF Sound, TopKnown
  <2>2. QED
    BY <2>1 DEF Sound, TopKnown
<1>3. Q \in SUBSET (0 .. kk.topReady) /\ 0 \in Q
  BY <1>1, <1>2
<1>4. /\ \A q \in Q : kk.ready[q] # <<>> /\ q \in Priorities
      /\ \A q \in Priorities : kk.ready[q] # <<>> => q \in Q
  <2>1. 0 .. kk.topReady \subseteq Priorities
    BY <1>1, KernelAssumption DEF Priorities
  <2>2. \A q \in Priorities : kk.ready[q] # <<>> => q \in 0 .. kk.topReady
    BY <1>1, <1>2
  <2>3. QED
    BY <2>1, <2>2
<1>5. r = [kk EXCEPT !.topReady = p, !.current = next, !.ready[p] = NextEntry(@)]
  BY DEF vTaskSwitchContext
<1> HIDE DEF Q
<1>6. p \in Q /\ \A q \in Q : q <= p
  BY <1>1, <1>3, MaxOfSome
<1> HIDE DEF p
<1>7. p \in Priorities /\ kk.ready[p] # <<>> /\ kk.ready[p] \in Seq(AllTasks)
  BY <1>1, <1>4, <1>6, ListTypes
<1>8. /\ NextEntry(kk.ready[p]) \in Seq(AllTasks) /\ NextEntry(kk.ready[p]) # <<>>
      /\ ToSet(NextEntry(kk.ready[p])) = ToSet(kk.ready[p])
      /\ IsInjective(kk.ready[p]) => IsInjective(NextEntry(kk.ready[p]))
  BY <1>7, ListRotate
<1>9. next \in AllTasks /\ next \in ToSet(kk.ready[p])
  BY <1>7, InList
<1> DEFINE list == NextEntry(kk.ready[p])
<1> HIDE DEF next, list
<1>10. /\ r \in KernelState
       /\ r.ready = [kk.ready EXCEPT ![p] = list]
       /\ r.topReady = p /\ r.current = next
  <2>1. list \in Seq(AllTasks)
    BY <1>8 DEF list
  <2>2. kk.ready \in [Priorities -> Seq(AllTasks)]
    BY <1>1 DEF KernelState
  <2>3. [kk.ready EXCEPT ![p] = list] \in [Priorities -> Seq(AllTasks)]
    BY <1>7, <2>1, <2>2
  <2>4. r = [kk EXCEPT !.topReady = p, !.current = next, !.ready = [kk.ready EXCEPT ![p] = list]]
    BY <1>1, <1>5, <1>7 DEF KernelState, list
  <2> HIDE DEF r
  <2>5. QED
    BY <1>1, <1>7, <1>9, <2>3, <2>4 DEF KernelState
<1>11. /\ r.delayed = kk.delayed /\ r.overflowDelayed = kk.overflowDelayed
       /\ r.suspended = kk.suspended /\ r.waitingTermination = kk.waitingTermination
       /\ r.event = kk.event /\ r.pendingReady = kk.pendingReady
       /\ r.priority = kk.priority /\ r.basePriority = kk.basePriority
       /\ r.wake = kk.wake /\ r.tick = kk.tick /\ r.nextUnblock = kk.nextUnblock
       /\ r.overflows = kk.overflows
       /\ r.schedulerSuspended = kk.schedulerSuspended
       /\ r.missedTicks = kk.missedTicks /\ r.missedYield = kk.missedYield
  BY <1>1, <1>5 DEF KernelState
<1> HIDE DEF r
<1>12. \A q \in Priorities : r.ready[q] = IF q = p THEN list ELSE kk.ready[q]
  <2>1. kk.ready \in [Priorities -> Seq(AllTasks)]
    BY <1>1 DEF KernelState
  <2>2. QED
    BY <1>7, <1>10, <2>1
<1>13. \A q \in Priorities : /\ ToSet(r.ready[q]) = ToSet(kk.ready[q])
                             /\ IsInjective(kk.ready[q]) => IsInjective(r.ready[q])
                             /\ r.ready[q] # <<>> => kk.ready[q] # <<>>
  BY <1>7, <1>8, <1>12 DEF list
<1>14. Once(r)
  BY <1>11, <1>13 DEF Sound, Once
<1>15. \A u \in AllTasks : SamePlace(r, kk, u) /\ SameEvent(r, kk, u)
  BY <1>11, <1>13 DEF SamePlace, SameEvent
<1>16. \A u \in AllTasks : InPlace(r, u)
  BY <1>1, <1>15, PlaceKept DEF Sound
<1>17. TopKnown(r)
  <2>1. \A q \in Priorities : r.ready[q] # <<>> => q <= p
    BY <1>4, <1>6, <1>13
  <2>2. IdleTask \in ToSet(r.ready[0])
    BY <1>1, <1>13 DEF Sound, TopKnown
  <2>3. QED
    BY <1>10, <2>1, <2>2 DEF TopKnown
<1>18. Sound(r)
  BY <1>10, <1>14, <1>16, <1>17 DEF Sound
<1>19. \A u \in AllTasks : IsReady(r, u) <=> IsReady(kk, u)
  BY <1>1, <1>15, SameReady
<1>20. SwitchedTo(r, kk)
  BY <1>11, <1>19 DEF SwitchedTo
<1>21. Highest(r)
  <2>1. kk.priority[next] = p
    BY <1>7, <1>9 DEF Sound, InPlace
  <2>2. IsReady(kk, next)
    BY <1>9, <2>1 DEF IsReady
  <2>3. ASSUME NEW u \in AllTasks, IsReady(kk, u) PROVE kk.priority[u] <= p
    <3>1. kk.priority[u] \in Priorities /\ kk.ready[kk.priority[u]] # <<>>
      BY <1>1, <2>3, EmptyList DEF IsReady
    <3>2. QED
      BY <1>4, <1>6, <3>1
  <2>4. QED
    BY <1>9, <1>10, <1>11, <1>19, <2>1, <2>2, <2>3 DEF Highest
<1>22. Rotated(r, kk)
  BY <1>7, <1>10, <1>12 DEF Rotated, next, list
<1>23. QED
  BY <1>18, <1>20, <1>21, <1>22 DEF r

\* xPendingReadyList is emptied: what was woken while the scheduler was suspended
\* is ready now.
LEMMA MovesPending ==
  ASSUME NEW kk, Sound(kk), TimesSound(kk)
  PROVE  LET r == MovePending(kk)
         IN  /\ Sound(r) /\ TimesSound(r) /\ Calm(r, kk) /\ QueuedUp(r, kk) /\ EventsFall(r, kk)
             /\ r.pendingReady = <<>>
             /\ ToSet(r.waitingTermination) = ToSet(kk.waitingTermination)
             /\ r.suspended = kk.suspended \ ToSet(kk.pendingReady)
             /\ \A u \in AllTasks :
                  /\ IsReady(r, u) <=> IsReady(kk, u) \/ IsPending(kk, u)
                  /\ IsDelayed(r, u) <=> IsDelayed(kk, u) /\ ~ IsPending(kk, u)
                  /\ ~ IsPending(kk, u) => r.wake[u] = kk.wake[u]
<1> DEFINE r == MovePending(kk)
           W == ToSet(kk.pendingReady)
<1>1. kk \in KernelState /\ kk.pendingReady \in Seq(AllTasks) /\ W \subseteq AllTasks
  BY ListTypes, InList DEF Sound
<1>11. \A t \in W : ~ IsReady(kk, t)
  BY <1>1 DEF Sound, InPlace, IsPending
<1>12. IsInjective(kk.pendingReady)
  BY DEF Sound, Once
<1>2. Sound(r) /\ Woken(r, kk, W) /\ QueuedUp(r, kk)
  BY <1>1, <1>11, <1>12, WakesAll DEF MovePending
<1> HIDE DEF r, W
<1>3. TimesSound(r)
  BY <1>1, <1>2, WokenTimes
<1>4. r.pendingReady = <<>>
  <2>1. r \in KernelState /\ r.pendingReady \in Seq(AllTasks)
    BY <1>2, ListTypes DEF Sound
  <2>2. ToSet(r.pendingReady) = {}
    BY <1>2 DEF Woken, W
  <2>3. QED
    BY <2>1, <2>2, InList
<1>5. \A u \in AllTasks : u \in W <=> IsPending(kk, u)
  BY DEF W, IsPending
<1>6. ToSet(r.waitingTermination) = ToSet(kk.waitingTermination)
  <2>1. \A u \in W : u \notin ToSet(kk.waitingTermination)
    BY <1>1, <1>5 DEF Sound, InPlace
  <2>2. QED
    BY <1>2, <2>1 DEF Woken
<1>7. \A u \in AllTasks : /\ IsReady(r, u) <=> IsReady(kk, u) \/ IsPending(kk, u)
                          /\ ~ IsPending(kk, u) => r.wake[u] = kk.wake[u]
  BY <1>2, <1>5 DEF Woken
<1>8. Calm(r, kk) /\ EventsFall(r, kk) /\ r.suspended = kk.suspended \ W
  BY <1>2 DEF Woken
<1>9. \A u \in AllTasks : IsDelayed(r, u) <=> IsDelayed(kk, u) /\ ~ IsPending(kk, u)
  BY <1>2, <1>5 DEF Woken, IsDelayed
<1>10. QED
  BY <1>2, <1>3, <1>4, <1>6, <1>7, <1>8, <1>9 DEF r, W

\* The ticks missed while the scheduler was suspended are made up for.
LEMMA CatchesUp ==
  ASSUME NEW kk, Sound(kk), TimesSound(kk), kk.schedulerSuspended = 0, kk.pendingReady = <<>>
  PROVE  LET r == [ProcessMissedTicks(kk) EXCEPT !.missedYield = FALSE]
         IN  /\ Sound(r) /\ TimesSound(r)
             /\ r.schedulerSuspended = 0 /\ r.pendingReady = <<>>
             /\ r.missedTicks = 0 /\ r.missedYield = FALSE
             /\ r.priority = kk.priority /\ r.basePriority = kk.basePriority
             /\ ToSet(r.waitingTermination) = ToSet(kk.waitingTermination)
             /\ Elapsed(r, kk, kk.missedTicks) /\ QueuedUp(r, kk) /\ EventsFall(r, kk)
<1> DEFINE n == kk.missedTicks
           kz == [kk EXCEPT !.missedTicks = 0]
           kp == ProcessMissedTicks(kk)
           r == [kp EXCEPT !.missedYield = FALSE]
<1>1. kk \in KernelState /\ n \in Nat
  BY FieldTypes DEF Sound
<1>2. /\ kz \in KernelState /\ SameLists(kz, kk)
      /\ kz.wake = kk.wake /\ kz.tick = kk.tick /\ kz.nextUnblock = kk.nextUnblock
      /\ kz.schedulerSuspended = 0 /\ kz.missedTicks = 0
      /\ kz.basePriority = kk.basePriority /\ kz.overflows = kk.overflows
  <2>1. kz \in KernelState
    BY <1>1 DEF KernelState
  <2>2. QED
    BY <1>1, <2>1 DEF KernelState, SameLists
<1>3. kp = FoldLeft(LAMBDA x, i : vTaskIncrementTick(x), kz, [i \in 1 .. n |-> i])
  BY DEF ProcessMissedTicks
<1> HIDE DEF kz, n
<1>4. Sound(kz)
  BY <1>2, SoundSame
<1>5. TimesSound(kz)
  BY <1>2 DEF TimesSound, SameLists
<1>6. Sound(kp) /\ TimesSound(kp) /\ Later(kp, kz) /\ Elapsed(kp, kz, n)
  BY <1>1, <1>2, <1>3, <1>4, <1>5, TicksAll
<1> HIDE DEF kp
<1>7. kp \in KernelState /\ kp.pendingReady = <<>>
  <2>1. kp \in KernelState /\ kp.pendingReady \in Seq(AllTasks)
    BY <1>6, ListTypes DEF Sound
  <2>2. ToSet(kp.pendingReady) \subseteq ToSet(<<>>)
    BY <1>2, <1>6 DEF Later, SameLists
  <2>3. ToSet(<<>>) = {}
    BY EmptySorted
  <2>4. QED
    BY <2>1, <2>2, <2>3, InList
<1>8. /\ r \in KernelState /\ SameLists(r, kp)
      /\ r.wake = kp.wake /\ r.tick = kp.tick /\ r.nextUnblock = kp.nextUnblock
      /\ r.schedulerSuspended = kp.schedulerSuspended /\ r.missedTicks = kp.missedTicks
      /\ r.basePriority = kp.basePriority /\ r.missedYield = FALSE
      /\ r.overflows = kp.overflows
  BY <1>7 DEF KernelState, SameLists
<1> HIDE DEF r
<1>9. Sound(r)
  BY <1>6, <1>8, SoundSame
<1>10. TimesSound(r)
  BY <1>6, <1>8 DEF TimesSound, SameLists
<1>11. /\ r.schedulerSuspended = 0 /\ r.missedTicks = 0
       /\ r.priority = kk.priority /\ r.basePriority = kk.basePriority
       /\ ToSet(r.waitingTermination) = ToSet(kk.waitingTermination)
       /\ r.pendingReady = <<>>
  BY <1>2, <1>6, <1>7, <1>8 DEF Later, SameLists
<1>12. \A u \in AllTasks : /\ IsReady(kz, u) <=> IsReady(kk, u)
                           /\ IsDelayed(kz, u) <=> IsDelayed(kk, u)
                           /\ TicksLeft(kz, u) = TicksLeft(kk, u)
  BY <1>2 DEF SameLists, IsReady, IsDelayed, TicksLeft
<1>13. \A u \in AllTasks : /\ IsReady(r, u) <=> IsReady(kp, u)
                           /\ IsDelayed(r, u) <=> IsDelayed(kp, u)
                           /\ TicksLeft(r, u) = TicksLeft(kp, u)
  BY <1>8 DEF SameLists, IsReady, IsDelayed, TicksLeft
<1>14. /\ r.tick = (kk.tick + n) % TICK_MOD /\ r.suspended = kk.suspended
       /\ r.overflows # kk.overflows => kk.tick + n >= TICK_MOD
  BY <1>2, <1>6, <1>8 DEF Elapsed, SameLists
<1>15. Elapsed(r, kk, n)
  BY <1>6, <1>12, <1>13, <1>14 DEF Elapsed
<1>16. QueuedUp(r, kk)
  <2>1. kz.ready = kk.ready /\ r.ready = kp.ready
    BY <1>2, <1>8 DEF SameLists
  <2>2. QueuedUp(kp, kz)
    BY <1>6 DEF Later
  <2>3. QED
    BY <2>1, <2>2 DEF QueuedUp
<1>18. EventsFall(r, kk)
  <2>1. kz.event = kk.event /\ r.event = kp.event
    BY <1>2, <1>8 DEF SameLists
  <2>2. QED
    BY <1>6, <2>1 DEF Later, EventsFall
<1>17. QED
  BY <1>8, <1>9, <1>10, <1>11, <1>15, <1>16, <1>18 DEF r, kp, n

\* xTaskResumeAll, the scheduler suspended once. Nothing stays put off, and a task
\* that became ready and goes before the current one has the processor.
Resumed(r, kk) ==
  /\ r.schedulerSuspended = 0 /\ r.pendingReady = <<>>
  /\ r.missedTicks = 0 /\ r.missedYield = FALSE
  /\ r.priority = kk.priority /\ r.basePriority = kk.basePriority
  /\ ToSet(r.waitingTermination) = ToSet(kk.waitingTermination)
  /\ EventsFall(r, kk)
  /\ AlreadyYielded(kk) => Highest(r)
  /\ ~ AlreadyYielded(kk) =>
       /\ r.current = kk.current
       /\ \A u \in AllTasks : IsReady(kk, u) => IsReady(r, u)
       /\ \A u \in AllTasks : IsReady(r, u) =>
            IsReady(kk, u) \/ kk.priority[u] < kk.priority[kk.current]

\* The tasks that were woken meanwhile, or whose time came, are ready; the others
\* have the ticks that came less to wait.
CaughtUp(r, kk) ==
  /\ r.tick = (kk.tick + kk.missedTicks) % TICK_MOD
  /\ r.overflows # kk.overflows => kk.tick + kk.missedTicks >= TICK_MOD
  /\ r.suspended = kk.suspended \ ToSet(kk.pendingReady)
  /\ \A u \in AllTasks :
       LET up == IsPending(kk, u) \/ (IsDelayed(kk, u) /\ TicksLeft(kk, u) <= kk.missedTicks)
       IN  /\ IsReady(r, u) <=> IsReady(kk, u) \/ up
           /\ IsDelayed(r, u) <=> IsDelayed(kk, u) /\ ~ up
           /\ IsDelayed(r, u) => TicksLeft(r, u) = TicksLeft(kk, u) - kk.missedTicks

\* Tasks have become ready, and then another task has perhaps taken its turn.
TookTurn(r, kk) ==
  \E m \in KernelState :
    /\ Sound(m) /\ QueuedUp(m, kk)
    /\ Rotated(r, m) \/ (r.ready = m.ready /\ r.current = kk.current)

\* Moving what is pending, and then letting the ticks pass.
LEMMA MovedAndElapsed ==
  ASSUME NEW kk, Sound(kk), TimesSound(kk), NEW km, km.tick = kk.tick,
         km.overflows = kk.overflows,
         km.suspended = kk.suspended \ ToSet(kk.pendingReady),
         \A u \in AllTasks : /\ IsReady(km, u) <=> IsReady(kk, u) \/ IsPending(kk, u)
                             /\ IsDelayed(km, u) <=> IsDelayed(kk, u) /\ ~ IsPending(kk, u)
                             /\ ~ IsPending(kk, u) => km.wake[u] = kk.wake[u],
         NEW r, Elapsed(r, km, kk.missedTicks)
  PROVE  CaughtUp(r, kk)
<1>1. kk.missedTicks \in Nat
  BY FieldTypes DEF Sound
<1>2. /\ r.tick = (kk.tick + kk.missedTicks) % TICK_MOD
      /\ r.overflows # kk.overflows => kk.tick + kk.missedTicks >= TICK_MOD
      /\ r.suspended = kk.suspended \ ToSet(kk.pendingReady)
  BY DEF Elapsed
<1> DEFINE n == kk.missedTicks
           up(u) == IsPending(kk, u) \/ (IsDelayed(kk, u) /\ TicksLeft(kk, u) <= n)
<1>3. ASSUME NEW u \in AllTasks
      PROVE  /\ IsReady(r, u) <=> IsReady(kk, u) \/ up(u)
             /\ IsDelayed(r, u) <=> IsDelayed(kk, u) /\ ~ up(u)
             /\ IsDelayed(r, u) => TicksLeft(r, u) = TicksLeft(kk, u) - n
  <2>1. /\ IsReady(r, u) <=> IsReady(km, u) \/ (IsDelayed(km, u) /\ TicksLeft(km, u) <= n)
        /\ IsDelayed(r, u) <=> IsDelayed(km, u) /\ TicksLeft(km, u) > n
        /\ IsDelayed(r, u) => TicksLeft(r, u) = TicksLeft(km, u) - n
    BY DEF Elapsed
  <2>2. ~ IsPending(kk, u) => TicksLeft(km, u) = TicksLeft(kk, u)
    BY DEF TicksLeft
  <2>3. IsDelayed(kk, u) => (TicksLeft(kk, u) > n <=> ~ (TicksLeft(kk, u) <= n))
    <3>1. IsDelayed(kk, u) => TicksLeft(kk, u) \in Int
      BY LeftIs, KernelAssumption DEF portMAX_DELAY
    <3>2. QED
      BY <1>1, <3>1
  <2> HIDE DEF n
  <2>4. QED
    BY <2>1, <2>2, <2>3
<1>4. QED
  BY <1>2, <1>3 DEF CaughtUp

\* xTaskResumeAll wakes what is pending and catches up.
LEMMA ResumesAll ==
  ASSUME NEW kk, Sound(kk), TimesSound(kk), kk.schedulerSuspended = 1
  PROVE  LET r == xTaskResumeAll(kk)
         IN  /\ Sound(r) /\ TimesSound(r) /\ Resumed(r, kk) /\ CaughtUp(r, kk)
             /\ TookTurn(r, kk)
<1> DEFINE kd == [kk EXCEPT !.schedulerSuspended = @ - 1]
           km == MovePending(kd)
<1>1. kk \in KernelState
  BY DEF Sound
<1>0. kd = [kk EXCEPT !.schedulerSuspended = 0]
  <2>1. kk.schedulerSuspended - 1 = 0
    OBVIOUS
  <2>2. QED
    BY <2>1
<1> HIDE DEF kd
<1>2. /\ kd \in KernelState /\ SameLists(kd, kk) /\ kd.schedulerSuspended = 0
      /\ kd.wake = kk.wake /\ kd.tick = kk.tick /\ kd.nextUnblock = kk.nextUnblock
      /\ kd.missedTicks = kk.missedTicks /\ kd.missedYield = kk.missedYield
      /\ kd.basePriority = kk.basePriority /\ kd.current = kk.current
      /\ kd.overflows = kk.overflows
  BY <1>0, <1>1 DEF KernelState, SameLists
<1>3. xTaskResumeAll(kk) =
        IF ResumeNeedsYield(kd)
        THEN vTaskSwitchContext([ProcessMissedTicks(km) EXCEPT !.missedYield = FALSE])
        ELSE km
  BY <1>2 DEF xTaskResumeAll, kd
<1>4. Sound(kd)
  BY <1>2, SoundSame
<1>5. TimesSound(kd)
  BY <1>2 DEF TimesSound, SameLists
<1>6. ResumeNeedsYield(kd) <=> AlreadyYielded(kk)
  BY <1>2 DEF AlreadyYielded, ResumeNeedsYield, SameLists
<1>7. /\ Sound(km) /\ TimesSound(km) /\ Calm(km, kd) /\ QueuedUp(km, kd) /\ EventsFall(km, kd)
      /\ km.pendingReady = <<>>
      /\ ToSet(km.waitingTermination) = ToSet(kd.waitingTermination)
      /\ km.suspended = kd.suspended \ ToSet(kd.pendingReady)
      /\ \A u \in AllTasks :
           /\ IsReady(km, u) <=> IsReady(kd, u) \/ IsPending(kd, u)
           /\ IsDelayed(km, u) <=> IsDelayed(kd, u) /\ ~ IsPending(kd, u)
           /\ ~ IsPending(kd, u) => km.wake[u] = kd.wake[u]
  BY <1>4, <1>5, MovesPending
<1> HIDE DEF km
<1>8. km.schedulerSuspended = 0 /\ km.priority = kk.priority /\ km.basePriority = kk.basePriority
      /\ ToSet(km.waitingTermination) = ToSet(kk.waitingTermination)
      /\ km.current = kk.current /\ km.missedTicks = kk.missedTicks
      /\ km.missedYield = kk.missedYield
  BY <1>2, <1>7 DEF Calm, SameLists
<1>13. QueuedUp(km, kk) /\ EventsFall(km, kk)
  BY <1>2, <1>7 DEF QueuedUp, EventsFall, SameLists
<1>9. ASSUME NEW r, Elapsed(r, km, kk.missedTicks) PROVE CaughtUp(r, kk)
  <2>1. \A u \in AllTasks : /\ IsReady(km, u) <=> IsReady(kk, u) \/ IsPending(kk, u)
                            /\ IsDelayed(km, u) <=> IsDelayed(kk, u) /\ ~ IsPending(kk, u)
                            /\ ~ IsPending(kk, u) => km.wake[u] = kk.wake[u]
    BY <1>2, <1>7 DEF SameLists, IsReady, IsDelayed, IsPending
  <2>2. /\ km.tick = kk.tick /\ km.suspended = kk.suspended \ ToSet(kk.pendingReady)
        /\ km.overflows = kk.overflows
    BY <1>2, <1>7 DEF SameLists, Calm
  <2>3. QED
    BY <1>9, <2>1, <2>2, MovedAndElapsed
<1>10. CASE AlreadyYielded(kk)
  <2> DEFINE kc == [ProcessMissedTicks(km) EXCEPT !.missedYield = FALSE]
             r == vTaskSwitchContext(kc)
  <2>1. /\ Sound(kc) /\ TimesSound(kc)
        /\ kc.schedulerSuspended = 0 /\ kc.pendingReady = <<>>
        /\ kc.missedTicks = 0 /\ kc.missedYield = FALSE
        /\ kc.priority = km.priority /\ kc.basePriority = km.basePriority
        /\ ToSet(kc.waitingTermination) = ToSet(km.waitingTermination)
        /\ Elapsed(kc, km, km.missedTicks) /\ QueuedUp(kc, km) /\ EventsFall(kc, km)
    BY <1>7, <1>8, CatchesUp
  <2>2. xTaskResumeAll(kk) = r
    BY <1>3, <1>6, <1>10
  <2> HIDE DEF kc
  <2>3. Sound(r) /\ Highest(r) /\ SwitchedTo(r, kc) /\ Rotated(r, kc)
    BY <2>1, Switches
  <2> HIDE DEF r
  <2>8. TookTurn(r, kk)
    <3>1. QueuedUp(kc, kk) /\ kc \in KernelState
      BY <1>13, <2>1, QueuedUpTrans DEF Sound
    <3>2. QED
      BY <2>1, <2>3, <3>1 DEF TookTurn
  <2>4. TimesSound(r)
    BY <2>1, <2>3 DEF TimesSound, SwitchedTo
  <2>9. EventsFall(r, kk)
    <3>1. EventsFall(kc, kk)
      BY <1>13, <2>1, EventsFallTrans
    <3>2. QED
      BY <2>3, <3>1 DEF SwitchedTo, EventsFall
  <2>5. Resumed(r, kk)
    BY <1>8, <1>10, <2>1, <2>3, <2>9 DEF Resumed, SwitchedTo
  <2>6. Elapsed(r, km, kk.missedTicks)
    <3>1. \A u \in AllTasks : /\ IsReady(r, u) <=> IsReady(kc, u)
                              /\ IsDelayed(r, u) <=> IsDelayed(kc, u)
                              /\ TicksLeft(r, u) = TicksLeft(kc, u)
      BY <2>3 DEF SwitchedTo, IsDelayed, TicksLeft
    <3>2. r.tick = kc.tick /\ r.suspended = kc.suspended /\ r.overflows = kc.overflows
      BY <2>3 DEF SwitchedTo
    <3>3. QED
      BY <1>8, <2>1, <3>1, <3>2 DEF Elapsed
  <2>7. QED
    BY <1>9, <2>2, <2>3, <2>4, <2>5, <2>6, <2>8
<1>11. CASE ~ AlreadyYielded(kk)
  <2>1. xTaskResumeAll(kk) = km
    BY <1>3, <1>6, <1>11
  <2>2. /\ ~ (kd.missedTicks > 0) /\ ~ kd.missedYield
        /\ \A u \in ToSet(kd.pendingReady) : ~ (kd.priority[u] >= kd.priority[kd.current])
    BY <1>6, <1>11 DEF ResumeNeedsYield
  <2>3. km.missedTicks = 0 /\ km.missedYield = FALSE
    <3>1. kk.missedTicks \in Nat /\ kk.missedYield \in BOOLEAN
      BY <1>1 DEF KernelState
    <3>2. QED
      BY <1>2, <1>8, <2>2, <3>1
  <2>4. \A u \in AllTasks : IsReady(kd, u) <=> IsReady(kk, u)
    BY <1>2 DEF SameLists, IsReady
  <2>5. ASSUME NEW u \in AllTasks, IsPending(kd, u)
        PROVE  kk.priority[u] < kk.priority[kk.current]
    <3>1. kk.priority[u] \in Nat /\ kk.priority[kk.current] \in Nat
      BY <1>1, FieldTypes
    <3>2. ~ (kk.priority[u] >= kk.priority[kk.current])
      BY <1>2, <2>2, <2>5 DEF IsPending, SameLists
    <3>3. QED
      BY <3>1, <3>2
  <2>6. Resumed(km, kk)
    BY <1>7, <1>8, <1>11, <1>13, <2>3, <2>4, <2>5 DEF Resumed
  <2>7. Elapsed(km, km, kk.missedTicks)
    <3>1. kk.missedTicks = 0
      BY <1>8, <2>3
    <3>2. QED
      BY <1>7, <3>1, ElapsedNone
  <2>8. TookTurn(km, kk)
    BY <1>7, <1>8, <1>13 DEF TookTurn, Sound
  <2>9. QED
    BY <1>7, <1>9, <2>1, <2>6, <2>7, <2>8
<1>12. QED
  BY <1>10, <1>11

-------------------------------------------------------------------------------
(* The times of the delayed lists, when a task leaves them or joins them *)

\* t has left the delayed lists, if it was in one.
LeftDelayed(r, kk, t) ==
  /\ r.delayed = vListRemove(kk.delayed, t)
  /\ r.overflowDelayed = vListRemove(kk.overflowDelayed, t)
  /\ r.wake = [kk.wake EXCEPT ![t] = 0]
  /\ r.nextUnblock = kk.nextUnblock /\ r.tick = kk.tick

\* A task that leaves the delayed lists leaves them sorted.
LEMMA TimesWithout ==
  ASSUME NEW kk \in KernelState, Once(kk), TimesSound(kk), NEW t \in AllTasks, NEW r,
         LeftDelayed(r, kk, t)
  PROVE  TimesSound(r)
<1>1. kk.wake \in [AllTasks -> Ticks]
  BY DEF KernelState
<1>2. \A u \in AllTasks \ {t} : r.wake[u] = kk.wake[u]
  BY <1>1 DEF LeftDelayed
<1>3. /\ kk.delayed \in Seq(AllTasks) /\ kk.overflowDelayed \in Seq(AllTasks)
      /\ IsInjective(kk.delayed) /\ IsInjective(kk.overflowDelayed)
  BY ListTypes DEF Once
<1>4. Sorted(kk.delayed, kk.wake) /\ Sorted(kk.overflowDelayed, kk.wake)
  BY DEF TimesSound
<1>5. Sorted(r.delayed, r.wake)
  <2>1. Sorted(vListRemove(kk.delayed, t), r.wake)
    BY <1>2, <1>3, <1>4, SortedWithout
  <2>2. QED
    BY <2>1 DEF LeftDelayed
<1>6. Sorted(r.overflowDelayed, r.wake)
  <2>1. Sorted(vListRemove(kk.overflowDelayed, t), r.wake)
    BY <1>2, <1>3, <1>4, SortedWithout
  <2>2. QED
    BY <2>1 DEF LeftDelayed
<1>7. /\ ToSet(r.delayed) = ToSet(kk.delayed) \ {t}
      /\ ToSet(r.overflowDelayed) = ToSet(kk.overflowDelayed) \ {t}
  BY TakenOut DEF LeftDelayed
<1>8. ToSet(kk.delayed) \subseteq AllTasks /\ ToSet(kk.overflowDelayed) \subseteq AllTasks
  BY <1>3, InList
<1>9. r.nextUnblock = kk.nextUnblock /\ r.tick = kk.tick
  BY DEF LeftDelayed
<1>10. QED
  BY <1>2, <1>5, <1>6, <1>7, <1>8, <1>9 DEF TimesSound

\* The current task, delayed to another tick than the present one, goes into the list
\* its wake time belongs to.
LEMMA TimesWith ==
  ASSUME NEW kk \in KernelState, Once(kk), TimesSound(kk), NoPlace(kk, kk.current),
         NEW w \in Ticks, w # kk.tick, NEW r, DelayedTo(r, kk, w)
  PROVE  TimesSound(r)
<1> DEFINE t == kk.current
           value == r.wake
<1>1. /\ kk.wake \in [AllTasks -> Ticks] /\ t \in AllTasks
      /\ kk.tick \in Nat /\ w \in Nat /\ kk.nextUnblock \in Nat /\ Ticks \subseteq Nat
  BY FieldTypes DEF KernelState
<1>2. value = [kk.wake EXCEPT ![t] = w] /\ r.tick = kk.tick
  BY DEF DelayedTo, Calm
<1>3. /\ value[t] = w /\ \A u \in AllTasks \ {t} : value[u] = kk.wake[u]
      /\ \A u \in AllTasks : value[u] \in Nat
  BY <1>1, <1>2
<1>4. /\ kk.delayed \in Seq(AllTasks) /\ kk.overflowDelayed \in Seq(AllTasks)
      /\ t \notin ToSet(kk.delayed) /\ t \notin ToSet(kk.overflowDelayed)
      /\ ToSet(kk.delayed) \subseteq AllTasks /\ ToSet(kk.overflowDelayed) \subseteq AllTasks
  BY ListTypes, InList DEF NoPlace
<1> HIDE DEF value
<1>5. Sorted(kk.delayed, value) /\ Sorted(kk.overflowDelayed, value)
  <2>1. /\ \A u \in ToSet(kk.delayed) : value[u] = kk.wake[u]
        /\ \A u \in ToSet(kk.overflowDelayed) : value[u] = kk.wake[u]
    BY <1>3, <1>4
  <2>2. QED
    BY <1>4, <2>1, SortedSame DEF TimesSound
<1>6. CASE w < kk.tick
  <2>1. /\ r.overflowDelayed = vListInsert(kk.overflowDelayed, t, value)
        /\ r.delayed = kk.delayed /\ r.nextUnblock = kk.nextUnblock
    BY <1>6 DEF DelayedTo, value
  <2> DEFINE list == vListInsert(kk.overflowDelayed, t, value)
  <2>2. ToSet(list) = ToSet(kk.overflowDelayed) \cup {t} /\ Sorted(list, value)
    <3> DEFINE s == kk.overflowDelayed
    <3>1. /\ s \in Seq(AllTasks) /\ t \in AllTasks /\ Sorted(s, value)
          /\ \A u \in AllTasks : value[u] \in Nat
      BY <1>1, <1>3, <1>4, <1>5
    <3> HIDE DEF s, t
    <3>2. QED
      BY <3>1, ListInsert DEF s
  <2> HIDE DEF list
  <2>3. \A u \in ToSet(r.overflowDelayed) : value[u] < kk.tick
    <3>1. ToSet(r.overflowDelayed) = ToSet(kk.overflowDelayed) \cup {t}
      BY <2>1, <2>2 DEF list
    <3>2. \A u \in ToSet(kk.overflowDelayed) : kk.wake[u] < kk.tick
      BY DEF TimesSound
    <3>3. \A u \in ToSet(kk.overflowDelayed) : value[u] < kk.tick
      BY <1>3, <1>4, <3>2
    <3>4. QED
      BY <1>3, <1>6, <3>1, <3>3
  <2>4. \A u \in ToSet(r.delayed) : value[u] > kk.tick /\ value[u] >= r.nextUnblock
    BY <1>3, <1>4, <2>1 DEF TimesSound
  <2>5. QED
    BY <1>2, <1>5, <2>1, <2>2, <2>3, <2>4 DEF TimesSound, value, list
<1>7. CASE ~ (w < kk.tick)
  <2>1. /\ r.delayed = vListInsert(kk.delayed, t, value)
        /\ r.overflowDelayed = kk.overflowDelayed
        /\ r.nextUnblock = Min({kk.nextUnblock, w})
    BY <1>7 DEF DelayedTo, value
  <2> DEFINE list == vListInsert(kk.delayed, t, value)
  <2>2. ToSet(list) = ToSet(kk.delayed) \cup {t} /\ Sorted(list, value)
    <3> DEFINE s == kk.delayed
    <3>1. /\ s \in Seq(AllTasks) /\ t \in AllTasks /\ Sorted(s, value)
          /\ \A u \in AllTasks : value[u] \in Nat
      BY <1>1, <1>3, <1>4, <1>5
    <3> HIDE DEF s, t
    <3>2. QED
      BY <3>1, ListInsert DEF s
  <2> HIDE DEF list
  <2>3. r.nextUnblock <= kk.nextUnblock /\ r.nextUnblock <= w /\ r.nextUnblock \in Nat
    BY <1>1, <2>1, MinOfTwo
  <2>4. w > kk.tick
    BY <1>1, <1>7
  <2>5. ASSUME NEW u \in ToSet(r.delayed)
        PROVE  value[u] > kk.tick /\ value[u] >= r.nextUnblock
    <3>1. CASE u = t
      BY <1>1, <1>3, <2>3, <2>4, <3>1
    <3>2. CASE u # t
      <4>1. u \in ToSet(kk.delayed) /\ value[u] = kk.wake[u] /\ value[u] \in Nat
        BY <1>3, <1>4, <2>1, <2>2, <2>5, <3>2 DEF list
      <4>2. kk.wake[u] > kk.tick /\ kk.wake[u] >= kk.nextUnblock
        BY <4>1 DEF TimesSound
      <4>3. QED
        BY <1>1, <2>3, <4>1, <4>2
    <3>3. QED
      BY <3>1, <3>2
  <2>6. \A u \in ToSet(r.overflowDelayed) : value[u] < kk.tick
    BY <1>3, <1>4, <2>1 DEF TimesSound
  <2>7. QED
    BY <1>2, <1>5, <2>1, <2>2, <2>5, <2>6 DEF TimesSound, value, list
<1>8. QED
  BY <1>6, <1>7

\* The current task blocks until w, which is not the present.
LEMMA BlocksTimes ==
  ASSUME NEW kk, NEW w \in Ticks, SoundBut(kk, kk.current), kk.current # IdleTask,
         TimesSound(kk), w # kk.tick
  PROVE  TimesSound(prvAddCurrentTaskToDelayedList(RemoveGenericItem(kk, kk.current), w))
<1> DEFINE g == RemoveGenericItem(kk, kk.current)
           r == prvAddCurrentTaskToDelayedList(g, w)
<1>1. /\ g \in KernelState /\ Once(g) /\ GenericGone(g, kk, kk.current)
      /\ NoPlace(g, kk.current) /\ DelayedTo(r, g, w)
  BY Blocks
<1> HIDE DEF g, r
<1>2. kk \in KernelState /\ Once(kk) /\ kk.current \in AllTasks
  BY FieldTypes DEF SoundBut
<1>3. g.current = kk.current /\ g.tick = kk.tick
  BY <1>1 DEF GenericGone, Calm
<1>4. TimesSound(g)
  <2>1. LeftDelayed(g, kk, kk.current)
    BY <1>1 DEF GenericGone, Calm, LeftDelayed
  <2>2. QED
    BY <1>2, <2>1, TimesWithout
<1>5. TimesSound(r)
  BY <1>1, <1>3, <1>4, TimesWith
<1>6. QED
  BY <1>5 DEF r, g

\* A wait of up to portMAX_DELAY ticks does not end in the present.
LEMMA WakeAhead ==
  ASSUME NEW now \in Ticks, NEW n \in 1 .. portMAX_DELAY
  PROVE  (now + n) % TICK_MOD \in Ticks /\ (now + n) % TICK_MOD # now
<1> DEFINE M == TICK_MOD
<1>1. M \in Nat /\ M > 2 /\ now \in 0 .. M - 1 /\ n \in 1 .. M - 1
  BY KernelAssumption DEF Ticks, portMAX_DELAY
<1> HIDE DEF M
<1>2. now + n \in Int
  BY <1>1
<1>3. CASE now + n < M
  <2>1. now + n \in Ticks
    BY <1>1, <1>3 DEF Ticks, M
  <2>2. (now + n) % TICK_MOD = now + n
    BY <1>2, <2>1, TicksWrap
  <2>3. QED
    BY <1>1, <2>1, <2>2
<1>4. CASE now + n >= M
  <2>1. now + n \in M .. 2 * M - 1
    BY <1>1, <1>4
  <2>2. (now + n) % TICK_MOD = (now + n) - M
    BY <1>2, <2>1, TicksWrap DEF M
  <2>3. (now + n) - M \in 0 .. M - 1 /\ (now + n) - M # now
    BY <1>1, <1>4
  <2>4. QED
    BY <2>2, <2>3 DEF Ticks, M
<1>5. QED
  BY <1>1, <1>2, <1>3, <1>4

\* What a task that blocks leaves as it was.
Parted(r, kk) ==
  /\ Calm(r, kk)
  /\ r.pendingReady = kk.pendingReady
  /\ \A u \in AllTasks \ {kk.current} : SamePlace(r, kk, u) /\ r.wake[u] = kk.wake[u]

\* The current task blocks until w, and the others sleep on for their own time.
LEMMA BlocksAlone ==
  ASSUME NEW kk, NEW w \in Ticks, SoundBut(kk, kk.current), kk.current # IdleTask
  PROVE  Parted(prvAddCurrentTaskToDelayedList(RemoveGenericItem(kk, kk.current), w), kk)
<1> DEFINE g == RemoveGenericItem(kk, kk.current)
           r == prvAddCurrentTaskToDelayedList(g, w)
<1>1. /\ Calm(r, kk) /\ r.pendingReady = kk.pendingReady
      /\ \A u \in AllTasks \ {kk.current} : SamePlace(r, kk, u)
      /\ GenericGone(g, kk, kk.current) /\ DelayedTo(r, g, w)
  BY Blocks
<1>2. kk.wake \in [AllTasks -> Ticks]
  BY DEF SoundBut, KernelState
<1> HIDE DEF r, g
<1>3. g.wake = [kk.wake EXCEPT ![kk.current] = 0] /\ g.current = kk.current
  BY <1>1 DEF GenericGone, Calm
<1>4. r.wake = [g.wake EXCEPT ![kk.current] = w]
  BY <1>1, <1>3 DEF DelayedTo
<1>5. \A u \in AllTasks \ {kk.current} : r.wake[u] = kk.wake[u]
  BY <1>2, <1>3, <1>4
<1>6. Parted(r, kk)
  BY <1>1, <1>5 DEF Parted
<1>7. QED
  BY <1>6 DEF r, g

\* The current task blocks for a number of ticks that may wrap.
LEMMA BlocksFor ==
  ASSUME NEW kk, NEW n \in 1 .. portMAX_DELAY, SoundBut(kk, kk.current),
         kk.current # IdleTask, TimesSound(kk)
  PROVE  LET r == BlockCurrentFor(kk, n)
         IN  Sound(r) /\ TimesSound(r) /\ Parted(r, kk) /\ r.event = kk.event
<1> DEFINE w == (kk.tick + n) % TICK_MOD
           g == RemoveGenericItem(kk, kk.current)
           r == prvAddCurrentTaskToDelayedList(g, w)
<1>1. kk.tick \in Ticks
  BY FieldTypes DEF SoundBut
<1>2. w \in Ticks /\ w # kk.tick
  BY <1>1, WakeAhead
<1>3. BlockCurrentFor(kk, n) = r
  BY DEF BlockCurrentFor
<1> HIDE DEF w
<1>4. Sound(r) /\ Parted(r, kk) /\ r.event = kk.event
  BY <1>2, Blocks, BlocksAlone
<1>5. TimesSound(r)
  BY <1>2, BlocksTimes
<1>6. QED
  BY <1>3, <1>4, <1>5

-------------------------------------------------------------------------------
(* Event lists *)

\* A ready task waits for no event.
LEMMA ReadyNoEvent ==
  ASSUME NEW kk, Sound(kk), NEW t \in AllTasks, IsReady(kk, t)
  PROVE  NoEvent(kk, t)
<1>1. ~ IsDelayed(kk, t) /\ t \notin kk.suspended
  BY DEF Sound, InPlace
<1>2. ~ IsWaiting(kk, t) /\ ~ IsPending(kk, t)
  BY <1>1 DEF Sound, InPlace
<1>3. QED
  BY <1>2 DEF IsWaiting, IsPending, NoEvent

\* The current task is in event list e; nothing else happens to the event lists.
Joins(r, kk, e) ==
  \A f \in EventLists :
    ToSet(r.event[f]) = ToSet(kk.event[f]) \cup (IF f = e THEN {kk.current} ELSE {})

\* The current task's event item, in the order of priorities.
LEMMA PutsOnEventList ==
  ASSUME NEW kk, Sound(kk), NEW e \in EventLists, IsReady(kk, kk.current)
  PROVE  LET r == [kk EXCEPT !.event[e] = vListInsert(@, kk.current, kk.eventValue)]
         IN  /\ SoundBut(r, kk.current) /\ Calm(r, kk)
             /\ r.pendingReady = kk.pendingReady
             /\ r.delayed = kk.delayed /\ r.overflowDelayed = kk.overflowDelayed
             /\ r.wake = kk.wake /\ r.nextUnblock = kk.nextUnblock
             /\ \A u \in AllTasks : SamePlace(r, kk, u)
             /\ Joins(r, kk, e)
<1> DEFINE t == kk.current
           list == vListInsert(kk.event[e], t, kk.eventValue)
           r == [kk EXCEPT !.event[e] = vListInsert(@, t, kk.eventValue)]
<1>1. /\ kk \in KernelState /\ t \in AllTasks /\ kk.event[e] \in Seq(AllTasks)
      /\ IsInjective(kk.event[e])
      /\ \A u \in AllTasks : kk.eventValue[u] \in Nat
  <2>1. kk \in KernelState /\ IsInjective(kk.event[e])
    BY DEF Sound, Once
  <2>2. \A u \in AllTasks : kk.eventValue[u] \in 0 .. MAX_PRIORITIES
    BY <2>1 DEF KernelState
  <2>3. QED
    BY <2>1, <2>2, ListTypes, FieldTypes
<1>2. NoEvent(kk, t)
  BY <1>1, ReadyNoEvent
<1>3. /\ list \in Seq(AllTasks) /\ IsInjective(list) /\ ToSet(list) = ToSet(kk.event[e]) \cup {t}
  <2>1. t \notin ToSet(kk.event[e])
    BY <1>2 DEF NoEvent
  <2>2. QED
    BY <1>1, <2>1, ListInsert
<1>4. r = [kk EXCEPT !.event = [kk.event EXCEPT ![e] = list]]
  BY <1>1 DEF KernelState
<1> HIDE DEF list
<1>5. [kk.event EXCEPT ![e] = list] \in [EventLists -> Seq(AllTasks)]
  BY <1>1, <1>3 DEF KernelState
<1> HIDE DEF r
<1>6. /\ r \in KernelState /\ Calm(r, kk)
      /\ r.ready = kk.ready /\ r.suspended = kk.suspended
      /\ r.waitingTermination = kk.waitingTermination /\ r.topReady = kk.topReady
      /\ r.pendingReady = kk.pendingReady
      /\ r.delayed = kk.delayed /\ r.overflowDelayed = kk.overflowDelayed
      /\ r.wake = kk.wake /\ r.nextUnblock = kk.nextUnblock
      /\ r.event = [kk.event EXCEPT ![e] = list]
  BY <1>1, <1>4, <1>5 DEF KernelState, Calm
<1>7. \A f \in EventLists : r.event[f] = IF f = e THEN list ELSE kk.event[f]
  BY <1>1, <1>6 DEF KernelState
<1>8. \A u \in AllTasks : SamePlace(r, kk, u)
  BY <1>6 DEF SamePlace, Calm
<1>9. \A u \in AllTasks \ {t} : SameEvent(r, kk, u)
  BY <1>3, <1>6, <1>7 DEF SameEvent
<1>10. \A u \in AllTasks \ {t} : InPlace(r, u)
  BY <1>1, <1>8, <1>9, PlaceKept DEF Sound
<1>11. Once(r)
  BY <1>3, <1>6, <1>7 DEF Sound, Once
<1>12. TopKnown(r)
  BY <1>6 DEF Sound, TopKnown
<1>13. EventOnce(r, t)
  <2>1. t \notin ToSet(r.pendingReady)
    BY <1>2, <1>6 DEF NoEvent
  <2>2. \A f \in EventLists : t \in ToSet(r.event[f]) => f = e
    BY <1>2, <1>7 DEF NoEvent
  <2>3. QED
    BY <2>1, <2>2 DEF EventOnce, IsPending
<1>14. SoundBut(r, t)
  BY <1>6, <1>10, <1>11, <1>12, <1>13 DEF SoundBut
<1>16. Joins(r, kk, e)
  BY <1>3, <1>7 DEF Joins
<1>15. QED
  BY <1>6, <1>8, <1>14, <1>16 DEF r

LEMMA SamePlaceSubset ==
  ASSUME NEW r, NEW kk, NEW ke, NEW t, \A u \in AllTasks : SamePlace(ke, kk, u),
         \A u \in AllTasks \ {t} : SamePlace(r, ke, u)
  PROVE  \A u \in AllTasks \ {t} : SamePlace(r, kk, u)
<1> TAKE u \in AllTasks \ {t}
<1>1. SamePlace(ke, kk, u) /\ SamePlace(r, ke, u)
  OBVIOUS
<1>2. QED
  BY <1>1, SamePlaceTrans

\* vTaskPlaceOnEventList: the current task waits, for a time or for ever.
LEMMA PlacesOnEventList ==
  ASSUME NEW kk, Sound(kk), TimesSound(kk), NEW e \in EventLists,
         NEW n \in 1 .. portMAX_DELAY, IsReady(kk, kk.current), kk.current # IdleTask
  PROVE  LET r == vTaskPlaceOnEventList(kk, e, n)
         IN  Sound(r) /\ TimesSound(r) /\ Parted(r, kk) /\ Joins(r, kk, e)
<1> DEFINE t == kk.current
           ke == [kk EXCEPT !.event[e] = vListInsert(@, t, kk.eventValue)]
           r == vTaskPlaceOnEventList(kk, e, n)
<1>1. /\ SoundBut(ke, t) /\ Calm(ke, kk) /\ ke.pendingReady = kk.pendingReady
      /\ ke.delayed = kk.delayed /\ ke.overflowDelayed = kk.overflowDelayed
      /\ ke.wake = kk.wake /\ ke.nextUnblock = kk.nextUnblock
      /\ \A u \in AllTasks : SamePlace(ke, kk, u)
      /\ Joins(ke, kk, e)
  BY PutsOnEventList
<1>2. r = IF n = portMAX_DELAY
          THEN [RemoveGenericItem(ke, t) EXCEPT !.suspended = @ \cup {t}]
          ELSE BlockCurrentFor(ke, n)
  BY DEF vTaskPlaceOnEventList
<1> HIDE DEF ke, r
<1>3. ke.current = t /\ ke.tick = kk.tick
  BY <1>1 DEF Calm
<1>4. TimesSound(ke)
  BY <1>1, <1>3 DEF TimesSound
<1>5. ke \in KernelState /\ Once(ke) /\ t \in AllTasks
  <2>1. ke \in KernelState /\ Once(ke)
    BY <1>1 DEF SoundBut
  <2>2. ke.current \in AllTasks
    BY <2>1, FieldTypes
  <2>3. QED
    BY <1>3, <2>1, <2>2
<1>6. CASE n = portMAX_DELAY
  <2>1. /\ Sound(r) /\ SuspendedTo(r, ke, t) /\ r.pendingReady = ke.pendingReady
        /\ r.event = ke.event
    BY <1>1, <1>2, <1>5, <1>6, Suspends
  <2>2. LeftDelayed(r, ke, t)
    BY <2>1 DEF SuspendedTo, LeftDelayed, Calm
  <2>3. TimesSound(r)
    BY <1>4, <1>5, <2>2, TimesWithout
  <2>4. Calm(r, ke) /\ \A u \in AllTasks \ {t} : SamePlace(r, ke, u)
    BY <2>1 DEF SuspendedTo
  <2>5. Calm(r, kk) /\ \A u \in AllTasks \ {t} : SamePlace(r, kk, u)
    BY <1>1, <2>4, CalmTrans, SamePlaceSubset
  <2>6. \A u \in AllTasks \ {t} : r.wake[u] = kk.wake[u]
    <3>1. kk.wake \in [AllTasks -> Ticks]
      BY DEF Sound, KernelState
    <3>2. r.wake = [kk.wake EXCEPT ![t] = 0]
      BY <1>1, <2>1 DEF SuspendedTo
    <3>3. QED
      BY <3>1, <3>2
  <2>8. Joins(r, kk, e)
    BY <1>1, <2>1 DEF Joins
  <2>7. QED
    BY <1>1, <2>1, <2>3, <2>5, <2>6, <2>8 DEF Parted, r
<1>7. CASE n # portMAX_DELAY
  <2>1. r = BlockCurrentFor(ke, n)
    BY <1>2, <1>7
  <2>2. Sound(r) /\ TimesSound(r) /\ Parted(r, ke) /\ r.event = ke.event
    BY <1>1, <1>3, <1>4, <2>1, BlocksFor
  <2>6. Joins(r, kk, e)
    BY <1>1, <2>2 DEF Joins
  <2>3. Calm(r, ke) /\ r.pendingReady = ke.pendingReady
        /\ \A u \in AllTasks \ {t} : SamePlace(r, ke, u) /\ r.wake[u] = kk.wake[u]
    BY <1>1, <1>3, <2>2 DEF Parted
  <2>4. Calm(r, kk) /\ \A u \in AllTasks \ {t} : SamePlace(r, kk, u)
    BY <1>1, <2>3, CalmTrans, SamePlaceSubset
  <2>5. QED
    BY <1>1, <2>2, <2>3, <2>4, <2>6 DEF Parted, r
<1>8. QED
  BY <1>6, <1>7

\* A blocked task that was woken while the scheduler is suspended is put off.
LEMMA AddsPending ==
  ASSUME NEW kk, Sound(kk), NEW t \in AllTasks, NoEvent(kk, t),
         IsDelayed(kk, t) \/ t \in kk.suspended
  PROVE  LET r == [kk EXCEPT !.pendingReady = vListInsertEnd(@, t)]
         IN  /\ Sound(r) /\ Calm(r, kk)
             /\ r.delayed = kk.delayed /\ r.overflowDelayed = kk.overflowDelayed
             /\ r.wake = kk.wake /\ r.nextUnblock = kk.nextUnblock
             /\ r.waitingTermination = kk.waitingTermination
             /\ ToSet(r.pendingReady) = ToSet(kk.pendingReady) \cup {t}
             /\ r.event = kk.event
             /\ \A u \in AllTasks : SamePlace(r, kk, u)
<1> DEFINE list == vListInsertEnd(kk.pendingReady, t)
           r == [kk EXCEPT !.pendingReady = vListInsertEnd(@, t)]
<1>1. /\ kk \in KernelState /\ kk.pendingReady \in Seq(AllTasks)
      /\ IsInjective(kk.pendingReady) /\ t \notin ToSet(kk.pendingReady)
  BY ListTypes DEF Sound, Once, NoEvent
<1>2. /\ list \in Seq(AllTasks) /\ IsInjective(list)
      /\ ToSet(list) = ToSet(kk.pendingReady) \cup {t}
  BY <1>1, ListInsertEnd
<1>3. r = [kk EXCEPT !.pendingReady = list]
  BY <1>1 DEF KernelState
<1> HIDE DEF list, r
<1>4. /\ r \in KernelState /\ Calm(r, kk)
      /\ r.ready = kk.ready /\ r.suspended = kk.suspended
      /\ r.waitingTermination = kk.waitingTermination /\ r.topReady = kk.topReady
      /\ r.event = kk.event /\ r.pendingReady = list
      /\ r.delayed = kk.delayed /\ r.overflowDelayed = kk.overflowDelayed
      /\ r.wake = kk.wake /\ r.nextUnblock = kk.nextUnblock
  BY <1>1, <1>2, <1>3 DEF KernelState, Calm
<1>5. \A u \in AllTasks : SamePlace(r, kk, u)
  BY <1>4 DEF SamePlace, Calm
<1>6. \A u \in AllTasks \ {t} : SameEvent(r, kk, u)
  BY <1>2, <1>4 DEF SameEvent
<1>7. Once(r) /\ TopKnown(r)
  BY <1>2, <1>4 DEF Sound, Once, TopKnown
<1>8. InPlace(r, t)
  <2>1. InPlace(kk, t)
    BY DEF Sound
  <2>2. /\ IsReady(r, t) <=> IsReady(kk, t)
        /\ IsDelayed(r, t) <=> IsDelayed(kk, t)
        /\ r.priority = kk.priority
    BY <1>4 DEF IsReady, IsDelayed, Calm
  <2>3. ~ IsWaiting(r, t) /\ \A f \in EventLists : t \notin ToSet(r.event[f])
    BY <1>4 DEF NoEvent, IsWaiting
  <2>4. IsDelayed(r, t) \/ t \in r.suspended
    BY <1>4, <2>2
  <2>5. QED
    BY <1>4, <2>1, <2>2, <2>3, <2>4 DEF InPlace
<1>9. \A u \in AllTasks \ {t} : InPlace(kk, u)
  BY DEF Sound
<1>10. Sound(r)
  BY <1>1, <1>4, <1>5, <1>6, <1>7, <1>8, <1>9, SoundAgain
<1>11. QED
  BY <1>2, <1>4, <1>5, <1>10 DEF r

\* A task taken off its event list keeps its other place.
LEMMA EventItemOut ==
  ASSUME NEW kk, Sound(kk), NEW t \in AllTasks
  PROVE  LET r == RemoveEventItem(kk, t)
         IN  /\ Sound(r) /\ Calm(r, kk) /\ NoEvent(r, t)
             /\ r.delayed = kk.delayed /\ r.overflowDelayed = kk.overflowDelayed
             /\ r.wake = kk.wake /\ r.nextUnblock = kk.nextUnblock
             /\ r.suspended = kk.suspended
             /\ r.waitingTermination = kk.waitingTermination
             /\ ToSet(r.pendingReady) = ToSet(kk.pendingReady) \ {t}
             /\ EventsFall(r, kk)
             /\ \A u \in AllTasks : SamePlace(r, kk, u)
<1> DEFINE r == RemoveEventItem(kk, t)
<1>1. kk \in KernelState /\ Once(kk)
  BY DEF Sound
<1>2. /\ r \in KernelState /\ Once(r) /\ EventGone(r, kk, t) /\ NoEvent(r, t)
      /\ \A u \in AllTasks : SamePlace(r, kk, u)
      /\ \A u \in AllTasks \ {t} : SameEvent(r, kk, u)
  BY <1>1, RemovesEvent
<1> HIDE DEF r
<1>3. TopKnown(r)
  BY <1>2 DEF EventGone, Sound, TopKnown
<1>4. InPlace(r, t)
  <2>1. InPlace(kk, t)
    BY DEF Sound
  <2>2. /\ IsReady(r, t) <=> IsReady(kk, t)
        /\ IsDelayed(r, t) <=> IsDelayed(kk, t)
        /\ r.priority = kk.priority
    BY <1>2 DEF IsReady, IsDelayed, EventGone, Calm
  <2>3. EventOnce(r, t) /\ ~ IsWaiting(r, t) /\ ~ IsPending(r, t)
    BY <1>2, NoEventOnce
  <2>4. /\ r.ready = kk.ready /\ r.delayed = kk.delayed /\ r.overflowDelayed = kk.overflowDelayed
        /\ r.suspended = kk.suspended /\ r.waitingTermination = kk.waitingTermination
    BY <1>2 DEF EventGone
  <2>5. /\ \A p \in Priorities : t \in ToSet(r.ready[p]) => r.priority[t] = p
        /\ IsReady(r, t) => ~ IsDelayed(r, t) /\ t \notin r.suspended
        /\ t \in ToSet(r.delayed) => t \notin ToSet(r.overflowDelayed)
        /\ IsDelayed(r, t) => t \notin r.suspended
        /\ t \in ToSet(r.waitingTermination) =>
             ~ IsReady(r, t) /\ ~ IsDelayed(r, t) /\ t \notin r.suspended
    BY <2>1, <2>2, <2>4 DEF InPlace
  <2>6. \A e, f \in EventLists : t \in ToSet(r.event[e]) /\ t \in ToSet(r.event[f]) => e = f
    BY <2>3 DEF EventOnce
  <2>7. QED
    BY <2>3, <2>5, <2>6 DEF InPlace
<1>5. \A u \in AllTasks \ {t} : InPlace(kk, u)
  BY DEF Sound
<1>6. Sound(r)
  BY <1>1, <1>2, <1>3, <1>4, <1>5, SoundAgain
<1>7. ToSet(r.pendingReady) = ToSet(kk.pendingReady) \ {t}
  <2>1. r.pendingReady = vListRemove(kk.pendingReady, t)
    BY <1>2 DEF EventGone
  <2>2. ToSet(vListRemove(kk.pendingReady, t)) = ToSet(kk.pendingReady) \ {t}
    BY <1>1, TakenOut
  <2>3. QED
    BY <2>1, <2>2
<1>9. EventsFall(r, kk)
  <2>1. ASSUME NEW e \in EventLists PROVE ToSet(r.event[e]) \subseteq ToSet(kk.event[e])
    <3>1. kk.event[e] \in Seq(AllTasks) /\ IsInjective(kk.event[e])
      BY <1>1, ListTypes DEF Once
    <3>2. r.event[e] = vListRemove(kk.event[e], t)
      BY <1>2 DEF EventGone
    <3>3. QED
      BY <3>1, <3>2, ListRemove
  <2>2. QED
    BY <2>1 DEF EventsFall
<1>8. QED
  BY <1>2, <1>6, <1>7, <1>9 DEF r, EventGone

\* A task in the event list is blocked.
LEMMA WaitingIsBlocked ==
  ASSUME NEW kk, Sound(kk), NEW e \in EventLists, kk.event[e] # <<>>
  PROVE  LET t == Head(kk.event[e])
         IN  /\ t \in AllTasks /\ ~ IsReady(kk, t)
             /\ t \notin ToSet(kk.waitingTermination)
             /\ IsDelayed(kk, t) \/ t \in kk.suspended
<1> DEFINE t == Head(kk.event[e])
<1>1. kk \in KernelState /\ kk.event[e] \in Seq(AllTasks)
  BY ListTypes DEF Sound
<1>2. t \in ToSet(kk.event[e]) /\ t \in AllTasks
  BY <1>1, InList
<1> HIDE DEF t
<1>3. IsWaiting(kk, t)
  BY <1>2 DEF IsWaiting
<1>4. IsDelayed(kk, t) \/ t \in kk.suspended
  BY <1>2, <1>3 DEF Sound, InPlace
<1>5. ~ IsReady(kk, t) /\ t \notin ToSet(kk.waitingTermination)
  BY <1>2, <1>4 DEF Sound, InPlace
<1>6. QED
  BY <1>2, <1>4, <1>5 DEF t

\* What a wake-up leaves as it was.
Unblocked(r, kk, t) ==
  /\ Calm(r, kk)
  /\ ToSet(r.waitingTermination) = ToSet(kk.waitingTermination)
  /\ kk.schedulerSuspended = 0 =>
       /\ kk.pendingReady = <<>> => r.pendingReady = <<>>
       /\ \A u \in AllTasks : IsReady(r, u) <=> IsReady(kk, u) \/ u = t
  /\ kk.schedulerSuspended # 0 => \A u \in AllTasks : IsReady(r, u) <=> IsReady(kk, u)

\* What a wake-up does while the scheduler is suspended: the task is pending too.
PutOff(r, kk, t) ==
  /\ Calm(r, kk) /\ EventsFall(r, kk)
  /\ r.wake = kk.wake
  /\ ToSet(r.pendingReady) = ToSet(kk.pendingReady) \cup {t}
  /\ \A u \in AllTasks : SamePlace(r, kk, u)

\* xTaskRemoveFromEventList: the first of the list is unblocked, or
\* pending while the scheduler is suspended.
LEMMA RemovesFromEventList ==
  ASSUME NEW kk, Sound(kk), TimesSound(kk), NEW e \in EventLists, kk.event[e] # <<>>
  PROVE  LET r == xTaskRemoveFromEventList(kk, e)
         IN  /\ Sound(r) /\ TimesSound(r) /\ Unblocked(r, kk, Head(kk.event[e]))
             /\ kk.schedulerSuspended = 0 => Woken(r, kk, {Head(kk.event[e])})
             /\ kk.schedulerSuspended # 0 => PutOff(r, kk, Head(kk.event[e]))
<1> DEFINE t == Head(kk.event[e])
           r == xTaskRemoveFromEventList(kk, e)
           kr == RemoveEventItem(kk, t)
<1>1. /\ t \in AllTasks /\ ~ IsReady(kk, t) /\ t \notin ToSet(kk.waitingTermination)
      /\ IsDelayed(kk, t) \/ t \in kk.suspended
  BY WaitingIsBlocked
<1>2. kk \in KernelState /\ Once(kk)
  BY DEF Sound
<1>3. r = IF kk.schedulerSuspended = 0 THEN WakeUp(kk, t)
          ELSE [kr EXCEPT !.pendingReady = vListInsertEnd(@, t)]
  BY DEF xTaskRemoveFromEventList, WakeUp
<1> HIDE DEF t, r
<1>4. CASE kk.schedulerSuspended = 0
  <2>1. Sound(r) /\ Woken(r, kk, {t})
    BY <1>1, <1>3, <1>4, WokenOne
  <2>2. TimesSound(r)
    BY <1>2, <2>1, WokenTimes
  <2>3. ToSet(r.waitingTermination) = ToSet(kk.waitingTermination)
    BY <1>1, <2>1 DEF Woken
  <2>4. ASSUME kk.pendingReady = <<>> PROVE r.pendingReady = <<>>
    <3>1. ToSet(r.pendingReady) = {}
      BY <2>1, <2>4, EmptySorted DEF Woken
    <3>2. QED
      BY <2>1, <3>1, ListTypes, InList DEF Sound
  <2>5. Unblocked(r, kk, t)
    BY <1>4, <2>1, <2>3, <2>4 DEF Unblocked, Woken
  <2>6. QED
    BY <1>4, <2>1, <2>2, <2>5 DEF r, t
<1>5. CASE kk.schedulerSuspended # 0
  <2>1. /\ Sound(kr) /\ Calm(kr, kk) /\ NoEvent(kr, t)
        /\ kr.delayed = kk.delayed /\ kr.overflowDelayed = kk.overflowDelayed
        /\ kr.wake = kk.wake /\ kr.nextUnblock = kk.nextUnblock
        /\ kr.suspended = kk.suspended
        /\ kr.waitingTermination = kk.waitingTermination
        /\ ToSet(kr.pendingReady) = ToSet(kk.pendingReady) \ {t}
        /\ EventsFall(kr, kk)
        /\ \A u \in AllTasks : SamePlace(kr, kk, u)
    BY <1>1, EventItemOut
  <2>2. r = [kr EXCEPT !.pendingReady = vListInsertEnd(@, t)]
    BY <1>3, <1>5
  <2> HIDE DEF kr
  <2>3. IsDelayed(kr, t) \/ t \in kr.suspended
    BY <1>1, <2>1 DEF IsDelayed
  <2>4. /\ Sound(r) /\ Calm(r, kr)
        /\ r.delayed = kr.delayed /\ r.overflowDelayed = kr.overflowDelayed
        /\ r.wake = kr.wake /\ r.nextUnblock = kr.nextUnblock
        /\ r.waitingTermination = kr.waitingTermination
        /\ ToSet(r.pendingReady) = ToSet(kr.pendingReady) \cup {t}
        /\ r.event = kr.event
        /\ \A u \in AllTasks : SamePlace(r, kr, u)
    BY <1>1, <2>1, <2>2, <2>3, AddsPending
  <2>5. Calm(r, kk)
    BY <2>1, <2>4, CalmTrans
  <2>6. TimesSound(r)
    BY <2>1, <2>4, <2>5 DEF TimesSound, Calm
  <2>7. \A u \in AllTasks : IsReady(r, u) <=> IsReady(kk, u)
    <3> TAKE u \in AllTasks
    <3>1. kr \in KernelState
      BY <2>1 DEF Sound
    <3>2. QED
      BY <1>2, <2>1, <2>4, <3>1, SameReady
  <2>8. Unblocked(r, kk, t)
    BY <1>5, <2>1, <2>4, <2>5, <2>7 DEF Unblocked
  <2>9. PutOff(r, kk, t)
    <3>1. \A u \in AllTasks : SamePlace(r, kk, u)
      BY <2>1, <2>4, SamePlaceTrans
    <3>2. ToSet(r.pendingReady) = ToSet(kk.pendingReady) \cup {t} /\ r.wake = kk.wake
      BY <2>1, <2>4
    <3>4. EventsFall(r, kk)
      BY <2>1, <2>4 DEF EventsFall
    <3>3. QED
      BY <2>5, <3>1, <3>2, <3>4 DEF PutOff
  <2>10. QED
    BY <1>5, <2>4, <2>6, <2>8, <2>9 DEF r, t
<1>6. QED
  BY <1>4, <1>5

-------------------------------------------------------------------------------
(* Suspended tasks, creation, reports *)

\* vTaskResume, and xTaskResumeFromISR with the scheduler running.
LEMMA ResumesTask ==
  ASSUME NEW kk, Sound(kk), TimesSound(kk), NEW t \in AllTasks \ {IdleTask},
         xTaskIsTaskSuspended(kk, t)
  PROVE  LET r == MoveToReady(kk, t)
         IN  /\ Sound(r) /\ TimesSound(r) /\ Calm(r, kk) /\ Moved(r, kk, t)
             /\ r.pendingReady = kk.pendingReady
             /\ ToSet(r.waitingTermination) = ToSet(kk.waitingTermination)
             /\ \A u \in AllTasks : IsReady(r, u) <=> IsReady(kk, u) \/ u = t
<1> DEFINE r == MoveToReady(kk, t)
<1>1. NoEvent(kk, t) /\ t \in kk.suspended
  BY DEF xTaskIsTaskSuspended, NoEvent, IsPending, IsWaiting
<1>2. kk \in KernelState /\ Once(kk) /\ SoundBut(kk, t)
  BY SoundIsSoundBut DEF Sound
<1>3. Sound(r) /\ Moved(r, kk, t) /\ r.pendingReady = kk.pendingReady
  BY <1>1, <1>2, MovesToReady
<1> HIDE DEF r
<1>4. LeftDelayed(r, kk, t) /\ Calm(r, kk)
  BY <1>3 DEF Moved, LeftDelayed, Calm
<1>5. TimesSound(r)
  BY <1>2, <1>4, TimesWithout
<1>6. t \notin ToSet(kk.waitingTermination)
  BY <1>1 DEF Sound, InPlace
<1>7. ToSet(r.waitingTermination) = ToSet(kk.waitingTermination)
  <2>1. r.waitingTermination = vListRemove(kk.waitingTermination, t)
    BY <1>3 DEF Moved
  <2>2. ToSet(vListRemove(kk.waitingTermination, t)) = ToSet(kk.waitingTermination) \ {t}
    BY <1>2, TakenOut
  <2>3. QED
    BY <1>6, <2>1, <2>2
<1>8. \A u \in AllTasks : IsReady(r, u) <=> IsReady(kk, u) \/ u = t
  <2>1. \A u \in AllTasks \ {t} : IsReady(r, u) <=> IsReady(kk, u)
    BY <1>2, <1>3, SameReady DEF Moved
  <2>2. QED
    BY <1>3, <2>1 DEF Moved
<1>9. QED
  BY <1>3, <1>4, <1>5, <1>7, <1>8 DEF r

\* A task that does not exist is nowhere.
LEMMA ExistsSomewhere ==
  ASSUME NEW kk, NEW t
  PROVE  t \in Existing(kk) <=> ~ NoPlace(kk, t)
<1> DEFINE Lists == {ToSet(kk.ready[p]) : p \in Priorities}
<1>1. t \in UNION Lists <=> \E p \in Priorities : t \in ToSet(kk.ready[p])
  <2>1. t \in UNION Lists <=> \E l \in Lists : t \in l
    <3> HIDE DEF Lists
    <3> QED
      OBVIOUS
  <2>2. (\E l \in Lists : t \in l) <=> \E p \in Priorities : t \in ToSet(kk.ready[p])
    BY Zenon
  <2>3. QED
    BY <2>1, <2>2
<1> HIDE DEF Lists
<1>2. Existing(kk) = (UNION Lists) \cup ToSet(kk.delayed) \cup ToSet(kk.overflowDelayed)
                       \cup kk.suspended \cup ToSet(kk.waitingTermination)
  BY DEF Existing, Lists
<1>3. QED
  BY <1>1, <1>2 DEF NoPlace

LEMMA NoPlaceNoEvent ==
  ASSUME NEW kk, NEW t, InPlace(kk, t), NoPlace(kk, t)
  PROVE  NoEvent(kk, t)
<1>1. ~ IsDelayed(kk, t) /\ t \notin kk.suspended
  BY DEF NoPlace, IsDelayed
<1>2. QED
  BY <1>1 DEF InPlace, NoEvent, IsWaiting, IsPending

\* The task control block of a new task.
Initialised(r, kk, t, p) ==
  /\ r.priority = [kk.priority EXCEPT ![t] = p]
  /\ r.basePriority = [kk.basePriority EXCEPT ![t] = p]
  /\ r.ready = kk.ready /\ r.topReady = kk.topReady
  /\ r.delayed = kk.delayed /\ r.overflowDelayed = kk.overflowDelayed
  /\ r.suspended = kk.suspended /\ r.waitingTermination = kk.waitingTermination
  /\ r.event = kk.event /\ r.pendingReady = kk.pendingReady
  /\ r.wake = kk.wake /\ r.nextUnblock = kk.nextUnblock
  /\ r.current = kk.current /\ r.tick = kk.tick /\ r.overflows = kk.overflows
  /\ r.schedulerSuspended = kk.schedulerSuspended
  /\ r.missedTicks = kk.missedTicks /\ r.missedYield = kk.missedYield

\* prvInitialiseTCBVariables changes nothing but the task's numbers.
LEMMA InitialisesTask ==
  ASSUME NEW kk \in KernelState, NEW t \in AllTasks, NEW p \in Priorities
  PROVE  LET r == InitialiseTask(kk, t, p)
         IN  r \in KernelState /\ Initialised(r, kk, t, p)
<1> DEFINE kp == SetPriority(kk, t, p)
           kb == [kp EXCEPT !.basePriority[t] = p]
           r == SetEventValue(kb, t, p)
<1>1. MAX_PRIORITIES - p \in 0 .. MAX_PRIORITIES
  BY KernelAssumption DEF Priorities
<1>2. /\ kp \in KernelState
      /\ kp = [kk EXCEPT !.priority = [kk.priority EXCEPT ![t] = p]]
  BY DEF SetPriority, KernelState
<1>3. /\ kb \in KernelState
      /\ kb = [kk EXCEPT !.priority = [kk.priority EXCEPT ![t] = p],
                         !.basePriority = [kk.basePriority EXCEPT ![t] = p]]
  <2> HIDE DEF kp
  <2>1. kb = [kp EXCEPT !.basePriority = [kp.basePriority EXCEPT ![t] = p]]
    BY <1>2 DEF KernelState
  <2>2. kp.basePriority = kk.basePriority
    BY <1>2 DEF KernelState
  <2>3. QED
    BY <1>2, <2>1, <2>2 DEF KernelState
<1> HIDE DEF kp, kb
<1>4. r = [kb EXCEPT !.eventValue = [kb.eventValue EXCEPT ![t] = MAX_PRIORITIES - p]]
  BY <1>3 DEF SetEventValue, KernelState
<1>5. [kb.eventValue EXCEPT ![t] = MAX_PRIORITIES - p] \in [AllTasks -> 0 .. MAX_PRIORITIES]
  BY <1>1, <1>3 DEF KernelState
<1>6. InitialiseTask(kk, t, p) = r
  BY DEF InitialiseTask, kp, kb
<1> HIDE DEF r
<1>7. r \in KernelState
  BY <1>3, <1>4, <1>5 DEF KernelState
<1>8. Initialised(r, kb, t, p)
  BY <1>3, <1>4 DEF KernelState, Initialised
<1>9. Initialised(r, kk, t, p)
  BY <1>3, <1>8 DEF KernelState, Initialised
<1>10. QED
  BY <1>6, <1>7, <1>9

LEMMA NewSame ==
  ASSUME NEW kk \in KernelState, NEW t \in AllTasks, NEW p \in Priorities, NEW u \in AllTasks \ {t}
  PROVE  SamePlace(InitialiseTask(kk, t, p), kk, u) /\ SameEvent(InitialiseTask(kk, t, p), kk, u)
<1> DEFINE r == InitialiseTask(kk, t, p)
<1>1. Initialised(r, kk, t, p)
  BY InitialisesTask
<1>2. kk.priority \in [AllTasks -> Priorities]
  BY DEF KernelState
<1> HIDE DEF r
<1>3. SamePlace(r, kk, u) /\ SameEvent(r, kk, u)
  BY <1>1, <1>2 DEF SamePlace, SameEvent, Initialised
<1>4. QED
  BY <1>3 DEF r

\* A new task is ready, in the list of its priority.
Created(r, kk, t, p) ==
  /\ r.priority = [kk.priority EXCEPT ![t] = p]
  /\ r.basePriority = [kk.basePriority EXCEPT ![t] = p]
  /\ r.delayed = kk.delayed /\ r.overflowDelayed = kk.overflowDelayed
  /\ r.suspended = kk.suspended /\ r.waitingTermination = kk.waitingTermination
  /\ r.event = kk.event /\ r.pendingReady = kk.pendingReady
  /\ r.wake = kk.wake /\ r.nextUnblock = kk.nextUnblock
  /\ r.current = kk.current /\ r.tick = kk.tick /\ r.overflows = kk.overflows
  /\ r.schedulerSuspended = kk.schedulerSuspended
  /\ r.missedTicks = kk.missedTicks /\ r.missedYield = kk.missedYield
  /\ r.topReady >= kk.topReady /\ r.topReady >= p
  /\ \A q \in Priorities : r.ready[q] = IF q = p THEN Append(kk.ready[q], t) ELSE kk.ready[q]
  /\ \A u \in AllTasks : IsReady(r, u) <=> IsReady(kk, u) \/ u = t

\* uxTopUsedPriority is beside all the rest: nothing but vTaskList reads it.
SameButUsed(n, r) ==
  /\ n.ready = r.ready /\ n.delayed = r.delayed /\ n.overflowDelayed = r.overflowDelayed
  /\ n.suspended = r.suspended /\ n.waitingTermination = r.waitingTermination
  /\ n.event = r.event /\ n.pendingReady = r.pendingReady
  /\ n.priority = r.priority /\ n.basePriority = r.basePriority
  /\ n.wake = r.wake /\ n.eventValue = r.eventValue /\ n.current = r.current
  /\ n.topReady = r.topReady /\ n.tick = r.tick /\ n.overflows = r.overflows
  /\ n.nextUnblock = r.nextUnblock /\ n.schedulerSuspended = r.schedulerSuspended
  /\ n.missedTicks = r.missedTicks /\ n.missedYield = r.missedYield

LEMMA UsedAside ==
  ASSUME NEW r \in KernelState, NEW p \in Priorities
  PROVE  LET n == [r EXCEPT !.topUsed = Max({@, p})]
         IN  n \in KernelState /\ SameButUsed(n, r)
<1> DEFINE v == Max({r.topUsed, p})
           n == [r EXCEPT !.topUsed = v]
<1>1. v \in Priorities
  <2>1. r.topUsed \in Priorities /\ Priorities \subseteq Nat
    BY KernelAssumption DEF KernelState, Priorities
  <2>2. QED
    BY <2>1, MaxOfTwo
<1>2. [r EXCEPT !.topUsed = Max({@, p})] = n
  OBVIOUS
<1> HIDE DEF v
<1>3. n \in KernelState
  BY <1>1 DEF KernelState
<1>4. SameButUsed(n, r)
  BY DEF SameButUsed, KernelState
<1>5. QED
  BY <1>2, <1>3, <1>4

\* A created task joins the ready list of its priority, the others stay in place.
LEMMA AddsTask ==
  ASSUME NEW kk \in KernelState, Once(kk), \A u \in AllTasks : InPlace(kk, u),
         NEW t \in AllTasks, NoPlace(kk, t), NEW p \in Priorities
  PROVE  LET r == AddNewTask(kk, t, p)
         IN  /\ r \in KernelState /\ Once(r) /\ Created(r, kk, t, p)
             /\ \A u \in AllTasks : InPlace(r, u)
             /\ \A u \in AllTasks \ {t} : SamePlace(r, kk, u)
<1> DEFINE ki == InitialiseTask(kk, t, p)
           r == prvAddTaskToReadyQueue(ki, t)
<1>1. /\ ki \in KernelState
      /\ ki.priority = [kk.priority EXCEPT ![t] = p]
      /\ ki.basePriority = [kk.basePriority EXCEPT ![t] = p]
      /\ ki.ready = kk.ready /\ ki.topReady = kk.topReady
      /\ ki.delayed = kk.delayed /\ ki.overflowDelayed = kk.overflowDelayed
      /\ ki.suspended = kk.suspended /\ ki.waitingTermination = kk.waitingTermination
      /\ ki.event = kk.event /\ ki.pendingReady = kk.pendingReady
      /\ ki.wake = kk.wake /\ ki.nextUnblock = kk.nextUnblock
      /\ ki.current = kk.current /\ ki.tick = kk.tick /\ ki.overflows = kk.overflows
      /\ ki.schedulerSuspended = kk.schedulerSuspended
      /\ ki.missedTicks = kk.missedTicks /\ ki.missedYield = kk.missedYield
  BY InitialisesTask DEF Initialised
<1>2. \A u \in AllTasks \ {t} : SamePlace(ki, kk, u) /\ SameEvent(ki, kk, u)
  BY NewSame
<1>3. AddNewTask(kk, t, p) = [r EXCEPT !.topUsed = Max({@, p})]
  BY DEF AddNewTask
<1>4. NoEvent(kk, t)
  BY NoPlaceNoEvent
<1>5. ki.priority[t] = p
  BY <1>1 DEF KernelState
<1> HIDE DEF ki
<1>6. Once(ki)
  BY <1>1 DEF Once
<1>7. NoPlace(ki, t) /\ NoEvent(ki, t)
  BY <1>1, <1>4 DEF NoPlace, NoEvent
<1>8. /\ r \in KernelState /\ Once(r) /\ MadeReady(r, ki, t) /\ IsReady(r, t)
      /\ \A q \in Priorities : t \in ToSet(r.ready[q]) => q = r.priority[t]
      /\ t \notin ToSet(r.delayed) /\ t \notin ToSet(r.overflowDelayed)
      /\ t \notin r.suspended /\ t \notin ToSet(r.waitingTermination)
      /\ \A u \in AllTasks \ {t} : SamePlace(r, ki, u)
      /\ \A u \in AllTasks : SameEvent(r, ki, u)
  BY <1>1, <1>6, <1>7, AddsToReady
<1> HIDE DEF r
<1>9. \A u \in AllTasks \ {t} : SamePlace(r, kk, u)
  BY <1>2, <1>8, SamePlaceTrans
<1>10. \A u \in AllTasks \ {t} : SameEvent(r, kk, u)
  BY <1>2, <1>8, SameEventTrans
<1>11. InPlace(r, t)
  <2>1. NoEvent(r, t)
    BY <1>7, <1>8 DEF MadeReady, NoEvent
  <2>2. EventOnce(r, t) /\ ~ IsWaiting(r, t) /\ ~ IsPending(r, t)
    BY <2>1, NoEventOnce
  <2>3. ~ IsDelayed(r, t)
    BY <1>8 DEF IsDelayed
  <2>4. QED
    BY <1>8, <2>2, <2>3 DEF InPlace, EventOnce
<1>12. \A u \in AllTasks : InPlace(r, u)
  <2>1. \A u \in AllTasks \ {t} : InPlace(r, u)
    BY <1>9, <1>10, PlaceKept
  <2>2. QED
    BY <1>11, <2>1
<1>13. \A u \in AllTasks : IsReady(r, u) <=> IsReady(kk, u) \/ u = t
  <2>1. \A u \in AllTasks \ {t} : IsReady(r, u) <=> IsReady(kk, u)
    BY <1>9, SameReady
  <2>2. QED
    BY <1>8, <2>1
<1>14. Created(r, kk, t, p)
  BY <1>1, <1>5, <1>8, <1>13 DEF Created, MadeReady, Calm
<1> DEFINE n == AddNewTask(kk, t, p)
<1>15. n \in KernelState /\ SameButUsed(n, r)
  BY <1>3, <1>8, UsedAside
<1> HIDE DEF n
<1>16. \A u \in AllTasks : /\ IsReady(n, u) <=> IsReady(r, u)
                           /\ IsDelayed(n, u) <=> IsDelayed(r, u)
                           /\ IsWaiting(n, u) <=> IsWaiting(r, u)
                           /\ IsPending(n, u) <=> IsPending(r, u)
  BY <1>15 DEF SameButUsed, IsReady, IsDelayed, IsWaiting, IsPending
<1>17. \A u \in AllTasks : InPlace(n, u)
  BY <1>12, <1>15, <1>16 DEF InPlace, SameButUsed
<1>18. Once(n)
  BY <1>8, <1>15 DEF Once, SameButUsed
<1>19. Created(n, kk, t, p)
  BY <1>14, <1>15, <1>16 DEF Created, SameButUsed
<1>20. \A u \in AllTasks \ {t} : SamePlace(n, kk, u)
  BY <1>9, <1>15 DEF SamePlace, SameButUsed
<1>21. QED
  BY <1>15, <1>17, <1>18, <1>19, <1>20 DEF n

\* The part of xTaskGenericCreate in the critical section.
LEMMA AddsNewTask ==
  ASSUME NEW kk, Sound(kk), TimesSound(kk), NEW t \in AllTasks \ Existing(kk),
         NEW p \in Priorities
  PROVE  LET r == AddNewTask(kk, t, p)
         IN  Sound(r) /\ TimesSound(r) /\ Created(r, kk, t, p) /\ t # IdleTask
<1> DEFINE r == AddNewTask(kk, t, p)
<1>1. kk \in KernelState /\ Once(kk) /\ (\A u \in AllTasks : InPlace(kk, u)) /\ NoPlace(kk, t)
  BY ExistsSomewhere DEF Sound
<1>2. /\ r \in KernelState /\ Once(r) /\ Created(r, kk, t, p)
      /\ \A u \in AllTasks : InPlace(r, u)
  BY <1>1, AddsTask
<1> HIDE DEF r
<1>3. /\ 0 \in Priorities /\ Priorities \subseteq Nat /\ kk.topReady \in Nat /\ r.topReady \in Nat
      /\ \A q \in Priorities : kk.ready[q] \in Seq(AllTasks)
  BY <1>1, <1>2, FieldTypes, ListTypes
<1>4. t # IdleTask
  BY <1>1, <1>3 DEF Sound, TopKnown, NoPlace
<1>5. TopKnown(r)
  <2>1. ASSUME NEW q \in Priorities, r.ready[q] # <<>> PROVE q <= r.topReady
    <3>1. CASE q = p
      BY <1>2, <3>1 DEF Created
    <3>2. CASE q # p
      <4>1. kk.ready[q] # <<>>
        BY <1>2, <2>1, <3>2 DEF Created
      <4>2. q <= kk.topReady /\ kk.topReady <= r.topReady
        BY <1>2, <1>3, <4>1 DEF Sound, TopKnown, Created
      <4>3. QED
        BY <1>3, <4>2
    <3>3. QED
      BY <3>1, <3>2
  <2>2. IdleTask \in ToSet(r.ready[0])
    <3>1. IdleTask \in ToSet(kk.ready[0])
      BY DEF Sound, TopKnown
    <3>2. CASE p = 0
      <4>1. r.ready[0] = vListInsertEnd(kk.ready[0], t)
        BY <1>2, <1>3, <3>2 DEF Created, vListInsertEnd
      <4>2. ToSet(vListInsertEnd(kk.ready[0], t)) = ToSet(kk.ready[0]) \cup {t}
        BY <1>3, ListInsertEnd
      <4>3. QED
        BY <3>1, <4>1, <4>2
    <3>3. CASE p # 0
      BY <1>2, <1>3, <3>1, <3>3 DEF Created
    <3>4. QED
      BY <3>2, <3>3
  <2>3. QED
    BY <2>1, <2>2 DEF TopKnown
<1>6. Sound(r)
  BY <1>2, <1>5 DEF Sound
<1>7. TimesSound(r)
  BY <1>2 DEF TimesSound, Created
<1>8. QED
  BY <1>2, <1>4, <1>6, <1>7 DEF r

\* vTaskList turns the ready lists, and changes nothing else.
LEMMA Reports ==
  ASSUME NEW kk, Sound(kk), TimesSound(kk)
  PROVE  LET r == AfterTaskReport(kk)
         IN  /\ Sound(r) /\ TimesSound(r) /\ Calm(r, kk)
             /\ r.pendingReady = kk.pendingReady
             /\ r.waitingTermination = kk.waitingTermination
             /\ r.delayed = kk.delayed /\ r.overflowDelayed = kk.overflowDelayed
             /\ r.suspended = kk.suspended /\ r.wake = kk.wake
             /\ \A u \in AllTasks : IsReady(r, u) <=> IsReady(kk, u)
<1> DEFINE turned(p) == IF p > kk.topUsed \/ kk.ready[p] = <<>> THEN kk.ready[p]
                        ELSE NextEntry(kk.ready[p])
           f == [p \in Priorities |-> turned(p)]
           r == AfterTaskReport(kk)
<1>1. kk \in KernelState /\ \A p \in Priorities : kk.ready[p] \in Seq(AllTasks)
  BY ListTypes DEF Sound
<1>2. ASSUME NEW p \in Priorities
      PROVE  /\ turned(p) \in Seq(AllTasks) /\ ToSet(turned(p)) = ToSet(kk.ready[p])
             /\ IsInjective(kk.ready[p]) => IsInjective(turned(p))
  <2>1. CASE p > kk.topUsed \/ kk.ready[p] = <<>>
    BY <1>1, <2>1
  <2>2. CASE ~ (p > kk.topUsed \/ kk.ready[p] = <<>>)
    <3>1. turned(p) = NextEntry(kk.ready[p]) /\ kk.ready[p] # <<>>
      BY <2>2
    <3>2. QED
      BY <1>1, <3>1, ListRotate
  <2>3. QED
    BY <2>1, <2>2
<1>3. r = [kk EXCEPT !.ready = f]
  BY DEF AfterTaskReport
<1> HIDE DEF turned
<1>4. f \in [Priorities -> Seq(AllTasks)] /\ \A p \in Priorities : f[p] = turned(p)
  BY <1>2
<1> HIDE DEF f, r
<1>5. /\ r \in KernelState /\ Calm(r, kk) /\ r.ready = f
      /\ r.delayed = kk.delayed /\ r.overflowDelayed = kk.overflowDelayed
      /\ r.suspended = kk.suspended /\ r.waitingTermination = kk.waitingTermination
      /\ r.event = kk.event /\ r.pendingReady = kk.pendingReady
      /\ r.wake = kk.wake /\ r.nextUnblock = kk.nextUnblock /\ r.topReady = kk.topReady
  BY <1>1, <1>3, <1>4 DEF KernelState, Calm
<1>6. \A p \in Priorities : /\ ToSet(r.ready[p]) = ToSet(kk.ready[p])
                            /\ IsInjective(kk.ready[p]) => IsInjective(r.ready[p])
                            /\ r.ready[p] \in Seq(AllTasks)
  BY <1>2, <1>4, <1>5
<1>7. \A u \in AllTasks : SamePlace(r, kk, u) /\ SameEvent(r, kk, u)
  BY <1>5, <1>6 DEF SamePlace, SameEvent, Calm
<1>8. \A u \in AllTasks : InPlace(r, u)
  BY <1>1, <1>7, PlaceKept DEF Sound
<1>9. Once(r)
  BY <1>5, <1>6 DEF Sound, Once
<1>10. TopKnown(r)
  <2>1. \A p \in Priorities : r.ready[p] # <<>> => kk.ready[p] # <<>>
    BY <1>1, <1>6, InList
  <2>2. 0 \in Priorities
    BY <1>1, FieldTypes
  <2>3. QED
    BY <1>5, <1>6, <2>1, <2>2 DEF Sound, TopKnown
<1>11. Sound(r)
  BY <1>5, <1>8, <1>9, <1>10 DEF Sound
<1>12. TimesSound(r)
  BY <1>5 DEF TimesSound, Calm
<1>13. \A u \in AllTasks : IsReady(r, u) <=> IsReady(kk, u)
  BY <1>1, <1>7, SameReady
<1>14. QED
  BY <1>5, <1>11, <1>12, <1>13 DEF r

\* The idle task frees the first of the deleted tasks.
LEMMA Reaps ==
  ASSUME NEW kk, Sound(kk), TimesSound(kk), kk.waitingTermination # <<>>
  PROVE  LET r == [kk EXCEPT !.waitingTermination = Tail(@)]
         IN  /\ Sound(r) /\ TimesSound(r) /\ Calm(r, kk)
             /\ r.pendingReady = kk.pendingReady
             /\ ToSet(r.waitingTermination) = ToSet(kk.waitingTermination) \ {Head(kk.waitingTermination)}
             /\ r.delayed = kk.delayed /\ r.overflowDelayed = kk.overflowDelayed
             /\ r.suspended = kk.suspended /\ r.wake = kk.wake
             /\ \A u \in AllTasks : IsReady(r, u) <=> IsReady(kk, u)
<1> DEFINE list == Tail(kk.waitingTermination)
           r == [kk EXCEPT !.waitingTermination = Tail(@)]
<1>1. /\ kk \in KernelState /\ kk.waitingTermination \in Seq(AllTasks)
      /\ IsInjective(kk.waitingTermination)
  BY ListTypes DEF Sound, Once
<1>2. /\ list \in Seq(AllTasks) /\ IsInjective(list)
      /\ ToSet(list) = ToSet(kk.waitingTermination) \ {Head(kk.waitingTermination)}
  BY <1>1, ListTail
<1>3. r = [kk EXCEPT !.waitingTermination = list]
  BY <1>1 DEF KernelState
<1> HIDE DEF list, r
<1>4. /\ r \in KernelState /\ Calm(r, kk) /\ r.waitingTermination = list
      /\ r.ready = kk.ready /\ r.topReady = kk.topReady
      /\ r.delayed = kk.delayed /\ r.overflowDelayed = kk.overflowDelayed
      /\ r.suspended = kk.suspended
      /\ r.event = kk.event /\ r.pendingReady = kk.pendingReady
      /\ r.wake = kk.wake /\ r.nextUnblock = kk.nextUnblock
  BY <1>1, <1>2, <1>3 DEF KernelState, Calm
<1>5. \A u \in AllTasks : /\ IsReady(r, u) <=> IsReady(kk, u)
                          /\ IsDelayed(r, u) <=> IsDelayed(kk, u)
                          /\ IsWaiting(r, u) <=> IsWaiting(kk, u)
                          /\ IsPending(r, u) <=> IsPending(kk, u)
  BY <1>4 DEF IsReady, IsDelayed, IsWaiting, IsPending, Calm
<1>6. \A u \in AllTasks : InPlace(r, u)
  BY <1>2, <1>4, <1>5 DEF Sound, InPlace, Calm
<1>7. Once(r) /\ TopKnown(r)
  BY <1>2, <1>4 DEF Sound, Once, TopKnown
<1>8. Sound(r)
  BY <1>4, <1>6, <1>7 DEF Sound
<1>9. TimesSound(r)
  BY <1>4 DEF TimesSound, Calm
<1>10. QED
  BY <1>2, <1>4, <1>5, <1>8, <1>9 DEF r

-------------------------------------------------------------------------------
(* The tasks that main creates before the scheduler runs *)

\* The tasks of S exist, and are all ready; the current one is of the highest
\* priority among them.
Starting(kk, S) ==
  /\ kk \in KernelState /\ Once(kk)
  /\ \A u \in AllTasks : InPlace(kk, u)
  /\ \A p \in Priorities : kk.ready[p] # <<>> => p <= kk.topReady
  /\ kk.delayed = <<>> /\ kk.overflowDelayed = <<>> /\ kk.suspended = {}
  /\ kk.waitingTermination = <<>> /\ kk.pendingReady = <<>>
  /\ kk.schedulerSuspended = 0 /\ kk.missedTicks = 0 /\ kk.missedYield = FALSE
  /\ kk.basePriority = kk.priority /\ kk.tick = 0
  /\ \A u \in AllTasks : IsReady(kk, u) <=> u \in S
  /\ S # {} => Highest(kk)

\* Before main creates a task there is none.
LEMMA NothingCreated == Starting(NoTasks, {})
<1>1. 0 \in Priorities /\ portMAX_DELAY \in Ticks /\ 0 \in Ticks /\ IdleTask \in AllTasks
  BY KernelAssumption DEF Priorities, Ticks, portMAX_DELAY, AllTasks
<1>2. <<>> \in Seq(AllTasks) /\ 0 \in 0 .. MAX_PRIORITIES /\ 0 \in 0 .. OVERFLOW_MOD - 1
  BY KernelAssumption
<1>3. /\ NoTasks.ready = [p \in Priorities |-> <<>>]
      /\ NoTasks.event = [e \in EventLists |-> <<>>]
      /\ NoTasks.priority = [t \in AllTasks |-> 0] /\ NoTasks.basePriority = [t \in AllTasks |-> 0]
      /\ NoTasks.delayed = <<>> /\ NoTasks.overflowDelayed = <<>> /\ NoTasks.suspended = {}
      /\ NoTasks.waitingTermination = <<>> /\ NoTasks.pendingReady = <<>>
      /\ NoTasks.schedulerSuspended = 0 /\ NoTasks.missedTicks = 0
      /\ NoTasks.missedYield = FALSE /\ NoTasks.tick = 0
  BY DEF NoTasks
<1>4. NoTasks \in KernelState
  BY <1>1, <1>2 DEF NoTasks, KernelState
<1>5. ToSet(<<>>) = {} /\ IsInjective(<<>>)
  BY EmptySorted DEF IsInjective
<1>6. \A u \in AllTasks : NoPlace(NoTasks, u) /\ NoEvent(NoTasks, u)
  BY <1>3, <1>5 DEF NoPlace, NoEvent
<1>7. \A u \in AllTasks : ~ IsReady(NoTasks, u) /\ ~ IsDelayed(NoTasks, u)
  <2>1. \A u \in AllTasks : NoTasks.priority[u] \in Priorities
    BY <1>1, <1>3
  <2>2. QED
    BY <1>6, <2>1 DEF IsReady, IsDelayed, NoPlace
<1>8. \A u \in AllTasks : InPlace(NoTasks, u)
  <2>1. \A u \in AllTasks : EventOnce(NoTasks, u) /\ ~ IsWaiting(NoTasks, u) /\ ~ IsPending(NoTasks, u)
    BY <1>6, NoEventOnce
  <2>2. QED
    BY <1>6, <1>7, <2>1 DEF InPlace, EventOnce, NoPlace
<1>9. Once(NoTasks)
  BY <1>3, <1>5 DEF Once
<1>10. \A p \in Priorities : NoTasks.ready[p] = <<>>
  BY <1>3
<1>11. QED
  BY <1>3, <1>4, <1>7, <1>8, <1>9, <1>10 DEF Starting

\* A task created before the scheduler runs becomes the current one if none goes
\* before it.
LEMMA CreatesOne ==
  ASSUME NEW kk, NEW S \in SUBSET AllTasks, Starting(kk, S), NEW t \in AllTasks \ S,
         NEW p \in Priorities
  PROVE  /\ Starting(CreateBeforeStart(kk, t, p), S \cup {t})
         /\ CreateBeforeStart(kk, t, p).priority = [kk.priority EXCEPT ![t] = p]
<1> DEFINE first == Existing(kk) = {}
           kn == AddNewTask(kk, t, p)
           r == CreateBeforeStart(kk, t, p)
<1>1. kk \in KernelState /\ Once(kk) /\ \A u \in AllTasks : InPlace(kk, u)
  BY DEF Starting
<1>2. /\ kk.priority \in [AllTasks -> Priorities] /\ kk.basePriority = kk.priority
      /\ kk.current \in AllTasks /\ kk.topReady \in Nat /\ Priorities \subseteq Nat
      /\ \A u \in AllTasks : kk.priority[u] \in Priorities
      /\ \A q \in Priorities : kk.ready[q] \in Seq(AllTasks)
  BY <1>1, FieldTypes, ListTypes DEF KernelState, Starting
<1>3. \A u \in AllTasks : NoPlace(kk, u) <=> u \notin S
  <2>1. /\ ToSet(kk.delayed) = {} /\ ToSet(kk.overflowDelayed) = {} /\ kk.suspended = {}
        /\ ToSet(kk.waitingTermination) = {}
    BY EmptySorted DEF Starting
  <2>2. ASSUME NEW u \in AllTasks
        PROVE  (\E q \in Priorities : u \in ToSet(kk.ready[q])) <=> IsReady(kk, u)
    BY <1>1, <1>2, <2>2 DEF InPlace, IsReady
  <2>3. QED
    BY <2>1, <2>2 DEF NoPlace, Starting
<1>4. first => S = {}
  BY <1>3, ExistsSomewhere
<1>5. S = {} => first
  <2>1. ASSUME S = {}, NEW u \in Existing(kk) PROVE FALSE
    <3>1. u \in AllTasks
      <4>1. /\ \A q \in Priorities : ToSet(kk.ready[q]) \subseteq AllTasks
        BY <1>2, InList
      <4>2. /\ ToSet(kk.delayed) = {} /\ ToSet(kk.overflowDelayed) = {} /\ kk.suspended = {}
            /\ ToSet(kk.waitingTermination) = {}
        BY EmptySorted DEF Starting
      <4>3. QED
        BY <2>1, <4>1, <4>2, ExistsSomewhere DEF NoPlace
    <3>2. QED
      BY <1>3, <2>1, <3>1, ExistsSomewhere
  <2>2. QED
    BY <2>1
<1>6. /\ kn \in KernelState /\ Once(kn) /\ Created(kn, kk, t, p)
      /\ \A u \in AllTasks : InPlace(kn, u)
  BY <1>1, <1>3, AddsTask
<1>7. r = IF first \/ kk.priority[kk.current] <= p THEN [kn EXCEPT !.current = t] ELSE kn
  BY DEF CreateBeforeStart
<1> HIDE DEF first, kn, r
<1> DEFINE c == IF first \/ kk.priority[kk.current] <= p THEN t ELSE kk.current
<1>8. r = [kn EXCEPT !.current = c]
  <2>1. CASE first \/ kk.priority[kk.current] <= p
    BY <1>7, <2>1
  <2>2. CASE ~ (first \/ kk.priority[kk.current] <= p)
    <3>1. kn.current = kk.current /\ kn = [kn EXCEPT !.current = kn.current]
      BY <1>6 DEF Created, KernelState
    <3>2. QED
      BY <1>7, <2>2, <3>1
  <2>3. QED
    BY <2>1, <2>2
<1>9. c \in AllTasks
  BY <1>2
<1> HIDE DEF c
<1>10. /\ r \in KernelState /\ r.current = c
       /\ r.ready = kn.ready /\ r.delayed = kn.delayed
       /\ r.overflowDelayed = kn.overflowDelayed /\ r.suspended = kn.suspended
       /\ r.waitingTermination = kn.waitingTermination
       /\ r.event = kn.event /\ r.pendingReady = kn.pendingReady
       /\ r.priority = kn.priority /\ r.basePriority = kn.basePriority
       /\ r.topReady = kn.topReady
       /\ r.schedulerSuspended = kn.schedulerSuspended
       /\ r.missedTicks = kn.missedTicks /\ r.missedYield = kn.missedYield /\ r.tick = kn.tick
  BY <1>6, <1>8, <1>9 DEF KernelState
<1>11. \A u \in AllTasks : SamePlace(r, kn, u) /\ SameEvent(r, kn, u)
  BY <1>10 DEF SamePlace, SameEvent
<1>12. \A u \in AllTasks : InPlace(r, u)
  BY <1>6, <1>11, PlaceKept
<1>13. Once(r)
  BY <1>6, <1>10 DEF Once
<1>14. r.priority = [kk.priority EXCEPT ![t] = p] /\ r.basePriority = r.priority
  BY <1>2, <1>6, <1>10 DEF Created
<1>15. \A u \in AllTasks : IsReady(r, u) <=> u \in S \cup {t}
  <2>1. \A u \in AllTasks : IsReady(r, u) <=> IsReady(kn, u)
    BY <1>10 DEF IsReady
  <2>2. QED
    BY <1>6, <2>1 DEF Created, Starting
<1>16. ASSUME NEW q \in Priorities, r.ready[q] # <<>> PROVE q <= r.topReady
  <2>1. r.topReady \in Nat /\ r.topReady >= kk.topReady /\ r.topReady >= p
    BY <1>6, <1>10, FieldTypes DEF Created
  <2>2. CASE q = p
    BY <2>1, <2>2
  <2>3. CASE q # p
    <3>1. kk.ready[q] # <<>>
      BY <1>6, <1>10, <1>16, <2>3 DEF Created
    <3>2. q <= kk.topReady
      BY <3>1 DEF Starting
    <3>3. QED
      BY <1>2, <2>1, <3>2
  <2>4. QED
    BY <2>2, <2>3
<1>17. Highest(r)
  <2>1. r.priority[t] = p /\ \A u \in AllTasks \ {t} : r.priority[u] = kk.priority[u]
    BY <1>2, <1>14
  <2>2. CASE S = {}
    <3>1. c = t
      BY <1>5, <2>2 DEF c
    <3>2. \A u \in AllTasks : IsReady(r, u) <=> u = t
      BY <1>15, <2>2
    <3>3. r.priority[t] <= r.priority[t]
      BY <1>2, <2>1
    <3>4. QED
      BY <1>10, <3>1, <3>2, <3>3 DEF Highest
  <2>3. CASE S # {}
    <3>1. ~ first /\ Highest(kk)
      BY <1>4, <2>3 DEF Starting
    <3>2. kk.current \in S /\ \A u \in S : kk.priority[u] <= kk.priority[kk.current]
      BY <1>2, <3>1 DEF Highest, Starting
    <3>3. CASE kk.priority[kk.current] <= p
      <4>1. c = t
        BY <3>3 DEF c
      <4>2. ASSUME NEW u \in S \cup {t} PROVE r.priority[u] <= p
        <5>1. CASE u = t
          BY <1>2, <2>1, <5>1
        <5>2. CASE u # t
          <6>1. u \in S /\ u \in AllTasks \ {t}
            BY <4>2, <5>2
          <6>2. r.priority[u] = kk.priority[u] /\ kk.priority[u] <= kk.priority[kk.current]
            BY <2>1, <3>2, <6>1
          <6>3. kk.priority[u] \in Nat /\ kk.priority[kk.current] \in Nat /\ p \in Nat
            BY <1>2, <6>1
          <6>4. QED
            BY <3>3, <6>2, <6>3
        <5>3. QED
          BY <5>1, <5>2
      <4>3. QED
        BY <1>10, <1>15, <2>1, <4>1, <4>2 DEF Highest
    <3>4. CASE ~ (kk.priority[kk.current] <= p)
      <4>1. c = kk.current
        BY <3>1, <3>4 DEF c
      <4>2. kk.current # t /\ r.priority[kk.current] = kk.priority[kk.current]
        BY <1>2, <2>1, <3>2
      <4>3. ASSUME NEW u \in S \cup {t} PROVE r.priority[u] <= kk.priority[kk.current]
        <5>1. kk.priority[kk.current] \in Nat /\ p \in Nat
          BY <1>2
        <5>2. CASE u = t
          BY <2>1, <3>4, <5>1, <5>2
        <5>3. CASE u # t
          <6>1. u \in S /\ u \in AllTasks \ {t}
            BY <4>3, <5>3
          <6>2. QED
            BY <2>1, <3>2, <6>1
        <5>4. QED
          BY <5>2, <5>3
      <4>4. QED
        BY <1>10, <1>15, <3>2, <4>1, <4>2, <4>3 DEF Highest
    <3>5. QED
      BY <3>3, <3>4
  <2>4. QED
    BY <2>2, <2>3
<1>18. /\ r.delayed = <<>> /\ r.overflowDelayed = <<>> /\ r.suspended = {}
       /\ r.waitingTermination = <<>> /\ r.pendingReady = <<>>
       /\ r.schedulerSuspended = 0 /\ r.missedTicks = 0 /\ r.missedYield = FALSE /\ r.tick = 0
  BY <1>6, <1>10 DEF Created, Starting
<1>19. Starting(r, S \cup {t})
  BY <1>10, <1>12, <1>13, <1>14, <1>15, <1>16, <1>17, <1>18 DEF Starting
<1>20. QED
  BY <1>14, <1>19 DEF r

LEMMA AddsToReadyType ==
  ASSUME NEW kk \in KernelState, NEW t \in AllTasks
  PROVE  prvAddTaskToReadyQueue(kk, t) \in KernelState
<1> DEFINE r == prvAddTaskToReadyQueue(kk, t)
           p0 == kk.priority[t]
           list == vListInsertEnd(kk.ready[p0], t)
           ready == [kk.ready EXCEPT ![p0] = list]
           top == Max({kk.topReady, p0})
<1>1. p0 \in Priorities /\ kk.topReady \in Priorities /\ Priorities \subseteq Nat
  BY KernelAssumption DEF KernelState, Priorities
<1>2. list \in Seq(AllTasks)
  BY <1>1, ListTypes, ListInsertEnd
<1>3. top \in Priorities
  BY <1>1, MaxOfTwo
<1>4. r = [kk EXCEPT !.ready = ready, !.topReady = top]
  BY DEF prvAddTaskToReadyQueue, KernelState
<1> HIDE DEF list, p0, top, r
<1>5. ready \in [Priorities -> Seq(AllTasks)]
  BY <1>1, <1>2 DEF KernelState
<1> HIDE DEF ready
<1>6. r \in KernelState
  BY <1>3, <1>4, <1>5 DEF KernelState
<1>7. QED
  BY <1>6 DEF r

LEMMA CreatesType ==
  ASSUME NEW kk \in KernelState, NEW t \in AllTasks, NEW p \in Priorities
  PROVE  CreateBeforeStart(kk, t, p) \in KernelState
<1> DEFINE kn == AddNewTask(kk, t, p)
<1>1. kn \in KernelState
  BY InitialisesTask, AddsToReadyType, UsedAside DEF AddNewTask
<1> HIDE DEF kn
<1>2. [kn EXCEPT !.current = t] \in KernelState
  BY <1>1 DEF KernelState
<1>3. CASE Existing(kk) = {} \/ kk.priority[kk.current] <= p
  BY <1>2, <1>3 DEF CreateBeforeStart, kn
<1>4. CASE ~ (Existing(kk) = {} \/ kk.priority[kk.current] <= p)
  BY <1>1, <1>4 DEF CreateBeforeStart, kn
<1>5. QED
  BY <1>3, <1>4

\* The fold over the tasks in the order of their creation.
CreateIter(order, prio) ==
  CHOOSE iter : iter = [s \in SUBSET DOMAIN order |->
                          IF s = {} THEN NoTasks
                          ELSE CreateBeforeStart(iter[s \ {Max(s)}], order[Max(s)],
                                                 prio[order[Max(s)]])]

\* main's creations, as the function the fold runs along.
LEMMA CreateUnfolds ==
  ASSUME NEW order, NEW prio
  PROVE  FoldLeft(LAMBDA k, t : CreateBeforeStart(k, t, prio[t]), NoTasks, order)
           = CreateIter(order, prio)[DOMAIN order]
BY DEF FoldLeft, MapThenFoldSet, CreateIter

\* main's creations, in any order of distinct tasks.
LEMMA CreatesAll ==
  ASSUME NEW order \in Seq(Tasks), IsInjective(order), NEW prio \in [Tasks -> Priorities]
  PROVE  Starting(FoldLeft(LAMBDA k, t : CreateBeforeStart(k, t, prio[t]), NoTasks, order),
                  ToSet(order))
<1> DEFINE n == Len(order)
           step(t, r) == CreateBeforeStart(r, t, prio[t])
           G == [p \in Tasks \X KernelState |-> step(p[1], p[2])]
           g == CreateIter(order, prio)
           Next1(iter) == [s \in SUBSET DOMAIN order |->
                             IF s = {} THEN NoTasks ELSE step(order[Max(s)], iter[s \ {Max(s)}])]
<1>1. /\ n \in Nat /\ order \in [1 .. n -> Tasks] /\ DOMAIN order = 1 .. n
      /\ Tasks \subseteq AllTasks
  BY ListIsFunction DEF AllTasks
<1>2. ASSUME NEW t \in Tasks, NEW r \in KernelState PROVE step(t, r) \in KernelState
  BY <1>1, <1>2, CreatesType
<1>3. /\ G \in [Tasks \X KernelState -> KernelState]
      /\ \A t \in Tasks, r \in KernelState : G[<<t, r>>] = step(t, r)
  <2> HIDE DEF step
  <2> QED
    BY <1>2
<1>4. NoTasks \in KernelState
  BY NothingCreated DEF Starting
<1> HIDE DEF G, n
<1>5. PICK f \in [SUBSET (1 .. n) -> KernelState] : LastFolds(f, order, n, NoTasks, G)
  BY <1>1, <1>3, <1>4, LastFirst
<1>6. ASSUME NEW s \in SUBSET (1 .. n)
      PROVE  f[s] = IF s = {} THEN NoTasks ELSE step(order[Max(s)], f[s \ {Max(s)}])
  <2> HIDE DEF step
  <2>1. CASE s = {}
    BY <1>5, <2>1 DEF LastFolds
  <2>2. CASE s # {}
    <3>1. Max(s) \in 1 .. n
      BY <1>1, <2>2, MaxIsLast
    <3>2. order[Max(s)] \in Tasks /\ f[s \ {Max(s)}] \in KernelState
      BY <1>1, <3>1
    <3>3. f[s] = G[<<order[Max(s)], f[s \ {Max(s)}]>>]
      BY <1>5, <2>2 DEF LastFolds
    <3>4. QED
      BY <1>3, <2>2, <3>2, <3>3
  <2>3. QED
    BY <2>1, <2>2
<1>7. f = Next1(f)
  <2> HIDE DEF step
  <2> QED
    BY <1>1, <1>6
<1>8. g = Next1(g)
  BY <1>7 DEF CreateIter
<1>14. FoldLeft(LAMBDA k, t : CreateBeforeStart(k, t, prio[t]), NoTasks, order) = g[1 .. n]
  BY <1>1, CreateUnfolds
<1> HIDE DEF g
<1>9. \A s \in SUBSET (1 .. n) :
        g[s] = IF s = {} THEN NoTasks ELSE step(order[Max(s)], g[s \ {Max(s)}])
  <2> HIDE DEF step
  <2> QED
    BY <1>1, <1>8
<1> DEFINE First(m) == {order[i] : i \in 1 .. m}
           T == {m \in Nat : m <= n => Starting(g[1 .. m], First(m))}
<1>10. 0 \in T
  <2>1. 1 .. 0 = {} /\ First(0) = {}
    OBVIOUS
  <2>2. g[1 .. 0] = NoTasks
    <3> HIDE DEF step
    <3> QED
      BY <1>9, <2>1
  <2>3. QED
    BY <2>1, <2>2, NothingCreated
<1>11. ASSUME NEW m \in Nat, m \in T PROVE m + 1 \in T
  <2> SUFFICES ASSUME m + 1 <= n
               PROVE  Starting(g[1 .. m + 1], First(m + 1))
    OBVIOUS
  <2>0. n \in Nat /\ m + 1 \in Nat /\ m + 1 > 0 /\ (m + 1) - 1 = m
    BY <1>1
  <2>1. /\ Max(1 .. m + 1) = m + 1 /\ (1 .. m + 1) \ {m + 1} = 1 .. m
        /\ 1 .. m + 1 \in SUBSET (1 .. n) /\ 1 .. m + 1 # {}
    <3> HIDE DEF step, First, T
    <3>1. Max(1 .. m + 1) = m + 1 /\ (1 .. m + 1) \ {m + 1} = 1 .. m
      BY <2>0, MaxIsLast
    <3>2. m + 1 \in 1 .. m + 1
      BY <2>0
    <3>3. 1 .. m + 1 \in SUBSET (1 .. n)
      BY <2>0
    <3>4. QED
      BY <3>1, <3>2, <3>3
  <2>2. g[1 .. m + 1] = step(order[m + 1], g[1 .. m])
    <3> HIDE DEF step
    <3> QED
      BY <1>9, <2>1
  <2>3. Starting(g[1 .. m], First(m))
    BY <1>1, <1>11
  <2>4. /\ order[m + 1] \in AllTasks /\ First(m + 1) = First(m) \cup {order[m + 1]}
        /\ First(m) \in SUBSET AllTasks /\ prio[order[m + 1]] \in Priorities
    BY <1>1
  <2>5. order[m + 1] \notin First(m)
    <3>1. \A i, j \in 1 .. n : order[i] = order[j] => i = j
      BY <1>1, InList DEF n
    <3>2. \A i \in 1 .. m : order[i] # order[m + 1]
      BY <1>1, <2>0, <3>1
    <3>3. QED
      BY <3>2
  <2> HIDE DEF First
  <2>6. Starting(CreateBeforeStart(g[1 .. m], order[m + 1], prio[order[m + 1]]),
                 First(m) \cup {order[m + 1]})
    BY <2>3, <2>4, <2>5, CreatesOne
  <2>7. QED
    BY <2>2, <2>4, <2>6
<1>12. n \in T
  <2> HIDE DEF T
  <2> QED
    BY <1>1, <1>10, <1>11, SetInduction
<1>13. Starting(g[1 .. n], First(n))
  BY <1>1, <1>12
<1>15. First(n) = ToSet(order)
  BY ListIsFunction DEF n
<1>16. QED
  BY <1>13, <1>14, <1>15

\* vTaskStartScheduler creates the idle task last, and then starts.
Started(r) ==
  /\ Sound(r) /\ TimesSound(r) /\ Highest(r)
  /\ r.pendingReady = <<>> /\ r.basePriority = r.priority
  /\ r.schedulerSuspended = 0 /\ r.missedTicks = 0 /\ r.missedYield = FALSE
  /\ r.delayed = <<>> /\ r.overflowDelayed = <<>> /\ r.suspended = {}
  /\ r.waitingTermination = <<>> /\ r.tick = 0

\* vTaskStartScheduler adds the idle task.
LEMMA CreatesIdle ==
  ASSUME NEW kk, NEW S \in SUBSET Tasks, Starting(kk, S)
  PROVE  Started(CreateBeforeStart(kk, IdleTask, 0))
<1> DEFINE r == CreateBeforeStart(kk, IdleTask, 0)
<1>2. S \in SUBSET AllTasks /\ IdleTask \in AllTasks \ S /\ 0 \in Priorities
  BY KernelAssumption DEF Priorities, AllTasks
<1>4. Starting(r, S \cup {IdleTask}) /\ r.priority = [kk.priority EXCEPT ![IdleTask] = 0]
  BY <1>2, CreatesOne
<1>5. r.priority[IdleTask] = 0
  <2>1. kk.priority \in [AllTasks -> Priorities]
    BY DEF Starting, KernelState
  <2> HIDE DEF r
  <2>2. QED
    BY <1>2, <1>4, <2>1
<1> HIDE DEF r
<1>6. TopKnown(r)
  <2>1. IsReady(r, IdleTask)
    BY <1>2, <1>4 DEF Starting
  <2>2. QED
    BY <1>4, <1>5, <2>1 DEF Starting, TopKnown, IsReady
<1>7. Sound(r)
  BY <1>4, <1>6 DEF Starting, Sound
<1>8. TimesSound(r)
  BY <1>4, EmptySorted DEF Starting, TimesSound
<1>9. Highest(r)
  BY <1>4 DEF Starting
<1>10. Started(r)
  BY <1>4, <1>7, <1>8, <1>9 DEF Starting, Started
<1> QED
  BY <1>10 DEF r

\* The scheduler starts in a sound state, with the highest task as the current one.
LEMMA BootedSound ==
  ASSUME NEW order \in Seq(Tasks), IsInjective(order), NEW prio \in [Tasks -> Priorities]
  PROVE  Started(Booted(order, prio))
<1>1. ToSet(order) \in SUBSET Tasks
  BY InList
<1>2. ASSUME NEW kk, Starting(kk, ToSet(order))
      PROVE  Started(CreateBeforeStart(kk, IdleTask, 0))
  BY <1>1, <1>2, CreatesIdle
<1>3. Starting(FoldLeft(LAMBDA k, t : CreateBeforeStart(k, t, prio[t]), NoTasks, order),
               ToSet(order))
  BY CreatesAll
<1> QED
  BY <1>2, <1>3 DEF Booted

-------------------------------------------------------------------------------
(* One step of the kernel at a time *)

\* What a sound kernel state says of its fields.
LEMMA SoundTypes ==
  ASSUME NEW kk, Sound(kk)
  PROVE  /\ kk \in KernelState /\ Once(kk)
         /\ kk.current \in AllTasks /\ IdleTask \in AllTasks
         /\ \A t \in AllTasks : InPlace(kk, t) /\ kk.priority[t] \in Nat /\ kk.priority[t] \in Priorities
         /\ kk.tick \in Ticks /\ kk.schedulerSuspended \in Nat /\ kk.missedTicks \in Nat
BY FieldTypes DEF Sound

\* A list with no item that an empty one has not is empty.
LEMMA NoMore ==
  ASSUME NEW S, NEW a \in Seq(S), NEW b \in Seq(S), ToSet(a) \subseteq ToSet(b), b = <<>>
  PROVE  a = <<>>
<1>1. (a = <<>> <=> ToSet(a) = {}) /\ (b = <<>> <=> ToSet(b) = {})
  BY InList
<1>2. QED
  BY <1>1

\* vTaskSuspendAll only counts.
LEMMA SuspendsAll ==
  ASSUME NEW kk, Sound(kk), TimesSound(kk), kk.schedulerSuspended = 0
  PROVE  LET r == vTaskSuspendAll(kk)
         IN  /\ Sound(r) /\ TimesSound(r) /\ SameLists(r, kk)
             /\ r.schedulerSuspended = 1 /\ r.current = kk.current
             /\ r.tick = kk.tick /\ r.basePriority = kk.basePriority
             /\ r.wake = kk.wake /\ r.missedTicks = kk.missedTicks
             /\ r.overflows = kk.overflows
<1> DEFINE r == vTaskSuspendAll(kk)
<1>1. kk \in KernelState
  BY DEF Sound
<1>2. kk.schedulerSuspended + 1 = 1
  OBVIOUS
<1>3. r = [kk EXCEPT !.schedulerSuspended = 1]
  BY <1>2 DEF vTaskSuspendAll
<1> HIDE DEF r
<1>4. /\ r \in KernelState /\ SameLists(r, kk)
      /\ r.schedulerSuspended = 1 /\ r.current = kk.current
      /\ r.tick = kk.tick /\ r.basePriority = kk.basePriority
      /\ r.wake = kk.wake /\ r.nextUnblock = kk.nextUnblock
      /\ r.missedTicks = kk.missedTicks /\ r.overflows = kk.overflows
  <2>1. r \in KernelState
    BY <1>1, <1>3 DEF KernelState
  <2>2. QED
    BY <1>1, <1>3, <2>1 DEF KernelState, SameLists
<1>5. Sound(r)
  BY <1>4, SoundSame
<1>6. TimesSound(r)
  BY <1>4 DEF TimesSound, SameLists
<1>7. QED
  BY <1>4, <1>5, <1>6 DEF r

\* A tick while the scheduler is suspended is counted, and so is the yield.
LEMMA HeldTick ==
  ASSUME NEW kk \in KernelState, kk.schedulerSuspended # 0
  PROVE  LET r == vTaskSwitchContext(vTaskIncrementTick(kk))
         IN  /\ r \in KernelState /\ SameLists(r, kk)
             /\ r.current = kk.current /\ r.schedulerSuspended = kk.schedulerSuspended
             /\ r.basePriority = kk.basePriority /\ r.wake = kk.wake /\ r.tick = kk.tick
             /\ r.nextUnblock = kk.nextUnblock /\ r.missedTicks = kk.missedTicks + 1
             /\ r.overflows = kk.overflows
<1> DEFINE m == kk.missedTicks + 1
           ki == [kk EXCEPT !.missedTicks = m]
           r == [ki EXCEPT !.missedYield = TRUE]
<1>1. kk.missedTicks \in Nat
  BY FieldTypes
<1>2. vTaskIncrementTick(kk) = ki
  BY DEF vTaskIncrementTick
<1>3. m \in Nat
  BY <1>1
<1> HIDE DEF m
<1>4. ki.schedulerSuspended = kk.schedulerSuspended /\ ki \in KernelState
  BY <1>1, <1>3 DEF KernelState
<1>5. vTaskSwitchContext(vTaskIncrementTick(kk)) = r
  BY <1>2, <1>4 DEF vTaskSwitchContext
<1>6. /\ r \in KernelState /\ SameLists(r, kk)
      /\ r.current = kk.current /\ r.schedulerSuspended = kk.schedulerSuspended
      /\ r.basePriority = kk.basePriority /\ r.wake = kk.wake /\ r.tick = kk.tick
      /\ r.nextUnblock = kk.nextUnblock /\ r.missedTicks = m
      /\ r.overflows = kk.overflows
  BY <1>3 DEF KernelState, SameLists
<1> HIDE DEF r
<1>7. QED
  BY <1>5, <1>6 DEF m

-------------------------------------------------------------------------------
(* What wakes tasks and puts none to sleep *)

\* t is ready, or will be as soon as the scheduler is resumed.
Awake(kk, t) == IsReady(kk, t) \/ IsPending(kk, t)

\* Nobody has begun to wait, or has gone to sleep.
Rises(r, kk) ==
  /\ EventsFall(r, kk)
  /\ \A u \in AllTasks : IsReady(kk, u) => IsReady(r, u)
  /\ \A u \in AllTasks : Awake(kk, u) => Awake(r, u)

\* Nothing is put off while the scheduler runs.
Quiet(kk) ==
  kk.schedulerSuspended = 0 => kk.pendingReady = <<>> /\ kk.missedTicks = 0 /\ kk.missedYield = FALSE

\* The kernel went from kk to r without putting anyone to sleep, the scheduler
\* suspended as often as before, and perhaps switched to a ready task.
Follows(r, kk) ==
  /\ Sound(r) /\ TimesSound(r) /\ Rises(r, kk)
  /\ r.schedulerSuspended = kk.schedulerSuspended
  /\ Quiet(kk) => Quiet(r)
  /\ kk.schedulerSuspended # 0 => r.current = kk.current
  /\ r.current = kk.current \/ IsReady(r, r.current)

LEMMA RisesSame ==
  ASSUME NEW kk, NEW r, SameLists(r, kk)
  PROVE  Rises(r, kk)
BY DEF Rises, SameLists, EventsFall, Awake, IsReady, IsPending

LEMMA RisesTrans ==
  ASSUME NEW a, NEW b, NEW c, Rises(a, b), Rises(b, c)
  PROVE  Rises(a, c)
<1>1. EventsFall(a, c)
  BY EventsFallTrans DEF Rises
<1>2. QED
  BY <1>1 DEF Rises

LEMMA FollowsSelf ==
  ASSUME NEW kk, Sound(kk), TimesSound(kk)
  PROVE  Follows(kk, kk)
BY DEF Follows, Rises, EventsFall

LEMMA FollowsTrans ==
  ASSUME NEW a, NEW b, NEW c, Follows(a, b), Follows(b, c)
  PROVE  Follows(a, c)
<1>1. Rises(a, c)
  BY RisesTrans DEF Follows
<1>2. b.current \in AllTasks
  BY SoundTypes DEF Follows
<1>3. IsReady(b, b.current) => IsReady(a, b.current)
  BY <1>2 DEF Follows, Rises
<1>4. a.current = c.current \/ IsReady(a, a.current)
  BY <1>3 DEF Follows
<1>5. QED
  BY <1>1, <1>4 DEF Follows

\* vTaskSwitchContext, or the note that it should be done.
LEMMA SwitchFollows ==
  ASSUME NEW kk, Sound(kk), TimesSound(kk)
  PROVE  Follows(vTaskSwitchContext(kk), kk)
<1> DEFINE r == vTaskSwitchContext(kk)
<1>0. kk \in KernelState /\ kk.schedulerSuspended \in Nat
  BY SoundTypes
<1>1. CASE kk.schedulerSuspended = 0
  <2>1. Sound(r) /\ Highest(r) /\ SwitchedTo(r, kk)
    BY <1>1, Switches
  <2> HIDE DEF r
  <2>2. TimesSound(r)
    BY <2>1 DEF TimesSound, SwitchedTo
  <2>3. Rises(r, kk)
    BY <2>1 DEF Rises, SwitchedTo, EventsFall, Awake, IsPending
  <2>4. Quiet(kk) => Quiet(r)
    BY <2>1 DEF Quiet, SwitchedTo
  <2>5. QED
    BY <1>1, <2>1, <2>2, <2>3, <2>4 DEF Follows, SwitchedTo, Highest, r
<1>2. CASE kk.schedulerSuspended # 0
  <2>1. r = [kk EXCEPT !.missedYield = TRUE]
    BY <1>2 DEF vTaskSwitchContext
  <2> HIDE DEF r
  <2>2. r \in KernelState
    BY <1>0, <2>1 DEF KernelState
  <2>3. /\ SameLists(r, kk) /\ r.current = kk.current
        /\ r.schedulerSuspended = kk.schedulerSuspended
        /\ r.wake = kk.wake /\ r.tick = kk.tick /\ r.nextUnblock = kk.nextUnblock
    BY <1>0, <2>1 DEF KernelState, SameLists
  <2>4. Sound(r) /\ Rises(r, kk)
    BY <2>2, <2>3, SoundSame, RisesSame
  <2>5. TimesSound(r)
    BY <2>3 DEF TimesSound, SameLists
  <2>6. Quiet(r)
    BY <1>2, <2>3 DEF Quiet
  <2>7. QED
    BY <2>3, <2>4, <2>5, <2>6 DEF Follows, r
<1>3. QED
  BY <1>1, <1>2

\* The current task yields, or not.
LEMMA YieldIfFollows ==
  ASSUME NEW kk, Sound(kk), TimesSound(kk), NEW cond
  PROVE  Follows(YieldIf(cond, kk), kk)
BY SwitchFollows, FollowsSelf DEF YieldIf

\* xTaskRemoveFromEventList: the first of the list is awake, and was not.
LEMMA RemoveFollows ==
  ASSUME NEW kk, Sound(kk), TimesSound(kk), NEW e \in EventLists, kk.event[e] # <<>>
  PROVE  LET r == xTaskRemoveFromEventList(kk, e)
             t == Head(kk.event[e])
         IN  /\ Follows(r, kk) /\ r.current = kk.current
             /\ t \in ToSet(kk.event[e]) /\ t \in AllTasks
             /\ Awake(r, t) /\ ~ Awake(kk, t)
<1> DEFINE r == xTaskRemoveFromEventList(kk, e)
           t == Head(kk.event[e])
<1>1. kk \in KernelState /\ kk.event[e] \in Seq(AllTasks)
  BY ListTypes DEF Sound
<1>2. t \in ToSet(kk.event[e]) /\ t \in AllTasks /\ ~ IsReady(kk, t)
  BY <1>1, InList, WaitingIsBlocked
<1>3. ~ IsPending(kk, t)
  BY <1>2 DEF Sound, InPlace, IsWaiting
<1>4. /\ Sound(r) /\ TimesSound(r) /\ Unblocked(r, kk, t)
      /\ kk.schedulerSuspended = 0 => Woken(r, kk, {t})
      /\ kk.schedulerSuspended # 0 => PutOff(r, kk, t)
  BY RemovesFromEventList
<1> HIDE DEF r, t
<1>5. /\ r.current = kk.current /\ r.schedulerSuspended = kk.schedulerSuspended
      /\ r.missedTicks = kk.missedTicks /\ r.missedYield = kk.missedYield
      /\ kk.schedulerSuspended = 0 /\ kk.pendingReady = <<>> => r.pendingReady = <<>>
  BY <1>4 DEF Unblocked, Calm
<1>6. Rises(r, kk) /\ Awake(r, t)
  <2>1. CASE kk.schedulerSuspended = 0
    <3>1. /\ EventsFall(r, kk) /\ ToSet(r.pendingReady) = ToSet(kk.pendingReady) \ {t}
          /\ \A u \in AllTasks : IsReady(r, u) <=> IsReady(kk, u) \/ u \in {t}
      BY <1>4, <2>1 DEF Woken
    <3>2. QED
      BY <1>2, <3>1 DEF Rises, Awake, IsPending
  <2>2. CASE kk.schedulerSuspended # 0
    <3>1. /\ EventsFall(r, kk) /\ ToSet(r.pendingReady) = ToSet(kk.pendingReady) \cup {t}
          /\ \A u \in AllTasks : IsReady(r, u) <=> IsReady(kk, u)
      BY <1>4, <2>2 DEF Unblocked, PutOff
    <3>2. QED
      BY <1>2, <3>1 DEF Rises, Awake, IsPending
  <2>3. QED
    BY <2>1, <2>2
<1>7. Quiet(kk) => Quiet(r)
  BY <1>5 DEF Quiet
<1>8. Follows(r, kk)
  BY <1>4, <1>5, <1>6, <1>7 DEF Follows
<1>9. QED
  BY <1>2, <1>3, <1>5, <1>6, <1>8 DEF r, t, Awake

\* The tick interrupt, with the scheduler running or suspended.
LEMMA TickFollows ==
  ASSUME NEW kk, Sound(kk), TimesSound(kk), Quiet(kk)
  PROVE  Follows(vTaskSwitchContext(vTaskIncrementTick(kk)), kk)
<1> DEFINE r == vTaskSwitchContext(vTaskIncrementTick(kk))
<1>1. CASE kk.schedulerSuspended = 0
  <2> DEFINE m == vTaskIncrementTick(kk)
  <2>1. Sound(m) /\ TimesSound(m) /\ Later(m, kk)
    BY <1>1, IncrementsTick
  <2> HIDE DEF m
  <2>2. kk.pendingReady = <<>> /\ m.pendingReady \in Seq(AllTasks) /\ kk.pendingReady \in Seq(AllTasks)
    BY <1>1, <2>1, ListTypes DEF Quiet, Sound
  <2>3. m.pendingReady = <<>>
    BY <2>1, <2>2, NoMore DEF Later
  <2>4. Rises(m, kk)
    BY <2>1, <2>2, <2>3 DEF Rises, Later, Awake, IsPending
  <2>5. Follows(m, kk)
    BY <2>1, <2>3, <2>4 DEF Follows, Later, Quiet
  <2>6. Follows(vTaskSwitchContext(m), m)
    BY <2>1, SwitchFollows
  <2>7. QED
    BY <2>5, <2>6, FollowsTrans DEF m
<1>2. CASE kk.schedulerSuspended # 0
  <2>1. kk \in KernelState
    BY SoundTypes
  <2>2. /\ r \in KernelState /\ SameLists(r, kk)
        /\ r.current = kk.current /\ r.schedulerSuspended = kk.schedulerSuspended
        /\ r.wake = kk.wake /\ r.tick = kk.tick /\ r.nextUnblock = kk.nextUnblock
    BY <1>2, <2>1, HeldTick
  <2> HIDE DEF r
  <2>3. Sound(r) /\ Rises(r, kk)
    BY <2>2, SoundSame, RisesSame
  <2>4. TimesSound(r)
    BY <2>2 DEF TimesSound, SameLists
  <2>5. QED
    BY <1>2, <2>2, <2>3, <2>4 DEF Follows, Quiet, r
<1>3. QED
  BY <1>1, <1>2

-------------------------------------------------------------------------------
(* Priority inheritance *)

\* t has priority p; nothing else has changed.
Repriced(r, kk, t, p) ==
  /\ r \in KernelState
  /\ r.priority = [kk.priority EXCEPT ![t] = p]
  /\ r.ready = kk.ready /\ r.topReady = kk.topReady
  /\ r.delayed = kk.delayed /\ r.overflowDelayed = kk.overflowDelayed
  /\ r.suspended = kk.suspended /\ r.waitingTermination = kk.waitingTermination
  /\ r.event = kk.event /\ r.pendingReady = kk.pendingReady
  /\ r.wake = kk.wake /\ r.nextUnblock = kk.nextUnblock
  /\ r.current = kk.current /\ r.tick = kk.tick /\ r.overflows = kk.overflows
  /\ r.schedulerSuspended = kk.schedulerSuspended
  /\ r.missedTicks = kk.missedTicks /\ r.missedYield = kk.missedYield

LEMMA WritesPriority ==
  ASSUME NEW kk \in KernelState, NEW t \in AllTasks, NEW p \in Priorities
  PROVE  Repriced(SetPriority(kk, t, p), kk, t, p)
<1> DEFINE f == [kk.priority EXCEPT ![t] = p]
           r == [kk EXCEPT !.priority = f]
<1>1. SetPriority(kk, t, p) = r
  BY DEF SetPriority, KernelState
<1>2. f \in [AllTasks -> Priorities]
  BY DEF KernelState
<1> HIDE DEF f
<1>3. r \in KernelState
  BY <1>2 DEF KernelState
<1>4. r.priority = f
  BY DEF KernelState
<1>5. QED
  BY <1>1, <1>3, <1>4 DEF Repriced, KernelState, f

LEMMA WritesEventValue ==
  ASSUME NEW kk \in KernelState, NEW t \in AllTasks, NEW p \in Priorities, NEW u \in AllTasks
  PROVE  Repriced(SetEventValue(kk, t, p), kk, u, kk.priority[u])
<1> DEFINE f == [kk.eventValue EXCEPT ![t] = MAX_PRIORITIES - p]
           r == [kk EXCEPT !.eventValue = f]
<1>1. SetEventValue(kk, t, p) = r
  BY DEF SetEventValue, KernelState
<1>2. MAX_PRIORITIES - p \in 0 .. MAX_PRIORITIES
  BY KernelAssumption DEF Priorities
<1>3. f \in [AllTasks -> 0 .. MAX_PRIORITIES]
  BY <1>2 DEF KernelState
<1> HIDE DEF f
<1>4. r \in KernelState
  BY <1>3 DEF KernelState
<1>5. kk.priority = [kk.priority EXCEPT ![u] = kk.priority[u]]
  BY DEF KernelState
<1>6. QED
  BY <1>1, <1>4, <1>5 DEF Repriced, KernelState

\* Both, in either order.
LEMMA RepricesTask ==
  ASSUME NEW kk \in KernelState, NEW t \in AllTasks, NEW p \in Priorities
  PROVE  /\ Repriced(SetPriority(SetEventValue(kk, t, p), t, p), kk, t, p)
         /\ Repriced(SetEventValue(SetPriority(kk, t, p), t, p), kk, t, p)
<1> DEFINE a == SetEventValue(kk, t, p)
           b == SetPriority(kk, t, p)
<1>1. Repriced(a, kk, t, kk.priority[t]) /\ Repriced(b, kk, t, p)
  BY WritesPriority, WritesEventValue
<1>2. a \in KernelState /\ b \in KernelState
  BY <1>1 DEF Repriced
<1>3. Repriced(SetPriority(a, t, p), a, t, p) /\ Repriced(SetEventValue(b, t, p), b, t, b.priority[t])
  BY <1>2, WritesPriority, WritesEventValue
<1> HIDE DEF a, b
<1>4. a.priority = kk.priority /\ b.priority = [kk.priority EXCEPT ![t] = p]
      /\ [b.priority EXCEPT ![t] = b.priority[t]] = b.priority
  BY <1>1 DEF Repriced, KernelState
<1>5. Repriced(SetPriority(a, t, p), kk, t, p)
  BY <1>1, <1>3, <1>4 DEF Repriced
<1>6. Repriced(SetEventValue(b, t, p), kk, t, p)
  BY <1>1, <1>3, <1>4 DEF Repriced
<1>7. QED
  BY <1>5, <1>6 DEF a, b

\* Nobody else notices.
LEMMA RepricedOthers ==
  ASSUME NEW kk, Sound(kk), TimesSound(kk), NEW t \in AllTasks, NEW p \in Priorities,
         NEW r, Repriced(r, kk, t, p)
  PROVE  /\ SoundBut(r, t) /\ TimesSound(r)
         /\ \A u \in AllTasks \ {t} : SamePlace(r, kk, u) /\ SameEvent(r, kk, u)
<1>1. kk \in KernelState /\ r \in KernelState
  BY SoundTypes DEF Repriced
<1>2. \A u \in AllTasks \ {t} : SamePlace(r, kk, u) /\ SameEvent(r, kk, u)
  BY <1>1 DEF Repriced, SamePlace, SameEvent, KernelState
<1>3. \A u \in AllTasks \ {t} : InPlace(r, u)
  BY <1>1, <1>2, PlaceKept DEF Sound
<1>4. EventOnce(kk, t)
  BY SoundIsSoundBut DEF SoundBut
<1>5. EventOnce(r, t)
  BY <1>4 DEF EventOnce, Repriced, IsWaiting, IsPending
<1>6. Once(r) /\ TopKnown(r)
  BY DEF Sound, Once, TopKnown, Repriced
<1>7. SoundBut(r, t)
  BY <1>1, <1>3, <1>5, <1>6 DEF SoundBut
<1>8. TimesSound(r)
  BY DEF TimesSound, Repriced
<1>9. QED
  BY <1>2, <1>7, <1>8

\* A ready task with a new priority moves to another ready list.
LEMMA RepricedMoves ==
  ASSUME NEW kk, Sound(kk), TimesSound(kk), NEW t \in AllTasks \ {IdleTask}, NEW p \in Priorities,
         IsReady(kk, t), NEW kp, Repriced(kp, kk, t, p)
  PROVE  LET r == MoveToReady(kp, t)
         IN  Follows(r, kk) /\ r.current = kk.current /\ r.event = kk.event
<1> DEFINE r == MoveToReady(kp, t)
<1>0. kk \in KernelState /\ kp \in KernelState
  BY SoundTypes DEF Repriced
<1>1. /\ SoundBut(kp, t) /\ TimesSound(kp)
      /\ \A u \in AllTasks \ {t} : SamePlace(kp, kk, u) /\ SameEvent(kp, kk, u)
  BY RepricedOthers
<1>2. NoEvent(kk, t)
  BY ReadyNoEvent
<1>3. NoEvent(kp, t)
  BY <1>2 DEF NoEvent, Repriced
<1>4. Sound(r) /\ Moved(r, kp, t) /\ r.event = kp.event /\ r.pendingReady = kp.pendingReady
  BY <1>1, <1>3, MovesToReady
<1> HIDE DEF r
<1>5. LeftDelayed(r, kp, t)
  BY <1>4 DEF Moved, LeftDelayed, Calm
<1>6. TimesSound(r)
  BY <1>0, <1>1, <1>5, TimesWithout DEF SoundBut
<1>7. r.event = kk.event /\ r.pendingReady = kk.pendingReady /\ r.current = kk.current
      /\ r.schedulerSuspended = kk.schedulerSuspended
      /\ r.missedTicks = kk.missedTicks /\ r.missedYield = kk.missedYield
  BY <1>4 DEF Moved, Calm, Repriced
<1>8. \A u \in AllTasks \ {t} : IsReady(r, u) <=> IsReady(kk, u)
  <2> TAKE u \in AllTasks \ {t}
  <2>1. SamePlace(r, kp, u) /\ SamePlace(kp, kk, u)
    BY <1>1, <1>4 DEF Moved
  <2>2. SamePlace(r, kk, u)
    BY <2>1, SamePlaceTrans
  <2>3. QED
    BY <1>0, <2>2, SameReady
<1>9. IsReady(r, t)
  BY <1>4 DEF Moved
<1>10. Rises(r, kk)
  BY <1>7, <1>8, <1>9 DEF Rises, EventsFall, Awake, IsPending
<1>11. QED
  BY <1>4, <1>6, <1>7, <1>10 DEF Follows, Quiet, r

\* vTaskPriorityDisinherit, of a task that is ready.
LEMMA DisinheritFollows ==
  ASSUME NEW kk, Sound(kk), TimesSound(kk), NEW t \in AllTasks \ {IdleTask}, IsReady(kk, t)
  PROVE  LET r == vTaskPriorityDisinherit(kk, t)
         IN  Follows(r, kk) /\ r.current = kk.current /\ r.event = kk.event
<1> DEFINE p == kk.basePriority[t]
           kp == SetEventValue(SetPriority(kk, t, p), t, p)
<1>1. kk \in KernelState /\ p \in Priorities
  <2>1. kk \in KernelState
    BY SoundTypes
  <2>2. kk.basePriority \in [AllTasks -> Priorities]
    BY <2>1 DEF KernelState
  <2>3. QED
    BY <2>1, <2>2
<1>2. Repriced(kp, kk, t, p)
  BY <1>1, RepricesTask
<1>3. vTaskPriorityDisinherit(kk, t) = IF kk.priority[t] = p THEN kk ELSE MoveToReady(kp, t)
  BY DEF vTaskPriorityDisinherit
<1> HIDE DEF p, kp
<1>4. CASE kk.priority[t] = p
  BY <1>3, <1>4, FollowsSelf
<1>5. CASE kk.priority[t] # p
  BY <1>1, <1>2, <1>3, <1>5, RepricedMoves
<1>6. QED
  BY <1>4, <1>5

\* vTaskPriorityInherit, whatever the holder does.
LEMMA InheritFollows ==
  ASSUME NEW kk, Sound(kk), TimesSound(kk), NEW t \in AllTasks \ {IdleTask}
  PROVE  LET r == vTaskPriorityInherit(kk, t)
         IN  Follows(r, kk) /\ r.current = kk.current /\ r.event = kk.event
<1> DEFINE p == kk.priority[kk.current]
           kp == SetPriority(SetEventValue(kk, t, p), t, p)
<1>1. kk \in KernelState /\ p \in Priorities
  BY SoundTypes
<1>2. Repriced(kp, kk, t, p)
  BY <1>1, RepricesTask
<1>3. vTaskPriorityInherit(kk, t) =
        IF kk.priority[t] >= p THEN kk ELSE IF IsReady(kk, t) THEN MoveToReady(kp, t) ELSE kp
  BY DEF vTaskPriorityInherit
<1> HIDE DEF p, kp
<1>4. CASE kk.priority[t] >= p
  BY <1>3, <1>4, FollowsSelf
<1>5. CASE ~ (kk.priority[t] >= p) /\ IsReady(kk, t)
  BY <1>1, <1>2, <1>3, <1>5, RepricedMoves
<1>6. CASE ~ (kk.priority[t] >= p) /\ ~ IsReady(kk, t)
  <2>1. /\ SoundBut(kp, t) /\ TimesSound(kp)
        /\ \A u \in AllTasks \ {t} : SamePlace(kp, kk, u) /\ SameEvent(kp, kk, u)
    BY <1>1, <1>2, RepricedOthers
  <2>2. InPlace(kk, t)
    BY DEF Sound
  <2>3. \A x \in Priorities : t \notin ToSet(kk.ready[x])
    BY <1>6, <2>2 DEF InPlace, IsReady
  <2>4. kp.ready = kk.ready /\ kp.event = kk.event /\ kp.pendingReady = kk.pendingReady
        /\ kp.priority[t] \in Priorities
    BY <1>2 DEF Repriced, KernelState
  <2>5. ~ IsReady(kp, t)
    BY <2>3, <2>4 DEF IsReady
  <2>6. InPlace(kp, t)
    BY <1>2, <2>2, <2>3, <2>4, <2>5 DEF InPlace, Repriced, IsDelayed, IsWaiting, IsPending
  <2>7. Sound(kp)
    BY <2>1, <2>6 DEF SoundBut, Sound
  <2>8. \A u \in AllTasks \ {t} : IsReady(kp, u) <=> IsReady(kk, u)
    BY <1>1, <2>1, SameReady
  <2>9. Rises(kp, kk)
    BY <1>6, <2>4, <2>8 DEF Rises, EventsFall, Awake, IsPending
  <2>10. Follows(kp, kk) /\ kp.current = kk.current
    BY <1>2, <2>1, <2>7, <2>9 DEF Follows, Quiet, Repriced
  <2>11. QED
    BY <1>3, <1>6, <2>4, <2>10
<1>7. QED
  BY <1>4, <1>5, <1>6

-------------------------------------------------------------------------------
(* Going to sleep, and the end of a suspension of the scheduler *)

\* Another task than the current one stays as awake as it was.
LEMMA PartedOthers ==
  ASSUME NEW kk, Sound(kk), NEW r, Parted(r, kk), NEW u \in AllTasks \ {kk.current}
  PROVE  (IsReady(r, u) <=> IsReady(kk, u)) /\ (Awake(r, u) <=> Awake(kk, u))
<1>1. SamePlace(r, kk, u) /\ r.pendingReady = kk.pendingReady /\ kk \in KernelState
  BY SoundTypes DEF Parted
<1>2. IsReady(r, u) <=> IsReady(kk, u)
  BY <1>1, SameReady
<1>3. QED
  BY <1>1, <1>2 DEF Awake, IsPending

\* xTaskResumeAll: what was put off is done.
LEMMA ResumeRises ==
  ASSUME NEW kk, Sound(kk), TimesSound(kk), kk.schedulerSuspended = 1
  PROVE  LET r == xTaskResumeAll(kk)
         IN  /\ Sound(r) /\ TimesSound(r) /\ Rises(r, kk) /\ Quiet(r) /\ r.schedulerSuspended = 0
             /\ IsReady(r, r.current) \/ (r.current = kk.current /\ ~ AlreadyYielded(kk))
<1> DEFINE r == xTaskResumeAll(kk)
<1>1. Sound(r) /\ TimesSound(r) /\ Resumed(r, kk) /\ CaughtUp(r, kk)
  BY ResumesAll
<1> HIDE DEF r
<1>2. Quiet(r) /\ r.schedulerSuspended = 0 /\ EventsFall(r, kk)
  BY <1>1 DEF Resumed, Quiet
<1>3. \A u \in AllTasks : IsReady(kk, u) \/ IsPending(kk, u) => IsReady(r, u)
  BY <1>1 DEF CaughtUp
<1>4. Rises(r, kk)
  BY <1>2, <1>3 DEF Rises, Awake
<1>5. IsReady(r, r.current) \/ (r.current = kk.current /\ ~ AlreadyYielded(kk))
  BY <1>1 DEF Resumed, Highest
<1>6. QED
  BY <1>1, <1>2, <1>4, <1>5 DEF r

-------------------------------------------------------------------------------
(* The time that is left to those who wait *)

\* u waits only if it did, and until the same tick.
Rests(r, kk, u) ==
  /\ u \in r.suspended => u \in kk.suspended
  /\ IsDelayed(r, u) =>
       /\ IsDelayed(kk, u)
       /\ ~ IsPending(r, u) => ~ IsPending(kk, u) /\ r.wake[u] = kk.wake[u]

\* Time stands still, and nobody of S begins to wait.
Still(r, kk, S) ==
  /\ r.tick = kk.tick /\ r.overflows = kk.overflows /\ r.missedTicks = kk.missedTicks
  /\ \A u \in S : Rests(r, kk, u)

\* n ticks are counted. Nobody begins to wait; who still does has n ticks less to.
Counts(r, kk, n) ==
  /\ r.tick = (kk.tick + n) % TICK_MOD
  /\ r.overflows # kk.overflows => kk.tick + n >= TICK_MOD
  /\ \A u \in AllTasks :
       /\ u \in r.suspended => u \in kk.suspended
       /\ IsDelayed(r, u) =>
            /\ IsDelayed(kk, u)
            /\ ~ IsPending(r, u) => ~ IsPending(kk, u) /\ TicksLeft(r, u) = TicksLeft(kk, u) - n

\* t, if it waits, waits for n ticks, or for ever.
WaitsFor(r, t, n) ==
  /\ t \in r.suspended => n = portMAX_DELAY
  /\ IsDelayed(r, t) => n # portMAX_DELAY /\ (~ IsPending(r, t) => TicksLeft(r, t) = n)

LEMMA StillSelf ==
  ASSUME NEW kk, NEW S
  PROVE  Still(kk, kk, S)
BY DEF Still, Rests

LEMMA StillTrans ==
  ASSUME NEW a, NEW b, NEW c, NEW S, Still(a, b, S), Still(b, c, S)
  PROVE  Still(a, c, S)
BY DEF Still, Rests

LEMMA StillSame ==
  ASSUME NEW kk, NEW r, SameLists(r, kk), r.wake = kk.wake, r.tick = kk.tick,
         r.overflows = kk.overflows, r.missedTicks = kk.missedTicks
  PROVE  Still(r, kk, AllTasks)
BY DEF Still, Rests, SameLists, IsDelayed, IsPending

\* A number of ticks later, what the tick count has gone on by.
LEMMA TicksApart ==
  ASSUME NEW x \in Ticks, NEW n \in Ticks
  PROVE  (((x + n) % TICK_MOD) - x) % TICK_MOD = n
<1> DEFINE M == TICK_MOD
<1>1. M \in Nat /\ M > 2 /\ x \in 0 .. M - 1 /\ n \in 0 .. M - 1
  BY KernelAssumption DEF Ticks
<1> HIDE DEF M
<1>2. x + n \in Int /\ n \in Ticks /\ n \in Int
  BY <1>1
<1>3. CASE x + n < M
  <2>1. x + n \in Ticks
    BY <1>1, <1>3 DEF Ticks, M
  <2>2. (x + n) % TICK_MOD = x + n
    BY <1>2, <2>1, TicksWrap
  <2>3. (x + n) - x = n
    BY <1>1
  <2> QED
    BY <1>2, <2>2, <2>3, TicksWrap
<1>4. CASE x + n >= M
  <2>1. x + n \in M .. 2 * M - 1
    BY <1>1, <1>4
  <2>2. (x + n) % TICK_MOD = (x + n) - M
    BY <1>2, <2>1, TicksWrap DEF M
  <2>3. ((x + n) - M) - x = n - M /\ n - M \in Int /\ n - M \in -M .. -1
    BY <1>1
  <2>4. (n - M) % TICK_MOD = (n - M) + M
    BY <2>3, TicksWrap DEF M
  <2>5. (n - M) + M = n
    BY <1>1
  <2> QED
    BY <2>2, <2>3, <2>4, <2>5
<1> QED
  BY <1>1, <1>3, <1>4

\* vTaskSwitchContext, or the note that it should be done.
LEMMA SwitchStill ==
  ASSUME NEW kk, Sound(kk)
  PROVE  Still(vTaskSwitchContext(kk), kk, AllTasks)
<1> DEFINE r == vTaskSwitchContext(kk)
<1>1. CASE kk.schedulerSuspended = 0
  <2>1. SwitchedTo(r, kk)
    BY <1>1, Switches
  <2> HIDE DEF r
  <2>2. Still(r, kk, AllTasks)
    BY <2>1 DEF SwitchedTo, Still, Rests, IsDelayed, IsPending
  <2> QED
    BY <2>2 DEF r
<1>2. CASE kk.schedulerSuspended # 0
  <2>1. r = [kk EXCEPT !.missedYield = TRUE]
    BY <1>2 DEF vTaskSwitchContext
  <2> HIDE DEF r
  <2>2. kk \in KernelState
    BY SoundTypes
  <2>3. /\ SameLists(r, kk) /\ r.wake = kk.wake /\ r.tick = kk.tick
        /\ r.overflows = kk.overflows /\ r.missedTicks = kk.missedTicks
    BY <2>1, <2>2 DEF KernelState, SameLists
  <2>4. Still(r, kk, AllTasks)
    BY <2>3, StillSame
  <2> QED
    BY <2>4 DEF r
<1> QED
  BY <1>1, <1>2

LEMMA YieldIfStill ==
  ASSUME NEW kk, Sound(kk), NEW cond
  PROVE  Still(YieldIf(cond, kk), kk, AllTasks)
BY SwitchStill, StillSelf DEF YieldIf

\* xTaskRemoveFromEventList: the one that is woken waits no more, the others wait on.
LEMMA RemoveStill ==
  ASSUME NEW kk, Sound(kk), TimesSound(kk), NEW e \in EventLists, kk.event[e] # <<>>
  PROVE  Still(xTaskRemoveFromEventList(kk, e), kk, AllTasks)
<1> DEFINE r == xTaskRemoveFromEventList(kk, e)
           t == Head(kk.event[e])
<1>1. /\ Unblocked(r, kk, t)
      /\ kk.schedulerSuspended = 0 => Woken(r, kk, {t})
      /\ kk.schedulerSuspended # 0 => PutOff(r, kk, t)
  BY RemovesFromEventList
<1> HIDE DEF r, t
<1>2. r.tick = kk.tick /\ r.overflows = kk.overflows /\ r.missedTicks = kk.missedTicks
  BY <1>1 DEF Unblocked, Calm
<1>3. ASSUME NEW u \in AllTasks PROVE Rests(r, kk, u)
  <2>1. CASE kk.schedulerSuspended = 0
    BY <1>1, <2>1 DEF Woken, Rests, IsDelayed, IsPending
  <2>2. CASE kk.schedulerSuspended # 0
    BY <1>1, <2>2 DEF PutOff, SamePlace, Rests, IsDelayed, IsPending
  <2> QED
    BY <2>1, <2>2
<1>4. Still(r, kk, AllTasks)
  BY <1>2, <1>3 DEF Still
<1> QED
  BY <1>4 DEF r

\* A ready task with a new priority, in another ready list.
LEMMA RepricedMovesStill ==
  ASSUME NEW kk, Sound(kk), TimesSound(kk), NEW t \in AllTasks \ {IdleTask}, NEW p \in Priorities,
         IsReady(kk, t), NEW kp, Repriced(kp, kk, t, p)
  PROVE  Still(MoveToReady(kp, t), kk, AllTasks)
<1> DEFINE r == MoveToReady(kp, t)
<1>1. SoundBut(kp, t)
  BY RepricedOthers
<1>2. NoEvent(kk, t)
  BY ReadyNoEvent
<1>3. NoEvent(kp, t)
  BY <1>2 DEF NoEvent, Repriced
<1>4. Moved(r, kp, t) /\ r.pendingReady = kp.pendingReady
  BY <1>1, <1>3, MovesToReady
<1>5. kp \in KernelState /\ Once(kp)
  BY <1>1 DEF SoundBut
<1> HIDE DEF r
<1>6. /\ ToSet(r.delayed) = ToSet(kp.delayed) \ {t}
      /\ ToSet(r.overflowDelayed) = ToSet(kp.overflowDelayed) \ {t}
      /\ r.suspended = kp.suspended \ {t}
  <2>1. /\ ToSet(vListRemove(kp.delayed, t)) = ToSet(kp.delayed) \ {t}
        /\ ToSet(vListRemove(kp.overflowDelayed, t)) = ToSet(kp.overflowDelayed) \ {t}
    BY <1>5, TakenOut
  <2>2. /\ r.delayed = vListRemove(kp.delayed, t)
        /\ r.overflowDelayed = vListRemove(kp.overflowDelayed, t)
        /\ r.suspended = kp.suspended \ {t}
    BY <1>4 DEF Moved
  <2> QED
    BY <2>1, <2>2
<1>7. \A u \in AllTasks \ {t} : r.wake[u] = kp.wake[u]
  BY <1>4, <1>5 DEF Moved, KernelState
<1>8. \A u \in AllTasks : Rests(r, kk, u)
  BY <1>4, <1>6, <1>7 DEF Rests, IsDelayed, IsPending, Repriced
<1>9. r.tick = kk.tick /\ r.overflows = kk.overflows /\ r.missedTicks = kk.missedTicks
  BY <1>4 DEF Moved, Calm, Repriced
<1>10. Still(r, kk, AllTasks)
  BY <1>8, <1>9 DEF Still
<1> QED
  BY <1>10 DEF r

\* vTaskPriorityDisinherit, of a task that is ready.
LEMMA DisinheritStill ==
  ASSUME NEW kk, Sound(kk), TimesSound(kk), NEW t \in AllTasks \ {IdleTask}, IsReady(kk, t)
  PROVE  Still(vTaskPriorityDisinherit(kk, t), kk, AllTasks)
<1> DEFINE p == kk.basePriority[t]
           kp == SetEventValue(SetPriority(kk, t, p), t, p)
<1>1. kk \in KernelState
  BY SoundTypes
<1>2. kk.basePriority \in [AllTasks -> Priorities]
  BY <1>1 DEF KernelState
<1>3. p \in Priorities
  BY <1>2
<1>4. Repriced(kp, kk, t, p)
  BY <1>1, <1>3, RepricesTask
<1>5. vTaskPriorityDisinherit(kk, t) = IF kk.priority[t] = p THEN kk ELSE MoveToReady(kp, t)
  BY DEF vTaskPriorityDisinherit
<1> HIDE DEF p, kp
<1> QED
  BY <1>3, <1>4, <1>5, RepricedMovesStill, StillSelf

\* vTaskPriorityInherit, whatever the holder does.
LEMMA InheritStill ==
  ASSUME NEW kk, Sound(kk), TimesSound(kk), NEW t \in AllTasks \ {IdleTask}
  PROVE  Still(vTaskPriorityInherit(kk, t), kk, AllTasks)
<1> DEFINE p == kk.priority[kk.current]
           kp == SetPriority(SetEventValue(kk, t, p), t, p)
<1>1. kk \in KernelState /\ p \in Priorities
  BY SoundTypes
<1>2. Repriced(kp, kk, t, p)
  BY <1>1, RepricesTask
<1>3. vTaskPriorityInherit(kk, t) =
        IF kk.priority[t] >= p THEN kk ELSE IF IsReady(kk, t) THEN MoveToReady(kp, t) ELSE kp
  BY DEF vTaskPriorityInherit
<1> HIDE DEF p, kp
<1>4. Still(kp, kk, AllTasks)
  BY <1>2 DEF Repriced, Still, Rests, IsDelayed, IsPending
<1>5. IsReady(kk, t) => Still(MoveToReady(kp, t), kk, AllTasks)
  BY <1>1, <1>2, RepricedMovesStill
<1> QED
  BY <1>3, <1>4, <1>5, StillSelf

\* The current task blocks; the others wait on.
LEMMA PartedStill ==
  ASSUME NEW kk, NEW r, Parted(r, kk)
  PROVE  Still(r, kk, AllTasks \ {kk.current})
BY DEF Parted, Calm, SamePlace, Still, Rests, IsDelayed, IsPending

\* The current task waits for exactly the ticks it asks for.
LEMMA BlocksWaits ==
  ASSUME NEW kk, NEW n \in 1 .. portMAX_DELAY, SoundBut(kk, kk.current),
         kk.current # IdleTask
  PROVE  LET r == BlockCurrentFor(kk, n)
         IN  kk.current \notin r.suspended /\ TicksLeft(r, kk.current) = n
<1> DEFINE w == (kk.tick + n) % TICK_MOD
           t == kk.current
           g == RemoveGenericItem(kk, t)
           r == prvAddCurrentTaskToDelayedList(g, w)
<1>1. kk.tick \in Ticks /\ t \in AllTasks /\ kk \in KernelState
  BY FieldTypes DEF SoundBut
<1>2. w \in Ticks
  BY <1>1, WakeAhead
<1>3. BlockCurrentFor(kk, n) = r
  BY DEF BlockCurrentFor
<1>4. n \in Ticks
  BY KernelAssumption DEF Ticks, portMAX_DELAY
<1>5. (w - kk.tick) % TICK_MOD = n
  BY <1>1, <1>4, TicksApart
<1> HIDE DEF w
<1>6. /\ Sound(r) /\ Calm(r, kk) /\ IsDelayed(r, t)
      /\ GenericGone(g, kk, t) /\ DelayedTo(r, g, w)
  BY <1>2, Blocks
<1> HIDE DEF r, g
<1>7. t \notin r.suspended
  BY <1>1, <1>6 DEF Sound, InPlace
<1>8. g.wake = [kk.wake EXCEPT ![t] = 0] /\ g.current = t
  BY <1>6 DEF GenericGone, Calm
<1>9. r.wake = [g.wake EXCEPT ![t] = w]
  BY <1>6, <1>8 DEF DelayedTo
<1>10. kk.wake \in [AllTasks -> Ticks]
  BY <1>1 DEF KernelState
<1>11. r.wake[t] = w
  BY <1>1, <1>8, <1>9, <1>10
<1>12. r.tick = kk.tick
  BY <1>6 DEF Calm
<1>13. TicksLeft(r, t) = n
  BY <1>5, <1>11, <1>12 DEF TicksLeft
<1> QED
  BY <1>3, <1>7, <1>13

\* vTaskPlaceOnEventList: for the ticks it asks for, or for ever.
LEMMA PlacesWaits ==
  ASSUME NEW kk, Sound(kk), TimesSound(kk), NEW e \in EventLists,
         NEW n \in 1 .. portMAX_DELAY, IsReady(kk, kk.current), kk.current # IdleTask
  PROVE  WaitsFor(vTaskPlaceOnEventList(kk, e, n), kk.current, n)
<1> DEFINE t == kk.current
           ke == [kk EXCEPT !.event[e] = vListInsert(@, t, kk.eventValue)]
           r == vTaskPlaceOnEventList(kk, e, n)
<1>1. SoundBut(ke, t) /\ Calm(ke, kk)
  BY PutsOnEventList
<1>2. r = IF n = portMAX_DELAY
          THEN [RemoveGenericItem(ke, t) EXCEPT !.suspended = @ \cup {t}]
          ELSE BlockCurrentFor(ke, n)
  BY DEF vTaskPlaceOnEventList
<1>3. t \in AllTasks
  BY SoundTypes
<1> HIDE DEF ke, r
<1>4. ke.current = t
  BY <1>1 DEF Calm
<1>5. CASE n = portMAX_DELAY
  <2>1. Sound(r) /\ SuspendedTo(r, ke, t)
    BY <1>1, <1>2, <1>3, <1>5, Suspends
  <2>2. t \in r.suspended
    BY <2>1 DEF SuspendedTo
  <2>3. ~ IsDelayed(r, t)
    BY <1>3, <2>1, <2>2 DEF Sound, InPlace
  <2> QED
    BY <1>5, <2>3 DEF WaitsFor, r
<1>6. CASE n # portMAX_DELAY
  <2>1. r = BlockCurrentFor(ke, n)
    BY <1>2, <1>6
  <2>2. t \notin r.suspended /\ TicksLeft(r, t) = n
    BY <1>1, <1>4, <2>1, BlocksWaits
  <2> QED
    BY <1>6, <2>2 DEF WaitsFor, r
<1> QED
  BY <1>5, <1>6

\* The tick interrupt: the tick is counted now, or put off.
LEMMA TickCounts ==
  ASSUME NEW kk, Sound(kk), TimesSound(kk), Quiet(kk)
  PROVE  \E n \in 0 .. 1 :
           /\ Counts(vTaskSwitchContext(vTaskIncrementTick(kk)), kk, n)
           /\ vTaskSwitchContext(vTaskIncrementTick(kk)).missedTicks + n = kk.missedTicks + 1
           /\ kk.schedulerSuspended # 0 => n = 0
<1> DEFINE r == vTaskSwitchContext(vTaskIncrementTick(kk))
<1>0. kk \in KernelState /\ kk.missedTicks \in Nat /\ kk.tick \in Ticks /\ kk.tick \in Int
  BY SoundTypes, KernelAssumption DEF Ticks
<1>1. CASE kk.schedulerSuspended = 0
  <2> DEFINE m == vTaskIncrementTick(kk)
  <2>1. Sound(m) /\ Later(m, kk) /\ Elapsed(m, kk, 1)
    BY <1>1, IncrementsTick
  <2>2. Still(r, m, AllTasks)
    BY <2>1, SwitchStill
  <2> HIDE DEF m, r
  <2>3. r.missedTicks = kk.missedTicks
    BY <2>1, <2>2 DEF Later, Still
  <2>4. r.tick = (kk.tick + 1) % TICK_MOD
        /\ (r.overflows # kk.overflows => kk.tick + 1 >= TICK_MOD)
    BY <2>1, <2>2 DEF Elapsed, Still
  <2>5. ASSUME NEW u \in AllTasks
        PROVE  /\ u \in r.suspended => u \in kk.suspended
               /\ IsDelayed(r, u) =>
                    /\ IsDelayed(kk, u)
                    /\ ~ IsPending(r, u) => ~ IsPending(kk, u) /\ TicksLeft(r, u) = TicksLeft(kk, u) - 1
    <3>1. Rests(r, m, u) /\ r.tick = m.tick
      BY <2>2 DEF Still
    <3>2. /\ m.suspended = kk.suspended
          /\ IsDelayed(m, u) => IsDelayed(kk, u) /\ TicksLeft(m, u) = TicksLeft(kk, u) - 1
      BY <2>1 DEF Elapsed
    <3>3. ~ IsPending(kk, u)
      BY <1>1, EmptySorted DEF Quiet, IsPending
    <3> QED
      BY <3>1, <3>2, <3>3 DEF Rests, TicksLeft
  <2>6. Counts(r, kk, 1)
    BY <2>4, <2>5 DEF Counts
  <2> QED
    BY <1>1, <2>3, <2>6 DEF r
<1>2. CASE kk.schedulerSuspended # 0
  <2>1. /\ SameLists(r, kk) /\ r.wake = kk.wake /\ r.tick = kk.tick
        /\ r.overflows = kk.overflows /\ r.missedTicks = kk.missedTicks + 1
    BY <1>0, <1>2, HeldTick
  <2> HIDE DEF r
  <2>2. r.missedTicks + 0 = kk.missedTicks + 1
    BY <1>0, <2>1
  <2>3. kk.tick + 0 = kk.tick /\ kk.tick % TICK_MOD = kk.tick
    BY <1>0, TicksWrap
  <2>4. \A u \in AllTasks : IsDelayed(kk, u) => TicksLeft(kk, u) = TicksLeft(kk, u) - 0
    <3>1. \A u \in AllTasks : IsDelayed(kk, u) => TicksLeft(kk, u) \in Int
      BY LeftIs, KernelAssumption DEF portMAX_DELAY
    <3> QED
      BY <3>1
  <2>5. /\ r.suspended = kk.suspended
        /\ \A u \in AllTasks : /\ IsDelayed(r, u) <=> IsDelayed(kk, u)
                               /\ IsPending(r, u) <=> IsPending(kk, u)
                               /\ TicksLeft(r, u) = TicksLeft(kk, u)
    BY <2>1 DEF SameLists, IsDelayed, IsPending, TicksLeft
  <2>6. Counts(r, kk, 0)
    BY <2>1, <2>3, <2>4, <2>5 DEF Counts
  <2> QED
    BY <2>2, <2>6 DEF r
<1> QED
  BY <1>1, <1>2

\* xTaskResumeAll counts all the ticks that were put off.
LEMMA ResumeCounts ==
  ASSUME NEW kk, Sound(kk), TimesSound(kk), kk.schedulerSuspended = 1
  PROVE  LET r == xTaskResumeAll(kk)
         IN  Counts(r, kk, kk.missedTicks) /\ r.missedTicks = 0
<1> DEFINE r == xTaskResumeAll(kk)
<1>1. Resumed(r, kk) /\ CaughtUp(r, kk)
  BY ResumesAll
<1> HIDE DEF r
<1>2. Counts(r, kk, kk.missedTicks)
  BY <1>1 DEF CaughtUp, Counts
<1>3. r.missedTicks = 0
  BY <1>1 DEF Resumed
<1> QED
  BY <1>2, <1>3 DEF r

===============================================================================
