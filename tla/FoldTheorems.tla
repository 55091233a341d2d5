------------------------------ MODULE FoldTheorems ------------------------------
(***************************************************************************)
(* Facts about the folds of the community modules, for every finite set.   *)
(* The operators of the model sum a histogram's buckets with               *)
(* MapThenSumSet and walk tables and lists with FoldLeft; both unfold to   *)
(* one recursive function on the subsets of a set.  Induction is over sets *)
(* of natural numbers, which needs no predicate as a parameter.            *)
(***************************************************************************)
EXTENDS Integers, Sequences, SequencesExt, FiniteSetsExt, FiniteSetTheorems, TLAPS

\* Every nonempty set of natural numbers has a least element.
LEMMA LeastNatural ==
  ASSUME NEW T \in SUBSET Nat, T # {}
  PROVE  \E x \in T : \A y \in T : x <= y
<1> DEFINE R == OpToRel(<, Nat)
<1>1. IsWellFoundedOn(R, Nat)
  BY NatLessThanWellFounded
<1>2. \A x, y \in Nat : y < x => <<y, x>> \in R
  BY DEF OpToRel
<1> HIDE DEF R
<1>3. \E x \in T : \A y \in T : ~ (<<y, x>> \in R)
  BY <1>1, WFMin
<1>4. \E x \in T : \A y \in T : ~ (y < x)
  BY <1>2, <1>3
<1>5. QED
  BY <1>4

\* Induction: a set with 0 and with the successor of each of its elements has every
\* natural number.
LEMMA SetInduction ==
  ASSUME NEW T, 0 \in T, \A n \in Nat : n \in T => n + 1 \in T
  PROVE  \A n \in Nat : n \in T
<1>1. SUFFICES ASSUME NEW k \in Nat, ~ (k \in T) PROVE FALSE
  OBVIOUS
<1> DEFINE Missing == {n \in Nat : ~ (n \in T)}
<1>2. Missing \in SUBSET Nat /\ Missing # {}
  BY <1>1
<1>3. PICK m \in Missing : \A n \in Missing : m <= n
  BY <1>2, LeastNatural
<1>4. m \in Nat /\ m # 0 /\ ~ (m \in T)
  BY <1>3
<1>5. m - 1 \in Nat /\ (m - 1) + 1 = m /\ ~ (m <= m - 1)
  BY <1>4
<1>6. m - 1 \in T
  BY <1>3, <1>5
<1>7. QED
  BY <1>4, <1>5, <1>6

-------------------------------------------------------------------------------
(* The recursive function behind a fold: elements leave a set in the order *)
(* that ch says, and G combines each with the fold of the rest.            *)

Folds(g, S, ch, base, G) ==
  \A s \in SUBSET S : g[s] = IF s = {} THEN base ELSE G[<<ch[s], g[s \ {ch[s]}]>>]

\* A step takes one element out of a set, and leaves a smaller subset.
LEMMA TakeOut ==
  ASSUME NEW S, IsFiniteSet(S), NEW s \in SUBSET S, NEW x \in s
  PROVE  /\ IsFiniteSet(s) /\ s \ {x} \in SUBSET S
         /\ Cardinality(s) \in Nat /\ Cardinality(s \ {x}) \in Nat
         /\ Cardinality(s) = Cardinality(s \ {x}) + 1
<1>1. IsFiniteSet(s)
  BY FS_Subset
<1>2. Cardinality(s) \in Nat
  BY <1>1, FS_CardinalityType
<1>3. IsFiniteSet(s \ {x}) /\ Cardinality(s \ {x}) = Cardinality(s) - 1
  BY <1>1, FS_RemoveElement
<1>4. Cardinality(s \ {x}) \in Nat
  BY <1>3, FS_CardinalityType
<1>5. QED
  BY <1>1, <1>2, <1>3, <1>4

\* There is such a function: the recursive definition defines something.
LEMMA FoldExists ==
  ASSUME NEW S, IsFiniteSet(S), NEW ch, NEW R, NEW base \in R, NEW G \in [S \X R -> R],
         \A s \in SUBSET S : s # {} => ch[s] \in s
  PROVE  \E g \in [SUBSET S -> R] : Folds(g, S, ch, base, G)
<1> DEFINE Body(g, s) == IF s = {} THEN base ELSE G[<<ch[s], g[s \ {ch[s]}]>>]
           UpTo(g, n) == \A s \in SUBSET S : Cardinality(s) <= n => g[s] = Body(g, s)
           T == {n \in Nat : \E g \in [SUBSET S -> R] : UpTo(g, n)}
<1>1. 0 \in T
  <2> DEFINE g == [s \in SUBSET S |-> base]
  <2>1. g \in [SUBSET S -> R]
    OBVIOUS
  <2>2. ASSUME NEW s \in SUBSET S, Cardinality(s) <= 0 PROVE s = {}
    <3>1. IsFiniteSet(s)
      BY FS_Subset
    <3>2. Cardinality(s) = 0
      BY <3>1, <2>2, FS_CardinalityType
    <3>3. QED
      BY <3>1, <3>2, FS_EmptySet
  <2>3. UpTo(g, 0)
    BY <2>2
  <2>4. QED
    BY <2>1, <2>3
<1>2. ASSUME NEW n \in Nat, n \in T PROVE n + 1 \in T
  <2>1. PICK g \in [SUBSET S -> R] : UpTo(g, n)
    BY <1>2
  <2> DEFINE h == [s \in SUBSET S |-> Body(g, s)]
  <2>2. ASSUME NEW s \in SUBSET S PROVE Body(g, s) \in R
    <3>1. CASE s = {}
      BY <3>1
    <3>2. CASE s # {}
      <4>1. ch[s] \in S /\ s \ {ch[s]} \in SUBSET S
        BY <3>2
      <4>2. g[s \ {ch[s]}] \in R
        BY <4>1
      <4>3. QED
        BY <3>2, <4>1, <4>2
    <3>3. QED
      BY <3>1, <3>2
  <2>3. h \in [SUBSET S -> R]
    BY <2>2
  <2>4. ASSUME NEW s \in SUBSET S, Cardinality(s) <= n + 1 PROVE h[s] = Body(h, s)
    <3>1. CASE s = {}
      BY <3>1
    <3>2. CASE s # {}
      <4> DEFINE r == s \ {ch[s]}
      <4>1. ch[s] \in s
        BY <3>2
      <4>2. r \in SUBSET S /\ Cardinality(r) <= n
        BY <4>1, <2>4, TakeOut
      <4>3. g[r] = Body(g, r)
        BY <4>2, <2>1
      <4>4. h[r] = g[r]
        BY <4>2, <4>3
      <4>5. h[s] = G[<<ch[s], g[r]>>]
        BY <3>2
      <4>6. QED
        BY <3>2, <4>4, <4>5
    <3>3. QED
      BY <3>1, <3>2
  <2>5. UpTo(h, n + 1)
    BY <2>4
  <2> HIDE DEF h, UpTo
  <2>6. \E k \in [SUBSET S -> R] : UpTo(k, n + 1)
    BY <2>3, <2>5
  <2>7. QED
    BY <2>6
<1> HIDE DEF T
<1>3. Cardinality(S) \in T
  BY <1>1, <1>2, SetInduction, FS_CardinalityType
<1>4. PICK g \in [SUBSET S -> R] : UpTo(g, Cardinality(S))
  BY <1>3 DEF T
<1>5. ASSUME NEW s \in SUBSET S PROVE Cardinality(s) <= Cardinality(S)
  BY FS_Subset
<1>6. Folds(g, S, ch, base, G)
  BY <1>4, <1>5 DEF Folds
<1>7. QED
  BY <1>4, <1>6

\* ch takes an element of every nonempty subset of S.
Chooses(ch, S) == \A s \in SUBSET S : s # {} => ch[s] \in s

\* g and h agree on a set whenever they do without its next element.
AgreeByStep(g, h, ch, S) ==
  \A s \in SUBSET S : s # {} /\ g[s \ {ch[s]}] = h[s \ {ch[s]}] => g[s] = h[s]

\* And there is only one: two functions agree on the subsets of a set if they agree
\* on the empty set, and on a set whenever they do without its next element.
LEMMA FoldUnique ==
  ASSUME NEW S, IsFiniteSet(S), NEW ch, Chooses(ch, S),
         NEW g, NEW h, g[{}] = h[{}], AgreeByStep(g, h, ch, S)
  PROVE  \A s \in SUBSET S : g[s] = h[s]
<1> DEFINE T == {n \in Nat : \A s \in SUBSET S : Cardinality(s) = n => g[s] = h[s]}
<1>1. 0 \in T
  <2>1. ASSUME NEW s \in SUBSET S, Cardinality(s) = 0 PROVE g[s] = h[s]
    <3>1. IsFiniteSet(s)
      BY FS_Subset
    <3>2. s = {}
      BY <3>1, <2>1, FS_EmptySet
    <3>3. QED
      BY <3>2
  <2>2. QED
    BY <2>1
<1>2. ASSUME NEW n \in Nat, n \in T PROVE n + 1 \in T
  <2>1. ASSUME NEW s \in SUBSET S, Cardinality(s) = n + 1 PROVE g[s] = h[s]
    <3> DEFINE r == s \ {ch[s]}
    <3>1. s # {}
      <4>1. n + 1 # 0
        OBVIOUS
      <4>2. QED
        BY <4>1, <2>1, FS_EmptySet
    <3>2. ch[s] \in s
      BY <3>1 DEF Chooses
    <3>3. r \in SUBSET S /\ Cardinality(r) = n
      BY <3>2, <2>1, TakeOut
    <3>4. g[r] = h[r]
      BY <3>3, <1>2
    <3>5. QED
      BY <3>1, <3>4 DEF AgreeByStep
  <2>2. QED
    BY <2>1
<1> HIDE DEF T
<1>3. \A n \in Nat : n \in T
  BY <1>1, <1>2, SetInduction
<1>4. ASSUME NEW s \in SUBSET S PROVE Cardinality(s) \in Nat
  BY FS_Subset, FS_CardinalityType
<1>5. QED
  BY <1>3, <1>4 DEF T

-------------------------------------------------------------------------------
(* Sums *)

SumOver(f, S) == MapThenSumSet(LAMBDA b : f[b], S)

\* The element of s that the library takes next.
NextOf(s) == CHOOSE x \in s : TRUE

SumIter(f, S) ==
  CHOOSE iter : iter = [s \in SUBSET S |-> IF s = {} THEN 0
                                           ELSE f[NextOf(s)] + iter[s \ {NextOf(s)}]]

LEMMA SumUnfolds ==
  ASSUME NEW f, NEW S
  PROVE  SumOver(f, S) = SumIter(f, S)[S]
BY DEF SumOver, SumIter, NextOf, MapThenSumSet, MapThenFoldSet

\* g has the sums of f over the subsets of S.
SumsOf(g, f, S) ==
  /\ g[{}] = 0
  /\ \A s \in SUBSET S : s # {} => /\ NextOf(s) \in s
                                 /\ g[s] = f[NextOf(s)] + g[s \ {NextOf(s)}]
  /\ \A U \in SUBSET S : SumOver(f, U) = g[U]

NatValued(f, S) == \A x \in S : f[x] \in Nat

\* One function has the sums over all the subsets of a set.
LEMMA SumsExist ==
  ASSUME NEW S, IsFiniteSet(S), NEW f, NatValued(f, S)
  PROVE  \E g \in [SUBSET S -> Nat] : SumsOf(g, f, S)
<1> DEFINE ch == [s \in SUBSET S |-> NextOf(s)]
           G == [p \in S \X Nat |-> f[p[1]] + p[2]]
<1>1. \A s \in SUBSET S : s # {} => ch[s] \in s /\ ch[s] = NextOf(s)
  BY DEF NextOf
<1>2. G \in [S \X Nat -> Nat]
  BY DEF NatValued
<1>3. \A x \in S, n \in Nat : G[<<x, n>>] = f[x] + n
  BY DEF NatValued
<1> HIDE DEF ch, G
<1>4. PICK g \in [SUBSET S -> Nat] : Folds(g, S, ch, 0, G)
  BY <1>1, <1>2, FoldExists
<1>5. ASSUME NEW s \in SUBSET S, s # {}
      PROVE  /\ NextOf(s) \in s
             /\ g[s] = f[NextOf(s)] + g[s \ {NextOf(s)}]
  <2>1. ch[s] = NextOf(s) /\ NextOf(s) \in s
    BY <1>1, <1>5
  <2>2. g[s \ {ch[s]}] \in Nat
    OBVIOUS
  <2>3. g[s] = G[<<ch[s], g[s \ {ch[s]}]>>]
    BY <1>4, <1>5 DEF Folds
  <2>4. QED
    BY <2>1, <2>2, <2>3, <1>3
<1>6. g[{}] = 0
  BY <1>4 DEF Folds
<1>7. ASSUME NEW U \in SUBSET S PROVE SumOver(f, U) = g[U]
  <2> DEFINE Step(iter) == [s \in SUBSET U |-> IF s = {} THEN 0
                                               ELSE f[NextOf(s)] + iter[s \ {NextOf(s)}]]
             k == [s \in SUBSET U |-> g[s]]
  <2>1. k = Step(k)
    <3>1. ASSUME NEW s \in SUBSET U PROVE k[s] = Step(k)[s]
      <4>1. CASE s = {}
        BY <4>1, <1>6
      <4>2. CASE s # {}
        BY <4>2, <1>5
      <4>3. QED
        BY <4>1, <4>2
    <3>2. QED
      BY <3>1
  <2>2. SumIter(f, U) = Step(SumIter(f, U))
    BY <2>1 DEF SumIter
  <2> DEFINE h == SumIter(f, U)
  <2> HIDE DEF h
  <2>3. h = Step(h)
    BY <2>2 DEF h
  <2>4. \A s \in SUBSET U : h[s] = IF s = {} THEN 0 ELSE f[NextOf(s)] + h[s \ {NextOf(s)}]
    BY <2>3
  <2>5. IsFiniteSet(U)
    BY FS_Subset
  <2>6. \A s \in SUBSET U : s # {} => ch[s] \in s /\ ch[s] = NextOf(s)
    BY <1>1
  <2>7. g[{}] = h[{}]
    BY <1>6, <2>4
  <2>8. ASSUME NEW s \in SUBSET U, s # {}, g[s \ {ch[s]}] = h[s \ {ch[s]}]
        PROVE  g[s] = h[s]
    <3>1. g[s] = f[NextOf(s)] + g[s \ {NextOf(s)}]
      BY <2>8, <1>5
    <3>2. h[s] = f[NextOf(s)] + h[s \ {NextOf(s)}]
      BY <2>8, <2>4
    <3>3. QED
      BY <2>6, <2>8, <3>1, <3>2
  <2>9. \A s \in SUBSET U : g[s] = h[s]
    <3>1. Chooses(ch, U)
      BY <2>6 DEF Chooses
    <3>2. AgreeByStep(g, h, ch, U)
      BY <2>8 DEF AgreeByStep
    <3>3. QED
      BY <2>5, <2>7, <3>1, <3>2, FoldUnique
  <2>10. QED
    BY <2>9, SumUnfolds DEF h
<1>8. QED
  BY <1>5, <1>6, <1>7 DEF SumsOf

LEMMA SumOfNone ==
  ASSUME NEW f
  PROVE  SumOver(f, {}) = 0
<1>1. SumOver(f, {}) = SumIter(f, {})[{}]
  BY SumUnfolds
<1> DEFINE Step(iter) == [s \in SUBSET {} |-> IF s = {} THEN 0
                                              ELSE f[NextOf(s)] + iter[s \ {NextOf(s)}]]
           k == [s \in SUBSET {} |-> 0]
<1>2. k = Step(k)
  OBVIOUS
<1>3. SumIter(f, {}) = Step(SumIter(f, {}))
  BY <1>2 DEF SumIter
<1>4. SumIter(f, {})[{}] = 0
  BY <1>3
<1>5. QED
  BY <1>1, <1>4

LEMMA SumIsNat ==
  ASSUME NEW S, IsFiniteSet(S), NEW f, NatValued(f, S)
  PROVE  SumOver(f, S) \in Nat
<1>1. PICK g \in [SUBSET S -> Nat] : SumsOf(g, f, S)
  BY SumsExist
<1>2. QED
  BY <1>1 DEF SumsOf

\* The order of the elements does not matter: any of them may be taken out first.
LEMMA SumTakesOut ==
  ASSUME NEW S, IsFiniteSet(S), NEW f, NatValued(f, S), NEW a \in S
  PROVE  SumOver(f, S) = f[a] + SumOver(f, S \ {a})
<1>1. PICK g \in [SUBSET S -> Nat] : SumsOf(g, f, S)
  BY SumsExist
<1> DEFINE T == {n \in Nat : \A s \in SUBSET S : Cardinality(s) = n =>
                              \A x \in s : g[s] = f[x] + g[s \ {x}]}
<1>2. 0 \in T
  <2>1. ASSUME NEW s \in SUBSET S, Cardinality(s) = 0 PROVE s = {}
    BY <2>1, FS_Subset, FS_EmptySet
  <2>2. QED
    BY <2>1
<1>3. ASSUME NEW n \in Nat, n \in T PROVE n + 1 \in T
  <2>1. ASSUME NEW s \in SUBSET S, Cardinality(s) = n + 1, NEW x \in s
        PROVE  g[s] = f[x] + g[s \ {x}]
    <3> DEFINE c == NextOf(s)
    <3>1. c \in s /\ g[s] = f[c] + g[s \ {c}]
      BY <1>1 DEF SumsOf
    <3>2. CASE x = c
      BY <3>1, <3>2
    <3>3. CASE x # c
      <4> DEFINE r == s \ {c}
                 q == s \ {x}
                 m == (s \ {c}) \ {x}
      <4>1. r \in SUBSET S /\ Cardinality(r) = n
        BY <3>1, <2>1, TakeOut
      <4>2. q \in SUBSET S /\ Cardinality(q) = n
        BY <2>1, TakeOut
      <4>3. x \in r /\ c \in q /\ q \ {c} = m /\ m \in SUBSET S
        BY <3>1, <3>3
      <4>4. g[r] = f[x] + g[m]
        BY <4>1, <4>3, <1>3
      <4>5. g[q] = f[c] + g[q \ {c}]
        BY <4>2, <4>3, <1>3
      <4>6. f[x] \in Nat /\ f[c] \in Nat /\ g[m] \in Nat
        BY <3>1, <4>3 DEF NatValued
      <4>7. g[s] = f[c] + g[r]
        BY <3>1
      <4>8. g[q] = f[c] + g[m]
        BY <4>3, <4>5
      <4> HIDE DEF r, q, m, c
      <4>9. g[s] = f[x] + g[q]
        BY <4>4, <4>6, <4>7, <4>8
      <4>10. QED
        BY <4>9 DEF q
    <3>4. QED
      BY <3>2, <3>3
  <2>2. QED
    BY <2>1
<1> HIDE DEF T
<1>4. Cardinality(S) \in T
  BY <1>2, <1>3, SetInduction, FS_CardinalityType
<1>5. g[S] = f[a] + g[S \ {a}]
  BY <1>4 DEF T
<1>6. QED
  BY <1>1, <1>5 DEF SumsOf

\* Only the values on the set count.
LEMMA SumsAgree ==
  ASSUME NEW S, IsFiniteSet(S), NEW f, NEW h, NatValued(f, S), \A x \in S : h[x] = f[x]
  PROVE  SumOver(f, S) = SumOver(h, S)
<1>1. PICK g \in [SUBSET S -> Nat] : SumsOf(g, f, S)
  BY SumsExist
<1>2. NatValued(h, S)
  BY DEF NatValued
<1>3. PICK k \in [SUBSET S -> Nat] : SumsOf(k, h, S)
  BY <1>2, SumsExist
<1> DEFINE ch == [s \in SUBSET S |-> NextOf(s)]
<1>4. Chooses(ch, S)
  BY <1>1 DEF SumsOf, Chooses
<1>5. AgreeByStep(g, k, ch, S)
  BY <1>1, <1>3 DEF SumsOf, AgreeByStep
<1>6. g[{}] = k[{}]
  BY <1>1, <1>3 DEF SumsOf
<1> HIDE DEF ch
<1>7. \A s \in SUBSET S : g[s] = k[s]
  BY <1>4, <1>5, <1>6, FoldUnique
<1>8. QED
  BY <1>1, <1>3, <1>7 DEF SumsOf

LEMMA SumOfZeros ==
  ASSUME NEW S, IsFiniteSet(S), NEW f, \A x \in S : f[x] = 0
  PROVE  SumOver(f, S) = 0
<1>1. NatValued(f, S)
  BY DEF NatValued
<1>2. PICK g \in [SUBSET S -> Nat] : SumsOf(g, f, S)
  BY <1>1, SumsExist
<1> DEFINE ch == [s \in SUBSET S |-> NextOf(s)]
           zero == [s \in SUBSET S |-> 0]
<1>3. Chooses(ch, S)
  BY <1>2 DEF SumsOf, Chooses
<1>4. AgreeByStep(g, zero, ch, S)
  BY <1>2 DEF SumsOf, AgreeByStep
<1>5. g[{}] = zero[{}]
  BY <1>2 DEF SumsOf
<1> HIDE DEF ch, zero
<1>6. \A s \in SUBSET S : g[s] = zero[s]
  BY <1>3, <1>4, <1>5, FoldUnique
<1>7. QED
  BY <1>2, <1>6 DEF SumsOf, zero

\* Adding one to one of the values adds one to the sum.
LEMMA SumAddsOne ==
  ASSUME NEW S, IsFiniteSet(S), NEW f \in [S -> Nat], NEW a \in S,
         NEW h, h = [f EXCEPT ![a] = @ + 1]
  PROVE  SumOver(h, S) = SumOver(f, S) + 1
<1>1. h \in [S -> Nat] /\ h[a] = f[a] + 1
  OBVIOUS
<1>2. IsFiniteSet(S \ {a})
  BY FS_RemoveElement
<1>3. NatValued(f, S \ {a}) /\ \A x \in S \ {a} : h[x] = f[x]
  BY DEF NatValued
<1>4. SumOver(f, S \ {a}) = SumOver(h, S \ {a})
  BY <1>2, <1>3, SumsAgree
<1>5. SumOver(f, S \ {a}) \in Nat
  BY <1>2, <1>3, SumIsNat
<1>6. SumOver(f, S) = f[a] + SumOver(f, S \ {a})
  BY SumTakesOut DEF NatValued
<1>7. SumOver(h, S) = h[a] + SumOver(h, S \ {a})
  BY <1>1, SumTakesOut DEF NatValued
<1>8. f[a] \in Nat
  OBVIOUS
<1>9. QED
  BY <1>1, <1>4, <1>5, <1>6, <1>7, <1>8

LEMMA SumOfEquals ==
  ASSUME NEW f, NEW c \in Nat, NEW n \in Nat, \A k \in 1 .. n : f[k] = c
  PROVE  SumOver(f, 1 .. n) = n * c
<1> DEFINE T == {m \in Nat : m <= n => SumOver(f, 1 .. m) = m * c}
<1>1. 0 \in T
  <2>1. 1 .. 0 = {} /\ 0 * c = 0
    OBVIOUS
  <2>2. QED
    BY <2>1, SumOfNone
<1>2. ASSUME NEW m \in Nat, m \in T PROVE m + 1 \in T
  <2> SUFFICES ASSUME m + 1 <= n PROVE SumOver(f, 1 .. m + 1) = (m + 1) * c
    OBVIOUS
  <2>1. NatValued(f, 1 .. m + 1) /\ IsFiniteSet(1 .. m + 1) /\ f[m + 1] = c
    <3>1. \A k \in 1 .. m + 1 : k \in 1 .. n
      OBVIOUS
    <3>2. \A k \in 1 .. m + 1 : f[k] = c
      BY <3>1
    <3>3. m + 1 \in 1 .. m + 1
      OBVIOUS
    <3>4. IsFiniteSet(1 .. m + 1)
      BY FS_Interval
    <3>5. NatValued(f, 1 .. m + 1)
      BY <3>2 DEF NatValued
    <3>6. QED
      BY <3>2, <3>3, <3>4, <3>5
  <2>2. m + 1 \in 1 .. m + 1 /\ (1 .. m + 1) \ {m + 1} = 1 .. m
    OBVIOUS
  <2>3. SumOver(f, 1 .. m + 1) = c + SumOver(f, 1 .. m)
    BY <2>1, <2>2, SumTakesOut
  <2>4. SumOver(f, 1 .. m) = m * c
    BY <1>2
  <2>5. (m + 1) * c = c + m * c
    OBVIOUS
  <2>6. QED
    BY <2>3, <2>4, <2>5
<1> HIDE DEF T
<1>3. n \in T
  BY <1>1, <1>2, SetInduction
<1>4. QED
  BY <1>3 DEF T

-------------------------------------------------------------------------------
(* Folds over sequences, which take the last element out first *)

LEMMA MaxIsLast ==
  ASSUME NEW n \in Nat
  PROVE  /\ \A s \in SUBSET (1 .. n) : s # {} => Max(s) \in s
         /\ n > 0 => Max(1 .. n) = n /\ (1 .. n) \ {n} = 1 .. n - 1
<1>1. ASSUME NEW s \in SUBSET (1 .. n), s # {} PROVE Max(s) \in s
  <2> DEFINE T == {k \in Nat : \E x \in s : k = n - x}
  <2>1. T \in SUBSET Nat /\ T # {}
    <3>1. PICK x \in s : TRUE
      BY <1>1
    <3>2. n - x \in T
      BY <3>1
    <3>3. QED
      BY <3>2
  <2> HIDE DEF T
  <2>2. PICK m \in T : \A y \in T : m <= y
    BY <2>1, LeastNatural
  <2>3. PICK x \in s : m = n - x
    BY <2>2 DEF T
  <2>4. ASSUME NEW y \in s PROVE x >= y
    <3>1. n - y \in T
      <4>1. n - y \in Nat
        OBVIOUS
      <4>2. QED
        BY <4>1 DEF T
    <3>2. n - x <= n - y /\ x \in Nat /\ y \in Nat
      BY <2>2, <2>3, <3>1
    <3>3. QED
      BY <3>2
  <2>5. \E z \in s : \A y \in s : z >= y
    BY <2>4
  <2>6. QED
    BY <2>5 DEF Max
<1>2. ASSUME n > 0 PROVE Max(1 .. n) = n
  <2>1. n \in 1 .. n /\ \A y \in 1 .. n : n >= y
    BY <1>2
  <2>2. ASSUME NEW z \in 1 .. n, \A y \in 1 .. n : z >= y PROVE z = n
    BY <2>1, <2>2
  <2>3. QED
    BY <2>1, <2>2 DEF Max
<1>3. (1 .. n) \ {n} = 1 .. n - 1
  OBVIOUS
<1>4. QED
  BY <1>1, <1>2, <1>3

\* g has the folds of seq over the sets of its indices, the last element first.
LastFolds(g, seq, n, base, G) ==
  \A s \in SUBSET (1 .. n) :
    g[s] = IF s = {} THEN base ELSE G[<<seq[Max(s)], g[s \ {Max(s)}]>>]

\* There is such a function.
LEMMA LastFirst ==
  ASSUME NEW n \in Nat, NEW A, NEW seq \in [1 .. n -> A], NEW R, NEW base \in R,
         NEW G \in [A \X R -> R]
  PROVE  \E g \in [SUBSET (1 .. n) -> R] : LastFolds(g, seq, n, base, G)
<1> DEFINE S == 1 .. n
           ch == [s \in SUBSET S |-> Max(s)]
           H == [p \in S \X R |-> G[<<seq[p[1]], p[2]>>]]
<1>1. IsFiniteSet(S)
  BY FS_Interval
<1>2. \A s \in SUBSET S : s # {} => ch[s] \in s /\ ch[s] = Max(s)
  BY MaxIsLast
<1>3. H \in [S \X R -> R]
  OBVIOUS
<1>4. \A x \in S, r \in R : H[<<x, r>>] = G[<<seq[x], r>>]
  OBVIOUS
<1> HIDE DEF S, ch, H
<1>5. PICK g \in [SUBSET S -> R] : Folds(g, S, ch, base, H)
  BY <1>1, <1>2, <1>3, FoldExists
<1>6. ASSUME NEW s \in SUBSET S
      PROVE  g[s] = IF s = {} THEN base ELSE G[<<seq[Max(s)], g[s \ {Max(s)}]>>]
  <2>1. CASE s = {}
    BY <1>5, <2>1 DEF Folds
  <2>2. CASE s # {}
    <3>1. Max(s) \in S /\ g[s \ {Max(s)}] \in R /\ ch[s] = Max(s)
      BY <1>2, <2>2
    <3>2. g[s] = H[<<ch[s], g[s \ {ch[s]}]>>]
      BY <1>5, <2>2 DEF Folds
    <3>3. QED
      BY <1>4, <2>2, <3>1, <3>2
  <2>3. QED
    BY <2>1, <2>2
<1>7. QED
  BY <1>5, <1>6 DEF S, LastFolds

\* The sum of a sequence.
SeqSumIter(seq) ==
  CHOOSE iter : iter = [s \in SUBSET DOMAIN seq |->
                          IF s = {} THEN 0 ELSE iter[s \ {Max(s)}] + seq[Max(s)]]

LEMMA SeqSumUnfolds ==
  ASSUME NEW seq
  PROVE  FoldLeft(+, 0, seq) = SeqSumIter(seq)[DOMAIN seq]
BY DEF FoldLeft, MapThenFoldSet, SeqSumIter

LEMMA SeqSum ==
  ASSUME NEW n \in Nat, NEW seq \in [1 .. n -> Nat]
  PROVE  FoldLeft(+, 0, seq) = SumOver(seq, 1 .. n)
<1> DEFINE G == [p \in Nat \X Nat |-> p[2] + p[1]]
           Step(iter) == [s \in SUBSET DOMAIN seq |->
                            IF s = {} THEN 0 ELSE iter[s \ {Max(s)}] + seq[Max(s)]]
           g == SeqSumIter(seq)
<1>1. G \in [Nat \X Nat -> Nat] /\ \A x, y \in Nat : G[<<x, y>>] = y + x
  OBVIOUS
<1> HIDE DEF G
<1>2. PICK k \in [SUBSET (1 .. n) -> Nat] : LastFolds(k, seq, n, 0, G)
  BY <1>1, LastFirst
<1>3. ASSUME NEW s \in SUBSET (1 .. n)
      PROVE  k[s] = IF s = {} THEN 0 ELSE k[s \ {Max(s)}] + seq[Max(s)]
  <2>1. CASE s = {}
    BY <1>2, <2>1 DEF LastFolds
  <2>2. CASE s # {}
    <3>1. seq[Max(s)] \in Nat /\ k[s \ {Max(s)}] \in Nat
      BY <2>2, MaxIsLast
    <3>2. QED
      BY <1>1, <1>2, <2>2, <3>1 DEF LastFolds
  <2>3. QED
    BY <2>1, <2>2
<1>4. k = Step(k)
  BY <1>3
<1>5. g = Step(g)
  BY <1>4 DEF SeqSumIter
<1> HIDE DEF g
<1>6. \A s \in SUBSET (1 .. n) : g[s] = IF s = {} THEN 0 ELSE g[s \ {Max(s)}] + seq[Max(s)]
  BY <1>5
<1> DEFINE T == {m \in Nat : m <= n => g[1 .. m] = SumOver(seq, 1 .. m)}
<1>7. 0 \in T
  <2>1. 1 .. 0 = {}
    OBVIOUS
  <2>2. g[{}] = 0
    BY <1>6
  <2>3. QED
    BY <2>1, <2>2, SumOfNone
<1>8. ASSUME NEW m \in Nat, m \in T PROVE m + 1 \in T
  <2> SUFFICES ASSUME m + 1 <= n PROVE g[1 .. m + 1] = SumOver(seq, 1 .. m + 1)
    OBVIOUS
  <2>1. /\ Max(1 .. m + 1) = m + 1 /\ (1 .. m + 1) \ {m + 1} = 1 .. m
        /\ 1 .. m + 1 \in SUBSET (1 .. n) /\ m + 1 \in 1 .. m + 1
    BY MaxIsLast
  <2>2. g[1 .. m + 1] = g[1 .. m] + seq[m + 1]
    BY <1>6, <2>1
  <2>3. IsFiniteSet(1 .. m + 1) /\ IsFiniteSet(1 .. m)
    BY FS_Interval
  <2>4. NatValued(seq, 1 .. m + 1) /\ NatValued(seq, 1 .. m)
    BY DEF NatValued
  <2>5. SumOver(seq, 1 .. m + 1) = seq[m + 1] + SumOver(seq, 1 .. m)
    BY <2>1, <2>3, <2>4, SumTakesOut
  <2>6. SumOver(seq, 1 .. m) \in Nat /\ seq[m + 1] \in Nat
    BY <2>1, <2>3, <2>4, SumIsNat
  <2>7. QED
    BY <1>8, <2>2, <2>5, <2>6
<1> HIDE DEF T
<1>9. n \in T
  BY <1>7, <1>8, SetInduction
<1>10. g[1 .. n] = SumOver(seq, 1 .. n)
  BY <1>9 DEF T
<1>11. QED
  BY <1>10, SeqSumUnfolds DEF g
===============================================================================
