----------------------------- MODULE DataLemmas -----------------------------
(***************************************************************************)
(* Facts about numbers, about sums over sets and about sequences used as   *)
(* FIFO queues, shared by the proofs.  Where a proof needs induction it    *)
(* takes the least element of the set of counterexamples.                  *)
(***************************************************************************)
EXTENDS Integers, Sequences, FiniteSets, Functions, SequenceTheorems, FiniteSetTheorems,
        WellFoundedInduction, TLAPS

-----------------------------------------------------------------------------
(* Numbers *)

\* A set of naturals has a least element.
LEMMA LeastElement ==
    ASSUME NEW S \in SUBSET Nat, S # {}
    PROVE  \E m \in S : \A n \in S : m <= n
<1> DEFINE R == OpToRel(<, Nat)
<1>1. PICK m \in S : \A n \in S : ~(<<n, m>> \in R)
  <2>1. IsWellFoundedOn(R, Nat)
    BY NatLessThanWellFounded
  <2> HIDE DEF R
  <2>2. QED
    BY <2>1, WFMin
<1>2. ASSUME NEW n \in S PROVE m <= n
  <2>1. m \in Nat /\ n \in Nat
    OBVIOUS
  <2>2. ~(n < m)
    BY <1>1, <2>1 DEF OpToRel
  <2>3. QED
    BY <2>1, <2>2
<1>3. QED
  BY <1>2

\* A bounded set of naturals has a greatest element: the last line of a file that
\* sets a key (ConfigManager::parseYaml), the newest entry of a history
\* (GaugeMetric::getValueAt).
LEMMA GreatestElement ==
    ASSUME NEW S \in SUBSET Nat, S # {}, NEW k \in Nat, \A n \in S : n <= k
    PROVE  \E m \in S : \A n \in S : n <= m
<1> DEFINE T == {d \in Nat : k - d \in S}
<1>1. \A n \in S : n \in Nat /\ n <= k /\ k - n \in Nat /\ k - (k - n) = n
  OBVIOUS
<1>2. T # {}
  BY <1>1
<1>3. PICK t \in T : \A u \in T : t <= u
  <2>1. T \in SUBSET Nat
    OBVIOUS
  <2> HIDE DEF T
  <2>2. QED
    BY <1>2, <2>1, LeastElement
<1>4. ASSUME NEW n \in S PROVE n <= k - t
  <2>1. k - n \in T
    BY <1>1
  <2>2. t <= k - n /\ t \in Nat /\ n \in Nat
    BY <1>3, <2>1
  <2>3. QED
    BY <2>2
<1>5. QED
  BY <1>3, <1>4

-----------------------------------------------------------------------------
(* Sums *)

\* The element that a sum takes first.
First(s) == CHOOSE x \in s : TRUE

\* g gives the sums of f over the subsets of S.
SumsOf(g, f, S) ==
    \A s \in SUBSET S : g[s] = IF s = {} THEN 0 ELSE f[First(s)] + g[s \ {First(s)}]

LEMMA FirstIsIn ==
    ASSUME NEW S, S # {}, IsFiniteSet(S)
    PROVE  /\ First(S) \in S /\ S \ {First(S)} \in SUBSET S
           /\ IsFiniteSet(S \ {First(S)})
           /\ Cardinality(S) \in Nat
           /\ Cardinality(S \ {First(S)}) = Cardinality(S) - 1
<1>1. First(S) \in S
  BY DEF First
<1>2. QED
  BY <1>1, FS_RemoveElement, FS_CardinalityType

LEMMA SumsExist ==
    ASSUME NEW S, IsFiniteSet(S), NEW f, \A x \in S : f[x] \in Nat
    PROVE  \E g \in [SUBSET S -> Nat] : SumsOf(g, f, S)
<1> DEFINE Step(g, s) == IF s = {} THEN 0 ELSE f[First(s)] + g[s \ {First(s)}]
           UpTo(g, n) == \A s \in SUBSET S : Cardinality(s) <= n => g[s] = Step(g, s)
           Bad == {n \in Nat : ~\E g \in [SUBSET S -> Nat] : UpTo(g, n)}
<1>1. ASSUME NEW s \in SUBSET S
      PROVE  /\ IsFiniteSet(s) /\ Cardinality(s) \in Nat /\ Cardinality(s) <= Cardinality(S)
             /\ s = {} <=> Cardinality(s) = 0
  BY FS_Subset, FS_CardinalityType, FS_EmptySet
<1>2. SUFFICES ASSUME Bad # {} PROVE FALSE
  <2>1. Cardinality(S) \in Nat /\ \A s \in SUBSET S : Cardinality(s) <= Cardinality(S)
    BY <1>1
  <2>2. PICK g \in [SUBSET S -> Nat] : UpTo(g, Cardinality(S))
    BY <2>1
  <2>3. SumsOf(g, f, S)
    BY <2>1, <2>2 DEF SumsOf
  <2>4. QED
    BY <2>3
<1>3. PICK n \in Bad : \A m \in Bad : n <= m
  <2>1. Bad \in SUBSET Nat
    OBVIOUS
  <2> HIDE DEF Bad
  <2>2. QED
    BY <1>2, <2>1, LeastElement
<1>4. CASE n = 0
  <2> DEFINE g == [s \in SUBSET S |-> 0]
  <2>1. UpTo(g, 0)
    BY <1>1
  <2>2. g \in [SUBSET S -> Nat]
    OBVIOUS
  <2>3. QED
    BY <1>4, <2>1, <2>2
<1>5. CASE n # 0
  <2>1. n - 1 \in Nat /\ n - 1 \notin Bad
    <3>1. n \in Nat
      OBVIOUS
    <3> HIDE DEF Bad
    <3>2. QED
      BY <1>3, <1>5, <3>1
  <2>2. PICK g \in [SUBSET S -> Nat] : UpTo(g, n - 1)
    BY <2>1
  <2> DEFINE h == [s \in SUBSET S |-> IF Cardinality(s) = n THEN Step(g, s) ELSE g[s]]
  <2>3. ASSUME NEW s \in SUBSET S PROVE Step(g, s) \in Nat
    <3>1. CASE s = {}
      BY <3>1
    <3>2. CASE s # {}
      <4>1. First(s) \in S /\ s \ {First(s)} \in SUBSET S
        BY <1>1, <3>2, FirstIsIn
      <4>2. f[First(s)] \in Nat /\ g[s \ {First(s)}] \in Nat
        BY <4>1
      <4>3. QED
        BY <3>2, <4>2
    <3>3. QED
      BY <3>1, <3>2
  <2>4. h \in [SUBSET S -> Nat]
    BY <2>3
  <2>5. ASSUME NEW s \in SUBSET S, Cardinality(s) <= n PROVE h[s] = Step(h, s)
    <3>1. CASE s = {}
      <4>1. Cardinality(s) = 0 /\ 0 <= n - 1 /\ g[s] = 0
        BY <1>1, <2>1, <2>2, <3>1
      <4>2. QED
        BY <1>5, <3>1, <4>1
    <3>2. CASE s # {}
      <4> DEFINE r == s \ {First(s)}
      <4>1. r \in SUBSET S /\ Cardinality(r) = Cardinality(s) - 1 /\ Cardinality(s) \in Nat
        BY <1>1, <3>2, FirstIsIn
      <4>2. h[r] = g[r]
        BY <2>5, <4>1
      <4>3. h[s] = Step(g, s)
        <5>1. CASE Cardinality(s) = n
          BY <5>1
        <5>2. CASE Cardinality(s) # n
          <6>1. Cardinality(s) <= n - 1
            BY <2>1, <2>5, <4>1, <5>2
          <6>2. QED
            BY <2>2, <5>2, <6>1
        <5>3. QED
          BY <5>1, <5>2
      <4>4. QED
        BY <3>2, <4>2, <4>3
    <3>3. QED
      BY <3>1, <3>2
  <2>6. UpTo(h, n)
    BY <2>5
  <2>7. QED
    BY <2>4, <2>6
<1>6. QED
  BY <1>4, <1>5

LEMMA SumsAgree ==
    ASSUME NEW S, IsFiniteSet(S), NEW f, NEW g, NEW h, SumsOf(g, f, S), SumsOf(h, f, S)
    PROVE  \A s \in SUBSET S : g[s] = h[s]
<1> DEFINE Bad == {n \in Nat : \E s \in SUBSET S : Cardinality(s) = n /\ g[s] # h[s]}
<1>1. \A s \in SUBSET S : IsFiniteSet(s) /\ Cardinality(s) \in Nat
  BY FS_Subset, FS_CardinalityType
<1>2. SUFFICES ASSUME Bad # {} PROVE FALSE
  BY <1>1
<1>3. PICK n \in Bad : \A m \in Bad : n <= m
  <2>1. Bad \in SUBSET Nat
    OBVIOUS
  <2> HIDE DEF Bad
  <2>2. QED
    BY <1>2, <2>1, LeastElement
<1>4. PICK s \in SUBSET S : Cardinality(s) = n /\ g[s] # h[s]
  OBVIOUS
<1>5. s # {}
  BY <1>4 DEF SumsOf
<1> DEFINE r == s \ {First(s)}
<1>6. r \in SUBSET S /\ Cardinality(r) = n - 1 /\ n \in Nat /\ Cardinality(r) \in Nat
  BY <1>1, <1>4, <1>5, FirstIsIn
<1>7. g[r] = h[r]
  BY <1>3, <1>6
<1>8. g[s] = f[First(s)] + g[r] /\ h[s] = f[First(s)] + h[r]
  BY <1>5 DEF SumsOf
<1>9. QED
  BY <1>4, <1>7, <1>8

\* SumFunctionOnSet of the community modules computes such sums.
LEMMA SumIs ==
    ASSUME NEW S, IsFiniteSet(S), NEW f, NEW g \in [SUBSET S -> Nat], SumsOf(g, f, S)
    PROVE  SumFunctionOnSet(f, S) = g[S]
<1> DEFINE Step(h, s) == IF s = {} THEN 0
                         ELSE f[CHOOSE x \in s : TRUE] + h[s \ {CHOOSE x \in s : TRUE}]
<1>1. g = [s \in SUBSET S |-> Step(g, s)]
  BY DEF SumsOf, First
<1>2. ASSUME NEW h, h = [s \in SUBSET S |-> Step(h, s)] PROVE h = g
  <2>1. SumsOf(h, f, S)
    BY <1>2 DEF SumsOf, First
  <2>2. \A s \in SUBSET S : h[s] = g[s]
    BY <2>1, SumsAgree
  <2>3. h = [s \in SUBSET S |-> h[s]]
    BY <1>2
  <2>4. g = [s \in SUBSET S |-> g[s]]
    OBVIOUS
  <2>5. QED
    BY <2>2, <2>3, <2>4
<1>3. QED
  BY <1>1, <1>2 DEF SumFunctionOnSet, FoldFunctionOnSet, MapThenFoldSet

LEMMA SumUnfolds ==
    ASSUME NEW S, IsFiniteSet(S), NEW f, \A x \in S : f[x] \in Nat
    PROVE  /\ SumFunctionOnSet(f, S) \in Nat
           /\ S = {} => SumFunctionOnSet(f, S) = 0
           /\ S # {} => SumFunctionOnSet(f, S)
                          = f[First(S)] + SumFunctionOnSet(f, S \ {First(S)})
<1>1. PICK g \in [SUBSET S -> Nat] : SumsOf(g, f, S)
  BY SumsExist
<1>2. SumFunctionOnSet(f, S) = g[S] /\ g[S] \in Nat
  BY <1>1, SumIs
<1>3. S = {} => g[S] = 0
  BY <1>1 DEF SumsOf
<1>4. ASSUME S # {}
      PROVE  g[S] = f[First(S)] + SumFunctionOnSet(f, S \ {First(S)})
  <2> DEFINE T == S \ {First(S)}
             h == [s \in SUBSET T |-> g[s]]
  <2>1. T \in SUBSET S /\ IsFiniteSet(T)
    BY <1>4, FirstIsIn
  <2>2. SumsOf(h, f, T)
    <3>1. ASSUME NEW s \in SUBSET T
          PROVE  h[s] = IF s = {} THEN 0 ELSE f[First(s)] + h[s \ {First(s)}]
      <4>1. s \in SUBSET S /\ s \ {First(s)} \in SUBSET T
        OBVIOUS
      <4>2. g[s] = IF s = {} THEN 0 ELSE f[First(s)] + g[s \ {First(s)}]
        BY <1>1, <4>1 DEF SumsOf
      <4>3. h[s] = g[s] /\ h[s \ {First(s)}] = g[s \ {First(s)}]
        BY <4>1
      <4>4. QED
        BY <4>2, <4>3
    <3> HIDE DEF h, T
    <3>2. QED
      BY <3>1 DEF SumsOf
  <2>3. h \in [SUBSET T -> Nat] /\ h[T] = g[T]
    BY <2>1
  <2>4. SumFunctionOnSet(f, T) = g[T]
    <3> HIDE DEF h, T
    <3>1. QED
      BY <2>1, <2>2, <2>3, SumIs
  <2>5. g[S] = f[First(S)] + g[T]
    BY <1>1, <1>4 DEF SumsOf
  <2>6. QED
    BY <2>4, <2>5
<1>5. QED
  BY <1>2, <1>3, <1>4

\* A sum can take any of its elements first.
LEMMA SumRemove ==
    ASSUME NEW S, IsFiniteSet(S), NEW f, \A x \in S : f[x] \in Nat, NEW a \in S
    PROVE  SumFunctionOnSet(f, S) = f[a] + SumFunctionOnSet(f, S \ {a})
<1> DEFINE Good(T) == \A x \in T :
               SumFunctionOnSet(f, T) = f[x] + SumFunctionOnSet(f, T \ {x})
           Bad == {n \in Nat : \E T \in SUBSET S : Cardinality(T) = n /\ ~Good(T)}
<1>1. ASSUME NEW T \in SUBSET S
      PROVE  /\ IsFiniteSet(T) /\ Cardinality(T) \in Nat
             /\ \A x \in T : f[x] \in Nat
             /\ SumFunctionOnSet(f, T) \in Nat
             /\ T # {} => /\ First(T) \in T
                          /\ SumFunctionOnSet(f, T)
                               = f[First(T)] + SumFunctionOnSet(f, T \ {First(T)})
  BY FS_Subset, FS_CardinalityType, SumUnfolds, FirstIsIn
<1>2. SUFFICES ASSUME Bad # {} PROVE FALSE
  <2>1. S \in SUBSET S /\ Cardinality(S) \in Nat
    BY <1>1
  <2>2. Good(S)
    BY <2>1
  <2>3. QED
    BY <2>2
<1>3. PICK n \in Bad : \A m \in Bad : n <= m
  <2>1. Bad \in SUBSET Nat
    OBVIOUS
  <2> HIDE DEF Bad
  <2>2. QED
    BY <1>2, <2>1, LeastElement
<1>4. PICK T \in SUBSET S : Cardinality(T) = n /\ ~Good(T)
  OBVIOUS
<1>5. PICK x \in T : SumFunctionOnSet(f, T) # f[x] + SumFunctionOnSet(f, T \ {x})
  BY <1>4
<1> DEFINE y == First(T)
<1>6. y \in T /\ SumFunctionOnSet(f, T) = f[y] + SumFunctionOnSet(f, T \ {y}) /\ y # x
  BY <1>1, <1>5
<1> HIDE DEF y
<1>7. ASSUME NEW z \in T PROVE Good(T \ {z})
  <2>1. T \ {z} \in SUBSET S /\ Cardinality(T \ {z}) = n - 1
    BY <1>1, <1>4, FS_RemoveElement
  <2>2. Cardinality(T \ {z}) \in Nat /\ n \in Nat
    BY <1>1, <1>4, <2>1
  <2>3. n - 1 \in Nat /\ n - 1 \notin Bad
    <3> HIDE DEF Bad
    <3>1. QED
      BY <1>3, <2>1, <2>2
  <2> HIDE DEF Good
  <2>4. QED
    BY <2>1, <2>3
<1> DEFINE r == SumFunctionOnSet(f, (T \ {x}) \ {y})
<1>8. SumFunctionOnSet(f, T \ {x}) = f[y] + r
  BY <1>6, <1>7
<1>9. (T \ {y}) \ {x} = (T \ {x}) \ {y}
  OBVIOUS
<1>10. SumFunctionOnSet(f, T \ {y}) = f[x] + r
  <2>1. x \in T \ {y} /\ Good(T \ {y})
    BY <1>6, <1>7
  <2>2. QED
    BY <1>9, <2>1
<1>11. f[x] \in Nat /\ f[y] \in Nat /\ r \in Nat
  <2>1. (T \ {x}) \ {y} \in SUBSET S
    OBVIOUS
  <2>2. QED
    BY <1>1, <1>6, <2>1
<1> HIDE DEF r
<1>12. QED
  BY <1>5, <1>6, <1>8, <1>10, <1>11

\* Functions that agree have the same sum.
LEMMA SumSame ==
    ASSUME NEW S, IsFiniteSet(S), NEW f, NEW h, \A x \in S : f[x] \in Nat /\ h[x] = f[x]
    PROVE  SumFunctionOnSet(h, S) = SumFunctionOnSet(f, S)
<1>1. PICK g \in [SUBSET S -> Nat] : SumsOf(g, f, S)
  BY SumsExist
<1>2. SumsOf(g, h, S)
  <2>1. ASSUME NEW s \in SUBSET S, s # {} PROVE f[First(s)] = h[First(s)]
    BY <2>1 DEF First
  <2>2. QED
    BY <1>1, <2>1 DEF SumsOf
<1>3. QED
  BY <1>1, <1>2, SumIs

LEMMA SumZero ==
    ASSUME NEW S, IsFiniteSet(S), NEW f, \A x \in S : f[x] = 0
    PROVE  SumFunctionOnSet(f, S) = 0
<1> DEFINE g == [s \in SUBSET S |-> 0]
<1>1. g \in [SUBSET S -> Nat] /\ g[S] = 0
  OBVIOUS
<1>2. SumsOf(g, f, S)
  <2>1. \A s \in SUBSET S : s # {} => First(s) \in S /\ s \ {First(s)} \in SUBSET S
    BY DEF First
  <2>2. QED
    BY <2>1 DEF SumsOf
<1> HIDE DEF g
<1>3. QED
  BY <1>1, <1>2, SumIs

\* One value that changes changes the sum by as much.
LEMMA SumChange ==
    ASSUME NEW S, IsFiniteSet(S), NEW f, NEW h, NEW a \in S,
           \A x \in S : f[x] \in Nat /\ h[x] \in Nat,
           \A x \in S \ {a} : h[x] = f[x]
    PROVE  /\ SumFunctionOnSet(h, S) + f[a] = SumFunctionOnSet(f, S) + h[a]
           /\ SumFunctionOnSet(f, S) \in Nat /\ SumFunctionOnSet(h, S) \in Nat
<1> DEFINE T == S \ {a}
<1>1. IsFiniteSet(T)
  BY FS_RemoveElement
<1>2. /\ SumFunctionOnSet(f, S) = f[a] + SumFunctionOnSet(f, T)
      /\ SumFunctionOnSet(h, S) = h[a] + SumFunctionOnSet(h, T)
  BY SumRemove
<1>3. SumFunctionOnSet(h, T) = SumFunctionOnSet(f, T)
  BY <1>1, SumSame
<1>4. SumFunctionOnSet(f, T) \in Nat
  BY <1>1, SumUnfolds
<1>5. SumFunctionOnSet(f, S) \in Nat /\ SumFunctionOnSet(h, S) \in Nat
  BY SumUnfolds
<1> HIDE DEF T
<1>6. QED
  BY <1>2, <1>3, <1>4, <1>5

\* One element more adds its value.
LEMMA SumAdd ==
    ASSUME NEW S, IsFiniteSet(S), NEW f, NEW a, a \notin S, \A x \in S \cup {a} : f[x] \in Nat
    PROVE  /\ SumFunctionOnSet(f, S \cup {a}) = SumFunctionOnSet(f, S) + f[a]
           /\ SumFunctionOnSet(f, S) \in Nat
<1>1. IsFiniteSet(S \cup {a}) /\ (S \cup {a}) \ {a} = S
  BY FS_AddElement
<1>2. SumFunctionOnSet(f, S \cup {a}) = f[a] + SumFunctionOnSet(f, S)
  BY <1>1, SumRemove
<1>3. SumFunctionOnSet(f, S) \in Nat /\ f[a] \in Nat
  BY SumUnfolds
<1>4. QED
  BY <1>2, <1>3

\* The sum over a sequence is its first value and the sum over the rest.
LEMMA SumShift ==
    ASSUME NEW n \in Nat, NEW f, NEW h,
           \A i \in 1 .. (n + 1) : f[i] \in Nat, \A i \in 1 .. n : h[i] = f[i + 1]
    PROVE  SumFunctionOnSet(f, 1 .. (n + 1)) = f[1] + SumFunctionOnSet(h, 1 .. n)
<1> DEFINE Good(m) == SumFunctionOnSet(f, 1 .. (m + 1)) = f[1] + SumFunctionOnSet(h, 1 .. m)
           Bad == {m \in 0 .. n : ~Good(m)}
<1>1. ASSUME NEW m \in 0 .. (n + 1)
      PROVE  /\ IsFiniteSet(1 .. m)
             /\ \A i \in 1 .. m : f[i] \in Nat
             /\ m <= n => \A i \in 1 .. m : h[i] \in Nat
  <2>1. IsFiniteSet(1 .. m)
    BY FS_Interval
  <2>2. \A i \in 1 .. m : f[i] \in Nat
    OBVIOUS
  <2>3. ASSUME m <= n, NEW i \in 1 .. m PROVE h[i] \in Nat
    <3>1. i \in 1 .. n /\ i + 1 \in 1 .. (n + 1)
      BY <2>3
    <3>2. QED
      BY <3>1
  <2>4. QED
    BY <2>1, <2>2, <2>3
<1>2. SUFFICES ASSUME Bad # {} PROVE FALSE
  OBVIOUS
<1>3. PICK m \in Bad : \A l \in Bad : m <= l
  <2>1. Bad \in SUBSET Nat
    OBVIOUS
  <2> HIDE DEF Bad
  <2>2. QED
    BY <1>2, <2>1, LeastElement
<1>4. m \in 0 .. n /\ ~Good(m)
  OBVIOUS
<1>5. CASE m = 0
  <2>1. 1 .. (0 + 1) = {1} /\ {1} \ {1} = {} /\ 1 .. 0 = {}
    OBVIOUS
  <2>2. SumFunctionOnSet(f, {}) = 0 /\ SumFunctionOnSet(h, {}) = 0
    BY FS_EmptySet, SumUnfolds
  <2>3. SumFunctionOnSet(f, {1}) = f[1] + SumFunctionOnSet(f, {1} \ {1})
    <3>1. 1 \in {1} /\ \A x \in {1} : f[x] \in Nat
      OBVIOUS
    <3>2. IsFiniteSet({1})
      BY FS_Singleton
    <3>3. QED
      BY <3>1, <3>2, SumRemove
  <2>4. QED
    BY <1>4, <1>5, <2>1, <2>2, <2>3
<1>6. CASE m # 0
  <2>1. /\ m - 1 \in 0 .. n /\ m + 1 \in 0 .. (n + 1) /\ m \in 0 .. (n + 1)
        /\ m + 1 \in 1 .. (m + 1) /\ m \in 1 .. m
        /\ (1 .. (m + 1)) \ {m + 1} = 1 .. m /\ (1 .. m) \ {m} = 1 .. (m - 1)
    BY <1>4, <1>6
  <2>2. Good(m - 1)
    <3>1. m - 1 \notin Bad
      <4>1. m \in Nat
        BY <1>4
      <4> HIDE DEF Bad
      <4>2. QED
        BY <1>3, <4>1
    <3>2. QED
      BY <2>1, <3>1
  <2>3. SumFunctionOnSet(f, 1 .. (m + 1)) = f[m + 1] + SumFunctionOnSet(f, 1 .. m)
    <3>1. SumFunctionOnSet(f, 1 .. (m + 1))
            = f[m + 1] + SumFunctionOnSet(f, (1 .. (m + 1)) \ {m + 1})
      BY <1>1, <2>1, SumRemove
    <3>2. QED
      BY <2>1, <3>1
  <2>4. SumFunctionOnSet(h, 1 .. m) = h[m] + SumFunctionOnSet(h, 1 .. (m - 1))
    <3>1. IsFiniteSet(1 .. m) /\ m \in 1 .. m /\ \A i \in 1 .. m : h[i] \in Nat
      BY <1>1, <1>4, <2>1
    <3>2. SumFunctionOnSet(h, 1 .. m) = h[m] + SumFunctionOnSet(h, (1 .. m) \ {m})
      BY <3>1, SumRemove
    <3>3. QED
      BY <2>1, <3>2
  <2>5. /\ SumFunctionOnSet(f, 1 .. m) = f[1] + SumFunctionOnSet(h, 1 .. (m - 1))
        /\ h[m] = f[m + 1]
    <3>1. (m - 1) + 1 = m
      BY <1>4
    <3>2. QED
      BY <1>4, <2>1, <2>2, <3>1
  <2>6. f[1] \in Nat /\ f[m + 1] \in Nat /\ SumFunctionOnSet(h, 1 .. (m - 1)) \in Nat
    <3>1. m - 1 \in 0 .. (n + 1) /\ m - 1 <= n /\ 1 \in 1 .. (n + 1) /\ m + 1 \in 1 .. (n + 1)
      BY <1>4, <1>6
    <3>2. QED
      BY <1>1, <3>1, SumUnfolds
  <2>7. QED
    BY <1>4, <2>3, <2>4, <2>5, <2>6
<1>7. QED
  BY <1>5, <1>6

-----------------------------------------------------------------------------
(* Sequences *)

\* Appending adds one element to what a queue holds (std::queue::emplace).
LEMMA RangeAppend ==
    ASSUME NEW S, NEW s \in Seq(S), NEW e \in S
    PROVE  Range(Append(s, e)) = Range(s) \cup {e}
<1>1. /\ DOMAIN Append(s, e) = 1 .. (Len(s) + 1)
      /\ \A i \in 1 .. Len(s) : Append(s, e)[i] = s[i]
      /\ Append(s, e)[Len(s) + 1] = e
  BY AppendProperties
<1>2. DOMAIN s = 1 .. Len(s) /\ Len(s) \in Nat
  BY LenProperties
<1>3. 1 .. (Len(s) + 1) = (1 .. Len(s)) \cup {Len(s) + 1}
  BY <1>2
<1>4. QED
  BY <1>1, <1>2, <1>3 DEF Range

\* Taking the head moves one element from the queue to the end of the history
\* (std::queue::front and pop).
LEMMA MoveHead ==
    ASSUME NEW S, NEW s \in Seq(S), NEW q \in Seq(S), q # <<>>
    PROVE  Append(s, Head(q)) \o Tail(q) = s \o q
<1>1. /\ Head(q) \in S /\ Tail(q) \in Seq(S)
      /\ Len(Tail(q)) = Len(q) - 1
      /\ \A i \in 1 .. Len(Tail(q)) : Tail(q)[i] = q[i + 1]
      /\ Head(q) = q[1]
      /\ Len(q) \in Nat /\ Len(q) > 0
  BY HeadTailProperties, LenProperties, EmptySeq
<1>2. Append(s, Head(q)) \in Seq(S) /\ Len(Append(s, Head(q))) = Len(s) + 1
  BY <1>1, AppendProperties
<1> DEFINE l == Append(s, Head(q)) \o Tail(q)
           r == s \o q
<1>3. l \in Seq(S) /\ r \in Seq(S) /\ Len(l) = Len(r)
  BY <1>1, <1>2, ConcatProperties, LenProperties
<1>4. ASSUME NEW i \in 1 .. Len(l) PROVE l[i] = r[i]
  <2>1. CASE i <= Len(s)
    BY <2>1, <1>1, <1>2, <1>3, ConcatProperties, AppendProperties, LenProperties
  <2>2. CASE i = Len(s) + 1
    BY <2>2, <1>1, <1>2, <1>3, ConcatProperties, AppendProperties, LenProperties
  <2>3. CASE i > Len(s) + 1
    BY <2>3, <1>1, <1>2, <1>3, ConcatProperties, LenProperties
  <2>4. QED
    BY <2>1, <2>2, <2>3, <1>3, LenProperties
<1>5. QED
  BY <1>3, <1>4, SeqEqual

\* A non-empty queue holds its head and what is left when the head is taken.
LEMMA RangeHeadTail ==
    ASSUME NEW S, NEW q \in Seq(S), q # <<>>
    PROVE  Range(q) = {Head(q)} \cup Range(Tail(q))
<1>1. <<>> \in Seq(S) /\ Append(<<>>, Head(q)) = <<Head(q)>>
  OBVIOUS
<1>2. /\ Tail(q) \in Seq(S) /\ Head(q) = q[1]
      /\ DOMAIN q = 1 .. Len(q) /\ Len(q) \in Nat /\ Len(q) > 0
      /\ DOMAIN Tail(q) = 1 .. (Len(q) - 1)
      /\ \A i \in 1 .. (Len(q) - 1) : Tail(q)[i] = q[i + 1]
  BY HeadTailProperties, LenProperties, EmptySeq
<1>3. ASSUME NEW i \in 1 .. Len(q) PROVE q[i] \in {Head(q)} \cup Range(Tail(q))
  <2>1. CASE i = 1
    BY <2>1, <1>2
  <2>2. CASE i # 1
    <3>1. i - 1 \in 1 .. (Len(q) - 1) /\ Tail(q)[i - 1] = q[i]
      BY <2>2, <1>2
    <3>2. QED
      BY <3>1, <1>2 DEF Range
  <2>3. QED
    BY <2>1, <2>2
<1>4. ASSUME NEW i \in 1 .. (Len(q) - 1) PROVE Tail(q)[i] \in Range(q)
  <2>1. i + 1 \in 1 .. Len(q)
    BY <1>2
  <2>2. QED
    BY <2>1, <1>2 DEF Range
<1>5. Head(q) \in Range(q)
  BY <1>2 DEF Range
<1>6. QED
  BY <1>2, <1>3, <1>4, <1>5 DEF Range

\* Pushing at the back of the queue pushes at the back of the whole history.
LEMMA ConcatAppend ==
    ASSUME NEW S, NEW s \in Seq(S), NEW q \in Seq(S), NEW e \in S
    PROVE  s \o Append(q, e) = Append(s \o q, e)
<1>1. Append(q, e) = q \o <<e>> /\ Append(s \o q, e) = (s \o q) \o <<e>>
  BY AppendIsConcat, ConcatProperties
<1>2. <<e>> \in Seq(S)
  OBVIOUS
<1>3. QED
  BY <1>1, <1>2, ConcatAssociative

=============================================================================
