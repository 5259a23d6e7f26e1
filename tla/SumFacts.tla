------------------------------ MODULE SumFacts ------------------------------
(* Lemmas about the community operators FlattenSeq and SumFunction, which    *)
(* the parsers and their correctness are written with.  Induction is on the  *)
(* least number in a set of counterexamples.                                 *)
EXTENDS Integers, Sequences, FiniteSets, SequencesExt, SequenceTheorems,
        FiniteSetTheorems, WellFoundedInduction, TLAPS

-----------------------------------------------------------------------------
(* Induction on natural numbers, with sets for predicates. *)

\* A set of natural numbers that is not empty has a least element.
LEMMA LeastNumber ==
    ASSUME NEW T, T \subseteq Nat, T # {}
    PROVE  \E x \in T : \A y \in T : x <= y
<1> DEFINE R == {pair \in Nat \X Nat : pair[1] < pair[2]}
<1>1. IsWellFoundedOn(R, Nat)
  BY NatLessThanWellFounded DEF OpToRel
<1>2. PICK x \in T : \A y \in T : ~(<<y, x>> \in R)
  BY <1>1, WFMin
<1>3. ASSUME NEW y \in T
      PROVE  x <= y
  <2>1. x \in Nat /\ y \in Nat /\ <<y, x>> \in Nat \X Nat
    BY <1>3
  <2>2. ~(y < x)
    BY <1>2, <1>3, <2>1
  <2> QED BY <2>1, <2>2
<1> QED BY <1>3

\* A set of numbers with 0 and every successor has all of them.
LEMMA AllNumbers ==
    ASSUME NEW T, 0 \in T, \A n \in Nat : n \in T => n + 1 \in T
    PROVE  \A n \in Nat : n \in T
<1> DEFINE Bad == Nat \ T
<1>1. SUFFICES ASSUME Bad # {} PROVE FALSE
  OBVIOUS
<1>2. PICK x \in Bad : \A y \in Bad : x <= y
  BY <1>1, LeastNumber
<1>3. x # 0 /\ x - 1 \in Nat /\ x - 1 \notin Bad
  BY <1>2
<1>4. x - 1 \in T /\ (x - 1) + 1 = x
  BY <1>3
<1> QED BY <1>2, <1>3, <1>4

-----------------------------------------------------------------------------
(* Sums over finite sets. *)

Sum(f, D) == SumFunctionOnSet(f, D)

\* The recursive function that a sum folds a set with.
Pick(s) == CHOOSE x \in s : TRUE
FoldStep(f, g, s) == IF s = {} THEN 0 ELSE f[Pick(s)] + g[s \ {Pick(s)}]
IsFold(g, f, D) == g = [s \in SUBSET D |-> FoldStep(f, g, s)]

\* An element is picked out of the set.
LEMMA PickIn ==
    ASSUME NEW s, s # {}
    PROVE  Pick(s) \in s
BY DEF Pick

\* There is such a function, on the subsets of any finite set.
LEMMA FoldExists ==
    ASSUME NEW f, NEW D, IsFiniteSet(D)
    PROVE  \E g : IsFold(g, f, D)
<1> DEFINE Upto(g, n) == \A s \in SUBSET D : Cardinality(s) <= n => g[s] = FoldStep(f, g, s)
           T == {n \in Nat : \E g : Upto(g, n)}
<1>0. \A s \in SUBSET D : IsFiniteSet(s) /\ Cardinality(s) \in Nat
                       /\ Cardinality(s) <= Cardinality(D)
  BY FS_Subset, FS_CardinalityType
<1>1. 0 \in T
  <2> DEFINE g == [s \in SUBSET D |-> 0]
  <2>1. ASSUME NEW s \in SUBSET D, Cardinality(s) <= 0
        PROVE  g[s] = FoldStep(f, g, s)
    <3>1. s = {}
      BY <1>0, <2>1, FS_EmptySet
    <3> QED BY <3>1 DEF FoldStep
  <2>2. Upto(g, 0)
    BY <2>1
  <2> QED BY <2>2
<1>2. ASSUME NEW n \in Nat, n \in T
      PROVE  n + 1 \in T
  <2>1. PICK g : Upto(g, n)
    BY <1>2
  <2> DEFINE h == [s \in SUBSET D |-> IF Cardinality(s) <= n THEN g[s] ELSE FoldStep(f, g, s)]
  <2>2. ASSUME NEW s \in SUBSET D, Cardinality(s) <= n + 1
        PROVE  h[s] = FoldStep(f, h, s)
    <3>1. h[s] = FoldStep(f, g, s)
      BY <2>1
    <3>2. CASE s = {}
      BY <3>1, <3>2 DEF FoldStep
    <3>3. CASE s # {}
      <4> DEFINE r == s \ {Pick(s)}
      <4>1. Pick(s) \in s
        BY <3>3, PickIn
      <4>2. r \in SUBSET D /\ Cardinality(r) = Cardinality(s) - 1
        BY <1>0, <4>1, FS_RemoveElement
      <4>3. Cardinality(r) <= n
        BY <1>0, <2>2, <4>2
      <4>4. h[r] = g[r]
        BY <4>2, <4>3
      <4> QED BY <3>1, <3>3, <4>4 DEF FoldStep
    <3> QED BY <3>2, <3>3
  <2> HIDE DEF h
  <2>3. Upto(h, n + 1)
    BY <2>2
  <2> QED BY <2>3
<1>3. Cardinality(D) \in T
  <2> HIDE DEF T
  <2>1. \A n \in Nat : n \in T
    BY <1>1, <1>2, AllNumbers
  <2> QED BY <2>1, FS_CardinalityType
<1>4. PICK g : Upto(g, Cardinality(D))
  BY <1>3
<1> DEFINE h == [s \in SUBSET D |-> g[s]]
<1>5. ASSUME NEW s \in SUBSET D
      PROVE  h[s] = FoldStep(f, h, s)
  <2>1. g[s] = FoldStep(f, g, s)
    BY <1>0, <1>4
  <2>2. s # {} => Pick(s) \in s /\ s \ {Pick(s)} \in SUBSET D
    BY PickIn
  <2> QED BY <2>1, <2>2 DEF FoldStep
<1>6. h = [s \in SUBSET D |-> FoldStep(f, h, s)]
  BY <1>5
<1> HIDE DEF h
<1> QED BY <1>6 DEF IsFold

\* Two such functions agree where their summands do.
LEMMA FoldsAgree ==
    ASSUME NEW f, NEW g, NEW D, IsFold(g, f, D),
           NEW e, NEW h, NEW E, IsFold(h, e, E),
           NEW S, IsFiniteSet(S), S \subseteq D, S \subseteq E, \A x \in S : f[x] = e[x]
    PROVE  g[S] = h[S]
<1> DEFINE T == {n \in Nat : \A s \in SUBSET S : Cardinality(s) = n => g[s] = h[s]}
<1>0. \A s \in SUBSET S : IsFiniteSet(s) /\ Cardinality(s) \in Nat
  BY FS_Subset, FS_CardinalityType
<1>1. \A s \in SUBSET S : g[s] = FoldStep(f, g, s) /\ h[s] = FoldStep(e, h, s)
  BY DEF IsFold
<1>2. 0 \in T
  <2>1. ASSUME NEW s \in SUBSET S, Cardinality(s) = 0
        PROVE  g[s] = h[s]
    <3>1. s = {}
      BY <1>0, <2>1, FS_EmptySet
    <3> QED BY <1>1, <3>1 DEF FoldStep
  <2> QED BY <2>1
<1>3. ASSUME NEW n \in Nat, n \in T
      PROVE  n + 1 \in T
  <2>1. ASSUME NEW s \in SUBSET S, Cardinality(s) = n + 1
        PROVE  g[s] = h[s]
    <3> DEFINE r == s \ {Pick(s)}
    <3>1. s # {}
      BY <2>1, FS_EmptySet
    <3>2. Pick(s) \in s
      BY <3>1, PickIn
    <3>3. r \in SUBSET S /\ Cardinality(r) = n
      <4>1. Cardinality(r) = Cardinality(s) - 1
        BY <1>0, <3>2, FS_RemoveElement
      <4> QED BY <2>1, <4>1
    <3>4. g[r] = h[r] /\ f[Pick(s)] = e[Pick(s)]
      BY <1>3, <3>2, <3>3
    <3> QED BY <1>1, <3>1, <3>4 DEF FoldStep
  <2> QED BY <2>1
<1> HIDE DEF T
<1>4. Cardinality(S) \in T
  BY <1>2, <1>3, AllNumbers, FS_CardinalityType
<1> QED BY <1>4 DEF T

\* A sum is the value of any such function.
LEMMA SumIs ==
    ASSUME NEW f, NEW D, IsFiniteSet(D),
           NEW e, NEW h, NEW E, IsFold(h, e, E), D \subseteq E, \A x \in D : f[x] = e[x]
    PROVE  Sum(f, D) = h[D]
<1> DEFINE g == CHOOSE g : IsFold(g, f, D)
<1>1. IsFold(g, f, D)
  BY FoldExists
<1>2. Sum(f, D) = g[D]
  BY DEF Sum, SumFunctionOnSet, FoldFunctionOnSet, MapThenFoldSet, IsFold, FoldStep, Pick
<1> HIDE DEF g
<1> QED BY <1>1, <1>2, FoldsAgree

\* Sums depend on the summands only.
LEMMA SumEqual ==
    ASSUME NEW f, NEW e, NEW D, IsFiniteSet(D), \A x \in D : f[x] = e[x]
    PROVE  Sum(f, D) = Sum(e, D)
<1>1. PICK h : IsFold(h, e, D)
  BY FoldExists
<1> QED BY <1>1, SumIs

\* The empty sum.
LEMMA SumEmpty ==
    ASSUME NEW f
    PROVE  Sum(f, {}) = 0
<1>1. IsFiniteSet({})
  BY FS_EmptySet
<1>2. PICK h : IsFold(h, f, {})
  BY <1>1, FoldExists
<1>3. h[{}] = 0
  BY <1>2 DEF IsFold, FoldStep
<1> QED BY <1>1, <1>2, <1>3, SumIs

\* Any element may be taken out of a sum.
LEMMA SumRemove ==
    ASSUME NEW f, NEW D, IsFiniteSet(D), \A x \in D : f[x] \in Int
    PROVE  Sum(f, D) \in Int /\ \A x \in D : Sum(f, D) = f[x] + Sum(f, D \ {x})
<1>1. PICK g : IsFold(g, f, D)
  BY FoldExists
<1>2. \A s \in SUBSET D : IsFiniteSet(s) /\ Cardinality(s) \in Nat
  BY FS_Subset, FS_CardinalityType
<1>3. \A s \in SUBSET D : Sum(f, s) = g[s] /\ g[s] = FoldStep(f, g, s)
  BY <1>1, <1>2, SumIs DEF IsFold
<1>a. g[{}] = 0
  BY <1>3 DEF FoldStep
<1> DEFINE Fine(s) == g[s] \in Int /\ \A x \in s : g[s] = f[x] + g[s \ {x}]
           T == {n \in Nat : \A s \in SUBSET D : Cardinality(s) <= n => Fine(s)}
<1>4. 0 \in T
  <2>1. ASSUME NEW s \in SUBSET D, Cardinality(s) <= 0
        PROVE  Fine(s)
    <3>1. s = {}
      BY <1>2, <2>1, FS_EmptySet
    <3> QED BY <1>a, <3>1
  <2> QED BY <2>1
<1>5. ASSUME NEW n \in Nat, n \in T
      PROVE  n + 1 \in T
  <2>1. ASSUME NEW s \in SUBSET D, Cardinality(s) <= n + 1, s # {}
        PROVE  Fine(s)
    <3>1. ASSUME NEW x \in s
          PROVE  s \ {x} \in SUBSET D /\ Fine(s \ {x})
      <4>1. Cardinality(s \ {x}) = Cardinality(s) - 1
        BY <1>2, FS_RemoveElement
      <4>2. Cardinality(s \ {x}) <= n
        BY <1>2, <2>1, <4>1
      <4> QED BY <1>5, <4>2
    <3>2. PICK y \in s : g[s] = f[y] + g[s \ {y}]
      BY <1>3, <2>1, PickIn DEF FoldStep
    <3>3. f[y] \in Int /\ g[s \ {y}] \in Int
      BY <3>1, <3>2
    <3>4. ASSUME NEW x \in s, x # y
          PROVE  g[s] = f[x] + g[s \ {x}]
      <4>1. (s \ {y}) \ {x} = (s \ {x}) \ {y}
        OBVIOUS
      <4>2. g[s \ {y}] = f[x] + g[(s \ {y}) \ {x}]
        BY <3>1, <3>2, <3>4
      <4>3. g[s \ {x}] = f[y] + g[(s \ {x}) \ {y}]
        BY <3>1, <3>2, <3>4
      <4>4. f[x] \in Int /\ g[(s \ {y}) \ {x}] \in Int
        <5>1. x \in s \ {y} /\ s \ {y} \in SUBSET D
          BY <3>1, <3>2, <3>4
        <5>2. (s \ {y}) \ {x} \in SUBSET D /\ Cardinality((s \ {y}) \ {x}) <= n
          <6>1. Cardinality(s \ {y}) = Cardinality(s) - 1
            BY <1>2, <3>2, FS_RemoveElement
          <6>2. Cardinality((s \ {y}) \ {x}) = Cardinality(s \ {y}) - 1
            BY <1>2, <5>1, FS_RemoveElement
          <6> QED BY <1>2, <2>1, <5>1, <6>1, <6>2
        <5> QED BY <1>5, <3>4, <5>2
      <4>5. g[s] = f[y] + (f[x] + g[(s \ {y}) \ {x}])
        BY <3>2, <4>2
      <4>6. g[s \ {x}] = f[y] + g[(s \ {y}) \ {x}]
        BY <4>1, <4>3
      <4>7. \A a, b, c \in Int : b + (a + c) = a + (b + c)
        OBVIOUS
      <4> HIDE DEF T
      <4> QED BY <3>3, <4>4, <4>5, <4>6, <4>7
    <3>5. g[s] \in Int
      BY <3>2, <3>3
    <3>6. \A x \in s : g[s] = f[x] + g[s \ {x}]
      BY <3>2, <3>4
    <3> QED BY <3>5, <3>6
  <2>2. ASSUME NEW s \in SUBSET D, s = {}
        PROVE  Fine(s)
    BY <1>a, <2>2
  <2>3. \A s \in SUBSET D : Cardinality(s) <= n + 1 => Fine(s)
    <3> HIDE DEF Fine
    <3> QED BY <2>1, <2>2
  <2> QED BY <2>3
<1> HIDE DEF T
<1>6. Cardinality(D) \in T
  BY <1>4, <1>5, AllNumbers, FS_CardinalityType
<1>7. Fine(D)
  BY <1>2, <1>6 DEF T
<1> QED BY <1>3, <1>7

\* Sums over 1..n, one summand at a time.
LEMMA SumUpto ==
    ASSUME NEW n \in Nat, NEW f, \A i \in 1..n : f[i] \in Int
    PROVE  /\ Sum(f, 1..n) \in Int
           /\ n = 0 => Sum(f, 1..n) = 0
           /\ n > 0 => Sum(f, 1..n) = Sum(f, 1..(n - 1)) + f[n] /\ Sum(f, 1..(n - 1)) \in Int
<1>1. IsFiniteSet(1..n) /\ IsFiniteSet(1..(n - 1))
  BY FS_Interval
<1>2. Sum(f, 1..n) \in Int
  BY <1>1, SumRemove
<1>3. ASSUME n = 0
      PROVE  Sum(f, 1..n) = 0
  <2>1. 1..n = {}
    BY <1>3
  <2> QED BY <2>1, SumEmpty
<1>4. ASSUME n > 0
      PROVE  Sum(f, 1..n) = Sum(f, 1..(n - 1)) + f[n] /\ Sum(f, 1..(n - 1)) \in Int
  <2>1. n \in 1..n /\ (1..n) \ {n} = 1..(n - 1)
    BY <1>4
  <2>2. Sum(f, 1..n) = f[n] + Sum(f, 1..(n - 1))
    <3> DEFINE D == 1..n
    <3>1. IsFiniteSet(D) /\ n \in D /\ D \ {n} = 1..(n - 1) /\ \A x \in D : f[x] \in Int
      BY <1>1, <2>1
    <3> HIDE DEF D
    <3>2. Sum(f, D) = f[n] + Sum(f, D \ {n})
      BY <3>1, SumRemove
    <3> QED BY <3>1, <3>2 DEF D
  <2>3. Sum(f, 1..(n - 1)) \in Int
    <3>1. \A i \in 1..(n - 1) : f[i] \in Int
      OBVIOUS
    <3> QED BY <1>1, <3>1, SumRemove
  <2>4. f[n] \in Int
    BY <2>1
  <2> QED BY <2>2, <2>3, <2>4
<1> QED BY <1>2, <1>3, <1>4

-----------------------------------------------------------------------------
(* Flattening a sequence of sequences. *)

\* f is what FlattenSeq has after each of the sequences.
Flattens(f, seqs, S) ==
    /\ FlattenSeq(seqs) = f[Len(seqs)]
    /\ f[1] = seqs[1]
    /\ \A i \in 2..Len(seqs) : f[i] = f[i - 1] \o seqs[i]
    /\ \A i \in 1..Len(seqs) : f[i] \in Seq(S)

\* What FlattenSeq folds with, at every place.
LEMMA FlattenParts ==
    ASSUME NEW S, NEW seqs \in Seq(Seq(S)), Len(seqs) > 0
    PROVE  \E f : Flattens(f, seqs, S)
<1> DEFINE Body(f, n) == [i \in 1..n |-> IF i = 1 THEN seqs[i] ELSE f[i - 1] \o seqs[i]]
           T == {n \in Nat : \E f : f = Body(f, n)}
           flatten == CHOOSE f : f = Body(f, Len(seqs))
<1>1. 0 \in T
  <2>1. \E f : f = Body(f, 0)
    <3>1. Body([i \in {} |-> i], 0) = [i \in {} |-> i]
      OBVIOUS
    <3> QED BY <3>1
  <2> QED BY <2>1
<1>2. ASSUME NEW n \in Nat, n \in T
      PROVE  n + 1 \in T
  <2>1. PICK f : f = Body(f, n)
    BY <1>2
  <2> DEFINE h == [i \in 1..(n + 1) |->
                      IF i <= n THEN f[i] ELSE IF i = 1 THEN seqs[i] ELSE f[i - 1] \o seqs[i]]
  <2>2. ASSUME NEW i \in 1..(n + 1)
        PROVE  h[i] = IF i = 1 THEN seqs[i] ELSE h[i - 1] \o seqs[i]
    <3>1. i # 1 => i - 1 \in 1..n /\ h[i - 1] = f[i - 1]
      OBVIOUS
    <3>2. i <= n => f[i] = IF i = 1 THEN seqs[i] ELSE f[i - 1] \o seqs[i]
      <4> DEFINE B == Body(f, n)
      <4>1. i <= n => B[i] = IF i = 1 THEN seqs[i] ELSE f[i - 1] \o seqs[i]
        OBVIOUS
      <4>2. f = B
        BY <2>1
      <4> HIDE DEF B
      <4>3. f[i] = B[i]
        BY <4>2
      <4> QED BY <4>1, <4>3
    <3> QED BY <3>1, <3>2
  <2>3. h = Body(h, n + 1)
    BY <2>2
  <2> HIDE DEF h
  <2>4. \E e : e = Body(e, n + 1)
    <3> HIDE DEF Body
    <3> QED BY <2>3
  <2> HIDE DEF Body
  <2> QED BY <2>4
<1>3. \E f : f = Body(f, Len(seqs))
  <2> HIDE DEF T
  <2>1. \A n \in Nat : n \in T
    BY <1>1, <1>2, AllNumbers
  <2>2. Len(seqs) \in T
    BY <2>1
  <2> HIDE DEF Body
  <2> QED BY <2>2 DEF T
<1>4. flatten = Body(flatten, Len(seqs))
  BY <1>3
<1>5. FlattenSeq(seqs) = flatten[Len(seqs)]
  BY DEF FlattenSeq
<1> HIDE DEF flatten
<1>6. /\ flatten[1] = seqs[1]
      /\ \A i \in 2..Len(seqs) : flatten[i] = flatten[i - 1] \o seqs[i]
  <2> DEFINE B == Body(flatten, Len(seqs))
  <2>a. ASSUME NEW i \in 1..Len(seqs)
        PROVE  B[i] = IF i = 1 THEN seqs[i] ELSE flatten[i - 1] \o seqs[i]
    OBVIOUS
  <2>1. /\ B[1] = seqs[1]
        /\ \A i \in 2..Len(seqs) : B[i] = flatten[i - 1] \o seqs[i]
    <3> HIDE DEF B
    <3>1. 1 \in 1..Len(seqs)
      OBVIOUS
    <3>2. ASSUME NEW i \in 2..Len(seqs)
          PROVE  B[i] = flatten[i - 1] \o seqs[i]
      <4>1. i \in 1..Len(seqs) /\ i # 1
        OBVIOUS
      <4> QED BY <2>a, <4>1
    <3> QED BY <2>a, <3>1, <3>2
  <2>2. flatten = B
    BY <1>4
  <2> HIDE DEF B
  <2>3. flatten[1] = B[1] /\ \A i \in 2..Len(seqs) : flatten[i] = B[i]
    BY <2>2
  <2> QED BY <2>1, <2>3
<1> DEFINE U == {n \in Nat : n \in 1..Len(seqs) => flatten[n] \in Seq(S)}
<1>7. 0 \in U
  OBVIOUS
<1>8. ASSUME NEW n \in Nat, n \in U
      PROVE  n + 1 \in U
  <2>1. SUFFICES ASSUME n + 1 \in 1..Len(seqs) PROVE flatten[n + 1] \in Seq(S)
    OBVIOUS
  <2>2. seqs[n + 1] \in Seq(S)
    BY <2>1
  <2>3. CASE n = 0
    BY <1>6, <2>2, <2>3
  <2>4. CASE n > 0
    <3>1. flatten[n] \in Seq(S) /\ n + 1 \in 2..Len(seqs)
      BY <1>8, <2>1, <2>4
    <3>2. flatten[n + 1] = flatten[n] \o seqs[n + 1]
      <4>1. (n + 1) - 1 = n
        OBVIOUS
      <4>2. flatten[n + 1] = flatten[(n + 1) - 1] \o seqs[n + 1]
        BY <1>6, <3>1
      <4> QED BY <4>1, <4>2
    <3> QED BY <2>2, <3>1, <3>2
  <2> QED BY <2>3, <2>4
<1>9. \A n \in Nat : n \in U
  <2> HIDE DEF U
  <2> QED BY <1>7, <1>8, AllNumbers
<1>10. \A i \in 1..Len(seqs) : flatten[i] \in Seq(S)
  BY <1>9
<1>11. Flattens(flatten, seqs, S)
  BY <1>5, <1>6, <1>10 DEF Flattens
<1> QED BY <1>11

\* Flattening gives a sequence.
LEMMA FlattenIsSeq ==
    ASSUME NEW S, NEW seqs \in Seq(Seq(S))
    PROVE  FlattenSeq(seqs) \in Seq(S)
<1>1. CASE Len(seqs) = 0
  <2>1. FlattenSeq(seqs) = <<>>
    BY <1>1 DEF FlattenSeq
  <2> QED BY <2>1
<1>2. CASE Len(seqs) > 0
  <2>1. Len(seqs) \in 1..Len(seqs)
    BY <1>2
  <2>2. PICK f : Flattens(f, seqs, S)
    BY <1>2, FlattenParts
  <2> QED BY <2>1, <2>2 DEF Flattens
<1> QED BY <1>1, <1>2

-----------------------------------------------------------------------------
(* The total weight of the elements of a sequence. *)

Weigh(w, s) == Sum([n \in 1..Len(s) |-> w[s[n]]], 1..Len(s))

\* Weights are numbers.
LEMMA WeighIsInt ==
    ASSUME NEW S, NEW w \in [S -> Int], NEW s \in Seq(S)
    PROVE  Weigh(w, s) \in Int
<1> DEFINE f == [n \in 1..Len(s) |-> w[s[n]]]
<1>1. Len(s) \in Nat /\ \A i \in 1..Len(s) : f[i] \in Int
  OBVIOUS
<1> HIDE DEF f
<1>2. Sum(f, 1..Len(s)) \in Int
  BY <1>1, SumUpto
<1> QED BY <1>2 DEF Weigh, f

\* The weight of short sequences.
LEMMA WeighFew ==
    ASSUME NEW S, NEW w \in [S -> Int]
    PROVE  /\ Weigh(w, <<>>) = 0
           /\ \A x \in S : Weigh(w, <<x>>) = w[x]
           /\ \A x, y \in S : Weigh(w, <<x, y>>) = w[x] + w[y]
<1>1. Weigh(w, <<>>) = 0
  <2>1. Len(<<>>) = 0 /\ 1..0 = {}
    OBVIOUS
  <2> QED BY <2>1, SumEmpty DEF Weigh
<1>2. ASSUME NEW x \in S
      PROVE  Weigh(w, <<x>>) = w[x]
  <2> DEFINE f == [n \in 1..1 |-> w[<<x>>[n]]]
  <2>1. Len(<<x>>) = 1 /\ f[1] = w[x] /\ w[x] \in Int /\ \A i \in 1..1 : f[i] \in Int
    OBVIOUS
  <2>2. Weigh(w, <<x>>) = Sum(f, 1..1)
    BY <2>1 DEF Weigh
  <2> HIDE DEF f
  <2>3. PICK k \in Nat : k = 1
    OBVIOUS
  <2>4. Sum(f, 1..k) = Sum(f, 1..(k - 1)) + f[k]
    <3>1. k > 0 /\ \A i \in 1..k : f[i] \in Int
      BY <2>1, <2>3
    <3> QED BY ONLY <3>1, k \in Nat, SumUpto
  <2>5. 1..(k - 1) = {} /\ Sum(f, {}) = 0
    BY <2>3, SumEmpty
  <2> QED BY <2>1, <2>2, <2>3, <2>4, <2>5
<1>3. ASSUME NEW x \in S, NEW y \in S
      PROVE  Weigh(w, <<x, y>>) = w[x] + w[y]
  <2> DEFINE f == [n \in 1..2 |-> w[<<x, y>>[n]]]
  <2>1. /\ Len(<<x, y>>) = 2 /\ f[1] = w[x] /\ f[2] = w[y] /\ w[x] \in Int /\ w[y] \in Int
        /\ \A i \in 1..2 : f[i] \in Int
    OBVIOUS
  <2>2. Weigh(w, <<x, y>>) = Sum(f, 1..2)
    BY <2>1 DEF Weigh
  <2> HIDE DEF f
  <2>3. PICK k \in Nat : k = 2
    OBVIOUS
  <2>4. PICK j \in Nat : j = 1
    OBVIOUS
  <2>5. Sum(f, 1..k) = Sum(f, 1..(k - 1)) + f[k]
    <3>1. k > 0 /\ \A i \in 1..k : f[i] \in Int
      BY <2>1, <2>3
    <3> QED BY ONLY <3>1, k \in Nat, SumUpto
  <2>6. Sum(f, 1..j) = Sum(f, 1..(j - 1)) + f[j]
    <3>1. j > 0 /\ \A i \in 1..j : f[i] \in Int
      BY <2>1, <2>4
    <3> QED BY ONLY <3>1, j \in Nat, SumUpto
  <2>7. 1..(j - 1) = {} /\ k - 1 = j
    BY <2>3, <2>4
  <2>8. Sum(f, 1..(j - 1)) = 0
    BY <2>7, SumEmpty
  <2>9. Sum(f, 1..j) = f[1]
    BY <2>1, <2>4, <2>6, <2>8
  <2> QED BY <2>1, <2>2, <2>3, <2>5, <2>7, <2>9
<1> QED BY <1>1, <1>2, <1>3

\* Weights add up over concatenation.
LEMMA WeighConcat ==
    ASSUME NEW S, NEW w \in [S -> Int], NEW s \in Seq(S), NEW t \in Seq(S)
    PROVE  Weigh(w, s \o t) = Weigh(w, s) + Weigh(w, t)
<1> DEFINE ls == Len(s)
           lt == Len(t)
           a == [n \in 1..ls |-> w[s[n]]]
           b == [n \in 1..lt |-> w[t[n]]]
           c == [n \in 1..Len(s \o t) |-> w[(s \o t)[n]]]
<1>1. /\ ls \in Nat /\ lt \in Nat /\ s \o t \in Seq(S) /\ Len(s \o t) = ls + lt
      /\ \A i \in 1..(ls + lt) : (s \o t)[i] = IF i <= ls THEN s[i] ELSE t[i - ls]
  BY ConcatProperties
<1>2. /\ \A i \in 1..ls : a[i] \in Int
      /\ \A i \in 1..lt : b[i] \in Int
  OBVIOUS
<1>3. \A i \in 1..ls : i \in 1..(ls + lt) /\ c[i] = a[i]
  BY <1>1
<1>4. \A i \in 1..lt : ls + i \in 1..(ls + lt) /\ c[ls + i] = b[i]
  BY <1>1
<1>5. \A i \in 1..(ls + lt) : c[i] \in Int
  BY <1>1
<1>6. Weigh(w, s) = Sum(a, 1..ls) /\ Weigh(w, t) = Sum(b, 1..lt)
      /\ Weigh(w, s \o t) = Sum(c, 1..(ls + lt))
  BY <1>1 DEF Weigh
<1> HIDE DEF a, b, c, ls, lt
<1> DEFINE T == {n \in Nat : n <= lt => Sum(c, 1..(ls + n)) = Sum(a, 1..ls) + Sum(b, 1..n)}
<1>7. Sum(a, 1..ls) \in Int
  BY <1>1, <1>2, SumUpto
<1>8. 0 \in T
  <2>1. Sum(c, 1..ls) = Sum(a, 1..ls)
    <3>1. IsFiniteSet(1..ls)
      BY <1>1, FS_Interval
    <3> QED BY <1>3, <3>1, SumEqual
  <2>2. 1..0 = {} /\ ls + 0 = ls
    BY <1>1
  <2>3. Sum(b, 1..0) = 0
    BY <2>2, SumEmpty
  <2> QED BY <1>7, <2>1, <2>2, <2>3
<1>9. ASSUME NEW n \in Nat, n \in T
      PROVE  n + 1 \in T
  <2>1. SUFFICES ASSUME n + 1 <= lt
                 PROVE  Sum(c, 1..(ls + (n + 1))) = Sum(a, 1..ls) + Sum(b, 1..(n + 1))
    OBVIOUS
  <2>2. Sum(c, 1..(ls + n)) = Sum(a, 1..ls) + Sum(b, 1..n)
    BY <1>1, <1>9, <2>1
  <2>3. /\ Sum(b, 1..(n + 1)) = Sum(b, 1..n) + b[n + 1] /\ Sum(b, 1..n) \in Int
    <3>1. n + 1 \in Nat /\ n + 1 > 0 /\ (n + 1) - 1 = n /\ \A i \in 1..(n + 1) : b[i] \in Int
      BY <1>1, <1>2, <2>1
    <3> QED BY <3>1, SumUpto
  <2>4. /\ Sum(c, 1..(ls + (n + 1))) = Sum(c, 1..(ls + n)) + c[ls + (n + 1)]
    <3> DEFINE m == ls + (n + 1)
    <3>1. m \in Nat /\ m > 0 /\ m - 1 = ls + n /\ \A i \in 1..m : c[i] \in Int
      BY <1>1, <1>5, <2>1
    <3> HIDE DEF m
    <3>2. Sum(c, 1..m) = Sum(c, 1..(m - 1)) + c[m]
      BY <3>1, SumUpto
    <3> QED BY <3>1, <3>2 DEF m
  <2>5. c[ls + (n + 1)] = b[n + 1] /\ b[n + 1] \in Int
    BY <1>1, <1>2, <1>4, <2>1
  <2> QED BY <1>7, <2>2, <2>3, <2>4, <2>5
<1> HIDE DEF T
<1>10. lt \in T
  BY <1>1, <1>8, <1>9, AllNumbers
<1> QED BY <1>1, <1>6, <1>10 DEF T

\* Weights add up over flattening.
LEMMA WeighFlatten ==
    ASSUME NEW S, NEW w \in [S -> Int], NEW seqs \in Seq(Seq(S)),
           NEW v, \A i \in 1..Len(seqs) : v[i] = Weigh(w, seqs[i])
    PROVE  Weigh(w, FlattenSeq(seqs)) = Sum(v, 1..Len(seqs))
<1> DEFINE n == Len(seqs)
<1>0. n \in Nat /\ \A i \in 1..n : seqs[i] \in Seq(S)
  OBVIOUS
<1>1. \A i \in 1..n : v[i] \in Int
  BY <1>0, WeighIsInt
<1>2. CASE n = 0
  <2>1. FlattenSeq(seqs) = <<>> /\ 1..n = {}
    BY <1>2 DEF FlattenSeq
  <2> QED BY <2>1, WeighFew, SumEmpty
<1>3. CASE n > 0
  <2>1. PICK f : Flattens(f, seqs, S)
    BY <1>3, FlattenParts
  <2>2. /\ FlattenSeq(seqs) = f[n] /\ f[1] = seqs[1]
        /\ \A i \in 2..n : f[i] = f[i - 1] \o seqs[i]
        /\ \A i \in 1..n : f[i] \in Seq(S)
    BY <2>1 DEF Flattens
  <2> HIDE DEF n
  <2> DEFINE T == {k \in Nat : k \in 1..n => Weigh(w, f[k]) = Sum(v, 1..k)}
  <2>3. 0 \in T
    OBVIOUS
  <2>4. ASSUME NEW k \in Nat, k \in T
        PROVE  k + 1 \in T
    <3>1. SUFFICES ASSUME k + 1 \in 1..n PROVE Weigh(w, f[k + 1]) = Sum(v, 1..(k + 1))
      OBVIOUS
    <3>2. Sum(v, 1..(k + 1)) = Sum(v, 1..k) + v[k + 1] /\ Sum(v, 1..k) \in Int
      <4>1. k + 1 \in Nat /\ k + 1 > 0 /\ (k + 1) - 1 = k /\ \A i \in 1..(k + 1) : v[i] \in Int
        BY <1>0, <1>1, <3>1
      <4> QED BY <4>1, SumUpto
    <3>3. v[k + 1] = Weigh(w, seqs[k + 1]) /\ v[k + 1] \in Int
      BY <1>1, <3>1 DEF n
    <3>4. CASE k = 0
      <4>0. 1..k = {}
        BY <3>4
      <4>1. Sum(v, 1..k) = 0
        BY <4>0, SumEmpty
      <4>2. Sum(v, 1..(k + 1)) = v[k + 1]
        BY <3>2, <3>3, <4>1
      <4>3. f[k + 1] = seqs[k + 1]
        BY <2>2, <3>4
      <4> QED BY <3>3, <4>2, <4>3
    <3>5. CASE k > 0
      <4>1. k \in 1..n /\ k + 1 \in 2..n /\ (k + 1) - 1 = k
        BY <1>0, <3>1, <3>5
      <4>2. f[k + 1] = f[(k + 1) - 1] \o seqs[k + 1]
        BY <2>2, <4>1
      <4>3. f[k] \in Seq(S) /\ seqs[k + 1] \in Seq(S)
        BY <1>0, <2>2, <3>1, <4>1
      <4>4. Weigh(w, f[k + 1]) = Weigh(w, f[k]) + Weigh(w, seqs[k + 1])
        <5>1. f[k + 1] = f[k] \o seqs[k + 1]
          BY <4>1, <4>2
        <5>2. Weigh(w, f[k] \o seqs[k + 1]) = Weigh(w, f[k]) + Weigh(w, seqs[k + 1])
          BY <4>3, WeighConcat
        <5> QED BY <5>1, <5>2
      <4>5. Weigh(w, f[k]) = Sum(v, 1..k)
        BY <2>4, <4>1
      <4> QED BY <3>2, <3>3, <4>4, <4>5
    <3> QED BY <3>4, <3>5
  <2> HIDE DEF T
  <2>5. n \in T
    BY <1>0, <2>3, <2>4, AllNumbers
  <2>6. Weigh(w, f[n]) = Sum(v, 1..n)
    BY <1>0, <1>3, <2>5 DEF T
  <2> QED BY <2>2, <2>6 DEF n
<1> QED BY <1>0, <1>2, <1>3

-----------------------------------------------------------------------------
(* Sums and differences of sums. *)

\* Sums of sums.
LEMMA SumPlus ==
    ASSUME NEW n \in Nat, NEW f, NEW g, NEW h,
           \A i \in 1..n : f[i] \in Int /\ g[i] \in Int /\ h[i] = f[i] + g[i]
    PROVE  Sum(h, 1..n) = Sum(f, 1..n) + Sum(g, 1..n)
<1> DEFINE T == {k \in Nat : k <= n => Sum(h, 1..k) = Sum(f, 1..k) + Sum(g, 1..k)}
<1>1. 0 \in T
  <2>1. 1..0 = {}
    OBVIOUS
  <2>2. Sum(h, 1..0) = 0 /\ Sum(f, 1..0) = 0 /\ Sum(g, 1..0) = 0
    BY <2>1, SumEmpty
  <2> QED BY <2>2
<1>2. ASSUME NEW k \in Nat, k \in T
      PROVE  k + 1 \in T
  <2>1. SUFFICES ASSUME k + 1 <= n
                 PROVE  Sum(h, 1..(k + 1)) = Sum(f, 1..(k + 1)) + Sum(g, 1..(k + 1))
    OBVIOUS
  <2>2. \A i \in 1..(k + 1) : f[i] \in Int /\ g[i] \in Int /\ h[i] \in Int
    BY <2>1
  <2>3. k + 1 \in Nat /\ k + 1 > 0 /\ (k + 1) - 1 = k
    OBVIOUS
  <2>4. Sum(f, 1..(k + 1)) = Sum(f, 1..k) + f[k + 1] /\ Sum(f, 1..k) \in Int
    BY <2>2, <2>3, SumUpto
  <2>5. Sum(g, 1..(k + 1)) = Sum(g, 1..k) + g[k + 1] /\ Sum(g, 1..k) \in Int
    BY <2>2, <2>3, SumUpto
  <2>6. Sum(h, 1..(k + 1)) = Sum(h, 1..k) + h[k + 1]
    BY <2>2, <2>3, SumUpto
  <2>7. Sum(h, 1..k) = Sum(f, 1..k) + Sum(g, 1..k)
    BY <1>2, <2>1
  <2>8. f[k + 1] \in Int /\ g[k + 1] \in Int /\ h[k + 1] = f[k + 1] + g[k + 1]
    BY <2>1
  <2> QED BY <2>4, <2>5, <2>6, <2>7, <2>8
<1> HIDE DEF T
<1>3. n \in T
  BY <1>1, <1>2, AllNumbers
<1> QED BY <1>3 DEF T
=============================================================================
