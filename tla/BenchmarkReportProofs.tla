------------------------ MODULE BenchmarkReportProofs ------------------------
(***************************************************************************)
(* What the computations of BenchmarkReport return, for every input: sums  *)
(* and joined lists, the percentiles of latencySummary, and the plan of an *)
(* accepted configuration.                                                 *)
(*                                                                         *)
(* Induction takes the form of a least counterexample: a set of naturals   *)
(* that is not empty has a least element.  A fold over a finite set is a   *)
(* recursive function on its subsets; it exists by induction on the size   *)
(* of the subsets.                                                         *)
(***************************************************************************)
EXTENDS BenchmarkReport, WellFoundedInduction, FiniteSetTheorems, TLAPS

-----------------------------------------------------------------------------
(* Induction and folds.                                                    *)

\* A set of naturals that is not empty has a least element.
LEMMA LeastNumber ==
    ASSUME NEW T, T \subseteq Nat, T # {}
    PROVE  \E n \in T : \A m \in T : n <= m
<1>1. IsWellFoundedOn(OpToRel(<, Nat), Nat)
  BY NatLessThanWellFounded
<1>2. PICK n \in T : \A m \in T : <<m, n>> \notin OpToRel(<, Nat)
  BY <1>1, WFMin
<1>3. \A m \in T : ~(m < n)
  BY <1>2 DEF OpToRel
<1>4. QED
  BY <1>3

\* Induction over the naturals, for sets.
LEMMA Induct ==
    ASSUME NEW T, T \subseteq Nat, 0 \in T, \A n \in T : n + 1 \in T
    PROVE  T = Nat
<1>1. ASSUME Nat \ T # {} PROVE FALSE
  <2>1. PICK n \in Nat \ T : \A m \in Nat \ T : n <= m
    BY <1>1, LeastNumber
  <2>2. n # 0 /\ n - 1 \in Nat /\ n - 1 \notin Nat \ T
    BY <2>1
  <2>3. QED
    BY <2>1, <2>2
<1>2. QED
  BY <1>1

\* The element the folds of the community modules take next.
First(s) == CHOOSE x \in s : TRUE

\* A choice from a set that is not empty is an element of it.
LEMMA FirstIn == ASSUME NEW s, s # {} PROVE First(s) \in s
BY DEF First

\* h satisfies the equation of a fold with step G on the sets of D.
Folds(h, D, G, base) ==
    \A s \in D : h[s] = IF s = {} THEN base ELSE G[<<First(s), h[s \ {First(s)}]>>]

\* The finite subsets of S with at most n elements.
Small(S, n) == {s \in SUBSET S : IsFiniteSet(s) /\ Cardinality(s) <= n}

\* Without its first element, a set is one smaller.
LEMMA SmallStep ==
    ASSUME NEW S, NEW n \in Nat, NEW s \in Small(S, n + 1), s # {}
    PROVE  s \ {First(s)} \in Small(S, n)
<1>1. First(s) \in s
  BY FirstIn
<1>2. IsFiniteSet(s) /\ Cardinality(s) <= n + 1 /\ s \in SUBSET S /\ Cardinality(s) \in Nat
  BY FS_CardinalityType DEF Small
<1>3. IsFiniteSet(s \ {First(s)}) /\ Cardinality(s \ {First(s)}) = Cardinality(s) - 1
  BY <1>1, <1>2, FS_RemoveElement
<1>4. QED
  BY <1>2, <1>3 DEF Small

\* A larger bound admits more sets.
LEMMA SmallGrows ==
    ASSUME NEW S, NEW n \in Nat
    PROVE  Small(S, n) \subseteq Small(S, n + 1)
<1>1. ASSUME NEW s \in Small(S, n) PROVE s \in Small(S, n + 1)
  <2>1. Cardinality(s) \in Nat
    BY FS_CardinalityType DEF Small
  <2>2. QED
    BY <2>1 DEF Small
<1>2. QED
  BY <1>1

\* A function that folds the subsets of a finite set exists.
LEMMA FoldExists ==
    ASSUME NEW S, IsFiniteSet(S), NEW A, NEW base \in A, NEW G \in [S \X A -> A]
    PROVE  \E h \in [SUBSET S -> A] : Folds(h, SUBSET S, G, base)
<1> DEFINE T == {n \in Nat : \E h \in [Small(S, n) -> A] : Folds(h, Small(S, n), G, base)}
<1>1. 0 \in T
  <2>1. Small(S, 0) = {{}}
    <3>1. \A s \in Small(S, 0) : s = {}
      BY FS_EmptySet, FS_CardinalityType DEF Small
    <3>2. {} \in Small(S, 0)
      BY FS_EmptySet DEF Small
    <3>3. QED
      BY <3>1, <3>2
  <2>2. [s \in Small(S, 0) |-> base] \in [Small(S, 0) -> A]
    OBVIOUS
  <2>3. Folds([s \in Small(S, 0) |-> base], Small(S, 0), G, base)
    BY <2>1 DEF Folds
  <2>4. QED
    BY <2>2, <2>3
<1>2. ASSUME NEW n \in T PROVE n + 1 \in T
  <2>1. n \in Nat
    OBVIOUS
  <2>2. PICK h \in [Small(S, n) -> A] : Folds(h, Small(S, n), G, base)
    OBVIOUS
  <2> DEFINE g == [s \in Small(S, n + 1) |->
                      IF s = {} THEN base ELSE G[<<First(s), h[s \ {First(s)}]>>]]
  <2>3. Small(S, n) \subseteq Small(S, n + 1)
    BY <2>1, SmallGrows
  <2>4. \A s \in Small(S, n) : g[s] = h[s]
    BY <2>2, <2>3 DEF Folds
  <2>5. ASSUME NEW s \in Small(S, n + 1), s # {}
        PROVE  /\ s \ {First(s)} \in Small(S, n) /\ First(s) \in S
               /\ h[s \ {First(s)}] \in A
    <3>1. s \ {First(s)} \in Small(S, n)
      BY <2>1, <2>5, SmallStep
    <3>2. First(s) \in s /\ s \subseteq S
      BY <2>5, FirstIn DEF Small
    <3>3. QED
      BY <2>2, <3>1, <3>2
  <2>6. g \in [Small(S, n + 1) -> A]
    BY <2>5
  <2>7. Folds(g, Small(S, n + 1), G, base)
    BY <2>4, <2>5 DEF Folds
  <2>8. \E k \in [Small(S, n + 1) -> A] : Folds(k, Small(S, n + 1), G, base)
    <3> HIDE DEF g
    <3> QED
      BY <2>6, <2>7
  <2>9. QED
    BY <2>1, <2>8
<1>3. T = Nat
  <2> HIDE DEF T
  <2>1. T \subseteq Nat
    BY DEF T
  <2>2. QED
  BY <1>1, <1>2, <2>1, Induct
<1>4. Cardinality(S) \in Nat
  BY FS_CardinalityType
<1>5. PICK h \in [Small(S, Cardinality(S)) -> A] : Folds(h, Small(S, Cardinality(S)), G, base)
  BY <1>3, <1>4
<1>6. Small(S, Cardinality(S)) = SUBSET S
  BY FS_Subset DEF Small
<1>7. QED
  BY <1>5, <1>6


\* What holds of the empty set, and of a set whenever it holds of the set without
\* its first element, holds of every finite set.
LEMMA FoldInduct ==
    ASSUME NEW S, IsFiniteSet(S), NEW H, {} \in H,
           \A s \in SUBSET S : s # {} /\ s \ {First(s)} \in H => s \in H
    PROVE  S \in H
<1> DEFINE T == {n \in Nat : Small(S, n) \subseteq H}
<1>1. 0 \in T
  <2>1. \A s \in Small(S, 0) : s = {}
    BY FS_EmptySet, FS_CardinalityType DEF Small
  <2>2. QED
    BY <2>1
<1>2. ASSUME NEW n \in T PROVE n + 1 \in T
  <2>1. ASSUME NEW s \in Small(S, n + 1) PROVE s \in H
    <3>1. CASE s = {}
      BY <3>1
    <3>2. CASE s # {}
      <4>1. s \ {First(s)} \in Small(S, n)
        BY <3>2, SmallStep
      <4>2. s \ {First(s)} \in H
        BY <4>1
      <4>3. s \in SUBSET S
        BY DEF Small
      <4>4. QED
        BY <3>2, <4>2, <4>3
    <3>3. QED
      BY <3>1, <3>2
  <2>2. QED
    BY <2>1
<1>3. T = Nat
  <2> HIDE DEF T
  <2>1. T \subseteq Nat
    BY DEF T
  <2>2. QED
    BY <1>1, <1>2, <2>1, Induct
<1>4. Cardinality(S) \in Nat /\ S \in Small(S, Cardinality(S))
  BY FS_CardinalityType DEF Small
<1>5. QED
  BY <1>3, <1>4

\* h[s] is the sum of f over s.
IsSum(h, f, S) ==
    h = [s \in SUBSET S |-> IF s = {} THEN 0 ELSE f[First(s)] + h[s \ {First(s)}]]

\* SumFunction adds up the values one by one.
LEMMA SumFolds ==
    ASSUME NEW S, IsFiniteSet(S), NEW f \in [S -> Nat]
    PROVE  \E h : SumFunction(f) = h[S] /\ IsSum(h, f, S)
<1> DEFINE iter == CHOOSE h : IsSum(h, f, S)
<1>1. SumFunction(f) = iter[S]
  BY DEF SumFunction, SumFunctionOnSet, FoldFunctionOnSet, MapThenFoldSet, First, IsSum
<1>2. \E h : IsSum(h, f, S)
  <2> DEFINE G == [p \in S \X Nat |-> f[p[1]] + p[2]]
  <2>1. G \in [S \X Nat -> Nat] /\ 0 \in Nat
    OBVIOUS
  <2>2. PICK h \in [SUBSET S -> Nat] : Folds(h, SUBSET S, G, 0)
    <3> HIDE DEF G
    <3> QED
      BY <2>1, FoldExists
  <2>3. ASSUME NEW s \in SUBSET S
        PROVE  h[s] = IF s = {} THEN 0 ELSE f[First(s)] + h[s \ {First(s)}]
    <3>1. s # {} => First(s) \in S /\ h[s \ {First(s)}] \in Nat
      BY <2>2, FirstIn
    <3>2. QED
      BY <2>2, <3>1 DEF Folds
  <2>4. IsSum(h, f, S)
    BY <2>2, <2>3 DEF IsSum
  <2>5. QED
    BY <2>4
<1>3. IsSum(iter, f, S)
  BY <1>2
<1>4. QED
  BY <1>1, <1>3

\* The size of a union of two finite sets that have nothing in common.
LEMMA DisjointUnion ==
    ASSUME NEW S, NEW T, IsFiniteSet(S), IsFiniteSet(T), S \cap T = {}
    PROVE  /\ IsFiniteSet(S \cup T)
           /\ Cardinality(S \cup T) = Cardinality(S) + Cardinality(T)
<1>1. Cardinality(S) \in Nat /\ Cardinality(T) \in Nat
  BY FS_CardinalityType
<1>2. Cardinality(S \cap T) = 0
  BY FS_EmptySet
<1>3. /\ IsFiniteSet(S \cup T)
      /\ Cardinality(S \cup T) = Cardinality(S) + Cardinality(T) - Cardinality(S \cap T)
  BY FS_Union
<1>4. QED
  BY <1>1, <1>2, <1>3

\* What SumFunction counts.
Under(f, s) == {p \in s \X Nat : p[2] \in 1..f[p[1]]}

\* The sum of natural numbers is the size of a set: that many places below each.
LEMMA SumIsCount ==
    ASSUME NEW S, IsFiniteSet(S), NEW f \in [S -> Nat]
    PROVE  IsFiniteSet(Under(f, S)) /\ SumFunction(f) = Cardinality(Under(f, S))
<1>1. PICK h : SumFunction(f) = h[S] /\ IsSum(h, f, S)
  BY SumFolds
<1> DEFINE H == {s \in SUBSET S : IsFiniteSet(Under(f, s)) /\ h[s] = Cardinality(Under(f, s))}
<1>2. {} \in H
  <2>1. Under(f, {}) = {}
    BY DEF Under
  <2>2. h[{}] = 0
    BY <1>1 DEF IsSum
  <2>3. QED
    BY <2>1, <2>2, FS_EmptySet
<1>3. ASSUME NEW s \in SUBSET S, s # {}, s \ {First(s)} \in H
      PROVE  s \in H
  <2> DEFINE x == First(s)
             rest == s \ {x}
             new == {x} \X (1..f[x])
  <2>1. x \in s /\ x \in S /\ f[x] \in Nat
    BY <1>3, FirstIn
  <2>2. h[s] = f[x] + h[rest]
    BY <1>1, <1>3 DEF IsSum
  <2>3. IsFiniteSet(Under(f, rest)) /\ h[rest] = Cardinality(Under(f, rest))
    BY <1>3
  <2>4. IsFiniteSet(new) /\ Cardinality(new) = f[x]
    <3>1. IsFiniteSet({x}) /\ Cardinality({x}) = 1
      BY FS_Singleton
    <3>2. IsFiniteSet(1..f[x]) /\ Cardinality(1..f[x]) = f[x]
      BY <2>1, FS_Interval
    <3>3. IsFiniteSet(new) /\ Cardinality(new) = 1 * f[x]
      BY <3>1, <3>2, FS_Product, ZenonT(30)
    <3>4. QED
      BY <2>1, <3>3
  <2>5. Under(f, s) = Under(f, rest) \cup new /\ Under(f, rest) \cap new = {}
    <3> HIDE DEF x
    <3> QED
      BY <2>1 DEF Under
  <2>6. /\ IsFiniteSet(Under(f, s))
        /\ Cardinality(Under(f, s)) = Cardinality(Under(f, rest)) + Cardinality(new)
    <3>1. PICK A, B : A = Under(f, rest) /\ B = new
      OBVIOUS
    <3>2. IsFiniteSet(A) /\ IsFiniteSet(B) /\ A \cap B = {} /\ Under(f, s) = A \cup B
      BY <2>3, <2>4, <2>5, <3>1
    <3>3. /\ IsFiniteSet(A \cup B)
          /\ Cardinality(A \cup B) = Cardinality(A) + Cardinality(B)
      BY <3>2, DisjointUnion
    <3>4. QED
      BY <3>1, <3>2, <3>3
  <2>7. h[s] = Cardinality(Under(f, s))
    BY <2>1, <2>2, <2>3, <2>4, <2>6, FS_CardinalityType
  <2>8. QED
    BY <2>6, <2>7
<1>4. S \in H
  <2> HIDE DEF H
  <2> QED
    BY <1>2, <1>3, FoldInduct
<1>5. QED
  BY <1>1, <1>4

\* The lists of the workers f, one after the other: Samples of module Benchmark.
Joined(f) == FoldFunction(LAMBDA x, rest : x.samples \o rest, <<>>, f)

IsJoin(h, f, S) ==
    h = [s \in SUBSET S |->
            IF s = {} THEN <<>> ELSE f[First(s)].samples \o h[s \ {First(s)}]]

\* The lists are joined one by one.
LEMMA JoinFolds ==
    ASSUME NEW S, IsFiniteSet(S), NEW A, NEW f, DOMAIN f = S,
           \A i \in S : f[i].samples \in Seq(A)
    PROVE  \E h : Joined(f) = h[S] /\ IsJoin(h, f, S)
<1> DEFINE iter == CHOOSE h : IsJoin(h, f, S)
<1>1. Joined(f) = iter[S]
  BY DEF Joined, FoldFunction, FoldFunctionOnSet, MapThenFoldSet, First, IsJoin
<1>2. \E h : IsJoin(h, f, S)
  <2> DEFINE G == [p \in S \X Seq(A) |-> f[p[1]].samples \o p[2]]
  <2>1. G \in [S \X Seq(A) -> Seq(A)] /\ <<>> \in Seq(A)
    OBVIOUS
  <2>2. PICK h \in [SUBSET S -> Seq(A)] : Folds(h, SUBSET S, G, <<>>)
    <3>1. PICK B : B = Seq(A)
      OBVIOUS
    <3> HIDE DEF G
    <3>2. G \in [S \X B -> B] /\ <<>> \in B
      BY <2>1, <3>1
    <3>3. QED
      BY <3>1, <3>2, FoldExists
  <2>3. ASSUME NEW s \in SUBSET S
        PROVE  h[s] = IF s = {} THEN <<>> ELSE f[First(s)].samples \o h[s \ {First(s)}]
    <3>1. s # {} => First(s) \in S /\ h[s \ {First(s)}] \in Seq(A)
      BY <2>2, FirstIn
    <3>2. QED
      BY <2>2, <3>1 DEF Folds
  <2>4. IsJoin(h, f, S)
    BY <2>2, <2>3 DEF IsJoin
  <2>5. QED
    BY <2>4
<1>3. IsJoin(iter, f, S)
  BY <1>2
<1>4. QED
  BY <1>1, <1>3

\* Every element of the list x is one of the list y.
Within(x, y) == \A k \in DOMAIN x : \E j \in DOMAIN y : y[j] = x[k]

\* A joined list has the elements of both.
LEMMA WithinJoined ==
    ASSUME NEW A, NEW x \in Seq(A), NEW y \in Seq(A)
    PROVE  x \o y \in Seq(A) /\ Within(x, x \o y) /\ Within(y, x \o y)
<1>1. PICK z : z = x \o y
  OBVIOUS
<1>2. /\ z \in Seq(A) /\ DOMAIN z = 1..(Len(x) + Len(y))
      /\ DOMAIN x = 1..Len(x) /\ DOMAIN y = 1..Len(y) /\ Len(x) \in Nat /\ Len(y) \in Nat
      /\ \A k \in 1..Len(x) : z[k] = x[k]
      /\ \A k \in 1..Len(y) : z[Len(x) + k] = y[k]
  BY <1>1
<1>3. ASSUME NEW k \in DOMAIN x PROVE \E j \in DOMAIN z : z[j] = x[k]
  <2>1. k \in DOMAIN z /\ z[k] = x[k]
    BY <1>2
  <2>2. QED
    BY <2>1
<1>4. ASSUME NEW k \in DOMAIN y PROVE \E j \in DOMAIN z : z[j] = y[k]
  <2>1. Len(x) + k \in DOMAIN z /\ z[Len(x) + k] = y[k]
    BY <1>2
  <2>2. QED
    BY <2>1
<1>5. QED
  BY <1>1, <1>2, <1>3, <1>4 DEF Within

\* The joined list has the elements of every worker's list, and only samples.
LEMMA JoinedHasAll ==
    ASSUME NEW S, IsFiniteSet(S), NEW A, NEW f, DOMAIN f = S,
           \A i \in S : f[i].samples \in Seq(A)
    PROVE  Joined(f) \in Seq(A) /\ \A i \in S : Within(f[i].samples, Joined(f))
<1>1. PICK h : Joined(f) = h[S] /\ IsJoin(h, f, S)
  BY JoinFolds
<1> DEFINE H == {s \in SUBSET S : /\ h[s] \in Seq(A)
                                  /\ \A i \in s : Within(f[i].samples, h[s])}
<1>2. {} \in H
  <2>1. h[{}] = <<>>
    BY <1>1 DEF IsJoin
  <2>2. <<>> \in Seq(A)
    OBVIOUS
  <2>3. h[{}] \in Seq(A)
    BY <2>1, <2>2
  <2>4. QED
    BY <2>3
<1>3. ASSUME NEW s \in SUBSET S, s # {}, s \ {First(s)} \in H
      PROVE  s \in H
  <2>1. First(s) \in s
    BY <1>3, FirstIn
  <2>2. PICK x, y : x = f[First(s)].samples /\ y = h[s \ {First(s)}]
    OBVIOUS
  <2>3. x \in Seq(A) /\ y \in Seq(A)
    BY <1>3, <2>1, <2>2
  <2>4. h[s] = x \o y
    BY <1>1, <1>3, <2>2 DEF IsJoin
  <2>5. h[s] \in Seq(A) /\ Within(x, h[s]) /\ Within(y, h[s])
    BY <2>3, <2>4, WithinJoined
  <2>6. ASSUME NEW i \in s PROVE Within(f[i].samples, h[s])
    <3>1. CASE i = First(s)
      BY <2>2, <2>5, <3>1
    <3>2. CASE i # First(s)
      <4>1. Within(f[i].samples, y)
        BY <1>3, <2>2, <3>2
      <4>2. QED
        BY <2>5, <4>1 DEF Within
    <3>3. QED
      BY <3>1, <3>2
  <2>7. QED
    BY <2>5, <2>6
<1>4. S \in H
  <2> HIDE DEF H
  <2> QED
    BY <1>2, <1>3, FoldInduct
<1>5. QED
  BY <1>1, <1>4
-----------------------------------------------------------------------------
(* The percentiles of latencySummary.                                      *)

\* Sample i does not come after sample j in the order of sort.Float64s.
Before(samples, i, j) ==
    \/ samples[i].duration < samples[j].duration
    \/ samples[i].duration = samples[j].duration /\ i <= j

\* The samples of I up to i, in that order.
UpTo(samples, I, i) == {j \in I : Before(samples, j, i)}

\* Places that hold durations.
Timed(samples, I) ==
    IsFiniteSet(I) /\ I \subseteq Nat /\ \A i \in I : samples[i].duration \in Nat

\* No two samples have the same number of samples up to them.
LEMMA PlacesDiffer ==
    ASSUME NEW samples, NEW I, Timed(samples, I), NEW i \in I, NEW j \in I, i # j
    PROVE  Cardinality(UpTo(samples, I, i)) # Cardinality(UpTo(samples, I, j))
<1>1. ASSUME NEW a \in I, NEW b \in I, a # b, Before(samples, a, b)
      PROVE  Cardinality(UpTo(samples, I, a)) # Cardinality(UpTo(samples, I, b))
  <2>1. UpTo(samples, I, a) \subseteq UpTo(samples, I, b)
    <3>1. SUFFICES ASSUME NEW x \in UpTo(samples, I, a) PROVE Before(samples, x, b)
      BY DEF UpTo
    <3>2. x \in I /\ Before(samples, x, a) /\ x \in Nat /\ a \in Nat /\ b \in Nat
      BY <1>1, <3>1 DEF UpTo, Timed
    <3>3. PICK d \in Nat, e \in Nat, f \in Nat :
             d = samples[x].duration /\ e = samples[a].duration /\ f = samples[b].duration
      BY <1>1, <3>2 DEF Timed
    <3>4. QED
      BY <1>1, <3>2, <3>3 DEF Before
  <2>2. b \in UpTo(samples, I, b) /\ b \notin UpTo(samples, I, a)
    <3>1. PICK d \in Nat, e \in Nat : d = samples[a].duration /\ e = samples[b].duration
      BY <1>1 DEF Timed
    <3>2. a \in Nat /\ b \in Nat
      BY <1>1 DEF Timed
    <3>3. d < e \/ (d = e /\ a <= b)
      BY <1>1, <3>1 DEF Before
    <3>4. ~(e < d \/ (e = d /\ b <= a)) /\ b <= b
      BY <1>1, <3>2, <3>3
    <3>5. Before(samples, b, b) /\ ~Before(samples, b, a)
      BY <3>1, <3>4 DEF Before
    <3>6. QED
      BY <1>1, <3>5 DEF UpTo
  <2>3. IsFiniteSet(UpTo(samples, I, b))
    BY FS_Subset DEF Timed, UpTo
  <2>4. UpTo(samples, I, a) \in SUBSET UpTo(samples, I, b)
    BY <2>1
  <2>5. Cardinality(UpTo(samples, I, b)) = Cardinality(UpTo(samples, I, a)) =>
           UpTo(samples, I, b) = UpTo(samples, I, a)
    BY <2>3, <2>4, FS_Subset
  <2>6. QED
    BY <2>2, <2>5
<1>2. Before(samples, i, j) \/ Before(samples, j, i)
  <2>1. PICK d \in Nat, e \in Nat : d = samples[i].duration /\ e = samples[j].duration
    BY DEF Timed
  <2>2. i \in Nat /\ j \in Nat
    BY DEF Timed
  <2>3. (d < e \/ (d = e /\ i <= j)) \/ (e < d \/ (e = d /\ j <= i))
    BY <2>1, <2>2
  <2>4. QED
    BY <2>1, <2>3 DEF Before
<1>3. QED
  BY <1>1, <1>2

\* There is a k-th sample, for every k up to their number.
LEMMA EveryPlaceIsTaken ==
    ASSUME NEW samples, NEW I, Timed(samples, I), NEW k \in 1..Cardinality(I)
    PROVE  \E i \in I : Cardinality(UpTo(samples, I, i)) = k
<1> DEFINE place == [i \in I |-> Cardinality(UpTo(samples, I, i))]
           T == 1..Cardinality(I)
<1>1. IsFiniteSet(I) /\ Cardinality(I) \in Nat
  BY FS_CardinalityType DEF Timed
<1>2. IsFiniteSet(T) /\ Cardinality(T) = Cardinality(I)
  BY <1>1, FS_Interval
<1>3. ASSUME NEW i \in I PROVE Cardinality(UpTo(samples, I, i)) \in T
  <2>1. UpTo(samples, I, i) \in SUBSET I /\ i \in UpTo(samples, I, i)
    BY DEF UpTo, Before, Timed
  <2>2. /\ IsFiniteSet(UpTo(samples, I, i))
        /\ Cardinality(UpTo(samples, I, i)) <= Cardinality(I)
    BY <1>1, <2>1, FS_Subset
  <2>3. Cardinality(UpTo(samples, I, i)) \in Nat /\ Cardinality(UpTo(samples, I, i)) # 0
    BY <2>1, <2>2, FS_CardinalityType, FS_EmptySet
  <2>4. QED
    BY <1>1, <2>2, <2>3
<1>4. place \in [I -> T]
  BY <1>3
<1>5. \A i, j \in I : place[i] = place[j] => i = j
  BY PlacesDiffer
<1>6. place \in Injection(I, T)
  <2> HIDE DEF place, T
  <2> QED
    BY <1>4, <1>5 DEF Injection, IsInjective
<1>7. place \in Surjection(I, T)
  <2> HIDE DEF place, T
  <2> QED
    BY <1>2, <1>6, FS_Injection
<1>8. PICK i \in I : place[i] = k
  BY <1>7 DEF Surjection
<1>9. QED
  BY <1>8

\* The rank is rounded up, and is a place of the sorted list.
LEMMA RankIsCeil ==
    ASSUME NEW n \in Nat, n > 0, NEW p \in 1..100
    PROVE  /\ Rank(p, n) \in 1..n
           /\ Rank(p, n) * 100 >= p * n
           /\ (Rank(p, n) - 1) * 100 < p * n
<1>1. PICK m \in Nat : m = p * n
  OBVIOUS
<1>2. m >= 1 /\ m <= 100 * n
  BY <1>1
<1>3. Rank(p, n) = (m + 99) \div 100
  BY <1>1 DEF Rank
<1>4. PICK q \in Nat : q = (m + 99) \div 100
  BY <1>1
<1>5. q * 100 <= m + 99 /\ m + 99 < (q + 1) * 100
  BY <1>1, <1>4
<1>6. QED
  BY <1>1, <1>2, <1>3, <1>4, <1>5

\* The value latencySummary takes for a percentile is the nearest-rank percentile
\* of the durations: sorting loses and invents none, and the rank is the right one.
LEMMA PercentileIsNearestRank ==
    ASSUME NEW samples, NEW I, Timed(samples, I), I # {}, NEW p \in 1..100
    PROVE  IsPercentile(Sorted(samples, I)[Rank(p, Cardinality(I))], p, samples, I)
<1> DEFINE n == Cardinality(I)
           k == Rank(p, n)
<1>1. IsFiniteSet(I) /\ n \in Nat /\ n > 0
  <2>1. n \in Nat /\ n # 0
    BY FS_CardinalityType, FS_EmptySet DEF Timed
  <2>2. QED
    BY <2>1 DEF Timed
<1>2. k \in 1..n /\ k * 100 >= p * n /\ (k - 1) * 100 < p * n
  BY <1>1, RankIsCeil
<1>3. PICK c : c = CHOOSE i \in I : Cardinality(UpTo(samples, I, i)) = k
  OBVIOUS
<1>4. c \in I /\ Cardinality(UpTo(samples, I, c)) = k
  <2>1. \E i \in I : Cardinality(UpTo(samples, I, i)) = k
    BY <1>2, EveryPlaceIsTaken
  <2>2. QED
    BY <1>3, <2>1
<1>5. PICK v : v = samples[c].duration
  OBVIOUS
<1>6. Sorted(samples, I)[k] = v
  BY <1>2, <1>3, <1>5 DEF Sorted, UpTo, Before
<1>7. Cardinality({i \in I : samples[i].duration <= v}) \in Nat
      /\ Cardinality({i \in I : samples[i].duration <= v}) >= k
  <2>1. UpTo(samples, I, c) \subseteq {i \in I : samples[i].duration <= v}
    BY <1>4, <1>5 DEF UpTo, Before, Timed
  <2>2. IsFiniteSet({i \in I : samples[i].duration <= v})
    BY <1>1, FS_Subset
  <2>3. QED
    BY <1>4, <2>1, <2>2, FS_Subset, FS_CardinalityType
<1>8. Cardinality({i \in I : samples[i].duration < v}) \in Nat
      /\ Cardinality({i \in I : samples[i].duration < v}) <= k - 1
  <2>1. {i \in I : samples[i].duration < v} \subseteq UpTo(samples, I, c) \ {c}
    BY <1>4, <1>5 DEF UpTo, Before, Timed
  <2>2. c \in UpTo(samples, I, c)
    BY <1>4 DEF UpTo, Before, Timed
  <2>3. IsFiniteSet(UpTo(samples, I, c))
    BY <1>1, FS_Subset DEF UpTo
  <2>4. /\ IsFiniteSet(UpTo(samples, I, c) \ {c})
        /\ Cardinality(UpTo(samples, I, c) \ {c}) = k - 1
    BY <1>4, <2>2, <2>3, FS_RemoveElement
  <2>5. QED
    BY <2>1, <2>4, FS_Subset, FS_CardinalityType
<1>9. IsPercentile(v, p, samples, I)
  <2>1. PICK a \in Nat : a = Cardinality({i \in I : samples[i].duration <= v})
    BY <1>7
  <2>2. PICK b \in Nat : b = Cardinality({i \in I : samples[i].duration < v})
    BY <1>8
  <2>3. PICK m \in Nat : m = p * n
    BY <1>1
  <2>4. a >= k /\ b <= k - 1 /\ k \in Nat /\ k * 100 >= m /\ (k - 1) * 100 < m
    BY <1>1, <1>2, <1>7, <1>8, <2>1, <2>2, <2>3
  <2>5. a * 100 >= m /\ b * 100 < m
    BY <2>1, <2>2, <2>3, <2>4
  <2>6. QED
    BY <1>4, <1>5, <2>1, <2>2, <2>3, <2>5 DEF IsPercentile
<1>10. QED
  BY <1>6, <1>9

\* A summary gives the number of samples and their nearest-rank percentiles.
LEMMA SummaryIsRight ==
    ASSUME NEW samples, NEW I, Timed(samples, I), NEW s, s = LatencySummary(samples, I)
    PROVE  /\ s.samples = Cardinality(I)
           /\ I # {} => /\ IsPercentile(s.p50, 50, samples, I)
                        /\ IsPercentile(s.p95, 95, samples, I)
                        /\ IsPercentile(s.p99, 99, samples, I)
<1>1. Cardinality(I) = 0 <=> I = {}
  BY FS_EmptySet DEF Timed
<1>2. I = {} => s.samples = Cardinality(I)
  BY <1>1 DEF LatencySummary
<1>3. I # {} => /\ s.samples = Cardinality(I)
                /\ s.p50 = Sorted(samples, I)[Rank(50, Cardinality(I))]
                /\ s.p95 = Sorted(samples, I)[Rank(95, Cardinality(I))]
                /\ s.p99 = Sorted(samples, I)[Rank(99, Cardinality(I))]
  BY <1>1 DEF LatencySummary
<1>4. \A p \in {50, 95, 99} :
         I # {} => IsPercentile(Sorted(samples, I)[Rank(p, Cardinality(I))], p, samples, I)
  BY PercentileIsNearestRank
<1>5. QED
  BY <1>2, <1>3, <1>4

\* The samples of a measurement: its places hold durations, and no errors means
\* that every sample is a success.
LEMMA AggregateIsRight ==
    ASSUME NEW A, \A x \in A : x.duration \in Nat, NEW samples \in Seq(A)
    PROVE  /\ Timed(samples, DOMAIN samples) /\ Timed(samples, Successes(samples))
           /\ Aggregate(samples).errors = 0 =>
                 \A i \in DOMAIN samples : samples[i].category = ""
<1>1. /\ DOMAIN samples = 1..Len(samples) /\ Len(samples) \in Nat
      /\ \A i \in DOMAIN samples : samples[i].duration \in Nat
  OBVIOUS
<1>2. IsFiniteSet(DOMAIN samples) /\ Cardinality(DOMAIN samples) = Len(samples)
  <2>1. PICK n \in Nat : n = Len(samples)
    BY <1>1
  <2>2. IsFiniteSet(1..n) /\ Cardinality(1..n) = n
    BY FS_Interval
  <2>3. QED
    BY <1>1, <2>1, <2>2
<1>3. Timed(samples, DOMAIN samples)
  BY <1>1, <1>2 DEF Timed
<1>4. Successes(samples) \in SUBSET DOMAIN samples
  BY DEF Successes
<1>5. IsFiniteSet(Successes(samples)) /\ Cardinality(Successes(samples)) \in Nat
  BY <1>2, <1>4, FS_Subset, FS_CardinalityType
<1>6. Timed(samples, Successes(samples))
  BY <1>3, <1>4, <1>5 DEF Timed
<1>7. ASSUME Aggregate(samples).errors = 0
      PROVE  \A i \in DOMAIN samples : samples[i].category = ""
  <2>1. Cardinality(Successes(samples)) = Cardinality(DOMAIN samples)
    BY <1>1, <1>2, <1>5, <1>7 DEF Aggregate
  <2>2. Successes(samples) = DOMAIN samples
    BY <1>2, <1>4, <2>1, FS_Subset
  <2>3. QED
    BY <2>2 DEF Successes
<1>8. QED
  BY <1>3, <1>6, <1>7
-----------------------------------------------------------------------------
(* The plan of an accepted configuration.                                  *)

\* The quotient of a place in the plan by the size of a block.
LEMMA BlockOf ==
    ASSUME NEW j \in Nat, NEW p \in Nat, p > 0, NEW l \in Nat, j < l * p
    PROVE  j \div p \in 0..(l - 1)
<1>1. PICK q \in Int : q = j \div p
  OBVIOUS
<1>2. p * q <= j /\ j < p * (q + 1)
  BY <1>1
<1>3. q >= 0
  <2>1. SUFFICES ASSUME q + 1 <= 0 PROVE FALSE
    BY <1>1
  <2>2. p * (q + 1) <= 0
    BY <2>1, <1>1
  <2>3. QED
    BY <1>2, <2>2
<1>4. q < l
  <2>1. SUFFICES ASSUME q >= l PROVE FALSE
    BY <1>1
  <2>2. p * q >= p * l
    BY <2>1, <1>1
  <2>3. QED
    BY <1>2, <2>2
<1>5. QED
  BY <1>1, <1>3, <1>4

\* The length of a sequence that is written as a function.
LEMMA LengthOf ==
    ASSUME NEW n \in Nat, NEW f, f = [i \in 1..n |-> f[i]]
    PROVE  Len(f) = n
<1>1. \A i \in 1..n : f[i] \in {f[k] : k \in 1..n}
  OBVIOUS
<1>2. PICK S : S = {f[k] : k \in 1..n}
  OBVIOUS
<1>3. f \in [1..n -> S]
  BY <1>1, <1>2
<1>4. f \in Seq(S)
  BY <1>3
<1>5. QED
  BY <1>3, <1>4

\* Division with remainder.
LEMMA Division ==
    ASSUME NEW a \in Nat, NEW b \in Nat, b > 0
    PROVE  /\ a \div b \in Nat
           /\ a % b \in 0..(b - 1)
           /\ a = b * (a \div b) + (a % b)
<1>1. a \div b \in 0..a
  <2>1. a < (a + 1) * b
    BY SMTT(30)
  <2>2. QED
    BY <2>1, BlockOf
<1>2. QED
  BY <1>1

\* Normalized configurations that normalizeBenchmark accepts.
Accepted(c) ==
    /\ c.concurrency \in Seq(Int) /\ c.calls \in Int /\ c.repetitions \in Int
    /\ Accepts(c)

\* What the bounds of normalizeBenchmark mean for the plan.
LEMMA AcceptedFields ==
    ASSUME NEW c, Accepted(c)
    PROVE  /\ Len(c.concurrency) \in Nat /\ DOMAIN c.concurrency = 1..Len(c.concurrency)
           /\ c.concurrency \in [1..Len(c.concurrency) -> Nat]
           /\ c.repetitions \in Nat /\ c.repetitions > 0
           /\ c.calls \in Nat /\ c.calls > 0
           /\ \A i, j \in DOMAIN c.concurrency :
                 c.concurrency[i] = c.concurrency[j] => i = j
<1>1. /\ Len(c.concurrency) \in Nat /\ DOMAIN c.concurrency = 1..Len(c.concurrency)
      /\ c.concurrency = [i \in DOMAIN c.concurrency |-> c.concurrency[i]]
  BY DEF Accepted
<1>2. \A i \in DOMAIN c.concurrency : c.concurrency[i] \in Nat
  <2>1. \A i \in DOMAIN c.concurrency : c.concurrency[i] \in 1..Limit.workers
    BY DEF Accepted, Accepts
  <2>2. Limit.workers \in Nat
    BY LimitAssumption
  <2>3. QED
    BY <2>1, <2>2
<1>3. /\ c.repetitions \in Nat /\ c.repetitions > 0
      /\ c.calls \in Nat /\ c.calls > 0
  <2>1. c.repetitions \in 1..Limit.repetitions /\ c.calls \in 1..Limit.calls
    BY DEF Accepted, Accepts
  <2>2. Limit.repetitions \in Nat /\ Limit.calls \in Nat
    BY LimitAssumption
  <2>3. QED
    BY <2>1, <2>2
<1>4. \A i, j \in DOMAIN c.concurrency : c.concurrency[i] = c.concurrency[j] => i = j
  BY DEF Accepted, Accepts
<1>5. QED
  BY <1>1, <1>2, <1>3, <1>4

\* The pair of phases that place i of the plan is in, and its block of pairs.
Pair(i) == (i - 1) \div 2
Block(c, i) == Pair(i) \div c.repetitions

\* The places of the plan.
LEMMA PlaceInPlan ==
    ASSUME NEW c, Accepted(c), NEW i \in DOMAIN Plan(c)
    PROVE  /\ i \in Nat /\ i > 0 /\ Pair(i) \in Nat /\ Block(c, i) \in Nat
           /\ Block(c, i) \div 2 \in Nat
           /\ (Block(c, i) \div 2) + 1 \in DOMAIN c.concurrency
<1> DEFINE l == Len(c.concurrency)
           r == c.repetitions
<1>1. l \in Nat /\ r \in Nat /\ r > 0 /\ DOMAIN c.concurrency = 1..l
  BY AcceptedFields
<1>2. i \in 1..(l * 4 * r)
  BY DEF Plan
<1>3. PICK n \in Nat : n = l * r
  BY <1>1
<1>4. l * 4 * r = 4 * n
  BY <1>1, <1>3
<1>5. i \in Nat /\ i > 0 /\ i - 1 \in Nat /\ i - 1 < (2 * n) * 2
  BY <1>2, <1>3, <1>4
<1>6. Pair(i) \in 0..(2 * n - 1)
  <2>1. 2 * n \in Nat
    BY <1>3
  <2>2. QED
    BY <1>5, <2>1, BlockOf DEF Pair
<1>7. Pair(i) \in Nat /\ Pair(i) < (2 * l) * r
  BY <1>1, <1>3, <1>6
<1>8. Block(c, i) \in 0..(2 * l - 1)
  <2>1. 2 * l \in Nat
    BY <1>1
  <2>2. QED
    BY <1>1, <1>7, <2>1, BlockOf DEF Block
<1>9. Block(c, i) \in Nat /\ Block(c, i) < l * 2
  BY <1>1, <1>8
<1>10. Block(c, i) \div 2 \in 0..(l - 1)
  BY <1>1, <1>9, BlockOf
<1>11. Block(c, i) \div 2 \in Nat /\ (Block(c, i) \div 2) + 1 \in 1..l
  <2>1. PICK q : q = Block(c, i) \div 2
    OBVIOUS
  <2>2. q \in Nat /\ q + 1 \in 1..l
    BY <1>1, <1>10, <2>1
  <2>3. QED
    BY <2>1, <2>2
<1>12. QED
  BY <1>1, <1>5, <1>7, <1>9, <1>11

\* The pair and the block of a place, and the number of workers, the tool and the
\* repetition that they stand for.
LEMMA PlanAt ==
    ASSUME NEW c, NEW i \in DOMAIN Plan(c)
    PROVE  /\ Plan(c)[i].concurrency = c.concurrency[(Block(c, i) \div 2) + 1]
           /\ Plan(c)[i].tool = IF Block(c, i) % 2 = 0 THEN ReadTool ELSE StreamTool
           /\ Plan(c)[i].repetition = (Pair(i) % c.repetitions) + 1
           /\ Plan(c)[i].target = IF (i + Plan(c)[i].repetition) % 2 = 0 THEN "direct"
                                  ELSE "gateway"
BY DEF Plan, Pair, Block

\* A number with its quotient and remainder is determined by them.
LEMMA SameDivision ==
    ASSUME NEW a \in Nat, NEW b \in Nat, NEW d \in Nat, d > 0,
           a \div d = b \div d, a % d = b % d
    PROVE  a = b
<1>1. /\ a = d * (a \div d) + (a % d)
      /\ b = d * (b \div d) + (b % d)
  BY Division
<1>2. QED
  BY <1>1

\* Phases that the overhead table would compare are of one pair.
LEMMA SamePair ==
    ASSUME NEW c, Accepted(c), NEW i \in DOMAIN Plan(c), NEW j \in DOMAIN Plan(c),
           Plan(c)[i].tool = Plan(c)[j].tool,
           Plan(c)[i].concurrency = Plan(c)[j].concurrency,
           Plan(c)[i].repetition = Plan(c)[j].repetition
    PROVE  Pair(i) = Pair(j)
<1>1. c.repetitions \in Nat /\ c.repetitions > 0
  BY AcceptedFields
<1>2. /\ Pair(i) \in Nat /\ Block(c, i) \in Nat
      /\ Pair(j) \in Nat /\ Block(c, j) \in Nat
      /\ Block(c, i) \div 2 \in Nat /\ Block(c, j) \div 2 \in Nat
  BY PlaceInPlan
<1>3. Block(c, i) \div 2 = Block(c, j) \div 2
  <2>1. (Block(c, i) \div 2) + 1 = (Block(c, j) \div 2) + 1
    <3>1. PICK a, b : a = (Block(c, i) \div 2) + 1 /\ b = (Block(c, j) \div 2) + 1
      OBVIOUS
    <3>2. a \in DOMAIN c.concurrency /\ b \in DOMAIN c.concurrency
      BY <3>1, PlaceInPlan
    <3>3. c.concurrency[a] = c.concurrency[b]
      BY <3>1, PlanAt
    <3>4. QED
      BY <3>1, <3>2, <3>3, AcceptedFields
  <2>2. QED
    BY <1>2, <2>1
<1>4. Block(c, i) % 2 = Block(c, j) % 2
  <2>1. \A n \in Nat : n % 2 \in 0..1
    OBVIOUS
  <2>2. Block(c, i) % 2 \in 0..1 /\ Block(c, j) % 2 \in 0..1
    BY <1>2, <2>1
  <2>3. Block(c, i) % 2 = 0 <=> Block(c, j) % 2 = 0
    BY PlanAt DEF ReadTool, StreamTool
  <2>4. QED
    BY <2>2, <2>3
<1>5. Block(c, i) = Block(c, j)
  BY <1>2, <1>3, <1>4, SameDivision
<1>6. Pair(i) % c.repetitions = Pair(j) % c.repetitions
  <2>1. /\ Pair(i) % c.repetitions \in 0..(c.repetitions - 1)
        /\ Pair(j) % c.repetitions \in 0..(c.repetitions - 1)
    BY <1>1, <1>2, Division
  <2>2. (Pair(i) % c.repetitions) + 1 = (Pair(j) % c.repetitions) + 1
    BY PlanAt
  <2>3. QED
    BY <1>1, <2>1, <2>2
<1>7. QED
  BY <1>1, <1>2, <1>5, <1>6, SameDivision DEF Block

\* The other phase of the pair that place i is in.
Partner(i) == IF i % 2 = 1 THEN i + 1 ELSE i - 1

\* Partners are the only two places of their pair.
LEMMA PartnerOf ==
    ASSUME NEW i \in Nat, i > 0, NEW j \in Nat, j > 0
    PROVE  /\ Partner(i) \in Nat /\ Partner(i) > 0
           /\ Pair(Partner(i)) = Pair(i) /\ Partner(i) % 2 # i % 2
           /\ Pair(j) = Pair(i) => j \in {i, Partner(i)}
BY DEF Partner, Pair

\* The partner of a phase is a phase of the plan that differs in its target only.
LEMMA PartnerInPlan ==
    ASSUME NEW c, Accepted(c), NEW i \in DOMAIN Plan(c), NEW j, j = Partner(i)
    PROVE  /\ j \in DOMAIN Plan(c)
           /\ Plan(c)[j].tool = Plan(c)[i].tool
           /\ Plan(c)[j].concurrency = Plan(c)[i].concurrency
           /\ Plan(c)[j].repetition = Plan(c)[i].repetition
           /\ Plan(c)[i].target \in {"direct", "gateway"}
           /\ Plan(c)[j].target \in {"direct", "gateway"} \ {Plan(c)[i].target}
<1>1. i \in Nat /\ i > 0 /\ Pair(i) \in Nat
  BY PlaceInPlan
<1>2. j \in Nat /\ j > 0 /\ Pair(j) = Pair(i) /\ j % 2 # i % 2
  BY <1>1, PartnerOf
<1>3. j \in DOMAIN Plan(c)
  <2>1. PICK n \in Nat : n = Len(c.concurrency) * c.repetitions
    BY AcceptedFields
  <2>2. Len(c.concurrency) * 4 * c.repetitions = 4 * n
    BY <2>1, AcceptedFields
  <2>3. DOMAIN Plan(c) = 1..(4 * n)
    BY <2>2 DEF Plan
  <2>4. i <= 4 * n
    BY <2>3, <1>1
  <2>5. j <= 4 * n
    BY <1>1, <2>1, <2>4 DEF Partner
  <2>6. QED
    BY <1>2, <2>1, <2>3, <2>5
<1>4. Block(c, j) = Block(c, i)
  BY <1>2 DEF Block
<1>5. /\ Plan(c)[j].tool = Plan(c)[i].tool
      /\ Plan(c)[j].concurrency = Plan(c)[i].concurrency
      /\ Plan(c)[j].repetition = Plan(c)[i].repetition
  BY <1>2, <1>3, <1>4, PlanAt
<1>6. PICK r : r = Plan(c)[i].repetition
  OBVIOUS
<1>7. r \in Nat
  <2>1. r = (Pair(i) % c.repetitions) + 1
    BY <1>6, PlanAt
  <2>2. Pair(i) % c.repetitions \in Nat
    <3>1. c.repetitions \in Nat /\ c.repetitions > 0
      BY AcceptedFields
    <3>2. Pair(i) % c.repetitions \in 0..(c.repetitions - 1)
      BY <1>1, <3>1, Division
    <3>3. QED
      BY <3>1, <3>2
  <2>3. QED
    BY <2>1, <2>2
<1>8. (i + r) % 2 = 0 <=> (j + r) % 2 # 0
  BY <1>1, <1>2, <1>7
<1>9. QED
  BY <1>3, <1>5, <1>6, <1>8, PlanAt

\* Every phase of an accepted plan is in exactly one row of the overhead table.
LEMMA PairsAreUnique ==
    ASSUME NEW c, Accepted(c), NEW i \in DOMAIN Plan(c)
    PROVE  Cardinality({p \in Overhead(Plan(c)) : i \in {p[1], p[2]}}) = 1
<1> DEFINE plan == Plan(c)
           rows == {p \in Overhead(plan) : i \in {p[1], p[2]}}
           j == Partner(i)
           row == IF plan[i].target = "direct" THEN <<i, j>> ELSE <<j, i>>
<1>1. /\ j \in DOMAIN plan
      /\ plan[j].tool = plan[i].tool
      /\ plan[j].concurrency = plan[i].concurrency
      /\ plan[j].repetition = plan[i].repetition
      /\ plan[i].target \in {"direct", "gateway"}
      /\ plan[j].target \in {"direct", "gateway"} \ {plan[i].target}
  BY PartnerInPlan
<1>2. row \in rows
  <2> HIDE DEF plan, j
  <2> QED
    BY <1>1 DEF Overhead, plan
<1>3. ASSUME NEW p \in rows PROVE p = row
  <2>1. PICK a \in DOMAIN plan, b \in DOMAIN plan : p = <<a, b>>
    BY DEF Overhead
  <2>2. /\ plan[a].target = "direct" /\ plan[b].target = "gateway"
        /\ plan[a].tool = plan[b].tool /\ plan[a].concurrency = plan[b].concurrency
        /\ plan[a].repetition = plan[b].repetition
        /\ i \in {a, b}
    BY <2>1 DEF Overhead
  <2>3. Pair(a) = Pair(b)
    BY <2>2, SamePair
  <2>4. a \in Nat /\ a > 0 /\ b \in Nat /\ b > 0 /\ a # b
    BY <2>2, PlaceInPlan
  <2>5. i = a => b = j
    BY <2>3, <2>4, PartnerOf
  <2>6. i = b => a = j
    BY <2>3, <2>4, PartnerOf
  <2>7. QED
    BY <2>1, <2>2, <2>5, <2>6
<1>4. rows = {row}
  BY <1>2, <1>3
<1>5. QED
  BY <1>4, FS_Singleton

\* A call of the plan, by its fields.
LEMMA PlannedCallFields ==
    ASSUME NEW c, NEW I, NEW kind, NEW n
    PROVE  /\ \A x \in PlannedCalls(c, I, kind, n) :
                 /\ x.phase \in I /\ x.kind = kind
                 /\ x.worker \in 1..Plan(c)[x.phase].concurrency /\ x.call \in 0..(n - 1)
                 /\ x = [phase |-> x.phase, kind |-> kind, worker |-> x.worker,
                         call |-> x.call]
           /\ \A i \in I : \A w \in 1..Plan(c)[i].concurrency, k \in 0..(n - 1) :
                 [phase |-> i, kind |-> kind, worker |-> w, call |-> k]
                    \in PlannedCalls(c, I, kind, n)
BY DEF PlannedCalls

\* The measured calls of an accepted plan are at most what normalizeBenchmark adds
\* up: a call is told by its worker at one concurrency, its number, and the place
\* of its phase among the four times Repetitions phases at that concurrency.
LEMMA CallsAreBounded ==
    ASSUME NEW c, Accepted(c)
    PROVE  LET M == PlannedCalls(c, DOMAIN Plan(c), "measured", c.calls)
           IN  IsFiniteSet(M) /\ Cardinality(M) <= Limit.total
<1> DEFINE M == PlannedCalls(c, DOMAIN Plan(c), "measured", c.calls)
           U == Under(c.concurrency, DOMAIN c.concurrency)
           r == c.repetitions
           D == (U \X (0..(c.calls - 1))) \X (((0..1) \X (0..(r - 1))) \X (0..1))
           level(i) == (Block(c, i) \div 2) + 1
           f == [x \in M |-> <<<<<<level(x.phase), x.worker>>, x.call>>,
                              <<<<(x.phase - 1) % 2, Pair(x.phase) % r>>,
                                Block(c, x.phase) % 2>>>>]
<1>1. /\ c.concurrency \in [1..Len(c.concurrency) -> Nat] /\ Len(c.concurrency) \in Nat
      /\ DOMAIN c.concurrency = 1..Len(c.concurrency)
      /\ r \in Nat /\ r > 0 /\ c.calls \in Nat /\ c.calls > 0
  BY AcceptedFields
<1>2. /\ IsFiniteSet(U) /\ Cardinality(U) \in Nat
      /\ Cardinality(U) = SumFunction(c.concurrency)
  <2>1. IsFiniteSet(1..Len(c.concurrency))
    BY <1>1, FS_Interval
  <2>2. QED
    BY <1>1, <2>1, SumIsCount, FS_CardinalityType
<1>3. /\ IsFiniteSet(D)
      /\ Cardinality(D) = (Cardinality(U) * c.calls) * ((2 * r) * 2)
  <2>1. /\ IsFiniteSet(0..(c.calls - 1)) /\ Cardinality(0..(c.calls - 1)) = c.calls
        /\ IsFiniteSet(0..(r - 1)) /\ Cardinality(0..(r - 1)) = r
        /\ IsFiniteSet(0..1) /\ Cardinality(0..1) = 2
    <3>1. \A n \in Nat : n > 0 => IsFiniteSet(0..(n - 1)) /\ Cardinality(0..(n - 1)) = n
      BY FS_Interval
    <3>2. PICK n \in Nat : n = 2
      OBVIOUS
    <3>3. n > 0 /\ 0..(n - 1) = 0..1
      BY <3>2
    <3>4. IsFiniteSet(0..(n - 1)) /\ Cardinality(0..(n - 1)) = n
      BY <3>1, <3>3
    <3>5. QED
      BY <1>1, <3>1, <3>2, <3>3, <3>4
  <2>2. PICK A, B, E : A = 0..(c.calls - 1) /\ B = 0..(r - 1) /\ E = 0..1
    OBVIOUS
  <2>3. /\ IsFiniteSet(A) /\ Cardinality(A) = c.calls
        /\ IsFiniteSet(B) /\ Cardinality(B) = r
        /\ IsFiniteSet(E) /\ Cardinality(E) = 2
    BY <2>1, <2>2
  <2> HIDE DEF U
  <2>4. IsFiniteSet(U \X A) /\ Cardinality(U \X A) = Cardinality(U) * c.calls
    BY <1>2, <2>3, FS_Product
  <2>5. IsFiniteSet(E \X B) /\ Cardinality(E \X B) = 2 * r
    BY <2>3, FS_Product
  <2>6. IsFiniteSet((E \X B) \X E) /\ Cardinality((E \X B) \X E) = (2 * r) * 2
    BY <2>3, <2>5, FS_Product
  <2>7. /\ IsFiniteSet((U \X A) \X ((E \X B) \X E))
        /\ Cardinality((U \X A) \X ((E \X B) \X E)) = (Cardinality(U) * c.calls) * ((2 * r) * 2)
    BY <2>4, <2>6, FS_Product, SMTT(30)
  <2>8. QED
    BY <2>2, <2>7
<1>4. Cardinality(D) = Total(c)
  <2>1. PICK t \in Nat, n \in Nat, q \in Nat : t = Cardinality(U) /\ n = c.calls /\ q = r
    BY <1>1, <1>2
  <2>2. (t * n) * ((2 * q) * 2) = t * n * q * 4
    BY <2>1
  <2>3. QED
    BY <1>2, <1>3, <2>1, <2>2 DEF Total
<1>5. ASSUME NEW x \in M
      PROVE  /\ x.phase \in DOMAIN Plan(c) /\ x.phase \in Nat /\ x.phase > 0
             /\ Pair(x.phase) \in Nat /\ Block(c, x.phase) \in Nat
             /\ Block(c, x.phase) \div 2 \in Nat
             /\ <<level(x.phase), x.worker>> \in U /\ x.call \in 0..(c.calls - 1)
             /\ (x.phase - 1) % 2 \in 0..1 /\ Pair(x.phase) % r \in 0..(r - 1)
             /\ Block(c, x.phase) % 2 \in 0..1
             /\ x = [phase |-> x.phase, kind |-> "measured", worker |-> x.worker,
                     call |-> x.call]
  <2>1. /\ x.phase \in DOMAIN Plan(c) /\ x.worker \in 1..Plan(c)[x.phase].concurrency
        /\ x.call \in 0..(c.calls - 1)
        /\ x = [phase |-> x.phase, kind |-> "measured", worker |-> x.worker, call |-> x.call]
    BY PlannedCallFields
  <2>2. PICK i : i = x.phase
    OBVIOUS
  <2>3. /\ i \in Nat /\ i > 0 /\ Pair(i) \in Nat /\ Block(c, i) \in Nat
        /\ Block(c, i) \div 2 \in Nat /\ level(i) \in DOMAIN c.concurrency
    BY <2>1, <2>2, PlaceInPlan
  <2>4. x.worker \in 1..c.concurrency[level(i)] /\ x.worker \in Nat
    <3>1. Plan(c)[i].concurrency = c.concurrency[level(i)]
      BY <2>1, <2>2, PlanAt
    <3>2. c.concurrency[level(i)] \in Nat
      BY <1>1, <2>3
    <3>3. QED
      BY <2>1, <2>2, <3>1, <3>2
  <2>5. <<level(i), x.worker>> \in U
    <3> HIDE DEF level
    <3> QED
      BY <2>3, <2>4 DEF Under
  <2>6. Pair(i) % r \in 0..(r - 1)
    BY <1>1, <2>3, Division
  <2>7. (i - 1) % 2 \in 0..1 /\ Block(c, i) % 2 \in 0..1
    <3>1. \A n \in Nat : n % 2 \in 0..1
      OBVIOUS
    <3>2. i - 1 \in Nat
      BY <2>3
    <3>3. QED
      BY <2>3, <3>1, <3>2
  <2>8. QED
    BY <2>1, <2>2, <2>3, <2>5, <2>6, <2>7
<1>6. f \in [M -> D]
  <2>1. ASSUME NEW x \in M PROVE f[x] \in D
    <3> HIDE DEF U, level, M
    <3> QED
      BY <1>5
  <2>2. QED
    BY <2>1
<1>7. ASSUME NEW x \in M, NEW y \in M, f[x] = f[y] PROVE x = y
  <2>1. /\ level(x.phase) = level(y.phase) /\ x.worker = y.worker /\ x.call = y.call
        /\ (x.phase - 1) % 2 = (y.phase - 1) % 2 /\ Pair(x.phase) % r = Pair(y.phase) % r
        /\ Block(c, x.phase) % 2 = Block(c, y.phase) % 2
    <3> HIDE DEF level, M
    <3> QED
      BY <1>7
  <2>2. PICK i, j : i = x.phase /\ j = y.phase
    OBVIOUS
  <2>3. /\ i \in Nat /\ i > 0 /\ Pair(i) \in Nat /\ Block(c, i) \in Nat
        /\ j \in Nat /\ j > 0 /\ Pair(j) \in Nat /\ Block(c, j) \in Nat
        /\ Block(c, i) \div 2 \in Nat /\ Block(c, j) \div 2 \in Nat
    BY <1>5, <2>2
  <2>4. /\ (i - 1) % 2 = (j - 1) % 2 /\ Pair(i) % r = Pair(j) % r
        /\ Block(c, i) % 2 = Block(c, j) % 2
        /\ (Block(c, i) \div 2) + 1 = (Block(c, j) \div 2) + 1
    BY <2>1, <2>2
  <2>5. Block(c, i) \div 2 = Block(c, j) \div 2
    BY <2>3, <2>4
  <2>6. Block(c, i) = Block(c, j)
    BY <2>3, <2>4, <2>5, SameDivision
  <2>7. Pair(i) = Pair(j)
    BY <1>1, <2>3, <2>4, <2>6, SameDivision DEF Block
  <2>8. i - 1 \in Nat /\ j - 1 \in Nat
    BY <2>3
  <2>9. i - 1 = j - 1
    BY <2>4, <2>7, <2>8, SameDivision DEF Pair
  <2>10. x.phase = y.phase
    BY <2>2, <2>3, <2>9
  <2>11. QED
    BY <1>5, <2>1, <2>10
<1>8. f \in Injection(M, D)
  <2> HIDE DEF f, M, D
  <2> QED
    BY <1>6, <1>7 DEF Injection, IsInjective
<1>9. IsFiniteSet(M) /\ Cardinality(M) <= Cardinality(D)
  <2> HIDE DEF f, M, D
  <2> QED
    BY <1>3, <1>8, FS_Injection
<1>10. Total(c) <= Limit.total
  BY DEF Accepted, Accepts
<1>11. Cardinality(M) <= Limit.total
  <2>1. Cardinality(M) \in Nat /\ Total(c) \in Nat
    BY <1>3, <1>4, <1>9, FS_CardinalityType
  <2>2. QED
    BY <1>4, <1>9, <1>10, <2>1, LimitAssumption
<1>12. QED
  BY <1>9, <1>11
=============================================================================
