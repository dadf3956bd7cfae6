---------------------------- MODULE SharedFacts -----------------------------
(***************************************************************************)
(* Facts the proofs share: sums of a function over a finite set            *)
(* (SumFunctionOnSet of the module Functions) with the induction over      *)
(* finite sets they rest on, sequences, and the bounded queues of the bus. *)
(*                                                                         *)
(* Induction is stated for a set of good subsets instead of a predicate,   *)
(* so that it can be used by first-order provers.                          *)
(***************************************************************************)
EXTENDS DomainEvents, Integers, SequencesExt, SequenceTheorems, FiniteSetTheorems, TLAPS

-----------------------------------------------------------------------------
(* Induction.                                                              *)

\* A set of naturals that is not empty has a least element.
LEMMA LeastNumber ==
    ASSUME NEW T \in SUBSET Nat, T # {}
    PROVE  \E n \in T : \A m \in T : n <= m
<1> DEFINE R == OpToRel(<, Nat)
<1>1. IsWellFoundedOn(R, Nat)
  BY NatLessThanWellFounded
<1>2. \A x, y \in Nat : <<y, x>> \in R <=> y < x
  BY DEF OpToRel
<1> HIDE DEF R
<1>3. PICK n \in T : \A m \in T : <<m, n>> \notin R
  BY <1>1, WFMin
<1>4. ASSUME NEW m \in T PROVE n <= m
  <2>1. m \in Nat /\ n \in Nat
    BY <1>3
  <2>2. ~(m < n)
    BY <1>2, <1>3, <2>1
  <2> QED BY <2>1, <2>2
<1> QED BY <1>4

\* A set of subsets that has every one which it has without any of its elements
\* has them all.
LEMMA StrongSubsetInduction ==
    ASSUME NEW S, IsFiniteSet(S), NEW Good,
           \A T \in SUBSET S : (\A x \in T : T \ {x} \in Good) => T \in Good
    PROVE  \A T \in SUBSET S : T \in Good
<1> SUFFICES ASSUME NEW U \in SUBSET S, U \notin Good PROVE FALSE
  OBVIOUS
<1> DEFINE Bad == {T \in SUBSET S : T \notin Good}
           Sizes == {Cardinality(T) : T \in Bad}
<1>1. \A T \in SUBSET S : IsFiniteSet(T) /\ Cardinality(T) \in Nat
  BY FS_Subset, FS_CardinalityType
<1>2. Sizes \in SUBSET Nat /\ Sizes # {}
  BY <1>1
<1>3. PICK n \in Sizes : \A m \in Sizes : n <= m
  <2> HIDE DEF Sizes
  <2> QED BY <1>2, LeastNumber
<1>4. PICK T \in Bad : Cardinality(T) = n
  OBVIOUS
<1>5. ASSUME NEW x \in T, T \ {x} \in Bad PROVE FALSE
  <2>1. Cardinality(T \ {x}) = Cardinality(T) - 1
    BY <1>1, <1>4, <1>5, FS_RemoveElement
  <2>2. Cardinality(T) <= Cardinality(T \ {x})
    BY <1>3, <1>4, <1>5
  <2> QED BY <1>1, <1>4, <2>1, <2>2
<1> QED BY <1>4, <1>5

\* So has one that has the empty set and grows with each element.
LEMMA SubsetInduction ==
    ASSUME NEW S, IsFiniteSet(S), NEW Good,
           {} \in Good,
           \A T \in SUBSET S : \A x \in T : T \ {x} \in Good => T \in Good
    PROVE  \A T \in SUBSET S : T \in Good
<1>1. \A T \in SUBSET S : (\A x \in T : T \ {x} \in Good) => T \in Good
  OBVIOUS
<1> QED BY <1>1, StrongSubsetInduction

-----------------------------------------------------------------------------
(* Sums.                                                                   *)

\* g gives every subset of S the sum of f over it, whatever element comes first.
IsSum(g, f, S) ==
    /\ g \in [SUBSET S -> Int]
    /\ g[{}] = 0
    /\ \A T \in SUBSET S : \A x \in T : g[T] = f[x] + g[T \ {x}]

\* What the fold computes: the sum in the order in which CHOOSE takes elements.
IsFold(g, f, S) ==
    g = [T \in SUBSET S |->
            IF T = {} THEN 0
            ELSE f[CHOOSE x \in T : TRUE] + g[T \ {CHOOSE x \in T : TRUE}]]

\* A finite set has sums of all its subsets.
LEMMA SumsExist ==
    ASSUME NEW S, IsFiniteSet(S), NEW f, \A x \in S : f[x] \in Int
    PROVE  \E g : IsSum(g, f, S)
<1> DEFINE Good == {T \in SUBSET S : \E g : IsSum(g, f, T)}
<1>1. {} \in Good
  <2> DEFINE g == [T \in {{}} |-> 0]
  <2>1. IsSum(g, f, {})
    BY DEF IsSum
  <2> QED BY <2>1
<1>2. ASSUME NEW U \in SUBSET S, NEW x \in U, U \ {x} \in Good
      PROVE  U \in Good
  <2>1. PICK g : IsSum(g, f, U \ {x})
    BY <1>2
  <2> DEFINE h == [T \in SUBSET U |-> IF x \in T THEN f[x] + g[T \ {x}] ELSE g[T]]
  <2>2. \A T \in SUBSET U : T \ {x} \in SUBSET (U \ {x}) /\ (x \notin T => T \in SUBSET (U \ {x}))
    OBVIOUS
  <2>3. g \in [SUBSET (U \ {x}) -> Int] /\ g[{}] = 0
    BY <2>1 DEF IsSum
  <2>4. f[x] \in Int
    OBVIOUS
  <2>5. h \in [SUBSET U -> Int]
    BY <2>2, <2>3, <2>4
  <2>6. h[{}] = 0
    BY <2>3
  <2>7. ASSUME NEW T \in SUBSET U, NEW y \in T
        PROVE  h[T] = f[y] + h[T \ {y}]
    <3>1. CASE x \notin T
      <4>1. T \in SUBSET (U \ {x}) /\ x \notin T \ {y}
        BY <3>1
      <4>2. g[T] = f[y] + g[T \ {y}]
        BY <2>1, <4>1 DEF IsSum
      <4>3. h[T] = g[T] /\ h[T \ {y}] = g[T \ {y}]
        BY <3>1, <4>1
      <4> QED BY <4>2, <4>3
    <3>2. CASE x = y
      <4>1. h[T] = f[x] + g[T \ {x}] /\ h[T \ {x}] = g[T \ {x}]
        BY <3>2
      <4> QED BY <3>2, <4>1
    <3>3. CASE x \in T /\ x # y
      <4>1. T \ {x} \in SUBSET (U \ {x}) /\ y \in T \ {x}
        BY <3>3
      <4>2. g[T \ {x}] = f[y] + g[(T \ {x}) \ {y}]
        BY <2>1, <4>1 DEF IsSum
      <4>3. (T \ {x}) \ {y} = (T \ {y}) \ {x} /\ (T \ {y}) \ {x} \in SUBSET (U \ {x})
        OBVIOUS
      <4>4. h[T] = f[x] + g[T \ {x}] /\ h[T \ {y}] = f[x] + g[(T \ {y}) \ {x}]
        BY <3>3
      <4>5. f[y] \in Int /\ g[(T \ {y}) \ {x}] \in Int
        BY <2>3, <4>3
      <4> DEFINE a == f[x]
                 b == f[y]
                 c == g[(T \ {y}) \ {x}]
      <4>6. h[T] = a + (b + c) /\ h[T \ {y}] = a + c
        BY <4>2, <4>3, <4>4
      <4>7. a \in Int /\ b \in Int /\ c \in Int
        BY <2>4, <4>5
      <4> HIDE DEF h, a, b, c
      <4>8. h[T] = b + h[T \ {y}]
        BY <4>6, <4>7
      <4> QED BY <4>8 DEF b
    <3> QED BY <3>1, <3>2, <3>3
  <2> HIDE DEF h
  <2>8. IsSum(h, f, U)
    BY <2>5, <2>6, <2>7 DEF IsSum
  <2> QED BY <2>8
<1> HIDE DEF Good
<1>3. S \in Good
  BY <1>1, <1>2, SubsetInduction
<1> QED BY <1>3 DEF Good

\* A sum is a fold, and the only one.
LEMMA FoldIsSum ==
    ASSUME NEW S, IsFiniteSet(S), NEW f, NEW g, IsSum(g, f, S)
    PROVE  /\ IsFold(g, f, S)
           /\ \A h : IsFold(h, f, S) => h = g
<1>1. g \in [SUBSET S -> Int] /\ g[{}] = 0
  BY DEF IsSum
<1>2. ASSUME NEW T \in SUBSET S, T # {}
      PROVE  g[T] = f[CHOOSE x \in T : TRUE] + g[T \ {CHOOSE x \in T : TRUE}]
  <2>1. (CHOOSE x \in T : TRUE) \in T
    BY <1>2
  <2> QED BY <2>1 DEF IsSum
<1>3. IsFold(g, f, S)
  <2> DEFINE e(T) == IF T = {} THEN 0
                     ELSE f[CHOOSE x \in T : TRUE] + g[T \ {CHOOSE x \in T : TRUE}]
  <2>1. \A T \in SUBSET S : g[T] = e(T)
    BY <1>1, <1>2
  <2> HIDE DEF e
  <2>2. g = [T \in SUBSET S |-> e(T)]
    BY <1>1, <2>1
  <2> QED BY <2>2 DEF IsFold, e
<1>4. ASSUME NEW h, IsFold(h, f, S)
      PROVE  h = g
  <2> DEFINE Good == {T \in SUBSET S : h[T] = g[T]}
  <2>1. DOMAIN h = SUBSET S /\ h = [T \in SUBSET S |-> h[T]]
    BY <1>4 DEF IsFold
  <2>2. h[{}] = 0
    BY <1>4 DEF IsFold
  <2>3. \A T \in SUBSET S : T # {} =>
          h[T] = f[CHOOSE x \in T : TRUE] + h[T \ {CHOOSE x \in T : TRUE}]
    BY <1>4 DEF IsFold
  <2>4. ASSUME NEW T \in SUBSET S, \A x \in T : T \ {x} \in Good
        PROVE  T \in Good
    <3>1. CASE T = {}
      BY <1>1, <2>2, <3>1
    <3>2. CASE T # {}
      <4>1. (CHOOSE x \in T : TRUE) \in T
        BY <3>2
      <4>2. h[T \ {CHOOSE x \in T : TRUE}] = g[T \ {CHOOSE x \in T : TRUE}]
        BY <2>4, <4>1
      <4> QED BY <1>2, <2>3, <3>2, <4>2
    <3> QED BY <3>1, <3>2
  <2>5. \A T \in SUBSET S : T \in Good
    <3> HIDE DEF Good
    <3> QED BY <2>4, StrongSubsetInduction
  <2> QED BY <1>1, <2>1, <2>5
<1> QED BY <1>3, <1>4

\* SumFunctionOnSet is the fold over its set.
LEMMA SumIsFold ==
    ASSUME NEW S, NEW f, NEW g, IsFold(g, f, S), \A h : IsFold(h, f, S) => h = g
    PROVE  SumFunctionOnSet(f, S) = g[S]
BY DEF SumFunctionOnSet, FoldFunctionOnSet, MapThenFoldSet, IsFold

\* One g gives the sums over all subsets.
LEMMA SumsOfSubsets ==
    ASSUME NEW S, IsFiniteSet(S), NEW f, \A x \in S : f[x] \in Int
    PROVE  \E g : IsSum(g, f, S) /\ \A T \in SUBSET S : SumFunctionOnSet(f, T) = g[T]
<1>1. PICK g : IsSum(g, f, S)
  BY SumsExist
<1>2. ASSUME NEW T \in SUBSET S
      PROVE  SumFunctionOnSet(f, T) = g[T]
  <2> DEFINE h == [U \in SUBSET T |-> g[U]]
  <2>1. IsSum(h, f, T)
    BY <1>1 DEF IsSum
  <2>2. IsFiniteSet(T)
    BY FS_Subset
  <2>3. h[T] = g[T]
    OBVIOUS
  <2> HIDE DEF h
  <2>4. SumFunctionOnSet(f, T) = h[T]
    BY <2>1, <2>2, FoldIsSum, SumIsFold
  <2> QED BY <2>3, <2>4
<1> QED BY <1>1, <1>2

\* Nothing adds up to zero.
LEMMA SumEmpty == \A f : SumFunctionOnSet(f, {}) = 0
<1> SUFFICES ASSUME NEW f PROVE SumFunctionOnSet(f, {}) = 0
  OBVIOUS
<1>1. IsFiniteSet({}) /\ \A x \in {} : f[x] \in Int
  BY FS_EmptySet
<1>2. PICK g : IsSum(g, f, {}) /\ \A T \in SUBSET {} : SumFunctionOnSet(f, T) = g[T]
  BY <1>1, SumsOfSubsets
<1> QED BY <1>2 DEF IsSum

\* A sum of integers is an integer, and any element may be taken out first.
LEMMA SumSplit ==
    ASSUME NEW S, IsFiniteSet(S), NEW f, \A x \in S : f[x] \in Int
    PROVE  /\ SumFunctionOnSet(f, S) \in Int
           /\ \A x \in S : /\ SumFunctionOnSet(f, S \ {x}) \in Int
                           /\ SumFunctionOnSet(f, S) = f[x] + SumFunctionOnSet(f, S \ {x})
<1>1. PICK g : IsSum(g, f, S) /\ \A T \in SUBSET S : SumFunctionOnSet(f, T) = g[T]
  BY SumsOfSubsets
<1> QED BY <1>1 DEF IsSum

\* Only the values on the set matter.
LEMMA SumCongruence ==
    ASSUME NEW S, IsFiniteSet(S), NEW f, \A x \in S : f[x] \in Int,
           NEW h, \A x \in S : h[x] = f[x]
    PROVE  SumFunctionOnSet(h, S) = SumFunctionOnSet(f, S)
<1>1. PICK g : IsSum(g, f, S) /\ \A T \in SUBSET S : SumFunctionOnSet(f, T) = g[T]
  BY SumsOfSubsets
<1>2. IsSum(g, h, S)
  BY <1>1 DEF IsSum
<1>3. SumFunctionOnSet(h, S) = g[S]
  BY <1>2, FoldIsSum, SumIsFold
<1> QED BY <1>1, <1>3

\* An element more.
LEMMA SumAdd ==
    ASSUME NEW S, IsFiniteSet(S), NEW y, y \notin S,
           NEW f, \A x \in S \union {y} : f[x] \in Int
    PROVE  SumFunctionOnSet(f, S \union {y}) = f[y] + SumFunctionOnSet(f, S)
<1>1. IsFiniteSet(S \union {y})
  BY FS_AddElement
<1>2. (S \union {y}) \ {y} = S
  OBVIOUS
<1> QED BY <1>1, <1>2, SumSplit

\* A change of one value, and no other.
LEMMA SumUpdate ==
    ASSUME NEW S, IsFiniteSet(S), NEW f, \A x \in S : f[x] \in Int,
           NEW h, NEW y \in S, h[y] \in Int, \A x \in S \ {y} : h[x] = f[x]
    PROVE  SumFunctionOnSet(h, S) = SumFunctionOnSet(f, S) - f[y] + h[y]
<1>1. IsFiniteSet(S \ {y})
  BY FS_RemoveElement
<1>2. SumFunctionOnSet(h, S \ {y}) = SumFunctionOnSet(f, S \ {y})
  BY <1>1, SumCongruence
<1>3. SumFunctionOnSet(f, S) = f[y] + SumFunctionOnSet(f, S \ {y})
      /\ SumFunctionOnSet(f, S \ {y}) \in Int
  BY SumSplit
<1>4. \A x \in S : h[x] \in Int
  OBVIOUS
<1>5. SumFunctionOnSet(h, S) = h[y] + SumFunctionOnSet(h, S \ {y})
  BY <1>4, SumSplit
<1> QED BY <1>2, <1>3, <1>5

\* A sum of naturals is a natural, and at least each of its terms.
LEMMA SumNat ==
    ASSUME NEW S, IsFiniteSet(S), NEW f, \A x \in S : f[x] \in Nat
    PROVE  /\ SumFunctionOnSet(f, S) \in Nat
           /\ \A x \in S : f[x] <= SumFunctionOnSet(f, S)
<1> DEFINE Good == {T \in SUBSET S : SumFunctionOnSet(f, T) \in Nat}
<1>1. {} \in Good
  BY SumEmpty
<1>2. ASSUME NEW T \in SUBSET S, NEW x \in T, T \ {x} \in Good
      PROVE  T \in Good
  <2>1. IsFiniteSet(T) /\ \A y \in T : f[y] \in Int
    BY FS_Subset
  <2>2. SumFunctionOnSet(f, T) = f[x] + SumFunctionOnSet(f, T \ {x})
    BY <2>1, SumSplit
  <2> QED BY <1>2, <2>2
<1>3. \A T \in SUBSET S : T \in Good
  <2> HIDE DEF Good
  <2> QED BY <1>1, <1>2, SubsetInduction
<1>4. ASSUME NEW x \in S PROVE f[x] <= SumFunctionOnSet(f, S)
  <2>1. SumFunctionOnSet(f, S) = f[x] + SumFunctionOnSet(f, S \ {x})
    BY SumSplit
  <2>2. SumFunctionOnSet(f, S \ {x}) \in Nat
    BY <1>3
  <2> QED BY <2>1, <2>2
<1> QED BY <1>3, <1>4

\* Values that are all zero add up to zero.
LEMMA SumZero ==
    ASSUME NEW S, IsFiniteSet(S), NEW f, \A x \in S : f[x] = 0
    PROVE  SumFunctionOnSet(f, S) = 0
<1> DEFINE Good == {T \in SUBSET S : SumFunctionOnSet(f, T) = 0}
<1>1. {} \in Good
  BY SumEmpty
<1>2. ASSUME NEW T \in SUBSET S, NEW x \in T, T \ {x} \in Good
      PROVE  T \in Good
  <2>1. IsFiniteSet(T) /\ \A y \in T : f[y] \in Int
    BY FS_Subset
  <2>2. SumFunctionOnSet(f, T) = f[x] + SumFunctionOnSet(f, T \ {x})
    BY <2>1, SumSplit
  <2> QED BY <1>2, <2>2
<1>3. \A T \in SUBSET S : T \in Good
  <2> HIDE DEF Good
  <2> QED BY <1>1, <1>2, SubsetInduction
<1> QED BY <1>3

\* The sum over two sets with nothing in common.
LEMMA SumUnion ==
    ASSUME NEW S, IsFiniteSet(S), NEW U, IsFiniteSet(U), S \intersect U = {},
           NEW f, \A x \in S \union U : f[x] \in Int
    PROVE  SumFunctionOnSet(f, S \union U)
              = SumFunctionOnSet(f, S) + SumFunctionOnSet(f, U)
<1> DEFINE Good == {T \in SUBSET S : SumFunctionOnSet(f, T \union U)
                        = SumFunctionOnSet(f, T) + SumFunctionOnSet(f, U)}
<1>0. SumFunctionOnSet(f, U) \in Int
  BY SumSplit
<1>1. {} \in Good
  <2>1. {} \union U = U /\ SumFunctionOnSet(f, {}) = 0
    BY SumEmpty
  <2> QED BY <1>0, <2>1
<1>2. ASSUME NEW T \in SUBSET S, NEW x \in T, T \ {x} \in Good
      PROVE  T \in Good
  <2>1. IsFiniteSet(T) /\ \A y \in T : f[y] \in Int
    BY FS_Subset
  <2>2. /\ SumFunctionOnSet(f, T) = f[x] + SumFunctionOnSet(f, T \ {x})
        /\ SumFunctionOnSet(f, T \ {x}) \in Int /\ f[x] \in Int
    BY <2>1, SumSplit
  <2>3. IsFiniteSet(T \union U) /\ x \in T \union U
    BY <2>1, FS_Union
  <2>4. SumFunctionOnSet(f, T \union U) = f[x] + SumFunctionOnSet(f, (T \union U) \ {x})
    BY <2>3, SumSplit
  <2>5. (T \union U) \ {x} = (T \ {x}) \union U
    OBVIOUS
  <2>6. SumFunctionOnSet(f, (T \ {x}) \union U)
           = SumFunctionOnSet(f, T \ {x}) + SumFunctionOnSet(f, U)
    BY <1>2
  <2>7. SumFunctionOnSet(f, T \union U)
           = f[x] + (SumFunctionOnSet(f, T \ {x}) + SumFunctionOnSet(f, U))
    BY <2>4, <2>5, <2>6, Zenon
  <2>8. SumFunctionOnSet(f, T \union U) = SumFunctionOnSet(f, T) + SumFunctionOnSet(f, U)
    BY <1>0, <2>2, <2>7
  <2> QED BY <2>8
<1>3. \A T \in SUBSET S : T \in Good
  <2> HIDE DEF Good
  <2> QED BY <1>1, <1>2, SubsetInduction
<1> QED BY <1>3

\* A sum over renamed indices.
LEMMA SumImage ==
    ASSUME NEW S, IsFiniteSet(S), NEW R, NEW e \in Bijection(S, R),
           NEW h, NEW g, \A x \in S : h[e[x]] \in Int /\ g[x] = h[e[x]]
    PROVE  SumFunctionOnSet(h, R) = SumFunctionOnSet(g, S)
<1> DEFINE Image(T) == {e[x] : x \in T}
           Good == {T \in SUBSET S : /\ IsFiniteSet(Image(T))
                                     /\ SumFunctionOnSet(h, Image(T)) = SumFunctionOnSet(g, T)}
<1>0. /\ e \in [S -> R] /\ \A x, y \in S : e[x] = e[y] => x = y
      /\ \A y \in R : \E x \in S : e[x] = y
  BY DEF Bijection, Injection, Surjection, IsInjective
<1>1. {} \in Good
  <2>1. Image({}) = {} /\ {} \in SUBSET S
    OBVIOUS
  <2> HIDE DEF Image
  <2> QED BY <2>1, SumEmpty, FS_EmptySet
<1>2. ASSUME NEW T \in SUBSET S, NEW x \in T, T \ {x} \in Good
      PROVE  T \in Good
  <2>1. IsFiniteSet(T) /\ \A y \in T : g[y] \in Int
    BY FS_Subset
  <2>2. SumFunctionOnSet(g, T) = g[x] + SumFunctionOnSet(g, T \ {x})
    BY <2>1, SumSplit
  <2>3. Image(T) = Image(T \ {x}) \union {e[x]} /\ e[x] \notin Image(T \ {x})
    BY <1>0
  <2>4. /\ IsFiniteSet(Image(T \ {x}))
        /\ SumFunctionOnSet(h, Image(T \ {x})) = SumFunctionOnSet(g, T \ {x})
    BY <1>2
  <2>5. \A z \in Image(T \ {x}) \union {e[x]} : h[z] \in Int
    OBVIOUS
  <2> DEFINE I == Image(T \ {x})
  <2> HIDE DEF Image, I
  <2>6. /\ SumFunctionOnSet(h, I \union {e[x]}) = h[e[x]] + SumFunctionOnSet(h, I)
        /\ IsFiniteSet(I \union {e[x]})
    <3>1. IsFiniteSet(I) /\ e[x] \notin I /\ \A z \in I \union {e[x]} : h[z] \in Int
      BY <2>3, <2>4, <2>5 DEF I
    <3> QED BY <3>1, SumAdd, FS_AddElement
  <2>7. /\ SumFunctionOnSet(h, Image(T)) = h[e[x]] + SumFunctionOnSet(h, Image(T \ {x}))
        /\ IsFiniteSet(Image(T))
    BY <2>3, <2>6, Zenon DEF I
  <2>8. SumFunctionOnSet(h, Image(T)) = SumFunctionOnSet(g, T)
    BY <2>2, <2>4, <2>7
  <2> QED BY <2>7, <2>8
<1>3. \A T \in SUBSET S : T \in Good
  <2> HIDE DEF Good
  <2> QED BY <1>1, <1>2, SubsetInduction
<1>4. R = Image(S)
  BY <1>0
<1> QED BY <1>3, <1>4

\* Sums of sums.
LEMMA SumPlus ==
    ASSUME NEW S, IsFiniteSet(S), NEW f, NEW g, NEW h,
           \A x \in S : f[x] \in Int /\ g[x] \in Int /\ h[x] = f[x] + g[x]
    PROVE  SumFunctionOnSet(h, S) = SumFunctionOnSet(f, S) + SumFunctionOnSet(g, S)
<1> DEFINE Good == {T \in SUBSET S :
              SumFunctionOnSet(h, T) = SumFunctionOnSet(f, T) + SumFunctionOnSet(g, T)}
<1>1. {} \in Good
  BY SumEmpty
<1>2. ASSUME NEW T \in SUBSET S, NEW x \in T, T \ {x} \in Good
      PROVE  T \in Good
  <2>1. IsFiniteSet(T)
    BY FS_Subset
  <2>2. /\ SumFunctionOnSet(f, T) = f[x] + SumFunctionOnSet(f, T \ {x})
        /\ SumFunctionOnSet(f, T \ {x}) \in Int
    BY <2>1, SumSplit
  <2>3. /\ SumFunctionOnSet(g, T) = g[x] + SumFunctionOnSet(g, T \ {x})
        /\ SumFunctionOnSet(g, T \ {x}) \in Int
    BY <2>1, SumSplit
  <2>4. \A y \in T : h[y] \in Int
    OBVIOUS
  <2>5. SumFunctionOnSet(h, T) = h[x] + SumFunctionOnSet(h, T \ {x})
    BY <2>1, <2>4, SumSplit
  <2>6. /\ SumFunctionOnSet(h, T \ {x})
            = SumFunctionOnSet(f, T \ {x}) + SumFunctionOnSet(g, T \ {x})
        /\ h[x] = f[x] + g[x] /\ f[x] \in Int /\ g[x] \in Int
    BY <1>2
  <2>7. SumFunctionOnSet(h, T) = SumFunctionOnSet(f, T) + SumFunctionOnSet(g, T)
    BY <2>2, <2>3, <2>5, <2>6
  <2> QED BY <2>7
<1>3. \A T \in SUBSET S : T \in Good
  <2> HIDE DEF Good
  <2> QED BY <1>1, <1>2, SubsetInduction
<1> QED BY <1>3

LEMMA SumNegate ==
    ASSUME NEW S, IsFiniteSet(S), NEW f, NEW h,
           \A x \in S : f[x] \in Int /\ h[x] = -f[x]
    PROVE  SumFunctionOnSet(h, S) = -SumFunctionOnSet(f, S)
<1> DEFINE z == [x \in S |-> 0]
<1>1. \A x \in S : f[x] \in Int /\ h[x] \in Int /\ z[x] = f[x] + h[x] /\ z[x] = 0
  OBVIOUS
<1> HIDE DEF z
<1>2. SumFunctionOnSet(z, S) = SumFunctionOnSet(f, S) + SumFunctionOnSet(h, S)
  BY <1>1, SumPlus
<1>3. SumFunctionOnSet(z, S) = 0
  BY <1>1, SumZero
<1>4. SumFunctionOnSet(f, S) \in Int /\ SumFunctionOnSet(h, S) \in Int
  BY <1>1, SumSplit
<1> QED BY <1>2, <1>3, <1>4

-----------------------------------------------------------------------------
(* Sums of sequences.                                                      *)

LEMMA SequenceSum ==
    ASSUME NEW s \in Seq(Int)
    PROVE  /\ SumFunction(s) = SumFunctionOnSet(s, 1..Len(s))
           /\ IsFiniteSet(1..Len(s)) /\ \A i \in 1..Len(s) : s[i] \in Int
           /\ SumFunction(s) \in Int
<1>1. DOMAIN s = 1..Len(s) /\ Len(s) \in Nat /\ \A i \in 1..Len(s) : s[i] \in Int
  BY LenProperties, ElementOfSeq
<1>2. IsFiniteSet(1..Len(s))
  BY <1>1, FS_Interval
<1>3. SumFunction(s) = SumFunctionOnSet(s, 1..Len(s))
  BY <1>1 DEF SumFunction
<1> QED BY <1>1, <1>2, <1>3, SumSplit

LEMMA SumConcat ==
    ASSUME NEW s \in Seq(Int), NEW t \in Seq(Int)
    PROVE  SumFunction(s \o t) = SumFunction(s) + SumFunction(t)
<1> DEFINE n == Len(s)
           k == Len(t)
           all == s \o t
           shift == [i \in 1..k |-> n + i]
           Late == {shift[i] : i \in 1..k}
<1>1. /\ n \in Nat /\ k \in Nat
      /\ all \in Seq(Int) /\ Len(all) = n + k
  BY ConcatProperties, LenProperties
<1>2. /\ \A i \in 1..n : all[i] = s[i]
      /\ \A i \in 1..k : all[n + i] = t[i]
  BY ConcatProperties, LenProperties
<1> HIDE DEF n, k, all
<1>3. Late = (n + 1)..(n + k)
  <2>1. \A j \in (n + 1)..(n + k) : j - n \in 1..k /\ shift[j - n] = j
    BY <1>1
  <2>2. \A i \in 1..k : shift[i] \in (n + 1)..(n + k)
    BY <1>1
  <2> HIDE DEF shift
  <2>3. \A j \in (n + 1)..(n + k) : j \in Late
    BY <2>1
  <2> QED BY <2>2, <2>3
<1>4. 1..(n + k) = (1..n) \union Late /\ (1..n) \intersect Late = {}
  <2>1. 1..(n + k) = (1..n) \union ((n + 1)..(n + k)) /\ (1..n) \intersect ((n + 1)..(n + k)) = {}
    BY <1>1
  <2> HIDE DEF Late
  <2> QED BY <1>3, <2>1
<1>5. IsFiniteSet(1..n) /\ IsFiniteSet(1..k) /\ IsFiniteSet((n + 1)..(n + k))
  <2>1. n + 1 \in Int /\ n + k \in Int /\ n \in Int /\ k \in Int
    BY <1>1
  <2> QED BY <2>1, FS_Interval
<1>6. IsFiniteSet(Late) /\ \A i \in (1..n) \union Late : all[i] \in Int
  BY <1>1, <1>3, <1>4, <1>5, ElementOfSeq
<1>7. SumFunctionOnSet(all, Late) = SumFunctionOnSet(t, 1..k)
  <2>1. \A i \in 1..k : all[shift[i]] \in Int /\ t[i] = all[shift[i]]
    BY <1>1, <1>2, <1>6
  <2>2. \A i, j \in 1..k : shift[i] = shift[j] => i = j
    BY <1>1
  <2>3. shift \in Bijection(1..k, Late)
    BY <2>2 DEF Bijection, Injection, Surjection, IsInjective
  <2> DEFINE Early == 1..k
  <2> HIDE DEF shift, Late, Early
  <2>4. IsFiniteSet(Early) /\ shift \in Bijection(Early, Late)
    BY <1>5, <2>3 DEF Early
  <2>5. \A i \in Early : all[shift[i]] \in Int /\ t[i] = all[shift[i]]
    BY <2>1 DEF Early
  <2>6. SumFunctionOnSet(all, Late) = SumFunctionOnSet(t, Early)
    BY <2>4, <2>5, SumImage
  <2> QED BY <2>6 DEF Early
<1> HIDE DEF Late
<1>8. SumFunctionOnSet(all, (1..n) \union Late)
         = SumFunctionOnSet(all, 1..n) + SumFunctionOnSet(all, Late)
  BY <1>4, <1>5, <1>6, SumUnion
<1>9. SumFunctionOnSet(all, 1..n) = SumFunctionOnSet(s, 1..n)
  <2>1. \A i \in 1..n : s[i] \in Int /\ all[i] = s[i]
    BY <1>2, ElementOfSeq DEF n
  <2> QED BY <1>5, <2>1, SumCongruence
<1>10. /\ SumFunction(all) = SumFunctionOnSet(all, 1..(n + k))
       /\ SumFunction(s) = SumFunctionOnSet(s, 1..n)
       /\ SumFunction(t) = SumFunctionOnSet(t, 1..k)
  BY <1>1, SequenceSum DEF n, k
<1>11. SumFunction(all) = SumFunction(s) + SumFunction(t)
  BY <1>4, <1>7, <1>8, <1>9, <1>10
<1> QED BY <1>11 DEF all

LEMMA SumTail ==
    ASSUME NEW s \in Seq(Int), s # <<>>
    PROVE  /\ Tail(s) \in Seq(Int)
           /\ SumFunction(s) = s[1] + SumFunction(Tail(s))
<1>1. s[1] \in Int /\ Tail(s) \in Seq(Int) /\ s = <<s[1]>> \o Tail(s)
  BY HeadTailProperties, ConcatProperties
<1>2. <<s[1]>> \in Seq(Int) /\ Len(<<s[1]>>) = 1 /\ <<s[1]>>[1] = s[1]
  BY <1>1
<1>3. SumFunction(<<s[1]>>) = s[1]
  <2> DEFINE u == <<s[1]>>
  <2>1. u \in Seq(Int) /\ Len(u) = 1 /\ u[1] = s[1] /\ s[1] \in Int
    BY <1>1, <1>2
  <2> HIDE DEF u
  <2>2. SumFunction(u) = SumFunctionOnSet(u, 1..1)
    BY <2>1, SequenceSum
  <2>3. 1..1 = {} \union {1} /\ 1 \notin {} /\ IsFiniteSet({})
    BY FS_EmptySet
  <2>4. \A x \in {} \union {1} : u[x] \in Int
    BY <2>1
  <2>5. SumFunctionOnSet(u, {} \union {1}) = u[1] + SumFunctionOnSet(u, {})
    BY <2>3, <2>4, SumAdd
  <2>6. SumFunctionOnSet(u, {}) = 0
    BY SumEmpty
  <2>7. SumFunction(u) = s[1]
    BY <2>1, <2>2, <2>3, <2>5, <2>6
  <2> QED BY <2>7 DEF u
<1>4. SumFunction(<<s[1]>> \o Tail(s)) = SumFunction(<<s[1]>>) + SumFunction(Tail(s))
  BY <1>1, <1>2, SumConcat
<1> QED BY <1>1, <1>3, <1>4

-----------------------------------------------------------------------------
(* Sums of what the elements of a sequence stand for.                      *)

\* The values a sequence stands for, one by one.
Mapped(v, q) == [i \in 1..Len(q) |-> v[q[i]]]

LEMMA MappedTyped ==
    ASSUME NEW S, NEW v \in [S -> Int], NEW q \in Seq(S)
    PROVE  /\ Mapped(v, q) \in Seq(Int) /\ Len(Mapped(v, q)) = Len(q)
           /\ \A i \in 1..Len(q) : Mapped(v, q)[i] = v[q[i]]
           /\ SumFunction(Mapped(v, q)) \in Int
<1> DEFINE m(i) == v[q[i]]
           f == [i \in 1..Len(q) |-> m(i)]
<1>1. Len(q) \in Nat /\ \A i \in 1..Len(q) : q[i] \in S
  BY ElementOfSeq, LenProperties
<1>2. \A i \in 1..Len(q) : m(i) \in Int
  BY <1>1
<1>3. Mapped(v, q) = f /\ \A i \in 1..Len(q) : f[i] = v[q[i]]
  BY DEF Mapped
<1> HIDE DEF m
<1>4. f \in Seq(Int)
  BY <1>1, <1>2, IsASeq
<1>5. DOMAIN f = 1..Len(q) /\ DOMAIN f = 1..Len(f) /\ Len(f) \in Nat
  BY <1>4, LenProperties
<1> HIDE DEF f
<1>6. Len(f) = Len(q)
  BY <1>1, <1>5
<1>7. SumFunction(f) \in Int
  BY <1>4, SequenceSum
<1> QED BY <1>3, <1>4, <1>6, <1>7

\* Sequences that follow each other.
LEMMA MappedConcat ==
    ASSUME NEW S, NEW v \in [S -> Int], NEW a \in Seq(S), NEW b \in Seq(S)
    PROVE  SumFunction(Mapped(v, a \o b)) = SumFunction(Mapped(v, a)) + SumFunction(Mapped(v, b))
<1>0. ASSUME NEW q \in Seq(S)
      PROVE  /\ Mapped(v, q) \in Seq(Int) /\ Len(Mapped(v, q)) = Len(q)
             /\ \A i \in 1..Len(q) : Mapped(v, q)[i] = v[q[i]]
  <2>1. Mapped(v, q) \in Seq(Int)
    BY MappedTyped
  <2>2. Len(Mapped(v, q)) = Len(q)
    BY MappedTyped
  <2>3. \A i \in 1..Len(q) : Mapped(v, q)[i] = v[q[i]]
    BY MappedTyped
  <2> QED BY <2>1, <2>2, <2>3
<1> DEFINE x == Mapped(v, a)
           y == Mapped(v, b)
           z == Mapped(v, a \o b)
           n == Len(a)
           k == Len(b)
<1>1. /\ a \o b \in Seq(S) /\ Len(a \o b) = n + k /\ n \in Nat /\ k \in Nat
      /\ \A i \in 1..(n + k) : (a \o b)[i] = IF i <= n THEN a[i] ELSE b[i - n]
  BY ConcatProperties, LenProperties
<1>2. /\ x \in Seq(Int) /\ Len(x) = n /\ \A i \in 1..n : x[i] = v[a[i]]
      /\ y \in Seq(Int) /\ Len(y) = k /\ \A i \in 1..k : y[i] = v[b[i]]
  BY <1>0
<1>3. /\ z \in Seq(Int) /\ Len(z) = n + k /\ \A i \in 1..(n + k) : z[i] = v[(a \o b)[i]]
  BY <1>0, <1>1
<1> HIDE DEF x, y, z, n, k
<1>4. /\ x \o y \in Seq(Int) /\ Len(x \o y) = n + k
      /\ \A i \in 1..(n + k) : (x \o y)[i] = IF i <= n THEN x[i] ELSE y[i - n]
  <2>1. x \o y \in Seq(Int) /\ Len(x \o y) = Len(x) + Len(y)
    BY <1>2, ConcatProperties
  <2>2. \A i \in 1..(Len(x) + Len(y)) : (x \o y)[i] = IF i <= Len(x) THEN x[i] ELSE y[i - Len(x)]
    BY <1>2, ConcatProperties
  <2> QED BY <1>2, <2>1, <2>2
<1>5. \A i \in 1..(n + k) : z[i] = (x \o y)[i]
  <2> TAKE i \in 1..(n + k)
  <2>1. z[i] = v[IF i <= n THEN a[i] ELSE b[i - n]]
    BY <1>1, <1>3
  <2>2. (x \o y)[i] = IF i <= n THEN x[i] ELSE y[i - n]
    BY <1>4
  <2>3. CASE i <= n
    <3>1. i \in 1..n
      BY <1>1, <2>3
    <3> QED BY <1>2, <2>1, <2>2, <2>3, <3>1
  <2>4. CASE ~(i <= n)
    <3>1. i - n \in 1..k
      BY <1>1, <2>4
    <3> QED BY <1>2, <2>1, <2>2, <2>4, <3>1
  <2> QED BY <2>3, <2>4
<1>6. z = x \o y
  BY <1>3, <1>4, <1>5, SeqEqual
<1>7. SumFunction(z) = SumFunction(x) + SumFunction(y)
  BY <1>2, <1>6, SumConcat
<1> QED BY <1>7 DEF x, y, z

\* Without the first element.
LEMMA MappedTail ==
    ASSUME NEW S, NEW v \in [S -> Int], NEW q \in Seq(S), q # <<>>
    PROVE  SumFunction(Mapped(v, q)) = v[Head(q)] + SumFunction(Mapped(v, Tail(q)))
<1> DEFINE x == Mapped(v, q)
           y == Mapped(v, Tail(q))
<1>1. /\ Tail(q) \in Seq(S) /\ Len(Tail(q)) = Len(q) - 1 /\ Len(q) \in Nat /\ Len(q) > 0
      /\ Head(q) = q[1]
  BY HeadTailProperties, LenProperties, EmptySeq
<1>2. \A i \in 1..Len(Tail(q)) : Tail(q)[i] = q[i + 1]
  BY HeadTailProperties
<1>3. /\ x \in Seq(Int) /\ Len(x) = Len(q) /\ \A i \in 1..Len(q) : x[i] = v[q[i]]
      /\ y \in Seq(Int) /\ Len(y) = Len(q) - 1
      /\ \A i \in 1..(Len(q) - 1) : y[i] = v[Tail(q)[i]]
  <2>1. x \in Seq(Int) /\ Len(x) = Len(q) /\ \A i \in 1..Len(q) : x[i] = v[q[i]]
    BY MappedTyped
  <2> DEFINE rest == Tail(q)
  <2>2. rest \in Seq(S)
    BY <1>1
  <2>3. Len(rest) = Len(q) - 1
    BY <1>1
  <2> HIDE DEF rest
  <2>4. /\ Mapped(v, rest) \in Seq(Int) /\ Len(Mapped(v, rest)) = Len(rest)
        /\ \A i \in 1..Len(rest) : Mapped(v, rest)[i] = v[rest[i]]
    BY <2>2, MappedTyped
  <2> QED BY <2>1, <2>3, <2>4 DEF rest
<1> HIDE DEF x, y
<1>4. x # <<>>
  BY <1>1, <1>3, EmptySeq
<1>5. /\ Tail(x) \in Seq(Int) /\ Len(Tail(x)) = Len(q) - 1
      /\ \A i \in 1..(Len(q) - 1) : Tail(x)[i] = x[i + 1]
  BY <1>3, <1>4, HeadTailProperties
<1>6. \A i \in 1..(Len(q) - 1) : y[i] = Tail(x)[i]
  <2> TAKE i \in 1..(Len(q) - 1)
  <2>1. i + 1 \in 1..Len(q) /\ i \in 1..Len(Tail(q))
    BY <1>1
  <2> QED BY <1>2, <1>3, <1>5, <2>1
<1>7. y = Tail(x)
  BY <1>3, <1>5, <1>6, SeqEqual
<1>8. x[1] = v[Head(q)]
  BY <1>1, <1>3
<1>9. SumFunction(x) = v[Head(q)] + SumFunction(y)
  BY <1>3, <1>4, <1>7, <1>8, SumTail
<1> QED BY <1>9 DEF x, y

\* Elements that stand for nothing.
LEMMA MappedZero ==
    ASSUME NEW S, NEW v \in [S -> Int], NEW q \in Seq(S), \A i \in 1..Len(q) : v[q[i]] = 0
    PROVE  SumFunction(Mapped(v, q)) = 0
<1> DEFINE x == Mapped(v, q)
<1>1. x \in Seq(Int) /\ Len(x) = Len(q) /\ \A i \in 1..Len(q) : x[i] = 0
  BY MappedTyped
<1> HIDE DEF x
<1>2. SumFunction(x) = SumFunctionOnSet(x, 1..Len(x)) /\ IsFiniteSet(1..Len(x))
  BY <1>1, SequenceSum
<1>3. \A i \in 1..Len(x) : x[i] = 0
  BY <1>1
<1>4. SumFunctionOnSet(x, 1..Len(x)) = 0
  BY <1>2, <1>3, SumZero
<1> QED BY <1>2, <1>4 DEF x

-----------------------------------------------------------------------------
(* Sequences.                                                              *)

\* Concatenation loses and moves nothing of either sequence.
LEMMA ConcatIndices ==
    ASSUME NEW S, NEW s \in Seq(S), NEW t \in Seq(S)
    PROVE  /\ s \o t \in Seq(S)
           /\ Len(s \o t) = Len(s) + Len(t)
           /\ \A i \in 1..Len(s) : i \in 1..Len(s \o t) /\ (s \o t)[i] = s[i]
           /\ \A i \in 1..Len(t) : /\ Len(s) + i \in 1..Len(s \o t)
                                   /\ (s \o t)[Len(s) + i] = t[i]
<1>1. s \o t \in Seq(S) /\ Len(s \o t) = Len(s) + Len(t)
  BY ConcatProperties
<1>2. Len(s) \in Nat /\ Len(t) \in Nat
  BY LenProperties
<1>3. \A i \in 1..Len(s) : (s \o t)[i] = s[i]
  BY <1>1, <1>2, ConcatProperties
<1>4. \A i \in 1..Len(t) : (s \o t)[Len(s) + i] = t[i]
  BY <1>1, <1>2, ConcatProperties
<1> QED BY <1>1, <1>2, <1>3, <1>4

\* Deleting position i shifts what is behind it one place to the front.
LEMMA RemoveAtProperties ==
    ASSUME NEW S, NEW q \in Seq(S), NEW i \in 1..Len(q)
    PROVE  /\ RemoveAt(q, i) \in Seq(S)
           /\ Len(RemoveAt(q, i)) = Len(q) - 1
           /\ \A j \in 1..Len(q) - 1 :
                 RemoveAt(q, i)[j] = IF j < i THEN q[j] ELSE q[j + 1]
<1> DEFINE a == SubSeq(q, 1, i - 1)
           b == SubSeq(q, i + 1, Len(q))
<1>1. q \in [1..Len(q) -> S] /\ Len(q) \in Nat
  BY LenProperties
<1>2. /\ a \in Seq(S) /\ Len(a) = i - 1
      /\ \A j \in 1..i - 1 : a[j] = q[j]
  <2>1. \A j \in 1..i - 1 : q[j] \in S
    BY <1>1
  <2>2. /\ a \in Seq(S) /\ Len(a) = IF 1 <= i - 1 THEN (i - 1) - 1 + 1 ELSE 0
        /\ \A j \in 1..(i - 1) - 1 + 1 : a[j] = q[1 + j - 1]
    BY <2>1, <1>1, SubSeqProperties
  <2> QED BY <2>2, <1>1
<1>3. /\ b \in Seq(S) /\ Len(b) = Len(q) - i
      /\ \A j \in 1..Len(q) - i : b[j] = q[i + j]
  <2>1. \A j \in i + 1..Len(q) : q[j] \in S
    BY <1>1
  <2>2. /\ b \in Seq(S)
        /\ Len(b) = IF i + 1 <= Len(q) THEN Len(q) - (i + 1) + 1 ELSE 0
        /\ \A j \in 1..Len(q) - (i + 1) + 1 : b[j] = q[(i + 1) + j - 1]
    BY <2>1, <1>1, SubSeqProperties
  <2>3. ASSUME NEW j \in 1..Len(q) - i PROVE b[j] = q[i + j]
    <3>1. j \in 1..Len(q) - (i + 1) + 1 /\ (i + 1) + j - 1 = i + j BY <1>1
    <3> QED BY <2>2, <3>1
  <2>4. Len(b) = Len(q) - i
    <3> HIDE DEF b
    <3>1. CASE i + 1 <= Len(q) BY <3>1, <2>2, <1>1
    <3>2. CASE i = Len(q) BY <3>2, <2>2, <1>1
    <3>3. i + 1 <= Len(q) \/ i = Len(q)
      OBVIOUS
    <3> QED BY <3>1, <3>2, <3>3
  <2> HIDE DEF b
  <2> QED BY <2>2, <2>3, <2>4
<1>4. /\ a \o b \in Seq(S) /\ Len(a \o b) = Len(a) + Len(b)
      /\ \A j \in 1..Len(a) + Len(b) :
            (a \o b)[j] = IF j <= Len(a) THEN a[j] ELSE b[j - Len(a)]
  BY <1>2, <1>3, ConcatProperties
<1>5. RemoveAt(q, i) = a \o b
  BY DEF RemoveAt
<1> HIDE DEF a, b
<1>6. Len(a \o b) = Len(q) - 1
  BY <1>1, <1>2, <1>3, <1>4
<1>7. ASSUME NEW j \in 1..Len(q) - 1
      PROVE  (a \o b)[j] = IF j < i THEN q[j] ELSE q[j + 1]
  <2>1. CASE j < i BY <2>1, <1>1, <1>2, <1>3, <1>4
  <2>2. CASE ~(j < i)
    <3>1. (a \o b)[j] = b[j - Len(a)] BY <2>2, <1>1, <1>2, <1>3, <1>4
    <3>2. j - Len(a) \in 1..Len(q) - i /\ i + (j - Len(a)) = j + 1
      BY <2>2, <1>1, <1>2
    <3> QED BY <3>1, <3>2, <2>2, <1>3
  <2> QED BY <2>1, <2>2
<1> QED BY <1>4, <1>5, <1>6, <1>7

\* A finite set as a sequence: every element once, and nothing else.
LEMMA SetToSeqFacts ==
    ASSUME NEW S, IsFiniteSet(S)
    PROVE  /\ SetToSeq(S) \in Seq(S)
           /\ Len(SetToSeq(S)) = Cardinality(S)
           /\ ToSet(SetToSeq(S)) = S
           /\ SetToSeq(S) \in Bijection(1..Len(SetToSeq(S)), S)
<1> DEFINE n == Cardinality(S)
           s == SetToSeq(S)
<1>1. n \in Nat /\ ExistsBijection(1..n, S)
  BY FS_CardinalityType
<1>2. PICK f \in [1..n -> S] : IsInjective(f)
  BY <1>1 DEF ExistsBijection, Bijection, Injection
<1>3. s \in [1..n -> S] /\ IsInjective(s)
  BY <1>2 DEF SetToSeq
<1> HIDE DEF s
<1>4. s \in Seq(S) /\ Len(s) = n
  BY <1>1, <1>3, IsASeq, LenProperties
<1>5. s \in Injection(1..n, S)
  BY <1>3 DEF Injection
<1>6. IsFiniteSet(1..n) /\ Cardinality(1..n) = n
  BY <1>1, FS_Interval
<1>7. s \in Surjection(1..n, S)
  BY <1>5, <1>6, FS_Injection
<1>8. ToSet(s) = S
  BY <1>3, <1>7 DEF Surjection, ToSet
<1>9. s \in Bijection(1..Len(s), S)
  BY <1>4, <1>5, <1>7 DEF Bijection
<1> QED BY <1>4, <1>8, <1>9 DEF s

-----------------------------------------------------------------------------
(* The bounded queues of the bus.                                          *)

\* A queue that keeps within its depth still does after publish_nowait, and the
\* number of drops is a natural number.
LEMMA AdmittedType ==
    ASSUME NEW S, NEW depth \in Nat, NEW queue \in Seq(S), Len(queue) <= depth,
           NEW events \in Seq(S)
    PROVE  /\ Admitted(queue, events, depth) \in Seq(S)
           /\ Len(Admitted(queue, events, depth)) <= depth
           /\ Shed(queue, events, depth) \in Nat
<1> DEFINE all == queue \o events
<1>1. all \in Seq(S) /\ Len(all) = Len(queue) + Len(events)
  BY ConcatProperties
<1>2. Shed(queue, events, depth) \in Nat
  BY LenProperties DEF Shed
<1>3. CASE Len(all) <= depth
  BY <1>1, <1>2, <1>3 DEF Admitted
<1>4. CASE ~(Len(all) <= depth)
  <2>1. SubSeq(all, 1, depth) \in Seq(S) /\ Len(SubSeq(all, 1, depth)) = depth
    BY <1>1, <1>4, SubSeqProperties, LenProperties
  <2> QED BY <1>2, <1>4, <2>1 DEF Admitted
<1> QED BY <1>3, <1>4

\* What waits in the queue stays where it is.
LEMMA AdmittedKeeps ==
    ASSUME NEW S, NEW depth \in Nat, NEW queue \in Seq(S), Len(queue) <= depth,
           NEW events \in Seq(S)
    PROVE  /\ Len(queue) <= Len(Admitted(queue, events, depth))
           /\ \A i \in 1..Len(queue) : Admitted(queue, events, depth)[i] = queue[i]
<1> DEFINE all == queue \o events
<1>1. all \in Seq(S) /\ Len(all) = Len(queue) + Len(events)
      /\ \A i \in 1..Len(queue) : all[i] = queue[i]
  BY ConcatProperties, LenProperties
<1>2. CASE Len(all) <= depth
  BY <1>1, <1>2, LenProperties DEF Admitted
<1>3. CASE ~(Len(all) <= depth)
  <2>1. Len(SubSeq(all, 1, depth)) = depth
        /\ \A i \in 1..depth : SubSeq(all, 1, depth)[i] = all[i]
    BY <1>1, <1>3, SubSeqProperties, LenProperties
  <2> QED BY <1>1, <1>3, <2>1, LenProperties DEF Admitted
<1> QED BY <1>2, <1>3

\* When no drop is counted, every event has been taken.
LEMMA AdmittedWhole ==
    ASSUME NEW S, NEW depth \in Nat, NEW queue \in Seq(S), NEW events \in Seq(S),
           Shed(queue, events, depth) = 0
    PROVE  /\ Admitted(queue, events, depth) = queue \o events
           /\ Admitted(queue, events, depth) \in Seq(S)
BY ConcatProperties, LenProperties DEF Admitted, Shed
=============================================================================
