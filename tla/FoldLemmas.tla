------------------------------ MODULE FoldLemmas ------------------------------
(***************************************************************************)
(* Sums over finite sets and folds of sequences, as the models use them.   *)
(* A sum takes one weight from every element; a fold takes one step for    *)
(* every element, in order.                                                *)
(***************************************************************************)
EXTENDS Integers, Sequences, FiniteSets, SequencesExt, FiniteSetTheorems, TLAPS

CONSTANTS
    Weight(_, _),  \* Weight(p, x): what x adds to a sum, in the state p
    Step(_, _, _)  \* Step(p, a, x): what x makes of a, in the state p

Sum(p, S) == MapThenSumSet(LAMBDA x : Weight(p, x), S)

\* The equation of the sum, for the whole set D = SUBSET S at once.
Rest(S) == S \ {CHOOSE x \in S : TRUE}

SumValue(p, f, S) ==
    IF S = {} THEN 0 ELSE Weight(p, CHOOSE x \in S : TRUE) + f[Rest(S)]

SumRank(p, S) == Cardinality(S)

Summing == INSTANCE RecursionTheorems WITH Value <- SumValue, Rank <- SumRank

\* A set of finite sets has a least element, for the inductions below.
LEMMA SmallestPart ==
  ASSUME NEW S, IsFiniteSet(S), NEW T, T \subseteq SUBSET S, T # {}
  PROVE  \E x \in T : \A y \in T : y \subseteq x => y = x
  BY Summing!SmallestSet DEF IsFiniteSet, Summing!IsFiniteSet

LEMMA SumIsRecursive ==
  ASSUME NEW p, NEW S, IsFiniteSet(S)
  PROVE  Summing!Recursive(p, SUBSET S)
  <1>1. \A x \in SUBSET S : IsFiniteSet(x) /\ SumRank(p, x) \in Nat
    BY FS_Subset, FS_CardinalityType DEF SumRank
  <1>2. ASSUME NEW x \in SUBSET S, x # {}
        PROVE  Rest(x) \in SUBSET S /\ SumRank(p, Rest(x)) < SumRank(p, x)
    <2>1. (CHOOSE y \in x : TRUE) \in x
      BY <1>2
    <2>2. Rest(x) = x \ {CHOOSE y \in x : TRUE}
      BY DEF Rest
    <2>3. Cardinality(Rest(x)) = Cardinality(x) - 1
      BY <1>1, <2>1, <2>2, FS_RemoveElement
    <2>4. QED
      BY <1>1, <2>2, <2>3 DEF SumRank
  <1>3. QED
    BY <1>1, <1>2 DEF Summing!Recursive, SumValue

LEMMA SumIsSolution ==
  ASSUME NEW p, NEW S
  PROVE  Sum(p, S) = Summing!Solution(p, SUBSET S)[S]
  BY DEF Sum, MapThenSumSet, MapThenFoldSet, Summing!Solution, SumValue, Rest

\* A part of the set is summed on the way.
LEMMA SumOfPart ==
  ASSUME NEW p, NEW S, IsFiniteSet(S), NEW T \in SUBSET S
  PROVE  Summing!Solution(p, SUBSET S)[T] = Sum(p, T)
  <1> DEFINE f == Summing!Solution(p, SUBSET S)
             g == Summing!Solution(p, SUBSET T)
  <1>1. IsFiniteSet(T)
    BY FS_Subset
  <1>2. Summing!Recursive(p, SUBSET S) /\ Summing!Recursive(p, SUBSET T)
    BY <1>1, SumIsRecursive
  <1>3. \A x \in SUBSET S : f[x] = SumValue(p, f, x)
    BY <1>2, Summing!RecursiveFunction
  <1>4. \A x \in SUBSET T : g[x] = SumValue(p, g, x)
    BY <1>2, Summing!RecursiveFunction
  <1> HIDE DEF f, g
  <1>5. \A x \in SUBSET T : f[x] = SumValue(p, f, x) /\ g[x] = SumValue(p, g, x)
    BY <1>3, <1>4
  <1>6. \A x \in SUBSET T : f[x] = g[x]
    BY <1>2, <1>5, Summing!RecursiveFunction
  <1>7. QED
    BY <1>6, SumIsSolution DEF f, g

\* A sum of nothing is zero, and another takes its elements one at a time.
LEMMA SumStep ==
  ASSUME NEW p, NEW S, IsFiniteSet(S)
  PROVE  Sum(p, S) = IF S = {} THEN 0
                     ELSE Weight(p, CHOOSE x \in S : TRUE) + Sum(p, Rest(S))
  <1> DEFINE f == Summing!Solution(p, SUBSET S)
  <1>1. \A x \in SUBSET S : f[x] = SumValue(p, f, x)
    BY SumIsRecursive, Summing!RecursiveFunction
  <1>2. f[S] = Sum(p, S)
    BY SumIsSolution
  <1>3. f[Rest(S)] = Sum(p, Rest(S))
    BY SumOfPart DEF Rest
  <1> HIDE DEF f
  <1>4. f[S] = SumValue(p, f, S)
    BY <1>1
  <1>5. QED
    BY <1>2, <1>3, <1>4 DEF SumValue

LEMMA SumEmpty == \A p : Sum(p, {}) = 0
  BY SumStep, FS_EmptySet

\* The order does not matter.
LEMMA SumRemove ==
  ASSUME NEW p, NEW S, IsFiniteSet(S), \A x \in S : Weight(p, x) \in Int
  PROVE  /\ Sum(p, S) \in Int
         /\ \A a \in S : Sum(p, S) = Weight(p, a) + Sum(p, S \ {a})
  <1> DEFINE Good(U) == /\ Sum(p, U) \in Int
                        /\ \A a \in U : Sum(p, U) = Weight(p, a) + Sum(p, U \ {a})
             Bad == {U \in SUBSET S : ~ Good(U)}
  <1>1. SUFFICES ASSUME Bad # {} PROVE FALSE
    OBVIOUS
  <1>2. Bad \subseteq SUBSET S
    OBVIOUS
  <1>3. PICK U \in Bad : \A V \in Bad : V \subseteq U => V = U
    <2> HIDE DEF Bad
    <2>1. QED
      BY <1>1, <1>2, SmallestPart
  <1>4. \A V \in SUBSET U : V # U => Good(V)
    <2> HIDE DEF Good
    <2>1. QED
      BY <1>2, <1>3
  <1>5. IsFiniteSet(U) /\ U \in SUBSET S
    BY <1>3, FS_Subset
  <1>6. U # {}
    <2>1. Good({})
      BY SumEmpty
    <2>2. QED
      BY <1>3, <2>1
  <1> DEFINE c == CHOOSE x \in U : TRUE
  <1>7. c \in U
    BY <1>6
  <1>8. Sum(p, U) = Weight(p, c) + Sum(p, U \ {c})
    BY <1>5, <1>6, SumStep DEF Rest
  <1> HIDE DEF c
  <1>9. Sum(p, U \ {c}) \in Int /\ Sum(p, U) \in Int
    BY <1>4, <1>5, <1>7, <1>8
  <1>10. ASSUME NEW a \in U, a # c
         PROVE  Sum(p, U) = Weight(p, a) + Sum(p, U \ {a})
    <2>1. Sum(p, U \ {c}) = Weight(p, a) + Sum(p, (U \ {c}) \ {a})
      BY <1>4, <1>7, <1>10
    <2>2. Sum(p, U \ {a}) = Weight(p, c) + Sum(p, (U \ {a}) \ {c})
      BY <1>4, <1>7, <1>10
    <2>3. (U \ {c}) \ {a} = (U \ {a}) \ {c}
      OBVIOUS
    <2> DEFINE rest == Sum(p, (U \ {a}) \ {c})
    <2>4. rest \in Int
      BY <1>4, <1>7
    <2>5. Weight(p, a) \in Int /\ Weight(p, c) \in Int
      BY <1>5, <1>7
    <2>6. Sum(p, U \ {c}) = Weight(p, a) + rest
      BY <2>1, <2>3
    <2>7. Sum(p, U \ {a}) = Weight(p, c) + rest
      BY <2>2
    <2> HIDE DEF rest
    <2>8. QED
      BY <1>8, <2>4, <2>5, <2>6, <2>7
  <1>11. Good(U)
    BY <1>8, <1>9, <1>10
  <1>12. QED
    BY <1>3, <1>11

\* A smaller set, or smaller weights, make a smaller sum.
LEMMA SumMonotone ==
  ASSUME NEW p, NEW q, NEW S, IsFiniteSet(S), NEW T \in SUBSET S,
         \A x \in S : Weight(q, x) \in Nat,
         \A x \in T : Weight(p, x) \in Int /\ Weight(p, x) <= Weight(q, x)
  PROVE  Sum(p, T) \in Int /\ Sum(q, S) \in Nat /\ Sum(p, T) <= Sum(q, S)
  <1> DEFINE Good(U) == Sum(q, U) \in Nat /\ Sum(p, U \cap T) <= Sum(q, U)
             Bad == {U \in SUBSET S : ~ Good(U)}
  <1>1. Bad = {}
    <2>1. SUFFICES ASSUME Bad # {} PROVE FALSE
      OBVIOUS
    <2>2. Bad \subseteq SUBSET S
      OBVIOUS
    <2>3. PICK U \in Bad : \A V \in Bad : V \subseteq U => V = U
      <3> HIDE DEF Bad
      <3>1. QED
        BY <2>1, <2>2, SmallestPart
    <2>4. IsFiniteSet(U) /\ U \in SUBSET S
      BY <2>3, FS_Subset
    <2>5. U # {}
      <3>1. {} \cap T = {}
        OBVIOUS
      <3>2. Good({})
        BY <3>1, SumEmpty
      <3>3. QED
        BY <2>3, <3>2
    <2>6. PICK a \in U : TRUE
      BY <2>5
    <2>7. Good(U \ {a})
      <3> HIDE DEF Good
      <3>1. QED
        BY <2>2, <2>3, <2>6
    <2>8. Sum(q, U) = Weight(q, a) + Sum(q, U \ {a}) /\ Weight(q, a) \in Nat
      BY <2>4, <2>6, SumRemove
    <2>9. Sum(q, U) \in Nat
      BY <2>7, <2>8
    <2>10. Sum(p, U \cap T) <= Sum(q, U)
      <3>1. CASE a \in T
        <4>1. IsFiniteSet(U \cap T)
          BY <2>4, FS_Subset
        <4>2. /\ Sum(p, U \cap T) = Weight(p, a) + Sum(p, (U \cap T) \ {a})
              /\ Sum(p, (U \cap T) \ {a}) \in Int
              /\ Sum(p, U \cap T) \in Int
          <5>1. \A x \in U \cap T : Weight(p, x) \in Int
            OBVIOUS
          <5>2. IsFiniteSet((U \cap T) \ {a})
            BY <4>1, FS_Subset
          <5>3. a \in U \cap T
            BY <2>6, <3>1
          <5>4. QED
            BY <4>1, <5>1, <5>2, <5>3, SumRemove
        <4>3. (U \cap T) \ {a} = (U \ {a}) \cap T
          OBVIOUS
        <4>4. Weight(p, a) \in Int /\ Weight(p, a) <= Weight(q, a)
          BY <3>1
        <4>5. Sum(p, U \cap T) = Weight(p, a) + Sum(p, (U \ {a}) \cap T)
          BY <4>2, <4>3
        <4>6. Sum(p, (U \ {a}) \cap T) \in Int
          BY <4>2, <4>3
        <4>7. Sum(p, (U \ {a}) \cap T) <= Sum(q, U \ {a}) /\ Sum(q, U \ {a}) \in Nat
          BY <2>7
        <4>8. QED
          BY <2>8, <4>4, <4>5, <4>6, <4>7
      <3>2. CASE a \notin T
        <4>1. U \cap T = (U \ {a}) \cap T
          BY <3>2
        <4>2. IsFiniteSet((U \ {a}) \cap T)
          BY <2>4, FS_Subset
        <4>3. Sum(p, (U \ {a}) \cap T) \in Int
          BY <4>2, SumRemove
        <4>4. Sum(p, U \cap T) = Sum(p, (U \ {a}) \cap T)
          BY <4>1
        <4>5. Sum(p, (U \ {a}) \cap T) <= Sum(q, U \ {a}) /\ Sum(q, U \ {a}) \in Nat
          BY <2>7
        <4>6. QED
          BY <2>8, <4>3, <4>4, <4>5
      <3>3. QED
        BY <3>1, <3>2
    <2>11. QED
      BY <2>3, <2>9, <2>10
  <1>2. Good(S)
    BY <1>1
  <1>3. S \cap T = T /\ IsFiniteSet(T)
    BY FS_Subset
  <1>4. Sum(p, T) \in Int
    BY <1>3, SumRemove
  <1>5. QED
    BY <1>2, <1>3, <1>4

\* A sum depends on the weights alone.
LEMMA SumCongruent ==
  ASSUME NEW p, NEW q, NEW S, IsFiniteSet(S),
         \A x \in S : Weight(p, x) \in Nat /\ Weight(p, x) = Weight(q, x)
  PROVE  Sum(p, S) = Sum(q, S)
  <1>1. Sum(p, S) <= Sum(q, S) /\ Sum(p, S) \in Int
    BY SumMonotone
  <1>2. Sum(q, S) <= Sum(p, S) /\ Sum(q, S) \in Int
    BY SumMonotone
  <1>3. QED
    BY <1>1, <1>2

\* A sum of at most L from each element.
LEMMA SumBounded ==
  ASSUME NEW p, NEW S, IsFiniteSet(S), NEW L \in Nat,
         \A x \in S : Weight(p, x) \in Nat /\ Weight(p, x) <= L
  PROVE  Sum(p, S) \in Nat /\ Sum(p, S) <= Cardinality(S) * L
  <1> DEFINE Good(U) == Sum(p, U) \in Nat /\ Sum(p, U) <= Cardinality(U) * L
             Bad == {U \in SUBSET S : ~ Good(U)}
  <1>1. SUFFICES ASSUME Bad # {} PROVE FALSE
    OBVIOUS
  <1>2. Bad \subseteq SUBSET S
    OBVIOUS
  <1>3. PICK U \in Bad : \A V \in Bad : V \subseteq U => V = U
    <2> HIDE DEF Bad
    <2>1. QED
      BY <1>1, <1>2, SmallestPart
  <1>4. IsFiniteSet(U) /\ U \in SUBSET S
    BY <1>3, FS_Subset
  <1>5. U # {}
    <2>1. Cardinality({}) = 0
      BY FS_EmptySet
    <2>2. Good({})
      BY <2>1, SumEmpty
    <2>3. QED
      BY <1>3, <2>2
  <1>6. PICK a \in U : TRUE
    BY <1>5
  <1>7. Good(U \ {a})
    <2> HIDE DEF Good
    <2>1. QED
      BY <1>2, <1>3, <1>6
  <1>8. Sum(p, U) = Weight(p, a) + Sum(p, U \ {a}) /\ Weight(p, a) \in Nat /\ Weight(p, a) <= L
    BY <1>4, <1>6, SumRemove
  <1>9. Cardinality(U \ {a}) = Cardinality(U) - 1 /\ Cardinality(U) \in Nat
    BY <1>4, <1>6, FS_RemoveElement, FS_CardinalityType
  <1>10. \A n \in Int : (n - 1) * L = n * L - L /\ n * L \in Int
    OBVIOUS
  <1>11. /\ Cardinality(U \ {a}) * L = Cardinality(U) * L - L
         /\ Cardinality(U) * L \in Int
    BY <1>9, <1>10
  <1>12. Good(U)
    BY <1>7, <1>8, <1>11
  <1>13. QED
    BY <1>3, <1>12

\* As many elements as there are in the classes they are divided into.
LEMMA SumOfClasses ==
  ASSUME NEW p, NEW K, IsFiniteSet(K), NEW S, IsFiniteSet(S), NEW class,
         \A k \in K : Weight(p, k) = Cardinality({x \in S : class[x] = k})
  PROVE  Sum(p, K) = Cardinality({x \in S : class[x] \in K})
  <1> DEFINE Of(k) == {x \in S : class[x] = k}
             In(U) == {x \in S : class[x] \in U}
             Good(U) == Sum(p, U) = Cardinality(In(U))
             Bad == {U \in SUBSET K : ~ Good(U)}
  <1>1. SUFFICES ASSUME Bad # {} PROVE FALSE
    OBVIOUS
  <1>2. Bad \subseteq SUBSET K
    OBVIOUS
  <1>3. PICK U \in Bad : \A V \in Bad : V \subseteq U => V = U
    <2> HIDE DEF Bad
    <2>1. QED
      BY <1>1, <1>2, SmallestPart
  <1>4. IsFiniteSet(U) /\ U \in SUBSET K
    BY <1>3, FS_Subset
  <1>5. U # {}
    <2>1. In({}) = {}
      OBVIOUS
    <2>2. Good({})
      BY <2>1, SumEmpty, FS_EmptySet
    <2>3. QED
      BY <1>3, <2>2
  <1>6. PICK k \in U : TRUE
    BY <1>5
  <1>7. Good(U \ {k})
    <2> HIDE DEF Good
    <2>1. QED
      BY <1>2, <1>3, <1>6
  <1>8. \A V \in SUBSET S : IsFiniteSet(V) /\ Cardinality(V) \in Nat
    BY FS_Subset, FS_CardinalityType
  <1>9. In(U) \in SUBSET S /\ Of(k) \in SUBSET S /\ In(U \ {k}) \in SUBSET S
    OBVIOUS
  <1>10. In(U) = Of(k) \cup In(U \ {k}) /\ Of(k) \cap In(U \ {k}) = {}
    BY <1>6
  <1>11. Weight(p, k) = Cardinality(Of(k))
    BY <1>4, <1>6
  <1>12. Sum(p, U) = Weight(p, k) + Sum(p, U \ {k})
    <2>1. \A x \in U : Of(x) \in SUBSET S /\ Weight(p, x) = Cardinality(Of(x))
      BY <1>4
    <2> HIDE DEF Of
    <2>2. \A x \in U : Weight(p, x) \in Int
      BY <1>8, <2>1
    <2>3. QED
      BY <1>4, <1>6, <2>2, SumRemove
  <1> HIDE DEF In, Of
  <1>13. Cardinality(In(U)) = Cardinality(Of(k)) + Cardinality(In(U \ {k}))
    <2> DEFINE A == Of(k)
               B == In(U \ {k})
    <2>1. IsFiniteSet(A) /\ IsFiniteSet(B) /\ A \cap B = {}
      BY <1>8, <1>9, <1>10
    <2> HIDE DEF A, B
    <2>2. Cardinality(A \cup B) = Cardinality(A) + Cardinality(B)
      <3>1. Cardinality(A \cap B) = 0
        BY <2>1, FS_EmptySet
      <3>2. QED
        <4>1. Cardinality(A \cup B) = Cardinality(A) + Cardinality(B) - Cardinality(A \cap B)
          BY <2>1, FS_Union
        <4>2. Cardinality(A) \in Nat /\ Cardinality(B) \in Nat
          BY <2>1, FS_CardinalityType
        <4>3. QED
          BY <3>1, <4>1, <4>2
    <2>3. QED
      BY <1>10, <2>2 DEF A, B
  <1>14. Good(U)
    BY <1>7, <1>11, <1>12, <1>13
  <1>15. QED
    BY <1>3, <1>14

-----------------------------------------------------------------------------
(***************************************************************************)
(* Folds.                                                                  *)
(***************************************************************************)

Fold(p, base, seq) == FoldLeft(LAMBDA a, x : Step(p, a, x), base, seq)

FoldValue(q, f, S) ==
    IF S = {} THEN q.base ELSE Step(q.param, f[S \ {Max(S)}], q.seq[Max(S)])

FoldRank(q, S) == Cardinality(S)

Folding == INSTANCE RecursionTheorems WITH Value <- FoldValue, Rank <- FoldRank

LEMMA MaxOfInterval ==
  ASSUME NEW n \in Nat, n > 0
  PROVE  Max(1 .. n) = n /\ (1 .. n) \ {n} = 1 .. n - 1
  BY DEF Max

\* The largest element of a set of numbers, if there are finitely many.
LEMMA MaxIsMember ==
  ASSUME NEW S, S \subseteq Int, S # {}, IsFiniteSet(S)
  PROVE  Max(S) \in S
  <1>1. \E x \in S : \A y \in S : x >= y
    <2> DEFINE Above(x) == {y \in S : y >= x}
               T == {Above(x) : x \in S}
    <2>1. T \subseteq SUBSET S /\ T # {}
      OBVIOUS
    <2>2. PICK A \in T : \A B \in T : B \subseteq A => B = A
      <3>1. IsFiniteSet(S)
        OBVIOUS
      <3> HIDE DEF T
      <3>2. QED
        BY ONLY <2>1, <3>1, SmallestPart
    <2>3. PICK x \in S : A = Above(x)
      BY <2>2
    <2> HIDE DEF T
    <2>4. ASSUME NEW y \in S, ~ (x >= y)
          PROVE  FALSE
      <3>1. x \in Int /\ y \in Int /\ x < y
        BY <2>4
      <3>2. Above(y) \in T
        BY DEF T
      <3>3. Above(y) \subseteq A
        <4>1. ASSUME NEW z \in S, z >= y
              PROVE  z >= x
          BY <3>1, <4>1
        <4>2. QED
          BY <2>3, <4>1
      <3>4. Above(y) = A
        BY <2>2, <3>2, <3>3
      <3>5. x \in Above(y)
        BY <2>3, <3>1, <3>4
      <3>6. QED
        BY <3>1, <3>5
    <2>5. QED
      BY <2>4
  <1>2. QED
    BY <1>1 DEF Max

LEMMA FoldIsRecursive ==
  ASSUME NEW q, NEW n \in Nat
  PROVE  Folding!Recursive(q, SUBSET (1 .. n))
  <1>1. \A x \in SUBSET (1 .. n) : IsFiniteSet(x) /\ FoldRank(q, x) \in Nat
    <2> DEFINE I == 1 .. n
    <2>1. IsFiniteSet(I)
      BY FS_Interval
    <2> HIDE DEF I
    <2>2. \A x \in SUBSET I : IsFiniteSet(x)
      BY <2>1, FS_Subset
    <2>3. QED
      BY <2>2, FS_CardinalityType DEF FoldRank, I
  <1>2. ASSUME NEW x \in SUBSET (1 .. n), x # {}
        PROVE  /\ x \ {Max(x)} \in SUBSET (1 .. n)
               /\ FoldRank(q, x \ {Max(x)}) < FoldRank(q, x)
    <2>1. IsFiniteSet(x) /\ x \subseteq Int
      BY <1>1
    <2>2. Max(x) \in x
      BY <1>2, <2>1, MaxIsMember
    <2>3. Cardinality(x \ {Max(x)}) = Cardinality(x) - 1 /\ Cardinality(x) \in Nat
      BY <2>1, <2>2, FS_RemoveElement, FS_CardinalityType
    <2>4. FoldRank(q, x \ {Max(x)}) < FoldRank(q, x)
      BY <2>3 DEF FoldRank
    <2>5. QED
      BY <2>4
  <1>3. QED
    BY <1>1, <1>2 DEF Folding!Recursive, FoldValue

\* The values of a fold after none, one, two, ... of its steps.
ChainOf(p, base, seq, n, h) ==
    /\ h[0] = base
    /\ \A k \in 1 .. n : h[k] = Step(p, h[k - 1], seq[k])
    /\ h[n] = Fold(p, base, seq)

\* A fold is the last of a chain of values, each a step from the one before.
LEMMA FoldIsChain ==
  ASSUME NEW p, NEW base, NEW seq, NEW n \in Nat, DOMAIN seq = 1 .. n
  PROVE  \E h : ChainOf(p, base, seq, n, h)
  <1> DEFINE q == [param |-> p, base |-> base, seq |-> seq]
             f == Folding!Solution(q, SUBSET (1 .. n))
             h == [k \in 0 .. n |-> f[1 .. k]]
  <1>1. \A x \in SUBSET (1 .. n) : f[x] = FoldValue(q, f, x)
    <2> DEFINE D == SUBSET (1 .. n)
    <2>1. Folding!Recursive(q, D)
      BY FoldIsRecursive
    <2> HIDE DEF q, D
    <2>2. \A x \in D : Folding!Solution(q, D)[x] = FoldValue(q, Folding!Solution(q, D), x)
      BY <2>1, Folding!RecursiveFunction
    <2>3. QED
      BY <2>2 DEF D
  <1>2. f[1 .. n] = Fold(p, base, seq)
    BY DEF Fold, FoldLeft, MapThenFoldSet, Folding!Solution, FoldValue
  <1>3. q.param = p /\ q.base = base /\ q.seq = seq
    OBVIOUS
  <1> HIDE DEF f, q
  <1>4. h[0] = base
    <2>1. 1 .. 0 = {} /\ 0 \in 0 .. n
      OBVIOUS
    <2>2. QED
      BY <1>1, <1>3, <2>1 DEF FoldValue
  <1>5. ASSUME NEW k \in 1 .. n
        PROVE  h[k] = Step(p, h[k - 1], seq[k])
    <2>1. 1 .. k \in SUBSET (1 .. n) /\ 1 .. k # {}
      <3>1. 1 .. k \subseteq 1 .. n /\ k \in 1 .. k
        OBVIOUS
      <3>2. QED
        BY <3>1
    <2>2. Max(1 .. k) = k /\ (1 .. k) \ {k} = 1 .. k - 1
      BY MaxOfInterval
    <2>3. h[k] = f[1 .. k] /\ h[k - 1] = f[1 .. k - 1]
      OBVIOUS
    <2> HIDE DEF h
    <2>4. f[1 .. k] = FoldValue(q, f, 1 .. k)
      BY <1>1, <2>1
    <2>5. QED
      BY <1>3, <2>1, <2>2, <2>3, <2>4 DEF FoldValue
  <1>6. h[n] = f[1 .. n]
    OBVIOUS
  <1>7. ChainOf(p, base, seq, n, h)
    <2> HIDE DEF h
    <2>1. QED
      BY <1>2, <1>4, <1>5, <1>6 DEF ChainOf
  <1>8. QED
    BY <1>7

=============================================================================
