--------------------------- MODULE RecursionTheorems ---------------------------
(***************************************************************************)
(* Induction and recursion for the proofs of this project.  The provers    *)
(* cannot apply a theorem that takes an operator as a parameter, but they  *)
(* can apply one of an instantiated module, and least elements of sets do  *)
(* for an induction.  So a recursive function of a model is reasoned about *)
(* by an instance of this module that has its equation as Value.           *)
(***************************************************************************)
EXTENDS Integers, FiniteSets, FiniteSetTheorems, TLAPS

CONSTANTS
    Value(_, _, _), \* Value(p, f, x): f[x] by the equation, for the parameter p
    Rank(_, _)      \* Rank(p, x): how far the recursion goes from x, at most

\* A set of finite sets has a least element.
LEMMA SmallestSet ==
  ASSUME NEW S, IsFiniteSet(S), NEW T, T \subseteq SUBSET S, T # {}
  PROVE  \E x \in T : \A y \in T : y \subseteq x => y = x
  <1> DEFINE R == StrictSubsetOrdering(S)
             D == FiniteSubsetsOf(S)
  <1>1. IsWellFoundedOn(R, D)
    BY FS_StrictSubsetOrderingWellFounded
  <1>2. T \subseteq D
    BY FS_Subset DEF FiniteSubsetsOf
  <1>3. \A x \in T, y \in T : y \subseteq x /\ y # x => <<y, x>> \in R
    BY DEF StrictSubsetOrdering
  <1> HIDE DEF R, D
  <1>4. PICK x \in T : \A y \in T : ~ (<<y, x>> \in R)
    BY <1>1, <1>2, WFMin
  <1>5. QED
    BY <1>3, <1>4

\* A set of natural numbers has a least element.
LEMMA SmallestNumber ==
  ASSUME NEW T, T \subseteq Nat, T # {}
  PROVE  \E n \in T : \A m \in T : n <= m
  <1>1. PICK k \in T : TRUE
    OBVIOUS
  <1>2. k \in Nat
    OBVIOUS
  <1> DEFINE U == {0 .. n : n \in {m \in T : m <= k}}
  <1>3. U \subseteq SUBSET (0 .. k)
    BY <1>2
  <1>4. 0 .. k \in U
    BY <1>2
  <1>5. IsFiniteSet(0 .. k)
    BY <1>2, FS_Interval
  <1>6. PICK x \in U : \A y \in U : y \subseteq x => y = x
    <2> DEFINE I == 0 .. k
    <2>1. U \subseteq SUBSET I /\ U # {} /\ IsFiniteSet(I)
      BY <1>3, <1>4, <1>5
    <2> HIDE DEF U, I
    <2>2. QED
      BY <2>1, SmallestSet
  <1>7. PICK n \in T : n <= k /\ x = 0 .. n
    OBVIOUS
  <1>8. ASSUME NEW m \in T, ~ (n <= m)
        PROVE  FALSE
    <2>1. m \in Nat /\ n \in Nat /\ m < n
      BY <1>8
    <2>2. 0 .. m \in U /\ 0 .. m \subseteq x
      BY <1>2, <1>7, <2>1
    <2>3. 0 .. m = x
      BY <1>6, <2>2
    <2>4. n \in 0 .. m
      BY <1>7, <2>1, <2>3
    <2>5. QED
      BY <2>1, <2>4
  <1>9. QED
    BY <1>8

\* Some counterexample has a least rank.
LEMMA SmallestRank ==
  ASSUME NEW p, NEW D, \A x \in D : Rank(p, x) \in Nat, D # {}
  PROVE  \E x \in D : \A y \in D : Rank(p, x) <= Rank(p, y)
  <1> DEFINE T == {Rank(p, x) : x \in D}
  <1>1. T \subseteq Nat /\ T # {}
    OBVIOUS
  <1>2. PICK n \in T : \A m \in T : n <= m
    <2> HIDE DEF T
    <2>1. QED
      BY <1>1, SmallestNumber
  <1>3. QED
    BY <1>2

\* The equation looks only at values of lower rank.
Recursive(p, D) ==
    /\ \A x \in D : Rank(p, x) \in Nat
    /\ \A x \in D : \A g, h :
          (\A y \in D : Rank(p, y) < Rank(p, x) => g[y] = h[y])
              => Value(p, g, x) = Value(p, h, x)

\* The function that the equation defines, as TLA+ defines it.
Solution(p, D) == CHOOSE f : f = [x \in D |-> Value(p, f, x)]

\* A part of it.
Solves(p, D, g, n) == \A x \in D : Rank(p, x) < n => g[x] = Value(p, g, x)

\* All solutions agree as far as they go.
LEMMA SolutionsAgree ==
  ASSUME NEW p, NEW D, Recursive(p, D), NEW g, NEW h, NEW m \in Nat, NEW n \in Nat,
         Solves(p, D, g, m), Solves(p, D, h, n), NEW z \in D,
         Rank(p, z) < m, Rank(p, z) < n
  PROVE  g[z] = h[z]
  <1> DEFINE T == {x \in D : Rank(p, x) < m /\ Rank(p, x) < n /\ g[x] # h[x]}
  <1>1. SUFFICES ASSUME T # {} PROVE FALSE
    OBVIOUS
  <1>2. \A x \in T : Rank(p, x) \in Nat
    BY DEF Recursive
  <1>3. PICK x \in T : \A y \in T : Rank(p, x) <= Rank(p, y)
    <2> HIDE DEF T
    <2>1. QED
      BY <1>1, <1>2, SmallestRank
  <1>4. \A y \in D : Rank(p, y) < Rank(p, x) => g[y] = h[y]
    <2> SUFFICES ASSUME NEW y \in D, Rank(p, y) < Rank(p, x), y \notin T
                 PROVE  g[y] = h[y]
      BY <1>2, <1>3 DEF Recursive
    <2>1. Rank(p, y) \in Nat /\ Rank(p, x) \in Nat
      BY <1>2 DEF Recursive
    <2>2. QED
      BY <2>1
  <1>5. Value(p, g, x) = Value(p, h, x)
    BY <1>4 DEF Recursive
  <1>6. QED
    BY <1>5 DEF Solves

\* There are solutions as far as one likes.
LEMMA SolutionsExist ==
  ASSUME NEW p, NEW D, Recursive(p, D), NEW n \in Nat
  PROVE  \E g : Solves(p, D, g, n)
  <1> DEFINE T == {k \in Nat : ~ \E g : Solves(p, D, g, k)}
  <1>1. SUFFICES ASSUME T # {} PROVE FALSE
    OBVIOUS
  <1>2. PICK k \in T : \A m \in T : k <= m
    <2>1. T \subseteq Nat
      OBVIOUS
    <2> HIDE DEF T
    <2>2. QED
      BY <1>1, <2>1, SmallestNumber
  <1>3. k # 0
    <2>1. \A g : Solves(p, D, g, 0)
      BY DEF Solves, Recursive
    <2>2. QED
      BY <2>1
  <1>4. k - 1 \in Nat /\ k - 1 \notin T
    BY <1>2, <1>3
  <1>5. PICK g : Solves(p, D, g, k - 1)
    BY <1>4
  <1> DEFINE h == [x \in D |-> Value(p, g, x)]
  <1>6. \A y \in D : Rank(p, y) < k - 1 => h[y] = g[y]
    BY <1>5 DEF Solves
  <1>7. ASSUME NEW x \in D, Rank(p, x) < k
        PROVE  h[x] = Value(p, h, x)
    <2>1. \A y \in D : Rank(p, y) < Rank(p, x) => h[y] = g[y]
      <3> SUFFICES ASSUME NEW y \in D, Rank(p, y) < Rank(p, x)
                   PROVE  h[y] = g[y]
        OBVIOUS
      <3>1. Rank(p, y) < k - 1
        BY <1>2, <1>7 DEF Recursive
      <3>2. QED
        BY <1>6, <3>1
    <2>2. h[x] = Value(p, g, x)
      OBVIOUS
    <2> HIDE DEF h
    <2>3. Value(p, g, x) = Value(p, h, x)
      BY <2>1 DEF Recursive
    <2>4. QED
      BY <2>2, <2>3
  <1>8. Solves(p, D, h, k)
    BY <1>7 DEF Solves
  <1>9. QED
    BY <1>2, <1>8

\* A recursive function satisfies its equation, and no other one does.
LEMMA RecursiveFunction ==
  ASSUME NEW p, NEW D, Recursive(p, D)
  PROVE  /\ \A x \in D : Solution(p, D)[x] = Value(p, Solution(p, D), x)
         /\ \A f, g :
              (\A x \in D : f[x] = Value(p, f, x) /\ g[x] = Value(p, g, x))
                 => \A x \in D : f[x] = g[x]
  <1> DEFINE part(n) == CHOOSE g : Solves(p, D, g, n)
             f == [x \in D |-> part(Rank(p, x) + 1)[x]]
  <1>1. \A n \in Nat : Solves(p, D, part(n), n)
    BY SolutionsExist
  <1> HIDE DEF part
  <1>2. \A x \in D : Rank(p, x) \in Nat /\ Rank(p, x) + 1 \in Nat
    BY DEF Recursive
  <1>3. ASSUME NEW x \in D
        PROVE  f[x] = Value(p, f, x)
    <2>1. \A y \in D : Rank(p, y) < Rank(p, x) => f[y] = part(Rank(p, x) + 1)[y]
      <3> SUFFICES ASSUME NEW y \in D, Rank(p, y) < Rank(p, x)
                   PROVE  part(Rank(p, y) + 1)[y] = part(Rank(p, x) + 1)[y]
        OBVIOUS
      <3>1. /\ Solves(p, D, part(Rank(p, y) + 1), Rank(p, y) + 1)
            /\ Solves(p, D, part(Rank(p, x) + 1), Rank(p, x) + 1)
        BY <1>1, <1>2
      <3>2. Rank(p, y) < Rank(p, y) + 1 /\ Rank(p, y) < Rank(p, x) + 1
        BY <1>2
      <3>3. QED
        BY <1>2, <3>1, <3>2, SolutionsAgree
    <2>2. f[x] = part(Rank(p, x) + 1)[x]
      OBVIOUS
    <2> HIDE DEF f
    <2>3. Value(p, f, x) = Value(p, part(Rank(p, x) + 1), x)
      BY <2>1 DEF Recursive
    <2>4. part(Rank(p, x) + 1)[x] = Value(p, part(Rank(p, x) + 1), x)
      BY <1>1, <1>2 DEF Solves
    <2>5. QED
      BY <2>2, <2>3, <2>4
  <1>4. f = [x \in D |-> Value(p, f, x)]
    <2>1. f = [x \in D |-> f[x]]
      OBVIOUS
    <2> HIDE DEF f
    <2>2. QED
      BY <1>3, <2>1
  <1> HIDE DEF f
  <1>5. \A x \in D : Solution(p, D)[x] = Value(p, Solution(p, D), x)
    <2>1. Solution(p, D) = [x \in D |-> Value(p, Solution(p, D), x)]
      BY <1>4 DEF Solution
    <2> DEFINE s == Solution(p, D)
    <2>2. s = [x \in D |-> Value(p, s, x)]
      BY <2>1
    <2> HIDE DEF s
    <2>3. \A x \in D : s[x] = Value(p, s, x)
      BY <2>2
    <2>4. QED
      BY <2>3 DEF s
  <1>6. ASSUME NEW g, NEW h, NEW z \in D,
               \A x \in D : g[x] = Value(p, g, x) /\ h[x] = Value(p, h, x)
        PROVE  g[z] = h[z]
    <2>1. \A n \in Nat : Solves(p, D, g, n) /\ Solves(p, D, h, n)
      BY <1>6 DEF Solves
    <2>2. Rank(p, z) < Rank(p, z) + 1
      BY <1>2
    <2>3. QED
      BY <1>2, <2>1, <2>2, SolutionsAgree
  <1>7. QED
    BY <1>5, <1>6

================================================================================
