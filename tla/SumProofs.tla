------------------------------- MODULE SumProofs -------------------------------
(***************************************************************************)
(* Finite sums: the ledgers and the reserved quantities of the stock       *)
(* service are sums over movements, workers and reservations, written with *)
(* SumFunction of the community module Functions.  That operator is a fold *)
(* over a function that is defined by recursion over the subsets of its    *)
(* indices; the lemmas show that the recursion has a solution, that the    *)
(* fold is its value, and from that how a sum changes when one term does.  *)
(***************************************************************************)
EXTENDS Integers, FiniteSets, Functions, FiniteSetTheorems, WellFoundedInduction, TLAPS

\* The element the fold takes first, and one round of its recursion.
Chosen(s) == CHOOSE x \in s : TRUE
SumStep(f, S, it) ==
  [s \in SUBSET S |-> IF s = {} THEN 0 ELSE f[Chosen(s)] + it[s \ {Chosen(s)}]]

(***************************************************************************)
(* Induction over numbers and finite sets, in the form of sets             *)
(***************************************************************************)

\* Every nonempty set of naturals has a least element.
LEMMA NatLeast ==
  ASSUME NEW N, N \subseteq Nat, N # {}
  PROVE  \E x \in N : \A y \in N : x <= y
  <1>1. PICK x \in N : \A y \in N : ~ (<<y, x>> \in OpToRel(<, Nat))
    BY NatLessThanWellFounded, WFMin
  <1>2. ASSUME NEW y \in N PROVE x <= y
    <2>1. x \in Nat /\ y \in Nat
      OBVIOUS
    <2>2. ~ (y < x)
      BY <1>1, <2>1 DEF OpToRel
    <2> QED
      BY <2>1, <2>2
  <1> QED
    BY <1>1, <1>2

\* A set with 0 that is closed under successor holds every number.
LEMMA NatInduct ==
  ASSUME NEW T, 0 \in T, \A n \in Nat : n \in T => n + 1 \in T
  PROVE  \A n \in Nat : n \in T
  <1> DEFINE N == {n \in Nat : n \notin T}
  <1> SUFFICES ASSUME N # {} PROVE FALSE
    OBVIOUS
  <1>1. N \subseteq Nat
    OBVIOUS
  <1> HIDE DEF N
  <1>2. PICK x \in N : \A y \in N : x <= y
    BY <1>1, NatLeast
  <1>3. x \in Nat /\ x \notin T /\ x # 0
    BY <1>2 DEF N
  <1>4. x - 1 \in Nat /\ ~ (x <= x - 1)
    BY <1>3
  <1>5. x - 1 \in T
    BY <1>2, <1>4 DEF N
  <1>6. (x - 1) + 1 \in T
    BY <1>4, <1>5
  <1> QED
    BY <1>3, <1>6

\* What holds of a subset as soon as it holds of all smaller ones holds of
\* every subset of a finite set.
LEMMA FiniteInduct ==
  ASSUME NEW S, IsFiniteSet(S), NEW C,
         \A T \in SUBSET S : (\A U \in SUBSET T : U # T => U \in C) => T \in C
  PROVE  \A T \in SUBSET S : T \in C
  <1> DEFINE N == {n \in Nat : \A T \in SUBSET S : Cardinality(T) <= n => T \in C}
  <1>1. \A T \in SUBSET S : IsFiniteSet(T) /\ Cardinality(T) \in Nat
    BY FS_Subset, FS_CardinalityType
  <1>2. \A T \in SUBSET S : \A U \in SUBSET T : U # T => Cardinality(U) < Cardinality(T)
    <2> TAKE T \in SUBSET S
    <2> TAKE U \in SUBSET T
    <2>1. /\ Cardinality(U) <= Cardinality(T)
          /\ Cardinality(T) = Cardinality(U) => T = U
      BY <1>1, FS_Subset
    <2>2. Cardinality(T) \in Nat /\ Cardinality(U) \in Nat
      BY <1>1
    <2> QED
      BY <2>1, <2>2
  <1>3. 0 \in N
    <2> SUFFICES ASSUME NEW T \in SUBSET S, Cardinality(T) <= 0 PROVE T \in C
      OBVIOUS
    <2>1. \A U \in SUBSET T : U = T
      <3> SUFFICES ASSUME NEW U \in SUBSET T, U # T PROVE FALSE
        OBVIOUS
      <3>1. /\ Cardinality(U) < Cardinality(T)
            /\ Cardinality(U) \in Nat /\ Cardinality(T) \in Nat
        BY <1>1, <1>2
      <3> QED
        BY <3>1
    <2> QED
      BY <2>1
  <1>4. ASSUME NEW n \in Nat, n \in N PROVE n + 1 \in N
    <2> SUFFICES ASSUME NEW T \in SUBSET S, Cardinality(T) <= n + 1 PROVE T \in C
      OBVIOUS
    <2>1. \A U \in SUBSET T : U # T => U \in C
      <3> SUFFICES ASSUME NEW U \in SUBSET T, U # T PROVE U \in C
        OBVIOUS
      <3>1. /\ Cardinality(U) < Cardinality(T)
            /\ Cardinality(U) \in Nat /\ Cardinality(T) \in Nat
        BY <1>1, <1>2
      <3>2. Cardinality(U) <= n /\ U \in SUBSET S
        BY <3>1
      <3> QED
        BY <1>4, <3>2
    <2> QED
      BY <2>1
  <1> HIDE DEF N
  <1>5. \A n \in Nat : n \in N
    BY <1>3, <1>4, NatInduct
  <1> SUFFICES ASSUME NEW T \in SUBSET S PROVE T \in C
    OBVIOUS
  <1>6. Cardinality(T) \in Nat /\ Cardinality(T) <= Cardinality(T)
    BY <1>1
  <1> QED
    BY <1>5, <1>6 DEF N

\* The sequences of values that start with base and go from one to the next by
\* step.
Runs(V, base, step, n) ==
  {f \in [0 .. n -> V] : f[0] = base /\ \A i \in 1 .. n : f[i] = step[<<i, f[i - 1]>>]}

\* A function of the first naturals may be defined by recursion.
LEMMA NatRecursion ==
  ASSUME NEW V, NEW base \in V, NEW step \in [Nat \X V -> V], NEW n \in Nat
  PROVE  Runs(V, base, step, n) # {}
  <1> DEFINE Solves(f, m) == f[0] = base /\ \A i \in 1 .. m : f[i] = step[<<i, f[i - 1]>>]
             T == {m \in Nat : \E f \in [0 .. m -> V] : Solves(f, m)}
  <1>1. 0 \in T
    <2> DEFINE f == [i \in 0 .. 0 |-> base]
    <2>1. f \in [0 .. 0 -> V] /\ f[0] = base
      OBVIOUS
    <2>2. 1 .. 0 = {}
      OBVIOUS
    <2>3. Solves(f, 0)
      BY <2>1, <2>2
    <2> HIDE DEF f, Solves
    <2> QED
      BY <2>1, <2>3
  <1>2. ASSUME NEW m \in Nat, m \in T PROVE m + 1 \in T
    <2>1. PICK f \in [0 .. m -> V] : Solves(f, m)
      BY <1>2
    <2> DEFINE g == [i \in 0 .. m + 1 |-> IF i = m + 1 THEN step[<<m + 1, f[m]>>] ELSE f[i]]
    <2>2. /\ step[<<m + 1, f[m]>>] \in V
          /\ \A i \in 0 .. m : f[i] \in V
      OBVIOUS
    <2>3. g \in [0 .. m + 1 -> V]
      BY <2>2
    <2>4. Solves(g, m + 1)
      <3>1. \A i \in 0 .. m : g[i] = f[i]
        OBVIOUS
      <3>2. g[m + 1] = step[<<m + 1, f[m]>>]
        OBVIOUS
      <3>3. g[0] = base
        BY <2>1, <3>1
      <3> SUFFICES ASSUME NEW i \in 1 .. m + 1 PROVE g[i] = step[<<i, g[i - 1]>>]
        BY <3>3
      <3> HIDE DEF g
      <3>4. CASE i = m + 1
        <4>1. i - 1 = m /\ m \in 0 .. m
          BY <3>4
        <4> QED
          BY <3>1, <3>2, <3>4, <4>1
      <3>5. CASE i # m + 1
        <4>1. i \in 1 .. m /\ i \in 0 .. m /\ i - 1 \in 0 .. m
          BY <3>5
        <4> QED
          BY <2>1, <3>1, <4>1
      <3> QED
        BY <3>4, <3>5
    <2> HIDE DEF g, Solves
    <2> QED
      BY <2>3, <2>4
  <1> HIDE DEF T
  <1>3. n \in T
    BY <1>1, <1>2, NatInduct
  <1> QED
    BY <1>3 DEF T, Runs

(***************************************************************************)
(* The fold is what its recursion says                                     *)
(***************************************************************************)

\* Two solutions of the recursion agree where their functions do.
LEMMA SolutionsAgree ==
  ASSUME NEW S, IsFiniteSet(S), NEW A, NEW B, S \subseteq A, S \subseteq B,
         NEW f, NEW g, \A x \in S : f[x] = g[x],
         NEW h, NEW k, h = SumStep(f, A, h), k = SumStep(g, B, k)
  PROVE  h[S] = k[S]
  <1> DEFINE C == {T \in SUBSET S : h[T] = k[T]}
  <1>1. ASSUME NEW T \in SUBSET S, \A U \in SUBSET T : U # T => U \in C
        PROVE  T \in C
    <2>1. /\ h[T] = IF T = {} THEN 0 ELSE f[Chosen(T)] + h[T \ {Chosen(T)}]
          /\ k[T] = IF T = {} THEN 0 ELSE g[Chosen(T)] + k[T \ {Chosen(T)}]
      <3>1. T \in SUBSET A /\ T \in SUBSET B
        OBVIOUS
      <3> QED
        BY <3>1 DEF SumStep
    <2>2. CASE T = {}
      BY <2>1, <2>2
    <2>3. CASE T # {}
      <3>1. Chosen(T) \in T
        BY <2>3 DEF Chosen
      <3>2. T \ {Chosen(T)} \in SUBSET T /\ T \ {Chosen(T)} # T
        BY <3>1
      <3> QED
        BY <1>1, <2>1, <2>3, <3>1, <3>2
    <2> QED
      BY <2>2, <2>3
  <1> HIDE DEF C
  <1>2. \A T \in SUBSET S : T \in C
    BY <1>1, FiniteInduct
  <1> QED
    BY <1>2 DEF C

\* If the recursion has a solution, the sum is its value.
LEMMA SumUnfolds ==
  ASSUME NEW S, IsFiniteSet(S), NEW f, NEW g, g = SumStep(f, S, g)
  PROVE  SumFunctionOnSet(f, S) = g[S]
  <1>1. PICK h : h = SumStep(f, S, h) /\ SumFunctionOnSet(f, S) = h[S]
    BY DEF SumFunctionOnSet, FoldFunctionOnSet, MapThenFoldSet, SumStep, Chosen
  <1> QED
    BY <1>1, SolutionsAgree

\* The recursion has a solution.
LEMMA SolutionExists ==
  ASSUME NEW S, IsFiniteSet(S), NEW f
  PROVE  \A T \in SUBSET S : \E g : g = SumStep(f, T, g)
  <1> DEFINE C == {T \in SUBSET S : \E g : g = SumStep(f, T, g)}
  <1>1. ASSUME NEW T \in SUBSET S, \A U \in SUBSET T : U # T => U \in C
        PROVE  T \in C
    <2> DEFINE g == [s \in SUBSET T |->
                       IF s = {} THEN 0 ELSE f[Chosen(s)] + SumFunctionOnSet(f, s \ {Chosen(s)})]
    <2>1. \A s \in SUBSET T : s # {} => /\ s \ {Chosen(s)} \in SUBSET T
                                        /\ s \ {Chosen(s)} # T
                                        /\ s \ {Chosen(s)} # s
      <3> SUFFICES ASSUME NEW s \in SUBSET T, s # {}
                   PROVE  s \ {Chosen(s)} # T /\ s \ {Chosen(s)} # s
        OBVIOUS
      <3>1. Chosen(s) \in s
        BY DEF Chosen
      <3> QED
        BY <3>1
    <2>2. \A u \in SUBSET T : u # T => SumFunctionOnSet(f, u) = g[u]
      <3> SUFFICES ASSUME NEW u \in SUBSET T, u # T PROVE SumFunctionOnSet(f, u) = g[u]
        OBVIOUS
      <3>1. PICK k : k = SumStep(f, u, k)
        BY <1>1
      <3>2. IsFiniteSet(u)
        BY FS_Subset
      <3>3. SumFunctionOnSet(f, u) = k[u]
        BY <3>1, <3>2, SumUnfolds
      <3>4. k[u] = IF u = {} THEN 0 ELSE f[Chosen(u)] + k[u \ {Chosen(u)}]
        BY <3>1 DEF SumStep
      <3>5. u # {} => k[u \ {Chosen(u)}] = SumFunctionOnSet(f, u \ {Chosen(u)})
        <4> SUFFICES ASSUME u # {} PROVE k[u \ {Chosen(u)}] = SumFunctionOnSet(f, u \ {Chosen(u)})
          OBVIOUS
        <4> DEFINE v == u \ {Chosen(u)}
        <4>1. v \in SUBSET u /\ v \in SUBSET T /\ v # T
          BY <2>1
        <4> HIDE DEF v
        <4>2. PICK l : l = SumStep(f, v, l)
          BY <1>1, <4>1
        <4>3. IsFiniteSet(v)
          BY <4>1, FS_Subset
        <4>4. SumFunctionOnSet(f, v) = l[v]
          BY <4>2, <4>3, SumUnfolds
        <4>5. k[v] = l[v]
          BY <3>1, <4>1, <4>2, <4>3, SolutionsAgree
        <4> QED
          BY <4>4, <4>5 DEF v
      <3> QED
        BY <3>3, <3>4, <3>5
    <2>3. g = SumStep(f, T, g)
      BY <2>1, <2>2 DEF SumStep
    <2> HIDE DEF g
    <2> QED
      BY <2>3
  <1> HIDE DEF C
  <1>2. \A T \in SUBSET S : T \in C
    BY <1>1, FiniteInduct
  <1> QED
    BY <1>2 DEF C

\* So the sum of nothing is 0, and any other is that of one element and the
\* rest.
LEMMA SumRecursion ==
  ASSUME NEW S, IsFiniteSet(S), NEW f
  PROVE  SumFunctionOnSet(f, S) =
           IF S = {} THEN 0 ELSE f[Chosen(S)] + SumFunctionOnSet(f, S \ {Chosen(S)})
  <1>1. PICK g : g = SumStep(f, S, g)
    BY SolutionExists
  <1>2. g[S] = IF S = {} THEN 0 ELSE f[Chosen(S)] + g[S \ {Chosen(S)}]
    BY <1>1 DEF SumStep
  <1> DEFINE T == S \ {Chosen(S)}
  <1>3. IsFiniteSet(T)
    BY FS_Subset
  <1>4. PICK h : h = SumStep(f, T, h)
    BY <1>3, SolutionExists
  <1>5. g[T] = h[T] /\ SumFunctionOnSet(f, T) = h[T]
    BY <1>1, <1>3, <1>4, SolutionsAgree, SumUnfolds
  <1>6. SumFunctionOnSet(f, S) = g[S]
    BY <1>1, SumUnfolds
  <1> QED
    BY <1>2, <1>5, <1>6

\* Sums see their functions on the indices only.
LEMMA SumAgrees ==
  ASSUME NEW S, IsFiniteSet(S), NEW f, NEW g, \A x \in S : f[x] = g[x]
  PROVE  SumFunctionOnSet(f, S) = SumFunctionOnSet(g, S)
  <1>1. PICK h : h = SumStep(f, S, h)
    BY SolutionExists
  <1>2. PICK k : k = SumStep(g, S, k)
    BY SolutionExists
  <1> QED
    BY <1>1, <1>2, SumUnfolds, SolutionsAgree

(***************************************************************************)
(* Sums of integers                                                        *)
(***************************************************************************)

\* A sum of integers is one; a sum of naturals too.
LEMMA SumType ==
  ASSUME NEW S, IsFiniteSet(S), NEW f, NEW R, R = Nat \/ R = Int, \A x \in S : f[x] \in R
  PROVE  SumFunctionOnSet(f, S) \in R
  <1> DEFINE C == {T \in SUBSET S : SumFunctionOnSet(f, T) \in R}
  <1>1. ASSUME NEW T \in SUBSET S, \A U \in SUBSET T : U # T => U \in C
        PROVE  T \in C
    <2>1. IsFiniteSet(T)
      BY FS_Subset
    <2>2. CASE T = {}
      BY <2>1, <2>2, SumRecursion
    <2>3. CASE T # {}
      <3>1. Chosen(T) \in T
        BY <2>3 DEF Chosen
      <3>2. f[Chosen(T)] \in R /\ SumFunctionOnSet(f, T \ {Chosen(T)}) \in R
        BY <1>1, <3>1
      <3>3. SumFunctionOnSet(f, T) = f[Chosen(T)] + SumFunctionOnSet(f, T \ {Chosen(T)})
        BY <2>1, <2>3, SumRecursion
      <3>4. \A a, b \in R : a + b \in R
        OBVIOUS
      <3> QED
        BY <3>2, <3>3, <3>4
    <2> QED
      BY <2>2, <2>3
  <1> HIDE DEF C
  <1>2. \A T \in SUBSET S : T \in C
    BY <1>1, FiniteInduct
  <1> QED
    BY <1>2 DEF C

\* Any element may be the one taken out.
LEMMA SumWithout ==
  ASSUME NEW S, IsFiniteSet(S), NEW f, \A x \in S : f[x] \in Int, NEW e \in S
  PROVE  SumFunctionOnSet(f, S) = f[e] + SumFunctionOnSet(f, S \ {e})
  <1> DEFINE Sum(T) == SumFunctionOnSet(f, T)
             C == {T \in SUBSET S : \A x \in T : Sum(T) = f[x] + Sum(T \ {x})}
  <1>1. ASSUME NEW T \in SUBSET S, \A U \in SUBSET T : U # T => U \in C
        PROVE  T \in C
    <2> SUFFICES ASSUME NEW x \in T PROVE Sum(T) = f[x] + Sum(T \ {x})
      OBVIOUS
    <2> DEFINE y == Chosen(T)
               V == (T \ {x}) \ {y}
    <2>1. IsFiniteSet(T) /\ y \in T
      BY FS_Subset DEF Chosen
    <2>2. Sum(T) = f[y] + Sum(T \ {y})
      BY <2>1, SumRecursion
    <2>3. CASE x = y
      BY <2>2, <2>3
    <2>4. CASE x # y
      <3>1. T \ {y} \in C /\ T \ {x} \in C
        BY <1>1, <2>1
      <3>2. x \in T \ {y} /\ y \in T \ {x} /\ (T \ {y}) \ {x} = V
        BY <2>1, <2>4
      <3>3. Sum(T \ {y}) = f[x] + Sum(V) /\ Sum(T \ {x}) = f[y] + Sum(V)
        BY <3>1, <3>2
      <3>4. f[x] \in Int /\ f[y] \in Int /\ Sum(V) \in Int
        <4>1. IsFiniteSet(V) /\ \A z \in V : f[z] \in Int
          BY FS_Subset
        <4> QED
          BY <2>1, <4>1, SumType
      <3> HIDE DEF Sum, y, V
      <3> QED
        BY <2>2, <3>3, <3>4
    <2> QED
      BY <2>3, <2>4
  <1> HIDE DEF C
  <1>2. \A T \in SUBSET S : T \in C
    BY <1>1, FiniteInduct
  <1> QED
    BY <1>2 DEF C

(***************************************************************************)
(* Sums over two sets that differ in one element                           *)
(***************************************************************************)

\* What one term adds to a sum; nothing when it has no index there.
Term(f, e) == IF e \in DOMAIN f THEN f[e] ELSE 0

\* A function on a finite set, all but one of its terms put aside.
LEMMA SumApart ==
  ASSUME NEW f, IsFiniteSet(DOMAIN f), \A x \in DOMAIN f : f[x] \in Int, NEW e
  PROVE  /\ SumFunction(f) = Term(f, e) + SumFunctionOnSet(f, DOMAIN f \ {e})
         /\ SumFunctionOnSet(f, DOMAIN f \ {e}) \in Int
         /\ SumFunction(f) \in Int
         /\ Term(f, e) \in Int
  <1> DEFINE S == DOMAIN f
  <1>1. IsFiniteSet(S \ {e}) /\ IsFiniteSet(S)
    BY FS_Subset
  <1>2. SumFunctionOnSet(f, S) \in Int /\ SumFunctionOnSet(f, S \ {e}) \in Int
    BY <1>1, SumType
  <1>3. CASE e \in S
    BY <1>1, <1>2, <1>3, SumWithout DEF SumFunction, Term
  <1>4. CASE e \notin S
    <2>1. S \ {e} = S
      BY <1>4
    <2>2. Term(f, e) = 0
      BY <1>4 DEF Term
    <2> QED
      BY <1>2, <2>1, <2>2 DEF SumFunction
  <1> QED
    BY <1>3, <1>4

\* Two sums that agree but for one term differ by that term.
LEMMA SumChanges ==
  ASSUME NEW f, IsFiniteSet(DOMAIN f), \A x \in DOMAIN f : f[x] \in Int,
         NEW g, IsFiniteSet(DOMAIN g), \A x \in DOMAIN g : g[x] \in Int,
         NEW e, DOMAIN g \ {e} = DOMAIN f \ {e},
         \A x \in DOMAIN f \ {e} : g[x] = f[x]
  PROVE  /\ SumFunction(g) = SumFunction(f) - Term(f, e) + Term(g, e)
         /\ SumFunction(f) \in Int /\ SumFunction(g) \in Int
         /\ Term(f, e) \in Int /\ Term(g, e) \in Int
  <1> DEFINE S == DOMAIN f \ {e}
             F == SumFunctionOnSet(f, S)
             G == SumFunctionOnSet(g, S)
  <1>1. IsFiniteSet(S)
    BY FS_Subset
  <1>2. F = G
    BY <1>1, SumAgrees
  <1>3. /\ SumFunction(f) = Term(f, e) + F /\ SumFunction(f) \in Int
        /\ Term(f, e) \in Int /\ F \in Int
    BY SumApart
  <1>4. /\ SumFunction(g) = Term(g, e) + G /\ SumFunction(g) \in Int
        /\ Term(g, e) \in Int
    BY SumApart
  <1> HIDE DEF F, G
  <1> QED
    BY <1>2, <1>3, <1>4

\* A sum of naturals is one.
LEMMA SumNat ==
  ASSUME NEW f, IsFiniteSet(DOMAIN f), \A x \in DOMAIN f : f[x] \in Nat
  PROVE  SumFunction(f) \in Nat
  BY SumType DEF SumFunction

\* The sum of no terms.
LEMMA SumEmpty ==
  ASSUME NEW f, DOMAIN f = {}
  PROVE  SumFunction(f) = 0
  <1>1. IsFiniteSet({})
    BY FS_EmptySet
  <1> QED
    BY <1>1, SumRecursion DEF SumFunction

\* A sum of zeros.
LEMMA SumZero ==
  ASSUME NEW S, IsFiniteSet(S), NEW f, \A x \in S : f[x] = 0
  PROVE  SumFunctionOnSet(f, S) = 0
  <1> DEFINE C == {T \in SUBSET S : SumFunctionOnSet(f, T) = 0}
  <1>1. ASSUME NEW T \in SUBSET S, \A U \in SUBSET T : U # T => U \in C
        PROVE  T \in C
    <2>1. IsFiniteSet(T)
      BY FS_Subset
    <2>2. CASE T = {}
      BY <2>1, <2>2, SumRecursion
    <2>3. CASE T # {}
      <3>1. Chosen(T) \in T
        BY <2>3 DEF Chosen
      <3>2. f[Chosen(T)] = 0 /\ SumFunctionOnSet(f, T \ {Chosen(T)}) = 0
        BY <1>1, <3>1
      <3> QED
        BY <2>1, <2>3, <3>2, SumRecursion
    <2> QED
      BY <2>2, <2>3
  <1> HIDE DEF C
  <1>2. \A T \in SUBSET S : T \in C
    BY <1>1, FiniteInduct
  <1> QED
    BY <1>2 DEF C

\* A factor of all terms is one of the sum.
LEMMA SumScaled ==
  ASSUME NEW S, IsFiniteSet(S), NEW n \in Int, NEW f, \A x \in S : f[x] \in Int,
         NEW g, \A x \in S : g[x] = n * f[x]
  PROVE  SumFunctionOnSet(g, S) = n * SumFunctionOnSet(f, S)
  <1> DEFINE C == {T \in SUBSET S : SumFunctionOnSet(g, T) = n * SumFunctionOnSet(f, T)}
  <1>1. ASSUME NEW T \in SUBSET S, \A U \in SUBSET T : U # T => U \in C
        PROVE  T \in C
    <2>1. IsFiniteSet(T)
      BY FS_Subset
    <2>2. CASE T = {}
      <3>1. SumFunctionOnSet(g, T) = 0 /\ SumFunctionOnSet(f, T) = 0
        BY <2>1, <2>2, SumRecursion
      <3> QED
        BY <3>1
    <2>3. CASE T # {}
      <3> DEFINE e == Chosen(T)
                 rest == T \ {e}
                 F == SumFunctionOnSet(f, rest)
                 G == SumFunctionOnSet(g, rest)
      <3>1. e \in T
        BY <2>3 DEF Chosen
      <3>2. rest \in C
        BY <1>1, <3>1
      <3>3. G = n * F
        BY <3>2
      <3>4. F \in Int
        <4>1. IsFiniteSet(rest) /\ \A x \in rest : f[x] \in Int
          BY <2>1, FS_Subset
        <4> QED
          BY <4>1, SumType
      <3>5. f[e] \in Int /\ g[e] = n * f[e]
        BY <3>1
      <3>6. SumFunctionOnSet(g, T) = g[e] + G /\ SumFunctionOnSet(f, T) = f[e] + F
        BY <2>1, <2>3, SumRecursion
      <3>7. \A a, b \in Int : n * (a + b) = n * a + n * b
        OBVIOUS
      <3> HIDE DEF e, rest, F, G
      <3> QED
        BY <3>3, <3>4, <3>5, <3>6, <3>7
    <2> QED
      BY <2>2, <2>3
  <1> HIDE DEF C
  <1>2. \A T \in SUBSET S : T \in C
    BY <1>1, FiniteInduct
  <1> QED
    BY <1>2 DEF C
=============================================================================
