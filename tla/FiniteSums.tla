----------------------------- MODULE FiniteSums -----------------------------
(***************************************************************************)
(* Lemmas about SumFunctionOnSet, the sum over a finite set of rows with   *)
(* which the ledger invariants of GiftCards, Cashback and Withdrawals are  *)
(* stated.  Each is proved by looking at a smallest set that violates it.  *)
(***************************************************************************)
EXTENDS Integers, FiniteSets, Functions, FiniteSetTheorems, TLAPS

\* A property that fails for a subset of a finite set fails for a smallest one.
LEMMA SmallestSubset ==
  ASSUME NEW S, IsFiniteSet(S), NEW Bad, Bad \subseteq SUBSET S, Bad # {}
  PROVE  \E T \in Bad : \A U \in Bad : U \subseteq T => U = T
<1>1. IsWellFoundedOn(StrictSubsetOrdering(S), SUBSET S)
  BY FS_FiniteSubsetsOfFinite, FS_StrictSubsetOrderingWellFounded, Zenon
<1>2. PICK T \in Bad : \A U \in Bad : <<U, T>> \notin StrictSubsetOrdering(S)
  BY <1>1, WFMin, Zenon
<1>3. \A U \in Bad : U \subseteq T => U = T
  BY <1>2 DEF StrictSubsetOrdering
<1> QED BY <1>2, <1>3

\* The element at which a sum over T is unfolded.
Pivot(T) == CHOOSE x \in T : TRUE

\* The recursion that SumFunctionOnSet(f, S) solves.
Sums(f, S, g) ==
  g = [T \in SUBSET S |-> IF T = {} THEN 0 ELSE f[Pivot(T)] + g[T \ {Pivot(T)}]]

LEMMA SumIsSolution ==
  ASSUME NEW f, NEW S
  PROVE  SumFunctionOnSet(f, S) = (CHOOSE g : Sums(f, S, g))[S]
BY DEF SumFunctionOnSet, FoldFunctionOnSet, MapThenFoldSet, Sums, Pivot

\* Two solutions agree on every set on which both are defined.
LEMMA SolutionsAgree ==
  ASSUME NEW f, NEW S, IsFiniteSet(S), NEW R \in SUBSET S, NEW g, NEW h,
         Sums(f, S, g), Sums(f, R, h)
  PROVE  \A T \in SUBSET R : g[T] = h[T]
<1> DEFINE Bad == {T \in SUBSET R : g[T] # h[T]}
<1>1. SUFFICES ASSUME Bad # {} PROVE FALSE
  OBVIOUS
<1>2. IsFiniteSet(R)
  BY FS_Subset
<1>3. PICK T \in Bad : \A U \in Bad : U \subseteq T => U = T
  <2>1. Bad \subseteq SUBSET R
    OBVIOUS
  <2> HIDE DEF Bad
  <2> QED BY <1>1, <1>2, <2>1, SmallestSubset
<1>4. T \in SUBSET S /\ T \in SUBSET R
  OBVIOUS
<1>5. CASE T = {}
  BY <1>3, <1>4, <1>5 DEF Sums
<1>6. CASE T # {}
  <2>1. Pivot(T) \in T
    BY <1>6 DEF Pivot
  <2>2. g[T \ {Pivot(T)}] = h[T \ {Pivot(T)}]
    BY <1>3, <1>4, <2>1
  <2>3. g[T] = f[Pivot(T)] + g[T \ {Pivot(T)}]
    BY <1>4, <1>6 DEF Sums
  <2>4. h[T] = f[Pivot(T)] + h[T \ {Pivot(T)}]
    BY <1>4, <1>6 DEF Sums
  <2> QED BY <1>3, <2>2, <2>3, <2>4
<1> QED BY <1>5, <1>6

\* A solution on S has the sum over each subset of S as its value there, when
\* the recursion for that subset has a solution at all.
LEMMA SolutionIsSum ==
  ASSUME NEW f, NEW S, IsFiniteSet(S), NEW g, Sums(f, S, g),
         NEW T \in SUBSET S, \E h : Sums(f, T, h)
  PROVE  g[T] = SumFunctionOnSet(f, T)
<1> DEFINE h == CHOOSE h : Sums(f, T, h)
<1>1. Sums(f, T, h)
  OBVIOUS
<1>2. SumFunctionOnSet(f, T) = h[T]
  BY SumIsSolution
<1> HIDE DEF h
<1> QED BY <1>1, <1>2, SolutionsAgree

\* The recursion has a solution on every finite set.
LEMMA SolutionExists ==
  ASSUME NEW f, NEW S, IsFiniteSet(S)
  PROVE  \E g : Sums(f, S, g)
<1> DEFINE V(T) == SumFunctionOnSet(f, T)
           Bad == {T \in SUBSET S : ~ \E g : Sums(f, T, g)}
<1> HIDE DEF V
<1>1. SUFFICES ASSUME Bad # {} PROVE FALSE
  OBVIOUS
<1>2. PICK T \in Bad : \A U \in Bad : U \subseteq T => U = T
  <2>1. Bad \subseteq SUBSET S
    OBVIOUS
  <2> HIDE DEF Bad
  <2> QED BY <1>1, <2>1, SmallestSubset
<1>3. \A U \in SUBSET T : U # T => \E h : Sums(f, U, h)
  BY <1>2
<1>4. IsFiniteSet(T) /\ \A U \in SUBSET T : IsFiniteSet(U)
  BY FS_Subset
<1> DEFINE g == [U \in SUBSET T |->
                   IF U = {} THEN 0 ELSE f[Pivot(U)] + V(U \ {Pivot(U)})]
<1>5. ASSUME NEW W \in SUBSET T, W # T
      PROVE  g[W] = V(W)
  <2>1. PICK h : Sums(f, W, h)
    BY <1>3, <1>5
  <2>2. h[W] = V(W)
    BY <1>4, <2>1, SolutionIsSum DEF V
  <2>3. CASE W = {}
    BY <2>1, <2>2, <2>3 DEF Sums
  <2>4. CASE W # {}
    <3>1. W \ {Pivot(W)} \in SUBSET W /\ W \ {Pivot(W)} \in SUBSET T
      OBVIOUS
    <3>2. Pivot(W) \in W
      BY <2>4 DEF Pivot
    <3>3. W \ {Pivot(W)} # T
      BY <3>2
    <3>4. h[W \ {Pivot(W)}] = V(W \ {Pivot(W)})
      BY <1>3, <1>4, <2>1, <3>1, <3>3, SolutionIsSum DEF V
    <3>5. h[W] = f[Pivot(W)] + h[W \ {Pivot(W)}]
      BY <2>1, <2>4 DEF Sums
    <3> QED BY <2>2, <2>4, <3>4, <3>5
  <2> QED BY <2>3, <2>4
<1>6. ASSUME NEW U \in SUBSET T, U # {}
      PROVE  g[U] = f[Pivot(U)] + g[U \ {Pivot(U)}]
  <2>1. Pivot(U) \in U
    BY <1>6 DEF Pivot
  <2>2. U \ {Pivot(U)} \in SUBSET T /\ U \ {Pivot(U)} # T
    BY <2>1
  <2>3. g[U \ {Pivot(U)}] = V(U \ {Pivot(U)})
    BY <1>5, <2>2
  <2>4. g[U] = f[Pivot(U)] + V(U \ {Pivot(U)})
    BY <1>6
  <2> QED BY <2>3, <2>4
<1>7. g[{}] = 0 /\ DOMAIN g = SUBSET T
  OBVIOUS
<1> DEFINE k == [U \in SUBSET T |->
                   IF U = {} THEN 0 ELSE f[Pivot(U)] + g[U \ {Pivot(U)}]]
<1>8. g = k
  <2>1. \A U \in SUBSET T : g[U] = k[U]
    <3> TAKE U \in SUBSET T
    <3>1. CASE U = {}
      BY <3>1, <1>7
    <3>2. CASE U # {}
      <4>1. k[U] = f[Pivot(U)] + g[U \ {Pivot(U)}]
        <5> HIDE DEF g
        <5> QED BY <3>2
      <4> QED BY <1>6, <3>2, <4>1
    <3> QED BY <3>1, <3>2
  <2>2. g = [U \in SUBSET T |-> g[U]] /\ k = [U \in SUBSET T |-> k[U]]
    OBVIOUS
  <2> HIDE DEF g, k
  <2> QED BY <2>1, <2>2
<1>9. Sums(f, T, g)
  <2> HIDE DEF g
  <2> QED BY <1>8 DEF Sums
<1> HIDE DEF g
<1> QED BY <1>2, <1>9

\* The sum over the empty set, and one step of the recursion.
LEMMA SumUnfolds ==
  ASSUME NEW f, NEW S, IsFiniteSet(S)
  PROVE  SumFunctionOnSet(f, S)
           = IF S = {} THEN 0
             ELSE f[Pivot(S)] + SumFunctionOnSet(f, S \ {Pivot(S)})
<1>1. PICK g : Sums(f, S, g)
  BY SolutionExists
<1>2. g[S] = SumFunctionOnSet(f, S)
  BY <1>1, SolutionIsSum
<1>3. IsFiniteSet(S \ {Pivot(S)})
  BY FS_RemoveElement
<1>4. g[S \ {Pivot(S)}] = SumFunctionOnSet(f, S \ {Pivot(S)})
  BY <1>1, <1>3, SolutionExists, SolutionIsSum
<1>5. g[S] = IF S = {} THEN 0 ELSE f[Pivot(S)] + g[S \ {Pivot(S)}]
  BY <1>1 DEF Sums
<1> QED BY <1>2, <1>4, <1>5

LEMMA SumEmpty == ASSUME NEW f PROVE SumFunctionOnSet(f, {}) = 0
BY SumUnfolds, FS_EmptySet

\* A sum of integers is an integer, and any of its terms can be taken out of it.
LEMMA SumSplits ==
  ASSUME NEW f, NEW S, IsFiniteSet(S), \A x \in S : f[x] \in Int
  PROVE  /\ SumFunctionOnSet(f, S) \in Int
         /\ \A x \in S : SumFunctionOnSet(f, S)
                           = f[x] + SumFunctionOnSet(f, S \ {x})
<1> DEFINE V(T) == SumFunctionOnSet(f, T)
           Good(T) == /\ V(T) \in Int
                      /\ \A x \in T : V(T) = f[x] + V(T \ {x})
           Bad == {T \in SUBSET S : ~ Good(T)}
<1>1. SUFFICES ASSUME Bad # {} PROVE FALSE
  OBVIOUS
<1>2. PICK T \in Bad : \A U \in Bad : U \subseteq T => U = T
  <2>1. Bad \subseteq SUBSET S
    OBVIOUS
  <2> HIDE DEF Bad
  <2> QED BY <1>1, <2>1, SmallestSubset
<1>3. \A U \in SUBSET T : U # T => Good(U)
  BY <1>2
<1>4. IsFiniteSet(T) /\ \A U \in SUBSET T : IsFiniteSet(U)
  BY FS_Subset
<1>5. \A U \in SUBSET T : V(U) = IF U = {} THEN 0 ELSE f[Pivot(U)] + V(U \ {Pivot(U)})
  BY <1>4, SumUnfolds
<1>6. \A U \in SUBSET T : U # {} => Pivot(U) \in U
  BY DEF Pivot
<1> HIDE DEF V
<1>7. T # {}
  <2>1. ASSUME T = {} PROVE FALSE
    <3>1. V(T) = 0
      BY <1>5, <2>1
    <3> QED BY <1>2, <2>1, <3>1
  <2> QED BY <2>1
<1> DEFINE c == Pivot(T)
<1>8. c \in T /\ c \in S
  BY <1>6, <1>7
<1>9. V(T) = f[c] + V(T \ {c}) /\ V(T \ {c}) \in Int /\ V(T) \in Int
  <2>1. V(T) = f[c] + V(T \ {c})
    BY <1>5, <1>7
  <2>2. V(T \ {c}) \in Int
    BY <1>3, <1>8
  <2> QED BY <2>1, <2>2, <1>8
<1>10. ASSUME NEW x \in T PROVE V(T) = f[x] + V(T \ {x})
  <2>1. CASE x = c
    BY <2>1, <1>9
  <2>2. CASE x # c
    <3>1. V(T \ {c}) = f[x] + V((T \ {c}) \ {x})
      BY <1>3, <1>8, <2>2
    <3>2. V(T \ {x}) = f[c] + V((T \ {x}) \ {c})
      BY <1>3, <1>8, <2>2
    <3>3. (T \ {c}) \ {x} = (T \ {x}) \ {c}
      OBVIOUS
    <3>4. V((T \ {c}) \ {x}) \in Int
      BY <1>3, <1>8
    <3>5. f[x] \in Int /\ f[c] \in Int
      BY <1>8
    <3>6. V(T) = f[c] + (f[x] + V((T \ {c}) \ {x}))
      BY <1>9, <3>1
    <3>7. V(T \ {x}) = f[c] + V((T \ {c}) \ {x})
      BY <3>2, <3>3
    <3> DEFINE r == V((T \ {c}) \ {x})
    <3>8. r \in Int /\ V(T) = f[c] + (f[x] + r) /\ V(T \ {x}) = f[c] + r
      BY <3>4, <3>6, <3>7
    <3> HIDE DEF c, r
    <3> QED BY <3>5, <3>8
  <2> QED BY <2>1, <2>2
<1> QED BY <1>2, <1>9, <1>10

\* A sum depends only on the values at the elements it is taken over.
LEMMA SumExtensional ==
  ASSUME NEW f, NEW g, NEW S, IsFiniteSet(S), \A x \in S : f[x] = g[x]
  PROVE  SumFunctionOnSet(f, S) = SumFunctionOnSet(g, S)
<1> DEFINE V(T) == SumFunctionOnSet(f, T)
           W(T) == SumFunctionOnSet(g, T)
           Bad == {T \in SUBSET S : V(T) # W(T)}
<1>1. SUFFICES ASSUME Bad # {} PROVE FALSE
  OBVIOUS
<1>2. PICK T \in Bad : \A U \in Bad : U \subseteq T => U = T
  <2>1. Bad \subseteq SUBSET S
    OBVIOUS
  <2> HIDE DEF Bad
  <2> QED BY <1>1, <2>1, SmallestSubset
<1>3. IsFiniteSet(T)
  BY FS_Subset
<1>4. V(T) = IF T = {} THEN 0 ELSE f[Pivot(T)] + V(T \ {Pivot(T)})
  BY <1>3, SumUnfolds
<1>5. W(T) = IF T = {} THEN 0 ELSE g[Pivot(T)] + W(T \ {Pivot(T)})
  BY <1>3, SumUnfolds
<1>6. T # {} => Pivot(T) \in T
  BY DEF Pivot
<1> HIDE DEF V, W
<1> QED BY <1>2, <1>4, <1>5, <1>6

\* Over a common finite set, larger terms make a larger sum.
LEMMA SumMonotone ==
  ASSUME NEW f, NEW g, NEW S, IsFiniteSet(S),
         \A x \in S : f[x] \in Int /\ g[x] \in Int /\ f[x] <= g[x]
  PROVE  SumFunctionOnSet(f, S) <= SumFunctionOnSet(g, S)
<1> DEFINE V(T) == SumFunctionOnSet(f, T)
           W(T) == SumFunctionOnSet(g, T)
           Bad == {T \in SUBSET S : ~ (V(T) <= W(T))}
<1>1. SUFFICES ASSUME Bad # {} PROVE FALSE
  OBVIOUS
<1>2. PICK T \in Bad : \A U \in Bad : U \subseteq T => U = T
  <2>1. Bad \subseteq SUBSET S
    OBVIOUS
  <2> HIDE DEF Bad
  <2> QED BY <1>1, <2>1, SmallestSubset
<1>3. T \in SUBSET S /\ ~ (V(T) <= W(T)) /\ \A U \in SUBSET T : U # T => V(U) <= W(U)
  BY <1>2
<1>4. V({}) = 0 /\ W({}) = 0
  BY SumEmpty
<1>5. IsFiniteSet(T) /\ \A x \in T : IsFiniteSet(T \ {x})
  BY FS_Subset
<1>6. \A x \in T : V(T \ {x}) \in Int /\ W(T \ {x}) \in Int
  BY <1>5, SumSplits
<1>7. \A x \in T : V(T) = f[x] + V(T \ {x}) /\ W(T) = g[x] + W(T \ {x})
  BY <1>5, SumSplits
<1> HIDE DEF V, W, Bad
<1>8. T # {}
  <2>1. ASSUME T = {} PROVE FALSE
    <3>1. V(T) = 0 /\ W(T) = 0
      BY <1>4, <2>1
    <3> QED BY <1>3, <3>1
  <2> QED BY <2>1
<1>9. PICK x \in T : TRUE
  BY <1>8
<1>10. V(T \ {x}) <= W(T \ {x})
  BY <1>3, <1>9
<1> DEFINE v == V(T \ {x})
           w == W(T \ {x})
<1>11. v \in Int /\ w \in Int /\ v <= w /\ V(T) = f[x] + v /\ W(T) = g[x] + w
  BY <1>6, <1>7, <1>10
<1>12. f[x] \in Int /\ g[x] \in Int /\ f[x] <= g[x]
  BY <1>3
<1> HIDE DEF v, w
<1> QED BY <1>3, <1>11, <1>12

\* Sums of two functions over a common finite set.
LEMMA SumAdds ==
  ASSUME NEW f, NEW g, NEW h, NEW S, IsFiniteSet(S),
         \A x \in S : f[x] \in Int /\ g[x] \in Int /\ h[x] = f[x] + g[x]
  PROVE  SumFunctionOnSet(h, S) = SumFunctionOnSet(f, S) + SumFunctionOnSet(g, S)
<1> DEFINE V(T) == SumFunctionOnSet(f, T)
           W(T) == SumFunctionOnSet(g, T)
           Z(T) == SumFunctionOnSet(h, T)
           Bad == {T \in SUBSET S : Z(T) # V(T) + W(T)}
<1>1. SUFFICES ASSUME Bad # {} PROVE FALSE
  OBVIOUS
<1>2. PICK T \in Bad : \A U \in Bad : U \subseteq T => U = T
  <2>1. Bad \subseteq SUBSET S
    OBVIOUS
  <2> HIDE DEF Bad
  <2> QED BY <1>1, <2>1, SmallestSubset
<1>3. T \in SUBSET S /\ Z(T) # V(T) + W(T)
      /\ \A U \in SUBSET T : U # T => Z(U) = V(U) + W(U)
  BY <1>2
<1>4. V({}) = 0 /\ W({}) = 0 /\ Z({}) = 0
  BY SumEmpty
<1>5. IsFiniteSet(T) /\ \A x \in T : IsFiniteSet(T \ {x})
  BY FS_Subset
<1>6. \A x \in T : V(T \ {x}) \in Int /\ W(T \ {x}) \in Int
  BY <1>5, SumSplits
<1>7. \A x \in T : h[x] \in Int
  BY <1>3
<1>8. \A x \in T : /\ V(T) = f[x] + V(T \ {x}) /\ W(T) = g[x] + W(T \ {x})
                   /\ Z(T) = h[x] + Z(T \ {x})
  <2>1. \A x \in T : V(T) = f[x] + V(T \ {x})
    BY <1>5, SumSplits
  <2>2. \A x \in T : W(T) = g[x] + W(T \ {x})
    BY <1>5, SumSplits
  <2>3. \A x \in T : Z(T) = h[x] + Z(T \ {x})
    BY <1>5, <1>7, SumSplits
  <2> QED BY <2>1, <2>2, <2>3
<1> HIDE DEF V, W, Z, Bad
<1>9. T # {}
  <2>1. ASSUME T = {} PROVE FALSE
    <3>1. V(T) = 0 /\ W(T) = 0 /\ Z(T) = 0
      BY <1>4, <2>1
    <3> QED BY <1>3, <3>1
  <2> QED BY <2>1
<1>10. PICK x \in T : TRUE
  BY <1>9
<1>11. Z(T \ {x}) = V(T \ {x}) + W(T \ {x})
  BY <1>3, <1>10
<1> DEFINE v == V(T \ {x})
           w == W(T \ {x})
<1>12. v \in Int /\ w \in Int /\ V(T) = f[x] + v /\ W(T) = g[x] + w /\ Z(T) = h[x] + (v + w)
  BY <1>6, <1>8, <1>11
<1>13. f[x] \in Int /\ g[x] \in Int /\ h[x] = f[x] + g[x]
  BY <1>3
<1> HIDE DEF v, w
<1> QED BY <1>3, <1>12, <1>13
-----------------------------------------------------------------------------
(***************************************************************************)
(* The same for SumFunction, the sum of all values of a function.          *)
(***************************************************************************)
LEMMA SumInt ==
  ASSUME NEW S, IsFiniteSet(S), NEW f \in [S -> Int]
  PROVE  SumFunction(f) \in Int
BY SumSplits DEF SumFunction

LEMMA SumZero ==
  ASSUME NEW S, IsFiniteSet(S), NEW f \in [S -> Int], \A x \in S : f[x] = 0
  PROVE  SumFunction(f) = 0
<1> DEFINE V(T) == SumFunctionOnSet(f, T)
           Bad == {T \in SUBSET S : V(T) # 0}
<1>1. SUFFICES ASSUME Bad # {} PROVE FALSE
  BY DEF SumFunction
<1>2. PICK T \in Bad : \A U \in Bad : U \subseteq T => U = T
  <2>1. Bad \subseteq SUBSET S
    OBVIOUS
  <2> HIDE DEF Bad
  <2> QED BY <1>1, <2>1, SmallestSubset
<1>3. IsFiniteSet(T)
  BY FS_Subset
<1>4. V(T) = IF T = {} THEN 0 ELSE f[Pivot(T)] + V(T \ {Pivot(T)})
  BY <1>3, SumUnfolds
<1>5. T # {} => Pivot(T) \in T
  BY DEF Pivot
<1> HIDE DEF V
<1> QED BY <1>2, <1>4, <1>5

\* Two functions that differ at x alone.
LEMMA SumChange ==
  ASSUME NEW S, IsFiniteSet(S), NEW f \in [S -> Int], NEW g \in [S -> Int],
         NEW x \in S, \A y \in S : y # x => g[y] = f[y]
  PROVE  SumFunction(g) = SumFunction(f) - f[x] + g[x]
<1>1. IsFiniteSet(S \ {x})
  BY FS_RemoveElement
<1> DEFINE r == SumFunctionOnSet(f, S \ {x})
<1>2. SumFunctionOnSet(g, S \ {x}) = r
  BY <1>1, SumExtensional
<1>3. SumFunctionOnSet(f, S) = f[x] + r /\ SumFunctionOnSet(g, S) = g[x] + r
  BY <1>2, SumSplits
<1>4. r \in Int /\ f[x] \in Int /\ g[x] \in Int
  BY <1>1, SumSplits
<1>5. SumFunction(f) = f[x] + r /\ SumFunction(g) = g[x] + r
  BY <1>3 DEF SumFunction
<1> HIDE DEF r
<1> QED BY <1>4, <1>5

\* The sum of two functions.
LEMMA SumAdd ==
  ASSUME NEW S, IsFiniteSet(S), NEW f \in [S -> Int], NEW g \in [S -> Int],
         NEW h \in [S -> Int], \A x \in S : h[x] = f[x] + g[x]
  PROVE  SumFunction(h) = SumFunction(f) + SumFunction(g)
BY SumAdds DEF SumFunction

LEMMA SumOrder ==
  ASSUME NEW S, IsFiniteSet(S), NEW f \in [S -> Int], NEW g \in [S -> Int],
         \A x \in S : f[x] <= g[x]
  PROVE  SumFunction(f) <= SumFunction(g)
BY SumMonotone DEF SumFunction

\* A sum of naturals bounds each of its terms.
LEMMA SumNat ==
  ASSUME NEW S, IsFiniteSet(S), NEW f \in [S -> Nat]
  PROVE  /\ SumFunction(f) \in Nat
         /\ \A x \in S : f[x] <= SumFunction(f)
<1> DEFINE z == [y \in S |-> 0]
<1>1. f \in [S -> Int] /\ z \in [S -> Int] /\ \A y \in S : z[y] <= f[y]
  OBVIOUS
<1>2. SumFunction(z) = 0
  BY <1>1, SumZero
<1>3. SumFunction(f) \in Int /\ 0 <= SumFunction(f)
  <2> HIDE DEF z
  <2> QED BY <1>1, <1>2, SumInt, SumOrder
<1>4. ASSUME NEW x \in S PROVE f[x] <= SumFunction(f)
  <2> DEFINE g == [f EXCEPT ![x] = 0]
  <2>1. g \in [S -> Int] /\ g[x] = 0 /\ \A y \in S : y # x => g[y] = f[y]
    OBVIOUS
  <2>2. \A y \in S : z[y] <= g[y]
    OBVIOUS
  <2> HIDE DEF g, z
  <2>3. SumFunction(g) = SumFunction(f) - f[x] + g[x]
    BY <1>1, <2>1, SumChange
  <2>4. 0 <= SumFunction(g)
    BY <1>1, <1>2, <2>1, <2>2, SumOrder
  <2> QED BY <1>3, <2>1, <2>3, <2>4
<1> QED BY <1>3, <1>4
=============================================================================
