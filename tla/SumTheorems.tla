----------------------------- MODULE SumTheorems -----------------------------
(***************************************************************************)
(* Facts about SumFunctionOnSet and SumFunction of the community module    *)
(* Functions, on finite sets: what the proofs about books, bonds and fees  *)
(* use of sums.  The sum is a fold, which takes the elements in an order   *)
(* CHOOSE fixes; its facts rest on induction over the finite subsets of a  *)
(* set, as well-founded minimality.  The same induction counts up to a     *)
(* number, and gives a function defined by recursion its equations.        *)
(***************************************************************************)
EXTENDS Integers, Functions, FiniteSetTheorems, TLAPS

\* Induction over subsets: what holds of a set whenever it holds of its proper subsets
\* holds of every subset of a finite set.
LEMMA SubsetInduction ==
  ASSUME NEW S, IsFiniteSet(S), NEW Q,
         ASSUME NEW T \in SUBSET S, \A U \in SUBSET T : U # T => U \in Q
         PROVE  T \in Q
  PROVE  \A T \in SUBSET S : T \in Q
<1> DEFINE Bad == {T \in SUBSET S : T \notin Q}
           R == StrictSubsetOrdering(S)
<1>1. IsWellFoundedOn(R, SUBSET S)
  BY FS_StrictSubsetOrderingWellFounded, FS_FiniteSubsetsOfFinite
<1>2. SUFFICES ASSUME Bad # {} PROVE FALSE
  OBVIOUS
<1> HIDE DEF R
<1>3. PICK T \in Bad : \A U \in Bad : ~ (<<U, T>> \in R)
  <2>1. Bad \subseteq SUBSET S
    OBVIOUS
  <2> HIDE DEF Bad
  <2> QED BY <1>1, <1>2, <2>1, WFMin
<1>4. \A U \in SUBSET T : U # T => U \in Q
  BY <1>3 DEF R, StrictSubsetOrdering
<1> QED
  BY <1>3, <1>4

\* The element the fold takes first.
SomeOf(T) == CHOOSE x \in T : TRUE

\* It is one of the set.
LEMMA SomeIsOf ==
  ASSUME NEW T, T # {}
  PROVE SomeOf(T) \in T
BY DEF SomeOf

\* One stage of the sum: what is chosen first, then the rest.
Stage(g, f, T) == IF T = {} THEN 0 ELSE f[SomeOf(T)] + g[T \ {SomeOf(T)}]

\* g is the sum of f, subset by subset.
Unfolds(g, f, S) == g = [T \in SUBSET S |-> Stage(g, f, T)]

\* If f can be summed subset by subset, that is what SumFunctionOnSet does.
LEMMA SumIsUnfolding ==
  ASSUME NEW f, NEW S, \E g : Unfolds(g, f, S)
  PROVE  \E g : Unfolds(g, f, S) /\ SumFunctionOnSet(f, S) = g[S]
<1> DEFINE h == CHOOSE g : g = [T \in SUBSET S |-> IF T = {} THEN 0
                 ELSE LET x == CHOOSE y \in T : TRUE IN f[x] + g[T \ {x}]]
<1>1. SumFunctionOnSet(f, S) = h[S]
  BY Zenon DEF SumFunctionOnSet, FoldFunctionOnSet, MapThenFoldSet
<1>2. h = [T \in SUBSET S |-> IF T = {} THEN 0
                 ELSE LET x == CHOOSE y \in T : TRUE IN f[x] + h[T \ {x}]]
  BY Zenon DEF Unfolds, Stage, SomeOf
<1>3. Unfolds(h, f, S)
  BY <1>2, Zenon DEF Unfolds, Stage, SomeOf
<1> QED
  BY <1>1, <1>3, Zenon

\* Two such functions agree wherever both are defined.
LEMMA UnfoldingsAgree ==
  ASSUME NEW f, NEW S, IsFiniteSet(S), NEW A, NEW B, S \subseteq A, S \subseteq B,
         NEW g, Unfolds(g, f, A), NEW h, Unfolds(h, f, B)
  PROVE  \A T \in SUBSET S : g[T] = h[T]
<1> DEFINE Q == {T \in SUBSET S : g[T] = h[T]}
<1>1. ASSUME NEW T \in SUBSET S, \A U \in SUBSET T : U # T => U \in Q
      PROVE  T \in Q
  <2>1. g[T] = Stage(g, f, T) /\ h[T] = Stage(h, f, T)
    BY DEF Unfolds
  <2>2. CASE T = {}
    BY <2>1, <2>2 DEF Stage
  <2>3. CASE T # {}
    <3>1. SomeOf(T) \in T
      BY <2>3, SomeIsOf
    <3>2. T \ {SomeOf(T)} \in Q
      BY <3>1, <1>1
    <3> QED
      BY <2>1, <2>3, <3>2 DEF Stage
  <2> QED
    BY <2>2, <2>3
<1> HIDE DEF Q
<1>2. \A T \in SUBSET S : T \in Q
  BY <1>1, SubsetInduction, Zenon
<1> QED
  BY <1>2 DEF Q

\* There is one for every finite set: that of a set is put together from those of
\* its subsets.
LEMMA UnfoldingExists ==
  ASSUME NEW f, NEW S, IsFiniteSet(S)
  PROVE  \E g : Unfolds(g, f, S)
<1> DEFINE Q == {T \in SUBSET S : \E g : Unfolds(g, f, T)}
           Of(T) == CHOOSE g : Unfolds(g, f, T)
<1>1. ASSUME NEW T \in SUBSET S, \A U \in SUBSET T : U # T => U \in Q
      PROVE  T \in Q
  <2> DEFINE Rest(U) == U \ {SomeOf(U)}
             h == [U \in SUBSET T |-> IF U = {} THEN 0 ELSE f[SomeOf(U)] + Of(Rest(U))[Rest(U)]]
  <2>1. ASSUME NEW U \in SUBSET T, U # T
        PROVE  h[U] = Of(U)[U]
    <3>1. Unfolds(Of(U), f, U)
      <4>1. U \in Q BY <1>1, <2>1
      <4> QED BY <4>1
    <3>2. Of(U)[U] = Stage(Of(U), f, U)
      BY <3>1 DEF Unfolds
    <3>3. CASE U = {}
      BY <3>2, <3>3 DEF Stage
    <3>4. CASE U # {}
      <4>1. Rest(U) \in SUBSET U /\ Rest(U) \in SUBSET T /\ Rest(U) # T
        BY <3>4, SomeIsOf
      <4>2. Unfolds(Of(Rest(U)), f, Rest(U))
        <5>1. Rest(U) \in Q BY <1>1, <4>1
        <5> QED BY <5>1
      <4>3. Of(Rest(U))[Rest(U)] = Of(U)[Rest(U)]
        <5>1. IsFiniteSet(Rest(U))
          BY FS_Subset, <4>1
        <5> HIDE DEF Of, Rest
        <5> QED BY <3>1, <4>1, <4>2, <5>1, UnfoldingsAgree
      <4>4. h[U] = f[SomeOf(U)] + Of(Rest(U))[Rest(U)]
        BY <3>4
      <4> QED
        BY <3>2, <3>4, <4>3, <4>4 DEF Stage
    <3> QED
      BY <3>3, <3>4
  <2>2. ASSUME NEW U \in SUBSET T PROVE h[U] = Stage(h, f, U)
    <3>1. CASE U = {}
      BY <3>1 DEF Stage
    <3>2. CASE U # {}
      <4>1. Rest(U) \in SUBSET T /\ Rest(U) # T
        BY <3>2, SomeIsOf
      <4>2. h[Rest(U)] = Of(Rest(U))[Rest(U)]
        BY <2>1, <4>1
      <4>3. h[U] = f[SomeOf(U)] + Of(Rest(U))[Rest(U)]
        BY <3>2
      <4> QED BY <3>2, <4>2, <4>3 DEF Stage
    <3> QED BY <3>1, <3>2
  <2>3. h = [U \in SUBSET T |-> h[U]]
    OBVIOUS
  <2>4. Unfolds(h, f, T)
    <3> HIDE DEF h
    <3> QED BY <2>2, <2>3, Zenon DEF Unfolds
  <2> QED BY <2>4
<1> HIDE DEF Q
<1>2. \A T \in SUBSET S : T \in Q
  BY <1>1, SubsetInduction, Zenon
<1> QED
  BY <1>2 DEF Q

\* The equation of the fold: one element, then the rest.
LEMMA SumUnfolds ==
  ASSUME NEW f, NEW S, IsFiniteSet(S), S # {}
  PROVE  SumFunctionOnSet(f, S) = f[SomeOf(S)] + SumFunctionOnSet(f, S \ {SomeOf(S)})
<1>1. PICK g : Unfolds(g, f, S) /\ SumFunctionOnSet(f, S) = g[S]
  BY UnfoldingExists, SumIsUnfolding
<1> DEFINE R == S \ {SomeOf(S)}
<1>2. IsFiniteSet(R)
  BY FS_RemoveElement
<1>3. PICK h : Unfolds(h, f, R) /\ SumFunctionOnSet(f, R) = h[R]
  BY <1>2, UnfoldingExists, SumIsUnfolding
<1>4. h[R] = g[R]
  <2>1. R \subseteq S /\ R \subseteq R /\ R \in SUBSET R
    OBVIOUS
  <2> HIDE DEF R
  <2> QED
    BY <1>1, <1>2, <1>3, <2>1, UnfoldingsAgree
<1>5. g[S] = f[SomeOf(S)] + g[R]
  <2>1. g[S] = Stage(g, f, S)
    <3>1. S \in SUBSET S
      OBVIOUS
    <3> QED
      BY <1>1, <3>1 DEF Unfolds
  <2> QED
    BY <2>1 DEF Stage
<1> QED
  BY <1>1, <1>3, <1>4, <1>5

-------------------------------------------------------------------------------
\* Nothing adds up to zero.
THEOREM SumOfNothing ==
  ASSUME NEW f
  PROVE SumFunctionOnSet(f, {}) = 0
<1>1. PICK g : Unfolds(g, f, {}) /\ SumFunctionOnSet(f, {}) = g[{}]
  BY FS_EmptySet, UnfoldingExists, SumIsUnfolding
<1> QED BY <1>1 DEF Unfolds, Stage

\* Whichever element is taken out, the rest lacks its summand.
THEOREM SumRemove ==
  ASSUME NEW f, NEW S, IsFiniteSet(S), \A x \in S : f[x] \in Int
  PROVE  /\ SumFunctionOnSet(f, S) \in Int
         /\ \A x \in S : SumFunctionOnSet(f, S) = f[x] + SumFunctionOnSet(f, S \ {x})
<1> DEFINE Q == {T \in SUBSET S :
              /\ SumFunctionOnSet(f, T) \in Int
              /\ \A x \in T : SumFunctionOnSet(f, T) = f[x] + SumFunctionOnSet(f, T \ {x})}
<1>1. ASSUME NEW T \in SUBSET S, \A U \in SUBSET T : U # T => U \in Q
      PROVE  T \in Q
  <2>1. CASE T = {}
    BY <2>1, SumOfNothing
  <2>2. CASE T # {}
    <3> DEFINE y == SomeOf(T)
               R == T \ {y}
    <3>1. y \in T /\ f[y] \in Int
      BY <2>2, SomeIsOf
    <3>2. SumFunctionOnSet(f, T) = f[y] + SumFunctionOnSet(f, R)
      <4>1. IsFiniteSet(T)
        BY FS_Subset
      <4> QED
        BY <2>2, <4>1, SumUnfolds
    <3> HIDE DEF y
    <3>3. R \in Q
      BY <3>1, <1>1
    <3>4. SumFunctionOnSet(f, T) \in Int
      BY <3>1, <3>2, <3>3
    <3>5. ASSUME NEW x \in T
          PROVE  SumFunctionOnSet(f, T) = f[x] + SumFunctionOnSet(f, T \ {x})
      <4>1. CASE x = y
        BY <3>2, <4>1
      <4>2. CASE x # y
        <5> DEFINE W == (T \ {y}) \ {x}
        <5>1. SumFunctionOnSet(f, R) = f[x] + SumFunctionOnSet(f, W)
          BY <3>3, <4>2
        <5>2. T \ {x} \in Q
          BY <1>1
        <5>3. (T \ {x}) \ {y} = W
          OBVIOUS
        <5>4. SumFunctionOnSet(f, T \ {x}) = f[y] + SumFunctionOnSet(f, W)
          BY <3>1, <4>2, <5>2, <5>3
        <5>5. W \in Q
          BY <3>1, <1>1
        <5>6. SumFunctionOnSet(f, W) \in Int /\ f[x] \in Int
          BY <5>5
        <5> QED
          BY <3>1, <3>2, <5>1, <5>4, <5>6
      <4> QED
        BY <4>1, <4>2
    <3> QED
      BY <3>4, <3>5
  <2> QED
    BY <2>1, <2>2
<1> HIDE DEF Q
<1>2. \A T \in SUBSET S : T \in Q
  BY <1>1, SubsetInduction, Zenon
<1> QED
  BY <1>2 DEF Q

\* The sum of integers is an integer.
THEOREM SumIsInt ==
  ASSUME NEW f, NEW S, IsFiniteSet(S), \A x \in S : f[x] \in Int
  PROVE  SumFunctionOnSet(f, S) \in Int
BY SumRemove

\* Functions that agree on a set have one sum over it.
THEOREM SumAgrees ==
  ASSUME NEW f, NEW g, NEW S, IsFiniteSet(S), \A x \in S : f[x] = g[x]
  PROVE  SumFunctionOnSet(f, S) = SumFunctionOnSet(g, S)
<1> DEFINE Q == {T \in SUBSET S : SumFunctionOnSet(f, T) = SumFunctionOnSet(g, T)}
<1>1. ASSUME NEW T \in SUBSET S, \A U \in SUBSET T : U # T => U \in Q
      PROVE  T \in Q
  <2>1. CASE T = {}
    BY <2>1, SumOfNothing
  <2>2. CASE T # {}
    <3>1. SomeOf(T) \in T /\ f[SomeOf(T)] = g[SomeOf(T)]
      BY <2>2, SomeIsOf
    <3>2. IsFiniteSet(T)
      BY FS_Subset
    <3>3. /\ SumFunctionOnSet(f, T) = f[SomeOf(T)] + SumFunctionOnSet(f, T \ {SomeOf(T)})
          /\ SumFunctionOnSet(g, T) = g[SomeOf(T)] + SumFunctionOnSet(g, T \ {SomeOf(T)})
      BY <2>2, <3>2, SumUnfolds
    <3>4. T \ {SomeOf(T)} \in Q
      BY <3>1, <1>1
    <3> QED
      BY <3>1, <3>3, <3>4
  <2> QED
    BY <2>1, <2>2
<1> HIDE DEF Q
<1>2. \A T \in SUBSET S : T \in Q
  BY <1>1, SubsetInduction, Zenon
<1> QED
  BY <1>2 DEF Q

\* The sum of two functions, point by point, is the sum of their sums.
THEOREM SumOfBoth ==
  ASSUME NEW f, NEW g, NEW h, NEW S, IsFiniteSet(S),
         \A x \in S : f[x] \in Int /\ g[x] \in Int /\ h[x] = f[x] + g[x]
  PROVE  SumFunctionOnSet(h, S) = SumFunctionOnSet(f, S) + SumFunctionOnSet(g, S)
<1> DEFINE Q == {T \in SUBSET S : SumFunctionOnSet(h, T)
                                   = SumFunctionOnSet(f, T) + SumFunctionOnSet(g, T)}
<1>1. ASSUME NEW T \in SUBSET S, \A U \in SUBSET T : U # T => U \in Q
      PROVE  T \in Q
  <2>1. CASE T = {}
    BY <2>1, SumOfNothing
  <2>2. CASE T # {}
    <3> DEFINE y == SomeOf(T)
               R == T \ {y}
    <3>1. y \in T /\ f[y] \in Int /\ g[y] \in Int /\ h[y] = f[y] + g[y]
      BY <2>2, SomeIsOf
    <3>2. IsFiniteSet(T) /\ IsFiniteSet(R)
      BY FS_Subset
    <3>3. /\ SumFunctionOnSet(f, T) = f[y] + SumFunctionOnSet(f, R)
          /\ SumFunctionOnSet(g, T) = g[y] + SumFunctionOnSet(g, R)
          /\ SumFunctionOnSet(h, T) = h[y] + SumFunctionOnSet(h, R)
      BY <2>2, <3>2, SumUnfolds
    <3> HIDE DEF y
    <3>4. SumFunctionOnSet(h, R) = SumFunctionOnSet(f, R) + SumFunctionOnSet(g, R)
      <4>1. R \in Q
        BY <3>1, <1>1
      <4> QED
        BY <4>1
    <3>5. SumFunctionOnSet(f, R) \in Int /\ SumFunctionOnSet(g, R) \in Int
      <4>1. \A x \in R : f[x] \in Int /\ g[x] \in Int
        OBVIOUS
      <4> HIDE DEF R
      <4> QED
        BY <3>2, <4>1, SumIsInt
    <3> QED
      BY <3>1, <3>3, <3>4, <3>5
  <2> QED
    BY <2>1, <2>2
<1> HIDE DEF Q
<1>2. \A T \in SUBSET S : T \in Q
  BY <1>1, SubsetInduction, Zenon
<1> QED
  BY <1>2 DEF Q

\* A sum of naturals is one, and none of them is more than it.
THEOREM SumOfNats ==
  ASSUME NEW f, NEW S, IsFiniteSet(S), \A x \in S : f[x] \in Nat
  PROVE  /\ SumFunctionOnSet(f, S) \in Nat
         /\ \A x \in S : f[x] <= SumFunctionOnSet(f, S)
<1> DEFINE Q == {T \in SUBSET S : SumFunctionOnSet(f, T) \in Nat}
<1>1. ASSUME NEW T \in SUBSET S, \A U \in SUBSET T : U # T => U \in Q
      PROVE  T \in Q
  <2>1. CASE T = {}
    BY <2>1, SumOfNothing
  <2>2. CASE T # {}
    <3>1. SomeOf(T) \in T /\ f[SomeOf(T)] \in Nat
      BY <2>2, SomeIsOf
    <3>2. IsFiniteSet(T)
      BY FS_Subset
    <3>3. SumFunctionOnSet(f, T) = f[SomeOf(T)] + SumFunctionOnSet(f, T \ {SomeOf(T)})
      BY <2>2, <3>2, SumUnfolds
    <3>4. T \ {SomeOf(T)} \in Q
      BY <3>1, <1>1
    <3> QED
      BY <3>1, <3>3, <3>4
  <2> QED
    BY <2>1, <2>2
<1> HIDE DEF Q
<1>2. \A T \in SUBSET S : T \in Q
  BY <1>1, SubsetInduction, Zenon
<1>3. \A T \in SUBSET S : SumFunctionOnSet(f, T) \in Nat
  BY <1>2 DEF Q
<1>4. ASSUME NEW x \in S
      PROVE  f[x] <= SumFunctionOnSet(f, S)
  <2>1. SumFunctionOnSet(f, S) = f[x] + SumFunctionOnSet(f, S \ {x})
    BY SumRemove
  <2>2. SumFunctionOnSet(f, S \ {x}) \in Nat /\ f[x] \in Nat
    BY <1>3
  <2> QED
    BY <2>1, <2>2
<1> QED
  BY <1>3, <1>4

\* Changing one summand changes the sum by as much.
THEOREM SumUpdate ==
  ASSUME NEW f, NEW g, NEW S, IsFiniteSet(S), NEW a \in S, g[a] \in Int,
         \A x \in S : f[x] \in Int,
         \A x \in S : x # a => g[x] = f[x]
  PROVE  SumFunctionOnSet(g, S) = SumFunctionOnSet(f, S) + g[a] - f[a]
<1> DEFINE R == S \ {a}
<1>1. IsFiniteSet(R) /\ \A x \in R : f[x] = g[x] /\ f[x] \in Int
  BY FS_RemoveElement
<1>2. \A x \in S : g[x] \in Int
  OBVIOUS
<1>3. /\ SumFunctionOnSet(f, S) = f[a] + SumFunctionOnSet(f, R)
      /\ SumFunctionOnSet(g, S) = g[a] + SumFunctionOnSet(g, R)
  BY <1>2, SumRemove
<1> HIDE DEF R
<1>4. SumFunctionOnSet(f, R) = SumFunctionOnSet(g, R)
  BY <1>1, SumAgrees
<1>5. SumFunctionOnSet(f, R) \in Int
  BY <1>1, SumIsInt
<1> QED
  BY <1>3, <1>4, <1>5

\* A new element of the set adds its summand.
THEOREM SumInsert ==
  ASSUME NEW f, NEW S, IsFiniteSet(S), NEW a, a \notin S, f[a] \in Int,
         \A x \in S : f[x] \in Int
  PROVE  SumFunctionOnSet(f, S \cup {a}) = SumFunctionOnSet(f, S) + f[a]
<1> DEFINE T == S \cup {a}
<1>1. IsFiniteSet(T) /\ a \in T /\ T \ {a} = S
  BY FS_AddElement
<1>2. \A x \in T : f[x] \in Int
  OBVIOUS
<1> HIDE DEF T
<1>3. SumFunctionOnSet(f, T) = f[a] + SumFunctionOnSet(f, S)
  BY <1>1, <1>2, SumRemove
<1>4. SumFunctionOnSet(f, S) \in Int
  BY SumIsInt
<1> QED
  BY <1>3, <1>4 DEF T

\* A factor common to all summands is one of the sum.
THEOREM SumScaled ==
  ASSUME NEW f, NEW g, NEW c \in Int, NEW S, IsFiniteSet(S),
         \A x \in S : f[x] \in Int /\ g[x] = c * f[x]
  PROVE  SumFunctionOnSet(g, S) = c * SumFunctionOnSet(f, S)
<1> DEFINE Q == {T \in SUBSET S : SumFunctionOnSet(g, T) = c * SumFunctionOnSet(f, T)}
<1>1. ASSUME NEW T \in SUBSET S, \A U \in SUBSET T : U # T => U \in Q
      PROVE  T \in Q
  <2>1. CASE T = {}
    BY <2>1, SumOfNothing
  <2>2. CASE T # {}
    <3> DEFINE y == SomeOf(T)
               R == T \ {y}
    <3>1. y \in T /\ f[y] \in Int /\ g[y] = c * f[y]
      BY <2>2, SomeIsOf
    <3>2. IsFiniteSet(T) /\ IsFiniteSet(R)
      BY FS_Subset
    <3>3. /\ SumFunctionOnSet(f, T) = f[y] + SumFunctionOnSet(f, R)
          /\ SumFunctionOnSet(g, T) = g[y] + SumFunctionOnSet(g, R)
      BY <2>2, <3>2, SumUnfolds
    <3> HIDE DEF y
    <3>4. SumFunctionOnSet(g, R) = c * SumFunctionOnSet(f, R)
      <4>1. R \in Q
        BY <3>1, <1>1
      <4> QED
        BY <4>1
    <3>5. SumFunctionOnSet(f, R) \in Int
      <4>1. \A x \in R : f[x] \in Int
        OBVIOUS
      <4> HIDE DEF R
      <4> QED
        BY <3>2, <4>1, SumIsInt
    <3>6. \A a, b \in Int : c * (a + b) = c * a + c * b
      OBVIOUS
    <3> QED
      BY <3>1, <3>3, <3>4, <3>5, <3>6
  <2> QED
    BY <2>1, <2>2
<1> HIDE DEF Q
<1>2. \A T \in SUBSET S : T \in Q
  BY <1>1, SubsetInduction, Zenon
<1> QED
  BY <1>2 DEF Q

\* A bound on every summand bounds the sum by as many times as there are summands.
THEOREM SumBounded ==
  ASSUME NEW f, NEW c \in Nat, NEW S, IsFiniteSet(S), \A x \in S : f[x] \in 0 .. c
  PROVE  SumFunctionOnSet(f, S) \in 0 .. c * Cardinality(S)
<1> DEFINE Q == {T \in SUBSET S : SumFunctionOnSet(f, T) \in 0 .. c * Cardinality(T)}
<1>1. ASSUME NEW T \in SUBSET S, \A U \in SUBSET T : U # T => U \in Q
      PROVE  T \in Q
  <2>1. CASE T = {}
    BY <2>1, SumOfNothing, FS_EmptySet
  <2>2. CASE T # {}
    <3> DEFINE y == SomeOf(T)
               R == T \ {y}
    <3>1. y \in T /\ f[y] \in 0 .. c
      BY <2>2, SomeIsOf
    <3>2. IsFiniteSet(T) /\ IsFiniteSet(R)
      BY FS_Subset
    <3>3. SumFunctionOnSet(f, T) = f[y] + SumFunctionOnSet(f, R)
      BY <2>2, <3>2, SumUnfolds
    <3> HIDE DEF y
    <3>4. Cardinality(T) \in Nat /\ Cardinality(R) = Cardinality(T) - 1
      BY <3>1, <3>2, FS_RemoveElement, FS_CardinalityType
    <3>5. SumFunctionOnSet(f, R) \in 0 .. c * Cardinality(R)
      <4>1. R \in Q
        BY <3>1, <1>1
      <4> QED
        BY <4>1
    <3>6. Cardinality(R) \in Nat
      BY <3>2, FS_CardinalityType
    <3>7. c * Cardinality(T) = c * Cardinality(R) + c /\ c * Cardinality(R) \in Nat
      BY <3>4, <3>6
    <3> QED
      BY <3>1, <3>3, <3>5, <3>7
  <2> QED
    BY <2>1, <2>2
<1> HIDE DEF Q
<1>2. \A T \in SUBSET S : T \in Q
  BY <1>1, SubsetInduction, Zenon
<1> QED
  BY <1>2 DEF Q

\* A sum over an image: counted at the arguments or at the values of an injection.
THEOREM SumReindexed ==
  ASSUME NEW S, IsFiniteSet(S), NEW h, NEW f, NEW g,
         \A x, y \in S : h[x] = h[y] => x = y,
         \A x \in S : f[h[x]] \in Int /\ g[x] = f[h[x]]
  PROVE  SumFunctionOnSet(g, S) = SumFunctionOnSet(f, {h[x] : x \in S})
<1> DEFINE Image(T) == {h[x] : x \in T}
           Q == {T \in SUBSET S : SumFunctionOnSet(g, T) = SumFunctionOnSet(f, Image(T))}
<1>1. ASSUME NEW T \in SUBSET S, \A U \in SUBSET T : U # T => U \in Q
      PROVE  T \in Q
  <2>1. CASE T = {}
    <3>1. Image(T) = {}
      BY <2>1
    <3> QED
      BY <2>1, <3>1, SumOfNothing
  <2>2. CASE T # {}
    <3>1. PICK x \in T : TRUE
      BY <2>2
    <3> DEFINE R == T \ {x}
    <3>2. IsFiniteSet(T) /\ IsFiniteSet(Image(T))
      <4>1. IsFiniteSet(T)
        BY FS_Subset
      <4>2. IsFiniteSet({h[y] : y \in T})
        <5> DEFINE H == [y \in T |-> h[y]]
        <5>1. H \in Surjection(T, {h[y] : y \in T})
          BY DEF Surjection
        <5> HIDE DEF H
        <5> QED
          BY <4>1, <5>1, FS_Surjection
      <4> QED
        BY <4>1, <4>2
    <3>3. Image(R) = Image(T) \ {h[x]} /\ h[x] \in Image(T)
      OBVIOUS
    <3>4. \A y \in Image(T) : f[y] \in Int
      OBVIOUS
    <3>5. SumFunctionOnSet(f, Image(T)) = f[h[x]] + SumFunctionOnSet(f, Image(R))
      <4> HIDE DEF Image, R
      <4> QED
        BY <3>2, <3>3, <3>4, SumRemove
    <3>6. SumFunctionOnSet(g, T) = g[x] + SumFunctionOnSet(g, R)
      BY <3>2, SumRemove
    <3>7. SumFunctionOnSet(g, R) = SumFunctionOnSet(f, Image(R))
      <4>1. R \in Q
        BY <1>1
      <4> QED
        BY <4>1
    <3> QED
      BY <3>5, <3>6, <3>7
  <2> QED
    BY <2>1, <2>2
<1> HIDE DEF Q
<1>2. \A T \in SUBSET S : T \in Q
  BY <1>1, SubsetInduction, Zenon
<1> QED
  BY <1>2 DEF Q

\* A sum is the sum of the sums of its parts, whatever sorts its elements into parts.
THEOREM SumByParts ==
  ASSUME NEW S, IsFiniteSet(S), NEW P, IsFiniteSet(P), NEW h, NEW f,
         \A x \in S : h[x] \in P /\ f[x] \in Int
  PROVE  SumFunctionOnSet(f, S)
           = SumFunctionOnSet([p \in P |-> SumFunctionOnSet(f, {x \in S : h[x] = p})], P)
<1> DEFINE Part(T, p) == {x \in T : h[x] = p}
           Parts(T) == [p \in P |-> SumFunctionOnSet(f, Part(T, p))]
           Q == {T \in SUBSET S : SumFunctionOnSet(f, T) = SumFunctionOnSet(Parts(T), P)}
<1>0. ASSUME NEW T \in SUBSET S, NEW p \in P
      PROVE  Parts(T)[p] \in Int
  <2>1. IsFiniteSet(Part(T, p)) /\ \A x \in Part(T, p) : f[x] \in Int
    BY FS_Subset
  <2> HIDE DEF Part
  <2> QED
    BY <2>1, SumIsInt
<1>1. ASSUME NEW T \in SUBSET S, \A U \in SUBSET T : U # T => U \in Q
      PROVE  T \in Q
  <2>1. CASE T = {}
    <3>1. \A p \in P : Parts(T)[p] = 0
      <4> TAKE p \in P
      <4>1. Part(T, p) = {}
        BY <2>1
      <4> HIDE DEF Part
      <4> QED
        BY <4>1, SumOfNothing
    <3> HIDE DEF Parts
    <3>2. SumFunctionOnSet(Parts(T), P) \in 0 .. 0 * Cardinality(P)
      BY <3>1, SumBounded
    <3>3. 0 * Cardinality(P) = 0
      BY FS_CardinalityType
    <3> QED
      BY <2>1, <3>2, <3>3, SumOfNothing
  <2>2. CASE T # {}
    <3>1. PICK x \in T : TRUE
      BY <2>2
    <3> DEFINE R == T \ {x}
    <3>2. IsFiniteSet(T) /\ R \in SUBSET S /\ R \in Q /\ f[x] \in Int
      BY <1>1, FS_Subset
    <3>3. SumFunctionOnSet(f, T) = f[x] + SumFunctionOnSet(f, R)
      BY <3>2, SumRemove
    <3>4. Parts(T)[h[x]] = f[x] + Parts(R)[h[x]]
      <4>1. /\ IsFiniteSet(Part(T, h[x])) /\ x \in Part(T, h[x])
            /\ \A y \in Part(T, h[x]) : f[y] \in Int
            /\ Part(R, h[x]) = Part(T, h[x]) \ {x}
        BY <3>2, FS_Subset
      <4> HIDE DEF Part, R
      <4>2. SumFunctionOnSet(f, Part(T, h[x])) = f[x] + SumFunctionOnSet(f, Part(R, h[x]))
        BY <4>1, SumRemove
      <4> QED
        BY <4>2
    <3>5. \A p \in P : p # h[x] => Parts(T)[p] = Parts(R)[p]
      <4> TAKE p \in P
      <4> HAVE p # h[x]
      <4>1. Part(T, p) = Part(R, p)
        OBVIOUS
      <4> HIDE DEF Part
      <4> QED
        BY <4>1
    <3>6. \A p \in P : Parts(T)[p] \in Int /\ Parts(R)[p] \in Int
      BY <1>0, <3>2
    <3>7. SumFunctionOnSet(f, R) = SumFunctionOnSet(Parts(R), P)
      BY <3>2
    <3>8. h[x] \in P
      OBVIOUS
    <3> HIDE DEF R, Parts, Q
    <3>9. SumFunctionOnSet(Parts(T), P)
            = SumFunctionOnSet(Parts(R), P) + Parts(T)[h[x]] - Parts(R)[h[x]]
      BY <3>5, <3>6, <3>8, SumUpdate
    <3>10. SumFunctionOnSet(Parts(R), P) \in Int
      BY <3>6, SumIsInt
    <3>11. SumFunctionOnSet(f, T) = SumFunctionOnSet(Parts(T), P)
      BY <3>2, <3>3, <3>4, <3>6, <3>7, <3>8, <3>9, <3>10
    <3> QED
      BY <3>11 DEF Q
  <2> QED
    BY <2>1, <2>2
<1> HIDE DEF Q
<1>2. \A T \in SUBSET S : T \in Q
  BY <1>1, SubsetInduction, Zenon
<1>3. S \in Q
  BY <1>2
<1> QED
  BY <1>3 DEF Q

\* Zeros add up to zero.
THEOREM SumOfZeros ==
  ASSUME NEW f, NEW S, IsFiniteSet(S), \A x \in S : f[x] = 0
  PROVE  SumFunctionOnSet(f, S) = 0
<1>1. SumFunctionOnSet(f, S) \in 0 .. 0 * Cardinality(S)
  BY SumBounded
<1>2. 0 * Cardinality(S) = 0
  BY FS_CardinalityType
<1> QED
  BY <1>1, <1>2

\* The only summand that is not zero is the sum.
THEOREM SumOfOne ==
  ASSUME NEW f, NEW S, IsFiniteSet(S), NEW a \in S, f[a] \in Int,
         \A x \in S : x # a => f[x] = 0
  PROVE  SumFunctionOnSet(f, S) = f[a]
<1> DEFINE zero == [x \in S |-> 0]
<1>1. SumFunctionOnSet(zero, S) = 0
  BY SumOfZeros
<1>2. zero[a] = 0 /\ \A x \in S : zero[x] \in Int /\ (x # a => f[x] = zero[x])
  OBVIOUS
<1> HIDE DEF zero
<1>3. SumFunctionOnSet(f, S) = SumFunctionOnSet(zero, S) + f[a] - zero[a]
  BY <1>2, SumUpdate
<1> QED
  BY <1>1, <1>2, <1>3

\* Summands that are zero can be left out.
THEOREM SumOfTheRest ==
  ASSUME NEW f, NEW S, IsFiniteSet(S), NEW T \in SUBSET S,
         \A x \in S : f[x] \in Int, \A x \in S : x \notin T => f[x] = 0
  PROVE  SumFunctionOnSet(f, S) = SumFunctionOnSet(f, T)
<1> DEFINE Q == {U \in SUBSET S : SumFunctionOnSet(f, U) = SumFunctionOnSet(f, U \cap T)}
<1>1. ASSUME NEW U \in SUBSET S, \A V \in SUBSET U : V # U => V \in Q
      PROVE  U \in Q
  <2>1. CASE U \subseteq T
    <3>1. U \cap T = U
      BY <2>1
    <3> QED
      BY <3>1
  <2>2. CASE ~(U \subseteq T)
    <3>1. PICK x \in U : x \notin T
      BY <2>2
    <3>2. IsFiniteSet(U) /\ f[x] = 0 /\ \A y \in U : f[y] \in Int
      BY <3>1, FS_Subset
    <3>3. SumFunctionOnSet(f, U) = f[x] + SumFunctionOnSet(f, U \ {x})
      BY <3>2, SumRemove
    <3>4. U \ {x} \in Q
      BY <3>1, <1>1
    <3>5. (U \ {x}) \cap T = U \cap T
      BY <3>1
    <3>6. SumFunctionOnSet(f, U \ {x}) \in Int
      <4> DEFINE R == U \ {x}
      <4>1. IsFiniteSet(R) /\ \A y \in R : f[y] \in Int
        BY FS_Subset
      <4> HIDE DEF R
      <4>2. SumFunctionOnSet(f, R) \in Int
        BY <4>1, SumIsInt
      <4> QED
        BY <4>2 DEF R
    <3>7. SumFunctionOnSet(f, U) = SumFunctionOnSet(f, U \ {x})
      BY <3>2, <3>3, <3>6
    <3>8. SumFunctionOnSet(f, U \ {x}) = SumFunctionOnSet(f, U \cap T)
      BY <3>4, <3>5
    <3> QED
      BY <3>7, <3>8
  <2> QED
    BY <2>1, <2>2
<1> HIDE DEF Q
<1>2. \A U \in SUBSET S : U \in Q
  BY <1>1, SubsetInduction, Zenon
<1>3. S \in Q
  BY <1>2
<1>4. S \cap T = T
  OBVIOUS
<1> QED
  BY <1>3, <1>4 DEF Q

\* A sequence with a new first element adds it to its sum.
THEOREM SumOfCons ==
  ASSUME NEW n \in Nat, NEW f, NEW g,
         DOMAIN f = 1 .. n + 1, DOMAIN g = 1 .. n,
         f[1] \in Int, \A i \in 1 .. n : g[i] \in Int /\ f[i + 1] = g[i]
  PROVE  SumFunction(f) = f[1] + SumFunction(g)
<1> DEFINE h == [i \in 1 .. n |-> i + 1]
           R == {h[i] : i \in 1 .. n}
           T == 1 .. n + 1
           D == 1 .. n
<1>1. T \ {1} = R /\ 1 \in T
  <2>1. \A i \in D : h[i] = i + 1 /\ i + 1 \in T /\ i + 1 # 1
    OBVIOUS
  <2>2. \A j \in T \ {1} : j - 1 \in D /\ j = h[j - 1]
    OBVIOUS
  <2>3. R \subseteq T \ {1}
    BY <2>1
  <2>4. T \ {1} \subseteq R
    BY <2>2
  <2>5. 1 \in T
    OBVIOUS
  <2> QED
    BY <2>3, <2>4, <2>5
<1>2. IsFiniteSet(T) /\ IsFiniteSet(D)
  BY FS_Interval
<1>3. \A i \in T : f[i] \in Int
  <2> TAKE i \in T
  <2>1. CASE i = 1
    BY <2>1
  <2>2. CASE i # 1
    <3>1. i - 1 \in 1 .. n /\ i = (i - 1) + 1
      BY <2>2
    <3>2. f[(i - 1) + 1] = g[i - 1] /\ g[i - 1] \in Int
      BY <3>1
    <3> QED
      BY <3>1, <3>2
  <2> QED
    BY <2>1, <2>2
<1>4. /\ \A i, j \in D : h[i] = h[j] => i = j
      /\ \A i \in D : f[h[i]] \in Int /\ g[i] = f[h[i]]
  OBVIOUS
<1>5. SumFunctionOnSet(f, T) = f[1] + SumFunctionOnSet(f, R)
  <2> HIDE DEF T, R
  <2> QED
    BY <1>1, <1>2, <1>3, SumRemove
<1> HIDE DEF h
<1>6. SumFunctionOnSet(g, D) = SumFunctionOnSet(f, R)
  <2>1. R = {h[i] : i \in D}
    OBVIOUS
  <2> HIDE DEF D, R
  <2>2. SumFunctionOnSet(g, D) = SumFunctionOnSet(f, {h[i] : i \in D})
    BY <1>2, <1>4, SumReindexed
  <2> QED
    BY <2>1, <2>2
<1>7. SumFunction(f) = SumFunctionOnSet(f, T) /\ SumFunction(g) = SumFunctionOnSet(g, D)
  BY DEF SumFunction
<1> HIDE DEF T, D, R
<1> QED
  BY <1>5, <1>6, <1>7

-------------------------------------------------------------------------------
\* Counting up: what holds of 0, and of the next number whenever it holds of one, holds
\* of all numbers up to n.
LEMMA CountingUp ==
  ASSUME NEW n \in Nat, NEW Q, 0 \in Q,
         \A i \in 0 .. n : i < n /\ i \in Q => i + 1 \in Q
  PROVE  \A i \in 0 .. n : i \in Q
<1> DEFINE Good == {T \in SUBSET (0 .. n) : \A k \in 0 .. n : T = 0 .. k => T \subseteq Q}
<1>1. ASSUME NEW T \in SUBSET (0 .. n), \A U \in SUBSET T : U # T => U \in Good
      PROVE  T \in Good
  <2>1. SUFFICES ASSUME NEW k \in 0 .. n, T = 0 .. k PROVE T \subseteq Q
    OBVIOUS
  <2>2. CASE k = 0
    <3>1. T = {0}
      BY <2>1, <2>2
    <3> QED
      BY <3>1
  <2>3. CASE k # 0
    <3> DEFINE j == k - 1
    <3>1. j \in 0 .. n /\ j < n /\ j + 1 = k /\ T = (0 .. j) \cup {k} /\ k \notin 0 .. j
      BY <2>1, <2>3
    <3> HIDE DEF j
    <3>2. (0 .. j) \in SUBSET T /\ 0 .. j # T
      BY <3>1
    <3>3. 0 .. j \subseteq Q
      BY <1>1, <3>1, <3>2
    <3>4. j \in 0 .. j
      BY <3>1
    <3> QED
      BY <3>1, <3>3, <3>4
  <2> QED
    BY <2>2, <2>3
<1>2. IsFiniteSet(0 .. n)
  BY FS_Interval
<1> HIDE DEF Good
<1>3. \A T \in SUBSET (0 .. n) : T \in Good
  BY <1>1, <1>2, SubsetInduction, Zenon
<1>4. (0 .. n) \in Good
  BY <1>3
<1> QED
  BY <1>4 DEF Good

\* Recursion: a value to start with and a step for each number ...
Steps(next, n, S) == next \in [(1 .. n) \X S -> S]

\* ... make a function.
Unrolls(f, n, S, base, next) ==
  /\ f \in [0 .. n -> S]
  /\ f[0] = base
  /\ \A i \in 1 .. n : f[i] = next[<<i, f[i - 1]>>]

LEMMA RecursionUpTo ==
  ASSUME NEW n \in Nat, NEW S, NEW base \in S, NEW next, Steps(next, n, S)
  PROVE  \E f : Unrolls(f, n, S, base, next)
<1> USE DEF Steps
<1> DEFINE Solves(f, k) ==
             f = [i \in 0 .. k |-> IF i = 0 THEN base ELSE next[<<i, f[i - 1]>>]]
           Q == {k \in 0 .. n : \E f : Solves(f, k) /\ f \in [0 .. k -> S]}
<1>1. 0 \in Q
  <2> DEFINE f == [i \in 0 .. 0 |-> base]
  <2>1. f \in [0 .. 0 -> S] /\ Solves(f, 0)
    OBVIOUS
  <2>2. 0 \in 0 .. n
    OBVIOUS
  <2> HIDE DEF f, Solves
  <2> QED
    BY <2>1, <2>2
<1>2. ASSUME NEW k \in 0 .. n, k < n, k \in Q PROVE k + 1 \in Q
  <2>1. PICK f : Solves(f, k) /\ f \in [0 .. k -> S]
    BY <1>2
  <2> DEFINE g == [i \in 0 .. k + 1 |-> IF i = k + 1 THEN next[<<i, f[k]>>] ELSE f[i]]
  <2>2. f[k] \in S /\ k + 1 \in 1 .. n /\ k \in Nat
    BY <2>1, <1>2
  <2>3. next[<<k + 1, f[k]>>] \in S
    BY <2>2
  <2>4. g \in [0 .. k + 1 -> S]
    BY <2>1, <2>2, <2>3
  <2>5. ASSUME NEW i \in 0 .. k + 1
        PROVE  g[i] = IF i = 0 THEN base ELSE next[<<i, g[i - 1]>>]
    <3>1. CASE i = 0
      BY <3>1, <2>1, <2>2
    <3>2. CASE i = k + 1
      <4>1. i - 1 \in 0 .. k + 1 /\ i - 1 = k /\ k # k + 1 /\ i # 0
        BY <3>2, <2>2
      <4>2. g[i - 1] = f[k] /\ g[i] = next[<<i, f[k]>>]
        BY <3>2, <4>1
      <4> QED
        BY <4>1, <4>2
    <3>3. CASE i # 0 /\ i # k + 1
      <4>1. i \in 0 .. k /\ i - 1 \in 0 .. k /\ i - 1 \in 0 .. k + 1 /\ i - 1 # k + 1
        BY <3>3, <2>2
      <4>2. f[i] = next[<<i, f[i - 1]>>]
        BY <2>1, <3>3, <4>1
      <4>3. g[i] = f[i] /\ g[i - 1] = f[i - 1]
        BY <3>3, <4>1
      <4> QED
        BY <3>3, <4>2, <4>3
    <3> QED
      BY <3>1, <3>2, <3>3
  <2>6. Solves(g, k + 1)
    <3>1. g = [i \in 0 .. k + 1 |-> g[i]]
      OBVIOUS
    <3> HIDE DEF g
    <3> QED
      BY <2>5, <3>1, Zenon
  <2>7. k + 1 \in 0 .. n
    BY <2>2
  <2> HIDE DEF g, Solves
  <2> QED
    BY <2>4, <2>6, <2>7
<1>3. n \in Q
  <2> HIDE DEF Q
  <2>1. n \in 0 .. n
    OBVIOUS
  <2> QED
    BY <1>1, <1>2, <2>1, CountingUp, Zenon
<1>4. PICK f : Solves(f, n) /\ f \in [0 .. n -> S]
  BY <1>3
<1>5. Unrolls(f, n, S, base, next)
  BY <1>4 DEF Unrolls
<1> QED
  BY <1>5
===============================================================================
