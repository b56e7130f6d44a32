---------------------------------- MODULE Sums ----------------------------------
(***************************************************************************)
(* What the sum of a function over a finite set is: SumFunctionOnSet of    *)
(* the community modules, for which no theorems are installed.  The        *)
(* library's induction over finite sets takes an operator as a parameter,  *)
(* so the one used here is derived from its first-order form: the subsets  *)
(* of a finite set are well founded.                                       *)
(***************************************************************************)
EXTENDS Integers, FiniteSetsExt, FiniteSetTheorems, WellFoundedInduction, TLAPS

--------------------------------------------------------------------------------
(* The recursive function behind the sum exists and is unique.              *)

\* f adds up p over the subsets of S, one picked element at a time.
Pick(s) == CHOOSE x \in s : TRUE
Unfolds(p, S, f) ==
  f = [s \in SUBSET S |-> IF s = {} THEN 0 ELSE p[Pick(s)] + f[s \ {Pick(s)}]]
Fold(p, S) == CHOOSE f : Unfolds(p, S, f)

\* The sum of the community modules is that function at the whole set.
LEMMA SumIsFold == ASSUME NEW p, NEW S PROVE SumFunctionOnSet(p, S) = Fold(p, S)[S]
BY Zenon DEF SumFunctionOnSet, FoldFunctionOnSet, MapThenFoldSet, Fold, Unfolds, Pick

\* Induction over the subsets of a finite set: what holds of every subset whose
\* strict subsets it holds of, holds of the set.  B is the set of those it holds
\* of, so that no step takes an operator as a parameter.
LEMMA FiniteInduction ==
  ASSUME NEW S, IsFiniteSet(S), NEW B \in SUBSET (SUBSET S),
         \A T \in SUBSET S : (\A U \in SUBSET T : U # T => U \in B) => T \in B
  PROVE  S \in B
<1> DEFINE R    == StrictSubsetOrdering(S)
           Rest == (SUBSET S) \ B
<1> SUFFICES ASSUME S \notin B PROVE FALSE
  OBVIOUS
<1>1. Rest # {} /\ Rest \subseteq SUBSET S
  OBVIOUS
<1>2. IsWellFoundedOn(R, FiniteSubsetsOf(S))
  BY FS_StrictSubsetOrderingWellFounded
<1>3. IsWellFoundedOn(R, SUBSET S)
  BY <1>2, FS_FiniteSubsetsOfFinite
<1> HIDE DEF R, Rest
<1>4. PICK T \in Rest : \A U \in Rest : ~(<<U, T>> \in R)
  BY <1>1, <1>3, WFMin
<1>5. T \subseteq S /\ T \notin B
  BY DEF Rest
<1>6. \A U \in SUBSET T : U # T => U \in B
  BY <1>4, <1>5 DEF StrictSubsetOrdering, R, Rest
<1> QED
  BY <1>5, <1>6

\* Two functions that add up agree on the finite sets that both know.
LEMMA FoldsAgree ==
  ASSUME NEW p, NEW S, NEW T \in SUBSET S, NEW U \in SUBSET T, IsFiniteSet(U),
         NEW f, Unfolds(p, S, f), NEW g, Unfolds(p, T, g)
  PROVE  f[U] = g[U]
<1> DEFINE B == {V \in SUBSET U : f[V] = g[V]}
<1>1. ASSUME NEW V \in SUBSET U, \A W \in SUBSET V : W # V => W \in B
      PROVE  V \in B
  <2>1. /\ f[V] = IF V = {} THEN 0 ELSE p[Pick(V)] + f[V \ {Pick(V)}]
        /\ g[V] = IF V = {} THEN 0 ELSE p[Pick(V)] + g[V \ {Pick(V)}]
    BY DEF Unfolds
  <2>2. V # {} => Pick(V) \in V
    BY DEF Pick
  <2>3. V # {} => V \ {Pick(V)} \in B
    BY <1>1, <2>2
  <2>4. QED
    BY <2>1, <2>3
<1> HIDE DEF B
<1>2. B \in SUBSET (SUBSET U)
  BY DEF B
<1>3. U \in B
  BY <1>1, <1>2, FiniteInduction
<1>4. QED
  BY <1>3 DEF B

\* There is a function that adds up over the subsets of a finite set.
LEMMA FoldUnfolds ==
  ASSUME NEW p, NEW S, IsFiniteSet(S)
  PROVE  Unfolds(p, S, Fold(p, S))
<1> DEFINE B == {T \in SUBSET S : Unfolds(p, T, Fold(p, T))}
<1>1. ASSUME NEW T \in SUBSET S, \A U \in SUBSET T : U # T => U \in B
      PROVE  T \in B
  <2> DEFINE smaller(s) == Fold(p, s \ {Pick(s)})[s \ {Pick(s)}]
             g == [s \in SUBSET T |-> IF s = {} THEN 0 ELSE p[Pick(s)] + smaller(s)]
  <2>1. \A s \in SUBSET T : s # {} => /\ Pick(s) \in s
                                      /\ s \ {Pick(s)} \in SUBSET T
                                      /\ s \ {Pick(s)} # T
    BY DEF Pick
  <2>2. ASSUME NEW u \in SUBSET T, u # T PROVE g[u] = Fold(p, u)[u]
    <3>1. Unfolds(p, u, Fold(p, u))
      BY <1>1, <2>2
    <3>2. Fold(p, u)[u] = IF u = {} THEN 0
                          ELSE p[Pick(u)] + Fold(p, u)[u \ {Pick(u)}]
      BY <3>1, u \in SUBSET u DEF Unfolds
    <3>3. ASSUME u # {} PROVE Fold(p, u)[u \ {Pick(u)}] = smaller(u)
      <4> DEFINE v == u \ {Pick(u)}
      <4>1. Unfolds(p, v, Fold(p, v))
        BY <1>1, <2>1, <3>3
      <4>2. IsFiniteSet(v) /\ v \in SUBSET u /\ v \in SUBSET v
        BY FS_Subset
      <4> HIDE DEF v
      <4>3. Fold(p, u)[v] = Fold(p, v)[v]
        BY <3>1, <4>1, <4>2, FoldsAgree
      <4>4. QED
        BY <4>3 DEF v
    <3>4. QED
      BY <3>2, <3>3
  <2>3. \A s \in SUBSET T : s # {} => g[s \ {Pick(s)}] = smaller(s)
    BY <2>1, <2>2
  <2>4. Unfolds(p, T, g)
    <3> DEFINE sum(s) == IF s = {} THEN 0 ELSE p[Pick(s)] + g[s \ {Pick(s)}]
    <3>1. \A s \in SUBSET T : g[s] = sum(s)
      BY <2>3
    <3>2. g = [s \in SUBSET T |-> g[s]]
      OBVIOUS
    <3> HIDE DEF g
    <3>3. g = [s \in SUBSET T |-> sum(s)]
      BY <3>1, <3>2
    <3>4. QED
      BY <3>3 DEF Unfolds
  <2> HIDE DEF g
  <2>5. Unfolds(p, T, Fold(p, T))
    BY <2>4 DEF Fold
  <2>6. QED
    BY <2>5
<1> HIDE DEF B
<1>2. B \in SUBSET (SUBSET S)
  BY DEF B
<1>3. S \in B
  BY <1>1, <1>2, FiniteInduction
<1>4. QED
  BY <1>3 DEF B

--------------------------------------------------------------------------------
(* What the sum does.                                                       *)

\* The sum of a set: nothing, or one picked value and the rest.
LEMMA SumUnfolds ==
  ASSUME NEW p, NEW S, IsFiniteSet(S)
  PROVE  /\ S = {} => SumFunctionOnSet(p, S) = 0
         /\ S # {} => /\ Pick(S) \in S
                      /\ SumFunctionOnSet(p, S) = p[Pick(S)] + SumFunctionOnSet(p, S \ {Pick(S)})
<1> DEFINE R == S \ {Pick(S)}
<1>1. Unfolds(p, S, Fold(p, S)) /\ S \in SUBSET S
  BY FoldUnfolds
<1>2. Fold(p, S)[S] = IF S = {} THEN 0 ELSE p[Pick(S)] + Fold(p, S)[R]
  BY <1>1 DEF Unfolds
<1>3. S # {} => Pick(S) \in S
  BY DEF Pick
<1>4. R \in SUBSET S /\ IsFiniteSet(R) /\ R \in SUBSET R
  BY FS_Subset
<1>5. Unfolds(p, R, Fold(p, R))
  BY <1>4, FoldUnfolds
<1> HIDE DEF R
<1>6. Fold(p, S)[R] = Fold(p, R)[R]
  BY <1>1, <1>4, <1>5, FoldsAgree
<1>7. SumFunctionOnSet(p, S) = Fold(p, S)[S] /\ SumFunctionOnSet(p, R) = Fold(p, R)[R]
  BY SumIsFold
<1>8. QED
  BY <1>2, <1>3, <1>6, <1>7 DEF R

\* A sum of integers is an integer.
LEMMA SumTyped ==
  ASSUME NEW p, NEW S, IsFiniteSet(S), \A i \in S : p[i] \in Int
  PROVE  SumFunctionOnSet(p, S) \in Int
<1> DEFINE B == {T \in SUBSET S : SumFunctionOnSet(p, T) \in Int}
<1>1. ASSUME NEW T \in SUBSET S, \A U \in SUBSET T : U # T => U \in B
      PROVE  T \in B
  <2>1. IsFiniteSet(T)
    BY FS_Subset
  <2>2. CASE T = {}
    <3>1. SumFunctionOnSet(p, T) = 0
      BY <2>1, <2>2, SumUnfolds
    <3>2. QED
      BY <3>1
  <2>3. CASE T # {}
    <3>1. Pick(T) \in T /\ SumFunctionOnSet(p, T) = p[Pick(T)] + SumFunctionOnSet(p, T \ {Pick(T)})
      BY <2>1, <2>3, SumUnfolds
    <3>2. T \ {Pick(T)} \in B
      BY <1>1, <3>1
    <3>3. QED
      BY <3>1, <3>2
  <2>4. QED
    BY <2>2, <2>3
<1> HIDE DEF B
<1>2. B \in SUBSET (SUBSET S)
  BY DEF B
<1>3. S \in B
  BY <1>1, <1>2, FiniteInduction
<1>4. QED
  BY <1>3 DEF B

\* Any one value can be taken out of a sum.
LEMMA SumWithout ==
  ASSUME NEW p, NEW S, IsFiniteSet(S), \A i \in S : p[i] \in Int, NEW x \in S
  PROVE  SumFunctionOnSet(p, S) = p[x] + SumFunctionOnSet(p, S \ {x})
<1> DEFINE B == {T \in SUBSET S : \A y \in T : SumFunctionOnSet(p, T) = p[y] + SumFunctionOnSet(p, T \ {y})}
<1>1. ASSUME NEW T \in SUBSET S, \A U \in SUBSET T : U # T => U \in B
      PROVE  T \in B
  <2> SUFFICES ASSUME NEW y \in T
               PROVE  SumFunctionOnSet(p, T) = p[y] + SumFunctionOnSet(p, T \ {y})
    BY DEF B
  <2> DEFINE z == Pick(T)
  <2>1. IsFiniteSet(T)
    BY FS_Subset
  <2>2. z \in T /\ SumFunctionOnSet(p, T) = p[z] + SumFunctionOnSet(p, T \ {z})
    BY <2>1, SumUnfolds
  <2>3. T \ {y} \in B /\ T \ {z} \in B
    BY <1>1, <2>2
  <2> HIDE DEF z
  <2>4. CASE y = z
    BY <2>2, <2>4
  <2>5. CASE y # z
    <3> DEFINE R == T \ {y, z}
    <3>1. (T \ {y}) \ {z} = R /\ (T \ {z}) \ {y} = R
      OBVIOUS
    <3>2. y \in T \ {z} /\ z \in T \ {y}
      BY <2>2, <2>5
    <3>3. \A a \in T \ {z} : SumFunctionOnSet(p, T \ {z}) = p[a] + SumFunctionOnSet(p, (T \ {z}) \ {a})
      BY <2>3
    <3>4. \A a \in T \ {y} : SumFunctionOnSet(p, T \ {y}) = p[a] + SumFunctionOnSet(p, (T \ {y}) \ {a})
      BY <2>3
    <3>5. SumFunctionOnSet(p, T \ {z}) = p[y] + SumFunctionOnSet(p, R)
      BY <3>1, <3>2, <3>3
    <3>6. SumFunctionOnSet(p, T \ {y}) = p[z] + SumFunctionOnSet(p, R)
      BY <3>1, <3>2, <3>4
    <3>7. IsFiniteSet(R) /\ R \subseteq S
      BY <2>1, FS_Subset
    <3> HIDE DEF R
    <3>8. SumFunctionOnSet(p, R) \in Int
      BY <3>7, SumTyped
    <3>9. QED
      BY <2>2, <3>5, <3>6, <3>8
  <2>6. QED
    BY <2>4, <2>5
<1> HIDE DEF B
<1>2. B \in SUBSET (SUBSET S)
  BY DEF B
<1>3. S \in B
  BY <1>1, <1>2, FiniteInduction
<1>4. QED
  BY <1>3 DEF B

\* Sums are monotonic in the values.
LEMMA SumMonotone ==
  ASSUME NEW p, NEW q, NEW S, IsFiniteSet(S),
         \A i \in S : /\ p[i] \in Int
                      /\ q[i] \in Int
                      /\ p[i] <= q[i]
  PROVE  SumFunctionOnSet(p, S) <= SumFunctionOnSet(q, S)
<1> DEFINE B == {T \in SUBSET S : SumFunctionOnSet(p, T) <= SumFunctionOnSet(q, T)}
<1>1. ASSUME NEW T \in SUBSET S, \A U \in SUBSET T : U # T => U \in B
      PROVE  T \in B
  <2>1. IsFiniteSet(T)
    BY FS_Subset
  <2>2. CASE T = {}
    <3>1. SumFunctionOnSet(p, T) = 0 /\ SumFunctionOnSet(q, T) = 0
      BY <2>1, <2>2, SumUnfolds
    <3>2. QED
      BY <3>1
  <2>3. CASE T # {}
    <3>1. PICK x \in T : TRUE
      BY <2>3
    <3>2. /\ SumFunctionOnSet(p, T) = p[x] + SumFunctionOnSet(p, T \ {x})
          /\ SumFunctionOnSet(q, T) = q[x] + SumFunctionOnSet(q, T \ {x})
      BY <2>1, SumWithout
    <3>3. SumFunctionOnSet(p, T \ {x}) <= SumFunctionOnSet(q, T \ {x})
      BY <1>1
    <3>4. IsFiniteSet(T \ {x})
      BY <2>1, FS_Subset
    <3>5. SumFunctionOnSet(p, T \ {x}) \in Int /\ SumFunctionOnSet(q, T \ {x}) \in Int
      BY <3>4, SumTyped
    <3>6. QED
      BY <3>2, <3>3, <3>5
  <2>4. QED
    BY <2>2, <2>3
<1> HIDE DEF B
<1>2. B \in SUBSET (SUBSET S)
  BY DEF B
<1>3. S \in B
  BY <1>1, <1>2, FiniteInduction
<1>4. QED
  BY <1>3 DEF B

\* Equal functions have equal sums.
LEMMA SumSame ==
  ASSUME NEW p, NEW q, NEW S, IsFiniteSet(S),
         \A i \in S : p[i] \in Int /\ q[i] = p[i]
  PROVE  SumFunctionOnSet(p, S) = SumFunctionOnSet(q, S)
<1>1. SumFunctionOnSet(p, S) <= SumFunctionOnSet(q, S) /\ SumFunctionOnSet(q, S) <= SumFunctionOnSet(p, S)
  BY SumMonotone
<1>2. SumFunctionOnSet(p, S) \in Int /\ SumFunctionOnSet(q, S) \in Int
  BY SumTyped
<1>3. QED
  BY <1>1, <1>2

\* Changing one value changes the sum by as much.
LEMMA SumChanged ==
  ASSUME NEW p, NEW q, NEW S, IsFiniteSet(S),
         \A i \in S : p[i] \in Int /\ q[i] \in Int,
         NEW x \in S, \A i \in S \ {x} : q[i] = p[i]
  PROVE  SumFunctionOnSet(q, S) = SumFunctionOnSet(p, S) + q[x] - p[x]
<1> DEFINE R == S \ {x}
<1>1. IsFiniteSet(R) /\ R \subseteq S
  BY FS_Subset
<1>2. SumFunctionOnSet(p, S) = p[x] + SumFunctionOnSet(p, R) /\ SumFunctionOnSet(q, S) = q[x] + SumFunctionOnSet(q, R)
  BY SumWithout
<1>3. \A i \in R : p[i] \in Int /\ q[i] = p[i]
  OBVIOUS
<1> HIDE DEF R
<1>4. SumFunctionOnSet(p, R) = SumFunctionOnSet(q, R) /\ SumFunctionOnSet(p, R) \in Int
  BY <1>1, <1>3, SumSame, SumTyped
<1>5. QED
  BY <1>2, <1>4

\* Values that are zero outside a set add up to the sum over that set.
LEMMA SumPadded ==
  ASSUME NEW p, NEW q, NEW S, IsFiniteSet(S), NEW T \in SUBSET S,
         \A i \in T : p[i] \in Int /\ q[i] = p[i],
         \A i \in S \ T : q[i] = 0
  PROVE  SumFunctionOnSet(q, S) = SumFunctionOnSet(p, T)
<1> DEFINE B == {U \in SUBSET S : SumFunctionOnSet(q, U) = SumFunctionOnSet(p, U \cap T)}
<1>1. ASSUME NEW U \in SUBSET S, \A V \in SUBSET U : V # U => V \in B
      PROVE  U \in B
  <2>1. IsFiniteSet(U) /\ IsFiniteSet(U \cap T)
    BY FS_Subset
  <2>2. CASE U = {}
    <3>1. U \cap T = {}
      BY <2>2
    <3>2. QED
      BY <2>1, <2>2, <3>1, SumUnfolds
  <2>3. CASE U # {}
    <3>1. PICK x \in U : TRUE
      BY <2>3
    <3>2. SumFunctionOnSet(q, U) = q[x] + SumFunctionOnSet(q, U \ {x})
      BY <2>1, SumWithout
    <3>3. SumFunctionOnSet(q, U \ {x}) = SumFunctionOnSet(p, (U \ {x}) \cap T)
      BY <1>1
    <3>4. CASE x \in T
      <4>1. SumFunctionOnSet(p, U \cap T) = p[x] + SumFunctionOnSet(p, (U \cap T) \ {x})
        BY <2>1, <3>4, SumWithout
      <4>2. (U \cap T) \ {x} = (U \ {x}) \cap T
        OBVIOUS
      <4>3. QED
        BY <3>2, <3>3, <3>4, <4>1, <4>2
    <3>5. CASE x \notin T
      <4>1. (U \ {x}) \cap T = U \cap T
        BY <3>5
      <4>2. SumFunctionOnSet(p, U \cap T) \in Int
        BY <2>1, SumTyped
      <4>3. SumFunctionOnSet(q, U \ {x}) = SumFunctionOnSet(p, U \cap T)
        BY <3>3, <4>1
      <4>4. SumFunctionOnSet(q, U) = SumFunctionOnSet(p, U \cap T)
        BY <3>2, <3>5, <4>2, <4>3
      <4>5. QED
        BY <4>4
    <3>6. QED
      BY <3>4, <3>5
  <2>4. QED
    BY <2>2, <2>3
<1> HIDE DEF B
<1>2. B \in SUBSET (SUBSET S)
  BY DEF B
<1>3. S \in B
  BY <1>1, <1>2, FiniteInduction
<1>4. S \cap T = T
  OBVIOUS
<1>5. QED
  BY <1>3, <1>4 DEF B

\* A sum of ones counts.
LEMMA SumCounts ==
  ASSUME NEW p, NEW S, IsFiniteSet(S), \A i \in S : p[i] = 1
  PROVE  SumFunctionOnSet(p, S) = Cardinality(S)
<1> DEFINE B == {T \in SUBSET S : SumFunctionOnSet(p, T) = Cardinality(T)}
<1>1. ASSUME NEW T \in SUBSET S, \A U \in SUBSET T : U # T => U \in B
      PROVE  T \in B
  <2>1. IsFiniteSet(T)
    BY FS_Subset
  <2>2. CASE T = {}
    <3>1. SumFunctionOnSet(p, T) = 0 /\ Cardinality(T) = 0
      BY <2>1, <2>2, SumUnfolds, FS_EmptySet
    <3>2. QED
      BY <3>1
  <2>3. CASE T # {}
    <3>1. PICK x \in T : TRUE
      BY <2>3
    <3>2. SumFunctionOnSet(p, T) = 1 + SumFunctionOnSet(p, T \ {x})
      BY <2>1, SumWithout
    <3>3. SumFunctionOnSet(p, T \ {x}) = Cardinality(T \ {x})
      BY <1>1
    <3>4. Cardinality(T \ {x}) = Cardinality(T) - 1 /\ Cardinality(T) \in Nat
      BY <2>1, FS_RemoveElement, FS_CardinalityType
    <3>5. QED
      BY <3>2, <3>3, <3>4
  <2>4. QED
    BY <2>2, <2>3
<1> HIDE DEF B
<1>2. B \in SUBSET (SUBSET S)
  BY DEF B
<1>3. S \in B
  BY <1>1, <1>2, FiniteInduction
<1>4. QED
  BY <1>3 DEF B

\* No value is more than the sum of natural numbers it is part of.
LEMMA SumBoundsEach ==
  ASSUME NEW p, NEW S, IsFiniteSet(S), \A i \in S : p[i] \in Nat, NEW x \in S
  PROVE  p[x] <= SumFunctionOnSet(p, S)
<1> DEFINE R    == S \ {x}
           none == [i \in R |-> 0]
<1>1. IsFiniteSet(R)
  BY FS_Subset
<1>2. SumFunctionOnSet(p, S) = p[x] + SumFunctionOnSet(p, R)
  BY SumWithout
<1>3. /\ \A i \in R : none[i] = 0
      /\ \A i \in R : none[i] \in Int /\ p[i] \in Int /\ none[i] <= p[i]
  OBVIOUS
<1> HIDE DEF R, none
<1>4. SumFunctionOnSet(none, R) = SumFunctionOnSet(none, {})
  <2>1. {} \in SUBSET R
    OBVIOUS
  <2>2. QED
    BY <1>1, <1>3, <2>1, SumPadded
<1>5. SumFunctionOnSet(none, {}) = 0
  BY SumUnfolds, FS_EmptySet
<1>6. SumFunctionOnSet(none, R) <= SumFunctionOnSet(p, R)
  BY <1>1, <1>3, SumMonotone
<1>7. SumFunctionOnSet(p, R) \in Int
  BY <1>1, <1>3, SumTyped
<1>8. QED
  BY <1>2, <1>4, <1>5, <1>6, <1>7

\* The sum over the values of an operator is the sum of the function.
LEMMA SumOfValues ==
  ASSUME NEW p, NEW S
  PROVE  MapThenSumSet(LAMBDA i : p[i], S) = SumFunctionOnSet(p, S)
BY Zenon DEF MapThenSumSet, SumFunctionOnSet, FoldFunctionOnSet, MapThenFoldSet

================================================================================
