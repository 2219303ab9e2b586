--------------------------------- MODULE Sums ---------------------------------
(***************************************************************************)
(* Sums of functions over finite sets, as Functions!SumFunctionOnSet       *)
(* defines them: a fold in an unspecified order.  The lemmas say that the  *)
(* order does not matter and what one element contributes.  They are       *)
(* proved by the smallest set for which they would not hold.               *)
(***************************************************************************)
EXTENDS Functions, FiniteSetTheorems, TLAPS

\* In every set of subsets of a finite set there is a smallest one.
LEMMA SmallestSet ==
  ASSUME NEW S, IsFiniteSet(S), NEW X, X \subseteq SUBSET S, X # {}
  PROVE  \E s \in X : \A t \in X : t \subseteq s => t = s
<1>1. IsWellFoundedOn(StrictSubsetOrdering(S), SUBSET S)
  BY FS_StrictSubsetOrderingWellFounded, FS_FiniteSubsetsOfFinite
<1>2. PICK s \in X : \A t \in X : ~(<<t, s>> \in StrictSubsetOrdering(S))
  BY <1>1, WFMin
<1>3. ASSUME NEW t \in X, t \subseteq s, t # s
      PROVE  <<t, s>> \in StrictSubsetOrdering(S)
  BY <1>3 DEF StrictSubsetOrdering
<1>4. ASSUME NEW t \in X, t \subseteq s
      PROVE  t = s
  BY <1>2, <1>3, <1>4
<1> QED  BY <1>4

-----------------------------------------------------------------------------
(* The fold is what its recursive definition says *)

Pick(s) == CHOOSE x \in s : TRUE
Rest(s) == s \ {Pick(s)}

\* The function that the fold of f over S chooses.
Iterates(g, f, S) ==
  g = [s \in SUBSET S |-> IF s = {} THEN 0 ELSE f[Pick(s)] + g[Rest(s)]]

LEMMA PickIn ==
  ASSUME NEW s, s # {}
  PROVE  Pick(s) \in s /\ Rest(s) \subseteq s /\ Rest(s) # s
BY DEF Pick, Rest

LEMMA FoldOfIterates ==
  ASSUME NEW f, NEW S
  PROVE  SumFunctionOnSet(f, S) = (CHOOSE g : Iterates(g, f, S))[S]
BY DEF SumFunctionOnSet, FoldFunctionOnSet, MapThenFoldSet, Iterates, Pick, Rest

\* There is at most one.
LEMMA IteratesAgree ==
  ASSUME NEW f, NEW S, IsFiniteSet(S), NEW T, S \subseteq T, NEW g, NEW h,
         Iterates(g, f, T), Iterates(h, f, S)
  PROVE  \A s \in SUBSET S : g[s] = h[s]
<1> DEFINE X == {s \in SUBSET S : g[s] # h[s]}
<1> SUFFICES ASSUME X # {} PROVE FALSE
  OBVIOUS
<1>1. PICK s \in X : \A t \in X : t \subseteq s => t = s
  <2>1. X \subseteq SUBSET S /\ X # {}
    OBVIOUS
  <2> HIDE DEF X
  <2> QED  BY <2>1, SmallestSet
<1>2. /\ g[s] = IF s = {} THEN 0 ELSE f[Pick(s)] + g[Rest(s)]
      /\ h[s] = IF s = {} THEN 0 ELSE f[Pick(s)] + h[Rest(s)]
  <2>1. s \in SUBSET T /\ s \in SUBSET S
    OBVIOUS
  <2> QED  BY <2>1 DEF Iterates
<1>3. s # {}
  BY <1>2
<1>4. Rest(s) \in SUBSET S /\ Rest(s) \notin X
  BY <1>1, <1>3, PickIn
<1> QED  BY <1>2, <1>3, <1>4

\* There is one.
LEMMA IteratesExist ==
  ASSUME NEW f, NEW S, IsFiniteSet(S)
  PROVE  \E g : Iterates(g, f, S)
<1> DEFINE X == {T \in SUBSET S : ~\E g : Iterates(g, f, T)}
<1> SUFFICES ASSUME X # {} PROVE FALSE
  OBVIOUS
<1>1. PICK T \in X : \A t \in X : t \subseteq T => t = T
  <2>1. X \subseteq SUBSET S /\ X # {}
    OBVIOUS
  <2> HIDE DEF X
  <2> QED  BY <2>1, SmallestSet
<1> DEFINE G(t) == CHOOSE g : Iterates(g, f, t)
           g == [s \in SUBSET T |-> IF s = {} THEN 0 ELSE f[Pick(s)] + G(Rest(s))[Rest(s)]]
<1>2. ASSUME NEW t \in SUBSET T, t # T
      PROVE  Iterates(G(t), f, t)
  <2>1. t \in SUBSET S /\ t \notin X
    BY <1>1, <1>2
  <2>2. \E k : Iterates(k, f, t)
    BY <2>1
  <2> QED  BY <2>2
<1> HIDE DEF G
<1>3. ASSUME NEW u \in SUBSET T, u # T
      PROVE  g[u] = G(u)[u]
  <2>1. CASE u = {}
    BY <1>2, <1>3, <2>1 DEF Iterates
  <2>2. CASE u # {}
    <3>1. Rest(u) \subseteq u /\ Rest(u) # u /\ Rest(u) \in SUBSET T /\ Rest(u) # T
      BY <2>2, PickIn
    <3>2. Iterates(G(u), f, u) /\ Iterates(G(Rest(u)), f, Rest(u))
      BY <1>2, <1>3, <3>1
    <3>3. G(u)[Rest(u)] = G(Rest(u))[Rest(u)]
      <4>1. IsFiniteSet(Rest(u))
        BY <3>1, FS_Subset
      <4> QED  BY <3>1, <3>2, <4>1, IteratesAgree
    <3>4. G(u)[u] = f[Pick(u)] + G(u)[Rest(u)]
      BY <2>2, <3>2 DEF Iterates
    <3> QED  BY <2>2, <3>3, <3>4
  <2> QED  BY <2>1, <2>2
<1>4. ASSUME NEW s \in SUBSET T, s # {}
      PROVE  g[s] = f[Pick(s)] + g[Rest(s)]
  <2>1. Rest(s) \in SUBSET T /\ Rest(s) # T
    BY <1>4, PickIn
  <2>2. g[Rest(s)] = G(Rest(s))[Rest(s)]
    BY <1>3, <2>1
  <2> QED  BY <1>4, <2>2
<1>5. Iterates(g, f, T)
  <2>1. g[{}] = 0
    OBVIOUS
  <2>2. \A s \in SUBSET T : g[s] = IF s = {} THEN 0 ELSE f[Pick(s)] + g[Rest(s)]
    BY <1>4, <2>1
  <2>3. g = [s \in SUBSET T |-> g[s]]
    OBVIOUS
  <2> HIDE DEF g
  <2>4. g = [s \in SUBSET T |-> IF s = {} THEN 0 ELSE f[Pick(s)] + g[Rest(s)]]
    BY <2>2, <2>3
  <2> QED  BY <2>4 DEF Iterates
<1> QED  BY <1>5

\* A sum over nothing, and over something.
LEMMA SumEmpty ==
  ASSUME NEW f
  PROVE  SumFunctionOnSet(f, {}) = 0
<1>1. Iterates(CHOOSE g : Iterates(g, f, {}), f, {})
  BY IteratesExist, FS_EmptySet
<1> QED  BY <1>1, FoldOfIterates DEF Iterates

LEMMA SumPick ==
  ASSUME NEW f, NEW S, IsFiniteSet(S), S # {}
  PROVE  SumFunctionOnSet(f, S) = f[Pick(S)] + SumFunctionOnSet(f, Rest(S))
<1> DEFINE g == CHOOSE k : Iterates(k, f, S)
           h == CHOOSE k : Iterates(k, f, Rest(S))
<1>1. IsFiniteSet(Rest(S)) /\ Rest(S) \subseteq S
  BY PickIn, FS_Subset
<1>2. Iterates(g, f, S) /\ Iterates(h, f, Rest(S))
  BY <1>1, IteratesExist
<1>3. SumFunctionOnSet(f, S) = g[S] /\ SumFunctionOnSet(f, Rest(S)) = h[Rest(S)]
  BY FoldOfIterates
<1> HIDE DEF g, h
<1>4. g[Rest(S)] = h[Rest(S)]
  BY <1>1, <1>2, IteratesAgree
<1>5. g[S] = f[Pick(S)] + g[Rest(S)]
  BY <1>2 DEF Iterates
<1> QED  BY <1>3, <1>4, <1>5
-----------------------------------------------------------------------------
(* Sums of naturals *)

\* f is a natural number on every element of S.
NatOn(f, S) == \A x \in S : f[x] \in Nat

LEMMA SumType ==
  ASSUME NEW f, NEW S, IsFiniteSet(S), NatOn(f, S)
  PROVE  SumFunctionOnSet(f, S) \in Nat
<1> DEFINE X == {T \in SUBSET S : SumFunctionOnSet(f, T) \notin Nat}
<1> SUFFICES ASSUME X # {} PROVE FALSE
  OBVIOUS
<1>1. PICK T \in X : \A t \in X : t \subseteq T => t = T
  <2>1. X \subseteq SUBSET S /\ X # {}
    OBVIOUS
  <2> HIDE DEF X
  <2> QED  BY <2>1, SmallestSet
<1>2. T # {} /\ IsFiniteSet(T)
  <2>1. SumFunctionOnSet(f, {}) \in Nat
    BY SumEmpty
  <2>2. T # {}
    BY <1>1, <2>1
  <2>3. IsFiniteSet(T)
    BY FS_Subset
  <2> QED  BY <2>2, <2>3
<1>3. Pick(T) \in S /\ Rest(T) \in SUBSET S /\ Rest(T) \notin X
  BY <1>1, <1>2, PickIn
<1>4. SumFunctionOnSet(f, T) = f[Pick(T)] + SumFunctionOnSet(f, Rest(T))
  BY <1>2, SumPick
<1>5. f[Pick(T)] \in Nat /\ SumFunctionOnSet(f, Rest(T)) \in Nat
  BY <1>3 DEF NatOn
<1>6. SumFunctionOnSet(f, T) \in Nat
  BY <1>4, <1>5
<1> QED  BY <1>1, <1>6

\* What an element contributes does not depend on when it is picked.
LEMMA SumElement ==
  ASSUME NEW f, NEW S, IsFiniteSet(S), NatOn(f, S), NEW x \in S
  PROVE  SumFunctionOnSet(f, S) = f[x] + SumFunctionOnSet(f, S \ {x})
<1> DEFINE X == {T \in SUBSET S : \E y \in T :
                   SumFunctionOnSet(f, T) # f[y] + SumFunctionOnSet(f, T \ {y})}
<1> SUFFICES ASSUME X # {} PROVE FALSE
  OBVIOUS
<1>1. PICK T \in X : \A t \in X : t \subseteq T => t = T
  <2>1. X \subseteq SUBSET S /\ X # {}
    OBVIOUS
  <2> HIDE DEF X
  <2> QED  BY <2>1, SmallestSet
<1>2. PICK y \in T : SumFunctionOnSet(f, T) # f[y] + SumFunctionOnSet(f, T \ {y})
  BY <1>1
<1> DEFINE p == Pick(T)
           U == T \ {p, y}
<1>3. /\ IsFiniteSet(T) /\ IsFiniteSet(U) /\ IsFiniteSet(T \ {y})
      /\ IsFiniteSet(T \ {p}) /\ T # {} /\ p \in T /\ Rest(T) = T \ {p}
  BY <1>1, <1>2, PickIn, FS_Subset DEF Rest
<1>4. SumFunctionOnSet(f, T) = f[p] + SumFunctionOnSet(f, T \ {p})
  BY <1>3, SumPick
<1>5. p # y
  BY <1>2, <1>4
<1>6. SumFunctionOnSet(f, T \ {p}) = f[y] + SumFunctionOnSet(f, U)
  <2>1. T \ {p} \notin X /\ T \ {p} \in SUBSET S /\ y \in T \ {p}
    BY <1>1, <1>2, <1>3, <1>5
  <2>2. (T \ {p}) \ {y} = U
    OBVIOUS
  <2> QED  BY <2>1, <2>2
<1>7. SumFunctionOnSet(f, T \ {y}) = f[p] + SumFunctionOnSet(f, U)
  <2>1. T \ {y} \notin X /\ T \ {y} \in SUBSET S /\ p \in T \ {y}
    BY <1>1, <1>2, <1>3, <1>5
  <2>2. (T \ {y}) \ {p} = U
    OBVIOUS
  <2> QED  BY <2>1, <2>2
<1>8. f[p] \in Nat /\ f[y] \in Nat /\ SumFunctionOnSet(f, U) \in Nat
  BY <1>1, <1>2, <1>3, SumType DEF NatOn
<1> HIDE DEF p, U
<1> QED  BY <1>2, <1>4, <1>6, <1>7, <1>8

\* A function that is nowhere larger has no larger sum.
LEMMA SumMonotonic ==
  ASSUME NEW f, NEW g, NEW S, IsFiniteSet(S), NatOn(f, S), NatOn(g, S),
         \A x \in S : f[x] <= g[x]
  PROVE  SumFunctionOnSet(f, S) <= SumFunctionOnSet(g, S)
<1> DEFINE X == {T \in SUBSET S : ~(SumFunctionOnSet(f, T) <= SumFunctionOnSet(g, T))}
<1> SUFFICES ASSUME X # {} PROVE FALSE
  OBVIOUS
<1>1. PICK T \in X : \A t \in X : t \subseteq T => t = T
  <2>1. X \subseteq SUBSET S /\ X # {}
    OBVIOUS
  <2> HIDE DEF X
  <2> QED  BY <2>1, SmallestSet
<1>2. IsFiniteSet(T) /\ T # {}
  <2>1. SumFunctionOnSet(f, {}) = 0 /\ SumFunctionOnSet(g, {}) = 0
    BY SumEmpty
  <2>2. SumFunctionOnSet(f, {}) <= SumFunctionOnSet(g, {})
    BY <2>1
  <2>3. T # {}
    BY <1>1, <2>2
  <2> QED  BY <2>3, FS_Subset
<1>3. /\ Pick(T) \in S /\ Rest(T) \in SUBSET S /\ Rest(T) \notin X
      /\ IsFiniteSet(Rest(T))
  BY <1>1, <1>2, PickIn, FS_Subset
<1>4. /\ SumFunctionOnSet(f, T) = f[Pick(T)] + SumFunctionOnSet(f, Rest(T))
      /\ SumFunctionOnSet(g, T) = g[Pick(T)] + SumFunctionOnSet(g, Rest(T))
  BY <1>2, SumPick
<1>5. /\ f[Pick(T)] \in Nat /\ g[Pick(T)] \in Nat /\ f[Pick(T)] <= g[Pick(T)]
      /\ SumFunctionOnSet(f, Rest(T)) \in Nat /\ SumFunctionOnSet(g, Rest(T)) \in Nat
  BY <1>3, SumType DEF NatOn
<1>6. SumFunctionOnSet(f, Rest(T)) <= SumFunctionOnSet(g, Rest(T))
  BY <1>3
<1>7. SumFunctionOnSet(f, T) <= SumFunctionOnSet(g, T)
  BY <1>4, <1>5, <1>6
<1> QED  BY <1>1, <1>7

\* Functions that agree have the same sum.
LEMMA SumAgree ==
  ASSUME NEW f, NEW g, NEW S, IsFiniteSet(S), NatOn(f, S), \A x \in S : f[x] = g[x]
  PROVE  SumFunctionOnSet(f, S) = SumFunctionOnSet(g, S)
<1>1. NatOn(g, S) /\ \A x \in S : f[x] <= g[x] /\ g[x] <= f[x]
  BY DEF NatOn
<1>2. /\ SumFunctionOnSet(f, S) <= SumFunctionOnSet(g, S)
      /\ SumFunctionOnSet(g, S) <= SumFunctionOnSet(f, S)
  BY <1>1, SumMonotonic
<1>3. SumFunctionOnSet(f, S) \in Nat /\ SumFunctionOnSet(g, S) \in Nat
  BY <1>1, SumType
<1> QED  BY <1>2, <1>3

\* Functions that differ in one element differ by it.
LEMMA SumOneChanges ==
  ASSUME NEW f, NEW g, NEW S, IsFiniteSet(S), NatOn(f, S), NatOn(g, S), NEW x \in S,
         \A y \in S \ {x} : f[y] = g[y]
  PROVE  SumFunctionOnSet(g, S) = (SumFunctionOnSet(f, S) - f[x]) + g[x]
<1>1. IsFiniteSet(S \ {x}) /\ NatOn(f, S \ {x})
  BY FS_Subset DEF NatOn
<1>2. /\ SumFunctionOnSet(f, S) = f[x] + SumFunctionOnSet(f, S \ {x})
      /\ SumFunctionOnSet(g, S) = g[x] + SumFunctionOnSet(g, S \ {x})
  BY SumElement
<1>3. SumFunctionOnSet(f, S \ {x}) = SumFunctionOnSet(g, S \ {x})
  BY <1>1, SumAgree
<1>4. f[x] \in Nat /\ g[x] \in Nat /\ SumFunctionOnSet(f, S \ {x}) \in Nat
  BY <1>1, SumType DEF NatOn
<1> QED  BY <1>2, <1>3, <1>4

\* A part of a set has no larger sum, and leaving out zeros changes none.
LEMMA SumSubset ==
  ASSUME NEW f, NEW S, IsFiniteSet(S), NatOn(f, S), NEW T \in SUBSET S
  PROVE  /\ SumFunctionOnSet(f, T) <= SumFunctionOnSet(f, S)
         /\ (\A x \in S \ T : f[x] = 0) => SumFunctionOnSet(f, T) = SumFunctionOnSet(f, S)
<1> DEFINE Less(U) == SumFunctionOnSet(f, T) <= SumFunctionOnSet(f, U)
           Same(U) == (\A x \in S \ T : f[x] = 0) =>
                        SumFunctionOnSet(f, T) = SumFunctionOnSet(f, U)
           X == {U \in SUBSET S : T \subseteq U /\ ~(Less(U) /\ Same(U))}
<1> SUFFICES ASSUME X # {} PROVE FALSE
  OBVIOUS
<1>1. PICK U \in X : \A t \in X : t \subseteq U => t = U
  <2>1. X \subseteq SUBSET S /\ X # {}
    OBVIOUS
  <2> HIDE DEF X
  <2> QED  BY <2>1, SmallestSet
<1>0. /\ IsFiniteSet(T) /\ IsFiniteSet(U) /\ NatOn(f, T) /\ NatOn(f, U)
  BY FS_Subset DEF NatOn
<1>2. PICK x \in U : x \notin T
  <2>1. SumFunctionOnSet(f, T) \in Nat
    BY <1>0, SumType
  <2>2. T \notin X
    BY <2>1
  <2>3. U # T /\ T \subseteq U
    BY <1>1, <2>2
  <2> QED  BY <2>3
<1>3. U \ {x} \in SUBSET S /\ T \subseteq U \ {x} /\ U \ {x} \notin X
  BY <1>1, <1>2
<1>4. SumFunctionOnSet(f, U) = f[x] + SumFunctionOnSet(f, U \ {x})
  BY <1>0, <1>2, SumElement
<1>5. /\ f[x] \in Nat /\ SumFunctionOnSet(f, U \ {x}) \in Nat
      /\ SumFunctionOnSet(f, T) \in Nat
  <2>1. IsFiniteSet(U \ {x}) /\ NatOn(f, U \ {x})
    BY <1>0, <1>3, FS_Subset DEF NatOn
  <2> QED  BY <1>0, <1>2, <2>1, SumType DEF NatOn
<1>6. Less(U \ {x}) /\ Same(U \ {x})
  BY <1>3
<1>7. Less(U)
  BY <1>4, <1>5, <1>6
<1>8. Same(U)
  BY <1>2, <1>4, <1>5, <1>6
<1> HIDE DEF Less, Same
<1> QED  BY <1>1, <1>7, <1>8

\* The members of a family of finite sets are no more than the sum of their numbers.
LEMMA SumOfFamily ==
  ASSUME NEW f, NEW D, IsFiniteSet(D), NatOn(f, D), NEW F,
         \A x \in D : IsFiniteSet(F[x]) /\ Cardinality(F[x]) <= f[x]
  PROVE  /\ IsFiniteSet(UNION {F[x] : x \in D})
         /\ Cardinality(UNION {F[x] : x \in D}) <= SumFunctionOnSet(f, D)
<1> DEFINE All(T) == UNION {F[x] : x \in T}
           Holds(T) == IsFiniteSet(All(T)) /\ Cardinality(All(T)) <= SumFunctionOnSet(f, T)
           X == {T \in SUBSET D : ~Holds(T)}
<1> SUFFICES ASSUME X # {} PROVE FALSE
  OBVIOUS
<1>1. PICK T \in X : \A t \in X : t \subseteq T => t = T
  <2>1. X \subseteq SUBSET D /\ X # {}
    OBVIOUS
  <2> HIDE DEF X
  <2> QED  BY <2>1, SmallestSet
<1>2. T # {}
  <2>1. All({}) = {}
    OBVIOUS
  <2>2. IsFiniteSet({}) /\ Cardinality({}) = 0
    BY FS_EmptySet
  <2>3. SumFunctionOnSet(f, {}) = 0
    BY SumEmpty
  <2> HIDE DEF All
  <2>4. Holds({})
    BY <2>1, <2>2, <2>3
  <2> HIDE DEF Holds
  <2> QED  BY <1>1, <2>4
<1>3. PICK x \in T : TRUE
  BY <1>2
<1> DEFINE U == T \ {x}
<1>4. U \in SUBSET D /\ Holds(U)
  <2>1. U \in SUBSET D /\ U \notin X
    BY <1>1, <1>3
  <2> HIDE DEF Holds
  <2> QED  BY <2>1
<1>5. All(T) = F[x] \union All(U)
  BY <1>3
<1>6. /\ IsFiniteSet(T) /\ NatOn(f, T) /\ IsFiniteSet(U) /\ NatOn(f, U)
  BY <1>4, FS_Subset DEF NatOn
<1>7. SumFunctionOnSet(f, T) = f[x] + SumFunctionOnSet(f, U)
  BY <1>3, <1>6, SumElement
<1>8. f[x] \in Nat /\ SumFunctionOnSet(f, U) \in Nat
  BY <1>3, <1>6, SumType DEF NatOn
<1>9. /\ IsFiniteSet(F[x]) /\ Cardinality(F[x]) <= f[x] /\ IsFiniteSet(All(U))
      /\ Cardinality(All(U)) <= SumFunctionOnSet(f, U)
  BY <1>3, <1>4
<1> HIDE DEF All, U
<1>10. IsFiniteSet(All(T)) /\ Cardinality(All(T)) <= Cardinality(F[x]) + Cardinality(All(U))
  <2>1. /\ IsFiniteSet(F[x] \union All(U)) /\ IsFiniteSet(F[x] \intersect All(U))
        /\ Cardinality(F[x] \union All(U)) =
              Cardinality(F[x]) + (Cardinality(All(U)) - Cardinality(F[x] \intersect All(U)))
    <3>1. IsFiniteSet(F[x] \intersect All(U))
      BY <1>9, FS_Intersection
    <3> QED  BY <1>9, <3>1, FS_Union
  <2>2. /\ Cardinality(F[x]) \in Nat /\ Cardinality(All(U)) \in Nat
        /\ Cardinality(F[x] \intersect All(U)) \in Nat
    BY <1>9, <2>1, FS_CardinalityType
  <2> QED  BY <1>5, <2>1, <2>2
<1>11. /\ Cardinality(F[x]) \in Nat /\ Cardinality(All(U)) \in Nat
       /\ Cardinality(All(T)) \in Nat
  BY <1>9, <1>10, FS_CardinalityType
<1>12. Holds(T)
  BY <1>7, <1>8, <1>9, <1>10, <1>11
<1> HIDE DEF Holds
<1> QED  BY <1>1, <1>12

=============================================================================
