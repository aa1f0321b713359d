-------------------------------- MODULE Sums --------------------------------
(***************************************************************************)
(* What the proofs need to know of MapThenSumSet and Max: the pages of the *)
(* print jobs and the points of the subtasks are sums over finite sets.    *)
(*                                                                         *)
(* The sum is a recursive function, so these facts are proved by induction *)
(* on the size of the set, each by its smallest counterexample: a set of   *)
(* naturals that is not empty has a least element (Least).                 *)
(***************************************************************************)
EXTENDS Integers, FiniteSets, FiniteSetsExt, FiniteSetTheorems, WellFoundedInduction, TLAPS

\* The element MapThenSumSet takes out of a set.
Chosen(T) == CHOOSE x \in T : TRUE

\* g is the recursive function of the sum of f over S.
Rec(S, f, g) == g = [T \in SUBSET S |-> IF T = {} THEN 0 ELSE f[Chosen(T)] + g[T \ {Chosen(T)}]]

\* g is right on the subsets of S of at most n elements.
Upto(S, f, n, g) ==
    \A T \in SUBSET S : Cardinality(T) <= n =>
        g[T] = IF T = {} THEN 0 ELSE f[Chosen(T)] + g[T \ {Chosen(T)}]

\* The order of the naturals, as a relation.
Smaller == {p \in Nat \X Nat : p[1] < p[2]}

\* There is no infinite descent in the naturals.
LEMMA SmallerWellFounded == IsWellFoundedOn(Smaller, Nat)
  BY NatLessThanWellFounded DEF OpToRel, Smaller

\* A set of naturals that is not empty has a least element.
LEMMA Least ==
    ASSUME NEW B \in SUBSET Nat, B # {}
    PROVE  \E n \in B : \A m \in B : n <= m
  <1>1. PICK x : x \in B
    OBVIOUS
  <1>3. \E n \in B : \A m \in B : ~(<<m, n>> \in Smaller)
    BY SmallerWellFounded, <1>1, WFMin, Zenon
  <1>4. PICK n \in B : \A m \in B : ~(<<m, n>> \in Smaller)
    BY <1>3
  <1>5. ASSUME NEW m \in B PROVE n <= m
    <2>1. n \in Nat /\ m \in Nat
      OBVIOUS
    <2>2. ~(m < n)
      BY <2>1, <1>4 DEF Smaller
    <2> QED
      BY <2>1, <2>2
  <1> QED
    BY <1>5, <1>4

\* Taking out the chosen element leaves a subset with one element less.
LEMMA SmallerSet ==
    ASSUME NEW S, IsFiniteSet(S), NEW T \in SUBSET S, T # {}
    PROVE  /\ Chosen(T) \in T
           /\ T \ {Chosen(T)} \in SUBSET S
           /\ IsFiniteSet(T)
           /\ Cardinality(T) \in Nat
           /\ Cardinality(T \ {Chosen(T)}) = Cardinality(T) - 1
           /\ Cardinality(T) >= 1
  <1>1. Chosen(T) \in T
    BY Zenon DEF Chosen
  <1>2. IsFiniteSet(T)
    BY FS_Subset
  <1>3. Cardinality(T) \in Nat
    BY <1>2, FS_CardinalityType
  <1>4. Cardinality(T \ {Chosen(T)}) = Cardinality(T) - 1
    BY <1>1, <1>2, FS_RemoveElement
  <1>5. Cardinality(T \ {Chosen(T)}) \in Nat
    BY <1>2, FS_CardinalityType, FS_Subset
  <1> QED
    BY <1>1, <1>2, <1>3, <1>4, <1>5

\* The recursive function exists, as far as the sets of any size.
LEMMA UptoExists ==
    ASSUME NEW S, IsFiniteSet(S), NEW f
    PROVE  \A n \in Nat : \E g : Upto(S, f, n, g)
  <1> SUFFICES ASSUME NEW k \in Nat, ~ \E g : Upto(S, f, k, g)
               PROVE  FALSE
    OBVIOUS
  <1> DEFINE B == {n \in Nat : ~ \E g : Upto(S, f, n, g)}
  <1>1. PICK n \in B : \A m \in B : n <= m
    BY Least, Zenon
  <1>2. n # 0
    <2>1. Upto(S, f, 0, [T \in SUBSET S |-> 0])
      <3>1. ASSUME NEW T \in SUBSET S, Cardinality(T) <= 0 PROVE T = {}
        <4>1. CASE T # {}
          <5>1. Cardinality(T) \in Nat /\ Cardinality(T) >= 1
            BY <4>1, SmallerSet
          <5> QED
            BY <5>1, <3>1
        <4> QED
          BY <4>1
      <3> QED
        BY <3>1 DEF Upto
    <2> QED
      BY <2>1
  <1>3. n - 1 \in Nat /\ n - 1 \notin B
    BY <1>1, <1>2
  <1>4. PICK g : Upto(S, f, n - 1, g)
    BY <1>3
  <1> DEFINE h == [T \in SUBSET S |-> IF Cardinality(T) <= n - 1 THEN g[T]
                                      ELSE f[Chosen(T)] + g[T \ {Chosen(T)}]]
  <1>5. Upto(S, f, n, h)
    <2> SUFFICES ASSUME NEW T \in SUBSET S, Cardinality(T) <= n
                 PROVE  h[T] = IF T = {} THEN 0 ELSE f[Chosen(T)] + h[T \ {Chosen(T)}]
      BY DEF Upto
    <2>1. CASE T = {}
      <3>1. Cardinality(T) = 0
        BY <2>1, FS_EmptySet
      <3>3. Cardinality(T) <= n - 1
        BY <3>1, <1>3
      <3>4. h[T] = g[T]
        BY <3>3
      <3>5. g[T] = 0
        BY <2>1, <3>3, <1>4 DEF Upto
      <3>2. h[T] = g[T] /\ g[T] = 0
        BY <3>4, <3>5
      <3> QED
        BY <3>2, <2>1
    <2>2. CASE T # {}
      <3> DEFINE c == Chosen(T)
      <3>1. /\ T \ {c} \in SUBSET S
            /\ Cardinality(T) \in Nat
            /\ Cardinality(T \ {c}) = Cardinality(T) - 1
        BY <2>2, SmallerSet
      <3>2. Cardinality(T \ {c}) <= n - 1
        BY <3>1, <1>1
      <3>3. h[T \ {c}] = g[T \ {c}]
        BY <3>1, <3>2
      <3>4. CASE Cardinality(T) <= n - 1
        <4>1. g[T] = f[c] + g[T \ {c}]
          BY <3>4, <1>4, <2>2 DEF Upto
        <4> QED
          BY <4>1, <3>3, <3>4, <2>2
      <3>5. CASE ~(Cardinality(T) <= n - 1)
        BY <3>5, <3>3, <2>2
      <3> QED
        BY <3>4, <3>5
    <2> QED
      BY <2>1, <2>2
  <1> QED
    BY <1>5, <1>1

\* The recursive function exists.
LEMMA RecExists ==
    ASSUME NEW S, IsFiniteSet(S), NEW f
    PROVE  \E g : Rec(S, f, g)
  <1>1. Cardinality(S) \in Nat
    BY FS_CardinalityType
  <1>2. PICK g : Upto(S, f, Cardinality(S), g)
    BY <1>1, UptoExists
  <1>3. \A T \in SUBSET S : Cardinality(T) <= Cardinality(S)
    BY FS_Subset
  <1>4. Rec(S, f, [T \in SUBSET S |-> g[T]])
    <2>1. \A T \in SUBSET S : g[T] = IF T = {} THEN 0 ELSE f[Chosen(T)] + g[T \ {Chosen(T)}]
      BY <1>2, <1>3 DEF Upto
    <2>2. \A T \in SUBSET S : T \ {Chosen(T)} \in SUBSET S
      OBVIOUS
    <2> QED
      BY <2>1, <2>2 DEF Rec
  <1> QED
    BY <1>4

\* MapThenSumSet is a use of the recursive function.
LEMMA SumIs ==
    ASSUME NEW S, NEW f
    PROVE  MapThenSumSet(LAMBDA i : f[i], S) = (CHOOSE g : Rec(S, f, g))[S]
  BY Zenon DEF MapThenSumSet, MapThenFoldSet, Rec, Chosen

\* It yields naturals if f does.
LEMMA RecNat ==
    ASSUME NEW S, IsFiniteSet(S), NEW f \in [S -> Nat], NEW g, Rec(S, f, g)
    PROVE  \A T \in SUBSET S : g[T] \in Nat
  <1>2. \A T \in SUBSET S : g[T] = IF T = {} THEN 0 ELSE f[Chosen(T)] + g[T \ {Chosen(T)}]
    BY DEF Rec
  <1>3. \A T \in SUBSET S : g[T] \in Nat
    <2> SUFFICES ASSUME NEW U \in SUBSET S, g[U] \notin Nat PROVE FALSE
      OBVIOUS
    <2> DEFINE B == {Cardinality(T) : T \in {V \in SUBSET S : g[V] \notin Nat}}
    <2>1. B \in SUBSET Nat
      BY FS_Subset, FS_CardinalityType
    <2>2. B # {}
      OBVIOUS
    <2>3. PICK n \in B : \A m \in B : n <= m
      BY <2>1, <2>2, Least, Zenon
    <2>4. PICK T \in SUBSET S : g[T] \notin Nat /\ Cardinality(T) = n
      BY <2>3
    <2>5. T # {}
      <3>1. ASSUME T = {} PROVE FALSE
        <4>1. g[T] = 0
          BY <3>1, <1>2
        <4> QED
          BY <4>1, <2>4
      <3> QED
        BY <3>1
    <2>6. /\ Chosen(T) \in S
          /\ T \ {Chosen(T)} \in SUBSET S
          /\ Cardinality(T) \in Nat
          /\ Cardinality(T \ {Chosen(T)}) = Cardinality(T) - 1
      BY <2>5, SmallerSet
    <2>7. g[T \ {Chosen(T)}] \in Nat
      <3>1. CASE g[T \ {Chosen(T)}] \notin Nat
        <4>1. Cardinality(T \ {Chosen(T)}) \in B
          BY <3>1, <2>6
        <4> QED
          BY <4>1, <2>3, <2>4, <2>6
      <3> QED
        BY <3>1
    <2>8. g[T] = f[Chosen(T)] + g[T \ {Chosen(T)}]
      BY <2>5, <1>2
    <2> QED
      BY <2>4, <2>6, <2>7, <2>8
  <1> QED
    BY <1>3

\* What a function makes of a finite set is finite.
LEMMA ImageFinite ==
    ASSUME NEW S, IsFiniteSet(S), NEW f
    PROVE  IsFiniteSet({f[x] : x \in S})
  <1> DEFINE T == {f[x] : x \in S}
             g == [x \in S |-> f[x]]
  <1>1. g \in Surjection(S, T)
    BY DEF Surjection
  <1> HIDE DEF g
  <1> QED
    BY <1>1, FS_Surjection

\* A finite set of naturals that is not empty has a greatest element.
LEMMA MaxNat ==
    ASSUME NEW S \in SUBSET Nat, IsFiniteSet(S), S # {}
    PROVE  Max(S) \in S /\ \A y \in S : Max(S) >= y
  <1> DEFINE P(T) == \E x \in T : \A y \in T : x >= y
  <1>1. \A T \in SUBSET S : T # {} => P(T)
    <2> SUFFICES ASSUME NEW U \in SUBSET S, U # {}, ~P(U) PROVE FALSE
      OBVIOUS
    <2> DEFINE B == {Cardinality(T) : T \in {V \in SUBSET S : V # {} /\ ~P(V)}}
    <2>1. B \in SUBSET Nat
      BY FS_Subset, FS_CardinalityType
    <2>2. B # {}
      OBVIOUS
    <2>3. PICK n \in B : \A m \in B : n <= m
      BY <2>1, <2>2, Least, Zenon
    <2>4. PICK T \in SUBSET S : T # {} /\ ~P(T) /\ Cardinality(T) = n
      BY <2>3
    <2> DEFINE c == Chosen(T)
    <2>6. /\ c \in T
          /\ T \ {c} \in SUBSET S
          /\ Cardinality(T) \in Nat
          /\ Cardinality(T \ {c}) = Cardinality(T) - 1
      BY <2>4, SmallerSet
    <2>7. T \ {c} # {} => P(T \ {c})
      <3>1. CASE T \ {c} # {} /\ ~P(T \ {c})
        <4>1. Cardinality(T \ {c}) \in B
          BY <3>1, <2>6
        <4>2. n <= Cardinality(T \ {c})
          BY <4>1, <2>3
        <4> HIDE DEF c, P, B
        <4> QED
          BY <4>2, <2>4, <2>6
      <3> QED
        BY <3>1
    <2> HIDE DEF c
    <2>8. CASE T \ {c} = {}
      BY <2>8, <2>6, <2>4
    <2>9. CASE T \ {c} # {}
      <3>1. PICK x \in T \ {c} : \A y \in T \ {c} : x >= y
        BY <2>7, <2>9
      <3>2. x \in Nat /\ c \in Nat
        BY <3>1, <2>6
      <3>3. CASE x >= c
        BY <3>1, <3>2, <3>3, <2>4
      <3>4. CASE c >= x
        <4>1. \A y \in T : c >= y
          BY <3>1, <3>2, <3>4
        <4> QED
          BY <4>1, <2>6, <2>4
      <3> QED
        BY <3>2, <3>3, <3>4
    <2> QED
      BY <2>8, <2>9
  <1>2. P(S)
    BY <1>1
  <1> QED
    BY <1>2, Zenon DEF Max

\* The sum of f over S.
SumOver(f, S) == MapThenSumSet(LAMBDA i : f[i], S)

\* What the recursion computes on a subset is the sum over it.
LEMMA SumSubset ==
    ASSUME NEW S, IsFiniteSet(S), NEW f, NEW g, Rec(S, f, g), NEW U \in SUBSET S
    PROVE  g[U] = SumOver(f, U)
  <1> DEFINE h == CHOOSE r : Rec(U, f, r)
  <1>1. IsFiniteSet(U)
    BY FS_Subset
  <1>2. Rec(U, f, h)
    BY <1>1, RecExists, Zenon
  <1> HIDE DEF h
  <1>3. \A T \in SUBSET U : h[T] = IF T = {} THEN 0 ELSE f[Chosen(T)] + h[T \ {Chosen(T)}]
    BY <1>2 DEF Rec
  <1>4. \A T \in SUBSET U : g[T] = IF T = {} THEN 0 ELSE f[Chosen(T)] + g[T \ {Chosen(T)}]
    BY DEF Rec
  <1>5. \A T \in SUBSET U : g[T] = h[T]
    <2> SUFFICES ASSUME NEW V \in SUBSET U, g[V] # h[V] PROVE FALSE
      OBVIOUS
    <2> DEFINE B == {Cardinality(T) : T \in {W \in SUBSET U : g[W] # h[W]}}
    <2>1. B \in SUBSET Nat
      BY <1>1, FS_Subset, FS_CardinalityType
    <2>2. B # {}
      OBVIOUS
    <2>3. PICK n \in B : \A m \in B : n <= m
      BY <2>1, <2>2, Least, Zenon
    <2>4. PICK T \in SUBSET U : g[T] # h[T] /\ Cardinality(T) = n
      BY <2>3
    <2>5. T # {}
      BY <2>4, <1>3, <1>4
    <2>6. /\ T \ {Chosen(T)} \in SUBSET U
          /\ Cardinality(T) \in Nat
          /\ Cardinality(T \ {Chosen(T)}) = Cardinality(T) - 1
      BY <2>5, <1>1, SmallerSet
    <2>7. g[T \ {Chosen(T)}] = h[T \ {Chosen(T)}]
      <3>1. CASE g[T \ {Chosen(T)}] # h[T \ {Chosen(T)}]
        <4>1. Cardinality(T \ {Chosen(T)}) \in B
          BY <3>1, <2>6
        <4> QED
          BY <4>1, <2>3, <2>4, <2>6
      <3> QED
        BY <3>1
    <2> QED
      BY <2>4, <2>5, <2>7, <1>3, <1>4
  <1>6. g[U] = h[U]
    BY <1>5
  <1> QED
    BY <1>6, SumIs, Zenon DEF h, SumOver

\* The sum of nothing is zero; the chosen element is added first.
LEMMA SumStep ==
    ASSUME NEW S, IsFiniteSet(S), NEW f
    PROVE  /\ SumOver(f, {}) = 0
           /\ S # {} => SumOver(f, S) = f[Chosen(S)] + SumOver(f, S \ {Chosen(S)})
  <1>1. PICK g : Rec(S, f, g)
    BY RecExists
  <1>2. \A T \in SUBSET S : g[T] = IF T = {} THEN 0 ELSE f[Chosen(T)] + g[T \ {Chosen(T)}]
    BY <1>1 DEF Rec
  <1>3. \A U \in SUBSET S : g[U] = SumOver(f, U)
    BY <1>1, SumSubset
  <1>4. SumOver(f, {}) = 0
    BY <1>2, <1>3
  <1>5. ASSUME S # {} PROVE SumOver(f, S) = f[Chosen(S)] + SumOver(f, S \ {Chosen(S)})
    <2>1. g[S] = f[Chosen(S)] + g[S \ {Chosen(S)}]
      BY <1>2, <1>5
    <2>2. g[S] = SumOver(f, S) /\ g[S \ {Chosen(S)}] = SumOver(f, S \ {Chosen(S)})
      BY <1>3
    <2> QED
      BY <2>1, <2>2
  <1> QED
    BY <1>4, <1>5

\* The sum of naturals is a natural.
LEMMA TotalNat ==
    ASSUME NEW S, IsFiniteSet(S), NEW f \in [S -> Nat], NEW U \in SUBSET S
    PROVE  SumOver(f, U) \in Nat
  <1>1. PICK g : Rec(S, f, g)
    BY RecExists
  <1>2. g[U] = SumOver(f, U)
    BY <1>1, SumSubset
  <1> QED
    BY <1>1, <1>2, RecNat

\* Any element may be taken out first.
LEMMA TotalRemove ==
    ASSUME NEW S, IsFiniteSet(S), NEW f \in [S -> Nat], NEW U \in SUBSET S, NEW x \in U
    PROVE  SumOver(f, U) = f[x] + SumOver(f, U \ {x})
  <1> DEFINE Bad(V) == \E y \in V : SumOver(f, V) # f[y] + SumOver(f, V \ {y})
  <1> SUFFICES ASSUME Bad(U) PROVE FALSE
    OBVIOUS
  <1> DEFINE B == {Cardinality(T) : T \in {W \in SUBSET S : Bad(W)}}
  <1>1. B \in SUBSET Nat
    BY FS_Subset, FS_CardinalityType
  <1>2. B # {}
    OBVIOUS
  <1>3. PICK n \in B : \A m \in B : n <= m
    BY <1>1, <1>2, Least, Zenon
  <1>4. PICK T \in SUBSET S : Bad(T) /\ Cardinality(T) = n
    BY <1>3
  <1>5. PICK y \in T : SumOver(f, T) # f[y] + SumOver(f, T \ {y})
    BY <1>4
  <1>6. PICK c : c = Chosen(T)
    OBVIOUS
  <1>7. /\ c \in T /\ T \ {c} \in SUBSET S
        /\ Cardinality(T) \in Nat
        /\ Cardinality(T \ {c}) = Cardinality(T) - 1
        /\ IsFiniteSet(T)
    BY <1>5, <1>6, SmallerSet
  <1>8. SumOver(f, T) = f[c] + SumOver(f, T \ {c})
    BY <1>5, <1>6, <1>7, SumStep
  <1>9. y # c
    BY <1>5, <1>8
  <1>10. Cardinality(T \ {c}) \notin B
    <2> HIDE DEF B
    <2> QED
      BY <1>3, <1>4, <1>7
  <1>11. ~Bad(T \ {c})
    BY <1>10, <1>7
  <1>12. SumOver(f, T \ {c}) = f[y] + SumOver(f, (T \ {c}) \ {y})
    BY <1>9, <1>11
  <1>13. SumOver(f, T \ {y}) = f[c] + SumOver(f, (T \ {y}) \ {c})
    <2>1. T \ {y} \in SUBSET S /\ c \in T \ {y}
      BY <1>7, <1>9
    <2>2. Cardinality(T \ {y}) = Cardinality(T) - 1
      BY <1>5, <1>7, FS_RemoveElement
    <2>3. Cardinality(T \ {y}) \notin B
      <3> HIDE DEF B
      <3> QED
        BY <2>2, <1>3, <1>4, <1>7
    <2>4. ~Bad(T \ {y})
      BY <2>1, <2>3
    <2> QED
      BY <2>1, <2>4
  <1>14. (T \ {y}) \ {c} = (T \ {c}) \ {y}
    OBVIOUS
  <1>15. PICK z : z = SumOver(f, (T \ {c}) \ {y})
    OBVIOUS
  <1>16. z \in Nat /\ f[y] \in Nat /\ f[c] \in Nat
    BY <1>15, <1>5, <1>7, TotalNat
  <1> HIDE DEF Bad, B
  <1>17. SumOver(f, T) = f[c] + (f[y] + z) /\ SumOver(f, T \ {y}) = f[c] + z
    BY <1>8, <1>12, <1>13, <1>14, <1>15
  <1> QED
    BY <1>5, <1>16, <1>17

\* The sum over a smaller set is no greater.
LEMMA TotalMonotonic ==
    ASSUME NEW S, IsFiniteSet(S), NEW f \in [S -> Nat], NEW U \in SUBSET S, NEW V \in SUBSET U
    PROVE  SumOver(f, V) <= SumOver(f, U)
  <1> DEFINE Bad(W) == \E X \in SUBSET W : ~(SumOver(f, X) <= SumOver(f, W))
  <1> SUFFICES ASSUME Bad(U) PROVE FALSE
    OBVIOUS
  <1> DEFINE B == {Cardinality(T) : T \in {W \in SUBSET S : Bad(W)}}
  <1>1. B \in SUBSET Nat
    BY FS_Subset, FS_CardinalityType
  <1>2. B # {}
    OBVIOUS
  <1>3. PICK n \in B : \A m \in B : n <= m
    BY <1>1, <1>2, Least, Zenon
  <1>4. PICK T \in SUBSET S : Bad(T) /\ Cardinality(T) = n
    BY <1>3
  <1>5. PICK X \in SUBSET T : ~(SumOver(f, X) <= SumOver(f, T))
    BY <1>4
  <1>6. X # T
    BY <1>5, TotalNat
  <1>7. PICK x \in T : x \notin X
    BY <1>6
  <1>8. IsFiniteSet(T) /\ Cardinality(T) \in Nat
    BY FS_Subset, FS_CardinalityType
  <1>9. Cardinality(T \ {x}) = Cardinality(T) - 1
    BY <1>7, <1>8, FS_RemoveElement
  <1>10. Cardinality(T \ {x}) \notin B
    <2> HIDE DEF B
    <2> QED
      BY <1>3, <1>4, <1>8, <1>9
  <1>11. ~Bad(T \ {x})
    BY <1>10
  <1>12. SumOver(f, X) <= SumOver(f, T \ {x})
    BY <1>11, <1>7
  <1>13. SumOver(f, T) = f[x] + SumOver(f, T \ {x})
    BY <1>7, TotalRemove
  <1>14. f[x] \in Nat /\ SumOver(f, X) \in Nat /\ SumOver(f, T \ {x}) \in Nat
    BY <1>7, TotalNat
  <1> HIDE DEF Bad, B
  <1> QED
    BY <1>5, <1>12, <1>13, <1>14

\* The sum depends only on the values in the set.
LEMMA TotalSame ==
    ASSUME NEW S, IsFiniteSet(S), NEW f, NEW h, \A x \in S : f[x] = h[x]
    PROVE  SumOver(f, S) = SumOver(h, S)
  <1>1. PICK g : Rec(S, f, g)
    BY RecExists
  <1>2. Rec(S, h, g)
    <2>1. \A T \in SUBSET S : T # {} => f[Chosen(T)] = h[Chosen(T)]
      BY SmallerSet
    <2>2. \A T \in SUBSET S : g[T] = IF T = {} THEN 0 ELSE f[Chosen(T)] + g[T \ {Chosen(T)}]
      BY <1>1 DEF Rec
    <2>3. \A T \in SUBSET S : g[T] = IF T = {} THEN 0 ELSE h[Chosen(T)] + g[T \ {Chosen(T)}]
      BY <2>1, <2>2
    <2>4. g = [T \in SUBSET S |-> g[T]]
      BY <1>1 DEF Rec
    <2> QED
      BY <2>3, <2>4 DEF Rec
  <1> QED
    BY <1>1, <1>2, SumSubset

\* A sum of zeros is zero.
LEMMA TotalZero ==
    ASSUME NEW S, IsFiniteSet(S), NEW f, \A x \in S : f[x] = 0
    PROVE  SumOver(f, S) = 0
  <1>1. Rec(S, f, [T \in SUBSET S |-> 0])
    <2>1. \A T \in SUBSET S : T # {} => f[Chosen(T)] = 0
      BY SmallerSet
    <2> QED
      BY <2>1 DEF Rec
  <1>2. PICK g : g = [T \in SUBSET S |-> 0]
    OBVIOUS
  <1>3. g[S] = SumOver(f, S)
    BY <1>1, <1>2, SumSubset
  <1> QED
    BY <1>2, <1>3

\* The union of a family of small sets is small.
LEMMA UnionSize ==
    ASSUME NEW S, IsFiniteSet(S), NEW U, IsFiniteSet(U), NEW m \in Nat, NEW f,
           \A x \in S : f[x] \subseteq U /\ Cardinality(f[x]) <= m
    PROVE  Cardinality(UNION {f[x] : x \in S}) <= m * Cardinality(S)
<1> DEFINE All(V) == UNION {f[x] : x \in V}
           P(V) == Cardinality(All(V)) <= m * Cardinality(V)
<1> SUFFICES ASSUME ~P(S) PROVE FALSE
  OBVIOUS
<1> DEFINE B == {Cardinality(T) : T \in {V \in SUBSET S : ~P(V)}}
<1>1. B \in SUBSET Nat
  BY FS_Subset, FS_CardinalityType
<1>2. B # {}
  OBVIOUS
<1>3. PICK n \in B : \A k \in B : n <= k
  BY <1>1, <1>2, Least, Zenon
<1>4. PICK T \in SUBSET S : ~P(T) /\ Cardinality(T) = n
  BY <1>3
<1>5. T # {}
  <2>1. All({}) = {}
    OBVIOUS
  <2>2. Cardinality({}) = 0
    BY FS_EmptySet
  <2>3. m * Cardinality({}) = 0
    <3>1. m * 0 = 0
      OBVIOUS
    <3> QED
      BY <3>1, <2>2
  <2>4. Cardinality(All({})) = 0
    BY <2>1, <2>2
  <2>5. P({})
    BY <2>3, <2>4
  <2> QED
    BY <2>5, <1>4
<1> DEFINE c == Chosen(T)
<1>6. /\ c \in T
      /\ T \ {c} \in SUBSET S
      /\ Cardinality(T) \in Nat
      /\ Cardinality(T \ {c}) = Cardinality(T) - 1
  BY <1>4, <1>5, SmallerSet
<1>7. PICK W : W = T \ {c}
  OBVIOUS
<1>8. P(W)
  <2>1. CASE ~P(W)
    <3>1. Cardinality(W) \in B
      BY <2>1, <1>6, <1>7
    <3>2. n <= Cardinality(W)
      BY <3>1, <1>3
    <3> HIDE DEF c, P, B
    <3> QED
      BY <3>2, <1>4, <1>6, <1>7
  <2> QED
    BY <2>1
<1>9. All(T) = All(W) \cup f[c]
  BY <1>6, <1>7
<1>10. PICK A : A = All(W)
  OBVIOUS
<1>11. PICK F : F = f[c]
  OBVIOUS
<1>12. A \subseteq U /\ F \subseteq U /\ Cardinality(F) <= m
  BY <1>6, <1>7, <1>10, <1>11
<1>13. IsFiniteSet(A) /\ IsFiniteSet(F)
  BY <1>12, FS_Subset
<1>14. /\ Cardinality(A \cup F) = Cardinality(A) + Cardinality(F) - Cardinality(A \cap F)
       /\ Cardinality(A) \in Nat /\ Cardinality(F) \in Nat
  BY <1>13, FS_Union, FS_CardinalityType
<1>15. IsFiniteSet(A \cap F)
  BY <1>13, FS_Intersection, Zenon
<1>16. Cardinality(A \cap F) \in Nat
  BY <1>15, FS_CardinalityType
<1>17. Cardinality(A \cup F) <= Cardinality(A) + m
  BY <1>12, <1>14, <1>16
<1>18. Cardinality(A) <= m * Cardinality(W)
  BY <1>8, <1>10
<1>19. Cardinality(T) = Cardinality(W) + 1 /\ Cardinality(W) \in Nat
  <2>1. IsFiniteSet(W)
    BY <1>6, <1>7, FS_Subset
  <2>2. Cardinality(W) \in Nat
    BY <2>1, FS_CardinalityType
  <2> HIDE DEF c
  <2> QED
    BY <2>2, <1>6, <1>7
<1>20. m * Cardinality(T) = m * Cardinality(W) + m
  <2>1. \A k \in Nat : m * (k + 1) = m * k + m
    OBVIOUS
  <2> QED
    BY <2>1, <1>19
<1>21. Cardinality(All(T)) = Cardinality(A \cup F)
  BY <1>9, <1>10, <1>11
<1>23. m * Cardinality(W) \in Nat
  BY <1>19
<1>24. Cardinality(A \cup F) <= m * Cardinality(W) + m
  <2>1. \A x \in Int, a \in Nat, w \in Nat : x <= a + m /\ a <= w => x <= w + m
    OBVIOUS
  <2>2. Cardinality(A \cup F) \in Int
    BY <1>14, <1>16
  <2> QED
    BY <2>1, <2>2, <1>14, <1>17, <1>18, <1>23
<1>25. Cardinality(All(T)) <= m * Cardinality(T)
  BY <1>24, <1>20, <1>21
<1> QED
  BY <1>25, <1>4
=============================================================================
