------------------------------ MODULE SumLemmas ------------------------------
(***************************************************************************)
(* Lemmas about the finite sums in which the services add up amounts of    *)
(* money (MapThenSumSet).  The provers cannot instantiate an induction     *)
(* theorem, so each lemma assumes that it fails and refutes its least      *)
(* counterexample.                                                         *)
(***************************************************************************)
EXTENDS Integers, FiniteSetsExt, FiniteSetTheorems, WellFoundedInduction, TLAPS

\* The sum of f over the finite set S.
SumOver(f, S) == MapThenSumSet(LAMBDA x : f[x], S)

\* The element the fold takes next.
Pick(s) == CHOOSE x \in s : TRUE

\* g gives the sum of f over each subset of S, by the recursion of the fold.
Sums(f, S, g) ==
    g = [s \in SUBSET S |-> IF s = {} THEN 0 ELSE f[Pick(s)] + g[s \ {Pick(s)}]]

\* The function that recursion defines.
TheSums(f, S) == CHOOSE g : Sums(f, S, g)

\* A non-empty set of subsets of a finite set has a minimal member: proofs by
\* induction over finite sets take the least counterexample.
LEMMA MinimalMember ==
  ASSUME NEW S, IsFiniteSet(S), NEW T, T \subseteq SUBSET S, T # {}
  PROVE  \E s \in T : \A t \in T : t \subseteq s => t = s
<1>1. IsWellFoundedOn(StrictSubsetOrdering(S), SUBSET S)
  BY FS_StrictSubsetOrderingWellFounded, FS_FiniteSubsetsOfFinite
<1>2. PICK s \in T : \A t \in T : ~(<<t, s>> \in StrictSubsetOrdering(S))
  BY <1>1, WFMin
<1>3. ASSUME NEW t \in T, t \subseteq s
      PROVE  t = s
  <2>1. s \in SUBSET S /\ t \in SUBSET S
    OBVIOUS
  <2>2. t # s => <<t, s>> \in StrictSubsetOrdering(S)
    BY <1>3, <2>1 DEF StrictSubsetOrdering
  <2> QED
    BY <1>2, <2>2
<1> QED
  BY <1>3

\* The element the fold takes next is one of the set.
LEMMA PickedMember ==
  ASSUME NEW s, s # {}
  PROVE  Pick(s) \in s
  BY DEF Pick

\* The recursion at one subset.
LEMMA SumsEquation ==
  ASSUME NEW f, NEW S, NEW g, Sums(f, S, g), NEW s \in SUBSET S
  PROVE  g[s] = IF s = {} THEN 0 ELSE f[Pick(s)] + g[s \ {Pick(s)}]
<1> DEFINE body(t) == IF t = {} THEN 0 ELSE f[Pick(t)] + g[t \ {Pick(t)}]
<1>1. g = [t \in SUBSET S |-> body(t)]
  BY DEF Sums
<1> HIDE DEF body
<1>2. g[s] = body(s)
  BY <1>1
<1> QED
  BY <1>2 DEF body

\* The recursion over a set and over one of its subsets give the same sums.
LEMMA SumsAgree ==
  ASSUME NEW f, NEW S, NEW T, IsFiniteSet(T), S \subseteq T,
         NEW g, Sums(f, S, g), NEW h, Sums(f, T, h),
         NEW u \in SUBSET S
  PROVE  g[u] = h[u]
<1> DEFINE Bad == {s \in SUBSET S : g[s] # h[s]}
<1> SUFFICES ASSUME Bad # {}
             PROVE  FALSE
  OBVIOUS
<1>1. PICK s \in Bad : \A t \in Bad : t \subseteq s => t = s
  <2>1. IsFiniteSet(S) /\ Bad \subseteq SUBSET S
    BY FS_Subset
  <2> HIDE DEF Bad
  <2> QED
    BY <2>1, MinimalMember
<1>2. s \in SUBSET S /\ s \in SUBSET T
  OBVIOUS
<1>3. /\ g[s] = IF s = {} THEN 0 ELSE f[Pick(s)] + g[s \ {Pick(s)}]
      /\ h[s] = IF s = {} THEN 0 ELSE f[Pick(s)] + h[s \ {Pick(s)}]
  <2> HIDE DEF Bad
  <2>1. g[s] = IF s = {} THEN 0 ELSE f[Pick(s)] + g[s \ {Pick(s)}]
    BY <1>2, SumsEquation
  <2>2. h[s] = IF s = {} THEN 0 ELSE f[Pick(s)] + h[s \ {Pick(s)}]
    BY <1>2, SumsEquation
  <2> QED
    BY <2>1, <2>2
<1>4. s # {}
  BY <1>3
<1>5. g[s \ {Pick(s)}] = h[s \ {Pick(s)}]
  BY <1>1, <1>2, <1>4, PickedMember
<1> QED
  BY <1>3, <1>4, <1>5

\* The recursion defines a function on the subsets of a finite set.
LEMMA SumsExist ==
  ASSUME NEW f, NEW S, IsFiniteSet(S)
  PROVE  \E g : Sums(f, S, g)
<1> DEFINE Bad == {s \in SUBSET S : ~ \E g : Sums(f, s, g)}
<1> SUFFICES ASSUME Bad # {}
             PROVE  FALSE
  OBVIOUS
<1>1. PICK s \in Bad : \A t \in Bad : t \subseteq s => t = s
  <2>1. Bad \subseteq SUBSET S
    OBVIOUS
  <2> HIDE DEF Bad
  <2> QED
    BY <2>1, MinimalMember
<1> DEFINE value(t) == TheSums(f, t)[t]
           body(t) == IF t = {} THEN 0 ELSE f[Pick(t)] + value(t \ {Pick(t)})
           g == [t \in SUBSET s |-> body(t)]
<1>2. ASSUME NEW t \in SUBSET s, t # s
      PROVE  Sums(f, t, TheSums(f, t)) /\ IsFiniteSet(t)
  <2>1. \E k : Sums(f, t, k)
    BY <1>1, <1>2
  <2>2. IsFiniteSet(t)
    BY FS_Subset
  <2> QED
    BY <2>1, <2>2 DEF TheSums
<1>3. ASSUME NEW t \in SUBSET s, t # s
      PROVE  value(t) = body(t)
  <2>1. value(t) = IF t = {} THEN 0 ELSE f[Pick(t)] + TheSums(f, t)[t \ {Pick(t)}]
    BY <1>2, <1>3, SumsEquation
  <2>2. ASSUME t # {}
        PROVE  TheSums(f, t)[t \ {Pick(t)}] = value(t \ {Pick(t)})
    <3>1. t \ {Pick(t)} \in SUBSET s /\ t \ {Pick(t)} # s
      BY <2>2, <1>3, PickedMember
    <3> QED
      BY <3>1, <1>2, <1>3, SumsAgree
  <2> QED
    BY <2>1, <2>2
<1>4. ASSUME NEW t \in SUBSET s
      PROVE  body(t) = IF t = {} THEN 0 ELSE f[Pick(t)] + g[t \ {Pick(t)}]
  <2>1. ASSUME t # {}
        PROVE  g[t \ {Pick(t)}] = value(t \ {Pick(t)})
    <3> DEFINE u == t \ {Pick(t)}
    <3>1. u \in SUBSET s /\ u # s
      BY <2>1, PickedMember
    <3>2. value(u) = body(u)
      BY <3>1, <1>3
    <3>3. g[u] = body(u)
      BY <3>1
    <3> HIDE DEF u, g, value
    <3> QED
      BY <3>2, <3>3 DEF u
  <2> HIDE DEF g, value
  <2> QED
    BY <2>1
<1>5. Sums(f, s, g)
  <2>1. \A t \in SUBSET s : g[t] = IF t = {} THEN 0 ELSE f[Pick(t)] + g[t \ {Pick(t)}]
    BY <1>4
  <2>2. g = [t \in SUBSET s |-> g[t]]
    OBVIOUS
  <2> HIDE DEF g
  <2> QED
    BY <2>1, <2>2 DEF Sums
<1> HIDE DEF g
<1> QED
  BY <1>1, <1>5

\* SumOver is what that recursion gives for the whole set.
LEMMA SumOfSums ==
  ASSUME NEW f, NEW S
  PROVE  SumOver(f, S) = TheSums(f, S)[S]
  BY DEF SumOver, Sums, TheSums, Pick, MapThenSumSet, MapThenFoldSet

\* Whatever follows the recursion gives the sum.
LEMMA SumsAreTheSum ==
  ASSUME NEW f, NEW S, IsFiniteSet(S), NEW g, Sums(f, S, g)
  PROVE  g[S] = SumOver(f, S)
<1>1. Sums(f, S, TheSums(f, S))
  BY DEF TheSums
<1>2. S \in SUBSET S /\ S \subseteq S
  OBVIOUS
<1>3. g[S] = TheSums(f, S)[S]
  BY <1>1, <1>2, SumsAgree
<1> QED
  BY <1>3, SumOfSums

\* SumOver satisfies the equation of the fold.
LEMMA SumStep ==
  ASSUME NEW f, NEW S, IsFiniteSet(S)
  PROVE  SumOver(f, S) = IF S = {} THEN 0 ELSE f[Pick(S)] + SumOver(f, S \ {Pick(S)})
<1>1. \A T \in SUBSET S : IsFiniteSet(T) /\ Sums(f, T, TheSums(f, T))
  <2> SUFFICES ASSUME NEW T \in SUBSET S
               PROVE  IsFiniteSet(T) /\ Sums(f, T, TheSums(f, T))
    OBVIOUS
  <2>1. IsFiniteSet(T)
    BY FS_Subset
  <2>2. \E g : Sums(f, T, g)
    BY <2>1, SumsExist
  <2> QED
    BY <2>1, <2>2 DEF TheSums
<1>2. SumOver(f, S) = IF S = {} THEN 0 ELSE f[Pick(S)] + TheSums(f, S)[S \ {Pick(S)}]
  <2>1. S \in SUBSET S /\ Sums(f, S, TheSums(f, S))
    BY <1>1
  <2>2. TheSums(f, S)[S] = IF S = {} THEN 0 ELSE f[Pick(S)] + TheSums(f, S)[S \ {Pick(S)}]
    BY <2>1, SumsEquation
  <2> QED
    BY <2>2, SumOfSums
<1>3. TheSums(f, S)[S \ {Pick(S)}] = TheSums(f, S \ {Pick(S)})[S \ {Pick(S)}]
  <2>1. S \ {Pick(S)} \in SUBSET S
    OBVIOUS
  <2> QED
    BY <1>1, <2>1, SumsAgree
<1> QED
  BY <1>2, <1>3, SumOfSums
-----------------------------------------------------------------------------
\* Nothing adds up to nothing.
LEMMA SumEmpty ==
  ASSUME NEW f
  PROVE  SumOver(f, {}) = 0
  BY SumStep, FS_EmptySet

\* A set of numbers closed under addition holds the sums of its members.
LEMMA SumClosed ==
  ASSUME NEW f, NEW S, IsFiniteSet(S), NEW T, 0 \in T, \A a, b \in T : a + b \in T,
         \A x \in S : f[x] \in T
  PROVE  SumOver(f, S) \in T
<1> DEFINE Bad == {s \in SUBSET S : SumOver(f, s) \notin T}
<1> SUFFICES ASSUME Bad # {}
             PROVE  FALSE
  <2>1. S \in SUBSET S
    OBVIOUS
  <2> QED
    BY <2>1
<1>1. PICK s \in Bad : \A t \in Bad : t \subseteq s => t = s
  <2>1. Bad \subseteq SUBSET S
    OBVIOUS
  <2> HIDE DEF Bad
  <2> QED
    BY <2>1, MinimalMember
<1>2. IsFiniteSet(s)
  BY FS_Subset
<1>3. SumOver(f, s) = IF s = {} THEN 0 ELSE f[Pick(s)] + SumOver(f, s \ {Pick(s)})
  BY <1>2, SumStep
<1>4. s # {}
  BY <1>3
<1>5. Pick(s) \in s
  BY <1>4, PickedMember
<1>6. SumOver(f, s \ {Pick(s)}) \in T
  BY <1>1, <1>5
<1> QED
  BY <1>3, <1>4, <1>5, <1>6

\* A sum of integers is an integer.
LEMMA SumInt ==
  ASSUME NEW f, NEW S, IsFiniteSet(S), \A x \in S : f[x] \in Int
  PROVE  SumOver(f, S) \in Int
<1>1. 0 \in Int /\ \A a, b \in Int : a + b \in Int
  OBVIOUS
<1> QED
  BY <1>1, SumClosed

\* A sum of natural numbers is a natural number.
LEMMA SumNat ==
  ASSUME NEW f, NEW S, IsFiniteSet(S), \A x \in S : f[x] \in Nat
  PROVE  SumOver(f, S) \in Nat
<1>1. 0 \in Nat /\ \A a, b \in Nat : a + b \in Nat
  OBVIOUS
<1> QED
  BY <1>1, SumClosed

\* Any element can be taken out first, not only the one the fold takes.
LEMMA SumRemove ==
  ASSUME NEW f, NEW S, IsFiniteSet(S), \A x \in S : f[x] \in Int, NEW e \in S
  PROVE  SumOver(f, S) = f[e] + SumOver(f, S \ {e})
<1> DEFINE Bad == {s \in SUBSET S : \E x \in s : SumOver(f, s) # f[x] + SumOver(f, s \ {x})}
<1> SUFFICES ASSUME Bad # {}
             PROVE  FALSE
  <2>1. S \in SUBSET S
    OBVIOUS
  <2> QED
    BY <2>1
<1>1. PICK s \in Bad : \A t \in Bad : t \subseteq s => t = s
  <2>1. Bad \subseteq SUBSET S
    OBVIOUS
  <2> HIDE DEF Bad
  <2> QED
    BY <2>1, MinimalMember
<1>2. PICK x \in s : SumOver(f, s) # f[x] + SumOver(f, s \ {x})
  OBVIOUS
<1>3. IsFiniteSet(s) /\ s \in SUBSET S
  BY FS_Subset
<1> DEFINE y == Pick(s)
<1>4. y \in s /\ y \in S /\ x \in S
  BY <1>2, <1>3, PickedMember
<1>5. SumOver(f, s) = f[y] + SumOver(f, s \ {y})
  BY <1>2, <1>3, SumStep
<1> HIDE DEF y
<1>6. x # y
  BY <1>2, <1>5
<1>7. SumOver(f, s \ {y}) = f[x] + SumOver(f, s \ {x, y})
  <2>1. s \ {y} \in SUBSET S /\ s \ {y} \notin Bad /\ x \in s \ {y}
    BY <1>1, <1>3, <1>4, <1>6
  <2>2. (s \ {y}) \ {x} = s \ {x, y}
    OBVIOUS
  <2> QED
    BY <2>1, <2>2
<1>8. SumOver(f, s \ {x}) = f[y] + SumOver(f, s \ {x, y})
  <2>1. s \ {x} \in SUBSET S /\ s \ {x} \notin Bad /\ y \in s \ {x}
    BY <1>1, <1>3, <1>4, <1>6
  <2>2. (s \ {x}) \ {y} = s \ {x, y}
    OBVIOUS
  <2> QED
    BY <2>1, <2>2
<1>9. SumOver(f, s \ {x, y}) \in Int /\ f[x] \in Int /\ f[y] \in Int
  <2>1. IsFiniteSet(s \ {x, y}) /\ \A z \in s \ {x, y} : f[z] \in Int
    BY <1>3, FS_Subset
  <2> QED
    BY <2>1, <1>4, SumInt
<1> QED
  BY <1>2, <1>5, <1>7, <1>8, <1>9

\* One more element adds its value.
LEMMA SumAdd ==
  ASSUME NEW f, NEW S, IsFiniteSet(S), NEW e, e \notin S,
         \A x \in S \cup {e} : f[x] \in Int
  PROVE  SumOver(f, S \cup {e}) = SumOver(f, S) + f[e]
<1>1. IsFiniteSet(S \cup {e})
  BY FS_AddElement
<1>2. (S \cup {e}) \ {e} = S
  OBVIOUS
<1>3. SumOver(f, S \cup {e}) = f[e] + SumOver(f, S)
  BY <1>1, <1>2, SumRemove
<1> QED
  BY <1>3, SumInt

\* The sum over two disjoint sets is the sum of their sums.
LEMMA SumUnion ==
  ASSUME NEW f, NEW S, NEW T, IsFiniteSet(S), IsFiniteSet(T), S \cap T = {},
         \A x \in S \cup T : f[x] \in Int
  PROVE  SumOver(f, S \cup T) = SumOver(f, S) + SumOver(f, T)
<1> DEFINE Bad == {t \in SUBSET T : SumOver(f, S \cup t) # SumOver(f, S) + SumOver(f, t)}
<1> SUFFICES ASSUME Bad # {}
             PROVE  FALSE
  <2>1. T \in SUBSET T
    OBVIOUS
  <2> QED
    BY <2>1
<1>1. PICK t \in Bad : \A u \in Bad : u \subseteq t => u = t
  <2>1. Bad \subseteq SUBSET T
    OBVIOUS
  <2> HIDE DEF Bad
  <2> QED
    BY <2>1, MinimalMember
<1>2. \A u \in SUBSET T : IsFiniteSet(u) /\ IsFiniteSet(S \cup u)
  BY FS_Subset, FS_Union
<1>3. t # {}
  <2>1. S \cup {} = S
    OBVIOUS
  <2>2. SumOver(f, S) \in Int
    BY SumInt
  <2> QED
    BY <2>1, <2>2, SumEmpty
<1>4. PICK e \in t : TRUE
  BY <1>3
<1>5. SumOver(f, S \cup (t \ {e})) = SumOver(f, S) + SumOver(f, t \ {e})
  BY <1>1, <1>4
<1>6. SumOver(f, t) = f[e] + SumOver(f, t \ {e})
  BY <1>2, <1>4, SumRemove
<1>7. SumOver(f, S \cup t) = f[e] + SumOver(f, S \cup (t \ {e}))
  <2>1. (S \cup t) \ {e} = S \cup (t \ {e}) /\ e \in S \cup t
    BY <1>4
  <2>2. IsFiniteSet(S \cup t) /\ \A x \in S \cup t : f[x] \in Int
    BY <1>2
  <2> QED
    BY <2>1, <2>2, SumRemove
<1>8. SumOver(f, S) \in Int /\ SumOver(f, t \ {e}) \in Int /\ f[e] \in Int
  <2>1. IsFiniteSet(t \ {e}) /\ \A x \in t \ {e} : f[x] \in Int
    BY <1>2
  <2> QED
    BY <2>1, <1>4, SumInt
<1> QED
  BY <1>5, <1>6, <1>7, <1>8

\* Larger values have a larger sum.
LEMMA SumBound ==
  ASSUME NEW f, NEW g, NEW S, IsFiniteSet(S),
         \A x \in S : f[x] \in Int /\ g[x] \in Int /\ f[x] <= g[x]
  PROVE  SumOver(f, S) <= SumOver(g, S)
<1> DEFINE Bad == {s \in SUBSET S : ~(SumOver(f, s) <= SumOver(g, s))}
<1> SUFFICES ASSUME Bad # {}
             PROVE  FALSE
  <2>1. S \in SUBSET S
    OBVIOUS
  <2> QED
    BY <2>1
<1>1. PICK s \in Bad : \A t \in Bad : t \subseteq s => t = s
  <2>1. Bad \subseteq SUBSET S
    OBVIOUS
  <2> HIDE DEF Bad
  <2> QED
    BY <2>1, MinimalMember
<1>2. \A t \in SUBSET S : IsFiniteSet(t)
  BY FS_Subset
<1>3. s # {}
  BY SumEmpty
<1>4. PICK e \in s : TRUE
  BY <1>3
<1>5. SumOver(f, s) = f[e] + SumOver(f, s \ {e})
  BY <1>2, <1>4, SumRemove
<1>6. SumOver(g, s) = g[e] + SumOver(g, s \ {e})
  BY <1>2, <1>4, SumRemove
<1>7. SumOver(f, s \ {e}) <= SumOver(g, s \ {e})
  BY <1>1, <1>4
<1>8. SumOver(f, s \ {e}) \in Int /\ SumOver(g, s \ {e}) \in Int
  <2>1. IsFiniteSet(s \ {e}) /\ \A x \in s \ {e} : f[x] \in Int /\ g[x] \in Int
    BY <1>2
  <2> QED
    BY <2>1, SumInt
<1>9. f[e] \in Int /\ g[e] \in Int /\ f[e] <= g[e]
  BY <1>4
<1> QED
  BY <1>5, <1>6, <1>7, <1>8, <1>9

\* A larger set of natural numbers has a larger sum.
LEMMA SumSubset ==
  ASSUME NEW f, NEW S, NEW T, IsFiniteSet(T), S \subseteq T,
         \A x \in T : f[x] \in Nat
  PROVE  SumOver(f, S) <= SumOver(f, T)
<1>1. IsFiniteSet(S) /\ IsFiniteSet(T \ S)
  BY FS_Subset
<1>2. S \cup (T \ S) = T /\ S \cap (T \ S) = {}
  OBVIOUS
<1>3. SumOver(f, T) = SumOver(f, S) + SumOver(f, T \ S)
  BY <1>1, <1>2, SumUnion
<1>4. SumOver(f, S) \in Nat /\ SumOver(f, T \ S) \in Nat
  BY <1>1, SumNat
<1> QED
  BY <1>3, <1>4
=============================================================================
