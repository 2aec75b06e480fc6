------------------------- MODULE Requests_proofs ----------------------------
(***************************************************************************)
(* What the requests carry, for all lengths, limits and bounds: a request  *)
(* shows what was sent before as it was sent before, until a batch of      *)
(* turns has become old, for the replacement state decides exactly what    *)
(* was shown; every message it shows is within the aggregate limit, for a  *)
(* message is decided whole; the facts that were written to the memory     *)
(* stay, for an extraction rewrites all that the file holds; and a reply   *)
(* that reached its end is taken as it was written, for the slots hold the *)
(* parts of the calls that have begun, and no client follows one that has  *)
(* spoken.                                                                 *)
(***************************************************************************)
EXTENDS MCRequests, FiniteSetTheorems, SequenceTheorems, WellFoundedInduction, TLAPS

-----------------------------------------------------------------------------
(* Sums over a finite set.                                                 *)

\* A set of naturals has a least element.
LEMMA Least ==
    ASSUME NEW T, T \subseteq Nat, T # {}
    PROVE  \E x \in T : \A y \in T : x <= y
<1>1. PICK x \in T : \A y \in T : <<y, x>> \notin OpToRel(<, Nat)
  BY NatLessThanWellFounded, WFMin
<1>2. \A y \in T : ~(y < x)
  BY <1>1 DEF OpToRel
<1> QED
  BY <1>2

\* What a sum is folded with: the element that CHOOSE takes next.
First(s) == CHOOSE x \in s : TRUE

\* CHOOSE takes an element of the set.
LEMMA FirstIsIn ==
    ASSUME NEW s, s # {}
    PROVE  First(s) \in s
BY DEF First

SumBody(f, D, g) ==
    [s \in SUBSET D |-> IF s = {} THEN 0 ELSE f[First(s)] + g[s \ {First(s)}]]

\* The sum over a set is a recursive function of its subsets.
LEMMA SumIsFold ==
    ASSUME NEW f, NEW D
    PROVE  SumFunctionOnSet(f, D) = (CHOOSE g : g = SumBody(f, D, g))[D]
BY DEF SumFunctionOnSet, FoldFunctionOnSet, MapThenFoldSet, SumBody, First

\* Among finite sets that are wrong there is one that becomes right when any of
\* its elements is removed.
LEMMA MinimalSet ==
    ASSUME NEW D, IsFiniteSet(D), NEW Wrong, Wrong \subseteq SUBSET D, Wrong # {}
    PROVE  \E s \in Wrong : \A d \in s : s \ {d} \notin Wrong
<1> DEFINE Sizes == {Cardinality(s) : s \in Wrong}
<1>1. \A s \in SUBSET D : IsFiniteSet(s) /\ Cardinality(s) \in Nat
  BY FS_Subset, FS_CardinalityType
<1>2. Sizes \subseteq Nat /\ Sizes # {}
  BY <1>1
<1> HIDE DEF Sizes
<1>3. PICK n \in Sizes : \A k \in Sizes : n <= k
  BY <1>2, Least
<1>4. PICK s \in Wrong : n = Cardinality(s)
  BY <1>3 DEF Sizes
<1>5. ASSUME NEW d \in s, s \ {d} \in Wrong
      PROVE  FALSE
  <2>1. IsFiniteSet(s) /\ Cardinality(s) \in Nat
    BY <1>1, <1>4
  <2>2. Cardinality(s \ {d}) = Cardinality(s) - 1
    BY <1>5, <2>1, FS_RemoveElement
  <2>3. Cardinality(s \ {d}) \in Sizes
    BY <1>5 DEF Sizes
  <2> QED
    BY <1>3, <1>4, <2>1, <2>2, <2>3
<1> QED
  BY <1>5

\* The finite subsets of a finite set, and what is left of them.
LEMMA SubsetSizes ==
    ASSUME NEW D, IsFiniteSet(D), NEW s \in SUBSET D
    PROVE  /\ IsFiniteSet(s) /\ Cardinality(s) \in Nat /\ Cardinality(s) <= Cardinality(D)
           /\ Cardinality(s) = 0 <=> s = {}
           /\ \A d \in s : Cardinality(s \ {d}) = Cardinality(s) - 1
<1>1. IsFiniteSet(s) /\ Cardinality(s) <= Cardinality(D)
  BY FS_Subset
<1>2. Cardinality(s) \in Nat
  BY <1>1, FS_CardinalityType
<1>3. Cardinality(s) = 0 <=> s = {}
  BY <1>1, FS_EmptySet
<1>4. \A d \in s : Cardinality(s \ {d}) = Cardinality(s) - 1
  BY <1>1, FS_RemoveElement
<1> QED
  BY <1>1, <1>2, <1>3, <1>4

\* There are sums: functions that add the elements one after the other.
LEMMA SumsExist ==
    ASSUME NEW D, IsFiniteSet(D), NEW f \in [D -> Int]
    PROVE  \E g \in [SUBSET D -> Int] : g = SumBody(f, D, g)
<1> DEFINE Sum(s, g) == IF s = {} THEN 0 ELSE f[First(s)] + g[s \ {First(s)}]
           Upto(k) == \E g \in [SUBSET D -> Int] :
                         \A s \in SUBSET D : Cardinality(s) <= k => g[s] = Sum(s, g)
           N == Cardinality(D)
           Wrong == {k \in 0..N : ~Upto(k)}
<1>1. N \in Nat /\ \A s \in SUBSET D : Cardinality(s) \in Nat /\ Cardinality(s) <= N
  BY FS_CardinalityType, SubsetSizes
<1>2. Wrong = {}
  <2> SUFFICES ASSUME Wrong # {} PROVE FALSE
    OBVIOUS
  <2>1. PICK k \in Wrong : \A j \in Wrong : k <= j
    <3>1. Wrong \subseteq Nat
      BY <1>1
    <3> HIDE DEF Wrong
    <3> QED
      BY <3>1, Least
  <2>2. k \in 0..N /\ ~Upto(k)
    BY <2>1
  <2>3. k # 0
    <3> DEFINE zero == [s \in SUBSET D |-> 0]
    <3>1. zero \in [SUBSET D -> Int]
      OBVIOUS
    <3>2. \A s \in SUBSET D : Cardinality(s) <= 0 => zero[s] = Sum(s, zero)
      BY <1>1, SubsetSizes
    <3> HIDE DEF zero, Sum
    <3>3. Upto(0)
      BY <3>1, <3>2
    <3> QED
      BY <2>2, <3>3
  <2>4. k \in Nat /\ k - 1 \in 0..N /\ ~(k <= k - 1)
    BY <1>1, <2>2, <2>3
  <2>5. Upto(k - 1)
    BY <2>1, <2>4
  <2> HIDE DEF Wrong
  <2>6. PICK g \in [SUBSET D -> Int] :
           \A s \in SUBSET D : Cardinality(s) <= k - 1 => g[s] = Sum(s, g)
    BY <2>5
  <2> DEFINE h == [s \in SUBSET D |-> IF Cardinality(s) = k THEN Sum(s, g) ELSE g[s]]
  <2>7. ASSUME NEW s \in SUBSET D
        PROVE  Sum(s, g) \in Int
    BY <2>6, FirstIsIn
  <2>8. h \in [SUBSET D -> Int]
    <3> HIDE DEF Sum
    <3> QED
      BY <2>6, <2>7
  <2>9. ASSUME NEW s \in SUBSET D, Cardinality(s) <= k
        PROVE  h[s] = Sum(s, h)
    <3>1. h[s] = Sum(s, g)
      <4> HIDE DEF Sum
      <4> QED
        BY <1>1, <2>4, <2>6, <2>9
    <3>2. CASE s = {}
      BY <3>1, <3>2
    <3>3. CASE s # {}
      <4>1. First(s) \in s
        BY <3>3, FirstIsIn
      <4>2. Cardinality(s \ {First(s)}) = Cardinality(s) - 1 /\ Cardinality(s) \in Nat
        BY <4>1, SubsetSizes
      <4>3. s \ {First(s)} \in SUBSET D /\ Cardinality(s \ {First(s)}) # k
        BY <2>4, <2>9, <4>2
      <4>4. h[s \ {First(s)}] = g[s \ {First(s)}]
        <5> HIDE DEF Sum
        <5> QED
          BY <4>3
      <4> HIDE DEF h
      <4> QED
        BY <3>1, <3>3, <4>4
    <3> QED
      BY <3>2, <3>3
  <2> HIDE DEF h, Sum
  <2>10. Upto(k)
    BY <2>8, <2>9
  <2> QED
    BY <2>2, <2>10
<1>3. Upto(N)
  <2>1. N \in 0..N
    BY <1>1
  <2> HIDE DEF N, Upto
  <2> QED
    BY <1>2, <2>1
<1>4. PICK g \in [SUBSET D -> Int] : \A s \in SUBSET D : g[s] = Sum(s, g)
  <2> HIDE DEF Sum
  <2> QED
    BY <1>1, <1>3
<1> QED
  BY <1>4 DEF SumBody

\* The sum over the empty set is 0, over another one the first element and the
\* sum of the rest.
LEMMA SumStep ==
    ASSUME NEW D, IsFiniteSet(D), NEW f \in [D -> Int]
    PROVE  /\ SumFunctionOnSet(f, {}) = 0
           /\ \A s \in SUBSET D :
                 /\ SumFunctionOnSet(f, s) \in Int
                 /\ s # {} => SumFunctionOnSet(f, s)
                              = f[First(s)] + SumFunctionOnSet(f, s \ {First(s)})
<1>1. PICK g \in [SUBSET D -> Int] : g = SumBody(f, D, g)
  BY SumsExist
<1>2. ASSUME NEW s \in SUBSET D
      PROVE  g[s] = IF s = {} THEN 0 ELSE f[First(s)] + g[s \ {First(s)}]
  BY <1>1 DEF SumBody
<1>3. ASSUME NEW s \in SUBSET D
      PROVE  SumFunctionOnSet(f, s) = g[s]
  <2> DEFINE sums == [t \in SUBSET s |-> g[t]]
             own == CHOOSE h : h = SumBody(f, s, h)
             Wrong == {t \in SUBSET s : own[t] # g[t]}
  <2>1. IsFiniteSet(s)
    BY FS_Subset
  <2>2. sums = SumBody(f, s, sums)
    <3>1. ASSUME NEW t \in SUBSET s
          PROVE  g[t] = IF t = {} THEN 0 ELSE f[First(t)] + sums[t \ {First(t)}]
      BY <1>2
    <3> QED
      BY <3>1 DEF SumBody
  <2>3. own = SumBody(f, s, own)
    <3>1. \E h : h = SumBody(f, s, h)
      BY <2>2
    <3> QED
      BY <3>1
  <2> HIDE DEF own, sums
  <2>4. ASSUME NEW t \in SUBSET s
        PROVE  own[t] = IF t = {} THEN 0 ELSE f[First(t)] + own[t \ {First(t)}]
    BY <2>3 DEF SumBody
  <2>5. Wrong = {}
    <3> SUFFICES ASSUME Wrong # {} PROVE FALSE
      OBVIOUS
    <3>1. PICK t \in Wrong : \A d \in t : t \ {d} \notin Wrong
      <4>1. Wrong \subseteq SUBSET s
        OBVIOUS
      <4> HIDE DEF Wrong
      <4> QED
        BY <2>1, <4>1, MinimalSet
    <3>2. t \in SUBSET s /\ t \in SUBSET D /\ own[t] # g[t]
      BY <3>1
    <3>3. t # {}
      BY <1>2, <2>4, <3>2
    <3>4. First(t) \in t
      BY <3>3, FirstIsIn
    <3>5. own[t \ {First(t)}] = g[t \ {First(t)}]
      BY <3>1, <3>4
    <3> HIDE DEF Wrong
    <3> QED
      BY <1>2, <2>4, <3>2, <3>3, <3>5
  <2> QED
    BY <2>5, SumIsFold DEF own
<1>4. SumFunctionOnSet(f, {}) = 0
  BY <1>2, <1>3
<1>5. ASSUME NEW s \in SUBSET D
      PROVE  /\ SumFunctionOnSet(f, s) \in Int
             /\ s # {} => SumFunctionOnSet(f, s)
                          = f[First(s)] + SumFunctionOnSet(f, s \ {First(s)})
  <2>1. s \ {First(s)} \in SUBSET D
    OBVIOUS
  <2>2. g[s] \in Int
    BY <1>1
  <2> QED
    BY <1>2, <1>3, <2>1, <2>2
<1> QED
  BY <1>4, <1>5

\* Any element may be taken first.
LEMMA SumTake ==
    ASSUME NEW D, IsFiniteSet(D), NEW f \in [D -> Int],
           NEW s \in SUBSET D, NEW d \in s
    PROVE  SumFunctionOnSet(f, s) = f[d] + SumFunctionOnSet(f, s \ {d})
<1> DEFINE Sum(t) == SumFunctionOnSet(f, t)
           Wrong == {t \in SUBSET D : \E x \in t : Sum(t) # f[x] + Sum(t \ {x})}
<1>1. /\ \A t \in SUBSET D : Sum(t) \in Int
      /\ \A t \in SUBSET D : t # {} => Sum(t) = f[First(t)] + Sum(t \ {First(t)})
  BY SumStep
<1> HIDE DEF Sum
<1>2. Wrong = {}
  <2> SUFFICES ASSUME Wrong # {} PROVE FALSE
    OBVIOUS
  <2>1. PICK t \in Wrong : \A x \in t : t \ {x} \notin Wrong
    <3>1. Wrong \subseteq SUBSET D
      OBVIOUS
    <3> HIDE DEF Wrong
    <3> QED
      BY <3>1, MinimalSet
  <2>2. PICK x \in t : Sum(t) # f[x] + Sum(t \ {x})
    BY <2>1
  <2> DEFINE y == First(t)
  <2>3. t \in SUBSET D /\ y \in t /\ Sum(t) = f[y] + Sum(t \ {y})
    BY <1>1, <2>1, FirstIsIn
  <2> HIDE DEF y
  <2>4. x # y
    BY <2>2, <2>3
  <2>5. Sum(t \ {y}) = f[x] + Sum((t \ {y}) \ {x})
    BY <2>1, <2>3, <2>4
  <2>6. Sum(t \ {x}) = f[y] + Sum((t \ {y}) \ {x})
    <3>1. Sum(t \ {x}) = f[y] + Sum((t \ {x}) \ {y})
      BY <2>1, <2>3, <2>4
    <3>2. (t \ {x}) \ {y} = (t \ {y}) \ {x}
      OBVIOUS
    <3> QED
      BY <3>1, <3>2
  <2>7. f[x] \in Int /\ f[y] \in Int /\ Sum((t \ {y}) \ {x}) \in Int
    <3>1. (t \ {y}) \ {x} \in SUBSET D /\ x \in D /\ y \in D
      BY <2>3
    <3> QED
      BY <1>1, <3>1
  <2> HIDE DEF Wrong
  <2> DEFINE u == Sum((t \ {y}) \ {x})
  <2>8. Sum(t) = f[y] + (f[x] + u) /\ Sum(t \ {x}) = f[y] + u
    BY <2>3, <2>5, <2>6
  <2> HIDE DEF u
  <2>9. u \in Int
    BY <2>7 DEF u
  <2> QED
    BY <2>2, <2>7, <2>8, <2>9
<1>3. Sum(s) = f[d] + Sum(s \ {d})
  BY <1>2
<1> QED
  BY <1>3 DEF Sum

\* The sums over the subsets, as a function.
LEMMA SumLaws ==
    ASSUME NEW D, IsFiniteSet(D), NEW f \in [D -> Int]
    PROVE  \E F \in [SUBSET D -> Int] :
              /\ F[{}] = 0
              /\ \A t \in SUBSET D : \A d \in t : F[t] = f[d] + F[t \ {d}]
              /\ F[D] = SumFunction(f)
<1> DEFINE F == [t \in SUBSET D |-> SumFunctionOnSet(f, t)]
<1>1. F \in [SUBSET D -> Int] /\ F[{}] = 0
  BY SumStep
<1>2. ASSUME NEW t \in SUBSET D, NEW d \in t
      PROVE  F[t] = f[d] + F[t \ {d}]
  <2>1. t \ {d} \in SUBSET D
    OBVIOUS
  <2> QED
    BY <2>1, SumTake
<1>3. F[D] = SumFunction(f)
  <2>1. D \in SUBSET D /\ DOMAIN f = D
    OBVIOUS
  <2> QED
    BY <2>1 DEF SumFunction
<1> QED
  BY <1>1, <1>2, <1>3

\* A sum is a number, and nothing adds up to 0.
LEMMA SumTyped ==
    ASSUME NEW D, IsFiniteSet(D), NEW f \in [D -> Int]
    PROVE  SumFunction(f) \in Int /\ (D = {} => SumFunction(f) = 0)
<1>1. PICK F \in [SUBSET D -> Int] :
         /\ F[{}] = 0
         /\ \A t \in SUBSET D : \A d \in t : F[t] = f[d] + F[t \ {d}]
         /\ F[D] = SumFunction(f)
  BY SumLaws
<1>2. D \in SUBSET D
  OBVIOUS
<1> QED
  BY <1>1, <1>2

\* Elements that weigh less add up to less.
LEMMA SumMonotone ==
    ASSUME NEW D, IsFiniteSet(D), NEW f \in [D -> Int], NEW g \in [D -> Int],
           \A d \in D : f[d] <= g[d]
    PROVE  SumFunction(f) <= SumFunction(g)
<1>0. PICK F \in [SUBSET D -> Int] :
         /\ F[{}] = 0
         /\ \A t \in SUBSET D : \A d \in t : F[t] = f[d] + F[t \ {d}]
         /\ F[D] = SumFunction(f)
  BY SumLaws
<1>1. PICK G \in [SUBSET D -> Int] :
         /\ G[{}] = 0
         /\ \A t \in SUBSET D : \A d \in t : G[t] = g[d] + G[t \ {d}]
         /\ G[D] = SumFunction(g)
  BY SumLaws
<1> DEFINE Wrong == {t \in SUBSET D : ~(F[t] <= G[t])}
<1>2. Wrong = {}
  <2> SUFFICES ASSUME Wrong # {} PROVE FALSE
    OBVIOUS
  <2>1. PICK t \in Wrong : \A x \in t : t \ {x} \notin Wrong
    <3>1. Wrong \subseteq SUBSET D
      OBVIOUS
    <3> HIDE DEF Wrong
    <3> QED
      BY <3>1, MinimalSet
  <2>2. t \in SUBSET D /\ ~(F[t] <= G[t])
    BY <2>1
  <2> HIDE DEF Wrong
  <2>3. PICK d \in t : TRUE
    <3>1. ASSUME t = {} PROVE FALSE
      <4>1. F[t] = 0 /\ G[t] = 0
        BY <1>0, <1>1, <3>1
      <4> QED
        BY <2>2, <4>1
    <3> QED
      BY <3>1
  <2>4. t \ {d} \in SUBSET D
    BY <2>2
  <2>5. F[t \ {d}] <= G[t \ {d}]
    BY <2>1, <2>4 DEF Wrong
  <2>6. /\ F[t] = f[d] + F[t \ {d}] /\ G[t] = g[d] + G[t \ {d}]
        /\ f[d] \in Int /\ g[d] \in Int /\ f[d] <= g[d]
        /\ F[t \ {d}] \in Int /\ G[t \ {d}] \in Int
    BY <1>0, <1>1, <2>2, <2>4
  <2> QED
    BY <2>2, <2>5, <2>6
<1>3. F[D] <= G[D]
  <2>1. D \in SUBSET D
    OBVIOUS
  <2> QED
    BY <1>2, <2>1
<1> QED
  BY <1>0, <1>1, <1>3

\* Equal elements add up to their number times their weight.
LEMMA SumConstant ==
    ASSUME NEW D, IsFiniteSet(D), NEW c \in Int, NEW f \in [D -> Int],
           \A d \in D : f[d] = c
    PROVE  SumFunction(f) = Cardinality(D) * c
<1>2. PICK F \in [SUBSET D -> Int] :
         /\ F[{}] = 0
         /\ \A t \in SUBSET D : \A d \in t : F[t] = f[d] + F[t \ {d}]
         /\ F[D] = SumFunction(f)
  BY SumLaws
<1> DEFINE Wrong == {t \in SUBSET D : F[t] # Cardinality(t) * c}
<1>3. Wrong = {}
  <2> SUFFICES ASSUME Wrong # {} PROVE FALSE
    OBVIOUS
  <2>1. PICK t \in Wrong : \A x \in t : t \ {x} \notin Wrong
    <3>1. Wrong \subseteq SUBSET D
      OBVIOUS
    <3> HIDE DEF Wrong
    <3> QED
      BY <3>1, MinimalSet
  <2>2. t \in SUBSET D /\ F[t] # Cardinality(t) * c
    BY <2>1
  <2>3. ASSUME t = {} PROVE FALSE
    <3>1. F[t] = 0 /\ Cardinality(t) = 0
      BY <1>2, <2>3, FS_EmptySet
    <3>2. 0 * c = 0
      OBVIOUS
    <3> QED
      BY <2>2, <3>1, <3>2
  <2>4. PICK d \in t : t \ {d} \in SUBSET D
    BY <2>2, <2>3
  <2>5. F[t \ {d}] = Cardinality(t \ {d}) * c
    BY <2>1, <2>4
  <2>6. Cardinality(t \ {d}) = Cardinality(t) - 1 /\ Cardinality(t) \in Nat
    BY <2>2, SubsetSizes
  <2>7. F[t] = c + (Cardinality(t) - 1) * c
    BY <1>2, <2>2, <2>5, <2>6
  <2>8. \A n \in Nat : c + (n - 1) * c = n * c
    OBVIOUS
  <2> QED
    BY <2>2, <2>6, <2>7, <2>8
<1>4. F[D] = Cardinality(D) * c
  <2>1. D \in SUBSET D
    OBVIOUS
  <2> QED
    BY <1>3, <2>1
<1> QED
  BY <1>2, <1>4

\* What some elements lose, the sum loses.
LEMMA SumMinus ==
    ASSUME NEW D, IsFiniteSet(D), NEW f \in [D -> Int],
           NEW S \in SUBSET D, NEW h \in [S -> Int],
           NEW g \in [D -> Int],
           \A d \in D : g[d] = IF d \in S THEN f[d] - h[d] ELSE f[d]
    PROVE  SumFunction(g) = SumFunction(f) - SumFunction(h)
<1>0. PICK F \in [SUBSET D -> Int] :
         /\ F[{}] = 0
         /\ \A t \in SUBSET D : \A d \in t : F[t] = f[d] + F[t \ {d}]
         /\ F[D] = SumFunction(f)
  BY SumLaws
<1>1. PICK G \in [SUBSET D -> Int] :
         /\ G[{}] = 0
         /\ \A t \in SUBSET D : \A d \in t : G[t] = g[d] + G[t \ {d}]
         /\ G[D] = SumFunction(g)
  BY SumLaws
<1>2. IsFiniteSet(S)
  BY FS_Subset
<1>3. PICK H \in [SUBSET S -> Int] :
         /\ H[{}] = 0
         /\ \A t \in SUBSET S : \A d \in t : H[t] = h[d] + H[t \ {d}]
         /\ H[S] = SumFunction(h)
  BY <1>2, SumLaws
<1> DEFINE Wrong == {t \in SUBSET D : G[t] # F[t] - H[t \cap S]}
<1>4. Wrong = {}
  <2> SUFFICES ASSUME Wrong # {} PROVE FALSE
    OBVIOUS
  <2>1. PICK t \in Wrong : \A x \in t : t \ {x} \notin Wrong
    <3>1. Wrong \subseteq SUBSET D
      OBVIOUS
    <3> HIDE DEF Wrong
    <3> QED
      BY <3>1, MinimalSet
  <2>2. t \in SUBSET D /\ G[t] # F[t] - H[t \cap S]
    BY <2>1
  <2>3. t # {}
    <3> SUFFICES ASSUME t = {} PROVE FALSE
      OBVIOUS
    <3>1. F[t] = 0 /\ G[t] = 0
      BY <1>0, <1>1
    <3>2. t \cap S = {}
      OBVIOUS
    <3>3. H[t \cap S] = 0
      BY <1>3, <3>2
    <3> QED
      BY <2>2, <3>1, <3>3
  <2>4. PICK d \in t : t \ {d} \in SUBSET D
    BY <2>2, <2>3
  <2>5. G[t \ {d}] = F[t \ {d}] - H[(t \ {d}) \cap S]
    BY <2>1, <2>4
  <2>6. /\ F[t] = f[d] + F[t \ {d}] /\ G[t] = g[d] + G[t \ {d}]
        /\ f[d] \in Int /\ g[d] \in Int
        /\ F[t \ {d}] \in Int /\ G[t \ {d}] \in Int
    BY <1>0, <1>1, <2>2, <2>4
  <2> HIDE DEF Wrong
  <2>7. CASE d \in S
    <3>1. d \in t \cap S /\ t \cap S \in SUBSET S
      BY <2>7
    <3>2. H[t \cap S] = h[d] + H[(t \ {d}) \cap S]
      <4>1. H[t \cap S] = h[d] + H[(t \cap S) \ {d}]
        BY <1>3, <3>1
      <4>2. (t \cap S) \ {d} = (t \ {d}) \cap S
        OBVIOUS
      <4> QED
        BY <4>1, <4>2
    <3>3. h[d] \in Int /\ H[(t \ {d}) \cap S] \in Int /\ g[d] = f[d] - h[d]
      <4>1. (t \ {d}) \cap S \in SUBSET S
        OBVIOUS
      <4> QED
        BY <1>3, <2>2, <2>7, <4>1
    <3> QED
      BY <2>2, <2>5, <2>6, <3>2, <3>3
  <2>8. CASE d \notin S
    <3>1. (t \ {d}) \cap S = t \cap S
      BY <2>8
    <3>2. g[d] = f[d] /\ H[t \cap S] \in Int
      <4>1. t \cap S \in SUBSET S
        OBVIOUS
      <4> QED
        BY <1>3, <2>2, <2>8, <4>1
    <3>3. G[t \ {d}] = F[t \ {d}] - H[t \cap S]
      BY <2>5, <3>1
    <3> QED
      BY <2>2, <2>6, <3>2, <3>3
  <2> QED
    BY <2>7, <2>8
<1>5. G[D] = F[D] - H[S]
  <2>1. D \in SUBSET D /\ D \cap S = S
    OBVIOUS
  <2> QED
    BY <1>4, <2>1
<1> QED
  BY <1>0, <1>1, <1>3, <1>5

-----------------------------------------------------------------------------
(* The replacement state.                                                  *)

\* No two results of a history have the same id.
OneEach(a) ==
    \A r, s \in ResultsOf(history[a]) : r.id = s.id => r = s

\* The ids an agent gave are below its counter: neither what it will record nor
\* what it will fork with is in a history or was sent.
Given(i) == \A a \in Agent : i[1] = a => i[2] <= made[a]

IdsAreGiven ==
    /\ \A r \in ResultsOf(history["main"]) : r.id[1] = "main" /\ Given(r.id)
    /\ \A r \in ResultsOf(history["fork"]) : r.id[1] = "fork" => Given(r.id)
    /\ \A i \in Id : sent["main"][i] # None => i[1] = "main" /\ Given(i)
    /\ \A i \in Id : sent["fork"][i] # None /\ i[1] = "fork" => Given(i)

\* What was sent is what the state decides.
Settled(a) ==
    \A r \in ResultsOf(history[a]) :
        sent[a][r.id] # None /\ ~(restarted /\ a = "main")
        => r.id \in seen[a] /\ sent[a][r.id] = Decided(a, r)

StableInv ==
    /\ TypeOK
    /\ \A a \in Agent : OneEach(a) /\ Settled(a)
    /\ IdsAreGiven
    /\ phase["main"] \in {"asked", "calling"} => ~restarted

-----------------------------------------------------------------------------
(* Histories.                                                              *)

History == Seq(SUBSET Result)

\* Appending a message adds its results.
LEMMA ResultsOfAppend ==
    ASSUME NEW h \in History, NEW m \in SUBSET Result
    PROVE  /\ Append(h, m) \in History
           /\ ResultsOf(Append(h, m)) = ResultsOf(h) \cup m
<1>1. Append(h, m) \in History
  BY DEF History
<1>2. ResultsOf(Append(h, m)) \subseteq ResultsOf(h) \cup m
  <2> SUFFICES ASSUME NEW i \in DOMAIN Append(h, m), NEW r \in Append(h, m)[i]
               PROVE  r \in ResultsOf(h) \cup m
    BY DEF ResultsOf, Range
  <2>1. \/ i \in DOMAIN h /\ Append(h, m)[i] = h[i]
        \/ Append(h, m)[i] = m
    BY DEF History
  <2> QED
    BY <2>1 DEF ResultsOf, Range
<1>3. ResultsOf(h) \subseteq ResultsOf(Append(h, m))
  <2> SUFFICES ASSUME NEW i \in DOMAIN h, NEW r \in h[i]
               PROVE  r \in ResultsOf(Append(h, m))
    BY DEF ResultsOf, Range
  <2>1. i \in DOMAIN Append(h, m) /\ Append(h, m)[i] = h[i]
    BY DEF History
  <2> QED
    BY <2>1 DEF ResultsOf, Range
<1>4. m \subseteq ResultsOf(Append(h, m))
  <2>1. Len(h) + 1 \in DOMAIN Append(h, m) /\ Append(h, m)[Len(h) + 1] = m
    BY DEF History
  <2> QED
    BY <2>1 DEF ResultsOf, Range
<1> QED
  BY <1>1, <1>2, <1>3, <1>4

\* A part of a history has no other results than the whole.
LEMMA ResultsOfPart ==
    ASSUME NEW h \in History, NEW p \in Int, NEW q \in Int, 1 <= p, q <= Len(h)
    PROVE  /\ SubSeq(h, p, q) \in History
           /\ ResultsOf(SubSeq(h, p, q)) \subseteq ResultsOf(h)
<1>1. SubSeq(h, p, q) \in History
  BY SubSeqProperties DEF History
<1>2. ASSUME NEW i \in DOMAIN SubSeq(h, p, q)
      PROVE  SubSeq(h, p, q)[i] \in Range(h)
  <2>1. p + i - 1 \in DOMAIN h /\ SubSeq(h, p, q)[i] = h[p + i - 1]
    BY DEF History
  <2> QED
    BY <2>1 DEF Range
<1> QED
  BY <1>1, <1>2 DEF ResultsOf, Range

\* The results of a history are results.
LEMMA ResultsTyped ==
    ASSUME NEW h \in History
    PROVE  ResultsOf(h) \subseteq Result
BY DEF History, ResultsOf, Range

\* A result an agent holds has an id.
LEMMA HeldIdsTyped ==
    ASSUME TypeOK, NEW a \in Agent, NEW r \in ResultsOf(history[a])
    PROVE  r \in Result /\ r.id \in Id
<1>1. history[a] \in History
  BY DEF TypeOK, History
<1> QED
  BY <1>1, ResultsTyped DEF Result

\* The history of a new session has no results.
LEMMA EmptyHistory == <<>> \in History /\ ResultsOf(<<>>) = {}
BY DEF History, ResultsOf, Range

\* Turns are counted by a natural number.
LEMMA TurnsType ==
    ASSUME NEW h \in History
    PROVE  Turns(h) \in Nat
<1>1. IsFiniteSet(DOMAIN h)
  BY FS_Interval DEF History
<1> QED
  BY <1>1, FS_Subset, FS_CardinalityType DEF Turns

-----------------------------------------------------------------------------
(* What a request shows.                                                   *)

\* Only fresh results are stored now.
LEMMA StoredIsFresh ==
    ASSUME NEW a \in Agent, NEW r \in ToStore(a)
    PROVE  r.id \notin seen[a] /\ kept[a][r.id] = None
BY DEF ToStore, Oversized, Surplus, Rest, Fresh

\* The boundaries are numbers.
LEMMA TargetType ==
    ASSUME TypeOK, NEW a \in Agent
    PROVE  Target(a) \in Int /\ boundary[a] \in Nat
<1>1. history[a] \in History
  BY DEF TypeOK, History
<1>2. Turns(history[a]) \in Nat
  BY <1>1, TurnsType
<1> QED
  BY <1>2, ResultBudgetAssumption DEF TypeOK, Target

\* A batch is full only if it was the growth of the history that filled it: the
\* cursor has not fallen back.
LEMMA FullBatchIsNew ==
    ASSUME TypeOK, NEW a \in Agent, BatchIsFull(a)
    PROVE  /\ Target(a) \in Nat
           /\ Target(a) >= boundary[a] + Batch
BY TargetType, ResultBudgetAssumption DEF BatchIsFull, Cursor

\* The boundary of the next request is a turn.
LEMMA BoundaryTyped ==
    ASSUME TypeOK, NEW a \in Agent
    PROVE  (IF BatchIsFull(a) THEN Target(a) ELSE Cursor(a)) \in Nat
BY TargetType, FullBatchIsNew DEF Cursor

\* Whatever is cut is of this history.
LEMMA SnippedIsHeld ==
    ASSUME NEW a \in Agent
    PROVE  ToSnip(a) \subseteq ResultsOf(history[a])
BY DEF ToSnip, ResultsUpTo, ResultsOf, Range

\* Whatever is stored is of this history.
LEMMA StoredIsHeld ==
    ASSUME NEW a \in Agent
    PROVE  ToStore(a) \subseteq ResultsOf(history[a])
BY DEF ToStore, Oversized, Surplus, Rest, Fresh, ResultsOf, Range

\* Each result of the history is shown under its id.
LEMMA ShownById ==
    ASSUME TypeOK, NEW a \in Agent, OneEach(a), NEW r \in ResultsOf(history[a])
    PROVE  r.id \in Id /\ ShownTo(a)[r.id] = Shown(a, r)
<1>1. r \in Result
  BY ResultsTyped DEF TypeOK, History
<1>2. r.id \in IdsOf(ResultsOf(history[a]))
  BY DEF IdsOf
<1>3. (CHOOSE s \in ResultsOf(history[a]) : s.id = r.id) = r
  BY DEF OneEach
<1> QED
  BY <1>1, <1>2, <1>3 DEF ShownTo, Result

\* A result is shown in one of the forms.
LEMMA ShownTyped ==
    ASSUME TypeOK, NEW a \in Agent, NEW r \in ResultsOf(history[a])
    PROVE  Shown(a, r) \in Form
<1>1. r \in Result
  BY ResultsTyped DEF TypeOK, History
<1>2. kept[a][r.id] \in {None, "stored", "snipped"}
  BY <1>1 DEF TypeOK, Result
<1> QED
  BY <1>1, <1>2 DEF Shown, AfterStoring, Decided, Form, Result

\* A request shows each id in a form or not at all.
LEMMA ShownToTyped ==
    ASSUME TypeOK, NEW a \in Agent
    PROVE  ShownTo(a) \in [Id -> Form \cup {None}]
<1> SUFFICES ASSUME NEW i \in IdsOf(ResultsOf(history[a]))
             PROVE  Shown(a, CHOOSE r \in ResultsOf(history[a]) : r.id = i) \in Form
  BY DEF ShownTo
<1>1. (CHOOSE r \in ResultsOf(history[a]) : r.id = i) \in ResultsOf(history[a])
  BY DEF IdsOf
<1> QED
  BY <1>1, ShownTyped

\* The state after a request decides what the request showed.
LEMMA RequestSettles ==
    ASSUME TypeOK, NEW a \in Agent, OneEach(a), Request(a),
           NEW r \in ResultsOf(history[a])
    PROVE  /\ r.id \in seen'[a]
           /\ sent'[a][r.id] = Shown(a, r)
           /\ kept'[a][r.id] # None => Shown(a, r) = kept'[a][r.id]
           /\ kept'[a][r.id] = None => Shown(a, r) = r.form
<1>1. r.id \in Id /\ ShownTo(a)[r.id] = Shown(a, r)
  BY ShownById
<1>2. sent'[a][r.id] = Shown(a, r)
  BY <1>1 DEF Request, TypeOK
<1>3. r.id \in seen'[a]
  BY DEF Request, TypeOK, IdsOf
<1>4. /\ r.id \in IdsOf(ToSnip(a)) <=> r \in ToSnip(a)
      /\ r.id \in IdsOf(ToStore(a) \cup StoredAlready(a))
            <=> r \in ToStore(a) \cup StoredAlready(a)
  BY SnippedIsHeld, StoredIsHeld DEF OneEach, IdsOf, StoredAlready
<1>5. kept'[a][r.id] = IF r \in ToSnip(a) THEN "snipped"
                       ELSE IF r \in ToStore(a) \cup StoredAlready(a) THEN "stored"
                       ELSE kept[a][r.id]
  BY <1>1, <1>4 DEF Request, TypeOK
<1>6. CASE r \in ToSnip(a)
  BY <1>2, <1>3, <1>5, <1>6 DEF Shown, None
<1>7. CASE r \notin ToSnip(a) /\ r \in ToStore(a)
  BY <1>2, <1>3, <1>5, <1>7 DEF Shown, AfterStoring, None
<1>8. CASE r \notin ToSnip(a) /\ r \notin ToStore(a) /\ r \in StoredAlready(a)
  BY <1>2, <1>3, <1>5, <1>8 DEF Shown, AfterStoring, Decided, StoredAlready, None
<1>9. CASE r \notin ToSnip(a) /\ r \notin ToStore(a) /\ r \notin StoredAlready(a)
  BY <1>2, <1>3, <1>5, <1>9 DEF Shown, AfterStoring, Decided
<1> QED
  BY <1>6, <1>7, <1>8, <1>9

-----------------------------------------------------------------------------
(* The invariant.                                                          *)

\* What is made next has an id that is not given yet.
LEMMA NextIdIsNew ==
    ASSUME TypeOK, NEW a \in Agent, NEW n \in Nat,
           made[a] < n, n <= MaxResults[a]
    PROVE  <<a, n>> \in Id /\ ~Given(<<a, n>>)
BY ResultBudgetAssumption DEF TypeOK, Id, Given, Agent

\* What holds of a history holds of one that holds less.
LEMMA LessHistory ==
    ASSUME StableInv, UNCHANGED <<made, state, sent, restarted>>,
           \A a \in Agent : ResultsOf(history[a])' \subseteq ResultsOf(history[a])
    PROVE  (\A a \in Agent : OneEach(a) /\ Settled(a))' /\ IdsAreGiven'
<1>1. (\A a \in Agent : OneEach(a))'
  BY DEF StableInv, OneEach
<1>2. (\A a \in Agent : Settled(a))'
  BY DEF StableInv, Settled, Decided, state
<1>3. IdsAreGiven'
  BY DEF StableInv, IdsAreGiven, Given, Agent
<1> QED
  BY <1>1, <1>2, <1>3

\* Nothing has been shown at the start.
LEMMA InitStable == Init => StableInv
<1> SUFFICES ASSUME Init PROVE StableInv
  OBVIOUS
<1>1. \A a \in Agent : history[a] = <<>>
  BY DEF Init
<1>2. TypeOK
  BY EmptyHistory DEF Init, TypeOK, History, Nothing, Agent
<1>3. \A a \in Agent : ResultsOf(history[a]) = {}
  BY <1>1, EmptyHistory
<1>4. IdsAreGiven
  BY <1>3 DEF IdsAreGiven, Init, Nothing, Agent
<1> QED
  BY <1>2, <1>3, <1>4 DEF StableInv, OneEach, Settled, Init, Agent

\* A request shows again what was shown, in the form it had.
LEMMA RequestStable ==
    ASSUME StableInv, NEW a \in Agent, Request(a)
    PROVE  StableInv'
<1>1. TypeOK'
  <2>1. sent' \in [Agent -> [Id -> Form \cup {None}]]
    BY ShownToTyped DEF StableInv, TypeOK, Request
  <2>2. boundary' \in [Agent -> Nat]
    BY BoundaryTyped DEF StableInv, TypeOK, Request
  <2>3. kept' \in [Agent -> [Id -> {None, "stored", "snipped"}]]
    BY DEF StableInv, TypeOK, Request
  <2>4. \A r \in ResultsOf(history[a]) : r.id \in Id
    BY ShownById DEF StableInv
  <2>5. seen' \in [Agent -> SUBSET Id] /\ files' \subseteq Id
    BY <2>4, StoredIsHeld DEF StableInv, TypeOK, Request, IdsOf
  <2>6. phase' \in [Agent -> {"none", "idle", "asked", "calling"}]
    BY DEF StableInv, TypeOK, Request
  <2> QED
    BY <2>1, <2>2, <2>3, <2>5, <2>6 DEF StableInv, TypeOK, Request
<1>2. ASSUME NEW b \in Agent PROVE OneEach(b)' /\ Settled(b)'
  <2>1. OneEach(b)'
    BY DEF StableInv, OneEach, Request
  <2>2. CASE b = a
    <3> SUFFICES ASSUME NEW r \in ResultsOf(history[a])
                 PROVE  r.id \in seen'[a] /\ sent'[a][r.id] = Decided(a, r)'
      BY <2>1, <2>2 DEF Settled, Request
    <3> QED
      BY RequestSettles DEF StableInv, Decided
  <2>3. CASE b # a
    <3>1. /\ history'[b] = history[b] /\ sent'[b] = sent[b]
          /\ seen'[b] = seen[b] /\ kept'[b] = kept[b]
      BY <2>3 DEF StableInv, TypeOK, Request
    <3>2. restarted' /\ b = "main" <=> restarted /\ b = "main"
      BY <2>3 DEF Request, Agent
    <3> QED
      BY <2>1, <3>1, <3>2 DEF StableInv, Settled, Decided
  <2> QED
    BY <2>1, <2>2, <2>3
<1>3. IdsAreGiven'
  <2>1. \A i \in Id : sent'[a][i] # None => i \in IdsOf(ResultsOf(history[a]))
    BY DEF StableInv, TypeOK, Request, ShownTo
  <2>2. \A b \in Agent : b # a => sent'[b] = sent[b]
    BY DEF StableInv, TypeOK, Request
  <2>3. history' = history /\ made' = made
    BY DEF Request
  <2> QED
    BY <2>1, <2>2, <2>3 DEF StableInv, IdsAreGiven, IdsOf, Given, Agent
<1>4. phase'["main"] \in {"asked", "calling"} => ~restarted'
  BY DEF StableInv, TypeOK, Request, Agent
<1> QED
  BY <1>1, <1>2, <1>3, <1>4 DEF StableInv

\* New results carry ids that were never shown.
LEMMA AddResultsStable ==
    ASSUME StableInv, NEW a \in Agent, AddResults(a)
    PROVE  StableInv'
<1>0. PICK n \in 1..MaxCalls : \E output \in [1..n -> Outputs] :
         /\ made[a] + n <= MaxResults[a]
         /\ made' = [made EXCEPT ![a] = @ + n]
         /\ history' = [history EXCEPT ![a] = Append(@,
               {[id |-> <<a, made[a] + i>>, form |-> Recorded(output[i])] : i \in 1..n})]
         /\ files' = files \cup {<<a, made[a] + i>> : i \in {j \in 1..n : output[j] = "huge"}}
  BY DEF AddResults
<1>1. PICK output \in [1..n -> Outputs] :
         /\ made[a] + n <= MaxResults[a]
         /\ made' = [made EXCEPT ![a] = @ + n]
         /\ history' = [history EXCEPT ![a] = Append(@,
               {[id |-> <<a, made[a] + i>>, form |-> Recorded(output[i])] : i \in 1..n})]
         /\ files' = files \cup {<<a, made[a] + i>> : i \in {j \in 1..n : output[j] = "huge"}}
  BY <1>0
<1> DEFINE new == {[id |-> <<a, made[a] + i>>, form |-> Recorded(output[i])] : i \in 1..n}
<1>2. n \in Nat /\ made[a] \in Nat /\ MaxResults[a] \in Nat
  BY ResultBudgetAssumption DEF StableInv, TypeOK, Agent
<1>3. \A i \in 1..n : <<a, made[a] + i>> \in Id /\ ~Given(<<a, made[a] + i>>)
  <2> SUFFICES ASSUME NEW i \in 1..n
               PROVE  <<a, made[a] + i>> \in Id /\ ~Given(<<a, made[a] + i>>)
    OBVIOUS
  <2>1. /\ made[a] + i \in Nat /\ made[a] < made[a] + i
        /\ made[a] + i <= MaxResults[a]
    BY <1>1, <1>2
  <2> QED
    BY <2>1, NextIdIsNew DEF StableInv
<1>4. \A i \in 1..n : Recorded(output[i]) \in Form
  BY ResultBudgetAssumption DEF Recorded, Form
<1>5. new \in SUBSET Result
  BY <1>3, <1>4 DEF Result
<1>6. history[a] \in History
  BY DEF StableInv, TypeOK, History
<1>7. /\ Append(history[a], new) \in History
      /\ ResultsOf(Append(history[a], new)) = ResultsOf(history[a]) \cup new
  BY <1>5, <1>6, ResultsOfAppend
<1>8. history' = [history EXCEPT ![a] = Append(history[a], new)]
  BY <1>1
<1>9. /\ ResultsOf(history'[a]) = ResultsOf(history[a]) \cup new
      /\ \A b \in Agent : b # a => history'[b] = history[b]
      /\ history' \in [Agent -> History]
  BY <1>7, <1>8 DEF StableInv, TypeOK, History
<1> HIDE DEF new
<1>10. \A r \in new : r.id[1] = a /\ r.id \in Id /\ ~Given(r.id) /\ r.id[2] <= made'[a]
  BY <1>1, <1>2, <1>3 DEF new, StableInv, TypeOK
<1>11. \A r, s \in new : r.id = s.id => r = s
  BY <1>2 DEF new
<1>12. /\ \A i \in Id : Given(i) => Given(i)'
       /\ \A r \in new : Given(r.id)'
  <2>1. /\ made'[a] = made[a] + n
        /\ \A b \in Agent : b # a => made'[b] = made[b]
    BY <1>1 DEF StableInv, TypeOK
  <2>2. \A i \in Id : i[2] \in Nat
    BY ResultBudgetAssumption DEF Id, Agent
  <2>3. \A i \in Id : Given(i) => Given(i)'
    BY <1>2, <2>1, <2>2 DEF Given
  <2> QED
    BY <1>10, <2>3 DEF Given
<1>13. TypeOK'
  <2>1. files' \subseteq Id
    BY <1>1, <1>3 DEF StableInv, TypeOK
  <2>2. phase' \in [Agent -> {"none", "idle", "asked", "calling"}]
    BY DEF StableInv, TypeOK, AddResults
  <2>3. made' \in [Agent -> Nat]
    BY <1>1, <1>2 DEF StableInv, TypeOK
  <2> QED
    BY <1>9, <2>1, <2>2, <2>3 DEF StableInv, TypeOK, AddResults, state, History
\* Held before by the agent itself: given.
<1>14. \A r \in ResultsOf(history[a]) : r.id[1] = a => Given(r.id)
  BY DEF StableInv, IdsAreGiven, Agent
<1>15. \A i \in Id : sent[a][i] # None /\ i[1] = a => Given(i)
  BY DEF StableInv, IdsAreGiven, Agent
<1>16. ASSUME NEW b \in Agent PROVE OneEach(b)' /\ Settled(b)'
  <2>1. CASE b # a
    BY <1>9, <2>1 DEF StableInv, OneEach, Settled, Decided, AddResults, state
  <2>2. CASE b = a
    <3>1. OneEach(a)'
      BY <1>9, <1>10, <1>11, <1>14 DEF StableInv, OneEach
    <3>2. ASSUME NEW r \in new PROVE sent'[a][r.id] = None
      BY <1>10, <1>15, <3>2 DEF AddResults
    <3>3. Settled(a)'
      BY <1>9, <3>2 DEF StableInv, Settled, Decided, AddResults, state
    <3> QED
      BY <2>2, <3>1, <3>3
  <2> QED
    BY <2>1, <2>2
<1>17. IdsAreGiven'
  <2>1. \A r \in ResultsOf(history'["main"]) : r.id[1] = "main" /\ Given(r.id)'
    BY <1>9, <1>10, <1>12, HeldIdsTyped DEF StableInv, IdsAreGiven, Agent
  <2>2. \A r \in ResultsOf(history'["fork"]) : r.id[1] = "fork" => Given(r.id)'
    BY <1>9, <1>10, <1>12, HeldIdsTyped DEF StableInv, IdsAreGiven, Agent
  <2> QED
    BY <1>12, <2>1, <2>2 DEF StableInv, IdsAreGiven, AddResults
<1>18. phase'["main"] \in {"asked", "calling"} => ~restarted'
  BY DEF StableInv, TypeOK, AddResults, Agent
<1> QED
  BY <1>13, <1>16, <1>17, <1>18 DEF StableInv

\* A fork inherits what its parent was shown.
LEMMA ForkStable ==
    ASSUME StableInv, Fork
    PROVE  StableInv'
<1> DEFINE id == <<"main", made["main"] + 1>>
           new == {[id |-> id, form |-> "short"]}
<1>1. id \in Id /\ ~Given(id)
  <2>1. "main" \in Agent /\ made["main"] \in Nat /\ MaxResults["main"] \in Nat
    BY ResultBudgetAssumption DEF StableInv, TypeOK, Agent
  <2> QED
    BY <2>1, NextIdIsNew DEF StableInv, Fork
<1>2. new \in SUBSET Result
  BY <1>1 DEF Result, Form
<1>3. history["main"] \in History
  BY DEF StableInv, TypeOK, History, Agent
<1>4. /\ Append(history["main"], new) \in History
      /\ ResultsOf(Append(history["main"], new)) = ResultsOf(history["main"]) \cup new
  BY <1>2, <1>3, ResultsOfAppend
<1>5. history' = [history EXCEPT !["fork"] = Append(history["main"], new)]
  BY DEF Fork
<1> HIDE DEF id
<1>6. /\ ResultsOf(history'["fork"]) = ResultsOf(history["main"]) \cup new
      /\ history'["main"] = history["main"]
      /\ history' \in [Agent -> History]
  BY <1>4, <1>5 DEF StableInv, TypeOK, History, Agent
<1>7. /\ sent'["main"] = sent["main"] /\ sent'["fork"] = sent["main"]
      /\ seen'["main"] = seen["main"] /\ seen'["fork"] = seen["main"]
      /\ kept'["main"] = kept["main"] /\ kept'["fork"] = kept["main"]
      /\ made' = made /\ restarted' = restarted
  BY DEF Fork, CloneState, StableInv, TypeOK, Agent
<1>8. ~restarted
  BY DEF StableInv, Fork
<1>9. TypeOK'
  BY <1>6 DEF StableInv, TypeOK, Fork, CloneState, History, Agent
<1>10. id[1] = "main"
  BY DEF id
<1>11. OneEach("main")' /\ OneEach("fork")'
  <2>1. \A r \in ResultsOf(history["main"]) : r.id # id
    BY <1>1 DEF StableInv, IdsAreGiven
  <2> QED
    BY <1>6, <2>1 DEF StableInv, OneEach, Agent
<1>12. Settled("main")' /\ Settled("fork")'
  <2>1. sent["main"][id] = None
    BY <1>1 DEF StableInv, IdsAreGiven
  <2>2. \A r \in ResultsOf(history["main"]) :
           sent["main"][r.id] # None
           => r.id \in seen["main"] /\ sent["main"][r.id] = Decided("main", r)
    BY <1>8 DEF StableInv, Settled, Agent
  <2> QED
    BY <1>6, <1>7, <2>1, <2>2 DEF Settled, Decided
<1>13. IdsAreGiven'
  BY <1>6, <1>7, <1>10 DEF StableInv, IdsAreGiven, Given
<1> QED
  BY <1>7, <1>8, <1>9, <1>11, <1>12, <1>13 DEF StableInv, Agent

\* The end of a fork takes its history with it.
LEMMA EndForkStable ==
    ASSUME StableInv, EndFork
    PROVE  StableInv'
<1>1. TypeOK'
  BY EmptyHistory DEF StableInv, TypeOK, EndFork, History, Nothing, Agent
<1>2. /\ ResultsOf(history'["fork"]) = {} /\ sent'["fork"] = Nothing
      /\ history'["main"] = history["main"] /\ sent'["main"] = sent["main"]
      /\ seen'["main"] = seen["main"] /\ kept'["main"] = kept["main"]
      /\ phase'["main"] = phase["main"] /\ made' = made /\ restarted' = restarted
  BY EmptyHistory DEF StableInv, TypeOK, EndFork, Agent
<1>3. (\A a \in Agent : OneEach(a) /\ Settled(a))'
  BY <1>2 DEF StableInv, OneEach, Settled, Decided, Agent
<1>4. IdsAreGiven'
  BY <1>2 DEF StableInv, IdsAreGiven, Given, Nothing
<1> QED
  BY <1>1, <1>2, <1>3, <1>4 DEF StableInv

\* A compaction forgets what it removes.
LEMMA CompactStable ==
    ASSUME StableInv, NEW a \in Agent, Compact(a)
    PROVE  StableInv'
<1>1. PICK tail \in 0..MinKeep :
         /\ tail < Len(history[a])
         /\ history' = [history EXCEPT ![a] = SubSeq(@, Len(@) - tail + 1, Len(@))]
  BY DEF Compact
<1>2. history[a] \in History /\ tail \in Nat /\ Len(history[a]) \in Nat
  BY ResultBudgetAssumption DEF StableInv, TypeOK, History
<1> DEFINE left == SubSeq(history[a], Len(history[a]) - tail + 1, Len(history[a]))
<1>3. left \in History /\ ResultsOf(left) \subseteq ResultsOf(history[a])
  BY <1>1, <1>2, ResultsOfPart
<1>4. history' = [history EXCEPT ![a] = left]
  BY <1>1
<1> HIDE DEF left
<1>5. TypeOK' /\ \A b \in Agent : ResultsOf(history'[b]) \subseteq ResultsOf(history[b])
  BY <1>3, <1>4 DEF StableInv, TypeOK, Compact, History, state
<1> QED
  BY <1>5, LessHistory DEF StableInv, Compact

\* A rewind removes the latest results only.
LEMMA RewindStable ==
    ASSUME StableInv, Rewind
    PROVE  StableInv'
<1>1. PICK n \in 0..(Len(history["main"]) - 1) :
         history' = [history EXCEPT !["main"] = SubSeq(@, 1, n)]
  BY DEF Rewind
<1> DEFINE left == SubSeq(history["main"], 1, n)
<1>2. history["main"] \in History /\ Len(history["main"]) \in Nat
  BY DEF StableInv, TypeOK, History, Agent
<1>3. left \in History /\ ResultsOf(left) \subseteq ResultsOf(history["main"])
  BY <1>2, ResultsOfPart
<1>4. history' = [history EXCEPT !["main"] = left]
  BY <1>1
<1> HIDE DEF left
<1>5. TypeOK' /\ \A b \in Agent : ResultsOf(history'[b]) \subseteq ResultsOf(history[b])
  BY <1>3, <1>4 DEF StableInv, TypeOK, Rewind, History, state, Agent
<1> QED
  BY <1>5, LessHistory DEF StableInv, Rewind

\* An answer leaves the results alone.
LEMMA FinalAnswerStable ==
    ASSUME StableInv, FinalAnswer
    PROVE  StableInv'
<1>1. history["main"] \in History /\ EndOfTurn \in SUBSET Result
  BY DEF StableInv, TypeOK, History, Agent, EndOfTurn
<1>2. /\ Append(history["main"], EndOfTurn) \in History
      /\ ResultsOf(Append(history["main"], EndOfTurn)) = ResultsOf(history["main"])
  BY <1>1, ResultsOfAppend DEF EndOfTurn
<1>3. TypeOK' /\ \A b \in Agent : ResultsOf(history'[b]) \subseteq ResultsOf(history[b])
  BY <1>2 DEF StableInv, TypeOK, FinalAnswer, History, state, Agent
<1>4. phase'["main"] = "idle"
  BY DEF StableInv, TypeOK, FinalAnswer, Agent
<1> QED
  BY <1>3, <1>4, LessHistory DEF StableInv, FinalAnswer

\* So does the end of a run.
LEMMA AbortStable ==
    ASSUME StableInv, Abort
    PROVE  StableInv'
<1>1. TypeOK' /\ \A b \in Agent : ResultsOf(history'[b]) \subseteq ResultsOf(history[b])
  BY DEF StableInv, TypeOK, Abort, state, Agent
<1>2. phase'["main"] = "idle"
  BY DEF StableInv, TypeOK, Abort, Agent
<1> QED
  BY <1>1, <1>2, LessHistory DEF StableInv, Abort

\* A restart begins a history anew.
LEMMA RestartStable ==
    ASSUME StableInv, Restart
    PROVE  StableInv'
<1>1. TypeOK'
  BY EmptyHistory DEF StableInv, TypeOK, Restart, History, Nothing, Agent
<1>2. /\ ResultsOf(history'["fork"]) = {} /\ sent'["fork"] = Nothing
      /\ history'["main"] = history["main"] /\ sent'["main"] = sent["main"]
      /\ phase'["main"] = "idle" /\ made' = made /\ restarted'
  BY EmptyHistory DEF StableInv, TypeOK, Restart, Agent
<1>3. (\A a \in Agent : OneEach(a) /\ Settled(a))'
  BY <1>2 DEF StableInv, OneEach, Settled, Agent
<1>4. IdsAreGiven'
  BY <1>2 DEF StableInv, IdsAreGiven, Given, Nothing
<1> QED
  BY <1>1, <1>2, <1>3, <1>4 DEF StableInv

\* Every step keeps what was shown as it was shown.
LEMMA StableInvIsInductive == StableInv /\ [Next]_vars => StableInv'
<1> SUFFICES ASSUME StableInv, [Next]_vars PROVE StableInv'
  OBVIOUS
<1>1. ASSUME NEW a \in Agent, Request(a) PROVE StableInv'
  BY <1>1, RequestStable
<1>2. ASSUME NEW a \in Agent, AddResults(a) PROVE StableInv'
  BY <1>2, AddResultsStable
<1>3. ASSUME NEW a \in Agent, Compact(a) PROVE StableInv'
  BY <1>3, CompactStable
<1>4. CASE FinalAnswer
  BY <1>4, FinalAnswerStable
<1>5. CASE Abort
  BY <1>5, AbortStable
<1>6. CASE Fork
  BY <1>6, ForkStable
<1>7. CASE EndFork
  BY <1>7, EndForkStable
<1>8. CASE Rewind
  BY <1>8, RewindStable
<1>9. CASE Restart
  BY <1>9, RestartStable
<1>10. CASE UNCHANGED vars
  <2>1. TypeOK' /\ \A b \in Agent : ResultsOf(history'[b]) \subseteq ResultsOf(history[b])
    BY <1>10 DEF StableInv, TypeOK, vars, state
  <2> QED
    BY <1>10, <2>1, LessHistory DEF StableInv, vars
<1> QED
  BY <1>1, <1>2, <1>3, <1>4, <1>5, <1>6, <1>7, <1>8, <1>9, <1>10 DEF Next

\* Every variable keeps its type: what a request decides is of the two kinds of
\* replacement, and only results that were made are stored, seen or sent.
THEOREM TypeCorrect == Spec => []TypeOK
<1>1. StableInv => TypeOK
  BY DEF StableInv
<1> QED
  BY <1>1, InitStable, StableInvIsInductive, PTL DEF Spec

\* One request, seen from what was sent before it.
LEMMA RequestIsStable ==
    ASSUME StableInv, NEW a \in Agent, NEW i \in Id, Request(a),
           ~(restarted /\ a = "main"), sent[a][i] # None,
           sent'[a][i] \notin {None, sent[a][i]}
    PROVE  /\ sent'[a][i] = "snipped" /\ sent[a][i] # "stored"
           /\ boundary'[a] >= boundary[a] + Batch
<1>1. PICK r \in ResultsOf(history[a]) : r.id = i
  BY DEF StableInv, TypeOK, Request, ShownTo, IdsOf
<1>2. sent'[a][i] = Shown(a, r)
  BY <1>1, RequestSettles DEF StableInv
\* It is decided already, hence not stored now.
<1>3. i \in seen[a] /\ sent[a][i] = Decided(a, r)
  BY <1>1 DEF StableInv, Settled
<1>4. r \notin ToStore(a)
  BY <1>1, <1>3, StoredIsFresh
<1>5. r \in ToSnip(a)
  BY <1>2, <1>3, <1>4 DEF Shown, AfterStoring
<1>6. sent[a][i] # "stored"
  BY <1>3, <1>4, <1>5 DEF ToSnip, AfterStoring
<1>7. BatchIsFull(a)
  BY <1>5 DEF ToSnip
<1>8. boundary'[a] = Target(a)
  BY <1>7 DEF StableInv, TypeOK, Request
<1>9. boundary'[a] >= boundary[a] + Batch
  BY <1>7, <1>8, FullBatchIsNew DEF StableInv
<1> QED
  BY <1>2, <1>5, <1>6, <1>9 DEF Shown

\* A request shows each result as the request before it did, until a batch of
\* turns has become old; a fork shows it as the main agent did.
THEOREM SentResultsStable == Spec => SentResultsAreStable
<1>1. StableInv /\ [Next]_vars =>
        [\A a \in Agent, i \in Id :
            Request(a) /\ ~(restarted /\ a = "main")
            /\ sent[a][i] # None /\ sent'[a][i] \notin {None, sent[a][i]}
            => /\ sent'[a][i] = "snipped" /\ sent[a][i] # "stored"
               /\ boundary'[a] >= boundary[a] + Batch]_vars
  BY RequestIsStable
<1> QED
  BY <1>1, InitStable, StableInvIsInductive, PTL DEF Spec, SentResultsAreStable

-----------------------------------------------------------------------------
(* One message within the limit.                                           *)

\* A message is finite, no larger than the calls allow, its results are numbered.
Shape(m) ==
    /\ IsFiniteSet(m) /\ Cardinality(m) <= MaxCalls
    /\ \A r, s \in m : r.id[2] = s.id[2] => r = s

\* A result is in one message of a history.
Apart(a) ==
    \A m, n \in Range(history[a]) : \A r \in m, s \in n : r.id = s.id => m = n

\* Nothing was decided about the results of the message.
Undecided(a, m) == \A r \in m : r.id \notin seen[a] /\ kept[a][r.id] = None

\* The longer one comes first, of equal ones the earlier.
Precedes(s, r) ==
    \/ Length[s.form] > Length[r.form]
    \/ Length[s.form] = Length[r.form] /\ s.id[2] < r.id[2]

\* The results of a message have ids, forms and lengths.
LEMMA MessageTyped ==
    ASSUME TypeOK, NEW a \in Agent, NEW m \in Range(history[a])
    PROVE  /\ m \subseteq Result
           /\ \A r \in m : r.id \in Id /\ r.id[2] \in Nat /\ r.form \in Form
                           /\ Length[r.form] \in Nat
<1>1. m \in SUBSET Result
  BY DEF TypeOK, Range
<1>2. \A i \in Id : i[2] \in Nat
  BY ResultBudgetAssumption DEF Id, Agent
<1> QED
  BY <1>1, <1>2, ResultBudgetAssumption DEF Result

\* The rest of a message is in a line, and its first results that are not too much
\* come behind exactly the surplus.
LEMMA SurplusIsPrefix ==
    ASSUME TypeOK, NEW a \in Agent, NEW m \in Range(history[a]), Shape(m),
           Surplus(a, m) # Rest(a, m)
    PROVE  \E s \in Rest(a, m) : /\ ~StillTooMuch(a, m, s)
                                 /\ Surplus(a, m) = Before(a, m, s)
<1> DEFINE R == Rest(a, m)
           Enough == {s \in R : ~StillTooMuch(a, m, s)}
           B(s) == Before(a, m, s)
           Sizes == {Cardinality(B(s)) : s \in Enough}
<1>1. R \subseteq m /\ Surplus(a, m) \subseteq R
  BY DEF Rest, Fresh, Surplus
<1>2. \A r \in m : Length[r.form] \in Nat /\ r.id[2] \in Nat
  BY MessageTyped
<1>3. \A s, r \in R : s \in B(r) <=> Precedes(s, r)
  BY DEF Before, Precedes
<1>4. \A r \in R : B(r) \subseteq R /\ r \notin B(r)
  BY <1>1, <1>2 DEF Before
<1>5. \A r, s, t \in R : r \in B(s) /\ s \in B(t) => r \in B(t)
  <2> SUFFICES ASSUME NEW r \in R, NEW s \in R, NEW t \in R, r \in B(s), s \in B(t)
               PROVE  Precedes(r, t)
    BY <1>3
  <2>1. Precedes(r, s) /\ Precedes(s, t)
    BY <1>3
  <2>2. /\ Length[r.form] \in Nat /\ Length[s.form] \in Nat /\ Length[t.form] \in Nat
        /\ r.id[2] \in Nat /\ s.id[2] \in Nat /\ t.id[2] \in Nat
    BY <1>1, <1>2
  <2> QED
    BY <2>1, <2>2 DEF Precedes
<1>6. \A r, s \in R : r = s \/ r \in B(s) \/ s \in B(r)
  <2> SUFFICES ASSUME NEW r \in R, NEW s \in R, r # s
               PROVE  Precedes(r, s) \/ Precedes(s, r)
    BY <1>3
  <2>1. r.id[2] # s.id[2]
    BY <1>1 DEF Shape
  <2>2. /\ Length[r.form] \in Nat /\ Length[s.form] \in Nat
        /\ r.id[2] \in Nat /\ s.id[2] \in Nat
    BY <1>1, <1>2
  <2> QED
    BY <2>1, <2>2 DEF Precedes
<1>7. \A r \in R : r \in Surplus(a, m) <=> \A s \in B(r) \cup {r} : s \notin Enough
  BY <1>4 DEF Surplus
<1>8. \A s \in R : IsFiniteSet(B(s)) /\ Cardinality(B(s)) \in Nat
  <2>1. IsFiniteSet(m)
    BY DEF Shape
  <2> TAKE s \in R
  <2>2. B(s) \in SUBSET m
    BY <1>1, <1>4
  <2> HIDE DEF B
  <2> QED
    BY <2>1, <2>2, FS_Subset, FS_CardinalityType
<1> HIDE DEF B, R
<1>9. Sizes \subseteq Nat /\ Sizes # {}
  <2>1. Enough # {}
    BY <1>1, <1>4, <1>7 DEF R
  <2> QED
    BY <1>8, <2>1
<1>10. PICK n \in Sizes : \A k \in Sizes : n <= k
  <2> HIDE DEF Sizes
  <2> QED
    BY <1>9, Least
<1>11. PICK s \in Enough : n = Cardinality(B(s))
  BY <1>10
<1>12. ASSUME NEW t \in B(s), t \in Enough
       PROVE  FALSE
  <2>1. t \in R /\ s \in R
    BY <1>12
  <2>2. B(t) \in SUBSET B(s) /\ B(t) # B(s)
    BY <1>4, <1>5, <1>12, <2>1
  <2>3. Cardinality(B(t)) < Cardinality(B(s))
    <3>1. Cardinality(B(t)) <= Cardinality(B(s)) /\ Cardinality(B(t)) # Cardinality(B(s))
      BY <1>8, <2>1, <2>2, FS_Subset
    <3> QED
      BY <1>8, <2>1, <3>1
  <2>4. Cardinality(B(t)) \in Sizes
    BY <1>12
  <2>5. n <= Cardinality(B(t))
    BY <1>10, <2>4
  <2> QED
    BY <1>8, <1>11, <2>1, <2>3, <2>5
<1>13. Surplus(a, m) = B(s)
  <2>1. s \in R /\ s \in Enough
    BY <1>11
  <2> HIDE DEF Enough
  <2>2. ASSUME NEW r \in B(s)
        PROVE  r \in Surplus(a, m)
    <3>1. r \in R
      BY <1>4, <2>1
    <3>2. \A t \in B(r) \cup {r} : t \in B(s)
      BY <1>4, <1>5, <2>1, <3>1
    <3> QED
      BY <1>7, <1>12, <3>1, <3>2
  <2>3. ASSUME NEW r \in Surplus(a, m)
        PROVE  r \in B(s)
    <3>1. r \in R
      BY <1>1 DEF R
    <3>2. s \notin B(r) /\ s # r
      BY <1>7, <2>1, <3>1
    <3> QED
      BY <1>6, <2>1, <3>1, <3>2
  <2> QED
    BY <2>2, <2>3
<1> QED
  BY <1>11, <1>13 DEF B, R

\* More of the same is more.
LEMMA TimesMonotone ==
    ASSUME NEW x \in Nat, NEW y \in Nat, NEW c \in Nat, x <= y
    PROVE  x * c <= y * c
<1>1. PICK z \in Nat : y = x + z
  <2>1. y - x \in Nat /\ y = x + (y - x)
    OBVIOUS
  <2> QED
    BY <2>1
<1>2. y * c = x * c + z * c /\ z * c >= 0 /\ x * c \in Int
  BY <1>1
<1> QED
  BY <1>2

\* What passes 1 and 2 leave of a new message is within the limit.
LEMMA StoringFits ==
    ASSUME TypeOK, NEW a \in Agent, NEW m \in Range(history[a]), Shape(m), Apart(a),
           Undecided(a, m)
    PROVE  SumFunction([r \in m |-> Length[AfterStoring(a, r)]]) <= AggregateLimit
<1> DEFINE after == [r \in m |-> Length[AfterStoring(a, r)]]
           whole == [r \in m |-> IF r \in Oversized(a, m) THEN Length["stored"]
                                 ELSE Length[Decided(a, r)]]
<1>1. /\ IsFiniteSet(m) /\ Cardinality(m) \in Nat /\ Cardinality(m) <= MaxCalls
      /\ MaxCalls \in Nat /\ Length["stored"] \in Nat
  BY FS_CardinalityType, ResultBudgetAssumption DEF Shape, Form
<1>2. \A r \in m : Decided(a, r) = r.form /\ Length[r.form] \in Nat
  BY MessageTyped DEF Undecided, Decided
<1>3. \A r \in m : r \in ToStore(a) <=> r \in Oversized(a, m) \cup Surplus(a, m)
  <2> TAKE r \in m
  <2>1. ASSUME NEW n \in Range(history[a]), r \in Oversized(a, n) \cup Surplus(a, n)
        PROVE  n = m
    <3>1. r \in n
      BY <2>1 DEF Oversized, Surplus, Rest, Fresh
    <3> QED
      BY <3>1 DEF Apart
  <2> QED
    BY <2>1 DEF ToStore
<1>4. \A r \in m : after[r] = IF r \in Oversized(a, m) \cup Surplus(a, m)
                              THEN Length["stored"] ELSE Length[r.form]
  BY <1>2, <1>3 DEF AfterStoring
<1>5. \A r \in m : whole[r] = IF r \in Oversized(a, m) THEN Length["stored"]
                              ELSE Length[r.form]
  BY <1>2
<1>6. Surplus(a, m) \subseteq Rest(a, m) /\ Rest(a, m) \subseteq m
      /\ \A r \in Rest(a, m) : r \notin Oversized(a, m)
  BY DEF Surplus, Rest, Fresh
<1>7. after \in [m -> Int] /\ whole \in [m -> Int]
  BY <1>1, <1>2, <1>4, <1>5
<1>8. CASE Surplus(a, m) = Rest(a, m)
  <2>1. \A r \in m : after[r] = Length["stored"]
    <3> TAKE r \in m
    <3>1. CASE r.form = "stored"
      BY <1>4, <3>1
    <3>2. CASE r.form # "stored"
      <4>1. r \in Oversized(a, m) \cup Rest(a, m)
        BY <3>2 DEF Rest, Fresh, Undecided
      <4> QED
        BY <1>4, <1>8, <4>1
    <3> QED
      BY <3>1, <3>2
  <2>3. SumFunction(after) = Cardinality(m) * Length["stored"]
    <3> HIDE DEF after
    <3> QED
      BY <1>1, <1>7, <2>1, SumConstant
  <2>4. Cardinality(m) * Length["stored"] <= MaxCalls * Length["stored"]
    BY <1>1, TimesMonotone
  <2>5. /\ MaxCalls * Length["stored"] <= AggregateLimit /\ AggregateLimit \in Nat
        /\ Cardinality(m) * Length["stored"] \in Int /\ MaxCalls * Length["stored"] \in Int
    BY <1>1, ResultBudgetAssumption
  <2> HIDE DEF after
  <2>6. SumFunction(after) <= AggregateLimit
    BY <2>3, <2>4, <2>5
  <2> QED
    BY <2>6 DEF after
<1>9. CASE Surplus(a, m) # Rest(a, m)
  <2>1. PICK s \in Rest(a, m) : ~StillTooMuch(a, m, s) /\ Surplus(a, m) = Before(a, m, s)
    BY <1>9, SurplusIsPrefix
  <2> DEFINE out == Before(a, m, s)
             saved == [r \in out |-> Length[r.form] - Length["stored"]]
  <2>2. out \in SUBSET m /\ \A r \in out : r \notin Oversized(a, m)
    BY <1>6, <2>1
  <2>3. saved \in [out -> Int]
    BY <1>1, <1>2, <2>2
  <2>4. \A r \in m : after[r] = IF r \in out THEN whole[r] - saved[r] ELSE whole[r]
    <3> TAKE r \in m
    <3>1. CASE r \in out
      <4>1. after[r] = Length["stored"] /\ whole[r] = Length[r.form]
        BY <1>4, <1>5, <2>1, <2>2, <3>1
      <4>2. saved[r] = Length[r.form] - Length["stored"]
        BY <3>1
      <4> QED
        BY <1>1, <1>2, <3>1, <4>1, <4>2
    <3>2. CASE r \notin out
      BY <1>4, <1>5, <2>1, <3>2
    <3> QED
      BY <3>1, <3>2
  <2>5. ~(SumFunction(whole) - SumFunction(saved) > AggregateLimit)
    BY <2>1 DEF StillTooMuch, Total
  <2> HIDE DEF after, whole, out, saved
  <2>6. SumFunction(after) = SumFunction(whole) - SumFunction(saved)
    BY <1>1, <1>7, <2>2, <2>3, <2>4, SumMinus
  <2>7. IsFiniteSet(out)
    BY <1>1, <2>2, FS_Subset
  <2>8. SumFunction(whole) \in Int /\ SumFunction(saved) \in Int
    <3>1. DOMAIN whole = m /\ DOMAIN saved = out
      BY <1>7, <2>3
    <3>2. m \in SUBSET m /\ out \in SUBSET out
      OBVIOUS
    <3> QED
      BY <1>1, <1>7, <2>3, <2>7, <3>1, <3>2, SumStep DEF SumFunction
  <2>9. SumFunction(after) <= AggregateLimit
    BY <2>5, <2>6, <2>8, ResultBudgetAssumption
  <2> QED
    BY <2>9 DEF after
<1> QED
  BY <1>8, <1>9

-----------------------------------------------------------------------------
(* Every message of a request within the limit.                            *)

\* The results of a message, as they were decided, are within the limit.
Weighed(a, m) == SumFunction([r \in m |-> Length[Decided(a, r)]]) <= AggregateLimit

\* Nothing was decided of a message, or all of it, and then it is within the limit.
AllOrNothing(a, m) ==
    \/ \A r \in m : r.id \notin seen[a]
    \/ (\A r \in m : r.id \in seen[a]) /\ Weighed(a, m)

\* What was seen was given, and only what was seen is replaced.
SeenIsGiven ==
    /\ \A i \in seen["main"] : i[1] = "main" /\ Given(i)
    /\ \A i \in seen["fork"] : i[1] = "fork" => Given(i)
    /\ \A a \in Agent : \A i \in Id : kept[a][i] # None => i \in seen[a]

Messages ==
    \A a \in Agent :
        /\ Apart(a)
        /\ \A m \in Range(history[a]) : Shape(m) /\ AllOrNothing(a, m)

BudgetInv == SeenIsGiven /\ Messages /\ WithinBudget

\* Appending adds one message.
LEMMA RangeOfAppend ==
    ASSUME NEW h \in History, NEW m \in SUBSET Result
    PROVE  Range(Append(h, m)) = Range(h) \cup {m}
<1>1. ASSUME NEW i \in DOMAIN Append(h, m)
      PROVE  Append(h, m)[i] \in Range(h) \cup {m}
  <2>1. \/ i \in DOMAIN h /\ Append(h, m)[i] = h[i]
        \/ Append(h, m)[i] = m
    BY DEF History
  <2> QED
    BY <2>1 DEF Range
<1>2. ASSUME NEW i \in DOMAIN h
      PROVE  h[i] \in Range(Append(h, m))
  <2>1. i \in DOMAIN Append(h, m) /\ Append(h, m)[i] = h[i]
    BY DEF History
  <2> QED
    BY <2>1 DEF Range
<1>3. m \in Range(Append(h, m))
  <2>1. Len(h) + 1 \in DOMAIN Append(h, m) /\ Append(h, m)[Len(h) + 1] = m
    BY DEF History
  <2> QED
    BY <2>1 DEF Range
<1> QED
  BY <1>1, <1>2, <1>3 DEF Range

\* The messages of a part of a history are messages of the history.
LEMMA RangeOfPart ==
    ASSUME NEW h \in History, NEW p \in Int, NEW q \in Int, 1 <= p, q <= Len(h)
    PROVE  Range(SubSeq(h, p, q)) \subseteq Range(h)
<1>1. ASSUME NEW i \in DOMAIN SubSeq(h, p, q)
      PROVE  SubSeq(h, p, q)[i] \in Range(h)
  <2>1. p + i - 1 \in DOMAIN h /\ SubSeq(h, p, q)[i] = h[p + i - 1]
    BY DEF History
  <2> QED
    BY <2>1 DEF Range
<1> QED
  BY <1>1 DEF Range

\* A message as a request shows it is within the limit.
LEMMA ShownFits ==
    ASSUME TypeOK, NEW a \in Agent, NEW m \in Range(history[a]),
           Shape(m), Apart(a), AllOrNothing(a, m), SeenIsGiven
    PROVE  SumFunction([r \in m |-> Length[Shown(a, r)]]) <= AggregateLimit
<1> DEFINE shown == [r \in m |-> Length[Shown(a, r)]]
           after == [r \in m |-> Length[AfterStoring(a, r)]]
<1>1. \A r \in m : r \in ResultsOf(history[a]) /\ r.id \in Id
  BY MessageTyped DEF ResultsOf
<1>2. \A r \in m : AfterStoring(a, r) \in Form /\ Shown(a, r) \in Form
  <2> TAKE r \in m
  <2>1. Shown(a, r) \in Form
    BY <1>1, ShownTyped
  <2>2. kept[a][r.id] \in {None, "stored", "snipped"} /\ r.form \in Form
    BY <1>1, MessageTyped DEF TypeOK
  <2> QED
    BY <2>1, <2>2 DEF AfterStoring, Decided, Form
<1>3. shown \in [m -> Int] /\ after \in [m -> Int]
  BY <1>2, ResultBudgetAssumption
<1>4. \A r \in m : shown[r] <= after[r]
  <2> TAKE r \in m
  <2>1. Length[AfterStoring(a, r)] \in Nat /\ SnipChars \in Nat
    BY <1>2, ResultBudgetAssumption
  <2>2. CASE r \in ToSnip(a)
    <3>1. Length[AfterStoring(a, r)] > SnipChars
      BY <2>2 DEF ToSnip
    <3>2. Length["snipped"] <= SnipChars /\ Length["snipped"] \in Nat
      BY ResultBudgetAssumption DEF Form
    <3> QED
      BY <2>1, <2>2, <3>1, <3>2 DEF Shown
  <2>3. CASE r \notin ToSnip(a)
    BY <2>1, <2>3 DEF Shown
  <2> QED
    BY <2>2, <2>3
<1>5. SumFunction(after) <= AggregateLimit
  <2>1. CASE \A r \in m : r.id \notin seen[a]
    <3>1. Undecided(a, m)
      BY <1>1, <2>1 DEF Undecided, SeenIsGiven
    <3> QED
      BY <3>1, StoringFits
  <2>2. CASE (\A r \in m : r.id \in seen[a]) /\ Weighed(a, m)
    <3>1. \A r \in m : AfterStoring(a, r) = Decided(a, r)
      BY <2>2, StoredIsFresh DEF AfterStoring
    <3>2. after = [r \in m |-> Length[Decided(a, r)]]
      BY <3>1
    <3> QED
      BY <2>2, <3>2 DEF Weighed
  <2> QED
    BY <2>1, <2>2 DEF AllOrNothing
<1> HIDE DEF shown, after
<1>6. SumFunction(shown) <= SumFunction(after)
  BY <1>3, <1>4, SumMonotone DEF Shape
<1>7. SumFunction(shown) \in Int /\ SumFunction(after) \in Int /\ AggregateLimit \in Int
  BY <1>3, SumTyped, ResultBudgetAssumption DEF Shape
<1>8. SumFunction(shown) <= AggregateLimit
  BY <1>5, <1>6, <1>7
<1> QED
  BY <1>8 DEF shown

\* Where an agent's messages and decisions stay, what holds of them stays.
LEMMA SameAgent ==
    ASSUME TypeOK, BudgetInv, NEW a \in Agent, NEW b \in Agent,
           Range(history'[b]) \subseteq Range(history[a]),
           seen'[b] = seen[a], kept'[b] = kept[a]
    PROVE  /\ Apart(b)'
           /\ \A m \in Range(history'[b]) : Shape(m)' /\ AllOrNothing(b, m)'
<1>1. Apart(b)'
  BY DEF BudgetInv, Messages, Apart
<1>2. ASSUME NEW m \in Range(history'[b])
      PROVE  Shape(m)' /\ AllOrNothing(b, m)'
  <2>1. Shape(m) /\ AllOrNothing(a, m)
    BY DEF BudgetInv, Messages
  <2>2. \A r \in m : Decided(b, r)' = Decided(a, r)
    BY DEF Decided
  <2>3. [r \in m |-> Length[Decided(b, r)']] = [r \in m |-> Length[Decided(a, r)]]
    BY <2>2
  <2>4. Weighed(a, m) => Weighed(b, m)'
    BY <2>3 DEF Weighed
  <2> QED
    BY <2>1, <2>4 DEF Shape, AllOrNothing
<1> QED
  BY <1>1, <1>2

\* What holds of a history holds of one that holds less.
LEMMA LessMessages ==
    ASSUME TypeOK, BudgetInv, UNCHANGED <<made, state, sent>>,
           \A a \in Agent : Range(history'[a]) \subseteq Range(history[a])
    PROVE  BudgetInv'
<1>1. SeenIsGiven'
  BY DEF BudgetInv, SeenIsGiven, Given, state
<1>2. Messages'
  BY SameAgent DEF Messages, state
<1>3. WithinBudget'
  BY DEF BudgetInv, WithinBudget
<1> QED
  BY <1>1, <1>2, <1>3 DEF BudgetInv

\* After a request each message is decided, and within the limit.
LEMMA RequestFits ==
    ASSUME StableInv, BudgetInv, NEW a \in Agent, Request(a)
    PROVE  BudgetInv'
<1>1. /\ history' = history /\ made' = made
      /\ \A b \in Agent : b # a => /\ seen'[b] = seen[b] /\ kept'[b] = kept[b]
                                   /\ sent'[b] = sent[b]
      /\ seen'[a] = seen[a] \cup IdsOf(ResultsOf(history[a]))
  BY DEF StableInv, TypeOK, Request
<1>2. TypeOK /\ OneEach(a) /\ SeenIsGiven /\ Apart(a)
  BY DEF StableInv, BudgetInv, Messages
<1>3. SeenIsGiven'
  <2>1. \A i \in IdsOf(ResultsOf(history[a])) :
           /\ a = "main" => i[1] = "main" /\ Given(i)
           /\ a = "fork" => (i[1] = "fork" => Given(i))
    BY DEF StableInv, IdsAreGiven, IdsOf
  <2>2. /\ \A i \in seen'["main"] : i[1] = "main" /\ Given(i)
        /\ \A i \in seen'["fork"] : i[1] = "fork" => Given(i)
    BY <1>1, <1>2, <2>1 DEF SeenIsGiven, Agent
  <2>3. ASSUME NEW i \in Id, kept'[a][i] # None
        PROVE  i \in seen'[a]
    <3>1. ToSnip(a) \cup ToStore(a) \cup StoredAlready(a) \subseteq ResultsOf(history[a])
      BY SnippedIsHeld, StoredIsHeld DEF StoredAlready
    <3>2. \/ i \in IdsOf(ToSnip(a)) \/ i \in IdsOf(ToStore(a) \cup StoredAlready(a))
          \/ kept[a][i] # None
      BY <1>2, <2>3 DEF Request, TypeOK
    <3> QED
      BY <1>1, <1>2, <3>1, <3>2 DEF IdsOf, SeenIsGiven
  <2> QED
    BY <1>1, <1>2, <2>2, <2>3 DEF SeenIsGiven, Given
<1>4. ASSUME NEW m \in Range(history[a])
      PROVE  /\ \A r \in m : r.id \in seen'[a]
             /\ SumFunction([r \in m |-> Length[Decided(a, r)']]) <= AggregateLimit
             /\ SumFunction([r \in m |-> Length[sent'[a][r.id]]]) <= AggregateLimit
  <2>1. SumFunction([r \in m |-> Length[Shown(a, r)]]) <= AggregateLimit
    BY <1>2, ShownFits DEF BudgetInv, Messages
  <2>2. \A r \in m : r \in ResultsOf(history[a])
    BY DEF ResultsOf
  <2>3. \A r \in m : /\ r.id \in seen'[a]
                     /\ sent'[a][r.id] = Shown(a, r)
                     /\ Decided(a, r)' = Shown(a, r)
    BY <1>2, <2>2, RequestSettles DEF Decided
  <2>4. /\ [r \in m |-> Length[Decided(a, r)']] = [r \in m |-> Length[Shown(a, r)]]
        /\ [r \in m |-> Length[sent'[a][r.id]]] = [r \in m |-> Length[Shown(a, r)]]
    BY <2>3
  <2> QED
    BY <2>1, <2>3, <2>4
<1>5. Messages'
  <2> SUFFICES ASSUME NEW b \in Agent
               PROVE  /\ Apart(b)'
                      /\ \A m \in Range(history'[b]) : Shape(m)' /\ AllOrNothing(b, m)'
    BY DEF Messages
  <2>1. CASE b = a
    <3>1. Apart(a)'
      BY <1>1, <1>2 DEF Apart
    <3>2. \A m \in Range(history'[a]) : Shape(m)'
      BY <1>1 DEF BudgetInv, Messages, Shape
    <3>3. \A m \in Range(history'[a]) : AllOrNothing(a, m)'
      BY <1>1, <1>4 DEF AllOrNothing, Weighed
    <3> QED
      BY <2>1, <3>1, <3>2, <3>3
  <2>2. CASE b # a
    BY <1>1, <1>2, <2>2, SameAgent
  <2> QED
    BY <2>1, <2>2
<1>6. WithinBudget'
  <2> SUFFICES ASSUME NEW b \in Agent, NEW m \in Range(history'[b]),
                      \A r \in m : sent'[b][r.id] # None
               PROVE  SumFunction([r \in m |-> Length[sent'[b][r.id]]]) <= AggregateLimit
    BY DEF WithinBudget
  <2>1. CASE b = a
    BY <1>1, <1>4, <2>1
  <2>2. CASE b # a
    <3>1. sent'[b] = sent[b] /\ m \in Range(history[b])
      BY <1>1, <2>2
    <3> QED
      BY <3>1 DEF BudgetInv, WithinBudget
  <2> QED
    BY <2>1, <2>2
<1> QED
  BY <1>3, <1>5, <1>6 DEF BudgetInv

\* A message whose results nobody has seen.
LEMMA NewMessage ==
    ASSUME StableInv, BudgetInv, NEW a \in Agent, NEW h \in History,
           Range(h) \subseteq Range(history[a]), NEW m \in SUBSET Result, Shape(m),
           \A r \in m : r.id \notin seen[a],
           \A r \in m : \A s \in ResultsOf(h) : r.id # s.id,
           NEW b \in Agent, history'[b] = Append(h, m),
           seen'[b] = seen[a], kept'[b] = kept[a]
    PROVE  /\ Apart(b)'
           /\ \A n \in Range(history'[b]) : Shape(n)' /\ AllOrNothing(b, n)'
<1>1. Range(history'[b]) = Range(h) \cup {m}
  BY RangeOfAppend
<1>2. Apart(b)'
  <2>1. \A k, n \in Range(h) : \A r \in k, s \in n : r.id = s.id => k = n
    BY DEF BudgetInv, Messages, Apart
  <2>2. \A n \in Range(h) : \A s \in n : s \in ResultsOf(h)
    BY DEF ResultsOf
  <2> QED
    BY <1>1, <2>1, <2>2 DEF Apart
<1>3. ASSUME NEW n \in Range(h)
      PROVE  Shape(n)' /\ AllOrNothing(b, n)'
  <2>1. Shape(n) /\ AllOrNothing(a, n)
    BY DEF BudgetInv, Messages
  <2>2. \A r \in n : Decided(b, r)' = Decided(a, r)
    BY DEF Decided
  <2>3. [r \in n |-> Length[Decided(b, r)']] = [r \in n |-> Length[Decided(a, r)]]
    BY <2>2
  <2>4. Weighed(a, n) => Weighed(b, n)'
    BY <2>3 DEF Weighed
  <2> QED
    BY <2>1, <2>4 DEF Shape, AllOrNothing
<1>4. Shape(m)' /\ AllOrNothing(b, m)'
  BY DEF Shape, AllOrNothing
<1> QED
  BY <1>1, <1>2, <1>3, <1>4

\* Nothing was sent of a message that is new, unless it is empty.
LEMMA NewIsNotSent ==
    ASSUME NEW m, IsFiniteSet(m), NEW f,
           \A r \in m : f[r.id] = None, \A r \in m : f[r.id] # None
    PROVE  SumFunction([r \in m |-> Length[f[r.id]]]) <= AggregateLimit
<1> DEFINE none == [r \in m |-> Length[f[r.id]]]
<1>1. m = {}
  OBVIOUS
<1>2. none \in [m -> Int]
  BY <1>1
<1> HIDE DEF none
<1>3. SumFunction(none) = 0
  BY <1>1, <1>2, SumTyped
<1> QED
  BY <1>3, ResultBudgetAssumption DEF none

\* New results are undecided, and as many as the calls.
LEMMA AddResultsFits ==
    ASSUME StableInv, BudgetInv, NEW a \in Agent, AddResults(a)
    PROVE  BudgetInv'
<1>1. PICK n \in 1..MaxCalls : \E output \in [1..n -> Outputs] :
         /\ made[a] + n <= MaxResults[a]
         /\ made' = [made EXCEPT ![a] = @ + n]
         /\ history' = [history EXCEPT ![a] = Append(@,
               {[id |-> <<a, made[a] + i>>, form |-> Recorded(output[i])] : i \in 1..n})]
  BY DEF AddResults
<1>2. PICK output \in [1..n -> Outputs] :
         /\ made[a] + n <= MaxResults[a]
         /\ made' = [made EXCEPT ![a] = @ + n]
         /\ history' = [history EXCEPT ![a] = Append(@,
               {[id |-> <<a, made[a] + i>>, form |-> Recorded(output[i])] : i \in 1..n})]
  BY <1>1
<1> DEFINE Entry(i) == [id |-> <<a, made[a] + i>>, form |-> Recorded(output[i])]
           new == {Entry(i) : i \in 1..n}
<1>3. n \in Nat /\ made[a] \in Nat /\ MaxResults[a] \in Nat /\ MaxCalls \in Nat
  BY ResultBudgetAssumption DEF StableInv, TypeOK, Agent
<1>4. \A i \in 1..n : <<a, made[a] + i>> \in Id /\ ~Given(<<a, made[a] + i>>)
  <2> TAKE i \in 1..n
  <2>1. /\ made[a] + i \in Nat /\ made[a] < made[a] + i
        /\ made[a] + i <= MaxResults[a]
    BY <1>2, <1>3
  <2> QED
    BY <2>1, NextIdIsNew DEF StableInv
<1>5. new \in SUBSET Result
  <2>1. \A i \in 1..n : Recorded(output[i]) \in Form
    BY ResultBudgetAssumption DEF Recorded, Form
  <2> QED
    BY <1>4, <2>1 DEF Result
<1>6. history[a] \in History
  BY DEF StableInv, TypeOK, History
<1>7. Shape(new)
  <2> DEFINE entry == [i \in 1..n |-> Entry(i)]
  <2>1. entry \in Surjection(1..n, new)
    BY DEF Surjection
  <2>2. IsFiniteSet(1..n) /\ Cardinality(1..n) = n
    BY <1>3, FS_Interval
  <2>3. IsFiniteSet(new) /\ Cardinality(new) <= n
    <3> HIDE DEF new, entry
    <3> QED
      BY <2>1, <2>2, FS_Surjection
  <2>4. Cardinality(new) <= MaxCalls
    <3> HIDE DEF new
    <3> QED
      BY <1>1, <1>3, <2>3, FS_CardinalityType
  <2>5. \A r, s \in new : r.id[2] = s.id[2] => r = s
    BY <1>3
  <2> QED
    BY <2>3, <2>4, <2>5 DEF Shape
<1>8. history' = [history EXCEPT ![a] = Append(history[a], new)]
  BY <1>2
<1>9. \A r \in new : r.id[1] = a /\ r.id \in Id /\ ~Given(r.id)
  BY <1>4
<1> HIDE DEF new
<1>10. /\ history'[a] = Append(history[a], new)
       /\ \A b \in Agent : b # a => history'[b] = history[b]
  BY <1>8 DEF StableInv, TypeOK
<1>11. \A r \in new : r.id \notin seen[a] /\ sent[a][r.id] = None
  BY <1>9 DEF StableInv, IdsAreGiven, BudgetInv, SeenIsGiven, Agent
<1>12. \A r \in new : \A s \in ResultsOf(history[a]) : r.id # s.id
  BY <1>9 DEF StableInv, IdsAreGiven, Agent
<1>13. UNCHANGED <<seen, kept, sent>>
  BY DEF AddResults, state
<1>14. Messages'
  <2> SUFFICES ASSUME NEW b \in Agent
               PROVE  /\ Apart(b)'
                      /\ \A m \in Range(history'[b]) : Shape(m)' /\ AllOrNothing(b, m)'
    BY DEF Messages
  <2>1. CASE b = a
    BY <1>5, <1>6, <1>7, <1>10, <1>11, <1>12, <1>13, <2>1, NewMessage
  <2>2. CASE b # a
    BY <1>10, <1>13, <2>2, SameAgent DEF StableInv
  <2> QED
    BY <2>1, <2>2
<1>15. SeenIsGiven'
  <2>1. \A i \in Id : Given(i) => Given(i)'
    <3>1. /\ made'[a] = made[a] + n
          /\ \A b \in Agent : b # a => made'[b] = made[b]
      BY <1>2 DEF StableInv, TypeOK
    <3>2. \A i \in Id : i[2] \in Nat
      BY ResultBudgetAssumption DEF Id, Agent
    <3> QED
      BY <1>3, <3>1, <3>2 DEF Given
  <2>2. \A b \in Agent : seen[b] \subseteq Id
    BY DEF StableInv, TypeOK
  <2> QED
    BY <1>13, <2>1, <2>2 DEF BudgetInv, SeenIsGiven, Agent
<1>16. WithinBudget'
  <2> SUFFICES ASSUME NEW b \in Agent, NEW m \in Range(history'[b]),
                      \A r \in m : sent[b][r.id] # None
               PROVE  SumFunction([r \in m |-> Length[sent[b][r.id]]]) <= AggregateLimit
    BY <1>13 DEF WithinBudget
  <2>1. CASE m \in Range(history[b])
    <3>1. WithinBudget
      BY DEF BudgetInv
    <3> QED
      BY <2>1, <3>1 DEF WithinBudget
  <2>2. CASE m \notin Range(history[b])
    <3>1. b = a /\ m = new
      <4>1. b = a
        BY <1>10, <2>2
      <4>2. Range(history'[a]) = Range(history[a]) \cup {new}
        BY <1>5, <1>6, <1>10, RangeOfAppend
      <4> QED
        BY <2>2, <4>1, <4>2
    <3> QED
      BY <1>7, <1>11, <3>1, NewIsNotSent DEF Shape
  <2> QED
    BY <2>1, <2>2
<1> QED
  BY <1>14, <1>15, <1>16 DEF BudgetInv

\* A fork has the messages and the decisions of the main agent, and one call more.
LEMMA ForkFits ==
    ASSUME StableInv, BudgetInv, Fork
    PROVE  BudgetInv'
<1> DEFINE id == <<"main", made["main"] + 1>>
           entry == [id |-> id, form |-> "short"]
           new == {entry}
<1>1. "main" \in Agent /\ "fork" \in Agent /\ made["main"] \in Nat /\ MaxResults["main"] \in Nat
  BY ResultBudgetAssumption DEF StableInv, TypeOK, Agent
<1>2. id \in Id /\ ~Given(id)
  BY <1>1, NextIdIsNew DEF StableInv, Fork
<1>3. new \in SUBSET Result
  BY <1>2 DEF Result, Form
<1>4. Shape(new)
  <2>1. IsFiniteSet(new) /\ Cardinality(new) = 1
    BY FS_Singleton
  <2>2. MaxCalls \in Nat /\ 1 <= MaxCalls
    BY ResultBudgetAssumption
  <2> QED
    BY <2>1, <2>2 DEF Shape
<1>5. history["main"] \in History
  BY <1>1 DEF StableInv, TypeOK, History
<1>6. history' = [history EXCEPT !["fork"] = Append(history["main"], new)]
  BY DEF Fork
<1>7. id[1] = "main"
  OBVIOUS
<1>8. \A r \in new : r.id = id
  OBVIOUS
<1> HIDE DEF id, new
<1>9. /\ history'["fork"] = Append(history["main"], new)
      /\ history'["main"] = history["main"]
  BY <1>1, <1>6 DEF StableInv, TypeOK
<1>10. /\ sent'["main"] = sent["main"] /\ sent'["fork"] = sent["main"]
       /\ seen'["main"] = seen["main"] /\ seen'["fork"] = seen["main"]
       /\ kept'["main"] = kept["main"] /\ kept'["fork"] = kept["main"]
       /\ made' = made
  BY <1>1 DEF Fork, CloneState, StableInv, TypeOK
<1>11. id \notin seen["main"] /\ sent["main"][id] = None
  BY <1>2, <1>7 DEF StableInv, IdsAreGiven, BudgetInv, SeenIsGiven
<1>12. \A s \in ResultsOf(history["main"]) : s.id # id
  BY <1>2 DEF StableInv, IdsAreGiven
<1>13. Messages'
  <2>1. /\ Apart("main")'
        /\ \A m \in Range(history'["main"]) : Shape(m)' /\ AllOrNothing("main", m)'
    BY <1>1, <1>9, <1>10, SameAgent DEF StableInv
  <2>2. /\ Apart("fork")'
        /\ \A m \in Range(history'["fork"]) : Shape(m)' /\ AllOrNothing("fork", m)'
    <3>1. \A r \in new : r.id \notin seen["main"]
      BY <1>8, <1>11
    <3>2. \A r \in new : \A s \in ResultsOf(history["main"]) : r.id # s.id
      BY <1>8, <1>12
    <3> QED
      BY <1>1, <1>3, <1>4, <1>5, <1>9, <1>10, <3>1, <3>2, NewMessage
  <2> QED
    BY <2>1, <2>2 DEF Messages, Agent
<1>14. SeenIsGiven'
  BY <1>10 DEF BudgetInv, SeenIsGiven, Given, Agent
<1>15. WithinBudget'
  <2> SUFFICES ASSUME NEW b \in Agent, NEW m \in Range(history'[b]),
                      \A r \in m : sent["main"][r.id] # None
               PROVE  SumFunction([r \in m |-> Length[sent["main"][r.id]]]) <= AggregateLimit
    BY <1>10 DEF WithinBudget, Agent
  <2>1. CASE m \in Range(history["main"])
    <3>1. WithinBudget
      BY DEF BudgetInv
    <3> QED
      BY <1>1, <2>1, <3>1 DEF WithinBudget
  <2>2. CASE m \notin Range(history["main"])
    <3>1. m = new
      <4>1. Range(history'["fork"]) = Range(history["main"]) \cup {new}
        BY <1>3, <1>5, <1>9, RangeOfAppend
      <4> QED
        BY <1>9, <2>2, <4>1 DEF Agent
    <3> QED
      BY <1>4, <1>8, <1>11, <3>1, NewIsNotSent DEF Shape
  <2> QED
    BY <2>1, <2>2
<1> QED
  BY <1>13, <1>14, <1>15 DEF BudgetInv

\* A fork ends, a program starts again: of an empty history nothing was decided.
LEMMA NothingFits ==
    ASSUME StableInv, BudgetInv, history' = [history EXCEPT !["fork"] = <<>>],
           made' = made, sent' = [sent EXCEPT !["fork"] = Nothing],
           seen'["fork"] = {}, kept'["fork"] = Nothing,
           \/ seen'["main"] = seen["main"] /\ kept'["main"] = kept["main"]
           \/ seen'["main"] = {} /\ kept'["main"] = Nothing
    PROVE  BudgetInv'
<1>1. "main" \in Agent /\ "fork" \in Agent
  BY DEF Agent
<1>2. /\ history'["main"] = history["main"] /\ history'["fork"] = <<>>
      /\ sent'["main"] = sent["main"]
  BY <1>1 DEF StableInv, TypeOK
<1>3. Range(<<>>) = {}
  BY DEF Range
<1>4. SeenIsGiven'
  BY <1>1 DEF BudgetInv, SeenIsGiven, Given, Nothing, Agent
<1>5. Messages'
  <2>1. Apart("fork")'
    BY <1>2, <1>3 DEF Apart
  <2>2. Apart("main")'
    BY <1>1, <1>2 DEF BudgetInv, Messages, Apart
  <2>3. \A m \in Range(history'["fork"]) : Shape(m)' /\ AllOrNothing("fork", m)'
    BY <1>2, <1>3
  <2>4. \A m \in Range(history'["main"]) : Shape(m)' /\ AllOrNothing("main", m)'
    <3>1. CASE seen'["main"] = seen["main"] /\ kept'["main"] = kept["main"]
      BY <1>1, <1>2, <3>1, SameAgent DEF StableInv
    <3>2. CASE seen'["main"] = {} /\ kept'["main"] = Nothing
      BY <1>1, <1>2, <3>2 DEF BudgetInv, Messages, Shape, AllOrNothing
    <3> QED
      BY <3>1, <3>2
  <2> QED
    BY <2>1, <2>2, <2>3, <2>4 DEF Messages, Agent
<1>6. WithinBudget'
  <2> SUFFICES ASSUME NEW b \in Agent, NEW m \in Range(history'[b]),
                      \A r \in m : sent'[b][r.id] # None
               PROVE  SumFunction([r \in m |-> Length[sent'[b][r.id]]]) <= AggregateLimit
    BY DEF WithinBudget
  <2>1. b = "main" /\ m \in Range(history["main"])
    BY <1>2, <1>3 DEF Agent
  <2>2. WithinBudget
    BY DEF BudgetInv
  <2>3. SumFunction([r \in m |-> Length[sent["main"][r.id]]]) <= AggregateLimit
    BY <1>1, <1>2, <2>1, <2>2 DEF WithinBudget
  <2> QED
    BY <1>2, <2>1, <2>3
<1> QED
  BY <1>4, <1>5, <1>6 DEF BudgetInv

\* What shortens a history leaves messages of it.
LEMMA CutFits ==
    ASSUME StableInv, BudgetInv, (\E a \in Agent : Compact(a)) \/ Rewind
    PROVE  BudgetInv'
<1>1. ASSUME NEW a \in Agent, Compact(a) PROVE BudgetInv'
  <2>1. PICK tail \in 0..MinKeep :
           /\ tail < Len(history[a])
           /\ history' = [history EXCEPT ![a] = SubSeq(@, Len(@) - tail + 1, Len(@))]
    BY <1>1 DEF Compact
  <2>2. history[a] \in History /\ tail \in Nat /\ Len(history[a]) \in Nat
    BY ResultBudgetAssumption DEF StableInv, TypeOK, History
  <2> DEFINE left == SubSeq(history[a], Len(history[a]) - tail + 1, Len(history[a]))
  <2>3. Range(left) \subseteq Range(history[a])
    BY <2>1, <2>2, RangeOfPart
  <2>4. history' = [history EXCEPT ![a] = left]
    BY <2>1
  <2> HIDE DEF left
  <2>5. \A b \in Agent : Range(history'[b]) \subseteq Range(history[b])
    BY <2>3, <2>4 DEF StableInv, TypeOK
  <2> QED
    BY <1>1, <2>5, LessMessages DEF StableInv, Compact
<1>2. CASE Rewind
  <2>1. PICK n \in 0..(Len(history["main"]) - 1) :
           history' = [history EXCEPT !["main"] = SubSeq(@, 1, n)]
    BY <1>2 DEF Rewind
  <2> DEFINE left == SubSeq(history["main"], 1, n)
  <2>2. history["main"] \in History /\ Len(history["main"]) \in Nat
    BY DEF StableInv, TypeOK, History, Agent
  <2>3. Range(left) \subseteq Range(history["main"])
    BY <2>1, <2>2, RangeOfPart
  <2>4. history' = [history EXCEPT !["main"] = left]
    BY <2>1
  <2> HIDE DEF left
  <2>5. \A b \in Agent : Range(history'[b]) \subseteq Range(history[b])
    BY <2>3, <2>4 DEF StableInv, TypeOK, Agent
  <2> QED
    BY <1>2, <2>5, LessMessages DEF StableInv, Rewind
<1> QED
  BY <1>1, <1>2

\* The answer that ends a turn weighs nothing.
LEMMA FinalAnswerFits ==
    ASSUME StableInv, BudgetInv, FinalAnswer
    PROVE  BudgetInv'
<1>1. "main" \in Agent /\ "fork" \in Agent /\ history["main"] \in History
  BY DEF StableInv, TypeOK, History, Agent
<1>2. UNCHANGED <<made, seen, kept, sent>>
  BY DEF FinalAnswer, state
<1>3. /\ history'["main"] = Append(history["main"], EndOfTurn)
      /\ history'["fork"] = history["fork"]
  BY <1>1 DEF StableInv, TypeOK, FinalAnswer
<1>4. EndOfTurn \in SUBSET Result /\ \A r \in EndOfTurn : FALSE
  BY DEF EndOfTurn
<1>5. Shape(EndOfTurn)
  <2>1. IsFiniteSet({}) /\ Cardinality({}) = 0 /\ MaxCalls \in Nat
    BY FS_EmptySet, ResultBudgetAssumption
  <2> QED
    BY <2>1 DEF Shape, EndOfTurn
<1> HIDE DEF EndOfTurn
<1>6. Messages'
  <2>1. /\ Apart("main")'
        /\ \A m \in Range(history'["main"]) : Shape(m)' /\ AllOrNothing("main", m)'
    BY <1>1, <1>2, <1>3, <1>4, <1>5, NewMessage
  <2>2. /\ Apart("fork")'
        /\ \A m \in Range(history'["fork"]) : Shape(m)' /\ AllOrNothing("fork", m)'
    BY <1>1, <1>2, <1>3, SameAgent DEF StableInv
  <2> QED
    BY <2>1, <2>2 DEF Messages, Agent
<1>7. SeenIsGiven'
  BY <1>2 DEF BudgetInv, SeenIsGiven, Given
<1>8. WithinBudget'
  <2> SUFFICES ASSUME NEW b \in Agent, NEW m \in Range(history'[b]),
                      \A r \in m : sent[b][r.id] # None
               PROVE  SumFunction([r \in m |-> Length[sent[b][r.id]]]) <= AggregateLimit
    BY <1>2 DEF WithinBudget
  <2>1. CASE m \in Range(history[b])
    <3>1. WithinBudget
      BY DEF BudgetInv
    <3> QED
      BY <2>1, <3>1 DEF WithinBudget
  <2>2. CASE m \notin Range(history[b])
    <3>1. b = "main" /\ m = EndOfTurn
      <4>1. b = "main"
        BY <1>3, <2>2 DEF Agent
      <4>2. Range(history'["main"]) = Range(history["main"]) \cup {EndOfTurn}
        BY <1>1, <1>3, <1>4, RangeOfAppend
      <4> QED
        BY <2>2, <4>1, <4>2
    <3> QED
      BY <1>4, <1>5, <3>1, NewIsNotSent DEF Shape
  <2> QED
    BY <2>1, <2>2
<1> QED
  BY <1>6, <1>7, <1>8 DEF BudgetInv

\* Every step keeps what was shown within the limit.
LEMMA BudgetStep ==
    ASSUME StableInv, BudgetInv, [Next]_vars
    PROVE  BudgetInv'
<1>1. ASSUME NEW a \in Agent, Request(a) PROVE BudgetInv'
  BY <1>1, RequestFits
<1>2. ASSUME NEW a \in Agent, AddResults(a) PROVE BudgetInv'
  BY <1>2, AddResultsFits
<1>3. CASE (\E a \in Agent : Compact(a)) \/ Rewind
  BY <1>3, CutFits
<1>4. CASE FinalAnswer
  BY <1>4, FinalAnswerFits
<1>5. CASE Abort
  BY <1>5, LessMessages DEF StableInv, Abort
<1>6. CASE Fork
  BY <1>6, ForkFits
<1>7. CASE EndFork
  <2>1. /\ seen'["fork"] = {} /\ kept'["fork"] = Nothing
        /\ seen'["main"] = seen["main"] /\ kept'["main"] = kept["main"]
    BY <1>7 DEF EndFork, StableInv, TypeOK, Agent
  <2> QED
    BY <1>7, <2>1, NothingFits DEF EndFork
<1>8. CASE Restart
  <2>1. /\ seen'["fork"] = {} /\ kept'["fork"] = Nothing
        /\ seen'["main"] = {} /\ kept'["main"] = Nothing
    BY <1>8 DEF Restart, Agent
  <2> QED
    BY <1>8, <2>1, NothingFits DEF Restart
<1>9. CASE UNCHANGED vars
  BY <1>9, LessMessages DEF StableInv, vars, state
<1> QED
  BY <1>1, <1>2, <1>3, <1>4, <1>5, <1>6, <1>7, <1>8, <1>9 DEF Next

\* The results of a message are sent within the aggregate limit together
\* (manager.py, apply_tool_result_budget), for all lengths and limits, in every
\* order of requests, forks, rewinds, compactions and restarts.
THEOREM BudgetKept == Spec => []WithinBudget
<1>1. Init => BudgetInv
  <2> SUFFICES ASSUME Init PROVE BudgetInv
    OBVIOUS
  <2>1. \A a \in Agent : Range(history[a]) = {} /\ seen[a] = {} /\ kept[a] = Nothing
    BY DEF Init, Range
  <2> QED
    BY <2>1 DEF BudgetInv, SeenIsGiven, Messages, Apart, WithinBudget, Nothing, Agent
<1>2. StableInv /\ BudgetInv /\ [Next]_vars => BudgetInv'
  BY BudgetStep
<1>3. BudgetInv => WithinBudget
  BY DEF BudgetInv
<1> QED
  BY <1>1, <1>2, <1>3, InitStable, StableInvIsInductive, PTL DEF Spec

-----------------------------------------------------------------------------
(* The facts of the memory.                                                *)

\* An extraction in flight is the only one, and was told all that the file holds.
FileIsKnown ==
    \A p \in Process : \A ask \in chat[p].asked :
        /\ UNION project \subseteq ask.existing
        /\ chat[p].extracting /\ chat[p].asked = {ask}

MemoryInv ==
    /\ DOMAIN chat = Process
    /\ \A p \in Process : {"asked", "extracting"} \subseteq DOMAIN chat[p]
    /\ FileIsKnown

\* Nothing is asked and nothing is written.
LEMMA NotAsking ==
    ASSUME MemoryInv, NEW p \in Process, NEW new, M!Update(p, new),
           {"asked", "extracting"} \subseteq DOMAIN new,
           \/ new.asked = {}
           \/ new.asked = chat[p].asked /\ new.extracting = chat[p].extracting,
           UNION project' \subseteq UNION project
    PROVE  MemoryInv'
<1>1. /\ DOMAIN chat' = Process /\ chat'[p] = new
      /\ \A q \in Process : q # p => chat'[q] = chat[q]
  BY DEF MemoryInv, M!Update
<1>2. \A q \in Process : {"asked", "extracting"} \subseteq DOMAIN chat'[q]
  BY <1>1 DEF MemoryInv
<1>3. FileIsKnown'
  <2> SUFFICES ASSUME NEW q \in Process, NEW ask \in chat'[q].asked
               PROVE  /\ UNION project' \subseteq ask.existing
                      /\ chat'[q].extracting /\ chat'[q].asked = {ask}
    BY DEF FileIsKnown
  <2>1. chat'[q].asked = chat[q].asked /\ chat'[q].extracting = chat[q].extracting
    BY <1>1
  <2>2. /\ UNION project \subseteq ask.existing
        /\ chat[q].extracting /\ chat[q].asked = {ask}
    BY <2>1 DEF MemoryInv, FileIsKnown
  <2> QED
    BY <2>1, <2>2
<1> QED
  BY <1>1, <1>2, <1>3 DEF MemoryInv

\* The turns of a conversation, and its end, ask nothing.
LEMMA TalkStep ==
    ASSUME MemoryInv, NEW p \in Process,
           \/ \E task \in {{"w"}, {}} : M!Prompt(p, task)
           \/ \E facts \in SUBSET Fact : M!Answer(p, facts)
           \/ M!ClearChat(p) \/ M!Compact(p) \/ M!Exit(p) \/ M!Leave(p)
    PROVE  MemoryInv' /\ project' = project
<1> DEFINE me == chat[p]
           Quiet(new) == /\ M!Update(p, new)
                         /\ {"asked", "extracting"} \subseteq DOMAIN new
                         /\ \/ new.asked = {}
                            \/ new.asked = me.asked /\ new.extracting = me.extracting
<1>1. {"asked", "extracting"} \subseteq DOMAIN me
  BY DEF MemoryInv
<1>2. ASSUME NEW task \in {{"w"}, {}}, M!Prompt(p, task)
      PROVE  project' = project /\ \E new : Quiet(new)
  <2> DEFINE new == [me EXCEPT !.messages = @ + 1, !.ltm = M!Injected(me),
                               !.recalled = M!Recalled(task)]
  <2>1. M!Update(p, new) /\ project' = project
    BY <1>2 DEF M!Prompt
  <2>2. new.asked = me.asked /\ new.extracting = me.extracting /\ DOMAIN new = DOMAIN me
    BY <1>1
  <2> QED
    BY <1>1, <2>1, <2>2
<1>3. ASSUME NEW facts \in SUBSET Fact, M!Answer(p, facts)
      PROVE  project' = project /\ \E new : Quiet(new)
  <2> DEFINE new == [me EXCEPT !.messages = @ + 1, !.told = @ \cup facts,
                               !.loops = (@ + 1) % Interval,
                               !.due = @ + IF (me.loops + 1) % Interval = 0 THEN 1 ELSE 0]
  <2>1. M!Update(p, new) /\ project' = project
    BY <1>3 DEF M!Answer
  <2>2. new.asked = me.asked /\ new.extracting = me.extracting /\ DOMAIN new = DOMAIN me
    BY <1>1
  <2> QED
    BY <1>1, <2>1, <2>2
<1>4. ASSUME M!ClearChat(p)
      PROVE  project' = project /\ \E new : Quiet(new)
  <2> DEFINE new == [me EXCEPT !.messages = 0, !.told = {}, !.ltm = {}, !.recalled = {}]
  <2>1. M!Update(p, new) /\ project' = project
    BY <1>4 DEF M!ClearChat
  <2>2. new.asked = me.asked /\ new.extracting = me.extracting /\ DOMAIN new = DOMAIN me
    BY <1>1
  <2> QED
    BY <1>1, <2>1, <2>2
<1>5. ASSUME M!Compact(p)
      PROVE  project' = project /\ \E new : Quiet(new)
  <2> DEFINE new == [me EXCEPT !.messages = 1, !.told = {}, !.recalled = {},
                               !.ltm = M!Injected([me EXCEPT !.ltm = {}])]
  <2>1. M!Update(p, new) /\ project' = project
    BY <1>5 DEF M!Compact
  <2>2. new.asked = me.asked /\ new.extracting = me.extracting /\ DOMAIN new = DOMAIN me
    BY <1>1
  <2> QED
    BY <1>1, <2>1, <2>2
<1>6. ASSUME M!Exit(p)
      PROVE  project' = project /\ \E new : Quiet(new)
  <2> DEFINE new == [me EXCEPT !.open = FALSE, !.due = @ + 1]
  <2>1. M!Update(p, new) /\ project' = project
    BY <1>6 DEF M!Exit
  <2>2. new.asked = me.asked /\ new.extracting = me.extracting /\ DOMAIN new = DOMAIN me
    BY <1>1
  <2> QED
    BY <1>1, <2>1, <2>2
<1>7. ASSUME M!Leave(p)
      PROVE  project' = project /\ \E new : Quiet(new)
  BY <1>1, <1>7 DEF M!Leave, M!Fresh
<1>8. project' = project /\ \E new : Quiet(new)
  BY <1>2, <1>3, <1>4, <1>5, <1>6, <1>7
<1> QED
  BY <1>8, NotAsking

\* An extraction starts from the file, with none in flight.
LEMMA ExtractStep ==
    ASSUME MemoryInv, NEW p \in Process, \A q \in Process : q = p, M!Extract(p)
    PROVE  MemoryInv' /\ project' = project
<1> DEFINE me == chat[p]
           asks == [existing |-> M!LoadExisting, messages |-> me.messages, told |-> me.told]
           waits == [me EXCEPT !.due = @ - 1]
           begins == [me EXCEPT !.due = @ - 1, !.extracting = TRUE, !.asked = @ \cup {asks}]
<1>1. {"asked", "extracting"} \subseteq DOMAIN me
  BY DEF MemoryInv
<1>2. project' = project /\ UNION project' \subseteq UNION project
  BY DEF M!Extract
<1>3. CASE M!Update(p, waits)
  <2>1. /\ waits.asked = me.asked /\ waits.extracting = me.extracting
        /\ DOMAIN waits = DOMAIN me
    BY <1>1
  <2> QED
    BY <1>1, <1>2, <1>3, <2>1, NotAsking
<1>4. CASE ~M!Busy(p) /\ M!Update(p, begins)
  <2>1. me.asked = {}
    BY <1>4 DEF MemoryInv, FileIsKnown, M!Busy
  <2>2. begins.asked = {asks} /\ begins.extracting = TRUE /\ DOMAIN begins = DOMAIN me
    BY <1>1, <2>1
  <2>3. DOMAIN chat' = Process /\ chat'[p] = begins
    BY <1>4 DEF M!Update, MemoryInv
  <2>4. UNION project \subseteq asks.existing
    BY DEF M!LoadExisting
  <2> HIDE DEF asks, begins
  <2>5. FileIsKnown'
    BY <1>2, <2>2, <2>3, <2>4 DEF FileIsKnown
  <2>6. \A q \in Process : {"asked", "extracting"} \subseteq DOMAIN chat'[q]
    BY <1>1, <2>2, <2>3
  <2> QED
    BY <1>2, <2>3, <2>5, <2>6 DEF MemoryInv
<1>5. M!Update(p, waits) \/ (~M!Busy(p) /\ M!Update(p, begins))
  BY DEF M!Extract
<1> QED
  BY <1>2, <1>3, <1>4, <1>5

\* What an extraction writes holds the file; with its end none is in flight.
LEMMA EndOfExtraction ==
    ASSUME MemoryInv, NEW p \in Process, \A q \in Process : q = p,
           NEW ask \in chat[p].asked,
           \/ \E found \in SUBSET Fact : M!Extracted(p, ask, found)
           \/ M!ExtractionFails(p, ask)
    PROVE  MemoryInv' /\ UNION project \subseteq UNION project'
<1> DEFINE me == chat[p]
           written == [me EXCEPT !.extracting = FALSE, !.asked = @ \ {ask},
                                 !.seen = ask.messages]
           failed == [me EXCEPT !.extracting = FALSE, !.asked = @ \ {ask}]
<1>1. {"asked", "extracting"} \subseteq DOMAIN me
  BY DEF MemoryInv
<1>2. UNION project \subseteq ask.existing /\ me.asked = {ask}
  BY DEF MemoryInv, FileIsKnown
<1>3. me.asked \ {ask} = {}
  BY <1>2
<1>4. PICK new : M!Update(p, new) /\ new \in {written, failed}
  BY DEF M!Extracted, M!ExtractionFails
<1>5. new.asked = {} /\ DOMAIN new = DOMAIN me
  <2>1. CASE new = written
    BY <1>1, <1>3, <2>1
  <2>2. CASE new = failed
    BY <1>1, <1>3, <2>2
  <2> QED
    BY <1>4, <2>1, <2>2
<1>6. DOMAIN chat' = Process /\ chat'[p] = new
  BY <1>4 DEF M!Update, MemoryInv
<1> HIDE DEF written, failed
<1>7. MemoryInv'
  BY <1>1, <1>5, <1>6 DEF MemoryInv, FileIsKnown
<1>8. UNION project \subseteq UNION project'
  <2>1. CASE project' = project
    BY <2>1
  <2>2. ASSUME NEW found \in SUBSET Fact, project' = {ask.existing \cup found}
        PROVE  UNION project \subseteq UNION project'
    BY <1>2, <2>2
  <2> QED
    BY <2>1, <2>2 DEF M!Extracted, M!ExtractionFails
<1> QED
  BY <1>7, <1>8

\* A step of the memory keeps the invariant, and the facts unless it clears them.
LEMMA MemoryStep ==
    ASSUME MemoryInv, \A p, q \in Process : p = q,
           M!MemoryNext \/ UNCHANGED memoryVars
    PROVE  /\ MemoryInv'
           /\ project' = {{}} \/ UNION project \subseteq UNION project'
<1>1. CASE project' = project /\ chat' = chat
  BY <1>1 DEF MemoryInv, FileIsKnown
<1>2. ASSUME NEW p \in Process, M!ClearMemory(p)
      PROVE  MemoryInv' /\ project' = {{}}
  BY <1>2 DEF M!ClearMemory, MemoryInv, FileIsKnown
<1>3. ASSUME NEW p \in Process, M!Extract(p)
      PROVE  MemoryInv' /\ project' = project
  BY <1>3, ExtractStep
<1>4. ASSUME NEW p \in Process, NEW ask \in chat[p].asked,
             \/ \E found \in SUBSET Fact : M!Extracted(p, ask, found)
             \/ M!ExtractionFails(p, ask)
      PROVE  MemoryInv' /\ UNION project \subseteq UNION project'
  BY <1>4, EndOfExtraction
<1>5. ASSUME NEW p \in Process,
             \/ \E task \in {{"w"}, {}} : M!Prompt(p, task)
             \/ \E facts \in SUBSET Fact : M!Answer(p, facts)
             \/ M!ClearChat(p) \/ M!Compact(p) \/ M!Exit(p) \/ M!Leave(p)
      PROVE  MemoryInv' /\ project' = project
  BY <1>5, TalkStep
<1>6. ASSUME NEW f, M!RemoveFile(f)
      PROVE  project' = project /\ chat' = chat
  BY <1>6 DEF M!RemoveFile
<1>7. CASE UNCHANGED memoryVars
  BY <1>1, <1>7 DEF memoryVars
<1>8. CASE M!MemoryNext
  BY <1>1, <1>2, <1>3, <1>4, <1>5, <1>6, <1>8 DEF M!MemoryNext
<1> QED
  BY <1>7, <1>8

\* What has been remembered stays in the file until it is cleared, when one
\* process works on the project: an extraction rewrites the file, but from all
\* that it held, for none starts while another is in flight.
THEOREM FactsStay ==
    (\A p, q \in Process : p = q) => (MCSpec => FactsSurvive)
<1> SUFFICES ASSUME \A p, q \in Process : p = q
             PROVE  MCSpec => FactsSurvive
  OBVIOUS
<1>1. MCInit => MemoryInv
  <2> SUFFICES ASSUME MCInit PROVE MemoryInv
    OBVIOUS
  <2>1. chat = [p \in Process |-> M!Fresh]
    BY DEF MCInit, M!MemoryInit
  <2>2. M!Fresh.asked = {} /\ {"asked", "extracting"} \subseteq DOMAIN M!Fresh
    BY DEF M!Fresh
  <2> QED
    BY <2>1, <2>2 DEF MemoryInv, FileIsKnown
<1>2. ASSUME MemoryInv, [MCNext]_<<part, vars, memoryVars, clientVars>>
      PROVE  /\ MemoryInv'
             /\ project' = {{}} \/ UNION project \subseteq UNION project'
  <2>1. M!MemoryNext \/ UNCHANGED memoryVars
    BY <1>2 DEF MCNext
  <2> QED
    BY <1>2, <2>1, MemoryStep
<1>3. MemoryInv /\ [MCNext]_<<part, vars, memoryVars, clientVars>> =>
          MemoryInv' /\ [project' = {{}} \/ UNION project \subseteq UNION project']_M!vars
  BY <1>2
<1> QED
  BY <1>1, <1>3, PTL DEF MCSpec, FactsSurvive, M!FactsSurvive

-----------------------------------------------------------------------------
(* The streams of the clients: what FlattenSeq makes of sequences.         *)

\* A rule has a step for each argument; a function follows it from its first value.
Rule(rule, n, S) == rule \in [1..n -> [S -> S]]
Follows(g, first, rule, n, S) ==
    /\ g \in [0..n -> S] /\ g[0] = first
    /\ \A i \in 1..n : g[i] = rule[i][g[i - 1]]

\* A function that is given by its first value and a step for each argument.
LEMMA Recursion ==
    ASSUME NEW S, NEW first \in S, NEW n \in Nat, NEW rule, Rule(rule, n, S)
    PROVE  \E g : Follows(g, first, rule, n, S)
<1> DEFINE Upto(k) == \E g \in [0..k -> S] :
                         g[0] = first /\ \A i \in 1..k : g[i] = rule[i][g[i - 1]]
           Wrong == {k \in 0..n : ~Upto(k)}
<1>0. rule \in [1..n -> [S -> S]]
  BY DEF Rule
<1>1. SUFFICES ASSUME Wrong # {} PROVE FALSE
  <2>1. n \in 0..n
    OBVIOUS
  <2>2. Upto(n)
    BY <2>1
  <2> QED
    BY <2>2 DEF Follows
<1>2. Wrong \subseteq Nat
  OBVIOUS
<1> HIDE DEF Wrong
<1>3. PICK k \in Wrong : \A j \in Wrong : k <= j
  BY <1>1, <1>2, Least
<1>4. k \in 0..n /\ ~Upto(k)
  BY <1>3 DEF Wrong
<1>5. k # 0
  <2> DEFINE g == [i \in 0..0 |-> first]
  <2>1. g \in [0..0 -> S] /\ g[0] = first /\ \A i \in 1..0 : g[i] = rule[i][g[i - 1]]
    OBVIOUS
  <2>2. Upto(0)
    BY <2>1
  <2> QED
    BY <1>4, <2>2
<1>6. Upto(k - 1)
  <2>1. k - 1 \in 0..n /\ ~(k <= k - 1)
    BY <1>4, <1>5
  <2>2. k - 1 \notin Wrong
    BY <1>3, <2>1
  <2> QED
    BY <2>1, <2>2 DEF Wrong
<1>7. PICK g \in [0..(k - 1) -> S] :
          g[0] = first /\ \A i \in 1..(k - 1) : g[i] = rule[i][g[i - 1]]
  BY <1>6
<1>8. k \in 1..n /\ k - 1 \in 0..(k - 1)
  BY <1>4, <1>5
<1> DEFINE last == rule[k][g[k - 1]]
           h == [i \in 0..k |-> IF i = k THEN last ELSE g[i]]
<1>9. last \in S
  BY <1>0, <1>7, <1>8
<1>10. h[k] = last /\ h[k - 1] = g[k - 1] /\ h[0] = first
  BY <1>7, <1>8
<1>11. h \in [0..k -> S]
  <2>1. ASSUME NEW i \in 0..k
        PROVE  (IF i = k THEN last ELSE g[i]) \in S
    <3>1. CASE i = k
      BY <1>9, <3>1
    <3>2. CASE i # k
      BY <1>7, <1>8, <3>2
    <3> QED
      BY <3>1, <3>2
  <2> QED
    BY <2>1
<1>12. ASSUME NEW i \in 1..k
       PROVE  h[i] = rule[i][h[i - 1]]
  <2>1. CASE i = k
    BY <1>10, <2>1
  <2>2. CASE i # k
    <3>1. i \in 1..(k - 1) /\ i - 1 \in 0..(k - 1) /\ i - 1 # k /\ i \in 0..k /\ i - 1 \in 0..k
      BY <1>8, <2>2
    <3> QED
      BY <1>7, <2>2, <3>1
  <2> QED
    BY <2>1, <2>2
<1> HIDE DEF h
<1>13. Upto(k)
  BY <1>10, <1>11, <1>12
<1> QED
  BY <1>4, <1>13

\* What FlattenSeq has made of the first sequences.
Flattens(f, s, n, S) ==
    /\ f \in [1..n -> Seq(S)] /\ f[1] = s[1] /\ C!FlattenSeq(s) = f[n]
    /\ \A i \in 2..n : f[i] = f[i - 1] \o s[i]

\* FlattenSeq takes the sequences one by one.
LEMMA FlattenSteps ==
    ASSUME NEW S, NEW n \in Nat \ {0}, NEW s, s \in [1..n -> Seq(S)]
    PROVE  \E f : Flattens(f, s, n, S)
<1> DEFINE T == Seq(S)
           Body(f) == [i \in 1..n |-> IF i = 1 THEN s[i] ELSE f[i - 1] \o s[i]]
           rule == [i \in 1..n |-> [t \in T |-> t \o s[i]]]
<1>1. rule \in [1..n -> [T -> T]]
  <2>1. ASSUME NEW i \in 1..n, NEW t \in T
        PROVE  t \o s[i] \in T
    BY ConcatProperties
  <2> QED
    BY <2>1
<1>2. PICK g \in [0..n -> T] : g[0] = <<>> /\ \A i \in 1..n : g[i] = rule[i][g[i - 1]]
  <2>1. <<>> \in T /\ n \in Nat
    OBVIOUS
  <2>2. Rule(rule, n, T)
    BY <1>1 DEF Rule
  <2> HIDE DEF T, rule
  <2>3. \E g : Follows(g, <<>>, rule, n, T)
    BY <2>1, <2>2, Recursion
  <2> QED
    BY <2>3 DEF Follows
<1>3. \A i \in 1..n : g[i] = g[i - 1] \o s[i]
  <2> TAKE i \in 1..n
  <2>1. i - 1 \in 0..n
    OBVIOUS
  <2>2. g[i - 1] \in T
    BY <1>2, <2>1
  <2> QED
    BY <1>2, <2>2
<1>4. g[1] = s[1]
  <2>1. g[1] = g[0] \o s[1] /\ s[1] \in Seq(S)
    BY <1>3
  <2> QED
    BY <1>2, <2>1, ConcatEmptySeq
<1> DEFINE f == [i \in 1..n |-> g[i]]
<1>5. f = Body(f)
  <2> SUFFICES ASSUME NEW i \in 1..n
               PROVE  f[i] = IF i = 1 THEN s[i] ELSE f[i - 1] \o s[i]
    OBVIOUS
  <2>1. CASE i = 1
    BY <1>4, <2>1
  <2>2. CASE i # 1
    <3>1. i - 1 \in 1..n
      BY <2>2
    <3> QED
      BY <1>3, <2>2, <3>1
  <2> QED
    BY <2>1, <2>2
<1> DEFINE flat == CHOOSE h : h = Body(h)
<1>6. flat = Body(flat)
  <2>1. \E h : h = Body(h)
    BY <1>5
  <2> HIDE DEF Body
  <2> QED
    BY <2>1
<1>7. C!FlattenSeq(s) = flat[n]
  <2>1. Len(s) = n
    BY LenProperties
  <2> QED
    BY <2>1 DEF C!FlattenSeq
<1> HIDE DEF flat
<1>8. flat[1] = s[1] /\ \A i \in 2..n : flat[i] = flat[i - 1] \o s[i]
  <2>1. \A i \in 1..n : flat[i] = IF i = 1 THEN s[i] ELSE flat[i - 1] \o s[i]
    BY <1>6
  <2>2. 1 \in 1..n /\ \A i \in 2..n : i \in 1..n /\ i # 1
    OBVIOUS
  <2> QED
    BY <2>1, <2>2
<1> DEFINE Wrong == {i \in 1..n : flat[i] # f[i]}
<1>9. Wrong = {}
  <2> SUFFICES ASSUME Wrong # {} PROVE FALSE
    OBVIOUS
  <2>1. PICK k \in Wrong : \A j \in Wrong : k <= j
    <3>1. Wrong \subseteq Nat
      OBVIOUS
    <3> HIDE DEF Wrong
    <3> QED
      BY <3>1, Least
  <2>2. k \in 1..n /\ flat[k] # f[k]
    OBVIOUS
  <2>3. f[1] = s[1]
    BY <1>4
  <2>4. k \in 2..n /\ k - 1 \in 1..n /\ ~(k <= k - 1)
    BY <1>8, <2>2, <2>3
  <2>5. flat[k - 1] = f[k - 1]
    BY <2>1, <2>4
  <2>6. f[k] = f[k - 1] \o s[k]
    BY <1>3, <2>4
  <2> QED
    BY <1>8, <2>2, <2>4, <2>5, <2>6
<1>10. f \in [1..n -> T] /\ f[1] = s[1]
  <2>1. 1 \in 1..n /\ 1..n \subseteq 0..n
    OBVIOUS
  <2> HIDE DEF T
  <2> QED
    BY <1>2, <1>4, <2>1
<1>11. \A i \in 2..n : f[i] = f[i - 1] \o s[i]
  <2> TAKE i \in 2..n
  <2>1. i \in 1..n /\ i - 1 \in 1..n
    OBVIOUS
  <2> QED
    BY <1>3, <2>1
<1>12. flat[n] = f[n]
  <2>1. n \in 1..n
    OBVIOUS
  <2> QED
    BY <1>9, <2>1
<1> HIDE DEF f
<1> QED
  BY <1>7, <1>10, <1>11, <1>12 DEF Flattens

\* What is left of a tail after sequences, from each of them on.
Rests(rest, s, tail, n, S) ==
    /\ rest \in [1..(n + 1) -> Seq(S)] /\ rest[n + 1] = tail
    /\ \A i \in 1..n : rest[i] = s[i] \o rest[i + 1]

\* ... so that what it makes, with a tail, is the first of its rests.
LEMMA FlattenRests ==
    ASSUME NEW S, NEW n \in Nat, NEW s, s \in [1..n -> Seq(S)], NEW tail \in Seq(S)
    PROVE  \E rest : Rests(rest, s, tail, n, S) /\ rest[1] = C!FlattenSeq(s) \o tail
<1>1. CASE n = 0
  <2> DEFINE rest == [i \in 1..(n + 1) |-> tail]
  <2>1. s = <<>> /\ Len(s) = 0
    BY <1>1
  <2>2. C!FlattenSeq(s) \o tail = tail
    BY <2>1, ConcatEmptySeq DEF C!FlattenSeq
  <2>3. /\ rest \in [1..(n + 1) -> Seq(S)] /\ rest[n + 1] = tail /\ rest[1] = tail
        /\ \A i \in 1..n : FALSE
    BY <1>1
  <2> QED
    BY <2>2, <2>3 DEF Rests
<1>2. CASE n # 0
  <2> DEFINE T == Seq(S)
             rule == [k \in 1..n |-> [t \in T |-> s[n + 1 - k] \o t]]
  <2>1. rule \in [1..n -> [T -> T]]
    <3>1. ASSUME NEW k \in 1..n, NEW t \in T
          PROVE  s[n + 1 - k] \o t \in T
      <4>1. n + 1 - k \in 1..n
        OBVIOUS
      <4>2. s[n + 1 - k] \in Seq(S)
        BY <4>1
      <4> QED
        BY <4>2, ConcatProperties
    <3> QED
      BY <3>1
  <2>2. PICK g \in [0..n -> T] : g[0] = tail /\ \A k \in 1..n : g[k] = rule[k][g[k - 1]]
    <3>1. tail \in T /\ n \in Nat
      OBVIOUS
    <3>2. Rule(rule, n, T)
      BY <2>1 DEF Rule
    <3> HIDE DEF T, rule
    <3>3. \E g : Follows(g, tail, rule, n, T)
      BY <3>1, <3>2, Recursion
    <3> QED
      BY <3>3 DEF Follows
  <2> DEFINE rest == [i \in 1..(n + 1) |-> g[n + 1 - i]]
  <2>3. rest \in [1..(n + 1) -> T] /\ rest[n + 1] = tail
    BY <2>2
  <2>4. ASSUME NEW i \in 1..n
        PROVE  rest[i] = s[i] \o rest[i + 1]
    <3>1. n + 1 - i \in 1..n /\ n + 1 - i - 1 \in 0..n /\ n + 1 - (n + 1 - i) = i
      OBVIOUS
    <3>2. g[n + 1 - i] = rule[n + 1 - i][g[n + 1 - i - 1]] /\ g[n + 1 - i - 1] \in T
      <4> HIDE DEF T, rule
      <4> QED
        BY <2>2, <3>1
    <3>3. g[n + 1 - i] = s[n + 1 - (n + 1 - i)] \o g[n + 1 - i - 1]
      BY <3>1, <3>2
    <3>4. i + 1 \in 1..(n + 1) /\ n + 1 - (i + 1) = n + 1 - i - 1 /\ i \in 1..(n + 1)
      OBVIOUS
    <3>5. rest[i] = g[n + 1 - i] /\ rest[i + 1] = g[n + 1 - i - 1]
      BY <3>4
    <3> HIDE DEF rest, rule
    <3> QED
      BY <3>1, <3>3, <3>5
  <2> HIDE DEF rest
  <2>5. PICK f \in [1..n -> T] : /\ f[1] = s[1] /\ C!FlattenSeq(s) = f[n]
                                 /\ \A i \in 2..n : f[i] = f[i - 1] \o s[i]
    <3>1. n \in Nat \ {0}
      BY <1>2
    <3>2. \E f : Flattens(f, s, n, S)
      BY <3>1, FlattenSteps
    <3> QED
      BY <3>2 DEF Flattens
  <2> DEFINE Wrong == {i \in 1..n : f[i] \o rest[i + 1] # rest[1]}
  <2>6. Wrong = {}
    <3> SUFFICES ASSUME Wrong # {} PROVE FALSE
      OBVIOUS
    <3>1. PICK k \in Wrong : \A j \in Wrong : k <= j
      <4>1. Wrong \subseteq Nat
        OBVIOUS
      <4> HIDE DEF Wrong
      <4> QED
        BY <4>1, Least
    <3>2. k \in 1..n /\ f[k] \o rest[k + 1] # rest[1]
      OBVIOUS
    <3>3. k # 1
      <4>1. 1 \in 1..n
        BY <1>2
      <4>2. rest[1] = s[1] \o rest[1 + 1]
        BY <2>4, <4>1
      <4> QED
        BY <2>5, <3>2, <4>2
    <3>4. k \in 2..n /\ k - 1 \in 1..n /\ ~(k <= k - 1) /\ k - 1 + 1 = k /\ k + 1 \in 1..(n + 1)
      BY <3>2, <3>3
    <3>5. f[k - 1] \o rest[k] = rest[1]
      BY <3>1, <3>4
    <3>6. f[k] = f[k - 1] \o s[k] /\ rest[k] = s[k] \o rest[k + 1]
      BY <2>4, <2>5, <3>4
    <3>7. f[k - 1] \in Seq(S) /\ s[k] \in Seq(S) /\ rest[k + 1] \in Seq(S)
      <4>1. f[k - 1] \in T /\ s[k] \in T
        BY <2>5, <3>4
      <4>2. rest[k + 1] \in T
        BY <2>3, <3>4
      <4> QED
        BY <4>1, <4>2
    <3>8. (f[k - 1] \o s[k]) \o rest[k + 1] = f[k - 1] \o (s[k] \o rest[k + 1])
      <4> DEFINE x == f[k - 1]
                 y == s[k]
                 z == rest[k + 1]
      <4>1. x \in Seq(S) /\ y \in Seq(S) /\ z \in Seq(S)
        BY <3>7
      <4> HIDE DEF x, y, z
      <4>2. (x \o y) \o z = x \o (y \o z)
        BY <4>1, SMTT(30)
      <4> QED
        BY <4>2 DEF x, y, z
    <3> QED
      BY <3>2, <3>5, <3>6, <3>8
  <2>7. f[n] \o rest[n + 1] = rest[1]
    <3>1. n \in 1..n
      BY <1>2
    <3> QED
      BY <2>6, <3>1
  <2> QED
    BY <2>3, <2>4, <2>5, <2>7 DEF Rests
<1> QED
  BY <1>1, <1>2

-----------------------------------------------------------------------------
(* The events of a reply, one after the other.                             *)

\* The events of a provider, a sequence of them, one before it, two together.
Ev == [kind : {"text", "start", "args", "stop", "final", "other"}, call : Nat]
Wire(w) == w \in Seq(Ev)
Cons(x, w) == <<x>> \o w
Then(u, w) == u \o w

\* An event has its kind and its call.
LEMMA EventTyped ==
    ASSUME NEW k \in {"text", "start", "args", "stop", "final", "other"}, NEW i \in Nat
    PROVE  C!Event(k, i) \in Ev /\ C!Event(k, i).kind = k /\ C!Event(k, i).call = i
BY DEF C!Event, Ev

\* The head and the tail of an event and what follows it.
LEMMA ConsLaws ==
    ASSUME NEW x \in Ev, NEW w, Wire(w)
    PROVE  /\ Wire(Cons(x, w)) /\ Cons(x, w) # <<>>
           /\ Head(Cons(x, w)) = x /\ Tail(Cons(x, w)) = w
<1>1. <<x>> \in Seq(Ev) /\ Len(<<x>>) = 1 /\ <<x>>[1] = x /\ w \in Seq(Ev)
  BY DEF Wire
<1>2. /\ Cons(x, w) \in Seq(Ev) /\ Len(Cons(x, w)) = 1 + Len(w)
      /\ \A i \in 1..(1 + Len(w)) : Cons(x, w)[i] = IF i <= 1 THEN x ELSE w[i - 1]
  BY <1>1, ConcatProperties DEF Cons
<1>3. Len(w) \in Nat
  BY <1>1, LenProperties
<1>4. Cons(x, w) # <<>> /\ Cons(x, w)[1] = x
  BY <1>2, <1>3
<1>5. Tail(Cons(x, w)) = w
  <2>1. /\ Tail(Cons(x, w)) \in Seq(Ev) /\ Len(Tail(Cons(x, w))) = Len(w)
        /\ \A i \in 1..Len(w) : Tail(Cons(x, w))[i] = Cons(x, w)[i + 1]
    BY <1>2, <1>3, <1>4, HeadTailProperties
  <2>2. \A i \in 1..Len(w) : Cons(x, w)[i + 1] = w[i]
    BY <1>2, <1>3
  <2> QED
    BY <1>1, <2>1, <2>2, SeqEqual
<1> QED
  BY <1>2, <1>4, <1>5 DEF Wire

\* An event stays the first when something is added to what follows it.
LEMMA ConsConcat ==
    ASSUME NEW x \in Ev, NEW u, Wire(u), NEW w, Wire(w)
    PROVE  Then(Cons(x, u), w) = Cons(x, Then(u, w))
<1>1. <<x>> \in Seq(Ev) /\ u \in Seq(Ev) /\ w \in Seq(Ev)
  BY DEF Wire
<1> QED
  BY <1>1, ConcatAssociative DEF Cons, Then

\* Streams are put together from either end, and the empty one adds nothing.
LEMMA WireConcat ==
    /\ Wire(<<>>)
    /\ \A u, w : Wire(u) /\ Wire(w) => Wire(Then(u, w)) /\ Then(<<>>, w) = w /\ Then(w, <<>>) = w
    /\ \A u, v, w : Wire(u) /\ Wire(v) /\ Wire(w) => Then(Then(u, v), w) = Then(u, Then(v, w))
<1>1. Wire(<<>>)
  BY DEF Wire
<1>2. ASSUME NEW u, NEW w, Wire(u), Wire(w)
      PROVE  Wire(Then(u, w)) /\ Then(<<>>, w) = w /\ Then(w, <<>>) = w
  <2>1. u \in Seq(Ev) /\ w \in Seq(Ev)
    BY <1>2 DEF Wire
  <2> QED
    BY <2>1, ConcatProperties, ConcatEmptySeq DEF Wire, Then
<1>3. ASSUME NEW u, NEW v, NEW w, Wire(u), Wire(v), Wire(w)
      PROVE  Then(Then(u, v), w) = Then(u, Then(v, w))
  <2>1. u \in Seq(Ev) /\ v \in Seq(Ev) /\ w \in Seq(Ev)
    BY <1>3 DEF Wire
  <2> QED
    BY <2>1, ConcatAssociative DEF Then
<1> QED
  BY <1>1, <1>2, <1>3

\* One and two events, written out.
LEMMA ConsTuples ==
    ASSUME NEW x \in Ev, NEW y \in Ev
    PROVE  <<x>> = Cons(x, <<>>) /\ <<x, y>> = Cons(x, Cons(y, <<>>))
<1>1. <<x>> \in Seq(Ev) /\ <<y>> \in Seq(Ev)
  OBVIOUS
<1>2. <<x>> \o <<>> = <<x>> /\ <<y>> \o <<>> = <<y>>
  BY <1>1, ConcatEmptySeq
<1>3. <<x>> \o <<y>> = <<x, y>>
  <2> DEFINE u == <<x>>
             v == <<y>>
             w == <<x, y>>
  <2>1. u \in Seq(Ev) /\ v \in Seq(Ev) /\ w \in Seq(Ev)
    OBVIOUS
  <2>2. Len(u) = 1 /\ Len(v) = 1 /\ Len(w) = 2 /\ u[1] = x /\ v[1] = y /\ w[1] = x /\ w[2] = y
    OBVIOUS
  <2> HIDE DEF u, v, w
  <2>3. /\ u \o v \in Seq(Ev) /\ Len(u \o v) = 2
        /\ \A i \in 1..2 : (u \o v)[i] = IF i <= 1 THEN u[i] ELSE v[i - 1]
    BY <2>1, <2>2, ConcatProperties
  <2>4. \A i \in 1..2 : (u \o v)[i] = w[i]
    BY <2>2, <2>3
  <2>5. u \o v = w
    BY <2>1, <2>2, <2>3, <2>4, SeqEqual
  <2> QED
    BY <2>5 DEF u, v, w
<1> QED
  BY <1>2, <1>3 DEF Cons

\* What follows the parts of a call.
Ending(p, i, w) == IF p = "openai-compat" THEN w ELSE Cons(C!Event("stop", i), w)

\* The end of a call is events too.
LEMMA EndingTyped ==
    ASSUME NEW p, NEW i \in Nat, NEW w, Wire(w)
    PROVE  Wire(Ending(p, i, w))
BY EventTyped, ConsLaws DEF Ending

\* The wire events of a call that was not cut are its start, its parts and its end.
LEMMA CallEventsAre ==
    ASSUME NEW p, NEW r, ~r.half, NEW i \in Nat
    PROVE  /\ Wire(C!CallEvents(p, r, i))
           /\ \A w : Wire(w) =>
                Then(C!CallEvents(p, r, i), w) =
                   Cons(C!Event("start", i), Cons(C!Event("args", i),
                        Cons(C!Event("args", i), Ending(p, i, w))))
<1> DEFINE x == C!Event("start", i)
           y == C!Event("args", i)
           z == C!Event("stop", i)
           end == IF p = "openai-compat" THEN <<>> ELSE Cons(z, <<>>)
<1>1. x \in Ev /\ y \in Ev /\ z \in Ev
  BY EventTyped
<1>2. C!CallEvents(p, r, i) = Then(Then(<<x, y>>, <<y>>), end)
  <2>1. C!CallEvents(p, r, i)
           = (<<x, y>> \o <<y>>) \o (IF p = "openai-compat" THEN <<>> ELSE <<z>>)
    BY DEF C!CallEvents
  <2> HIDE DEF x, y, z
  <2>2. <<z>> = Cons(z, <<>>)
    BY <1>1, ConsTuples
  <2> QED
    BY <2>1, <2>2 DEF Then
<1>3. Wire(<<>>) /\ Wire(end)
  <2> HIDE DEF x, y, z
  <2> QED
    BY <1>1, ConsLaws, WireConcat
<1>4. \A w : Wire(w) => Then(end, w) = Ending(p, i, w)
  <2> SUFFICES ASSUME NEW w, Wire(w) PROVE Then(end, w) = Ending(p, i, w)
    OBVIOUS
  <2>1. CASE p = "openai-compat"
    BY <2>1, WireConcat DEF Ending
  <2>2. CASE p # "openai-compat"
    <3>1. end = Cons(z, <<>>) /\ Ending(p, i, w) = Cons(z, w)
      BY <2>2 DEF Ending
    <3> HIDE DEF x, y, z, end
    <3> QED
      BY <1>1, <1>3, <3>1, ConsConcat, WireConcat
  <2> QED
    BY <2>1, <2>2
<1> HIDE DEF x, y, z, end
<1>5. Wire(Cons(y, <<>>)) /\ Wire(Cons(y, Cons(y, <<>>))) /\ Wire(Cons(x, Cons(y, <<>>)))
      /\ Wire(Cons(x, Cons(y, Cons(y, <<>>))))
  BY <1>1, <1>3, ConsLaws
<1>6. Then(<<x, y>>, <<y>>) = Cons(x, Cons(y, Cons(y, <<>>)))
  <2>1. Then(<<x, y>>, <<y>>) = Then(Cons(x, Cons(y, <<>>)), Cons(y, <<>>))
    BY <1>1, ConsTuples
  <2>2. Then(Cons(x, Cons(y, <<>>)), Cons(y, <<>>)) = Cons(x, Then(Cons(y, <<>>), Cons(y, <<>>)))
    BY <1>1, <1>5, ConsConcat
  <2>3. Then(Cons(y, <<>>), Cons(y, <<>>)) = Cons(y, Then(<<>>, Cons(y, <<>>)))
    BY <1>1, <1>3, <1>5, ConsConcat
  <2> QED
    BY <1>5, <2>1, <2>2, <2>3, WireConcat
<1>7. ASSUME NEW w, Wire(w)
      PROVE  Then(Then(<<x, y>>, <<y>>), w) = Cons(x, Cons(y, Cons(y, w)))
  <2>1. Then(Cons(x, Cons(y, Cons(y, <<>>))), w) = Cons(x, Then(Cons(y, Cons(y, <<>>)), w))
    BY <1>1, <1>5, <1>7, ConsConcat
  <2>2. Then(Cons(y, Cons(y, <<>>)), w) = Cons(y, Then(Cons(y, <<>>), w))
    BY <1>1, <1>5, <1>7, ConsConcat
  <2>3. Then(Cons(y, <<>>), w) = Cons(y, Then(<<>>, w))
    BY <1>1, <1>3, <1>7, ConsConcat
  <2> QED
    BY <1>6, <1>7, <2>1, <2>2, <2>3, WireConcat
<1>8. Wire(C!CallEvents(p, r, i))
  BY <1>2, <1>3, <1>5, <1>6, WireConcat
<1>9. ASSUME NEW w, Wire(w)
      PROVE  Then(C!CallEvents(p, r, i), w) = Cons(x, Cons(y, Cons(y, Ending(p, i, w))))
  <2>1. Then(Then(Then(<<x, y>>, <<y>>), end), w) = Then(Then(<<x, y>>, <<y>>), Then(end, w))
    BY <1>3, <1>5, <1>6, <1>9, WireConcat
  <2>2. Wire(Then(end, w))
    BY <1>3, <1>9, WireConcat
  <2>3. Then(Then(<<x, y>>, <<y>>), Then(end, w)) = Cons(x, Cons(y, Cons(y, Then(end, w))))
    BY <1>7, <2>2
  <2> QED
    BY <1>2, <1>4, <1>9, <2>1, <2>3
<1> QED
  BY <1>8, <1>9 DEF x, y, z

-----------------------------------------------------------------------------
(* What the events of a call make of its slot.                             *)

\* The calls as they were written, the ones that were passed on when n are over, and
\* the calls in progress when the n-th has k of its parts.
Call == [id : Nat, args : {"whole"}]
Slot == [id : Nat, parts : Nat]
Whole(n) == [i \in 1..n |-> [id |-> i, args |-> "whole"]]
Passed(p, n) == IF p = "openai-compat" THEN <<>> ELSE Whole(n)
Filled(p, n, k) ==
    IF p = "openai-compat"
    THEN [i \in 1..n |-> [id |-> i, parts |-> IF i = n THEN k ELSE 2]]
    ELSE IF n = 0 THEN <<>> ELSE <<[id |-> n, parts |-> k]>>

\* The calls as they were written are calls, as many as there are.
LEMMA WholeTyped ==
    ASSUME NEW n \in Nat, NEW p
    PROVE  /\ Whole(n) \in Seq(Call) /\ Len(Whole(n)) = n /\ Passed(p, n) \in Seq(Call)
           /\ Whole(0) = <<>> /\ Passed(p, 0) = <<>>
<1>1. Whole(n) \in [1..n -> Call]
  BY DEF Whole, Call
<1>2. Whole(n) \in Seq(Call) /\ Len(Whole(n)) = n
  BY <1>1
<1>3. Whole(0) = <<>>
  BY DEF Whole
<1> QED
  BY <1>2, <1>3 DEF Passed

\* Passing on nothing leaves the calls that were passed on.
LEMMA PassedNothing ==
    ASSUME NEW n \in Nat, NEW p
    PROVE  Passed(p, n) \o <<>> = Passed(p, n)
BY WholeTyped, ConcatEmptySeq

\* The calls as they were written, with the next one.
LEMMA WholeNext ==
    ASSUME NEW n \in Nat \ {0}
    PROVE  Whole(n - 1) \o <<[id |-> n, args |-> "whole"]>> = Whole(n)
<1> DEFINE x == [id |-> n, args |-> "whole"]
           u == Whole(n - 1)
           v == Whole(n)
<1>1. x \in Call /\ <<x>> \in Seq(Call) /\ Len(<<x>>) = 1 /\ <<x>>[1] = x
  BY DEF Call
<1>2. n - 1 \in Nat
  OBVIOUS
<1>3. u \in Seq(Call) /\ Len(u) = n - 1 /\ v \in Seq(Call) /\ Len(v) = n
  BY <1>2, WholeTyped
<1>4. /\ \A i \in 1..(n - 1) : u[i] = [id |-> i, args |-> "whole"]
      /\ \A i \in 1..n : v[i] = [id |-> i, args |-> "whole"]
  BY DEF Whole
<1> HIDE DEF u, v
<1>5. /\ u \o <<x>> \in Seq(Call) /\ Len(u \o <<x>>) = n
      /\ \A i \in 1..n : (u \o <<x>>)[i] = IF i <= n - 1 THEN u[i] ELSE <<x>>[i - (n - 1)]
  <2> HIDE DEF x
  <2> QED
    BY <1>1, <1>3, ConcatProperties
<1>6. ASSUME NEW i \in 1..n PROVE (u \o <<x>>)[i] = v[i]
  <2>0. i = n \/ i \in 1..(n - 1)
    OBVIOUS
  <2>1. CASE i \in 1..(n - 1)
    <3>1. (u \o <<x>>)[i] = u[i]
      BY <1>5, <2>1
    <3> HIDE DEF x
    <3>2. u[i] = v[i]
      BY <1>4, <2>1
    <3> QED
      BY <3>1, <3>2
  <2>2. CASE i = n
    <3>1. (u \o <<x>>)[i] = <<x>>[1]
      BY <1>5, <2>2
    <3> QED
      BY <1>1, <1>4, <2>2, <3>1
  <2> QED
    BY <2>0, <2>1, <2>2
<1>7. u \o <<x>> = v
  BY <1>3, <1>5, <1>6, SeqEqual
<1> QED
  BY <1>7 DEF u, v

\* The start of a call opens its slot (Accumulated), and completes nothing.
LEMMA StartStep ==
    ASSUME NEW p, NEW i \in Nat \ {0}, slots = Filled(p, i - 1, 2)
    PROVE  /\ C!Accumulated(p, C!Event("start", i)) = Filled(p, i, 0)
           /\ C!Completes(p, C!Event("start", i)) = <<>>
<1> DEFINE e == C!Event("start", i)
           new == [id |-> i, parts |-> 0]
<1>1. e.kind = "start" /\ e.call = i
  BY DEF C!Event
<1>2. C!Completes(p, e) = <<>>
  BY <1>1 DEF C!Completes
<1>3. C!Accumulated(p, e) = IF C!SlotOf(p, i) <= Len(slots) THEN [slots EXCEPT ![C!SlotOf(p, i)] = new]
                            ELSE Append(slots, new)
  BY <1>1 DEF C!Accumulated
<1>4. CASE p = "openai-compat"
  <2> DEFINE Full(j) == [id |-> j, parts |-> 2]
  <2>1. slots \in [1..(i - 1) -> Slot] /\ \A j \in 1..(i - 1) : slots[j] = Full(j)
    <3>1. slots = [j \in 1..(i - 1) |-> [id |-> j, parts |-> IF j = i - 1 THEN 2 ELSE 2]]
      BY <1>4 DEF Filled
    <3> QED
      BY <3>1 DEF Slot
  <2>2. slots \in Seq(Slot) /\ Len(slots) = i - 1 /\ new \in Slot
    <3>1. new \in Slot
      BY DEF Slot
    <3>2. i - 1 \in Nat
      OBVIOUS
    <3>3. slots \in Seq(Slot) /\ Len(slots) = i - 1
      BY <2>1, <3>2
    <3> QED
      BY <3>1, <3>3
  <2>3. ~(i <= Len(slots)) /\ C!SlotOf(p, i) = i
    BY <1>4, <2>2 DEF C!SlotOf
  <2>4. C!Accumulated(p, e) = Append(slots, new)
    BY <1>3, <2>3
  <2>5. /\ Append(slots, new) \in Seq(Slot) /\ Len(Append(slots, new)) = i
        /\ \A j \in 1..(i - 1) : Append(slots, new)[j] = slots[j]
        /\ Append(slots, new)[i] = new
    BY <2>2, AppendProperties
  <2> DEFINE full == [j \in 1..i |-> [id |-> j, parts |-> IF j = i THEN 0 ELSE 2]]
  <2>6. full \in [1..i -> Slot]
    BY DEF Slot
  <2>7. full \in Seq(Slot) /\ Len(full) = i
    BY <2>6
  <2>8. ASSUME NEW j \in 1..i PROVE Append(slots, new)[j] = full[j]
    <3>1. CASE j = i
      BY <2>5, <3>1
    <3>2. CASE j # i
      <4>1. j \in 1..(i - 1)
        BY <3>2
      <4> QED
        BY <2>1, <2>5, <3>2, <4>1
    <3> QED
      BY <3>1, <3>2
  <2> HIDE DEF full, new
  <2>9. Append(slots, new) = full
    BY <2>5, <2>7, <2>8, SeqEqual
  <2> QED
    BY <1>2, <1>4, <2>4, <2>9 DEF full, Filled
<1>5. CASE p # "openai-compat"
  <2>1. C!SlotOf(p, i) = 1 /\ Filled(p, i, 0) = <<new>>
    BY <1>5 DEF C!SlotOf, Filled
  <2>2. CASE i = 1
    <3>1. slots = <<>> /\ Len(slots) = 0
      BY <1>5, <2>2 DEF Filled
    <3>2. C!Accumulated(p, e) = Append(slots, new)
      BY <1>3, <2>1, <3>1
    <3> QED
      BY <1>2, <2>1, <3>1, <3>2
  <2>3. CASE i # 1
    <3>1. slots = <<[id |-> i - 1, parts |-> 2]>>
      BY <1>5, <2>3 DEF Filled
    <3>2. Len(slots) = 1
      BY <3>1
    <3>3. C!Accumulated(p, e) = [slots EXCEPT ![1] = new]
      BY <1>3, <2>1, <3>2
    <3> QED
      BY <1>2, <2>1, <3>1, <3>3
  <2> QED
    BY <2>2, <2>3
<1> QED
  BY <1>4, <1>5

\* A part of a call is added to its own slot, and completes nothing.
LEMMA ArgsStep ==
    ASSUME NEW p, NEW i \in Nat \ {0}, NEW k \in Nat, slots = Filled(p, i, k)
    PROVE  /\ C!Accumulated(p, C!Event("args", i)) = Filled(p, i, k + 1)
           /\ C!Completes(p, C!Event("args", i)) = <<>>
<1> DEFINE e == C!Event("args", i)
<1>1. e.kind = "args" /\ e.call = i
  BY DEF C!Event
<1>2. C!Completes(p, e) = <<>>
  BY <1>1 DEF C!Completes
<1>3. C!Accumulated(p, e) = [slots EXCEPT ![C!SlotOf(p, i)].parts = @ + 1]
  BY <1>1 DEF C!Accumulated
<1>4. CASE p = "openai-compat"
  <2>1. C!SlotOf(p, i) = i
    BY <1>4 DEF C!SlotOf
  <2>2. slots = [j \in 1..i |-> [id |-> j, parts |-> IF j = i THEN k ELSE 2]]
    BY <1>4 DEF Filled
  <2>3. [slots EXCEPT ![i].parts = @ + 1]
           = [j \in 1..i |-> [id |-> j, parts |-> IF j = i THEN k + 1 ELSE 2]]
    <3>1. /\ slots[i] = [id |-> i, parts |-> k]
          /\ \A j \in 1..i : j # i => slots[j] = [id |-> j, parts |-> 2]
      BY <2>2
    <3>2. [slots[i] EXCEPT !.parts = @ + 1] = [id |-> i, parts |-> k + 1]
      BY <3>1
    <3>3. [slots EXCEPT ![i].parts = @ + 1]
             = [j \in 1..i |-> IF j = i THEN [slots[i] EXCEPT !.parts = @ + 1] ELSE slots[j]]
      BY <2>2
    <3> QED
      BY <3>1, <3>2, <3>3
  <2> QED
    BY <1>2, <1>3, <1>4, <2>1, <2>3 DEF Filled
<1>5. CASE p # "openai-compat"
  <2>1. C!SlotOf(p, i) = 1
    BY <1>5 DEF C!SlotOf
  <2>2. slots = <<[id |-> i, parts |-> k]>>
    BY <1>5 DEF Filled
  <2>3. [slots EXCEPT ![1].parts = @ + 1] = <<[id |-> i, parts |-> k + 1]>>
    BY <2>2
  <2> QED
    BY <1>2, <1>3, <1>5, <2>1, <2>3 DEF Filled
<1> QED
  BY <1>4, <1>5

\* The end of a block completes the current call, with both its parts.
LEMMA StopStep ==
    ASSUME NEW p, p # "openai-compat", NEW i \in Nat \ {0}, slots = Filled(p, i, 2)
    PROVE  /\ C!Accumulated(p, C!Event("stop", i)) = slots
           /\ C!Completes(p, C!Event("stop", i)) = <<[id |-> i, args |-> "whole"]>>
<1> DEFINE e == C!Event("stop", i)
<1>1. e.kind = "stop" /\ e.call = i
  BY DEF C!Event
<1>2. C!Accumulated(p, e) = slots
  BY <1>1 DEF C!Accumulated
<1>3. slots = <<[id |-> i, parts |-> 2]>> /\ C!SlotOf(p, i) = 1
  BY DEF Filled, C!SlotOf
<1>4. C!Completes(p, e) = <<C!Parsed(slots[1])>>
  BY <1>1, <1>3 DEF C!Completes
<1>5. slots[1] = [id |-> i, parts |-> 2]
  BY <1>3
<1>6. C!Parsed(slots[1]) = [id |-> i, args |-> "whole"]
  BY <1>5 DEF C!Parsed
<1> QED
  BY <1>2, <1>4, <1>6

\* The last event passes on what a Chat Completions client has kept.
LEMMA FinalStep ==
    ASSUME NEW p, NEW n \in Nat, slots = Filled(p, n, 2),
           reply.end \in {"end", "tools"}, reply.end = "end" => n = 0
    PROVE  Passed(p, n) \o C!Completes(p, C!Event("final", 0)) = Whole(n)
<1> DEFINE e == C!Event("final", 0)
<1>1. e.kind = "final" /\ e.call = 0
  BY DEF C!Event
<1>2. CASE p = "openai-compat" /\ reply.end = "tools"
  <2>1. C!Completes(p, e) = [i \in 1..Len(slots) |-> C!Parsed(slots[i])]
    BY <1>1, <1>2 DEF C!Completes
  <2>2. slots = [i \in 1..n |-> [id |-> i, parts |-> IF i = n THEN 2 ELSE 2]]
    BY <1>2 DEF Filled
  <2>3. Len(slots) = n /\ \A i \in 1..n : slots[i] = [id |-> i, parts |-> 2]
    <3>1. \A i \in 1..n : slots[i] = [id |-> i, parts |-> 2]
      BY <2>2
    <3>2. slots \in [1..n -> Slot]
      BY <2>2 DEF Slot
    <3>3. Len(slots) = n
      BY <3>2
    <3> QED
      BY <3>1, <3>3
  <2>4. \A i \in 1..n : C!Parsed(slots[i]) = [id |-> i, args |-> "whole"]
    <3> TAKE i \in 1..n
    <3>1. slots[i] = [id |-> i, parts |-> 2]
      BY <2>3
    <3> QED
      BY <3>1 DEF C!Parsed
  <2>5. C!Completes(p, e) = Whole(n)
    BY <2>1, <2>3, <2>4 DEF Whole
  <2>6. <<>> \o Whole(n) = Whole(n)
    BY WholeTyped, ConcatEmptySeq
  <2> QED
    BY <1>2, <2>5, <2>6 DEF Passed
<1>3. CASE ~(p = "openai-compat" /\ reply.end = "tools")
  <2>1. C!Completes(p, e) = <<>>
    BY <1>1, <1>3 DEF C!Completes
  <2>2. Passed(p, n) = Whole(n)
    <3>1. CASE p = "openai-compat"
      BY <1>3, <3>1, WholeTyped DEF Passed
    <3>2. CASE p # "openai-compat"
      BY <3>2 DEF Passed
    <3> QED
      BY <3>1, <3>2
  <2> QED
    BY <2>1, <2>2, PassedNothing
<1> QED
  BY <1>2, <1>3

-----------------------------------------------------------------------------
(* Where the collector is in a reply that reaches its end.                 *)

\* The end of the stream of such a reply.
Last == Cons(C!Event("final", 0), <<>>)

\* What is left of the wire of a reply, from each of its calls on.
Left(p, r, rest) ==
    /\ \A j \in 1..(r.calls + 1) : Wire(rest[j])
    /\ rest[r.calls + 1] = Last
    /\ \A j \in 1..r.calls :
          rest[j] = Cons(C!Event("start", j), Cons(C!Event("args", j),
                         Cons(C!Event("args", j), Ending(p, j, rest[j + 1]))))

\* The calls are read one by one: before one, between its parts, before its end.
AtCall(p, r, rest, i, w, sl, cs) ==
    w = rest[i] /\ sl = Filled(p, i - 1, 2) /\ cs = Passed(p, i - 1)

InCall(p, r, rest, i, w, sl, cs) ==
    /\ cs = Passed(p, i - 1)
    /\ \/ /\ w = Cons(C!Event("args", i), Cons(C!Event("args", i), Ending(p, i, rest[i + 1])))
          /\ sl = Filled(p, i, 0)
       \/ w = Cons(C!Event("args", i), Ending(p, i, rest[i + 1])) /\ sl = Filled(p, i, 1)
       \/ /\ p # "openai-compat"
          /\ w = Ending(p, i, rest[i + 1]) /\ sl = Filled(p, i, 2)

Read(p, r, w, sl, cs) ==
    \E rest : /\ Left(p, r, rest)
              /\ \E i \in 1..r.calls : AtCall(p, r, rest, i, w, sl, cs)
                                       \/ InCall(p, r, rest, i, w, sl, cs)

\* Two calls whose parts are mixed, from each event on.
Mixed5 == Cons(C!Event("args", 1), Last)
Mixed4 == Cons(C!Event("args", 2), Mixed5)
Mixed3 == Cons(C!Event("args", 1), Mixed4)
Mixed2 == Cons(C!Event("args", 2), Mixed3)
Mixed1 == Cons(C!Event("start", 2), Mixed2)
Mixed0 == Cons(C!Event("start", 1), Mixed1)
Two(k, l) == <<[id |-> 1, parts |-> k], [id |-> 2, parts |-> l]>>

Mixes(p, r, w, sl, cs) ==
    /\ p = "openai-compat" /\ r.calls = 2 /\ cs = <<>>
    /\ \/ w = Mixed0 /\ sl = <<>>
       \/ w = Mixed1 /\ sl = <<[id |-> 1, parts |-> 0]>>
       \/ w = Mixed2 /\ sl = Two(0, 0)
       \/ w = Mixed3 /\ sl = Two(0, 1)
       \/ w = Mixed4 /\ sl = Two(1, 1)
       \/ w = Mixed5 /\ sl = Two(1, 2)

Closes(p, r, w, sl, cs) ==
    w = Last /\ sl = Filled(p, r.calls, 2) /\ cs = Passed(p, r.calls)

OnTheWay(p, r, w, sl, cs) ==
    \/ Read(p, r, w, sl, cs)
    \/ Mixes(p, r, w, sl, cs)
    \/ Closes(p, r, w, sl, cs)
    \/ w = <<>> /\ cs = Whole(r.calls)

\* The replies that reached their end.
Finished(r) ==
    /\ r.text \in BOOLEAN /\ r.calls \in Nat /\ ~r.half
    /\ r.end \in {"end", "tools"} /\ (r.end = "end" => r.calls = 0)

\* What an event makes of the slots and the calls.
Takes(p, w, cs) ==
    /\ Head(w).kind # "text" /\ Head(w).kind # "other"
    /\ OnTheWay(p, reply, Tail(w), C!Accumulated(p, Head(w)), cs \o C!Completes(p, Head(w)))

\* The last event, with nothing after it.
LEMMA LastLaws ==
    Wire(Last) /\ Last # <<>> /\ Head(Last) = C!Event("final", 0) /\ Tail(Last) = <<>>
BY EventTyped, ConsLaws, WireConcat DEF Last

\* The last event leaves the calls as they were written.
LEMMA LastTakes ==
    ASSUME NEW p, NEW cs, Finished(reply), Closes(p, reply, Last, slots, cs)
    PROVE  Takes(p, Last, cs)
<1> DEFINE e == C!Event("final", 0)
<1>1. e.kind = "final"
  BY DEF C!Event
<1>2. cs \o C!Completes(p, e) = Whole(reply.calls)
  <2>1. reply.calls \in Nat
    BY DEF Finished
  <2>2. cs = Passed(p, reply.calls) /\ slots = Filled(p, reply.calls, 2)
    BY DEF Closes
  <2>3. reply.end \in {"end", "tools"} /\ (reply.end = "end" => reply.calls = 0)
    BY DEF Finished
  <2> HIDE DEF e
  <2> QED
    BY <2>1, <2>2, <2>3, FinalStep DEF e
<1> HIDE DEF e
<1>3. Head(Last) = e /\ Tail(Last) = <<>>
  BY LastLaws DEF e
<1> QED
  BY <1>1, <1>2, <1>3 DEF Takes, OnTheWay

\* The parts of two mixed calls find their own slots.
LEMMA MixedTakes ==
    ASSUME NEW p, NEW w, NEW cs, reply.calls = 2, Mixes(p, reply, w, slots, cs)
    PROVE  Takes(p, w, cs)
<1>1. /\ C!Event("start", 1) \in Ev /\ C!Event("start", 2) \in Ev
      /\ C!Event("args", 1) \in Ev /\ C!Event("args", 2) \in Ev
  BY EventTyped
<1>2. Wire(Mixed5) /\ Head(Mixed5) = C!Event("args", 1) /\ Tail(Mixed5) = Last
  BY <1>1, ConsLaws, LastLaws DEF Mixed5
<1>3. Wire(Mixed4) /\ Head(Mixed4) = C!Event("args", 2) /\ Tail(Mixed4) = Mixed5
  BY <1>1, <1>2, ConsLaws DEF Mixed4
<1>4. Wire(Mixed3) /\ Head(Mixed3) = C!Event("args", 1) /\ Tail(Mixed3) = Mixed4
  BY <1>1, <1>3, ConsLaws DEF Mixed3
<1>5. Wire(Mixed2) /\ Head(Mixed2) = C!Event("args", 2) /\ Tail(Mixed2) = Mixed3
  BY <1>1, <1>4, ConsLaws DEF Mixed2
<1>6. Wire(Mixed1) /\ Head(Mixed1) = C!Event("start", 2) /\ Tail(Mixed1) = Mixed2
  BY <1>1, <1>5, ConsLaws DEF Mixed1
<1>7. Wire(Mixed0) /\ Head(Mixed0) = C!Event("start", 1) /\ Tail(Mixed0) = Mixed1
  BY <1>1, <1>6, ConsLaws DEF Mixed0
<1>8. p = "openai-compat" /\ cs = <<>> /\ \A i : C!SlotOf(p, i) = i
  BY DEF Mixes, C!SlotOf
<1>9. \A k, i : /\ C!Event(k, i).kind = k /\ C!Event(k, i).call = i
                /\ k \in {"start", "args"} => C!Completes(p, C!Event(k, i)) = <<>>
  BY DEF C!Event, C!Completes
<1>10. cs \o <<>> = <<>>
  BY <1>8
<1>11. CASE w = Mixed0 /\ slots = <<>>
  <2>1. C!Accumulated(p, C!Event("start", 1)) = <<[id |-> 1, parts |-> 0]>>
    BY <1>8, <1>9, <1>11 DEF C!Accumulated
  <2> QED
    BY <1>7, <1>8, <1>9, <1>10, <1>11, <2>1 DEF Takes, OnTheWay, Mixes
<1>12. CASE w = Mixed1 /\ slots = <<[id |-> 1, parts |-> 0]>>
  <2>1. C!Accumulated(p, C!Event("start", 2)) = Two(0, 0)
    <3> DEFINE e == C!Event("start", 2)
    <3>1. e.kind = "start" /\ e.call = 2 /\ C!SlotOf(p, 2) = 2
      BY <1>8, <1>9
    <3>2. C!Accumulated(p, e) = IF 2 <= Len(slots) THEN [slots EXCEPT ![2] = [id |-> 2, parts |-> 0]]
                                ELSE Append(slots, [id |-> 2, parts |-> 0])
      <4> HIDE DEF e
      <4> QED
        BY <3>1 DEF C!Accumulated
    <3>3. Len(slots) = 1
      BY <1>12
    <3>4. C!Accumulated(p, e) = Append(slots, [id |-> 2, parts |-> 0])
      BY <3>2, <3>3
    <3> QED
      BY <1>12, <3>4 DEF Two
  <2> QED
    BY <1>6, <1>8, <1>9, <1>10, <1>12, <2>1 DEF Takes, OnTheWay, Mixes
<1>13. ASSUME NEW k \in Nat, NEW l \in Nat, slots = Two(k, l)
       PROVE  /\ C!Accumulated(p, C!Event("args", 1)) = Two(k + 1, l)
              /\ C!Accumulated(p, C!Event("args", 2)) = Two(k, l + 1)
  <2>1. /\ C!Accumulated(p, C!Event("args", 1)) = [slots EXCEPT ![1].parts = @ + 1]
        /\ C!Accumulated(p, C!Event("args", 2)) = [slots EXCEPT ![2].parts = @ + 1]
    <3> SUFFICES ASSUME NEW i
                 PROVE  C!Accumulated(p, C!Event("args", i)) = [slots EXCEPT ![i].parts = @ + 1]
      OBVIOUS
    <3> DEFINE e == C!Event("args", i)
    <3>1. e.kind = "args" /\ e.call = i /\ C!SlotOf(p, i) = i
      BY <1>8, <1>9
    <3> HIDE DEF e
    <3>2. C!Accumulated(p, e) = [slots EXCEPT ![i].parts = @ + 1]
      BY <3>1 DEF C!Accumulated
    <3> QED
      BY <3>2 DEF e
  <2> QED
    BY <1>13, <2>1 DEF Two
<1>14. CASE w = Mixed2 /\ slots = Two(0, 0)
  BY <1>5, <1>8, <1>9, <1>10, <1>13, <1>14 DEF Takes, OnTheWay, Mixes
<1>15. CASE w = Mixed3 /\ slots = Two(0, 1)
  BY <1>4, <1>8, <1>9, <1>10, <1>13, <1>15 DEF Takes, OnTheWay, Mixes
<1>16. CASE w = Mixed4 /\ slots = Two(1, 1)
  BY <1>3, <1>8, <1>9, <1>10, <1>13, <1>16 DEF Takes, OnTheWay, Mixes
<1>17. CASE w = Mixed5 /\ slots = Two(1, 2)
  <2>1. C!Accumulated(p, C!Event("args", 1)) = Two(2, 2)
    BY <1>13, <1>17
  <2>2. Two(2, 2) = Filled(p, 2, 2) /\ Passed(p, 2) = <<>>
    BY <1>8 DEF Two, Filled, Passed
  <2> QED
    BY <1>2, <1>8, <1>9, <1>10, <1>17, <2>1, <2>2 DEF Takes, OnTheWay, Closes
<1> QED
  BY <1>11, <1>12, <1>14, <1>15, <1>16, <1>17 DEF Mixes

\* The events of a call that is read fill and close its slot, and the next call comes.
LEMMA ReadTakes ==
    ASSUME NEW p, NEW w, NEW cs, Finished(reply), Read(p, reply, w, slots, cs)
    PROVE  Takes(p, w, cs)
<1> DEFINE n == reply.calls
<1>1. n \in Nat
  BY DEF Finished
<1>2. PICK rest : /\ Left(p, reply, rest)
                  /\ \E i \in 1..n : AtCall(p, reply, rest, i, w, slots, cs)
                                     \/ InCall(p, reply, rest, i, w, slots, cs)
  BY DEF Read
<1>3. PICK i \in 1..n : AtCall(p, reply, rest, i, w, slots, cs)
                        \/ InCall(p, reply, rest, i, w, slots, cs)
  BY <1>2
<1>4. i \in Nat \ {0} /\ i - 1 \in Nat /\ i \in Nat /\ i + 1 \in 1..(n + 1) /\ i + 1 - 1 = i
  BY <1>1, <1>3
<1> DEFINE x == C!Event("start", i)
           y == C!Event("args", i)
           z == C!Event("stop", i)
           over == rest[i + 1]
           tail == Ending(p, i, over)
<1>5. x \in Ev /\ y \in Ev /\ z \in Ev /\ x.kind = "start" /\ y.kind = "args" /\ z.kind = "stop"
  BY <1>4, EventTyped
<1>6. Wire(over) /\ rest[i] = Cons(x, Cons(y, Cons(y, tail)))
  BY <1>2, <1>4 DEF Left
<1>7. Wire(tail)
  BY <1>4, <1>6, EndingTyped
<1> HIDE DEF x, y, z, over, tail, n
<1>8. /\ Wire(Cons(y, tail)) /\ Head(Cons(y, tail)) = y /\ Tail(Cons(y, tail)) = tail
      /\ Head(Cons(y, Cons(y, tail))) = y /\ Tail(Cons(y, Cons(y, tail))) = Cons(y, tail)
      /\ Head(rest[i]) = x /\ Tail(rest[i]) = Cons(y, Cons(y, tail))
  BY <1>5, <1>6, <1>7, ConsLaws
<1>9. Passed(p, i - 1) \o <<>> = Passed(p, i - 1)
  BY <1>4, PassedNothing
\* What comes after a call is another call, or the last event.
<1>10. ASSUME NEW sl, sl = Filled(p, i, 2)
       PROVE  OnTheWay(p, reply, over, sl, Passed(p, i))
  <2>1. CASE i = n
    <3>1. over = Last
      BY <1>2, <2>1 DEF Left, over, n
    <3> QED
      BY <1>10, <2>1, <3>1 DEF OnTheWay, Closes, n
  <2>2. CASE i # n
    <3>1. i + 1 \in 1..n
      BY <1>1, <1>3, <2>2
    <3>2. AtCall(p, reply, rest, i + 1, over, sl, Passed(p, i))
      BY <1>4, <1>10 DEF AtCall, over
    <3> QED
      BY <1>2, <3>1, <3>2 DEF OnTheWay, Read, n
  <2> QED
    BY <2>1, <2>2
<1>11. ASSUME NEW v, NEW sl, InCall(p, reply, rest, i, v, sl, Passed(p, i - 1))
       PROVE  OnTheWay(p, reply, v, sl, Passed(p, i - 1))
  BY <1>2, <1>3, <1>11 DEF OnTheWay, Read, n
<1>12. CASE AtCall(p, reply, rest, i, w, slots, cs)
  <2>1. w = rest[i] /\ slots = Filled(p, i - 1, 2) /\ cs = Passed(p, i - 1)
    BY <1>12 DEF AtCall
  <2>2. C!Accumulated(p, x) = Filled(p, i, 0) /\ C!Completes(p, x) = <<>>
    BY <1>4, <2>1, StartStep DEF x
  <2>3. InCall(p, reply, rest, i, Cons(y, Cons(y, tail)), Filled(p, i, 0), Passed(p, i - 1))
    BY DEF InCall, tail, over, y
  <2> QED
    BY <1>5, <1>8, <1>9, <1>11, <2>1, <2>2, <2>3 DEF Takes
<1>13. CASE cs = Passed(p, i - 1) /\ w = Cons(y, Cons(y, tail)) /\ slots = Filled(p, i, 0)
  <2>1. C!Accumulated(p, y) = Filled(p, i, 1) /\ C!Completes(p, y) = <<>>
    <3>1. 0 \in Nat /\ 0 + 1 = 1
      OBVIOUS
    <3> QED
      BY <1>4, <1>13, <3>1, ArgsStep DEF y
  <2>2. InCall(p, reply, rest, i, Cons(y, tail), Filled(p, i, 1), Passed(p, i - 1))
    BY DEF InCall, tail, over, y
  <2> QED
    BY <1>5, <1>8, <1>9, <1>11, <1>13, <2>1, <2>2 DEF Takes
<1>14. CASE cs = Passed(p, i - 1) /\ w = Cons(y, tail) /\ slots = Filled(p, i, 1)
  <2>1. C!Accumulated(p, y) = Filled(p, i, 2) /\ C!Completes(p, y) = <<>>
    <3>1. 1 \in Nat /\ 1 + 1 = 2
      OBVIOUS
    <3> QED
      BY <1>4, <1>14, <3>1, ArgsStep DEF y
  <2>2. OnTheWay(p, reply, tail, Filled(p, i, 2), Passed(p, i - 1))
    <3>1. CASE p = "openai-compat"
      <4>1. tail = over /\ Passed(p, i - 1) = Passed(p, i)
        BY <3>1 DEF tail, Ending, Passed
      <4> QED
        BY <1>10, <4>1
    <3>2. CASE p # "openai-compat"
      <4>1. InCall(p, reply, rest, i, tail, Filled(p, i, 2), Passed(p, i - 1))
        BY <3>2 DEF InCall, tail, over
      <4> QED
        BY <1>11, <4>1
    <3> QED
      BY <3>1, <3>2
  <2> QED
    BY <1>5, <1>8, <1>9, <1>14, <2>1, <2>2 DEF Takes
<1>15. CASE p # "openai-compat" /\ cs = Passed(p, i - 1) /\ w = tail /\ slots = Filled(p, i, 2)
  <2>1. /\ C!Accumulated(p, z) = slots
        /\ C!Completes(p, z) = <<[id |-> i, args |-> "whole"]>>
    BY <1>4, <1>15, StopStep DEF z
  <2>2. cs \o C!Completes(p, z) = Passed(p, i)
    BY <1>4, <1>15, <2>1, WholeNext DEF Passed
  <2>3. Head(tail) = z /\ Tail(tail) = over
    <3>1. tail = Cons(z, over)
      BY <1>15 DEF tail, Ending, z
    <3> QED
      BY <1>5, <1>6, <3>1, ConsLaws
  <2> QED
    BY <1>5, <1>10, <1>15, <2>1, <2>2, <2>3 DEF Takes
<1> QED
  BY <1>3, <1>12, <1>13, <1>14, <1>15 DEF InCall, y, tail, over

\* Every event of a finished reply keeps the collector on the way.
LEMMA WayTakes ==
    ASSUME NEW p, NEW w, NEW cs, Finished(reply), OnTheWay(p, reply, w, slots, cs), w # <<>>
    PROVE  Takes(p, w, cs)
<1>1. CASE Read(p, reply, w, slots, cs)
  BY <1>1, ReadTakes
<1>2. CASE Mixes(p, reply, w, slots, cs)
  <2>1. reply.calls = 2
    BY <1>2 DEF Mixes
  <2> QED
    BY <1>2, <2>1, MixedTakes
<1>3. CASE Closes(p, reply, w, slots, cs)
  <2>1. w = Last
    BY <1>3 DEF Closes
  <2> QED
    BY <1>3, <2>1, LastTakes
<1> QED
  BY <1>1, <1>2, <1>3 DEF OnTheWay

\* The text comes first.
Says(p, r, w, sl, cs, t, a) ==
    \/ /\ r.text /\ t = <<>> /\ cs = <<>>
       /\ \E u : /\ Wire(u) /\ w = Cons(C!Event("text", 0), u)
                 /\ OnTheWay(p, r, u, sl, cs)
    \/ t = (IF r.text THEN <<a>> ELSE <<>>) /\ OnTheWay(p, r, w, sl, cs)

\* A stream that is empty has passed on the calls.
LEMMA WayEnds ==
    ASSUME NEW p, NEW r, Finished(r), NEW sl, NEW cs, OnTheWay(p, r, <<>>, sl, cs)
    PROVE  cs = Whole(r.calls)
<1>1. r.calls \in Nat
  BY DEF Finished
<1>2. ASSUME Read(p, r, <<>>, sl, cs)
      PROVE  FALSE
  <2>1. PICK rest : /\ Left(p, r, rest)
                    /\ \E i \in 1..r.calls : AtCall(p, r, rest, i, <<>>, sl, cs)
                                             \/ InCall(p, r, rest, i, <<>>, sl, cs)
    BY <1>2 DEF Read
  <2>2. PICK i \in 1..r.calls : AtCall(p, r, rest, i, <<>>, sl, cs)
                                \/ InCall(p, r, rest, i, <<>>, sl, cs)
    BY <2>1
  <2>3. i \in Nat /\ i + 1 \in 1..(r.calls + 1)
    BY <1>1, <2>2
  <2> DEFINE x == C!Event("start", i)
             y == C!Event("args", i)
             z == C!Event("stop", i)
             over == rest[i + 1]
             tail == Ending(p, i, over)
  <2>4. x \in Ev /\ y \in Ev /\ z \in Ev
    BY <2>3, EventTyped
  <2>5. Wire(over) /\ rest[i] = Cons(x, Cons(y, Cons(y, tail)))
    BY <2>1, <2>2, <2>3 DEF Left
  <2>6. Wire(tail) /\ (p # "openai-compat" => tail = Cons(z, over))
    BY <2>3, <2>5, EndingTyped DEF Ending
  <2>7. AtCall(p, r, rest, i, <<>>, sl, cs) => rest[i] = <<>>
    BY DEF AtCall
  <2>8. InCall(p, r, rest, i, <<>>, sl, cs) =>
           \/ <<>> = Cons(y, Cons(y, tail))
           \/ <<>> = Cons(y, tail)
           \/ p # "openai-compat" /\ <<>> = tail
    BY DEF InCall
  <2> HIDE DEF x, y, z, over, tail
  <2>9. Wire(Cons(y, tail)) /\ Wire(Cons(y, Cons(y, tail)))
    BY <2>4, <2>6, ConsLaws
  <2>10. /\ Cons(y, tail) # <<>> /\ Cons(y, Cons(y, tail)) # <<>> /\ rest[i] # <<>>
         /\ Cons(z, over) # <<>>
    BY <2>4, <2>5, <2>6, <2>9, ConsLaws
  <2> QED
    BY <2>2, <2>6, <2>7, <2>8, <2>10
<1>3. ASSUME Mixes(p, r, <<>>, sl, cs)
      PROVE  FALSE
  <2>1. /\ C!Event("start", 1) \in Ev /\ C!Event("start", 2) \in Ev
        /\ C!Event("args", 1) \in Ev /\ C!Event("args", 2) \in Ev
    BY EventTyped
  <2>2. Wire(Mixed5) /\ Mixed5 # <<>>
    BY <2>1, ConsLaws, LastLaws DEF Mixed5
  <2>3. Wire(Mixed4) /\ Mixed4 # <<>>
    BY <2>1, <2>2, ConsLaws DEF Mixed4
  <2>4. Wire(Mixed3) /\ Mixed3 # <<>>
    BY <2>1, <2>3, ConsLaws DEF Mixed3
  <2>5. Wire(Mixed2) /\ Mixed2 # <<>>
    BY <2>1, <2>4, ConsLaws DEF Mixed2
  <2>6. Wire(Mixed1) /\ Mixed1 # <<>>
    BY <2>1, <2>5, ConsLaws DEF Mixed1
  <2>7. Mixed0 # <<>>
    BY <2>1, <2>6, ConsLaws DEF Mixed0
  <2> QED
    BY <1>3, <2>2, <2>3, <2>4, <2>5, <2>6, <2>7 DEF Mixes
<1>4. ASSUME Closes(p, r, <<>>, sl, cs)
      PROVE  FALSE
  BY <1>4, LastLaws DEF Closes
<1> QED
  BY <1>2, <1>3, <1>4 DEF OnTheWay

\* The calls of a reply that was not cut come in their order ...
LEMMA CallsOpen ==
    ASSUME NEW p, NEW r, Finished(r)
    PROVE  /\ Wire(Then(C!AllCalls(p, r), Last)) /\ Wire(C!AllCalls(p, r))
           /\ OnTheWay(p, r, Then(C!AllCalls(p, r), Last), <<>>, <<>>)
<1> DEFINE n == r.calls
           s == [i \in 1..n |-> C!CallEvents(p, r, i)]
<1>1. n \in Nat
  BY DEF Finished
<1>2. \A i \in 1..n : /\ Wire(C!CallEvents(p, r, i))
                      /\ \A w : Wire(w) =>
                           Then(C!CallEvents(p, r, i), w) =
                             Cons(C!Event("start", i), Cons(C!Event("args", i),
                                  Cons(C!Event("args", i), Ending(p, i, w))))
  BY <1>1, CallEventsAre DEF Finished
<1>3. s \in [1..n -> Seq(Ev)]
  BY <1>2 DEF Wire
<1>4. Last \in Seq(Ev)
  BY LastLaws DEF Wire
<1>5. \A i \in 1..n : s[i] = C!CallEvents(p, r, i)
  OBVIOUS
<1>6. C!AllCalls(p, r) = C!FlattenSeq(s)
  BY DEF C!AllCalls
<1> HIDE DEF s, n
<1>7. PICK rest : Rests(rest, s, Last, n, Ev) /\ rest[1] = C!FlattenSeq(s) \o Last
  BY <1>1, <1>3, <1>4, FlattenRests
<1>8. \A j \in 1..(n + 1) : Wire(rest[j])
  BY <1>7 DEF Rests, Wire
<1>9. rest[n + 1] = Last
  BY <1>7 DEF Rests
<1>10. ASSUME NEW j \in 1..n
       PROVE  rest[j] = Cons(C!Event("start", j), Cons(C!Event("args", j),
                             Cons(C!Event("args", j), Ending(p, j, rest[j + 1]))))
  <2>1. rest[j] = Then(s[j], rest[j + 1])
    BY <1>7 DEF Rests, Then
  <2>2. j + 1 \in 1..(n + 1)
    BY <1>1
  <2> QED
    BY <1>2, <1>5, <1>8, <2>1, <2>2
<1>11. Left(p, r, rest)
  BY <1>8, <1>9, <1>10 DEF Left, n
<1>12. rest[1] = Then(C!AllCalls(p, r), Last)
  BY <1>6, <1>7 DEF Then
<1>13. 1 \in 1..(n + 1)
  BY <1>1
<1>14. Filled(p, 0, 2) = <<>> /\ Passed(p, 0) = <<>>
  BY WholeTyped DEF Filled
<1>15. OnTheWay(p, r, rest[1], <<>>, <<>>)
  <2>1. CASE n = 0
    <3>1. rest[1] = Last
      BY <1>9, <2>1
    <3> QED
      BY <1>14, <2>1, <3>1 DEF OnTheWay, Closes, n
  <2>2. CASE n # 0
    <3>1. 1 \in 1..n /\ 1 - 1 = 0
      BY <1>1, <2>2
    <3>2. AtCall(p, r, rest, 1, rest[1], <<>>, <<>>)
      BY <1>14, <3>1 DEF AtCall
    <3> QED
      BY <1>11, <3>1, <3>2 DEF OnTheWay, Read, n
  <2> QED
    BY <2>1, <2>2
<1>16. Wire(C!AllCalls(p, r))
  <2>1. CASE n = 0
    <3>1. s = <<>> /\ Len(s) = 0
      BY <1>3, <2>1
    <3>2. C!FlattenSeq(s) = <<>>
      BY <3>1 DEF C!FlattenSeq
    <3> QED
      BY <1>6, <3>2, WireConcat
  <2>2. CASE n # 0
    <3>1. n \in Nat \ {0}
      BY <1>1, <2>2
    <3>2. PICK f : Flattens(f, s, n, Ev)
      BY <1>3, <3>1, FlattenSteps
    <3> QED
      BY <1>6, <3>1, <3>2 DEF Flattens, Wire
  <2> QED
    BY <2>1, <2>2
<1> QED
  BY <1>8, <1>12, <1>13, <1>15, <1>16

\* ... or mixed, when they are two calls of a Chat Completions stream.
LEMMA MixedOpen ==
    ASSUME NEW r, Finished(r), r.calls = 2
    PROVE  /\ Wire(C!Interleaved(r)) /\ Wire(Then(C!Interleaved(r), Last))
           /\ OnTheWay("openai-compat", r, Then(C!Interleaved(r), Last), <<>>, <<>>)
<1> DEFINE a == C!Event("start", 1)
           b == C!Event("start", 2)
           x == C!Event("args", 1)
           y == C!Event("args", 2)
           w1 == Cons(x, <<>>)
           w2 == Cons(y, w1)
           w3 == Cons(x, w2)
           w4 == Cons(y, w3)
           w5 == Cons(b, w4)
           w6 == Cons(a, w5)
<1>1. a \in Ev /\ b \in Ev /\ x \in Ev /\ y \in Ev
  BY EventTyped
<1>2. C!Interleaved(r) = Then(Then(<<a, b, y, x>>, <<y>>), <<x>>)
  BY DEF C!Interleaved, Finished, Then
<1>3. <<a, b, y, x>> = Then(<<a, b>>, <<y, x>>)
  BY DEF Then
<1> HIDE DEF a, b, x, y
<1>4. /\ <<a, b>> = Cons(a, Cons(b, <<>>)) /\ <<y, x>> = Cons(y, Cons(x, <<>>))
      /\ <<y>> = Cons(y, <<>>) /\ <<x>> = Cons(x, <<>>)
  BY <1>1, ConsTuples
<1>5. Wire(<<>>) /\ Wire(w1) /\ Wire(w2) /\ Wire(w3) /\ Wire(w4) /\ Wire(w5) /\ Wire(w6)
  <2>1. Wire(<<>>) /\ Wire(w1)
    BY <1>1, ConsLaws, WireConcat
  <2> HIDE DEF w1
  <2>2. Wire(w2)
    BY <1>1, <2>1, ConsLaws
  <2> HIDE DEF w2
  <2>3. Wire(w3)
    BY <1>1, <2>2, ConsLaws
  <2> HIDE DEF w3
  <2>4. Wire(w4)
    BY <1>1, <2>3, ConsLaws
  <2> HIDE DEF w4
  <2>5. Wire(w5)
    BY <1>1, <2>4, ConsLaws
  <2> HIDE DEF w5
  <2>6. Wire(w6)
    BY <1>1, <2>5, ConsLaws
  <2> QED
    BY <2>1, <2>2, <2>3, <2>4, <2>5, <2>6
\* One event, and what follows.
<1>6. ASSUME NEW e \in Ev, NEW u, NEW v, Wire(u), Wire(v)
      PROVE  /\ Then(Cons(e, u), v) = Cons(e, Then(u, v)) /\ Then(<<>>, v) = v
             /\ Wire(Cons(e, u)) /\ Wire(Then(u, v))
  BY <1>6, ConsConcat, WireConcat, ConsLaws
<1>7. Wire(<<y>>) /\ Wire(<<x>>) /\ Wire(<<y, x>>) /\ Wire(<<a, b>>)
  <2> HIDE DEF w1
  <2>1. Wire(Cons(y, <<>>)) /\ Wire(Cons(x, <<>>)) /\ Wire(Cons(b, <<>>))
    BY <1>1, <1>5, ConsLaws
  <2> QED
    BY <1>1, <1>4, <2>1, ConsLaws
<1>8. C!Interleaved(r) = w6
  <2> DEFINE t1 == <<x>>
             t2 == <<y>>
             t3 == <<y, x>>
             t4 == <<a, b>>
  <2>1. Wire(t1) /\ Wire(t2) /\ Wire(t3) /\ Wire(t4)
    BY <1>7
  <2>2. /\ t1 = w1 /\ t2 = Cons(y, <<>>) /\ t3 = Cons(y, Cons(x, <<>>))
        /\ t4 = Cons(a, Cons(b, <<>>))
    BY <1>4
  <2>3. C!Interleaved(r) = Then(Then(Then(t4, t3), t2), t1)
    BY <1>2, <1>3
  <2> HIDE DEF t1, t2, t3, t4, w1, w2, w3, w4, w5, w6
  <2>4. Then(Then(Then(t4, t3), t2), t1) = Then(t4, Then(t3, Then(t2, t1)))
    BY <2>1, WireConcat
  <2>5. Then(t2, t1) = w2
    BY <1>1, <1>5, <1>6, <2>1, <2>2 DEF w2
  <2>6. Then(t3, w2) = w4
    <3>1. Then(Cons(x, <<>>), w2) = Cons(x, w2) /\ Wire(Cons(x, <<>>))
      BY <1>1, <1>5, <1>6
    <3>2. Then(Cons(y, Cons(x, <<>>)), w2) = Cons(y, Then(Cons(x, <<>>), w2))
      BY <1>1, <1>5, <1>6, <3>1
    <3> QED
      BY <2>2, <3>1, <3>2 DEF w3, w4
  <2>7. Then(t4, w4) = w6
    <3>1. Then(Cons(b, <<>>), w4) = Cons(b, w4) /\ Wire(Cons(b, <<>>))
      BY <1>1, <1>5, <1>6
    <3>2. Then(Cons(a, Cons(b, <<>>)), w4) = Cons(a, Then(Cons(b, <<>>), w4))
      BY <1>1, <1>5, <1>6, <3>1
    <3> QED
      BY <2>2, <3>1, <3>2 DEF w5, w6
  <2> QED
    BY <2>3, <2>4, <2>5, <2>6, <2>7
<1>9. Then(w6, Last) = Mixed0
  <2>1. Then(w1, Last) = Cons(x, Last)
    BY <1>1, <1>5, <1>6, LastLaws
  <2> HIDE DEF w1
  <2>2. Then(w2, Last) = Cons(y, Then(w1, Last))
    BY <1>1, <1>5, <1>6, LastLaws
  <2> HIDE DEF w2
  <2>3. Then(w3, Last) = Cons(x, Then(w2, Last))
    BY <1>1, <1>5, <1>6, LastLaws
  <2> HIDE DEF w3
  <2>4. Then(w4, Last) = Cons(y, Then(w3, Last))
    BY <1>1, <1>5, <1>6, LastLaws
  <2> HIDE DEF w4
  <2>5. Then(w5, Last) = Cons(b, Then(w4, Last))
    BY <1>1, <1>5, <1>6, LastLaws
  <2> HIDE DEF w5
  <2>6. Then(w6, Last) = Cons(a, Then(w5, Last))
    BY <1>1, <1>5, <1>6, LastLaws
  <2> HIDE DEF w6
  <2> QED
    BY <2>1, <2>2, <2>3, <2>4, <2>5, <2>6
       DEF Mixed0, Mixed1, Mixed2, Mixed3, Mixed4, Mixed5, a, b, x, y
<1>10. Mixes("openai-compat", r, Mixed0, <<>>, <<>>)
  BY DEF Mixes
<1>11. Wire(Mixed0)
  <2> HIDE DEF w1, w2, w3, w4, w5, w6
  <2> QED
    BY <1>5, <1>9, LastLaws, WireConcat
<1> HIDE DEF w6
<1> QED
  BY <1>5, <1>8, <1>9, <1>10, <1>11 DEF OnTheWay

\* A stream that opens has everything to say.
LEMMA StreamOpens ==
    ASSUME NEW p, NEW r, Finished(r), NEW w \in C!Wires(p, r), NEW a
    PROVE  Says(p, r, w, <<>>, <<>>, <<>>, a)
<1> DEFINE text == C!Event("text", 0)
           before == IF r.text THEN <<text>> ELSE <<>>
<1>1. text \in Ev
  BY EventTyped
<1>2. C!Event("final", 0) \in Ev /\ <<C!Event("final", 0)>> = Last
  BY EventTyped, ConsTuples DEF Last
<1>3. PICK body : /\ w = Then(Then(before, body), Last)
                  /\ \/ body = C!AllCalls(p, r)
                     \/ p = "openai-compat" /\ r.calls = 2 /\ body = C!Interleaved(r)
  <2>1. ~(p = "openai" /\ r.end \in {"length", "failed"})
    BY DEF Finished
  <2>2. PICK body \in {C!AllCalls(p, r)} \cup (IF p = "openai-compat" /\ r.calls = 2
                                               THEN {C!Interleaved(r)} ELSE {}) :
                w = (before \o body) \o <<C!Event("final", 0)>>
    BY <2>1 DEF C!Wires
  <2> HIDE DEF before
  <2> QED
    BY <1>2, <2>2 DEF Then
<1>4. Wire(body) /\ Wire(Then(body, Last)) /\ OnTheWay(p, r, Then(body, Last), <<>>, <<>>)
  BY <1>3, CallsOpen, MixedOpen
<1> HIDE DEF text
<1>5. CASE r.text
  <2>1. before = Cons(text, <<>>) /\ Wire(<<>>) /\ Wire(before)
    BY <1>1, <1>5, ConsTuples, ConsLaws, WireConcat
  <2> HIDE DEF before
  <2>2. Then(Then(before, body), Last) = Then(before, Then(body, Last))
    BY <1>4, <2>1, LastLaws, WireConcat
  <2>3. Then(before, Then(body, Last)) = Cons(text, Then(body, Last))
    BY <1>1, <1>4, <2>1, ConsConcat, WireConcat
  <2> QED
    BY <1>3, <1>4, <1>5, <2>2, <2>3 DEF Says, text
<1>6. CASE ~r.text
  <2>1. Then(before, body) = body
    BY <1>4, <1>6, WireConcat
  <2> QED
    BY <1>3, <1>4, <1>6, <2>1 DEF Says
<1> QED
  BY <1>5, <1>6

-----------------------------------------------------------------------------
(* The clients keep it, whoever fails before.                              *)

\* The reply that is read reaches its end.
Ended == reply.end \in {"end", "tools"}

\* The text is of the client that is asked; a client is replaced only before it spoke;
\* a reply that comes to its end is on the way, then it has come.
ClientInv ==
    /\ step \in {"streaming", "collected", "taken"} =>
         (Ended => Finished(reply)) /\ resp.text \in Seq({at})
    /\ step = "streaming" /\ ~locked => resp = C!NoResponse
    /\ step = "streaming" /\ Ended =>
         Says(Chain[at], reply, wire, slots, resp.calls, resp.text, at)
    /\ step \in {"collected", "taken"} /\ Ended =>
         resp.text = (IF reply.text THEN <<at>> ELSE <<>>) /\ resp.calls = Whole(reply.calls)

\* A reply that reaches its end was not cut (Replies).
LEMMA ReplyFinished ==
    ASSUME NEW p, NEW r \in C!Replies(p), r.end \in {"end", "tools"}
    PROVE  Finished(r)
BY DEF C!Replies, Finished

\* A stream is opened for a response that is still empty.
LEMMA OpenStreamKeeps ==
    ASSUME NEW i, C!OpenStream(i), resp' = C!NoResponse, step' = "streaming"
    PROVE  ClientInv'
<1>1. /\ at' = i /\ slots' = <<>>
      /\ reply' \in C!Replies(Chain[i]) /\ wire' \in C!Wires(Chain[i], reply')
  BY DEF C!OpenStream
<1>2. resp'.text = <<>> /\ resp'.calls = <<>>
  BY DEF C!NoResponse
<1>3. Ended' => Finished(reply')
  BY <1>1, ReplyFinished DEF Ended
<1>4. Ended' => Says(Chain[i], reply', wire', <<>>, <<>>, <<>>, i)
  BY <1>1, <1>3, StreamOpens
<1>5. resp'.text \in Seq({at'})
  BY <1>2
<1>6. (step = "streaming" /\ Ended =>
         Says(Chain[at], reply, wire, slots, resp.calls, resp.text, at))'
  BY <1>1, <1>2, <1>4
<1> QED
  BY <1>3, <1>5, <1>6 DEF ClientInv

\* An event that is passed on (Receive).
LEMMA ReceiveKeeps ==
    ASSUME ClientInv, C!Receive
    PROVE  ClientInv'
<1> DEFINE p == Chain[at]
           e == Head(wire)
<1>1. /\ step = "streaming" /\ wire # <<>> /\ wire' = Tail(wire)
      /\ slots' = C!Accumulated(p, e) /\ locked' = (locked \/ e.kind # "other")
      /\ resp'.text = (IF e.kind = "text" THEN Append(resp.text, at) ELSE resp.text)
      /\ resp'.calls = resp.calls \o C!Completes(p, e)
      /\ UNCHANGED <<step, at, reply>>
  BY DEF C!Receive
<1>2. (Ended => Finished(reply)) /\ resp.text \in Seq({at})
  BY <1>1 DEF ClientInv
<1>3. (Ended' <=> Ended) /\ (Ended' => Finished(reply'))
  BY <1>1, <1>2 DEF Ended
<1>4. resp'.text \in Seq({at'})
  <2>1. Append(resp.text, at) \in Seq({at})
    BY <1>2
  <2> QED
    BY <1>1, <1>2, <2>1
<1>5. ~locked' => resp' = C!NoResponse
  <2> SUFFICES ASSUME ~locked' PROVE resp' = C!NoResponse
    OBVIOUS
  <2>1. ~locked /\ e.kind = "other"
    BY <1>1
  <2>2. resp = C!NoResponse
    BY <1>1, <2>1 DEF ClientInv
  <2>3. C!Completes(p, e) = <<>>
    BY <2>1 DEF C!Completes
  <2>4. resp' = [text |-> resp.text, calls |-> resp.calls \o <<>>, stop |-> resp.stop]
    BY <2>1, <2>3 DEF C!Receive
  <2>5. resp.text = <<>> /\ resp.calls = <<>> /\ resp.stop = ""
    BY <2>2 DEF C!NoResponse
  <2>6. <<>> \o <<>> = <<>>
    OBVIOUS
  <2> QED
    BY <2>4, <2>5, <2>6 DEF C!NoResponse
<1>6. Ended => Says(p, reply, wire', slots', resp'.calls, resp'.text, at)
  <2> SUFFICES ASSUME Ended
               PROVE  Says(p, reply, wire', slots', resp'.calls, resp'.text, at)
    OBVIOUS
  <2>1. Says(p, reply, wire, slots, resp.calls, resp.text, at) /\ Finished(reply)
    BY <1>1, <1>2 DEF ClientInv
  <2>2. CASE /\ reply.text /\ resp.text = <<>> /\ resp.calls = <<>>
             /\ \E u : /\ Wire(u) /\ wire = Cons(C!Event("text", 0), u)
                       /\ OnTheWay(p, reply, u, slots, resp.calls)
    <3>1. PICK u : /\ Wire(u) /\ wire = Cons(C!Event("text", 0), u)
                   /\ OnTheWay(p, reply, u, slots, resp.calls)
      BY <2>2
    <3>2. wire' = u /\ e = C!Event("text", 0) /\ e.kind = "text"
      <4>1. C!Event("text", 0) \in Ev /\ C!Event("text", 0).kind = "text"
        BY EventTyped
      <4>2. Head(wire) = C!Event("text", 0) /\ Tail(wire) = u
        BY <3>1, <4>1, ConsLaws
      <4> QED
        BY <1>1, <4>1, <4>2
    <3>3. C!Accumulated(p, e) = slots /\ C!Completes(p, e) = <<>>
      BY <3>2 DEF C!Accumulated, C!Completes
    <3>4. resp'.text = <<at>> /\ resp'.calls = resp.calls
      BY <1>1, <2>2, <3>2, <3>3
    <3> QED
      BY <1>1, <2>2, <3>1, <3>2, <3>3, <3>4 DEF Says
  <2>3. CASE /\ resp.text = (IF reply.text THEN <<at>> ELSE <<>>)
             /\ OnTheWay(p, reply, wire, slots, resp.calls)
    <3>1. Takes(p, wire, resp.calls)
      BY <1>1, <2>1, <2>3, WayTakes
    <3>2. resp'.text = resp.text
      BY <1>1, <3>1 DEF Takes
    <3>3. OnTheWay(p, reply, wire', slots', resp'.calls)
      BY <1>1, <3>1 DEF Takes
    <3> QED
      BY <2>3, <3>2, <3>3 DEF Says
  <2> QED
    BY <2>1, <2>2, <2>3 DEF Says
<1> HIDE DEF e
<1> QED
  BY <1>1, <1>3, <1>4, <1>5, <1>6 DEF ClientInv

\* The steps of a client and of the loop.
LEMMA ClientKeeps ==
    ASSUME ClientInv, C!Next
    PROVE  ClientInv'
<1>1. CASE C!Ask
  BY <1>1, OpenStreamKeeps DEF C!Ask
<1>2. CASE C!Receive
  BY <1>2, ReceiveKeeps
<1>3. CASE C!StreamOver
  <2>1. /\ step = "streaming" /\ wire = <<>> /\ step' = "collected"
        /\ UNCHANGED <<at, reply, wire, slots, locked, resp>>
    BY <1>3 DEF C!StreamOver
  <2>2. (Ended => Finished(reply)) /\ resp.text \in Seq({at}) /\ (Ended' <=> Ended)
    BY <2>1 DEF ClientInv, Ended
  <2>3. Ended => /\ resp.text = (IF reply.text THEN <<at>> ELSE <<>>)
                 /\ resp.calls = Whole(reply.calls)
    <3> SUFFICES ASSUME Ended
                 PROVE  /\ resp.text = (IF reply.text THEN <<at>> ELSE <<>>)
                        /\ resp.calls = Whole(reply.calls)
      OBVIOUS
    <3>1. Says(Chain[at], reply, <<>>, slots, resp.calls, resp.text, at)
      BY <2>1 DEF ClientInv
    <3>2. \A u : Wire(u) => Cons(C!Event("text", 0), u) # <<>>
      BY EventTyped, ConsLaws
    <3>3. /\ resp.text = (IF reply.text THEN <<at>> ELSE <<>>)
          /\ OnTheWay(Chain[at], reply, <<>>, slots, resp.calls)
      BY <3>1, <3>2 DEF Says
    <3> QED
      BY <2>2, <3>3, WayEnds
  <2> QED
    BY <2>1, <2>2, <2>3 DEF ClientInv
<1>4. CASE C!Breaks
  <2>1. CASE C!FallsBack /\ C!OpenStream(at + 1) /\ UNCHANGED step
    <3>1. step = "streaming" /\ ~locked /\ resp' = resp
      BY <1>4, <2>1 DEF C!Breaks, C!FallsBack
    <3>2. resp' = C!NoResponse /\ step' = "streaming"
      BY <2>1, <3>1 DEF ClientInv
    <3> QED
      BY <2>1, <3>2, OpenStreamKeeps
  <2>2. CASE step' = "failed"
    BY <2>2 DEF ClientInv
  <2> QED
    BY <1>4, <2>1, <2>2 DEF C!Breaks
<1>5. CASE C!Take
  BY <1>5 DEF C!Take, ClientInv, Ended
<1>6. CASE C!Recover \/ C!Iterate \/ C!NextRun
  <2>1. step' = "idle"
    BY <1>6 DEF C!Recover, C!Iterate, C!NextRun
  <2> QED
    BY <2>1 DEF ClientInv
<1> QED
  BY <1>1, <1>2, <1>3, <1>4, <1>5, <1>6 DEF C!Next

\* The loop acts on what one client said, and a reply that reached its end is taken as
\* it was written (client.py, the three stream methods and FallbackLLMClient).
THEOREM RepliesTaken == MCSpec => []TakenAsWritten
<1>1. MCInit => ClientInv
  BY DEF MCInit, C!Init, ClientInv
<1>2. ClientInv /\ [MCNext]_<<part, vars, memoryVars, clientVars>> => ClientInv'
  <2> SUFFICES ASSUME ClientInv, [MCNext]_<<part, vars, memoryVars, clientVars>>
               PROVE  ClientInv'
    OBVIOUS
  <2>1. CASE UNCHANGED clientVars
    BY <2>1 DEF clientVars, ClientInv, Ended
  <2>2. CASE C!Next
    BY <2>2, ClientKeeps
  <2> QED
    BY <2>1, <2>2 DEF MCNext
<1>3. ClientInv => TakenAsWritten
  <2> SUFFICES ASSUME ClientInv, step = "taken"
               PROVE  /\ \A i \in 1..Len(resp.text) : resp.text[i] = at
                      /\ Ended =>
                           /\ Len(resp.text) = IF reply.text THEN 1 ELSE 0
                           /\ resp.calls = Whole(reply.calls)
    BY DEF TakenAsWritten, C!TakenAsWritten, Ended, Whole
  <2>1. resp.text \in Seq({at})
    BY DEF ClientInv
  <2>2. \A i \in 1..Len(resp.text) : resp.text[i] = at
    BY <2>1
  <2>3. Ended => resp.text = (IF reply.text THEN <<at>> ELSE <<>>) /\ resp.calls = Whole(reply.calls)
    BY DEF ClientInv
  <2>4. Len(<<at>>) = 1 /\ Len(<<>>) = 0
    OBVIOUS
  <2> QED
    BY <2>2, <2>3, <2>4
<1> QED
  BY <1>1, <1>2, <1>3, PTL DEF MCSpec
=============================================================================
