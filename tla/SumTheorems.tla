----------------------------- MODULE SumTheorems -----------------------------
(***************************************************************************)
(* Facts about MapThenSumSet over finite sets, for the proofs of the       *)
(* modules that add up amounts.  The induction they need is carried out    *)
(* with the strict subset ordering, which is well-founded on the finite    *)
(* subsets of a set: a set that falsified a statement would contain a      *)
(* smallest one that does.                                                 *)
(***************************************************************************)
EXTENDS FiniteSetsExt, FiniteSetTheorems, WellFoundedInduction, TLAPS

Sum(w, S) == MapThenSumSet(LAMBDA x : w[x], S)

\* The element that a fold takes out first, and the equation of the fold.
First(s) == CHOOSE x \in s : TRUE

Body(g, w, S) ==
    [s \in SUBSET S |-> IF s = {} THEN 0 ELSE w[First(s)] + g[s \ {First(s)}]]

SumBySubset(w, S) == CHOOSE g : g = Body(g, w, S)

-----------------------------------------------------------------------------
(* The fold is well defined. *)

\* Of the subsets of a finite set with some property there is a smallest.
LEMMA SmallestSubset ==
    ASSUME NEW S, IsFiniteSet(S), NEW T \in SUBSET (SUBSET S), T # {}
    PROVE  \E s \in T : \A u \in T : u \subseteq s => u = s
<1>1. IsWellFoundedOn(StrictSubsetOrdering(S), SUBSET S)
  BY FS_StrictSubsetOrderingWellFounded, FS_FiniteSubsetsOfFinite
<1>2. PICK s \in T : \A u \in T : <<u, s>> \notin StrictSubsetOrdering(S)
  BY <1>1, WFMin
<1> QED
  BY <1>2 DEF StrictSubsetOrdering

\* The sum is the value of that function.
LEMMA SumIsFold == ASSUME NEW w, NEW S PROVE Sum(w, S) = SumBySubset(w, S)[S]
  BY DEF Sum, SumBySubset, Body, First, MapThenSumSet, MapThenFoldSet

\* The fold takes out an element of the set.
LEMMA FirstIsElement == ASSUME NEW s, s # {} PROVE First(s) \in s
  BY DEF First

\* The equation of the fold, at one subset.
LEMMA FoldAt ==
    ASSUME NEW w, NEW S, NEW g, g = Body(g, w, S), NEW s \in SUBSET S
    PROVE  g[s] = IF s = {} THEN 0 ELSE w[First(s)] + g[s \ {First(s)}]
  BY DEF Body

\* Two functions that satisfy the equation agree where both are defined.
LEMMA FoldIsUnique ==
    ASSUME NEW w, NEW S, IsFiniteSet(S), NEW R, S \subseteq R, NEW g, NEW h,
           g = Body(g, w, S), h = Body(h, w, R)
    PROVE  \A s \in SUBSET S : g[s] = h[s]
<1> DEFINE Bad == {s \in SUBSET S : g[s] # h[s]}
<1> SUFFICES ASSUME Bad # {} PROVE FALSE
  OBVIOUS
<1>1. PICK s \in Bad : \A u \in Bad : u \subseteq s => u = s
  <2>1. Bad \in SUBSET (SUBSET S)
    OBVIOUS
  <2> HIDE DEF Bad
  <2> QED
    BY <2>1, SmallestSubset
<1>2. /\ g[s] = IF s = {} THEN 0 ELSE w[First(s)] + g[s \ {First(s)}]
      /\ h[s] = IF s = {} THEN 0 ELSE w[First(s)] + h[s \ {First(s)}]
  BY DEF Body
<1>3. s # {}
  BY <1>2
<1>4. s \ {First(s)} \in SUBSET S /\ s \ {First(s)} \notin Bad
  BY <1>1, <1>3, FirstIsElement
<1> QED
  BY <1>2, <1>3, <1>4

\* Such a function exists.
LEMMA FoldExists ==
    ASSUME NEW w, NEW S, IsFiniteSet(S)
    PROVE  \E g : g = Body(g, w, S)
<1> DEFINE Bad == {R \in SUBSET S : ~ \E g : g = Body(g, w, R)}
<1> SUFFICES ASSUME Bad # {} PROVE FALSE
  BY Bad = {}
<1>1. PICK R \in Bad : \A u \in Bad : u \subseteq R => u = R
  <2>1. Bad \in SUBSET (SUBSET S)
    OBVIOUS
  <2> HIDE DEF Bad
  <2> QED
    BY <2>1, SmallestSubset
<1> DEFINE G(u) == SumBySubset(w, u)
<1>2. \A u \in SUBSET R : u # R => G(u) = Body(G(u), w, u)
  BY <1>1 DEF SumBySubset
<1>3. ASSUME NEW u \in SUBSET R, u # R, NEW v \in SUBSET u
      PROVE  G(u)[v] = G(v)[v]
  <2>1. IsFiniteSet(v)
    BY FS_Subset
  <2>2. G(u) = Body(G(u), w, u) /\ G(v) = Body(G(v), w, v)
    BY <1>2, <1>3
  <2> QED
    BY <2>1, <2>2, FoldIsUnique
<1> DEFINE H == [s \in SUBSET R |->
                   IF s = {} THEN 0
                   ELSE w[First(s)] + G(s \ {First(s)})[s \ {First(s)}]]
<1>4. ASSUME NEW s \in SUBSET R, s # {}
      PROVE  H[s \ {First(s)}] = G(s \ {First(s)})[s \ {First(s)}]
  <2> DEFINE t == s \ {First(s)}
  <2>1. t \in SUBSET R /\ t # R
    BY <1>4, FirstIsElement
  <2>2. G(t)[t] = IF t = {} THEN 0 ELSE w[First(t)] + G(t)[t \ {First(t)}]
    <3>1. G(t) = Body(G(t), w, t) /\ t \in SUBSET t
      BY <1>2, <2>1
    <3> HIDE DEF G, t
    <3> QED
      BY <3>1, FoldAt
  <2>3. G(t)[t \ {First(t)}] = G(t \ {First(t)})[t \ {First(t)}]
    BY <1>3, <2>1
  <2>4. H[t] = IF t = {} THEN 0
               ELSE w[First(t)] + G(t \ {First(t)})[t \ {First(t)}]
    BY <2>1
  <2> QED
    BY <2>2, <2>3, <2>4
<1>5. H = Body(H, w, R)
  <2> HIDE DEF G
  <2> QED
    BY <1>4 DEF Body
<1> QED
  BY <1>1, <1>5

-----------------------------------------------------------------------------
(* Sums. *)

\* The equation of the sum, in the order of the fold.
LEMMA SumFirst ==
    ASSUME NEW w, NEW S, IsFiniteSet(S)
    PROVE  Sum(w, S) = IF S = {} THEN 0 ELSE w[First(S)] + Sum(w, S \ {First(S)})
<1> DEFINE T == S \ {First(S)}
<1>1. SumBySubset(w, S) = Body(SumBySubset(w, S), w, S)
  BY FoldExists DEF SumBySubset
<1>2. IsFiniteSet(T) /\ T \subseteq S
  BY FS_Subset
<1>3. SumBySubset(w, T) = Body(SumBySubset(w, T), w, T)
  BY <1>2, FoldExists DEF SumBySubset
<1>4. SumBySubset(w, S)[S] =
        IF S = {} THEN 0 ELSE w[First(S)] + SumBySubset(w, S)[T]
  BY <1>1, FoldAt
<1>5. SumBySubset(w, T)[T] = SumBySubset(w, S)[T]
  <2> HIDE DEF T
  <2> QED
    BY <1>1, <1>2, <1>3, FoldIsUnique
<1> QED
  BY <1>4, <1>5, SumIsFold

\* Nothing adds up to nothing.
LEMMA SumOfNone == ASSUME NEW w PROVE Sum(w, {}) = 0
  BY SumFirst, FS_EmptySet

\* A sum of natural numbers is one.
LEMMA SumIsNat ==
    ASSUME NEW S, IsFiniteSet(S), NEW w, \A x \in S : w[x] \in Nat
    PROVE  Sum(w, S) \in Nat
<1> DEFINE Bad == {R \in SUBSET S : Sum(w, R) \notin Nat}
<1> SUFFICES ASSUME Bad # {} PROVE FALSE
  OBVIOUS
<1>1. PICK R \in Bad : \A u \in Bad : u \subseteq R => u = R
  <2>1. Bad \in SUBSET (SUBSET S)
    OBVIOUS
  <2> HIDE DEF Bad
  <2> QED
    BY <2>1, SmallestSubset
<1>2. Sum(w, R) = IF R = {} THEN 0 ELSE w[First(R)] + Sum(w, R \ {First(R)})
  BY FS_Subset, SumFirst
<1>3. R # {} => First(R) \in R
  BY FirstIsElement
<1>4. R # {} => Sum(w, R \ {First(R)}) \in Nat
  BY <1>1, <1>3
<1> QED
  BY <1>1, <1>2, <1>3, <1>4

\* Zeros add up to nothing.
LEMMA SumOfZeros ==
    ASSUME NEW S, IsFiniteSet(S), NEW w, \A x \in S : w[x] = 0
    PROVE  Sum(w, S) = 0
<1> DEFINE Bad == {R \in SUBSET S : Sum(w, R) # 0}
<1> SUFFICES ASSUME Bad # {} PROVE FALSE
  OBVIOUS
<1>1. PICK R \in Bad : \A u \in Bad : u \subseteq R => u = R
  <2>1. Bad \in SUBSET (SUBSET S)
    OBVIOUS
  <2> HIDE DEF Bad
  <2> QED
    BY <2>1, SmallestSubset
<1>2. Sum(w, R) = IF R = {} THEN 0 ELSE w[First(R)] + Sum(w, R \ {First(R)})
  BY FS_Subset, SumFirst
<1>3. R # {} => First(R) \in R
  BY FirstIsElement
<1>4. R # {} => Sum(w, R \ {First(R)}) = 0
  BY <1>1, <1>3
<1> QED
  BY <1>1, <1>2, <1>3, <1>4

\* Any element may be taken out first.
LEMMA SumTakeOut ==
    ASSUME NEW S, IsFiniteSet(S), NEW w, \A x \in S : w[x] \in Nat, NEW x \in S
    PROVE  Sum(w, S) = w[x] + Sum(w, S \ {x})
<1> DEFINE Bad == {R \in SUBSET S :
                     \E y \in R : Sum(w, R) # w[y] + Sum(w, R \ {y})}
<1> SUFFICES ASSUME Bad # {} PROVE FALSE
  OBVIOUS
<1>1. PICK R \in Bad : \A u \in Bad : u \subseteq R => u = R
  <2>1. Bad \in SUBSET (SUBSET S)
    OBVIOUS
  <2> HIDE DEF Bad
  <2> QED
    BY <2>1, SmallestSubset
<1>2. PICK y \in R : Sum(w, R) # w[y] + Sum(w, R \ {y})
  OBVIOUS
<1> DEFINE f == First(R)
<1>3. f \in R
  BY <1>2, FirstIsElement
<1>4. Sum(w, R) = w[f] + Sum(w, R \ {f})
  BY <1>2, FS_Subset, SumFirst
<1>5. f # y
  BY <1>2, <1>4
<1>12. \A u \in SUBSET R : u # R => \A z \in u : Sum(w, u) = w[z] + Sum(w, u \ {z})
  BY <1>1
<1> HIDE DEF Bad, f
<1>6. Sum(w, R \ {f}) = w[y] + Sum(w, (R \ {f}) \ {y})
  <2>1. R \ {f} \in SUBSET R /\ R \ {f} # R /\ y \in R \ {f}
    BY <1>3, <1>5
  <2> QED
    BY <2>1, <1>12
<1>7. Sum(w, R \ {y}) = w[f] + Sum(w, (R \ {y}) \ {f})
  <2>1. R \ {y} \in SUBSET R /\ R \ {y} # R /\ f \in R \ {y}
    BY <1>3, <1>5
  <2> QED
    BY <2>1, <1>12
<1>8. (R \ {y}) \ {f} = (R \ {f}) \ {y}
  OBVIOUS
<1>9. w[f] \in Nat /\ w[y] \in Nat /\ Sum(w, (R \ {f}) \ {y}) \in Nat
  <2>1. IsFiniteSet((R \ {f}) \ {y})
    BY FS_Subset DEF Bad
  <2> QED
    BY <1>3, <2>1, SumIsNat DEF Bad
<1>10. Sum(w, R) = w[f] + (w[y] + Sum(w, (R \ {f}) \ {y}))
  BY <1>4, <1>6
<1>11. w[y] + Sum(w, R \ {y}) = w[y] + (w[f] + Sum(w, (R \ {f}) \ {y}))
  BY <1>7, <1>8
<1> QED
  BY <1>2, <1>9, <1>10, <1>11

\* A sum grows with its terms, and with its set.
LEMMA SumMonotone ==
    ASSUME NEW T, IsFiniteSet(T), NEW S \in SUBSET T, NEW v, NEW w,
           \A x \in S : v[x] \in Nat /\ v[x] <= w[x],
           \A x \in T : w[x] \in Nat
    PROVE  Sum(v, S) <= Sum(w, T)
<1> DEFINE Bad == {R \in SUBSET T : ~(Sum(v, R \cap S) <= Sum(w, R))}
<1> SUFFICES ASSUME Bad # {} PROVE FALSE
  BY T \cap S = S
<1>1. PICK R \in Bad : \A u \in Bad : u \subseteq R => u = R
  <2>1. Bad \in SUBSET (SUBSET T)
    OBVIOUS
  <2> HIDE DEF Bad
  <2> QED
    BY <2>1, SmallestSubset
<1>2. CASE R = {}
  BY <1>1, <1>2, SumOfNone, R \cap S = {}
<1>3. CASE R # {}
  <2>1. PICK x \in R : TRUE
    BY <1>3
  <2>2. Sum(v, (R \ {x}) \cap S) <= Sum(w, R \ {x})
    BY <1>1
  <2>3. Sum(w, R) = w[x] + Sum(w, R \ {x}) /\ Sum(w, R \ {x}) \in Nat
    BY FS_Subset, SumTakeOut, SumIsNat
  <2>4. CASE x \in S
    <3>1. (R \cap S) \ {x} = (R \ {x}) \cap S
      OBVIOUS
    <3>2. IsFiniteSet(R \cap S) /\ IsFiniteSet((R \ {x}) \cap S)
      BY FS_Subset
    <3>3. /\ Sum(v, R \cap S) = v[x] + Sum(v, (R \ {x}) \cap S)
          /\ Sum(v, (R \ {x}) \cap S) \in Nat
      BY <2>4, <3>1, <3>2, SumTakeOut, SumIsNat
    <3> QED
      BY <1>1, <2>2, <2>3, <2>4, <3>3
  <2>5. CASE x \notin S
    <3>1. (R \ {x}) \cap S = R \cap S
      BY <2>5
    <3>2. IsFiniteSet(R \cap S)
      BY FS_Subset
    <3>3. Sum(v, R \cap S) \in Nat /\ w[x] \in Nat
      BY <3>2, SumIsNat
    <3> QED
      BY <1>1, <2>2, <2>3, <3>1, <3>3
  <2> QED
    BY <2>4, <2>5
<1> QED
  BY <1>2, <1>3

\* A sum depends on its terms only.
LEMMA SumSameTerms ==
    ASSUME NEW S, IsFiniteSet(S), NEW v, NEW w,
           \A x \in S : v[x] \in Nat /\ v[x] = w[x]
    PROVE  Sum(v, S) = Sum(w, S)
<1>1. Sum(v, S) <= Sum(w, S) /\ Sum(w, S) <= Sum(v, S)
  BY SumMonotone
<1>2. Sum(v, S) \in Nat /\ Sum(w, S) \in Nat
  BY SumIsNat
<1> QED
  BY <1>1, <1>2

\* No term is greater than the sum.
LEMMA SumBoundsTerm ==
    ASSUME NEW S, IsFiniteSet(S), NEW w, \A x \in S : w[x] \in Nat, NEW x \in S
    PROVE  w[x] <= Sum(w, S)
<1>1. Sum(w, S) = w[x] + Sum(w, S \ {x}) /\ Sum(w, S \ {x}) \in Nat
  BY FS_Subset, SumTakeOut, SumIsNat
<1> QED
  BY <1>1

\* A new element adds its term.
LEMMA SumPutIn ==
    ASSUME NEW S, IsFiniteSet(S), NEW x, x \notin S, NEW w,
           \A y \in S \cup {x} : w[y] \in Nat
    PROVE  Sum(w, S \cup {x}) = Sum(w, S) + w[x]
<1>1. IsFiniteSet(S \cup {x})
  BY FS_AddElement
<1>2. (S \cup {x}) \ {x} = S
  OBVIOUS
<1>3. Sum(w, S \cup {x}) = w[x] + Sum(w, S)
  <2> DEFINE T == S \cup {x}
  <2>1. IsFiniteSet(T) /\ x \in T /\ T \ {x} = S /\ \A y \in T : w[y] \in Nat
    BY <1>1, <1>2
  <2> HIDE DEF T
  <2>2. Sum(w, T) = w[x] + Sum(w, T \ {x})
    BY <2>1, SumTakeOut
  <2> QED
    BY <2>1, <2>2 DEF T
<1>4. Sum(w, S) \in Nat /\ w[x] \in Nat
  BY SumIsNat
<1> QED
  BY <1>3, <1>4

\* When one term changes, the sum changes by as much.
LEMMA SumOfChange ==
    ASSUME NEW S, IsFiniteSet(S), NEW w \in [S -> Nat], NEW k \in S, NEW n \in Nat
    PROVE  Sum([w EXCEPT ![k] = n], S) = Sum(w, S) + n - w[k]
<1> DEFINE v == [w EXCEPT ![k] = n]
<1>1. IsFiniteSet(S \ {k})
  BY FS_Subset
<1>2. Sum(v, S) = v[k] + Sum(v, S \ {k}) /\ Sum(w, S) = w[k] + Sum(w, S \ {k})
  BY SumTakeOut
<1>3. Sum(v, S \ {k}) = Sum(w, S \ {k})
  BY <1>1, SumSameTerms
<1>4. Sum(w, S \ {k}) \in Nat /\ w[k] \in Nat /\ v[k] = n
  BY <1>1, SumIsNat
<1> HIDE DEF v
<1>5. Sum(v, S) = Sum(w, S) + n - w[k]
  BY <1>2, <1>3, <1>4
<1> QED
  BY <1>5 DEF v

\* Whatever satisfies the equation of the fold yields the sum.
LEMMA FoldIsSum ==
    ASSUME NEW S, IsFiniteSet(S), NEW w, NEW g, g = Body(g, w, S)
    PROVE  g[S] = Sum(w, S)
<1>1. SumBySubset(w, S) = Body(SumBySubset(w, S), w, S)
  BY FoldExists DEF SumBySubset
<1> QED
  BY <1>1, FoldIsUnique, SumIsFold

\* A sum may be taken over any set that its terms are in one-to-one
\* correspondence with.
LEMMA SumOfImage ==
    ASSUME NEW S, IsFiniteSet(S), NEW f, NEW w, NEW v,
           \A x \in S : w[x] \in Nat /\ v[f[x]] = w[x],
           \A x, y \in S : f[x] = f[y] => x = y
    PROVE  Sum(v, {f[x] : x \in S}) = Sum(w, S)
<1> DEFINE Img(R) == {f[x] : x \in R}
           Bad == {R \in SUBSET S : Sum(v, Img(R)) # Sum(w, R)}
<1> SUFFICES ASSUME Bad # {} PROVE FALSE
  OBVIOUS
<1>1. PICK R \in Bad : \A u \in Bad : u \subseteq R => u = R
  <2>1. Bad \in SUBSET (SUBSET S)
    OBVIOUS
  <2> HIDE DEF Bad
  <2> QED
    BY <2>1, SmallestSubset
<1>2. IsFiniteSet(R) /\ R \subseteq S
  BY FS_Subset
<1>3. CASE R = {}
  BY <1>1, <1>3, SumOfNone, Img(R) = {}
<1>4. CASE R # {}
  <2>1. PICK x \in R : TRUE
    BY <1>4
  <2>2. Sum(v, Img(R \ {x})) = Sum(w, R \ {x})
    BY <1>1
  <2>3. /\ f[x] \notin Img(R \ {x}) /\ Img(R) = Img(R \ {x}) \cup {f[x]}
        /\ \A y \in Img(R) : v[y] \in Nat
    BY <1>2
  <2>4. IsFiniteSet(Img(R \ {x}))
    <3>1. IsFiniteSet(R \ {x})
      BY <1>2, FS_Subset
    <3> DEFINE g == [y \in R \ {x} |-> f[y]]
    <3>2. g \in Surjection(R \ {x}, Img(R \ {x}))
      BY DEF Surjection
    <3> QED
      BY <3>1, <3>2, FS_Surjection
  <2> HIDE DEF Img
  <2>5. Sum(v, Img(R)) = Sum(v, Img(R \ {x})) + v[f[x]]
    <3>1. PICK T : T = Img(R \ {x})
      OBVIOUS
    <3>2. PICK z : z = f[x]
      OBVIOUS
    <3>3. IsFiniteSet(T) /\ z \notin T /\ \A y \in T \cup {z} : v[y] \in Nat
      BY <2>3, <2>4, <3>1, <3>2
    <3>4. Sum(v, T \cup {z}) = Sum(v, T) + v[z]
      BY <3>3, SumPutIn
    <3> QED
      BY <2>3, <3>1, <3>2, <3>4
  <2>6. Sum(w, R) = w[x] + Sum(w, R \ {x}) /\ Sum(w, R \ {x}) \in Nat
    <3>1. \A y \in R : w[y] \in Nat
      BY <1>2
    <3>2. IsFiniteSet(R \ {x})
      BY <1>2, FS_Subset
    <3> QED
      BY <1>2, <3>1, <3>2, SumTakeOut, SumIsNat
  <2>7. v[f[x]] = w[x] /\ w[x] \in Nat
    BY <1>2
  <2> QED
    BY <1>1, <2>2, <2>5, <2>6, <2>7 DEF Bad
<1> QED
  BY <1>3, <1>4
=============================================================================
