----------------------------- MODULE DataProofs -----------------------------
(***************************************************************************)
(* Facts about the data of the models that every other proof rests on:     *)
(* induction over the natural numbers and over finite sets, sums over      *)
(* finite sets, and vectors without duplicates.  The induction theorems of *)
(* the library take a predicate as a parameter; here a set plays its part. *)
(***************************************************************************)
EXTENDS Sums, Vectors, SequencesExt, FiniteSetTheorems, WellFoundedInduction, TLAPS

\* The order of the natural numbers, as a well-founded relation.
LEMMA LessThanRelation ==
  \E R : IsWellFoundedOn(R, Nat) /\ \A a, b \in Nat : a < b => <<a, b>> \in R
<1>1. \A a, b \in Nat : a < b => <<a, b>> \in OpToRel(<, Nat)
  BY DEF OpToRel
<1> QED
  BY <1>1, NatLessThanWellFounded, Zenon

\* A set of natural numbers that is not empty has a least element.
LEMMA LeastNat ==
  ASSUME NEW T \in SUBSET Nat, T # {}
  PROVE  \E n \in T : \A m \in T : n <= m
<1>1. PICK R : IsWellFoundedOn(R, Nat) /\ \A a, b \in Nat : a < b => <<a, b>> \in R
  BY LessThanRelation
<1>2. IsWellFoundedOn(R, Nat)
  BY <1>1
<1>3. PICK x \in T : \A y \in T : ~(<<y, x>> \in R)
  BY <1>2, WFMin, Zenon
<1>4. ASSUME NEW m \in T PROVE x <= m
  <2>1. ~(m < x)
    BY <1>1, <1>3, Zenon
  <2> QED
    BY <2>1
<1> QED
  BY <1>4

\* Induction over the natural numbers: a set that has 0 and, with every
\* number, the next one has them all.
LEMMA SetInduction ==
  ASSUME NEW T, 0 \in T, \A n \in Nat : n \in T => n + 1 \in T
  PROVE  \A n \in Nat : n \in T
<1> SUFFICES ASSUME Nat \ T # {} PROVE FALSE
  OBVIOUS
<1>1. PICK n \in Nat \ T : \A m \in Nat \ T : n <= m
  BY LeastNat, Zenon
<1>2. n - 1 \in Nat /\ n - 1 \in T
  BY <1>1
<1> QED
  BY <1>2

\* Induction over the subsets of a finite set: a set of subsets that has s
\* whenever it has s without any one of its elements has them all.
LEMMA FiniteInduction ==
  ASSUME NEW S, IsFiniteSet(S), NEW T,
         \A s \in SUBSET S : (\A x \in s : s \ {x} \in T) => s \in T
  PROVE  \A s \in SUBSET S : s \in T
<1> DEFINE C == {n \in Nat : \A s \in SUBSET S : Cardinality(s) = n => s \in T}
<1>1. \A s \in SUBSET S : IsFiniteSet(s) /\ Cardinality(s) \in Nat
  BY FS_Subset, FS_CardinalityType
<1>2. 0 \in C
  BY <1>1, FS_EmptySet
<1>3. ASSUME NEW n \in Nat, n \in C PROVE n + 1 \in C
  <2> SUFFICES ASSUME NEW s \in SUBSET S, Cardinality(s) = n + 1 PROVE s \in T
    OBVIOUS
  <2>1. ASSUME NEW x \in s PROVE s \ {x} \in T
    <3>1. Cardinality(s \ {x}) = Cardinality(s) - 1
      BY <1>1, FS_RemoveElement
    <3> QED
      BY <1>3, <3>1
  <2> QED
    BY <2>1
<1>4. \A n \in Nat : n \in C
  <2> HIDE DEF C
  <2> QED
    BY <1>2, <1>3, SetInduction
<1> QED
  BY <1>1, <1>4

-----------------------------------------------------------------------------
(***************************************************************************)
(* Sums.  Total is a fold: a function g on the subsets of S that satisfies *)
(* the equation IsSum.  It exists when S is finite, and then its value     *)
(* does not depend on the element the fold takes first.                    *)
(***************************************************************************)
Element(s) == CHOOSE x \in s : TRUE

IsSum(g, f, S) ==
  g = [s \in SUBSET S |-> IF s = {} THEN 0 ELSE f[Element(s)] + g[s \ {Element(s)}]]

IntTerms(f, S) == \A x \in S : f[x] \in Int

\* What such a function returns.
IsTotal(g, f, S) ==
  /\ g[{}] = 0
  /\ \A s \in SUBSET S : g[s] \in Int /\ \A x \in s : g[s] = f[x] + g[s \ {x}]

\* The fold takes an element of the set.
LEMMA ElementOf ==
  ASSUME NEW s, s # {}
  PROVE  Element(s) \in s
  BY DEF Element

\* Total is the value of that function at S.
LEMMA TotalIsSum ==
  ASSUME NEW f, NEW S
  PROVE  Total(f, S) = (CHOOSE g : IsSum(g, f, S))[S]
  BY Zenon DEF Total, MapThenSumSet, MapThenFoldSet, IsSum, Element

\* The equation of the fold has a solution, found one cardinality at a time.
LEMMA SumExists ==
  ASSUME NEW f, NEW S, IsFiniteSet(S)
  PROVE  \E g : IsSum(g, f, S)
<1> DEFINE Rest(s)    == s \ {Element(s)}
           Step(g, s) == IF s = {} THEN 0 ELSE f[Element(s)] + g[Rest(s)]
           C == {n \in Nat : \E g : \A s \in SUBSET S : Cardinality(s) <= n => g[s] = Step(g, s)}
<1>1. \A s \in SUBSET S : IsFiniteSet(s) /\ Cardinality(s) \in Nat
  BY FS_Subset, FS_CardinalityType
<1>2. \A s \in SUBSET S : s # {} => Rest(s) \in SUBSET S /\ Cardinality(Rest(s)) = Cardinality(s) - 1
  BY <1>1, FS_RemoveElement, ElementOf
<1>3. 0 \in C
  <2> DEFINE g == [s \in SUBSET S |-> 0]
  <2>1. \A s \in SUBSET S : Cardinality(s) <= 0 => g[s] = Step(g, s)
    BY <1>1, FS_EmptySet
  <2> QED
    BY <2>1, Zenon
<1>4. ASSUME NEW n \in Nat, n \in C PROVE n + 1 \in C
  <2>1. PICK g : \A s \in SUBSET S : Cardinality(s) <= n => g[s] = Step(g, s)
    BY <1>4, Zenon
  <2> DEFINE h == [s \in SUBSET S |-> IF Cardinality(s) <= n THEN g[s] ELSE Step(g, s)]
  <2>2. ASSUME NEW s \in SUBSET S, Cardinality(s) <= n + 1 PROVE h[s] = Step(h, s)
    <3>1. h[s] = Step(g, s)
      BY <2>1
    <3>2. s # {} => h[Rest(s)] = g[Rest(s)]
      BY <1>1, <1>2, <2>2
    <3> HIDE DEF h
    <3> QED
      BY <3>1, <3>2
  <2>3. \E k : \A s \in SUBSET S : Cardinality(s) <= n + 1 => k[s] = Step(k, s)
    <3> HIDE DEF h
    <3> QED
      BY <2>2, Zenon
  <2>4. n + 1 \in Nat
    OBVIOUS
  <2> QED
    BY <2>3, <2>4, Zenon
<1>5. Cardinality(S) \in C
  <2> HIDE DEF C
  <2> QED
    BY <1>1, <1>3, <1>4, SetInduction
<1>6. PICK g : \A s \in SUBSET S : Cardinality(s) <= Cardinality(S) => g[s] = Step(g, s)
  BY <1>5, Zenon
<1> DEFINE h == [s \in SUBSET S |-> g[s]]
<1>7. ASSUME NEW s \in SUBSET S PROVE h[s] = Step(h, s)
  <2>1. Cardinality(s) <= Cardinality(S)
    BY FS_Subset
  <2>2. h[s] = Step(g, s)
    BY <1>6, <2>1
  <2>3. s # {} => h[Rest(s)] = g[Rest(s)]
    BY <1>2
  <2> QED
    BY <2>2, <2>3
<1>8. h = [s \in SUBSET S |-> Step(h, s)]
  BY <1>7, Zenon
<1> QED
  BY <1>8, Zenon DEF IsSum

\* What a function that satisfies the equation returns: an integer that does
\* not depend on the order in which the elements are added.
LEMMA SumOfSubset ==
  ASSUME NEW f, NEW S, IsFiniteSet(S), IntTerms(f, S), NEW g, IsSum(g, f, S)
  PROVE  IsTotal(g, f, S)
<1> USE DEF IntTerms
<1>1. g[{}] = 0
  BY DEF IsSum
<1>2. \A s \in SUBSET S : s # {} => Element(s) \in s /\ g[s] = f[Element(s)] + g[s \ {Element(s)}]
  BY ElementOf, Zenon DEF IsSum
<1>3. \A s \in SUBSET S : g[s] \in Int
  <2> DEFINE U == {s \in SUBSET S : g[s] \in Int}
  <2>1. ASSUME NEW s \in SUBSET S, \A x \in s : s \ {x} \in U PROVE s \in U
    <3>1. CASE s = {}
      BY <1>1, <3>1
    <3>2. CASE s # {}
      <4>1. PICK e \in s : g[s] = f[e] + g[s \ {e}]
        BY <1>2, <3>2
      <4>2. f[e] \in Int /\ g[s \ {e}] \in Int
        BY <2>1
      <4> QED
        BY <4>1, <4>2
    <3> QED
      BY <3>1, <3>2
  <2>2. \A s \in SUBSET S : s \in U
    <3> HIDE DEF U
    <3> QED
      BY <2>1, FiniteInduction, Zenon
  <2> QED
    BY <2>2
<1> DEFINE T == {s \in SUBSET S : \A x \in s : g[s] = f[x] + g[s \ {x}]}
<1>4. ASSUME NEW s \in SUBSET S, \A x \in s : s \ {x} \in T PROVE s \in T
  <2> SUFFICES ASSUME NEW x \in s PROVE g[s] = f[x] + g[s \ {x}]
    OBVIOUS
  <2>1. PICK e \in s : g[s] = f[e] + g[s \ {e}]
    BY <1>2
  <2>2. CASE x = e
    BY <2>1, <2>2
  <2>3. CASE x # e
    <3>1. g[s \ {e}] = f[x] + g[(s \ {e}) \ {x}]
      BY <1>4, <2>3, Zenon
    <3>2. g[s \ {x}] = f[e] + g[(s \ {x}) \ {e}]
      BY <1>4, <2>3, Zenon
    <3>3. (s \ {e}) \ {x} = (s \ {x}) \ {e}
      OBVIOUS
    <3>4. f[x] \in Int /\ f[e] \in Int /\ g[(s \ {x}) \ {e}] \in Int
      BY <1>3
    <3>5. f[e] + (f[x] + g[(s \ {x}) \ {e}]) = f[x] + (f[e] + g[(s \ {x}) \ {e}])
      BY <3>4
    <3> QED
      BY <2>1, <3>1, <3>2, <3>3, <3>5, Zenon
  <2> QED
    BY <2>2, <2>3
<1>5. \A s \in SUBSET S : s \in T
  <2> HIDE DEF T
  <2> QED
    BY <1>4, FiniteInduction, Zenon
<1> QED
  BY <1>1, <1>3, <1>5 DEF IsTotal

\* Two solutions of the equation agree on the sets of both.
LEMMA SumsAgree ==
  ASSUME NEW f, NEW S, NEW R \in SUBSET S, IsFiniteSet(S),
         NEW g, IsSum(g, f, S), NEW h, IsSum(h, f, R)
  PROVE  g[R] = h[R]
<1> DEFINE T == {s \in SUBSET R : g[s] = h[s]}
<1>1. ASSUME NEW s \in SUBSET R, \A x \in s : s \ {x} \in T PROVE s \in T
  <2>1. CASE s = {}
    BY <2>1 DEF IsSum
  <2>2. CASE s # {}
    <3> DEFINE e == Element(s)
    <3>1. e \in s
      BY <2>2, ElementOf
    <3>2. g[s] = f[e] + g[s \ {e}] /\ h[s] = f[e] + h[s \ {e}]
      BY <2>2, Zenon DEF IsSum
    <3> HIDE DEF e
    <3> QED
      BY <1>1, <3>1, <3>2
  <2> QED
    BY <2>1, <2>2
<1>2. \A s \in SUBSET R : s \in T
  <2>1. IsFiniteSet(R)
    BY FS_Subset
  <2> HIDE DEF T
  <2> QED
    BY <1>1, <2>1, FiniteInduction, Zenon
<1> QED
  BY <1>2

\* One function has the sums over all subsets of a finite set.
LEMMA TotalFunction ==
  ASSUME NEW f, NEW S, IsFiniteSet(S), IntTerms(f, S)
  PROVE  \E g : IsTotal(g, f, S) /\ \A s \in SUBSET S : Total(f, s) = g[s]
<1>1. PICK g : IsSum(g, f, S)
  BY SumExists
<1>2. ASSUME NEW s \in SUBSET S PROVE Total(f, s) = g[s]
  <2>1. IsFiniteSet(s)
    BY FS_Subset
  <2> DEFINE h == CHOOSE h : IsSum(h, f, s)
  <2>2. IsSum(h, f, s)
    BY <2>1, SumExists, Zenon
  <2>3. Total(f, s) = h[s]
    BY TotalIsSum, Zenon
  <2> HIDE DEF h
  <2> QED
    BY <1>1, <2>2, <2>3, SumsAgree
<1>3. IsTotal(g, f, S)
  BY <1>1, SumOfSubset
<1> QED
  BY <1>2, <1>3

\* The sum over no element.
LEMMA TotalEmpty ==
  ASSUME NEW f
  PROVE  Total(f, {}) = 0
<1>1. IsFiniteSet({}) /\ IntTerms(f, {})
  BY FS_EmptySet DEF IntTerms
<1> QED
  BY <1>1, TotalFunction DEF IsTotal

\* A sum is an integer, and any of its terms may be taken out first.
LEMMA TotalRemove ==
  ASSUME NEW f, NEW S, IsFiniteSet(S), \A x \in S : f[x] \in Int
  PROVE  /\ Total(f, S) \in Int
         /\ \A x \in S : Total(f, S) = f[x] + Total(f, S \ {x})
<1>1. PICK g : IsTotal(g, f, S) /\ \A s \in SUBSET S : Total(f, s) = g[s]
  BY TotalFunction DEF IntTerms
<1> QED
  BY <1>1, Zenon DEF IsTotal

\* A new term is added to a sum.
LEMMA TotalAdd ==
  ASSUME NEW f, NEW S, IsFiniteSet(S), NEW e, e \notin S, \A x \in S \cup {e} : f[x] \in Int
  PROVE  Total(f, S \cup {e}) = f[e] + Total(f, S)
<1>1. IsFiniteSet(S \cup {e})
  BY FS_AddElement
<1>2. (S \cup {e}) \ {e} = S
  OBVIOUS
<1> QED
  BY <1>1, <1>2, TotalRemove

\* A sum is monotonic in each of its terms.
LEMMA TotalMonotonic ==
  ASSUME NEW f, NEW h, NEW S, IsFiniteSet(S),
         \A x \in S : f[x] \in Int /\ h[x] \in Int /\ f[x] <= h[x]
  PROVE  Total(f, S) <= Total(h, S)
<1> DEFINE T == {s \in SUBSET S : Total(f, s) <= Total(h, s)}
<1>1. ASSUME NEW s \in SUBSET S, \A x \in s : s \ {x} \in T PROVE s \in T
  <2>1. CASE s = {}
    BY <2>1, TotalEmpty
  <2>2. CASE s # {}
    <3>1. PICK e \in s : TRUE
      BY <2>2
    <3>2. IsFiniteSet(s) /\ IsFiniteSet(s \ {e})
      BY FS_Subset
    <3>3. /\ Total(f, s \ {e}) \in Int /\ Total(h, s \ {e}) \in Int
          /\ Total(f, s) = f[e] + Total(f, s \ {e}) /\ Total(h, s) = h[e] + Total(h, s \ {e})
      BY <3>2, TotalRemove
    <3>4. Total(f, s \ {e}) <= Total(h, s \ {e})
      BY <1>1
    <3> QED
      BY <3>3, <3>4
  <2> QED
    BY <2>1, <2>2
<1>2. \A s \in SUBSET S : s \in T
  <2> HIDE DEF T
  <2> QED
    BY <1>1, FiniteInduction, Zenon
<1> QED
  BY <1>2

\* A sum depends on its terms only.
LEMMA TotalEqual ==
  ASSUME NEW f, NEW h, NEW S, IsFiniteSet(S), \A x \in S : f[x] \in Int /\ h[x] = f[x]
  PROVE  Total(f, S) = Total(h, S)
<1>1. Total(f, S) <= Total(h, S) /\ Total(h, S) <= Total(f, S)
  BY TotalMonotonic
<1>2. Total(f, S) \in Int /\ Total(h, S) \in Int
  BY TotalRemove
<1> QED
  BY <1>1, <1>2

\* A sum of natural numbers is at least the sum of some of them.
LEMMA TotalSubset ==
  ASSUME NEW f, NEW S, IsFiniteSet(S), \A x \in S : f[x] \in Nat, NEW R \in SUBSET S
  PROVE  0 <= Total(f, R) /\ Total(f, R) <= Total(f, S)
<1> DEFINE T == {s \in SUBSET S : \A r \in SUBSET s : 0 <= Total(f, r) /\ Total(f, r) <= Total(f, s)}
<1>1. ASSUME NEW s \in SUBSET S, \A x \in s : s \ {x} \in T PROVE s \in T
  <2> SUFFICES ASSUME NEW r \in SUBSET s PROVE 0 <= Total(f, r) /\ Total(f, r) <= Total(f, s)
    OBVIOUS
  <2>1. \A u \in SUBSET S : Total(f, u) \in Int /\ \A x \in u : Total(f, u) = f[x] + Total(f, u \ {x})
    <3> SUFFICES ASSUME NEW u \in SUBSET S
                 PROVE  Total(f, u) \in Int /\ \A x \in u : Total(f, u) = f[x] + Total(f, u \ {x})
      OBVIOUS
    <3>1. IsFiniteSet(u) /\ \A x \in u : f[x] \in Int
      BY FS_Subset
    <3> QED
      BY <3>1, TotalRemove
  <2>2. CASE r = s
    <3>1. CASE s = {}
      BY <2>2, <3>1, TotalEmpty
    <3>2. CASE s # {}
      <4>1. PICK e \in s : TRUE
        BY <3>2
      <4>2. 0 <= Total(f, s \ {e})
        BY <1>1
      <4> QED
        BY <2>1, <2>2, <4>1, <4>2
    <3> QED
      BY <3>1, <3>2
  <2>3. CASE r # s
    <3>1. PICK e \in s : e \notin r
      BY <2>3
    <3>2. 0 <= Total(f, r) /\ Total(f, r) <= Total(f, s \ {e})
      BY <1>1, <3>1
    <3> QED
      BY <2>1, <3>1, <3>2
  <2> QED
    BY <2>2, <2>3
<1>2. \A s \in SUBSET S : s \in T
  <2> HIDE DEF T
  <2> QED
    BY <1>1, FiniteInduction, Zenon
<1> QED
  BY <1>2

-----------------------------------------------------------------------------
(***************************************************************************)
(* What the operations of vector.c do to a vector without duplicates.      *)
(***************************************************************************)
Injective(v) == \A i, j \in DOMAIN v : v[i] = v[j] => i = j

\* vector_getindex finds the position of an element that occurs once.
LEMMA GetIndexOfElement ==
  ASSUME NEW S, NEW v \in Seq(S), Injective(v), NEW i \in DOMAIN v
  PROVE  vector_getindex(v, v[i]) = i - 1
<1>1. \A j \in 1..(i - 1) : v[j] # v[i]
  BY DEF Injective
<1>2. \A k \in DOMAIN v : v[k] = v[i] => k = i
  BY DEF Injective
<1> QED
  BY <1>1, <1>2 DEF vector_getindex

\* vector_append adds one element at the end.
LEMMA AppendElement ==
  ASSUME NEW S, NEW v \in Seq(S), NEW e \in S
  PROVE  /\ Append(v, e) \in Seq(S)
         /\ ToSet(Append(v, e)) = ToSet(v) \cup {e}
         /\ Injective(v) /\ e \notin ToSet(v) => Injective(Append(v, e))
<1> DEFINE w == Append(v, e)
<1>1. w \in Seq(S) /\ Len(w) = Len(v) + 1
  OBVIOUS
<1>2. \A i \in DOMAIN v : i \in DOMAIN w /\ w[i] = v[i]
  OBVIOUS
<1>3. Len(v) + 1 \in DOMAIN w /\ w[Len(v) + 1] = e
  OBVIOUS
<1>4. \A i \in DOMAIN w : i \in DOMAIN v \/ i = Len(v) + 1
  BY <1>1
<1> HIDE DEF w
<1>5. ToSet(w) = ToSet(v) \cup {e}
  BY <1>2, <1>3, <1>4 DEF ToSet
<1>6. Injective(v) /\ e \notin ToSet(v) => Injective(w)
  BY <1>2, <1>3, <1>4 DEF Injective, ToSet
<1> QED
  BY <1>1, <1>5, <1>6 DEF w

\* vector_delete takes out its element and no other, and keeps the order.
LEMMA DeleteElement ==
  ASSUME NEW S, NEW v \in Seq(S), Injective(v), NEW e \in ToSet(v)
  PROVE  /\ vector_delete(v, e) \in Seq(S)
         /\ ToSet(vector_delete(v, e)) = ToSet(v) \ {e}
         /\ Injective(vector_delete(v, e))
<1>1. PICK i \in DOMAIN v : v[i] = e
  BY DEF ToSet
<1> DEFINE w == [j \in 1..(Len(v) - 1) |-> IF j <= i - 1 THEN v[j] ELSE v[j + 1]]
<1>2. vector_delete(v, e) = w
  <2>1. vector_getindex(v, e) = i - 1
    BY <1>1, GetIndexOfElement
  <2>2. i - 1 >= 0 /\ i - 1 < Len(v)
    OBVIOUS
  <2> QED
    BY <2>1, <2>2 DEF vector_delete, vector_remove
<1>3. w \in Seq(S)
  OBVIOUS
<1>4. Injective(w)
  BY <1>1 DEF Injective
<1>5. ASSUME NEW x \in ToSet(w) PROVE x \in ToSet(v) \ {e}
  BY <1>1, <1>5 DEF ToSet, Injective
<1>6. ASSUME NEW x \in ToSet(v), x # e PROVE x \in ToSet(w)
  <2>1. PICK k \in DOMAIN v : v[k] = x
    BY DEF ToSet
  <2>2. CASE k < i
    <3>1. k \in DOMAIN w /\ w[k] = x
      BY <2>1, <2>2
    <3> QED
      BY <3>1 DEF ToSet
  <2>3. CASE k > i
    <3>1. k - 1 \in DOMAIN w /\ w[k - 1] = x
      BY <2>1, <2>3
    <3> QED
      BY <3>1 DEF ToSet
  <2> QED
    BY <1>1, <1>6, <2>1, <2>2, <2>3
<1> QED
  BY <1>2, <1>3, <1>4, <1>5, <1>6

-----------------------------------------------------------------------------
(***************************************************************************)
(* Recursion.  The values a recursive definition computes are known once a *)
(* function is known to satisfy its equation.                              *)
(***************************************************************************)

\* F[i] maps V to V for each i of D.
Closed(F, D, V) == \A i \in D : \A v \in V : F[i][v] \in V

IsRecursion(g, n, b, F) == g[0] = b /\ \A i \in 1..n : g[i] = F[i][g[i - 1]]

\* A recursive function on the first natural numbers exists: F[i] makes its
\* value at i of that at i - 1.
LEMMA RecursionExists ==
  ASSUME NEW n \in Nat, NEW V, NEW b \in V, NEW F, Closed(F, 1..n, V)
  PROVE  \E g \in [0..n -> V] : IsRecursion(g, n, b, F)
<1> USE DEF Closed, IsRecursion
<1> DEFINE Sol(k, g) == g[0] = b /\ \A i \in 1..k : g[i] = F[i][g[i - 1]]
           T == {k \in Nat : k <= n => \E g \in [0..k -> V] : Sol(k, g)}
<1>1. 0 \in T
  <2>1. [i \in 0..0 |-> b] \in [0..0 -> V] /\ Sol(0, [i \in 0..0 |-> b])
    OBVIOUS
  <2> QED
    BY <2>1, Zenon
<1>2. ASSUME NEW k \in Nat, k \in T PROVE k + 1 \in T
  <2> SUFFICES ASSUME k + 1 <= n PROVE \E g \in [0..(k + 1) -> V] : Sol(k + 1, g)
    OBVIOUS
  <2>1. PICK g \in [0..k -> V] : Sol(k, g)
    BY <1>2
  <2> DEFINE h == [i \in 0..(k + 1) |-> IF i <= k THEN g[i] ELSE F[i][g[k]]]
  <2>2. h \in [0..(k + 1) -> V]
    <3>1. g[k] \in V /\ F[k + 1][g[k]] \in V
      OBVIOUS
    <3> QED
      BY <3>1
  <2>3. /\ h[0] = g[0] /\ h[k + 1] = F[k + 1][g[k]] /\ h[k] = g[k]
        /\ \A i \in 0..k : h[i] = g[i]
    OBVIOUS
  <2>4. Sol(k + 1, h)
    <3> HIDE DEF h
    <3>1. ASSUME NEW i \in 1..(k + 1) PROVE h[i] = F[i][h[i - 1]]
      <4>1. CASE i = k + 1
        BY <2>3, <4>1
      <4>2. CASE i \in 1..k
        BY <2>1, <2>3, <4>2
      <4> QED
        BY <4>1, <4>2
    <3> QED
      BY <2>1, <2>3, <3>1
  <2> HIDE DEF h, Sol
  <2> QED
    BY <2>2, <2>4, Zenon
<1>3. n \in T
  <2> HIDE DEF T
  <2> QED
    BY <1>1, <1>2, SetInduction
<1> QED
  BY <1>3

IsFold(g, S, b, F, pick) ==
  /\ g[{}] = b
  /\ \A s \in SUBSET S : s # {} => g[s] = F[pick[s]][g[s \ {pick[s]}]]

Picks(pick, S) == \A s \in SUBSET S : s # {} => pick[s] \in s

\* So does one on the subsets of a finite set: F[x] makes its value at s of
\* that at s without its element x = pick[s].  This is how the folds of the
\* community modules are defined.
LEMMA FoldExists ==
  ASSUME NEW S, IsFiniteSet(S), NEW V, NEW b \in V,
         NEW F, Closed(F, S, V), NEW pick, Picks(pick, S)
  PROVE  \E g \in [SUBSET S -> V] : IsFold(g, S, b, F, pick)
<1> USE DEF Closed, Picks, IsFold
<1> DEFINE Rest(s)   == s \ {pick[s]}
           Sol(k, g) == /\ g[{}] = b
                        /\ \A s \in SUBSET S : s # {} /\ Cardinality(s) <= k => g[s] = F[pick[s]][g[Rest(s)]]
           T == {k \in Nat : \E g \in [SUBSET S -> V] : Sol(k, g)}
<1>1. \A s \in SUBSET S : IsFiniteSet(s) /\ Cardinality(s) \in Nat /\ (Cardinality(s) = 0 => s = {})
  BY FS_Subset, FS_CardinalityType, FS_EmptySet
<1>2. \A s \in SUBSET S : s # {} =>
         pick[s] \in S /\ Rest(s) \in SUBSET S /\ Cardinality(Rest(s)) = Cardinality(s) - 1
  BY <1>1, FS_RemoveElement
<1>3. 0 \in T
  <2> DEFINE g == [s \in SUBSET S |-> b]
  <2>1. g \in [SUBSET S -> V] /\ Sol(0, g)
    BY <1>1
  <2> HIDE DEF g, Sol
  <2> QED
    BY <2>1
<1>4. ASSUME NEW k \in Nat, k \in T PROVE k + 1 \in T
  <2>1. PICK g \in [SUBSET S -> V] : Sol(k, g)
    BY <1>4, Zenon
  <2> DEFINE h == [s \in SUBSET S |-> IF s = {} \/ Cardinality(s) <= k THEN g[s] ELSE F[pick[s]][g[Rest(s)]]]
  <2>2. h \in [SUBSET S -> V]
    <3>1. \A s \in SUBSET S : s # {} => F[pick[s]][g[Rest(s)]] \in V
      BY <1>2
    <3> QED
      BY <3>1
  <2>3. ASSUME NEW s \in SUBSET S, s # {}, Cardinality(s) <= k + 1 PROVE h[s] = F[pick[s]][h[Rest(s)]]
    <3>1. h[s] = F[pick[s]][g[Rest(s)]]
      BY <2>1, <2>3, Zenon
    <3>2. Cardinality(Rest(s)) <= k
      BY <1>1, <1>2, <2>3
    <3>3. h[Rest(s)] = g[Rest(s)]
      BY <1>2, <2>3, <3>2
    <3> QED
      BY <3>1, <3>3, Zenon
  <2>4. h[{}] = b
    BY <2>1
  <2> HIDE DEF h
  <2>5. Sol(k + 1, h)
    BY <2>3, <2>4, Zenon
  <2> HIDE DEF Sol
  <2> QED
    BY <2>2, <2>5
<1>5. Cardinality(S) \in T
  <2> HIDE DEF T
  <2> QED
    BY <1>1, <1>3, <1>4, SetInduction
<1>6. PICK g \in [SUBSET S -> V] : Sol(Cardinality(S), g)
  BY <1>5, Zenon
<1>7. \A s \in SUBSET S : Cardinality(s) <= Cardinality(S)
  BY FS_Subset
<1> QED
  BY <1>6, <1>7, Zenon

\* A finite set of integers that is not empty has a greatest element.
LEMMA GreatestOf ==
  ASSUME NEW S \in SUBSET Int, IsFiniteSet(S), S # {}
  PROVE  Max(S) \in S /\ \A y \in S : Max(S) >= y
<1> DEFINE T == {s \in SUBSET S : s # {} => \E x \in s : \A y \in s : x >= y}
<1>1. ASSUME NEW s \in SUBSET S, \A x \in s : s \ {x} \in T PROVE s \in T
  <2> SUFFICES ASSUME s # {} PROVE \E x \in s : \A y \in s : x >= y
    OBVIOUS
  <2>1. PICK x \in s : TRUE
    BY Zenon
  <2>2. CASE s \ {x} = {}
    BY <2>1, <2>2
  <2>3. CASE s \ {x} # {}
    <3>1. PICK z \in s \ {x} : \A y \in s \ {x} : z >= y
      BY <1>1, <2>1, <2>3
    <3>2. CASE x >= z
      BY <3>1, <3>2
    <3>3. CASE z >= x
      BY <3>1, <3>3
    <3> QED
      BY <3>2, <3>3
  <2> QED
    BY <2>2, <2>3
<1>2. \A s \in SUBSET S : s \in T
  <2> HIDE DEF T
  <2> QED
    BY <1>1, FiniteInduction, Zenon
<1>3. \E x \in S : \A y \in S : x >= y
  BY <1>2
<1> QED
  BY <1>3, Zenon DEF Max

\* And a least one.
LEMMA LeastOf ==
  ASSUME NEW S \in SUBSET Int, IsFiniteSet(S), S # {}
  PROVE  Min(S) \in S /\ \A y \in S : Min(S) <= y
<1> DEFINE T == {s \in SUBSET S : s # {} => \E x \in s : \A y \in s : x <= y}
<1>1. ASSUME NEW s \in SUBSET S, \A x \in s : s \ {x} \in T PROVE s \in T
  <2> SUFFICES ASSUME s # {} PROVE \E x \in s : \A y \in s : x <= y
    OBVIOUS
  <2>1. PICK x \in s : TRUE
    BY Zenon
  <2>2. CASE s \ {x} = {}
    BY <2>1, <2>2
  <2>3. CASE s \ {x} # {}
    <3>1. PICK z \in s \ {x} : \A y \in s \ {x} : z <= y
      BY <1>1, <2>1, <2>3
    <3>2. CASE x <= z
      BY <3>1, <3>2
    <3>3. CASE z <= x
      BY <3>1, <3>3
    <3> QED
      BY <3>2, <3>3
  <2> QED
    BY <2>2, <2>3
<1>2. \A s \in SUBSET S : s \in T
  <2> HIDE DEF T
  <2> QED
    BY <1>1, FiniteInduction, Zenon
<1>3. \E x \in S : \A y \in S : x <= y
  BY <1>2
<1> QED
  BY <1>3, Zenon DEF Min

\* The sequence made of a finite set has the elements of the set.
LEMMA SetToSeqOf ==
  ASSUME NEW S, IsFiniteSet(S)
  PROVE  SetToSeq(S) \in Seq(S) /\ ToSet(SetToSeq(S)) = S /\ Len(SetToSeq(S)) = Cardinality(S)
<1> DEFINE n == Cardinality(S)
           f == SetToSeq(S)
<1>1. n \in Nat /\ ExistsBijection(1..n, S)
  BY FS_CardinalityType
<1>2. \E g \in [1..n -> S] : IsInjective(g)
  BY <1>1, Zenon DEF ExistsBijection, Bijection, Injection
<1>3. f \in [1..n -> S] /\ IsInjective(f)
  BY <1>2, Zenon DEF SetToSeq
<1>4. f \in Injection(1..n, S)
  BY <1>3, Zenon DEF Injection
<1>5. IsFiniteSet(1..n) /\ Cardinality(1..n) = n
  <2>1. 1 \in Int /\ n \in Int
    BY <1>1
  <2> QED
    BY <1>1, <2>1, FS_Interval
<1>6. f \in Surjection(1..n, S)
  BY <1>4, <1>5, FS_Injection
<1>7. \A x \in S : \E i \in 1..n : f[i] = x
  BY <1>6, Zenon DEF Surjection
<1> HIDE DEF f, n
<1>8. f \in Seq(S) /\ Len(f) = n /\ DOMAIN f = 1..n
  BY <1>1, <1>3
<1>9. ToSet(f) = S
  BY <1>3, <1>7, <1>8 DEF ToSet
<1> QED
  BY <1>8, <1>9 DEF f, n

\* The sequence u is s followed by t.
IsConcat(u, s, t) ==
  /\ Len(u) = Len(s) + Len(t)
  /\ \A i \in 1..Len(s) : u[i] = s[i]
  /\ \A i \in 1..Len(t) : u[Len(s) + i] = t[i]

\* Two sequences in a row, and their elements.
LEMMA ConcatElements ==
  ASSUME NEW S, NEW s \in Seq(S), NEW t \in Seq(S)
  PROVE  /\ s \o t \in Seq(S) /\ IsConcat(s \o t, s, t)
         /\ ToSet(s \o t) = ToSet(s) \cup ToSet(t)
<1> DEFINE u == s \o t
<1>1. /\ u \in Seq(S) /\ Len(u) = Len(s) + Len(t) /\ Len(s) \in Nat /\ Len(t) \in Nat
      /\ \A i \in 1..Len(u) : u[i] = IF i <= Len(s) THEN s[i] ELSE t[i - Len(s)]
  OBVIOUS
<1> HIDE DEF u
<1>2. \A i \in 1..Len(s) : u[i] = s[i] /\ i \in 1..Len(u)
  BY <1>1
<1>3. \A i \in 1..Len(t) : u[Len(s) + i] = t[i] /\ Len(s) + i \in 1..Len(u)
  BY <1>1
<1>4. ToSet(u) = ToSet(s) \cup ToSet(t)
  <2>1. ASSUME NEW x \in ToSet(u) PROVE x \in ToSet(s) \cup ToSet(t)
    <3>1. PICK i \in 1..Len(u) : u[i] = x
      BY <1>1 DEF ToSet
    <3>2. CASE i <= Len(s)
      BY <1>1, <3>1, <3>2 DEF ToSet
    <3>3. CASE i > Len(s)
      <4>1. i - Len(s) \in 1..Len(t) /\ t[i - Len(s)] = x
        BY <1>1, <3>1, <3>3
      <4> QED
        BY <4>1 DEF ToSet
    <3> QED
      BY <1>1, <3>2, <3>3
  <2>2. DOMAIN u = 1..Len(u) /\ DOMAIN s = 1..Len(s) /\ DOMAIN t = 1..Len(t)
    BY <1>1
  <2>3. ASSUME NEW x \in ToSet(s) \cup ToSet(t) PROVE x \in ToSet(u)
    BY <1>2, <1>3, <2>2, Zenon DEF ToSet
  <2> QED
    BY <2>1, <2>3
<1>5. IsConcat(u, s, t)
  BY <1>1, <1>2, <1>3 DEF IsConcat
<1> QED
  BY <1>1, <1>4, <1>5 DEF u

\* FlattenSeq has the elements of all the sequences of a sequence.
LEMMA FlattenElements ==
  ASSUME NEW S, NEW ss \in Seq(Seq(S))
  PROVE  /\ FlattenSeq(ss) \in Seq(S)
         /\ ToSet(FlattenSeq(ss)) = UNION {ToSet(ss[i]) : i \in 1..Len(ss)}
<1> DEFINE n == Len(ss)
           Q == Seq(S)
           e == <<>>
           cat(s, i) == s \o ss[i]
           IsFlat(f) == f = [i \in 1..n |-> IF i = 1 THEN ss[i] ELSE cat(f[i - 1], i)]
           Upto(k) == UNION {ToSet(ss[i]) : i \in 1..k}
<1>1. n \in Nat /\ e \in Q /\ \A i \in 1..n : ss[i] \in Q
  OBVIOUS
<1>2. ASSUME NEW s \in Q, NEW i \in 1..n
      PROVE  cat(s, i) \in Q /\ ToSet(cat(s, i)) = ToSet(s) \cup ToSet(ss[i])
  <2>1. ss[i] \in Seq(S) /\ s \in Seq(S)
    BY <1>1
  <2> QED
    BY <2>1, ConcatElements
<1>3. \A i \in 1..n : cat(e, i) = ss[i]
  <2> SUFFICES ASSUME NEW i \in 1..n PROVE <<>> \o ss[i] = ss[i]
    OBVIOUS
  <2>1. ss[i] \in Seq(S)
    BY <1>1
  <2> DEFINE s == ss[i]
  <2> HIDE DEF s
  <2>2. s \in Seq(S) => <<>> \o s = s
    OBVIOUS
  <2> QED
    BY <2>1, <2>2 DEF s
<1>4. CASE n = 0
  <2>1. ss = <<>> /\ FlattenSeq(ss) = ss
    BY <1>4 DEF FlattenSeq
  <2>2. 1..Len(ss) = {} /\ DOMAIN ss = {}
    BY <1>4
  <2>3. ToSet(ss) = {} /\ UNION {ToSet(ss[i]) : i \in 1..Len(ss)} = {}
    BY <2>2, Zenon DEF ToSet
  <2>4. <<>> \in Seq(S)
    OBVIOUS
  <2>5. FlattenSeq(ss) \in Seq(S)
    BY <2>1, <2>4, Zenon
  <2> QED
    BY <2>1, <2>3, <2>5
<1>5. CASE n # 0
  <2>1. (\E f : IsFlat(f)) => \E f : IsFlat(f) /\ FlattenSeq(ss) = f[n]
    <3> DEFINE c == CHOOSE f : IsFlat(f)
    <3>1. FlattenSeq(ss) = c[n]
      BY <1>5, Zenon DEF FlattenSeq
    <3>2. (\E f : IsFlat(f)) => IsFlat(c)
      <4> HIDE DEF IsFlat
      <4> QED
        BY Zenon
    <3> HIDE DEF c, IsFlat
    <3> QED
      BY <3>1, <3>2, Zenon
  <2> HIDE DEF n, Q, e, cat
  <2>2. \E f : IsFlat(f)
    <3> DEFINE F == [i \in 1..n |-> [s \in Q |-> cat(s, i)]]
    <3>1. \A i \in 1..n : \A s \in Q : F[i][s] = cat(s, i)
      OBVIOUS
    <3>2. Closed(F, 1..n, Q)
      BY <1>2, <3>1 DEF Closed
    <3> HIDE DEF F
    <3>3. PICK g \in [0..n -> Q] : IsRecursion(g, n, e, F)
      BY <1>1, <3>2, RecursionExists
    <3> USE DEF IsRecursion
    <3>4. ASSUME NEW i \in 1..n PROVE g[i] = cat(g[i - 1], i)
      <4>1. i - 1 \in 0..n
        BY <1>1
      <4>2. g[i - 1] \in Q
        BY <3>3, <4>1
      <4> QED
        BY <3>1, <3>3, <4>2
    <3>5. g[1] = ss[1]
      BY <1>1, <1>3, <1>5, <3>3, <3>4
    <3> DEFINE f == [i \in 1..n |-> g[i]]
    <3>6. ASSUME NEW i \in 1..n PROVE f[i] = IF i = 1 THEN ss[i] ELSE cat(f[i - 1], i)
      <4>1. i # 1 => f[i - 1] = g[i - 1]
        BY <1>1
      <4> QED
        BY <3>4, <3>5, <4>1
    <3>7. IsFlat(f)
      BY <3>6, Zenon
    <3> QED
      BY <3>7, Zenon
  <2>3. PICK f : IsFlat(f) /\ FlattenSeq(ss) = f[n]
    BY <2>1, <2>2, Zenon
  <2>4. f[1] = ss[1] /\ \A i \in 1..n : i # 1 => f[i] = cat(f[i - 1], i)
    BY <1>1, <1>5, <2>3
  <2> HIDE DEF IsFlat
  <2> DEFINE T == {k \in Nat : k \in 1..n => f[k] \in Q /\ ToSet(f[k]) = Upto(k)}
  <2>5. 0 \in T
    OBVIOUS
  <2>6. ASSUME NEW k \in Nat, k \in T PROVE k + 1 \in T
    <3> SUFFICES ASSUME k + 1 \in 1..n
                 PROVE  f[k + 1] \in Q /\ ToSet(f[k + 1]) = Upto(k + 1)
      OBVIOUS
    <3>1. 1..(k + 1) = 1..k \cup {k + 1}
      OBVIOUS
    <3>2. Upto(k + 1) = Upto(k) \cup ToSet(ss[k + 1])
      BY <3>1
    <3>3. CASE k = 0
      <4>1. Upto(k) = {}
        BY <3>3
      <4>2. f[k + 1] = ss[k + 1] /\ ss[k + 1] \in Q
        BY <1>1, <2>4, <3>3
      <4> HIDE DEF Upto
      <4> QED
        BY <3>2, <4>1, <4>2
    <3>4. CASE k # 0
      <4>1. f[k] \in Q /\ ToSet(f[k]) = Upto(k) /\ f[k + 1] = cat(f[k], k + 1)
        <5>1. k \in 1..n /\ k + 1 # 1 /\ (k + 1) - 1 = k
          BY <1>1, <3>4
        <5>2. f[k] \in Q /\ ToSet(f[k]) = Upto(k)
          BY <2>6, <5>1
        <5>3. f[k + 1] = cat(f[(k + 1) - 1], k + 1)
          <6> HIDE DEF T
          <6> QED
            BY <2>4, <5>1
        <5> HIDE DEF T, Upto
        <5> QED
          BY <5>1, <5>2, <5>3
      <4>2. f[k + 1] \in Q /\ ToSet(f[k + 1]) = ToSet(f[k]) \cup ToSet(ss[k + 1])
        BY <1>2, <4>1
      <4> HIDE DEF Upto
      <4> QED
        BY <3>2, <4>1, <4>2, Zenon
    <3> QED
      BY <3>3, <3>4
  <2>7. n \in T
    <3> HIDE DEF T
    <3> QED
      BY <1>1, <2>5, <2>6, SetInduction, Zenon
  <2>8. f[n] \in Q /\ ToSet(f[n]) = Upto(n)
    BY <1>1, <1>5, <2>7
  <2> HIDE DEF Upto
  <2> QED
    BY <2>3, <2>8 DEF n, Q, Upto
<1> QED
  BY <1>4, <1>5

\* The elements of a sequence are finitely many.
LEMMA SequenceIsFinite ==
  ASSUME NEW S, NEW s \in Seq(S)
  PROVE  IsFiniteSet(ToSet(s))
<1>1. /\ s \in [1..Len(s) -> ToSet(s)] /\ \A x \in ToSet(s) : \E i \in 1..Len(s) : s[i] = x
      /\ Len(s) \in Int /\ 1 \in Int
  BY DEF ToSet
<1>2. s \in Surjection(1..Len(s), ToSet(s))
  BY <1>1, Zenon DEF Surjection
<1>3. IsFiniteSet(1..Len(s))
  BY <1>1, FS_Interval, Zenon
<1> QED
  BY <1>2, <1>3, FS_Surjection
=============================================================================
