----------------------------- MODULE SafeProofs -----------------------------
(***************************************************************************)
(* The safe agent, for every set of nodes, all statistics, all pods, all   *)
(* percentiles above zero and whatever probabilities the fitted            *)
(* distributions give.                                                     *)
(***************************************************************************)
EXTENDS SafeAgent, DataProofs

\* The scheduling cycle changes none of its inputs, and its results are those
\* of the two functions.
SafeInv ==
  /\ stats \in [Node -> [Resources -> NodeStats]] /\ pod \in Pods /\ percentile \in SafePercentiles
  /\ belowLimit \in [FittedUtilizations -> Probabilities]
  /\ phase # "filter" => accepted = {n \in Node : PredicateFunc(n)}
  /\ phase = "done" => scores = [overload |-> [n \in Node |-> PriorityFunc(n, FALSE)],
                                 balance  |-> [n \in Node |-> PriorityFunc(n, TRUE)]]

\* The scores a cycle ends with are those of its statistics.
LEMMA SafeInvariant == Spec => []SafeInv
<1>1. Init => SafeInv
  BY DEF Init, SafeInv
<1>2. SafeInv /\ [Next]_vars => SafeInv'
  <2> SUFFICES ASSUME SafeInv, [Next]_vars PROVE SafeInv'
    OBVIOUS
  <2>1. UNCHANGED <<stats, pod, percentile, belowLimit>>
    BY Zenon DEF Next, Filter, Prioritize, vars
  <2>2. /\ \A u : computeRisk(u)' = computeRisk(u) /\ BalanceScore(u)' = BalanceScore(u)
        /\ \A risk : OverloadScore(risk)' = OverloadScore(risk)
        /\ \A n : ValidResources(n)' = ValidResources(n)
        /\ \A n, r : Utilization(n, r)' = Utilization(n, r)
    BY <2>1 DEF computeRisk, computeRank, OverloadScore, ValidResources, Utilization
  <2>3. /\ \A n : PredicateFunc(n)' = PredicateFunc(n)
        /\ \A n, isBalance : PriorityFunc(n, isBalance)' = PriorityFunc(n, isBalance)
    <3>1. \A n, r : SafePredicate(n, r)' = SafePredicate(n, r)
      BY <2>1, <2>2 DEF SafePredicate
    <3>2. \A u, isBalance : computeScore(u, isBalance)' = computeScore(u, isBalance)
      BY <2>2 DEF computeScore
    <3>3. ASSUME NEW n, NEW isBalance PROVE PriorityFunc(n, isBalance)' = PriorityFunc(n, isBalance)
      BY <2>2, <3>2 DEF PriorityFunc
    <3> QED
      BY <3>1, <3>3 DEF PredicateFunc
  <2>4. CASE Filter
    BY <2>1, <2>3, <2>4 DEF SafeInv, Filter
  <2>5. CASE Prioritize
    BY <2>1, <2>3, <2>5, Zenon DEF SafeInv, Prioritize
  <2>6. CASE UNCHANGED vars
    BY <2>1, <2>3, <2>6, Zenon DEF SafeInv, vars
  <2> QED
    BY <2>4, <2>5, <2>6 DEF Next
<1> QED
  BY <1>1, <1>2, PTL DEF Spec

-----------------------------------------------------------------------------
(***************************************************************************)
(* The utilizations and their risks.                                       *)
(***************************************************************************)

\* The larger and the smaller of two integers.
LEMMA PairExtremes ==
  ASSUME NEW x \in Int, NEW y \in Int
  PROVE  /\ Max({x, y}) \in {x, y} /\ Max({x, y}) >= x /\ Max({x, y}) >= y
         /\ Min({x, y}) \in {x, y} /\ Min({x, y}) <= x /\ Min({x, y}) <= y
<1>1. {x, y} \in SUBSET Int /\ {x, y} # {}
  OBVIOUS
<1>2. IsFiniteSet({x, y})
  <2>1. IsFiniteSet({x})
    BY FS_Singleton
  <2>2. {x, y} = {x} \cup {y}
    OBVIOUS
  <2> QED
    BY <2>1, <2>2, FS_AddElement
<1> QED
  BY <1>1, <1>2, GreatestOf, LeastOf

\* The parameters of the agent are numbers.
LEMMA ParameterType ==
  /\ D \in Nat /\ D \in Int /\ D > 0
  /\ ForecastWeight \in Int
  /\ \A p \in SafePercentiles : p \in 0..100
<1>1. Capacity \in Nat /\ Capacity # 0
  BY SafeAssumption
<1>2. ForecastWeight \in 0..100 /\ \A p \in SafePercentiles : p \in 0..100
  BY SafeAssumption, Zenon
<1> QED
  BY <1>1, <1>2 DEF D

\* Facts on the order of scores.
LEMMA Ordered ==
  /\ \A x, y, z \in Int : x <= y /\ y <= z => x <= z
  /\ \A x, y \in Int : x <= y => y >= x
  /\ \A x \in 0..MaxPriority : x \in Int
  BY DEF MaxPriority

\* A utilization is between 0 and 1.
LEMMA ClampRange ==
  ASSUME NEW x \in Int
  PROVE  D \in Nat /\ D > 0 /\ Clamp(x) \in 0..D
<1>1. D \in Nat /\ D \in Int /\ D > 0
  BY ParameterType
<1> DEFINE y == Min({x, D})
           z == Max({0, y})
<1>2. y \in {x, D} /\ y <= D
  BY <1>1, PairExtremes, Zenon
<1> HIDE DEF y
<1>3. y \in Int /\ 0 \in Int
  BY <1>1, <1>2
<1>4. z \in {0, y} /\ z >= 0
  BY <1>3, PairExtremes
<1> QED
  BY <1>1, <1>2, <1>3, <1>4 DEF Clamp, y

\* The demand of a pod is a number.
LEMMA RequestType ==
  ASSUME NEW request, request.containers \in Seq(Int), request.initContainers \in Seq(Int)
  PROVE  getResourceRequest(request) \in Int
<1> DEFINE c == request.containers
           i == request.initContainers
           t == Total(c, DOMAIN c)
<1>1. /\ DOMAIN c = 1..Len(c) /\ Len(c) \in Int /\ 1 \in Int /\ \A k \in DOMAIN c : c[k] \in Int
      /\ ToSet(i) \subseteq Int
  BY DEF ToSet
<1>2. IsFiniteSet(DOMAIN c)
  BY <1>1, FS_Interval
<1>3. t \in Int
  BY <1>1, <1>2, TotalRemove
<1>4. IsFiniteSet({t} \cup ToSet(i))
  <2>1. IsFiniteSet(ToSet(i))
    BY SequenceIsFinite
  <2>2. {t} \cup ToSet(i) = ToSet(i) \cup {t}
    OBVIOUS
  <2> QED
    BY <2>1, <2>2, FS_AddElement, Zenon
<1>5. getResourceRequest(request) = Max({t} \cup ToSet(i))
  BY DEF getResourceRequest
<1> HIDE DEF t
<1>6. {t} \cup ToSet(i) \in SUBSET Int /\ {t} \cup ToSet(i) # {}
  BY <1>1, <1>3
<1> QED
  BY <1>4, <1>5, <1>6, GreatestOf, Zenon

\* getMuSigma() gives fractions of the capacity.
LEMMA UtilizationType ==
  ASSUME SafeInv, NEW n \in Node, NEW r \in ValidResources(n)
  PROVE  Utilization(n, r).mu \in 0..D /\ Utilization(n, r).sigma \in 0..D
<1> DEFINE s == stats[n][r]
           demand == getResourceRequest(pod[r])
           freeAvg == IF s.forecast = NULL THEN 100 * s.mean
                      ELSE (100 - ForecastWeight) * s.mean + ForecastWeight * s.forecast
           std == IF s.std = NULL THEN 0 ELSE s.std
<1>1. r \in Resources /\ s \in NodeStats \ {NULL}
  BY DEF SafeInv, ValidResources
<1>2. s.mean \in Int /\ (s.std # NULL => s.std \in Int) /\ (s.forecast # NULL => s.forecast \in Int)
  BY <1>1, SafeAssumption
<1>3. demand \in Int
  <2>1. pod \in Pods /\ r \in Resources
    BY <1>1 DEF SafeInv
  <2>2. {pod[r].containers, pod[r].initContainers} \subseteq Seq(Int)
    BY <2>1, SafeAssumption
  <2> QED
    BY <2>2, RequestType
<1>4. freeAvg \in Int /\ std \in Int /\ D - freeAvg \in Int /\ 0 \in Int
  <2>1. ForecastWeight \in Int /\ D \in Int
    BY ParameterType
  <2> HIDE DEF s
  <2>2. freeAvg \in Int
    BY <1>2, <2>1
  <2>3. std \in Int
    BY <1>2
  <2> HIDE DEF freeAvg
  <2> QED
    BY <2>1, <2>2, <2>3
<1> HIDE DEF demand, freeAvg, std
<1>5. Max({D - freeAvg, 0}) \in Int
  <2> DEFINE y == D - freeAvg
  <2>1. y \in Int
    BY <1>4
  <2> HIDE DEF y
  <2>2. Max({y, 0}) \in {y, 0}
    BY <1>4, <2>1, PairExtremes, Zenon
  <2> QED
    BY <2>1, <2>2 DEF y
<1>6. Max({D - freeAvg, 0}) + 100 * demand \in Int /\ 100 * std \in Int
  BY <1>3, <1>4, <1>5
<1>7. /\ Utilization(n, r).mu = Clamp(Max({D - freeAvg, 0}) + 100 * demand)
      /\ Utilization(n, r).sigma = Clamp(100 * std)
  BY DEF Utilization, getMuSigma, demand, freeAvg, std
<1> QED
  BY <1>6, <1>7, ClampRange

\* computeRisk() gives a percentage, whatever the beta distribution gives.
LEMMA RiskType ==
  ASSUME SafeInv, NEW n \in Node, NEW r \in ValidResources(n)
  PROVE  computeRisk(Utilization(n, r)) \in 0..100
<1> DEFINE u == Utilization(n, r)
<1>1. ASSUME u.mu # 0, u.sigma # 0, MatchMoments(u) PROVE u \in FittedUtilizations
  <2>1. r \in Resources /\ stats[n][r] \in NodeStats \ {NULL} /\ pod \in Pods
    BY DEF SafeInv, ValidResources
  <2>2. u \in {getMuSigma(s, getResourceRequest(p[q])) :
                 s \in NodeStats \ {NULL}, p \in Pods, q \in Resources}
    BY <2>1 DEF Utilization
  <2> QED
    BY <1>1, <2>2 DEF FittedUtilizations
<1>2. u \in FittedUtilizations => belowLimit[u] \in (0..100) \cup {NaN}
  BY SafeAssumption, Zenon DEF SafeInv
<1> HIDE DEF u
<1>3. computeRank(u) \in 0..100
  BY <1>1, <1>2 DEF computeRank
<1> QED
  BY <1>3 DEF computeRisk, u

-----------------------------------------------------------------------------
(***************************************************************************)
(* The scores.                                                             *)
(***************************************************************************)

\* A bounded set of scores has a greatest one, and a larger set a greater one.
LEMMA TopScore ==
  ASSUME NEW S \in SUBSET (0..MaxPriority), 0 \in S
  PROVE  /\ Max(S) \in 0..MaxPriority
         /\ \A R \in SUBSET (0..MaxPriority) : S \subseteq R => Max(S) <= Max(R)
<1>1. IsFiniteSet(0..MaxPriority) /\ (0..MaxPriority) \in SUBSET Int
  <2>1. 0 \in Int /\ MaxPriority \in Int
    BY DEF MaxPriority
  <2> QED
    BY <2>1, FS_Interval
<1>2. ASSUME NEW R \in SUBSET (0..MaxPriority), 0 \in R
      PROVE  Max(R) \in R /\ \A y \in R : Max(R) >= y
  <2>1. R \in SUBSET Int /\ IsFiniteSet(R) /\ R # {}
    BY <1>1, <1>2, FS_Subset, Zenon
  <2> QED
    BY <2>1, GreatestOf
<1>3. ASSUME NEW R \in SUBSET (0..MaxPriority), S \subseteq R PROVE Max(S) <= Max(R)
  <2>1. Max(S) \in S
    BY <1>2
  <2>2. Max(R) \in R /\ Max(R) >= Max(S)
    BY <1>2, <1>3, <2>1, Zenon
  <2>3. Max(R) \in Int /\ Max(S) \in Int
    BY <1>1, <2>1, <2>2, Zenon
  <2> QED
    BY <2>2, <2>3
<1>4. Max(S) \in 0..MaxPriority
  BY <1>2, Zenon
<1> QED
  BY <1>3, <1>4

\* The scores of 'safe-overload', for a percentile above zero, fall with the risk
\* and are 0 from the percentile on.
LEMMA OverloadAntitone ==
  ASSUME percentile \in 1..100, NEW x \in Nat, NEW y \in Nat, x <= y
  PROVE  /\ OverloadScore(x) \in 0..MaxPriority
         /\ OverloadScore(y) <= OverloadScore(x)
         /\ x >= percentile => OverloadScore(x) = 0
<1> DEFINE S(z) == {k \in 0..MaxPriority : 100 * z <= (MaxPriority - k) * (MaxPriority - k) * percentile}
<1>1. \A z \in Nat : OverloadScore(z) = IF z >= percentile THEN 0 ELSE Max(S(z))
  BY DEF OverloadScore
<1>2. ASSUME NEW z \in Nat, z < percentile PROVE S(z) \in SUBSET (0..MaxPriority) /\ 0 \in S(z)
  BY <1>2 DEF MaxPriority
<1>3. S(y) \subseteq S(x)
  <2> SUFFICES ASSUME NEW k \in 0..MaxPriority,
                      100 * y <= (MaxPriority - k) * (MaxPriority - k) * percentile
               PROVE  100 * x <= (MaxPriority - k) * (MaxPriority - k) * percentile
    OBVIOUS
  <2>1. (MaxPriority - k) * (MaxPriority - k) * percentile \in Int
    BY DEF MaxPriority
  <2> DEFINE w == (MaxPriority - k) * (MaxPriority - k) * percentile
  <2> HIDE DEF w
  <2>2. 100 * y <= w /\ w \in Int
    BY <2>1 DEF w
  <2>3. 100 * x <= w
    BY <2>2
  <2> QED
    BY <2>3 DEF w
<1> HIDE DEF S
<1>4. ASSUME NEW z \in Nat, z < percentile PROVE Max(S(z)) \in 0..MaxPriority
  BY <1>2, <1>4, TopScore
<1>5. ASSUME y < percentile PROVE Max(S(y)) <= Max(S(x))
  <2>1. x < percentile
    BY <1>5
  <2> QED
    BY <1>2, <1>3, <1>5, <2>1, TopScore
<1>6. 0 \in 0..MaxPriority /\ MaxPriority \in Nat
  BY DEF MaxPriority
<1>7. OverloadScore(x) \in 0..MaxPriority /\ (x >= percentile => OverloadScore(x) = 0)
  BY <1>1, <1>4, <1>6
<1>8. CASE y >= percentile
  BY <1>1, <1>6, <1>7, <1>8
<1>9. CASE y < percentile
  BY <1>1, <1>5, <1>7, <1>9
<1> QED
  BY <1>7, <1>8, <1>9

\* The scores of 'safe-balance' fall with the mean and with the deviation.
LEMMA BalanceAntitone ==
  ASSUME NEW u, NEW v, u.mu \in 0..D, u.sigma \in 0..D, v.mu \in 0..D, v.sigma \in 0..D,
         u.mu <= v.mu, u.sigma <= v.sigma
  PROVE  BalanceScore(u) \in 0..MaxPriority /\ BalanceScore(v) <= BalanceScore(u)
<1> DEFINE X(w, k) == 21 * D - 10 * w.mu - 2 * k * D
           S(w) == {k \in 0..MaxPriority : X(w, k) >= 0 /\ X(w, k) * X(w, k) >= 100 * D * w.sigma}
<1>1. D \in Nat
  BY ParameterType
<1>2. \A w : BalanceScore(w) = Max(S(w))
  BY DEF BalanceScore
<1>3. ASSUME NEW w, w.mu \in 0..D, w.sigma \in 0..D PROVE S(w) \in SUBSET (0..MaxPriority) /\ 0 \in S(w)
  <2>1. X(w, 0) \in Int /\ X(w, 0) >= 11 * D
    BY <1>1, <1>3
  <2> DEFINE x == X(w, 0)
  <2> HIDE DEF X
  <2>2. x \in Nat /\ x * x >= (11 * D) * x /\ (11 * D) * x >= (11 * D) * (11 * D)
    <3>1. x \in Nat /\ x >= 11 * D /\ 11 * D \in Nat
      BY <1>1, <2>1
    <3> HIDE DEF x
    <3> QED
      BY <3>1
  <2>3. D * w.sigma <= D * D /\ D * w.sigma \in Nat /\ D * D \in Nat
    BY <1>1, <1>3
  <2>4. 100 * D * w.sigma = 100 * (D * w.sigma) /\ (11 * D) * (11 * D) = 121 * (D * D)
    BY <1>1, <1>3
  <2>5. x * x \in Int /\ (11 * D) * x \in Int
    BY <1>1, <2>2
  <2>6. x * x >= 100 * D * w.sigma /\ x >= 0
    BY <2>2, <2>3, <2>4, <2>5
  <2> QED
    BY <2>6 DEF MaxPriority
<1>4. S(v) \subseteq S(u)
  <2> SUFFICES ASSUME NEW k \in 0..MaxPriority, X(v, k) >= 0, X(v, k) * X(v, k) >= 100 * D * v.sigma
               PROVE  X(u, k) >= 0 /\ X(u, k) * X(u, k) >= 100 * D * u.sigma
    OBVIOUS
  <2>1. X(v, k) \in Int /\ X(u, k) \in Int /\ X(u, k) >= X(v, k)
    BY <1>1 DEF MaxPriority
  <2> DEFINE x == X(u, k)
             y == X(v, k)
  <2> HIDE DEF X
  <2>2. x \in Nat /\ y \in Nat /\ x >= y
    BY <2>1
  <2>3. x * x >= y * y /\ x * x \in Int /\ y * y \in Int
    <3> HIDE DEF x, y
    <3>1. x * x >= x * y /\ x * y >= y * y /\ x * y \in Int /\ x * x \in Int /\ y * y \in Int
      BY <2>2
    <3> QED
      BY <3>1
  <2>4. 100 * D * v.sigma >= 100 * D * u.sigma /\ 100 * D * v.sigma \in Int /\ 100 * D * u.sigma \in Int
    <3>1. D * v.sigma >= D * u.sigma /\ D * v.sigma \in Int /\ D * u.sigma \in Int
      BY <1>1
    <3>2. 100 * D * v.sigma = 100 * (D * v.sigma) /\ 100 * D * u.sigma = 100 * (D * u.sigma)
      BY <1>1
    <3> QED
      BY <3>1, <3>2
  <2> QED
    BY <2>2, <2>3, <2>4
<1> HIDE DEF S
<1>5. S(v) \in SUBSET (0..MaxPriority) /\ 0 \in S(v) /\ S(u) \in SUBSET (0..MaxPriority) /\ 0 \in S(u)
  BY <1>3
<1>6. Max(S(v)) <= Max(S(u)) /\ Max(S(u)) \in 0..MaxPriority
  BY <1>4, <1>5, TopScore
<1> QED
  BY <1>2, <1>6

-----------------------------------------------------------------------------
(***************************************************************************)
(* The priority functions.                                                 *)
(***************************************************************************)

\* The values of a function of the resources of a node: finitely many.
LEMMA ResourceValues ==
  ASSUME NEW n, NEW f, \A r \in ValidResources(n) : f[r] \in Int, ValidResources(n) # {}
  PROVE  /\ \E r \in ValidResources(n) : f[r] = Min({f[q] : q \in ValidResources(n)})
         /\ \A r \in ValidResources(n) : Min({f[q] : q \in ValidResources(n)}) <= f[r]
         /\ \E r \in ValidResources(n) : f[r] = Max({f[q] : q \in ValidResources(n)})
         /\ \A r \in ValidResources(n) : Max({f[q] : q \in ValidResources(n)}) >= f[r]
<1> DEFINE V == ValidResources(n)
           W == {f[q] : q \in V}
<1>1. IsFiniteSet(V)
  <2>1. IsFiniteSet({"cpu"})
    BY FS_Singleton
  <2>2. Resources = {"cpu"} \cup {"memory"}
    BY DEF Resources
  <2>3. IsFiniteSet(Resources)
    BY <2>1, <2>2, FS_AddElement
  <2> QED
    BY <2>3, FS_Subset DEF ValidResources
<1> HIDE DEF V
<1>2. IsFiniteSet(W)
  <2> DEFINE g == [q \in V |-> f[q]]
  <2>1. g \in [V -> W] /\ \A y \in W : \E q \in V : g[q] = y
    OBVIOUS
  <2>2. g \in Surjection(V, W)
    BY <2>1, Zenon DEF Surjection
  <2> QED
    BY <1>1, <2>2, FS_Surjection
<1>3. W \in SUBSET Int /\ W # {}
  BY DEF V
<1>4. Min(W) \in W /\ (\A y \in W : Min(W) <= y) /\ Max(W) \in W /\ (\A y \in W : Max(W) >= y)
  <2> HIDE DEF W
  <2> QED
    BY <1>2, <1>3, GreatestOf, LeastOf
<1> QED
  BY <1>4, Zenon DEF V

\* PriorityFunc() gives the least of the scores for the resources.
LEMMA LeastScore ==
  ASSUME NEW n, NEW isBalance, NEW f, ValidResources(n) # {},
         \A r \in ValidResources(n) : f[r] = computeScore(Utilization(n, r), isBalance) /\ f[r] \in Int
  PROVE  /\ \E r \in ValidResources(n) : PriorityFunc(n, isBalance) = f[r]
         /\ \A r \in ValidResources(n) : PriorityFunc(n, isBalance) <= f[r]
<1>1. {computeScore(Utilization(n, r), isBalance) : r \in ValidResources(n)}
        = {f[r] : r \in ValidResources(n)}
  BY Zenon
<1>2. PriorityFunc(n, isBalance) = Min({f[r] : r \in ValidResources(n)})
  BY <1>1 DEF PriorityFunc
<1>3. \A r \in ValidResources(n) : f[r] \in Int
  OBVIOUS
<1>4. /\ \E r \in ValidResources(n) : f[r] = Min({f[q] : q \in ValidResources(n)})
      /\ \A r \in ValidResources(n) : Min({f[q] : q \in ValidResources(n)}) <= f[r]
  BY <1>3, ResourceValues, Zenon
<1> QED
  BY <1>2, <1>4, Zenon

\* The risk of a node is the greatest of those for the resources.
LEMMA GreatestRisk ==
  ASSUME NEW n, NEW g, ValidResources(n) # {},
         \A r \in ValidResources(n) : g[r] = computeRisk(Utilization(n, r)) /\ g[r] \in Int
  PROVE  /\ \E r \in ValidResources(n) : Risk(n) = g[r]
         /\ \A r \in ValidResources(n) : Risk(n) >= g[r]
<1>1. {computeRisk(Utilization(n, r)) : r \in ValidResources(n)} = {g[r] : r \in ValidResources(n)}
  BY Zenon
<1>2. Risk(n) = Max({g[r] : r \in ValidResources(n)})
  BY <1>1, Zenon DEF Risk
<1>3. \A r \in ValidResources(n) : g[r] \in Int
  OBVIOUS
<1>4. /\ \E r \in ValidResources(n) : g[r] = Max({g[q] : q \in ValidResources(n)})
      /\ \A r \in ValidResources(n) : Max({g[q] : q \in ValidResources(n)}) >= g[r]
  BY <1>3, ResourceValues, Zenon
<1> QED
  BY <1>2, <1>4, Zenon

\* The risks and the overload scores of a node with statistics: the score is
\* that of one of the risks and not above those of the others.
ResourceRisk(n, r) == computeRisk(Utilization(n, r))

OverloadFacts(n) ==
  /\ PriorityFunc(n, FALSE) \in Nat
  /\ \E r \in ValidResources(n) : PriorityFunc(n, FALSE) = OverloadScore(ResourceRisk(n, r))
  /\ \A r \in ValidResources(n) : /\ OverloadScore(ResourceRisk(n, r)) \in Nat
                                   /\ PriorityFunc(n, FALSE) <= OverloadScore(ResourceRisk(n, r))

RiskFacts(n) ==
  /\ \A r \in ValidResources(n) : ResourceRisk(n, r) \in Nat /\ ResourceRisk(n, r) <= Risk(n)
  /\ \E r \in ValidResources(n) : Risk(n) = ResourceRisk(n, r)

\* The overload score is that of the resource at the greatest risk, because the
\* score falls with the risk.
LEMMA OverloadOf ==
  ASSUME SafeInv, percentile \in 1..100, NEW n \in Node, ValidResources(n) # {}
  PROVE  OverloadFacts(n) /\ RiskFacts(n)
<1> DEFINE V == ValidResources(n)
           f == [r \in V |-> OverloadScore(ResourceRisk(n, r))]
           g == [r \in V |-> ResourceRisk(n, r)]
<1>1. ASSUME NEW r \in V PROVE ResourceRisk(n, r) \in Nat
  BY RiskType DEF ResourceRisk
<1>2. ASSUME NEW r \in V PROVE OverloadScore(ResourceRisk(n, r)) \in Nat
  <2>1. ResourceRisk(n, r) \in Nat /\ ResourceRisk(n, r) <= ResourceRisk(n, r)
    BY <1>1
  <2>2. OverloadScore(ResourceRisk(n, r)) \in 0..MaxPriority
    BY <2>1, OverloadAntitone
  <2> QED
    BY <2>2 DEF MaxPriority
<1>3. \A r \in V : f[r] = OverloadScore(ResourceRisk(n, r)) /\ f[r] \in Int
  BY <1>2
<1>4. \A r \in V : g[r] = ResourceRisk(n, r) /\ g[r] \in Int
  BY <1>1
<1>5. \A r \in V : f[r] = computeScore(Utilization(n, r), FALSE) /\ f[r] \in Int
  BY <1>3 DEF computeScore, ResourceRisk
<1> HIDE DEF f, g
<1>6. /\ \E r \in V : PriorityFunc(n, FALSE) = f[r]
      /\ \A r \in V : PriorityFunc(n, FALSE) <= f[r]
  BY <1>5, LeastScore, Zenon
<1>7. OverloadFacts(n)
  BY <1>2, <1>3, <1>6, Zenon DEF OverloadFacts
<1>8. \A r \in V : g[r] = computeRisk(Utilization(n, r)) /\ g[r] \in Int
  BY <1>4, Zenon DEF ResourceRisk
<1>9. (\E r \in V : Risk(n) = g[r]) /\ \A r \in V : Risk(n) >= g[r]
  BY <1>8, GreatestRisk, Zenon
<1>10. (\E r \in V : Risk(n) = ResourceRisk(n, r)) /\ \A r \in V : Risk(n) >= ResourceRisk(n, r)
  BY <1>4, <1>9, Zenon
<1>11. RiskFacts(n)
  BY <1>1, <1>10 DEF RiskFacts
<1> QED
  BY <1>7, <1>11

\* And its balance scores.
LEMMA BalanceOf ==
  ASSUME SafeInv, NEW n \in Node, ValidResources(n) # {}
  PROVE  /\ PriorityFunc(n, TRUE) \in Int
         /\ \E r \in ValidResources(n) : PriorityFunc(n, TRUE) = BalanceScore(Utilization(n, r))
         /\ \A r \in ValidResources(n) : /\ BalanceScore(Utilization(n, r)) \in Int
                                          /\ PriorityFunc(n, TRUE) <= BalanceScore(Utilization(n, r))
<1> DEFINE V == ValidResources(n)
           f == [r \in V |-> BalanceScore(Utilization(n, r))]
<1>1. ASSUME NEW r \in V PROVE BalanceScore(Utilization(n, r)) \in Int
  <2> DEFINE u == Utilization(n, r)
  <2>1. u.mu \in 0..D /\ u.sigma \in 0..D
    BY UtilizationType
  <2> HIDE DEF u
  <2>2. u.mu <= u.mu /\ u.sigma <= u.sigma
    BY <2>1, ParameterType
  <2>3. BalanceScore(u) \in 0..MaxPriority
    BY <2>1, <2>2, BalanceAntitone
  <2> QED
    BY <2>3 DEF u, MaxPriority
<1>2. \A r \in V : f[r] = BalanceScore(Utilization(n, r)) /\ f[r] \in Int
  BY <1>1
<1>3. \A r \in V : f[r] = computeScore(Utilization(n, r), TRUE) /\ f[r] \in Int
  BY <1>2 DEF computeScore
<1> HIDE DEF f
<1>4. /\ \E r \in V : PriorityFunc(n, TRUE) = f[r]
      /\ \A r \in V : PriorityFunc(n, TRUE) <= f[r]
  BY <1>3, LeastScore, Zenon
<1> QED
  BY <1>1, <1>2, <1>4, Zenon

\* PrioritizeRoute answers with the scores of the two functions.
LEMMA ScoresGiven ==
  ASSUME SafeInv, phase = "done", NEW n \in Node
  PROVE  scores.overload[n] = PriorityFunc(n, FALSE) /\ scores.balance[n] = PriorityFunc(n, TRUE)
<1>1. scores = [overload |-> [m \in Node |-> PriorityFunc(m, FALSE)],
                balance  |-> [m \in Node |-> PriorityFunc(m, TRUE)]]
  BY Zenon DEF SafeInv
<1> QED
  BY <1>1, Zenon

\* With a percentile above zero, a node that the 'safe-overload' predicate
\* rejects has the lowest 'safe-overload' score: PredicateFunc and PriorityFunc,
\* which each work out the risk for themselves, agree.
THEOREM FilterAgreesWithScoreCorrect ==
  ASSUME 0 \notin SafePercentiles
  PROVE  Spec => []FilterAgreesWithScore
<1>1. SafeInv => FilterAgreesWithScore
  <2> SUFFICES ASSUME SafeInv, phase = "done", NEW n \in Node, n \notin accepted
               PROVE  scores.overload[n] = 0
    BY DEF FilterAgreesWithScore
  <2>1. percentile \in 1..100
    BY ParameterType DEF SafeInv
  <2>2. PICK r \in ValidResources(n) : ~(ResourceRisk(n, r) <= percentile)
    BY DEF SafeInv, PredicateFunc, SafePredicate, ResourceRisk
  <2>3. OverloadFacts(n) /\ RiskFacts(n)
    BY <2>1, <2>2, OverloadOf
  <2> DEFINE risk == ResourceRisk(n, r)
  <2>4. risk \in Nat
    BY <2>3 DEF RiskFacts
  <2>5. PriorityFunc(n, FALSE) \in Nat /\ PriorityFunc(n, FALSE) <= OverloadScore(risk)
    BY <2>3, Zenon DEF OverloadFacts
  <2> HIDE DEF risk
  <2>6. risk >= percentile /\ risk <= risk
    BY <2>1, <2>2, <2>4 DEF risk
  <2>7. OverloadScore(risk) = 0
    BY <2>1, <2>4, <2>6, OverloadAntitone
  <2>8. \A x \in Nat : x <= 0 => x = 0
    OBVIOUS
  <2>9. PriorityFunc(n, FALSE) = 0
    BY <2>5, <2>7, <2>8, Zenon
  <2> QED
    BY <2>9, ScoresGiven, Zenon
<1> QED
  BY <1>1, SafeInvariant, PTL

\* With a percentile above zero, a node with less risk does not get the lower
\* 'safe-overload' score.
THEOREM OverloadOrdersByRiskCorrect ==
  ASSUME 0 \notin SafePercentiles
  PROVE  Spec => []OverloadOrdersByRisk
<1>1. SafeInv => OverloadOrdersByRisk
  <2> SUFFICES ASSUME SafeInv, phase = "done", NEW a \in Node, NEW b \in Node,
                      ValidResources(a) # {}, ValidResources(b) # {}, Risk(a) < Risk(b)
               PROVE  scores.overload[a] >= scores.overload[b]
    BY DEF OverloadOrdersByRisk
  <2>1. percentile \in 1..100
    BY ParameterType DEF SafeInv
  <2>2. OverloadFacts(a) /\ RiskFacts(a) /\ OverloadFacts(b) /\ RiskFacts(b)
    BY <2>1, OverloadOf
  <2>3. PICK r \in ValidResources(a) : PriorityFunc(a, FALSE) = OverloadScore(ResourceRisk(a, r))
    BY <2>2, Zenon DEF OverloadFacts
  <2>4. PICK q \in ValidResources(b) : Risk(b) = ResourceRisk(b, q)
    BY <2>2, Zenon DEF RiskFacts
  <2> DEFINE x == ResourceRisk(a, r)
             y == ResourceRisk(b, q)
  <2>5. x \in Nat /\ y \in Nat /\ x <= Risk(a) /\ Risk(a) \in Nat
    BY <2>2 DEF RiskFacts
  <2> HIDE DEF x, y
  <2>6. x <= y
    BY <2>4, <2>5 DEF y
  <2>7. OverloadScore(y) <= OverloadScore(x)
    BY <2>1, <2>5, <2>6, OverloadAntitone
  <2>8. /\ PriorityFunc(b, FALSE) <= OverloadScore(y) /\ PriorityFunc(a, FALSE) = OverloadScore(x)
        /\ OverloadScore(y) \in Nat /\ OverloadScore(x) \in Nat /\ PriorityFunc(b, FALSE) \in Nat
    BY <2>2, <2>3, Zenon DEF OverloadFacts, x, y
  <2>9. \A i, j, k \in Nat : i <= j /\ j <= k => k >= i
    OBVIOUS
  <2>10. PriorityFunc(a, FALSE) >= PriorityFunc(b, FALSE)
    BY <2>7, <2>8, <2>9, Zenon
  <2> QED
    BY <2>10, ScoresGiven, Zenon
<1> QED
  BY <1>1, SafeInvariant, PTL

\* For any percentile, 'safe-balance' never prefers a node whose mean and
\* deviation are no smaller for any resource.
THEOREM BalanceRespectsDominanceCorrect == Spec => []BalanceRespectsDominance
<1> DEFINE NoWorse(a, b) ==
             \A r \in ValidResources(a) : /\ Utilization(a, r).mu <= Utilization(b, r).mu
                                          /\ Utilization(a, r).sigma <= Utilization(b, r).sigma
<1>1. SafeInv => BalanceRespectsDominance
  <2> SUFFICES ASSUME SafeInv, phase = "done", NEW a \in Node, NEW b \in Node,
                      ValidResources(a) = ValidResources(b), NoWorse(a, b)
               PROVE  scores.balance[a] >= scores.balance[b]
    BY Zenon DEF BalanceRespectsDominance
  <2> HIDE DEF NoWorse
  <2>1. scores.balance[a] = PriorityFunc(a, TRUE) /\ scores.balance[b] = PriorityFunc(b, TRUE)
    BY ScoresGiven, Zenon
  <2>2. CASE ValidResources(a) = {}
    BY <2>1, <2>2 DEF PriorityFunc
  <2>3. CASE ValidResources(a) # {}
    <3>1. PICK r \in ValidResources(a) : PriorityFunc(a, TRUE) = BalanceScore(Utilization(a, r))
      BY <2>3, BalanceOf, Zenon
    <3>2. PriorityFunc(b, TRUE) <= BalanceScore(Utilization(b, r)) /\ PriorityFunc(b, TRUE) \in Int
      BY <2>3, <3>1, BalanceOf, Zenon
    <3> DEFINE u == Utilization(a, r)
               v == Utilization(b, r)
    <3>3. u.mu \in 0..D /\ u.sigma \in 0..D /\ v.mu \in 0..D /\ v.sigma \in 0..D
      BY <3>1, UtilizationType
    <3>4. u.mu <= v.mu /\ u.sigma <= v.sigma
      BY <3>1, Zenon DEF NoWorse
    <3> HIDE DEF u, v
    <3>5. BalanceScore(v) <= BalanceScore(u)
      BY <3>3, <3>4, BalanceAntitone
    <3>6. BalanceScore(u) \in Int /\ BalanceScore(v) \in Int
      BY <2>3, BalanceOf, Zenon DEF u, v
    <3>7. PriorityFunc(b, TRUE) <= BalanceScore(v) /\ PriorityFunc(a, TRUE) = BalanceScore(u)
      BY <3>1, <3>2, Zenon DEF u, v
    <3>8. PriorityFunc(b, TRUE) <= PriorityFunc(a, TRUE) /\ PriorityFunc(a, TRUE) \in Int
      BY <3>2, <3>5, <3>6, <3>7, Ordered, Zenon
    <3> QED
      BY <2>1, <3>2, <3>8, Ordered, Zenon
  <2> QED
    BY <2>2, <2>3
<1> QED
  BY <1>1, SafeInvariant, PTL
=============================================================================
