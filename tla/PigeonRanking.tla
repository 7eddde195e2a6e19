--------------------------- MODULE PigeonRanking ----------------------------
(***************************************************************************)
(* The values behind the priorities of the pigeon agent: the policy        *)
(* objective that the configuration file and the environment select        *)
(* (evaluator.c, reader.c, client.go), its value for a pod on each node    *)
(* (objective/*.c, with the numerics of utils/), the demand statistics it  *)
(* learns from, and the priorities ComputeRank makes of the values         *)
(* (pigeon/agent.go).                                                      *)
(*                                                                         *)
(* Utilizations are multiples of 1/U.  Values are fixed-point numbers, in  *)
(* units of 1/Scale, rounded down; rounding keeps their order, though two  *)
(* close values may become equal.                                          *)
(***************************************************************************)
EXTENDS DemandStats, FiniteSetsExt, Functions

CONSTANTS
  Node, NULL,
  NaN,              \* the value of a node that cannot take the pod
  U,                \* utilizations are multiples of 1/U
  Capacities,       \* the capacities of the nodes: functions from Node to vectors
  Usages,           \* usage vectors a node may be observed with
  Demands,          \* demand vectors of pods
  FileObjectives,   \* values of policyObjective in the file; NULL: none
  EnvObjectives,    \* values of POLICY_OBJECTIVE; NULL: not set
  PolicyIndex,      \* policyResourceIndex + 1
  MaxRequests       \* bound: requests of a behaviour

\* A resource that no node has is not demanded: CreatePodModel never asks for a
\* GPU, and every node has the other resources.
ASSUME RankingAssumption ==
  /\ PolicyIndex \in Resources /\ U \in Nat \ {0} /\ MaxRequests \in Nat
  /\ \A cap \in Capacities, j \in Resources :
        (\A n \in Node : cap[n][j] = 0) => \A d \in Demands : d[j] = 0

VARIABLES
  policyobjective,  \* evaluator->policyobjective
  dstats,           \* cs->ds, or NULL
  capacity, usage,  \* of the nodes in the model
  demand,           \* of the pod of the last request
  value,            \* what evaluator_eval computed for each node
  rank,             \* the priorities answered
  samples           \* history: the demands of the requests so far

vars == <<policyobjective, dstats, capacity, usage, demand, value, rank, samples>>

Scale == 1000
MaxPriority == 10

SumOver(S, f(_)) == MapThenSumSet(f, S)

\* The integer square root of x < 2^30, bit by bit.
Sqrt(x) ==
  LET AddBit(r, bit) == IF (r + bit) * (r + bit) <= x THEN r + bit ELSE r
  IN  FoldLeft(AddBit, 0, [i \in 1..15 |-> 2^(15 - i)])

\* sqrt(x) / y in fixed point.
SqrtRatio(x, y) == (Sqrt(100 * x) * (Scale \div 10)) \div y

-----------------------------------------------------------------------------
(***************************************************************************)
(* The objective functions, for the usage us of the nodes.                 *)
(***************************************************************************)

\* Utilization of the prime resource, as lbfn.c and consfn.c compute it.
PrimeUtilization(us, n) ==
  IF capacity[n][PolicyIndex] > 0 THEN (us[n][PolicyIndex] * U) \div capacity[n][PolicyIndex] ELSE U

\* n^2 times the variance of the numbers x[i].
Variance(x) ==
  LET n == Cardinality(DOMAIN x)
      sum == SumOver(DOMAIN x, LAMBDA i : x[i])
  IN  Max({n * SumOver(DOMAIN x, LAMBDA i : x[i] * x[i]) - sum * sum, 0})

\* Faulty form: the complement of the deviation, as a packing objective.
lbfn_getsystemvalue_Packs(us) ==
  Scale - SqrtRatio(Variance([n \in Node |-> PrimeUtilization(us, n)]), Cardinality(Node) * U)

\* lbfn_getsystemvalue: the standard deviation.
lbfn_getsystemvalue(us) ==
  SqrtRatio(Variance([n \in Node |-> PrimeUtilization(us, n)]), Cardinality(Node) * U)

\* unbalance_scaled: one minus the root of the mean square distance from the
\* average, scaled by the distance of 0 or 1 from the average; the condition
\* x <= 0 && x >= 1 of its first branch never holds.
unbalance_scaled(x) ==
  LET n     == Cardinality(DOMAIN x)
      avg   == SumOver(DOMAIN x, LAMBDA i : x[i])     \* n times the average
      below == avg
      above == n * U - avg
      term(i) == IF n * x[i] < avg THEN (avg - n * x[i]) * above ELSE (n * x[i] - avg) * below
  IN  IF avg <= 0 \/ above <= 0 THEN 0
      ELSE Scale - SqrtRatio(SumOver(DOMAIN x, LAMBDA i : term(i) * term(i)) \div n, below * above)

\* Faulty form: commonobj_balance in place of commonobj_unbalance.
consfn_getsystemvalue_Balances(us) == lbfn_getsystemvalue(us)

consfn_getsystemvalue(us) == unbalance_scaled([n \in Node |-> PrimeUtilization(us, n)])

\* matrix_multiply_left and array_multiply: the quadratic form of a matrix.
QuadraticForm(sigma, mu) ==
  SumOver(Resources \X Resources, LAMBDA jk : mu[jk[1]] * sigma[jk] * mu[jk[2]])

\* matrix_coefficient_variation_from_stats, for a covariance matrix and averages
\* of the same scale: that of Albert and Zhang for several variables.
coefficient_variation(sigma, mu) ==
  LET nom   == QuadraticForm(sigma, mu)
      denom == SumOver(Resources, LAMBDA j : mu[j] * mu[j])
  IN  IF NumRes = 1 THEN IF mu[1] # 0 /\ sigma[<<1, 1>>] >= 0 THEN SqrtRatio(sigma[<<1, 1>>], mu[1]) ELSE 0
      ELSE IF denom > 0 /\ nom > 0 THEN SqrtRatio(nom, denom) ELSE 0

\* resource_getutilization
resource_getutilization(us, n) ==
  [j \in Resources |->
     IF capacity[n][j] = 0 THEN IF us[n][j] = 0 THEN 0 ELSE U
     ELSE Min({(us[n][j] * U) \div capacity[n][j], U})]

\* The averages and the covariances of the vectors x[n], as multiples of 1/|Node|
\* and of 1/|Node|^2.
matrix_average(x) == [j \in Resources |-> SumOver(Node, LAMBDA n : x[n][j])]
matrix_covariance(x) ==
  LET mu == matrix_average(x)
  IN  [jk \in Resources \X Resources |->
         Cardinality(Node) * SumOver(Node, LAMBDA n : x[n][jk[1]] * x[n][jk[2]]) - mu[jk[1]] * mu[jk[2]]]

\* abpnf_getvariation_system: the variation of the utilizations of the nodes.
VariationOfSystem(us) ==
  LET x == [n \in Node |-> resource_getutilization(us, n)]
  IN  coefficient_variation(matrix_covariance(x), matrix_average(x))

\* cloudsystem_getaveragecapacity: over the nodes that have the resource.
AverageCapacity(j) ==
  LET having == {n \in Node : capacity[n][j] > 0}
  IN  IF having = {} THEN 0 ELSE SumOver(having, LAMBDA n : capacity[n][j]) \div Cardinality(having)

\* matrix_covariance_from_stats, of averages in units of 1/Unit.
matrix_covariance_from_stats(mu2, mu) ==
  [jk \in Resources \X Resources |-> Unit * mu2[jk] - mu[jk[1]] * mu[jk[2]]]

\* abpnf_getvariation_demand_history: the variation of the demands, relative to
\* the average capacities.  The products of a resource j with a resource k < j
\* that no node has are 0 / 0, a not-a-number, and the variation is then 0.
VariationOfDemand(s) ==
  LET cap == [j \in Resources |-> AverageCapacity(j)]
      part == [j \in Resources |-> IF cap[j] > 0 THEN U \div cap[j] ELSE U]
      munorm == [j \in Resources |-> s.demandavg[j] * part[j]]
      mu2norm == [jk \in Resources \X Resources |-> s.demandavg2[jk] * part[jk[1]] * part[jk[2]]]
  IN  IF \E j, k \in Resources : k < j /\ cap[j] > 0 /\ cap[k] = 0 THEN 0
      ELSE coefficient_variation(matrix_covariance_from_stats(mu2norm, munorm), munorm)

\* abpfn_diffvalue: the absolute difference of the two variations.
Distance(a, b) == IF a >= b THEN a - b ELSE b - a

\* abpfn_getsystemvalue: 0 without statistics.
abpfn_getsystemvalue(us, s) ==
  IF s = NULL THEN 0 ELSE Distance(VariationOfSystem(us), VariationOfDemand(s))

objfn_getvalue(us, s) ==
  CASE policyobjective = "LOAD_BALANCE" -> lbfn_getsystemvalue(us)
    [] policyobjective = "CONSOLIDATE"  -> consfn_getsystemvalue(us)
    [] OTHER                            -> abpfn_getsystemvalue(us, s)

-----------------------------------------------------------------------------
(***************************************************************************)
(* Evaluation and ranking.                                                 *)
(***************************************************************************)

canplaceLE(us, n, d) == \A j \in Resources : d[j] <= capacity[n][j] - us[n][j]

placeLE(us, n, d) == [us EXCEPT ![n] = [j \in Resources |-> @[j] + d[j]]]

\* evaluator_eval: the value with the pod on each node that can take it.
evaluator_eval(us, d, s) ==
  [n \in Node |-> IF canplaceLE(us, n, d) THEN objfn_getvalue(placeLE(us, n, d), s) ELSE NaN]

\* Faulty form: the worst node that can take the pod gets priority 0.
ComputeRank_FromZero(v) ==
  LET values == {v[n] : n \in Node} \ {NaN}
      maxValue == Max(values)
      span == maxValue - Min(values)
  IN  [n \in Node |->
         IF v[n] = NaN THEN 0
         ELSE IF span = 0 THEN MaxPriority
         ELSE (2 * MaxPriority * (maxValue - v[n]) + span) \div (2 * span)]

\* Smaller values are better: round(1 + 9 * (max - v) / (max - min)), with 0
\* for a not-a-number.
ComputeRank(v) ==
  LET values == {v[n] : n \in Node} \ {NaN}
      maxValue == Max(values)
      span == maxValue - Min(values)
  IN  [n \in Node |->
         IF v[n] = NaN THEN 0
         ELSE IF span = 0 THEN MaxPriority
         ELSE (2 * (span + (MaxPriority - 1) * (maxValue - v[n])) + span) \div (2 * span)]

defs_objtypeFromstring(s) == IF s \in {"LOAD_BALANCE", "CONSOLIDATE"} THEN s ELSE "A_BINPACK"

\* reader_create: the objective of the file, with the default for none.
reader_getpolicyobjective(file) == defs_objtypeFromstring(file)

\* Faulty form: the default objective is not recognized when the evaluator is
\* created.
evaluator_create_NoDefault(file) == IF file = "A_BINPACK" THEN demandstats_create ELSE NULL

\* evaluator_create, from the file: there are statistics for A_BINPACK only.
evaluator_create(file) ==
  IF reader_getpolicyobjective(file) = "A_BINPACK" THEN demandstats_create ELSE NULL

\* NewClient: the environment overrides the objective the evaluator was created
\* with.
NewClient(file, env) ==
  /\ policyobjective = IF env = NULL THEN reader_getpolicyobjective(file) ELSE defs_objtypeFromstring(env)
  /\ dstats = evaluator_create(file)

Init ==
  /\ \E file \in FileObjectives, env \in EnvObjectives : NewClient(file, env)
  /\ capacity \in Capacities
  /\ usage = NULL /\ demand = NULL /\ value = NULL /\ rank = NULL
  /\ samples = <<>>

\* A prioritize request: the nodes are observed with usage us, and a pod with
\* demand d is evaluated on them.
Request(us, d) ==
  /\ Len(samples) < MaxRequests
  /\ usage' = us /\ demand' = d
  /\ dstats' = IF dstats = NULL THEN NULL ELSE demandstats_add(dstats, d)
  /\ value' = evaluator_eval(us, d, dstats')
  /\ rank' = ComputeRank(value')
  /\ samples' = Append(samples, d)
  /\ UNCHANGED <<policyobjective, capacity>>

Next == \E us \in [Node -> Usages], d \in Demands : Request(us, d)

Spec == Init /\ [][Next]_vars

-----------------------------------------------------------------------------
(***************************************************************************)
(* Properties.                                                             *)
(***************************************************************************)

Fits(n) == \A j \in Resources : usage[n][j] + demand[j] <= capacity[n][j]

Uniform == \A m, n \in Node : capacity[m] = capacity[n]

\* ComputeRank keeps apart the nodes that cannot take the pod: exactly they
\* get priority 0, and the others one in 1..MaxPriority, whatever the objective
\* and however close its values.
OnlyUnfitRankedZero ==
  rank # NULL => \A n \in Node : rank[n] \in 0..MaxPriority /\ (rank[n] = 0 <=> ~Fits(n))

Below(d, e) == \A j \in Resources : d[j] <= e[j]

\* Among equal nodes that can take the pod, a less allocated one never has a
\* lower priority: for the prime resource under LOAD_BALANCE, and for all
\* resources under A_BINPACK as long as all pods seen asked for the same.
PodsSpread ==
  (rank # NULL /\ Uniform) =>
    \A m, n \in Node :
      /\ Fits(m) /\ Fits(n)
      /\ \/ policyobjective = "LOAD_BALANCE" /\ usage[m][PolicyIndex] <= usage[n][PolicyIndex]
         \/ policyobjective = "A_BINPACK" /\ Cardinality(Range(samples)) = 1 /\ Below(usage[m], usage[n])
      => rank[m] >= rank[n]

\* CONSOLIDATE packs: among equal nodes that can take the pod, one with more of
\* the prime resource allocated never has a lower priority, although the
\* distances below and above the average are scaled differently.
ConsolidatePacks ==
  (rank # NULL /\ Uniform /\ policyobjective = "CONSOLIDATE") =>
    \A m, n \in Node :
      (Fits(m) /\ Fits(n) /\ usage[m][PolicyIndex] >= usage[n][PolicyIndex]) => rank[m] >= rank[n]

\* A_BINPACK learns the variability of pod sizes: once a smaller and a larger
\* pod were seen, the variation it compares the nodes with is not 0.
VariabilityLearned ==
  (policyobjective = "A_BINPACK" /\ \E d, e \in Range(samples) : d # e /\ Below(d, e)) =>
    (dstats # NULL /\ VariationOfDemand(dstats) > 0)

\* Weight of sample i of n when the last samples are smoothed by 1/CountMax; the
\* weights add up to TotalWeight(n).
Weight(i, n) ==
  IF n <= CountMax THEN 1
  ELSE LET last == Max({i, CountMax}) IN CountMax^(last - CountMax) * (CountMax - 1)^(n - last)
TotalWeight(n) == IF n <= CountMax THEN n ELSE CountMax^(n - CountMax + 1)

\* The running averages of demandstats_add are the weighted averages of all the
\* demands and of their products: plain means up to CountMax samples, and
\* exponentially smoothed from then on.
AveragesExact ==
  LET n == Len(samples)
      Averages(avg, f(_)) == avg * TotalWeight(n) = Unit * SumOver(1..n, LAMBDA i : Weight(i, n) * f(samples[i]))
  IN  (dstats # NULL /\ n > 0) =>
        \A j, k \in Resources :
          /\ Averages(dstats.demandavg[j], LAMBDA d : d[j])
          /\ Averages(dstats.demandavg2[<<j, k>>], LAMBDA d : d[j] * d[k])
=============================================================================
