----------------------------- MODULE SafeAgent ------------------------------
(***************************************************************************)
(* The safe agent (safe/*.go) behind the routes of its extender: one       *)
(* scheduling cycle filters the nodes by the 'safe-overload' predicate and *)
(* scores them by the 'safe-overload' or the 'safe-balance' priority       *)
(* function, from the usage annotations the nodes carry.                   *)
(*                                                                         *)
(* Quantities are integers in units in which a node has the capacity       *)
(* Capacity; utilizations mu and sigma are fractions of D, probabilities   *)
(* are percentages.  Square roots are exact: a score is the largest        *)
(* integer that satisfies the squared inequality.  The distribution        *)
(* function of the fitted beta distribution is external numerics: the      *)
(* probability it gives for each mu and sigma is arbitrary.                *)
(***************************************************************************)
EXTENDS Sums, SequencesExt

CONSTANTS
  Node,
  NULL,               \* an annotation that is missing or does not parse
  NaN,                \* the floating-point value
  Capacity,           \* allocatable amount of a resource on a node
  NodeStats,          \* the annotations a node may have for a resource
  Pods,               \* the pods that may be scheduled
  Probabilities,      \* percentages the beta distribution may give
  SafeUtilization,    \* SAFEUTILIZATION
  SafePercentiles,    \* the values SAFEPERCENTILE may have
  ForecastWeight      \* SAFEFORECASTWEIGHT

MaxPriority == 10
Resources == {"cpu", "memory"}

\* Utilizations are multiples of 1/D.
D == 100 * Capacity

ASSUME SafeAssumption ==
  /\ Capacity \in Nat \ {0}
  /\ {SafeUtilization, ForecastWeight} \cup SafePercentiles \subseteq 0..100
  /\ Probabilities \subseteq (0..100) \cup {NaN}
  /\ \A s \in NodeStats \ {NULL} : s.mean \in Int /\ {s.std, s.forecast} \ {NULL} \subseteq Int
  /\ \A p \in Pods, r \in Resources : {p[r].containers, p[r].initContainers} \subseteq Seq(Int)

VARIABLES
  stats,        \* the annotations of each node, for each resource
  pod,          \* the pod to schedule
  percentile,   \* SAFEPERCENTILE
  belowLimit,   \* betaDist.DistributionFunction(threshold), for each mu and sigma
  phase,        \* "filter", "prioritize" or "done"
  accepted,     \* the nodes the predicate lets pass
  scores        \* the scores of the priority functions, [overload, balance]

vars == <<stats, pod, percentile, belowLimit, phase, accepted, scores>>

Clamp(x) == Max({0, Min({x, D})})

-----------------------------------------------------------------------------
(***************************************************************************)
(* stats.go                                                                *)
(***************************************************************************)

\* The demand of the pod: the sum over its containers, or what an init
\* container asks for if that is more.
getResourceRequest(request) ==
  Max({Total(request.containers, DOMAIN request.containers)} \cup ToSet(request.initContainers))

\* getCPUStats and getMemoryStats, then getMuSigma.
getMuSigma(s, demand) ==
  LET freeAvg == IF s.forecast = NULL THEN 100 * s.mean
                 ELSE (100 - ForecastWeight) * s.mean + ForecastWeight * s.forecast
  IN  [mu    |-> Clamp(Max({D - freeAvg, 0}) + 100 * demand),
       sigma |-> Clamp(100 * (IF s.std = NULL THEN 0 ELSE s.std))]

\* The moments no beta distribution has: variance >= m1 * (1 - m1).
MatchMoments(u) == u.sigma * u.sigma < u.mu * (D - u.mu)

\* The probability that the utilization is at most SafeUtilization.
computeRank(u) ==
  IF u.mu = 0 \/ (u.sigma = 0 /\ 100 * u.mu <= SafeUtilization * D) THEN 100
  ELSE IF u.sigma = 0 \/ ~MatchMoments(u) THEN 0
  ELSE IF belowLimit[u] = NaN THEN 100
  ELSE belowLimit[u]

computeRisk(u) == 100 - computeRank(u)

Utilization(n, r) == getMuSigma(stats[n][r], getResourceRequest(pod[r]))

ValidResources(n) == {r \in Resources : stats[n][r] # NULL}

-----------------------------------------------------------------------------
(***************************************************************************)
(* predicate.go                                                            *)
(***************************************************************************)

\* CPUSafePredicate and MemorySafePredicate: no statistics, no objection.
SafePredicate(n, r) ==
  r \in ValidResources(n) => computeRisk(Utilization(n, r)) <= percentile

PredicateFunc(n) == \A r \in Resources : SafePredicate(n, r)

-----------------------------------------------------------------------------
(***************************************************************************)
(* priority.go                                                             *)
(***************************************************************************)

\* The score of a not-a-number: int() of it is the least integer on amd64,
\* below every score.
NaNScore == -1

\* Faulty form: the fraction of the risk is not taken from one.
OverloadScore_Inverted(risk) ==
  IF risk >= percentile THEN 0
  ELSE Max({k \in 0..MaxPriority : 100 * risk >= k * k * percentile})

\* int(10 * (1 - sqrt(risk / percentile))), or 0 when the fraction reaches 1.
OverloadScore(risk) ==
  CASE percentile = 0 /\ risk = 0 -> NaNScore
    [] risk >= percentile /\ ~(percentile = 0 /\ risk = 0) -> 0
    [] OTHER -> Max({k \in 0..MaxPriority :
                       100 * risk <= (MaxPriority - k) * (MaxPriority - k) * percentile})

\* Faulty form: the deviation is taken off the mean.
BalanceScore_FavoursDeviation(u) ==
  Max({k \in 0..MaxPriority :
         LET x == 21 * D - 10 * u.mu - 2 * k * D IN x >= 0 \/ x * x <= 100 * D * u.sigma})

\* int(10 * (1 - (mu + sqrt(sigma)) / 2) + 0.5)
BalanceScore(u) ==
  Max({k \in 0..MaxPriority :
         LET x == 21 * D - 10 * u.mu - 2 * k * D IN x >= 0 /\ x * x >= 100 * D * u.sigma})

computeScore(u, isBalance) ==
  IF isBalance THEN BalanceScore(u) ELSE OverloadScore(computeRisk(u))

\* Faulty form: the better of the two scores counts.
PriorityFunc_Best(n, isBalance) ==
  Max({0} \cup {computeScore(Utilization(n, r), isBalance) : r \in ValidResources(n)})

\* The lower of the two scores, the one there is, or 0.
PriorityFunc(n, isBalance) ==
  IF ValidResources(n) = {} THEN 0
  ELSE Min({computeScore(Utilization(n, r), isBalance) : r \in ValidResources(n)})

-----------------------------------------------------------------------------
(***************************************************************************)
(* The requests of a scheduling cycle.                                     *)
(***************************************************************************)

\* The utilizations for which a beta distribution is fitted.
FittedUtilizations ==
  {u \in {getMuSigma(s, getResourceRequest(p[r])) :
            s \in NodeStats \ {NULL}, p \in Pods, r \in Resources} :
     u.mu # 0 /\ u.sigma # 0 /\ MatchMoments(u)}

NoScores == [n \in Node |-> NULL]

Init ==
  /\ stats \in [Node -> [Resources -> NodeStats]]
  /\ pod \in Pods
  /\ percentile \in SafePercentiles
  /\ belowLimit \in [FittedUtilizations -> Probabilities]
  /\ phase = "filter" /\ accepted = {} /\ scores = [overload |-> NoScores, balance |-> NoScores]

\* PredicateRoute, Predicate.Handler.
Filter ==
  /\ phase = "filter"
  /\ accepted' = {n \in Node : PredicateFunc(n)}
  /\ phase' = "prioritize"
  /\ UNCHANGED <<stats, pod, percentile, belowLimit, scores>>

\* PrioritizeRoute, Prioritize.Handler, for each of the two functions.
Prioritize ==
  /\ phase = "prioritize"
  /\ scores' = [overload |-> [n \in Node |-> PriorityFunc(n, FALSE)],
                balance  |-> [n \in Node |-> PriorityFunc(n, TRUE)]]
  /\ phase' = "done"
  /\ UNCHANGED <<stats, pod, percentile, belowLimit, accepted>>

Next == Filter \/ Prioritize

Spec == Init /\ [][Next]_vars

-----------------------------------------------------------------------------
(***************************************************************************)
(* Properties.                                                             *)
(***************************************************************************)

Risk(n) == Max({computeRisk(Utilization(n, r)) : r \in ValidResources(n)})

\* The predicate and the priority function agree on what is risky although
\* each works out the risk for itself: a node that 'safe-overload' rejects has
\* the lowest 'safe-overload' score, and a node with a score is accepted.
FilterAgreesWithScore ==
  phase = "done" => \A n \in Node : n \notin accepted => scores.overload[n] = 0

\* "The former orders nodes based on their calculated risk values"
\* (safe/README.md): of two nodes with statistics, the one whose higher risk,
\* over CPU and memory, is less does not get the lower score.
OverloadOrdersByRisk ==
  phase = "done" =>
    \A a, b \in Node :
      /\ ValidResources(a) # {} /\ ValidResources(b) # {}
      /\ Risk(a) < Risk(b)
      => scores.overload[a] >= scores.overload[b]

\* 'safe-balance' never prefers a node that is worse in both respects, although
\* the mean is added to the square root of the deviation: of two nodes with
\* statistics for the same resources, one whose mean and deviation are no larger
\* for any of them does not get the lower score.
BalanceRespectsDominance ==
  phase = "done" =>
    \A a, b \in Node :
      /\ ValidResources(a) = ValidResources(b)
      /\ \A r \in ValidResources(a) :
           LET ua == Utilization(a, r)
               ub == Utilization(b, r)
           IN  ua.mu <= ub.mu /\ ua.sigma <= ub.sigma
      => scores.balance[a] >= scores.balance[b]

=============================================================================
