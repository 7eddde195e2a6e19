# A TLA+ verification of kube-safe-scheduler

This directory models the scheduler extender of kube-safe-scheduler, its
agents, the C library behind the pigeon agent, kubeRL and the node annotators.
TLC checks the models on small instances; TLAPS proves the main properties of
the library's model updater and hash map, of the agent that drives it, of the
safe agent, of the allocation annotator and of the reward monitor, for every
size.

`PROJECT.json` lists components, runs, mutants (plausible bugs, each caught by
the property it is listed with), the lines behind every definition, findings,
hazards and theorems.

## The system

The Kubernetes scheduler calls an **extender** over HTTP to filter and to
prioritize nodes for a pod. `routes.go` and `main.go` serve the calls, one
goroutine each, and hand them to **agents**:

- *safe* (`safe/`) computes the risk that a node is overloaded from statistics
  that the **usage annotator** (`node-annotator/usage/`) gets from Prometheus
  and writes to node annotations;
- *pigeon* (`pigeon/`, Go; `pigeon_c/`, C) keeps a model of the cluster in
  **libpigeon**, brings it up to date in every request from the nodes and from
  the annotations of the **allocation annotator** (`node-annotator/allocation/`),
  and ranks the nodes under an objective;
- *congestion* scores by an annotation, *foo* is a template;
- **kubeRL** is a pair of programs of its own: a monitor that turns pod events
  into rewards kept in etcd, and an extender that scores nodes by them.

## Modules and the code

| Module | Code | State and actions |
|---|---|---|
| `Resource`, `Vectors` | `resource.c`, `vector.c` | operators |
| `StateUpdater` | `stateupdater.c`, `cloudsystem.c`, `pe.c`, `le.c`, `evaluator_eval` | the model (vector, map, hosts, usage), the session, and the report; `start`, `updatePE`, `updateLE`, each iteration of the three loops of `stop`, `eval` |
| `PigeonAgent` (extends `StateUpdater`) | `pigeon/agent.go`, `client.go`, `priority.go` | handlers with a control point and locals each, the shared `genNum`; one action per step between calls into C |
| `HashMap`, `AbstractMap`, `HashSet` | `hashmap.c`, `maparray.c`, `hashset.c` | the table, entry by entry, for every hash function; refines a plain map; the map array is an initial state; the set is a caller that does not look before it inserts |
| `VectorStore` | `vector.c` | size, capacity and cells of the growing array; one action per operation, against the operators of `Vectors` |
| `LinkedQueue` | `queue.c` | front, rear and a heap of nodes; add, remove, destroy |
| `Parser`, `Codec` | `parser.c`, `stringbuffer.c` | encoders and decoders as operators; a string buffer that grows append by append, then the text read pair by pair |
| `Config` | `properties.c`, `reader.c`, `defs.c` | a file read line by line, then the policy taken from it |
| `Matrices`, `Variation` | `matrix.c`, `array.c` | operators; the inverse and the two coefficients of variation against references |
| `UtilizationStats` | `cloudsystem.c` statistics | the nodes' utilizations, the accumulated matrix and its count; observe, print |
| `DemandStats`, `PigeonRanking` | `demandstats.c`, `evaluator.c`, `objective/*.c`, `agent.go` `ComputeRank` | statistics, objective and loads; one action per request |
| `PodAdapter` | `pigeon/adapter.go` | quantities and annotations to ints in libpigeon's units |
| `SafeAgent` | `safe/*.go` | statistics and pod of a scheduling cycle; filter, then prioritize |
| `Extender` | `main.go`, `routes.go`, `predicate.go`, `prioritize.go`, `bind.go`, `congestion/` | calls and responses; send, route, one action per registered route |
| `RewardMonitor` | `kubeRL/rl-monitor`, `rl-priority.go` | etcd, the monitor's memory, what is left of its handler; one action per etcd request, plus crash, restart, nodes joining |
| `AllocationAnnotator` | `k8s-assessor.py` | nodes, pods, annotations, the annotator's locals; one action per API request |
| `UsageAnnotator` | `k8s_analytics.py`, `prom_query.py` | the node the round is at, fresh annotations, process up or down |

`Sums` has the sum over a set that `StateUpdater`, `SafeAgent` and
`AllocationAnnotator` use. `MC*` modules hold the values of constants and
symmetry sets for TLC. `DataProofs` (lemmas on numbers, sums, vectors and
recursion), `StateUpdaterProofs`, `SessionProofs`, `AgentProofs`,
`AnnotatorProofs`, `MonitorProofs`, `SafeProofs` and `MapProofs` hold the
theorems. Operators with a suffix such as `pe_removeLE_KeepsHost`, commented
"Faulty form", are the mutants.

## What the runs check

**Placement** (`MCStateUpdater`; two nodes, two pods, one resource). After the
loops of `stop()` the model is the observed cluster (`SnapshotApplied`),
whatever the order and the repetition of reports. Hosts (`HostConsistent`),
vector, map and positions (`ModelStructure`) and the report (`ReportExact`) are
right at every step, through stale and abandoned sessions. Demand is neither
counted twice nor lost (`UsageConserved`), and removals come before placements
(`RemovalsBeforePlacements`), so that no node is overloaded on the way to a
state in which everything fits (`NoTransientOverflow`). Two nodes and two pods
are enough for a move, a swap, a node that goes while another pod arrives, and
a pod reported on a node that is not observed. The generations give a fresh, an
equal and an older one.

**Requests** (`MCPigeonAgent`; two handlers, two nodes, three requests, negative
usages in the annotations). As long as requests have not overlapped, each answer
has one rank per node of the request, computed for that node (`ResponseExact`).
Whatever overlapping requests left behind, a request that is handled alone and
whose `start()` returns true gets an exact answer (`SelfHealing`). Evaluation
leaves no trace (`EvalKeepsModel`), and each request is answered (`Answered`).
Nothing is claimed of the answer of a request that did overlap: the code does
not serialise them. **StaleGeneration** (violation) shows one consequence.

**Utilities** (`MCUtilities`). Seven parts of libpigeon that share no state; the
initial state chooses one, and each is explored in full.

- The hash map (four keys, hash values 0, 4 and 9, first sizes 3 and 15):
  collisions, removed entries and rehashes happen, and 15 is a size that the
  probabilistic `isPrime` can accept although it is not prime, so that a search
  misses free entries and the table grows early. The table implements the map of
  `AbstractMap` (`ImplementsMap`), the count and the key list are exact, and so is
  a map array (`EntriesExact`), and with a prime size a probe sequence finds a
  place while there is one (`InsertFindsPlace`). The map is used as its callers
  use it, with no insert over a present key once an entry was removed; the
  updater's sets of observed names only grow.
- The vector (first capacity 2, up to 5 elements: two doublings) is the sequence
  that its operations describe (`VectorIsSequence`). Unwritten cells hold a value
  of their own, so a read of one would show.
- The queue (four nodes, which are reused) is first in, first out, and leaks
  nothing (`QueueIsFIFO`).
- The codec (two values of fourteen kinds, first buffer of 4): what the encoders
  write is read back, nested pairs included, and fits the buffer
  (`EncodingReadsBack`).
- The configuration (up to three lines, with comments, repeated keys and blanks, or
  a file that cannot be read): the policy is that of the last line for each key, and
  without a file there is none (`PolicyFromFile`).
- Matrices (all of 1x1 and 2x2 over -2..2 and of 3x3 over -1, 0, 2; samples of one
  and two variables): the inverse is one and exists when the Leibniz determinant
  is not zero (`InverseExact`); covariances are symmetric and not negative, the
  two coefficients of variation are ordered, and neither depends on the unit
  (`VariationsAgree`).
- Statistics (two resources, up to two nodes, two prints): while the number of
  nodes stays, the accumulated rows are those of the prints, sorted, and agree
  with `cloudsystem_getutilization` (`OrderedAveragesExact`).

**SetReadd** (`HashSet`; violation; three strings, size 3). `hashset_count` counts
an element twice that was added again behind a deleted entry
(`CountsElements`).

**Ranking** (`MCPigeonRanking`; three nodes, two resources, three requests, each
objective, equal nodes and a node without the prime resource). Priorities are in
range and exactly the nodes that cannot take the pod get 0
(`OnlyUnfitRankedZero`). `LOAD_BALANCE` spreads, and so does `A_BINPACK` while all
pods are equal (`PodsSpread`); `CONSOLIDATE` packs (`ConsolidatePacks`).
`A_BINPACK` learns exact averages (`AveragesExact`) and notices variability
(`VariabilityLearned`). The window `CountMax` is 2, so that three
requests take the averages from plain to smoothed.

**Adapter** (`MCPodAdapter`; CPU, memory and pods). The roundings to libpigeon's
units neither reject a pod that fits (`FittingPodAccepted`) nor accept one that
exceeds the node by more than they can hide (`AcceptedPodFits`). A kilo is 2 and
an int has 6 bits, which keeps every rounding in reach.

**Safe** (`MCSafeAgent`; two nodes, percentiles 30 and 100). With arbitrary
values of the distribution function, filter and score agree
(`FilterAgreesWithScore`), `safe-overload` follows the risk
(`OverloadOrdersByRisk`) and `safe-balance` never prefers a node that is worse
in mean and in deviation (`BalanceRespectsDominance`).

**Extender** (`MCExtender`; two concurrent calls, two nodes, each of the nine
registered routes and a path without one). Congestion scores are in range and
follow the annotations, where one that is missing, no number or beyond an int counts
as 0 (`LowCongestionPreferred`). Every call ends (`CallsEnd`), also one whose body
has no pod or no nodes and one whose handler panics.

**Monitor** (`MCRewardMonitor`; two nodes, one pod type, one or two nodes at
start-up, three events, a crash and two failed requests at most). Memory equals etcd wherever the last write succeeded
(`CacheWrittenThrough`); a stored reward only moves on by reward steps, except
where a get failed or the node was not listed (`LearnedRewardsKept`); of two
listed nodes, one on which a type only succeeded is not scored below one on
which it only failed (`ListedNodesPrioritized`). **MonitorNewNode** (violation)
drops the restriction to listed nodes.

**Annotators** (`MCAnnotators`). The allocation annotator (two nodes, two pods, two
failed requests and two node changes at most): each annotation is what was
requested on its node at one moment (`AnnotationOnceTrue`) and in the end, once
the cluster is still, what is requested on it now (`AnnotationsCatchUp`). The
usage annotator (three nodes, so that one is first, one last and one between; any
of them without data): a node with data, and no node without data before it, is
annotated again and again (`NodesAnnotated`). The two programs share no state and
take steps of their own, one or the other in a behaviour.

Every bound is a named constant (`MaxRequests`, `MaxGen`, `MaxEvents`,
`MaxCrashes`, `MaxFailures`, `MaxFaults`, `MaxNodeChanges`, `CountMax`, ...).
Deadlock is not checked where the bounds let the system come to rest: the agent,
the ranking, the safe cycle, the extender, kubeRL, and the codec, the
configuration and the matrices of the utilities.

### Fairness

- `FairAgentSpec`: weak fairness of each handler and of the loops of `stop()`.
  The Go scheduler runs every runnable goroutine and no call into C blocks.
- `FairSpec` of `Extender`: weak fairness of each handler, for the same reason;
  `net/http` recovers a panic and closes the connection (external).
- `MCSpec` of `MCAnnotators`, after `FairSpec` of `AllocationAnnotator` and
  `Spec` of `UsageAnnotator`: weak fairness of each annotator's loop, restart by
  its deployment included. Faults
  are finitely many. Nothing is assumed of the environment.

## What is proved

Each theorem is proved for all values of the constants that satisfy the named
assumptions of its module (`ConstantsAssumption`, `AgentAssumption`, ...), which
TLC evaluates in the runs.

**The updater.** For all sets of nodes, pods, resources, capacities, usages and
demands:

- `StateUpdaterProofs`: `TypeCorrect`, `ModelStructureCorrect`, from
  `Structure`, the conjunction of the type invariant and the structure of
  vector, map and positions. Each is needed for the other: `vector_delete` on a
  vector with a name twice would leave the name behind. `EvalKeepsModelCorrect`
  uses that a usage is not negative, so that the release after an evaluation is
  exact.
- `SessionProofs`: `HostConsistentCorrect`, `ReportExactCorrect`,
  `SnapshotAppliedCorrect`, `RemovalsBeforePlacementsCorrect`,
  `SessionInvCorrect`. None of the first three is inductive: what `stop()` ends
  with depends on what the observations recorded. `SInv` adds `PEsOfSession`
  (which nodes are observed, new or left to drop at each control point) and
  `LEsOfSession` (where each pod is or is pending, likewise). The proof has one
  lemma per action.
- `UsageConservedCorrect` and `NoTransientOverflowCorrect`, also there. `UsageInv`
  says that each node's usage is the sum of the demands it hosts and that it hosts
  finitely many pods. A placement or a removal changes the sum by one demand
  (`TotalAdd`, `TotalRemove` of `DataProofs`). For the overflow, what is on a node
  in the placement loop is part of what will be there (`SInv`), and a sum of
  natural numbers is at least that of a part (`TotalSubset`).

**The agent** (`AgentProofs`). For any number of requests, overlapping or not:

- `AgentImplementsUpdater`, that each behaviour of the agent is a behaviour of the
  updater; so `AgentKeepsStructure` and `AgentKeepsReport`.
- `SelfHealingCorrect` and `ResponseExactCorrect`, from `AgentInvariant`. `AgentInv`
  says what a handler that is alone knows of the model at each of its control
  points (`Handled`): after `start()` nothing is observed, in the loop of updates
  what was observed is what is not left, after `stop()` the model has the nodes of
  the request, and the names read so far are those at the same positions.
  `Sequential` adds that without an overlap `genNum` is never behind the updater's
  generation, so that every `start()` returns true. `ResponseExact` needs both;
  `SelfHealing` only the first, which no overlap in the past can disturb.

**The hash map** (`MapProofs`). For every hash function, every start size above 2
and any history of inserts, removals and rehashes under the callers' discipline:

- `ImplementsMapCorrect`, that the table, read through `hashmap_get`, is a plain
  map; `EntriesExactCorrect`, that count, keys and map arrays agree with it;
  `InsertFindsPlaceCorrect`.
- The argument: there is a prime above every number (so `findPrimeGreaterThan`
  ends); in a table of prime size double hashing visits every entry, by Euclid's
  lemma; so a rehash, whose table is not full, stores every element. `MapInv` says
  of every active entry that the search for its key meets neither the key nor an
  entry without data before it (`OnPath`). Insertion keeps this because it only
  fills entries, removal because it leaves key and data in place. While no entry
  is removed, an insertion that stops at a free entry knows that the key is not
  further on; afterwards only the discipline of the callers says so, and
  **SetReadd** shows what happens without it.
- `isPrime` is taken to accept primes only (see Abstractions).

**The safe agent** (`SafeProofs`). For all statistics, pods, percentiles and values
of the distribution function: `BalanceRespectsDominanceCorrect`; for percentiles
above 0 also `FilterAgreesWithScoreCorrect` and `OverloadOrdersByRiskCorrect`. The
lemmas show that the quotients, roundings and the square root in the scores are
monotonic, and that the least score over the resources is that of the greatest
risk. With percentile 0 the overload score is a quotient by 0 (see Findings), which
is why it is excluded.

**The annotator and the monitor.** For all clusters, demands and numbers of
failures:

- `AnnotatorProofs`: `AnnotationOnceTrueHolds`. The property is not inductive:
  what a patch writes was read before other pods started and finished.
  `AnnotatorInv` adds that what the annotator holds while it patches was once
  requested on the node, and that what is requested now is in the history.
- `MonitorProofs`: `CacheWrittenThroughHolds`, through crashes and failed gets and
  writes. Like all of this module it is about rewards of six decimals; the code's
  memory holds floats, which agree with what it writes to that precision and exactly
  in the first five events of a key. `MonitorInv` adds that memory and etcd have the same keys;
  `WriteThrough` is the lemma on `write_key_value` that both handlers rest on.
- `ListedNodesPrioritizedCorrect` and `LearnedRewardsKeptCorrect`, from
  `RewardInvariant`, for finitely many nodes and pod types. `RewardInv` says which
  writes of a running handler are still to come (`TodoInv`), that a type known to
  the monitor has a value, or one to come, for every listed node (`ListInv`), that a
  node with successes only has the full reward (`FullReward`), and that memory is
  ahead of etcd by reward steps only (`Learned`): after a write that failed the next
  one that succeeds makes several steps at once.

Induction over data goes through sets: `SetInduction` and `FiniteInduction` of
`DataProofs` take a set of numbers or of subsets in place of a predicate, and
follow from the well-foundedness of the natural numbers. What a recursive function
or a fold of the community modules returns follows from `RecursionExists` and
`FoldExists`, that a function satisfies its equation.

Only model-checked: all liveness properties, which with `ENABLED` are out of the
proof system's reach; the ranking, the adapter and the extender; the codec, the
configuration, the matrices, the statistics, the vector's array and the queue.

## Findings

Three runs end in a violation, each of a statement of the repository that
`PROJECT.json` quotes: overlapping prioritize requests may be told that the
model needs no update when it does (`StaleGeneration`), a node that joins
after a pod type was first seen starts from reward 0 (`MonitorNewNode`), and a
set may hold and count an element twice (`SetReadd`). The sets of the updater
only grow within a session and do not meet the last one.

The other disagreements met while modelling are outside the instances of the
passing runs, or outside the premises of their properties:

- overlapping requests call `start()` inside a session, which `stateupdater.h`
  rules out; the inner call closes the session of the other request;
- after the last pair of an encoded text, which ends in a separator,
  `parser_nextkeyvaluepair` returns the empty text, where `parser.h` says "null if
  no more"; one more call finds no key and returns null;
- the encoders of scalars and of some arrays print numbers into 16 bytes, which a
  float of 10^8 or more does not fit;
- a blank after the value of `policyObjective` makes the objective unknown, and
  the default is taken;
- once the number of nodes differs from that of the first
  `cloudsystem_printutilizationmatrix`, `matrix_add` leaves the sums alone while
  `orderedcount` goes on, so that the printed averages fall;
- `A_BINPACK` selected by the environment over another objective in the file has
  no demand statistics, and a resource that no node has makes its variation 0;
- the first squares of `demandstats_add` are products of ints and overflow for a
  demand above 46340;
- `CONSOLIDATE` is the scaled unbalance, which orders nodes of unequal capacity
  differently from the negated deviation of `pigeon/README.md`;
- in `adapter.go` the GPU requests of a pod are dropped (`if !ok`), and the
  storage it requests stays in bytes while that of the node is scaled;
- with `SAFEPERCENTILE` 0 the overload score is not defined by the risk, and the
  balance score adds the root of the deviation to the mean, where `safe.go` says
  mu + sigma;
- a get of rl-etcd that fails for another reason than a missing key makes the
  monitor overwrite the learned reward by the initial one;
- a node without data ends the usage annotator, which restarts and ends there
  again, so that the nodes behind it are never annotated;
- a node that a predicate rejects is in neither list of the filter result.

## Abstractions

- A call into C is one step of `PigeonAgent` (the loops of `stop()` are several,
  but no other call runs meanwhile): data races inside the library are not
  modelled. `genNum++` is a read and a write.
- The order in which the loops of `stop()` take their elements (the order of a
  hash table) is arbitrary. The width of usages is not modelled in
  `StateUpdater`. The Go agent never calls `updateLE`; the library offers it.
- `demandstats_add` in `evaluator_eval` is in `PigeonRanking`, not in
  `StateUpdater`.
- `HashMap`: `isPrime` tests nine random bases and may accept another number; here
  it is exact, in the proofs too. A table may start with a size that is not prime.
  The width of a size is not modelled.
- `Parser`: a text is a sequence of words and of the characters with a meaning; a
  word counts as one byte of a buffer, and a float is an integer in tenths of the
  last digit printed.
- `Config`: the properties are the map that `HashMap` implements.
- `Matrices`: exact numbers for floats; a determinant that is zero only by
  rounding is not modelled.
- `PigeonRanking`: values are fixed-point with the order kept; signed overflow
  wraps. A resource that no node has is not demanded.
- `SafeAgent`: the beta distribution is an arbitrary function, float rounding is
  ignored, and the int of a not-a-number is a value of its own. The capacity of a
  node is positive: the quotients by a capacity of zero, infinite or not numbers in
  the code, are not modelled.
- `Extender`: what safe and pigeon find out is arbitrary; their scores are the
  lowest or the highest.
- `RewardMonitor`: rewards have six decimals as `%f` writes them; that is exact
  up to five events of a key, and beyond them the properties hold to that precision.
  Pods of a type are told apart by type only.
- `PodAdapter`: an unannotated node has usage 0.

## Not modelled

- `beta/`: a continued fraction and a Newton iteration on floats. `SafeAgent`
  takes an arbitrary function in its place.
- `quantity.py`: exact decimal arithmetic of a Python library on strings, a copy
  of the Kubernetes client's.
- The statistics of the usage annotator (pandas) and the queries themselves.
- `printhelper.c`, `integer.c` and the printing functions of the library; the
  element-wise functions, norms and random matrices of `array.c` and `matrix.c`,
  and the unbalance variants of `commonobj.c`, which nothing calls on the
  scheduling path; destructors.
- `bsagohelper.c`: forwards each call of the Go client to the function of the same
  purpose, which `PigeonAgent` takes as the call itself.
- `StateUpdatePod` (no caller), the preemption route (never registered), logging,
  deployment files, vendored code.

## Plan

1. Compose the allocation annotator with the pigeon agent: how stale a usage can
   be when pods are bound between two passes.
2. Compose `Extender` with `SafeAgent` and `PigeonAgent` as the handlers of its
   calls.
3. The configuration's interaction with `NUM_RESOURCES` and
   `policyResourceIndex`.
4. Proofs: the rounding lemma of `PodAdapter`; `OnlyUnfitRankedZero`;
   `VectorIsSequence`; `LowCongestionPreferred`.
5. Calls into C split into smaller steps, with the races between them.
