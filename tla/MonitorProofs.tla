--------------------------- MODULE MonitorProofs ----------------------------
(***************************************************************************)
(* The reward monitor, for every cluster, any set of pod types, any number *)
(* of events, crashes and failed requests: its memory and etcd agree, what *)
(* it has learned is kept, and the extender scores the nodes it has listed *)
(* by their rewards.                                                       *)
(***************************************************************************)
EXTENDS RewardMonitor, DataProofs

\* CacheWrittenThrough is inductive once the two are known to have the same keys.
MonitorInv ==
  /\ DOMAIN cache = Keys /\ DOMAIN store = Keys
  /\ CacheWrittenThrough

\* write_key_value() of the value that the cache gets keeps the two in step, or
\* leaves the key among the unsaved ones.
LEMMA WriteThrough ==
  ASSUME MonitorInv, NEW key, NEW v, NEW f,
         cache' = [cache EXCEPT ![key] = v], write_key_value(key, v, f)
  PROVE  MonitorInv'
<1>1. DOMAIN cache' = Keys /\ \A k \in Keys : cache'[k] = IF k = key THEN v ELSE cache[k]
  BY Zenon DEF MonitorInv
<1>2. CASE store' = [store EXCEPT ![key] = v] /\ unsaved' = unsaved \ {key}
  BY <1>1, <1>2, Zenon DEF MonitorInv, CacheWrittenThrough
<1>3. CASE unsaved' = unsaved \cup {key} /\ UNCHANGED store
  BY <1>1, <1>3, Zenon DEF MonitorInv, CacheWrittenThrough
<1> QED BY <1>2, <1>3, Zenon DEF write_key_value

\* init_if_not_exists keeps memory and etcd equal, whether the get finds a value,
\* finds none or fails.
LEMMA InitStepKeepsInv ==
  ASSUME MonitorInv, InitStep
  PROVE  MonitorInv'
<1> DEFINE key == Head(todo).key
<1>1. CASE cache' = [cache EXCEPT ![key] = store[key]] /\ unsaved' = unsaved \ {key} /\ UNCHANGED store
  <2>1. DOMAIN cache' = Keys /\ \A k \in Keys : cache'[k] = IF k = key THEN store[k] ELSE cache[k]
    BY <1>1, Zenon DEF MonitorInv
  <2> QED BY <1>1, <2>1, Zenon DEF MonitorInv, CacheWrittenThrough
<1>2. ASSUME NEW f \in {0, 1}, write_key_value(key, running_reward, f),
             cache' = [cache EXCEPT ![key] = running_reward]
      PROVE  MonitorInv'
  BY <1>2, WriteThrough, Zenon
<1> QED BY <1>1, <1>2, Zenon DEF InitStep, init_if_not_exists

\* So does the update of a reward (update_reward).
LEMMA RewardStepKeepsInv ==
  ASSUME MonitorInv, RewardStep
  PROVE  MonitorInv'
<1> DEFINE key == Head(todo).key
           v == Blend(cache[key], reward)
<1>1. cache' = [cache EXCEPT ![key] = v] /\ write_key_value(key, v, 0)
  BY Zenon DEF RewardStep
<1> QED BY <1>1, WriteThrough, Zenon

\* A crash empties the cache, and the other steps leave both alone.
LEMMA OtherStepsKeepInv ==
  ASSUME MonitorInv, \/ Start \/ Crash \/ UNCHANGED vars
                     \/ \E t \in PodType, n \in nodes, r \in EventRewards : PodEvent(t, n, r)
                     \/ \E n \in Node : NodeJoins(n)
  PROVE  MonitorInv'
<1>1. CASE UNCHANGED <<cache, store, unsaved>>
  BY <1>1 DEF MonitorInv, CacheWrittenThrough, Keys, NodeKey, PodKey
<1>2. CASE cache' = NoValues /\ UNCHANGED store
  BY <1>2, Zenon DEF MonitorInv, CacheWrittenThrough, NoValues
<1> QED BY <1>1, <1>2, Zenon DEF Start, Crash, PodEvent, NodeJoins, vars

\* What the monitor holds in memory is what etcd holds for every key whose last
\* write did not fail, to the six decimals that a reward has in the model:
\* init_if_not_exists() and the reward update write through.
THEOREM CacheWrittenThroughHolds == Spec => []CacheWrittenThrough
<1>1. Init => MonitorInv
  BY Zenon DEF Init, MonitorInv, CacheWrittenThrough, NoValues
<1>2. MonitorInv /\ [Next]_vars => MonitorInv'
  BY InitStepKeepsInv, RewardStepKeepsInv, OtherStepsKeepInv, Zenon DEF Next
<1>3. MonitorInv => CacheWrittenThrough
  BY Zenon DEF MonitorInv
<1> QED BY <1>1, <1>2, <1>3, PTL DEF Spec

-----------------------------------------------------------------------------
(***************************************************************************)
(* What the rewards are worth.  The requests that are left of a handler    *)
(* are initialisations and reward steps; a reward step never finds the     *)
(* value of a listed key missing, because the initialisation of that key   *)
(* comes first.                                                            *)
(***************************************************************************)
Op == [op : {"init", "reward"}, key : Keys]

MonitorType ==
  /\ nodes \subseteq Node /\ unlisted \subseteq Node /\ nodelist \subseteq Node
  /\ DOMAIN store = Keys /\ DOMAIN cache = Keys
  /\ \A key \in Keys : \A v \in {store[key], cache[key]} : v # NULL => v \in 0..Unit
  /\ todo \in Seq(Op) /\ reward \in Rewards /\ events \in 0..MaxEvents
  /\ given \in [PodType -> [Node -> SUBSET Rewards]]

\* The key has a value in memory, or gets one before the handler ends.
Held(key) == cache[key] # NULL \/ InitOp(key) \in ToSet(todo)

TodoInv ==
  /\ \A i, j \in 1..Len(todo) : todo[i].op = "reward" /\ todo[j] = todo[i] => i = j
  /\ \A i \in 1..Len(todo) : todo[i].op = "reward" =>
       /\ events > 0
       /\ \A t \in PodType, n \in Node : todo[i].key = PodKey(t, n) => reward \in given[t][n]
       /\ todo[i].key \notin UnlistedKeys =>
            cache[todo[i].key] # NULL \/ \E j \in 1..(i - 1) : todo[j] = InitOp(todo[i].key)

\* A pod type that is known is known on every listed node.
ListInv ==
  /\ ~up => cache = NoValues
  /\ up => nodes \ unlisted \subseteq nodelist
  /\ \A t \in PodType : Held(PodKey(t, All)) => \A n \in nodes \ unlisted : Held(PodKey(t, n))

\* A type that has only succeeded on a listed node keeps the full reward there.
FullReward ==
  \A t \in PodType, n \in nodes \ unlisted : given[t][n] \subseteq {running_reward} =>
    {store[PodKey(t, n)], cache[PodKey(t, n)]} \subseteq {running_reward, NULL}

\* The recursion of Reached: what i reward steps, or fewer, make of v.
IsAfter(f, v) == f = [i \in 0..MaxEvents |-> IF i = 0 THEN {v} ELSE Steps(f[i - 1])]
After(v) == CHOOSE f : IsAfter(f, v)

Base(key) == IF store[key] = NULL THEN running_reward ELSE store[key]

\* The reward steps there have been, at most, for a key.
Applied(key) == IF RewardOp(key) \in ToSet(todo) THEN events - 1 ELSE events

\* Memory is ahead of etcd by reward steps only, those whose write failed.
Learned ==
  \A key \in Keys \ (unread \cup UnlistedKeys) :
    cache[key] # NULL => cache[key] \in After(Base(key))[Applied(key)]

RewardInv == MonitorType /\ TodoInv /\ ListInv /\ FullReward /\ Learned

\* The keys of nodes and of pods, and the two kinds of requests, never coincide.
LEMMA KeysDistinct ==
  /\ \A n \in Node : NodeKey(n) \in Keys
  /\ \A t \in PodType, n \in Node \cup {All} : PodKey(t, n) \in Keys
  /\ \A n, m : NodeKey(n) = NodeKey(m) => n = m
  /\ \A t, u, n, m : PodKey(t, n) = PodKey(u, m) => t = u /\ n = m
  /\ \A t, n, m : NodeKey(n) # PodKey(t, m)
  BY DEF NodeKey, PodKey, Keys

\* The two operations of a handler that is under way differ.
LEMMA OpsDistinct ==
  /\ \A k \in Keys : InitOp(k) \in Op /\ RewardOp(k) \in Op
  /\ \A k : InitOp(k).op = "init" /\ InitOp(k).key = k /\ RewardOp(k).op = "reward" /\ RewardOp(k).key = k
  /\ \A x \in Op : x.key \in Keys /\ x = IF x.op = "init" THEN InitOp(x.key) ELSE RewardOp(x.key)
  BY DEF Op, InitOp, RewardOp

\* The keys of listed nodes, and those of whole pod types, are not unlisted.
LEMMA ListedKeys ==
  ASSUME MonitorType, NEW t \in PodType
  PROVE  /\ PodKey(t, All) \notin UnlistedKeys
         /\ \A n \in Node \ unlisted : PodKey(t, n) \notin UnlistedKeys
         /\ \A n \in Node \ unlisted : NodeKey(n) \notin UnlistedKeys
<1>1. All \notin unlisted
  BY RewardAssumption, Zenon DEF MonitorType
<1> QED
  BY <1>1, KeysDistinct DEF UnlistedKeys

\* The number of pod events handled is a number.
LEMMA MonitorTypeEvents ==
  ASSUME MonitorType PROVE events \in Nat
<1>1. MaxEvents \in Nat /\ events \in 0..MaxEvents
  BY RewardAssumption, Zenon DEF MonitorType
<1> QED
  BY <1>1

\* The unit of the rewards is a number.
LEMMA UnitNat == Unit \in Nat /\ Unit \in Int
  BY SMT DEF Unit

\* A reward step keeps a reward between failed_reward and running_reward.
LEMMA BlendRange ==
  ASSUME NEW v, v = NULL \/ v \in 0..Unit, NEW r \in Rewards
  PROVE  Blend(v, r) \in 0..Unit
<1> DEFINE w == IF v = NULL THEN 0 ELSE v
<1>1. Unit \in Nat /\ r \in 0..Unit
  <2>1. Unit \in Nat
    BY UnitNat, Zenon
  <2>2. Unit \div 2 \in 0..Unit
    BY <2>1, SMT
  <2>3. {running_reward, unseen_reward, failed_reward} \subseteq 0..Unit
    BY <2>1, <2>2, SMT DEF running_reward, unseen_reward, failed_reward
  <2> QED
    BY <2>1, <2>3, SMT DEF Rewards
<1>2. w \in 0..Unit
  BY <1>1, SMT
<1>3. Blend(v, r) = (9 * w + r) \div 10
  BY SMT DEF Blend
<1> HIDE DEF w
<1> QED
  BY <1>1, <1>2, <1>3, SMT

\* The loop over the container statuses ends with one of the three rewards.
Outcome == [updates : BOOLEAN, reward : Rewards]

\* The status of one container leads from an outcome to an outcome.
LEMMA JudgeOutcome ==
  ASSUME NEW r \in Outcome, NEW cst \in ContainerStatus
  PROVE  Judge(r, cst) \in Outcome
<1>1. unseen_reward \in Rewards /\ failed_reward \in Rewards
  BY Zenon DEF Rewards
<1>2. r.updates \in BOOLEAN /\ r.reward \in Rewards /\ [r EXCEPT !.updates = FALSE] \in Outcome
  BY Zenon DEF Outcome
<1>3. \A x \in Rewards : [updates |-> TRUE, reward |-> x] \in Outcome
  BY Zenon DEF Outcome
<1> QED
  BY <1>1, <1>2, <1>3, Zenon DEF Judge

\* So get_container_restarting_reward ends with one, for any list of statuses.
LEMMA LoopOutcome ==
  ASSUME NEW s \in BoundedSeq(ContainerStatus, MaxContainers)
  PROVE  get_container_restarting_reward(s) \in Outcome
<1> DEFINE D == DOMAIN s
           b == [updates |-> TRUE, reward |-> running_reward]
           Iter(g) == g = [x \in SUBSET D |->
                             IF x = {} THEN b ELSE Judge(g[x \ {Max(x)}], s[Max(x)])]
<1>1. PICK m \in 0..MaxContainers : s \in [1..m -> ContainerStatus]
  BY Zenon DEF BoundedSeq, SeqOf
<1>2. m \in Int /\ 1 \in Int /\ D = 1..m
  BY <1>1, RewardAssumption
<1>3. IsFiniteSet(D)
  BY <1>2, FS_Interval, Zenon
<1>4. b \in Outcome
  BY Zenon DEF Outcome, Rewards
<1>5. \A x \in SUBSET D : x # {} => Max(x) \in x
  <2> SUFFICES ASSUME NEW x \in SUBSET D, x # {} PROVE Max(x) \in x
    OBVIOUS
  <2>1. IsFiniteSet(x) /\ x \in SUBSET Int
    BY <1>2, <1>3, FS_Subset
  <2> QED
    BY <2>1, GreatestOf, Zenon
<1>6. \A i \in D : s[i] \in ContainerStatus
  BY <1>1, <1>2, Zenon
<1>7. \A i \in D : \A r \in Outcome : Judge(r, s[i]) \in Outcome
  BY <1>6, JudgeOutcome, Zenon
<1>8. get_container_restarting_reward(s) = (CHOOSE g : Iter(g))[D]
  BY Zenon DEF get_container_restarting_reward, FoldLeft, MapThenFoldSet
<1> HIDE DEF D, b
<1>9. \E g : Iter(g)
  <2> DEFINE F == [i \in D |-> [r \in Outcome |-> Judge(r, s[i])]]
             pick == [x \in SUBSET D |-> Max(x)]
  <2>1. \A i \in D : \A r \in Outcome : F[i][r] = Judge(r, s[i])
    OBVIOUS
  <2>2. Closed(F, D, Outcome)
    BY <1>7, <2>1, Zenon DEF Closed
  <2>3. Picks(pick, D) /\ \A x \in SUBSET D : pick[x] = Max(x)
    BY <1>5, Zenon DEF Picks
  <2> HIDE DEF F, pick
  <2>4. PICK g \in [SUBSET D -> Outcome] : IsFold(g, D, b, F, pick)
    BY <1>3, <1>4, <2>2, <2>3, FoldExists, Zenon
  <2>5. ASSUME NEW x \in SUBSET D, x # {} PROVE g[x] = Judge(g[x \ {Max(x)}], s[Max(x)])
    <3>1. Max(x) \in D /\ x \ {Max(x)} \in SUBSET D
      BY <1>5, <2>5, Zenon
    <3>2. g[x \ {Max(x)}] \in Outcome
      BY <2>4, <3>1, Zenon
    <3> QED
      BY <2>1, <2>3, <2>4, <2>5, <3>1, <3>2, Zenon DEF IsFold
  <2>6. g[{}] = b
    BY <2>4, Zenon DEF IsFold
  <2>7. Iter(g)
    BY <2>4, <2>5, <2>6, Zenon
  <2> QED
    BY <2>7, Zenon
<1>10. PICK g : Iter(g) /\ get_container_restarting_reward(s) = g[D]
  <2> HIDE DEF Iter
  <2> QED
    BY <1>8, <1>9, Zenon
<1> DEFINE T == {x \in SUBSET D : g[x] \in Outcome}
<1>11. ASSUME NEW x \in SUBSET D, \A i \in x : x \ {i} \in T PROVE x \in T
  <2>1. CASE x = {}
    BY <1>4, <1>10, <2>1, Zenon
  <2>2. CASE x # {}
    <3>1. Max(x) \in x /\ Max(x) \in D
      BY <1>5, <2>2, Zenon
    <3>2. g[x \ {Max(x)}] \in Outcome
      BY <1>11, <3>1, Zenon
    <3>3. g[x] = Judge(g[x \ {Max(x)}], s[Max(x)])
      BY <1>10, <2>2, Zenon
    <3> QED
      BY <1>7, <3>1, <3>2, <3>3, Zenon
  <2> QED
    BY <2>1, <2>2, Zenon
<1>12. D \in T
  <2> HIDE DEF T
  <2> QED
    BY <1>3, <1>11, FiniteInduction, ZenonT(30)
<1> QED
  BY <1>10, <1>12, Zenon

\* The reward of an event is one of the three.
LEMMA EventRewardsType == EventRewards \subseteq Rewards
<1>1. \A s \in BoundedSeq(ContainerStatus, MaxContainers) :
        get_container_restarting_reward(s).reward \in Rewards
  BY LoopOutcome, Zenon DEF Outcome
<1>2. failed_reward \in Rewards
  BY Zenon DEF Rewards
<1> QED
  BY <1>1, <1>2, Zenon DEF EventRewards

\* A value that one more event leads to is an earlier one, or the blend of one.
LEMMA StepOf ==
  ASSUME NEW W, NEW x \in Steps(W)
  PROVE  x \in W \/ \E w \in W, r \in Rewards : x = Blend(w, r)
  BY SMT DEF Steps

\* The recursion of Reached has a solution; more steps reach more values.
LEMMA AfterSteps ==
  ASSUME NEW v \in Int
  PROVE  /\ Reached(v) = After(v)[MaxEvents]
         /\ After(v)[0] = {v}
         /\ \A i \in 1..MaxEvents : After(v)[i] = Steps(After(v)[i - 1])
<1>1. MaxEvents \in Nat
  BY RewardAssumption, Zenon
<1>2. Reached(v) = After(v)[MaxEvents]
  BY Zenon DEF Reached, After, IsAfter
<1>3. \A W \in SUBSET Int : Steps(W) \in SUBSET Int
  <2> SUFFICES ASSUME NEW W \in SUBSET Int, NEW x \in Steps(W) PROVE x \in Int
    BY Zenon
  <2> SUFFICES ASSUME x \notin W PROVE x \in Int
    BY Zenon
  <2>0. PICK w \in W, r \in Rewards : x = Blend(w, r)
    BY StepOf, Zenon
  <2>1. r \in Int
    <3>1. Unit \in Int
      BY SMT DEF Unit
    <3>2. {running_reward, unseen_reward, failed_reward} \subseteq Int
      BY <3>1, SMT DEF running_reward, unseen_reward, failed_reward
    <3> QED
      BY <3>2, Zenon DEF Rewards
  <2>2. w \in Int
    BY Zenon
  <2> QED
    BY <2>0, <2>1, <2>2, SMT DEF Blend
<1>4. \E f : IsAfter(f, v)
  <2> DEFINE V == SUBSET Int
             b == {v}
             F == [i \in 1..MaxEvents |-> [W \in V |-> Steps(W)]]
  <2>1. b \in V /\ \A i \in 1..MaxEvents : \A W \in V : F[i][W] = Steps(W)
    OBVIOUS
  <2>2. Closed(F, 1..MaxEvents, V)
    BY <1>3, <2>1, Zenon DEF Closed
  <2> HIDE DEF V, b, F
  <2>3. PICK f \in [0..MaxEvents -> V] : IsRecursion(f, MaxEvents, b, F)
    BY <1>1, <2>1, <2>2, RecursionExists, Zenon
  <2>4. ASSUME NEW i \in 0..MaxEvents PROVE f[i] = IF i = 0 THEN b ELSE Steps(f[i - 1])
    <3>1. CASE i = 0
      BY <2>3, <3>1, Zenon DEF IsRecursion
    <3>2. CASE i # 0
      <4>1. i \in 1..MaxEvents /\ i - 1 \in 0..MaxEvents
        BY <1>1, <3>2
      <4>2. f[i - 1] \in V
        BY <2>3, <4>1, Zenon
      <4> QED
        BY <2>1, <2>3, <3>2, <4>1, <4>2, Zenon DEF IsRecursion
    <3> QED
      BY <3>1, <3>2, Zenon
  <2>5. IsAfter(f, v)
    BY <2>3, <2>4, Zenon DEF IsAfter, b
  <2> QED
    BY <2>5, Zenon
<1>5. IsAfter(After(v), v)
  BY <1>4, Zenon DEF After
<1>6. After(v)[0] = {v} /\ \A i \in 1..MaxEvents : After(v)[i] = Steps(After(v)[i - 1])
  <2> DEFINE f == After(v)
  <2> HIDE DEF f
  <2>1. IsAfter(f, v)
    BY <1>5, Zenon DEF f
  <2>2. f[0] = {v} /\ \A i \in 1..MaxEvents : f[i] = Steps(f[i - 1])
    <3>1. DOMAIN f = 0..MaxEvents /\ 0 \in 0..MaxEvents
      BY <1>1, <2>1 DEF IsAfter
    <3>2. \A i \in 0..MaxEvents : f[i] = IF i = 0 THEN {v} ELSE Steps(f[i - 1])
      BY <2>1, Zenon DEF IsAfter
    <3>3. \A i \in 1..MaxEvents : i \in 0..MaxEvents /\ i # 0
      BY <1>1
    <3> QED
      BY <3>1, <3>2, <3>3, Zenon
  <2> QED
    BY <2>2, Zenon DEF f
<1> QED
  BY <1>2, <1>6, Zenon

\* What is reached by some events is reached within more of them.
LEMMA AfterMonotonic ==
  ASSUME NEW v \in Int, NEW i \in 0..MaxEvents, NEW j \in i..MaxEvents
  PROVE  After(v)[i] \subseteq After(v)[j]
<1> DEFINE f == After(v)
           T == {k \in Nat : i + k <= MaxEvents => f[i] \subseteq f[i + k]}
<1>1. MaxEvents \in Nat
  BY RewardAssumption, Zenon
<1>2. \A k \in 1..MaxEvents : f[k - 1] \subseteq f[k]
  BY AfterSteps DEF Steps
<1> HIDE DEF f
<1>3. 0 \in T
  BY <1>1
<1>4. ASSUME NEW k \in Nat, k \in T PROVE k + 1 \in T
  <2> SUFFICES ASSUME i + (k + 1) <= MaxEvents PROVE f[i] \subseteq f[i + (k + 1)]
    OBVIOUS
  <2>1. i + (k + 1) \in 1..MaxEvents /\ (i + (k + 1)) - 1 = i + k /\ i + k <= MaxEvents
    BY <1>1
  <2>2. f[i + k] \subseteq f[i + (k + 1)]
    BY <1>2, <2>1, Zenon
  <2>3. f[i] \subseteq f[i + k]
    BY <1>4, <2>1, Zenon
  <2> QED
    BY <2>2, <2>3, Zenon
<1>5. j - i \in T
  <2>1. j - i \in Nat
    BY <1>1
  <2> HIDE DEF T
  <2> QED
    BY <1>3, <1>4, <2>1, SetInduction, Zenon
<1>6. i + (j - i) = j /\ j <= MaxEvents
  BY <1>1
<1> QED
  BY <1>5, <1>6, Zenon DEF f

-----------------------------------------------------------------------------
(***************************************************************************)
(* The requests of the handlers.                                           *)
(***************************************************************************)
PodInits(t, names) == {InitOp(PodKey(t, All))} \cup {InitOp(PodKey(t, n)) : n \in names}

NodeInits(names) == {InitOp(NodeKey(n)) : n \in names}

\* init_new_pod() initialises the pod type and its reward on each node.
LEMMA InitNewPodOps ==
  ASSUME NEW t \in PodType, NEW names \in SUBSET Node
  PROVE  init_new_pod(t, names) \in Seq(Op) /\ ToSet(init_new_pod(t, names)) = PodInits(t, names)
<1> DEFINE Q == {InitOp(PodKey(t, n)) : n \in names}
           a == InitOp(PodKey(t, All))
<1>1. IsFiniteSet(names)
  BY RewardAssumption, FS_Subset, Zenon
<1>2. IsFiniteSet(Q)
  <2> DEFINE f == [n \in names |-> InitOp(PodKey(t, n))]
  <2>1. f \in Surjection(names, Q)
    <3>1. f \in [names -> Q] /\ \A x \in Q : \E n \in names : f[n] = x
      OBVIOUS
    <3> HIDE DEF f, Q
    <3> QED
      BY <3>1, Zenon DEF Surjection
  <2> HIDE DEF f, Q
  <2> QED
    BY <1>1, <2>1, FS_Surjection, Zenon
<1>3. Q \subseteq Op /\ a \in Op
  BY KeysDistinct, OpsDistinct, Zenon
<1>4. init_new_pod(t, names) = <<a>> \o SetToSeq(Q)
  BY Zenon DEF init_new_pod
<1>5. PodInits(t, names) = {a} \cup Q
  BY Zenon DEF PodInits
<1> HIDE DEF Q, a
<1>6. SetToSeq(Q) \in Seq(Op) /\ ToSet(SetToSeq(Q)) = Q
  BY <1>2, <1>3, SetToSeqOf
<1>7. <<a>> \in Seq(Op) /\ ToSet(<<a>>) = {a}
  BY <1>3 DEF ToSet
<1> DEFINE q == SetToSeq(Q)
<1> HIDE DEF q
<1>8. <<a>> \o q \in Seq(Op) /\ ToSet(<<a>> \o q) = ToSet(<<a>>) \cup ToSet(q)
  BY <1>6, <1>7, ConcatElements, ZenonT(30) DEF q
<1> QED
  BY <1>4, <1>5, <1>6, <1>7, <1>8, Zenon DEF q

\* init_rewards() makes initialisations only: those of the nodes, and those of
\* the types of the pods it has listed.
LEMMA InitRewardsOps ==
  ASSUME nodes \subseteq Node, NEW types \in SUBSET PodType
  PROVE  /\ init_rewards(types) \in Seq(Op)
         /\ ToSet(init_rewards(types)) = NodeInits(nodes) \cup UNION {PodInits(t, nodes) : t \in types}
<1> DEFINE Q == NodeInits(nodes)
           ts == SetToSeq(types)
           m == Cardinality(types)
           ss == [i \in 1..m |-> init_new_pod(ts[i], nodes)]
<1>1. IsFiniteSet(nodes) /\ IsFiniteSet(types)
  BY RewardAssumption, FS_Subset, Zenon
<1>2. IsFiniteSet(Q) /\ Q \subseteq Op
  <2> DEFINE f == [n \in nodes |-> InitOp(NodeKey(n))]
  <2>1. f \in Surjection(nodes, Q)
    <3>1. f \in [nodes -> Q] /\ \A x \in Q : \E n \in nodes : f[n] = x
      BY Zenon DEF NodeInits
    <3> HIDE DEF f, Q
    <3> QED
      BY <3>1, Zenon DEF Surjection
  <2>2. Q \subseteq Op
    BY KeysDistinct, OpsDistinct, Zenon DEF NodeInits
  <2> HIDE DEF f, Q
  <2> QED
    BY <1>1, <2>1, <2>2, FS_Surjection, Zenon
<1>3. ts \in Seq(types) /\ ToSet(ts) = types /\ Len(ts) = m /\ m \in Nat
  BY <1>1, SetToSeqOf, FS_CardinalityType, Zenon
<1>4. init_rewards(types) = SetToSeq(Q) \o FlattenSeq(ss)
  BY Zenon DEF init_rewards, NodeInits
<1> HIDE DEF Q, ts, m
<1>5. \A i \in 1..m : ts[i] \in types
  BY <1>3
<1>6. \A i \in 1..m : ss[i] \in Seq(Op) /\ ToSet(ss[i]) = PodInits(ts[i], nodes)
  BY <1>5, InitNewPodOps, Zenon
<1>7. ss \in Seq(Seq(Op)) /\ Len(ss) = m
  <2> DEFINE R == Seq(Op)
  <2>1. ss \in [1..m -> R]
    BY <1>6, Zenon
  <2> HIDE DEF R, ss
  <2>2. ss \in Seq(R) /\ Len(ss) = m
    BY <1>3, <2>1
  <2> QED
    BY <2>2, Zenon DEF R
<1> HIDE DEF ss
<1>8. /\ FlattenSeq(ss) \in Seq(Op)
      /\ ToSet(FlattenSeq(ss)) = UNION {ToSet(ss[i]) : i \in 1..m}
  BY <1>7, FlattenElements, Zenon
<1>9. UNION {ToSet(ss[i]) : i \in 1..m} = UNION {PodInits(t, nodes) : t \in types}
  <2>1. \A t \in types : \E i \in 1..m : ts[i] = t
    BY <1>3 DEF ToSet
  <2> QED
    BY <1>5, <1>6, <2>1
<1>10. SetToSeq(Q) \in Seq(Op) /\ ToSet(SetToSeq(Q)) = Q
  BY <1>2, SetToSeqOf
<1> DEFINE q == SetToSeq(Q)
           f == FlattenSeq(ss)
<1> HIDE DEF q, f
<1>11. q \o f \in Seq(Op) /\ ToSet(q \o f) = ToSet(q) \cup ToSet(f)
  BY <1>8, <1>10, ConcatElements DEF q, f
<1> QED
  BY <1>4, <1>8, <1>9, <1>10, <1>11, Zenon DEF q, f, Q

\* A sequence made of two sequences with one, and two, elements after them.
IsInterleaved(u, A, x, B, y, z) ==
  /\ Len(u) = Len(A) + Len(B) + 3
  /\ \A i \in 1..Len(A) : u[i] = A[i]
  /\ u[Len(A) + 1] = x
  /\ \A i \in 1..Len(B) : u[Len(A) + 1 + i] = B[i]
  /\ u[Len(A) + Len(B) + 2] = y /\ u[Len(A) + Len(B) + 3] = z

\* What is where in the concatenation of four sequences, one at a time.
LEMMA InterleavedAt ==
  ASSUME NEW A, NEW B, Len(A) \in Nat, Len(B) \in Nat, NEW x, NEW y, NEW z,
         NEW v, NEW w, NEW u, NEW one, NEW two,
         Len(one) = 1, one[1] = x, Len(two) = 2, two[1] = y, two[2] = z,
         IsConcat(v, A, one), IsConcat(w, v, B), IsConcat(u, w, two)
  PROVE  IsInterleaved(u, A, x, B, y, z)
<1>1. Len(v) = Len(A) + 1 /\ v[Len(A) + 1] = x /\ \A i \in 1..Len(A) : v[i] = A[i]
  BY DEF IsConcat
<1>2. Len(w) = Len(v) + Len(B) /\ \A i \in 1..Len(v) : w[i] = v[i]
  BY Zenon DEF IsConcat
<1>3. Len(w) \in Nat /\ Len(v) \in Nat
  BY <1>1, <1>2
<1>4. /\ Len(u) = Len(w) + 2 /\ u[Len(w) + 1] = y /\ u[Len(w) + 2] = z
      /\ \A i \in 1..Len(w) : u[i] = w[i]
  BY <1>3 DEF IsConcat
<1>5. \A i \in 1..Len(v) : u[i] = v[i]
  BY <1>1, <1>2, <1>3, <1>4, SMTT(30)
<1>6. \A i \in 1..Len(B) : u[Len(A) + 1 + i] = B[i]
  BY <1>1, <1>3, <1>4 DEF IsConcat
<1> QED
  BY <1>1, <1>2, <1>4, <1>5, <1>6, SMTT(30) DEF IsInterleaved

\* The shape of the operations of update_pod_node_reward as a sequence.
LEMMA Interleaved ==
  ASSUME NEW S, NEW A \in Seq(S), NEW B \in Seq(S), NEW x \in S, NEW y \in S, NEW z \in S
  PROVE  /\ A \o <<x>> \o B \o <<y, z>> \in Seq(S)
         /\ IsInterleaved(A \o <<x>> \o B \o <<y, z>>, A, x, B, y, z)
<1> DEFINE one == <<x>>
           two == <<y, z>>
<1>1. /\ one \in Seq(S) /\ Len(one) = 1 /\ one[1] = x
      /\ two \in Seq(S) /\ Len(two) = 2 /\ two[1] = y /\ two[2] = z
      /\ Len(A) \in Nat /\ Len(B) \in Nat
  OBVIOUS
<1> HIDE DEF one, two
<1>2. A \o one \in Seq(S) /\ IsConcat(A \o one, A, one)
  BY <1>1, ConcatElements, Zenon
<1> DEFINE v == A \o one
<1> HIDE DEF v
<1>3. v \o B \in Seq(S) /\ IsConcat(v \o B, v, B)
  BY <1>2, ConcatElements, Zenon DEF v
<1> DEFINE w == v \o B
<1> HIDE DEF w
<1>4. w \o two \in Seq(S) /\ IsConcat(w \o two, w, two)
  BY <1>1, <1>3, ConcatElements, Zenon DEF w
<1> DEFINE u == w \o two
<1> HIDE DEF u
<1>5. IsConcat(v, A, one) /\ IsConcat(w, v, B) /\ IsConcat(u, w, two) /\ u \in Seq(S)
  BY <1>2, <1>3, <1>4, Zenon DEF u, v, w
<1>6. IsInterleaved(u, A, x, B, y, z)
  BY <1>1, <1>5, InterleavedAt, Zenon
<1>7. u = A \o <<x>> \o B \o <<y, z>>
  BY Zenon DEF u, v, w, one, two
<1> QED
  BY <1>5, <1>6, <1>7, Zenon

\* What update_pod_node_reward() leaves to be done: its reward steps are for
\* the node, for the pod on the node and for the pod type, once each, and come
\* after the initialisations of these keys.
EventOps(u, t, n) ==
  /\ u \in Seq(Op)
  /\ \A i, j \in 1..Len(u) : u[i].op = "reward" /\ u[j] = u[i] => i = j
  /\ \A i \in 1..Len(u) : u[i].op = "reward" =>
       /\ u[i].key \in {NodeKey(n), PodKey(t, n), PodKey(t, All)}
       /\ u[i].key = NodeKey(n) =>
            cache[NodeKey(n)] # NULL \/ \E j \in 1..(i - 1) : u[j] = InitOp(NodeKey(n))
       /\ u[i].key # NodeKey(n) => \/ cache[PodKey(t, All)] # NULL
                                   \/ \E j \in 1..(i - 1) : u[j] = InitOp(u[i].key)
  /\ ToSet(u) \subseteq {InitOp(NodeKey(n))} \cup PodInits(t, Node) \cup {RewardOp(k) : k \in Keys}
  /\ IF cache[PodKey(t, All)] = NULL THEN PodInits(t, nodelist \cup {n}) \subseteq ToSet(u)
     ELSE InitOp(PodKey(t, All)) \notin ToSet(u)

\* The operations that update_pod_node_reward leads to.
LEMMA UpdateOps ==
  ASSUME MonitorType, NEW t \in PodType, NEW n \in Node
  PROVE  EventOps(update_pod_node_reward(t, n), t, n)
<1> DEFINE N == NodeKey(n)
           P == PodKey(t, n)
           L == PodKey(t, All)
           A == IF cache[N] = NULL THEN <<InitOp(N)>> ELSE <<>>
           B == IF cache[L] = NULL THEN init_new_pod(t, nodelist \cup {n}) ELSE <<>>
           u == update_pod_node_reward(t, n)
           names == nodelist \cup {n}
<1>1. N \in Keys /\ P \in Keys /\ L \in Keys /\ N # P /\ N # L /\ P # L
  <2>1. n # All
    BY RewardAssumption, Zenon
  <2> QED
    BY <2>1, KeysDistinct, Zenon
<1>2. names \in SUBSET Node
  BY Zenon DEF MonitorType
<1>3. A \in Seq(Op) /\ ToSet(A) = IF cache[N] = NULL THEN {InitOp(N)} ELSE {}
  <2>1. InitOp(N) \in Op
    BY <1>1, OpsDistinct, Zenon
  <2> DEFINE x == InitOp(N)
  <2> HIDE DEF x, N
  <2>2. <<x>> \in Seq(Op) /\ ToSet(<<x>>) = {x} /\ <<>> \in Seq(Op) /\ ToSet(<<>>) = {}
    BY <2>1 DEF ToSet, x
  <2> QED
    BY <2>2, Zenon DEF x
<1>4. B \in Seq(Op) /\ ToSet(B) = IF cache[L] = NULL THEN PodInits(t, names) ELSE {}
  <2>1. <<>> \in Seq(Op) /\ ToSet(<<>>) = {}
    BY DEF ToSet
  <2>2. init_new_pod(t, names) \in Seq(Op) /\ ToSet(init_new_pod(t, names)) = PodInits(t, names)
    BY <1>2, InitNewPodOps, Zenon
  <2> QED
    BY <2>1, <2>2, Zenon
<1>5. u = A \o <<RewardOp(N)>> \o B \o <<RewardOp(P), RewardOp(L)>>
  BY Zenon DEF update_pod_node_reward
<1> HIDE DEF N, P, L, A, B, u, names
<1>6. RewardOp(N) \in Op /\ RewardOp(P) \in Op /\ RewardOp(L) \in Op
  BY <1>1, OpsDistinct, Zenon
<1>7. u \in Seq(Op) /\ IsInterleaved(u, A, RewardOp(N), B, RewardOp(P), RewardOp(L))
  BY <1>3, <1>4, <1>5, <1>6, Interleaved, Zenon
<1> DEFINE a == Len(A)
           b == Len(B)
<1>8. a \in Nat /\ b \in Nat
  BY <1>3, <1>4
<1>9. \A i \in 1..a : A[i] \in ToSet(A)
  BY <1>3 DEF ToSet
<1>10. \A i \in 1..b : B[i] \in ToSet(B)
  BY <1>4 DEF ToSet
<1>11. (\A x \in ToSet(A) : \E i \in 1..a : A[i] = x) /\ (\A x \in ToSet(B) : \E i \in 1..b : B[i] = x)
  BY <1>3, <1>4 DEF ToSet
<1>12. \A x \in ToSet(A) \cup ToSet(B) : x.op = "init"
  BY <1>3, <1>4, OpsDistinct, SMTT(30) DEF PodInits
<1>13. /\ Len(u) = a + b + 3
       /\ \A i \in 1..a : u[i] \in ToSet(A) /\ u[i] = A[i]
       /\ u[a + 1] = RewardOp(N)
       /\ \A i \in 1..b : u[a + 1 + i] \in ToSet(B) /\ u[a + 1 + i] = B[i]
       /\ u[a + b + 2] = RewardOp(P) /\ u[a + b + 3] = RewardOp(L)
  BY <1>7, <1>9, <1>10, Zenon DEF IsInterleaved
<1> HIDE DEF a, b
<1>14. ASSUME NEW i \in 1..Len(u)
       PROVE  \/ i \in 1..a /\ u[i] \in ToSet(A)
              \/ i = a + 1 /\ u[i] = RewardOp(N)
              \/ i \in (a + 2)..(a + b + 1) /\ u[i] \in ToSet(B)
              \/ i = a + b + 2 /\ u[i] = RewardOp(P)
              \/ i = a + b + 3 /\ u[i] = RewardOp(L)
  <2>1. CASE i \in 1..a
    BY <1>13, <2>1, Zenon
  <2>2. CASE i \in (a + 2)..(a + b + 1)
    <3>1. i - (a + 1) \in 1..b /\ a + 1 + (i - (a + 1)) = i
      BY <1>8, <2>2, SMTT(30)
    <3> QED
      BY <1>13, <2>2, <3>1, Zenon
  <2>3. CASE i \in {a + 1, a + b + 2, a + b + 3}
    BY <1>13, <2>3, Zenon
  <2>4. i \in 1..a \/ i \in (a + 2)..(a + b + 1) \/ i \in {a + 1, a + b + 2, a + b + 3}
    BY <1>8, <1>13
  <2> QED
    BY <2>1, <2>2, <2>3, <2>4, Zenon
<1>15. ASSUME NEW i \in 1..Len(u), u[i].op = "reward"
       PROVE  \/ i = a + 1 /\ u[i] = RewardOp(N) /\ u[i].key = N
              \/ i = a + b + 2 /\ u[i] = RewardOp(P) /\ u[i].key = P
              \/ i = a + b + 3 /\ u[i] = RewardOp(L) /\ u[i].key = L
  BY <1>12, <1>14, <1>15, OpsDistinct, Zenon
<1>16. \A i, j \in 1..Len(u) : u[i].op = "reward" /\ u[j] = u[i] => i = j
  <2> SUFFICES ASSUME NEW i \in 1..Len(u), NEW j \in 1..Len(u), u[i].op = "reward", u[j] = u[i]
               PROVE  i = j
    OBVIOUS
  <2>1. u[j].op = "reward" /\ u[j].key = u[i].key
    OBVIOUS
  <2> QED
    BY <1>1, <1>15, <2>1, Zenon
<1>17. cache[N] = NULL => \E j \in 1..a : u[j] = InitOp(N)
  BY <1>3, <1>11, <1>13, Zenon
<1>18. cache[L] = NULL => \A k \in {P, L} : \E j \in (a + 2)..(a + b + 1) : u[j] = InitOp(k)
  <2> SUFFICES ASSUME cache[L] = NULL, NEW k \in {P, L}
               PROVE  \E j \in (a + 2)..(a + b + 1) : u[j] = InitOp(k)
    OBVIOUS
  <2>1. InitOp(k) \in ToSet(B)
    BY <1>4, Zenon DEF PodInits, P, L, names
  <2>2. PICK i \in 1..b : B[i] = InitOp(k)
    BY <1>11, <2>1, Zenon
  <2>3. a + 1 + i \in (a + 2)..(a + b + 1) /\ u[a + 1 + i] = InitOp(k)
    BY <1>8, <1>13, <2>2, SMTT(30)
  <2> QED
    BY <2>3, Zenon
<1>19. ASSUME NEW i \in 1..Len(u), u[i].op = "reward"
       PROVE  /\ u[i].key \in {N, P, L}
              /\ u[i].key = N => cache[N] # NULL \/ \E j \in 1..(i - 1) : u[j] = InitOp(N)
              /\ u[i].key # N => cache[L] # NULL \/ \E j \in 1..(i - 1) : u[j] = InitOp(u[i].key)
  <2>1. CASE i = a + 1 /\ u[i].key = N
    <3>1. i - 1 = a
      BY <1>8, <2>1
    <3> QED
      BY <1>17, <2>1, <3>1, Zenon
  <2>2. CASE i \in {a + b + 2, a + b + 3} /\ u[i].key \in {P, L}
    <3>1. \A j \in (a + 2)..(a + b + 1) : j \in 1..(i - 1)
      BY <1>8, <2>2, SMTT(30)
    <3> QED
      BY <1>1, <1>18, <2>2, <3>1, Zenon
  <2> QED
    BY <1>15, <1>19, <2>1, <2>2, Zenon
<1>20. ToSet(u) \subseteq ToSet(A) \cup ToSet(B) \cup {RewardOp(N), RewardOp(P), RewardOp(L)}
  BY <1>7, <1>14 DEF ToSet
<1>21. ToSet(u) \subseteq {InitOp(N)} \cup PodInits(t, Node) \cup {RewardOp(k) : k \in Keys}
  <2>1. PodInits(t, names) \subseteq PodInits(t, Node)
    BY <1>2, Zenon DEF PodInits
  <2> QED
    BY <1>1, <1>3, <1>4, <1>20, <2>1, Zenon
<1>22. cache[L] = NULL => PodInits(t, names) \subseteq ToSet(u)
  <2> SUFFICES ASSUME cache[L] = NULL, NEW x \in PodInits(t, names) PROVE x \in ToSet(u)
    OBVIOUS
  <2>1. PICK i \in 1..b : B[i] = x
    BY <1>4, <1>11, Zenon
  <2>2. a + 1 + i \in 1..Len(u) /\ u[a + 1 + i] = x
    BY <1>8, <1>13, <2>1, SMTT(30)
  <2> QED
    BY <1>7, <2>2 DEF ToSet
<1>23. cache[L] # NULL => InitOp(L) \notin ToSet(u)
  <2>1. InitOp(L) \notin {InitOp(N), RewardOp(N), RewardOp(P), RewardOp(L)}
    <3>1. InitOp(L).op = "init" /\ InitOp(L).key = L /\ InitOp(N).key = N
      BY OpsDistinct, Zenon
    <3>2. RewardOp(N).op = "reward" /\ RewardOp(P).op = "reward" /\ RewardOp(L).op = "reward"
      BY OpsDistinct, Zenon
    <3> QED
      BY <1>1, <3>1, <3>2, Zenon
  <2> QED
    BY <1>3, <1>4, <1>20, <2>1, Zenon
<1> QED
  BY <1>7, <1>16, <1>19, <1>21, <1>22, <1>23, Zenon DEF EventOps, N, P, L, u, names

-----------------------------------------------------------------------------
(***************************************************************************)
(* The steps.  A step that executes a request, of either kind, gives one   *)
(* key a value in memory and possibly in etcd.                             *)
(***************************************************************************)

\* The request at hand is done: key holds c in memory and d in etcd.
Executed(key, c, d) ==
  /\ key \in Keys /\ todo # <<>> /\ todo[1].key = key /\ todo' = Tail(todo)
  /\ DOMAIN cache' = Keys /\ \A k \in Keys : cache'[k] = IF k = key THEN c ELSE cache[k]
  /\ DOMAIN store' = Keys /\ \A k \in Keys : store'[k] = IF k = key THEN d ELSE store[k]
  /\ c # NULL
  /\ UNCHANGED <<nodes, nodelist, reward, up, events, given, unlisted>>

\* The first request of those that are left.
LEMMA FirstOp ==
  ASSUME MonitorType, todo # <<>>
  PROVE  /\ Len(todo) \in Nat /\ 1 \in 1..Len(todo) /\ Head(todo) = todo[1]
         /\ todo[1] \in Op /\ todo[1].key \in Keys
         /\ Tail(todo) \in Seq(Op) /\ Len(Tail(todo)) = Len(todo) - 1
         /\ \A i \in 1..(Len(todo) - 1) : Tail(todo)[i] = todo[i + 1]
         /\ ToSet(todo) = {todo[1]} \cup ToSet(Tail(todo))
<1> DEFINE s == Tail(todo)
<1>1. /\ Len(todo) \in Nat /\ 1 \in 1..Len(todo) /\ Head(todo) = todo[1] /\ todo[1] \in Op
      /\ s \in Seq(Op) /\ Len(s) = Len(todo) - 1
      /\ \A i \in 1..(Len(todo) - 1) : s[i] = todo[i + 1]
  BY DEF MonitorType
<1>2. todo[1].key \in Keys
  BY <1>1, OpsDistinct, Zenon
<1>3. DOMAIN todo = 1..Len(todo) /\ DOMAIN s = 1..Len(s)
  BY <1>1 DEF MonitorType
<1> HIDE DEF s
<1>4. ToSet(todo) = {todo[1]} \cup ToSet(s)
  <2>1. ASSUME NEW x \in ToSet(todo) PROVE x \in {todo[1]} \cup ToSet(s)
    <3>1. PICK i \in 1..Len(todo) : todo[i] = x
      BY <1>3, <2>1, Zenon DEF ToSet
    <3>2. CASE i # 1
      <4>1. i - 1 \in 1..(Len(todo) - 1) /\ (i - 1) + 1 = i
        BY <1>1, <3>2, SMTT(30)
      <4>2. s[i - 1] = x
        BY <1>1, <3>1, <4>1, Zenon
      <4> QED
        BY <1>1, <1>3, <4>1, <4>2, Zenon DEF ToSet
    <3> QED
      BY <3>1, <3>2, Zenon
  <2>2. ASSUME NEW x \in ToSet(s) PROVE x \in ToSet(todo)
    <3>1. PICK i \in 1..Len(s) : s[i] = x
      BY <1>3, <2>2, Zenon DEF ToSet
    <3>2. i + 1 \in 1..Len(todo) /\ todo[i + 1] = x
      BY <1>1, <3>1, SMTT(30)
    <3> QED
      BY <1>3, <3>2, Zenon DEF ToSet
  <2> QED
    BY <1>1, <1>3, <2>1, <2>2, Zenon DEF ToSet
<1> QED
  BY <1>1, <1>2, <1>4, Zenon DEF s

\* InitStep gives the key the value that is stored, or running_reward.
LEMMA InitExecuted ==
  ASSUME MonitorType, InitStep
  PROVE  \E key, c, d :
           /\ Executed(key, c, d) /\ todo[1] = InitOp(key)
           /\ \/ c = store[key] /\ d = c /\ unread' = unread
              \/ /\ c = running_reward /\ d \in {store[key], c}
                 /\ \/ store[key] = NULL /\ unread' = unread
                    \/ unread' = unread \cup {key}
<1> DEFINE key == Head(todo).key
           Done(c, d) == /\ Executed(key, c, d) /\ todo[1] = InitOp(key)
                         /\ \/ c = store[key] /\ d = c /\ unread' = unread
                            \/ /\ c = running_reward /\ d \in {store[key], c}
                               /\ \/ store[key] = NULL /\ unread' = unread
                                  \/ unread' = unread \cup {key}
<1>1. todo # <<>> /\ Head(todo).op = "init" /\ todo' = Tail(todo)
      /\ UNCHANGED <<nodes, nodelist, reward, up, events, given, unlisted>>
      /\ init_if_not_exists(key)
  BY Zenon DEF InitStep, Proceed
<1>2. key \in Keys /\ todo[1].key = key /\ todo[1] = InitOp(key)
  BY <1>1, FirstOp, OpsDistinct, Zenon
<1>3. DOMAIN store = Keys /\ DOMAIN cache = Keys /\ running_reward # NULL
  BY RewardAssumption, UnitNat, Zenon DEF MonitorType, running_reward
<1> HIDE DEF key
<1>4. \A c : cache' = [cache EXCEPT ![key] = c] =>
        DOMAIN cache' = Keys /\ \A k \in Keys : cache'[k] = IF k = key THEN c ELSE cache[k]
  BY <1>3, Zenon
<1>5. CASE store[key] # NULL /\ cache' = [cache EXCEPT ![key] = store[key]] /\ UNCHANGED <<store, unread>>
  <2>1. Done(store[key], store[key])
    BY <1>1, <1>2, <1>3, <1>4, <1>5, Zenon DEF Executed
  <2> QED
    BY <2>1, Zenon
<1>6. ASSUME NEW f, cache' = [cache EXCEPT ![key] = running_reward], write_key_value(key, running_reward, f),
             (store[key] = NULL /\ unread' = unread) \/ unread' = unread \cup {key}
      PROVE  Done(running_reward, store[key]) \/ Done(running_reward, running_reward)
  <2>1. store' = store \/ store' = [store EXCEPT ![key] = running_reward]
    BY <1>6, Zenon DEF write_key_value
  <2> QED
    BY <1>1, <1>2, <1>3, <1>4, <1>6, <2>1, Zenon DEF Executed
<1>7. CASE \E f : /\ cache' = [cache EXCEPT ![key] = running_reward] /\ write_key_value(key, running_reward, f)
                  /\ (store[key] = NULL /\ unread' = unread) \/ unread' = unread \cup {key}
  BY <1>6, <1>7, Zenon
<1> QED
  BY <1>1, <1>5, <1>6, Zenon DEF init_if_not_exists

\* RewardStep gives the key the next value.
LEMMA RewardExecuted ==
  ASSUME MonitorType, RewardStep
  PROVE  \E key, c, d :
           /\ Executed(key, c, d) /\ todo[1] = RewardOp(key)
           /\ c = Blend(cache[key], reward) /\ d \in {store[key], c} /\ unread' = unread
<1> DEFINE key == Head(todo).key
           c == Blend(cache[key], reward)
<1>1. todo # <<>> /\ Head(todo).op = "reward" /\ todo' = Tail(todo)
      /\ UNCHANGED <<nodes, nodelist, reward, up, events, given, unlisted, unread>>
      /\ cache' = [cache EXCEPT ![key] = c] /\ write_key_value(key, c, 0)
  BY Zenon DEF RewardStep, Proceed
<1>2. key \in Keys /\ todo[1].key = key /\ todo[1] = RewardOp(key)
  BY <1>1, FirstOp, OpsDistinct, Zenon
<1>3. c # NULL
  <2>1. cache[key] = NULL \/ cache[key] \in 0..Unit
    BY <1>2, Zenon DEF MonitorType
  <2>2. c \in 0..Unit
    BY <2>1, BlendRange, Zenon DEF MonitorType
  <2> QED
    BY <2>2, UnitNat, RewardAssumption, SMTT(30)
<1>4. DOMAIN store = Keys /\ DOMAIN cache = Keys
  BY Zenon DEF MonitorType
<1> HIDE DEF key
<1>5. store' = store \/ store' = [store EXCEPT ![key] = c]
  BY <1>1, Zenon DEF write_key_value
<1>6. Executed(key, c, store[key]) \/ Executed(key, c, c)
  <2> HIDE DEF c
  <2>1. DOMAIN cache' = Keys /\ \A k \in Keys : cache'[k] = IF k = key THEN c ELSE cache[k]
    BY <1>1, <1>4, Zenon
  <2> QED
    BY <1>1, <1>2, <1>3, <1>4, <1>5, <2>1, Zenon DEF Executed
<1> QED
  BY <1>1, <1>2, <1>6, Zenon

\* Executing a request keeps the types.
LEMMA ExecutedType ==
  ASSUME MonitorType, NEW key, NEW c, NEW d, Executed(key, c, d),
         c \in 0..Unit, d = NULL \/ d \in 0..Unit
  PROVE  MonitorType'
<1>1. todo' \in Seq(Op)
  BY FirstOp, Zenon DEF Executed
<1>2. \A k \in Keys : \A v \in {store'[k], cache'[k]} : v # NULL => v \in 0..Unit
  BY DEF Executed, MonitorType
<1> QED
  BY <1>1, <1>2, Zenon DEF Executed, MonitorType

\* What is held stays held, and nothing else becomes so, provided that a
\* reward step finds a value.
LEMMA ExecutedHeld ==
  ASSUME MonitorType, NEW key, NEW c, NEW d, Executed(key, c, d),
         todo[1] = InitOp(key) \/ (todo[1] = RewardOp(key) /\ cache[key] # NULL),
         NEW k \in Keys
  PROVE  Held(k)' <=> Held(k)
<1>1. ToSet(todo) = {todo[1]} \cup ToSet(todo')
  BY FirstOp, Zenon DEF Executed
<1>2. cache'[k] = IF k = key THEN c ELSE cache[k]
  BY Zenon DEF Executed
<1>3. todo[1] = InitOp(k) => k = key
  BY OpsDistinct, Zenon DEF Executed
<1>4. Held(key) /\ Held(key)'
  BY <1>1, <1>2, Zenon DEF Held, Executed
<1>5. k # key => (InitOp(k) \in ToSet(todo') <=> InitOp(k) \in ToSet(todo))
  BY <1>1, <1>3, Zenon
<1> QED
  BY <1>2, <1>4, <1>5, Zenon DEF Held

\* The requests that are left stay in order.
LEMMA ExecutedTodo ==
  ASSUME MonitorType, TodoInv, NEW key, NEW c, NEW d, Executed(key, c, d),
         todo[1] = InitOp(key) \/ todo[1] = RewardOp(key)
  PROVE  TodoInv'
<1>1. /\ Len(todo) \in Nat /\ Len(todo') = Len(todo) - 1
      /\ \A i \in 1..Len(todo') : i + 1 \in 1..Len(todo) /\ todo'[i] = todo[i + 1]
  BY FirstOp, SMTT(30) DEF Executed
<1>2. UNCHANGED <<events, reward, given, unlisted>> /\ UnlistedKeys' = UnlistedKeys
  BY DEF Executed, UnlistedKeys
<1>3. \A i, j \in 1..Len(todo') : todo'[i].op = "reward" /\ todo'[j] = todo'[i] => i = j
  <2> SUFFICES ASSUME NEW i \in 1..Len(todo'), NEW j \in 1..Len(todo'),
                      todo'[i].op = "reward", todo'[j] = todo'[i]
               PROVE  i = j
    OBVIOUS
  <2>1. i + 1 \in 1..Len(todo) /\ j + 1 \in 1..Len(todo) /\ todo[i + 1].op = "reward" /\ todo[j + 1] = todo[i + 1]
    BY <1>1, Zenon
  <2>2. i + 1 = j + 1
    BY <2>1, Zenon DEF TodoInv
  <2> QED
    BY <1>1, <2>2, SMTT(30)
<1>4. ASSUME NEW i \in 1..Len(todo'), todo'[i].op = "reward"
      PROVE  /\ events' > 0
             /\ \A t \in PodType, n \in Node : todo'[i].key = PodKey(t, n) => reward' \in given'[t][n]
             /\ todo'[i].key \notin UnlistedKeys' =>
                  cache'[todo'[i].key] # NULL \/ \E j \in 1..(i - 1) : todo'[j] = InitOp(todo'[i].key)
  <2> DEFINE k == todo'[i].key
  <2>1. /\ i + 1 \in 1..Len(todo) /\ todo[i + 1].op = "reward" /\ todo[i + 1].key = k /\ (i + 1) - 1 = i
    BY <1>1, <1>4, SMTT(30)
  <2>2. events > 0 /\ \A t \in PodType, n \in Node : k = PodKey(t, n) => reward \in given[t][n]
    BY <2>1, Zenon DEF TodoInv
  <2>3. k \in Keys
    <3>1. todo[i + 1] \in Op
      BY <2>1, SMTT(30) DEF MonitorType
    <3> QED
      BY <2>1, <3>1, OpsDistinct, Zenon
  <2>4. ASSUME k \notin UnlistedKeys
        PROVE  cache'[k] # NULL \/ \E j \in 1..(i - 1) : todo'[j] = InitOp(k)
    <3>1. cache[k] # NULL \/ \E j \in 1..i : todo[j] = InitOp(k)
      BY <2>1, <2>4, Zenon DEF TodoInv
    <3>2. CASE cache[k] # NULL
      BY <2>3, <3>2, Zenon DEF Executed
    <3>3. ASSUME NEW j \in 1..i, todo[j] = InitOp(k)
          PROVE  cache'[k] # NULL \/ \E m \in 1..(i - 1) : todo'[m] = InitOp(k)
      <4>1. CASE j = 1
        <5>1. k = key
          BY <3>3, <4>1, OpsDistinct, SMTT(30)
        <5> QED
          BY <2>3, <5>1, Zenon DEF Executed
      <4>2. CASE j # 1
        <5>1. j - 1 \in 1..(i - 1) /\ j - 1 \in 1..Len(todo') /\ (j - 1) + 1 = j
          BY <1>1, <4>2, SMTT(30)
        <5>2. todo'[j - 1] = InitOp(k)
          BY <1>1, <3>3, <5>1, Zenon
        <5> QED
          BY <5>1, <5>2, Zenon
      <4> QED
        BY <4>1, <4>2, Zenon
    <3> QED
      BY <3>1, <3>2, <3>3, Zenon
  <2> QED
    BY <1>2, <2>2, <2>4, Zenon
<1> QED
  BY <1>3, <1>4, Zenon DEF TodoInv

\* A known pod type stays known on every listed node.
LEMMA ExecutedList ==
  ASSUME MonitorType, ListInv, NEW key, NEW c, NEW d, Executed(key, c, d), up,
         todo[1] = InitOp(key) \/ (todo[1] = RewardOp(key) /\ (key \notin UnlistedKeys => cache[key] # NULL))
  PROVE  ListInv'
<1>1. UNCHANGED <<nodes, nodelist, up, unlisted>>
  BY Zenon DEF Executed
<1>2. CASE todo[1] = InitOp(key) \/ cache[key] # NULL
  <2>1. \A k \in Keys : Held(k)' <=> Held(k)
    BY <1>2, ExecutedHeld, Zenon
  <2>2. \A t \in PodType : PodKey(t, All) \in Keys /\ \A n \in nodes : PodKey(t, n) \in Keys
    BY KeysDistinct, Zenon DEF MonitorType
  <2> QED
    BY <1>1, <2>1, <2>2, Zenon DEF ListInv
<1>3. CASE todo[1] = RewardOp(key) /\ key \in UnlistedKeys
  <2>1. ASSUME NEW k \in Keys, k # key PROVE Held(k)' <=> Held(k)
    <3>1. ToSet(todo) = {todo[1]} \cup ToSet(todo')
      BY FirstOp, Zenon DEF Executed
    <3>2. todo[1] # InitOp(k)
      BY <1>3, OpsDistinct, Zenon
    <3> QED
      BY <2>1, <3>1, <3>2, Zenon DEF Held, Executed
  <2>2. ASSUME NEW t \in PodType
        PROVE  /\ PodKey(t, All) \in Keys \ {key}
               /\ \A n \in nodes \ unlisted : PodKey(t, n) \in Keys \ {key}
    BY <1>3, ListedKeys, KeysDistinct, SMTT(30) DEF MonitorType
  <2> QED
    BY <1>1, <2>1, <2>2, Zenon DEF ListInv
<1> QED
  BY <1>2, <1>3, Zenon

\* running_reward, blended with itself, stays what it is.
LEMMA BlendFull == Blend(running_reward, running_reward) = running_reward
<1>1. Unit # NULL
  BY UnitNat, RewardAssumption, Zenon
<1>2. (9 * Unit + Unit) \div 10 = Unit
  BY UnitNat, SMT
<1> QED
  BY <1>1, <1>2, SMT DEF Blend, running_reward

\* A value stays within the steps of its key: it is read from etcd, set to the
\* initial reward, or blended once more; and it is stored or is not.
LEMMA ExecutedLearned ==
  ASSUME MonitorType, TodoInv, Learned, NEW key, NEW c, NEW d, Executed(key, c, d), c \in 0..Unit,
         unread' = unread \/ unread' = unread \cup {key},
         key \notin unread' \cup UnlistedKeys =>
           \/ todo[1] = InitOp(key) /\ c = Base(key) /\ (d = c \/ d = store[key])
           \/ /\ todo[1] = RewardOp(key) /\ cache[key] # NULL /\ c = Blend(cache[key], reward)
              /\ d = c \/ d = store[key],
         todo[1] = InitOp(key) \/ todo[1] = RewardOp(key)
  PROVE  Learned'
<1>1. UNCHANGED events /\ UnlistedKeys' = UnlistedKeys
  BY SMTT(30) DEF Executed, UnlistedKeys
<1>2. ToSet(todo) = {todo[1]} \cup ToSet(todo') /\ 1 \in 1..Len(todo)
  BY FirstOp, Zenon DEF Executed
<1>3. ASSUME NEW k \in Keys \ (unread' \cup UnlistedKeys), k # key, cache'[k] # NULL
      PROVE  cache'[k] \in After(Base(k)')[Applied(k)']
  <2>1. k \in Keys \ (unread \cup UnlistedKeys) /\ cache'[k] = cache[k] /\ store'[k] = store[k]
    BY <1>3, Zenon DEF Executed
  <2>2. RewardOp(k) \in ToSet(todo') <=> RewardOp(k) \in ToSet(todo)
    BY <1>2, <1>3, OpsDistinct, SMTT(30)
  <2>3. Base(k)' = Base(k) /\ Applied(k)' = Applied(k)
    BY <1>1, <2>1, <2>2, Zenon DEF Base, Applied
  <2> QED
    BY <1>3, <2>1, <2>3, Zenon DEF Learned
<1>4. ASSUME key \notin unread' \cup UnlistedKeys
      PROVE  c \in After(Base(key)')[Applied(key)']
  <2>1. key \in Keys /\ key \notin unread \cup UnlistedKeys /\ store'[key] = d
    BY <1>4, Zenon DEF Executed
  <2>2. /\ Base(key) \in Int /\ c \in Int /\ c # NULL
    BY <2>1, UnitNat, RewardAssumption, SMTT(30) DEF Base, MonitorType, running_reward, Executed
  <2>3. Base(key)' = c \/ Base(key)' = Base(key)
    BY <1>4, <2>1, <2>2, Zenon DEF Base
  <2>4. events \in Nat /\ events <= MaxEvents /\ MaxEvents \in Nat
    BY RewardAssumption, SMTT(30) DEF MonitorType
  <2>5. Applied(key)' \in 0..MaxEvents
    <3>1. ASSUME RewardOp(key) \in ToSet(todo') PROVE events > 0
      <4>1. RewardOp(key) \in ToSet(todo)
        BY <1>2, <3>1, Zenon
      <4>2. PICK i \in 1..Len(todo) : todo[i] = RewardOp(key)
        BY <4>1, SMTT(30) DEF ToSet, MonitorType
      <4> QED
        BY <4>2, OpsDistinct, Zenon DEF TodoInv
    <3> QED
      BY <1>1, <2>4, <3>1, SMTT(30) DEF Applied
  <2>6. ASSUME NEW v \in Int PROVE v \in After(v)[Applied(key)']
    <3>1. v \in After(v)[0]
      BY AfterSteps, Zenon
    <3>2. 0 \in 0..MaxEvents /\ Applied(key)' \in 0..MaxEvents
      BY <2>4, <2>5, SMTT(30)
    <3> QED
      BY <3>1, <3>2, AfterMonotonic, Zenon
  <2>7. CASE Base(key)' = c
    BY <2>2, <2>6, <2>7, Zenon
  <2>8. CASE Base(key)' = Base(key) /\ c = Base(key)
    BY <2>2, <2>6, <2>8, Zenon
  <2>9. CASE /\ Base(key)' = Base(key) /\ todo[1] = RewardOp(key) /\ cache[key] # NULL
             /\ c = Blend(cache[key], reward)
    <3>1. RewardOp(key) \in ToSet(todo) /\ events > 0
      BY <1>2, <2>9, OpsDistinct, Zenon DEF TodoInv
    <3>2. cache[key] \in After(Base(key))[events - 1]
      BY <2>1, <2>9, <3>1, Zenon DEF Learned, Applied
    <3>3. RewardOp(key) \notin ToSet(todo')
      <4> SUFFICES ASSUME RewardOp(key) \in ToSet(todo') PROVE FALSE
        OBVIOUS
      <4>1. PICK i \in 1..Len(todo') : todo'[i] = RewardOp(key)
        <5>1. todo' \in Seq(Op)
          BY FirstOp, Zenon DEF Executed
        <5> QED
          BY <5>1, SMTT(30) DEF ToSet
      <4>2. i + 1 \in 1..Len(todo) /\ todo[i + 1] = RewardOp(key) /\ i + 1 # 1
        BY <4>1, FirstOp, SMTT(30) DEF Executed
      <4> QED
        BY <1>2, <2>9, <4>2, OpsDistinct, ZenonT(30) DEF TodoInv
    <3>4. Applied(key)' = events
      BY <1>1, <3>3, Zenon DEF Applied
    <3>5. events \in 1..MaxEvents
      BY <2>4, <3>1, SMTT(30)
    <3>6. After(Base(key))[events] = Steps(After(Base(key))[events - 1])
      BY <2>2, <3>5, AfterSteps, Zenon
    <3>7. reward \in Rewards
      BY Zenon DEF MonitorType
    <3>8. c \in Steps(After(Base(key))[events - 1])
      BY <2>9, <3>2, <3>7, SMTT(30) DEF Steps
    <3> QED
      BY <2>9, <3>4, <3>6, <3>8, Zenon
  <2> QED
    BY <1>4, <2>1, <2>3, <2>7, <2>8, <2>9, Zenon
<1>5. \A k \in Keys \ (unread' \cup UnlistedKeys) :
        cache'[k] # NULL => cache'[k] \in After(Base(k)')[Applied(k)']
  BY <1>3, <1>4, Zenon DEF Executed
<1> QED
  BY <1>1, <1>5, Zenon DEF Learned

\* InitStep keeps the invariant.
LEMMA InitKeepsRewardInv ==
  ASSUME RewardInv, InitStep
  PROVE  RewardInv'
<1> USE DEF RewardInv
<1>1. PICK key, c, d :
        /\ Executed(key, c, d) /\ todo[1] = InitOp(key)
        /\ \/ c = store[key] /\ d = c /\ unread' = unread
           \/ /\ c = running_reward /\ d \in {store[key], c}
              /\ \/ store[key] = NULL /\ unread' = unread
                 \/ unread' = unread \cup {key}
  BY InitExecuted, Zenon
<1>2. up
  BY Zenon DEF InitStep, Proceed
<1>3. key \in Keys /\ c # NULL
  BY <1>1, Zenon DEF Executed
<1>4. c \in 0..Unit /\ (d = NULL \/ d \in 0..Unit)
  <2>1. running_reward \in 0..Unit
    BY UnitNat DEF running_reward
  <2>2. store[key] = NULL \/ store[key] \in 0..Unit
    BY <1>3, Zenon DEF MonitorType
  <2> QED
    BY <1>1, <1>3, <2>1, <2>2, Zenon
<1>5. MonitorType'
  BY <1>1, <1>4, ExecutedType, Zenon
<1>6. TodoInv'
  BY <1>1, ExecutedTodo, Zenon
<1>7. ListInv'
  BY <1>1, <1>2, ExecutedList, Zenon
<1>8. FullReward'
  <2> SUFFICES ASSUME NEW t \in PodType, NEW n \in nodes \ unlisted, given[t][n] \subseteq {running_reward}
               PROVE  {store'[PodKey(t, n)], cache'[PodKey(t, n)]} \subseteq {running_reward, NULL}
    BY <1>1 DEF FullReward, Executed
  <2>1. {store[PodKey(t, n)], cache[PodKey(t, n)]} \subseteq {running_reward, NULL}
    BY Zenon DEF FullReward
  <2>2. PodKey(t, n) \in Keys
    BY KeysDistinct, Zenon DEF MonitorType
  <2> QED
    BY <1>1, <2>1, <2>2, Zenon DEF Executed
<1>9. Learned'
  <2>1. unread' = unread \/ unread' = unread \cup {key}
    BY <1>1, Zenon
  <2>2. key \notin unread' \cup UnlistedKeys => c = Base(key) /\ (d = c \/ d = store[key])
    BY <1>1, <1>3, SMTT(30) DEF Base
  <2> QED
    BY <1>1, <1>4, <2>1, <2>2, ExecutedLearned, Zenon
<1> QED
  BY <1>5, <1>6, <1>7, <1>8, <1>9, Zenon

\* RewardStep keeps the invariant: a listed key has a value by then.
LEMMA RewardKeepsRewardInv ==
  ASSUME RewardInv, RewardStep
  PROVE  RewardInv'
<1> USE DEF RewardInv
<1>1. PICK key, c, d :
        /\ Executed(key, c, d) /\ todo[1] = RewardOp(key)
        /\ c = Blend(cache[key], reward) /\ d \in {store[key], c} /\ unread' = unread
  BY RewardExecuted, Zenon
<1>2. up
  BY Zenon DEF RewardStep, Proceed
<1>3. key \in Keys /\ c # NULL /\ 1 \in 1..Len(todo) /\ todo[1].op = "reward" /\ todo[1].key = key
  BY <1>1, FirstOp, OpsDistinct, SMTT(30) DEF Executed
<1>4. c \in 0..Unit /\ (d = NULL \/ d \in 0..Unit)
  <2>1. cache[key] = NULL \/ cache[key] \in 0..Unit
    BY <1>3, Zenon DEF MonitorType
  <2>2. store[key] = NULL \/ store[key] \in 0..Unit
    BY <1>3, Zenon DEF MonitorType
  <2>3. Blend(cache[key], reward) \in 0..Unit
    BY <2>1, BlendRange, Zenon DEF MonitorType
  <2> QED
    BY <1>1, <2>2, <2>3, Zenon
<1>5. key \notin UnlistedKeys => cache[key] # NULL
  BY <1>3, SMTT(30) DEF TodoInv
<1>6. MonitorType'
  BY <1>1, <1>4, ExecutedType, Zenon
<1>7. TodoInv'
  BY <1>1, ExecutedTodo, Zenon
<1>8. ListInv'
  BY <1>1, <1>2, <1>5, ExecutedList, Zenon
<1>9. FullReward'
  <2> SUFFICES ASSUME NEW t \in PodType, NEW n \in nodes \ unlisted, given[t][n] \subseteq {running_reward}
               PROVE  {store'[PodKey(t, n)], cache'[PodKey(t, n)]} \subseteq {running_reward, NULL}
    BY <1>1, Zenon DEF FullReward, Executed
  <2>1. {store[PodKey(t, n)], cache[PodKey(t, n)]} \subseteq {running_reward, NULL}
    BY Zenon DEF FullReward
  <2>2. PodKey(t, n) \in Keys /\ n \in Node
    BY KeysDistinct, Zenon DEF MonitorType
  <2>3. CASE PodKey(t, n) = key
    <3>1. cache[key] = running_reward
      BY <1>5, <2>1, <2>2, <2>3, ListedKeys, Zenon
    <3>2. reward = running_reward
      BY <1>3, <2>2, <2>3, Zenon DEF TodoInv
    <3>3. c = running_reward
      BY <1>1, <3>1, <3>2, BlendFull, Zenon
    <3> QED
      BY <1>1, <2>1, <2>2, <2>3, <3>3, Zenon DEF Executed
  <2>4. CASE PodKey(t, n) # key
    BY <1>1, <2>1, <2>2, <2>4, Zenon DEF Executed
  <2> QED
    BY <2>3, <2>4, Zenon
<1>10. Learned'
  <2>1. key \notin unread' \cup UnlistedKeys =>
          cache[key] # NULL /\ c = Blend(cache[key], reward) /\ (d = c \/ d = store[key])
    BY <1>1, <1>5, Zenon
  <2> QED
    BY <1>1, <1>4, <2>1, ExecutedLearned, Zenon
<1> QED
  BY <1>6, <1>7, <1>8, <1>9, <1>10, Zenon

\* No value is held after a start or a crash, so that most of the invariant
\* says little then; only the initialisations of a start matter.
LEMMA StartKeepsRewardInv ==
  ASSUME RewardInv, Start
  PROVE  RewardInv'
<1> USE DEF RewardInv
<1>1. /\ ~up /\ up' /\ UNCHANGED <<nodes, store, cache, reward, events, given, unread>>
      /\ \/ /\ nodelist' = nodes /\ UNCHANGED unlisted
            /\ \E types \in SUBSET PodType : todo' = init_rewards(types)
         \/ nodelist' = {} /\ todo' = <<>> /\ unlisted' = unlisted \cup nodes
  BY Zenon DEF Start
<1>2. \A k \in Keys : cache'[k] = NULL
  BY <1>1, Zenon DEF ListInv, NoValues
<1>3. Learned'
  BY <1>2, Zenon DEF Learned
<1>4. CASE /\ nodelist' = nodes /\ UNCHANGED unlisted
           /\ \E types \in SUBSET PodType : todo' = init_rewards(types)
  <2>1. PICK types \in SUBSET PodType : todo' = init_rewards(types)
    BY <1>4, Zenon
  <2>2. /\ todo' \in Seq(Op)
        /\ ToSet(todo') = NodeInits(nodes) \cup UNION {PodInits(t, nodes) : t \in types}
    BY <2>1, InitRewardsOps, Zenon DEF MonitorType
  <2>3. \A x \in ToSet(todo') : x.op = "init"
    BY <2>2, OpsDistinct DEF NodeInits, PodInits
  <2>4. \A i \in 1..Len(todo') : todo'[i].op = "init"
    BY <2>2, <2>3, SMTT(30) DEF ToSet
  <2>5. MonitorType'
    BY <1>1, <1>4, <2>2, Zenon DEF MonitorType
  <2>6. TodoInv'
    BY <2>4, Zenon DEF TodoInv
  <2>7. ASSUME NEW t \in PodType, Held(PodKey(t, All))', NEW n \in nodes \ unlisted
        PROVE  Held(PodKey(t, n))'
    <3>1. InitOp(PodKey(t, All)) \in ToSet(todo')
      BY <1>2, <2>7, KeysDistinct, Zenon DEF Held
    <3>2. InitOp(PodKey(t, All)) \notin NodeInits(nodes)
      BY KeysDistinct, OpsDistinct, SMTT(30) DEF NodeInits
    <3>3. PICK u \in types : InitOp(PodKey(t, All)) \in PodInits(u, nodes)
      BY <2>2, <3>1, <3>2, Zenon
    <3>4. u = t
      BY <3>3, KeysDistinct, OpsDistinct, SMTT(30) DEF PodInits
    <3>5. InitOp(PodKey(t, n)) \in PodInits(t, nodes)
      BY Zenon DEF PodInits
    <3> QED
      BY <2>2, <3>3, <3>4, <3>5, Zenon DEF Held
  <2>8. ListInv'
    BY <1>1, <1>4, <2>7, Zenon DEF ListInv
  <2>9. FullReward'
    BY <1>1, <1>4, Zenon DEF FullReward
  <2> QED
    BY <1>3, <2>5, <2>6, <2>8, <2>9, Zenon
<1>5. CASE nodelist' = {} /\ todo' = <<>> /\ unlisted' = unlisted \cup nodes
  <2>1. MonitorType'
    BY <1>1, <1>5, SMTT(30) DEF MonitorType
  <2>2. TodoInv'
    BY <1>5 DEF TodoInv
  <2>3. nodes' \ unlisted' = {}
    BY <1>1, <1>5, Zenon
  <2>4. ListInv' /\ FullReward'
    BY <1>1, <2>3, Zenon DEF ListInv, FullReward
  <2> QED
    BY <1>3, <2>1, <2>2, <2>4, Zenon
<1> QED
  BY <1>1, <1>4, <1>5, Zenon

\* A pod event finds the rewards of its type on every listed node in memory, or
\* initialises them before its own updates.
LEMMA PodEventKeepsRewardInv ==
  ASSUME RewardInv, NEW t \in PodType, NEW n \in nodes, NEW r \in EventRewards, PodEvent(t, n, r)
  PROVE  RewardInv'
<1> USE DEF RewardInv
<1>1. /\ up /\ todo = <<>> /\ events < MaxEvents /\ events' = events + 1 /\ reward' = r
      /\ nodelist' = nodelist \cup {n}
      /\ UNCHANGED <<nodes, store, cache, up, unread, unlisted>>
  BY Zenon DEF PodEvent
<1>2. n \in Node /\ r \in Rewards
  BY EventRewardsType, Zenon DEF MonitorType
<1>3. EventOps(todo', t, n)
  BY <1>2, UpdateOps, Zenon DEF PodEvent
<1>4. /\ given' \in [PodType -> [Node -> SUBSET Rewards]] /\ r \in given'[t][n]
      /\ \A u \in PodType, m \in Node : given[u][m] \subseteq given'[u][m]
  BY <1>2, Zenon DEF PodEvent, MonitorType
<1>5. ToSet(todo) = {}
  BY <1>1 DEF ToSet
<1>6. \A k : Held(k) <=> cache[k] # NULL
  BY <1>5, Zenon DEF Held
<1>7. UnlistedKeys' = UnlistedKeys
  BY <1>1, SMTT(30) DEF UnlistedKeys
<1>8. MonitorType'
  <2>1. MaxEvents \in Nat /\ events \in 0..MaxEvents
    BY RewardAssumption, Zenon DEF MonitorType
  <2>2. events' \in 0..MaxEvents
    BY <1>1, <2>1, SMTT(30)
  <2> QED
    BY <1>1, <1>2, <1>3, <1>4, <2>2, Zenon DEF MonitorType, EventOps
<1>9. TodoInv'
  <2>0. events \in Nat
    BY MonitorTypeEvents, Zenon
  <2>1. events' > 0
    BY <1>1, <2>0
  <2>2. ASSUME NEW i \in 1..Len(todo'), todo'[i].op = "reward"
        PROVE  /\ \A u \in PodType, m \in Node : todo'[i].key = PodKey(u, m) => reward' \in given'[u][m]
               /\ todo'[i].key \notin UnlistedKeys =>
                    cache[todo'[i].key] # NULL \/ \E j \in 1..(i - 1) : todo'[j] = InitOp(todo'[i].key)
    <3> DEFINE key == todo'[i].key
    <3>1. /\ key \in {NodeKey(n), PodKey(t, n), PodKey(t, All)}
          /\ key = NodeKey(n) => cache[key] # NULL \/ \E j \in 1..(i - 1) : todo'[j] = InitOp(key)
          /\ key # NodeKey(n) => \/ cache[PodKey(t, All)] # NULL
                                 \/ \E j \in 1..(i - 1) : todo'[j] = InitOp(key)
      BY <1>3, <2>2, Zenon DEF EventOps
    <3> HIDE DEF key
    <3>2. ASSUME NEW u \in PodType, NEW m \in Node, key = PodKey(u, m)
          PROVE  reward' \in given'[u][m]
      <4>1. m # All
        BY RewardAssumption, Zenon
      <4>2. u = t /\ m = n
        <5>1. /\ PodKey(u, m) # NodeKey(n) /\ PodKey(u, m) # PodKey(t, All)
              /\ PodKey(u, m) = PodKey(t, n) => u = t /\ m = n
          BY <4>1, KeysDistinct, Zenon
        <5>2. key = NodeKey(n) \/ key = PodKey(t, n) \/ key = PodKey(t, All)
          BY <3>1, Zenon
        <5> QED
          BY <3>2, <5>1, <5>2, Zenon
      <4> QED
        BY <1>1, <1>4, <4>2, Zenon
    <3>3. ASSUME key = PodKey(t, n), key \notin UnlistedKeys, cache[PodKey(t, All)] # NULL
          PROVE  cache[key] # NULL
      <4>1. n \notin unlisted
        BY <3>3, SMTT(30) DEF UnlistedKeys
      <4> QED
        BY <1>6, <3>3, <4>1, Zenon DEF ListInv
    <3> QED
      BY <3>1, <3>2, <3>3, Zenon DEF key
  <2>3. \A i, j \in 1..Len(todo') : todo'[i].op = "reward" /\ todo'[j] = todo'[i] => i = j
    BY <1>3, Zenon DEF EventOps
  <2> QED
    BY <1>1, <1>7, <2>1, <2>2, <2>3, Zenon DEF TodoInv
<1>10. ASSUME NEW u \in PodType, Held(PodKey(u, All))', NEW m \in nodes \ unlisted
       PROVE  Held(PodKey(u, m))'
  <2>1. CASE cache[PodKey(u, All)] # NULL
    BY <1>1, <1>6, <1>10, <2>1, Zenon DEF ListInv, Held
  <2>2. CASE cache[PodKey(u, All)] = NULL
    <3>1. InitOp(PodKey(u, All)) \in ToSet(todo')
      BY <1>1, <1>10, <2>2, Zenon DEF Held
    <3>2. InitOp(PodKey(u, All)) \in PodInits(t, Node)
      <4>1. ToSet(todo') \subseteq {InitOp(NodeKey(n))} \cup PodInits(t, Node) \cup {RewardOp(k) : k \in Keys}
        BY <1>3, Zenon DEF EventOps
      <4>2. InitOp(PodKey(u, All)).key # InitOp(NodeKey(n)).key
        <5>1. InitOp(PodKey(u, All)).key = PodKey(u, All) /\ InitOp(NodeKey(n)).key = NodeKey(n)
          BY Zenon DEF InitOp
        <5>2. PodKey(u, All) # NodeKey(n)
          BY KeysDistinct, Zenon
        <5> QED
          BY <5>1, <5>2, Zenon
      <4>3. \A k \in Keys : InitOp(PodKey(u, All)).op # RewardOp(k).op
        BY OpsDistinct, Zenon
      <4> QED
        BY <3>1, <4>1, <4>2, <4>3, Zenon
    <3>3. u = t
      BY <3>2, KeysDistinct, OpsDistinct DEF PodInits
    <3>4. m \in nodelist
      BY <1>1, Zenon DEF ListInv
    <3>5. InitOp(PodKey(t, m)) \in ToSet(todo')
      BY <1>3, <2>2, <3>3, <3>4, Zenon DEF EventOps, PodInits
    <3> QED
      BY <3>3, <3>5, Zenon DEF Held
  <2> QED
    BY <2>1, <2>2, Zenon
<1>11. ListInv'
  BY <1>1, <1>10, Zenon DEF ListInv
<1>12. FullReward'
  <2> SUFFICES ASSUME NEW u \in PodType, NEW m \in nodes \ unlisted, given'[u][m] \subseteq {running_reward}
               PROVE  {store[PodKey(u, m)], cache[PodKey(u, m)]} \subseteq {running_reward, NULL}
    BY <1>1, Zenon DEF FullReward
  <2>1. given[u][m] \subseteq {running_reward}
    BY <1>4, Zenon DEF MonitorType
  <2> QED
    BY <2>1, Zenon DEF FullReward
<1>13. ASSUME NEW k \in Keys \ (unread \cup UnlistedKeys), cache[k] # NULL
       PROVE  cache[k] \in After(Base(k)')[Applied(k)']
  <2>1. cache[k] \in After(Base(k))[events]
    BY <1>5, <1>13, Zenon DEF Learned, Applied
  <2>2. events \in 0..MaxEvents /\ Applied(k)' \in events..MaxEvents
    BY <1>1, RewardAssumption, SMTT(30) DEF MonitorType, Applied
  <2>3. Base(k)' = Base(k) /\ Base(k) \in Int
    BY <1>1, <1>13, UnitNat, SMTT(30) DEF Base, MonitorType, running_reward
  <2> QED
    BY <2>1, <2>2, <2>3, AfterMonotonic, Zenon
<1>14. Learned'
  BY <1>1, <1>7, <1>13, Zenon DEF Learned
<1> QED
  BY <1>8, <1>9, <1>11, <1>12, <1>14, Zenon

\* A crash empties the memory.
LEMMA CrashKeepsRewardInv ==
  ASSUME RewardInv, Crash
  PROVE  RewardInv'
<1> USE DEF RewardInv
<1>1. /\ ~up' /\ cache' = NoValues /\ nodelist' = {} /\ todo' = <<>>
      /\ UNCHANGED <<nodes, store, reward, events, given, unread, unlisted>>
  BY Zenon DEF Crash
<1>2. DOMAIN cache' = Keys /\ \A k \in Keys : cache'[k] = NULL
  BY <1>1, Zenon DEF NoValues
<1>3. ToSet(todo') = {} /\ Len(todo') = 0 /\ todo' \in Seq(Op)
  BY <1>1, SMTT(30) DEF ToSet
<1>4. MonitorType'
  BY <1>1, <1>2, <1>3, Zenon DEF MonitorType
<1>5. TodoInv'
  BY <1>3, SMTT(30) DEF TodoInv
<1>6. \A t \in PodType : ~Held(PodKey(t, All))'
  BY <1>2, <1>3, KeysDistinct, Zenon DEF Held
<1>7. ListInv'
  BY <1>1, <1>6, Zenon DEF ListInv
<1>8. FullReward'
  <2>1. ASSUME NEW t \in PodType, NEW n \in nodes \ unlisted PROVE cache'[PodKey(t, n)] = NULL
    BY <1>2, KeysDistinct, Zenon DEF MonitorType
  <2> QED
    BY <1>1, <2>1, Zenon DEF FullReward
<1>9. Learned'
  BY <1>2, Zenon DEF Learned
<1> QED
  BY <1>4, <1>5, <1>7, <1>8, <1>9, Zenon

\* A node that joins is unlisted, and nothing is claimed of it.
LEMMA NodeJoinsKeepsRewardInv ==
  ASSUME RewardInv, NEW n \in Node, NodeJoins(n)
  PROVE  RewardInv'
<1> USE DEF RewardInv
<1>1. /\ nodes' = nodes \cup {n} /\ unlisted' = unlisted \cup {n}
      /\ UNCHANGED <<store, cache, nodelist, todo, reward, up, events, given, unread>>
  BY Zenon DEF NodeJoins
<1>2. nodes' \ unlisted' \subseteq nodes \ unlisted /\ UnlistedKeys \subseteq UnlistedKeys'
  BY <1>1, SMTT(30) DEF UnlistedKeys
<1>3. \A k : Held(k)' = Held(k) /\ Base(k)' = Base(k) /\ Applied(k)' = Applied(k)
  BY <1>1, Zenon DEF Held, Base, Applied
<1>4. MonitorType'
  BY <1>1, Zenon DEF MonitorType
<1>5. TodoInv'
  BY <1>1, <1>2, Zenon DEF TodoInv
<1>6. ListInv'
  BY <1>1, <1>2, <1>3, Zenon DEF ListInv
<1>7. FullReward'
  BY <1>1, <1>2, Zenon DEF FullReward
<1>8. Learned'
  BY <1>1, <1>2, <1>3, Zenon DEF Learned
<1> QED
  BY <1>4, <1>5, <1>6, <1>7, <1>8, Zenon

\* The monitor starts with no reward learned.
LEMMA RewardInvInit == Init => RewardInv
<1> SUFFICES ASSUME Init PROVE RewardInv
  OBVIOUS
<1> USE DEF Init
<1>1. DOMAIN cache = Keys /\ DOMAIN store = Keys /\ \A k \in Keys : cache[k] = NULL /\ store[k] = NULL
  BY Zenon DEF NoValues
<1>2. ToSet(todo) = {} /\ Len(todo) = 0 /\ todo \in Seq(Op)
  BY DEF ToSet
<1>3. MonitorType
  <2>1. nodes \subseteq Node /\ events \in 0..MaxEvents
    BY RewardAssumption
  <2>2. reward \in Rewards
    BY Zenon DEF Rewards
  <2>3. given \in [PodType -> [Node -> SUBSET Rewards]]
    OBVIOUS
  <2> QED
    BY <1>1, <1>2, <2>1, <2>2, <2>3, Zenon DEF MonitorType
<1>4. TodoInv
  BY <1>2, SMTT(30) DEF TodoInv
<1>5. \A t \in PodType : ~Held(PodKey(t, All))
  BY <1>1, <1>2, KeysDistinct, Zenon DEF Held
<1>6. ListInv
  BY <1>5, Zenon DEF ListInv
<1>7. FullReward
  <2>1. ASSUME NEW t \in PodType, NEW n \in nodes PROVE PodKey(t, n) \in Keys
    BY <1>3, KeysDistinct, Zenon DEF MonitorType
  <2> QED
    BY <1>1, <2>1, Zenon DEF FullReward
<1>8. Learned
  BY <1>1, Zenon DEF Learned
<1> QED
  BY <1>3, <1>4, <1>6, <1>7, <1>8, Zenon DEF RewardInv

\* Every step of the monitor, of the cluster and of the extender keeps RewardInv.
LEMMA RewardInvNext == RewardInv /\ [Next]_vars => RewardInv'
<1> SUFFICES ASSUME RewardInv, [Next]_vars PROVE RewardInv'
  OBVIOUS
<1>1. CASE UNCHANGED vars
  <2>1. UNCHANGED <<nodes, store, cache, nodelist, todo, reward, up, events, given, unread, unlisted>>
    BY <1>1, Zenon DEF vars
  <2>2. UnlistedKeys' = UnlistedKeys /\ \A k : Held(k)' = Held(k) /\ Base(k)' = Base(k) /\ Applied(k)' = Applied(k)
    BY <2>1, SMTT(30) DEF UnlistedKeys, Held, Base, Applied
  <2>3. MonitorType' /\ TodoInv'
    BY <2>1, <2>2, Zenon DEF RewardInv, MonitorType, TodoInv
  <2>4. ListInv' /\ FullReward' /\ Learned'
    BY <2>1, <2>2, Zenon DEF RewardInv, ListInv, FullReward, Learned
  <2> QED
    BY <2>3, <2>4, Zenon DEF RewardInv
<1> QED
  BY <1>1, StartKeepsRewardInv, PodEventKeepsRewardInv, InitKeepsRewardInv, RewardKeepsRewardInv,
     CrashKeepsRewardInv, NodeJoinsKeepsRewardInv DEF Next

\* The handlers of the monitor never apply a reward to a listed key before its
\* initialisation, and its memory is ahead of etcd by reward steps only.
THEOREM RewardInvariant == Spec => []RewardInv
  BY RewardInvInit, RewardInvNext, PTL DEF Spec

\* Facts about quotients, for the scores.
LEMMA UnitPositive == Unit > 0
  BY SMT DEF Unit

\* A reward of at most ten units is scored at most 10.
LEMMA QuotientBound ==
  ASSUME NEW U \in Nat, U > 0, NEW x \in Int, x >= 0, x <= 10 * U
  PROVE  x \div U \in Int /\ x \div U <= 10
<1> DEFINE q == x \div U
           r == x % U
<1>1. q \in Int /\ r \in Int /\ r >= 0 /\ r < U /\ x = U * q + r
  BY SMT
<1> HIDE DEF q, r
<1>2. ASSUME q >= 11 PROVE FALSE
  <2>1. U * q >= U * 11
    BY <1>1, <1>2, SMT
  <2> QED BY <1>1, <2>1, SMT
<1> QED BY <1>1, <1>2, SMT DEF q

\* Ten units are scored 10.
LEMMA QuotientExact ==
  ASSUME NEW U \in Nat, U > 0
  PROVE  (U * 10) \div U = 10
  BY SMT

\* RLPriorityFunc() gives the full reward the full score, and no reward more.
LEMMA FullScore ==
  ASSUME NEW v \in 0..Unit
  PROVE  /\ (running_reward * MaxPriority) \div Unit = MaxPriority
         /\ (v * MaxPriority) \div Unit <= MaxPriority /\ MaxPriority \in Nat
         /\ (v * MaxPriority) \div Unit \in Int
<1>1. Unit \in Nat /\ Unit > 0 /\ v \in Int /\ v <= Unit /\ v >= 0
  BY UnitNat, UnitPositive, SMT
<1>2. v * 10 \in Int /\ v * 10 >= 0 /\ v * 10 <= 10 * Unit
  BY <1>1, SMT
<1>3. (Unit * 10) \div Unit = 10
  BY <1>1, QuotientExact, SMT
<1>4. (v * 10) \div Unit \in Int /\ (v * 10) \div Unit <= 10
  BY <1>1, <1>2, QuotientBound, Zenon
<1> QED
  BY <1>1, <1>3, <1>4, SMT DEF running_reward, MaxPriority

\* Among the nodes that every start of the monitor has listed, one on which the
\* pods of a type have only succeeded is not scored by the extender below one on
\* which they have only failed, whatever crashes and whatever requests fail.
THEOREM ListedNodesPrioritizedCorrect == Spec => []ListedNodesPrioritized
<1>1. RewardInv /\ CacheWrittenThrough => ListedNodesPrioritized
  <2> SUFFICES ASSUME RewardInv, CacheWrittenThrough, NEW t \in PodType, NEW a \in nodes \ unlisted,
                      NEW b \in nodes \ unlisted, Better(t, a, b), cache[PodKey(t, a)] # NULL,
                      PodKey(t, a) \notin unsaved
               PROVE  RLPriorityFunc(t, a) >= RLPriorityFunc(t, b)
    BY Zenon DEF ListedNodesPrioritized
  <2>1. PodKey(t, a) \in Keys /\ PodKey(t, b) \in Keys
    BY KeysDistinct, Zenon DEF RewardInv, MonitorType
  <2>2. cache[PodKey(t, a)] = running_reward
    BY Zenon DEF Better, RewardInv, FullReward
  <2>3. store[PodKey(t, a)] = running_reward /\ running_reward # NULL
    BY <2>1, <2>2, Zenon DEF CacheWrittenThrough
  <2>4. store[PodKey(t, b)] = NULL \/ store[PodKey(t, b)] \in 0..Unit
    BY <2>1, Zenon DEF RewardInv, MonitorType
  <2>5. 0 \in 0..Unit
    BY UnitNat, SMTT(30)
  <2>6. RLPriorityFunc(t, a) = MaxPriority /\ MaxPriority \in Nat
    BY <2>3, <2>5, FullScore, Zenon DEF RLPriorityFunc
  <2>7. RLPriorityFunc(t, b) <= MaxPriority
    <3>1. CASE store[PodKey(t, b)] = NULL
      BY <2>6, <3>1, SMTT(30) DEF RLPriorityFunc
    <3>2. CASE store[PodKey(t, b)] # NULL
      BY <2>4, <3>2, FullScore, Zenon DEF RLPriorityFunc
    <3> QED
      BY <3>1, <3>2, Zenon
  <2>8. RLPriorityFunc(t, b) \in Int
    <3>1. CASE store[PodKey(t, b)] = NULL
      BY <3>1, SMTT(30) DEF RLPriorityFunc
    <3>2. CASE store[PodKey(t, b)] # NULL
      BY <2>4, <3>2, FullScore, Zenon DEF RLPriorityFunc
    <3> QED
      BY <3>1, <3>2, Zenon
  <2> QED
    BY <2>6, <2>7, <2>8, Zenon
<1> QED
  BY <1>1, RewardInvariant, CacheWrittenThroughHolds, PTL

\* A write to etcd moves a reward on by reward steps only, from the value that
\* is stored or from the initial reward: no crash, restart or failed write loses
\* what has been learned.  Rewards, and the steps, have six decimals.
THEOREM LearnedRewardsKeptCorrect == Spec => LearnedRewardsKept
<1> DEFINE Kept == \A key \in Keys \ (unread' \cup UnlistedKeys) : store'[key] # store[key] =>
              store'[key] \in Reached(IF store[key] = NULL THEN running_reward ELSE store[key])
<1>1. RewardInv /\ [Next]_vars => [Kept]_vars
  <2> SUFFICES ASSUME RewardInv, Next, NEW k \in Keys \ (unread' \cup UnlistedKeys), store'[k] # store[k]
               PROVE  store'[k] \in Reached(IF store[k] = NULL THEN running_reward ELSE store[k])
    OBVIOUS
  <2> USE DEF RewardInv
  <2>1. Base(k) \in Int
    BY UnitNat DEF Base, MonitorType, running_reward
  <2>2. MaxEvents \in Nat
    BY RewardAssumption, Zenon
  <2>3. ASSUME NEW i \in 0..MaxEvents, store'[k] \in After(Base(k))[i]
        PROVE  store'[k] \in Reached(Base(k))
    <3>1. MaxEvents \in i..MaxEvents
      BY <2>2, SMTT(30)
    <3> QED
      BY <2>1, <2>3, <3>1, AfterMonotonic, AfterSteps, SMTT(30)
  <2>4. CASE InitStep
    <3>1. PICK key, c, d :
            /\ Executed(key, c, d) /\ todo[1] = InitOp(key)
            /\ \/ c = store[key] /\ d = c /\ unread' = unread
               \/ /\ c = running_reward /\ d \in {store[key], c}
                  /\ \/ store[key] = NULL /\ unread' = unread
                     \/ unread' = unread \cup {key}
      BY <2>4, InitExecuted, Zenon
    <3>2. k = key
      BY <3>1, Zenon DEF Executed
    <3>3. store'[k] = running_reward /\ store[k] = NULL
      BY <3>1, <3>2, Zenon DEF Executed
    <3>4. store'[k] \in After(Base(k))[0] /\ 0 \in 0..MaxEvents
      BY <2>1, <2>2, <3>3, AfterSteps, SMTT(30) DEF Base
    <3> QED
      BY <2>3, <3>4, Zenon DEF Base
  <2>5. CASE RewardStep
    <3>1. PICK key, c, d :
            /\ Executed(key, c, d) /\ todo[1] = RewardOp(key)
            /\ c = Blend(cache[key], reward) /\ d \in {store[key], c} /\ unread' = unread
      BY <2>5, RewardExecuted, Zenon
    <3>2. k = key
      BY <3>1, Zenon DEF Executed
    <3>3. store'[k] = Blend(cache[k], reward) /\ k \notin unread
      BY <3>1, <3>2, Zenon DEF Executed
    <3>4. 1 \in 1..Len(todo) /\ todo[1].op = "reward" /\ todo[1].key = k /\ RewardOp(k) \in ToSet(todo)
      BY <3>1, <3>2, FirstOp, OpsDistinct, SMTT(30) DEF Executed
    <3>5. cache[k] # NULL /\ events > 0
      BY <3>4, SMTT(30) DEF TodoInv
    <3>6. cache[k] \in After(Base(k))[events - 1]
      BY <3>3, <3>4, <3>5, Zenon DEF Learned, Applied
    <3>7. events \in 1..MaxEvents
      BY <2>2, <3>5, SMTT(30) DEF MonitorType
    <3>8. After(Base(k))[events] = Steps(After(Base(k))[events - 1])
      BY <2>1, <3>7, AfterSteps, Zenon
    <3>9. reward \in Rewards
      BY Zenon DEF MonitorType
    <3>10. store'[k] \in Steps(After(Base(k))[events - 1])
      BY <3>3, <3>6, <3>9, SMTT(30) DEF Steps
    <3>11. events \in 0..MaxEvents
      BY <3>7
    <3> QED
      BY <2>3, <3>8, <3>10, <3>11, Zenon DEF Base
  <2>6. CASE UNCHANGED store
    BY <2>6, Zenon
  <2> QED
    BY <2>4, <2>5, <2>6, Zenon DEF Next, Start, PodEvent, Crash, NodeJoins
<1> QED
  BY <1>1, RewardInvariant, PTL DEF Spec, LearnedRewardsKept
=============================================================================
