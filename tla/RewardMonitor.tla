--------------------------- MODULE RewardMonitor ----------------------------
(***************************************************************************)
(* kubeRL: the monitor (kubeRL/rl-monitor/main.go) turns pod events into   *)
(* rewards, which it caches in memory and writes through to etcd; the      *)
(* scheduler extender (kubeRL/rl-scheduler-extender/rl-priority.go) scores *)
(* nodes by the rewards it reads from etcd.  The monitor is one goroutine; *)
(* each of its etcd requests is a step of the model, between which the     *)
(* extender may read, the request may fail, and the monitor may crash and  *)
(* be restarted by its deployment with an empty memory.                    *)
(*                                                                         *)
(* Rewards are held in units of 10^-6, the precision "%f" writes.  A       *)
(* reward step adds at most one decimal digit, so up to MaxEvents = 5      *)
(* updates the values here are exactly the numbers the code reads back.    *)
(***************************************************************************)
EXTENDS Integers, FiniteSets, SequencesExt

CONSTANTS
  Node, PodType,
  All,             \* the "all" entry of a pod type's directory
  NULL,            \* no value
  InitialClusters, \* the nodes of the cluster when the monitor first starts
  Times,           \* times, in seconds, at which containers start and finish
  MaxContainers,   \* bound: containers of a pod
  MaxEvents,       \* bound: pod events that change rewards
  MaxCrashes,      \* bound: crashes of the monitor
  MaxFailures      \* bound: requests to etcd or to the API server that fail

ASSUME RewardAssumption ==
  /\ IsFiniteSet(Node) /\ IsFiniteSet(PodType)
  /\ InitialClusters \subseteq SUBSET Node /\ All \notin Node /\ NULL \notin Int
  /\ Times \subseteq Nat /\ {MaxContainers, MaxEvents, MaxCrashes, MaxFailures} \subseteq Nat

VARIABLES
  nodes,     \* the nodes of the cluster
  store,     \* rl-etcd: the reward under each key
  cache,     \* node_vals and pod_vals: the reward the monitor holds for each key
  nodelist,  \* node_name_list
  todo,      \* what is left of the monitor's current handler
  reward,    \* the reward that handler applies
  up,        \* whether the monitor runs
  events, crashes, failures,    \* counters for the bounds
  given,     \* history: the rewards each pod type has got on each node
  unsaved,   \* history: the keys whose last write failed
  unread,    \* history: the keys that a get has failed for
  unlisted   \* history: the nodes that joined late, or that a start failed to list

vars == <<nodes, store, cache, nodelist, todo, reward, up, events, crashes, failures, given, unsaved, unread, unlisted>>

Unit == 1000000
running_reward == Unit
unseen_reward == Unit \div 2
failed_reward == 0
Rewards == {running_reward, unseen_reward, failed_reward}
MTTF == 600
MaxPriority == 10

NodeKey(n) == <<"nodes", n>>
PodKey(t, n) == <<"pods", t, n>>
Keys == {NodeKey(n) : n \in Node} \cup {PodKey(t, n) : t \in PodType, n \in Node \cup {All}}
NoValues == [k \in Keys |-> NULL]

\* (1 - weight) * v + weight * reward, with weight = 0.1; the value of a
\* missing entry of a Go map is 0.
Blend(v, r) == (9 * (IF v = NULL THEN 0 ELSE v) + r) \div 10

-----------------------------------------------------------------------------
(***************************************************************************)
(* The reward of an event.                                                 *)
(***************************************************************************)

\* A container status: its state, and whether it was terminated before.
ContainerStatus ==
  [state : {"running", "terminated", "waiting"}, terminatedBefore : BOOLEAN,
   startedAt : Times, finishedAt : Times]

\* time.Second() is the second within the minute.
Second(time) == time % 60

\* One round of the loop over the container statuses, with the result so far.
Judge(r, cst) ==
  CASE cst.state = "running" /\ ~cst.terminatedBefore -> r
    [] cst.state = "terminated" ->
         [updates |-> TRUE,
          reward  |-> IF ~cst.terminatedBefore
                         \/ Second(cst.startedAt) - Second(cst.finishedAt) > MTTF
                      THEN unseen_reward ELSE failed_reward]
    [] OTHER -> [r EXCEPT !.updates = FALSE]

\* The loop: the last status that counts decides.
get_container_restarting_reward(containerStatuses) ==
  FoldLeft(Judge, [updates |-> TRUE, reward |-> running_reward], containerStatuses)

\* The rewards of the events the watcher may deliver for a pod: the outcomes
\* of its phases, with those that update nothing left out.
EventRewards ==
  LET restarting == {get_container_restarting_reward(s) : s \in BoundedSeq(ContainerStatus, MaxContainers)}
  IN  {failed_reward} \cup {r.reward : r \in {r \in restarting : r.updates}}

-----------------------------------------------------------------------------
(***************************************************************************)
(* The handlers, as the etcd requests they make in order.                  *)
(***************************************************************************)

InitOp(key) == [op |-> "init", key |-> key]
RewardOp(key) == [op |-> "reward", key |-> key]

init_new_pod(t, names) ==
  <<InitOp(PodKey(t, All))>> \o SetToSeq({InitOp(PodKey(t, n)) : n \in names})

init_rewards(types) ==
  SetToSeq({InitOp(NodeKey(n)) : n \in nodes})
    \o FlattenSeq([i \in 1..Cardinality(types) |-> init_new_pod(SetToSeq(types)[i], nodes)])

update_pod_node_reward(t, n) ==
  (IF cache[NodeKey(n)] = NULL THEN <<InitOp(NodeKey(n))>> ELSE <<>>)
    \o <<RewardOp(NodeKey(n))>>
    \o (IF cache[PodKey(t, All)] = NULL THEN init_new_pod(t, nodelist \cup {n}) ELSE <<>>)
    \o <<RewardOp(PodKey(t, n)), RewardOp(PodKey(t, All))>>

Init ==
  /\ nodes \in InitialClusters
  /\ store = NoValues /\ cache = NoValues /\ nodelist = {}
  /\ todo = <<>> /\ reward = running_reward /\ up = FALSE
  /\ events = 0 /\ crashes = 0 /\ failures = 0
  /\ given = [t \in PodType |-> [n \in Node |-> {}]]
  /\ unsaved = {} /\ unread = {} /\ unlisted = {}

\* main(): init_rewards() for the nodes and the types of the pods there are.
\* When the pods cannot be listed, no type is initialised; when the nodes
\* cannot, nothing is, and the monitor goes on all the same.
Start ==
  /\ ~up
  /\ up' = TRUE
  /\ \/ /\ nodelist' = nodes
        /\ \E types \in SUBSET PodType : todo' = init_rewards(types)
        /\ UNCHANGED <<unlisted, failures>>
     \/ /\ failures < MaxFailures /\ failures' = failures + 1
        /\ nodelist' = {} /\ todo' = <<>>
        /\ unlisted' = unlisted \cup nodes
  /\ UNCHANGED <<nodes, store, cache, reward, events, crashes, given, unsaved, unread>>

\* watch_pod_rewards(): an event whose handler updates the rewards.
PodEvent(t, n, r) ==
  /\ up /\ todo = <<>> /\ events < MaxEvents
  /\ events' = events + 1
  /\ reward' = r
  /\ todo' = update_pod_node_reward(t, n)
  /\ nodelist' = nodelist \cup {n}
  /\ given' = [given EXCEPT ![t][n] = @ \cup {r}]
  /\ UNCHANGED <<nodes, store, cache, up, crashes, failures, unsaved, unread, unlisted>>

\* write_key_value(), in a step in which f requests have failed already: the
\* request may fail too, which is only logged.
write_key_value(key, value, f) ==
  \/ /\ store' = [store EXCEPT ![key] = value] /\ unsaved' = unsaved \ {key}
     /\ failures' = failures + f
  \/ /\ failures + f < MaxFailures /\ failures' = failures + f + 1
     /\ unsaved' = unsaved \cup {key} /\ UNCHANGED store

\* Faulty form: the reward is written without a look at what is stored.
init_if_not_exists_Always(key) ==
  /\ cache' = [cache EXCEPT ![key] = running_reward]
  /\ write_key_value(key, running_reward, 0)
  /\ UNCHANGED unread

\* A failed get is taken for a key that does not exist.
init_if_not_exists(key) ==
  \/ /\ store[key] # NULL
     /\ cache' = [cache EXCEPT ![key] = store[key]]
     /\ unsaved' = unsaved \ {key}
     /\ UNCHANGED <<store, unread, failures>>
  \/ /\ cache' = [cache EXCEPT ![key] = running_reward]
     /\ \/ /\ store[key] = NULL
           /\ write_key_value(key, running_reward, 0)
           /\ UNCHANGED unread
        \/ /\ failures < MaxFailures
           /\ write_key_value(key, running_reward, 1)
           /\ unread' = unread \cup {key}

Proceed(op) ==
  /\ up /\ todo # <<>> /\ Head(todo).op = op
  /\ todo' = Tail(todo)
  /\ UNCHANGED <<nodes, nodelist, reward, up, events, crashes, given, unlisted>>

InitStep ==
  /\ Proceed("init")
  /\ init_if_not_exists(Head(todo).key)

\* Faulty form: the value written is the one before the update.
RewardStep_WritesOld ==
  /\ Proceed("reward") /\ UNCHANGED unread
  /\ LET key == Head(todo).key
     IN  /\ cache' = [cache EXCEPT ![key] = Blend(cache[key], reward)]
         /\ write_key_value(key, cache[key], 0)

\* Faulty form: the rewards of failures and of successes are swapped.
RewardStep_Inverted ==
  /\ Proceed("reward") /\ UNCHANGED unread
  /\ LET key == Head(todo).key
         v   == Blend(cache[key], Unit - reward)
     IN  cache' = [cache EXCEPT ![key] = v] /\ write_key_value(key, v, 0)

RewardStep ==
  /\ Proceed("reward") /\ UNCHANGED unread
  /\ LET key == Head(todo).key
         v   == Blend(cache[key], reward)
     IN  cache' = [cache EXCEPT ![key] = v] /\ write_key_value(key, v, 0)

\* The monitor ends (the watch channel closes, or the process is killed) and
\* its memory is lost; the deployment starts it again.
Crash ==
  /\ up /\ crashes < MaxCrashes
  /\ crashes' = crashes + 1
  /\ up' = FALSE
  /\ cache' = NoValues /\ nodelist' = {} /\ todo' = <<>>
  /\ unsaved' = {}
  /\ UNCHANGED <<nodes, store, reward, events, failures, given, unread, unlisted>>

\* A node joins the cluster.
NodeJoins(n) ==
  /\ n \notin nodes
  /\ nodes' = nodes \cup {n} /\ unlisted' = unlisted \cup {n}
  /\ UNCHANGED <<store, cache, nodelist, todo, reward, up, events, crashes, failures, given, unsaved, unread>>

Next ==
  \/ Start
  \/ \E t \in PodType, n \in nodes, r \in EventRewards : PodEvent(t, n, r)
  \/ InitStep
  \/ RewardStep
  \/ Crash
  \/ \E n \in Node : NodeJoins(n)

Spec == Init /\ [][Next]_vars

\* RLPriorityFunc(): the score the extender gives node n for a pod of type t.
RLPriorityFunc(t, n) ==
  LET v == store[PodKey(t, n)] IN IF v = NULL THEN 0 ELSE (v * MaxPriority) \div Unit

-----------------------------------------------------------------------------
(***************************************************************************)
(* Properties.                                                             *)
(***************************************************************************)

\* What the monitor holds in memory is what etcd holds, at every moment and
\* for every key whose last write did not fail: a restart recovers the state the
\* monitor had, to the six decimals that are written.
CacheWrittenThrough ==
  \A key \in Keys \ unsaved : cache[key] # NULL => store[key] = cache[key]

\* The values in W, and those that one reward step makes of them.
Steps(W) == W \cup {Blend(w, r) : w \in W, r \in Rewards}

\* The values that reward steps make of v.
Reached(v) ==
  LET after[i \in 0..MaxEvents] == IF i = 0 THEN {v} ELSE Steps(after[i - 1])
  IN  after[MaxEvents]

UnlistedKeys == {NodeKey(n) : n \in unlisted} \cup {PodKey(t, n) : t \in PodType, n \in unlisted}

\* A reward learned is never lost: through crashes, restarts and failed writes
\* a stored value only moves on by reward steps, from the initial reward of
\* init_if_not_exists.  (A failed get, and a node that is not in the list of the
\* monitor, do make it start from another value.)  A step is exact to the six
\* decimals that are written.
LearnedRewardsKept ==
  [][\A key \in Keys \ (unread' \cup UnlistedKeys) : store'[key] # store[key] =>
        store'[key] \in Reached(IF store[key] = NULL THEN running_reward ELSE store[key])]_vars

\* The pods of type t have only succeeded on node a and only failed on node b.
Better(t, a, b) == given[t][a] = {running_reward} /\ given[t][b] = {failed_reward}

\* "RLPriority : prioritize nodes with higher rewards" (rl-priority.go): when
\* the monitor is waiting for events, a node on which the pods of a type have
\* only succeeded is not scored below one on which they have only failed.
PrioritizesHigherRewards ==
  up /\ todo = <<>> =>
    \A t \in PodType : cache[PodKey(t, All)] # NULL =>
      \A a, b \in nodes : Better(t, a, b) => RLPriorityFunc(t, a) >= RLPriorityFunc(t, b)

\* The same for the nodes that every start of the monitor has listed, and whose
\* last write did not fail: in spite of crashes, failed requests and nodes that
\* join, these are scored by their rewards.
ListedNodesPrioritized ==
  up /\ todo = <<>> =>
    \A t \in PodType : \A a, b \in nodes \ unlisted :
      Better(t, a, b) /\ cache[PodKey(t, a)] # NULL /\ PodKey(t, a) \notin unsaved
        => RLPriorityFunc(t, a) >= RLPriorityFunc(t, b)
=============================================================================
