----------------------------- MODULE PodAdapter -----------------------------
(***************************************************************************)
(* The way of the quantities of a Kubernetes node and of a pod into the    *)
(* model of libpigeon: pigeon/adapter.go selects and scales them, and      *)
(* pigeon/client.go casts them to int32.  Memory and storage are in bytes  *)
(* in Kubernetes; a 1024 of the code is Kilo here.                         *)
(***************************************************************************)
EXTENDS Integers, Sequences

CONSTANTS
  NULL,
  Kilo,                   \* 1024 in the code
  IntBits,                \* 32 in the code
  MinCPU, MinMemory,      \* demand of a pod that requests none: 10 and 16 in the code
  NumResources,           \* NUM_RESOURCES
  Allocatables,           \* quantities that nodes may have
  Allocations,            \* quantities that may be requested on a node; NULL: not annotated
  Requests                \* quantities a pod may request

ASSUME AdapterAssumption ==
  /\ NumResources \in 1..5 /\ Kilo \in Nat \ {0} /\ IntBits \in Nat \ {0}
  /\ MinCPU \in Nat /\ MinMemory \in Nat

VARIABLES
  allocatable,   \* node.Status.Allocatable
  annotation,    \* the requested-... annotations of the node
  pod,           \* requests of the pod of the last call
  capacity, usage, demand,   \* in the model of libpigeon
  accepted       \* whether the node can take the pod, in that model

vars == <<allocatable, annotation, pod, capacity, usage, demand, accepted>>

Considered == 1..NumResources
Mega == Kilo * Kilo
Giga == Kilo * Mega
Names == <<"cpu", "memory", "pods", "gpu", "storage">>

WrapInt(x) == ((x + 2^(IntBits - 1)) % 2^IntBits) - 2^(IntBits - 1)

\* The int32 casts of StateUpdateNode and GetPodRanks.
ToInts(v) == [j \in Considered |-> WrapInt(v[j])]

\* MakeNodeTemplate scales memory and storage.
Scaled(q) == <<q.cpu, q.memory \div Mega, q.pods, q.gpu, q.storage \div Giga>>

\* MakeNodeTemplate, of the capacity or of the usage.  ParseInt gives 0 for an
\* annotation that is not there.
MakeNodeTemplate(q) == ToInts(IF q = NULL THEN <<0, 0, 0, 0, 0>> ELSE Scaled(q))

\* getPodResourceRequested adds the GPUs of a request that is not an integer,
\* for which AsInt64 returned 0; a pod always counts as one.
getPodResourceRequested(r) == [r EXCEPT !.pods = 1, !.gpu = 0]

\* Faulty form: the memory of the pod is rounded up.
CreatePodModel_RoundsUp(r) ==
  LET q == getPodResourceRequested(r)
      memory == (q.memory + Mega - 1) \div Mega
  IN  ToInts(<<IF q.cpu = 0 THEN MinCPU ELSE q.cpu,
               IF memory = 0 THEN MinMemory ELSE memory, q.pods, q.gpu, q.storage>>)

\* Faulty form: the memory of the pod is in gigabytes.
CreatePodModel_Gigabytes(r) ==
  LET q == getPodResourceRequested(r)
      memory == q.memory \div Giga
  IN  ToInts(<<IF q.cpu = 0 THEN MinCPU ELSE q.cpu,
               IF memory = 0 THEN MinMemory ELSE memory, q.pods, q.gpu, q.storage>>)

\* CreatePodModel: a pod that requests no CPU or less than a megabyte gets a
\* minimum, and storage stays in bytes.
CreatePodModel(r) ==
  LET q == getPodResourceRequested(r)
      memory == q.memory \div Mega
  IN  ToInts(<<IF q.cpu = 0 THEN MinCPU ELSE q.cpu,
               IF memory = 0 THEN MinMemory ELSE memory, q.pods, q.gpu, q.storage>>)

\* pe_canplaceLE, for a new node; resource_setusage raises a negative usage to 0.
NonNegative(x) == IF x < 0 THEN 0 ELSE x
canplaceLE(cap, use, d) == \A j \in Considered : d[j] <= cap[j] - NonNegative(use[j])

Init ==
  /\ allocatable \in Allocatables /\ annotation \in Allocations
  /\ pod = NULL /\ capacity = NULL /\ usage = NULL /\ demand = NULL /\ accepted = NULL

Prioritize(r) ==
  /\ pod' = r
  /\ capacity' = MakeNodeTemplate(allocatable)
  /\ usage' = MakeNodeTemplate(annotation)
  /\ demand' = CreatePodModel(r)
  /\ accepted' = canplaceLE(capacity', usage', demand')
  /\ UNCHANGED <<allocatable, annotation>>

Next == \E r \in Requests : Prioritize(r)

Spec == Init /\ [][Next]_vars

-----------------------------------------------------------------------------
(***************************************************************************)
(* Properties.                                                             *)
(***************************************************************************)

\* What is left of a quantity on the node, with the pod on it.
Left(j) ==
  LET name == Names[j] IN allocatable[name] - annotation[name] - (IF name = "pods" THEN 1 ELSE pod[name])

\* No considered resource that the node has enough of is lost in conversion: a
\* pod that requests CPU and a megabyte at least, and fits on an annotated node,
\* fits on it in the model, however the roundings of the three quantities fall.
FittingPodAccepted ==
  ( /\ accepted # NULL /\ annotation # NULL
    /\ pod.cpu > 0 /\ pod.memory >= Mega
    /\ \A j \in Considered : Left(j) >= 0 ) => accepted

\* A pod that the model accepts fits on the node, up to the two megabytes that
\* rounding down the usage and the demand can hide.
AcceptedPodFits ==
  (accepted = TRUE /\ annotation # NULL) =>
    \A j \in Considered : Left(j) > (IF Names[j] = "memory" THEN -2 * Mega ELSE -1)

=============================================================================
