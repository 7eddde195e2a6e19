------------------------------ MODULE Extender ------------------------------
(***************************************************************************)
(* The extender server: main.go registers the routes, routes.go decodes    *)
(* the requests and answers them, predicate.go, prioritize.go and bind.go  *)
(* apply the functions of the agents.  net/http runs each handler in a     *)
(* goroutine of its own and ends the connection of one that panics.  Of    *)
(* the agents, congestion and foo are given in full.  Those that have      *)
(* modules of their own, safe and pigeon, may give any verdict and score,  *)
(* and pigeon's priority function may panic, when its model holds more     *)
(* nodes than the request.                                                 *)
(***************************************************************************)
EXTENDS Integers, FiniteSets

CONSTANTS
  Node, NULL,
  Call,              \* identities of calls
  MaxCongestion,     \* CONGESTION_FACTOR_MAX
  Congestions,       \* values of the congestion-factor annotation; NULL: none, not a number or beyond int
  AgentScores,       \* scores that safe and pigeon may give
  Paths              \* paths that are called

ASSUME ExtenderAssumption == MaxCongestion \in Nat \ {0}

VARIABLES
  routes,      \* the paths of the router
  call,        \* of each call: its path, its arguments and its state
  response     \* of each call: what its connection carried

vars == <<routes, call, response>>

MaxPriority == 10
Predicates == {"predicates/foo", "predicates/safe-overload"}
AgentPriorities == {"priorities/pigeon-holing", "priorities/safe-overload", "priorities/safe-balance"}
Priorities == {"priorities/foo", "priorities/congestion"} \cup AgentPriorities
Verdicts == {"true", "false"}      \* no registered predicate returns an error

\* A call that is not made yet, and a connection without an answer.
NoCall == [state |-> "none", path |-> NULL, args |-> NULL]
NoResponse == [status |-> NULL, nodes |-> {}, failed |-> {}, scores |-> NULL, error |-> FALSE]

\* What the function of a path finds out about a node; foo accepts every one.
Found(path) ==
  IF path = "predicates/foo" THEN {"true"}
  ELSE IF path = "predicates/safe-overload" THEN Verdicts
  ELSE IF path = "priorities/congestion" THEN Congestions
  ELSE IF path \in AgentPriorities THEN AgentScores
  ELSE {NULL}

\* The arguments of a call, NULL for a body that cannot be decoded: the nodes
\* with what is found out about each (NULL when the scheduler sends only their
\* names), whether there is a pod, and whether the function panics.
Args(path) ==
  {NULL} \cup
  [nodes  : {NULL} \cup UNION {[list -> Found(path)] : list \in SUBSET Node},
   pod    : BOOLEAN,
   panics : IF path = "priorities/pigeon-holing" THEN BOOLEAN ELSE {FALSE}]

-----------------------------------------------------------------------------
(***************************************************************************)
(* The functions of the agents.                                            *)
(***************************************************************************)

\* Faulty form: a node without a factor counts as fully congested.
CongestionScore_Pessimist(f) ==
  LET cf == IF f = NULL \/ f <= 0 \/ f > MaxCongestion THEN MaxCongestion ELSE f
  IN  (2 * MaxPriority * (MaxCongestion - cf) + MaxCongestion) \div (2 * MaxCongestion)

\* congestion.PriorityFunc: 10 * (1 - cf / max), rounded, with no congestion for
\* a factor that is missing or negative, and the maximum for one beyond it.
CongestionScore(f) ==
  LET cf == IF f = NULL \/ f <= 0 THEN 0 ELSE IF f > MaxCongestion THEN MaxCongestion ELSE f
  IN  (2 * MaxPriority * (MaxCongestion - cf) + MaxCongestion) \div (2 * MaxCongestion)

\* The scores of a priority function, NULL when it panics.
Scores(path, a) ==
  IF a.panics THEN NULL
  ELSE [n \in DOMAIN a.nodes |->
          IF path = "priorities/congestion" THEN CongestionScore(a.nodes[n])
          ELSE IF path = "priorities/foo" THEN 1
          ELSE a.nodes[n]]

-----------------------------------------------------------------------------
(***************************************************************************)
(* The server.                                                             *)
(***************************************************************************)

\* InitMain, the init functions of the agents, and main; AddPreemption is not called.
Init ==
  /\ routes = Predicates \cup Priorities \cup {"bind", "version"}
  /\ call = [c \in Call |-> NoCall]
  /\ response = [c \in Call |-> NoResponse]

Answer(c, r) ==
  /\ call' = [call EXCEPT ![c].state = "done"]
  /\ response' = [response EXCEPT ![c] = r]
  /\ UNCHANGED routes

\* A handler that panics: the connection is closed and nothing is written.
Panic(c) == Answer(c, [NoResponse EXCEPT !.status = "closed"])

\* The scheduler calls the extender.
Send(c, path, a) ==
  /\ call[c].state = "none"
  /\ call' = [call EXCEPT ![c] = [state |-> "sent", path |-> path, args |-> a]]
  /\ UNCHANGED <<routes, response>>

\* The router: a path without a handler is not found.
Route(c) ==
  /\ call[c].state = "sent"
  /\ IF call[c].path \in routes
     THEN /\ call' = [call EXCEPT ![c].state = "routed"]
          /\ UNCHANGED <<routes, response>>
     ELSE Answer(c, [NoResponse EXCEPT !.status = "not found"])

\* Predicate.Handler: a node whose verdict is false is in neither list.
PredicateHandler(a) ==
  [NoResponse EXCEPT
     !.status = "OK",
     !.nodes  = {n \in DOMAIN a.nodes : a.nodes[n] = "true"},
     !.failed = {n \in DOMAIN a.nodes : a.nodes[n] \notin Verdicts}]

\* The arguments for which Predicate.Handler panics: no list of nodes, or a node
\* to look at and no pod.
HandlerPanics(a) == a.nodes = NULL \/ (~a.pod /\ DOMAIN a.nodes # {})

\* PredicateRoute: a body that cannot be decoded is an error of the result.
PredicateRoute(c) ==
  /\ call[c].state = "routed" /\ call[c].path \in Predicates
  /\ IF call[c].args = NULL THEN Answer(c, [NoResponse EXCEPT !.status = "OK", !.error = TRUE])
     ELSE IF HandlerPanics(call[c].args) THEN Panic(c)
     ELSE Answer(c, PredicateHandler(call[c].args))

\* Prioritize.Handler: NULL, for a panic, also without a pod or a list of nodes.
PrioritizeHandler(path, a) ==
  IF ~a.pod \/ a.nodes = NULL THEN NULL ELSE Scores(path, a)

\* Faulty form: a panic of the priority function leaves the call waiting.
PrioritizeRoute_Hangs(c) ==
  /\ call[c].state = "routed" /\ call[c].path \in Priorities
  /\ call[c].args # NULL /\ PrioritizeHandler(call[c].path, call[c].args) # NULL
  /\ Answer(c, [NoResponse EXCEPT !.status = "OK", !.scores = PrioritizeHandler(call[c].path, call[c].args)])

\* PrioritizeRoute: a body that cannot be decoded, or a panic of the function,
\* ends the connection.
PrioritizeRoute(c) ==
  /\ call[c].state = "routed" /\ call[c].path \in Priorities
  /\ IF call[c].args = NULL \/ PrioritizeHandler(call[c].path, call[c].args) = NULL THEN Panic(c)
     ELSE Answer(c, [NoResponse EXCEPT !.status = "OK", !.scores = PrioritizeHandler(call[c].path, call[c].args)])

\* BindRoute: NoBind returns an error, and so does a body that cannot be decoded.
BindRoute(c) ==
  /\ call[c].state = "routed" /\ call[c].path = "bind"
  /\ Answer(c, [NoResponse EXCEPT !.status = "OK", !.error = TRUE])

\* VersionRoute: the only route that is called with GET; it reads no body.
VersionRoute(c) ==
  /\ call[c].state = "routed" /\ call[c].path = "version"
  /\ Answer(c, [NoResponse EXCEPT !.status = "OK"])

Handle(c) == Route(c) \/ PredicateRoute(c) \/ PrioritizeRoute(c) \/ BindRoute(c) \/ VersionRoute(c)

Next == \E c \in Call :
  \/ \E path \in Paths : \E a \in Args(path) : Send(c, path, a)
  \/ Handle(c)

Spec == Init /\ [][Next]_vars
FairSpec == Spec /\ \A c \in Call : WF_vars(Handle(c))

-----------------------------------------------------------------------------
(***************************************************************************)
(* Properties.                                                             *)
(***************************************************************************)

\* The congestion of a node as the agent's README defines it.
Congestion(a, n) == IF a.nodes[n] = NULL THEN 0 ELSE a.nodes[n]

\* The congestion priorities prefer nodes with low congestion: a node with less
\* congestion never has a lower score, and every score is one the scheduler
\* accepts.  An annotation that is missing, that is no number or that Atoi finds
\* out of range counts as no congestion.
LowCongestionPreferred ==
  \A c \in Call :
    (call[c].path = "priorities/congestion" /\ response[c].status = "OK") =>
      \A m, n \in DOMAIN call[c].args.nodes :
        /\ response[c].scores[n] \in 0..MaxPriority
        /\ Congestion(call[c].args, m) <= Congestion(call[c].args, n)
             => response[c].scores[m] >= response[c].scores[n]

\* Every call ends, with an answer or with the connection closed, whatever the
\* other calls do: a panic in a handler does not stop the server.
CallsEnd == \A c \in Call : call[c].state = "sent" ~> call[c].state = "done"
=============================================================================
