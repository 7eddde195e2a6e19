---------------------------- MODULE LinkedQueue -----------------------------
(***************************************************************************)
(* The linked queue of libpigeon (utils/queue.c), on a heap whose freed    *)
(* nodes malloc may hand out again.                                        *)
(***************************************************************************)
EXTENDS Integers, Sequences

CONSTANTS
  Address,    \* where malloc can put a node
  Element, NULL

VARIABLES
  q,          \* struct queue: front, rear, size
  heap,       \* the struct qnode at an address, or NULL
  out,        \* what the last queue_remove returned
  fifo,       \* history: the elements added and not removed yet
  taken       \* history: what the last queue_remove should return

vars == <<q, heap, out, fifo, taken>>

queue_create == [front |-> NULL, rear |-> NULL, size |-> 0]

Init ==
  /\ q = queue_create
  /\ heap = [a \in Address |-> NULL]
  /\ out = NULL
  /\ fifo = <<>> /\ taken = NULL

Free == {a \in Address : heap[a] = NULL}

\* A store through a pointer to a freed node is lost.
SetNext(h, a, b) == IF h[a] = NULL THEN h ELSE [h EXCEPT ![a].next = b]

\* queue_add, with the node at a.
queue_add(a, e) ==
  LET h == [heap EXCEPT ![a] = [element |-> e, next |-> NULL]]
  IN  /\ heap' = IF q.rear = NULL THEN h ELSE SetNext(h, q.rear, a)
      /\ q' = [front |-> IF q.rear = NULL THEN a ELSE q.front, rear |-> a, size |-> q.size + 1]
      /\ UNCHANGED out

\* Faulty form: the rear still points to the last node when it was removed.
queue_remove_KeepsRear ==
  \/ q.front = NULL /\ out' = NULL /\ UNCHANGED <<q, heap>>
  \/ /\ q.front # NULL
     /\ out' = heap[q.front].element
     /\ q' = [q EXCEPT !.front = heap[q.front].next, !.size = @ - 1]
     /\ heap' = [heap EXCEPT ![q.front] = NULL]

queue_remove ==
  \/ q.front = NULL /\ out' = NULL /\ UNCHANGED <<q, heap>>
  \/ /\ q.front # NULL
     /\ out' = heap[q.front].element
     /\ LET next == heap[q.front].next
        IN  q' = [front |-> next, rear |-> IF next = NULL THEN NULL ELSE q.rear, size |-> q.size - 1]
     /\ heap' = [heap EXCEPT ![q.front] = NULL]

\* The nodes from the front on, as queue_print and queue_destroy walk them.
Nodes ==
  LET node[i \in 1..q.size] ==
        IF i = 1 THEN q.front
        ELSE IF node[i - 1] = NULL \/ heap[node[i - 1]] = NULL THEN NULL ELSE heap[node[i - 1]].next
  IN  node

\* queue_destroy frees the nodes; queue_create makes the queue anew.
queue_destroy ==
  /\ heap' = [a \in Address |-> IF \E i \in 1..q.size : Nodes[i] = a THEN NULL ELSE heap[a]]
  /\ q' = queue_create
  /\ out' = NULL

Add(e) ==
  /\ \E a \in Free : queue_add(a, e)
  /\ fifo' = Append(fifo, e)
  /\ UNCHANGED taken

Remove ==
  /\ queue_remove
  /\ fifo' = IF fifo = <<>> THEN <<>> ELSE Tail(fifo)
  /\ taken' = IF fifo = <<>> THEN NULL ELSE Head(fifo)

Destroy == queue_destroy /\ fifo' = <<>> /\ taken' = NULL

Next == (\E e \in Element : Add(e)) \/ Remove \/ Destroy

-----------------------------------------------------------------------------
\* First in, first out through any reuse of nodes: queue_remove returns the
\* element that was added first, queue_size and a walk from the front agree with
\* what was added, the rear is the last node, and the heap holds no node that is
\* not in the queue.
QueueIsFIFO ==
  /\ q.size = Len(fifo) /\ out = taken
  /\ \A i \in 1..q.size : Nodes[i] # NULL /\ heap[Nodes[i]] # NULL /\ heap[Nodes[i]].element = fifo[i]
  /\ q.rear = IF q.size = 0 THEN NULL ELSE Nodes[q.size]
  /\ \A a \in Address : heap[a] # NULL => \E i \in 1..q.size : Nodes[i] = a
=============================================================================
