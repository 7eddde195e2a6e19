---------------------------- MODULE VectorStore -----------------------------
(***************************************************************************)
(* The growing array behind every list of libpigeon (utils/vector.c).      *)
(* Indices start at 0.  A cell that was allocated and never written holds  *)
(* Garbage, and so does whatever lies beyond the allocated cells.          *)
(***************************************************************************)
EXTENDS Integers, SequencesExt

CONSTANTS
  Element,          \* pointers that are stored
  NULL, Garbage,
  InitialCapacity,  \* VECTOR_INITIAL_CAPACITY
  MaxSize           \* bound: elements of the vector

VARIABLES
  v,                \* struct vector: size, capacity, data
  seq               \* history: the sequence that the operations should give

Realloc(s, n) ==
  [s EXCEPT !.capacity = n,
            !.data = [i \in 0..(n - 1) |-> IF i \in DOMAIN s.data THEN s.data[i] ELSE Garbage]]

vector_create ==
  [size |-> 0, capacity |-> InitialCapacity, data |-> [i \in 0..(InitialCapacity - 1) |-> Garbage]]

vector_double_capacity_if_full(s) ==
  IF s.size >= s.capacity THEN Realloc(s, 2 * s.capacity) ELSE s

vector_append(s, e) ==
  LET t == vector_double_capacity_if_full(s)
  IN  [t EXCEPT !.data[t.size] = e, !.size = @ + 1]

\* The while loop of vector_set and vector_insert: NULLs until there are n.
Padded(s, n) ==
  LET pad[k \in Nat] == IF k = 0 THEN s ELSE vector_append(pad[k - 1], NULL)
  IN  pad[IF n > s.size THEN n - s.size ELSE 0]

\* The elements of another vector that are not NULL, o, in their order.
vector_appendall(s, o) ==
  FoldLeft(vector_append, s, SelectSeq(o, LAMBDA e : e # NULL))

vector_set(s, i, e) ==
  LET t == Padded(s, i + 1) IN IF i >= 0 THEN [t EXCEPT !.data[i] = e] ELSE t

\* Faulty form: the loop that makes room runs upwards.
vector_insert_Upwards(s, i, e) ==
  LET t == vector_double_capacity_if_full(Padded(s, i))
  IN  IF i < 0 THEN Padded(s, i)
      ELSE [t EXCEPT !.size = @ + 1,
                     !.data = [k \in DOMAIN @ |-> IF k = i THEN e
                                                  ELSE IF k \in (i + 1)..t.size THEN @[i] ELSE @[k]]]

vector_insert(s, i, e) ==
  LET t == vector_double_capacity_if_full(Padded(s, i))
  IN  IF i < 0 THEN Padded(s, i)
      ELSE [t EXCEPT !.size = @ + 1,
                     !.data = [k \in DOMAIN @ |-> IF k = i THEN e
                                                  ELSE IF k \in (i + 1)..t.size THEN @[k - 1] ELSE @[k]]]

vector_remove(s, i) ==
  IF i \notin 0..(s.size - 1) THEN s
  ELSE [s EXCEPT !.size = @ - 1,
                 !.data = [k \in DOMAIN @ |-> IF k \in i..(s.size - 2) THEN @[k + 1]
                                              ELSE IF k = s.size - 1 THEN NULL ELSE @[k]]]

vector_getindex(s, e) ==
  LET at == {i \in 0..(s.size - 1) : s.data[i] = e} IN IF at = {} THEN -1 ELSE Min(at)

vector_delete(s, e) ==
  IF vector_getindex(s, e) >= 0 THEN vector_remove(s, vector_getindex(s, e)) ELSE s

\* The cells kept by the reallocation keep their contents.
vector_clear(s) == [Realloc(s, InitialCapacity) EXCEPT !.size = 0]

\* vector_toarraycopy, and what vector_get answers for each index.
Contents == [i \in 1..v.size |-> IF i - 1 \in DOMAIN v.data THEN v.data[i - 1] ELSE Garbage]

-----------------------------------------------------------------------------
(***************************************************************************)
(* Each operation, and the operation on sequences that it stands for.      *)
(***************************************************************************)
Abstract == INSTANCE Vectors

Index == (-1)..(MaxSize - 1)

\* The sequence s with NULLs appended until it has n elements.
Extended(s, n) == s \o [k \in 1..(n - Len(s)) |-> NULL]

AppendElement(e) ==
  /\ v.size < MaxSize
  /\ v' = vector_append(v, e)
  /\ seq' = Append(seq, e)

AppendAll(o) ==
  /\ v.size + Len(o) <= MaxSize
  /\ v' = vector_appendall(v, o)
  /\ seq' = seq \o SelectSeq(o, LAMBDA e : e # NULL)

SetElement(i, e) ==
  /\ v' = vector_set(v, i, e)
  /\ seq' = IF i < 0 THEN seq ELSE ReplaceAt(Extended(seq, i + 1), i + 1, e)

InsertElement(i, e) ==
  /\ v.size < MaxSize
  /\ v' = vector_insert(v, i, e)
  /\ seq' = IF i < 0 THEN seq ELSE InsertAt(Extended(seq, i), i + 1, e)

RemoveElement(i) ==
  /\ v' = vector_remove(v, i)
  /\ seq' = Abstract!vector_remove(seq, i)

DeleteElement(e) ==
  /\ v' = vector_delete(v, e)
  /\ seq' = Abstract!vector_delete(seq, e)

Clear == v' = vector_clear(v) /\ seq' = <<>>

Init == v = vector_create /\ seq = <<>>

Next ==
  \/ \E e \in Element : AppendElement(e) \/ DeleteElement(e)
  \/ \E o \in [1..2 -> Element \cup {NULL}] : AppendAll(o)
  \/ \E i \in Index, e \in Element : SetElement(i, e) \/ InsertElement(i, e)
  \/ \E i \in Index : RemoveElement(i)
  \/ Clear

-----------------------------------------------------------------------------
\* Every operation has the effect of an operation on sequences, and those that
\* the updater uses the effect that the model of the updater gives them: no
\* growth, shift, padding or reallocation loses, repeats or invents an element,
\* reads a cell before it was written, or writes beyond the allocated ones.
VectorIsSequence == Contents = seq
=============================================================================
