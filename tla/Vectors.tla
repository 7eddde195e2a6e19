------------------------------ MODULE Vectors -------------------------------
(***************************************************************************)
(* The growable arrays of pigeon_c/src/utils/vector.c, as sequences.  The  *)
(* indices of the C functions start at 0.  vector_append is Append.        *)
(***************************************************************************)
EXTENDS Integers, Sequences

\* Index of the first occurrence of e in v, or -1.
vector_getindex(v, e) ==
  IF \E i \in DOMAIN v : v[i] = e
  THEN (CHOOSE i \in DOMAIN v : v[i] = e /\ \A j \in 1..(i - 1) : v[j] # e) - 1
  ELSE -1

\* The later elements move up by one; an index out of range changes nothing.
vector_remove(v, _index) ==
  IF _index >= 0 /\ _index < Len(v)
  THEN [i \in 1..(Len(v) - 1) |-> IF i <= _index THEN v[i] ELSE v[i + 1]]
  ELSE v

vector_delete(v, e) ==
  LET i == vector_getindex(v, e)
  IN  IF i >= 0 THEN vector_remove(v, i) ELSE v
=============================================================================
