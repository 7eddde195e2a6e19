------------------------------ MODULE HashSet -------------------------------
(***************************************************************************)
(* The set of strings of libpigeon (utils/hashset.c), over the hash map:   *)
(* the data of every key is the set itself.  Unlike the PEs of the model,  *)
(* an element is inserted without a search for it.                         *)
(***************************************************************************)
EXTENDS HashMap

CONSTANT self   \* the address of the set

hashset_create == \E n \in StartSizes : m = NewTable(n)

hashset_add(k) == m' = hashmap_insert(m, k, self)

hashset_delete(k) == m' = hashmap_remove(k)

hashset_find(k) == hashmap_get(k) # NULL

hashset_count == m.count

SetInit ==
  hash \in [Key -> Hashes] /\ hashset_create /\ pairs = <<>> /\ removed = FALSE /\ saved = [k \in Key |-> NULL]

SetNext ==
  /\ \E k \in Key : hashset_add(k) \/ hashset_delete(k)
  /\ UNCHANGED <<hash, pairs, removed, saved>>

SetSpec == SetInit /\ [][SetNext]_vars

-----------------------------------------------------------------------------
\* "Return the number of elements in the hashset" (hashset.h): hashset_count is
\* the number of the strings that hashset_find finds.
CountsElements == hashset_count = Cardinality({k \in Key : hashset_find(k)})
=============================================================================
