------------------------------ MODULE HashMap -------------------------------
(***************************************************************************)
(* The open-addressing hash map of pigeon_c/src/utils/hashmap.c: double    *)
(* hashing over a table whose size should be prime, removal by clearing    *)
(* the ACTIVE flag of an entry whose key and data stay behind, growth when *)
(* every entry is active or a search finds no place.  The value of         *)
(* hashfunction() for each key is arbitrary: it is chosen in the initial   *)
(* state, so every pattern of collisions is covered.  maparray.c builds a  *)
(* map at once from two arrays.                                            *)
(***************************************************************************)
EXTENDS Integers, FiniteSets, SequencesExt

CONSTANTS
  Key, Data, NULL,
  Values,          \* values in the arrays of a maparray
  StartSizes,      \* sizes hashmap_create may choose (1021 in the code by default)
  Hashes           \* values of hashfunction()

ASSUME HashMapAssumption ==
  /\ \A n \in StartSizes : n \in Nat /\ n > 2
  /\ Hashes \subseteq Nat /\ NULL \notin Key \cup Data \cup Values

VARIABLES
  hash,      \* hashfunction(), for each key
  m,         \* the struct: table (0..size-1 -> entry), size, count
  pairs,     \* the keys and values of a maparray, empty for another map
  removed,   \* history: an element has been removed
  saved      \* history: the last element inserted for a key, NULL if removed

vars == <<hash, m, pairs, removed, saved>>

Empty == [active |-> FALSE, data |-> NULL, keystring |-> NULL]

NewTable(size) == [size |-> size, count |-> 0, table |-> [i \in 0..(size - 1) |-> Empty]]

\* Faulty form: the step may be zero.
probe_NoStep(k, size, i) == (hash[k] + i * (hash[k] % (size - 2))) % size

\* The entry looked at for key k in round i = 0, 1, ... of a search.
probe(k, size, i) == (hash[k] + i * ((hash[k] % (size - 2)) + 1)) % size

\* The first entry of k's search at which Stop holds, or -1.
Search(k, h, Stop(_)) ==
  LET rounds == {i \in 0..(h.size - 1) : Stop(h.table[probe(k, h.size, i)])}
  IN  IF rounds = {} THEN -1 ELSE probe(k, h.size, Min(rounds))

\* The entry insert() ends at: the first that is not active or has the key.
InsertSlot(h, k) == Search(k, h, LAMBDA e : ~e.active \/ e.keystring = k)

\* Store data under key k at the entry found.
Store(h, k, d) ==
  LET i == InsertSlot(h, k)
  IN  [h EXCEPT !.table[i] = [active |-> TRUE, data |-> d, keystring |-> k],
                !.count = IF h.table[i].active THEN @ ELSE @ + 1]

Prime(n) == \A i \in 2..(n - 1) : n % i # 0

\* The first prime of the odd numbers above n.  isPrime() is a test of Fermat with
\* nine random bases, which accepts every prime and may accept another number;
\* for the sizes a table of StartSizes grows to, the first candidate is prime.
findPrimeGreaterThan(n) ==
  LET next[p \in Nat] == IF Prime(p) THEN p ELSE next[p + 2]
  IN  next[IF n % 2 = 1 THEN n + 2 ELSE n + 1]

\* A larger table with the active entries, inserted from the last to the first.
\* Each finds a place, because the size is prime and the table is not full.
rehash(h) ==
  LET g[i \in 0..h.size] ==
        IF i = 0 THEN NewTable(findPrimeGreaterThan(2 * h.size))
        ELSE LET e == h.table[h.size - i]
             IN  IF e.active THEN Store(g[i - 1], e.keystring, e.data) ELSE g[i - 1]
  IN  g[h.size]

\* Faulty form: no second search when the first found no place.
hashmap_insert_GivesUp(h, k, d) ==
  LET g == IF h.size <= h.count THEN rehash(h) ELSE h
  IN  IF InsertSlot(g, k) # -1 THEN Store(g, k, d) ELSE g

hashmap_insert(h, k, d) ==
  LET g == IF h.size <= h.count THEN rehash(h) ELSE h
  IN  IF InsertSlot(g, k) # -1 THEN Store(g, k, d) ELSE Store(rehash(g), k, d)

\* On the empty map h, the pairs in their order.
maparray_create(h, kds) ==
  LET g[i \in 0..Len(kds)] == IF i = 0 THEN h ELSE hashmap_insert(g[i - 1], kds[i][1], kds[i][2])
  IN  g[Len(kds)]

\* The searches of remove() and get() end at the first entry that has the key
\* or has no data; an entry keeps both when it is removed.
LookupSlot(k) == Search(k, m, LAMBDA e : e.keystring = k \/ e.data = NULL)

hashmap_remove(k) ==
  LET i == LookupSlot(k)
  IN  IF i # -1 /\ m.table[i].data # NULL /\ m.table[i].active
      THEN [m EXCEPT !.table[i].active = FALSE, !.count = @ - 1]
      ELSE m

hashmap_get(k) ==
  LET i == LookupSlot(k)
  IN  IF m.count # 0 /\ i # -1 /\ m.table[i].active THEN m.table[i].data ELSE NULL

\* Faulty form: the entries that hold data are listed, active or not.
hashmap_getkeys_AllEntries ==
  LET v[i \in 0..m.size] ==
        IF i = 0 THEN <<>>
        ELSE IF m.table[i - 1].data # NULL THEN Append(v[i - 1], m.table[i - 1].keystring) ELSE v[i - 1]
  IN  IF m.count = 0 THEN <<>> ELSE v[m.size]

hashmap_getkeys ==
  LET v[i \in 0..m.size] ==
        IF i = 0 THEN <<>>
        ELSE IF m.table[i - 1].active THEN Append(v[i - 1], m.table[i - 1].keystring) ELSE v[i - 1]
  IN  IF m.count = 0 THEN <<>> ELSE v[m.size]

-----------------------------------------------------------------------------
Init ==
  /\ hash \in [Key -> Hashes]
  /\ pairs \in [1..2 -> Key \X Values] \cup {<<>>}
  /\ \E n \in StartSizes : m = maparray_create(NewTable(n), pairs)
  /\ removed = FALSE
  /\ saved = [k \in Key |-> NULL]

\* The discipline of the callers: cloudsystem_addPE, whose map has removals,
\* inserts only what hashmap_get does not find; the maps and sets that insert
\* without looking have no removals.  (Without it, an insert that meets a removed
\* entry before the key stores the key twice.)  A maparray does not change.
InsertElement(k, d) ==
  /\ pairs = <<>>
  /\ ~removed \/ hashmap_get(k) = NULL
  /\ m' = hashmap_insert(m, k, d)
  /\ saved' = [saved EXCEPT ![k] = d]
  /\ UNCHANGED <<hash, pairs, removed>>

RemoveElement(k) ==
  /\ pairs = <<>>
  /\ m' = hashmap_remove(k)
  /\ removed' = TRUE
  /\ saved' = [saved EXCEPT ![k] = NULL]
  /\ UNCHANGED <<hash, pairs>>

Next == \E k \in Key : RemoveElement(k) \/ \E d \in Data : InsertElement(k, d)

Spec == Init /\ [][Next]_vars

-----------------------------------------------------------------------------
(***************************************************************************)
(* Properties.                                                             *)
(***************************************************************************)

\* Through hashmap_get, the table is the map that hashmap.h promises: an
\* insert or a remove changes the element of its own key and of no other,
\* across collisions, removed entries, rehashes, and sizes that are not prime.
Abstract == INSTANCE AbstractMap WITH content <- [k \in Key |-> hashmap_get(k)]
ImplementsMap ==
  [][\A k \in Key : /\ RemoveElement(k) => Abstract!Remove(k)
                    /\ \A d \in Data : InsertElement(k, d) => Abstract!Insert(k, d)]_vars

\* hashmap_count is "the number of saved elements" (hashmap.h), and
\* hashmap_getkeys lists every key that has an element, once, and no other.  Of a
\* key that is twice in the arrays of a maparray the last value counts.
EntriesExact ==
  LET found == {k \in Key : hashmap_get(k) # NULL}
  IN  /\ m.count = Cardinality(found)
      /\ ToSet(hashmap_getkeys) = found /\ IsInjective(hashmap_getkeys)
      /\ \A i \in DOMAIN pairs :
           (\A j \in (i + 1)..Len(pairs) : pairs[j][1] # pairs[i][1]) => hashmap_get(pairs[i][1]) = pairs[i][2]

\* "it should not be possible that we EVER come this far" (hashmap_insert):
\* while the table is not full and its size is prime, the probe sequence of
\* every key finds a place.
InsertFindsPlace == (m.count < m.size /\ Prime(m.size)) => \A k \in Key : InsertSlot(m, k) # -1
=============================================================================
