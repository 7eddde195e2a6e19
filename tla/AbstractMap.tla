---------------------------- MODULE AbstractMap -----------------------------
(***************************************************************************)
(* What hashmap.h promises: a finite map from keys to elements.            *)
(***************************************************************************)
CONSTANTS Key, Data, NULL

VARIABLE content    \* the element of each key, NULL where there is none

Init == content = [k \in Key |-> NULL]

\* "Insert a new element into the hashmap."
Insert(k, d) == content' = [content EXCEPT ![k] = d]

\* "Remove the storage for the element of the key"
Remove(k) == content' = [content EXCEPT ![k] = NULL]

Next == \E k \in Key : Remove(k) \/ \E d \in Data : Insert(k, d)

Spec == Init /\ [][Next]_content
=============================================================================
