------------------------------ MODULE Resource ------------------------------
(***************************************************************************)
(* The resource vectors of a physical entity (pigeon_c/src/system/         *)
(* resource.c).  A resource has one capacity, one usage and one overflow   *)
(* flag for each resource type; Res is the set of types, and a vector is a *)
(* function on Res.  The loops of resource.c over 0..num-1 become          *)
(* pointwise definitions.                                                  *)
(***************************************************************************)
EXTENDS Integers

CONSTANT Res    \* the resource types (cpu, memory, ...)

Vector == [Res -> Int]

Zero == [k \in Res |-> 0]

\* resource.c stores max(v, 0), type by type, in setcapacity and setusage
NonNegative(v) == [k \in Res |-> IF v[k] >= 0 THEN v[k] ELSE 0]

Resource == [capacity : Vector, usage : Vector, allowoverflow : [Res -> BOOLEAN]]

\* The capacity is stored as given (it is clamped only by a later
\* resource_setcapacity) and the usage starts at zero.
resource_create(_capacity, _allowoverflow) ==
  [capacity |-> _capacity, usage |-> Zero, allowoverflow |-> _allowoverflow]

resource_setcapacity(r, _capacity) == [r EXCEPT !.capacity = NonNegative(_capacity)]

resource_setusage(r, _usage) == [r EXCEPT !.usage = NonNegative(_usage)]

resource_canuse(r, demand) ==
  \A k \in Res : r.allowoverflow[k] \/ demand[k] <= r.capacity[k] - r.usage[k]

\* No check against the capacity: resource_use only reports an overload.
resource_use(r, demand) ==
  [r EXCEPT !.usage = [k \in Res |-> r.usage[k] + demand[k]]]

resource_release(r, demand) ==
  [r EXCEPT !.usage = NonNegative([k \in Res |-> r.usage[k] - demand[k]])]
=============================================================================
