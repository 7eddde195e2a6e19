---------------------------- MODULE DemandStats -----------------------------
(***************************************************************************)
(* The demand statistics of libpigeon (pigeon_c/src/stats/demandstats.c):  *)
(* averages of the demands of the pods, and of their pairwise products,    *)
(* over all pods at first and with exponential smoothing from then on.     *)
(*                                                                         *)
(* An average is an integer, in units of 1/Unit; Unit is divisible by the  *)
(* counts the instance divides by, so the divisions here are exact.  A     *)
(* product of two C ints wraps around at IntBits bits.                     *)
(***************************************************************************)
EXTENDS Integers, SequencesExt

CONSTANTS
  NumRes,      \* number of resource types
  CountMax,    \* 1 / DEMAND_STATS_SMOOTHING_FACTOR (100 in the code)
  Unit,        \* the averages are multiples of 1/Unit
  IntBits      \* width of an int (32 in the code)

ASSUME StatsAssumption ==
  /\ NumRes \in Nat \ {0} /\ CountMax \in Nat \ {0}
  /\ Unit \in Nat \ {0} /\ IntBits \in Nat \ {0}

Resources == 1..NumRes

\* Reading the low IntBits bits of x as a signed number.
WrapInt(x) == ((x + 2^(IntBits - 1)) % 2^IntBits) - 2^(IntBits - 1)

\* demandstats_create: no sample, and no arrays yet.
demandstats_create == [demandcount |-> 0, demandavg |-> <<>>, demandavg2 |-> <<>>]

\* Faulty form: the sample is mixed in before it is counted.
demandstats_add_CountsLate(s, d) ==
  LET next == IF s.demandcount < CountMax THEN s.demandcount + 1 ELSE s.demandcount
      c == s.demandcount
      mix(old, x) == ((c - 1) * old + Unit * x) \div c
  IN  IF s.demandcount = 0
      THEN [demandcount |-> next,
            demandavg   |-> [j \in Resources |-> Unit * d[j]],
            demandavg2  |-> [jk \in Resources \X Resources |-> Unit * WrapInt(d[jk[1]] * d[jk[2]])]]
      ELSE [demandcount |-> next,
            demandavg   |-> [j \in Resources |-> mix(s.demandavg[j], d[j])],
            demandavg2  |-> [jk \in Resources \X Resources |-> mix(s.demandavg2[jk], d[jk[1]] * d[jk[2]])]]

\* demandstats_add: the first sample is stored with products of ints; later
\* ones are mixed in, with the factor 1 / demandcount, in floating point.
demandstats_add(s, d) ==
  LET c == IF s.demandcount < CountMax THEN s.demandcount + 1 ELSE s.demandcount
      mix(old, x) == ((c - 1) * old + Unit * x) \div c
  IN  IF s.demandcount = 0
      THEN [demandcount |-> c,
            demandavg   |-> [j \in Resources |-> Unit * d[j]],
            demandavg2  |-> [jk \in Resources \X Resources |-> Unit * WrapInt(d[jk[1]] * d[jk[2]])]]
      ELSE [demandcount |-> c,
            demandavg   |-> [j \in Resources |-> mix(s.demandavg[j], d[j])],
            demandavg2  |-> [jk \in Resources \X Resources |-> mix(s.demandavg2[jk], d[jk[1]] * d[jk[2]])]]
=============================================================================
