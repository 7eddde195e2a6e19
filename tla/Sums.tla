-------------------------------- MODULE Sums --------------------------------
(***************************************************************************)
(* The loops that add up one number per element of a collection.           *)
(***************************************************************************)
EXTENDS Integers, FiniteSetsExt

\* The sum of f[x] over the elements of S.
Total(f, S) == MapThenSumSet(LAMBDA x : f[x], S)
=============================================================================
