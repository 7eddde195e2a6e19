----------------------------- MODULE Variation ------------------------------
(***************************************************************************)
(* The inverse of a matrix and the coefficients of variation of samples    *)
(* (utils/matrix.c), against what they should be.                          *)
(***************************************************************************)
EXTENDS Matrices

CONSTANTS Square, Samples    \* matrices to invert, and matrices of samples

VARIABLES
  x,            \* a matrix
  inverse,      \* matrix_inverse of it
  variation,    \* or its coefficients of variation, by method
  done          \* they were computed

vars == <<x, inverse, variation, done>>

Init == x \in Square \cup Samples /\ inverse = NULL /\ variation = NULL /\ done = FALSE

Invert ==
  /\ x \in Square /\ ~done
  /\ inverse' = matrix_inverse(x)
  /\ done' = TRUE
  /\ UNCHANGED <<x, variation>>

Vary ==
  /\ x \in Samples /\ ~done
  /\ variation' = [method \in {"ALBERT_ZHANG", "VOINOV_NIKULIN"} |-> matrix_coefficient_variation(x, method)]
  /\ done' = TRUE
  /\ UNCHANGED <<x, inverse>>

Next == Invert \/ Vary

-----------------------------------------------------------------------------
\* The determinant by its definition, as a sum over permutations.
Leibniz(y) ==
  LET n == Len(y)
      perms == {f \in [1..n -> 1..n] : \A i, j \in 1..n : f[i] = f[j] => i = j}
      inversions(f) == Cardinality({ij \in (1..n) \X (1..n) : ij[1] < ij[2] /\ f[ij[1]] > f[ij[2]]})
  IN  MapThenSumSet(LAMBDA f : (-1)^inversions(f) * FoldLeft(LAMBDA a, i : a * y[i][f[i]], 1, [i \in 1..n |-> i]),
                    perms)

\* "A . adj(A) = det(A) . I" and "NULL if singular" (matrix.c, matrix.h): there
\* is an inverse exactly for the matrices whose determinant is not zero, and from
\* both sides its product with the matrix is the identity.
InverseExact ==
  (done /\ x \in Square) =>
    /\ inverse = NULL <=> Leibniz(x) = 0
    /\ inverse # NULL =>
         /\ inverse.by = Leibniz(x)
         /\ \A product \in {matrix_multiply(x, inverse.of), matrix_multiply(inverse.of, x)} :
              product = matrix_scale(matrix_identity(Len(x)), inverse.by)

\* The order and the equality of two quotients that are not negative.
AtMost(a, b) == a.of * b.by <= b.of * a.by
Equal(a, b) == AtMost(a, b) /\ AtMost(b, a)

\* "Assumption: sigma is a positive-definite matrix" (matrix.c): covariances of
\* samples are symmetric and not negative, and where they have an inverse the
\* coefficient of Voinov and Nikulin is at most that of Albert and Zhang, and both
\* are zero only for averages of zero.  No coefficient depends on the unit.
VariationsAgree ==
  variation # NULL =>
    LET sigma == matrix_covariance(x)
        az == variation["ALBERT_ZHANG"]
        vn == variation["VOINOV_NIKULIN"]
    IN  /\ sigma = matrix_transpose(sigma) /\ matrix_determinant(sigma) >= 0
        /\ az.of >= 0 /\ az.by > 0 /\ vn.of >= 0 /\ vn.by > 0
        /\ AtMost(vn, az)
        /\ (matrix_determinant(sigma) > 0 /\ ToSet(matrix_average(x)) # {0}) => vn.of > 0
        /\ \A method \in DOMAIN variation :
             Equal(variation[method], matrix_coefficient_variation(matrix_scale(x, 2), method))
=============================================================================
