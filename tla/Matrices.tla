------------------------------ MODULE Matrices ------------------------------
(***************************************************************************)
(* The vectors and matrices of libpigeon (utils/array.c, utils/matrix.c),  *)
(* as sequences of numbers and sequences of rows.  Floats are exact: the   *)
(* numbers are integers, and what is divided is kept with its divisor.     *)
(***************************************************************************)
EXTENDS Integers, SequencesExt

CONSTANT NULL

getnumrows(x) == Len(x)
getnumcols(x) == IF x = <<>> THEN 0 ELSE Len(x[1])
matrix_issquare(x) == getnumrows(x) = getnumcols(x)

\* The m x n matrix of the numbers f(i, j).
Matrix(m, n, f(_, _)) == [i \in 1..m |-> [j \in 1..n |-> f(i, j)]]

array_sum(a) == FoldLeft(LAMBDA s, e : s + e, 0, a)

\* Arrays of different lengths are left alone.
array_multiply(a, b) == IF Len(a) = Len(b) THEN [i \in DOMAIN a |-> a[i] * b[i]] ELSE a

matrix_identity(n) == Matrix(n, n, LAMBDA i, j : IF i = j THEN 1 ELSE 0)

matrix_transpose(x) == Matrix(getnumcols(x), getnumrows(x), LAMBDA i, j : x[j][i])

matrix_scale(x, f) == Matrix(getnumrows(x), getnumcols(x), LAMBDA i, j : f * x[i][j])

\* Matrices of different dimensions are left alone.
matrix_add(x, y) ==
  IF getnumrows(x) = getnumrows(y) /\ getnumcols(x) = getnumcols(y)
  THEN Matrix(getnumrows(x), getnumcols(x), LAMBDA i, j : x[i][j] + y[i][j])
  ELSE x

matrix_multiply(x, y) ==
  IF getnumrows(y) # getnumcols(x) THEN NULL
  ELSE Matrix(getnumrows(x), getnumcols(y),
              LAMBDA i, j : array_sum([l \in DOMAIN y |-> x[i][l] * y[l][j]]))

\* The row vector a times the matrix x.
matrix_multiply_left(x, a) ==
  IF Len(a) # getnumrows(x) THEN NULL
  ELSE [i \in 1..getnumcols(x) |-> array_sum([l \in DOMAIN a |-> a[l] * x[l][i]])]

\* The matrix without row p and column q.
matrix_cofactor(x, p, q) ==
  IF ~matrix_issquare(x) \/ getnumrows(x) <= 1 \/ {p, q} \ (1..getnumrows(x)) # {} THEN NULL
  ELSE [i \in DOMAIN RemoveAt(x, p) |-> RemoveAt(RemoveAt(x, p)[i], q)]

RECURSIVE matrix_determinant(_)

\* By the first row.
matrix_determinant(x) ==
  IF ~matrix_issquare(x) THEN 0
  ELSE IF getnumrows(x) = 1 THEN x[1][1]
  ELSE array_sum([j \in DOMAIN x |->
         (IF j % 2 = 1 THEN 1 ELSE -1) * x[1][j] * matrix_determinant(matrix_cofactor(x, 1, j))])

\* Faulty form: the determinants stay where their cofactors are.
matrix_adjoint_NotTransposed(x) ==
  IF ~matrix_issquare(x) THEN NULL
  ELSE IF getnumrows(x) = 1 THEN <<<<1>>>>
  ELSE Matrix(getnumrows(x), getnumrows(x), LAMBDA i, j :
         (IF (i + j) % 2 = 0 THEN 1 ELSE -1) * matrix_determinant(matrix_cofactor(x, i, j)))

matrix_adjoint(x) ==
  IF ~matrix_issquare(x) THEN NULL
  ELSE IF getnumrows(x) = 1 THEN <<<<1>>>>
  ELSE Matrix(getnumrows(x), getnumrows(x), LAMBDA j, i :
         (IF (i + j) % 2 = 0 THEN 1 ELSE -1) * matrix_determinant(matrix_cofactor(x, i, j)))

\* The adjoint divided by the determinant.
matrix_inverse(x) ==
  IF ~matrix_issquare(x) \/ matrix_determinant(x) = 0 THEN NULL
  ELSE [of |-> matrix_adjoint(x), by |-> matrix_determinant(x)]

-----------------------------------------------------------------------------
(***************************************************************************)
(* Statistics of n samples of p variables, the columns of a p x n matrix.  *)
(***************************************************************************)

\* n times the averages.
matrix_average(x) == [i \in DOMAIN x |-> array_sum(x[i])]

\* Faulty form: the element above the diagonal is not set.
matrix_covariance_LowerOnly(x) ==
  LET mu == matrix_average(x)
  IN  Matrix(getnumrows(x), getnumrows(x), LAMBDA i, j :
        IF j <= i THEN getnumcols(x) * array_sum(array_multiply(x[i], x[j])) - mu[i] * mu[j] ELSE 0)

\* n^2 times the covariances.
matrix_covariance(x) ==
  LET mu == matrix_average(x)
  IN  Matrix(getnumrows(x), getnumrows(x), LAMBDA i, j :
        getnumcols(x) * array_sum(array_multiply(x[i], x[j])) - mu[i] * mu[j])

\* The square of the coefficient, a quotient: n cancels out.
matrix_coefficient_variation_from_stats(sigma, mu, method) ==
  LET zero == [of |-> 0, by |-> 1]
      square == array_sum(array_multiply(mu, mu))
      form(s) == array_sum(array_multiply(matrix_multiply_left(s, mu), mu))
      inverse == matrix_inverse(sigma)
  IN  IF ~matrix_issquare(sigma) \/ getnumrows(sigma) # Len(mu) \/ mu = <<>> THEN zero
      ELSE IF Len(mu) = 1 THEN
        IF mu[1] # 0 /\ sigma[1][1] >= 0 THEN [of |-> sigma[1][1], by |-> square] ELSE zero
      ELSE IF method = "VOINOV_NIKULIN" THEN
        IF inverse # NULL /\ form(inverse.of) * inverse.by > 0
        THEN [of |-> inverse.by, by |-> form(inverse.of)] ELSE zero
      ELSE IF square > 0 /\ form(sigma) > 0
        THEN [of |-> form(sigma), by |-> square * square] ELSE zero

matrix_coefficient_variation(x, method) ==
  IF getnumcols(x) = 0 THEN [of |-> 0, by |-> 1]
  ELSE matrix_coefficient_variation_from_stats(matrix_covariance(x), matrix_average(x), method)
=============================================================================
