------------------------------ MODULE MapProofs -----------------------------
(***************************************************************************)
(* The hash map is a map: for every hash function, table size and sequence *)
(* of operations.  The argument has three parts.  There is a prime above   *)
(* every number, so findPrimeGreaterThan() ends; in a table of prime size  *)
(* the probe sequence of a key is a permutation of the entries, so the     *)
(* insertions of rehash() find a place; and every active entry stays       *)
(* reachable (OnPath): the searches for its key meet neither the key nor   *)
(* an entry without data before it.  Removal keeps this because the key    *)
(* and the data stay in the entry, insertion because it only fills the     *)
(* path, as long as it does not store a key that lies behind a removed     *)
(* entry, which the callers' discipline excludes.                          *)
(***************************************************************************)
EXTENDS HashMap, DataProofs

-----------------------------------------------------------------------------
(***************************************************************************)
(* Divisors and primes.                                                    *)
(***************************************************************************)

Divides(d, n) == \E c \in Nat : n = d * c

\* The remainder and the quotient.
LEMMA Division ==
  ASSUME NEW n \in Nat, NEW d \in Nat \ {0}
  PROVE  n = d * (n \div d) + (n % d) /\ n \div d \in Nat /\ n % d \in Nat /\ n % d < d
  OBVIOUS

\* d * x is between 0 and d only if x is 0.
LEMMA SmallMultiple ==
  ASSUME NEW d \in Nat \ {0}, NEW x \in Int, d * x < d, -d < d * x
  PROVE  x = 0
<1>1. x >= 1 => d * x >= d
  OBVIOUS
<1>2. x <= -1 => d * x <= -d
  OBVIOUS
<1> QED
  BY <1>1, <1>2

\* The remainder is 0 exactly for the multiples.
LEMMA RemainderOfMultiple ==
  ASSUME NEW n \in Nat, NEW d \in Nat \ {0}
  PROVE  n % d = 0 <=> Divides(d, n)
<1>1. n = d * (n \div d) + (n % d) /\ n \div d \in Nat /\ n % d \in Nat /\ n % d < d
  BY Division
<1>2. ASSUME n % d = 0 PROVE Divides(d, n)
  BY <1>1, <1>2 DEF Divides
<1>3. ASSUME NEW c \in Nat, n = d * c PROVE n % d = 0
  <2> DEFINE q == n \div d
             r == n % d
  <2>1. q \in Nat /\ r \in Nat /\ r < d /\ d * c = d * q + r
    BY <1>1, <1>3
  <2> HIDE DEF q, r
  <2>2. d * (c - q) = r
    BY <2>1
  <2>3. c - q \in Int /\ d * (c - q) < d /\ -d < d * (c - q)
    BY <2>1, <2>2
  <2>4. c - q = 0
    BY <2>3, SmallMultiple
  <2>5. d * 0 = 0
    OBVIOUS
  <2> QED
    BY <2>2, <2>4, <2>5 DEF r
<1> QED
  BY <1>2, <1>3, Zenon DEF Divides

\* A number is prime when no number between divides it.
LEMMA PrimeDivisors ==
  ASSUME NEW p \in Nat
  PROVE  Prime(p) <=> \A i \in 2..(p - 1) : ~Divides(i, p)
<1>1. \A i \in 2..(p - 1) : p % i = 0 <=> Divides(i, p)
  BY RemainderOfMultiple
<1> QED
  BY <1>1 DEF Prime

\* A prime divides no product of two numbers below it.
LEMMA EuclidsLemma ==
  ASSUME NEW p \in Nat, Prime(p), NEW s \in 1..(p - 1), NEW d \in 1..(p - 1)
  PROVE  ~Divides(p, d * s)
<1> SUFFICES ASSUME Divides(p, d * s) PROVE FALSE
  OBVIOUS
<1> DEFINE T == {x \in 1..(p - 1) : Divides(p, x * s)}
<1>1. T \in SUBSET Nat /\ d \in T
  OBVIOUS
<1>2. PICK e \in T : \A x \in T : e <= x
  BY <1>1, LeastNat, Zenon
<1>3. PICK c \in Nat : e * s = p * c
  BY <1>2 DEF Divides
<1>4. e \in 1..(p - 1)
  BY <1>2
<1>5. CASE e = 1
  <2>1. p * c = s
    BY <1>3, <1>5
  <2>2. p \in Nat \ {0} /\ p * c < p /\ -p < p * c
    BY <2>1
  <2>3. c = 0
    BY <2>2, SmallMultiple
  <2> QED
    BY <2>1, <2>3
<1>6. CASE e # 1
  <2> DEFINE q == p \div e
             r == p % e
  <2>1. p = e * q + r /\ q \in Nat /\ r \in Nat /\ r < e
    BY <1>4, Division
  <2>2. r # 0
    <3>1. e \in 2..(p - 1)
      BY <1>4, <1>6
    <3> QED
      BY <3>1, Zenon DEF Prime
  <2> HIDE DEF q, r, T
  <2>3. r * s = p * s - q * (e * s)
    BY <1>4, <2>1
  <2>4. r * s = p * (s - q * c)
    BY <1>3, <2>1, <2>3
  <2>5. r * s >= 1
    BY <2>1, <2>2
  <2>6. s - q * c \in Nat
    <3> DEFINE y == s - q * c
    <3>1. y \in Int
      BY <2>1
    <3> HIDE DEF y
    <3>2. p * y >= 1
      BY <2>4, <2>5 DEF y
    <3>3. y < 0 => p * y <= 0
      BY <3>1
    <3>4. y >= 0
      BY <3>1, <3>2, <3>3
    <3> QED
      BY <3>1, <3>4 DEF y
  <2>7. Divides(p, r * s)
    BY <2>4, <2>6 DEF Divides
  <2>8. r \in 1..(p - 1)
    BY <1>4, <2>1, <2>2
  <2>9. r \in T
    BY <2>7, <2>8 DEF T
  <2> QED
    BY <1>2, <1>4, <2>1, <2>9
<1> QED
  BY <1>5, <1>6

\* Some number is a multiple of each of the first n.
LEMMA CommonMultiple ==
  ASSUME NEW n \in Nat
  PROVE  \E N \in Nat \ {0} : \A i \in 1..n : Divides(i, N)
<1> DEFINE Common(k, N) == \A i \in 1..k : Divides(i, N)
           T == {k \in Nat : \E N \in Nat \ {0} : Common(k, N)}
<1>1. 0 \in T
  BY 1 \in Nat \ {0}
<1>2. ASSUME NEW k \in Nat, k \in T PROVE k + 1 \in T
  <2>1. PICK N \in Nat \ {0} : Common(k, N)
    BY <1>2
  <2> DEFINE M == N * (k + 1)
  <2>2. M \in Nat \ {0}
    OBVIOUS
  <2>3. ASSUME NEW i \in 1..(k + 1) PROVE Divides(i, M)
    <3>1. CASE i = k + 1
      BY <3>1 DEF Divides
    <3>2. CASE i # k + 1
      <4>1. i \in 1..k
        BY <3>2
      <4>2. PICK c \in Nat : N = i * c
        BY <2>1, <4>1 DEF Divides
      <4>3. M = i * (c * (k + 1)) /\ c * (k + 1) \in Nat
        BY <4>2
      <4> QED
        BY <4>3, Zenon DEF Divides
    <3> QED
      BY <3>1, <3>2
  <2> QED
    BY <2>2, <2>3
<1> HIDE DEF T
<1>3. n \in T
  BY <1>1, <1>2, SetInduction
<1> QED
  BY <1>3 DEF T

\* The least divisor of a number is prime.
LEMMA PrimeDivisor ==
  ASSUME NEW N \in Nat, N >= 2
  PROVE  \E q \in Nat : q >= 2 /\ Prime(q) /\ Divides(q, N)
<1> DEFINE T == {q \in Nat : q >= 2 /\ Divides(q, N)}
<1>1. N = N * 1
  OBVIOUS
<1>2. T \in SUBSET Nat /\ N \in T
  BY <1>1 DEF Divides
<1>3. PICK q \in T : \A x \in T : q <= x
  BY <1>2, LeastNat, Zenon
<1>4. PICK c \in Nat : N = q * c
  BY <1>3 DEF Divides
<1>5. q \in Nat /\ q >= 2 /\ Divides(q, N)
  BY <1>3
<1>6. ASSUME NEW i \in 2..(q - 1), Divides(i, q) PROVE FALSE
  <2>1. PICK b \in Nat : q = i * b
    BY <1>6 DEF Divides
  <2>2. N = i * (b * c) /\ b * c \in Nat
    BY <1>4, <2>1
  <2>3. Divides(i, N)
    BY <2>2 DEF Divides
  <2>4. i \in T
    BY <2>3
  <2> QED
    BY <1>3, <1>5, <2>4
<1>7. Prime(q)
  BY <1>5, <1>6, PrimeDivisors
<1> QED
  BY <1>5, <1>7

\* There is a prime above every number.
LEMMA PrimeAbove ==
  ASSUME NEW n \in Nat
  PROVE  \E q \in Nat : q > n /\ q >= 2 /\ Prime(q)
<1>1. PICK N \in Nat \ {0} : \A i \in 1..n : Divides(i, N)
  BY CommonMultiple, Zenon
<1>2. PICK q \in Nat : q >= 2 /\ Prime(q) /\ Divides(q, N + 1)
  BY PrimeDivisor
<1>3. PICK c \in Nat : N + 1 = q * c
  BY <1>2 DEF Divides
<1>4. ASSUME q <= n PROVE FALSE
  <2>1. q \in 1..n
    BY <1>2, <1>4
  <2>2. PICK b \in Nat : N = q * b
    BY <1>1, <2>1 DEF Divides
  <2>3. q * (c - b) = 1 /\ c - b \in Int
    BY <1>3, <2>2
  <2>4. q \in Nat \ {0} /\ q * (c - b) < q /\ -q < q * (c - b)
    BY <1>2, <2>3
  <2>5. c - b = 0
    BY <2>3, <2>4, SmallMultiple
  <2>6. q * 0 = 0
    OBVIOUS
  <2> QED
    BY <2>3, <2>5, <2>6
<1> QED
  BY <1>2, <1>4

\* What the loop of findPrimeGreaterThan() computes from each number on.
IsNext(g) == g = [p \in Nat |-> IF Prime(p) THEN p ELSE g[p + 2]]

\* How many numbers the loop skips from p on, if it ends.
Skips(p) == {j \in Nat : Prime(p + 2 * j)}
Skipped(p) == CHOOSE j \in Skips(p) : \A i \in Skips(p) : j <= i

\* There is such a number if the loop ends.
LEMMA SkippedLeast ==
  ASSUME NEW p \in Nat, Skips(p) # {}
  PROVE  Skipped(p) \in Skips(p) /\ \A i \in Skips(p) : Skipped(p) <= i
<1>1. Skips(p) \in SUBSET Nat
  BY DEF Skips
<1>2. \E j \in Skips(p) : \A i \in Skips(p) : j <= i
  BY <1>1, LeastNat
<1> QED
  BY <1>2, Zenon DEF Skipped

\* The loop of findPrimeGreaterThan() is well defined: from an even number above
\* 2 on it would not end, which no caller asks for.
LEMMA NextExists == \E g : IsNext(g)
<1> DEFINE f == [p \in Nat |-> IF Skips(p) = {} THEN 0 ELSE p + 2 * Skipped(p)]
<1>1. ASSUME NEW p \in Nat PROVE f[p] = IF Prime(p) THEN p ELSE f[p + 2]
  <2>1. p + 2 \in Nat /\ f[p] = (IF Skips(p) = {} THEN 0 ELSE p + 2 * Skipped(p))
        /\ f[p + 2] = (IF Skips(p + 2) = {} THEN 0 ELSE (p + 2) + 2 * Skipped(p + 2))
    OBVIOUS
  <2> HIDE DEF f
  <2>2. CASE Prime(p)
    <3>1. 0 \in Skips(p)
      <4>1. p + 2 * 0 = p /\ 0 \in Nat
        OBVIOUS
      <4> QED
        BY <2>2, <4>1, Zenon DEF Skips
    <3>2. Skipped(p) \in Nat /\ Skipped(p) <= 0
      BY <3>1, SkippedLeast, Zenon DEF Skips
    <3> QED
      BY <2>1, <2>2, <3>1, <3>2
  <2>3. CASE ~Prime(p)
    <3>1. ASSUME NEW j \in Nat PROVE j \in Skips(p + 2) <=> j + 1 \in Skips(p)
      <4>1. (p + 2) + 2 * j = p + 2 * (j + 1) /\ j + 1 \in Nat
        OBVIOUS
      <4> QED
        BY <4>1, Zenon DEF Skips
    <3>2. 0 \notin Skips(p)
      <4>1. p + 2 * 0 = p
        OBVIOUS
      <4> QED
        BY <2>3, <4>1, Zenon DEF Skips
    <3>3. Skips(p) \in SUBSET Nat /\ Skips(p + 2) \in SUBSET Nat
      BY DEF Skips
    <3>4. ASSUME NEW j \in Skips(p) PROVE j - 1 \in Skips(p + 2)
      <4>1. j - 1 \in Nat /\ (j - 1) + 1 = j
        BY <3>2, <3>3
      <4> QED
        BY <3>1, <4>1
    <3>5. ASSUME NEW j \in Skips(p + 2) PROVE j + 1 \in Skips(p)
      BY <3>1, <3>3
    <3>6. CASE Skips(p) = {}
      BY <2>1, <2>3, <3>5, <3>6
    <3>7. CASE Skips(p) # {}
      <4>1. Skips(p + 2) # {}
        BY <3>4, <3>7
      <4>2. Skipped(p) \in Skips(p) /\ \A i \in Skips(p) : Skipped(p) <= i
        BY <3>7, SkippedLeast
      <4>3. Skipped(p + 2) \in Skips(p + 2) /\ \A i \in Skips(p + 2) : Skipped(p + 2) <= i
        BY <2>1, <4>1, SkippedLeast
      <4>4. Skipped(p) \in Nat /\ Skipped(p + 2) \in Nat
        BY <3>3, <4>2, <4>3
      <4>5. Skipped(p + 2) <= Skipped(p) - 1
        BY <3>4, <4>2, <4>3
      <4>6. Skipped(p) <= Skipped(p + 2) + 1
        BY <3>5, <4>2, <4>3
      <4>7. Skipped(p) = Skipped(p + 2) + 1
        BY <4>4, <4>5, <4>6
      <4> QED
        BY <2>1, <2>3, <3>7, <4>1, <4>4, <4>7
    <3> QED
      BY <3>6, <3>7
  <2> QED
    BY <2>2, <2>3
<1>2. f = [p \in Nat |-> IF Prime(p) THEN p ELSE f[p + 2]]
  BY <1>1, Zenon
<1> QED
  BY <1>2, Zenon DEF IsNext

\* findPrimeGreaterThan() returns a prime above its argument.
LEMMA PrimeFound ==
  ASSUME NEW n \in Nat, n >= 2
  PROVE  findPrimeGreaterThan(n) \in Nat /\ findPrimeGreaterThan(n) > n /\ Prime(findPrimeGreaterThan(n))
<1> DEFINE g == CHOOSE f : IsNext(f)
           a == IF n % 2 = 1 THEN n + 2 ELSE n + 1
           Good(p) == g[p] \in Nat /\ g[p] >= p /\ Prime(g[p])
           T == {j \in Nat : \A p \in Nat : Prime(p + 2 * j) => Good(p)}
<1>1. findPrimeGreaterThan(n) = g[a]
  BY Zenon DEF findPrimeGreaterThan, IsNext
<1>2. IsNext(g)
  BY NextExists, Zenon
<1> HIDE DEF g
<1>3. ASSUME NEW p \in Nat PROVE g[p] = IF Prime(p) THEN p ELSE g[p + 2]
  BY <1>2, Zenon DEF IsNext
<1>4. 0 \in T
  <2>1. ASSUME NEW p \in Nat, Prime(p + 2 * 0) PROVE Good(p)
    <3>1. p + 2 * 0 = p /\ p >= p
      OBVIOUS
    <3>2. Prime(p)
      BY <2>1, <3>1
    <3>3. g[p] = p
      BY <1>3, <3>2
    <3> QED
      BY <3>1, <3>2, <3>3
  <2> QED
    BY <2>1
<1>5. ASSUME NEW j \in Nat, j \in T PROVE j + 1 \in T
  <2>1. ASSUME NEW p \in Nat, Prime(p + 2 * (j + 1)) PROVE Good(p)
    <3>1. CASE Prime(p)
      <4>1. g[p] = p /\ p >= p
        BY <1>3, <3>1
      <4> QED
        BY <3>1, <4>1
    <3>2. CASE ~Prime(p)
      <4>1. p + 2 * (j + 1) = (p + 2) + 2 * j /\ p + 2 \in Nat
        OBVIOUS
      <4>2. Prime((p + 2) + 2 * j)
        BY <2>1, <4>1
      <4>3. Good(p + 2)
        BY <1>5, <4>1, <4>2
      <4>4. g[p] = g[p + 2]
        BY <1>3, <3>2
      <4> QED
        BY <4>3, <4>4
    <3> QED
      BY <3>1, <3>2
  <2> QED
    BY <2>1
<1> HIDE DEF T
<1>6. \A j \in Nat : j \in T
  BY <1>4, <1>5, SetInduction
<1>7. a \in Nat /\ a > n /\ a % 2 = 1
  OBVIOUS
<1>8. PICK q \in Nat : q > a /\ q >= 2 /\ Prime(q)
  BY <1>7, PrimeAbove
<1>9. q % 2 = 1
  <2>1. 2 \in 2..(q - 1)
    BY <1>7, <1>8
  <2>2. q % 2 # 0
    BY <1>8, <2>1, Zenon DEF Prime
  <2> QED
    BY <2>2
<1> HIDE DEF a
<1>10. PICK j \in Nat : q = a + 2 * j
  <2> DEFINE b == (q - a) \div 2
  <2>1. b \in Nat /\ q = a + 2 * b
    BY <1>7, <1>8, <1>9
  <2> QED
    BY <2>1
<1>11. Good(a)
  BY <1>6, <1>7, <1>8, <1>10 DEF T
<1> QED
  BY <1>1, <1>7, <1>11

-----------------------------------------------------------------------------
(***************************************************************************)
(* Probe sequences.                                                        *)
(***************************************************************************)

\* The entry that the search for key k looks at in round i, for the hash
\* function f and a table of n entries.
Path(f, k, n, i) == (f[k] + i * ((f[k] % (n - 2)) + 1)) % n

HashType == hash \in [Key -> Nat]

\* A search stays in the table.
LEMMA PathType ==
  ASSUME HashType, NEW k \in Key, NEW n \in Nat, n > 2, NEW i \in Nat
  PROVE  Path(hash, k, n, i) \in 0..(n - 1) /\ probe(k, n, i) = Path(hash, k, n, i)
<1> DEFINE h == hash[k]
           s == (h % (n - 2)) + 1
<1>1. h \in Nat
  BY DEF HashType
<1> HIDE DEF h
<1>2. s \in Nat
  BY <1>1
<1> HIDE DEF s
<1>3. (h + i * s) \in Nat
  BY <1>1, <1>2
<1>4. (h + i * s) % n \in 0..(n - 1)
  BY <1>3
<1> QED
  BY <1>4 DEF Path, probe, h, s

\* In a table of prime size no entry is looked at twice.
LEMMA PathInjective ==
  ASSUME HashType, NEW k \in Key, NEW n \in Nat, n > 2, Prime(n),
         NEW i \in 0..(n - 1), NEW j \in 0..(n - 1), i < j
  PROVE  Path(hash, k, n, i) # Path(hash, k, n, j)
<1> DEFINE h == hash[k]
           s == (h % (n - 2)) + 1
           a == h + i * s
           b == h + j * s
<1> SUFFICES ASSUME a % n = b % n PROVE FALSE
  BY DEF Path
<1>1. h \in Nat
  BY DEF HashType
<1> HIDE DEF h
<1>2. s \in 1..(n - 1)
  BY <1>1
<1> HIDE DEF s
<1>3. a \in Nat /\ b \in Nat /\ b - a = (j - i) * s
  BY <1>1, <1>2
<1> HIDE DEF a, b
<1>4. n \in Nat \ {0}
  OBVIOUS
<1>5. /\ a = n * (a \div n) + (a % n) /\ a \div n \in Nat
      /\ b = n * (b \div n) + (b % n) /\ b \div n \in Nat /\ b % n \in Nat
  BY <1>3, <1>4, Division
<1> DEFINE x == a \div n
           y == b \div n
           t == a % n
           c == y - x
<1>6. b - a = n * c /\ c \in Int
  <2>1. a = n * x + t /\ b = n * y + t /\ x \in Nat /\ y \in Nat /\ t \in Nat
    BY <1>5
  <2> HIDE DEF x, y, t
  <2>2. b - a = n * y - n * x
    BY <1>3, <2>1
  <2> QED
    BY <2>1, <2>2
<1> HIDE DEF c
<1>7. (j - i) * s >= 0 /\ (j - i) \in 1..(n - 1)
  BY <1>2
<1>8. n * c >= 0
  BY <1>3, <1>6, <1>7
<1>9. c \in Nat
  <2>1. c < 0 => n * c < 0
    BY <1>4, <1>6
  <2> QED
    BY <1>6, <1>8, <2>1
<1>10. Divides(n, (j - i) * s)
  BY <1>3, <1>6, <1>9 DEF Divides
<1> QED
  BY <1>2, <1>7, <1>10, EuclidsLemma, Zenon

\* So every entry is looked at.
LEMMA PathSurjective ==
  ASSUME HashType, NEW k \in Key, NEW n \in Nat, n > 2, Prime(n), NEW s \in 0..(n - 1)
  PROVE  \E r \in 0..(n - 1) : Path(hash, k, n, r) = s
<1> DEFINE S == 0..(n - 1)
           f == [r \in S |-> Path(hash, k, n, r)]
<1>1. f \in [S -> S]
  BY PathType
<1>2. ASSUME NEW i \in S, NEW j \in S, f[i] = f[j] PROVE i = j
  <2>1. Path(hash, k, n, i) = Path(hash, k, n, j)
    BY <1>2
  <2>2. ~(i < j) /\ ~(j < i)
    BY <2>1, PathInjective
  <2> QED
    BY <2>2
<1>3. f \in Injection(S, S)
  BY <1>1, <1>2, Zenon DEF Injection, IsInjective
<1>4. IsFiniteSet(S)
  BY FS_Interval
<1> HIDE DEF f, S
<1>5. f \in Surjection(S, S)
  BY <1>3, <1>4, FS_Injection, Zenon
<1>6. s \in S
  BY DEF S
<1>7. \E r \in S : f[r] = s
  BY <1>5, <1>6, Zenon DEF Surjection
<1> QED
  BY <1>7 DEF f, S

-----------------------------------------------------------------------------
(***************************************************************************)
(* The table.                                                              *)
(***************************************************************************)

Entry == [active : BOOLEAN, data : Data \cup Values \cup {NULL}, keystring : Key \cup {NULL}]
TablesOf(n) == [size : {n}, count : Nat, table : [0..(n - 1) -> Entry]]
IsTable(h) == h.size \in Nat /\ h.size > 2 /\ h \in TablesOf(h.size)

Slots(h) == 0..(h.size - 1)
Active(h) == {i \in Slots(h) : h.table[i].active}
KeyAt(h, i) == h.table[i].keystring
DataAt(h, i) == h.table[i].data

\* The search for k meets neither k nor a free entry before entry i.
OnPath(f, h, k, i) ==
  \E r \in Slots(h) :
    /\ Path(f, k, h.size, r) = i
    /\ \A q \in 0..(r - 1) : /\ KeyAt(h, Path(f, k, h.size, q)) # k
                             /\ DataAt(h, Path(f, k, h.size, q)) # NULL

\* What every operation on the map keeps.
TableOK(f, h) ==
  /\ IsTable(h) /\ h.count = Cardinality(Active(h))
  /\ \A i \in Active(h) : /\ KeyAt(h, i) \in Key /\ DataAt(h, i) \in Data \cup Values
                          /\ OnPath(f, h, KeyAt(h, i), i)

\* No element was removed since the table was made.
NoneRemoved(h) == \A i \in Slots(h) : i \in Active(h) \/ DataAt(h, i) = NULL

\* The element of key k in the table.
Holds(h, k, d) == \E i \in Active(h) : KeyAt(h, i) = k /\ DataAt(h, i) = d
Present(h, k) == \E i \in Active(h) : KeyAt(h, i) = k

\* The entries are as many as the size says, so that those in use are finitely many.
LEMMA ActiveFinite ==
  ASSUME NEW h, IsTable(h)
  PROVE  IsFiniteSet(Slots(h)) /\ Cardinality(Slots(h)) = h.size /\ IsFiniteSet(Active(h))
<1>1. IsFiniteSet(Slots(h)) /\ Cardinality(Slots(h)) = h.size
  BY FS_Interval, SMTT(20) DEF Slots, IsTable
<1>2. Active(h) \in SUBSET Slots(h)
  BY DEF Active
<1> QED
  BY <1>1, <1>2, FS_Subset

\* A new table is empty.
LEMMA NewTableOK ==
  ASSUME NEW n \in Nat, n > 2
  PROVE  /\ TableOK(hash, NewTable(n)) /\ NoneRemoved(NewTable(n)) /\ NewTable(n) \in TablesOf(n)
         /\ Active(NewTable(n)) = {} /\ NewTable(n).size = n /\ NewTable(n).count = 0
<1> DEFINE h == NewTable(n)
<1>1. h \in TablesOf(n) /\ h.size = n /\ h.count = 0 /\ \A i \in 0..(n - 1) : h.table[i] = Empty
  BY DEF NewTable, TablesOf, Entry, Empty
<1> HIDE DEF h
<1>2. IsTable(h)
  BY <1>1 DEF IsTable
<1>3. Active(h) = {}
  <2>1. \A i \in Slots(h) : ~h.table[i].active
    BY <1>1 DEF Slots, Empty
  <2> QED
    BY <2>1, Zenon DEF Active
<1>4. NoneRemoved(h)
  BY <1>1 DEF NoneRemoved, Slots, DataAt, Empty
<1>5. h.count = Cardinality(Active(h))
  BY <1>1, <1>3, FS_EmptySet
<1>6. TableOK(hash, h)
  BY <1>2, <1>3, <1>5 DEF TableOK
<1> QED
  BY <1>1, <1>3, <1>4, <1>6 DEF h

\* No key is in two active entries.
LEMMA KeyOnce ==
  ASSUME NEW h, TableOK(hash, h), NEW i \in Active(h), NEW j \in Active(h), KeyAt(h, i) = KeyAt(h, j)
  PROVE  i = j
<1> DEFINE k == KeyAt(h, i)
<1>1. OnPath(hash, h, k, i) /\ OnPath(hash, h, k, j)
  BY DEF TableOK
<1> HIDE DEF k
<1>2. PICK r \in Slots(h) : /\ Path(hash, k, h.size, r) = i
                           /\ \A q \in 0..(r - 1) : KeyAt(h, Path(hash, k, h.size, q)) # k
  BY <1>1, Zenon DEF OnPath
<1>3. PICK s \in Slots(h) : /\ Path(hash, k, h.size, s) = j
                           /\ \A q \in 0..(s - 1) : KeyAt(h, Path(hash, k, h.size, q)) # k
  BY <1>1, Zenon DEF OnPath
<1>4. r \in Nat /\ s \in Nat
  BY DEF Slots, TableOK, IsTable
<1>5. r \notin 0..(s - 1)
  BY <1>2, <1>3, Zenon DEF k
<1>6. s \notin 0..(r - 1)
  BY <1>2, <1>3, Zenon DEF k
<1>7. r = s
  BY <1>4, <1>5, <1>6
<1> QED
  BY <1>2, <1>3, <1>7

\* Where the search of insert() for key k ends: at the first entry s that is not
\* active or has the key, or nowhere.
Place(f, h, k, s) ==
  \E r \in Slots(h) :
    /\ Path(f, k, h.size, r) = s /\ s \in Slots(h)
    /\ s \in Active(h) => KeyAt(h, s) = k
    /\ \A q \in 0..(r - 1) : /\ Path(f, k, h.size, q) \in Active(h)
                             /\ KeyAt(h, Path(f, k, h.size, q)) # k

NoPlace(f, h, k) == \A r \in Slots(h) : Path(f, k, h.size, r) \in Active(h)

\* The search of insert() ends in one of the two ways.
LEMMA InsertSlotIs ==
  ASSUME HashType, NEW h, IsTable(h), NEW k \in Key
  PROVE  IF InsertSlot(h, k) = -1 THEN NoPlace(hash, h, k) ELSE Place(hash, h, k, InsertSlot(h, k))
<1> DEFINE P(r) == Path(hash, k, h.size, r)
           R == {r \in Slots(h) : ~h.table[probe(k, h.size, r)].active \/ h.table[probe(k, h.size, r)].keystring = k}
<1>1. InsertSlot(h, k) = IF R = {} THEN -1 ELSE probe(k, h.size, Min(R))
  BY Zenon DEF InsertSlot, Search, Slots
<1>2. ASSUME NEW r \in Nat PROVE probe(k, h.size, r) = P(r) /\ P(r) \in Slots(h)
  BY PathType DEF IsTable, Slots
<1>3. Slots(h) \in SUBSET Nat
  BY DEF IsTable, Slots
<1> HIDE DEF P
<1>4. ASSUME NEW r \in Slots(h) PROVE r \in R <=> (P(r) \notin Active(h) \/ KeyAt(h, P(r)) = k)
  <2>1. probe(k, h.size, r) = P(r) /\ P(r) \in Slots(h)
    BY <1>2, <1>3
  <2> QED
    BY <2>1, Zenon DEF Active, KeyAt
<1>5. R \in SUBSET Slots(h)
  OBVIOUS
<1> HIDE DEF R
<1>6. CASE R = {}
  <2>1. \A r \in Slots(h) : P(r) \in Active(h)
    BY <1>4, <1>6, Zenon
  <2> QED
    BY <1>1, <1>6, <2>1, Zenon DEF NoPlace, P
<1>7. CASE R # {}
  <2>1. R \in SUBSET Int /\ IsFiniteSet(R)
    BY <1>3, <1>5, ActiveFinite, FS_Subset
  <2> DEFINE t == Min(R)
  <2>2. t \in R /\ \A y \in R : t <= y
    BY <1>7, <2>1, LeastOf, Zenon
  <2> HIDE DEF t
  <2>3. t \in Slots(h) /\ t \in Nat
    BY <1>3, <1>5, <2>2
  <2>4. InsertSlot(h, k) = P(t) /\ P(t) \in Slots(h)
    BY <1>1, <1>2, <1>7, <2>3, Zenon DEF t
  <2>5. P(t) \in Active(h) => KeyAt(h, P(t)) = k
    BY <1>4, <2>2, <2>3, Zenon
  <2>6. ASSUME NEW q \in 0..(t - 1) PROVE P(q) \in Active(h) /\ KeyAt(h, P(q)) # k
    <3>1. q \in Slots(h) /\ ~(t <= q)
      BY <2>3 DEF Slots, IsTable
    <3>2. q \notin R
      BY <2>2, <3>1
    <3> QED
      BY <1>4, <3>1, <3>2, Zenon
  <2>7. Place(hash, h, k, InsertSlot(h, k))
    BY <2>3, <2>4, <2>5, <2>6, Zenon DEF Place, P
  <2>8. InsertSlot(h, k) # -1
    BY <2>4 DEF Slots, IsTable
  <2> QED
    BY <2>7, <2>8
<1> QED
  BY <1>6, <1>7

\* In a table of prime size that is not full every search finds a place.
LEMMA PlaceFound ==
  ASSUME HashType, NEW h, TableOK(hash, h), h.count < h.size, Prime(h.size), NEW k \in Key
  PROVE  InsertSlot(h, k) # -1
<1> SUFFICES ASSUME NoPlace(hash, h, k) PROVE FALSE
  BY InsertSlotIs DEF TableOK
<1>1. Active(h) \in SUBSET Slots(h)
  BY DEF Active
<1>2. Active(h) # Slots(h)
  BY ActiveFinite DEF TableOK, IsTable
<1>3. PICK s \in Slots(h) : s \notin Active(h)
  BY <1>1, <1>2, Zenon
<1>4. PICK r \in Slots(h) : Path(hash, k, h.size, r) = s
  BY <1>3, PathSurjective DEF Slots, TableOK, IsTable
<1> QED
  BY <1>3, <1>4 DEF NoPlace

\* A write of entry i and of the count.
IsWrite(g, h, i, e, c) == g = [h EXCEPT !.table[i] = e, !.count = c]

IsWritten(g, n, h, i, e, c) ==
  /\ g \in TablesOf(n) /\ g.count = c
  /\ \A j \in 0..(n - 1) : g.table[j] = IF j = i THEN e ELSE h.table[j]

\* It changes nothing else, and an index outside of the table nothing at all.
LEMMA Written ==
  ASSUME NEW n \in Nat, NEW h \in TablesOf(n), NEW i, NEW e \in Entry, NEW c \in Nat,
         NEW g, IsWrite(g, h, i, e, c)
  PROVE  IsWritten(g, n, h, i, e, c)
<1> DEFINE t == [h.table EXCEPT ![i] = e]
<1>1. h.table \in [0..(n - 1) -> Entry]
  BY DEF TablesOf
<1>2. t \in [0..(n - 1) -> Entry] /\ \A j \in 0..(n - 1) : t[j] = IF j = i THEN e ELSE h.table[j]
  BY <1>1, Zenon
<1>3. g = [h EXCEPT !.table = t, !.count = c]
  BY Zenon DEF TablesOf, IsWrite
<1> HIDE DEF t
<1>4. g \in TablesOf(n) /\ g.count = c /\ g.table = t
  BY <1>2, <1>3, Zenon DEF TablesOf
<1> QED
  BY <1>2, <1>4 DEF IsWritten

\* insert() changes the entry at which its search ended, and counts it if it was
\* not active.
LEMMA StoreType ==
  ASSUME NEW n \in Nat, NEW h \in TablesOf(n), NEW k \in Key, NEW d \in Data \cup Values
  PROVE  Store(h, k, d) \in TablesOf(n)
<1> DEFINE i == InsertSlot(h, k)
           e == [active |-> TRUE, data |-> d, keystring |-> k]
           c == IF h.table[i].active THEN h.count ELSE h.count + 1
<1>1. e \in Entry
  BY DEF Entry
<1>2. c \in Nat
  BY DEF TablesOf
<1>3. IsWrite(Store(h, k, d), h, i, e, c)
  BY Zenon DEF Store, IsWrite
<1> HIDE DEF i, e, c
<1> QED
  BY <1>1, <1>2, <1>3, Written, Zenon DEF IsWritten

\* How Store() changes the table.
IsStored(g, h, k, d, s) ==
  /\ IsTable(g) /\ g.size = h.size
  /\ Active(g) = Active(h) \cup {s} /\ KeyAt(g, s) = k /\ DataAt(g, s) = d
  /\ \A j \in Slots(h) \ {s} : KeyAt(g, j) = KeyAt(h, j) /\ DataAt(g, j) = DataAt(h, j)
  /\ g.count = IF s \in Active(h) THEN h.count ELSE h.count + 1

\* It changes it that way.
LEMMA StoreView ==
  ASSUME NEW h, IsTable(h), NEW k \in Key, NEW d \in Data \cup Values, InsertSlot(h, k) \in Slots(h)
  PROVE  IsStored(Store(h, k, d), h, k, d, InsertSlot(h, k))
<1> DEFINE n == h.size
           s == InsertSlot(h, k)
           e == [active |-> TRUE, data |-> d, keystring |-> k]
           c == IF h.table[s].active THEN h.count ELSE h.count + 1
           g == Store(h, k, d)
<1>1. e \in Entry /\ e.active /\ e.data = d /\ e.keystring = k
  BY DEF Entry
<1>2. h \in TablesOf(n) /\ n \in Nat /\ n > 2 /\ Slots(h) = 0..(n - 1)
  BY DEF IsTable, Slots
<1>3. c \in Nat
  BY <1>2 DEF TablesOf
<1>4. IsWrite(g, h, s, e, c)
  BY Zenon DEF Store, IsWrite
<1>5. c = IF s \in Active(h) THEN h.count ELSE h.count + 1
  BY DEF Active
<1> HIDE DEF s, e, c, g, n
<1>6. /\ g \in TablesOf(n) /\ g.count = c
      /\ \A j \in 0..(n - 1) : g.table[j] = IF j = s THEN e ELSE h.table[j]
  BY <1>1, <1>2, <1>3, <1>4, Written DEF IsWritten
<1>7. g.size = n
  BY <1>6 DEF TablesOf
<1>8. IsTable(g) /\ Slots(g) = Slots(h)
  BY <1>2, <1>6, <1>7 DEF IsTable, Slots
<1>9. s \in Slots(h) /\ g.table[s] = e /\ \A j \in Slots(h) \ {s} : g.table[j] = h.table[j]
  BY <1>2, <1>6 DEF s, n
<1>10. Active(g) = Active(h) \cup {s}
  BY <1>1, <1>8, <1>9, Zenon DEF Active
<1>11. KeyAt(g, s) = k /\ DataAt(g, s) = d
  BY <1>1, <1>9 DEF KeyAt, DataAt
<1>12. \A j \in Slots(h) \ {s} : KeyAt(g, j) = KeyAt(h, j) /\ DataAt(g, j) = DataAt(h, j)
  BY <1>9 DEF KeyAt, DataAt
<1> QED
  BY <1>5, <1>6, <1>7, <1>8, <1>10, <1>11, <1>12 DEF IsStored, g, s, n

\* g holds what h does, and d under key k.
IsInserted(g, h, k, d) ==
  /\ Holds(g, k, d)
  /\ \A l \in Key \ {k} : \A e \in Data \cup Values : Holds(g, l, e) <=> Holds(h, l, e)

\* When no entry was removed, or the key is not in the table, insert() does not
\* leave an active entry of the key behind the one it ends at.
LEMMA OtherKeys ==
  ASSUME NEW h, TableOK(hash, h), NEW k \in Key, NoneRemoved(h) \/ ~Present(h, k),
         NEW s, Place(hash, h, k, s), NEW i \in Active(h), i # s
  PROVE  KeyAt(h, i) # k
<1> SUFFICES ASSUME KeyAt(h, i) = k PROVE FALSE
  OBVIOUS
<1>1. NoneRemoved(h)
  BY Zenon DEF Present
<1>2. PICK r \in Slots(h) :
        /\ Path(hash, k, h.size, r) = s /\ s \in Slots(h)
        /\ s \in Active(h) => KeyAt(h, s) = k
        /\ \A q \in 0..(r - 1) : KeyAt(h, Path(hash, k, h.size, q)) # k
  BY Zenon DEF Place
<1>3. s \notin Active(h)
  BY <1>2, KeyOnce, Zenon
<1>4. DataAt(h, s) = NULL
  BY <1>1, <1>2, <1>3, Zenon DEF NoneRemoved
<1>5. OnPath(hash, h, k, i)
  BY Zenon DEF TableOK
<1>6. PICK t \in Slots(h) :
        /\ Path(hash, k, h.size, t) = i
        /\ \A q \in 0..(t - 1) : DataAt(h, Path(hash, k, h.size, q)) # NULL
  BY <1>5, Zenon DEF OnPath
<1>7. r \in Nat /\ t \in Nat
  BY DEF Slots, TableOK, IsTable
<1>8. t \notin 0..(r - 1)
  BY <1>2, <1>6, Zenon
<1>9. r \notin 0..(t - 1)
  BY <1>2, <1>4, <1>6, Zenon
<1>10. t # r
  BY <1>2, <1>6
<1> QED
  BY <1>7, <1>8, <1>9, <1>10

\* The search for the key that was stored.
LEMMA StoredOnPath ==
  ASSUME NEW h, TableOK(hash, h), NEW k \in Key, NEW d, NEW s, Place(hash, h, k, s),
         NEW g, IsStored(g, h, k, d, s)
  PROVE  OnPath(hash, g, k, s)
<1> DEFINE P(q) == Path(hash, k, h.size, q)
<1>1. PICK r \in Slots(h) :
        /\ P(r) = s /\ s \in Slots(h) /\ (s \in Active(h) => KeyAt(h, s) = k)
        /\ \A q \in 0..(r - 1) : P(q) \in Active(h) /\ KeyAt(h, P(q)) # k
  BY Zenon DEF Place
<1> HIDE DEF P
<1>2. ASSUME NEW q \in 0..(r - 1) PROVE KeyAt(g, P(q)) # k /\ DataAt(g, P(q)) # NULL
  <2>1. P(q) \in Active(h) /\ KeyAt(h, P(q)) # k
    BY <1>1
  <2>2. P(q) \in Slots(h) \ {s}
    BY <1>1, <2>1 DEF Active
  <2>3. DataAt(h, P(q)) # NULL
    BY <2>1, HashMapAssumption DEF TableOK
  <2> QED
    BY <2>1, <2>2, <2>3, Zenon DEF IsStored
<1>3. g.size = h.size /\ Slots(g) = Slots(h)
  BY DEF IsStored, Slots
<1> QED
  BY <1>1, <1>2, <1>3, Zenon DEF OnPath, P

\* The search for another key does not end earlier.
LEMMA OtherOnPath ==
  ASSUME HashType, NEW h, TableOK(hash, h), NEW k \in Key, NEW d \in Data \cup Values, NEW s,
         NEW g, IsStored(g, h, k, d, s), NEW l \in Key \ {k}, NEW i, OnPath(hash, h, l, i)
  PROVE  OnPath(hash, g, l, i)
<1> DEFINE P(q) == Path(hash, l, h.size, q)
<1>1. PICK r \in Slots(h) :
        /\ P(r) = i
        /\ \A q \in 0..(r - 1) : KeyAt(h, P(q)) # l /\ DataAt(h, P(q)) # NULL
  BY Zenon DEF OnPath
<1>2. ASSUME NEW q \in 0..(r - 1) PROVE P(q) \in Slots(h)
  <2>1. q \in Nat /\ h.size \in Nat /\ h.size > 2
    BY DEF Slots, TableOK, IsTable
  <2> QED
    BY <2>1, PathType DEF Slots
<1> HIDE DEF P
<1>3. d # NULL
  BY HashMapAssumption
<1>4. ASSUME NEW q \in 0..(r - 1) PROVE KeyAt(g, P(q)) # l /\ DataAt(g, P(q)) # NULL
  <2>1. CASE P(q) = s
    BY <1>3, <2>1 DEF IsStored
  <2>2. CASE P(q) # s
    BY <1>1, <1>2, <2>2, Zenon DEF IsStored
  <2> QED
    BY <2>1, <2>2
<1>5. g.size = h.size /\ Slots(g) = Slots(h)
  BY DEF IsStored, Slots
<1> QED
  BY <1>1, <1>4, <1>5, Zenon DEF OnPath, P

\* Store() keeps the table and changes the element of its own key only.
LEMMA StoreOK ==
  ASSUME HashType, NEW h, TableOK(hash, h), NEW k \in Key, NEW d \in Data \cup Values,
         NoneRemoved(h) \/ ~Present(h, k), InsertSlot(h, k) # -1,
         NEW g, g = Store(h, k, d)
  PROVE  /\ TableOK(hash, g) /\ g.size = h.size /\ g.count <= h.count + 1
         /\ IsInserted(g, h, k, d)
         /\ NoneRemoved(h) => NoneRemoved(g)
<1> DEFINE s == InsertSlot(h, k)
<1>1. IsTable(h) /\ h.count \in Nat
  BY DEF TableOK, IsTable, TablesOf
<1>2. Place(hash, h, k, s)
  BY <1>1, InsertSlotIs
<1>3. s \in Slots(h)
  BY <1>2, Zenon DEF Place
<1>4. IsStored(g, h, k, d, s)
  BY <1>1, <1>3, StoreView
<1> HIDE DEF s
<1>5. \A i \in Active(h) \ {s} : KeyAt(h, i) \in Key \ {k}
  BY <1>2, OtherKeys, Zenon DEF TableOK
<1>6. Active(h) \in SUBSET Slots(h)
  BY DEF Active
<1>7. /\ Active(g) = Active(h) \cup {s} /\ KeyAt(g, s) = k /\ DataAt(g, s) = d
      /\ \A j \in Active(h) \ {s} : KeyAt(g, j) = KeyAt(h, j) /\ DataAt(g, j) = DataAt(h, j)
  BY <1>4, <1>6 DEF IsStored
<1>8. ASSUME NEW i \in Active(g)
      PROVE  /\ KeyAt(g, i) \in Key /\ DataAt(g, i) \in Data \cup Values
             /\ OnPath(hash, g, KeyAt(g, i), i)
  <2>1. CASE i = s
    BY <1>2, <1>4, <1>7, <2>1, StoredOnPath
  <2>2. CASE i # s
    <3>1. i \in Active(h) \ {s}
      BY <1>7, <2>2
    <3>2. OnPath(hash, h, KeyAt(h, i), i) /\ KeyAt(h, i) \in Key \ {k} /\ DataAt(h, i) \in Data \cup Values
      BY <1>5, <3>1 DEF TableOK
    <3>3. OnPath(hash, g, KeyAt(h, i), i)
      BY <1>4, <3>2, OtherOnPath
    <3> QED
      BY <1>7, <3>1, <3>2, <3>3
  <2> QED
    BY <2>1, <2>2
<1>9. g.count = Cardinality(Active(g))
  <2>1. IsFiniteSet(Active(h)) /\ h.count = Cardinality(Active(h))
    BY <1>1, ActiveFinite DEF TableOK
  <2>2. Cardinality(Active(h) \cup {s}) = IF s \in Active(h) THEN h.count ELSE h.count + 1
    BY <2>1, FS_AddElement
  <2> QED
    BY <1>4, <1>7, <2>2 DEF IsStored
<1>10. TableOK(hash, g) /\ g.size = h.size /\ g.count <= h.count + 1
  BY <1>1, <1>4, <1>8, <1>9 DEF TableOK, IsStored
<1>11. Holds(g, k, d)
  BY <1>7 DEF Holds
<1>12. ASSUME NEW l \in Key \ {k}, NEW e PROVE Holds(g, l, e) <=> Holds(h, l, e)
  <2>1. ASSUME Holds(g, l, e) PROVE Holds(h, l, e)
    <3>1. PICK i \in Active(g) : KeyAt(g, i) = l /\ DataAt(g, i) = e
      BY <2>1 DEF Holds
    <3>2. i \in Active(h) \ {s}
      BY <1>7, <3>1
    <3> QED
      BY <1>7, <3>1, <3>2 DEF Holds
  <2>2. ASSUME Holds(h, l, e) PROVE Holds(g, l, e)
    <3>1. PICK i \in Active(h) : KeyAt(h, i) = l /\ DataAt(h, i) = e
      BY <2>2 DEF Holds
    <3>2. i # s
      BY <1>2, <3>1, Zenon DEF Place
    <3> QED
      BY <1>7, <3>1, <3>2 DEF Holds
  <2> QED
    BY <2>1, <2>2
<1>13. NoneRemoved(h) => NoneRemoved(g)
  <2>1. Slots(g) = Slots(h)
    BY <1>10 DEF Slots
  <2>2. ASSUME NoneRemoved(h), NEW j \in Slots(g) PROVE j \in Active(g) \/ DataAt(g, j) = NULL
    BY <1>4, <1>7, <2>1, <2>2, Zenon DEF NoneRemoved, IsStored
  <2> QED
    BY <2>2, Zenon DEF NoneRemoved
<1> QED
  BY <1>10, <1>11, <1>12, <1>13, Zenon DEF IsInserted

\* A key has one element.
LEMMA OneElement ==
  ASSUME NEW h, TableOK(hash, h), NEW k, NEW d, NEW e, Holds(h, k, d), Holds(h, k, e)
  PROVE  d = e
<1>1. PICK i \in Active(h) : KeyAt(h, i) = k /\ DataAt(h, i) = d
  BY DEF Holds
<1>2. PICK j \in Active(h) : KeyAt(h, j) = k /\ DataAt(h, j) = e
  BY DEF Holds
<1>3. i = j
  BY <1>1, <1>2, KeyOnce, Zenon
<1> QED
  BY <1>1, <1>2, <1>3

-----------------------------------------------------------------------------
(***************************************************************************)
(* rehash().                                                               *)
(***************************************************************************)

\* The loop of rehash(): table[i] is the new table after i entries.
IsRehash(table, h) ==
  table = [i \in 0..h.size |->
            IF i = 0 THEN NewTable(findPrimeGreaterThan(2 * h.size))
            ELSE LET e == h.table[h.size - i]
                 IN  IF e.active THEN Store(table[i - 1], e.keystring, e.data) ELSE table[i - 1]]

\* rehash() returns what the loop ends with.
LEMMA RehashIs ==
  ASSUME NEW h
  PROVE  rehash(h) = (CHOOSE table : IsRehash(table, h))[h.size]
  BY Zenon DEF rehash, IsRehash

\* Entry j of the table has an element.
Fit(h, j) == j \in Active(h) => KeyAt(h, j) \in Key /\ DataAt(h, j) \in Data \cup Values

\* The loop has its values.
LEMMA RehashExists ==
  ASSUME NEW h, TableOK(hash, h)
  PROVE  \E table : IsRehash(table, h)
<1> DEFINE n == h.size
           P == findPrimeGreaterThan(2 * n)
           V == TablesOf(P)
           Step(i, v) == IF h.table[n - i].active
                         THEN Store(v, h.table[n - i].keystring, h.table[n - i].data) ELSE v
           F == [i \in 1..n |-> [v \in V |-> Step(i, v)]]
<1>1. n \in Nat /\ n > 2
  BY DEF TableOK, IsTable
<1>2. P \in Nat /\ P > 2
  BY <1>1, PrimeFound
<1>3. NewTable(P) \in V
  BY <1>2, NewTableOK
<1>4. \A i \in 1..n : n - i \in Slots(h)
  BY <1>1, SMTT(20) DEF Slots
<1>5. ASSUME NEW i \in 1..n, NEW v \in V PROVE Step(i, v) \in V
  <2>1. CASE h.table[n - i].active
    <3>1. n - i \in Active(h)
      BY <1>4, <2>1, Zenon DEF Active
    <3>2. h.table[n - i].keystring \in Key /\ h.table[n - i].data \in Data \cup Values
      BY <3>1, Zenon DEF TableOK, KeyAt, DataAt
    <3>3. Store(v, h.table[n - i].keystring, h.table[n - i].data) \in V
      BY <1>2, <3>2, StoreType
    <3> QED
      BY <2>1, <3>3, Zenon
  <2>2. CASE ~h.table[n - i].active
    BY <2>2, Zenon
  <2> QED
    BY <2>1, <2>2
<1> HIDE DEF Step, P, V
<1>6. \A i \in 1..n : \A v \in V : F[i][v] = Step(i, v)
  OBVIOUS
<1>7. Closed(F, 1..n, V)
  BY <1>5, <1>6 DEF Closed
<1> HIDE DEF F
<1>8. PICK g \in [0..n -> V] : IsRecursion(g, n, NewTable(P), F)
  BY <1>1, <1>3, <1>7, RecursionExists
<1>9. \A i \in 1..n : i - 1 \in 0..n /\ i # 0
  BY <1>1
<1>10. ASSUME NEW i \in 0..n PROVE g[i] = IF i = 0 THEN NewTable(P) ELSE Step(i, g[i - 1])
  <2>1. CASE i = 0
    BY <1>8, <2>1 DEF IsRecursion
  <2>2. CASE i # 0
    <3>1. i \in 1..n
      BY <1>1, <2>2
    <3>2. g[i - 1] \in V
      BY <1>9, <3>1
    <3> QED
      BY <1>6, <1>8, <2>2, <3>1, <3>2, Zenon DEF IsRecursion
  <2> QED
    BY <2>1, <2>2
<1>11. g = [i \in 0..n |-> IF i = 0 THEN NewTable(P) ELSE Step(i, g[i - 1])]
  BY <1>10, Zenon
<1> QED
  BY <1>11, Zenon DEF IsRehash, Step, P

\* After i entries the new table has the elements of those.
Rehashed(f, g, h, i) ==
  /\ TableOK(f, g) /\ NoneRemoved(g) /\ g.size = findPrimeGreaterThan(2 * h.size) /\ g.count <= i
  /\ \A k \in Key : \A d \in Data \cup Values :
       Holds(g, k, d) <=> \E j \in Active(h) : j >= h.size - i /\ KeyAt(h, j) = k /\ DataAt(h, j) = d

\* An entry that is not active adds no element.
LEMMA RehashSkips ==
  ASSUME NEW h, TableOK(hash, h), NEW i \in Nat, i < h.size, h.size - (i + 1) \notin Active(h),
         NEW g, Rehashed(hash, g, h, i)
  PROVE  Rehashed(hash, g, h, i + 1)
<1>1. h.size \in Nat /\ Active(h) \in SUBSET Nat
  BY DEF TableOK, IsTable, Active, Slots
<1>2. \A j \in Active(h) : j >= h.size - i <=> j >= h.size - (i + 1)
  BY <1>1
<1>3. g.count \in Nat
  BY DEF Rehashed, TableOK, IsTable, TablesOf
<1>4. g.count <= i + 1
  BY <1>3 DEF Rehashed
<1>5. ASSUME NEW k \in Key, NEW d \in Data \cup Values
      PROVE  Holds(g, k, d) <=> \E j \in Active(h) : j >= h.size - (i + 1) /\ KeyAt(h, j) = k /\ DataAt(h, j) = d
  BY <1>2, Zenon DEF Rehashed
<1> QED
  BY <1>4, <1>5, Zenon DEF Rehashed

\* An active one adds its own.
LEMMA RehashStores ==
  ASSUME HashType, NEW h, TableOK(hash, h), NEW i \in Nat, i < h.size, h.size - (i + 1) \in Active(h),
         NEW g, Rehashed(hash, g, h, i),
         NEW t, t = Store(g, KeyAt(h, h.size - (i + 1)), DataAt(h, h.size - (i + 1)))
  PROVE  Rehashed(hash, t, h, i + 1)
<1> DEFINE a == h.size - (i + 1)
           k == KeyAt(h, a)
           d == DataAt(h, a)
<1>1. h.size \in Nat /\ h.size > 2 /\ Active(h) \in SUBSET Nat /\ a \in Nat
  BY DEF TableOK, IsTable, Active, Slots
<1>2. k \in Key /\ d \in Data \cup Values
  BY DEF TableOK
<1>3. TableOK(hash, g) /\ NoneRemoved(g) /\ g.size = findPrimeGreaterThan(2 * h.size) /\ g.count <= i
  BY DEF Rehashed
<1>4. g.size \in Nat /\ g.size > 2 * h.size /\ Prime(g.size)
  BY <1>1, <1>3, PrimeFound
<1>5. g.count \in Nat /\ g.count < g.size
  <2>1. g.count \in Nat
    BY <1>3 DEF TableOK, IsTable, TablesOf
  <2> QED
    BY <1>1, <1>3, <1>4, <2>1
<1>6. InsertSlot(g, k) # -1
  BY <1>2, <1>3, <1>4, <1>5, PlaceFound
<1>7. TableOK(hash, t) /\ t.size = g.size /\ t.count <= g.count + 1 /\ IsInserted(t, g, k, d) /\ NoneRemoved(t)
  BY <1>2, <1>3, <1>6, StoreOK
<1>8. t.count <= i + 1
  <2>1. t.count \in Nat
    BY <1>7 DEF TableOK, IsTable, TablesOf
  <2> QED
    BY <1>3, <1>5, <1>7, <2>1
<1>9. \A j \in Active(h) : j >= h.size - (i + 1) <=> (j >= h.size - i \/ j = a)
  BY <1>1
<1>10. \A j \in Active(h) : KeyAt(h, j) = k => j = a
  BY KeyOnce
<1>11. a >= h.size - (i + 1)
  BY <1>1
<1> HIDE DEF a
<1>12. ASSUME NEW l \in Key, NEW e \in Data \cup Values
       PROVE  Holds(t, l, e) <=> \E j \in Active(h) : j >= h.size - (i + 1) /\ KeyAt(h, j) = l /\ DataAt(h, j) = e
  <2>1. CASE l = k
    <3>1. Holds(t, l, e) <=> e = d
      BY <1>7, <2>1, OneElement, Zenon DEF IsInserted
    <3>2. a \in Active(h)
      BY DEF a
    <3> QED
      BY <1>10, <1>11, <2>1, <3>1, <3>2, Zenon
  <2>2. CASE l # k
    <3>1. Holds(t, l, e) <=> Holds(g, l, e)
      BY <1>7, <2>2, Zenon DEF IsInserted
    <3>2. Holds(g, l, e) <=> \E j \in Active(h) : j >= h.size - i /\ KeyAt(h, j) = l /\ DataAt(h, j) = e
      BY DEF Rehashed
    <3> QED
      BY <1>9, <2>2, <3>1, <3>2, Zenon
  <2> QED
    BY <2>1, <2>2
<1> QED
  BY <1>3, <1>7, <1>8, <1>12, Zenon DEF Rehashed

\* rehash() makes a table of prime size, more than twice as large, with the
\* elements of the old one and no removed entry.
LEMMA RehashOK ==
  ASSUME HashType, NEW h, TableOK(hash, h), NEW g, g = rehash(h)
  PROVE  /\ TableOK(hash, g) /\ NoneRemoved(g) /\ g.count < g.size /\ Prime(g.size)
         /\ \A k \in Key : \A d \in Data \cup Values : Holds(g, k, d) <=> Holds(h, k, d)
<1> DEFINE v == CHOOSE table : IsRehash(table, h)
           n == h.size
           P == findPrimeGreaterThan(2 * n)
           T == {i \in Nat : i <= n => Rehashed(hash, v[i], h, i)}
<1>1. n \in Nat /\ n > 2 /\ Active(h) \in SUBSET Slots(h)
  BY DEF TableOK, IsTable, Active
<1>2. IsRehash(v, h)
  BY RehashExists, Zenon
<1> HIDE DEF v
<1>3. v[0] = NewTable(P)
  BY <1>1, <1>2 DEF IsRehash
<1>4. ASSUME NEW i \in Nat, i < n
      PROVE  v[i + 1] = IF n - (i + 1) \in Active(h)
                        THEN Store(v[i], KeyAt(h, n - (i + 1)), DataAt(h, n - (i + 1))) ELSE v[i]
  <2>1. i + 1 \in 0..n /\ i + 1 # 0 /\ (i + 1) - 1 = i /\ n - (i + 1) \in Slots(h)
    BY <1>1, <1>4 DEF Slots
  <2>2. v[i + 1] = IF h.table[n - (i + 1)].active
                   THEN Store(v[(i + 1) - 1], h.table[n - (i + 1)].keystring, h.table[n - (i + 1)].data)
                   ELSE v[(i + 1) - 1]
    BY <1>2, <2>1, Zenon DEF IsRehash
  <2> QED
    BY <2>1, <2>2, Zenon DEF Active, KeyAt, DataAt
<1>5. 0 \in T
  <2>1. P \in Nat /\ P > 2
    BY <1>1, PrimeFound
  <2>2. /\ TableOK(hash, NewTable(P)) /\ NoneRemoved(NewTable(P)) /\ Active(NewTable(P)) = {}
        /\ NewTable(P).size = P /\ NewTable(P).count = 0
    BY <2>1, NewTableOK
  <2>3. \A k, d : ~Holds(NewTable(P), k, d)
    BY <2>2, Zenon DEF Holds
  <2>4. \A j \in Active(h) : ~(j >= n - 0)
    BY <1>1 DEF Slots
  <2>5. NewTable(P).count <= 0
    BY <2>2
  <2>6. Rehashed(hash, NewTable(P), h, 0)
    BY <2>2, <2>3, <2>4, <2>5, Zenon DEF Rehashed
  <2> QED
    BY <1>3, <2>6
<1>6. ASSUME NEW i \in Nat, i \in T PROVE i + 1 \in T
  <2> SUFFICES ASSUME i + 1 <= n PROVE Rehashed(hash, v[i + 1], h, i + 1)
    OBVIOUS
  <2>1. i < n /\ i <= n
    BY <1>1
  <2>2. Rehashed(hash, v[i], h, i)
    BY <1>6, <2>1
  <2>3. CASE n - (i + 1) \in Active(h)
    BY <1>4, <2>1, <2>2, <2>3, RehashStores
  <2>4. CASE n - (i + 1) \notin Active(h)
    <3>1. v[i + 1] = v[i]
      BY <1>4, <2>1, <2>4, Zenon
    <3> QED
      BY <2>1, <2>2, <2>4, <3>1, RehashSkips
  <2> QED
    BY <2>3, <2>4
<1>7. Rehashed(hash, v[n], h, n)
  <2>1. n \in T
    <3> HIDE DEF T
    <3> QED
      BY <1>1, <1>5, <1>6, SetInduction
  <2> QED
    BY <1>1, <2>1
<1>8. g = v[n]
  BY RehashIs DEF v
<1>9. \A j \in Active(h) : j >= n - n
  BY <1>1 DEF Slots
<1>10. \A k \in Key : \A d \in Data \cup Values : Holds(g, k, d) <=> Holds(h, k, d)
  <2>1. ASSUME NEW k \in Key, NEW d \in Data \cup Values
        PROVE  Holds(g, k, d) <=> \E j \in Active(h) : j >= n - n /\ KeyAt(h, j) = k /\ DataAt(h, j) = d
    BY <1>7, <1>8 DEF Rehashed
  <2>2. ASSUME NEW k, NEW d
        PROVE  Holds(h, k, d) <=> \E j \in Active(h) : j >= n - n /\ KeyAt(h, j) = k /\ DataAt(h, j) = d
    BY <1>9, Zenon DEF Holds
  <2> QED
    BY <2>1, <2>2, Zenon
<1>11. P \in Nat /\ P > 2 * n /\ Prime(P)
  BY <1>1, PrimeFound
<1>12. TableOK(hash, g) /\ NoneRemoved(g) /\ g.size = P /\ g.count <= n
  BY <1>7, <1>8, Zenon DEF Rehashed
<1>13. g.count \in Nat
  BY <1>12 DEF TableOK, IsTable, TablesOf
<1> QED
  BY <1>1, <1>10, <1>11, <1>12, <1>13

-----------------------------------------------------------------------------
(***************************************************************************)
(* hashmap_insert() and maparray_create().                                 *)
(***************************************************************************)

\* g has the elements of h.
SameElements(g, h) == \A k \in Key : \A d \in Data \cup Values : Holds(g, k, d) <=> Holds(h, k, d)

\* hashmap_insert() keeps the table and changes the element of its own key only.
LEMMA InsertOK ==
  ASSUME HashType, NEW h, TableOK(hash, h), NEW k \in Key, NEW d \in Data \cup Values,
         NoneRemoved(h) \/ ~Present(h, k),
         NEW g, g = hashmap_insert(h, k, d)
  PROVE  TableOK(hash, g) /\ IsInserted(g, h, k, d) /\ (NoneRemoved(h) => NoneRemoved(g))
<1> DEFINE t == IF h.size <= h.count THEN rehash(h) ELSE h
<1>1. g = IF InsertSlot(t, k) # -1 THEN Store(t, k, d) ELSE Store(rehash(t), k, d)
  BY DEF hashmap_insert
<1>2. /\ TableOK(hash, t) /\ SameElements(t, h) /\ (NoneRemoved(h) => NoneRemoved(t))
      /\ NoneRemoved(t) \/ ~Present(t, k)
  <2>1. CASE h.size <= h.count
    <3>1. TableOK(hash, rehash(h)) /\ NoneRemoved(rehash(h)) /\ SameElements(rehash(h), h)
      BY RehashOK DEF SameElements
    <3> QED
      BY <2>1, <3>1
  <2>2. CASE ~(h.size <= h.count)
    BY <2>2, Zenon DEF SameElements
  <2> QED
    BY <2>1, <2>2
<1> HIDE DEF t
<1>3. ASSUME NEW u, TableOK(hash, u), SameElements(u, h), NoneRemoved(u) \/ ~Present(u, k),
             NoneRemoved(h) => NoneRemoved(u), InsertSlot(u, k) # -1, g = Store(u, k, d)
      PROVE  TableOK(hash, g) /\ IsInserted(g, h, k, d) /\ (NoneRemoved(h) => NoneRemoved(g))
  <2>1. TableOK(hash, g) /\ IsInserted(g, u, k, d) /\ (NoneRemoved(u) => NoneRemoved(g))
    BY <1>3, StoreOK
  <2>2. IsInserted(g, h, k, d)
    BY <1>3, <2>1, Zenon DEF IsInserted, SameElements
  <2> QED
    BY <1>3, <2>1, <2>2
<1>4. CASE InsertSlot(t, k) # -1
  BY <1>1, <1>2, <1>3, <1>4, Zenon
<1>5. CASE InsertSlot(t, k) = -1
  <2> DEFINE u == rehash(t)
  <2>1. TableOK(hash, u) /\ NoneRemoved(u) /\ u.count < u.size /\ Prime(u.size) /\ SameElements(u, t)
    BY <1>2, RehashOK DEF SameElements
  <2>2. g = Store(u, k, d)
    BY <1>1, <1>5
  <2> HIDE DEF u
  <2>3. InsertSlot(u, k) # -1
    BY <2>1, PlaceFound
  <2>4. SameElements(u, h)
    BY <1>2, <2>1, Zenon DEF SameElements
  <2> QED
    BY <1>3, <2>1, <2>2, <2>3, <2>4, Zenon
<1> QED
  BY <1>4, <1>5

\* The loop of maparray_create(): map[i] is the map after i pairs.
IsFill(map, h, kds) ==
  map = [i \in 0..Len(kds) |-> IF i = 0 THEN h ELSE hashmap_insert(map[i - 1], kds[i][1], kds[i][2])]

\* The elements of the first n pairs, the last value of each key.
HasPairs(g, kds, n) ==
  \A i \in 1..n : (\A j \in (i + 1)..n : kds[j][1] # kds[i][1]) => Holds(g, kds[i][1], kds[i][2])

\* The loop has its values.
LEMMA FillExists ==
  ASSUME HashType, NEW kds \in Seq(Key \X Values), NEW h, TableOK(hash, h), NoneRemoved(h)
  PROVE  \E map : IsFill(map, h, kds)
<1> DEFINE n == Len(kds)
           V == {v \in UNION {TablesOf(s) : s \in Nat} : TableOK(hash, v) /\ NoneRemoved(v)}
           Step(i, v) == hashmap_insert(v, kds[i][1], kds[i][2])
           F == [i \in 1..n |-> [v \in V |-> Step(i, v)]]
<1>1. ASSUME NEW v, TableOK(hash, v), NoneRemoved(v) PROVE v \in V
  BY <1>1, Zenon DEF TableOK, IsTable
<1>2. ASSUME NEW i \in 1..n, NEW v \in V PROVE Step(i, v) \in V
  <2>1. kds[i][1] \in Key /\ kds[i][2] \in Data \cup Values
    OBVIOUS
  <2>2. TableOK(hash, v) /\ NoneRemoved(v)
    BY Zenon
  <2>3. TableOK(hash, Step(i, v)) /\ NoneRemoved(Step(i, v))
    BY <2>1, <2>2, InsertOK
  <2> QED
    BY <1>1, <2>3
<1>3. h \in V /\ n \in Nat
  BY <1>1
<1> HIDE DEF Step, V
<1>4. \A i \in 1..n : \A v \in V : F[i][v] = Step(i, v)
  OBVIOUS
<1>5. Closed(F, 1..n, V)
  BY <1>2, <1>4 DEF Closed
<1> HIDE DEF F
<1>6. PICK g \in [0..n -> V] : IsRecursion(g, n, h, F)
  BY <1>3, <1>5, RecursionExists
<1>7. \A i \in 1..n : i - 1 \in 0..n /\ i # 0
  BY <1>3
<1>8. ASSUME NEW i \in 0..n PROVE g[i] = IF i = 0 THEN h ELSE Step(i, g[i - 1])
  <2>1. CASE i = 0
    BY <1>6, <2>1 DEF IsRecursion
  <2>2. CASE i # 0
    <3>1. i \in 1..n
      BY <1>3, <2>2
    <3>2. g[i - 1] \in V
      BY <1>7, <3>1
    <3> QED
      BY <1>4, <1>6, <2>2, <3>1, <3>2, Zenon DEF IsRecursion
  <2> QED
    BY <2>1, <2>2
<1>9. g = [i \in 0..n |-> IF i = 0 THEN h ELSE Step(i, g[i - 1])]
  BY <1>8, Zenon
<1> QED
  BY <1>9, Zenon DEF IsFill, Step

\* maparray_create() makes a map with the elements of the arrays.
LEMMA MapArrayOK ==
  ASSUME HashType, NEW kds \in Seq(Key \X Values), NEW h, TableOK(hash, h), NoneRemoved(h),
         NEW g, g = maparray_create(h, kds)
  PROVE  TableOK(hash, g) /\ NoneRemoved(g) /\ HasPairs(g, kds, Len(kds))
<1> DEFINE n == Len(kds)
           v == CHOOSE map : IsFill(map, h, kds)
           Good(i) == TableOK(hash, v[i]) /\ NoneRemoved(v[i]) /\ HasPairs(v[i], kds, i)
           T == {i \in Nat : i <= n => Good(i)}
<1>1. g = v[n] /\ n \in Nat
  <2>1. g = v[n]
    BY Zenon DEF maparray_create, IsFill
  <2> QED
    BY <2>1
<1>2. IsFill(v, h, kds)
  BY FillExists, Zenon
<1> HIDE DEF v
<1>3. v[0] = h
  BY <1>1, <1>2 DEF IsFill
<1>4. ASSUME NEW i \in Nat, i < n PROVE v[i + 1] = hashmap_insert(v[i], kds[i + 1][1], kds[i + 1][2])
  <2>1. i + 1 \in 0..n /\ i + 1 # 0 /\ (i + 1) - 1 = i
    BY <1>1, <1>4
  <2> QED
    BY <1>2, <2>1, Zenon DEF IsFill
<1>5. 0 \in T
  BY <1>3 DEF HasPairs
<1>6. ASSUME NEW i \in Nat, i \in T PROVE i + 1 \in T
  <2> SUFFICES ASSUME i + 1 <= n PROVE Good(i + 1)
    OBVIOUS
  <2> DEFINE k == kds[i + 1][1]
             d == kds[i + 1][2]
  <2>1. i < n /\ i <= n /\ i + 1 \in 1..n
    BY <1>1
  <2>2. Good(i)
    BY <1>6, <2>1
  <2>3. k \in Key /\ d \in Data \cup Values
    BY <2>1
  <2>4. \A j \in 1..i : kds[j][1] \in Key /\ kds[j][2] \in Data \cup Values
    BY <1>1, <2>1
  <2>5. v[i + 1] = hashmap_insert(v[i], k, d)
    BY <1>4, <2>1
  <2> HIDE DEF k, d
  <2>6. TableOK(hash, v[i + 1]) /\ NoneRemoved(v[i + 1]) /\ IsInserted(v[i + 1], v[i], k, d)
    BY <2>2, <2>3, <2>5, InsertOK
  <2>7. ASSUME NEW p \in 1..(i + 1), \A j \in (p + 1)..(i + 1) : kds[j][1] # kds[p][1]
        PROVE  Holds(v[i + 1], kds[p][1], kds[p][2])
    <3>1. CASE p = i + 1
      BY <2>6, <3>1 DEF IsInserted, k, d
    <3>2. CASE p # i + 1
      <4>1. p \in 1..i /\ i + 1 \in (p + 1)..(i + 1) /\ \A j \in (p + 1)..i : j \in (p + 1)..(i + 1)
        BY <3>2
      <4>2. k # kds[p][1]
        BY <2>7, <4>1 DEF k
      <4>3. Holds(v[i], kds[p][1], kds[p][2])
        BY <2>2, <2>7, <4>1, Zenon DEF HasPairs
      <4> QED
        BY <2>4, <2>6, <4>1, <4>2, <4>3 DEF IsInserted
    <3> QED
      BY <3>1, <3>2
  <2>8. HasPairs(v[i + 1], kds, i + 1)
    BY <2>7, Zenon DEF HasPairs
  <2> QED
    BY <2>6, <2>8
<1>7. n \in T
  <2> HIDE DEF T
  <2> QED
    BY <1>1, <1>5, <1>6, SetInduction
<1> QED
  BY <1>1, <1>7

-----------------------------------------------------------------------------
(***************************************************************************)
(* hashmap_get() and hashmap_remove().                                     *)
(***************************************************************************)

\* Where their search for key k ends: at the first entry s that has the key or
\* no data.
Meets(f, h, k, s) ==
  \E r \in Slots(h) :
    /\ Path(f, k, h.size, r) = s /\ s \in Slots(h)
    /\ KeyAt(h, s) = k \/ DataAt(h, s) = NULL
    /\ \A q \in 0..(r - 1) : /\ KeyAt(h, Path(f, k, h.size, q)) # k
                             /\ DataAt(h, Path(f, k, h.size, q)) # NULL

\* It ends nowhere only if no entry of the path has the key or no data.
LEMMA LookupSlotIs ==
  ASSUME HashType, IsTable(m), NEW k \in Key
  PROVE  IF LookupSlot(k) = -1 THEN \A s \in Slots(m) : ~Meets(hash, m, k, s) ELSE Meets(hash, m, k, LookupSlot(k))
<1> DEFINE P(r) == Path(hash, k, m.size, r)
           R == {r \in Slots(m) : m.table[probe(k, m.size, r)].keystring = k \/ m.table[probe(k, m.size, r)].data = NULL}
<1>1. LookupSlot(k) = IF R = {} THEN -1 ELSE probe(k, m.size, Min(R))
  BY Zenon DEF LookupSlot, Search, Slots
<1>2. ASSUME NEW r \in Nat PROVE probe(k, m.size, r) = P(r) /\ P(r) \in Slots(m)
  BY PathType DEF IsTable, Slots
<1>3. Slots(m) \in SUBSET Nat
  BY DEF IsTable, Slots
<1> HIDE DEF P
<1>4. ASSUME NEW r \in Slots(m) PROVE r \in R <=> (KeyAt(m, P(r)) = k \/ DataAt(m, P(r)) = NULL)
  <2>1. probe(k, m.size, r) = P(r)
    BY <1>2, <1>3
  <2> QED
    BY <2>1, Zenon DEF DataAt, KeyAt
<1>5. R \in SUBSET Slots(m)
  OBVIOUS
<1> HIDE DEF R
<1>6. CASE R = {}
  <2>1. \A s \in Slots(m) : ~Meets(hash, m, k, s)
    BY <1>4, <1>6, Zenon DEF Meets, P
  <2> QED
    BY <1>1, <1>6, <2>1, Zenon
<1>7. CASE R # {}
  <2>1. R \in SUBSET Int /\ IsFiniteSet(R)
    BY <1>3, <1>5, ActiveFinite, FS_Subset
  <2> DEFINE t == Min(R)
  <2>2. t \in R /\ \A y \in R : t <= y
    BY <1>7, <2>1, LeastOf, Zenon
  <2> HIDE DEF t
  <2>3. t \in Slots(m) /\ t \in Nat
    BY <1>3, <1>5, <2>2
  <2>4. LookupSlot(k) = P(t) /\ P(t) \in Slots(m)
    BY <1>1, <1>2, <1>7, <2>3, Zenon DEF t
  <2>5. KeyAt(m, P(t)) = k \/ DataAt(m, P(t)) = NULL
    BY <1>4, <2>2, <2>3, Zenon
  <2>6. ASSUME NEW q \in 0..(t - 1) PROVE KeyAt(m, P(q)) # k /\ DataAt(m, P(q)) # NULL
    <3>1. q \in Slots(m) /\ ~(t <= q)
      BY <2>3 DEF Slots, IsTable
    <3>2. q \notin R
      BY <2>2, <3>1
    <3> QED
      BY <1>4, <3>1, <3>2, Zenon
  <2>7. Meets(hash, m, k, LookupSlot(k))
    BY <2>3, <2>4, <2>5, <2>6, Zenon DEF Meets, P
  <2>8. LookupSlot(k) # -1
    BY <2>4 DEF Slots, IsTable
  <2> QED
    BY <2>7, <2>8
<1> QED
  BY <1>6, <1>7

\* It ends at the active entry of the key if there is one.
LEMMA LookupFinds ==
  ASSUME HashType, TableOK(hash, m), NEW k \in Key, NEW i \in Active(m), KeyAt(m, i) = k
  PROVE  LookupSlot(k) = i /\ i # -1
<1>1. IsTable(m) /\ i \in Slots(m) /\ i # -1
  BY DEF TableOK, Active, Slots, IsTable
<1>2. OnPath(hash, m, k, i)
  BY DEF TableOK
<1>3. PICK r \in Slots(m) :
        /\ Path(hash, k, m.size, r) = i
        /\ \A q \in 0..(r - 1) : /\ KeyAt(m, Path(hash, k, m.size, q)) # k
                                 /\ DataAt(m, Path(hash, k, m.size, q)) # NULL
  BY <1>2 DEF OnPath
<1>4. Meets(hash, m, k, i)
  BY <1>1, <1>3, Zenon DEF Meets
<1>5. Meets(hash, m, k, LookupSlot(k))
  BY <1>1, <1>4, LookupSlotIs
<1>6. PICK t \in Slots(m) :
        /\ Path(hash, k, m.size, t) = LookupSlot(k)
        /\ KeyAt(m, LookupSlot(k)) = k \/ DataAt(m, LookupSlot(k)) = NULL
        /\ \A q \in 0..(t - 1) : KeyAt(m, Path(hash, k, m.size, q)) # k
  BY <1>5, Zenon DEF Meets
<1>7. r \in Nat /\ t \in Nat
  BY <1>1 DEF Slots, IsTable
<1>8. r \notin 0..(t - 1)
  BY <1>3, <1>6, Zenon
<1>9. t \notin 0..(r - 1)
  BY <1>3, <1>6, Zenon
<1>10. t = r
  BY <1>7, <1>8, <1>9
<1> QED
  BY <1>1, <1>3, <1>6, <1>10

\* Otherwise it ends at no active entry.
LEMMA LookupFails ==
  ASSUME HashType, TableOK(hash, m), NEW k \in Key, ~Present(m, k)
  PROVE  LookupSlot(k) = -1 \/ (LookupSlot(k) \in Slots(m) /\ ~m.table[LookupSlot(k)].active)
<1> SUFFICES ASSUME LookupSlot(k) # -1 PROVE LookupSlot(k) \in Slots(m) /\ LookupSlot(k) \notin Active(m)
  BY Zenon DEF Active
<1>1. Meets(hash, m, k, LookupSlot(k))
  BY LookupSlotIs DEF TableOK
<1>2. LookupSlot(k) \in Slots(m) /\ (KeyAt(m, LookupSlot(k)) = k \/ DataAt(m, LookupSlot(k)) = NULL)
  BY <1>1, Zenon DEF Meets
<1>3. \A i \in Active(m) : KeyAt(m, i) # k /\ DataAt(m, i) # NULL
  BY HashMapAssumption DEF TableOK, Present
<1> QED
  BY <1>2, <1>3

\* hashmap_get() returns the element of the key.
GetExact ==
  \A k \in Key : /\ hashmap_get(k) \in Data \cup Values \cup {NULL}
                 /\ \A d \in Data \cup Values : hashmap_get(k) = d <=> Holds(m, k, d)
                 /\ hashmap_get(k) = NULL <=> ~Present(m, k)

\* It does so in every state whose table is as the operations keep it.
LEMMA GetIs == HashType /\ TableOK(hash, m) => GetExact
<1> SUFFICES ASSUME HashType, TableOK(hash, m), NEW k \in Key
             PROVE  /\ hashmap_get(k) \in Data \cup Values \cup {NULL}
                    /\ \A d \in Data \cup Values : hashmap_get(k) = d <=> Holds(m, k, d)
                    /\ hashmap_get(k) = NULL <=> ~Present(m, k)
  BY Zenon DEF GetExact
<1>1. NULL \notin Data \cup Values
  BY HashMapAssumption
<1>2. CASE Present(m, k)
  <2>1. PICK i \in Active(m) : KeyAt(m, i) = k
    BY <1>2 DEF Present
  <2>2. LookupSlot(k) = i /\ i # -1
    BY <2>1, LookupFinds
  <2>3. m.count # 0
    BY FS_EmptySet, ActiveFinite DEF TableOK
  <2>4. m.table[i].active /\ DataAt(m, i) \in Data \cup Values
    BY Zenon DEF Active, TableOK
  <2>5. hashmap_get(k) = DataAt(m, i)
    BY <2>2, <2>3, <2>4, Zenon DEF hashmap_get, DataAt
  <2>6. Holds(m, k, DataAt(m, i))
    BY <2>1, Zenon DEF Holds
  <2>7. ASSUME NEW d \in Data \cup Values PROVE hashmap_get(k) = d <=> Holds(m, k, d)
    BY <2>5, <2>6, OneElement, Zenon
  <2> QED
    BY <1>1, <1>2, <2>4, <2>5, <2>7
<1>3. CASE ~Present(m, k)
  <2>1. hashmap_get(k) = NULL
    BY <1>3, LookupFails, Zenon DEF hashmap_get
  <2>2. \A d : ~Holds(m, k, d)
    BY <1>3, Zenon DEF Present, Holds
  <2> QED
    BY <1>1, <1>3, <2>1, <2>2
<1> QED
  BY <1>2, <1>3

\* g is h without the element of key k.
IsRemoved(g, h, k) ==
  /\ ~Present(g, k)
  /\ \A l \in Key \ {k} : \A e \in Data \cup Values : Holds(g, l, e) <=> Holds(h, l, e)

\* hashmap_remove() keeps the table and takes out the element of its own key
\* only: the key and the data that stay behind keep the other paths whole.
LEMMA RemoveOK ==
  ASSUME HashType, TableOK(hash, m), NEW k \in Key, NEW g, g = hashmap_remove(k)
  PROVE  TableOK(hash, g) /\ IsRemoved(g, m, k)
<1>1. IsTable(m) /\ m.size \in Nat /\ m \in TablesOf(m.size) /\ m.count \in Nat
  BY DEF TableOK, IsTable, TablesOf
<1>2. CASE ~Present(m, k)
  <2>1. g = m
    BY <1>2, LookupFails, Zenon DEF hashmap_remove
  <2> QED
    BY <1>2, <2>1, Zenon DEF IsRemoved
<1>3. CASE Present(m, k)
  <2>1. PICK i \in Active(m) : KeyAt(m, i) = k
    BY <1>3 DEF Present
  <2>2. LookupSlot(k) = i /\ i # -1
    BY <2>1, LookupFinds
  <2>3. i \in Slots(m) /\ m.table[i].active /\ m.table[i].data \in Data \cup Values
    BY Zenon DEF Active, TableOK, DataAt
  <2>4. m.table[i].data # NULL
    BY <2>3, HashMapAssumption
  <2> DEFINE e == [m.table[i] EXCEPT !.active = FALSE]
             c == m.count - 1
             n == m.size
  <2>5. IsWrite(g, m, i, e, c)
    BY <2>2, <2>3, <2>4, Zenon DEF hashmap_remove, IsWrite
  <2>6. m.table[i] \in Entry
    BY <1>1, <2>3 DEF Slots, TablesOf
  <2>7. e \in Entry /\ e.active = FALSE /\ e.data = m.table[i].data /\ e.keystring = m.table[i].keystring
    BY <2>6, Zenon DEF Entry
  <2>8. n \in Nat /\ m \in TablesOf(n) /\ IsFiniteSet(Active(m)) /\ m.count = Cardinality(Active(m))
    BY <1>1, ActiveFinite DEF TableOK
  <2>9. Cardinality(Active(m) \ {i}) = c /\ c \in Nat
    <3>1. Cardinality(Active(m) \ {i}) = Cardinality(Active(m)) - 1 /\ IsFiniteSet(Active(m) \ {i})
      BY <2>8, FS_RemoveElement
    <3>2. Cardinality(Active(m) \ {i}) \in Nat
      BY <3>1, FS_CardinalityType
    <3> QED
      BY <2>8, <3>1, <3>2
  <2> HIDE DEF e, c, n
  <2>10. /\ g \in TablesOf(n) /\ g.count = c
         /\ \A j \in 0..(n - 1) : g.table[j] = IF j = i THEN e ELSE m.table[j]
    <3>1. n \in Nat /\ m \in TablesOf(n) /\ e \in Entry /\ c \in Nat
      BY <2>7, <2>8, <2>9, Zenon
    <3>2. IsWritten(g, n, m, i, e, c)
      BY <2>5, <3>1, Written, Zenon
    <3> QED
      BY <3>2, Zenon DEF IsWritten
  <2>11. g.size = m.size /\ IsTable(g)
    BY <1>1, <2>10 DEF IsTable, TablesOf, n
  <2>12. Slots(g) = Slots(m)
    BY <2>11 DEF Slots
  <2>13. ASSUME NEW j \in Slots(m)
         PROVE  /\ KeyAt(g, j) = KeyAt(m, j) /\ DataAt(g, j) = DataAt(m, j)
                /\ g.table[j].active <=> m.table[j].active /\ j # i
    <3>1. g.table[j] = IF j = i THEN e ELSE m.table[j]
      BY <2>10 DEF Slots, n
    <3> QED
      BY <2>7, <3>1, Zenon DEF KeyAt, DataAt
  <2>14. Active(g) = Active(m) \ {i}
    BY <2>12, <2>13, Zenon DEF Active
  <2>15. \A j \in Active(g) : j \in Active(m) /\ j \in Slots(m) /\ KeyAt(g, j) = KeyAt(m, j) /\ DataAt(g, j) = DataAt(m, j)
    BY <2>13, <2>14 DEF Active
  <2>16. ASSUME NEW l \in Key, NEW j, OnPath(hash, m, l, j) PROVE OnPath(hash, g, l, j)
    <3> DEFINE P(r) == Path(hash, l, m.size, r)
    <3>1. PICK r \in Slots(m) :
            P(r) = j /\ \A q \in 0..(r - 1) : KeyAt(m, P(q)) # l /\ DataAt(m, P(q)) # NULL
      BY <2>16 DEF OnPath
    <3>2. ASSUME NEW q \in Nat PROVE P(q) \in Slots(m)
      BY <1>1, PathType DEF IsTable, Slots
    <3> HIDE DEF P
    <3>3. \A q \in 0..(r - 1) : q \in Nat
      BY DEF Slots
    <3>4. \A q \in 0..(r - 1) : KeyAt(g, P(q)) # l /\ DataAt(g, P(q)) # NULL
      BY <2>13, <3>1, <3>2, <3>3, Zenon
    <3> QED
      BY <2>11, <2>12, <3>1, <3>4, Zenon DEF OnPath, P
  <2>17. TableOK(hash, g)
    <3>1. ASSUME NEW j \in Active(g)
          PROVE  /\ KeyAt(g, j) \in Key /\ DataAt(g, j) \in Data \cup Values
                 /\ OnPath(hash, g, KeyAt(g, j), j)
      <4>1. KeyAt(m, j) \in Key /\ DataAt(m, j) \in Data \cup Values /\ OnPath(hash, m, KeyAt(m, j), j)
        BY <2>15 DEF TableOK
      <4> QED
        BY <2>15, <2>16, <4>1
    <3>2. g.count = Cardinality(Active(g))
      BY <2>9, <2>10, <2>14
    <3> QED
      BY <2>11, <3>1, <3>2 DEF TableOK
  <2>18. ~Present(g, k)
    <3>1. \A j \in Active(m) : KeyAt(m, j) = k => j = i
      BY <2>1, KeyOnce
    <3> QED
      BY <2>14, <2>15, <3>1, Zenon DEF Present
  <2>19. ASSUME NEW l \in Key \ {k}, NEW d PROVE Holds(g, l, d) <=> Holds(m, l, d)
    <3>1. \A j \in Active(m) : KeyAt(m, j) = l => j \in Active(g)
      BY <2>1, <2>14
    <3> QED
      BY <2>15, <3>1, Zenon DEF Holds
  <2> QED
    BY <2>17, <2>18, <2>19, Zenon DEF IsRemoved
<1> QED
  BY <1>2, <1>3

-----------------------------------------------------------------------------
(***************************************************************************)
(* hashmap_getkeys() and hashmap_count().                                  *)
(***************************************************************************)

\* The loop of hashmap_getkeys(): keys[i] are the keys of the first i entries.
IsListing(keys, h) ==
  keys = [i \in 0..h.size |->
           IF i = 0 THEN <<>>
           ELSE IF h.table[i - 1].active THEN Append(keys[i - 1], h.table[i - 1].keystring) ELSE keys[i - 1]]

\* hashmap_getkeys() returns what the loop ends with.
LEMMA GetkeysIs ==
  hashmap_getkeys = IF m.count = 0 THEN <<>> ELSE (CHOOSE keys : IsListing(keys, m))[m.size]
  BY Zenon DEF hashmap_getkeys, IsListing

\* The loop has its values.
LEMMA ListingExists ==
  ASSUME NEW h, TableOK(hash, h)
  PROVE  \E keys : IsListing(keys, h)
<1> DEFINE n == h.size
           V == Seq(Key)
           Step(i, v) == IF h.table[i - 1].active THEN Append(v, h.table[i - 1].keystring) ELSE v
           F == [i \in 1..n |-> [v \in V |-> Step(i, v)]]
<1>1. n \in Nat
  BY DEF TableOK, IsTable
<1>2. <<>> \in V
  OBVIOUS
<1>3. \A i \in 1..n : i - 1 \in Slots(h) /\ i - 1 \in 0..n /\ i # 0
  BY <1>1 DEF Slots
<1>4. ASSUME NEW i \in 1..n, NEW v \in V PROVE Step(i, v) \in V
  <2>1. CASE h.table[i - 1].active
    <3>1. i - 1 \in Active(h)
      BY <1>3, <2>1, Zenon DEF Active
    <3>2. h.table[i - 1].keystring \in Key
      BY <3>1, Zenon DEF TableOK, KeyAt
    <3>3. Append(v, h.table[i - 1].keystring) \in V
      BY <3>2
    <3> QED
      BY <2>1, <3>3, Zenon
  <2>2. CASE ~h.table[i - 1].active
    BY <2>2, Zenon
  <2> QED
    BY <2>1, <2>2
<1> HIDE DEF Step, V
<1>5. \A i \in 1..n : \A v \in V : F[i][v] = Step(i, v)
  OBVIOUS
<1>6. Closed(F, 1..n, V)
  BY <1>4, <1>5 DEF Closed
<1> HIDE DEF F
<1>7. PICK g \in [0..n -> V] : IsRecursion(g, n, <<>>, F)
  BY <1>1, <1>2, <1>6, RecursionExists
<1>8. ASSUME NEW i \in 0..n PROVE g[i] = IF i = 0 THEN <<>> ELSE Step(i, g[i - 1])
  <2>1. CASE i = 0
    BY <1>7, <2>1 DEF IsRecursion
  <2>2. CASE i # 0
    <3>1. i \in 1..n
      BY <1>1, <2>2
    <3>2. g[i - 1] \in V
      BY <1>3, <3>1
    <3> QED
      BY <1>5, <1>7, <2>2, <3>1, <3>2, Zenon DEF IsRecursion
  <2> QED
    BY <2>1, <2>2
<1>9. g = [i \in 0..n |-> IF i = 0 THEN <<>> ELSE Step(i, g[i - 1])]
  BY <1>8, Zenon
<1> QED
  BY <1>9, Zenon DEF IsListing, Step

\* The keys of the table, and those of its first i entries.
Keys(h) == {k \in Key : Present(h, k)}
KeysBelow(h, i) == {k \in Key : \E j \in Active(h) : j < i /\ KeyAt(h, j) = k}

\* The keys of the first i entries, each once.
Listed(v, h, i) == v \in Seq(Key) /\ ToSet(v) = KeysBelow(h, i) /\ Injective(v)

\* hashmap_getkeys() lists the keys of the table, each once.
LEMMA GetkeysExact ==
  ASSUME HashType, TableOK(hash, m)
  PROVE  ToSet(hashmap_getkeys) = Keys(m) /\ IsInjective(hashmap_getkeys)
<1> DEFINE n == m.size
           v == CHOOSE keys : IsListing(keys, m)
           T == {i \in Nat : i <= n => Listed(v[i], m, i)}
<1>1. n \in Nat /\ Active(m) \in SUBSET Slots(m)
  BY DEF TableOK, IsTable, Active
<1>2. IsListing(v, m)
  BY ListingExists, Zenon
<1>3. hashmap_getkeys = IF m.count = 0 THEN <<>> ELSE v[n]
  BY GetkeysIs
<1> HIDE DEF v
<1>4. v[0] = <<>>
  BY <1>1, <1>2 DEF IsListing
<1>5. ASSUME NEW i \in Nat, i < n PROVE v[i + 1] = IF i \in Active(m) THEN Append(v[i], KeyAt(m, i)) ELSE v[i]
  <2>1. i + 1 \in 0..n /\ i + 1 # 0 /\ (i + 1) - 1 = i /\ i \in Slots(m)
    BY <1>1, <1>5 DEF Slots
  <2> QED
    BY <1>2, <2>1, Zenon DEF IsListing, Active, KeyAt
<1>6. ToSet(<<>>) = {} /\ Injective(<<>>) /\ <<>> \in Seq(Key)
  BY DEF ToSet, Injective
<1>7. 0 \in T
  <2>1. KeysBelow(m, 0) = {}
    BY <1>1 DEF KeysBelow, Slots
  <2> QED
    BY <1>4, <1>6, <2>1, Zenon DEF Listed
<1>8. ASSUME NEW i \in Nat, i \in T PROVE i + 1 \in T
  <2> SUFFICES ASSUME i + 1 <= n PROVE Listed(v[i + 1], m, i + 1)
    OBVIOUS
  <2>1. i < n /\ Listed(v[i], m, i)
    BY <1>1, <1>8
  <2>2. \A j \in Active(m) : j < i + 1 <=> (j < i \/ j = i)
    BY <1>1 DEF Slots
  <2>3. CASE i \in Active(m)
    <3>1. KeyAt(m, i) \in Key
      BY <2>3 DEF TableOK
    <3>2. KeysBelow(m, i + 1) = KeysBelow(m, i) \cup {KeyAt(m, i)}
      BY <2>2, <2>3, <3>1, Zenon DEF KeysBelow
    <3>3. KeyAt(m, i) \notin KeysBelow(m, i)
      <4>1. \A j \in Active(m) : KeyAt(m, j) = KeyAt(m, i) => ~(j < i)
        BY <1>1, <2>3, KeyOnce
      <4> QED
        BY <4>1, Zenon DEF KeysBelow
    <3>4. v[i + 1] = Append(v[i], KeyAt(m, i))
      BY <1>5, <2>1, <2>3, Zenon
    <3>5. v[i] \in Seq(Key) /\ ToSet(v[i]) = KeysBelow(m, i) /\ Injective(v[i])
      BY <2>1, Zenon DEF Listed
    <3>6. /\ v[i + 1] \in Seq(Key) /\ ToSet(v[i + 1]) = ToSet(v[i]) \cup {KeyAt(m, i)}
          /\ Injective(v[i + 1])
      <4> DEFINE w == v[i]
                 k == KeyAt(m, i)
      <4>1. w \in Seq(Key) /\ k \in Key /\ Injective(w) /\ k \notin ToSet(w)
        BY <3>1, <3>3, <3>5, Zenon
      <4> HIDE DEF w, k
      <4>2. Append(w, k) \in Seq(Key) /\ ToSet(Append(w, k)) = ToSet(w) \cup {k} /\ Injective(Append(w, k))
        BY <4>1, AppendElement
      <4> QED
        BY <3>4, <4>2, Zenon DEF w, k
    <3> QED
      BY <3>2, <3>5, <3>6, Zenon DEF Listed
  <2>4. CASE i \notin Active(m)
    <3>1. KeysBelow(m, i + 1) = KeysBelow(m, i)
      BY <2>2, <2>4, Zenon DEF KeysBelow
    <3> QED
      BY <1>5, <2>1, <2>4, <3>1, Zenon DEF Listed
  <2> QED
    BY <2>3, <2>4
<1>9. Listed(v[n], m, n)
  <2>1. n \in T
    <3> HIDE DEF T
    <3> QED
      BY <1>1, <1>7, <1>8, SetInduction
  <2> QED
    BY <1>1, <2>1
<1>10. KeysBelow(m, n) = Keys(m)
  <2>1. \A j \in Active(m) : j < n
    BY <1>1 DEF Slots
  <2> QED
    BY <2>1, Zenon DEF KeysBelow, Keys, Present
<1>11. m.count = 0 => Keys(m) = {}
  <2>1. m.count = 0 => Active(m) = {}
    BY ActiveFinite, FS_EmptySet, Zenon DEF TableOK
  <2> QED
    BY <2>1, Zenon DEF Keys, Present
<1> QED
  BY <1>3, <1>6, <1>9, <1>10, <1>11, Zenon DEF Listed, Injective, IsInjective

\* hashmap_count() is the number of keys.
LEMMA CountExact ==
  ASSUME NEW h, TableOK(hash, h)
  PROVE  h.count = Cardinality(Keys(h))
<1> DEFINE f == [i \in Active(h) |-> KeyAt(h, i)]
<1>1. IsFiniteSet(Active(h)) /\ h.count = Cardinality(Active(h))
  BY ActiveFinite DEF TableOK
<1>2. \A i \in Active(h) : KeyAt(h, i) \in Keys(h)
  BY Zenon DEF TableOK, Keys, Present
<1>3. \A k \in Keys(h) : \E i \in Active(h) : KeyAt(h, i) = k
  BY Zenon DEF Keys, Present
<1>4. \A i, j \in Active(h) : KeyAt(h, i) = KeyAt(h, j) => i = j
  BY KeyOnce
<1>5. f \in Surjection(Active(h), Keys(h))
  BY <1>2, <1>3 DEF Surjection
<1>6. f \in Injection(Active(h), Keys(h))
  BY <1>2, <1>4 DEF Injection, IsInjective
<1> HIDE DEF f
<1> QED
  BY <1>1, <1>5, <1>6, FS_Surjection

-----------------------------------------------------------------------------
(***************************************************************************)
(* The map.                                                                *)
(***************************************************************************)

\* The inductive invariant.  An element was removed since the last rehash only
\* if one was removed at all: this is where the callers' discipline counts.
MapInv ==
  /\ HashType /\ TableOK(hash, m)
  /\ removed \in BOOLEAN /\ (~removed => NoneRemoved(m))
  /\ pairs \in Seq(Key \X Values) /\ HasPairs(m, pairs, Len(pairs))

\* The maps that hashmap_create and maparray_create make.
LEMMA MapInvInit == Init => MapInv
<1> SUFFICES ASSUME Init PROVE MapInv
  OBVIOUS
<1>1. HashType
  BY HashMapAssumption, Zenon DEF Init, HashType
<1>2. pairs \in Seq(Key \X Values)
  <2>1. ASSUME NEW n \in Nat, NEW p \in [1..n -> Key \X Values] PROVE p \in Seq(Key \X Values)
    OBVIOUS
  <2>2. <<>> \in Seq(Key \X Values)
    OBVIOUS
  <2> QED
    BY <2>1, <2>2, Zenon DEF Init
<1>3. PICK n \in StartSizes : m = maparray_create(NewTable(n), pairs)
  BY DEF Init
<1>4. TableOK(hash, NewTable(n)) /\ NoneRemoved(NewTable(n))
  BY HashMapAssumption, NewTableOK
<1>5. TableOK(hash, m) /\ NoneRemoved(m) /\ HasPairs(m, pairs, Len(pairs))
  BY <1>1, <1>2, <1>3, <1>4, MapArrayOK
<1> QED
  BY <1>1, <1>2, <1>5, Zenon DEF MapInv, Init

\* hashmap_insert under the callers' discipline.
LEMMA InsertStep ==
  ASSUME MapInv, NEW k \in Key, NEW d \in Data, InsertElement(k, d)
  PROVE  TableOK(hash, m') /\ IsInserted(m', m, k, d) /\ (NoneRemoved(m) => NoneRemoved(m'))
<1>1. NoneRemoved(m) \/ ~Present(m, k)
  <2>1. ~removed \/ hashmap_get(k) = NULL
    BY DEF InsertElement
  <2>2. GetExact
    BY GetIs DEF MapInv
  <2> QED
    BY <2>1, <2>2, Zenon DEF GetExact, MapInv
<1>2. m' = hashmap_insert(m, k, d)
  BY DEF InsertElement
<1>3. HashType /\ TableOK(hash, m) /\ d \in Data \cup Values
  BY DEF MapInv
<1> QED
  BY <1>1, <1>2, <1>3, InsertOK

\* hashmap_remove.
LEMMA RemoveStep ==
  ASSUME MapInv, NEW k \in Key, RemoveElement(k)
  PROVE  TableOK(hash, m') /\ IsRemoved(m', m, k)
<1>1. m' = hashmap_remove(k)
  BY DEF RemoveElement
<1>2. HashType /\ TableOK(hash, m)
  BY DEF MapInv
<1> QED
  BY <1>1, <1>2, RemoveOK

\* Both keep the invariant.
LEMMA MapInvNext == MapInv /\ [Next]_vars => MapInv'
<1> SUFFICES ASSUME MapInv, [Next]_vars PROVE MapInv'
  OBVIOUS
<1>1. ASSUME pairs = <<>>, UNCHANGED <<hash, pairs>>, TableOK(hash, m'), removed' \in BOOLEAN,
             ~removed' => NoneRemoved(m')
      PROVE  MapInv'
  <2>1. HasPairs(m', pairs', Len(pairs'))
    BY <1>1 DEF HasPairs
  <2>2. HashType' /\ TableOK(hash', m')
    BY <1>1 DEF MapInv, HashType
  <2>3. pairs' \in Seq(Key \X Values)
    BY <1>1 DEF MapInv
  <2> QED
    BY <1>1, <2>1, <2>2, <2>3 DEF MapInv
<1>2. ASSUME NEW k \in Key, NEW d \in Data, InsertElement(k, d) PROVE MapInv'
  <2>1. TableOK(hash, m') /\ (NoneRemoved(m) => NoneRemoved(m'))
    BY <1>2, InsertStep
  <2>2. pairs = <<>> /\ UNCHANGED <<hash, pairs, removed>>
    BY <1>2 DEF InsertElement
  <2> QED
    BY <1>1, <2>1, <2>2, Zenon DEF MapInv
<1>3. ASSUME NEW k \in Key, RemoveElement(k) PROVE MapInv'
  <2>1. TableOK(hash, m')
    BY <1>3, RemoveStep
  <2>2. pairs = <<>> /\ UNCHANGED <<hash, pairs>> /\ removed' = TRUE
    BY <1>3 DEF RemoveElement
  <2> QED
    BY <1>1, <2>1, <2>2, Zenon
<1>4. CASE UNCHANGED vars
  BY <1>4 DEF vars, MapInv, HashType
<1> QED
  BY <1>2, <1>3, <1>4 DEF Next

\* It holds in every state.
LEMMA MapInvariant == Spec => []MapInv
  BY MapInvInit, MapInvNext, PTL DEF Spec

\* hashmap_count and hashmap_getkeys agree with hashmap_get after any history of
\* inserts, removals, collisions and rehashes, for every hash function, and a
\* maparray has the values of its arrays.
THEOREM EntriesExactCorrect == Spec => []EntriesExact
<1>1. MapInv => EntriesExact
  <2> SUFFICES ASSUME MapInv PROVE EntriesExact
    OBVIOUS
  <2> DEFINE found == {k \in Key : hashmap_get(k) # NULL}
  <2>1. HashType /\ TableOK(hash, m) /\ GetExact
    BY GetIs DEF MapInv
  <2>2. found = Keys(m)
    BY <2>1, Zenon DEF GetExact, Keys
  <2>3. m.count = Cardinality(Keys(m))
    BY <2>1, CountExact
  <2>4. ToSet(hashmap_getkeys) = Keys(m) /\ IsInjective(hashmap_getkeys)
    BY <2>1, GetkeysExact
  <2>5. ASSUME NEW i \in DOMAIN pairs, \A j \in (i + 1)..Len(pairs) : pairs[j][1] # pairs[i][1]
        PROVE  hashmap_get(pairs[i][1]) = pairs[i][2]
    <3>1. pairs \in Seq(Key \X Values)
      BY DEF MapInv
    <3>2. i \in 1..Len(pairs) /\ pairs[i][1] \in Key /\ pairs[i][2] \in Data \cup Values
      BY <3>1
    <3>3. Holds(m, pairs[i][1], pairs[i][2])
      BY <2>5, <3>2, Zenon DEF MapInv, HasPairs
    <3> QED
      BY <2>1, <3>2, <3>3, Zenon DEF GetExact
  <2> HIDE DEF found
  <2> QED
    BY <2>2, <2>3, <2>4, <2>5, Zenon DEF EntriesExact, found
<1> QED
  BY <1>1, MapInvariant, PTL

\* In a table of prime size that is not full the double hashing of hashmap_insert
\* reaches every entry, so that it finds a place for every key.
THEOREM InsertFindsPlaceCorrect == Spec => []InsertFindsPlace
<1>1. MapInv => InsertFindsPlace
  BY PlaceFound DEF MapInv, InsertFindsPlace
<1> QED
  BY <1>1, MapInvariant, PTL

\* A key whose element in the table is the same is found with the same element.
LEMMA GetKept ==
  ASSUME GetExact, GetExact', NEW l \in Key, \A e \in Data \cup Values : Holds(m', l, e) <=> Holds(m, l, e)
  PROVE  hashmap_get(l)' = hashmap_get(l)
<1>1. /\ hashmap_get(l) \in Data \cup Values \cup {NULL}
      /\ \A d \in Data \cup Values : hashmap_get(l) = d <=> Holds(m, l, d)
  BY DEF GetExact
<1>2. /\ hashmap_get(l)' \in Data \cup Values \cup {NULL}
      /\ \A d \in Data \cup Values : hashmap_get(l)' = d <=> Holds(m', l, d)
  BY DEF GetExact
<1> QED
  BY <1>1, <1>2

\* Through hashmap_get the table is the map that hashmap.h promises.
THEOREM ImplementsMapCorrect == Spec => ImplementsMap
<1>1. MapInv => GetExact
  BY GetIs DEF MapInv
<1>2. MapInv /\ MapInv' /\ GetExact /\ GetExact' /\ [Next]_vars
        => [\A k \in Key : /\ RemoveElement(k) => Abstract!Remove(k)
                           /\ \A d \in Data : InsertElement(k, d) => Abstract!Insert(k, d)]_vars
  <2> SUFFICES ASSUME MapInv, GetExact, GetExact', NEW k \in Key
               PROVE  /\ RemoveElement(k) => Abstract!Remove(k)
                      /\ \A d \in Data : InsertElement(k, d) => Abstract!Insert(k, d)
    OBVIOUS
  <2>1. ASSUME RemoveElement(k) PROVE Abstract!Remove(k)
    <3>1. IsRemoved(m', m, k)
      BY <2>1, RemoveStep
    <3>2. hashmap_get(k)' = NULL
      BY <3>1 DEF IsRemoved, GetExact
    <3>3. \A l \in Key \ {k} : hashmap_get(l)' = hashmap_get(l)
      BY <3>1, GetKept DEF IsRemoved
    <3> QED
      BY <3>2, <3>3, Zenon DEF Abstract!Remove
  <2>2. ASSUME NEW d \in Data, InsertElement(k, d) PROVE Abstract!Insert(k, d)
    <3>1. IsInserted(m', m, k, d)
      BY <2>2, InsertStep
    <3>2. hashmap_get(k)' = d
      BY <3>1 DEF IsInserted, GetExact
    <3>3. \A l \in Key \ {k} : hashmap_get(l)' = hashmap_get(l)
      BY <3>1, GetKept DEF IsInserted
    <3> QED
      BY <3>2, <3>3, Zenon DEF Abstract!Insert
  <2> QED
    BY <2>1, <2>2
<1> QED
  BY <1>1, <1>2, MapInvariant, PTL DEF Spec, ImplementsMap

=============================================================================
