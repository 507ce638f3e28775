------------------------------- MODULE Basics -------------------------------
(***************************************************************************)
(* What the proofs share: induction over a set of numbers, values made one *)
(* from the other, sums of sequences and of folds, remainders, products    *)
(* and powers, lists and what comes of putting lists together.  The prover *)
(* does linear arithmetic by itself; what needs induction, or multiplies   *)
(* two unknown numbers, is stated here.                                    *)
(***************************************************************************)
EXTENDS Integers, SequencesExt, WellFoundedInduction, SequenceTheorems,
        TLAPS

(* A set of numbers has a least one.                                       *)
LEMMA Least ==
  ASSUME NEW T, T \in SUBSET Nat, T # {}
  PROVE  \E n \in T : \A m \in T : n <= m
<1> DEFINE R == {ss \in Nat \X Nat : ss[1] < ss[2]}
<1>1. IsWellFoundedOn(R, Nat)
  BY NatLessThanWellFounded, Zenon DEF OpToRel
<1>2. \A x, y \in Nat : x < y => <<x, y>> \in R
  OBVIOUS
<1> HIDE DEF R
<1>3. PICK n \in T : \A m \in T : ~(<<m, n>> \in R)
  BY <1>1, WFMin
<1>4. \A m \in T : ~(m < n)
  BY <1>2, <1>3
<1> QED
  BY <1>4

(* Induction, for a set of numbers in place of a predicate.                *)
LEMMA InductionOnSet ==
  ASSUME NEW S, 0 \in S, \A n \in Nat : n \in S => n + 1 \in S
  PROVE  \A n \in Nat : n \in S
<1> SUFFICES ASSUME NEW k \in Nat, k \notin S PROVE FALSE
  OBVIOUS
<1> DEFINE T == {n \in Nat : n \notin S}
<1>1. PICK n \in T : \A m \in T : n <= m
  BY Least
<1>2. n # 0 /\ n - 1 \in Nat /\ n - 1 \notin T
  BY <1>1
<1> QED
  BY <1>2

(* The greatest number of a set that stays below a bound.                  *)
LEMMA Greatest ==
  ASSUME NEW n \in Nat, NEW T, T \in SUBSET (1..n), T # {}
  PROVE  /\ Max(T) \in T
         /\ \A m \in T : m <= Max(T)
<1> DEFINE below == {n - m : m \in T}
<1>1. below \in SUBSET Nat /\ below # {}
  <2>1. \A m \in T : n - m \in Nat
    OBVIOUS
  <2>2. PICK m \in T : TRUE
    OBVIOUS
  <2>3. n - m \in below
    BY Zenon
  <2> QED
    BY <2>1, <2>3
<1>2. PICK least \in below : \A m \in below : least <= m
  BY <1>1, Least
<1>3. PICK k \in T : least = n - k
  BY Zenon
<1>4. \A m \in T : k >= m
  <2> TAKE m \in T
  <2>1. least <= n - m
    BY <1>2
  <2> QED
    BY <1>3, <2>1
<1>5. Max(T) \in T /\ \A m \in T : Max(T) >= m
  BY <1>4, Zenon DEF Max
<1> QED
  BY <1>5

(* Values that are each made from the one before.                          *)
Iterated(f, S, n, base, step) ==
  /\ f \in [0..n -> S] /\ f[0] = base
  /\ \A i \in 1..n : f[i] = step[<<i, f[i - 1]>>]

(* There are such values for every first one and every step.               *)
LEMMA Recursion ==
  ASSUME NEW S, NEW n \in Nat, NEW base \in S, NEW step \in [(1..n) \X S -> S]
  PROVE  \E f : Iterated(f, S, n, base, step)
<1> DEFINE T == {m \in Nat : m <= n => \E f : Iterated(f, S, m, base, step)}
<1>1. 0 \in T
  <2>1. Iterated([i \in 0..0 |-> base], S, 0, base, step)
    BY DEF Iterated
  <2> QED
    BY <2>1
<1>2. ASSUME NEW m \in Nat, m \in T
      PROVE  m + 1 \in T
  <2> SUFFICES ASSUME m + 1 <= n PROVE \E f : Iterated(f, S, m + 1, base, step)
    OBVIOUS
  <2>1. PICK f : Iterated(f, S, m, base, step)
    BY <1>2
  <2> DEFINE next == step[<<m + 1, f[m]>>]
             g == [i \in 0..(m + 1) |-> IF i = m + 1 THEN next ELSE f[i]]
  <2>2. m + 1 \in 1..n /\ f[m] \in S
    BY <2>1 DEF Iterated
  <2>3. next \in S
    BY <2>2
  <2>4. g \in [0..(m + 1) -> S]
    BY <2>1, <2>3 DEF Iterated
  <2>5. g[0] = base
    BY <2>1 DEF Iterated
  <2>6. ASSUME NEW i \in 1..(m + 1)
        PROVE  g[i] = step[<<i, g[i - 1]>>]
    <3>1. i - 1 \in 0..m /\ g[i - 1] = f[i - 1]
      OBVIOUS
    <3>2. CASE i = m + 1
      <4>1. i - 1 = m /\ g[i] = next
        BY <3>2
      <4> QED
        BY <3>1, <3>2, <4>1
    <3>3. CASE i # m + 1
      BY <2>1, <3>1, <3>3 DEF Iterated
    <3> QED
      BY <3>2, <3>3
  <2> HIDE DEF g
  <2>7. Iterated(g, S, m + 1, base, step)
    BY <2>4, <2>5, <2>6 DEF Iterated
  <2> QED
    BY <2>7
<1>3. n \in T
  <2> HIDE DEF T
  <2> QED
    BY <1>1, <1>2, InductionOnSet
<1> QED
  BY <1>3

(* What the first of them is in, and none leaves, all are in.              *)
LEMMA StaysIn ==
  ASSUME NEW S, NEW n \in Nat, NEW f, f[0] \in S, \A i \in 1..n : f[i - 1] \in S => f[i] \in S
  PROVE  \A i \in 0..n : f[i] \in S
<1> DEFINE T == {m \in Nat : m <= n => f[m] \in S}
<1>1. 0 \in T
  OBVIOUS
<1>2. ASSUME NEW m \in Nat, m \in T
      PROVE  m + 1 \in T
  <2> SUFFICES ASSUME m + 1 <= n PROVE f[m + 1] \in S
    OBVIOUS
  <2>1. m + 1 \in 1..n /\ (m + 1) - 1 = m /\ f[m] \in S
    BY <1>2
  <2>2. f[(m + 1) - 1] \in S => f[m + 1] \in S
    BY <2>1
  <2> QED
    BY <2>1, <2>2
<1> HIDE DEF T
<1>3. \A m \in Nat : m \in T
  BY <1>1, <1>2, InductionOnSet
<1> QED
  BY <1>3 DEF T

-----------------------------------------------------------------------------
(* The sums of the first values of a sequence.                             *)
Sums(values, n, sums) ==
  /\ values \in [1..n -> Int]
  /\ sums \in [0..n -> Int] /\ sums[0] = 0
  /\ \A i \in 1..n : sums[i] = sums[i - 1] + values[i]

(* Every sequence of numbers has its sums.                                 *)
LEMMA SumsExist ==
  ASSUME NEW n \in Nat, NEW values \in [1..n -> Int]
  PROVE  \E sums : Sums(values, n, sums)
<1> DEFINE step == [s \in (1..n) \X Int |-> s[2] + values[s[1]]]
<1>1. step \in [(1..n) \X Int -> Int]
  OBVIOUS
<1>2. \A i \in 1..n, x \in Int : step[<<i, x>>] = x + values[i]
  OBVIOUS
<1> HIDE DEF step
<1>3. PICK f : Iterated(f, Int, n, 0, step)
  <2>1. 0 \in Int
    OBVIOUS
  <2> QED
    BY <1>1, <2>1, Recursion, Zenon
<1>4. \A i \in 1..n : i - 1 \in 0..n /\ f[i - 1] \in Int
  BY <1>3 DEF Iterated
<1>5. Sums(values, n, f)
  BY <1>2, <1>3, <1>4 DEF Sums, Iterated
<1> QED
  BY <1>5

(* A fold from the left that adds up, which is a recursion over the sets of
   places.                                                                 *)
IsFold(iter, values, n) ==
  iter = [s \in SUBSET (1..n) |-> IF s = {} THEN 0 ELSE iter[s \ {Max(s)}] + values[Max(s)]]

(* There is such a recursion for every sequence of numbers.                *)
LEMMA FoldExists ==
  ASSUME NEW n \in Nat, NEW values \in [1..n -> Int]
  PROVE  \E iter : IsFold(iter, values, n)
<1> DEFINE T == {m \in Nat : m <= n => \E iter : IsFold(iter, values, m)}
<1>1. 0 \in T
  <2>1. IsFold([s \in SUBSET (1..0) |-> 0], values, 0)
    <3>1. \A s \in SUBSET (1..0) : s = {}
      OBVIOUS
    <3> QED
      BY <3>1 DEF IsFold
  <2> QED
    BY <2>1
<1>2. ASSUME NEW m \in Nat, m \in T
      PROVE  m + 1 \in T
  <2> SUFFICES ASSUME m + 1 <= n PROVE \E iter : IsFold(iter, values, m + 1)
    OBVIOUS
  <2>1. PICK iter : IsFold(iter, values, m)
    BY <1>2
  <2> DEFINE more == [s \in SUBSET (1..(m + 1)) |->
                        IF m + 1 \in s THEN iter[s \ {m + 1}] + values[m + 1] ELSE iter[s]]
  <2>2. ASSUME NEW s \in SUBSET (1..(m + 1))
        PROVE  more[s] = IF s = {} THEN 0 ELSE more[s \ {Max(s)}] + values[Max(s)]
    <3>1. CASE s = {}
      <4>1. s \in SUBSET (1..m) /\ m + 1 \notin s
        BY <3>1
      <4>2. iter[s] = 0
        BY <2>1, <3>1, <4>1 DEF IsFold
      <4> QED
        BY <3>1, <4>1, <4>2
    <3>2. CASE m + 1 \in s
      <4>1. Max(s) \in s /\ \A x \in s : x <= Max(s)
        <5>1. m + 1 \in Nat
          OBVIOUS
        <5> QED
          BY <3>2, <5>1, Greatest, Zenon
      <4>2. Max(s) = m + 1
        <5>1. Max(s) \in Int /\ Max(s) <= m + 1
          <6>1. \A x \in s : x \in Int /\ x <= m + 1
            OBVIOUS
          <6> QED
            BY <4>1, <6>1
        <5>2. m + 1 <= Max(s)
          BY <3>2, <4>1
        <5> QED
          BY <5>1, <5>2
      <4>3. s \ {m + 1} \in SUBSET (1..(m + 1)) /\ m + 1 \notin s \ {m + 1}
        OBVIOUS
      <4>4. more[s \ {m + 1}] = iter[s \ {m + 1}]
        BY <4>3
      <4>5. more[s] = iter[s \ {m + 1}] + values[m + 1]
        BY <3>2
      <4> HIDE DEF more
      <4> QED
        BY <3>2, <4>2, <4>4, <4>5
    <3>3. CASE s # {} /\ m + 1 \notin s
      <4>1. s \in SUBSET (1..m)
        BY <3>3
      <4>2. Max(s) \in s
        BY <3>3, <4>1, Greatest, Zenon
      <4>3. s \ {Max(s)} \in SUBSET (1..(m + 1)) /\ m + 1 \notin s \ {Max(s)}
        BY <3>3
      <4>4. more[s] = iter[s] /\ more[s \ {Max(s)}] = iter[s \ {Max(s)}]
        BY <3>3, <4>3
      <4>5. iter[s] = iter[s \ {Max(s)}] + values[Max(s)]
        BY <2>1, <3>3, <4>1 DEF IsFold
      <4> HIDE DEF more
      <4> QED
        BY <3>3, <4>4, <4>5
    <3> QED
      BY <3>1, <3>2, <3>3
  <2>3. more = [s \in SUBSET (1..(m + 1)) |-> more[s]]
    OBVIOUS
  <2> HIDE DEF more
  <2>4. more = [s \in SUBSET (1..(m + 1)) |-> IF s = {} THEN 0 ELSE more[s \ {Max(s)}] + values[Max(s)]]
    BY <2>2, <2>3
  <2> QED
    BY <2>4 DEF IsFold
<1>3. n \in T
  <2> HIDE DEF T
  <2> QED
    BY <1>1, <1>2, InductionOnSet
<1> QED
  BY <1>3

(* A fold that adds gives the last of the sums.                            *)
LEMMA FoldIsSum ==
  ASSUME NEW n \in Nat, NEW values, NEW sums, Sums(values, n, sums)
  PROVE  FoldLeft(LAMBDA a, b : a + b, 0, values) = sums[n]
<1> DEFINE iter == CHOOSE f : IsFold(f, values, n)
<1>1. DOMAIN values = 1..n /\ values \in [1..n -> Int]
  BY DEF Sums
<1>2. IsFold(iter, values, n)
  BY <1>1, FoldExists, Zenon
<1>3. FoldLeft(LAMBDA a, b : a + b, 0, values) = iter[1..n]
  BY <1>1, Zenon DEF FoldLeft, MapThenFoldSet, IsFold
<1> HIDE DEF iter
<1> DEFINE T == {m \in Nat : m <= n => iter[1..m] = sums[m]}
<1>4. 0 \in T
  <2>1. 1..0 = {} /\ 1..0 \in SUBSET (1..n)
    OBVIOUS
  <2> QED
    BY <1>2, <2>1 DEF IsFold, Sums
<1>5. ASSUME NEW m \in Nat, m \in T
      PROVE  m + 1 \in T
  <2> SUFFICES ASSUME m + 1 <= n PROVE iter[1..(m + 1)] = sums[m + 1]
    OBVIOUS
  <2> DEFINE s == 1..(m + 1)
  <2>1. s \in SUBSET (1..n) /\ m + 1 \in s /\ s # {} /\ s \ {m + 1} = 1..m
    OBVIOUS
  <2>2. Max(s) = m + 1
    <3>1. m + 1 \in Nat /\ s \in SUBSET (1..(m + 1))
      OBVIOUS
    <3>2. Max(s) \in s /\ \A x \in s : x <= Max(s)
      BY <2>1, <3>1, Greatest, Zenon
    <3> QED
      BY <3>2
  <2>3. iter[s] = iter[s \ {Max(s)}] + values[Max(s)]
    <3> HIDE DEF s
    <3> QED
      BY <1>2, <2>1 DEF IsFold
  <2>4. iter[s] = iter[1..m] + values[m + 1]
    BY <2>1, <2>2, <2>3
  <2>5. iter[1..m] = sums[m] /\ sums[m + 1] = sums[m] + values[m + 1]
    <3>1. m + 1 \in 1..n /\ (m + 1) - 1 = m /\ m <= n
      OBVIOUS
    <3> QED
      BY <1>5, <3>1 DEF Sums
  <2> QED
    BY <2>4, <2>5
<1>6. n \in T
  <2> HIDE DEF T
  <2> QED
    BY <1>4, <1>5, InductionOnSet
<1>7. iter[1..n] = sums[n]
  BY <1>6
<1> QED
  BY <1>3, <1>7, Zenon

-----------------------------------------------------------------------------
(* What has no remainder is a multiple.                                    *)
LEMMA Quotient ==
  ASSUME NEW a \in Int, NEW n \in Nat \ {0}, a % n = 0
  PROVE  \E k \in Int : a = k * n
<1>1. a = n * (a \div n) + (a % n) /\ a \div n \in Int
  OBVIOUS
<1> DEFINE k == a \div n
<1>2. k \in Int /\ a = n * k + 0
  BY <1>1
<1> HIDE DEF k
<1>3. a = k * n
  BY <1>2
<1> QED
  BY <1>2, <1>3

(* What is below the divisor is its own remainder.                         *)
LEMMA SmallRemainder ==
  ASSUME NEW a \in Nat, NEW n \in Nat \ {0}, a < n
  PROVE  a % n = a
OBVIOUS

(* Two numbers below n that differ by a multiple of n are equal.           *)
LEMMA NoMultiple ==
  ASSUME NEW a \in Nat, NEW b \in Nat, NEW n \in Nat \ {0}, NEW k \in Int,
         a < n, b < n, a = b + k * n
  PROVE  a = b
<1>1. CASE k >= 1
  <2>1. k * n >= n
    BY <1>1
  <2> QED
    BY <2>1
<1>2. CASE k <= -1
  <2>1. (-k) * n >= n
    BY <1>2
  <2>2. (-k) * n = -(k * n)
    OBVIOUS
  <2> QED
    BY <2>1, <2>2
<1>3. CASE k = 0
  BY <1>3
<1> QED
  BY <1>1, <1>2, <1>3

(* A common factor can be cancelled.                                       *)
LEMMA Cancel ==
  ASSUME NEW a \in Nat, NEW b \in Nat, NEW c \in Nat \ {0}, a * c < b * c
  PROVE  a < b
<1> SUFFICES ASSUME a >= b PROVE FALSE
  OBVIOUS
<1>1. a * c >= b * c
  OBVIOUS
<1> QED
  BY <1>1

(* Multiplying by the same keeps the order.                                *)
LEMMA ProductsGrow ==
  ASSUME NEW a \in Nat, NEW b \in Nat, NEW c \in Nat, a <= b
  PROVE  a * c <= b * c
OBVIOUS

(* However a number is split into a multiple of n and less than n, the
   rest is its remainder.                                                  *)
LEMMA UniqueRemainder ==
  ASSUME NEW a \in Int, NEW n \in Nat \ {0}, NEW k \in Int, NEW r \in 0..(n - 1),
         a = k * n + r
  PROVE  a % n = r
<1>1. a = n * (a \div n) + (a % n) /\ a \div n \in Int /\ a % n \in Nat /\ a % n < n
  OBVIOUS
<1> DEFINE q == a \div n
           s == a % n
<1>2. q \in Int /\ s \in Nat /\ s < n /\ a = n * q + s
  BY <1>1
<1> HIDE DEF q, s
<1>3. s = r + (k - q) * n
  <2>1. (k - q) * n = k * n - q * n /\ n * q = q * n
    BY <1>2
  <2> QED
    BY <1>2, <2>1
<1>4. k - q \in Int
  BY <1>2
<1>5. s = r
  BY <1>2, <1>3, <1>4, NoMultiple
<1> QED
  BY <1>5 DEF s

(* Reducing before adding changes nothing modulo n.                        *)
LEMMA SumOfRemainders ==
  ASSUME NEW a \in Int, NEW b \in Int, NEW n \in Nat \ {0}
  PROVE  ((a % n) + (b % n)) % n = (a + b) % n
<1> DEFINE p == a \div n
           r == a % n
           q == b \div n
           s == b % n
           t == (r + s) \div n
           u == (r + s) % n
<1>1. p \in Int /\ r \in Nat /\ r < n /\ a = n * p + r
  OBVIOUS
<1>2. q \in Int /\ s \in Nat /\ s < n /\ b = n * q + s
  OBVIOUS
<1>3. t \in Int /\ u \in Nat /\ u < n /\ r + s = n * t + u
  BY <1>1, <1>2
<1> HIDE DEF p, q, r, s, t, u
<1>4. a + b = (p + q + t) * n + u
  <2>1. (p + q + t) * n = n * p + n * q + n * t
    BY <1>1, <1>2, <1>3
  <2> QED
    BY <1>1, <1>2, <1>3, <2>1
<1>5. (a + b) % n = u
  <2> DEFINE c == a + b
             k == p + q + t
  <2>1. c \in Int /\ k \in Int /\ u \in 0..(n - 1) /\ c = k * n + u
    BY <1>1, <1>2, <1>3, <1>4
  <2> HIDE DEF c, k
  <2>2. c % n = u
    BY <2>1, UniqueRemainder
  <2> QED
    BY <2>2 DEF c
<1> QED
  BY <1>5 DEF r, s, u

(* Only zero is a multiple of n between -n and n.                          *)
LEMMA SmallMultiple ==
  ASSUME NEW a \in Int, NEW n \in Nat \ {0}, a % n = 0, -n < a, a < n
  PROVE  a = 0
<1>1. PICK k \in Int : a = k * n
  BY Quotient
<1>2. CASE a >= 0
  <2>1. a \in Nat /\ 0 \in Nat /\ 0 < n /\ a = 0 + k * n
    BY <1>1, <1>2
  <2> QED
    BY <2>1, NoMultiple
<1>3. CASE a < 0
  <2>1. -a \in Nat /\ -k \in Int /\ -a < n
    BY <1>3
  <2>2. -a = 0 + (-k) * n
    BY <1>1
  <2>3. -a = 0
    BY <2>1, <2>2, NoMultiple
  <2> QED
    BY <2>3
<1> QED
  BY <1>2, <1>3

(* Two numbers packed into one, and back.                                  *)
LEMMA PackedIsSmall ==
  ASSUME NEW low \in Nat, NEW high \in Nat, NEW m \in Nat \ {0}, NEW h \in Nat,
         low < m, high < h
  PROVE  low + high * m \in Nat /\ low + high * m < m * h
<1>1. high * m <= (h - 1) * m
  <2>1. h - 1 \in Nat /\ high <= h - 1
    OBVIOUS
  <2> QED
    BY <2>1, ProductsGrow
<1>2. (h - 1) * m = m * h - m
  OBVIOUS
<1>3. high * m \in Nat
  OBVIOUS
<1> QED
  BY <1>1, <1>2, <1>3

(* What was packed below a power can be read back, and what above.         *)
LEMMA UnpacksAsPacked ==
  ASSUME NEW low \in Nat, NEW high \in Nat, NEW m \in Nat \ {0}, low < m
  PROVE  /\ (low + high * m) % m = low
         /\ (low + high * m) \div m = high
<1> DEFINE a == low + high * m
           q == a \div m
           s == a % m
<1>1. a \in Int /\ a = high * m + low /\ low \in 0..(m - 1)
  OBVIOUS
<1>2. q \in Int /\ s \in Nat /\ a = m * q + s
  BY <1>1
<1>3. s = low
  <2> HIDE DEF a, q
  <2> QED
    BY <1>1, UniqueRemainder
<1> HIDE DEF a, q, s
<1>4. m * (q - high) = 0
  <2>1. m * (q - high) = m * q - high * m
    BY <1>2
  <2> QED
    BY <1>1, <1>2, <1>3, <2>1
<1>5. q = high
  BY <1>2, <1>4
<1> QED
  BY <1>3, <1>5 DEF a, q, s
(* A multiple does not change the remainder, and adds to the quotient.     *)
LEMMA WithMultiple ==
  ASSUME NEW a \in Nat, NEW b \in Nat, NEW n \in Nat \ {0}
  PROVE  (a + b * n) \div n = (a \div n) + b /\ (a + b * n) % n = a % n
<1> DEFINE q == a \div n
           r == a % n
<1>1. q \in Nat /\ r \in Nat /\ r < n /\ a = n * q + r
  OBVIOUS
<1> HIDE DEF q, r
<1>2. q + b \in Nat /\ a + b * n = r + (q + b) * n
  <2>1. (q + b) * n = n * q + b * n
    BY <1>1
  <2> QED
    BY <1>1, <2>1
<1> DEFINE s == q + b
<1>3. s \in Nat
  BY <1>2
<1> HIDE DEF s
<1>4. (r + s * n) % n = r /\ (r + s * n) \div n = s
  BY <1>1, <1>3, UnpacksAsPacked
<1> QED
  BY <1>2, <1>4 DEF s, q, r

(* The digits of a number to a base, p[j] being the j-th power of it.      *)
Powers(p, S, n) ==
  /\ S \in Nat \ {0} /\ \A j \in 0..n : p[j] \in Nat \ {0}
  /\ \A j \in 0..(n - 1) : p[j + 1] = p[j] * S

(* A power is a multiple of the power after each lower one.                *)
LEMMA HigherPowers ==
  ASSUME NEW n \in Nat, NEW S, NEW p, Powers(p, S, n), NEW k \in 0..n, NEW j \in 0..n, j < k
  PROVE  \E m \in Nat : p[k] = (p[j] * S) * m
<1> DEFINE T == {d \in Nat : j + 1 + d <= n => \E m \in Nat : p[j + 1 + d] = (p[j] * S) * m}
<1>1. 0 \in T
  <2>1. j \in 0..(n - 1) /\ j + 1 + 0 = j + 1
    OBVIOUS
  <2>2. p[j + 1] = p[j] * S /\ p[j] * S \in Nat
    BY <2>1 DEF Powers
  <2>3. p[j] * S = (p[j] * S) * 1
    BY <2>2
  <2> QED
    BY <2>1, <2>2, <2>3
<1>2. ASSUME NEW d \in Nat, d \in T
      PROVE  d + 1 \in T
  <2> SUFFICES ASSUME j + 1 + (d + 1) <= n
               PROVE  \E m \in Nat : p[j + 1 + (d + 1)] = (p[j] * S) * m
    OBVIOUS
  <2>1. PICK m \in Nat : p[j + 1 + d] = (p[j] * S) * m
    BY <1>2
  <2>2. j + 1 + d \in 0..(n - 1) /\ (j + 1 + d) + 1 = j + 1 + (d + 1)
    OBVIOUS
  <2>3. p[j + 1 + (d + 1)] = p[j + 1 + d] * S
    BY <2>2 DEF Powers
  <2> DEFINE q == p[j] * S
  <2>4. q \in Nat /\ S \in Nat
    BY DEF Powers
  <2> HIDE DEF q
  <2>5. (q * m) * S = q * (m * S) /\ m * S \in Nat
    BY <2>4
  <2> QED
    BY <2>1, <2>3, <2>5 DEF q
<1> HIDE DEF T
<1>3. \A d \in Nat : d \in T
  BY <1>1, <1>2, InductionOnSet
<1>4. k - (j + 1) \in T /\ j + 1 + (k - (j + 1)) = k /\ k <= n
  <2>1. k - (j + 1) \in Nat
    OBVIOUS
  <2> QED
    BY <1>3, <2>1
<1> QED
  BY <1>4 DEF T

(* A digit in front leaves those behind it as they are.                    *)
LEMMA LowerDigits ==
  ASSUME NEW n \in Nat, NEW S, NEW p, Powers(p, S, n), NEW k \in 0..n, NEW j \in 0..n, j < k,
         NEW rem \in Nat, NEW digit \in Nat
  PROVE  ((rem + digit * p[k]) \div p[j]) % S = (rem \div p[j]) % S
<1> DEFINE P == p[j]
           q == rem \div P
<1>1. S \in Nat \ {0} /\ P \in Nat \ {0}
  BY DEF Powers
<1>2. PICK m \in Nat : p[k] = (P * S) * m
  BY HigherPowers
<1> HIDE DEF P
<1>3. q \in Nat
  BY <1>1
<1> HIDE DEF q
<1> DEFINE c == digit * m
<1>4. c \in Nat /\ digit * ((P * S) * m) = (c * S) * P
  BY <1>1, <1>2
<1> HIDE DEF c
<1> DEFINE b == c * S
<1>5. b \in Nat
  BY <1>1, <1>4
<1> HIDE DEF b
<1>6. (rem + b * P) \div P = (rem \div P) + b
  BY <1>1, <1>5, WithMultiple
<1>7. (q + c * S) % S = q % S
  BY <1>1, <1>3, <1>4, WithMultiple
<1>8. rem + digit * p[k] = rem + b * P
  BY <1>2, <1>4 DEF b
<1>9. ((rem + digit * p[k]) \div P) % S = (q + c * S) % S
  BY <1>6, <1>8 DEF b, q
<1> QED
  BY <1>7, <1>9 DEF P, q

(* A digit put in front of a number is read back as its top digit.         *)
LEMMA TopDigit ==
  ASSUME NEW P \in Nat \ {0}, NEW S \in Nat \ {0}, NEW rem \in Nat, rem < P,
         NEW digit \in 0..(S - 1)
  PROVE  ((rem + digit * P) \div P) % S = digit
<1>1. (rem + digit * P) \div P = digit
  BY UnpacksAsPacked
<1>2. digit % S = digit
  BY SmallRemainder
<1> QED
  BY <1>1, <1>2

(* The sum of so many numbers, none above a bound.                         *)
LEMMA SumIsBounded ==
  ASSUME NEW n \in Nat, NEW values \in [1..n -> Nat], NEW b \in Nat,
         \A i \in 1..n : values[i] <= b, NEW sums, Sums(values, n, sums)
  PROVE  sums[n] \in Nat /\ sums[n] <= n * b
<1> DEFINE T == {m \in Nat : m <= n => sums[m] \in Nat /\ sums[m] <= m * b}
<1>1. 0 \in T
  <2>1. sums[0] = 0 /\ 0 * b = 0
    BY DEF Sums
  <2> QED
    BY <2>1
<1>2. ASSUME NEW m \in Nat, m \in T
      PROVE  m + 1 \in T
  <2> SUFFICES ASSUME m + 1 <= n PROVE sums[m + 1] \in Nat /\ sums[m + 1] <= (m + 1) * b
    OBVIOUS
  <2>1. sums[m] \in Nat /\ sums[m] <= m * b
    BY <1>2
  <2>2. m + 1 \in 1..n /\ (m + 1) - 1 = m
    OBVIOUS
  <2>3. sums[m + 1] = sums[m] + values[m + 1] /\ values[m + 1] \in Nat /\ values[m + 1] <= b
    BY <2>2 DEF Sums
  <2>4. (m + 1) * b = m * b + b /\ m * b \in Nat
    OBVIOUS
  <2> QED
    BY <2>1, <2>3, <2>4
<1> HIDE DEF T
<1>3. n \in T
  BY <1>1, <1>2, InductionOnSet
<1> QED
  BY <1>3 DEF T

(* The first m and the last n of a sequence, and what is in both together. *)
CutInto(all, m, n, s, u) ==
  /\ s \in [1..m -> Nat] /\ u \in [1..n -> Nat]
  /\ \A i \in 1..m : i \in 1..(m + n) /\ s[i] = all[i]
  /\ \A i \in 1..n : m + i \in 1..(m + n) /\ u[i] = all[m + i]
  /\ ToSet(s \o u) = {all[i] : i \in 1..(m + n)}

(* A sequence cut in two.                                                  *)
LEMMA Halves ==
  ASSUME NEW m \in Nat \ {0}, NEW n \in Nat \ {0}, NEW all \in [1..(m + n) -> Nat],
         NEW s, s = SubSeq(all, 1, m), NEW u, u = SubSeq(all, m + 1, m + n)
  PROVE  CutInto(all, m, n, s, u)
<1>1. m \in Nat \ {0} /\ n \in Nat \ {0}
  OBVIOUS
<1>2. all \in [1..(m + n) -> Nat]
  OBVIOUS
<1>3. s = SubSeq(all, 1, m) /\ u = SubSeq(all, m + 1, m + n)
  OBVIOUS
<1>4. s \in Seq(Nat) /\ Len(s) = m /\ \A i \in 1..m : s[i] = all[i]
  <2>1. 1 <= m /\ m - 1 + 1 = m /\ (\A i \in 1..m : all[i] \in Nat) /\ \A i \in 1..m : 1 + i - 1 = i
    BY <1>1, <1>2
  <2> QED
    BY <1>1, <1>3, <2>1, SubSeqProperties
<1>5. u \in Seq(Nat) /\ Len(u) = n /\ \A i \in 1..n : u[i] = all[m + i]
  <2> DEFINE k == m + 1
             l == m + n
  <2>1. /\ k \in Int /\ l \in Int /\ k <= l /\ l - k + 1 = n
        /\ \A i \in k..l : all[i] \in Nat
        /\ \A i \in 1..n : k + i - 1 = m + i
    BY <1>1, <1>2
  <2>2. u = SubSeq(all, k, l)
    BY <1>3
  <2> HIDE DEF k, l
  <2>3. SubSeq(all, k, l) \in Seq(Nat)
    BY <2>1, SubSeqProperties
  <2>4. Len(u) = n
    <3>1. Len(SubSeq(all, k, l)) = l - k + 1
      BY <2>1, SubSeqProperties
    <3> QED
      BY <2>1, <2>2, <3>1
  <2>5. \A i \in 1..n : u[i] = all[k + i - 1]
    BY <1>1, <2>1, <2>2, SubSeqProperties
  <2> QED
    BY <2>1, <2>2, <2>3, <2>4, <2>5
<1>6. /\ s \in [1..m -> Nat] /\ u \in [1..n -> Nat]
      /\ \A i \in 1..m : i \in 1..(m + n)
      /\ \A i \in 1..n : m + i \in 1..(m + n)
  <2>1. s \in [1..m -> Nat]
    BY <1>4, LenProperties
  <2>2. u \in [1..n -> Nat]
    BY <1>5, LenProperties
  <2>3. /\ \A i \in 1..m : i \in 1..(m + n)
        /\ \A i \in 1..n : m + i \in 1..(m + n)
    BY <1>1
  <2> QED
    BY <2>1, <2>2, <2>3
<1>7. ToSet(s \o u) = {all[i] : i \in 1..(m + n)}
  <2> DEFINE t == s \o u
  <2>1. /\ t \in Seq(Nat) /\ Len(t) = m + n
        /\ \A i \in 1..Len(t) : t[i] = IF i <= Len(s) THEN s[i] ELSE u[i - Len(s)]
    <3>1. s \in Seq(Nat) /\ u \in Seq(Nat)
      BY <1>4, <1>5
    <3>2. /\ t \in Seq(Nat) /\ Len(t) = Len(s) + Len(u)
          /\ \A i \in 1..(Len(s) + Len(u)) : t[i] = IF i <= Len(s) THEN s[i] ELSE u[i - Len(s)]
      BY <3>1, ConcatProperties
    <3> HIDE DEF t
    <3> QED
      BY <1>4, <1>5, <3>2
  <2> HIDE DEF t
  <2>2. DOMAIN t = 1..(m + n)
    BY <2>1, LenProperties
  <2>3. ASSUME NEW i \in 1..(m + n) PROVE t[i] = all[i]
    <3>1. CASE i <= m
      BY <1>1, <1>4, <2>1, <3>1
    <3>2. CASE ~(i <= m)
      <4>1. i - m \in 1..n /\ m + (i - m) = i
        BY <1>1, <3>2
      <4> QED
        BY <1>4, <1>5, <2>1, <3>2, <4>1
    <3> QED
      BY <3>1, <3>2
  <2>4. ToSet(t) = {t[i] : i \in 1..(m + n)}
    BY <2>2 DEF ToSet
  <2> QED
    BY <2>3, <2>4 DEF t
<1> QED
  BY <1>4, <1>5, <1>6, <1>7 DEF CutInto

(* A sum of so many small values that it is below f is the same modulo f.  *)
LEMMA FoldDoesNotWrap ==
  ASSUME NEW n \in Nat, NEW b \in Nat, NEW f \in Nat \ {0}, n * b < f,
         NEW s \in [1..n -> Nat], \A i \in 1..n : s[i] < b
  PROVE  /\ FoldLeft(LAMBDA x, y : x + y, 0, s) \in Nat
         /\ FoldLeft(LAMBDA x, y : x + y, 0, s) % f = FoldLeft(LAMBDA x, y : x + y, 0, s)
<1> DEFINE total == FoldLeft(LAMBDA x, y : x + y, 0, s)
<1>1. s \in [1..n -> Int] /\ \A i \in 1..n : s[i] <= b
  OBVIOUS
<1>2. PICK sums : Sums(s, n, sums)
  BY <1>1, SumsExist
<1>3. sums[n] \in Nat /\ sums[n] <= n * b
  BY <1>1, <1>2, SumIsBounded
<1>4. total = sums[n]
  BY <1>2, FoldIsSum, Zenon
<1>5. sums[n] < f
  <2>1. n * b \in Nat
    OBVIOUS
  <2> QED
    BY <1>3, <2>1
<1> HIDE DEF total
<1> QED
  BY <1>3, <1>4, <1>5, SmallRemainder DEF total

(* Digits with their weights add up to less than the next power.           *)
LEMMA DigitsStayBelow ==
  ASSUME NEW n \in Nat, NEW S, NEW p, Powers(p, S, n), p[0] = 1,
         NEW terms, NEW sums, Sums(terms, n, sums),
         \A j \in 1..n : \E digit \in 0..(S - 1) : terms[j] = digit * p[j - 1]
  PROVE  sums[n] \in Nat /\ sums[n] < p[n]
<1> DEFINE T == {m \in Nat : m <= n => sums[m] \in Nat /\ sums[m] < p[m]}
<1>1. 0 \in T
  BY DEF Sums
<1>2. ASSUME NEW m \in Nat, m \in T
      PROVE  m + 1 \in T
  <2> SUFFICES ASSUME m + 1 <= n PROVE sums[m + 1] \in Nat /\ sums[m + 1] < p[m + 1]
    OBVIOUS
  <2>1. sums[m] \in Nat /\ sums[m] < p[m]
    BY <1>2
  <2>2. m + 1 \in 1..n /\ (m + 1) - 1 = m /\ m \in 0..n /\ m \in 0..(n - 1)
    OBVIOUS
  <2>3. PICK digit \in 0..(S - 1) : terms[m + 1] = digit * p[m]
    BY <2>2
  <2>4. sums[m + 1] = sums[m] + digit * p[m]
    BY <2>2, <2>3 DEF Sums
  <2>5. S \in Nat \ {0} /\ p[m] \in Nat \ {0} /\ p[m + 1] = p[m] * S
    BY <2>2 DEF Powers
  <2> DEFINE s == sums[m]
             w == p[m]
  <2>6. s \in Nat /\ w \in Nat \ {0} /\ s < w /\ digit \in Nat /\ digit < S /\ S \in Nat
    BY <2>1, <2>3, <2>5
  <2> HIDE DEF s, w
  <2>7. s + digit * w \in Nat /\ s + digit * w < w * S
    BY <2>6, PackedIsSmall
  <2> QED
    BY <2>4, <2>5, <2>7 DEF s, w
<1> HIDE DEF T
<1>3. n \in T
  BY <1>1, <1>2, InductionOnSet
<1> QED
  BY <1>3 DEF T

(* The lowest digits of a number with their weights are its remainder.     *)
LEMMA DigitsMakeUp ==
  ASSUME NEW n \in Nat, NEW S, NEW p, Powers(p, S, n), p[0] = 1, NEW v \in Nat,
         NEW terms, NEW sums, Sums(terms, n, sums),
         \A j \in 1..n : terms[j] = ((v \div p[j - 1]) % S) * p[j - 1]
  PROVE  sums[n] = v % p[n]
<1> DEFINE T == {m \in Nat : m <= n => sums[m] = v % p[m]}
<1>1. 0 \in T
  <2>1. v % 1 = 0
    OBVIOUS
  <2> QED
    BY <2>1 DEF Sums
<1>2. ASSUME NEW m \in Nat, m \in T
      PROVE  m + 1 \in T
  <2> SUFFICES ASSUME m + 1 <= n PROVE sums[m + 1] = v % p[m + 1]
    OBVIOUS
  <2> DEFINE w == p[m]
             r == v % w
             q == v \div w
             d == q % S
             c == q \div S
  <2>1. m + 1 \in 1..n /\ (m + 1) - 1 = m /\ m \in 0..n /\ m \in 0..(n - 1)
    OBVIOUS
  <2>2. S \in Nat \ {0} /\ w \in Nat \ {0} /\ p[m + 1] = w * S
    BY <2>1 DEF Powers
  <2>3. sums[m + 1] = r + d * w
    BY <1>2, <2>1 DEF Sums
  <2> HIDE DEF w
  <2>4. q \in Nat /\ r \in Nat /\ r < w /\ v = w * q + r
    BY <2>2
  <2> HIDE DEF q, r
  <2>5. c \in Nat /\ d \in Nat /\ d < S /\ q = S * c + d
    BY <2>2, <2>4
  <2> HIDE DEF c, d
  <2> DEFINE rest == r + d * w
             next == w * S
  <2>6. rest \in Nat /\ rest < next
    BY <2>2, <2>4, <2>5, PackedIsSmall
  <2>7. next \in Nat \ {0} /\ v = c * next + rest
    <3>1. w * (S * c + d) = c * (w * S) + d * w
      BY <2>2, <2>5
    <3>2. w * S \in Nat \ {0}
      <4>1. 1 * S <= w * S
        BY <2>2, ProductsGrow
      <4>2. 1 * S = S /\ w * S \in Nat
        BY <2>2
      <4> QED
        BY <2>2, <4>1, <4>2
    <3>3. d * w \in Nat /\ c * (w * S) \in Nat
      BY <2>2, <2>5
    <3> QED
      BY <2>4, <2>5, <3>1, <3>2, <3>3
  <2> HIDE DEF rest, next
  <2>8. v % next = rest
    <3>1. rest \in 0..(next - 1)
      BY <2>6, <2>7
    <3>2. c \in Int /\ v = c * next + rest /\ next \in Nat \ {0} /\ v \in Int
      BY <2>5, <2>7
    <3> QED
      BY <3>1, <3>2, UniqueRemainder
  <2> QED
    BY <2>2, <2>3, <2>8 DEF rest, next
<1> HIDE DEF T
<1>3. n \in T
  BY <1>1, <1>2, InductionOnSet
<1> QED
  BY <1>3 DEF T

-----------------------------------------------------------------------------
(* A sequence, of whatever it is made of.                                  *)
Listed(s) == s \in Seq({s[i] : i \in DOMAIN s})

(* Length and domain of a list.                                            *)
LEMMA ListedProperties ==
  ASSUME NEW s, Listed(s)
  PROVE  Len(s) \in Nat /\ DOMAIN s = 1..Len(s) /\ s = [i \in 1..Len(s) |-> s[i]]
BY LenProperties DEF Listed

(* What a function on 1..n is.                                             *)
LEMMA Lists ==
  ASSUME NEW s, NEW n \in Nat, DOMAIN s = 1..n, s = [i \in 1..n |-> s[i]]
  PROVE  Listed(s) /\ Len(s) = n
<1>1. s \in Seq({s[i] : i \in DOMAIN s})
  <2> DEFINE S == {s[i] : i \in DOMAIN s}
  <2>1. \A i \in 1..n : s[i] \in S
    OBVIOUS
  <2> HIDE DEF S
  <2> QED
    BY <2>1
<1>2. Len(s) = n
  BY <1>1, LenProperties
<1> QED
  BY <1>1, <1>2 DEF Listed

(* One element more.                                                       *)
LEMMA Appending ==
  ASSUME NEW s, Listed(s), NEW e
  PROVE  /\ Listed(Append(s, e)) /\ Len(Append(s, e)) = Len(s) + 1
         /\ \A i \in 1..Len(s) : Append(s, e)[i] = s[i]
         /\ Append(s, e)[Len(s) + 1] = e
<1> DEFINE S == {s[i] : i \in DOMAIN s} \cup {e}
           t == Append(s, e)
<1>1. s \in Seq(S)
  <2>1. \A i \in 1..Len(s) : s[i] \in S
    BY ListedProperties
  <2> HIDE DEF S
  <2> QED
    BY <2>1, ListedProperties
<1>2. e \in S
  OBVIOUS
<1> HIDE DEF S
<1>3. /\ t \in Seq(S) /\ Len(t) = Len(s) + 1
      /\ \A i \in 1..Len(s) : t[i] = s[i]
      /\ t[Len(s) + 1] = e
  BY <1>1, <1>2, AppendProperties
<1> HIDE DEF t
<1>4. Len(t) \in Nat /\ DOMAIN t = 1..Len(t) /\ t = [i \in 1..Len(t) |-> t[i]]
  BY <1>3, LenProperties
<1>5. Listed(t)
  BY <1>4, Lists
<1> QED
  BY <1>3, <1>5 DEF t

(* One list after the other.                                               *)
LEMMA Joining ==
  ASSUME NEW s, Listed(s), NEW u, Listed(u)
  PROVE  /\ Listed(s \o u) /\ Len(s \o u) = Len(s) + Len(u)
         /\ \A i \in 1..Len(s) : (s \o u)[i] = s[i]
         /\ \A i \in 1..Len(u) : (s \o u)[Len(s) + i] = u[i]
<1> DEFINE S == {s[i] : i \in DOMAIN s} \cup {u[i] : i \in DOMAIN u}
           t == s \o u
<1>1. s \in Seq(S) /\ u \in Seq(S)
  <2>1. \A i \in 1..Len(s) : s[i] \in S
    BY ListedProperties
  <2>2. \A i \in 1..Len(u) : u[i] \in S
    BY ListedProperties
  <2> HIDE DEF S
  <2> QED
    BY <2>1, <2>2, ListedProperties
<1> HIDE DEF S
<1>2. /\ t \in Seq(S) /\ Len(t) = Len(s) + Len(u)
      /\ \A i \in 1..Len(t) : t[i] = IF i <= Len(s) THEN s[i] ELSE u[i - Len(s)]
  BY <1>1, ConcatProperties
<1> HIDE DEF t
<1>3. Len(t) \in Nat /\ DOMAIN t = 1..Len(t) /\ t = [i \in 1..Len(t) |-> t[i]]
  BY <1>2, LenProperties
<1>4. Listed(t)
  BY <1>3, Lists
<1>5. Len(s) \in Nat /\ Len(u) \in Nat
  BY ListedProperties
<1>6. \A i \in 1..Len(s) : t[i] = s[i]
  BY <1>2, <1>5
<1>7. \A i \in 1..Len(u) : t[Len(s) + i] = u[i]
  <2> TAKE i \in 1..Len(u)
  <2>1. Len(s) + i \in 1..Len(t) /\ ~(Len(s) + i <= Len(s)) /\ (Len(s) + i) - Len(s) = i
    BY <1>2, <1>5
  <2> QED
    BY <1>2, <2>1
<1> QED
  BY <1>2, <1>4, <1>6, <1>7 DEF t

(* The elements of two lists put together.                                 *)
LEMMA Joined ==
  ASSUME NEW s, Listed(s), NEW u, Listed(u), NEW t, t = s \o u
  PROVE  /\ Listed(t) /\ Len(t) = Len(s) + Len(u)
         /\ \A i \in 1..Len(s) : t[i] = s[i]
         /\ \A i \in 1..Len(u) : t[Len(s) + i] = u[i]
BY Joining

(* Lists with the same elements.                                           *)
LEMMA SameLists ==
  ASSUME NEW s, Listed(s), NEW u, Listed(u), Len(s) = Len(u),
         \A i \in 1..Len(s) : s[i] = u[i]
  PROVE  s = u
<1>1. s = [i \in 1..Len(s) |-> s[i]] /\ u = [i \in 1..Len(u) |-> u[i]]
  BY ListedProperties
<1> DEFINE n == Len(s)
<1>2. s = [i \in 1..n |-> s[i]] /\ u = [i \in 1..n |-> u[i]] /\ \A i \in 1..n : s[i] = u[i]
  BY <1>1
<1> HIDE DEF n
<1> QED
  BY <1>2

(* Nothing before and nothing after.                                       *)
LEMMA EmptyList ==
  /\ Listed(<<>>) /\ Len(<<>>) = 0
  /\ \A s : Listed(s) => s \o <<>> = s /\ <<>> \o s = s
  /\ \A s : Listed(s) /\ Len(s) = 0 => s = <<>>
<1>1. Listed(<<>>) /\ Len(<<>>) = 0
  BY EmptySeq DEF Listed
<1>2. ASSUME NEW s, Listed(s) PROVE s \o <<>> = s /\ <<>> \o s = s
  BY <1>2, ConcatEmptySeq DEF Listed
<1>3. ASSUME NEW s, Listed(s), Len(s) = 0 PROVE s = <<>>
  BY <1>3, EmptySeq DEF Listed
<1> QED
  BY <1>1, <1>2, <1>3

(* A list of one.                                                          *)
LEMMA OneElement ==
  \A e : Listed(<<e>>) /\ Len(<<e>>) = 1 /\ <<e>>[1] = e
<1> TAKE e
<1>1. DOMAIN <<e>> = 1..1 /\ <<e>> = [j \in 1..1 |-> <<e>>[j]] /\ <<e>>[1] = e
  OBVIOUS
<1> QED
  BY <1>1, Lists

(* Sequences are lists, of their elements.                                 *)
LEMMA SequencesAreLists ==
  ASSUME NEW S, NEW s \in Seq(S)
  PROVE  Listed(s) /\ Len(s) \in Nat /\ DOMAIN s = 1..Len(s) /\ \A i \in 1..Len(s) : s[i] \in S
<1>1. Len(s) \in Nat /\ DOMAIN s = 1..Len(s) /\ s = [i \in 1..Len(s) |-> s[i]]
  BY LenProperties
<1>2. \A i \in 1..Len(s) : s[i] \in S
  OBVIOUS
<1> DEFINE n == Len(s)
<1>3. n \in Nat /\ DOMAIN s = 1..n /\ s = [i \in 1..n |-> s[i]]
  BY <1>1
<1> HIDE DEF n
<1>4. Listed(s)
  BY <1>3, Lists
<1> QED
  BY <1>1, <1>2, <1>4

(* And the other way round.                                                *)
LEMMA ListsAreSequences ==
  ASSUME NEW S, NEW s, Listed(s), \A i \in 1..Len(s) : s[i] \in S
  PROVE  s \in Seq(S)
BY ListedProperties

(* Tuples are functions.                                                   *)
LEMMA Tuples ==
  /\ \A f : f = [i \in 1..2 |-> f[i]] => <<f[1], f[2]>> = f
  /\ \A f : f = [i \in 1..3 |-> f[i]] => <<f[1], f[2], f[3]>> = f
  /\ \A f : f = [i \in 1..4 |-> f[i]] => <<f[1], f[2], f[3], f[4]>> = f
  /\ \A f : f = [i \in 1..7 |-> f[i]] => <<f[1], f[2], f[3], f[4], f[5], f[6], f[7]>> = f
  /\ \A f : f = [i \in 1..9 |-> f[i]] =>
       <<f[1], f[2], f[3], f[4], f[5], f[6], f[7], f[8], f[9]>> = f
<1>1. \A f : f = [i \in 1..2 |-> f[i]] => <<f[1], f[2]>> = f
  OBVIOUS
<1>2. \A f : f = [i \in 1..3 |-> f[i]] => <<f[1], f[2], f[3]>> = f
  OBVIOUS
<1>3. \A f : f = [i \in 1..4 |-> f[i]] => <<f[1], f[2], f[3], f[4]>> = f
  OBVIOUS
<1>4. \A f : f = [i \in 1..7 |-> f[i]] => <<f[1], f[2], f[3], f[4], f[5], f[6], f[7]>> = f
  OBVIOUS
<1>5. \A f : f = [i \in 1..9 |-> f[i]] =>
        <<f[1], f[2], f[3], f[4], f[5], f[6], f[7], f[8], f[9]>> = f
  OBVIOUS
<1> QED
  BY <1>1, <1>2, <1>3, <1>4, <1>5

(* Three lists one after the other.                                        *)
LEMMA Associative ==
  ASSUME NEW a, NEW b, NEW c, Listed(a), Listed(b), Listed(c)
  PROVE  (a \o b) \o c = a \o (b \o c)
<1> DEFINE A == {a[i] : i \in DOMAIN a}
           B == {b[i] : i \in DOMAIN b}
           C == {c[i] : i \in DOMAIN c}
           S == A \cup B \cup C
<1>1. a \in Seq(A) /\ b \in Seq(B) /\ c \in Seq(C)
  BY DEF Listed
<1> HIDE DEF A, B, C
<1>2. a \in Seq(S) /\ b \in Seq(S) /\ c \in Seq(S)
  BY <1>1
<1> HIDE DEF S
<1> QED
  BY <1>2, ConcatAssociative

(* The first of a list of lists put one after the other.                   *)
Heads(p, parts, n) ==
  p[0] = <<>> /\ \A i \in 1..n : p[i] = p[i - 1] \o parts[i]

(* They are lists.                                                         *)
LEMMA HeadsAreListed ==
  ASSUME NEW p, NEW parts, NEW n \in Nat, Heads(p, parts, n),
         \A i \in 1..n : Listed(parts[i])
  PROVE  \A i \in 0..n : Listed(p[i])
<1> DEFINE T == {m \in Nat : m <= n => Listed(p[m])}
<1>1. 0 \in T
  BY EmptyList DEF Heads
<1>2. ASSUME NEW m \in Nat, m \in T
      PROVE  m + 1 \in T
  <2> SUFFICES ASSUME m + 1 <= n PROVE Listed(p[m + 1])
    OBVIOUS
  <2>1. m + 1 \in 1..n /\ (m + 1) - 1 = m /\ Listed(p[m])
    BY <1>2
  <2>2. p[m + 1] = p[m] \o parts[m + 1]
    BY <2>1 DEF Heads
  <2> QED
    BY <2>1, <2>2, Joining
<1> HIDE DEF T
<1>3. \A m \in Nat : m \in T
  BY <1>1, <1>2, InductionOnSet
<1> QED
  BY <1>3 DEF T

(* The recursion of FlattenSeq.                                            *)
IsFlatten(f, parts, n) ==
  f = [i \in 1..n |-> IF i = 1 THEN parts[i] ELSE f[i - 1] \o parts[i]]

(* A list of lists has such prefixes, and the last is all of them.         *)
LEMMA Flattened ==
  ASSUME NEW parts, NEW n \in Nat, Listed(parts), Len(parts) = n,
         \A i \in 1..n : Listed(parts[i])
  PROVE  \E p : Heads(p, parts, n) /\ FlattenSeq(parts) = p[n] /\ Listed(p[n])
<1> DEFINE E == UNION {{parts[i][j] : j \in DOMAIN parts[i]} : i \in 1..n}
           S == Seq(E)
           step == [s \in (1..n) \X S |-> s[2] \o parts[s[1]]]
<1>1. \A i \in 1..n : parts[i] \in S
  <2> TAKE i \in 1..n
  <2>1. parts[i] \in Seq({parts[i][j] : j \in DOMAIN parts[i]})
    BY DEF Listed
  <2> DEFINE P == {parts[i][j] : j \in DOMAIN parts[i]}
  <2>2. P \subseteq E
    BY Zenon
  <2> HIDE DEF P, E
  <2> QED
    BY <2>1, <2>2 DEF P
<1> HIDE DEF E
<1>2. \A s \in S, u \in S : s \o u \in S
  OBVIOUS
<1>3. <<>> \in S
  OBVIOUS
<1> HIDE DEF S
<1>4. step \in [(1..n) \X S -> S]
  BY <1>1, <1>2
<1>5. \A i \in 1..n, s \in S : step[<<i, s>>] = s \o parts[i]
  OBVIOUS
<1> HIDE DEF step
<1>6. PICK p : Iterated(p, S, n, <<>>, step)
  BY <1>3, <1>4, Recursion, Zenon
<1>7. Heads(p, parts, n)
  <2>1. \A i \in 1..n : i - 1 \in 0..n /\ p[i - 1] \in S
    BY <1>6 DEF Iterated
  <2> QED
    BY <1>5, <1>6, <2>1 DEF Heads, Iterated
<1>8. FlattenSeq(parts) = p[n]
  <2>1. CASE n = 0
    <3>1. FlattenSeq(parts) = parts
      BY <2>1, Zenon DEF FlattenSeq
    <3> QED
      BY <1>7, <2>1, <3>1, EmptyList DEF Heads
  <2>2. CASE n # 0
    <3> DEFINE f == CHOOSE g : IsFlatten(g, parts, n)
               q == [i \in 1..n |-> p[i]]
    <3>1. FlattenSeq(parts) = f[n]
      BY <2>2, Zenon DEF FlattenSeq, IsFlatten
    <3>2. IsFlatten(q, parts, n)
      <4>1. p[1] = parts[1]
        <5>1. 1 \in 1..n /\ 1 - 1 = 0 /\ Listed(parts[1])
          BY <2>2
        <5>2. p[1] = <<>> \o parts[1]
          BY <1>7, <5>1 DEF Heads
        <5> QED
          BY <5>1, <5>2, EmptyList
      <4>2. \A i \in 1..n : i # 1 => i - 1 \in 1..n /\ p[i] = p[i - 1] \o parts[i]
        BY <1>7 DEF Heads
      <4>3. \A i \in 1..n : q[i] = IF i = 1 THEN parts[i] ELSE q[i - 1] \o parts[i]
        BY <4>1, <4>2
      <4>4. q = [i \in 1..n |-> q[i]]
        OBVIOUS
      <4> HIDE DEF q
      <4> QED
        BY <4>3, <4>4 DEF IsFlatten
    <3>3. IsFlatten(f, parts, n)
      BY <3>2, Zenon
    <3> HIDE DEF f
    <3>4. \A i \in 1..n : f[i] = IF i = 1 THEN parts[i] ELSE f[i - 1] \o parts[i]
      BY <3>3 DEF IsFlatten
    <3> DEFINE T == {m \in Nat : m + 1 <= n => f[m + 1] = p[m + 1]}
    <3>5. 0 \in T
      <4>1. 1 \in 1..n /\ q[1] = p[1] /\ q[1] = parts[1]
        BY <2>2, <3>2 DEF IsFlatten, q
      <4> QED
        BY <3>4, <4>1
    <3>6. ASSUME NEW m \in Nat, m \in T
          PROVE  m + 1 \in T
      <4> SUFFICES ASSUME m + 2 <= n PROVE f[m + 2] = p[m + 2]
        OBVIOUS
      <4>1. m + 2 \in 1..n /\ m + 2 # 1 /\ (m + 2) - 1 = m + 1 /\ f[m + 1] = p[m + 1]
        BY <3>6
      <4>2. p[m + 2] = p[m + 1] \o parts[m + 2]
        BY <1>7, <4>1 DEF Heads
      <4>3. f[m + 2] = f[m + 1] \o parts[m + 2]
        BY <3>4, <4>1
      <4> QED
        BY <4>1, <4>2, <4>3
    <3>7. n - 1 \in Nat /\ (n - 1) + 1 = n
      BY <2>2
    <3> DEFINE k == n - 1
    <3>8. k \in Nat /\ k + 1 = n
      BY <3>7
    <3> HIDE DEF T, k
    <3>9. k \in T
      BY <3>5, <3>6, <3>8, InductionOnSet
    <3> QED
      BY <3>1, <3>8, <3>9 DEF T
  <2> QED
    BY <2>1, <2>2
<1>9. Listed(p[n])
  BY <1>7, HeadsAreListed
<1> QED
  BY <1>7, <1>8, <1>9

(* What is put together comes from the parts, and all of it.               *)
LEMMA FlattenedElements ==
  ASSUME NEW parts, NEW n \in Nat, Listed(parts), Len(parts) = n,
         \A i \in 1..n : Listed(parts[i])
  PROVE  /\ Listed(FlattenSeq(parts))
         /\ \A j \in 1..Len(FlattenSeq(parts)) :
              \E i \in 1..n : \E k \in 1..Len(parts[i]) : FlattenSeq(parts)[j] = parts[i][k]
<1>1. PICK p : Heads(p, parts, n) /\ FlattenSeq(parts) = p[n] /\ Listed(p[n])
  BY Flattened
<1>2. \A i \in 0..n : Listed(p[i])
  BY <1>1, HeadsAreListed
<1> DEFINE From(m) == \A j \in 1..Len(p[m]) :
                        \E i \in 1..n : \E k \in 1..Len(parts[i]) : p[m][j] = parts[i][k]
           T == {m \in Nat : m <= n => From(m)}
<1>3. 0 \in T
  BY <1>1, EmptyList DEF Heads
<1>4. ASSUME NEW m \in Nat, m \in T
      PROVE  m + 1 \in T
  <2> SUFFICES ASSUME m + 1 <= n PROVE From(m + 1)
    OBVIOUS
  <2>1. m + 1 \in 1..n /\ (m + 1) - 1 = m /\ m \in 0..n /\ From(m)
    BY <1>4
  <2> DEFINE before == p[m]
             part == parts[m + 1]
             after == p[m + 1]
  <2>2. Listed(before) /\ Listed(part) /\ after = before \o part
    BY <1>1, <1>2, <2>1 DEF Heads
  <2> HIDE DEF before, part, after
  <2>3. /\ Len(after) = Len(before) + Len(part)
        /\ \A i \in 1..Len(before) : after[i] = before[i]
        /\ \A i \in 1..Len(part) : after[Len(before) + i] = part[i]
    BY <2>2, Joined
  <2>4. Len(before) \in Nat /\ Len(part) \in Nat
    BY <2>2, ListedProperties
  <2>5. ASSUME NEW j \in 1..Len(after)
        PROVE  \E i \in 1..n : \E k \in 1..Len(parts[i]) : after[j] = parts[i][k]
    <3>1. CASE j <= Len(before)
      <4>1. j \in 1..Len(before) /\ after[j] = before[j]
        BY <2>3, <2>4, <3>1
      <4> QED
        BY <2>1, <4>1 DEF before
    <3>2. CASE ~(j <= Len(before))
      <4> DEFINE k == j - Len(before)
      <4>1. k \in 1..Len(part) /\ j = Len(before) + k
        BY <2>3, <2>4, <3>2
      <4> HIDE DEF k
      <4>2. after[j] = part[k]
        BY <2>3, <4>1
      <4> QED
        BY <2>1, <4>1, <4>2 DEF part
    <3> QED
      BY <3>1, <3>2
  <2> QED
    BY <2>5 DEF after
<1> HIDE DEF T
<1>5. n \in T
  BY <1>3, <1>4, InductionOnSet
<1> QED
  BY <1>1, <1>5 DEF T

(* Parts that are all empty but one.                                       *)
LEMMA OnePart ==
  ASSUME NEW parts, NEW n \in Nat, Listed(parts), Len(parts) = n, NEW k \in 1..n,
         Listed(parts[k]), \A i \in 1..n : i # k => parts[i] = <<>>
  PROVE  FlattenSeq(parts) = parts[k]
<1>1. \A i \in 1..n : Listed(parts[i])
  BY EmptyList
<1>2. PICK p : Heads(p, parts, n) /\ FlattenSeq(parts) = p[n] /\ Listed(p[n])
  BY <1>1, Flattened
<1> DEFINE T == {m \in Nat : m <= n => p[m] = IF m < k THEN <<>> ELSE parts[k]}
<1>3. 0 \in T
  BY <1>2 DEF Heads
<1>4. ASSUME NEW m \in Nat, m \in T
      PROVE  m + 1 \in T
  <2> SUFFICES ASSUME m + 1 <= n PROVE p[m + 1] = IF m + 1 < k THEN <<>> ELSE parts[k]
    OBVIOUS
  <2>1. m + 1 \in 1..n /\ (m + 1) - 1 = m /\ p[m] = IF m < k THEN <<>> ELSE parts[k]
    BY <1>4
  <2>2. p[m + 1] = p[m] \o parts[m + 1]
    BY <1>2, <2>1 DEF Heads
  <2>3. CASE m + 1 = k
    <3>1. m < k /\ ~(m + 1 < k) /\ p[m] = <<>>
      BY <2>1, <2>3
    <3> HIDE DEF T
    <3>2. p[m + 1] = <<>> \o parts[k]
      BY <2>2, <2>3, <3>1, Zenon
    <3>3. p[m + 1] = parts[k]
      BY <3>2, EmptyList, Zenon
    <3> QED
      BY <3>1, <3>3
  <2>4. CASE m + 1 # k
    <3>1. parts[m + 1] = <<>> /\ (m < k <=> m + 1 < k)
      BY <2>1, <2>4
    <3> QED
      BY <2>1, <2>2, <3>1, EmptyList
  <2> QED
    BY <2>3, <2>4
<1> HIDE DEF T
<1>5. n \in T
  BY <1>3, <1>4, InductionOnSet
<1> QED
  BY <1>2, <1>5 DEF T

(* Parts that are all empty.                                               *)
LEMMA NoPart ==
  ASSUME NEW parts, NEW n \in Nat, Listed(parts), Len(parts) = n,
         \A i \in 1..n : parts[i] = <<>>
  PROVE  FlattenSeq(parts) = <<>>
<1>1. CASE n = 0
  <2>1. FlattenSeq(parts) = parts
    BY <1>1, Zenon DEF FlattenSeq
  <2> QED
    BY <1>1, <2>1, EmptyList
<1>2. CASE n # 0
  <2>1. 1 \in 1..n /\ Listed(parts[1]) /\ parts[1] = <<>>
    BY <1>2, EmptyList
  <2> QED
    BY <2>1, OnePart
<1> QED
  BY <1>1, <1>2

(* Parts of one element each.                                              *)
LEMMA SingleParts ==
  ASSUME NEW s, Listed(s), NEW parts, DOMAIN parts = DOMAIN s,
         parts = [i \in DOMAIN s |-> <<s[i]>>]
  PROVE  FlattenSeq(parts) = s
<1> DEFINE n == Len(s)
<1>1. n \in Nat /\ DOMAIN s = 1..n
  BY ListedProperties
<1> HIDE DEF n
<1>2. \A i \in 1..n : parts[i] = <<s[i]>>
  BY <1>1
<1>3. \A i \in 1..n : Listed(parts[i]) /\ Len(parts[i]) = 1 /\ parts[i][1] = s[i]
  <2> TAKE i \in 1..n
  <2>1. \A e : DOMAIN <<e>> = 1..1 /\ <<e>> = [j \in 1..1 |-> <<e>>[j]] /\ <<e>>[1] = e
    OBVIOUS
  <2>2. \A e : Listed(<<e>>) /\ Len(<<e>>) = 1
    BY <2>1, Lists
  <2> QED
    BY <1>2, <2>1, <2>2
<1>4. Listed(parts) /\ Len(parts) = n
  <2>1. DOMAIN parts = 1..n /\ parts = [i \in 1..n |-> parts[i]]
    BY <1>1
  <2> QED
    BY <1>1, <2>1, Lists
<1>5. PICK p : Heads(p, parts, n) /\ FlattenSeq(parts) = p[n] /\ Listed(p[n])
  BY <1>1, <1>3, <1>4, Flattened
<1>6. \A i \in 0..n : Listed(p[i])
  BY <1>1, <1>3, <1>5, HeadsAreListed
<1> DEFINE Up(m) == Len(p[m]) = m /\ \A j \in 1..m : p[m][j] = s[j]
           T == {m \in Nat : m <= n => Up(m)}
<1>7. 0 \in T
  BY <1>5, EmptyList DEF Heads
<1>8. ASSUME NEW m \in Nat, m \in T
      PROVE  m + 1 \in T
  <2> SUFFICES ASSUME m + 1 <= n PROVE Up(m + 1)
    OBVIOUS
  <2>1. m + 1 \in 1..n /\ (m + 1) - 1 = m /\ m \in 0..n /\ Up(m)
    BY <1>1, <1>8
  <2> DEFINE before == p[m]
             part == parts[m + 1]
             after == p[m + 1]
  <2>2. Listed(before) /\ Listed(part) /\ after = before \o part
    BY <1>3, <1>5, <1>6, <2>1 DEF Heads
  <2>3. /\ Len(before) = m /\ Len(part) = 1 /\ part[1] = s[m + 1]
        /\ \A j \in 1..m : before[j] = s[j]
    BY <1>3, <2>1
  <2> HIDE DEF before, part, after
  <2>4. /\ Len(after) = Len(before) + Len(part)
        /\ \A i \in 1..Len(before) : after[i] = before[i]
        /\ \A i \in 1..Len(part) : after[Len(before) + i] = part[i]
    BY <2>2, Joined
  <2>5. after[m + 1] = s[m + 1]
    <3>1. 1 \in 1..Len(part)
      BY <2>3
    <3> QED
      BY <2>3, <2>4, <3>1
  <2>6. \A j \in 1..(m + 1) : after[j] = s[j]
    BY <2>3, <2>4, <2>5
  <2> QED
    BY <2>3, <2>4, <2>6 DEF after
<1> HIDE DEF T
<1>9. n \in T
  BY <1>1, <1>7, <1>8, InductionOnSet
<1>10. Len(p[n]) = n /\ \A j \in 1..n : p[n][j] = s[j]
  BY <1>1, <1>9 DEF T
<1> DEFINE flat == p[n]
<1>11. Listed(flat) /\ Len(flat) = Len(s) /\ \A j \in 1..Len(flat) : flat[j] = s[j]
  BY <1>5, <1>10 DEF n
<1> HIDE DEF flat
<1>12. flat = s
  BY <1>11, SameLists
<1> QED
  BY <1>5, <1>12 DEF flat

(* Parts and then others.                                                  *)
LEMMA FlattenedJoin ==
  ASSUME NEW a, NEW b, Listed(a), Listed(b),
         \A i \in 1..Len(a) : Listed(a[i]), \A i \in 1..Len(b) : Listed(b[i])
  PROVE  FlattenSeq(a \o b) = FlattenSeq(a) \o FlattenSeq(b)
<1> DEFINE m == Len(a)
           n == Len(b)
           c == a \o b
<1>1. m \in Nat /\ n \in Nat
  BY ListedProperties
<1>2. /\ Listed(c) /\ Len(c) = m + n
      /\ \A i \in 1..m : c[i] = a[i]
      /\ \A i \in 1..n : c[m + i] = b[i]
  BY Joining
<1>3. /\ \A i \in 1..m : Listed(a[i])
      /\ \A i \in 1..n : Listed(b[i])
  OBVIOUS
<1>4. Len(a) = m /\ Len(b) = n
  OBVIOUS
<1> HIDE DEF m, n, c
<1>5. \A i \in 1..(m + n) : Listed(c[i])
  <2> TAKE i \in 1..(m + n)
  <2>1. CASE i <= m
    BY <1>1, <1>2, <1>3, <2>1
  <2>2. CASE ~(i <= m)
    <3> DEFINE j == i - m
    <3>1. j \in 1..n /\ i = m + j
      BY <1>1, <2>2
    <3> HIDE DEF j
    <3> QED
      BY <1>2, <1>3, <3>1
  <2> QED
    BY <2>1, <2>2
<1>6. PICK p : Heads(p, a, m) /\ FlattenSeq(a) = p[m] /\ Listed(p[m])
  BY <1>1, <1>3, <1>4, Flattened
<1>7. PICK q : Heads(q, b, n) /\ FlattenSeq(b) = q[n] /\ Listed(q[n])
  BY <1>1, <1>3, <1>4, Flattened
<1>8. PICK r : Heads(r, c, m + n) /\ FlattenSeq(c) = r[m + n] /\ Listed(r[m + n])
  <2>1. m + n \in Nat
    BY <1>1
  <2> QED
    BY <1>2, <1>5, <2>1, Flattened
<1>9. \A i \in 0..n : Listed(q[i])
  BY <1>1, <1>3, <1>7, HeadsAreListed
<1> DEFINE T == {k \in Nat : k <= m => r[k] = p[k]}
<1>10. m \in T
  <2>1. 0 \in T
    BY <1>6, <1>8 DEF Heads
  <2>2. ASSUME NEW k \in Nat, k \in T
        PROVE  k + 1 \in T
    <3> SUFFICES ASSUME k + 1 <= m PROVE r[k + 1] = p[k + 1]
      OBVIOUS
    <3>1. k + 1 \in 1..m /\ k + 1 \in 1..(m + n) /\ (k + 1) - 1 = k /\ r[k] = p[k]
      BY <1>1, <2>2
    <3> QED
      BY <1>2, <1>6, <1>8, <3>1 DEF Heads
  <2> HIDE DEF T
  <2> QED
    BY <1>1, <2>1, <2>2, InductionOnSet
<1>11. r[m] = p[m]
  BY <1>1, <1>10
<1> HIDE DEF T
<1> DEFINE At(k) == r[m + k] = p[m] \o q[k]
           U == {k \in Nat : k <= n => At(k)}
<1>12. n \in U
  <2>1. 0 \in U
    <3>1. m + 0 = m /\ q[0] = <<>>
      BY <1>1, <1>7 DEF Heads
    <3>2. At(0)
      BY <1>6, <1>11, <3>1, EmptyList
    <3> HIDE DEF At
    <3> QED
      BY <3>2
  <2>2. ASSUME NEW k \in Nat, k \in U
        PROVE  k + 1 \in U
    <3> HIDE DEF At
    <3> SUFFICES ASSUME k + 1 <= n PROVE At(k + 1)
      OBVIOUS
    <3>1. k + 1 \in 1..n /\ (k + 1) - 1 = k /\ k \in 0..n /\ At(k)
      BY <1>1, <2>2
    <3>2. m + (k + 1) \in 1..(m + n) /\ (m + (k + 1)) - 1 = m + k
      BY <1>1, <3>1
    <3>3. r[m + (k + 1)] = r[m + k] \o b[k + 1]
      BY <1>2, <1>8, <3>1, <3>2 DEF Heads
    <3>4. q[k + 1] = q[k] \o b[k + 1]
      BY <1>7, <3>1 DEF Heads
    <3>5. Listed(p[m]) /\ Listed(q[k]) /\ Listed(b[k + 1])
      BY <1>3, <1>6, <1>9, <3>1
    <3>6. (p[m] \o q[k]) \o b[k + 1] = p[m] \o (q[k] \o b[k + 1])
      <4> DEFINE x == p[m]
                 y == q[k]
                 z == b[k + 1]
      <4>1. Listed(x) /\ Listed(y) /\ Listed(z)
        BY <3>5
      <4> HIDE DEF x, y, z
      <4>2. (x \o y) \o z = x \o (y \o z)
        BY <4>1, Associative
      <4> QED
        BY <4>2 DEF x, y, z
    <3> QED
      BY <3>1, <3>3, <3>4, <3>6 DEF At
  <2> HIDE DEF U
  <2> QED
    BY <1>1, <2>1, <2>2, InductionOnSet
<1>13. r[m + n] = p[m] \o q[n]
  <2>1. At(n)
    <3> HIDE DEF At
    <3> QED
      BY <1>1, <1>12
  <2> QED
    BY <2>1
<1> QED
  BY <1>6, <1>7, <1>8, <1>13 DEF c

-----------------------------------------------------------------------------
(* A tree that marks other positions.                                      *)
LEMMA TreeMarks ==
  ASSUME NEW t, NEW l, NEW k, NEW c, NEW other, t = [leaves |-> l, marked |-> k, checkpoints |-> c]
  PROVE  [t EXCEPT !.marked = other] = [leaves |-> l, marked |-> other, checkpoints |-> c]
OBVIOUS

(* The fields a note has.                                                  *)
IsNote(note) ==
  note = [community |-> note.community, coin_community |-> note.coin_community,
          value |-> note.value, t_note |-> note.t_note, address |-> note.address,
          rho |-> note.rho, memo_cm |-> note.memo_cm, rseed |-> note.rseed]

(* A note, field by field, after the fields that a circuit overwrites: the
   community and the address of a spent one.                               *)

LEMMA NoteMoved ==
  ASSUME NEW note, IsNote(note), NEW c, NEW a
  PROVE  [note EXCEPT !.community = c, !.coin_community = c, !.address = a] =
           [community |-> c, coin_community |-> c, value |-> note.value, t_note |-> note.t_note,
            address |-> a, rho |-> note.rho, memo_cm |-> note.memo_cm, rseed |-> note.rseed]
<1> DEFINE c1 == note.community
           c2 == note.coin_community
           v  == note.value
           t1 == note.t_note
           a1 == note.address
           r1 == note.rho
           m  == note.memo_cm
           s  == note.rseed
           n1 == [note EXCEPT !.community = c]
           n2 == [n1 EXCEPT !.coin_community = c]
<1>1. note = [community |-> c1, coin_community |-> c2, value |-> v, t_note |-> t1,
              address |-> a1, rho |-> r1, memo_cm |-> m, rseed |-> s]
  BY DEF IsNote
<1>2. [note EXCEPT !.community = c, !.coin_community = c, !.address = a] = [n2 EXCEPT !.address = a]
  OBVIOUS
<1> HIDE DEF c1, c2, v, t1, a1, r1, m, s
<1>3. n1 = [community |-> c, coin_community |-> c2, value |-> v, t_note |-> t1,
            address |-> a1, rho |-> r1, memo_cm |-> m, rseed |-> s]
  BY <1>1
<1> HIDE DEF n1
<1>4. n2 = [community |-> c, coin_community |-> c, value |-> v, t_note |-> t1,
            address |-> a1, rho |-> r1, memo_cm |-> m, rseed |-> s]
  BY <1>3
<1> HIDE DEF n2
<1>5. [n2 EXCEPT !.address = a] =
           [community |-> c, coin_community |-> c, value |-> v, t_note |-> t1,
            address |-> a, rho |-> r1, memo_cm |-> m, rseed |-> s]
  BY <1>4
<1> QED
  BY <1>2, <1>5 DEF v, t1, r1, m, s

(* The community and the date of a created one.                            *)
LEMMA NoteRedated ==
  ASSUME NEW note, IsNote(note), NEW c, NEW t
  PROVE  [note EXCEPT !.community = c, !.coin_community = c, !.t_note = t] =
           [community |-> c, coin_community |-> c, value |-> note.value, t_note |-> t,
            address |-> note.address, rho |-> note.rho, memo_cm |-> note.memo_cm,
            rseed |-> note.rseed]
<1> DEFINE c1 == note.community
           c2 == note.coin_community
           v  == note.value
           t1 == note.t_note
           a1 == note.address
           r1 == note.rho
           m  == note.memo_cm
           s  == note.rseed
           n1 == [note EXCEPT !.community = c]
           n2 == [n1 EXCEPT !.coin_community = c]
<1>1. note = [community |-> c1, coin_community |-> c2, value |-> v, t_note |-> t1,
              address |-> a1, rho |-> r1, memo_cm |-> m, rseed |-> s]
  BY DEF IsNote
<1>2. [note EXCEPT !.community = c, !.coin_community = c, !.t_note = t] = [n2 EXCEPT !.t_note = t]
  OBVIOUS
<1> HIDE DEF c1, c2, v, t1, a1, r1, m, s
<1>3. n1 = [community |-> c, coin_community |-> c2, value |-> v, t_note |-> t1,
            address |-> a1, rho |-> r1, memo_cm |-> m, rseed |-> s]
  BY <1>1
<1> HIDE DEF n1
<1>4. n2 = [community |-> c, coin_community |-> c, value |-> v, t_note |-> t1,
            address |-> a1, rho |-> r1, memo_cm |-> m, rseed |-> s]
  BY <1>3
<1> HIDE DEF n2
<1>5. [n2 EXCEPT !.t_note = t] =
           [community |-> c, coin_community |-> c, value |-> v, t_note |-> t,
            address |-> a1, rho |-> r1, memo_cm |-> m, rseed |-> s]
  BY <1>4
<1> QED
  BY <1>2, <1>5 DEF v, a1, r1, m, s

=============================================================================
