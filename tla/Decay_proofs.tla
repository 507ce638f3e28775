---------------------------- MODULE Decay_proofs ----------------------------
(***************************************************************************)
(* What a note is worth after some time, for every width of word and       *)
(* window: the factors of the chain, over bits or windows, never leave the *)
(* word, a note is never worth more than it was made with, and nothing     *)
(* stays nothing.  The chains are recursive functions: each is shown to be *)
(* the one there is by induction over the steps it has taken.              *)
(***************************************************************************)
EXTENDS Decay, Basics

(* A factor of the decay, in fractions of WORD.                            *)
Factor == 0..WORD

(* Rounded down or rounded to the nearest, the product of two factors is
   one again: mul_q64 stays within its 64 bits (and the one).              *)
LEMMA ProductIsFactor ==
  ASSUME NEW a \in Factor, NEW b \in Factor
  PROVE  (a * b) \div WORD \in Factor /\ mul_q64(a, b) \in Factor
<1>1. WORD \in Nat \ {0}
  BY DecayAssumption
<1> DEFINE w == WORD
<1>2. w \in Nat \ {0} /\ a \in Nat /\ b \in Nat /\ a <= w /\ b <= w
  BY <1>1 DEF Factor
<1> HIDE DEF w
<1> DEFINE p == a * b
           q == p \div w
<1>3. p \in Nat /\ p <= w * w
  <2>1. a * b <= w * b /\ b * w <= w * w
    BY <1>2, ProductsGrow
  <2>2. w * b = b * w /\ a * b \in Nat
    BY <1>2
  <2> QED
    BY <1>2, <2>1, <2>2
<1> HIDE DEF p
<1>4. q \in Nat /\ w * q <= p
  BY <1>2, <1>3
<1> HIDE DEF q
<1>5. q <= w
  <2> SUFFICES ASSUME q >= w + 1 PROVE FALSE
    BY <1>2, <1>4
  <2>1. (w + 1) * w <= q * w
    BY <1>2, <1>4, ProductsGrow
  <2>2. (w + 1) * w = w * w + w /\ q * w = w * q
    BY <1>2, <1>4
  <2> QED
    BY <1>2, <1>3, <1>4, <2>1, <2>2
<1>6. (a * b) \div WORD \in Factor
  BY <1>4, <1>5 DEF p, q, w, Factor
<1> QED
  BY <1>6 DEF mul_q64

(* The widths of the windows and of the powers of two.                     *)
LEMMA Widths ==
  /\ REM_BITS \in Nat /\ WINDOWS \in Nat /\ WINDOW_BITS \in Nat \ {0}
  /\ \A j \in 0..(WINDOWS - 1), bit \in 1..WINDOW_BITS : bit + j * WINDOW_BITS \in 1..REM_BITS
  /\ WINDOW_SIZE \in Nat \ {0}
  /\ \A i \in 0..REM_BITS : 2^i \in Nat \ {0}
  /\ \A j \in 0..(WINDOWS - 1) : j * WINDOW_BITS \in 0..REM_BITS
<1> DEFINE bits == REM_BITS
           w == WINDOW_BITS
           n == WINDOWS
<1>1. bits \in Nat /\ w \in Nat \ {0} /\ W1_SHIFT_LIMIT \in Nat
  BY DecayAssumption DEF REM_BITS
<1>2. PICK k \in Int : bits = k * w
  <2>1. bits % w = 0
    BY DecayAssumption
  <2> HIDE DEF bits, w
  <2> QED
    BY <1>1, <2>1, Quotient
<1>3. n = k /\ n \in Nat
  <2>1. n = (bits + w - 1) \div w
    BY DEF WINDOWS
  <2> HIDE DEF bits, w, n
  <2>2. k \in Nat
    <3> SUFFICES ASSUME k <= -1 PROVE FALSE
      OBVIOUS
    <3>1. -k \in Nat /\ 1 <= -k
      OBVIOUS
    <3>2. 1 * w <= (-k) * w
      BY <1>1, <3>1, ProductsGrow
    <3>3. (-k) * w = -(k * w)
      BY <1>1
    <3> QED
      BY <1>1, <1>2, <3>2, <3>3
  <2>3. ((w - 1) + k * w) \div w = k
    BY <1>1, <2>2, UnpacksAsPacked
  <2>4. bits + w - 1 = (w - 1) + k * w
    BY <1>1, <1>2
  <2> QED
    BY <2>1, <2>2, <2>3, <2>4
<1>4. ASSUME NEW j \in 0..(n - 1)
      PROVE  j * w \in Nat /\ j * w + w <= bits
  <2> HIDE DEF bits, w, n
  <2>1. j + 1 \in Nat /\ j \in Nat /\ j + 1 <= n
    BY <1>3
  <2>2. (j + 1) * w <= n * w
    BY <1>1, <1>3, <2>1, ProductsGrow
  <2>3. (j + 1) * w = j * w + w /\ j * w \in Nat
    BY <1>1
  <2> QED
    BY <1>2, <1>3, <2>2, <2>3
<1>5. ASSUME NEW i \in 0..bits
      PROVE  2^i \in Nat \ {0}
  <2>1. i \in 0..(W1_SHIFT_LIMIT + bits + w)
    <3> HIDE DEF bits, w
    <3> QED
      BY <1>1
  <2> QED
    BY <2>1, PositivePowers
<1>6. WINDOW_SIZE \in Nat \ {0}
  <2>1. w \in 0..(W1_SHIFT_LIMIT + bits + w)
    <3> HIDE DEF bits, w
    <3> QED
      BY <1>1
  <2> QED
    BY <2>1, PositivePowers DEF WINDOW_SIZE
<1>7. \A j \in 0..(n - 1), bit \in 1..w : bit + j * w \in 1..bits
  <2> HIDE DEF bits, w, n
  <2> QED
    BY <1>1, <1>4
<1>8. \A j \in 0..(n - 1) : j * w \in 0..bits
  <2> HIDE DEF bits, w, n
  <2> QED
    BY <1>1, <1>4
<1> QED
  BY <1>1, <1>3, <1>5, <1>6, <1>7, <1>8

-----------------------------------------------------------------------------
IsRow(f, j, c) ==
  f = [bit \in 0..WINDOW_BITS |->
         IF bit = 0 THEN WORD
         ELSE IF Bit(c, bit - 1) = 1
         THEN mul_q64(f[bit - 1], DECAY_POWERS[bit + j * WINDOW_BITS])
         ELSE f[bit - 1]]

(* The factors of the bits of a digit are made one from the other.         *)
LEMMA RowExists ==
  ASSUME NEW j \in 0..(WINDOWS - 1), NEW c
  PROVE  /\ \E f : IsRow(f, j, c)
         /\ \A f : IsRow(f, j, c) => f \in [0..WINDOW_BITS -> Factor]
<1> DEFINE n == WINDOW_BITS
           step == [s \in (1..n) \X Factor |->
                      IF Bit(c, s[1] - 1) = 1
                      THEN mul_q64(s[2], DECAY_POWERS[s[1] + j * WINDOW_BITS]) ELSE s[2]]
<1>1. n \in Nat /\ WORD \in Factor
  BY Widths, DecayAssumption DEF Factor
<1>2. \A bit \in 1..n : DECAY_POWERS[bit + j * WINDOW_BITS] \in Factor
  <2> TAKE bit \in 1..n
  <2>1. bit + j * WINDOW_BITS \in 1..Len(DECAY_POWERS)
    BY Widths DEF REM_BITS
  <2> DEFINE i == bit + j * WINDOW_BITS
  <2> HIDE DEF i
  <2>2. \A k \in 1..Len(DECAY_POWERS) : DECAY_POWERS[k] \in 1..(WORD - 1)
    BY DecayAssumption
  <2>3. DECAY_POWERS[i] \in 1..(WORD - 1)
    BY <2>1, <2>2 DEF i
  <2>4. \A x \in 1..(WORD - 1) : x \in Factor
    BY <1>1 DEF Factor
  <2>5. DECAY_POWERS[i] \in Factor
    BY <2>3, <2>4
  <2> QED
    BY <2>5 DEF i
<1>3. \A bit \in 1..n, x \in Factor : mul_q64(x, DECAY_POWERS[bit + j * WINDOW_BITS]) \in Factor
  BY <1>2, ProductIsFactor
<1>4. step \in [(1..n) \X Factor -> Factor]
  BY <1>3
<1>5. \A bit \in 1..n, x \in Factor :
        step[<<bit, x>>] = IF Bit(c, bit - 1) = 1
                           THEN mul_q64(x, DECAY_POWERS[bit + j * WINDOW_BITS]) ELSE x
  OBVIOUS
<1> HIDE DEF step
<1>6. PICK f : Iterated(f, Factor, n, WORD, step)
  BY <1>1, <1>4, Recursion, Zenon
<1>7. ASSUME NEW g
      PROVE  Iterated(g, Factor, n, WORD, step) => IsRow(g, j, c)
  <2> SUFFICES ASSUME Iterated(g, Factor, n, WORD, step) PROVE IsRow(g, j, c)
    OBVIOUS
  <2>1. \A bit \in 1..n : g[bit] = IF Bit(c, bit - 1) = 1
                                  THEN mul_q64(g[bit - 1], DECAY_POWERS[bit + j * WINDOW_BITS])
                                  ELSE g[bit - 1]
    <3> TAKE bit \in 1..n
    <3>1. bit - 1 \in 0..n
      BY <1>1
    <3>2. g[bit - 1] \in Factor
      BY <3>1 DEF Iterated
    <3>3. g[bit] = step[<<bit, g[bit - 1]>>]
      BY DEF Iterated
    <3> QED
      BY <1>5, <3>2, <3>3
  <2>2. g[0] = WORD /\ g = [bit \in 0..n |-> g[bit]]
    BY DEF Iterated
  <2>3. \A bit \in 0..n : bit # 0 => bit \in 1..n
    BY <1>1
  <2> QED
    BY <2>1, <2>2, <2>3 DEF IsRow
<1>8. ASSUME NEW g, IsRow(g, j, c)
      PROVE  g \in [0..n -> Factor]
  <2>1. g[0] = WORD
    BY <1>1, <1>8 DEF IsRow
  <2>2. ASSUME NEW bit \in 1..n, g[bit - 1] \in Factor
        PROVE  g[bit] \in Factor
    <3>1. bit \in 0..n /\ bit # 0
      BY <1>1
    <3>2. g[bit] = IF Bit(c, bit - 1) = 1
                   THEN mul_q64(g[bit - 1], DECAY_POWERS[bit + j * WINDOW_BITS])
                   ELSE g[bit - 1]
      BY <1>8, <3>1, Zenon DEF IsRow
    <3> QED
      BY <1>3, <2>2, <3>2
  <2>3. \A bit \in 0..n : g[bit] \in Factor
    BY <1>1, <2>1, <2>2, StaysIn
  <2> QED
    BY <1>8, <2>3 DEF IsRow
<1> QED
  BY <1>6, <1>7, <1>8

(* Every entry of the window tables is a factor.                           *)
LEMMA RowIsFactor ==
  ASSUME NEW j \in 0..(WINDOWS - 1), NEW c \in 0..(WINDOW_SIZE - 1)
  PROVE  window_table[j][c] \in Factor
<1> DEFINE f == CHOOSE f : IsRow(f, j, c)
<1>1. window_table[j][c] = f[WINDOW_BITS]
  BY Zenon DEF window_table, IsRow
<1>2. IsRow(f, j, c)
  BY RowExists, Zenon
<1> HIDE DEF f
<1>3. f \in [0..WINDOW_BITS -> Factor] /\ WINDOW_BITS \in 0..WINDOW_BITS
  BY <1>2, RowExists, Widths
<1> QED
  BY <1>1, <1>3

-----------------------------------------------------------------------------
IsWindowChain(f, rem) ==
  f = [j \in 0..WINDOWS |->
         IF j = 0 THEN WORD ELSE mul_q64(f[j - 1], window_table[j - 1][Digit(rem, j - 1)])]

(* Every digit of a remainder finds its entry in the table.                *)
LEMMA DigitIsColumn ==
  ASSUME NEW rem \in Nat, NEW j \in 1..WINDOWS
  PROVE  window_table[j - 1][Digit(rem, j - 1)] \in Factor
<1> DEFINE n == WINDOWS
           size == WINDOW_SIZE
           p == 2^((j - 1) * WINDOW_BITS)
<1>1. j - 1 \in 0..(n - 1)
  <2>1. n \in Nat /\ j \in 1..n
    BY Widths
  <2> HIDE DEF n
  <2> QED
    BY <2>1
<1>2. p \in Nat \ {0} /\ size \in Nat \ {0}
  BY <1>1, Widths
<1>3. Digit(rem, j - 1) = (rem \div p) % size
  BY DEF Digit
<1> HIDE DEF p, n, size
<1>4. (rem \div p) % size \in 0..(size - 1)
  BY <1>2
<1>5. Digit(rem, j - 1) \in 0..(size - 1)
  BY <1>3, <1>4
<1> QED
  BY <1>1, <1>5, RowIsFactor DEF n, size

(* The window factors of windowed_trace: there is one such chain, and every
   factor of it is at most one.                                            *)

LEMMA WindowChainIsFactors ==
  ASSUME NEW rem \in Nat
  PROVE  /\ IsWindowChain(WindowChain(rem), rem)
         /\ WindowChain(rem) \in [0..WINDOWS -> Factor]
<1> DEFINE n == WINDOWS
           factor(j) == window_table[j - 1][Digit(rem, j - 1)]
           step == [s \in (1..n) \X Factor |-> mul_q64(s[2], factor(s[1]))]
<1>1. n \in Nat /\ WORD \in Factor
  BY Widths, DecayAssumption DEF Factor
<1>2. \A j \in 1..n, x \in Factor : mul_q64(x, factor(j)) \in Factor
  BY DigitIsColumn, ProductIsFactor
<1>3. step \in [(1..n) \X Factor -> Factor]
  BY <1>2
<1>4. \A j \in 1..n, x \in Factor : step[<<j, x>>] = mul_q64(x, factor(j))
  OBVIOUS
<1> HIDE DEF step
<1>5. PICK f : Iterated(f, Factor, n, WORD, step)
  BY <1>1, <1>3, Recursion, Zenon
<1>6. IsWindowChain(f, rem)
  <2>1. \A j \in 1..n : f[j] = mul_q64(f[j - 1], factor(j))
    <3> TAKE j \in 1..n
    <3>1. j - 1 \in 0..n
      BY <1>1
    <3>2. f[j - 1] \in Factor /\ f[j] = step[<<j, f[j - 1]>>]
      BY <1>5, <3>1 DEF Iterated
    <3> QED
      BY <1>4, <3>2
  <2>2. f[0] = WORD /\ f = [j \in 0..n |-> f[j]]
    BY <1>5 DEF Iterated
  <2>3. \A j \in 0..n : j # 0 => j \in 1..n
    BY <1>1
  <2> QED
    BY <2>1, <2>2, <2>3 DEF IsWindowChain
<1>7. IsWindowChain(WindowChain(rem), rem)
  BY <1>6, Zenon DEF WindowChain, IsWindowChain
<1> DEFINE g == WindowChain(rem)
<1> HIDE DEF g
<1>8. IsWindowChain(g, rem)
  BY <1>7 DEF g
<1>9. g \in [0..n -> Factor]
  <2>1. g[0] = WORD
    BY <1>1, <1>8 DEF IsWindowChain
  <2>2. ASSUME NEW j \in 1..n, g[j - 1] \in Factor
        PROVE  g[j] \in Factor
    <3>1. j \in 0..n /\ j # 0
      BY <1>1
    <3>2. g[j] = mul_q64(g[j - 1], factor(j))
      BY <1>8, <3>1, Zenon DEF IsWindowChain
    <3> QED
      BY <1>2, <2>2, <3>2
  <2>3. \A j \in 0..n : g[j] \in Factor
    BY <1>1, <2>1, <2>2, StaysIn
  <2> QED
    BY <1>8, <2>3 DEF IsWindowChain
<1> QED
  BY <1>7, <1>9 DEF g

(* The factors of decay_trace.                                             *)
IsBitChain(f, rem) ==
  f = [i \in 0..REM_BITS |->
         IF i = 0 THEN WORD
         ELSE IF Bit(rem, i - 1) = 1 THEN (f[i - 1] * DECAY_POWERS[i]) \div WORD
         ELSE f[i - 1]]

(* The factors of the chain over the bits.                                 *)
LEMMA BitChainIsFactors ==
  ASSUME NEW rem
  PROVE  /\ IsBitChain(BitChain(rem), rem)
         /\ BitChain(rem) \in [0..REM_BITS -> Factor]
<1> DEFINE n == REM_BITS
           step == [s \in (1..n) \X Factor |->
                      IF Bit(rem, s[1] - 1) = 1 THEN (s[2] * DECAY_POWERS[s[1]]) \div WORD
                      ELSE s[2]]
<1>1. n \in Nat /\ WORD \in Factor
  BY Widths, DecayAssumption DEF Factor
<1>2. \A i \in 1..n, x \in Factor : (x * DECAY_POWERS[i]) \div WORD \in Factor
  <2> TAKE i \in 1..n, x \in Factor
  <2>1. DECAY_POWERS[i] \in 1..(WORD - 1)
    BY DecayAssumption, SMTT(30) DEF REM_BITS
  <2>2. DECAY_POWERS[i] \in Factor
    BY <2>1, DecayAssumption DEF Factor
  <2> QED
    BY <2>2, ProductIsFactor
<1>3. step \in [(1..n) \X Factor -> Factor]
  BY <1>2
<1>4. \A i \in 1..n, x \in Factor :
        step[<<i, x>>] = IF Bit(rem, i - 1) = 1 THEN (x * DECAY_POWERS[i]) \div WORD ELSE x
  OBVIOUS
<1> HIDE DEF step
<1>5. PICK f : Iterated(f, Factor, n, WORD, step)
  BY <1>1, <1>3, Recursion, Zenon
<1>6. IsBitChain(f, rem)
  <2>1. \A i \in 1..n : f[i] = IF Bit(rem, i - 1) = 1 THEN (f[i - 1] * DECAY_POWERS[i]) \div WORD
                               ELSE f[i - 1]
    <3> TAKE i \in 1..n
    <3>1. i - 1 \in 0..n
      BY <1>1
    <3>2. f[i - 1] \in Factor /\ f[i] = step[<<i, f[i - 1]>>]
      BY <1>5, <3>1 DEF Iterated
    <3> QED
      BY <1>4, <3>2
  <2>2. f[0] = WORD /\ f = [i \in 0..n |-> f[i]]
    BY <1>5 DEF Iterated
  <2>3. \A i \in 0..n : i # 0 => i \in 1..n
    BY <1>1
  <2> QED
    BY <2>1, <2>2, <2>3 DEF IsBitChain
<1>7. IsBitChain(BitChain(rem), rem)
  BY <1>6, Zenon DEF BitChain, IsBitChain
<1> DEFINE g == BitChain(rem)
<1> HIDE DEF g
<1>8. IsBitChain(g, rem)
  BY <1>7 DEF g
<1>9. g \in [0..n -> Factor]
  <2>1. g[0] = WORD
    BY <1>1, <1>8 DEF IsBitChain
  <2>2. ASSUME NEW i \in 1..n, g[i - 1] \in Factor
        PROVE  g[i] \in Factor
    <3>1. i \in 0..n /\ i # 0
      BY <1>1
    <3>2. g[i] = IF Bit(rem, i - 1) = 1 THEN (g[i - 1] * DECAY_POWERS[i]) \div WORD ELSE g[i - 1]
      BY <1>8, <3>1, Zenon DEF IsBitChain
    <3> QED
      BY <1>2, <2>2, <3>2
  <2>3. \A i \in 0..n : g[i] \in Factor
    BY <1>1, <2>1, <2>2, StaysIn
  <2> QED
    BY <1>8, <2>3 DEF IsBitChain
<1> QED
  BY <1>7, <1>9 DEF g

-----------------------------------------------------------------------------
(* Whole years only halve, rounding down.                                  *)
LEMMA ShiftedIsNoMore ==
  ASSUME NEW value \in Nat, NEW duration \in Nat
  PROVE  Shifted(value, duration) \in 0..value
<1> DEFINE k == duration \div SECONDS_PER_YEAR
           shift == IF k >= W1_SHIFT_LIMIT THEN 0 ELSE k
           p == 2^shift
<1>1. W1_SHIFT_LIMIT \in Nat \ {0} /\ SECONDS_PER_YEAR \in Nat \ {0} /\ REM_BITS \in Nat
      /\ WINDOW_BITS \in Nat
  BY DecayAssumption, Widths
<1>2. k \in Nat
  BY <1>1
<1> HIDE DEF k
<1>3. shift \in 0..(W1_SHIFT_LIMIT + REM_BITS + WINDOW_BITS)
  BY <1>1, <1>2
<1>4. p \in Nat \ {0}
  BY <1>3, PositivePowers
<1>5. Shifted(value, duration) = IF k >= W1_SHIFT_LIMIT THEN 0 ELSE value \div p
  BY DEF Shifted, shift_trace, k
<1> HIDE DEF p
<1> DEFINE q == value \div p
<1>6. q \in Nat /\ p * q <= value
  BY <1>4
<1> HIDE DEF q
<1>7. q <= value
  <2>1. 1 * q <= p * q
    BY <1>4, <1>6, ProductsGrow
  <2>2. 1 * q = q /\ p * q \in Nat
    BY <1>4, <1>6
  <2> QED
    BY <1>6, <2>1, <2>2
<1> QED
  BY <1>5, <1>6, <1>7 DEF q

(* Nor does rounding to the nearest exceed what is multiplied by a factor. *)
LEMMA RoundedIsNoMore ==
  ASSUME NEW x \in Nat, NEW factor \in Factor
  PROVE  RoundHalfUp(x, factor) \in 0..x
<1>1. WORD \in Nat \ {0} /\ factor \in Nat /\ factor <= WORD
  BY DecayAssumption DEF Factor
<1> DEFINE w == WORD
           p == x * factor
           y == x * w
           q == (p + w \div 2) \div w
<1>2. p \in Nat /\ y \in Nat /\ p <= y
  <2>1. factor * x <= WORD * x
    BY <1>1, ProductsGrow
  <2>2. factor * x = x * factor /\ WORD * x = x * WORD /\ x * factor \in Nat /\ x * WORD \in Nat
    BY <1>1
  <2> QED
    BY <2>1, <2>2
<1>3. w \in Nat \ {0}
  BY <1>1
<1> HIDE DEF p, w
<1>4. q \in Nat /\ w * q <= p + w \div 2 /\ w \div 2 < w
  BY <1>2, <1>3
<1> HIDE DEF q
<1>5. q <= x
  <2> SUFFICES ASSUME x + 1 <= q PROVE FALSE
    BY <1>4
  <2>1. (x + 1) * w <= q * w
    BY <1>3, <1>4, ProductsGrow
  <2>2. (x + 1) * w = y + w /\ q * w = w * q /\ w * q \in Nat
    BY <1>3, <1>4
  <2> HIDE DEF y
  <2> QED
    BY <1>2, <1>3, <1>4, <2>1, <2>2
<1> QED
  BY <1>4, <1>5 DEF RoundHalfUp, q, p, w

(* A note is never worth more than it was made with, whichever of the two
   chains computes it (decay.rs: decay, decay_windowed): waiting makes no
   value.                                                                  *)
THEOREM DecayOnlyTakes ==
  ASSUME NEW value \in Nat, NEW duration \in Nat
  PROVE  /\ decay(value, duration) \in 0..value
         /\ decay_windowed(value, duration) \in 0..value
<1> DEFINE rem == duration % SECONDS_PER_YEAR
           x == Shifted(value, duration)
<1>1. rem \in Nat
  BY DecayAssumption
<1>2. x \in Nat /\ x <= value
  BY ShiftedIsNoMore
<1> HIDE DEF rem, x
<1>3. BitChain(rem)[REM_BITS] \in Factor
  BY BitChainIsFactors, Widths
<1>4. WindowChain(rem)[WINDOWS] \in Factor
  BY <1>1, WindowChainIsFactors, Widths
<1>5. decay(value, duration) = RoundHalfUp(x, BitChain(rem)[REM_BITS])
  BY DEF decay, rem, x
<1>6. decay_windowed(value, duration) = RoundHalfUp(x, WindowChain(rem)[WINDOWS])
  BY DEF decay_windowed, rem, x
<1>7. \A y \in 0..x : y \in 0..value
  BY <1>2
<1> QED
  BY <1>2, <1>3, <1>4, <1>5, <1>6, <1>7, RoundedIsNoMore

(* What a note is worth is a number, however long it lay.                  *)
LEMMA WorthIsNat ==
  ASSUME NEW value \in Nat, NEW duration \in Nat
  PROVE  decay_windowed(value, duration) \in Nat
BY DecayOnlyTakes

(* Nothing is worth nothing, at any time.                                  *)
LEMMA NothingIsWorthNothing ==
  ASSUME NEW duration \in Nat
  PROVE  decay_windowed(0, duration) = 0
BY DecayOnlyTakes
=============================================================================
