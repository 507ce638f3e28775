------------------------------- MODULE Decay -------------------------------
(***************************************************************************)
(* What a note is worth after some time: src/decay.rs.  Whole years are a  *)
(* right shift, the seconds that remain pick factors below 1 in fixed      *)
(* point, and the last step rounds half up.  There are two chains for the  *)
(* factor: one step for every bit of the remainder, as in unit.c, and one  *)
(* for every window of bits, which is what notes are spent with.  Each     *)
(* step drops what does not fit the word, so the two need not agree.       *)
(* The widths are parameters; 2^64 is WORD.                                *)
(***************************************************************************)
EXTENDS Integers, Sequences

CONSTANTS
  SECONDS_PER_YEAR,
  WORD,             (* one in fixed point: 2^64                            *)
  VALUE_LIMIT,      (* values are below: 2^63                              *)
  W1_SHIFT_LIMIT,   (* so many years leave nothing: 63                     *)
  DECAY_POWERS,     (* factor of 2^(i-1) seconds, one for every bit        *)
  WINDOW_BITS       (* bits per window: 5                                  *)

REM_BITS == Len(DECAY_POWERS)
WINDOWS == (REM_BITS + WINDOW_BITS - 1) \div WINDOW_BITS
WINDOW_SIZE == 2^WINDOW_BITS

ASSUME DecayAssumption ==
  /\ {SECONDS_PER_YEAR, WORD, VALUE_LIMIT, W1_SHIFT_LIMIT, WINDOW_BITS} \subseteq Nat \ {0}
  /\ VALUE_LIMIT <= 2^W1_SHIFT_LIMIT
  /\ 2^REM_BITS >= SECONDS_PER_YEAR
  /\ REM_BITS % WINDOW_BITS = 0
  /\ DECAY_POWERS \in Seq(1..(WORD - 1))
(* What there is to know of 2^i, as the provers know nothing of powers.     *)
ASSUME PositivePowers ==
  \A i \in 0..(W1_SHIFT_LIMIT + REM_BITS + WINDOW_BITS) : 2^i \in Nat \ {0}

Bit(n, i) == (n \div 2^i) % 2

(* shift_trace: value = q * 2^shift + r, and nothing left after `limit`.    *)
shift_trace(value, k, limit) ==
  LET big   == k >= limit
      shift == IF big THEN 0 ELSE k
      q     == value \div 2^shift
  IN  [k |-> k, big |-> big, shift |-> shift, pow |-> 2^shift,
       q |-> q, r |-> value - q * 2^shift, shifted |-> IF big THEN 0 ELSE q]

(* floor((x * factor + 1/2) in fixed point)                                *)
RoundHalfUp(x, factor) == (x * factor + WORD \div 2) \div WORD

Shifted(value, duration) ==
  shift_trace(value, duration \div SECONDS_PER_YEAR, W1_SHIFT_LIMIT).shifted

(* decay_trace: f[i] is the factor after the i lowest bits.                *)
BitChain(rem) ==
  LET f[i \in 0..REM_BITS] ==
        IF i = 0 THEN WORD
        ELSE IF Bit(rem, i - 1) = 1 THEN (f[i - 1] * DECAY_POWERS[i]) \div WORD
        ELSE f[i - 1]
  IN  f

decay(value, duration) ==
  RoundHalfUp(Shifted(value, duration),
              BitChain(duration % SECONDS_PER_YEAR)[REM_BITS])

(* One fixed point step; either factor may be exactly one.                 *)
mul_q64(a, b) == IF a = WORD THEN b ELSE IF b = WORD THEN a ELSE (a * b) \div WORD

(* window_table: in row j the factors of c * 2^(WINDOW_BITS * j) seconds.   *)
window_table ==
  [j \in 0..WINDOWS - 1 |->
     [c \in 0..WINDOW_SIZE - 1 |->
        LET f[bit \in 0..WINDOW_BITS] ==
              IF bit = 0 THEN WORD
              ELSE IF Bit(c, bit - 1) = 1
              THEN mul_q64(f[bit - 1], DECAY_POWERS[bit + j * WINDOW_BITS])
              ELSE f[bit - 1]
        IN  f[WINDOW_BITS]]]

Digit(rem, j) == (rem \div 2^(j * WINDOW_BITS)) % WINDOW_SIZE

(* windowed_trace: f[j] is the factor after the j lowest windows.          *)
WindowChain(rem) ==
  LET f[j \in 0..WINDOWS] ==
        IF j = 0 THEN WORD
        ELSE mul_q64(f[j - 1], window_table[j - 1][Digit(rem, j - 1)])
  IN  f

decay_windowed(value, duration) ==
  RoundHalfUp(Shifted(value, duration),
              WindowChain(duration % SECONDS_PER_YEAR)[WINDOWS])
=============================================================================
