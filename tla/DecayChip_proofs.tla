-------------------------- MODULE DecayChip_proofs --------------------------
(***************************************************************************)
(* The regions of the decay chip have one solution each, for every width   *)
(* of word, field and range check that fit together.  A gate is an         *)
(* equation in the field; what is checked is small enough that no side of  *)
(* it wraps around, so it is an equation of numbers.  The chain goes on as *)
(* the one of src/decay.rs does, since a digit in front does not change    *)
(* the factors of those behind it.  And what the code fills in itself is   *)
(* small enough for every range check.                                     *)
(***************************************************************************)
EXTENDS DecayChip, Decay_proofs

Regions == {"chain", "duration", "year shift", "round half up", "proven"}

(* What the digits so far are below.                                       *)
Reach == IF windowed THEN 2^(step * WINDOW_BITS) ELSE 2^step

CInv ==
  /\ windowed \in BOOLEAN
  /\ now \in 0..(TIME_LIMIT - 1) /\ t_note \in 0..(TIME_LIMIT - 1)
  /\ value \in 0..(VALUE_LIMIT - 1)
  /\ region \in Regions
  /\ step \in 0..Steps /\ (region = "chain" => step < Steps)
  /\ f \in 0..WORD
  /\ rem \in Nat /\ rem < Reach
  /\ times \in 0..(RANGE - 1) /\ shifted \in 0..(RANGE - 1) /\ decayed \in Nat
  /\ NoSecondSolution

-----------------------------------------------------------------------------
(* A number that a range check takes for less than `limit` is, unless it is
   so far below zero that it comes around.                                 *)

LEMMA AsItSeems ==
  ASSUME NEW x \in Int, NEW field \in Nat \ {0}, NEW limit \in Nat,
         x < field, limit - field <= x, x % field < limit
  PROVE  x >= 0 /\ x < limit
<1>1. CASE x >= 0
  <2>1. x \in Nat
    BY <1>1
  <2> QED
    BY <1>1, <2>1, SmallRemainder
<1>2. CASE x < 0
  <2>1. limit <= x + field /\ x + field \in 0..(field - 1)
    BY <1>2
  <2>2. x = (-1) * field + (x + field)
    OBVIOUS
  <2>3. x % field = x + field
    BY <2>1, <2>2, UniqueRemainder
  <2> QED
    BY <2>1, <2>3
<1> QED
  BY <1>1, <1>2

(* A quotient with a remainder below the divisor is the quotient.          *)
LEMMA TheQuotient ==
  ASSUME NEW a \in Nat, NEW n \in Nat \ {0}, NEW q \in Nat, a - q * n >= 0, a - q * n < n
  PROVE  a \div n = q /\ a % n = a - q * n
<1> DEFINE r == a - q * n
<1>1. r \in Nat /\ r < n /\ a = r + q * n
  OBVIOUS
<1> HIDE DEF r
<1>2. (r + q * n) % n = r /\ (r + q * n) \div n = q
  BY <1>1, UnpacksAsPacked
<1> QED
  BY <1>1, <1>2 DEF r

(* The same for a product `a` and its quotient by the word: Exact.         *)
LEMMA ExactQuotient ==
  ASSUME NEW a \in Nat, a < FIELD, NEW q \in 0..(RANGE - 1), Exact(a - q * WORD)
  PROVE  a \div WORD = q /\ q * WORD <= a
<1>1. WORD \in Nat \ {0} /\ RANGE \in Nat \ {0} /\ FIELD \in Nat \ {0}
      /\ RANGE * WORD + WORD < FIELD
  BY DecayAssumption, FieldAssumption
<1>2. q \in Nat /\ q <= RANGE
  BY <1>1
<1>3. q * WORD <= RANGE * WORD
  BY <1>1, <1>2, ProductsGrow
<1> DEFINE p == q * WORD
           m == RANGE * WORD
<1>4. p \in Nat /\ m \in Nat /\ p <= m /\ m + WORD < FIELD
  BY <1>1, <1>2, <1>3
<1>5. (a - p) % FIELD < WORD
  BY DEF Exact
<1> HIDE DEF p, m
<1>6. a - p \in Int /\ a - p < FIELD /\ WORD - FIELD <= a - p
  BY <1>1, <1>4
<1>7. a - p >= 0 /\ a - p < WORD
  BY <1>1, <1>5, <1>6, AsItSeems
<1>8. a - q * WORD >= 0 /\ a - q * WORD < WORD
  BY <1>7 DEF p
<1> QED
  BY <1>1, <1>2, <1>8, TheQuotient

(* A row of either chain: the product of two factors is a factor again.    *)
LEMMA ChainRow ==
  ASSUME CInv, NEW factor \in 0..WORD, NEW product \in 0..(RANGE - 1),
         ChainGate(factor, product)
  PROVE  product = (f * factor) \div WORD /\ product \in 0..WORD
<1>1. WORD \in Nat \ {0} /\ RANGE \in Nat \ {0} /\ WORD < RANGE /\ FIELD \in Nat
      /\ RANGE * WORD + WORD < FIELD
  BY DecayAssumption, FieldAssumption
<1>2. f \in Nat /\ f <= WORD /\ factor \in Nat /\ factor <= WORD /\ product \in Nat
  BY <1>1 DEF CInv
<1>3. f * factor <= WORD * factor /\ factor * WORD <= WORD * WORD
      /\ WORD * WORD <= RANGE * WORD
  BY <1>1, <1>2, ProductsGrow
<1> DEFINE a == f * factor
<1>4. a \in Nat /\ a <= WORD * WORD /\ a < FIELD
  <2>1. WORD * factor = factor * WORD
    BY <1>1, <1>2
  <2>2. a \in Nat
    BY <1>2
  <2> QED
    BY <1>1, <1>3, <2>1, <2>2
<1>5. Exact(a - product * WORD)
  BY DEF ChainGate
<1> HIDE DEF a
<1>6. a \div WORD = product /\ product * WORD <= a
  BY <1>4, <1>5, ExactQuotient
<1>7. product <= WORD
  <2>1. product * WORD <= WORD * WORD
    BY <1>1, <1>2, <1>4, <1>6
  <2> SUFFICES ASSUME product >= WORD + 1 PROVE FALSE
    BY <1>1, <1>2
  <2>2. (WORD + 1) * WORD <= product * WORD
    BY <1>1, <1>2, ProductsGrow
  <2>3. (WORD + 1) * WORD = WORD * WORD + WORD
    BY <1>1
  <2> DEFINE w2 == WORD * WORD
             pw == product * WORD
  <2>4. w2 \in Nat /\ pw \in Nat
    BY <1>1, <1>2
  <2>5. w2 + WORD <= pw /\ pw <= w2
    BY <2>1, <2>2, <2>3
  <2> HIDE DEF w2, pw
  <2> QED
    BY <1>1, <2>4, <2>5
<1> QED
  BY <1>2, <1>6, <1>7 DEF a
(* The powers of the shift table: the largest, any, and beyond the limit.  *)
LEMMA TablePowers ==
  /\ 2^POW_TABLE_MAX \in Nat
  /\ \A i \in 0..POW_TABLE_MAX : 2^i \in Nat \ {0} /\ 2^i <= 2^POW_TABLE_MAX
  /\ \A i \in W1_SHIFT_LIMIT..POW_TABLE_MAX : VALUE_LIMIT <= 2^i
<1>1. POW_TABLE_MAX \in 0..POW_TABLE_MAX /\ W1_SHIFT_LIMIT \in 0..POW_TABLE_MAX
  BY DecayAssumption, FieldAssumption
<1>2. \A i \in W1_SHIFT_LIMIT..POW_TABLE_MAX : i \in 0..POW_TABLE_MAX
  BY DecayAssumption
<1> DEFINE top == 2^POW_TABLE_MAX
           limit == 2^W1_SHIFT_LIMIT
<1>3. top \in 1..top /\ limit \in 1..top
  BY <1>1, PowerAssumption
<1>4. VALUE_LIMIT <= limit /\ VALUE_LIMIT \in Nat
  BY DecayAssumption
<1>5. ASSUME NEW i \in 0..POW_TABLE_MAX
      PROVE  2^i \in 1..top
  BY <1>5, PowerAssumption
<1>6. ASSUME NEW i \in W1_SHIFT_LIMIT..POW_TABLE_MAX
      PROVE  limit <= 2^i
  BY <1>6, PowerAssumption
<1> HIDE DEF top, limit
<1>7. top \in Nat /\ limit \in Nat
  BY <1>3
<1>8. ASSUME NEW i \in 0..POW_TABLE_MAX
      PROVE  2^i \in Nat \ {0} /\ 2^i <= top
  <2> DEFINE p == 2^i
  <2>1. p \in 1..top
    BY <1>5
  <2> HIDE DEF p
  <2>2. p \in Nat \ {0} /\ p <= top
    BY <1>7, <2>1
  <2> QED
    BY <2>2 DEF p
<1>9. ASSUME NEW i \in W1_SHIFT_LIMIT..POW_TABLE_MAX
      PROVE  VALUE_LIMIT <= 2^i
  <2> DEFINE p == 2^i
  <2>1. p \in Nat /\ limit <= p
    BY <1>2, <1>6, <1>8
  <2> HIDE DEF p
  <2>2. VALUE_LIMIT <= p
    BY <1>4, <1>7, <2>1
  <2> QED
    BY <2>2 DEF p
<1> QED
  BY <1>7, <1>8, <1>9 DEF top

(* Two numbers that passed a range check do not wrap around when added.    *)
LEMMA WideField ==
  RANGE + RANGE <= FIELD
<1> DEFINE top == 2^POW_TABLE_MAX
<1>1. top \in Nat \ {0}
  <2>1. POW_TABLE_MAX \in 0..POW_TABLE_MAX
    BY FieldAssumption
  <2> QED
    BY <2>1, TablePowers
<1>2. RANGE * top + RANGE < FIELD
  BY FieldAssumption
<1>3. RANGE \in Nat /\ FIELD \in Nat
  BY FieldAssumption
<1> HIDE DEF top
<1>4. 1 * RANGE <= top * RANGE
  BY <1>1, <1>3, ProductsGrow
<1>5. top * RANGE = RANGE * top /\ 1 * RANGE = RANGE /\ RANGE * top \in Nat
  BY <1>1, <1>3
<1> QED
  BY <1>2, <1>3, <1>4, <1>5

(* The digits so far stay below what they can reach, and that is a checked
   cell; row by row they reach further.                                    *)

LEMMA ReachIsChecked ==
  ASSUME CInv
  PROVE  /\ Reach \in Nat /\ Reach <= RANGE
         /\ \A digit \in 0..(WINDOW_SIZE - 1) : windowed =>
              rem + digit * 2^(step * WINDOW_BITS) \in Nat
              /\ rem + digit * 2^(step * WINDOW_BITS) < 2^((step + 1) * WINDOW_BITS)
         /\ \A bit \in {0, 1} : ~windowed =>
              rem + bit * 2^step \in Nat /\ rem + bit * 2^step < 2^(step + 1)
<1>1. CASE windowed
  <2>1. step \in 0..WINDOWS /\ RANGE \in Nat /\ WINDOW_SIZE \in Nat \ {0}
    BY <1>1, PowerAssumption, FieldAssumption DEF CInv, Steps
  <2> DEFINE m == 2^(step * WINDOW_BITS)
             above == 2^((step + 1) * WINDOW_BITS)
  <2>2. m \in 1..RANGE /\ above = m * WINDOW_SIZE
    BY <2>1, PowerAssumption
  <2>3. rem \in Nat /\ rem < m
    BY <1>1 DEF CInv, Reach
  <2> HIDE DEF m, above
  <2>4. ASSUME NEW digit \in 0..(WINDOW_SIZE - 1)
        PROVE  rem + digit * m \in Nat /\ rem + digit * m < above
    <3>1. digit \in Nat /\ digit < WINDOW_SIZE /\ m \in Nat \ {0}
      BY <2>1, <2>2
    <3> QED
      BY <2>1, <2>2, <2>3, <3>1, PackedIsSmall
  <2>5. m \in Nat /\ m <= RANGE
    BY <2>1, <2>2
  <2> QED
    BY <1>1, <2>4, <2>5 DEF m, above, Reach
<1>2. CASE ~windowed
  <2>1. step \in 0..REM_BITS /\ RANGE \in Nat
    BY <1>2, PowerAssumption, FieldAssumption DEF CInv, Steps
  <2> DEFINE m == 2^step
             above == 2^(step + 1)
  <2>2. m \in 1..RANGE /\ above = m * 2
    BY <2>1, PowerAssumption
  <2>3. rem \in Nat /\ rem < m
    BY <1>2 DEF CInv, Reach
  <2> HIDE DEF m, above
  <2>4. \A bit \in {0, 1} : rem + bit * m \in Nat /\ rem + bit * m < above
    BY <2>1, <2>2, <2>3
  <2>5. m \in Nat /\ m <= RANGE
    BY <2>1, <2>2
  <2> QED
    BY <1>2, <2>4, <2>5 DEF m, above, Reach
<1> QED
  BY <1>1, <1>2

(* Years and seconds of a duration are those of the division, and a note is
   not from the future.                                                    *)

LEMMA OneDuration ==
  ASSUME CInv, NEW years \in 0..(RANGE - 1), DurationGate(years, rem)
  PROVE  /\ now - t_note >= 0
         /\ years = (now - t_note) \div SECONDS_PER_YEAR
         /\ rem = (now - t_note) % SECONDS_PER_YEAR
<1> DEFINE year == SECONDS_PER_YEAR
           passed == years * year
<1>1. /\ year \in Nat \ {0} /\ RANGE \in Nat \ {0} /\ FIELD \in Nat \ {0} /\ TIME_LIMIT \in Nat
      /\ RANGE * year + year + TIME_LIMIT < FIELD
  BY DecayAssumption, FieldAssumption
<1>2. RANGE + RANGE <= FIELD
  BY WideField
<1>3. rem \in Nat /\ rem < RANGE
  BY <1>1, ReachIsChecked DEF CInv
<1>4. years \in Nat /\ years <= RANGE /\ passed \in Nat /\ passed <= RANGE * year
  <2>1. years \in Nat /\ years <= RANGE
    BY <1>1
  <2> QED
    BY <1>1, <2>1, ProductsGrow
<1>5. year - 1 - rem >= 0
  <2>1. (year - 1 - rem) % FIELD < RANGE
    BY DEF DurationGate, Checked
  <2>2. year <= RANGE * year
    <3>1. 1 * year <= RANGE * year
      BY <1>1, ProductsGrow
    <3> QED
      BY <1>1, <3>1
  <2>3. RANGE * year \in Nat
    BY <1>1
  <2> DEFINE most == RANGE * year
  <2>4. year - 1 - rem \in Int /\ year - 1 - rem < FIELD /\ RANGE - FIELD <= year - 1 - rem
    <3>1. most \in Nat /\ year <= most /\ most + year + TIME_LIMIT < FIELD
      BY <1>1, <2>2, <2>3
    <3> HIDE DEF most, year
    <3>2. year \in Nat \ {0}
      BY <1>1
    <3> QED
      BY <1>1, <1>2, <1>3, <3>1, <3>2
  <2> QED
    BY <1>1, <2>1, <2>4, AsItSeems
<1>6. now - t_note - passed - rem = 0
  <2>1. (now - t_note - passed - rem) % FIELD = 0
    BY DEF DurationGate
  <2>2. now \in Nat /\ t_note \in Nat /\ now < TIME_LIMIT /\ t_note < TIME_LIMIT
    BY <1>1 DEF CInv
  <2> DEFINE most == RANGE * year
  <2>3. most \in Nat /\ passed \in Nat /\ passed <= most /\ rem < year
        /\ most + year + TIME_LIMIT < FIELD
    BY <1>1, <1>3, <1>4, <1>5
  <2>4. year \in Nat
    BY <1>1
  <2> HIDE DEF most, year, passed
  <2>5. now - t_note - passed - rem \in Int /\ -FIELD < now - t_note - passed - rem
        /\ now - t_note - passed - rem < FIELD
    BY <1>1, <1>3, <2>2, <2>3, <2>4
  <2> QED
    BY <1>1, <2>1, <2>5, SmallMultiple
<1> DEFINE age == now - t_note
<1>7. age = rem + years * year /\ age \in Nat
  <2>1. now \in Int /\ t_note \in Int
    BY DEF CInv
  <2> QED
    BY <1>3, <1>4, <1>6, <2>1
<1>8. rem < year
  BY <1>1, <1>3, <1>5
<1>9. (rem + years * year) % year = rem /\ (rem + years * year) \div year = years
  BY <1>1, <1>3, <1>4, <1>8, UnpacksAsPacked
<1>10. age % year = rem /\ age \div year = years
  BY <1>7, <1>9
<1> QED
  BY <1>7, <1>10

(* A quotient by a power of the table, with both checks of its remainder.  *)
LEMMA OneQuotient ==
  ASSUME CInv, NEW shift \in 0..POW_TABLE_MAX, NEW q \in 0..(RANGE - 1),
         Checked(value - q * 2^shift), Checked(2^shift - 1 - (value - q * 2^shift))
  PROVE  q = value \div 2^shift
<1> DEFINE pow == 2^shift
           top == 2^POW_TABLE_MAX
           part == q * pow
<1>1. top \in Nat /\ pow \in Nat \ {0} /\ pow <= top
  BY TablePowers
<1>2. top \in Nat /\ pow \in Nat \ {0} /\ pow <= top
  BY <1>1
<1>3. RANGE \in Nat \ {0} /\ FIELD \in Nat \ {0} /\ RANGE * top + RANGE < FIELD
      /\ VALUE_LIMIT \in Nat /\ VALUE_LIMIT <= RANGE
  BY DecayAssumption, FieldAssumption
<1>4. value \in Nat /\ value < RANGE /\ q \in Nat /\ q <= RANGE
  BY <1>3 DEF CInv
<1>5. (value - part) % FIELD < RANGE /\ (pow - 1 - (value - part)) % FIELD < RANGE
  BY DEF Checked
<1> HIDE DEF pow, top
<1>6. part \in Nat /\ part <= RANGE * top /\ RANGE * top \in Nat /\ RANGE <= RANGE * top
      /\ top <= RANGE * top
  <2>1. q * pow <= RANGE * pow /\ pow * RANGE <= top * RANGE
        /\ 1 * RANGE <= top * RANGE /\ 1 * top <= RANGE * top
    BY <1>2, <1>3, <1>4, ProductsGrow
  <2>2. RANGE * pow = pow * RANGE /\ top * RANGE = RANGE * top /\ RANGE * top \in Nat
        /\ part \in Nat /\ 1 * RANGE = RANGE /\ 1 * top = top
    BY <1>2, <1>3, <1>4
  <2>3. RANGE * pow \in Nat
    BY <1>2, <1>3
  <2> QED
    BY <2>1, <2>2, <2>3
<1> DEFINE most == RANGE * top
<1>7. part \in Nat /\ part <= most /\ most \in Nat /\ RANGE <= most /\ top <= most
      /\ most + RANGE < FIELD
  BY <1>3, <1>6
<1> HIDE DEF part, most
<1>8. value - part >= 0 /\ value - part < RANGE
  <2>1. value - part \in Int /\ value - part < FIELD /\ RANGE - FIELD <= value - part
    BY <1>3, <1>4, <1>7
  <2> QED
    BY <1>3, <1>5, <2>1, AsItSeems
<1>9. pow - 1 - (value - part) >= 0
  <2> DEFINE x == pow - 1 - (value - part)
  <2>1. x \in Int /\ x < FIELD /\ RANGE - FIELD <= x
    BY <1>2, <1>3, <1>4, <1>7, <1>8
  <2>2. x % FIELD < RANGE
    BY <1>5
  <2> HIDE DEF x
  <2>3. x >= 0
    BY <1>3, <2>1, <2>2, AsItSeems
  <2> QED
    BY <2>3 DEF x
<1>10. value - part < pow
  BY <1>2, <1>4, <1>7, <1>9
<1>11. value \div pow = q
  BY <1>2, <1>4, <1>8, <1>10, TheQuotient DEF part
<1> QED
  BY <1>11 DEF pow

(* The year shift of src/decay.rs without its trace.                       *)
LEMMA ShiftOrNothing ==
  ASSUME NEW amount, NEW duration
  PROVE  Shifted(amount, duration) =
           IF duration \div SECONDS_PER_YEAR >= W1_SHIFT_LIMIT THEN 0
           ELSE amount \div 2^(duration \div SECONDS_PER_YEAR)
BY DEF Shifted, shift_trace

(* Only so many years can be shown to be beyond the limit.                 *)
LEMMA ManyYears ==
  ASSUME CInv, Checked(times - W1_SHIFT_LIMIT)
  PROVE  times >= W1_SHIFT_LIMIT
<1> DEFINE x == times - W1_SHIFT_LIMIT
<1>1. W1_SHIFT_LIMIT \in Nat /\ W1_SHIFT_LIMIT <= RANGE /\ RANGE \in Nat
      /\ FIELD \in Nat \ {0} /\ RANGE + RANGE <= FIELD
  BY DecayAssumption, FieldAssumption, WideField
<1>2. times \in Nat /\ times < RANGE
  BY <1>1 DEF CInv
<1>3. x \in Int /\ x < FIELD /\ RANGE - FIELD <= x
  BY <1>1, <1>2
<1>4. x % FIELD < RANGE
  BY DEF Checked
<1> HIDE DEF x
<1>5. x >= 0
  BY <1>1, <1>3, <1>4, AsItSeems
<1> QED
  BY <1>1, <1>2, <1>5 DEF x

(* A shift of the table that is beyond the limit leaves nothing of a value. *)
LEMMA NothingLeft ==
  ASSUME CInv, NEW shift \in W1_SHIFT_LIMIT..POW_TABLE_MAX
  PROVE  value \div 2^shift = 0
<1> DEFINE pow == 2^shift
<1>1. pow \in Nat \ {0} /\ VALUE_LIMIT <= pow
  <2>1. shift \in 0..POW_TABLE_MAX
    BY DecayAssumption
  <2> QED
    BY <2>1, TablePowers
<1>2. value \in Nat /\ value < VALUE_LIMIT /\ VALUE_LIMIT \in Nat
  BY DecayAssumption DEF CInv
<1> HIDE DEF pow
<1>3. value - 0 * pow >= 0 /\ value - 0 * pow < pow
  BY <1>1, <1>2
<1>4. value \div pow = 0
  BY <1>1, <1>2, <1>3, TheQuotient
<1> QED
  BY <1>4 DEF pow

(* A shift of the table that leaves nothing of any value.                  *)
LEMMA BeyondTheLimit ==
  ASSUME NEW shift \in 0..POW_TABLE_MAX, shift >= W1_SHIFT_LIMIT
  PROVE  shift \in W1_SHIFT_LIMIT..POW_TABLE_MAX
<1> DEFINE limit == W1_SHIFT_LIMIT
           most == POW_TABLE_MAX
<1>1. limit \in Nat /\ most \in Nat
  BY DecayAssumption, FieldAssumption
<1>2. shift \in 0..most /\ shift >= limit
  OBVIOUS
<1> HIDE DEF limit, most
<1>3. shift \in limit..most
  BY <1>1, <1>2
<1> QED
  BY <1>3 DEF limit, most

(* The value after so many years.                                          *)
LEMMA OneShift ==
  ASSUME CInv, region = "year shift", NEW big \in BOOLEAN,
         NEW shift \in 0..POW_TABLE_MAX, NEW q \in 0..(RANGE - 1),
         ShiftGate(times, big, shift, q)
  PROVE  (IF big THEN 0 ELSE q) = Shifted(value, now - t_note)
<1>1. times = (now - t_note) \div SECONDS_PER_YEAR
  BY DEF CInv, NoSecondSolution
<1>2. Shifted(value, now - t_note) =
        IF times >= W1_SHIFT_LIMIT THEN 0 ELSE value \div 2^times
  BY <1>1, ShiftOrNothing
<1>3. q = value \div 2^shift
  BY OneQuotient DEF ShiftGate
<1>4. CASE big
  <2>1. Checked(times - W1_SHIFT_LIMIT)
    BY <1>4 DEF ShiftGate
  <2> QED
    BY <1>2, <1>4, <2>1, ManyYears
<1>5. CASE ~big
  <2>1. shift = times
    BY <1>5 DEF ShiftGate
  <2>2. CASE times >= W1_SHIFT_LIMIT
    <3>1. shift \in W1_SHIFT_LIMIT..POW_TABLE_MAX
      BY <2>1, <2>2, BeyondTheLimit
    <3> QED
      BY <1>2, <1>3, <1>5, <2>2, <3>1, NothingLeft
  <2>3. CASE ~(times >= W1_SHIFT_LIMIT)
    BY <1>2, <1>3, <1>5, <2>1, <2>3
  <2> QED
    BY <2>2, <2>3
<1> QED
  BY <1>4, <1>5

(* The product, rounded half up.                                           *)
LEMMA OneRounding ==
  ASSUME CInv, NEW result \in 0..(RANGE - 1), RoundGate(shifted, f, result)
  PROVE  result = RoundHalfUp(shifted, f)
<1> DEFINE half == WORD \div 2
           product == shifted * f
<1>1. WORD \in Nat \ {0} /\ RANGE \in Nat \ {0} /\ FIELD \in Nat
      /\ RANGE * WORD + WORD < FIELD
  BY DecayAssumption, FieldAssumption
<1>2. half \in Nat /\ half <= WORD
  BY <1>1
<1>3. shifted \in Nat /\ shifted <= RANGE /\ f \in Nat /\ f <= WORD
  BY <1>1 DEF CInv
<1>4. shifted * f <= RANGE * f /\ f * RANGE <= WORD * RANGE
  BY <1>1, <1>3, ProductsGrow
<1>5. RANGE * f = f * RANGE /\ WORD * RANGE = RANGE * WORD /\ product \in Nat
      /\ RANGE * WORD \in Nat /\ RANGE * f \in Nat
  BY <1>1, <1>3
<1>6. product <= RANGE * WORD
  BY <1>4, <1>5
<1>7. product + half \in Nat /\ product + half < FIELD
  <2> DEFINE most == RANGE * WORD
  <2>1. most \in Nat /\ product <= most /\ most + WORD < FIELD /\ product \in Nat
    BY <1>1, <1>5, <1>6
  <2> HIDE DEF most, product, half
  <2> QED
    BY <1>1, <1>2, <2>1
<1>8. Exact(product + half - result * WORD)
  BY DEF RoundGate
<1> HIDE DEF product, half
<1>9. ASSUME NEW sum \in Nat, sum = product + half
      PROVE  sum \div WORD = result
  <2>1. sum < FIELD /\ Exact(sum - result * WORD)
    BY <1>1, <1>2, <1>5, <1>7, <1>8, <1>9
  <2> QED
    BY <2>1, ExactQuotient
<1> QED
  BY <1>7, <1>9 DEF RoundHalfUp, product, half

-----------------------------------------------------------------------------
(* The chain has at least one step.                                        *)
LEMMA StepsAreCounted ==
  Steps \in Nat \ {0} /\ REM_BITS \in Nat /\ WINDOWS \in Int
<1>1. REM_BITS \in Nat
  BY DecayAssumption DEF REM_BITS
<1>2. WINDOW_BITS \in Nat \ {0}
  BY DecayAssumption
<1>3. WINDOWS \in Int
  BY <1>1, <1>2 DEF WINDOWS
<1>4. REM_BITS > 0 /\ WINDOWS > 0
  BY PowerAssumption
<1> QED
  BY <1>1, <1>3, <1>4 DEF Steps

(* CInv holds in the beginning.                                            *)
LEMMA InitPinned ==
  Init => CInv
<1> SUFFICES ASSUME Init PROVE CInv
  OBVIOUS
<1>1. WORD \in Nat /\ RANGE \in Nat \ {0} /\ TIME_LIMIT \in Nat /\ VALUE_LIMIT \in Nat
  BY DecayAssumption, FieldAssumption
<1>2. Reach = 1
  <2>1. WINDOW_BITS \in Nat
    BY DecayAssumption
  <2>2. 0 * WINDOW_BITS = 0
    BY <2>1
  <2>3. 2^0 = 1
    BY PowerAssumption
  <2>4. 2^(0 * WINDOW_BITS) = 1
    BY <2>2, <2>3
  <2> QED
    BY <2>3, <2>4 DEF Reach, Init
<1>3. 0 \in 0..Steps /\ 0 < Steps
  BY StepsAreCounted
<1>4. NoSecondSolution
  BY DEF Init, NoSecondSolution
<1> QED
  BY <1>1, <1>2, <1>3, <1>4 DEF Init, CInv, Regions

(* A row of either chain keeps the factor below one and the digits below
   their reach; which rows are left is the same for both.                  *)

LEMMA RowPinned ==
  ASSUME CInv, region = "chain", Advance, f' \in 0..WORD, rem' \in Nat, rem' < Reach'
  PROVE  CInv'
<1>1. Steps \in Nat /\ Steps' = Steps
  BY StepsAreCounted DEF Steps, Advance
<1>2. step' \in 0..Steps /\ (region' = "chain" => step' < Steps)
  BY <1>1 DEF CInv, Advance
<1>3. region' \in {"chain", "duration"}
  BY DEF Advance
<1>4. NoSecondSolution'
  BY <1>3 DEF NoSecondSolution
<1> QED
  BY <1>1, <1>2, <1>3, <1>4 DEF CInv, Advance, Regions

(* Every region that is filled in keeps CInv.                              *)
LEMMA StepPinned ==
  CInv /\ [Next]_vars => CInv'
<1> SUFFICES ASSUME CInv, [Next]_vars PROVE CInv'
  OBVIOUS
<1>1. ASSUME NEW digit \in 0..(WINDOW_SIZE - 1), NEW product \in 0..(RANGE - 1),
             WindowStep(digit, product)
      PROVE  CInv'
  <2>1. region = "chain" /\ windowed /\ Advance /\ windowed' = windowed
    BY <1>1 DEF WindowStep, Advance
  <2>2. step \in 0..(WINDOWS - 1)
    BY <2>1, StepsAreCounted DEF CInv, Steps
  <2> DEFINE factor == WindowFactor(step, digit)
  <2>3. factor \in 0..WORD
    BY <2>2, RowIsFactor DEF WindowFactor, Factor
  <2>4. ChainGate(factor, product) /\ f' = product
        /\ rem' = rem + digit * 2^(step * WINDOW_BITS) /\ step' = step + 1
    BY <1>1 DEF WindowStep, Advance
  <2> HIDE DEF factor
  <2>5. f' \in 0..WORD
    BY <2>3, <2>4, ChainRow
  <2>6. Reach' = 2^((step + 1) * WINDOW_BITS)
    BY <2>1, <2>4 DEF Reach
  <2>7. rem' \in Nat /\ rem' < Reach'
    BY <2>1, <2>4, <2>6, ReachIsChecked
  <2> QED
    BY <2>1, <2>5, <2>7, RowPinned
<1>2. ASSUME NEW bit \in {0, 1}, NEW product \in 0..(RANGE - 1), BitStep(bit, product)
      PROVE  CInv'
  <2>1. region = "chain" /\ ~windowed /\ Advance /\ windowed' = windowed
    BY <1>2 DEF BitStep, Advance
  <2>2. step \in 0..(REM_BITS - 1)
    BY <2>1, StepsAreCounted DEF CInv, Steps
  <2> DEFINE factor == DECAY_POWERS[step + 1]
  <2>3. factor \in 0..WORD
    <3>1. factor \in 1..(WORD - 1)
      <4>1. step + 1 \in 1..Len(DECAY_POWERS)
        BY <2>2, StepsAreCounted DEF REM_BITS
      <4> QED
        BY <4>1, DecayAssumption, ElementOfSeq
    <3> HIDE DEF factor
    <3> QED
      BY <3>1, DecayAssumption
  <2>4. ChainGate(factor, product) /\ f' = (IF bit = 1 THEN product ELSE f)
        /\ rem' = rem + bit * 2^step /\ step' = step + 1
    BY <1>2 DEF BitStep, Advance
  <2> HIDE DEF factor
  <2>5. product \in 0..WORD
    BY <2>3, <2>4, ChainRow
  <2>6. f' \in 0..WORD
    BY <2>4, <2>5 DEF CInv
  <2>7. Reach' = 2^(step + 1)
    BY <2>1, <2>4 DEF Reach
  <2>8. rem' \in Nat /\ rem' < Reach'
    BY <2>1, <2>4, <2>7, ReachIsChecked
  <2> QED
    BY <2>1, <2>6, <2>8, RowPinned
<1>3. ASSUME NEW years \in 0..(RANGE - 1), Duration(years)
      PROVE  CInv'
  <2>1. /\ now - t_note >= 0
        /\ years = (now - t_note) \div SECONDS_PER_YEAR
        /\ rem = (now - t_note) % SECONDS_PER_YEAR
    BY <1>3, OneDuration DEF Duration
  <2>2. NoSecondSolution'
    BY <1>3, <2>1 DEF Duration, NoSecondSolution
  <2> QED
    BY <1>3, <2>2 DEF CInv, Duration, Regions, Steps, Reach
<1>4. ASSUME NEW big \in BOOLEAN, NEW shift \in 0..POW_TABLE_MAX, NEW q \in 0..(RANGE - 1),
             YearShift(big, shift, q)
      PROVE  CInv'
  <2>1. (IF big THEN 0 ELSE q) = Shifted(value, now - t_note)
    BY <1>4, OneShift DEF YearShift
  <2>2. shifted' = Shifted(value, now - t_note)
    BY <1>4, <2>1 DEF YearShift
  <2>3. NoSecondSolution'
    BY <1>4, <2>2 DEF CInv, YearShift, NoSecondSolution, Shifted
  <2>4. shifted' \in 0..(RANGE - 1)
    <3>1. 0 \in 0..(RANGE - 1)
      BY FieldAssumption
    <3> DEFINE Cells == 0..(RANGE - 1)
    <3>2. 0 \in Cells /\ q \in Cells /\ shifted' = (IF big THEN 0 ELSE q)
      BY <1>4, <3>1 DEF YearShift
    <3> HIDE DEF Cells
    <3>3. shifted' \in Cells
      BY <3>2
    <3> QED
      BY <3>3 DEF Cells
  <2> QED
    BY <1>4, <2>3, <2>4 DEF CInv, YearShift, Regions, Steps, Reach
<1>5. ASSUME NEW result \in 0..(RANGE - 1), Round(result)
      PROVE  CInv'
  <2>1. result = RoundHalfUp(shifted, f)
    BY <1>5, OneRounding DEF Round
  <2>2. NoSecondSolution'
    BY <1>5, <2>1 DEF CInv, Round, NoSecondSolution, RoundHalfUp, Shifted
  <2>3. decayed' \in Nat
    <3>1. RANGE \in Nat
      BY FieldAssumption
    <3>2. result \in Nat
      BY <3>1
    <3> QED
      BY <1>5, <3>2 DEF Round
  <2> QED
    BY <1>5, <2>2, <2>3 DEF CInv, Round, Regions, Steps, Reach
<1>6. CASE UNCHANGED vars
  BY <1>6 DEF CInv, vars, NoSecondSolution, Regions, Steps, Reach, Shifted, RoundHalfUp
<1> QED
  BY <1>1, <1>2, <1>3, <1>4, <1>5, <1>6 DEF Next

(* Whatever a prover fills in, the gates and the range checks leave one
   duration, one shifted value and one rounded product: that of the years
   and seconds that passed.  For every width of word, field and range check
   that the assumptions admit.                                             *)

THEOREM NoSecondSolutionHolds ==
  Spec => []NoSecondSolution
<1>1. CInv => NoSecondSolution
  BY DEF CInv
<1> QED
  BY <1>1, InitPinned, StepPinned, PTL DEF Spec
-----------------------------------------------------------------------------
(* A further digit goes on with the chain of those behind it.              *)
LEMMA SameSoFar ==
  ASSUME NEW n \in Nat, NEW f1, NEW f2, f1[0] = f2[0],
         \A i \in 1..n : f1[i - 1] = f2[i - 1] => f1[i] = f2[i]
  PROVE  f1[n] = f2[n]
<1> DEFINE same == [i \in 0..n |-> IF f1[i] = f2[i] THEN 1 ELSE 0]
           one == {1}
<1>1. same[0] \in one
  OBVIOUS
<1>2. ASSUME NEW i \in 1..n, same[i - 1] \in one
      PROVE  same[i] \in one
  <2>1. i \in 0..n /\ i - 1 \in 0..n
    OBVIOUS
  <2>2. f1[i - 1] = f2[i - 1]
    BY <1>2, <2>1
  <2> QED
    BY <2>1, <2>2
<1>3. same[n] = IF f1[n] = f2[n] THEN 1 ELSE 0
  OBVIOUS
<1> HIDE DEF same, one
<1>4. \A i \in 0..n : same[i] \in one
  BY <1>1, <1>2, StaysIn
<1>5. same[n] = 1
  BY <1>4 DEF one
<1> QED
  BY <1>3, <1>5

(* The weights of the bits are the powers of two.                          *)
LEMMA BitPowers ==
  Powers([i \in 0..REM_BITS |-> 2^i], 2, REM_BITS)
<1> DEFINE n == REM_BITS
           p == [i \in 0..n |-> 2^i]
<1>1. n \in Nat
  BY Widths
<1>2. \A i \in 0..n : p[i] = 2^i /\ p[i] \in Nat \ {0}
  BY Widths
<1>3. \A i \in 0..(n - 1) : p[i + 1] = p[i] * 2
  <2> TAKE i \in 0..(n - 1)
  <2>1. i \in 0..n /\ i + 1 \in 0..n
    BY <1>1
  <2>2. 2^(i + 1) = 2^i * 2
    BY <2>1, PowerAssumption
  <2> QED
    BY <1>2, <2>1, <2>2
<1> QED
  BY <1>2, <1>3 DEF Powers

(* The weights of the windows are the powers of the window size.           *)
LEMMA WindowPowers ==
  Powers([j \in 0..WINDOWS |-> 2^(j * WINDOW_BITS)], WINDOW_SIZE, WINDOWS)
<1> DEFINE n == WINDOWS
           p == [j \in 0..n |-> 2^(j * WINDOW_BITS)]
<1>1. n \in Nat /\ WINDOW_SIZE \in Nat \ {0} /\ RANGE \in Nat
  BY Widths, FieldAssumption
<1>2. \A j \in 0..n : p[j] = 2^(j * WINDOW_BITS) /\ p[j] \in Nat \ {0}
  <2> TAKE j \in 0..n
  <2> DEFINE q == 2^(j * WINDOW_BITS)
  <2>1. q \in 1..RANGE
    BY PowerAssumption
  <2>2. p[j] = q
    OBVIOUS
  <2> HIDE DEF q, p
  <2>3. p[j] \in Nat \ {0}
    BY <1>1, <2>1, <2>2
  <2> QED
    BY <2>2, <2>3 DEF q
<1>3. \A j \in 0..(n - 1) : p[j + 1] = p[j] * WINDOW_SIZE
  <2> TAKE j \in 0..(n - 1)
  <2>1. j \in 0..n /\ j + 1 \in 0..n
    BY <1>1
  <2>2. 2^((j + 1) * WINDOW_BITS) = 2^(j * WINDOW_BITS) * WINDOW_SIZE
    BY <2>1, PowerAssumption
  <2> QED
    BY <1>2, <2>1, <2>2
<1> HIDE DEF p
<1> QED
  BY <1>1, <1>2, <1>3 DEF Powers, p

(* windowed_trace, from the seconds below a window to those with it.       *)
LEMMA NextWindow ==
  ASSUME NEW k \in 0..(WINDOWS - 1), NEW seconds \in Nat, seconds < 2^(k * WINDOW_BITS),
         NEW digit \in 0..(WINDOW_SIZE - 1)
  PROVE  WindowChain(seconds + digit * 2^(k * WINDOW_BITS))[k + 1]
           = mul_q64(WindowChain(seconds)[k], window_table[k][digit])
<1> DEFINE n == WINDOWS
           S == WINDOW_SIZE
           p == [j \in 0..n |-> 2^(j * WINDOW_BITS)]
           next == seconds + digit * p[k]
           f1 == WindowChain(next)
           f2 == WindowChain(seconds)
<1>1. n \in Nat /\ S \in Nat \ {0} /\ k \in 0..n /\ k + 1 \in 0..n
  BY Widths
<1>2. Powers(p, S, n) /\ \A j \in 0..n : p[j] = 2^(j * WINDOW_BITS)
  BY WindowPowers
<1> HIDE DEF p, n, S
<1>3. p[k] \in Nat \ {0} /\ seconds < p[k] /\ digit \in 0..(S - 1)
  BY <1>1, <1>2 DEF Powers, S
<1>4. digit \in Nat /\ next \in Nat
  BY <1>1, <1>3
<1>5. IsWindowChain(f1, next) /\ IsWindowChain(f2, seconds)
  BY <1>4, WindowChainIsFactors
<1>6. \A j \in 0..n : Digit(next, j) = (next \div p[j]) % S /\ Digit(seconds, j) = (seconds \div p[j]) % S
  BY <1>2 DEF Digit, S
<1> HIDE DEF f1, f2, next
<1>7. \A j \in 0..(k - 1) : Digit(next, j) = Digit(seconds, j)
  <2> TAKE j \in 0..(k - 1)
  <2>1. j \in 0..n /\ j < k
    BY <1>1
  <2>2. ((seconds + digit * p[k]) \div p[j]) % S = (seconds \div p[j]) % S
    BY <1>1, <1>2, <1>4, <2>1, LowerDigits
  <2> QED
    BY <1>6, <2>1, <2>2 DEF next
<1>8. Digit(next, k) = digit
  BY <1>1, <1>3, <1>6, TopDigit DEF next
<1>9. \A j \in 1..n : /\ f1[j] = mul_q64(f1[j - 1], window_table[j - 1][Digit(next, j - 1)])
                      /\ f2[j] = mul_q64(f2[j - 1], window_table[j - 1][Digit(seconds, j - 1)])
  <2> TAKE j \in 1..n
  <2>1. j \in 0..WINDOWS /\ j # 0
    BY DEF n
  <2> QED
    BY <1>5, <2>1, Zenon DEF IsWindowChain
<1>10. f1[k] = f2[k]
  <2>1. f1[0] = f2[0]
    <3>1. 0 \in 0..WINDOWS
      BY <1>1 DEF n
    <3> QED
      BY <1>5, <3>1 DEF IsWindowChain
  <2>2. ASSUME NEW j \in 1..k, f1[j - 1] = f2[j - 1]
        PROVE  f1[j] = f2[j]
    <3>1. j \in 1..n /\ j - 1 \in 0..(k - 1)
      BY <1>1
    <3> QED
      BY <1>7, <1>9, <2>2, <3>1
  <2>3. k \in Nat
    BY <1>1
  <2> QED
    BY <2>1, <2>2, <2>3, SameSoFar
<1>11. f1[k + 1] = mul_q64(f2[k], window_table[k][digit])
  <2>1. k + 1 \in 1..n /\ (k + 1) - 1 = k
    BY <1>1
  <2> QED
    BY <1>8, <1>9, <1>10, <2>1
<1>12. next = seconds + digit * 2^(k * WINDOW_BITS)
  BY <1>1, <1>2 DEF next
<1> QED
  BY <1>11, <1>12 DEF f1, f2

(* decay_trace, from the seconds below a bit to those with it.             *)
LEMMA NextBit ==
  ASSUME NEW k \in 0..(REM_BITS - 1), NEW seconds \in Nat, seconds < 2^k, NEW bit \in {0, 1}
  PROVE  BitChain(seconds + bit * 2^k)[k + 1] =
           IF bit = 1 THEN (BitChain(seconds)[k] * DECAY_POWERS[k + 1]) \div WORD
           ELSE BitChain(seconds)[k]
<1> DEFINE n == REM_BITS
           p == [i \in 0..n |-> 2^i]
           next == seconds + bit * p[k]
           f1 == BitChain(next)
           f2 == BitChain(seconds)
<1>1. n \in Nat /\ k \in 0..n /\ k + 1 \in 0..n
  BY Widths
<1>2. Powers(p, 2, n) /\ \A i \in 0..n : p[i] = 2^i
  BY BitPowers
<1> HIDE DEF p, n
<1>3. p[k] \in Nat \ {0} /\ seconds < p[k] /\ bit \in 0..(2 - 1)
  BY <1>1, <1>2 DEF Powers
<1>4. bit \in Nat /\ next \in Nat
  BY <1>1, <1>3
<1>5. IsBitChain(f1, next) /\ IsBitChain(f2, seconds)
  BY BitChainIsFactors
<1>6. \A i \in 0..n : Bit(next, i) = (next \div p[i]) % 2 /\ Bit(seconds, i) = (seconds \div p[i]) % 2
  BY <1>2 DEF Bit
<1> HIDE DEF f1, f2, next
<1>7. \A i \in 0..(k - 1) : Bit(next, i) = Bit(seconds, i)
  <2> TAKE i \in 0..(k - 1)
  <2>1. i \in 0..n /\ i < k
    BY <1>1
  <2>2. ((seconds + bit * p[k]) \div p[i]) % 2 = (seconds \div p[i]) % 2
    BY <1>1, <1>2, <1>4, <2>1, LowerDigits
  <2> QED
    BY <1>6, <2>1, <2>2 DEF next
<1>8. Bit(next, k) = bit
  <2>1. 2 \in Nat \ {0}
    OBVIOUS
  <2>2. ((seconds + bit * p[k]) \div p[k]) % 2 = bit
    BY <1>3, <2>1, TopDigit
  <2> QED
    BY <1>1, <1>6, <2>2 DEF next
<1>9. \A i \in 1..n :
        /\ f1[i] = IF Bit(next, i - 1) = 1 THEN (f1[i - 1] * DECAY_POWERS[i]) \div WORD ELSE f1[i - 1]
        /\ f2[i] = IF Bit(seconds, i - 1) = 1 THEN (f2[i - 1] * DECAY_POWERS[i]) \div WORD ELSE f2[i - 1]
  <2> TAKE i \in 1..n
  <2>1. i \in 0..REM_BITS /\ i # 0
    BY DEF n
  <2>2. f1[i] = IF Bit(next, i - 1) = 1 THEN (f1[i - 1] * DECAY_POWERS[i]) \div WORD ELSE f1[i - 1]
    BY <1>5, <2>1, Zenon DEF IsBitChain
  <2>3. f2[i] = IF Bit(seconds, i - 1) = 1 THEN (f2[i - 1] * DECAY_POWERS[i]) \div WORD ELSE f2[i - 1]
    BY <1>5, <2>1, Zenon DEF IsBitChain
  <2> QED
    BY <2>2, <2>3
<1>10. f1[k] = f2[k]
  <2>1. f1[0] = f2[0]
    <3>1. 0 \in 0..REM_BITS
      BY <1>1 DEF n
    <3> QED
      BY <1>5, <3>1 DEF IsBitChain
  <2>2. ASSUME NEW i \in 1..k, f1[i - 1] = f2[i - 1]
        PROVE  f1[i] = f2[i]
    <3>1. i \in 1..n /\ i - 1 \in 0..(k - 1)
      BY <1>1
    <3>2. Bit(next, i - 1) = Bit(seconds, i - 1)
      BY <1>7, <3>1
    <3> QED
      BY <1>9, <2>2, <3>1, <3>2
  <2>3. k \in Nat
    BY <1>1
  <2> QED
    BY <2>1, <2>2, <2>3, SameSoFar
<1>11. f1[k + 1] = IF bit = 1 THEN (f2[k] * DECAY_POWERS[k + 1]) \div WORD ELSE f2[k]
  <2>1. k + 1 \in 1..n /\ (k + 1) - 1 = k
    BY <1>1
  <2>2. f1[k + 1] = IF Bit(next, (k + 1) - 1) = 1 THEN (f1[(k + 1) - 1] * DECAY_POWERS[k + 1]) \div WORD
                    ELSE f1[(k + 1) - 1]
    BY <1>9, <2>1
  <2> QED
    BY <1>8, <1>10, <2>1, <2>2
<1>12. next = seconds + bit * 2^k
  BY <1>1, <1>2 DEF next
<1> QED
  BY <1>11, <1>12 DEF f1, f2

-----------------------------------------------------------------------------
(* The factor is the chain's of src/decay.rs, and the chain is run to its
   end before the next region is filled.                                   *)
Chain == IF windowed THEN WindowChain(rem) ELSE BitChain(rem)

DInv ==
  /\ CInv
  /\ f = Chain[step]
  /\ region # "chain" => step = Steps

(* DInv holds in the beginning.                                            *)
LEMMA InitChain == Init => DInv
<1> SUFFICES ASSUME Init PROVE DInv
  OBVIOUS
<1>1. CInv
  BY InitPinned
<1>2. 0 \in Nat /\ 0 \in 0..WINDOWS /\ 0 \in 0..REM_BITS
  BY Widths
<1>3. WindowChain(0)[0] = WORD
  BY <1>2, WindowChainIsFactors DEF IsWindowChain
<1>4. BitChain(0)[0] = WORD
  BY <1>2, BitChainIsFactors DEF IsBitChain
<1> QED
  BY <1>1, <1>3, <1>4 DEF DInv, Init, Chain

(* One fixed point step is the product without what does not fit.          *)
LEMMA ProductOfFactors ==
  ASSUME NEW a \in 0..WORD, NEW b \in 0..WORD
  PROVE  mul_q64(a, b) = (a * b) \div WORD
<1> DEFINE w == WORD
<1>1. w \in Nat \ {0} /\ a \in Nat /\ b \in Nat
  BY DecayAssumption
<1> HIDE DEF w
<1>2. CASE a = w
  <2>1. (0 + b * w) \div w = b
    BY <1>1, UnpacksAsPacked
  <2>2. a * b = 0 + b * w
    BY <1>1, <1>2
  <2> QED
    BY <1>2, <2>1, <2>2 DEF mul_q64, w
<1>3. CASE a # w /\ b = w
  <2>1. (0 + a * w) \div w = a
    BY <1>1, UnpacksAsPacked
  <2>2. a * b = 0 + a * w
    BY <1>1, <1>3
  <2> QED
    BY <1>3, <2>1, <2>2 DEF mul_q64, w
<1>4. CASE a # w /\ b # w
  BY <1>4 DEF mul_q64, w
<1> QED
  BY <1>2, <1>3, <1>4

(* Every row of the chain keeps DInv.                                      *)
LEMMA StepKeepsChain ==
  DInv /\ [Next]_vars => DInv'
<1> SUFFICES ASSUME DInv, [Next]_vars PROVE DInv'
  OBVIOUS
<1>1. CInv /\ CInv'
  BY StepPinned DEF DInv
<1>2. ASSUME Advance
      PROVE  region' # "chain" => step' = Steps'
  BY <1>2 DEF Advance, Steps
<1>3. ASSUME NEW digit \in 0..(WINDOW_SIZE - 1), NEW product \in 0..(RANGE - 1),
             WindowStep(digit, product)
      PROVE  DInv'
  <2>1. /\ region = "chain" /\ windowed /\ Advance /\ windowed' = windowed
        /\ ChainGate(WindowFactor(step, digit), product) /\ f' = product
        /\ rem' = rem + digit * 2^(step * WINDOW_BITS) /\ step' = step + 1
    BY <1>3 DEF WindowStep, Advance
  <2>2. step \in 0..(WINDOWS - 1)
    BY <1>1, <2>1, StepsAreCounted DEF CInv, Steps
  <2>3. WindowFactor(step, digit) \in 0..WORD /\ f \in 0..WORD
    BY <1>1, <2>2, RowIsFactor DEF WindowFactor, Factor, CInv
  <2>4. product = mul_q64(f, WindowFactor(step, digit))
    BY <1>1, <2>1, <2>3, ChainRow, ProductOfFactors
  <2>5. f = WindowChain(rem)[step] /\ rem \in Nat /\ rem < 2^(step * WINDOW_BITS)
    BY <2>1 DEF DInv, Chain, CInv, Reach
  <2>6. WindowChain(rem')[step'] = mul_q64(WindowChain(rem)[step], window_table[step][digit])
    BY <2>1, <2>2, <2>5, NextWindow
  <2>7. f' = Chain'[step']
    BY <2>1, <2>4, <2>5, <2>6 DEF Chain, WindowFactor
  <2> QED
    BY <1>1, <1>2, <2>1, <2>7 DEF DInv
<1>4. ASSUME NEW bit \in {0, 1}, NEW product \in 0..(RANGE - 1), BitStep(bit, product)
      PROVE  DInv'
  <2>1. /\ region = "chain" /\ ~windowed /\ Advance /\ windowed' = windowed
        /\ ChainGate(DECAY_POWERS[step + 1], product) /\ f' = (IF bit = 1 THEN product ELSE f)
        /\ rem' = rem + bit * 2^step /\ step' = step + 1
    BY <1>4 DEF BitStep, Advance
  <2>2. step \in 0..(REM_BITS - 1)
    BY <1>1, <2>1, StepsAreCounted DEF CInv, Steps
  <2> DEFINE factor == DECAY_POWERS[step + 1]
  <2>3. factor \in 0..WORD
    <3>1. step + 1 \in 1..Len(DECAY_POWERS)
      BY <2>2, StepsAreCounted DEF REM_BITS
    <3>2. factor \in 1..(WORD - 1)
      BY <3>1, DecayAssumption, ElementOfSeq
    <3> HIDE DEF factor
    <3> QED
      BY <3>2, DecayAssumption
  <2> HIDE DEF factor
  <2>4. product = (f * factor) \div WORD
    BY <1>1, <2>1, <2>3, ChainRow DEF factor
  <2>5. f = BitChain(rem)[step] /\ rem \in Nat /\ rem < 2^step
    BY <2>1 DEF DInv, Chain, CInv, Reach
  <2>6. BitChain(rem')[step'] = IF bit = 1 THEN (BitChain(rem)[step] * factor) \div WORD
                                ELSE BitChain(rem)[step]
    BY <2>1, <2>2, <2>5, NextBit DEF factor
  <2>7. f' = Chain'[step']
    BY <2>1, <2>4, <2>5, <2>6 DEF Chain
  <2> QED
    BY <1>1, <1>2, <2>1, <2>7 DEF DInv
<1>5. ASSUME UNCHANGED <<windowed, step, f, rem>>, region # "chain" \/ region' = region
      PROVE  DInv'
  <2>1. Chain' = Chain /\ Steps' = Steps
    BY <1>5 DEF Chain, Steps
  <2> QED
    BY <1>1, <1>5, <2>1 DEF DInv
<1>6. ASSUME NEW years \in 0..(RANGE - 1), Duration(years)
      PROVE  DInv'
  BY <1>5, <1>6 DEF Duration
<1>7. ASSUME NEW big \in BOOLEAN, NEW shift \in 0..POW_TABLE_MAX, NEW q \in 0..(RANGE - 1),
             YearShift(big, shift, q)
      PROVE  DInv'
  BY <1>5, <1>7 DEF YearShift
<1>8. ASSUME NEW result \in 0..(RANGE - 1), Round(result)
      PROVE  DInv'
  BY <1>5, <1>8 DEF Round
<1>9. CASE UNCHANGED vars
  BY <1>5, <1>9 DEF vars
<1> QED
  BY <1>3, <1>4, <1>6, <1>7, <1>8, <1>9 DEF Next

(* What is proven is what src/decay.rs computes for the caller's cells, in
   either chain: whatever a prover fills in, there is no second solution.  *)

THEOREM ProvenIsDecay ==
  Spec => []DecayedIsDecay
<1>1. DInv => DecayedIsDecay
  <2> SUFFICES ASSUME DInv, region = "proven"
               PROVE  /\ now >= t_note
                      /\ decayed = IF windowed THEN decay_windowed(value, now - t_note)
                                   ELSE decay(value, now - t_note)
    BY DEF DecayedIsDecay
  <2>1. NoSecondSolution /\ f = Chain[Steps] /\ now \in Int /\ t_note \in Int
    BY DEF DInv, CInv
  <2>2. /\ now - t_note >= 0
        /\ rem = (now - t_note) % SECONDS_PER_YEAR
        /\ shifted = Shifted(value, now - t_note)
        /\ decayed = RoundHalfUp(shifted, f)
    BY <2>1 DEF NoSecondSolution
  <2>3. now >= t_note
    BY <2>1, <2>2
  <2>4. CASE windowed
    <3>1. f = WindowChain(rem)[WINDOWS]
      BY <2>1, <2>4 DEF Chain, Steps
    <3> QED
      BY <2>2, <2>3, <2>4, <3>1 DEF decay_windowed
  <2>5. CASE ~windowed
    <3>1. f = BitChain(rem)[REM_BITS]
      BY <2>1, <2>5 DEF Chain, Steps
    <3> QED
      BY <2>2, <2>3, <2>5, <3>1 DEF decay
  <2> QED
    BY <2>4, <2>5
<1> QED
  BY <1>1, InitChain, StepKeepsChain, PTL DEF Spec
-----------------------------------------------------------------------------
(* What passes a range check as it is.                                     *)
LEMMA SmallIsChecked ==
  ASSUME NEW x \in Nat, x < RANGE
  PROVE  Checked(x)
<1>1. RANGE \in Nat \ {0} /\ FIELD \in Nat \ {0} /\ RANGE + RANGE <= FIELD
  BY FieldAssumption, WideField
<1>2. x < FIELD
  BY <1>1
<1>3. x % FIELD = x
  BY <1>1, <1>2, SmallRemainder
<1> QED
  BY <1>3 DEF Checked

(* The quotient of a division by a word leaves an exact remainder.         *)
LEMMA HonestQuotient ==
  ASSUME NEW a \in Nat
  PROVE  /\ a \div WORD \in Nat
         /\ Exact(a - (a \div WORD) * WORD)
<1> DEFINE w == WORD
           q == a \div w
           r == a % w
<1>1. w \in Nat \ {0} /\ w < RANGE /\ RANGE \in Nat /\ FIELD \in Nat \ {0} /\ RANGE + RANGE <= FIELD
  BY DecayAssumption, FieldAssumption, WideField
<1> HIDE DEF w
<1>2. q \in Nat /\ r \in Nat /\ r < w /\ a = w * q + r
  BY <1>1
<1> HIDE DEF q, r
<1>3. a - q * w = r
  <2>1. w * q = q * w
    BY <1>1, <1>2
  <2> QED
    BY <1>1, <1>2, <2>1
<1>4. r < FIELD
  BY <1>1, <1>2
<1>5. r % FIELD = r
  BY <1>1, <1>2, <1>4, SmallRemainder
<1>6. Exact(a - q * w)
  BY <1>2, <1>3, <1>5 DEF Exact, w
<1> QED
  BY <1>2, <1>6 DEF q, w

(* The factor the code computes for a row satisfies the gate of the row.   *)
LEMMA HonestRow ==
  ASSUME NEW a \in 0..WORD, NEW b \in 0..WORD, a = f
  PROVE  ChainGate(b, (a * b) \div WORD)
<1>1. WORD \in Nat \ {0} /\ WORD < RANGE /\ RANGE \in Nat
  BY DecayAssumption, FieldAssumption
<1> DEFINE p == a * b
           q == p \div WORD
<1>2. p \in Nat
  BY <1>1
<1>3. q \in Nat /\ Exact(p - q * WORD)
  BY <1>2, HonestQuotient
<1>4. q \in Factor
  <2>1. a \in Factor /\ b \in Factor
    BY DEF Factor
  <2> QED
    BY <2>1, ProductIsFactor
<1> HIDE DEF q
<1>5. q < RANGE
  BY <1>1, <1>3, <1>4 DEF Factor
<1>6. Checked(q)
  BY <1>3, <1>5, SmallIsChecked
<1> QED
  BY <1>3, <1>6 DEF ChainGate, q

(* The years that passed are few enough, and the seconds fewer than a year. *)
LEMMA HonestDuration ==
  ASSUME CInv, now >= t_note
  PROVE  LET duration == now - t_note
         IN  /\ DurationGate(duration \div SECONDS_PER_YEAR, duration % SECONDS_PER_YEAR)
             /\ duration \div SECONDS_PER_YEAR \in Nat /\ duration \div SECONDS_PER_YEAR < RANGE
             /\ duration \in Nat /\ duration % SECONDS_PER_YEAR \in Nat
<1> DEFINE age == now - t_note
           year == SECONDS_PER_YEAR
           k == age \div year
           s == age % year
<1>1. /\ year \in Nat \ {0} /\ RANGE \in Nat \ {0} /\ FIELD \in Nat \ {0} /\ TIME_LIMIT \in Nat
      /\ TIME_LIMIT <= RANGE * year
  BY DecayAssumption, FieldAssumption
<1>2. age \in Nat /\ age < TIME_LIMIT /\ now \in Nat /\ t_note \in Nat
  BY <1>1 DEF CInv
<1>3. year <= RANGE
  <2> DEFINE top == 2^REM_BITS
  <2>1. top \in 1..RANGE /\ top >= year
    BY Widths, PowerAssumption, DecayAssumption
  <2> HIDE DEF top, year
  <2> QED
    BY <1>1, <2>1
<1> HIDE DEF age, year
<1>4. k \in Nat /\ s \in Nat /\ s < year /\ age = year * k + s
  BY <1>1, <1>2
<1> HIDE DEF k, s
<1>5. k < RANGE
  <2>1. k * year < RANGE * year
    <3> DEFINE ky == k * year
               most == RANGE * year
    <3>1. ky \in Nat /\ age = ky + s /\ most \in Nat /\ TIME_LIMIT <= most
      BY <1>1, <1>4
    <3> HIDE DEF ky, most
    <3>2. ky < most
      BY <1>1, <1>2, <1>4, <3>1
    <3> QED
      BY <3>2 DEF ky, most
  <2> QED
    BY <1>1, <1>4, <2>1, Cancel
<1>6. Checked(k)
  BY <1>4, <1>5, SmallIsChecked
<1>7. Checked(year - 1 - s)
  <2> DEFINE x == year - 1 - s
  <2>1. x \in Nat /\ x < RANGE
    BY <1>1, <1>3, <1>4
  <2> HIDE DEF x
  <2>2. Checked(x)
    BY <2>1, SmallIsChecked
  <2> QED
    BY <2>2 DEF x
<1>8. (now - t_note - k * year - s) % FIELD = 0
  <2>1. now - t_note - k * year - s = 0
    <3>1. year * k = k * year /\ k * year \in Nat
      BY <1>1, <1>4
    <3> DEFINE ky == k * year
    <3>2. ky \in Nat /\ now - t_note = ky + s
      BY <1>4, <3>1 DEF age
    <3> HIDE DEF ky
    <3>3. now - t_note - ky - s = 0
      BY <1>2, <1>4, <3>2
    <3> QED
      BY <3>3 DEF ky
  <2>2. 0 % FIELD = 0
    BY <1>1
  <2> QED
    BY <2>1, <2>2
<1> QED
  BY <1>2, <1>4, <1>5, <1>6, <1>7, <1>8 DEF DurationGate, k, s, age, year

(* The shift of the years up to the limit, which every row of it allows.   *)
LEMMA HonestShift ==
  ASSUME CInv, NEW years \in Nat, years < RANGE
  PROVE  LET trace == shift_trace(value, years, W1_SHIFT_LIMIT)
         IN  /\ ShiftGate(years, trace.big, trace.shift, trace.q)
             /\ trace.shifted \in Nat /\ trace.shifted < RANGE
<1> DEFINE big == years >= W1_SHIFT_LIMIT
           shift == IF big THEN 0 ELSE years
           pow == 2^shift
           q == value \div pow
           r == value - q * pow
           trace == shift_trace(value, years, W1_SHIFT_LIMIT)
<1>1. /\ W1_SHIFT_LIMIT \in Nat \ {0} /\ W1_SHIFT_LIMIT <= POW_TABLE_MAX /\ POW_TABLE_MAX \in Nat
      /\ VALUE_LIMIT <= RANGE /\ RANGE \in Nat \ {0} /\ VALUE_LIMIT \in Nat
  BY DecayAssumption, FieldAssumption
<1>2. value \in Nat /\ value < RANGE
  BY <1>1 DEF CInv
<1>3. shift \in Nat /\ shift <= POW_TABLE_MAX /\ shift \in 0..W1_SHIFT_LIMIT
  BY <1>1
<1>4. pow \in 1..RANGE
  BY <1>3, PowerAssumption
<1>5. trace.big = big /\ trace.shift = shift /\ trace.q = q /\ trace.shifted = IF big THEN 0 ELSE q
  BY DEF shift_trace
<1> HIDE DEF pow, trace
<1>6. q \in Nat /\ r \in Nat /\ r < pow /\ q <= value /\ r <= value
  <2>1. pow \in Nat \ {0}
    BY <1>1, <1>4
  <2> DEFINE m == value % pow
  <2>2. q \in Nat /\ m \in Nat /\ m < pow /\ value = pow * q + m
    BY <1>2, <2>1
  <2> HIDE DEF q, m
  <2>3. pow * q = q * pow /\ q * 1 = q /\ 1 * q <= pow * q
    <3>1. 1 * q <= pow * q
      BY <2>1, <2>2, ProductsGrow
    <3> QED
      BY <2>1, <2>2, <3>1
  <2> DEFINE part == q * pow
  <2>4. part \in Nat /\ value = part + m /\ q <= part
    BY <2>1, <2>2, <2>3
  <2> HIDE DEF part
  <2>5. value - part = m /\ m <= value /\ q <= value
    BY <1>2, <2>2, <2>4
  <2> QED
    BY <2>2, <2>5 DEF part
<1> HIDE DEF q, r
<1>7. Checked(q) /\ Checked(r)
  <2>1. q < RANGE /\ r < RANGE
    BY <1>1, <1>2, <1>6
  <2> QED
    BY <1>6, <2>1, SmallIsChecked
<1>8. Checked(pow - 1 - r)
  <2> DEFINE x == pow - 1 - r
  <2>1. x \in Nat /\ x < RANGE
    BY <1>1, <1>4, <1>6
  <2> HIDE DEF x
  <2>2. Checked(x)
    BY <2>1, SmallIsChecked
  <2> QED
    BY <2>2 DEF x
<1>9. big => Checked(years - W1_SHIFT_LIMIT)
  <2> SUFFICES ASSUME big PROVE Checked(years - W1_SHIFT_LIMIT)
    OBVIOUS
  <2> DEFINE x == years - W1_SHIFT_LIMIT
  <2>1. x \in Nat /\ x < RANGE
    BY <1>1
  <2> HIDE DEF x
  <2>2. Checked(x)
    BY <2>1, SmallIsChecked
  <2> QED
    BY <2>2 DEF x
<1>10. ShiftGate(years, big, shift, q)
  <2>1. Checked(value - q * 2^shift) /\ Checked(2^shift - 1 - (value - q * 2^shift))
    BY <1>7, <1>8 DEF r, pow
  <2>2. IF big THEN shift = 0 /\ Checked(years - W1_SHIFT_LIMIT) ELSE shift = years
    BY <1>9
  <2> HIDE DEF big, shift
  <2> QED
    BY <1>3, <1>7, <2>1, <2>2 DEF ShiftGate
<1>11. trace.shifted \in Nat /\ trace.shifted < RANGE
  BY <1>1, <1>2, <1>5, <1>6
<1>12. ShiftGate(years, trace.big, trace.shift, trace.q)
  <2> HIDE DEF big, shift
  <2> QED
    BY <1>5, <1>10
<1> QED
  BY <1>11, <1>12 DEF trace

(* A factor of at most one never makes a value more than it was.           *)
LEMMA HonestRounding ==
  ASSUME NEW amount \in Nat, amount < RANGE, NEW factor \in 0..WORD
  PROVE  RoundGate(amount, factor, RoundHalfUp(amount, factor))
<1> DEFINE w == WORD
           half == w \div 2
           p == amount * factor
           a == p + half
           q == a \div w
<1>1. w \in Nat \ {0} /\ RANGE \in Nat /\ factor \in Nat /\ factor <= w
  BY DecayAssumption, FieldAssumption
<1> HIDE DEF w
<1>2. half \in Nat /\ half < w
  BY <1>1
<1>3. p \in Nat /\ p <= amount * w /\ amount * w \in Nat
  <2>1. factor * amount <= w * amount
    BY <1>1, ProductsGrow
  <2> QED
    BY <1>1, <2>1
<1> HIDE DEF half, p
<1>4. a \in Nat
  BY <1>2, <1>3
<1>5. q \in Nat /\ Exact(a - q * w)
  <2> HIDE DEF a
  <2>1. a \div WORD \in Nat /\ Exact(a - (a \div WORD) * WORD)
    BY <1>4, HonestQuotient
  <2> QED
    BY <2>1 DEF w
<1>6. q <= amount
  <2> SUFFICES ASSUME q >= amount + 1 PROVE FALSE
    BY <1>5
  <2>1. q * w <= a
    <3> HIDE DEF a
    <3> DEFINE m == a % w
    <3>1. q \in Nat /\ m \in Nat /\ a = w * q + m
      BY <1>1, <1>4
    <3> HIDE DEF q, m
    <3>2. w * q = q * w /\ q * w \in Nat
      BY <1>1, <3>1
    <3> QED
      BY <3>1, <3>2
  <2> HIDE DEF q
  <2>2. (amount + 1) * w <= q * w
    BY <1>1, <1>5, ProductsGrow
  <2>3. (amount + 1) * w = amount * w + w
    BY <1>1
  <2> DEFINE aw == amount * w
             qw == q * w
  <2>4. aw \in Nat /\ qw \in Nat /\ aw + w <= qw /\ qw <= p + half /\ p <= aw
    BY <1>1, <1>3, <1>5, <2>1, <2>2, <2>3
  <2> HIDE DEF aw, qw
  <2> QED
    BY <1>1, <1>2, <1>3, <2>4
<1> HIDE DEF q
<1>7. Checked(q)
  <2>1. q < RANGE
    BY <1>1, <1>5, <1>6
  <2> QED
    BY <1>5, <2>1, SmallIsChecked
<1>8. RoundHalfUp(amount, factor) = q
  BY DEF RoundHalfUp, q, p, half, w
<1>9. Exact(amount * factor + WORD \div 2 - q * WORD)
  <2>1. a - q * w = amount * factor + WORD \div 2 - q * WORD
    <3>1. w = WORD
      BY DEF w
    <3>2. half = WORD \div 2
      BY <3>1 DEF half
    <3>3. p = amount * factor
      BY DEF p
    <3>4. a = p + half
      OBVIOUS
    <3> DEFINE qw == q * w
    <3>5. qw \in Nat /\ p + half - qw = (p + half) - qw
      BY <1>1, <1>2, <1>3, <1>5
    <3> HIDE DEF a
    <3> QED
      BY <3>1, <3>2, <3>3, <3>4, <3>5, Zenon
  <2>2. Exact(a - q * w)
    BY <1>5
  <2> HIDE DEF a
  <2> QED
    BY <2>1, <2>2
<1> QED
  BY <1>7, <1>8, <1>9 DEF RoundGate

(* Every note that exists can be proven: what decay_trace and
   windowed_trace fill in passes every gate and every range check.         *)

THEOREM HonestProversSucceed ==
  Spec => []HonestProverSucceeds
<1>1. CInv => HonestProverSucceeds
  <2> SUFFICES ASSUME CInv, now >= t_note PROVE Honest
    BY DEF HonestProverSucceeds
  <2> DEFINE duration == now - t_note
             seconds  == duration % SECONDS_PER_YEAR
             years    == duration \div SECONDS_PER_YEAR
             trace    == shift_trace(value, years, W1_SHIFT_LIMIT)
             chain    == IF windowed THEN WindowChain(seconds) ELSE BitChain(seconds)
  <2>1. DurationGate(years, seconds) /\ years \in Nat /\ years < RANGE /\ seconds \in Nat
    BY HonestDuration
  <2>2. trace.k = years
    BY DEF shift_trace
  <2>3. ShiftGate(years, trace.big, trace.shift, trace.q) /\ trace.shifted \in Nat /\ trace.shifted < RANGE
    BY <2>1, HonestShift
  <2>4. chain[Steps] \in 0..WORD
    <3>1. WindowChain(seconds)[WINDOWS] \in Factor /\ BitChain(seconds)[REM_BITS] \in Factor
      BY <2>1, Widths, WindowChainIsFactors, BitChainIsFactors
    <3> QED
      BY <3>1 DEF Steps, Factor
  <2>5. RoundGate(trace.shifted, chain[Steps], RoundHalfUp(trace.shifted, chain[Steps]))
    <3> HIDE DEF trace, chain
    <3> QED
      BY <2>3, <2>4, HonestRounding
  <2>6. ASSUME region = "chain", windowed
        PROVE  ChainGate(WindowFactor(step, Digit(seconds, step)),
                         mul_q64(f, WindowFactor(step, Digit(seconds, step))))
    <3> DEFINE factor == WindowFactor(step, Digit(seconds, step))
    <3>1. step + 1 \in 1..WINDOWS /\ (step + 1) - 1 = step
      BY <2>6, StepsAreCounted DEF CInv, Steps
    <3>2. factor \in 0..WORD /\ f \in 0..WORD
      <4>1. window_table[(step + 1) - 1][Digit(seconds, (step + 1) - 1)] \in Factor
        BY <2>1, <3>1, DigitIsColumn
      <4> QED
        BY <3>1, <4>1 DEF WindowFactor, Factor, CInv
    <3> HIDE DEF factor
    <3>3. ChainGate(factor, (f * factor) \div WORD) /\ mul_q64(f, factor) = (f * factor) \div WORD
      BY <3>2, HonestRow, ProductOfFactors
    <3> QED
      BY <3>3 DEF factor
  <2>7. ASSUME region = "chain", ~windowed
        PROVE  ChainGate(DECAY_POWERS[step + 1], (f * DECAY_POWERS[step + 1]) \div WORD)
    <3> DEFINE factor == DECAY_POWERS[step + 1]
    <3>1. step + 1 \in 1..Len(DECAY_POWERS)
      BY <2>7, StepsAreCounted DEF CInv, Steps, REM_BITS
    <3>2. factor \in 1..(WORD - 1)
      BY <3>1, DecayAssumption, ElementOfSeq
    <3> HIDE DEF factor
    <3>3. factor \in 0..WORD /\ f \in 0..WORD
      BY <3>2, DecayAssumption DEF CInv
    <3>4. ChainGate(factor, (f * factor) \div WORD)
      BY <3>3, HonestRow
    <3> QED
      BY <3>4 DEF factor
  <2> HIDE DEF duration, seconds, years, trace, chain
  <2>8. CASE region = "chain"
    BY <2>6, <2>7, <2>8 DEF Honest, seconds, duration
  <2>9. CASE region = "duration"
    BY <2>1, <2>2, <2>9 DEF Honest, seconds, duration, trace, years
  <2>10. CASE region = "year shift"
    BY <2>2, <2>3, <2>10 DEF Honest, duration, trace, years
  <2>11. CASE region = "round half up"
    BY <2>5, <2>11 DEF Honest, seconds, duration, trace, years, chain
  <2>12. CASE region = "proven"
    BY <2>12 DEF Honest
  <2> QED
    BY <2>8, <2>9, <2>10, <2>11, <2>12 DEF CInv, Regions
<1> QED
  BY <1>1, InitPinned, StepPinned, PTL DEF Spec
=============================================================================
