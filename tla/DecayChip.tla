----------------------------- MODULE DecayChip -----------------------------
(***************************************************************************)
(* The chip that proves what a note is worth: DecayConfig of               *)
(* src/circuit/decay_chip.rs.  A prover, honest or not, fills the cells of *)
(* the regions one after another; a fill is accepted if the gates of its   *)
(* region and the range checks hold.  Gates are equations in a prime       *)
(* field, so a quotient or a difference is only what it is meant to be     *)
(* because the range checks leave no second solution.                      *)
(*                                                                         *)
(* A cell that a gate gives as an expression of other cells is not a cell  *)
(* here but that expression: the remainders, bound, d, w, shifted, and the *)
(* accumulators of `rem`, whose last one is the constant 0.                *)
(***************************************************************************)
EXTENDS Decay

CONSTANTS
  FIELD,           (* the order of the field, a prime                      *)
  RANGE,           (* range checked cells are below: 2^70                  *)
  POW_TABLE_MAX,   (* the largest shift in the table: 127                  *)
  TIME_LIMIT       (* timestamps are below: 2^40                           *)

(* No product or sum of checked cells reaches the order of the field.      *)
ASSUME FieldAssumption ==
  /\ {FIELD, RANGE, POW_TABLE_MAX, TIME_LIMIT} \subseteq Nat \ {0}
  /\ RANGE * 2^POW_TABLE_MAX + RANGE < FIELD
  /\ RANGE * WORD + WORD < FIELD
  /\ RANGE * SECONDS_PER_YEAR + SECONDS_PER_YEAR + TIME_LIMIT < FIELD
  /\ VALUE_LIMIT <= RANGE /\ WORD < RANGE
  /\ W1_SHIFT_LIMIT <= POW_TABLE_MAX /\ W1_SHIFT_LIMIT <= RANGE
  /\ TIME_LIMIT <= RANGE * SECONDS_PER_YEAR
(* What the powers of two are used for; `rem` stays below a checked cell.  *)
ASSUME PowerAssumption ==
  /\ REM_BITS > 0 /\ WINDOWS > 0 /\ WINDOW_SIZE \in Nat \ {0} /\ 2^0 = 1
  /\ \A i \in 0..REM_BITS : 2^i \in 1..RANGE /\ 2^(i + 1) = 2^i * 2
  /\ \A j \in 0..WINDOWS :
       2^(j * WINDOW_BITS) \in 1..RANGE
       /\ 2^((j + 1) * WINDOW_BITS) = 2^(j * WINDOW_BITS) * WINDOW_SIZE
  /\ \A i \in 0..POW_TABLE_MAX : 2^i \in 1..2^POW_TABLE_MAX
  /\ \A i \in W1_SHIFT_LIMIT..POW_TABLE_MAX : 2^W1_SHIFT_LIMIT <= 2^i
  /\ \A i \in 0..W1_SHIFT_LIMIT : 2^i \in 1..RANGE
(* A row of the lookup table of the windows.                               *)
WindowFactor(j, digit) == window_table[j][digit]

VARIABLES
  windowed,              (* which of the two chains the chip runs          *)
  now, t_note, value,    (* the caller's cells                             *)
  region,                (* the next one to fill                           *)
  step,                  (* rows of the chain that are filled              *)
  f,                     (* the factor so far                              *)
  rem,                   (* what the digits so far add up to               *)
  times, shifted, decayed

vars == <<windowed, now, t_note, value, region, step, f, rem, times, shifted, decayed>>

Steps == IF windowed THEN WINDOWS ELSE REM_BITS

Checked(x) == x % FIELD < RANGE

(* Deviation: a remainder is only range checked.                           *)
ExactLoosely(x) == Checked(x)
(* Remainders of a division by 2^64 need the exact bound.                  *)
Exact(x) == x % FIELD < WORD

(* "decay window step" and "decay factor step": the product's quotient.    *)
ChainGate(factor, product) ==
  /\ Checked(product)
  /\ Exact(f * factor - product * WORD)

(* Deviation: the last second of a year is missing.                        *)
DurationGateStrict(years, seconds) ==
  /\ Checked(years)
  /\ Checked(SECONDS_PER_YEAR - 2 - seconds)
  /\ (now - t_note - years * SECONDS_PER_YEAR - seconds) % FIELD = 0
(* Deviation: the seconds may be more than a year has.                     *)
DurationGateOpen(years, seconds) ==
  Checked(years) /\ (now - t_note - years * SECONDS_PER_YEAR - seconds) % FIELD = 0
(* "duration"                                                              *)
DurationGate(years, seconds) ==
  /\ Checked(years)
  /\ Checked(SECONDS_PER_YEAR - 1 - seconds)
  /\ (now - t_note - years * SECONDS_PER_YEAR - seconds) % FIELD = 0

(* "year shift", with the table's rows (shift, 2^shift).                   *)
ShiftGate(years, big, shift, q) ==
  LET pow == 2^shift
      r   == value - q * pow
  IN  /\ shift <= POW_TABLE_MAX
      /\ Checked(q) /\ Checked(r) /\ Checked(pow - 1 - r)
      /\ IF big THEN shift = 0 /\ Checked(years - W1_SHIFT_LIMIT)
         ELSE shift = years

(* "round half up" *)
RoundGate(amount, factor, result) ==
  /\ Checked(result)
  /\ Exact(amount * factor + WORD \div 2 - result * WORD)

-----------------------------------------------------------------------------
Init ==
  /\ windowed \in BOOLEAN
  /\ now \in 0..TIME_LIMIT - 1 /\ t_note \in 0..TIME_LIMIT - 1
  /\ value \in 0..VALUE_LIMIT - 1
  /\ region = "chain" /\ step = 0 /\ f = WORD /\ rem = 0
  /\ times = 0 /\ shifted = 0 /\ decayed = 0

Advance ==
  /\ step' = step + 1
  /\ region' = IF step' = Steps THEN "duration" ELSE "chain"
  /\ UNCHANGED <<windowed, now, t_note, value, times, shifted, decayed>>

(* One row of assign_window_chain: digit and factor are a row of the table. *)
WindowStep(digit, product) ==
  /\ region = "chain" /\ windowed
  /\ ChainGate(WindowFactor(step, digit), product)
  /\ f' = product
  /\ rem' = rem + digit * 2^(step * WINDOW_BITS)
  /\ Advance

(* One row of assign_bit_chain.                                            *)
BitStep(bit, product) ==
  /\ region = "chain" /\ ~windowed
  /\ ChainGate(DECAY_POWERS[step + 1], product)
  /\ f' = IF bit = 1 THEN product ELSE f
  /\ rem' = rem + bit * 2^step
  /\ Advance

Duration(years) ==
  /\ region = "duration"
  /\ DurationGate(years, rem)
  /\ times' = years
  /\ region' = "year shift"
  /\ UNCHANGED <<windowed, now, t_note, value, step, f, rem, shifted, decayed>>

YearShift(big, shift, q) ==
  /\ region = "year shift"
  /\ ShiftGate(times, big, shift, q)
  /\ shifted' = IF big THEN 0 ELSE q
  /\ region' = "round half up"
  /\ UNCHANGED <<windowed, now, t_note, value, step, f, rem, times, decayed>>

Round(result) ==
  /\ region = "round half up"
  /\ RoundGate(shifted, f, result)
  /\ decayed' = result
  /\ region' = "proven"
  /\ UNCHANGED <<windowed, now, t_note, value, step, f, rem, times, shifted>>

Next ==
  \/ \E digit \in 0..WINDOW_SIZE - 1, product \in 0..RANGE - 1 : WindowStep(digit, product)
  \/ \E bit \in {0, 1}, product \in 0..RANGE - 1 : BitStep(bit, product)
  \/ \E years \in 0..RANGE - 1 : Duration(years)
  \/ \E big \in BOOLEAN, shift \in 0..POW_TABLE_MAX, q \in 0..RANGE - 1 :
       YearShift(big, shift, q)
  \/ \E result \in 0..RANGE - 1 : Round(result)

Spec == Init /\ [][Next]_vars

-----------------------------------------------------------------------------
(* What is proven is the decay of src/decay.rs, whatever the prover filled
   in: no cell has a second solution, and a note from the future has none.  *)
DecayedIsDecay ==
  region = "proven" =>
    /\ now >= t_note
    /\ decayed = IF windowed THEN decay_windowed(value, now - t_note)
                 ELSE decay(value, now - t_note)

(* Region by region, and for any factor the chain ends with: a duration is
   split into years and seconds in one way, the shift is that of the years
   up to the limit and beyond it, and the product is rounded half up.      *)
NoSecondSolution ==
  LET duration == now - t_note
  IN  /\ region \notin {"chain", "duration"} =>
           /\ duration >= 0
           /\ times = duration \div SECONDS_PER_YEAR /\ rem = duration % SECONDS_PER_YEAR
      /\ region \in {"round half up", "proven"} => shifted = Shifted(value, duration)
      /\ region = "proven" => decayed = RoundHalfUp(shifted, f)

(* Every note that exists can be proven: the next region of a prover who
   follows decay_trace or windowed_trace can always be filled.              *)
Honest ==
  LET duration == now - t_note
      seconds  == duration % SECONDS_PER_YEAR
      trace    == shift_trace(value, duration \div SECONDS_PER_YEAR, W1_SHIFT_LIMIT)
      chain    == IF windowed THEN WindowChain(seconds) ELSE BitChain(seconds)
  IN  CASE region = "chain" ->
             f = chain[step] =>
               IF windowed
               THEN LET factor == WindowFactor(step, Digit(seconds, step))
                    IN  ChainGate(factor, mul_q64(f, factor))
               ELSE ChainGate(DECAY_POWERS[step + 1], (f * DECAY_POWERS[step + 1]) \div WORD)
        [] region = "duration" ->
             rem = seconds => DurationGate(trace.k, seconds)
        [] region = "year shift" ->
             times = trace.k => ShiftGate(trace.k, trace.big, trace.shift, trace.q)
        [] region = "round half up" ->
             rem = seconds => RoundGate(trace.shifted, chain[Steps], RoundHalfUp(trace.shifted, chain[Steps]))
        [] region = "proven" -> TRUE

HonestProverSucceeds == now >= t_note => Honest
=============================================================================
