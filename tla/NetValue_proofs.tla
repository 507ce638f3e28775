-------------------------- MODULE NetValue_proofs --------------------------
(***************************************************************************)
(* For all fields and widths of NetValue's assumptions, nothing wraps      *)
(* around on the way from the notes to the binding signature.  What an     *)
(* invariant has to carry for it is that the amounts of the actions so far *)
(* stay below the number of actions times the largest value, and that the  *)
(* sum of the commitments is the difference of both sums, in the scalar    *)
(* field; only the bound makes it a difference of numbers at the end.      *)
(*                                                                         *)
(* And of RangeCheck, whose bounds they start from: what check_bits lets   *)
(* through is below 2^bits, in every field that is large enough and for    *)
(* every width of word.  A running sum only says that the cell is          *)
(* congruent to what was taken off and what is left; the congruence is an  *)
(* equation once both sides are below the field's order, and that is so    *)
(* only at the end, after the last check.                                  *)
(*                                                                         *)
(* And of ValueBalance: a region of limbs that its gates let through pins  *)
(* its value below LIMB^N_LIMBS, and sums of so many of these stay below   *)
(* the field's order, so that the balance of a proof is one of numbers.    *)
(***************************************************************************)
EXTENDS NetValue, RangeCheck, ValueBalance, Basics

Largest == VALUE_LIMIT - 1
(* Actions whose amounts are in the sums.                                  *)
Summed == IF stage = "netted" THEN count + 1 ELSE count

NoteInv ==
  \E value \in 0..Largest, t_note \in 0..(TIME_LIMIT - 1),
     kind \in 0..(KIND_LIMIT - 1), expiry \in 0..(EXPIRY_LIMIT - 1) :
       note = PackedNote(value, t_note, kind, expiry)

SumInv ==
  /\ spent \in Nat /\ spent <= Summed * Largest
  /\ created \in Nat /\ created <= Summed * Largest
  /\ bvk = (spent - created) % ORDER

NVInv ==
  /\ now \in Field /\ worth \in 0..Largest
  /\ stage \in {"old", "new", "net", "netted", "bound"}
  /\ count \in 0..NumActions
  /\ stage \in {"new", "net", "netted"} => count < NumActions
  /\ NoteInv /\ SumInv
  /\ stage = "netted" => cv = to_scalar(worth - note.value)
  /\ stage = "bound" => (verified <=> bvk = 0)

-----------------------------------------------------------------------------
(* What the assumptions say of the constants.                              *)
LEMMA Parameters ==
  /\ FIELD \in Nat \ {0} /\ ORDER \in Nat \ {0} /\ NumActions \in Nat \ {0}
  /\ VALUE_LIMIT \in Nat \ {0} /\ TIME_LIMIT \in Nat \ {0}
  /\ KIND_LIMIT \in Nat \ {0} /\ EXPIRY_LIMIT \in Nat \ {0}
  /\ Largest \in Nat /\ U64 = 2 * VALUE_LIMIT /\ U64 \in Nat \ {0}
  /\ VALUE_LIMIT + U64 <= FIELD /\ U64 <= ORDER
BY ParameterAssumption, FieldAssumption DEF Largest, U64

(* A sum of as many of the largest values as there are actions fits both.  *)
LEMMA SumsFit ==
  ASSUME NEW n \in 0..NumActions, NEW a \in Nat, a <= n * Largest
  PROVE  a < U64 /\ a < ORDER
<1>1. /\ n \in Nat /\ NumActions \in Nat /\ NumActions >= 1 /\ Largest \in Nat
      /\ VALUE_LIMIT \in Nat /\ Largest = VALUE_LIMIT - 1 /\ n <= NumActions
      /\ U64 \in Nat /\ ORDER \in Nat
  BY Parameters DEF Largest
<1>2. n * Largest <= NumActions * Largest
  BY <1>1, ProductsGrow
<1>3. NumActions * Largest = NumActions * VALUE_LIMIT - NumActions
  BY <1>1
<1>4. NumActions * VALUE_LIMIT <= U64 /\ NumActions * VALUE_LIMIT <= ORDER
  BY FieldAssumption, SumAssumption
<1> DEFINE p == n * Largest
           q == NumActions * Largest
           r == NumActions * VALUE_LIMIT
<1>5. p \in Nat /\ q \in Nat /\ r \in Nat /\ a <= p /\ p <= q /\ q = r - NumActions
      /\ r <= U64 /\ r <= ORDER
  BY <1>1, <1>2, <1>3, <1>4
<1> HIDE DEF p, q, r
<1> QED
  BY <1>1, <1>5

(* The gate leaves one number, whatever magnitude and sign are chosen.     *)
LEMMA NetGateIsExact ==
  ASSUME NEW d \in 0..Largest, NEW v \in 0..Largest,
         NEW magnitude \in Field, NEW sign \in {1, -1}, NetGate(d, v, magnitude, sign)
  PROVE  magnitude * sign = d - v
<1>1. /\ magnitude \in Nat /\ magnitude < U64
      /\ (d - v - magnitude * sign) % FIELD = 0
  BY Parameters DEF NetGate, Field
<1>2. magnitude * sign \in Int /\ magnitude * sign < U64 /\ -U64 < magnitude * sign
  BY <1>1, Parameters
<1> DEFINE a == d - v - magnitude * sign
<1>3. a \in Int /\ -FIELD < a /\ a < FIELD
  BY <1>2, Parameters DEF Largest
<1>4. a = 0
  <2> HIDE DEF a
  <2>1. a % FIELD = 0
    BY <1>1 DEF a
  <2> QED
    BY <1>3, <2>1, Parameters, SmallMultiple
<1> QED
  BY <1>2, <1>4

(* The magnitude and the sign the code fills in satisfy the gate.          *)
LEMMA HonestGate ==
  ASSUME NEW d \in 0..Largest, NEW v \in 0..Largest
  PROVE  NetGate(d, v, HonestMagnitude(d, v), HonestSign(d, v))
<1> DEFINE m == HonestMagnitude(d, v)
           s == HonestSign(d, v)
<1>1. m < U64 /\ s \in {1, -1}
  BY Parameters DEF HonestMagnitude, HonestSign, Largest
<1>2. d - v - m * s = 0
  BY Parameters DEF HonestMagnitude, HonestSign, Largest
<1>3. 0 % FIELD = 0
  BY Parameters, SmallRemainder
<1> QED
  BY <1>1, <1>2, <1>3 DEF NetGate

(* to_scalar loses nothing of a difference of two values.                  *)
LEMMA ToScalarOfNet ==
  ASSUME NEW d \in 0..Largest, NEW v \in 0..Largest
  PROVE  to_scalar(d - v) = (d - v) % ORDER
<1>1. CASE d - v < 0
  <2>1. -(d - v) \in Nat /\ -(d - v) < U64
    BY <1>1, Parameters DEF Largest
  <2>2. (-(d - v)) % U64 = -(d - v)
    BY <2>1, Parameters, SmallRemainder
  <2>3. to_scalar(d - v) = (-((-(d - v)) % U64)) % ORDER
    BY <1>1 DEF to_scalar
  <2>4. -(-(d - v)) = d - v
    BY Parameters
  <2> QED
    BY <2>2, <2>3, <2>4
<1>2. CASE ~(d - v < 0)
  <2>1. d - v \in Nat /\ d - v < U64
    BY <1>2, Parameters DEF Largest
  <2>2. (d - v) % U64 = d - v
    BY <2>1, Parameters, SmallRemainder
  <2> QED
    BY <1>2, <2>2 DEF to_scalar
<1> QED
  BY <1>1, <1>2

(* The value of a packed note is below the limit.                          *)
LEMMA NoteValue ==
  ASSUME NoteInv
  PROVE  note.value \in 0..Largest
BY DEF NoteInv, PackedNote

-----------------------------------------------------------------------------
(* NVInv holds in the beginning.                                           *)
LEMMA InitNVInv == Init => NVInv
<1> SUFFICES ASSUME Init PROVE NVInv
  OBVIOUS
<1>1. 0 \in 0..Largest /\ 0 \in 0..(TIME_LIMIT - 1) /\ 0 \in 0..(KIND_LIMIT - 1)
      /\ 0 \in 0..(EXPIRY_LIMIT - 1) /\ 0 % FIELD = 0 /\ 0 % ORDER = 0
      /\ 0 \in 0..NumActions
  BY Parameters, SmallRemainder
<1>2. NoNote = PackedNote(0, 0, 0, 0)
  BY <1>1, Parameters DEF NoNote, PackedNote
<1>3. NoteInv
  BY <1>1, <1>2 DEF Init, NoteInv
<1>4. SumInv
  BY <1>1, Parameters DEF Init, SumInv, Summed
<1> QED
  BY <1>1, <1>3, <1>4 DEF Init, NVInv

(* The cells of a note that passed its checks.                             *)
LEMMA CommittedKeeps ==
  ASSUME NEW value \in Checked(VALUE_LIMIT), NEW t_note \in Nat, t_note < TIME_LIMIT,
         Committed(value, t_note)
  PROVE  NoteInv'
<1>1. PICK kind \in Checked(KIND_LIMIT), expiry \in Checked(EXPIRY_LIMIT) :
        note' = PackedNote(value, t_note, kind, expiry)
  BY DEF Committed
<1>2. /\ value \in 0..Largest /\ t_note \in 0..(TIME_LIMIT - 1)
      /\ kind \in 0..(KIND_LIMIT - 1) /\ expiry \in 0..(EXPIRY_LIMIT - 1)
  BY Parameters DEF Checked, CheckBits, Field, Largest
<1> QED
  BY <1>1, <1>2 DEF NoteInv, PackedNote

(* The region of the spent note keeps NVInv.                               *)
LEMMA ProveOldKeeps ==
  ASSUME NVInv, NEW value \in Checked(VALUE_LIMIT), NEW t_note \in Checked(TIME_LIMIT),
         ProveOld(value, t_note)
  PROVE  NVInv'
<1>1. t_note \in Nat /\ t_note < TIME_LIMIT /\ value \in 0..Largest
  BY Parameters DEF Checked, CheckBits, Field, Largest
<1>2. NoteInv'
  BY <1>1, CommittedKeeps DEF ProveOld
<1>3. worth' \in 0..Largest
  <2>1. now - t_note \in Field
    BY <1>1, Parameters DEF ProveOld, NVInv, Field
  <2>2. Decayed(value, now - t_note) \in 0..value
    BY <1>1, <2>1, DecayAssumption DEF Largest
  <2> QED
    BY <1>1, <2>2, Parameters DEF ProveOld
<1>4. SumInv'
  BY DEF NVInv, SumInv, Summed, ProveOld
<1> QED
  BY <1>2, <1>3, <1>4 DEF NVInv, ProveOld

(* The region of the created note keeps NVInv.                             *)
LEMMA ProveNewKeeps ==
  ASSUME NVInv, NEW value \in Checked(VALUE_LIMIT), ProveNew(value)
  PROVE  NVInv'
<1>1. now \in Nat /\ now < TIME_LIMIT
  BY Parameters DEF ProveNew, NVInv, Field, CheckBits
<1>2. NoteInv'
  BY <1>1, CommittedKeeps DEF ProveNew
<1>3. SumInv'
  BY DEF NVInv, SumInv, Summed, ProveNew
<1> QED
  BY <1>2, <1>3 DEF NVInv, ProveNew

(* The net value, of whatever magnitude and sign passes the gate, keeps
   NVInv.                                                                  *)
LEMMA ProveNetKeeps ==
  ASSUME NVInv, NEW magnitude \in Field, NEW sign \in {1, -1}, ProveNet(magnitude, sign)
  PROVE  NVInv'
<1> DEFINE d == worth
           v == note.value
<1>1. d \in 0..Largest /\ v \in 0..Largest
  BY NoteValue DEF NVInv
<1>2. /\ stage = "net" /\ NetGate(d, v, magnitude, sign)
      /\ cv' = (magnitude * sign) % ORDER /\ bvk' = (bvk + cv') % ORDER
      /\ spent' = spent + d /\ created' = created + v
      /\ stage' = "netted" /\ note' = note /\ worth' = worth /\ count' = count /\ now' = now
  BY DEF ProveNet
<1>3. cv' = (d - v) % ORDER /\ cv' = to_scalar(d - v)
  BY <1>1, <1>2, NetGateIsExact, ToScalarOfNet
<1>4. /\ spent \in Nat /\ created \in Nat /\ bvk = (spent - created) % ORDER
      /\ spent <= count * Largest /\ created <= count * Largest /\ count \in Nat
  BY <1>2, Parameters DEF NVInv, SumInv, Summed
<1>5. bvk' = (spent' - created') % ORDER
  <2> DEFINE a == spent - created
             b == d - v
  <2>1. a \in Int /\ b \in Int /\ bvk = a % ORDER /\ cv' = b % ORDER
        /\ spent' - created' = a + b
    <3>1. a \in Int /\ b \in Int
      BY <1>1, <1>4, Parameters
    <3>2. spent' - created' = a + b
      <4>1. spent' = spent + d /\ created' = created + v
        BY <1>2
      <4>2. d \in Int /\ v \in Int /\ spent \in Int /\ created \in Int
        BY <1>1, <1>4, Parameters
      <4> HIDE DEF d, v
      <4> QED
        BY <4>1, <4>2
    <3>3. bvk = a % ORDER
      BY <1>4
    <3>4. cv' = b % ORDER
      BY <1>3
    <3> QED
      BY <3>1, <3>2, <3>3, <3>4
  <2> HIDE DEF a, b
  <2>2. ((a % ORDER) + (b % ORDER)) % ORDER = (a + b) % ORDER
    BY <2>1, Parameters, SumOfRemainders
  <2> QED
    BY <1>2, <2>1, <2>2
<1>6. (count + 1) * Largest = count * Largest + Largest
  BY <1>4, Parameters
<1>7. /\ spent' \in Nat /\ spent' <= (count + 1) * Largest
      /\ created' \in Nat /\ created' <= (count + 1) * Largest
  BY <1>1, <1>2, <1>4, <1>6, Parameters
<1>8. SumInv'
  BY <1>2, <1>5, <1>7 DEF SumInv, Summed
<1>9. NoteInv'
  BY <1>2 DEF NVInv, NoteInv, PackedNote
<1> QED
  BY <1>2, <1>3, <1>8, <1>9 DEF NVInv

(* Going on to the next action keeps NVInv.                                *)
LEMMA NextActionKeeps ==
  ASSUME NVInv, NextAction
  PROVE  NVInv'
<1>1. 0 \in 0..Largest /\ 0 \in 0..(TIME_LIMIT - 1) /\ 0 \in 0..(KIND_LIMIT - 1)
      /\ 0 \in 0..(EXPIRY_LIMIT - 1) /\ 0 % FIELD = 0
  BY Parameters, SmallRemainder
<1>2. NoNote = PackedNote(0, 0, 0, 0)
  BY <1>1, Parameters DEF NoNote, PackedNote
<1>3. NoteInv'
  BY <1>1, <1>2 DEF NextAction, NoteInv, PackedNote
<1>4. SumInv'
  BY DEF NVInv, SumInv, Summed, NextAction
<1>5. count' \in 0..NumActions
  BY Parameters DEF NVInv, NextAction
<1> QED
  BY <1>1, <1>3, <1>4, <1>5 DEF NVInv, NextAction

(* The binding signature keeps NVInv.                                      *)
LEMMA BindKeeps ==
  ASSUME NVInv, Bind
  PROVE  NVInv'
<1>1. to_scalar(0) = 0
  <2>1. 0 % U64 = 0 /\ 0 % ORDER = 0
    BY Parameters, SmallRemainder
  <2> QED
    BY <2>1 DEF to_scalar
<1>2. bvk \in Nat /\ bvk < ORDER
  BY Parameters DEF NVInv, SumInv
<1>3. (bvk - to_scalar(0)) % ORDER = bvk
  BY <1>1, <1>2, Parameters, SmallRemainder
<1>4. verified' <=> bvk' = 0
  BY <1>3 DEF Bind
<1>5. SumInv' /\ NoteInv'
  BY DEF NVInv, SumInv, NoteInv, Summed, Bind, PackedNote
<1> QED
  BY <1>4, <1>5 DEF NVInv, Bind

(* Every step keeps NVInv.                                                 *)
LEMMA NextKeepsNVInv ==
  ASSUME NVInv, [Next]_vars
  PROVE  NVInv'
<1>1. CASE \E value \in Checked(VALUE_LIMIT), t_note \in Checked(TIME_LIMIT) :
             ProveOld(value, t_note)
  BY <1>1, ProveOldKeeps
<1>2. CASE \E value \in Checked(VALUE_LIMIT) : ProveNew(value)
  BY <1>2, ProveNewKeeps
<1>3. CASE \E magnitude \in Field, sign \in {1, -1} : ProveNet(magnitude, sign)
  BY <1>3, ProveNetKeeps
<1>4. CASE NextAction
  BY <1>4, NextActionKeeps
<1>5. CASE Bind
  BY <1>5, BindKeeps
<1>6. CASE UNCHANGED vars
  BY <1>6 DEF vars, NVInv, SumInv, NoteInv, Summed, PackedNote
<1> QED
  BY <1>1, <1>2, <1>3, <1>4, <1>5, <1>6 DEF Next

(* NVInv holds in every state that can be reached.                         *)
LEMMA NVInvHolds == Spec => []NVInv
BY InitNVInv, NextKeepsNVInv, PTL DEF Spec

-----------------------------------------------------------------------------
(* The elements of a note's commitment tell its parts, in every field and
   for all widths: no two notes pack to the same elements.                 *)

THEOREM ElementsReadBackHolds == Spec => []ElementsReadBack
<1>1. NVInv => ElementsReadBack
  <2> SUFFICES ASSUME NVInv PROVE ElementsReadBack
    OBVIOUS
  <2>1. PICK value \in 0..Largest, t_note \in 0..(TIME_LIMIT - 1),
             kind \in 0..(KIND_LIMIT - 1), expiry \in 0..(EXPIRY_LIMIT - 1) :
          note = PackedNote(value, t_note, kind, expiry)
    BY DEF NVInv, NoteInv
  <2> DEFINE a == value + t_note * VALUE_LIMIT
             m == kind + expiry * KIND_LIMIT
  <2>2. /\ value \in Nat /\ value < VALUE_LIMIT /\ t_note \in Nat /\ t_note < TIME_LIMIT
        /\ kind \in Nat /\ kind < KIND_LIMIT /\ expiry \in Nat /\ expiry < EXPIRY_LIMIT
    BY Parameters DEF Largest
  <2>3. a \in Nat /\ a < VALUE_LIMIT * TIME_LIMIT
    BY <2>2, Parameters, PackedIsSmall
  <2>4. m \in Nat /\ m < KIND_LIMIT * EXPIRY_LIMIT
    BY <2>2, Parameters, PackedIsSmall
  <2>5. a % VALUE_LIMIT = value /\ a \div VALUE_LIMIT = t_note
    BY <2>2, Parameters, UnpacksAsPacked
  <2>6. m % KIND_LIMIT = kind /\ m \div KIND_LIMIT = expiry
    BY <2>2, Parameters, UnpacksAsPacked
  <2>7. /\ note.value = value /\ note.t_note = t_note /\ note.kind = kind
        /\ note.expiry = expiry /\ note.amount = a % FIELD /\ note.meta = m % FIELD
    BY <2>1 DEF PackedNote
  <2> DEFINE p == VALUE_LIMIT * TIME_LIMIT
             q == KIND_LIMIT * EXPIRY_LIMIT
  <2>8. p \in Nat /\ q \in Nat /\ p <= FIELD /\ q <= FIELD /\ a < p /\ m < q
    BY <2>3, <2>4, Parameters, FieldAssumption
  <2> HIDE DEF a, m, p, q
  <2>9. a % FIELD = a /\ m % FIELD = m
    <3>1. a < FIELD /\ m < FIELD /\ a \in Nat /\ m \in Nat
      BY <2>3, <2>4, <2>8, Parameters
    <3> QED
      BY <3>1, Parameters, SmallRemainder
  <2> QED
    BY <2>5, <2>6, <2>7, <2>9 DEF ElementsReadBack
<1> QED
  BY <1>1, NVInvHolds, PTL

(* The value commitment that is proved is the one `build` publishes.       *)
THEOREM CommitsToNetHolds == Spec => []CommitsToNet
<1>1. NVInv => CommitsToNet
  BY NoteValue, HonestGate DEF NVInv, CommitsToNet
<1> QED
  BY <1>1, NVInvHolds, PTL

(* What verifies is what `build` takes, and no sum of it overflows.        *)
THEOREM VerifiedAsBuiltHolds == Spec => []VerifiedAsBuilt
<1>1. NVInv => VerifiedAsBuilt
  <2> SUFFICES ASSUME NVInv PROVE VerifiedAsBuilt
    OBVIOUS
  <2>1. Summed \in 0..NumActions
    BY Parameters DEF NVInv, Summed
  <2>2. /\ spent \in Nat /\ spent < U64 /\ spent < ORDER
        /\ created \in Nat /\ created < U64 /\ created < ORDER
    BY <2>1, SumsFit DEF NVInv, SumInv
  <2>3. SumError(spent, created) # "Overflow" /\ (SumError(spent, created) = "Ok" <=> spent = created)
    BY <2>2, Parameters DEF SumError
  <2>4. bvk = 0 <=> spent = created
    <3>1. bvk = (spent - created) % ORDER
      BY DEF NVInv, SumInv
    <3> DEFINE a == spent - created
    <3>2. a \in Int /\ -ORDER < a /\ a < ORDER /\ bvk = a % ORDER /\ (a = 0 <=> spent = created)
      BY <2>2, <3>1, Parameters
    <3> HIDE DEF a
    <3>3. ASSUME bvk = 0 PROVE a = 0
      BY <3>2, <3>3, Parameters, SmallMultiple
    <3>4. ASSUME a = 0 PROVE bvk = 0
      BY <3>2, <3>4, Parameters, SmallRemainder
    <3> QED
      BY <3>2, <3>3, <3>4
  <2>5. stage = "bound" => (verified <=> bvk = 0)
    BY DEF NVInv
  <2> QED
    BY <2>3, <2>4, <2>5 DEF VerifiedAsBuilt
<1> QED
  BY <1>1, NVInvHolds, PTL

-----------------------------------------------------------------------------
(* The cell is `low + WORD^taken * z`, up to multiples of the order.       *)
Congruent == \E low \in 0..(WORD^taken - 1), k \in Int :
               cell = low + WORD^taken * z + k * MODULUS

RInv ==
  /\ cell \in Residue /\ bits \in Width /\ z \in Residue
  /\ taken \in 0..words /\ accepted \in BOOLEAN
  /\ Congruent
  /\ accepted => taken = words /\ Top

-----------------------------------------------------------------------------
(* The powers of the check that is going on.                               *)
LEMMA WordPowers ==
  ASSUME RInv
  PROVE  /\ MODULUS \in Nat \ {0} /\ WORD \in Nat \ {0} /\ WORD * WORD <= MODULUS
         /\ words \in Nat /\ extra \in Nat
         /\ 2^bits \in Nat /\ 2^bits <= MODULUS
         /\ \A n \in 0..words : WORD^n \in Nat \ {0} /\ WORD^(n + 1) = WORD^n * WORD
         /\ WORD^0 = 1
         /\ {2^extra, 2^(WORD_BITS - extra)} \subseteq Nat \ {0}
         /\ 2^bits = WORD^words * 2^extra
         /\ WORD = 2^extra * 2^(WORD_BITS - extra)
<1>1. bits \in Width /\ bits \in Nat /\ WORD_BITS \in Nat \ {0} /\ MODULUS \in Nat
  BY ModulusAssumption DEF RInv
<1>2. words \in Nat /\ extra \in Nat
  BY <1>1 DEF words, extra
<1>3. /\ \A n \in 0..words : WORD^n \in Nat \ {0} /\ WORD^(n + 1) = WORD^n * WORD
      /\ WORD^0 = 1
      /\ {2^extra, 2^(WORD_BITS - extra)} \subseteq Nat \ {0}
      /\ 2^bits = WORD^words * 2^extra
      /\ WORD = 2^extra * 2^(WORD_BITS - extra)
  BY <1>1, WordAssumption DEF words, extra
<1>4. WORD \in Nat \ {0}
  <2> DEFINE p == 2^extra
             q == 2^(WORD_BITS - extra)
  <2>1. p \in Nat \ {0} /\ q \in Nat \ {0} /\ WORD = p * q
    BY <1>3
  <2> HIDE DEF p, q
  <2> QED
    BY <2>1
<1>5. WORD * WORD <= MODULUS /\ 2^bits <= MODULUS
  BY <1>1, ModulusAssumption
<1>6. MODULUS # 0
  BY <1>4, <1>5
<1>7. 2^bits \in Nat
  <2> DEFINE p == WORD^words
             q == 2^extra
  <2>1. p \in Nat /\ q \in Nat /\ 2^bits = p * q
    BY <1>2, <1>3
  <2> HIDE DEF p, q
  <2> QED
    BY <2>1
<1> QED
  BY <1>1, <1>2, <1>3, <1>4, <1>5, <1>6, <1>7

-----------------------------------------------------------------------------
(* RInv holds in the beginning.                                            *)
LEMMA InitRInv == CheckInit => RInv
<1> SUFFICES ASSUME CheckInit PROVE RInv
  OBVIOUS
<1>1. /\ cell \in Residue /\ bits \in Width /\ z = cell /\ taken = 0 /\ accepted = FALSE
  BY DEF CheckInit
<1>2. bits \in Nat /\ WORD_BITS \in Nat \ {0} /\ MODULUS \in Nat
  BY <1>1, ModulusAssumption
<1>3. words \in Nat
  BY <1>2 DEF words
<1>4. WORD^0 = 1
  BY <1>1, WordAssumption
<1>5. cell \in Int
  BY <1>1, <1>2 DEF Residue
<1>6. Congruent
  <2>1. cell = 0 + 1 * z + 0 * MODULUS
    BY <1>1, <1>2, <1>5
  <2>2. 0 \in 0..(WORD^taken - 1) /\ WORD^taken = 1 /\ 0 \in Int
    BY <1>1, <1>4
  <2> QED
    BY <2>1, <2>2 DEF Congruent
<1>7. taken \in 0..words
  BY <1>1, <1>3
<1>8. /\ cell \in Residue /\ bits \in Width /\ z \in Residue
      /\ accepted \in BOOLEAN /\ ~accepted
  BY <1>1, Zenon
<1> QED
  BY <1>6, <1>7, <1>8, Zenon DEF RInv

(* A word taken off joins the low words; the sum of all is what it was.    *)
LEMMA TakeWordKeeps ==
  ASSUME RInv, NEW word \in 0..(WORD - 1), NEW rest \in Residue, TakeWord(word, rest)
  PROVE  RInv'
<1>1. /\ MODULUS \in Nat \ {0} /\ WORD \in Nat \ {0} /\ words \in Nat
      /\ taken \in 0..words /\ taken < words /\ z \in Residue /\ cell \in Residue
      /\ word \in Nat /\ word <= WORD - 1 /\ rest \in Nat /\ z \in Nat
  BY WordPowers DEF RInv, TakeWord, Residue
<1>2. /\ z' = rest /\ taken' = taken + 1
      /\ cell' = cell /\ bits' = bits /\ accepted' = accepted
  BY DEF TakeWord
<1>3. PICK low \in 0..(WORD^taken - 1), k \in Int : cell = low + WORD^taken * z + k * MODULUS
  BY DEF RInv, Congruent
<1> DEFINE w == WORD^taken
<1>4. w \in Nat \ {0} /\ WORD^(taken + 1) = w * WORD
  BY <1>1, WordPowers
<1>5. PICK j \in Int : word + rest * WORD - z = j * MODULUS
  <2>1. word + rest * WORD - z \in Int
    BY <1>1
  <2> QED
    BY <1>1, <2>1, Quotient DEF TakeWord
<1>6. low \in Nat /\ low <= w - 1 /\ cell = low + w * z + k * MODULUS
  BY <1>3, <1>4
<1> HIDE DEF w
<1> DEFINE low2 == low + w * word
           k2 == k - w * j
<1>7. low2 \in Nat /\ k2 \in Int
  BY <1>1, <1>4, <1>6
<1>8. low2 <= w * WORD - 1
  <2>1. word * w <= (WORD - 1) * w
    BY <1>1, <1>4, ProductsGrow
  <2>2. (WORD - 1) * w = w * WORD - w /\ word * w = w * word
    BY <1>1, <1>4
  <2> QED
    BY <1>1, <1>4, <1>6, <2>1, <2>2
<1>9. cell = low2 + (w * WORD) * rest + k2 * MODULUS
  <2>1. z = word + rest * WORD - j * MODULUS
    BY <1>1, <1>5
  <2>2. w * z = w * word + (w * WORD) * rest - (w * j) * MODULUS
    BY <1>1, <1>4, <2>1
  <2>3. k2 * MODULUS = k * MODULUS - (w * j) * MODULUS
    BY <1>1, <1>4
  <2> QED
    BY <1>1, <1>4, <1>6, <2>2, <2>3
<1> HIDE DEF low2, k2
<1>10. WORD^(taken') = w * WORD
  BY <1>2, <1>4
<1>11. Congruent'
  <2>1. cell' = low2 + WORD^(taken') * z' + k2 * MODULUS
    BY <1>2, <1>9, <1>10
  <2>2. low2 \in 0..(WORD^(taken') - 1)
    BY <1>1, <1>4, <1>7, <1>8, <1>10
  <2> QED
    BY <1>7, <2>1, <2>2 DEF Congruent
<1>12. words' = words /\ taken' \in 0..words /\ ~accepted
  BY <1>1, <1>2 DEF RInv, words
<1> QED
  BY <1>2, <1>11, <1>12 DEF RInv

(* Every step of the range check keeps RInv.                               *)
LEMMA NextKeepsRInv ==
  ASSUME RInv, [CheckNext]_checkVars
  PROVE  RInv'
<1>1. CASE \E word \in 0..(WORD - 1), rest \in Residue : TakeWord(word, rest)
  BY <1>1, TakeWordKeeps
<1>2. CASE Accept
  BY <1>2 DEF Accept, RInv, Congruent, Top, words, extra
<1>3. CASE UNCHANGED checkVars
  BY <1>3 DEF checkVars, RInv, Congruent, Top, words, extra
<1> QED
  BY <1>1, <1>2, <1>3 DEF CheckNext

(* A short check's two lookups leave what fits below the shift.            *)
LEMMA ShortCheckBounds ==
  ASSUME RInv, NEW x \in Nat, ShortCheck(x, extra)
  PROVE  x < 2^extra
<1> DEFINE p == 2^extra
           q == 2^(WORD_BITS - extra)
<1>1. /\ p \in Nat \ {0} /\ q \in Nat \ {0} /\ WORD = p * q
      /\ WORD \in Nat \ {0} /\ MODULUS \in Nat \ {0} /\ WORD * WORD <= MODULUS
  BY WordPowers
<1>2. x < WORD /\ (x * q) % MODULUS < WORD
  BY DEF ShortCheck
<1> HIDE DEF p, q
<1>3. q <= WORD
  <2>1. 1 * q <= p * q
    BY <1>1, ProductsGrow
  <2> QED
    BY <1>1, <2>1
<1>4. x * q < MODULUS
  <2>1. x * q <= (WORD - 1) * q
    BY <1>1, <1>2, ProductsGrow
  <2>2. (WORD - 1) * q = WORD * q - q
    BY <1>1
  <2>3. q * WORD <= WORD * WORD /\ q * WORD = WORD * q
    BY <1>1, <1>3, ProductsGrow
  <2> DEFINE a == x * q
             b == WORD * q
             c == WORD * WORD
  <2>4. a \in Nat /\ b \in Nat /\ c \in Nat /\ a <= b - q /\ b <= c /\ c <= MODULUS
    BY <1>1, <2>1, <2>2, <2>3
  <2> HIDE DEF a, b, c
  <2>5. a < MODULUS
    BY <1>1, <2>4
  <2> QED
    BY <2>5 DEF a
<1>5. x * q < p * q
  <2>1. x * q \in Nat
    BY <1>1
  <2>2. (x * q) % MODULUS = x * q
    BY <1>1, <1>4, <2>1, SmallRemainder
  <2> QED
    BY <1>1, <1>2, <2>2
<1>6. x < p
  BY <1>1, <1>5, Cancel
<1> QED
  BY <1>6 DEF p

(* After the last check the congruence is an equation of numbers.          *)
LEMMA AcceptedIsPinned ==
  ASSUME RInv, accepted
  PROVE  cell < 2^bits
<1>1. taken = words /\ Top /\ z \in Nat /\ cell \in Nat /\ cell < MODULUS
  BY WordPowers DEF RInv, Residue
<1>2. PICK low \in 0..(WORD^words - 1), k \in Int : cell = low + WORD^words * z + k * MODULUS
  BY <1>1 DEF RInv, Congruent
<1>3. z < 2^extra
  <2>1. CASE words > 0 /\ extra = 0
    BY <1>1, <2>1, WordPowers DEF Top
  <2>2. CASE ~(words > 0 /\ extra = 0)
    BY <1>1, <2>2, ShortCheckBounds DEF Top
  <2> QED
    BY <2>1, <2>2
<1> DEFINE w == WORD^words
           p == 2^extra
<1>4. /\ w \in Nat \ {0} /\ p \in Nat \ {0} /\ 2^bits = w * p /\ w * p <= MODULUS
      /\ low \in Nat /\ low <= w - 1 /\ cell = low + w * z + k * MODULUS
      /\ z < p /\ MODULUS \in Nat \ {0}
  BY <1>2, <1>3, WordPowers
<1> HIDE DEF w, p
<1>5. low + w * z < w * p
  <2>1. z * w <= (p - 1) * w
    BY <1>1, <1>4, ProductsGrow
  <2>2. (p - 1) * w = w * p - w /\ z * w = w * z
    BY <1>1, <1>4
  <2> QED
    BY <1>1, <1>4, <2>1, <2>2
<1> DEFINE b == low + w * z
<1>6. b \in Nat /\ b < MODULUS /\ b < w * p /\ cell = b + k * MODULUS
  BY <1>1, <1>4, <1>5
<1> HIDE DEF b
<1>7. cell = b
  BY <1>1, <1>4, <1>6, NoMultiple
<1> QED
  BY <1>4, <1>6, <1>7

(* "`cell < 2^bits`, exactly", for every field, word and width: whatever
   words and rests a prover chooses.                                       *)

THEOREM PinnedHolds == CheckSpec => []Pinned
<1>1. RInv => Pinned
  BY AcceptedIsPinned DEF Pinned
<1> QED
  BY <1>1, InitRInv, NextKeepsRInv, PTL DEF CheckSpec

-----------------------------------------------------------------------------
(* The skeleton circuit.  What a value in range is below.                  *)
Bound == LIMB^N_LIMBS

VBInv ==
  /\ values \in [Cells -> 0..(PRIME - 1)]
  /\ Listed(limbs) /\ Len(limbs) <= N_IN + N_OUT
  /\ \A i \in 1..Len(limbs) : values[i] < Bound
  /\ takenFor # {} => Proven

(* The sizes, and the weights of the limbs.                                *)
LEMMA LimbSizes ==
  /\ PRIME \in Nat \ {0} /\ LIMB \in Nat \ {0} /\ N_LIMBS \in Nat \ {0}
  /\ N_IN \in Nat \ {0} /\ N_OUT \in Nat \ {0}
  /\ Bound \in Nat \ {0} /\ N_IN * Bound < PRIME /\ N_OUT * Bound < PRIME /\ Bound < PRIME
<1>1. /\ PRIME \in Nat \ {0} /\ LIMB \in Nat \ {0} /\ N_LIMBS \in Nat \ {0}
      /\ N_IN \in Nat \ {0} /\ N_OUT \in Nat \ {0}
  BY LimbAssumption
<1>2. Bound \in Nat \ {0} /\ N_IN * Bound < PRIME /\ N_OUT * Bound < PRIME
  BY <1>1, LimbAssumption, WeightAssumption DEF Bound
<1> DEFINE b == Bound
<1>3. b \in Nat /\ N_IN * b < PRIME
  BY <1>2
<1> HIDE DEF b
<1>4. b < PRIME
  <2>1. 1 * b <= N_IN * b
    BY <1>1, <1>3, ProductsGrow
  <2>2. 1 * b = b /\ N_IN * b \in Nat
    BY <1>1, <1>3
  <2> QED
    BY <1>1, <1>3, <2>1, <2>2
<1> QED
  BY <1>1, <1>2, <1>4 DEF b

(* Inputs and outputs are the cells of region 1, one after the other.      *)
LEMMA InputsAndOutputs ==
  ASSUME NEW all, all \in [Cells -> Nat]
  PROVE  /\ Inputs(all) \in [1..N_IN -> Nat] /\ Outputs(all) \in [1..N_OUT -> Nat]
         /\ \A i \in 1..N_IN : i \in Cells /\ Inputs(all)[i] = all[i]
         /\ \A i \in 1..N_OUT : N_IN + i \in Cells /\ Outputs(all)[i] = all[N_IN + i]
         /\ ToSet(Inputs(all) \o Outputs(all)) = {all[i] : i \in Cells}
<1> DEFINE m == N_IN
           n == N_OUT
           s == Inputs(all)
           u == Outputs(all)
<1>1. m \in Nat \ {0} /\ n \in Nat \ {0} /\ all \in [1..(m + n) -> Nat]
  BY LimbSizes DEF Cells
<1>2. s = SubSeq(all, 1, m) /\ u = SubSeq(all, m + 1, m + n)
  BY DEF Inputs, Outputs
<1> HIDE DEF m, n, s, u
<1>3. CutInto(all, m, n, s, u)
  BY <1>1, <1>2, Halves
<1> QED
  BY <1>3 DEF CutInto, m, n, s, u, Cells

(* "No wraparound": a sum of values in range is the same in the field.     *)
LEMMA SumIsNoMultiple ==
  ASSUME NEW n \in Nat, n * Bound < PRIME, NEW s \in [1..n -> Nat], \A i \in 1..n : s[i] < Bound
  PROVE  Total(s) \in Nat /\ Total(s) % PRIME = Total(s)
<1>1. Bound \in Nat /\ PRIME \in Nat \ {0}
  BY LimbSizes
<1> QED
  BY <1>1, FoldDoesNotWrap DEF Total

(* So the two sums that the balance gate compares are the sums.            *)
LEMMA SumsDoNotWrap ==
  ASSUME NEW all, all \in [Cells -> Nat], \A i \in Cells : all[i] < Bound
  PROVE  /\ Total(Inputs(all)) % PRIME = Total(Inputs(all))
         /\ Total(Outputs(all)) % PRIME = Total(Outputs(all))
<1>1. /\ Inputs(all) \in [1..N_IN -> Nat] /\ Outputs(all) \in [1..N_OUT -> Nat]
      /\ \A i \in 1..N_IN : Inputs(all)[i] < Bound
      /\ \A i \in 1..N_OUT : Outputs(all)[i] < Bound
  BY InputsAndOutputs
<1> QED
  BY <1>1, LimbSizes, SumIsNoMultiple

(* The weights of the limbs are powers.                                    *)
LEMMA Weights ==
  LET p == [j \in 0..N_LIMBS |-> LIMB^j]
  IN  /\ Powers(p, LIMB, N_LIMBS) /\ p[0] = 1 /\ p[N_LIMBS] = Bound
      /\ \A j \in 1..N_LIMBS : j - 1 \in 0..N_LIMBS /\ p[j - 1] = LIMB^(j - 1)
<1> DEFINE n == N_LIMBS
           p == [j \in 0..n |-> LIMB^j]
<1>1. n \in Nat /\ LIMB \in Nat \ {0}
  BY LimbSizes
<1>2. /\ \A j \in 0..n : LIMB^j \in Nat \ {0}
      /\ LIMB^0 = 1 /\ \A j \in 0..(n - 1) : LIMB^(j + 1) = LIMB^j * LIMB
  BY WeightAssumption
<1>3. \A j \in 0..n : p[j] = LIMB^j
  OBVIOUS
<1>4. p[n] = Bound
  BY <1>1 DEF Bound
<1> HIDE DEF n, p
<1>5. \A j \in 0..(n - 1) : j \in 0..n /\ j + 1 \in 0..n
  BY <1>1
<1>6. Powers(p, LIMB, n)
  BY <1>1, <1>2, <1>3, <1>5 DEF Powers
<1>7. \A j \in 1..n : j - 1 \in 0..n
  BY <1>1
<1>8. p[0] = 1
  BY <1>1, <1>2, <1>3
<1>9. \A j \in 1..n : p[j - 1] = LIMB^(j - 1)
  BY <1>3, <1>7
<1> QED
  BY <1>4, <1>6, <1>7, <1>8, <1>9 DEF n, p

(* What the gates let through as limbs is in range.                        *)
LEMMA RowIsInRange ==
  ASSUME NEW value, NEW row, \A j \in 1..N_LIMBS : RangeTable(row[j]), DecomposeGate(value, row)
  PROVE  value < Bound
<1> DEFINE p == [j \in 0..N_LIMBS |-> LIMB^j]
           terms == [j \in 1..N_LIMBS |-> row[j] * LIMB^(j - 1)]
           n == N_LIMBS
<1>1. /\ Powers(p, LIMB, n) /\ p[0] = 1 /\ p[n] = Bound
      /\ \A j \in 1..n : j - 1 \in 0..n /\ p[j - 1] = LIMB^(j - 1)
  BY Weights
<1>2. \A j \in 1..n : row[j] \in 0..(LIMB - 1) /\ terms[j] = row[j] * LIMB^(j - 1)
  BY DEF RangeTable
<1>3. n \in Nat
  BY LimbSizes
<1>4. DOMAIN terms = 1..n /\ terms = [j \in 1..n |-> terms[j]]
  OBVIOUS
<1>5. value = Total(terms) % PRIME
  BY DEF DecomposeGate
<1> HIDE DEF p, terms, n
<1>6. \A j \in 1..n : row[j] \in 0..(LIMB - 1) /\ terms[j] = row[j] * p[j - 1]
  BY <1>1, <1>2
<1>7. \A j \in 1..n : \E digit \in 0..(LIMB - 1) : terms[j] = digit * p[j - 1]
  BY <1>6, Zenon
<1>8. terms \in [1..n -> Int]
  <2>1. ASSUME NEW j \in 1..n PROVE terms[j] \in Int
    <3>1. p[j - 1] \in Nat /\ row[j] \in Int
      BY <1>1, <1>6, LimbSizes DEF Powers
    <3> QED
      BY <1>6, <3>1
  <2> QED
    BY <1>4, <2>1
<1>9. PICK sums : Sums(terms, n, sums)
  BY <1>3, <1>8, SumsExist
<1>10. sums[n] \in Nat /\ sums[n] < p[n]
  BY <1>1, <1>3, <1>7, <1>9, DigitsStayBelow
<1>11. Total(terms) = sums[n]
  BY <1>3, <1>9, FoldIsSum, Zenon DEF Total
<1>12. sums[n] % PRIME = sums[n]
  <2>1. sums[n] < PRIME /\ PRIME \in Nat \ {0}
    BY <1>1, <1>10, LimbSizes
  <2> QED
    BY <1>10, <2>1, SmallRemainder
<1> QED
  BY <1>1, <1>5, <1>10, <1>11, <1>12

(* The limbs that the code assigns satisfy the gate.                       *)
LEMMA HonestLimbsFit ==
  ASSUME NEW value \in Nat, value < Bound
  PROVE  DecomposeGate(value, Honest(value))
<1> DEFINE p == [j \in 0..N_LIMBS |-> LIMB^j]
           terms == [j \in 1..N_LIMBS |-> Honest(value)[j] * LIMB^(j - 1)]
           n == N_LIMBS
<1>1. /\ Powers(p, LIMB, n) /\ p[0] = 1 /\ p[n] = Bound
      /\ \A j \in 1..n : j - 1 \in 0..n /\ p[j - 1] = LIMB^(j - 1)
  BY Weights
<1>2. \A j \in 1..n : terms[j] = ((value \div LIMB^(j - 1)) % LIMB) * LIMB^(j - 1)
  BY DEF Honest
<1>3. n \in Nat /\ LIMB \in Nat \ {0}
  BY LimbSizes
<1>4. DOMAIN terms = 1..n /\ terms = [j \in 1..n |-> terms[j]]
  OBVIOUS
<1> HIDE DEF p, terms, n
<1>5. \A j \in 1..n : terms[j] = ((value \div p[j - 1]) % LIMB) * p[j - 1]
  BY <1>1, <1>2
<1>6. terms \in [1..n -> Int]
  <2>1. ASSUME NEW j \in 1..n PROVE terms[j] \in Int
    <3> DEFINE w == p[j - 1]
               q == value \div w
               d == q % LIMB
    <3>1. w \in Nat \ {0}
      BY <1>1 DEF Powers
    <3>2. terms[j] = d * w
      BY <1>5
    <3> HIDE DEF w
    <3>3. q \in Nat
      BY <3>1
    <3> HIDE DEF q
    <3>4. d \in Nat
      BY <1>3, <3>3
    <3> HIDE DEF d
    <3> QED
      BY <3>1, <3>2, <3>4
  <2> QED
    BY <1>4, <2>1
<1>7. PICK sums : Sums(terms, n, sums)
  BY <1>3, <1>6, SumsExist
<1>8. sums[n] = value % p[n]
  BY <1>1, <1>3, <1>5, <1>7, DigitsMakeUp
<1>9. Total(terms) = sums[n]
  BY <1>3, <1>7, FoldIsSum, Zenon DEF Total
<1>10. value % p[n] = value /\ value % PRIME = value
  <2>1. value < PRIME /\ PRIME \in Nat \ {0} /\ p[n] \in Nat \ {0} /\ value < p[n]
    BY <1>1, LimbSizes
  <2> QED
    BY <2>1, SmallRemainder
<1> QED
  BY <1>8, <1>9, <1>10 DEF terms, DecomposeGate

(* VBInv holds in the beginning.                                           *)
LEMMA InitVBInv == BalanceInit => VBInv
<1> SUFFICES ASSUME BalanceInit PROVE VBInv
  OBVIOUS
<1>1. Listed(<<>>) /\ Len(<<>>) = 0
  <2>1. DOMAIN <<>> = 1..0 /\ <<>> = [i \in 1..0 |-> <<>>[i]]
    OBVIOUS
  <2> QED
    BY <2>1, Lists
<1>2. limbs = <<>> /\ takenFor = {} /\ values \in [Cells -> 0..(PRIME - 1)]
  BY DEF BalanceInit
<1> QED
  BY <1>1, <1>2, LimbSizes DEF VBInv

(* Each range check fills one region more with a value in range.           *)
LEMMA NextKeepsVBInv ==
  ASSUME VBInv, [BalanceNext]_balanceVars
  PROVE  VBInv'
<1>1. Len(limbs) \in Nat
  BY ListedProperties DEF VBInv
<1>2. CASE RangeCheck
  <2>1. PICK row : /\ \A j \in 1..N_LIMBS : RangeTable(row[j])
                   /\ DecomposeGate(values[Len(limbs) + 1], row)
                   /\ limbs' = Append(limbs, row)
    BY <1>2 DEF RangeCheck
  <2>2. values[Len(limbs) + 1] < Bound
    BY <2>1, RowIsInRange
  <2>3. Listed(limbs') /\ Len(limbs') = Len(limbs) + 1
    BY <2>1, Appending DEF VBInv
  <2>4. takenFor' = {}
    BY <1>1, <1>2, LimbSizes DEF RangeCheck, VBInv, Proven
  <2>5. values' = values /\ Len(limbs) < N_IN + N_OUT
    BY <1>2 DEF RangeCheck
  <2>6. Len(limbs') <= N_IN + N_OUT
    BY <1>1, <2>3, <2>5, LimbSizes
  <2>7. ASSUME NEW i \in 1..Len(limbs') PROVE values'[i] < Bound
    <3>1. i \in 1..Len(limbs) \/ i = Len(limbs) + 1
      BY <1>1, <2>3
    <3> QED
      BY <2>2, <2>5, <3>1 DEF VBInv
  <2>8. values' \in [Cells -> 0..(PRIME - 1)]
    BY <2>5 DEF VBInv
  <2> QED
    BY <2>3, <2>4, <2>6, <2>7, <2>8 DEF VBInv
<1>3. ASSUME NEW public \in Sighash, Verify(public) PROVE VBInv'
  <2>1. Proven /\ values' = values /\ limbs' = limbs
    BY <1>3 DEF Verify
  <2>2. Proven'
    BY <2>1 DEF Proven, BalanceGate
  <2> QED
    BY <2>1, <2>2 DEF VBInv, Listed
<1>4. CASE UNCHANGED balanceVars
  BY <1>4 DEF VBInv, balanceVars, Listed, Proven, BalanceGate
<1> QED
  BY <1>2, <1>3, <1>4 DEF BalanceNext

(* What VBInv says of a proof.                                             *)
LEMMA ProvenIsInRange ==
  ASSUME VBInv, Proven
  PROVE  \A i \in Cells : values[i] < Bound
BY DEF VBInv, Proven, Cells

(* "Equality in the field therefore implies equality over the integers"
   (value_balance.rs): whatever a prover puts into the cells, what verifies
   has equal sums of numbers, each of them in range.                       *)
THEOREM VerifiedBalancesHolds == BalanceSpec => []VerifiedBalances
<1>1. ASSUME VBInv PROVE VerifiedBalances
  <2> SUFFICES ASSUME takenFor # {}
               PROVE  /\ Total(Inputs(values)) = Total(Outputs(values))
                      /\ \A i \in Cells : values[i] < LIMB^N_LIMBS
    BY DEF VerifiedBalances
  <2>1. Proven /\ \A i \in Cells : values[i] < Bound
    BY <1>1, ProvenIsInRange DEF VBInv
  <2>2. values \in [Cells -> Nat]
    BY <1>1, LimbSizes DEF VBInv
  <2>3. Total(Inputs(values)) = Total(Outputs(values))
    BY <2>1, <2>2, SumsDoNotWrap DEF Proven, BalanceGate
  <2> QED
    BY <2>1, <2>3 DEF Bound
<1> QED
  BY <1>1, InitVBInv, NextKeepsVBInv, PTL DEF BalanceSpec

(* check_witness "mirrors the in-circuit constraints" (prover.rs): it
   refuses no witness that has a proof, and what it lets pass the limbs that
   synthesize assigns do satisfy.                                          *)
THEOREM ProveRefusesExactlyHolds == BalanceSpec => []ProveRefusesExactly
<1>1. ASSUME VBInv PROVE ProveRefusesExactly
  <2> DEFINE code == check_witness(Inputs(values), Outputs(values))
             outside == \E v \in ToSet(Inputs(values) \o Outputs(values)) : v >= LIMB^N_LIMBS
             differ == Total(Inputs(values)) % PRIME # Total(Outputs(values)) % PRIME
  <2>1. values \in [Cells -> Nat]
    BY <1>1, LimbSizes DEF VBInv
  <2>2. outside <=> \E i \in Cells : values[i] >= Bound
    BY <2>1, InputsAndOutputs DEF Bound
  <2>3. code = IF outside THEN "ValueOutOfRange" ELSE IF differ THEN "Unbalanced" ELSE "Ok"
    BY DEF check_witness
  <2>4. code = "Ok" <=> ~outside /\ ~differ
    <3> HIDE DEF outside, differ
    <3> QED
      BY <2>3
  <2>5. outside <=> ~(\A i \in Cells : values[i] < Bound)
    <3>1. \A i \in Cells : values[i] \in Nat /\ Bound \in Nat
      BY <2>1, LimbSizes
    <3> HIDE DEF outside
    <3> QED
      BY <2>2, <3>1
  <2>6. BalanceGate(values) <=> ~differ
    BY DEF BalanceGate
  <2> HIDE DEF code, outside, differ
  <2>7. Proven => code = "Ok"
    BY <1>1, <2>4, <2>5, <2>6, ProvenIsInRange DEF Proven
  <2>8. ASSUME code = "Ok"
        PROVE  BalanceGate(values) /\ \A i \in Cells : DecomposeGate(values[i], Honest(values[i]))
    BY <2>1, <2>4, <2>5, <2>6, <2>8, HonestLimbsFit
  <2> QED
    BY <2>7, <2>8 DEF code, ProveRefusesExactly
<1> QED
  BY <1>1, InitVBInv, NextKeepsVBInv, PTL DEF BalanceSpec
=============================================================================
