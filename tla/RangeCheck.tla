----------------------------- MODULE RangeCheck -----------------------------
(***************************************************************************)
(* check_bits of src/circuit/range.rs, which every bound of the circuits   *)
(* comes from: a running sum takes words off a cell, each looked up in the *)
(* table of words, and what remains is 0 or has a short check.  Who proves *)
(* chooses each word and each rest; halo2's two lookups are external.      *)
(***************************************************************************)
EXTENDS Integers

CONSTANTS
  MODULUS,         (* the order of the field, a prime                      *)
  WORD_BITS,       (* of a row of the lookup table: 10                     *)
  Width            (* the widths that are asked for                        *)

VARIABLES
  cell, bits,      (* what is checked, and for which width                 *)
  z,               (* the running sum's last element                       *)
  taken,           (* the words taken off so far                           *)
  accepted

checkVars == <<cell, bits, z, taken, accepted>>

WORD == 2^WORD_BITS
Residue == 0..(MODULUS - 1)
words == bits \div WORD_BITS
extra == bits % WORD_BITS

(* Nothing a check compares reaches the order of the field.                *)
ASSUME ModulusAssumption ==
  /\ MODULUS \in Nat /\ WORD_BITS \in Nat \ {0} /\ Width \subseteq Nat
  /\ WORD * WORD <= MODULUS
  /\ \A b \in Width : 2^b <= MODULUS
(* The powers a check of some width meets are powers.                      *)
ASSUME WordAssumption ==
  \A b \in Width :
    /\ \A n \in 0..(b \div WORD_BITS) : WORD^n \in Nat \ {0} /\ WORD^(n + 1) = WORD^n * WORD
    /\ WORD^0 = 1
    /\ LET top == b % WORD_BITS
       IN  /\ {2^top, 2^(WORD_BITS - top)} \subseteq Nat \ {0}
           /\ 2^b = WORD^(b \div WORD_BITS) * 2^top
           /\ WORD = 2^top * 2^(WORD_BITS - top)

-----------------------------------------------------------------------------
(* Deviation: the bits that do not fill a word are looked up as a word.    *)
ShortCheckOfAWord(x, n) == x < WORD
(* copy_short_check: x is a word, and so it is when shifted to the top.    *)
ShortCheck(x, n) == x < WORD /\ (x * 2^(WORD_BITS - n)) % MODULUS < WORD

CheckInit ==
  /\ cell \in Residue /\ bits \in Width
  /\ z = cell /\ taken = 0 /\ accepted = FALSE

(* One row of copy_check: z = word + rest * 2^WORD_BITS.                   *)
TakeWord(word, rest) ==
  /\ taken < words
  /\ (word + rest * WORD - z) % MODULUS = 0
  /\ z' = rest /\ taken' = taken + 1
  /\ UNCHANGED <<cell, bits, accepted>>

(* A strict running sum ends at zero; else its last element is checked.    *)
Top == IF words > 0 /\ extra = 0 THEN z = 0 ELSE ShortCheck(z, extra)

Accept ==
  /\ taken = words /\ ~accepted /\ Top
  /\ accepted' = TRUE
  /\ UNCHANGED <<cell, bits, z, taken>>

CheckNext == (\E word \in 0..(WORD - 1), rest \in Residue : TakeWord(word, rest)) \/ Accept

CheckSpec == CheckInit /\ [][CheckNext]_checkVars

-----------------------------------------------------------------------------
(* "`cell < 2^bits`, exactly" (range.rs): no choice of words and rests makes
   a larger cell pass, of whole words or with bits that do not fill one.   *)
Pinned == accepted => cell < 2^bits
=============================================================================
