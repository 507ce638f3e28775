---------------------------- MODULE MCDecayChip ----------------------------
(***************************************************************************)
(* A year of 12 seconds in two windows of two bits, a word of 16, values   *)
(* up to 7 that three years use up, and timestamps over more than three    *)
(* years.  Checked cells may be twice a word, and the field has room for   *)
(* every product of two of them, as in the code.                           *)
(***************************************************************************)
EXTENDS DecayChip

(* 16 * 2^(-s/12) for s = 1, 2, 4, 8                                       *)
MCPowers == <<15, 14, 13, 10>>
=============================================================================
