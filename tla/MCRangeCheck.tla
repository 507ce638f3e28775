---------------------------- MODULE MCRangeCheck ----------------------------
(***************************************************************************)
(* Every cell of the field of sixty-seven, words of three bits, widths up  *)
(* to two words: of whole words, of less than one, and of one and a part.  *)
(***************************************************************************)
EXTENDS RangeCheck
=============================================================================
