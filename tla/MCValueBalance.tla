--------------------------- MODULE MCValueBalance ---------------------------
(***************************************************************************)
(* Every assignment of two inputs and two outputs in the field of eleven,  *)
(* with values of two bits in two limbs.                                   *)
(***************************************************************************)
EXTENDS ValueBalance
=============================================================================
