----------------------------- MODULE MCNetValue -----------------------------
(***************************************************************************)
(* Values of three bits, timestamps of two, two kinds and two expiries; a  *)
(* value halves every second.  Both fields are the smallest in which no    *)
(* sum wraps around: the base field of 37, the scalar field of 17.         *)
(***************************************************************************)
EXTENDS NetValue

MCDecayed(value, duration) == IF duration > 3 THEN 0 ELSE value \div 2^duration
=============================================================================
