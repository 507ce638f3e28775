--------------------------- MODULE MCSkeletonFfi ---------------------------
(***************************************************************************)
(* Two threads, with values that balance, that do not, that only do in the *)
(* field, that are out of range or no field elements, and too few of them. *)
(***************************************************************************)
EXTENDS SkeletonFfi

CONSTANTS t1, t2, a1, a2

MCWitness ==
  {[inputs |-> <<3, 1>>, outputs |-> <<2, 2>>], [inputs |-> <<3, 1>>, outputs |-> <<3, 2>>],
   [inputs |-> <<0, 3>>, outputs |-> <<8, 6>>], [inputs |-> <<3, 12>>, outputs |-> <<2, 2>>],
   [inputs |-> <<3, 1>>, outputs |-> <<3>>]}
=============================================================================
