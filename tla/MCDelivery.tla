----------------------------- MODULE MCDelivery -----------------------------
(***************************************************************************)
(* Two users, one of whom needs a second rivk; months inside and outside a *)
(* year, two of which are the same byte; three notes published in any way, *)
(* or fewer and as many memos exchanged.  Senders use one key, exchangers  *)
(* two.  Texts are compared and nothing else.                              *)
(***************************************************************************)
EXTENDS Delivery, TLC

CONSTANTS u1, u2, text1, text2, key1, key2, community

MCZeroIvk(rivk) == rivk.sk = u1 /\ rivk.hashed < 1

Texts == Permutations(Text)
=============================================================================
