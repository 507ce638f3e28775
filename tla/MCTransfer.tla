----------------------------- MODULE MCTransfer -----------------------------
(***************************************************************************)
(* Two users, two transfers, two creations of the same value: a year has   *)
(* two seconds, a note of 4 is worth 3 after one and 2 after two of them.  *)
(***************************************************************************)
EXTENDS Transfer, TLC

CONSTANTS alice, bob, s1, s2

(* Neither users nor sessions are told apart by anything but their names.  *)
MCSymmetry == Permutations(User) \cup Permutations(Session)

MCPowers == <<3>>

Other(user) == CHOOSE u \in User : u # user

Output(user, value, memo) ==
  [address |-> address_of(full_viewing_key(user)), value |-> value,
   memo_cm |-> memo, memo |-> memo]

(* A payment with a memo, alone or with change.                            *)
MCOutputs(user) ==
  LET payments == {Output(Other(user), value, "thanks") : value \in {1, 3}}
      change   == {Output(user, value, "none") : value \in 1..4}
  IN  {<<payment>> : payment \in payments}
      \cup {<<payment, back>> : payment \in payments, back \in change}
=============================================================================
