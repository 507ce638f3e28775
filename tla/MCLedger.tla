------------------------------ MODULE MCLedger ------------------------------
(***************************************************************************)
(* A ledger under every order of calls: a tree for MAX_NOTES notes, an     *)
(* anchor window of two, bundles over every anchor the tree can have had,  *)
(* and bundles that are malformed.  Signatures of a bundle are good under  *)
(* one sighash.                                                            *)
(***************************************************************************)
EXTENDS Ledger, TLC

CONSTANTS c1, c2, n1, n2, n3, n4, own, other

Action(nf, cm) == [nullifier |-> nf, cm |-> cm]

(* The anchors: every tree of at most three notes, which with a window of
   two covers those still accepted, those expired and those that never were. *)
Trees == UNION {[1..n -> Commitment] : n \in 0..3}

(* Two disjoint pairs of nullifiers, pairs that share one with either, and
   one nullifier twice.                                                    *)
NullifierPairs == {<<n1, n2>>, <<n3, n4>>, <<n2, n3>>, <<n4, n1>>, <<n1, n1>>}

WellFormed ==
  {[anchor |-> anchor,
    actions |-> <<Action(nf[1], c1), Action(nf[2], c2)>>,
    spend_auth_sigs |-> <<own, own>>] : anchor \in Trees, nf \in NullifierPairs}

Malformed ==
  {[anchor |-> <<>>, actions |-> <<Action(n1, c1)>>, spend_auth_sigs |-> <<own, own>>],
   [anchor |-> <<>>, actions |-> <<Action(n1, c1), Action(n2, c1)>>,
    spend_auth_sigs |-> <<own>>]}

MCBundle == WellFormed \cup Malformed

MCVerifyBundleCrypto(bundle, sighash) ==
  IF \A i \in DOMAIN bundle.spend_auth_sigs : bundle.spend_auth_sigs[i] = sighash
  THEN "Ok" ELSE "SpendAuth"
=============================================================================
