----------------------------- MODULE MCNodeFfi -----------------------------
(***************************************************************************)
(* A tree for four notes, a window of two anchors; bundles under the empty *)
(* tree or after one creation, that share a nullifier, share none, repeat  *)
(* one or are of another length; creations of the same fields, and one that *)
(* no note can be made of.                                                 *)
(***************************************************************************)
EXTENDS NodeFfi

CONSTANTS creation, unopenable, n1, n2, n3, n4, c1, c2, own, other

Action(nf, cm) == [nullifier |-> nf, cm |-> [note |-> cm]]

AfterOne == <<[creation |-> creation, rho |-> 0]>>

Transfer(anchor, nf1, nf2) ==
  [anchor |-> anchor, actions |-> <<Action(nf1, c1), Action(nf2, c2)>>,
   spend_auth_sigs |-> <<own, own>>]

MCBundle ==
  {Transfer(anchor, nfs[1], nfs[2]) :
     anchor \in {<<>>, AfterOne}, nfs \in {<<n1, n2>>, <<n2, n3>>}}
  \cup {Transfer(AfterOne, n3, n4), Transfer(<<>>, n1, n1),
        [anchor |-> <<>>, actions |-> <<Action(n3, c1)>>, spend_auth_sigs |-> <<own>>]}

MCOpenable(fields) == fields # unopenable

MCVerifyBundleCrypto(bundle, sighash) ==
  IF \A i \in DOMAIN bundle.spend_auth_sigs : bundle.spend_auth_sigs[i] = sighash
  THEN "Ok" ELSE "SpendAuth"
=============================================================================
