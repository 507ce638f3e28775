---------------------------- MODULE ShieldedLog ----------------------------
(***************************************************************************)
(* What a node's ledger promises, without its data structures: a log of    *)
(* the accepted transactions.  An anchor is good if it is the root after   *)
(* one of the last Capacity transactions, a nullifier is spent if some     *)
(* transaction of the log shows it, and a call either adds one whole       *)
(* transaction or leaves the log alone.                                    *)
(***************************************************************************)
EXTENDS Naturals, Sequences

CONSTANTS
  Commitment, Bundle, Sighash,
  VerifyBundleCrypto(_, _),   (* proof and signatures of a bundle          *)
  NumActions,                 (* actions per bundle                        *)
  MAX_NOTES,                  (* leaves of the tree                        *)
  Capacity                    (* roots that may be used as anchors         *)

VARIABLES
  log,       (* Entries [nfs, root, under]: the nullifiers a transaction   *)
             (* showed, the tree after it, and the anchor it used, if any. *)
             (* The first is the empty ledger.                             *)
  accepted   (* Whether the last call added its transaction.               *)

logVars == <<log, accepted>>

Entry(nfs, root, under) == [nfs |-> nfs, root |-> root, under |-> under]
Genesis == Entry(<<>>, <<>>, {})

LastRoot == log[Len(log)].root
RecentRoots == {log[i].root : i \in {j \in DOMAIN log : j + Capacity > Len(log)}}
SpentIn(entry) == {entry.nfs[i] : i \in DOMAIN entry.nfs}
Spent == UNION {SpentIn(log[i]) : i \in DOMAIN log}

Nullifiers(bundle) == [i \in DOMAIN bundle.actions |-> bundle.actions[i].nullifier]
Commitments(bundle) == [i \in DOMAIN bundle.actions |-> bundle.actions[i].cm]

Acceptable(bundle, sighash) ==
  /\ Len(bundle.actions) = NumActions
  /\ Len(bundle.spend_auth_sigs) = NumActions
  /\ Len(LastRoot) + NumActions <= MAX_NOTES
  /\ bundle.anchor \in RecentRoots
  /\ \A i, j \in DOMAIN bundle.actions :
       bundle.actions[i].nullifier = bundle.actions[j].nullifier => i = j
  /\ \A i \in DOMAIN bundle.actions : bundle.actions[i].nullifier \notin Spent
  /\ VerifyBundleCrypto(bundle, sighash) = "Ok"

Init ==
  /\ log = <<Genesis>>
  /\ accepted = TRUE

AddNote(cm) ==
  /\ accepted' = (Len(LastRoot) + 1 <= MAX_NOTES)
  /\ log' = IF accepted' THEN Append(log, Entry(<<>>, Append(LastRoot, cm), {})) ELSE log

Apply(bundle, sighash) ==
  /\ accepted' = Acceptable(bundle, sighash)
  /\ log' = IF accepted'
            THEN Append(log, Entry(Nullifiers(bundle), LastRoot \o Commitments(bundle),
                                   {bundle.anchor}))
            ELSE log

Next ==
  \/ \E cm \in Commitment : AddNote(cm)
  \/ \E bundle \in Bundle, sighash \in Sighash : Apply(bundle, sighash)

Spec == Init /\ [][Next]_logVars
=============================================================================
