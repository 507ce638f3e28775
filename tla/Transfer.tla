------------------------------ MODULE Transfer ------------------------------
(***************************************************************************)
(* Shielded transfers of one community, end to end: the community server   *)
(* follows the chain for its users, builds and proves; the device reviews  *)
(* and signs; the server authorises; the node's ledger accepts or refuses. *)
(* Between any two of these steps anything else may happen: the clock runs,*)
(* other transfers and creations go through, the same notes are put into   *)
(* another transfer, a request or an answer of another session turns up,   *)
(* a bundle is handed in again.                                            *)
(***************************************************************************)
EXTENDS Signer

CONSTANTS
  User, Session,
  Community,        (* the community of this ledger                        *)
  Capacity,         (* bundle::ANCHOR_HISTORY                              *)
  Outputs(_),       (* the output lists a user may ask for                 *)
  CreationValue,    (* what a creation is worth                            *)
  MAX_CLOCK,        (* bound: the clock stops there                        *)
  MAX_LOG           (* bound: no creation after so many transactions       *)

(* Values are u64 and times count seconds.                                 *)
ASSUME AmountAssumption ==
  /\ {NumActions, CreationValue, TIME_LIMIT} \subseteq Nat
  /\ \A user \in User : \A outputs \in Outputs(user) :
       /\ outputs \in Seq({outputs[i] : i \in DOMAIN outputs})
       /\ \A i \in DOMAIN outputs : outputs[i].value \in Nat

VARIABLES
  clock,
  tree, roots, counts, nullifiers, outcome, log,    (* the ledger          *)
  chain,     (* What each accepted transaction published: its outputs.     *)
  wallets,   (* user -> [tree, notes]: the server's copy of the tree and   *)
             (* the notes it found for the user, [note, position].         *)
  sessions,  (* one transfer each                                          *)
  consents   (* history: what the devices reviewed and signed              *)

Node == INSTANCE Ledger WITH
  Commitment <- {}, Nullifier <- {}, Bundle <- {}, Sighash <- {},
  VerifyBundleCrypto <- verify_bundle_crypto

ledger == <<tree, roots, counts, nullifiers, outcome, log>>
vars == <<clock, ledger, chain, wallets, sessions, consents>>

Init ==
  /\ clock = 0
  /\ Node!Init
  /\ chain = <<<<>>>>
  /\ wallets = [user \in User |-> [tree |-> EmptyTree, notes |-> {}]]
  /\ sessions = [s \in Session |-> [stage |-> "idle"]]
  /\ consents = {}

Tick ==
  /\ clock < MAX_CLOCK
  /\ clock' = clock + 1
  /\ UNCHANGED <<ledger, chain, wallets, sessions, consents>>

(* The rseed of a creation is published with it, and may be any.           *)
Published == Fresh(<<>>, "rseed", 0)

(* What became public, if the ledger took the transaction.                 *)
Publish(outputs) ==
  chain' = IF outcome' = "Ok" THEN Append(chain, outputs) ELSE chain

(* A public creation.  The node computes the commitment from the published
   fields and the position the note will have (grdzk_creation_commitment).  *)
Create(user) ==
  LET note == from_parts(Community, CreationValue, clock, address_of(full_viewing_key(user)),
                         creation_rho(Community, Size(tree)), "none",
                         Published)
  IN  /\ Len(log) <= MAX_LOG
      /\ NoteError(CreationValue, clock) = "Ok"
      /\ Node!AddNote(commitment(note))
      /\ Publish(<<[cm |-> commitment(note), note |-> note]>>)
      /\ UNCHANGED <<clock, wallets, sessions, consents>>

(* find_notes: decryption finds the notes at the user's addresses, those of
   value 0 are dropped.                                                    *)
Mine(user, outputs) ==
  {i \in DOMAIN outputs : /\ owns(full_viewing_key(user), outputs[i].note.address)
                          /\ outputs[i].note.value > 0}
(* WalletTree::follow, for the next transaction.                           *)
Followed(walletTree, outputs, mine) ==
  LET cms == [i \in DOMAIN outputs |-> outputs[i].cm]
  IN  Checkpointed([AppendedAll(walletTree, cms) EXCEPT
                      !.marked = @ \cup {Size(walletTree) + i - 1 : i \in mine}])
(* Deviation: positions count from one.                                    *)
PositionsFromOne(walletTree, i) == Size(walletTree) + i
(* Where WalletTree::follow finds the i-th note of a transaction.          *)
Positions(walletTree, i) == Size(walletTree) + i - 1

Follow(user) ==
  LET walletTree == wallets[user].tree
      next       == walletTree.checkpoints + 2
      mine       == Mine(user, chain[next])
  IN  /\ next <= Len(chain)
      /\ wallets' = [wallets EXCEPT ![user] =
           [tree |-> Followed(walletTree, chain[next], mine),
            notes |-> @.notes \cup {[note |-> chain[next][i].note,
                                     position |-> Positions(walletTree, i)] : i \in mine}]]
      /\ UNCHANGED <<clock, ledger, chain, sessions, consents>>

(* The spend of a note: its path is the wallet tree's.                     *)
SpendInfo(user, owned) ==
  [fvk |-> full_viewing_key(user), note |-> owned.note, position |-> owned.position,
   path |-> Witness(wallets[user].tree, owned.position)]

(* The server builds a transfer out of notes the user was seen to own,
   against the root of its own copy of the tree.  A build that fails leaves
   nothing behind.                                                         *)
Build(s, user, spends, outputs) ==
  /\ sessions[s].stage = "idle"
  /\ \A i \in DOMAIN spends : HasWitness(wallets[user].tree, spends[i].position)
  /\ BuildError(Community, clock, spends, outputs) = "Ok"
  /\ sessions' = [sessions EXCEPT ![s] =
       [stage |-> "built", owner |-> user, answer |-> {},
        unauthorized |-> build(Community, TreeRoot(wallets[user].tree), clock, spends, outputs,
                               {full_viewing_key(user).ovk}, s)]]
  /\ UNCHANGED <<clock, ledger, chain, wallets, consents>>

(* The device of s's owner gets the body of s, with the openings of t and
   the rerandomisers of u: its own, or mixed up with another session's.
   What it refuses leaves nothing behind.                                  *)
Sign(s, t, u) ==
  /\ \A part \in {s, t, u} : sessions[part].stage = "built"
  /\ LET body    == TransferBody(sessions[s].unauthorized)
         request == [signing_request(sessions[t].unauthorized, body) EXCEPT
                       !.alphas = signing_request(sessions[u].unauthorized, body).alphas]
         user    == sessions[s].owner
     IN  /\ review_error(request, user, Community) = "Ok"
         /\ sessions' = [sessions EXCEPT ![s].answer = {sign(request, user)}]
         /\ consents' = consents \cup {[by |-> user, review |-> review(request, user)]}
  /\ UNCHANGED <<clock, ledger, chain, wallets>>

(* The server gets the device's answer to t and takes it for the one to s.
   authorize consumes the bundle: with a wrong answer the transfer is lost.*)
Authorize(s, t) ==
  /\ sessions[s].stage = "built" /\ sessions[t].stage = "built"
  /\ \E signatures \in sessions[t].answer :
       LET unauthorized == sessions[s].unauthorized
           sighash      == body_sighash(TransferBody(unauthorized))
       IN  sessions' = [sessions EXCEPT ![s] =
             IF authorize_error(unauthorized, sighash, signatures) = "Ok"
             THEN [stage |-> "ready", owner |-> @.owner, body |-> TransferBody(unauthorized),
                   bundle |-> authorize(unauthorized, sighash, signatures)]
             ELSE [stage |-> "lost"]]
  /\ UNCHANGED <<clock, ledger, chain, wallets, consents>>

(* A finished bundle reaches the node, for the first time or again.        *)
Apply(s) ==
  /\ sessions[s].stage = "ready"
  /\ LET bundle == sessions[s].bundle
     IN  /\ Node!Apply(bundle, body_sighash(sessions[s].body))
         /\ Publish([i \in DOMAIN bundle.actions |->
                       [cm |-> bundle.actions[i].cm,
                        note |-> bundle.actions[i].encrypted.plaintext]])
  /\ UNCHANGED <<clock, wallets, sessions, consents>>

(* The lists of one or two different notes of a user's wallet.             *)
SpendLists(user) ==
  LET infos == {SpendInfo(user, owned) : owned \in wallets[user].notes}
  IN  {<<spend>> : spend \in infos}
      \cup {<<pair[1], pair[2]>> : pair \in {p \in infos \X infos : p[1].position < p[2].position}}

Next ==
  \/ Tick
  \/ \E user \in User : Create(user) \/ Follow(user)
  \/ \E s \in Session, user \in User :
       \E spends \in SpendLists(user), outputs \in Outputs(user) :
         Build(s, user, spends, outputs)
  \/ \E s, t, u \in Session : Sign(s, t, u)
  \/ \E s, t \in Session : Authorize(s, t)
  \/ \E s \in Session : Apply(s)

Spec == Init /\ [][Next]_vars

-----------------------------------------------------------------------------
(* The note a nullifier is of; a padding note has no value.                *)
Spent(action) == action.nullifier.cm

(* Every note of the tree has a nullifier of its own, so that each can be
   spent: created notes take the spent note's nullifier as rho, creations
   their position (note.rs, creation_rho: "otherwise the second one could
   never be spent").                                                       *)
NullifiersDistinct ==
  LET leaves == tree.leaves
      Nf(i)  == nullifier(leaves[i].address.nk, leaves[i])
  IN  \A i, j \in DOMAIN leaves : Nf(i) = Nf(j) => i = j

(* A wallet's tree is one the ledger has had, and each note the wallet found
   stands in the ledger's tree at the place the wallet spends it from
   (WalletTree::follow, find_notes).                                       *)
WalletsFollowLedger ==
  \A user \in User :
    /\ TreeRoot(wallets[user].tree) = log[wallets[user].tree.checkpoints + 1].root
    /\ \A owned \in wallets[user].notes :
         /\ owned.position < Size(tree)
         /\ tree.leaves[owned.position + 1] = commitment(owned.note)

(* "The server cannot hide an output" (signer.rs): whatever a device signed,
   every note the signed body creates is worth nothing, or went into the
   change shown to the owner, or was shown as a payment with its address,
   value and memo.                                                         *)
SignedAsShown ==
  \A consent \in consents :
    LET shown   == consent.review
        created == [i \in DOMAIN shown.sighash.actions |-> shown.sighash.actions[i].cm]
        own     == {i \in DOMAIN created :
                     owns(full_viewing_key(consent.by), created[i].address)}
    IN  /\ \A i \in DOMAIN created \ own :
             created[i].value > 0 =>
               /\ i \in DOMAIN shown.payments
               /\ shown.payments[i] = [address |-> created[i].address,
                                       value |-> created[i].value,
                                       memo |-> created[i].memo_cm]
        /\ shown.change =
             Total([i \in DOMAIN created |-> IF i \in own THEN created[i].value ELSE 0])

(* No note of value is spent without its owner's device having reviewed
   exactly the body it is spent in.                                        *)
SpendsHaveConsent ==
  \A s \in Session : sessions[s].stage = "ready" /\ outcome = "Ok" =>
    LET body == sessions[s].body
    IN  \A i \in DOMAIN body.actions :
          LET note == Spent(body.actions[i])
          IN  note.value > 0 /\ body.actions[i].nullifier \in nullifiers =>
                \E consent \in consents :
                  consent.by = note.address.ak /\ consent.review.sighash = body

(* A transfer that was built, reviewed, signed and authorised is sound: the
   node refuses it only because of what happened meanwhile to the ledger.  *)
RefusedOnlyByLedger ==
  outcome \in {"Ok", "TreeFull", "UnknownAnchor", "DoubleSpend"}
=============================================================================
