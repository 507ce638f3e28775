------------------------------ MODULE Bundles ------------------------------
(***************************************************************************)
(* Building, authorising and checking a shielded transfer: the functions   *)
(* of src/bundle.rs around the ledger, and src/signature.rs.  Whatever the *)
(* code draws at random is named by the seed of the call, what it is for   *)
(* and the action it is for: it never comes twice.                         *)
(***************************************************************************)
EXTENDS ActionCircuit, SequencesExt

CONSTANT NumActions          (* bundle::ACTIONS                            *)

Fresh(seed, what, i) == [seed |-> seed, what |-> what, action |-> i]

Total(values) == FoldLeft(LAMBDA a, b : a + b, 0, values)

(* The first element that is not "Ok".                                     *)
FirstError(results) ==
  LET bad == {i \in DOMAIN results : results[i] # "Ok"}
  IN  IF bad = {} THEN "Ok" ELSE results[CHOOSE i \in bad : \A j \in bad : i <= j]

-----------------------------------------------------------------------------
(* A spend: [fvk, note, position, path]; an output: [address, value,
   memo_cm, memo].  A memo commitment is the memo, "none" stands for zero
   and for no opening.                                                     *)
MemoMatches(memo, memo_cm) == memo = memo_cm

WorthUpTo(spends, i, now) == Total([j \in 1..i |-> Worth(spends[j].note, now)])
CreatedUpTo(outputs, i) == Total([j \in 1..i |-> outputs[j].value])

SpendError(community, now, spends, i) ==
  IF community \notin {spends[i].note.community} \cap {spends[i].note.coin_community}
  THEN "WrongCommunity"
  ELSE IF \E j \in 1..i : FromTheFuture(spends[j].note, now) THEN "NoteFromTheFuture"
  ELSE IF WorthUpTo(spends, i, now) >= U64 THEN "Overflow"
  ELSE "Ok"

OutputError(outputs, i) ==
  IF CreatedUpTo(outputs, i) >= U64 THEN "Overflow"
  ELSE IF ~MemoMatches(outputs[i].memo, outputs[i].memo_cm) THEN "MemoMismatch"
  ELSE "Ok"

(* build: every way it can fail, in its order.  The last one is from_parts
   of the new notes; the dummies' are valid.                               *)
BuildError(community, now, spends, outputs) ==
  IF Len(spends) > NumActions THEN "TooManySpends"
  ELSE IF Len(outputs) > NumActions THEN "TooManyOutputs"
  ELSE IF now >= TIME_LIMIT THEN "TimestampTooLarge"
  ELSE LET spend   == FirstError([i \in DOMAIN spends |-> SpendError(community, now, spends, i)])
           output  == FirstError([i \in DOMAIN outputs |-> OutputError(outputs, i)])
       IN  IF spend # "Ok" THEN spend
           ELSE IF output # "Ok" THEN output
           ELSE IF WorthUpTo(spends, Len(spends), now) # CreatedUpTo(outputs, Len(outputs))
           THEN "Unbalanced"
           ELSE FirstError([i \in DOMAIN outputs |-> NoteError(outputs[i].value, now)])

dummy_spend(community, now, seed, i) ==
  LET fvk == full_viewing_key(Fresh(seed, "dummy sk", i))
  IN  [fvk |-> fvk,
       note |-> from_parts(community, 0, now, address_of(fvk), Fresh(seed, "dummy rho", i),
                           "none", Fresh(seed, "dummy rseed", i)),
       position |-> 0,
       path |-> [tree |-> <<Fresh(seed, "path", i)>>, position |-> 0]]

dummy_output(seed, i) ==
  [address |-> address_of(full_viewing_key(Fresh(seed, "dummy address", i))),
   value |-> 0, memo_cm |-> "none", memo |-> "none"]

encrypt(note, ovk, cv_net) == [plaintext |-> note, ovk |-> ovk, cv_net |-> cv_net]

(* One action: what it publishes and what the builder keeps of it.         *)
Action(community, anchor, now, spend, output, ovk, seed, i) ==
  LET nf     == nullifier(spend.fvk.nk, spend.note)
      rseed  == Fresh(seed, "rseed", i)
      new    == from_parts(community, output.value, now, output.address, nf,
                           output.memo_cm, rseed)
      alpha  == Fresh(seed, "alpha", i)
      rcv    == Fresh(seed, "rcv", i)
      rk     == Rerandomized(spend.fvk.ak, alpha)
      cv_net == value_commitment(Worth(spend.note, now) - output.value, rcv)
  IN  [published |-> [cv_net |-> cv_net, nullifier |-> nf, rk |-> rk,
                      cm |-> commitment(new), encrypted |-> encrypt(new, ovk, cv_net)],
       proven |-> Statement(Instance(community, anchor, nf, rk, commitment(new), cv_net, now),
                            Witnessed(spend.note, spend.fvk, spend.position, spend.path,
                                      new, rcv, alpha)),
       alpha |-> alpha, rcv |-> rcv,
       opening |-> [address |-> output.address, value |-> output.value, rseed |-> rseed,
                    memo_cm |-> output.memo_cm, memo |-> output.memo]]

instances(community, anchor, now, actions) ==
  [i \in DOMAIN actions |->
     Instance(community, anchor, actions[i].nullifier, actions[i].rk, actions[i].cm,
              actions[i].cv_net, now)]

(* build, once nothing speaks against it: both sides are padded, then
   create_proof, which does not look whether the statement holds.  A key of
   dummy_asks is kept as a set of at most one.                             *)
build(community, anchor, now, spends, outputs, ovk, seed) ==
  LET spend(i)  == IF i <= Len(spends) THEN spends[i] ELSE dummy_spend(community, now, seed, i)
      output(i) == IF i <= Len(outputs) THEN outputs[i] ELSE dummy_output(seed, i)
      built     == [i \in 1..NumActions |->
                      Action(community, anchor, now, spend(i), output(i), ovk, seed, i)]
      actions   == [i \in 1..NumActions |-> built[i].published]
  IN  [anchor |-> anchor, now |-> now, community |-> community, actions |-> actions,
       proof |-> [of |-> instances(community, anchor, now, actions),
                  holds |-> \A i \in 1..NumActions : built[i].proven],
       alphas |-> [i \in 1..NumActions |-> built[i].alpha],
       rcvs |-> [i \in 1..NumActions |-> built[i].rcv],
       dummy_asks |-> [i \in 1..NumActions |->
                         IF i <= Len(spends) THEN {} ELSE {Fresh(seed, "dummy sk", i)}],
       outputs |-> [i \in 1..NumActions |-> built[i].opening]]

-----------------------------------------------------------------------------
(* Signatures name the key they verify under and what they cover.          *)
sign_spend_auth(ask, alpha, sighash) == [key |-> Rerandomized(ask, alpha), over |-> sighash]
(* Deviation: any signature will do.                                       *)
VerifyAnySignature(rk, sighash, signature) == TRUE
verify_spend_auth(rk, sighash, signature) == signature = [key |-> rk, over |-> sighash]

(* The sum of the net values has to vanish, or no one knows the key.       *)
sign_binding(rcvs, sighash) ==
  [key |-> value_commitment(0, {rcvs[i] : i \in DOMAIN rcvs}), over |-> sighash]
(* Deviation: only the first action has to balance.                        *)
BindingKeyOfFirst(actions) ==
  value_commitment(actions[1].cv_net.value, {actions[i].cv_net.rcv : i \in DOMAIN actions})
binding_verification_key(actions) ==
  value_commitment(Total([i \in DOMAIN actions |-> actions[i].cv_net.value]),
                   {actions[i].cv_net.rcv : i \in DOMAIN actions})
verify_binding(key, sighash, signature) == signature = [key |-> key, over |-> sighash]

(* The transaction body a bundle is put into, and the hash of it.          *)
TransferBody(unauthorized) ==
  [created_at |-> unauthorized.now, anchor |-> unauthorized.anchor,
   actions |-> unauthorized.actions]
body_sighash(body) == body

real_spends(unauthorized) ==
  {i \in DOMAIN unauthorized.actions : unauthorized.dummy_asks[i] = {}}

(* The place of action i in the device's signatures.                       *)
DeviceSig(unauthorized, device_sigs, i) ==
  device_sigs[Cardinality({j \in real_spends(unauthorized) : j <= i})]

authorize_error(unauthorized, sighash, device_sigs) ==
  IF Len(device_sigs) # Cardinality(real_spends(unauthorized)) THEN "SignatureCount"
  ELSE IF \E i \in real_spends(unauthorized) :
            ~verify_spend_auth(unauthorized.actions[i].rk, sighash,
                               DeviceSig(unauthorized, device_sigs, i))
  THEN "BadSignature"
  ELSE "Ok"

authorize(unauthorized, sighash, device_sigs) ==
  [anchor |-> unauthorized.anchor, now |-> unauthorized.now,
   community |-> unauthorized.community, actions |-> unauthorized.actions,
   proof |-> unauthorized.proof,
   spend_auth_sigs |->
     [i \in DOMAIN unauthorized.actions |->
        IF i \in real_spends(unauthorized) THEN DeviceSig(unauthorized, device_sigs, i)
        ELSE sign_spend_auth(CHOOSE ask \in unauthorized.dummy_asks[i] : TRUE,
                             unauthorized.alphas[i], sighash)],
   binding_sig |-> sign_binding(unauthorized.rcvs, sighash)]

(* Signatures before the proof: they are cheaper.                          *)
verify_bundle_crypto(bundle, sighash) ==
  IF Len(bundle.actions) # NumActions \/ Len(bundle.spend_auth_sigs) # NumActions
  THEN "WrongActionCount"
  ELSE IF \E i \in DOMAIN bundle.actions :
            ~verify_spend_auth(bundle.actions[i].rk, sighash, bundle.spend_auth_sigs[i])
  THEN "SpendAuth"
  ELSE IF ~verify_binding(binding_verification_key(bundle.actions), sighash, bundle.binding_sig)
  THEN "Binding"
  ELSE IF \/ bundle.proof.of # instances(bundle.community, bundle.anchor, bundle.now, bundle.actions)
          \/ ~bundle.proof.holds
  THEN "Proof"
  ELSE "Ok"
=============================================================================
