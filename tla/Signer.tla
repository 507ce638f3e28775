------------------------------- MODULE Signer -------------------------------
(***************************************************************************)
(* The device's side: src/signer.rs.  It holds the spending key, gets a    *)
(* request [body, outputs, alphas] and recomputes from it every note the   *)
(* body creates, before it signs the hash it computed from the body        *)
(* itself.  An alpha is kept as a set of at most one.                      *)
(***************************************************************************)
EXTENDS Bundles

signing_request(unauthorized, body) ==
  [body |-> body, outputs |-> unauthorized.outputs,
   alphas |-> [i \in DOMAIN unauthorized.actions |->
                 IF unauthorized.dummy_asks[i] = {} THEN {unauthorized.alphas[i]} ELSE {}]]

(* The note an opening opens to, in action i of the body.                  *)
OpenedNote(request, i, community) ==
  from_parts(community, request.outputs[i].value, request.body.created_at,
             request.outputs[i].address, request.body.actions[i].nullifier,
             request.outputs[i].memo_cm, request.outputs[i].rseed)

(* Deviation: the opening is not held against the body.                    *)
OpeningErrorUncommitted(request, i, sk, community) ==
  LET opening == request.outputs[i]
  IN  IF NoteError(opening.value, request.body.created_at) # "Ok" THEN "InvalidNote"
      ELSE IF ~MemoMatches(opening.memo, opening.memo_cm) THEN "MemoMismatch"
      ELSE "Ok"

(* The created note: commitment, ciphertexts, memo.                        *)
OpeningError(request, i, sk, community) ==
  LET opening == request.outputs[i]
      action  == request.body.actions[i]
      note    == OpenedNote(request, i, community)
  IN  IF NoteError(opening.value, request.body.created_at) # "Ok" THEN "InvalidNote"
      ELSE IF commitment(note) # action.cm THEN "CommitmentMismatch"
      ELSE IF action.encrypted # encrypt(note, {full_viewing_key(sk).ovk}, action.cv_net)
      THEN "CiphertextMismatch"
      ELSE IF ~MemoMatches(opening.memo, opening.memo_cm) THEN "MemoMismatch"
      ELSE "Ok"

(* The spend: only with our own key.                                       *)
SpendsWith(request, i, sk) ==
  \A alpha \in request.alphas[i] :
    request.body.actions[i].rk = Rerandomized(full_viewing_key(sk).ak, alpha)

Own(request, i, sk) == owns(full_viewing_key(sk), request.outputs[i].address)

ToSign(request) == {i \in DOMAIN request.alphas : request.alphas[i] # {}}

review_error(request, sk, community) ==
  IF Len(request.outputs) # NumActions THEN "WrongOutputCount"
  ELSE IF Len(request.alphas) # NumActions THEN "WrongAlphaCount"
  ELSE LET found == FirstError([i \in DOMAIN request.outputs |->
                      IF OpeningError(request, i, sk, community) # "Ok"
                      THEN OpeningError(request, i, sk, community)
                      ELSE IF ~SpendsWith(request, i, sk) THEN "ForeignSpend" ELSE "Ok"])
       IN  IF found # "Ok" THEN found
           ELSE IF ToSign(request) = {} THEN "NothingToSign"
           ELSE "Ok"

(* What the device shows: own notes are change, zeros are padding, the rest
   are payments, each in its action's place.                               *)
review(request, sk) ==
  LET outputs  == request.outputs
      payments == {i \in DOMAIN outputs : ~Own(request, i, sk) /\ outputs[i].value > 0}
  IN  [created_at |-> request.body.created_at,
       payments |-> [i \in payments |->
                       [address |-> outputs[i].address, value |-> outputs[i].value,
                        memo |-> outputs[i].memo]],
       change |-> Total([i \in DOMAIN outputs |->
                           IF Own(request, i, sk) THEN outputs[i].value ELSE 0]),
       sighash |-> body_sighash(request.body),
       spends |-> Cardinality(ToSign(request))]

(* sign, once the review holds: the signatures in action order.            *)
sign(request, sk) ==
  LET signature(i) == sign_spend_auth(sk, CHOOSE alpha \in request.alphas[i] : TRUE,
                                      body_sighash(request.body))
  IN  [k \in 1..Cardinality(ToSign(request)) |->
         signature(CHOOSE i \in ToSign(request) :
                     Cardinality({j \in ToSign(request) : j <= i}) = k)]
=============================================================================
