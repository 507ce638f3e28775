--------------------------- MODULE SigningRequests ---------------------------
(***************************************************************************)
(* The way of a signing request from the server to the device: encode and  *)
(* decode of SigningRequest in src/signer.rs.  What is optional in the     *)
(* request is empty bytes on the way.                                      *)
(***************************************************************************)
EXTENDS Wire

CONSTANTS
  Address, Scalar,       (* atoms that decode as one                        *)
  MAX_REQUEST_SIZE, FREE_MEMO_SIZE, MEMO_LEN

(* Both kinds of a note have a number of their field.                      *)
RequestAssumption == Address \cup Scalar \subseteq Atom /\ WORD32 > 1
ASSUME RequestAssumption

OutputOpeningMessage ==
  <<Is("bytes"), Is("uint64"), Is("uint32"), Is("uint64"), Is("bytes"), Is("bytes"),
    Is("bytes"), Is("bytes"), Is("bytes")>>
SigningRequestMessage ==
  <<Is("bytes"), RepeatedOf(OutputOpeningMessage), Is("repeated bytes")>>

NoteKinds == <<"Normal", "Deferred">>

(* unwrap_or_default: the bytes of what is there, or none.                 *)
OrEmpty(option) == IF option = {} THEN <<>> ELSE CHOOSE bytes \in option : TRUE

encode_request(request) ==
  EncodeMessage(SigningRequestMessage,
    <<request.body,
      [i \in DOMAIN request.outputs |->
         LET o == request.outputs[i]
         IN  <<o.address, o.value, IF o.kind = "Normal" THEN 0 ELSE 1, o.expiry_epoch,
               o.rseed, o.memo_cm, o.free_memo,
               OrEmpty({memo.text : memo \in o.memo}),
               OrEmpty({memo.r_memo : memo \in o.memo})>>],
      [i \in DOMAIN request.alphas |-> OrEmpty(request.alphas[i])]>>)

-----------------------------------------------------------------------------
IsField(bytes) == bytes \in Element /\ LengthOf(bytes) = 32

(* Deviation: a memo without its randomness counts as no memo.             *)
MemoDecodesLeniently(o) ==
  \/ o[9] = <<>>
  \/ LengthOf(o[8]) = MEMO_LEN /\ IsField(o[9])
(* Text and randomness of a memo come together or not at all.              *)
MemoDecodes(o) ==
  \/ o[8] = <<>> /\ o[9] = <<>>
  \/ o[8] # <<>> /\ o[9] # <<>> /\ LengthOf(o[8]) = MEMO_LEN /\ IsField(o[9])

OpeningDecodes(o) ==
  /\ MemoDecodes(o)
  /\ o[1] \in Address
  /\ o[3] \in {0, 1}
  /\ LengthOf(o[5]) = 32
  /\ IsField(o[6])
  /\ LengthOf(o[7]) = FREE_MEMO_SIZE

(* decode returns Ok; every error is the same ReviewError::Request.        *)
request_decodes(bytes) ==
  /\ MessageError(SigningRequestMessage, bytes, MAX_REQUEST_SIZE) = "Ok"
  /\ LET message == DecodeMessage(SigningRequestMessage, bytes)
     IN  /\ \A i \in DOMAIN message[2] : OpeningDecodes(message[2][i])
         /\ \A i \in DOMAIN message[3] : message[3][i] \in Scalar \cup {<<>>}

decode_request(bytes) ==
  LET message == DecodeMessage(SigningRequestMessage, bytes)
  IN  [body |-> message[1],
       outputs |-> [i \in DOMAIN message[2] |->
         LET o == message[2][i]
         IN  [address |-> o[1], value |-> o[2], kind |-> NoteKinds[o[3] + 1],
              expiry_epoch |-> o[4], rseed |-> o[5], memo_cm |-> o[6], free_memo |-> o[7],
              memo |-> IF o[9] = <<>> THEN {}
                       ELSE {[text |-> o[8], r_memo |-> o[9]]}]],
       alphas |-> [i \in DOMAIN message[3] |-> {message[3][i]} \ {<<>>}]]
=============================================================================
