-------------------------------- MODULE Relay --------------------------------
(***************************************************************************)
(* Bytes on their way: a signing request from the server to the device, a  *)
(* body and its authorisation from the server to the node.  Between them   *)
(* is whoever passes them on, and may change fields at any depth.          *)
(*                                                                         *)
(* The node's own reader of a body is not in this repository; wire.rs says *)
(* of it that it replaces what prost merges.  Both are modelled.           *)
(***************************************************************************)
EXTENDS SigningRequests

CONSTANTS
  Sent,        (* what servers send: a bundle, its time and version, and the
                  request made for it                                       *)
  Number, Other,   (* what a changed field may have instead                 *)
  Added,       (* fields that may be added                                  *)
  MAX_EDITS    (* bound of the runs                                         *)

VARIABLES
  sent,
  body,            (* body_bytes of the transaction                         *)
  authorization,   (* the serialised ShieldedAuthorization beside it        *)
  request,         (* the encoded SigningRequest                            *)
  edits

relayVars == <<sent, body, authorization, request, edits>>

BodyOf(s) == encode_transfer_body(s.created_at, s.version_number,
                                  encode_shielded(s.bundle.anchor, s.bundle.actions))
RequestOf(s) == [body |-> BodyOf(s), outputs |-> s.outputs, alphas |-> s.alphas]

SentAction ==
  [cv_net : Point, nullifier : Element, rk : Point, cm : Element, epk : AtomOf(32),
   enc : AtomOf(ENC_CIPHERTEXT_SIZE), out : AtomOf(OUT_CIPHERTEXT_SIZE)]
SentBundle ==
  [anchor : Element, actions : [1..BUNDLE_ACTIONS -> SentAction], proof : AtomOf(PROOF_SIZE),
   spend_auth_sigs : [1..BUNDLE_ACTIONS -> AtomOf(64)], binding_sig : AtomOf(64)]
SentOpening ==
  [address : Address, value : 0..(WORD64 - 1), kind : {"Normal", "Deferred"},
   expiry_epoch : 0..(WORD64 - 1), rseed : AtomOf(32), memo_cm : Element,
   free_memo : AtomOf(FREE_MEMO_SIZE),
   memo : {{}} \cup {{memo} : memo \in [text : AtomOf(MEMO_LEN), r_memo : Element]}]
(* What is sent is whole, and its encodings are not too large.             *)
SentAssumption ==
  /\ {BUNDLE_ACTIONS, MAX_SHIELDED_BUNDLE_SIZE, MAX_AUTHORIZATION_SIZE, MAX_REQUEST_SIZE}
       \subseteq Nat
  /\ \A s \in Sent :
       /\ s \in [bundle : SentBundle, created_at : 0..(WORD64 - 1),
                 version_number : 0..(WORD32 - 1), outputs : Seq(SentOpening),
                 alphas : Seq({{}} \cup {{alpha} : alpha \in Scalar})]
       /\ LengthOf(encode_shielded(s.bundle.anchor, s.bundle.actions))
            \in 0..MAX_SHIELDED_BUNDLE_SIZE
       /\ LengthOf(encode_authorization(s.bundle)) \in 0..MAX_AUTHORIZATION_SIZE
       /\ LengthOf(encode_request(RequestOf(s))) \in 0..MAX_REQUEST_SIZE
ASSUME SentAssumption
(* Changes put in atoms, or no bytes.                                      *)
EditAssumption ==
  /\ Number \subseteq 0..(64 * WORD64 - 1) /\ Other \subseteq Atom \cup Message0
  /\ Added \subseteq FieldOf(Message0)
ASSUME EditAssumption

RelayInit ==
  /\ sent \in Sent
  /\ body = BodyOf(sent)
  /\ authorization = encode_authorization(sent.bundle)
  /\ request = encode_request(RequestOf(sent))
  /\ edits = 0

RelayTypeOK ==
  /\ sent \in Sent /\ edits \in Nat
  /\ body \in Message5 /\ authorization \in Message5 /\ request \in Message5

EditedField(field, inside) ==
  {[field EXCEPT !.extra = more] : more \in {1, EXCESS}}
  \cup IF field.type = "varint"
       THEN {[field EXCEPT !.number = n] : n \in Number}
       ELSE {[field EXCEPT !.bytes = b] : b \in Other \cup inside}
(* All that one change makes of a message: a field changed, dropped,
   repeated, swapped with the next, or added.  inside[i] is what it makes of
   the content of field i.                                                 *)
EditedBy(bytes, inside) ==
  {Append(bytes, field) : field \in Added}
  \cup (UNION {{RemoveAt(bytes, i), Append(bytes, bytes[i])}
               \cup {[bytes EXCEPT ![i] = field] : field \in EditedField(bytes[i], inside[i])}
                 : i \in DOMAIN bytes})
  \cup {[bytes EXCEPT ![i] = bytes[i + 1], ![i + 1] = bytes[i]] : i \in 1..(Len(bytes) - 1)}
Edited1(bytes) ==
  IF bytes \in Atom THEN {} ELSE EditedBy(bytes, [i \in DOMAIN bytes |-> {}])
Edited2(bytes) ==
  IF bytes \in Atom THEN {} ELSE EditedBy(bytes, [i \in DOMAIN bytes |-> Edited1(bytes[i].bytes)])
Edited3(bytes) ==
  IF bytes \in Atom THEN {} ELSE EditedBy(bytes, [i \in DOMAIN bytes |-> Edited2(bytes[i].bytes)])
Edited4(bytes) ==
  IF bytes \in Atom THEN {} ELSE EditedBy(bytes, [i \in DOMAIN bytes |-> Edited3(bytes[i].bytes)])
(* As deep as a request goes: its body, the bundle, an action, a part of it. *)
Edited(bytes) ==
  IF bytes \in Atom THEN {} ELSE EditedBy(bytes, [i \in DOMAIN bytes |-> Edited4(bytes[i].bytes)])

(* Requests and transactions go different ways: the runs look at either.    *)
EditBody ==
  /\ request = encode_request(RequestOf(sent))
  /\ body' \in Edited(body)
  /\ UNCHANGED <<authorization, request>>

EditAuthorization ==
  /\ request = encode_request(RequestOf(sent))
  /\ authorization' \in Edited(authorization)
  /\ UNCHANGED <<body, request>>

EditRequest ==
  /\ body = BodyOf(sent) /\ authorization = encode_authorization(sent.bundle)
  /\ request' \in Edited(request)
  /\ UNCHANGED <<body, authorization>>

RelayNext ==
  /\ edits < MAX_EDITS
  /\ edits' = edits + 1
  /\ EditBody \/ EditAuthorization \/ EditRequest
  /\ UNCHANGED sent

RelaySpec == RelayInit /\ [][RelayNext]_relayVars

-----------------------------------------------------------------------------
(* TransactionBody as a general reader has it, with the bundle inside.     *)
TransactionBody ==
  <<Is("repeated bytes"), MessageOf(TimestampSchema), Is("uint32"), Is("uint32"),
    Is("bytes"), MessageOf(ShieldedBundle)>>
GeneralReading(bytes, merges) ==
  Read3(TransactionBody, bytes, merges)

DeviceAccepts(bytes) ==
  /\ parse_transfer_body_error(bytes) = "Ok"
  /\ decode_shielded_error(parse_transfer_body(bytes).shielded) = "Ok"

(* "the node's parser and this one could see different anchors or
   nullifiers in the same bytes" (wire.rs): never in a body that the device
   accepts.  Whether a reader merges or replaces, it sees the same time,
   version, anchor and actions, a local transfer and nothing unknown, and
   wire::decode takes the bundle inside.  That is a reader which drops the
   bits of a varint above the 64th as the device does; one that refuses
   them, as prost does, sees the same or nothing.                          *)
ReadersAgree ==
  DeviceAccepts(body) =>
    LET device == parse_transfer_body(body)
        bundle == decode_shielded(device.shielded)
    IN  /\ Decodable3(TransactionBody, body, FALSE)
        /\ \A i \in DOMAIN body : body[i].tag \in DOMAIN TransactionBody
        /\ \A merges \in BOOLEAN :
             LET node == GeneralReading(body, merges)
             IN  /\ Len(node[1]) = device.memos
                 /\ node[2] = {<<device.created_at, 0>>}
                 /\ node[3] = device.version_number
                 /\ node[4] = 0 /\ node[5] = <<>>
                 /\ \A message \in node[6] : shielded_from_wire(message) = bundle
        /\ decode_error(device.shielded, encode_authorization(sent.bundle)) = "Ok"

(* "one bundle has exactly one encoding" (wire.rs): what decode takes is
   the encoding of what it returns, so that nobody can change the bytes of a
   transaction, the unsigned authorisation included, without changing what
   it says; and what was sent arrives.                                     *)
BundleHasOneEncoding ==
  \A shielded \in {BytesOf(body, SHIELDED_TRANSFER)} \ Atom :
    /\ authorization \notin Atom /\ decode_error(shielded, authorization) = "Ok" =>
         encode(decode(shielded, authorization)) = <<shielded, authorization>>
    /\ <<shielded, authorization>> = encode(sent.bundle) =>
         /\ decode_error(shielded, authorization) = "Ok"
         /\ decode(shielded, authorization) = sent.bundle

(* "canonical encoding and exact lengths only" (SigningRequest::decode):
   the device takes only what encode writes, with every optional part either
   whole or absent, and a request that arrives untouched is the one sent.  *)
RequestHasOneEncoding ==
  /\ request_decodes(request) => encode_request(decode_request(request)) = request
  /\ request = encode_request(RequestOf(sent)) =>
       request_decodes(request) /\ decode_request(request) = RequestOf(sent)
=============================================================================
