-------------------------------- MODULE Wire --------------------------------
(***************************************************************************)
(* src/wire.rs: a bundle and the body of its transaction as bytes.  What   *)
(* "strict" means is the whole point: the server, the device and the node  *)
(* read the same bytes with different parsers.                             *)
(***************************************************************************)
EXTENDS Protobuf

CONSTANTS
  Element, Point,       (* atoms that are canonical, points not the identity *)
  BUNDLE_ACTIONS, CIRCUIT_VERSION, PROOF_SIZE, ENC_CIPHERTEXT_SIZE, OUT_CIPHERTEXT_SIZE,
  TIMESTAMP_LIMIT,      (* 2^TIMESTAMP_BITS                                *)
  MAX_SHIELDED_BUNDLE_SIZE, MAX_AUTHORIZATION_SIZE

AtomOf(size) == {atom \in Atom : Length(atom) = size}

(* An atom is not a message.                                               *)
AtomAssumption == \A atom \in Atom : atom \notin Message5
ASSUME AtomAssumption
(* Elements and points have 32 bytes, the version fits its field.          *)
WireAssumption ==
  /\ Element \cup Point \subseteq AtomOf(32)
  /\ WORD64 \in Nat /\ WORD32 \in 0..WORD64 /\ CIRCUIT_VERSION \in 0..(WORD32 - 1)
ASSUME WireAssumption

AnchorSchema == <<Is("bytes"), Is("uint32")>>
ActionSchema == [tag \in 1..7 |-> Is("bytes")]
ShieldedBundle ==
  <<MessageOf(AnchorSchema), RepeatedOf(ActionSchema), Is("bytes"), Is("uint32")>>
ShieldedAuthorization == <<Is("bytes"), Is("repeated bytes"), Is("bytes")>>
TimestampSchema == <<Is("uint64"), Is("uint32")>>
LocalTransferBody ==
  [tag \in {2, 3, 6} |-> CASE tag = 2 -> MessageOf(TimestampSchema)
                           [] tag = 3 -> Is("uint32")
                           [] tag = 6 -> Is("bytes")]

-----------------------------------------------------------------------------
(* An action in the order of its tags: cv, nullifier, rk, cm_x, epk and the
   two ciphertexts.                                                        *)
shielded_to_wire(anchor, actions) ==
  <<{<<anchor, 0>>},
    [i \in DOMAIN actions |->
       LET a == actions[i]
       IN  <<a.cv_net, a.nullifier, a.rk, a.cm, a.epk, a.enc, a.out>>],
    <<>>, CIRCUIT_VERSION>>
encode_shielded(anchor, actions) ==
  EncodeMessage(ShieldedBundle, shielded_to_wire(anchor, actions))
encode_authorization(bundle) ==
  EncodeMessage(ShieldedAuthorization,
                <<bundle.proof, bundle.spend_auth_sigs, bundle.binding_sig>>)
encode(bundle) ==
  <<encode_shielded(bundle.anchor, bundle.actions), encode_authorization(bundle)>>

-----------------------------------------------------------------------------
base(bytes) ==
  IF LengthOf(bytes) # 32 THEN "WrongLength"
  ELSE IF bytes \notin Element THEN "NotCanonical" ELSE "Ok"
point(bytes) ==
  IF LengthOf(bytes) # 32 THEN "WrongLength"
  ELSE IF bytes \notin Point THEN "NotCanonical" ELSE "Ok"
exactly(size, bytes) == IF LengthOf(bytes) # size THEN "WrongLength" ELSE "Ok"

(* The first error of a list of checks.                                    *)
FirstOf(results) ==
  IF \A i \in DOMAIN results : results[i] = "Ok" THEN "Ok"
  ELSE results[CHOOSE i \in DOMAIN results :
                 results[i] # "Ok" /\ \A j \in 1..(i - 1) : results[j] = "Ok"]

ActionError(a) ==
  FirstOf(<<exactly(ENC_CIPHERTEXT_SIZE, a[6]), exactly(OUT_CIPHERTEXT_SIZE, a[7]),
            base(a[4]), point(a[1]), base(a[2]), point(a[3]), exactly(32, a[5])>>)

(* Deviation: the tree epoch is not looked at.                             *)
AnchorErrorAnyEpoch(anchors) == IF anchors = {} THEN "MissingAnchor" ELSE "Ok"
AnchorError(anchors) ==
  IF anchors = {} THEN "MissingAnchor"
  ELSE IF \E anchor \in anchors : anchor[2] # 0 THEN "UnsupportedTreeEpoch" ELSE "Ok"

AnchorOf(anchors) == (CHOOSE anchor \in anchors : TRUE)[1]

(* What shielded_from_wire returns an error for, in its order.             *)
shielded_error(message) ==
  IF message[4] # CIRCUIT_VERSION THEN "WrongCircuitVersion"
  ELSE IF message[3] # <<>> THEN "CrossCommunityNotSupported"
  ELSE IF Len(message[2]) # BUNDLE_ACTIONS THEN "WrongActionCount"
  ELSE IF AnchorError(message[1]) # "Ok" THEN AnchorError(message[1])
  ELSE FirstOf([i \in DOMAIN message[2] |-> ActionError(message[2][i])]
               \o <<base(AnchorOf(message[1]))>>)

shielded_from_wire(message) ==
  [anchor |-> AnchorOf(message[1]),
   actions |-> [i \in DOMAIN message[2] |->
     LET a == message[2][i]
     IN  [cv_net |-> a[1], nullifier |-> a[2], rk |-> a[3], cm |-> a[4],
          epk |-> a[5], enc |-> a[6], out |-> a[7]]]]

(* What from_wire adds for the authorisation.                              *)
authorization_error(message) ==
  IF Len(message[2]) # BUNDLE_ACTIONS THEN "WrongActionCount"
  ELSE FirstOf(<<exactly(PROOF_SIZE, message[1])>>
               \o [i \in DOMAIN message[2] |-> exactly(64, message[2][i])]
               \o <<exactly(64, message[3])>>)

(* Deviation: any encoding of a message will do.                           *)
MessageErrorLenient(schema, bytes, limit) ==
  IF LengthOf(bytes) > limit THEN "TooLarge"
  ELSE IF ~Decodable2(schema, bytes, TRUE) THEN "Protobuf" ELSE "Ok"
(* The size, prost, and the comparison with the canonical encoding.        *)
MessageError(schema, bytes, limit) ==
  IF LengthOf(bytes) > limit THEN "TooLarge"
  ELSE IF ~Decodable2(schema, bytes, TRUE) THEN "Protobuf"
  ELSE IF EncodeMessage(schema, DecodeMessage(schema, bytes)) # bytes THEN "NotCanonical"
  ELSE "Ok"

decode_shielded_error(bytes) ==
  LET parsed == MessageError(ShieldedBundle, bytes, MAX_SHIELDED_BUNDLE_SIZE)
  IN  IF parsed # "Ok" THEN parsed
      ELSE shielded_error(DecodeMessage(ShieldedBundle, bytes))
decode_shielded(bytes) == shielded_from_wire(DecodeMessage(ShieldedBundle, bytes))

decode_error(shielded, authorization) ==
  IF LengthOf(authorization) > MAX_AUTHORIZATION_SIZE THEN "TooLarge"
  ELSE LET sealed == MessageError(ShieldedBundle, shielded, MAX_SHIELDED_BUNDLE_SIZE)
           auth == MessageError(ShieldedAuthorization, authorization, MAX_AUTHORIZATION_SIZE)
       IN  IF sealed # "Ok" THEN sealed
           ELSE IF auth # "Ok" THEN auth
           ELSE FirstOf(<<shielded_error(DecodeMessage(ShieldedBundle, shielded)),
                          authorization_error(DecodeMessage(ShieldedAuthorization, authorization))>>)
decode(shielded, authorization) ==
  LET message == DecodeMessage(ShieldedAuthorization, authorization)
      parts == decode_shielded(shielded)
  IN  [anchor |-> parts.anchor, actions |-> parts.actions, proof |-> message[1],
       spend_auth_sigs |-> message[2], binding_sig |-> message[3]]

-----------------------------------------------------------------------------
(* The body as the device reads it: exactly the fields of a local shielded
   transfer.                                                               *)
MEMOS == 1
CREATED_AT == 2
VERSION_NUMBER == 3
TYPE == 4
OTHER_COMMUNITY_UUID == 5
SHIELDED_TRANSFER == 6

Known(field) ==
  \/ field.type = "bytes" /\ field.tag \in {MEMOS, CREATED_AT, OTHER_COMMUNITY_UUID, SHIELDED_TRANSFER}
  \/ field.type = "varint" /\ field.tag \in {VERSION_NUMBER, TYPE}

parse_timestamp_error(bytes) ==
  IF bytes \in Atom THEN "Protobuf"
  ELSE IF \/ \E i \in DOMAIN bytes : bytes[i].type # "varint" \/ bytes[i].tag \notin {1, 2}
          \/ \E i, j \in DOMAIN bytes : i # j /\ bytes[i].tag = bytes[j].tag
          \/ NumberOf(bytes, 2) # 0
          \/ NumberOf(bytes, 1) >= TIMESTAMP_LIMIT
       THEN "NotCanonical" ELSE "Ok"

(* Deviation: of a field that comes twice the last one is taken.           *)
OnceOrMore(bytes, i) == TRUE
(* No earlier field of the same tag.                                       *)
Once(bytes, i) == \A j \in 1..(i - 1) : bytes[j].tag # bytes[i].tag

FieldError(body, i) ==
  LET field == body[i]
      duplicate == IF field.tag = MEMOS \/ Once(body, i) THEN "Ok" ELSE "NotCanonical"
  IN  IF ~Known(field) THEN "UnsupportedBody"
      ELSE CASE field.tag = CREATED_AT ->
                  FirstOf(<<parse_timestamp_error(field.bytes), duplicate>>)
             [] field.tag = VERSION_NUMBER ->
                  IF ReadVarint(field.number) >= WORD32 THEN "Protobuf" ELSE duplicate
             [] OTHER -> duplicate

parse_transfer_body_error(body) ==
  IF body \in Atom THEN "Protobuf"
  ELSE LET inside == FirstOf([i \in DOMAIN body |-> FieldError(body, i)])
       IN  IF inside # "Ok" THEN inside
           ELSE IF NumberOf(body, TYPE) # 0 \/ BytesOf(body, OTHER_COMMUNITY_UUID) # <<>>
           THEN "CrossCommunityNotSupported"
           ELSE IF \/ Fields(body, CREATED_AT) = <<>>
                   \/ Fields(body, SHIELDED_TRANSFER) = <<>>
           THEN "MissingField" ELSE "Ok"

parse_transfer_body(body) ==
  [created_at |-> NumberOf(BytesOf(body, CREATED_AT), 1),
   version_number |-> NumberOf(body, VERSION_NUMBER),
   shielded |-> BytesOf(body, SHIELDED_TRANSFER),
   memos |-> Len(Fields(body, MEMOS))]

encode_transfer_body(created_at, version_number, shielded) ==
  EncodeMessage(LocalTransferBody,
    [tag \in {2, 3, 6} |-> CASE tag = 2 -> {<<created_at, 0>>}
                             [] tag = 3 -> version_number
                             [] tag = 6 -> shielded])
=============================================================================
