------------------------------ MODULE Protobuf ------------------------------
(***************************************************************************)
(* Protocol Buffers as far as src/wire.rs and src/signer.rs rely on them:  *)
(* what a message is on the wire, what prost reads in it and writes for    *)
(* it, and what a reader does that replaces repeated sub-messages instead  *)
(* of merging them, as "pbtools" on the C side does (wire.rs, header).     *)
(*                                                                         *)
(* Bytes are an atom, which is not a message, or a sequence of fields; the *)
(* empty sequence stands for no bytes.  Extra bytes of a field are those   *)
(* that one of its varints (key, length or number) has more than it needs: *)
(* a zero behind it, or as many as make a varint of ten bytes with a bit   *)
(* above the 64th, which prost refuses and read_varint (wire.rs) drops.    *)
(*                                                                         *)
(* A reader or a writer of nested messages is made of the one for a level  *)
(* less, as prost derives a message's from those of its fields: the number *)
(* in a name is that of the levels it goes down.                           *)
(***************************************************************************)
EXTENDS Naturals, SequencesExt

CONSTANTS
  Atom,        (* strings of bytes that are not messages                   *)
  Length(_),   (* of an atom                                               *)
  WORD32, WORD64   (* 2^32, 2^64                                           *)

(* Ten bytes where one was enough, the tenth above 1.                      *)
EXCESS == 9
(* Ten bytes of a varint hold 70 bits.                                     *)
FieldOf(contents) ==
  [tag : Nat, type : {"varint", "bytes"}, number : 0..(64 * WORD64 - 1),
   bytes : Atom \cup contents, extra : {0, 1, EXCESS}]
Varint(tag, number) ==
  [tag |-> tag, type |-> "varint", number |-> number, bytes |-> <<>>, extra |-> 0]
Bytes(tag, bytes) ==
  [tag |-> tag, type |-> "bytes", number |-> 0, bytes |-> bytes, extra |-> 0]

(* Messages with so many levels of fields, or fewer.                       *)
Message0 == {<<>>}
Message1 == Seq(FieldOf(Message0))
Message2 == Seq(FieldOf(Message1))
Message3 == Seq(FieldOf(Message2))
Message4 == Seq(FieldOf(Message3))
Message5 == Seq(FieldOf(Message4))

(* Key and length of a field count as three bytes: the sum over the fields
   of each level, from the first down.                                     *)
LengthOf(bytes) ==
  LET Content(field) == IF field.bytes \in Atom THEN <<>> ELSE field.bytes
      Own(field) == 3 + field.extra + (IF field.bytes \in Atom THEN Length(field.bytes) ELSE 0)
      level[n \in Nat] ==
        IF n = 0 THEN bytes
        ELSE LET above == level[n - 1]
             IN  FlattenSeq([i \in DOMAIN above |-> Content(above[i])])
      from[n \in Nat] ==
        LET fields == level[n]
        IN  IF fields = <<>> THEN 0
            ELSE FoldLeft(LAMBDA sum, field : sum + Own(field), 0, fields) + from[n + 1]
  IN  IF bytes \in Atom THEN Length(bytes) ELSE from[0]

(* read_varint: the tenth byte is shifted by 63, and what does not fit is
   gone.  The varints that prost takes are below that.                     *)
ReadVarint(number) == number % WORD64

(* The fields of one tag, in their order; of a singular field the last one
   counts.                                                                 *)
Fields(bytes, tag) ==
  FlattenSeq([i \in DOMAIN bytes |-> IF bytes[i].tag = tag THEN <<bytes[i]>> ELSE <<>>])
LastNumber(fields) == IF fields = <<>> THEN 0 ELSE ReadVarint(Last(fields).number)
LastBytes(fields) == IF fields = <<>> THEN <<>> ELSE Last(fields).bytes
NumberOf(bytes, tag) == LastNumber(Fields(bytes, tag))
BytesOf(bytes, tag) == LastBytes(Fields(bytes, tag))

-----------------------------------------------------------------------------
(* A schema is a function from tags to what a field is.                    *)
Is(what) == [is |-> what]
MessageOf(schema) == [is |-> "message", of |-> schema]
RepeatedOf(schema) == [is |-> "repeated", of |-> schema]

IsNumber(field) == field.is \in {"uint32", "uint64"}
IsNested(field) == field.is \in {"message", "repeated"}

(* What happens to the messages inside one: values are what is there.      *)
Inside(schema, values, Of(_, _)) ==
  [tag \in DOMAIN schema |->
     CASE schema[tag].is = "message" -> {Of(schema[tag].of, v) : v \in values[tag]}
       [] schema[tag].is = "repeated" ->
            [i \in DOMAIN values[tag] |-> Of(schema[tag].of, values[tag][i])]
       [] OTHER -> values[tag]]

(* Every field has varints of 64 bits, as prost wants it of those that it
   does not know as well.                                                  *)
VarintsFit(bytes) ==
  \A i \in DOMAIN bytes : bytes[i].number < WORD64 /\ bytes[i].extra # EXCESS

(* decode gives no error: what it knows has the right wire type.  A strict
   reader, as prost is one, refuses varints of more than 64 bits.          *)
Decodable1(schema, bytes, strict) ==
  /\ bytes \notin Atom
  /\ strict => VarintsFit(bytes)
  /\ \A i \in DOMAIN bytes :
       bytes[i].tag \in DOMAIN schema =>
         bytes[i].type = IF IsNumber(schema[bytes[i].tag]) THEN "varint" ELSE "bytes"
Nested(schema, bytes) ==
  {i \in DOMAIN bytes : bytes[i].tag \in DOMAIN schema /\ IsNested(schema[bytes[i].tag])}
Decodable2(schema, bytes, strict) ==
  /\ Decodable1(schema, bytes, strict)
  /\ \A i \in Nested(schema, bytes) : Decodable1(schema[bytes[i].tag].of, bytes[i].bytes, strict)
Decodable3(schema, bytes, strict) ==
  /\ Decodable1(schema, bytes, strict)
  /\ \A i \in Nested(schema, bytes) : Decodable2(schema[bytes[i].tag].of, bytes[i].bytes, strict)

(* What a reader makes of the fields of one tag.  A sub-message that occurs
   again is merged into the first, as prost does: this comes to reading
   their bytes one behind the other; or it replaces the first, as on the C
   side.                                                                   *)
ValueOf(field, fields, merges) ==
  LET contents == [i \in DOMAIN fields |-> fields[i].bytes]
  IN  CASE field.is = "uint32" -> LastNumber(fields) % WORD32
        [] field.is = "uint64" -> LastNumber(fields)
        [] field.is = "bytes" -> LastBytes(fields)
        [] field.is \in {"repeated bytes", "repeated"} -> contents
        [] field.is = "message" ->
             IF fields = <<>> THEN {}
             ELSE {IF merges THEN FlattenSeq(contents) ELSE LastBytes(fields)}

(* The message that bytes decode to: unknown fields are skipped.           *)
Read1(schema, bytes, merges) ==
  [tag \in DOMAIN schema |-> ValueOf(schema[tag], Fields(bytes, tag), merges)]
Read2(schema, bytes, merges) ==
  Inside(schema, Read1(schema, bytes, merges), LAMBDA of, b : Read1(of, b, merges))
Read3(schema, bytes, merges) ==
  Inside(schema, Read1(schema, bytes, merges), LAMBDA of, b : Read2(of, b, merges))

(* prost: Message::decode.                                                 *)
DecodeMessage(schema, bytes) == Read2(schema, bytes, TRUE)

(* What a writer makes of one value: defaults are left out.                *)
FieldsFor(field, tag, value) ==
  CASE IsNumber(field) -> IF value = 0 THEN <<>> ELSE <<Varint(tag, value)>>
    [] field.is = "bytes" -> IF value = <<>> THEN <<>> ELSE <<Bytes(tag, value)>>
    [] field.is \in {"repeated bytes", "repeated"} ->
         [i \in DOMAIN value |-> Bytes(tag, value[i])]
    [] field.is = "message" ->
         IF value = {} THEN <<>> ELSE <<Bytes(tag, CHOOSE b \in value : TRUE)>>

(* In tag order.                                                           *)
Write1(schema, message) ==
  FlattenSeq([tag \in 1..Max(DOMAIN schema) |->
                IF tag \in DOMAIN schema THEN FieldsFor(schema[tag], tag, message[tag])
                ELSE <<>>])

(* prost: Message::encode_to_vec.                                          *)
EncodeMessage(schema, message) == Write1(schema, Inside(schema, message, Write1))
=============================================================================
