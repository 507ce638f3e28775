------------------------------- MODULE Notes -------------------------------
(***************************************************************************)
(* The shielded note of src/note.rs and its two hashes, and the keys of    *)
(* src/keys.rs it is owned with.  Hashes have no collisions, so a hash is  *)
(* the record of what it hashes: a note commitment is the note's committed *)
(* fields.  note_kind, expiry and the diversifier are carried by notes but *)
(* looked at by no step modelled here, and left out; psi and rcm come from *)
(* rseed and rho, which stand for them.                                    *)
(***************************************************************************)
EXTENDS Decay

CONSTANT TIME_LIMIT          (* timestamps are below: 2^40                 *)

U64 == 2 * VALUE_LIMIT       (* a u64 is below: 2^64                       *)

(* from_parts: the checks, in their order, and the note.                   *)
NoteError(value, t_note) ==
  IF value >= VALUE_LIMIT THEN "ValueTooLarge"
  ELSE IF t_note >= TIME_LIMIT THEN "TimestampTooLarge"
  ELSE "Ok"

from_parts(community, value, t_note, address, rho, memo_cm, rseed) ==
  [community |-> community, coin_community |-> community, value |-> value,
   t_note |-> t_note, address |-> address, rho |-> rho, memo_cm |-> memo_cm,
   rseed |-> rseed]

commitment(note) == note
nullifier(nk, note) == [nk |-> nk, rho |-> note.rho, cm |-> commitment(note)]

(* Deviation: creations of a community share their rho.                    *)
CreationRhoWithoutPosition(community, position) == [created |-> community, at |-> 0]
(* rho of a public creation, from its leaf position.                       *)
creation_rho(community, position) == [created |-> community, at |-> position]

(* bundle.rs, spendable_value: what a note is worth, if it exists yet.     *)
FromTheFuture(note, now) == now < note.t_note
Worth(note, now) == decay_windowed(note.value, now - note.t_note)

(* Keys: each part of a full viewing key is named by the spending key it is
   derived from; the incoming viewing key commits to ak and nk together,
   and an address is one diversifier's point under it.                     *)
full_viewing_key(sk) == [ak |-> sk, nk |-> sk, ovk |-> sk]
(* Deviation: the address does not fix the nullifier key.                  *)
IvkWithoutNk(fvk) == [ak |-> fvk.ak, nk |-> {}]
(* ivk = Poseidon(ak, nk, rivk); rivk only blinds, and is left out.        *)
commit_ivk(fvk) == [ak |-> fvk.ak, nk |-> fvk.nk]
address_of(fvk) == commit_ivk(fvk)
owns(fvk, address) == address = address_of(fvk)
=============================================================================
