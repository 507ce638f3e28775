--------------------------- MODULE NoteEncryption ---------------------------
(***************************************************************************)
(* src/note_encryption.rs and src/memo.rs: how a note reaches its owner.   *)
(* The domain of this crate is translated; what zcash_note_encryption does *)
(* with it (authenticated encryption and the checks of a decrypted note)   *)
(* is external.  A ciphertext is its key and its plaintext.  Lengths and   *)
(* the byte layout of plaintexts are left out.                             *)
(***************************************************************************)
EXTENDS Keys

CONSTANTS VALUE_LIMIT, TIME_LIMIT, EXPIRY_LIMIT   (* 2^63, 2^40, 2^16      *)

-----------------------------------------------------------------------------
(* Notes, as far as encryption and commitment need them.                   *)
from_parts(community, value, t_note, kind, expiry_epoch, addr, rho, memo_cm, rseed) ==
  IF value >= VALUE_LIMIT \/ t_note >= TIME_LIMIT \/ expiry_epoch >= EXPIRY_LIMIT THEN {}
  ELSE {[community |-> community, value |-> value, t_note |-> t_note, kind |-> kind,
         expiry_epoch |-> expiry_epoch, d |-> addr.d, pk_d |-> addr.pk_d,
         rho |-> rho, memo_cm |-> memo_cm, rseed |-> rseed]}

(* g_d goes into the commitment and d does not; psi and rcm are rseed's
   under rho.                                                              *)
commitment(note) ==
  [community |-> note.community, amount |-> <<note.value, note.t_note>>,
   meta |-> <<note.kind, note.expiry_epoch>>, g_d |-> diversify_hash(note.d),
   pk_d |-> note.pk_d, rho |-> note.rho, memo_cm |-> note.memo_cm,
   psi |-> <<note.rseed, note.rho>>]

esk(rseed, rho) == [esk |-> rseed, rho |-> rho]

-----------------------------------------------------------------------------
(* The domain.                                                             *)
(* Deviation: a reader does not derive the ephemeral key again.            *)
NoEsk(note) == {}
derive_esk(note) == {esk(note.rseed, note.rho)}

ka_derive_public(note, secret) == Times(diversify_hash(note.d), secret)
ka_agree_enc(secret, pk_d) == Times(pk_d, secret)
ka_agree_dec(ivk, epk) == Times(epk, ivk)
kdf(secret, epk) == [kdf |-> secret, epk |-> epk]
derive_ock(ovk, cv, cm, epk) == [ovk |-> ovk, cv |-> cv, cm |-> cm, epk |-> epk]

note_plaintext(note, memo) ==
  [d |-> note.d, value |-> note.value, rseed |-> note.rseed, t_note |-> note.t_note,
   kind |-> note.kind, expiry_epoch |-> note.expiry_epoch, memo_cm |-> note.memo_cm,
   memo |-> memo]

(* Deviation: the expiry is written and not read.                          *)
ParseWithoutExpiry(domain, plaintext, pk_d) ==
  from_parts(domain.community, plaintext.value, plaintext.t_note, plaintext.kind, 0,
             [d |-> plaintext.d, pk_d |-> pk_d], domain.rho, plaintext.memo_cm,
             plaintext.rseed)
(* parse: community and rho are the transaction's, pk_d is the reader's.   *)
parse(domain, plaintext, pk_d) ==
  from_parts(domain.community, plaintext.value, plaintext.t_note, plaintext.kind,
             plaintext.expiry_epoch, [d |-> plaintext.d, pk_d |-> pk_d], domain.rho,
             plaintext.memo_cm, plaintext.rseed)
parse_ivk(domain, ivk, plaintext) ==
  parse(domain, plaintext, Times(diversify_hash(plaintext.d), ivk))

(* encrypt, with an outgoing viewing key or with none, in which case the
   outgoing part is noise.                                                 *)
encrypt(note, memo, ovks, cv) ==
  LET secret == esk(note.rseed, note.rho)
      epk == ka_derive_public(note, secret)
      cm == commitment(note)
  IN  [epk |-> epk, cm |-> cm,
       enc |-> {[key |-> kdf(ka_agree_enc(secret, note.pk_d), epk),
                 plain |-> note_plaintext(note, memo)]},
       out |-> {[key |-> derive_ock(ovk, cv, cm, epk),
                 plain |-> [pk_d |-> note.pk_d, esk |-> secret]] : ovk \in ovks}]

-----------------------------------------------------------------------------
(* zcash_note_encryption.                                                  *)
Opened(ciphertext, key) == {c.plain : c \in {c \in ciphertext : c.key = key}}

(* check_note_validity.                                                    *)
Valid(note, output) ==
  /\ commitment(note) = output.cm
  /\ \A secret \in derive_esk(note) : ka_derive_public(note, secret) = output.epk

Found(note, plaintext) == [note |-> note, memo |-> plaintext.memo]

(* decrypt: try_note_decryption.                                           *)
decrypt(domain, ivk, output) ==
  UNION {{Found(note, plaintext) :
            note \in {n \in parse_ivk(domain, ivk, plaintext) : Valid(n, output)}}
           : plaintext \in Opened(output.enc, kdf(ka_agree_dec(ivk, output.epk), output.epk))}

(* recover: try_output_recovery_with_ovk.                                  *)
recover(domain, ovk, cv, output) ==
  UNION {UNION {{Found(note, plaintext) :
                   note \in {n \in parse(domain, plaintext, op.pk_d) :
                               /\ \A secret \in derive_esk(n) : secret = op.esk
                               /\ Valid(n, output)}}
                  : plaintext \in Opened(output.enc,
                                         kdf(ka_agree_enc(op.esk, op.pk_d), output.epk))}
           : op \in Opened(output.out, derive_ock(ovk, cv, output.cm, output.epk))}

-----------------------------------------------------------------------------
(* Memos: sealed under a key of their own, committed to by the note.       *)
commit(text, r_memo) == [text |-> text, r_memo |-> r_memo]
seal(key, text, r_memo) == {[key |-> key, plain |-> [text |-> text, r_memo |-> r_memo]]}
open(key, sealed) == Opened(sealed, key)
(* Deviation: who opens a memo believes it.                                *)
VerifyAnyMemo(text, r_memo, memo_cm) == TRUE
verify(text, r_memo, memo_cm) == commit(text, r_memo) = memo_cm
=============================================================================
