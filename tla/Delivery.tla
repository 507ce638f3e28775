------------------------------ MODULE Delivery ------------------------------
(***************************************************************************)
(* Notes on their way to their owners: addresses are handed out, senders   *)
(* publish encrypted notes with sealed memos, and wallets and senders look *)
(* through all that is published.  Not every publisher does what encrypt   *)
(* does: parts of outputs come together that were not made together, and a *)
(* note is encrypted to another address than the one it commits to.  And a *)
(* sealed memo, which lies beside the note, can be exchanged at any time   *)
(* for whatever someone has sealed, between the readings of several users. *)
(***************************************************************************)
EXTENDS NoteEncryption, Sequences

CONSTANTS
  User, Year, Month, Value, Expiry, Text,
  MemoKey, SharedKey,          (* keys of memos, and which of them senders  *)
                               (* share with recipients                    *)
  Community, Now,
  MAX_ADDRESSES, MAX_MAIL      (* bounds of the runs: addresses; notes      *)
                               (* published and memos exchanged             *)

ASSUME MemoKeyAssumption == SharedKey \subseteq MemoKey

(* The loop of every user ends.                                            *)
ASSUME ResampleAssumption ==
  \A u \in User : \E n \in 0..MAX_RESAMPLES :
    ~ZeroIvk(RivkOf(u, n)) /\ \A m \in 0..(n - 1) : ZeroIvk(RivkOf(u, m))

VARIABLES
  addresses,   (* handed out: who, for which month, and the address        *)
  published,   (* sequence of rho, cv, output and sealed memo              *)
  sends,       (* history: what honest senders meant, by position          *)
  exchanges,   (* how many memos were exchanged                            *)
  shown        (* history: the texts that readers took for the memo of a   *)
               (* note, by the commitment the ledger has of it             *)

deliveryVars == <<addresses, published, sends, exchanges, shown>>

(* The server works with the key as the device handed it over.             *)
ViewingKeys(u) == from_bytes(to_bytes(full_viewing_key(u)))

(* The nullifier of the action, its cv, a seed and the memo's r_memo are
   new with every action.                                                  *)
Fresh == Len(published) + 1
Domain(i) == [community |-> Community, rho |-> published[i].rho]

DeliveryInit ==
  addresses = {} /\ published = <<>> /\ sends = {} /\ exchanges = 0 /\ shown = {}

HandOut(u, year, month) ==
  /\ Cardinality(addresses) < MAX_ADDRESSES
  /\ \E a \in creation_address(full_viewing_key(u), year, month) :
       addresses' = addresses \cup {[user |-> u, year |-> year, month |-> month, address |-> a]}
  /\ UNCHANGED <<published, sends, exchanges, shown>>

Publish(cv, output, sealed) ==
  /\ Len(published) + exchanges < MAX_MAIL
  /\ published' = Append(published, [rho |-> Fresh, cv |-> cv, output |-> output,
                                     sealed |-> sealed])
  /\ UNCHANGED <<addresses, exchanges, shown>>

(* One output of build; the memo key is shared apart.                      *)
Send(u, to, value, expiry, text, key, ovks) ==
  LET memo_cm == commit(text, Fresh)
  IN  \E note \in from_parts(Community, value, Now, "Normal", expiry, to.address,
                             Fresh, memo_cm, Fresh) :
        /\ Publish(Fresh, encrypt(note, text, ovks, Fresh), seal(key, text, Fresh))
        /\ sends' = sends \cup {[at |-> Fresh, from |-> u, recoverable |-> ovks # {},
                                 to |-> to, note |-> note, text |-> text, key |-> key]}

(* An action of parts that were published before.                          *)
Recombine(i, j, k, l) ==
  /\ Publish(published[l].cv,
             [epk |-> published[i].output.epk, cm |-> published[j].output.cm,
              enc |-> published[k].output.enc, out |-> published[l].output.out],
             published[j].sealed)
  /\ UNCHANGED sends

(* A note of one address, encrypted as if it went to another.              *)
Misaddress(note_to, sent_to, value, text, key) ==
  /\ \E note \in from_parts(Community, value, Now, "Normal", 0, note_to.address,
                            Fresh, commit(text, Fresh), Fresh) :
       LET secret == esk(Fresh, Fresh)
           epk == Times(diversify_hash(sent_to.address.d), secret)
       IN  Publish(Fresh,
                   [epk |-> epk, cm |-> commitment(note),
                    enc |-> {[key |-> kdf(ka_agree_enc(secret, sent_to.address.pk_d), epk),
                              plain |-> note_plaintext(note, text)]},
                    out |-> {}],
                   seal(key, text, Fresh))
  /\ UNCHANGED sends

(* Another memo is put in the place of one, by someone who has a key and
   may know the opening of the memo that was there.                        *)
Exchange(i, key, text, r_memo) ==
  /\ Len(published) + exchanges < MAX_MAIL
  /\ published' = [published EXCEPT ![i].sealed = seal(key, text, r_memo)]
  /\ exchanges' = exchanges + 1
  /\ UNCHANGED <<addresses, sends, shown>>

-----------------------------------------------------------------------------
FoundBy(u, i) ==
  UNION {decrypt(Domain(i), fvk.ivk, published[i].output) : fvk \in ViewingKeys(u)}
RecoveredBy(u, i) ==
  UNION {recover(Domain(i), fvk.ovk, published[i].cv, published[i].output) :
           fvk \in ViewingKeys(u)}

(* What opens with the key and verifies for the note.                      *)
MemosOf(note, i, key) ==
  {memo \in open(key, published[i].sealed) : verify(memo.text, memo.r_memo, note.memo_cm)}

(* A user who sees the note reads the memo that is there by then.          *)
Read(u, i, key) ==
  /\ \E seen \in FoundBy(u, i) \cup RecoveredBy(u, i) :
       \E memo \in MemosOf(seen.note, i, key) :
         shown' = shown \cup {[cm |-> published[i].output.cm, text |-> memo.text]}
  /\ UNCHANGED <<addresses, published, sends, exchanges>>

DeliveryNext ==
  \/ \E u \in User, year \in Year, month \in Month : HandOut(u, year, month)
  \/ \E u \in User, to \in addresses, value \in Value, expiry \in Expiry, text \in Text :
       \E key \in SharedKey, ovks \in SUBSET {full_viewing_key(u).ovk} :
         Send(u, to, value, expiry, text, key, ovks)
  \/ \E i, j, k, l \in DOMAIN published : Recombine(i, j, k, l)
  \/ \E note_to, sent_to \in addresses, value \in Value, text \in Text, key \in SharedKey :
       Misaddress(note_to, sent_to, value, text, key)
  \/ \E i \in DOMAIN published, key \in MemoKey, text \in Text, r_memo \in DOMAIN published :
       Exchange(i, key, text, r_memo)
  \/ \E u \in User, i \in DOMAIN published, key \in MemoKey : Read(u, i, key)

DeliverySpec == DeliveryInit /\ [][DeliveryNext]_deliveryVars

-----------------------------------------------------------------------------
(* "find and rebuild a note" (decrypt): whatever is published, a note that
   a wallet finds is the one the action commits to, at an address of its
   own, with the action's nullifier as rho, so that it can be spent; and it
   was encrypted to that very address, so that nobody learns from a wallet's
   reaction that two addresses belong together.                            *)
FoundNotesAreCommitted ==
  \A u \in User : \A i \in DOMAIN published : \A found \in FoundBy(u, i) :
    /\ commitment(found.note) = published[i].output.cm
    /\ found.note.rho = published[i].rho
    /\ owns(full_viewing_key(u), [d |-> found.note.d, pk_d |-> found.note.pk_d])
    /\ published[i].output.epk.base = found.note.d

(* What was sent arrives: its recipient finds the note and the text,
   nobody else finds anything, and the sender recovers the same if it used
   its outgoing key, and nothing otherwise.                                *)
SentNotesAreSeen ==
  \A s \in sends : \A u \in User :
    LET seen == {[note |-> s.note, memo |-> s.text]}
    IN  /\ FoundBy(u, s.at) = IF u = s.to.user THEN seen ELSE {}
        /\ RecoveredBy(u, s.at) = IF u = s.from /\ s.recoverable THEN seen ELSE {}

(* "nobody can change the text afterwards" (memo.rs): of a note on the
   ledger all who take a memo for its own read the same text, whenever they
   read and whatever was put in the memo's place in the meantime; if an
   honest sender made the note, it is that sender's text; and a memo that
   nobody exchanged is read by the recipient who has its key.              *)
MemosAreCommitted ==
  /\ \A a, b \in shown : a.cm = b.cm => a.text = b.text
  /\ \A s \in sends :
       /\ \A a \in shown : a.cm = commitment(s.note) => a.text = s.text
       /\ published[s.at].sealed = seal(s.key, s.text, s.at) =>
            \E found \in FoundBy(s.to.user, s.at) :
              \E memo \in MemosOf(found.note, s.at, s.key) : memo.text = s.text

(* "so creations do not link across months" (creation_address): an address
   is handed out for one user and one month only, and its owner, or a server
   with the viewing key, recognises it.                                    *)
MonthsHaveTheirAddresses ==
  \A a \in addresses :
    /\ \A b \in addresses : a.address = b.address => a = b
    /\ \E fvk \in ViewingKeys(a.user) : owns(fvk, a.address)
=============================================================================
