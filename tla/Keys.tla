-------------------------------- MODULE Keys --------------------------------
(***************************************************************************)
(* src/keys.rs: what is derived from a spending key, and addresses.        *)
(* A point is a base point and the scalars it was multiplied with, in any  *)
(* order; hashes have no collisions.  Where Notes needs to know only which *)
(* parts of a key a note depends on, this module has the keys themselves.  *)
(***************************************************************************)
EXTENDS Naturals, FiniteSets

CONSTANTS
  ZeroIvk(_),     (* whether ivk comes out as zero for this rivk           *)
  BYTE,           (* 2^8                                                   *)
  MAX_RESAMPLES   (* bound of the runs: the loop ends in as many turns     *)

(* The months are as many bytes.                                           *)
ASSUME ByteAssumption == BYTE \in Nat /\ BYTE > 12

Times(point, scalar) == [point EXCEPT !.by = @ \cup {scalar}]
diversify_hash(d) == [base |-> d, by |-> {}]

(* Poseidon(ak, nk, rivk), or none for zero.                               *)
commit_ivk(ak, nk, rivk) ==
  IF ZeroIvk(rivk) THEN {} ELSE {[ak |-> ak, nk |-> nk, rivk |-> rivk]}

(* The n-th rivk of a spending key: n times hashed.                        *)
RivkOf(sk, n) == [sk |-> sk, hashed |-> n]
(* The resampling loop ends at the first rivk that gives an ivk.           *)
Resampled(sk) ==
  CHOOSE n \in 0..MAX_RESAMPLES : /\ ~ZeroIvk(RivkOf(sk, n))
                     /\ \A m \in 0..(n - 1) : ZeroIvk(RivkOf(sk, m))

(* Deviation: ivk is resampled, and rivk stays as it was.                  *)
KeyWithFirstRivk(sk) ==
  [ak |-> sk, nk |-> sk, rivk |-> RivkOf(sk, 0), ovk |-> sk,
   ivk |-> CHOOSE ivk \in commit_ivk(sk, sk, RivkOf(sk, Resampled(sk))) : TRUE]
full_viewing_key(sk) ==
  LET rivk == RivkOf(sk, Resampled(sk))
  IN  [ak |-> sk, nk |-> sk, rivk |-> rivk, ovk |-> sk,
       ivk |-> CHOOSE ivk \in commit_ivk(sk, sk, rivk) : TRUE]

(* What a device hands to its server: everything but ivk, which from_bytes
   derives again; none if it would be zero.                                *)
to_bytes(fvk) == [ak |-> fvk.ak, nk |-> fvk.nk, rivk |-> fvk.rivk, ovk |-> fvk.ovk]
from_bytes(bytes) ==
  {[ak |-> bytes.ak, nk |-> bytes.nk, rivk |-> bytes.rivk, ovk |-> bytes.ovk, ivk |-> ivk] :
     ivk \in commit_ivk(bytes.ak, bytes.nk, bytes.rivk)}

address(fvk, d) == [d |-> d, pk_d |-> Times(diversify_hash(d), fvk.ivk)]
owns(fvk, a) == address(fvk, a.d) = a

(* Deviation: any month is taken.                                          *)
AddressOfAnyMonth(fvk, year, month) ==
  {address(fvk, [ivk |-> fvk.ivk, year |-> year, month |-> month % BYTE])}
(* The address for a month's creation; the month goes into the hash as a
   byte.                                                                   *)
creation_address(fvk, year, month) ==
  IF month \notin 1..12 THEN {}
  ELSE {address(fvk, [ivk |-> fvk.ivk, year |-> year, month |-> month % BYTE])}
=============================================================================
