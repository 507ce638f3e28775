------------------------------ MODULE MCRelay ------------------------------
(***************************************************************************)
(* One atom of each length and meaning that the parsers tell apart, a size *)
(* limit between three actions and four, and numbers on both sides of the  *)
(* limits: 8 is 2^32 here and 16 2^64, so that 10 and 18 end in the        *)
(* version and 16 in zeros.  A bundle with a request that has a memo and   *)
(* one that has none.                                                      *)
(***************************************************************************)
EXTENDS Relay

CONSTANTS e1, e2, notElement, p1, notPoint, enc1, out1, proof1, sig1,
          address, scalar, text, freeMemo

MCElement == {e1, e2}
MCPoint == {p1}
MCAtom == {e1, e2, notElement, p1, notPoint, enc1, out1, proof1, sig1,
           address, scalar, text, freeMemo}
MCLength(atom) ==
  CASE atom = enc1 -> 580
    [] atom = out1 -> 80
    [] atom = proof1 -> 7936
    [] atom = sig1 -> 64
    [] atom = address -> 43
    [] atom = text -> 512
    [] atom = freeMemo -> 463
    [] OTHER -> 32

Action(nf, cm) ==
  [cv_net |-> p1, nullifier |-> nf, rk |-> p1, cm |-> cm, epk |-> e1, enc |-> enc1, out |-> out1]
Bundle == [anchor |-> e1, actions |-> <<Action(e1, e2), Action(e2, e1)>>,
           proof |-> proof1, spend_auth_sigs |-> <<sig1, sig1>>, binding_sig |-> sig1]
Opening(kind, value, memo) ==
  [address |-> address, value |-> value, kind |-> kind, expiry_epoch |-> 0, rseed |-> e1,
   memo_cm |-> e1, free_memo |-> freeMemo, memo |-> memo]

MCSent ==
  {[bundle |-> Bundle, created_at |-> 1, version_number |-> 2,
    outputs |-> <<Opening("Deferred", 1, {[text |-> text, r_memo |-> e1]}),
                  Opening("Normal", 0, {})>>,
    alphas |-> <<{scalar}, {}>>]}

MCNumber == {0, 8, 10, 18}
MCOther == {e2, notPoint, <<>>}
MCAdded == {Bytes(7, <<>>), Varint(4, 16), Varint(2, 1), Bytes(8, text)}
=============================================================================
