---------------------------- MODULE ShieldedPool ----------------------------
(***************************************************************************)
(* What the action circuit and the binding signature are for: a ledger     *)
(* that takes every bundle with a valid proof and valid signatures, from a *)
(* prover who need not have used `build` at all.  The prover picks the     *)
(* witness and the public values freely; a proof exists exactly if the     *)
(* circuit's statement holds of them, and a signature under a key comes    *)
(* only from its holder.  Notes, owners and values have to come out right  *)
(* all the same.                                                           *)
(***************************************************************************)
EXTENDS Bundles

CONSTANTS
  Owner,            (* the keys notes are owned with                       *)
  Payee,            (* the owner of what is created                        *)
  Community,        (* the ledger's own                                     *)
  Communities,      (* those a bundle may be made for                       *)
  Capacity,
  CreationValue,
  Values,           (* the values a created note is tried with             *)
  MAX_CLOCK,        (* bound: the clock stops there                        *)
  MAX_LOG           (* bound: no transaction after so many                 *)

(* Values are u64 and the clock counts seconds.                            *)
ASSUME ValueAssumption == Values \cup {CreationValue, MAX_CLOCK} \subseteq Nat

VARIABLES
  clock,
  tree, roots, counts, nullifiers, outcome, log,
  spent      (* history: the actions of every accepted bundle, with what   *)
             (* their prover knew                                          *)

Node == INSTANCE Ledger WITH
  Commitment <- {}, Nullifier <- {}, Bundle <- {}, Sighash <- {},
  VerifyBundleCrypto <- verify_bundle_crypto

ledger == <<tree, roots, counts, nullifiers, outcome, log>>
vars == <<clock, ledger, spent>>

Init == clock = 0 /\ Node!Init /\ spent = <<>>

Tick ==
  /\ clock < MAX_CLOCK
  /\ clock' = clock + 1
  /\ UNCHANGED <<ledger, spent>>

Create(owner) ==
  LET note == from_parts(Community, CreationValue, clock, address_of(full_viewing_key(owner)),
                         creation_rho(Community, Size(tree)), "none",
                         Fresh(<<>>, "rseed", 0))
  IN  /\ Len(log) <= MAX_LOG
      /\ Node!AddNote(commitment(note))
      /\ UNCHANGED <<clock, spent>>

-----------------------------------------------------------------------------
Leaves == {tree.leaves[i] : i \in DOMAIN tree.leaves}
Roots == {log[i].root : i \in DOMAIN log}

(* The parts of a key, put together as anyone may.                         *)
ViewingKeys == [ak : Owner, nk : Owner, ovk : {"none"}]

Nothing == [nothing |-> 0]

(* A note no one created, with a value and without.                        *)
Invented(value, i) ==
  from_parts(Community, value, clock, Nothing, Fresh(<<Len(log)>>, "rho", i), "none",
             Fresh(<<Len(log)>>, "rseed", i))

(* The paths of every tree there has been, and one of none.                *)
NoPath == [tree |-> <<Nothing>>, position |-> 0]
Paths == {NoPath} \cup
         UNION {{[tree |-> root, position |-> p] : p \in 0..Len(root) - 1} : root \in Roots}

(* What may be tried as a spend: any note of value, real or not, with any
   key and any path; and padding, which stands for every note without value,
   since the circuit asks nothing of the tree for those.                   *)
Attempts(i) ==
  {[old |-> old, fvk |-> fvk, path |-> path] :
     old \in {note \in Leaves : note.value > 0} \cup {Invented(CreationValue, i)}, fvk \in ViewingKeys, path \in Paths}
  \cup {[old |-> Invented(0, i), fvk |-> full_viewing_key(Nothing), path |-> NoPath]}

Witnesses(i) ==
  {Witnessed(try.old, try.fvk, try.path.position, try.path,
             from_parts(Community, value, clock, address_of(full_viewing_key(Payee)), Nothing,
                        "none", Fresh(<<Len(log)>>, "rseed", i)),
             Fresh(<<Len(log)>>, "rcv", i), Fresh(<<Len(log)>>, "alpha", i)) :
     try \in Attempts(i), value \in Values}

(* Where and when a bundle is made for: any community, any time.           *)
Settings == [community : Communities, now : 0..MAX_CLOCK]

(* The public values that go with a witness under an anchor.               *)
Claim(here, anchor, w) ==
  LET old   == OldNote(here, w)
      nf    == nullifier(w.fvk.nk, old)
      worth == IF FromTheFuture(old, here.now) THEN 0 ELSE Worth(old, here.now)
  IN  Instance(here.community, anchor, nf, Rerandomized(w.fvk.ak, w.alpha),
               commitment(NewNote(here, w, nf)),
               value_commitment(worth - w.new.value, w.rcv), here.now)

Proven(here, anchor, i) ==
  {p \in {[claim |-> Claim(here, anchor, w), witness |-> w] : w \in Witnesses(i)} :
     Statement(p.claim, p.witness)}

(* Deviation: the bundle is checked under what it was made for.            *)
ReceivedAsMade(bundle, community, now) == bundle
(* wire::from_wire: neither is on the wire, the receiver passes its own.   *)
Received(bundle, community, now) ==
  [bundle EXCEPT !.community = community, !.now = now]

(* A bundle of proven actions, signed by the holders of their keys.  What
   the ledger refuses changes nothing (Ledger, AllOrNothing): only what it
   accepts is a step here.                                                 *)
Transact(here, anchor, proven) ==
  LET actions == [i \in DOMAIN proven |->
                    [cv_net |-> proven[i].claim.cv_net, rk |-> proven[i].claim.rk,
                     nullifier |-> proven[i].claim.nullifier, cm |-> proven[i].claim.cm]]
      sighash == [anchor |-> anchor, now |-> here.now, actions |-> actions]
      Sig(w)  == sign_spend_auth(w.fvk.ak, w.alpha, sighash)
      bundle  == [anchor |-> anchor, now |-> here.now, community |-> here.community,
                  actions |-> actions,
                  proof |-> [of |-> [i \in DOMAIN proven |-> proven[i].claim], holds |-> TRUE],
                  spend_auth_sigs |-> [i \in DOMAIN proven |-> Sig(proven[i].witness)],
                  binding_sig |-> sign_binding([i \in DOMAIN proven |-> proven[i].witness.rcv],
                                               sighash)]
  IN  /\ Node!Apply(Received(bundle, Community, clock), sighash)
      /\ outcome' = "Ok"
      /\ spent' = Append(spent, [now |-> clock,
                                 old |-> [i \in DOMAIN proven |-> proven[i].witness.old],
                                 ak |-> [i \in DOMAIN proven |-> proven[i].witness.fvk.ak],
                                 created |-> [i \in DOMAIN proven |-> proven[i].witness.new.value]])
      /\ UNCHANGED clock

Next ==
  \/ Tick
  \/ \E owner \in Owner : Create(owner)
  \/ /\ Len(log) <= MAX_LOG
     /\ \E here \in Settings, anchor \in Roots :
          \E proven \in Proven(here, anchor, 1) \X Proven(here, anchor, 2) :
            Transact(here, anchor, proven)

Spec == Init /\ [][Next]_vars

-----------------------------------------------------------------------------
(* Whoever spends a note of value spends one that stands in the tree, at an
   address of the very key whose signature the ledger asked for (circuit:
   cm_old, root = anchor, rk and pk_d from the same ak).                   *)
SpentNotesAreOwned ==
  \A e \in DOMAIN spent : \A i \in DOMAIN spent[e].old :
    LET old == spent[e].old[i]
    IN  old.value > 0 => old \in Leaves /\ old.address.ak = spent[e].ak[i]

(* No note of the tree is spent twice, in whichever bundles, under whichever
   key parts its spender uses: its nullifier is its own (circuit: nf from
   the nk that pk_d is derived from).                                      *)
NoteSpentOnce ==
  \A e, f \in DOMAIN spent : \A i \in DOMAIN spent[e].old, j \in DOMAIN spent[f].old :
    spent[e].old[i].value > 0 /\ spent[e].old[i] = spent[f].old[j] => e = f /\ i = j

(* A bundle creates what its spent notes are worth when the ledger takes it,
   no more and no less, though no amount is public and its prover chose the
   time it was made for (circuit: cv_net; binding signature; the instance). *)
ValueConserved ==
  \A e \in DOMAIN spent :
    LET worth(old) == decay_windowed(old.value, spent[e].now - old.t_note)
    IN  Total([i \in DOMAIN spent[e].old |-> worth(spent[e].old[i])]) = Total(spent[e].created)

(* Every note of the tree is of the ledger's own community and dated no later
   than its clock, though a prover may make a bundle for another community
   or another time, and a note without value needs no place in any tree
   (from_wire: "with the time and community of the transaction").          *)
NotesAreOfThisLedger ==
  \A note \in Leaves :
    /\ note.community = Community /\ note.coin_community = Community
    /\ note.t_note <= clock
=============================================================================
