------------------------ MODULE ShieldedPool_proofs ------------------------
(***************************************************************************)
(* Proofs about ShieldedPool, whatever notes are made, however they decay  *)
(* and whoever proves.  What the ledger accepts, circuit and signatures    *)
(* have bound to notes of its own tree, so that the invariant can follow   *)
(* each transaction: the note of a leaf has a rho no other leaf has, a     *)
(* nullifier of the set is one of the transactions done, and value only    *)
(* moves between the notes of a transaction.                               *)
(***************************************************************************)
EXTENDS ShieldedPool, Decay_proofs

-----------------------------------------------------------------------------
(* What a rho can be: of a creation, a nullifier, drawn at random.         *)
Kind(rho) == DOMAIN rho

(* Each way to make a rho gives one of its kind.                           *)
LEMMA Kinds ==
  /\ \A c, p : Kind(creation_rho(c, p)) = {"created", "at"}
  /\ \A nk, note : Kind(nullifier(nk, note)) = {"nk", "rho", "cm"}
  /\ \A seed, what, i : Kind(Fresh(seed, what, i)) = {"seed", "what", "action"}
BY DEF Kind, creation_rho, nullifier, Fresh

(* No rho is of two kinds.                                                 *)
LEMMA KindsDiffer ==
  /\ {"created", "at"} # {"nk", "rho", "cm"}
  /\ {"created", "at"} # {"seed", "what", "action"}
  /\ {"nk", "rho", "cm"} # {"seed", "what", "action"}
<1>1. "at" \in {"created", "at"} /\ "at" \notin {"nk", "rho", "cm"} /\ "at" \notin {"seed", "what", "action"}
  OBVIOUS
<1>2. "nk" \in {"nk", "rho", "cm"} /\ "nk" \notin {"seed", "what", "action"}
  OBVIOUS
<1> QED
  BY <1>1, <1>2

NullifierKind == {"nk", "rho", "cm"}
CreationKind == {"created", "at"}

-----------------------------------------------------------------------------
TreeIsRecord ==
  /\ tree = [leaves |-> tree.leaves, marked |-> tree.marked, checkpoints |-> tree.checkpoints]
  /\ Listed(tree.leaves)

RootsArePrefixes ==
  \A i \in DOMAIN log :
    LET root == log[i].root
    IN  /\ Listed(root) /\ Len(root) <= Len(tree.leaves)
        /\ \A p \in 1..Len(root) : root[p] = tree.leaves[p]

LeavesAreNotes ==
  \A i \in DOMAIN tree.leaves :
    LET leaf == tree.leaves[i]
    IN  /\ IsNote(leaf)
        /\ leaf.community = Community /\ leaf.coin_community = Community
        /\ leaf.value \in Nat /\ leaf.t_note \in Nat /\ leaf.t_note <= clock
        /\ leaf.rho = creation_rho(Community, i - 1) \/ leaf.rho \in nullifiers

RhosDistinct ==
  \A i, j \in DOMAIN tree.leaves : tree.leaves[i].rho = tree.leaves[j].rho => i = j

NullifiersAreNullifiers == \A nf \in nullifiers : Kind(nf) = NullifierKind

SpentIsGone ==
  \A e \in DOMAIN spent : \A i \in DOMAIN spent[e].old :
    LET old == spent[e].old[i]
    IN  /\ old.value \in Nat
        /\ old.value > 0 => /\ old \in Leaves /\ old.address.ak = spent[e].ak[i]
                            /\ nullifier(old.address.nk, old) \in nullifiers

PInv ==
  /\ clock \in Nat
  /\ Listed(log) /\ Listed(spent)
  /\ TreeIsRecord
  /\ RootsArePrefixes
  /\ LeavesAreNotes
  /\ RhosDistinct
  /\ NullifiersAreNullifiers
  /\ SpentIsGone
  /\ NoteSpentOnce
  /\ ValueConserved

-----------------------------------------------------------------------------
(* PInv holds in the beginning.                                            *)
LEMMA InitPInv == Init => PInv
<1> SUFFICES ASSUME Init PROVE PInv
  OBVIOUS
<1>1. /\ clock = 0 /\ spent = <<>> /\ nullifiers = {}
      /\ tree = [leaves |-> <<>>, marked |-> {}, checkpoints |-> 0]
      /\ log = <<[nfs |-> <<>>, root |-> <<>>, under |-> {}]>>
  BY DEF Init, Node!Init, Node!EmptyTree, Node!Entry, Node!TreeRoot
<1>2. Listed(<<>>) /\ Len(<<>>) = 0
  <2>1. DOMAIN <<>> = 1..0 /\ <<>> = [i \in 1..0 |-> <<>>[i]]
    OBVIOUS
  <2> QED
    BY <2>1, Lists
<1>3. Listed(log) /\ DOMAIN log = {1} /\ log[1].root = <<>>
  <2>1. DOMAIN log = 1..1 /\ log = [i \in 1..1 |-> log[i]]
    BY <1>1
  <2>2. 1..1 = {1}
    OBVIOUS
  <2> QED
    BY <1>1, <2>1, <2>2, Lists
<1>4. TreeIsRecord /\ tree.leaves = <<>>
  BY <1>1, <1>2 DEF TreeIsRecord
<1>5. RootsArePrefixes
  BY <1>2, <1>3, <1>4 DEF RootsArePrefixes
<1>6. LeavesAreNotes /\ RhosDistinct
  BY <1>4 DEF LeavesAreNotes, RhosDistinct
<1>7. SpentIsGone /\ NoteSpentOnce /\ ValueConserved
  BY <1>1 DEF SpentIsGone, NoteSpentOnce, ValueConserved
<1> QED
  BY <1>1, <1>2, <1>3, <1>4, <1>5, <1>6, <1>7 DEF PInv, NullifiersAreNullifiers

-----------------------------------------------------------------------------
(* The notes the circuit commits to, field by field.                       *)
LEMMA OldNoteFields ==
  ASSUME NEW instance, NEW w, IsNote(w.old)
  PROVE  OldNote(instance, w) =
           [community |-> instance.community, coin_community |-> instance.community,
            value |-> w.old.value, t_note |-> w.old.t_note, address |-> address_of(w.fvk),
            rho |-> w.old.rho, memo_cm |-> w.old.memo_cm, rseed |-> w.old.rseed]
BY NoteMoved, Zenon DEF OldNote

(* The same for the created note.                                          *)
LEMMA NewNoteFields ==
  ASSUME NEW instance, NEW w, IsNote(w.new), NEW nf
  PROVE  NewNote(instance, w, nf) =
           [community |-> instance.community, coin_community |-> instance.community,
            value |-> w.new.value, t_note |-> instance.now, address |-> w.new.address,
            rho |-> nf, memo_cm |-> w.new.memo_cm, rseed |-> w.new.rseed]
<1> DEFINE note == w.new
           c == instance.community
           t == instance.now
           dated == [note EXCEPT !.community = c, !.coin_community = c, !.t_note = t]
           r == note.rho
           v == note.value
           a == note.address
           m == note.memo_cm
           s == note.rseed
<1>1. NewNote(instance, w, nf) = [dated EXCEPT !.rho = nf]
  BY DEF NewNote
<1>2. dated = [community |-> c, coin_community |-> c, value |-> v, t_note |-> t,
               address |-> a, rho |-> r, memo_cm |-> m, rseed |-> s]
  BY NoteRedated, Zenon
<1> HIDE DEF dated, c, t, r, v, a, m, s
<1>3. [dated EXCEPT !.rho = nf] =
        [community |-> c, coin_community |-> c, value |-> v, t_note |-> t,
         address |-> a, rho |-> nf, memo_cm |-> m, rseed |-> s]
  BY <1>2
<1> QED
  BY <1>1, <1>3 DEF c, t, v, a, m, s

(* What a prover may put into a witness.                                   *)
LEMMA WitnessParts ==
  ASSUME PInv, NEW i, NEW w \in Witnesses(i)
  PROVE  /\ w.old \in Leaves \/ Kind(w.old.rho) = {"seed", "what", "action"}
         /\ IsNote(w.old) /\ w.old.value \in Nat /\ w.old.t_note \in Nat
         /\ w.path \in Paths /\ w.position = w.path.position
         /\ IsNote(w.new) /\ w.new.value \in Nat
<1>1. PICK try \in Attempts(i), value \in Values :
        w = Witnessed(try.old, try.fvk, try.path.position, try.path,
              from_parts(Community, value, clock, address_of(full_viewing_key(Payee)), Nothing,
                         "none", Fresh(<<Len(log)>>, "rseed", i)),
              Fresh(<<Len(log)>>, "rcv", i), Fresh(<<Len(log)>>, "alpha", i))
  BY DEF Witnesses
<1>2. /\ w.old = try.old /\ w.fvk = try.fvk /\ w.path = try.path /\ w.position = try.path.position
      /\ w.new = from_parts(Community, value, clock, address_of(full_viewing_key(Payee)), Nothing,
                            "none", Fresh(<<Len(log)>>, "rseed", i))
  BY <1>1 DEF Witnessed
<1>3. IsNote(w.new) /\ w.new.value \in Nat
  BY <1>2, ValueAssumption DEF from_parts, IsNote
<1>4. \A value_ \in Nat : LET note == Invented(value_, i)
                         IN  /\ IsNote(note) /\ note.value \in Nat /\ note.t_note \in Nat
                             /\ Kind(note.rho) = {"seed", "what", "action"}
  BY Kinds DEF Invented, from_parts, IsNote, PInv
<1>5. NoPath \in Paths
  BY DEF Paths
<1>6. CASE try = [old |-> Invented(0, i), fvk |-> full_viewing_key(Nothing), path |-> NoPath]
  <2>1. try.old = Invented(0, i) /\ try.path = NoPath /\ 0 \in Nat
    BY <1>6
  <2> QED
    BY <1>2, <1>3, <1>4, <1>5, <2>1
<1>7. CASE try # [old |-> Invented(0, i), fvk |-> full_viewing_key(Nothing), path |-> NoPath]
  <2>1. PICK old \in {note \in Leaves : note.value > 0} \cup {Invented(CreationValue, i)},
             fvk \in ViewingKeys, path \in Paths :
               try = [old |-> old, fvk |-> fvk, path |-> path]
    BY <1>7 DEF Attempts
  <2>2. try.old = old /\ try.path \in Paths
    BY <2>1
  <2>3. CASE old \in Leaves
    BY <1>2, <1>3, <2>2, <2>3 DEF PInv, LeavesAreNotes, Leaves
  <2>4. CASE old = Invented(CreationValue, i)
    <3>1. CreationValue \in Nat
      BY ValueAssumption
    <3> QED
      BY <1>2, <1>3, <1>4, <2>2, <2>4, <3>1
  <2> QED
    BY <2>1, <2>3, <2>4
<1> QED
  BY <1>6, <1>7

(* The circuit's opening of a path: what leads to a root of the ledger is a
   leaf of its tree.                                                       *)

LEMMA PathsLeadToLeaves ==
  ASSUME PInv, NEW anchor \in Roots, NEW path \in Paths, NEW note,
         PathLeadsTo(note, path.position, path, anchor)
  PROVE  note \in Leaves
<1>1. PICK k \in DOMAIN log : anchor = log[k].root
  BY DEF Roots
<1>2. /\ Listed(anchor) /\ Len(anchor) <= Len(tree.leaves)
      /\ \A p \in 1..Len(anchor) : anchor[p] = tree.leaves[p]
  BY <1>1 DEF PInv, RootsArePrefixes
<1>3. DOMAIN tree.leaves = 1..Len(tree.leaves) /\ Len(tree.leaves) \in Nat
  BY ListedProperties DEF PInv, TreeIsRecord
<1>4. DOMAIN anchor = 1..Len(anchor) /\ Len(anchor) \in Nat
  BY <1>2, ListedProperties
<1>5. anchor = [path.tree EXCEPT ![path.position + 1] = note]
  BY DEF PathLeadsTo
<1>6. path.position + 1 \in DOMAIN path.tree
  <2>1. CASE path = NoPath
    BY <2>1 DEF NoPath
  <2>2. CASE path # NoPath
    <3>1. PICK root \in Roots :
            path \in {[tree |-> root, position |-> p] : p \in 0..(Len(root) - 1)}
      BY <2>2, Zenon DEF Paths
    <3>5. PICK p \in 0..(Len(root) - 1) : path = [tree |-> root, position |-> p]
      BY <3>1
    <3>2. Listed(root)
      BY DEF Roots, PInv, RootsArePrefixes
    <3>3. DOMAIN root = 1..Len(root) /\ Len(root) \in Nat
      BY <3>2, ListedProperties
    <3>4. path.tree = root /\ path.position = p
      BY <3>5
    <3> QED
      BY <3>3, <3>4
  <2> QED
    BY <2>1, <2>2
<1>7. path.position + 1 \in DOMAIN anchor /\ anchor[path.position + 1] = note
  BY <1>5, <1>6
<1> QED
  BY <1>2, <1>3, <1>4, <1>7 DEF Leaves

(* What holds of an action that has a proof, when it is for this ledger.    *)
LEMMA ProvenAction ==
  ASSUME PInv, NEW here, NEW anchor \in Roots, NEW i, NEW p \in Proven(here, anchor, i),
         p.claim.community = Community, p.claim.now = clock
  PROVE  LET w   == p.witness
             old == w.old
         IN  /\ old.value \in Nat /\ old.t_note \in Nat /\ old.t_note <= clock
             /\ w.new.value \in Nat
             /\ Kind(p.claim.nullifier) = NullifierKind
             /\ p.claim.cv_net = value_commitment(Worth(old, clock) - w.new.value, w.rcv)
             /\ old.value > 0 =>
                  /\ old \in Leaves /\ old.address.ak = w.fvk.ak
                  /\ p.claim.nullifier = nullifier(old.address.nk, old)
             /\ LET cm == p.claim.cm
                IN  /\ IsNote(cm) /\ cm.rho = p.claim.nullifier
                    /\ cm.community = Community /\ cm.coin_community = Community
                    /\ cm.value = w.new.value /\ cm.t_note = clock
<1> DEFINE claim == p.claim
           w     == p.witness
           old   == OldNote(claim, w)
           nf    == nullifier(w.fvk.nk, old)
           new   == NewNote(claim, w, nf)
<1>1. w \in Witnesses(i) /\ Statement(claim, w) /\ claim.anchor = anchor
  <2>1. PICK v \in Witnesses(i) : p = [claim |-> Claim(here, anchor, v), witness |-> v]
    BY Zenon DEF Proven
  <2>2. Statement(p.claim, p.witness)
    BY Zenon DEF Proven
  <2>3. p.claim = Claim(here, anchor, v) /\ p.witness = v
    BY <2>1
  <2>4. Claim(here, anchor, v).anchor = anchor
    BY DEF Claim, Instance
  <2> QED
    BY <2>2, <2>3, <2>4
<1>2. /\ ~FromTheFuture(old, claim.now)
      /\ SpendsFromTree(claim, w, old)
      /\ claim.nullifier = nf
      /\ claim.cm = commitment(new)
      /\ claim.cv_net = value_commitment(Worth(old, claim.now) - new.value, w.rcv)
  BY <1>1, Zenon DEF Statement
<1>3. /\ w.old \in Leaves \/ Kind(w.old.rho) = {"seed", "what", "action"}
      /\ IsNote(w.old) /\ w.old.value \in Nat /\ w.old.t_note \in Nat
      /\ w.path \in Paths /\ w.position = w.path.position
      /\ IsNote(w.new) /\ w.new.value \in Nat
  BY <1>1, WitnessParts
<1> HIDE DEF claim, w
<1>4. /\ old = [community |-> Community, coin_community |-> Community, value |-> w.old.value,
               t_note |-> w.old.t_note, address |-> address_of(w.fvk), rho |-> w.old.rho,
               memo_cm |-> w.old.memo_cm, rseed |-> w.old.rseed]
      /\ new = [community |-> Community, coin_community |-> Community, value |-> w.new.value,
               t_note |-> clock, address |-> w.new.address, rho |-> nf,
               memo_cm |-> w.new.memo_cm, rseed |-> w.new.rseed]
  <2>1. claim.community = Community /\ claim.now = clock
    BY DEF claim
  <2>2. OldNote(claim, w) =
              [community |-> Community, coin_community |-> Community, value |-> w.old.value,
               t_note |-> w.old.t_note, address |-> address_of(w.fvk), rho |-> w.old.rho,
               memo_cm |-> w.old.memo_cm, rseed |-> w.old.rseed]
    BY <1>3, <2>1, OldNoteFields
  <2>3. NewNote(claim, w, nf) =
              [community |-> Community, coin_community |-> Community, value |-> w.new.value,
               t_note |-> clock, address |-> w.new.address, rho |-> nf,
               memo_cm |-> w.new.memo_cm, rseed |-> w.new.rseed]
    <3> HIDE DEF nf
    <3> QED
      BY <1>3, <2>1, NewNoteFields
  <2> QED
    BY <2>2, <2>3
<1>5. claim.now = clock
  BY DEF claim
<1> HIDE DEF old, new
<1>6. w.old.t_note <= clock
  BY <1>2, <1>3, <1>4, <1>5 DEF FromTheFuture, PInv
<1>7. Kind(claim.nullifier) = NullifierKind
  BY <1>2, Kinds DEF NullifierKind
<1>8. claim.cv_net = value_commitment(Worth(w.old, clock) - w.new.value, w.rcv)
  BY <1>2, <1>4, <1>5 DEF Worth
<1>9. ASSUME w.old.value > 0
      PROVE  /\ w.old \in Leaves /\ w.old.address.ak = w.fvk.ak
             /\ claim.nullifier = nullifier(w.old.address.nk, w.old)
  <2>1. PathLeadsTo(old, w.path.position, w.path, anchor)
    <3>1. old.value # 0
      BY <1>3, <1>4, <1>9
    <3> QED
      BY <1>1, <1>2, <1>3, <3>1 DEF SpendsFromTree, commitment, claim
  <2>2. old \in Leaves
    BY <1>3, <2>1, PathsLeadToLeaves
  <2>3. PICK k \in DOMAIN tree.leaves : old = tree.leaves[k]
    BY <2>2 DEF Leaves
  <2>4. Kind(old.rho) = CreationKind \/ Kind(old.rho) = NullifierKind
    <3>1. old.rho = creation_rho(Community, k - 1) \/ old.rho \in nullifiers
      BY <2>3 DEF PInv, LeavesAreNotes
    <3> QED
      BY <3>1, Kinds DEF PInv, NullifiersAreNullifiers, CreationKind
  <2>5. w.old \in Leaves
    <3>1. old.rho = w.old.rho
      BY <1>4
    <3> QED
      BY <1>3, <2>4, <3>1, KindsDiffer DEF CreationKind, NullifierKind
  <2>6. PICK l \in DOMAIN tree.leaves : w.old = tree.leaves[l]
    BY <2>5 DEF Leaves
  <2>7. k = l
    <3>1. tree.leaves[k].rho = tree.leaves[l].rho
      BY <1>4, <2>3, <2>6
    <3> QED
      BY <3>1 DEF PInv, RhosDistinct
  <2>8. old = w.old
    BY <2>3, <2>6, <2>7
  <2>9. w.old.address = [ak |-> w.fvk.ak, nk |-> w.fvk.nk]
    <3>1. old.address = address_of(w.fvk)
      BY <1>4
    <3> QED
      BY <2>8, <3>1 DEF address_of, commit_ivk
  <2> QED
    BY <1>2, <2>5, <2>8, <2>9
<1>10. /\ IsNote(claim.cm) /\ claim.cm.rho = claim.nullifier
       /\ claim.cm.community = Community /\ claim.cm.coin_community = Community
       /\ claim.cm.value = w.new.value /\ claim.cm.t_note = clock
  <2>1. claim.cm = new
    BY <1>2 DEF commitment
  <2> HIDE DEF nf
  <2> QED
    BY <1>2, <1>4, <2>1 DEF IsNote
<1> QED
  BY <1>3, <1>6, <1>7, <1>8, <1>9, <1>10 DEF claim, w

-----------------------------------------------------------------------------
(* Steps that add to the tree keep every root a part of it.                *)
LEMMA TreeGrows ==
  ASSUME PInv, TreeIsRecord', Len(tree.leaves) <= Len(tree'.leaves),
         \A p \in 1..Len(tree.leaves) : tree'.leaves[p] = tree.leaves[p],
         NEW e, e.root = tree'.leaves, log' = Append(log, e)
  PROVE  Listed(log)' /\ RootsArePrefixes' /\ Leaves \subseteq Leaves'
<1>1. /\ Len(tree.leaves) \in Nat /\ DOMAIN tree.leaves = 1..Len(tree.leaves)
      /\ Len(tree'.leaves) \in Nat /\ DOMAIN tree'.leaves = 1..Len(tree'.leaves)
      /\ Listed(tree'.leaves)
  BY ListedProperties DEF PInv, TreeIsRecord
<1>2. /\ Listed(log') /\ Len(log) \in Nat /\ DOMAIN log = 1..Len(log)
      /\ DOMAIN log' = 1..(Len(log) + 1)
      /\ \A i \in 1..Len(log) : log'[i] = log[i]
      /\ log'[Len(log) + 1] = e
  <2>1. /\ Listed(log') /\ Len(log') = Len(log) + 1 /\ Len(log) \in Nat /\ DOMAIN log = 1..Len(log)
        /\ \A i \in 1..Len(log) : log'[i] = log[i]
        /\ log'[Len(log) + 1] = e
    BY Appending, ListedProperties DEF PInv
  <2>2. DOMAIN log' = 1..Len(log')
    BY <2>1, ListedProperties
  <2> QED
    BY <2>1, <2>2
<1>3. RootsArePrefixes'
  <2> SUFFICES ASSUME NEW i \in DOMAIN log'
               PROVE  /\ Listed(log'[i].root) /\ Len(log'[i].root) <= Len(tree'.leaves)
                      /\ \A p \in 1..Len(log'[i].root) : log'[i].root[p] = tree'.leaves[p]
    BY DEF RootsArePrefixes, Listed
  <2>1. CASE i = Len(log) + 1
    BY <1>1, <1>2, <2>1
  <2>2. CASE i # Len(log) + 1
    <3>1. i \in DOMAIN log /\ log'[i] = log[i]
      BY <1>2, <2>2
    <3> DEFINE root == log[i].root
    <3>2. /\ Listed(root) /\ Len(root) <= Len(tree.leaves)
          /\ \A p \in 1..Len(root) : root[p] = tree.leaves[p]
      BY <3>1 DEF PInv, RootsArePrefixes
    <3>3. Len(root) \in Nat
      BY <3>2, ListedProperties
    <3> HIDE DEF root
    <3>4. \A p \in 1..Len(root) : p \in 1..Len(tree.leaves)
      BY <1>1, <3>2, <3>3
    <3>5. log'[i].root = root
      BY <3>1 DEF root
    <3> QED
      BY <1>1, <3>2, <3>3, <3>4, <3>5
  <2> QED
    BY <2>1, <2>2
<1>4. Leaves \subseteq Leaves'
  BY <1>1 DEF Leaves
<1> QED
  BY <1>2, <1>3, <1>4 DEF Listed

(* New leaves have a rho no leaf had.                                      *)
LEMMA LeavesGrow ==
  ASSUME PInv, TreeIsRecord', Len(tree.leaves) <= Len(tree'.leaves), clock' = clock,
         \A p \in 1..Len(tree.leaves) : tree'.leaves[p] = tree.leaves[p],
         nullifiers \subseteq nullifiers', NullifiersAreNullifiers',
         \A i \in (Len(tree.leaves) + 1)..Len(tree'.leaves) :
           LET leaf == tree'.leaves[i]
           IN  /\ IsNote(leaf)
               /\ leaf.community = Community /\ leaf.coin_community = Community
               /\ leaf.value \in Nat /\ leaf.t_note = clock
               /\ leaf.rho = creation_rho(Community, i - 1) \/ leaf.rho \in nullifiers' \ nullifiers,
         \A i, j \in (Len(tree.leaves) + 1)..Len(tree'.leaves) :
           tree'.leaves[i].rho = tree'.leaves[j].rho => i = j
  PROVE  LeavesAreNotes' /\ RhosDistinct'
<1> DEFINE n == Len(tree.leaves)
           m == Len(tree'.leaves)
<1>1. /\ n \in Nat /\ DOMAIN tree.leaves = 1..n
      /\ m \in Nat /\ DOMAIN tree'.leaves = 1..m /\ n <= m
  BY ListedProperties DEF PInv, TreeIsRecord
<1> HIDE DEF n, m
<1>2. \A i \in 1..m : i \in 1..n \/ i \in (n + 1)..m
  BY <1>1
<1>3. ASSUME NEW i \in 1..n
      PROVE  /\ tree'.leaves[i] = tree.leaves[i]
             /\ tree.leaves[i].rho = creation_rho(Community, i - 1) \/ tree.leaves[i].rho \in nullifiers
  BY <1>1 DEF PInv, LeavesAreNotes, n
<1>4. LeavesAreNotes'
  <2> SUFFICES ASSUME NEW i \in 1..m
               PROVE  LET leaf == tree'.leaves[i]
                      IN  /\ IsNote(leaf)
                          /\ leaf.community = Community /\ leaf.coin_community = Community
                          /\ leaf.value \in Nat /\ leaf.t_note \in Nat /\ leaf.t_note <= clock
                          /\ leaf.rho = creation_rho(Community, i - 1) \/ leaf.rho \in nullifiers'
    BY <1>1 DEF LeavesAreNotes, IsNote, creation_rho
  <2>1. CASE i \in 1..n
    BY <1>1, <1>3, <2>1 DEF PInv, LeavesAreNotes
  <2>2. CASE i \in (n + 1)..m
    BY <2>2 DEF PInv, n, m
  <2> QED
    BY <1>2, <2>1, <2>2
<1>5. ASSUME NEW i \in 1..n, NEW j \in (n + 1)..m
      PROVE  tree'.leaves[i].rho # tree'.leaves[j].rho
  <2> DEFINE r == tree.leaves[i].rho
             q == tree'.leaves[j].rho
  <2>1. r = creation_rho(Community, i - 1) \/ r \in nullifiers
    BY <1>3
  <2>2. q = creation_rho(Community, j - 1) \/ q \in nullifiers' \ nullifiers
    BY DEF n, m
  <2>3. tree'.leaves[i].rho = r
    BY <1>3
  <2>4. Kind(creation_rho(Community, i - 1)) = CreationKind
        /\ Kind(creation_rho(Community, j - 1)) = CreationKind
        /\ CreationKind # NullifierKind
    BY Kinds, KindsDiffer DEF CreationKind, NullifierKind
  <2>5. /\ \A nf \in nullifiers : Kind(nf) = NullifierKind
        /\ \A nf \in nullifiers' : Kind(nf) = NullifierKind
    BY DEF PInv, NullifiersAreNullifiers, Kind, NullifierKind
  <2>6. creation_rho(Community, i - 1) # creation_rho(Community, j - 1)
    <3>1. i - 1 # j - 1
      BY <1>1
    <3>2. creation_rho(Community, i - 1).at = i - 1 /\ creation_rho(Community, j - 1).at = j - 1
      BY DEF creation_rho
    <3> QED
      BY <3>1, <3>2
  <2> HIDE DEF r, q
  <2>7. r # q
    BY <2>1, <2>2, <2>4, <2>5, <2>6
  <2> QED
    BY <2>3, <2>7 DEF q
<1>6. RhosDistinct'
  <2> SUFFICES ASSUME NEW i \in 1..m, NEW j \in 1..m, tree'.leaves[i].rho = tree'.leaves[j].rho
               PROVE  i = j
    BY <1>1 DEF RhosDistinct
  <2>1. CASE i \in 1..n /\ j \in 1..n
    BY <1>1, <1>3, <2>1 DEF PInv, RhosDistinct
  <2>2. CASE i \in (n + 1)..m /\ j \in (n + 1)..m
    BY <2>2 DEF n, m
  <2> QED
    BY <1>2, <1>5, <2>1, <2>2
<1> QED
  BY <1>4, <1>6

-----------------------------------------------------------------------------
(* PInv survives what leaves the ledger alone.                             *)
LEMMA NothingKeepsPInv ==
  ASSUME PInv, UNCHANGED <<tree, nullifiers, log, spent>>, clock' \in Nat, clock <= clock'
  PROVE  PInv'
<1>1. Listed(log)' /\ Listed(spent)' /\ TreeIsRecord'
  BY DEF PInv, TreeIsRecord, Listed
<1>2. RootsArePrefixes'
  <2> SUFFICES ASSUME NEW i \in DOMAIN log'
               PROVE  /\ Listed(log'[i].root) /\ Len(log'[i].root) <= Len(tree'.leaves)
                      /\ \A p \in 1..Len(log'[i].root) : log'[i].root[p] = tree'.leaves[p]
    BY DEF RootsArePrefixes, Listed
  <2>1. log' = log /\ tree' = tree
    OBVIOUS
  <2>2. /\ Listed(log[i].root) /\ Len(log[i].root) <= Len(tree.leaves)
        /\ \A p \in 1..Len(log[i].root) : log[i].root[p] = tree.leaves[p]
    BY <2>1 DEF PInv, RootsArePrefixes
  <2> QED
    BY <2>1, <2>2
<1>3. LeavesAreNotes'
  <2> SUFFICES ASSUME NEW i \in DOMAIN tree.leaves
               PROVE  LET leaf == tree.leaves[i]
                      IN  /\ IsNote(leaf)
                          /\ leaf.community = Community /\ leaf.coin_community = Community
                          /\ leaf.value \in Nat /\ leaf.t_note \in Nat /\ leaf.t_note <= clock'
                          /\ leaf.rho = creation_rho(Community, i - 1) \/ leaf.rho \in nullifiers
    BY DEF LeavesAreNotes, IsNote, creation_rho
  <2>1. clock \in Nat
    BY DEF PInv
  <2> QED
    BY <2>1 DEF PInv, LeavesAreNotes
<1>4. RhosDistinct' /\ NullifiersAreNullifiers'
  BY DEF PInv, RhosDistinct, NullifiersAreNullifiers, Kind
<1>5. SpentIsGone'
  BY DEF PInv, SpentIsGone, Leaves
<1>6. NoteSpentOnce' /\ ValueConserved'
  BY DEF PInv, NoteSpentOnce, ValueConserved
<1> QED
  BY <1>1, <1>2, <1>3, <1>4, <1>5, <1>6 DEF PInv

(* A creation adds a note whose rho is its place: PInv holds on.           *)
LEMMA CreateKeepsPInv ==
  ASSUME PInv, NEW owner \in Owner, Create(owner)
  PROVE  PInv'
<1> DEFINE n == Len(tree.leaves)
           note == from_parts(Community, CreationValue, clock, address_of(full_viewing_key(owner)),
                              creation_rho(Community, Size(tree)), "none", Fresh(<<>>, "rseed", 0))
<1>1. Node!AddNote(note) /\ clock' = clock /\ spent' = spent
  BY DEF Create, commitment
<1>2. /\ IsNote(note) /\ note.rho = creation_rho(Community, n)
      /\ note.community = Community /\ note.coin_community = Community
      /\ note.value \in Nat /\ note.t_note = clock
  BY ValueAssumption DEF from_parts, IsNote, Size
<1> HIDE DEF note
<1>3. CASE ~Node!HasRoomFor(tree, 1)
  <2>1. UNCHANGED <<tree, nullifiers, log, spent>>
    BY <1>1, <1>3 DEF Node!AddNote
  <2>2. clock' \in Nat /\ clock <= clock'
    BY <1>1 DEF PInv
  <2> QED
    BY <2>1, <2>2, NothingKeepsPInv
<1>4. CASE Node!HasRoomFor(tree, 1)
  <2>1. /\ Node!Seal(Node!Appended(tree, note, TRUE), <<>>, {}) /\ nullifiers' = nullifiers
    BY <1>1, <1>4 DEF Node!AddNote
  <2> DEFINE grown == Node!Appended(tree, note, TRUE)
  <2>2. grown = [leaves |-> Append(tree.leaves, note), marked |-> tree.marked \cup {Node!Size(tree)},
                 checkpoints |-> tree.checkpoints]
    <3> DEFINE l == tree.leaves
               k == tree.marked
               c == tree.checkpoints
    <3>1. tree = [leaves |-> l, marked |-> k, checkpoints |-> c]
      BY DEF PInv, TreeIsRecord
    <3> DEFINE t1 == [tree EXCEPT !.leaves = Append(l, note)]
    <3>2. grown = [t1 EXCEPT !.marked = k \cup {Node!Size(tree)}]
      BY DEF Node!Appended
    <3> DEFINE k2 == k \cup {Node!Size(tree)}
               l2 == Append(l, note)
    <3>5. grown = [t1 EXCEPT !.marked = k2]
      BY <3>2
    <3> HIDE DEF l, k, c, grown, k2
    <3>3. t1 = [leaves |-> Append(l, note), marked |-> k, checkpoints |-> c]
      BY <3>1
    <3>6. t1 = [leaves |-> l2, marked |-> k, checkpoints |-> c]
      BY <3>3
    <3> HIDE DEF t1, l2
    <3>4. [t1 EXCEPT !.marked = k2] = [leaves |-> l2, marked |-> k2, checkpoints |-> c]
      BY <3>6, TreeMarks
    <3> QED
      BY <3>5, <3>4 DEF l, k, c, k2, l2
  <2> HIDE DEF grown
  <2>3. /\ tree' = [grown EXCEPT !.checkpoints = grown.checkpoints + 1]
        /\ log' = Append(log, Node!Entry(<<>>, grown.leaves, {}))
    BY <2>1 DEF Node!Seal, Node!Checkpointed, Node!TreeRoot, grown
  <2>4. /\ tree' = [leaves |-> tree'.leaves, marked |-> tree'.marked, checkpoints |-> tree'.checkpoints]
        /\ tree'.leaves = Append(tree.leaves, note)
    BY <2>2, <2>3
  <2>5. /\ Listed(tree'.leaves) /\ Len(tree'.leaves) = n + 1 /\ n \in Nat
        /\ \A p \in 1..n : tree'.leaves[p] = tree.leaves[p]
        /\ tree'.leaves[n + 1] = note
    BY <2>4, Appending, ListedProperties DEF PInv, TreeIsRecord
  <2>6. TreeIsRecord'
    BY <2>4, <2>5 DEF TreeIsRecord, Listed
  <2>7. Listed(log)' /\ RootsArePrefixes' /\ Leaves \subseteq Leaves'
    <3> DEFINE e == Node!Entry(<<>>, grown.leaves, {})
    <3>1. e.root = tree'.leaves
      BY <2>2, <2>4 DEF Node!Entry
    <3>2. log' = Append(log, e)
      BY <2>3
    <3> HIDE DEF e
    <3> QED
      BY <2>5, <2>6, <3>1, <3>2, TreeGrows
  <2>8. NullifiersAreNullifiers'
    BY <2>1 DEF PInv, NullifiersAreNullifiers, Kind
  <2>9. LeavesAreNotes' /\ RhosDistinct'
    <3>1. \A i \in (n + 1)..Len(tree'.leaves) : i = n + 1 /\ tree'.leaves[i] = note /\ i - 1 = n
      BY <2>5
    <3> QED
      BY <1>1, <1>2, <2>1, <2>5, <2>6, <2>8, <3>1, LeavesGrow
  <2> QED
    BY <1>1, <2>1, <2>6, <2>7, <2>8, <2>9 DEF PInv, SpentIsGone, NoteSpentOnce, ValueConserved, Listed
<1> QED
  BY <1>3, <1>4
-----------------------------------------------------------------------------
(* What Transact names in its LETs.                                        *)
ActionsOf(proven) ==
  [i \in DOMAIN proven |->
     [cv_net |-> proven[i].claim.cv_net, rk |-> proven[i].claim.rk,
      nullifier |-> proven[i].claim.nullifier, cm |-> proven[i].claim.cm]]
SighashOf(here, anchor, proven) ==
  [anchor |-> anchor, now |-> here.now, actions |-> ActionsOf(proven)]
BundleOf(here, anchor, proven) ==
  [anchor |-> anchor, now |-> here.now, community |-> here.community,
   actions |-> ActionsOf(proven),
   proof |-> [of |-> [i \in DOMAIN proven |-> proven[i].claim], holds |-> TRUE],
   spend_auth_sigs |-> [i \in DOMAIN proven |->
                          sign_spend_auth(proven[i].witness.fvk.ak, proven[i].witness.alpha,
                                          SighashOf(here, anchor, proven))],
   binding_sig |-> sign_binding([i \in DOMAIN proven |-> proven[i].witness.rcv],
                                SighashOf(here, anchor, proven))]
SpentBy(proven) ==
  [now |-> clock,
   old |-> [i \in DOMAIN proven |-> proven[i].witness.old],
   ak |-> [i \in DOMAIN proven |-> proven[i].witness.fvk.ak],
   created |-> [i \in DOMAIN proven |-> proven[i].witness.new.value]]

(* The parts of a transaction the ledger accepts.                          *)
LEMMA TransactSteps ==
  ASSUME NEW here, NEW anchor, NEW proven, Transact(here, anchor, proven)
  PROVE  /\ Node!Apply(Received(BundleOf(here, anchor, proven), Community, clock),
                       SighashOf(here, anchor, proven))
         /\ outcome' = "Ok"
         /\ spent' = Append(spent, SpentBy(proven))
         /\ clock' = clock
BY Zenon DEF Transact, BundleOf, SighashOf, ActionsOf, SpentBy

(* What the receiver puts in the place of what the bundle was made for.    *)
LEMMA ReceivedFields ==
  ASSUME NEW here, NEW anchor, NEW proven
  PROVE  LET bundle == Received(BundleOf(here, anchor, proven), Community, clock)
         IN  /\ bundle.anchor = anchor /\ bundle.now = clock /\ bundle.community = Community
             /\ bundle.actions = ActionsOf(proven)
             /\ bundle.proof.of = [i \in DOMAIN proven |-> proven[i].claim]
             /\ bundle.binding_sig = sign_binding([i \in DOMAIN proven |-> proven[i].witness.rcv],
                                                  SighashOf(here, anchor, proven))
<1> DEFINE a == ActionsOf(proven)
           f == [of |-> [i \in DOMAIN proven |-> proven[i].claim], holds |-> TRUE]
           s == [i \in DOMAIN proven |->
                          sign_spend_auth(proven[i].witness.fvk.ak, proven[i].witness.alpha,
                                          SighashOf(here, anchor, proven))]
           b == sign_binding([i \in DOMAIN proven |-> proven[i].witness.rcv],
                             SighashOf(here, anchor, proven))
           c == here.community
           n == here.now
           made == BundleOf(here, anchor, proven)
           moved == [made EXCEPT !.community = Community]
<1>1. made = [anchor |-> anchor, now |-> n, community |-> c, actions |-> a, proof |-> f,
              spend_auth_sigs |-> s, binding_sig |-> b]
  BY Zenon DEF BundleOf
<1>2. Received(made, Community, clock) = [moved EXCEPT !.now = clock]
  BY DEF Received
<1>3. f.of = [i \in DOMAIN proven |-> proven[i].claim]
  OBVIOUS
<1> HIDE DEF a, f, s, b, c, n, made
<1>4. moved = [anchor |-> anchor, now |-> n, community |-> Community, actions |-> a, proof |-> f,
               spend_auth_sigs |-> s, binding_sig |-> b]
  BY <1>1
<1> HIDE DEF moved
<1>5. [moved EXCEPT !.now = clock] =
              [anchor |-> anchor, now |-> clock, community |-> Community, actions |-> a, proof |-> f,
               spend_auth_sigs |-> s, binding_sig |-> b]
  BY <1>4
<1>6. LET bundle == [anchor |-> anchor, now |-> clock, community |-> Community, actions |-> a,
                     proof |-> f, spend_auth_sigs |-> s, binding_sig |-> b]
      IN  /\ bundle.anchor = anchor /\ bundle.now = clock /\ bundle.community = Community
          /\ bundle.actions = a /\ bundle.proof = f /\ bundle.binding_sig = b
  OBVIOUS
<1> QED
  BY <1>2, <1>3, <1>5, <1>6 DEF made, a, b

(* What the ledger did with a bundle it took.                              *)
LEMMA Accepted ==
  ASSUME NEW bundle, NEW sighash, Node!Apply(bundle, sighash), outcome' = "Ok"
  PROVE  /\ verify_bundle_crypto(bundle, sighash) = "Ok"
         /\ Len(bundle.actions) = NumActions
         /\ Node!HasRoomFor(tree, NumActions)
         /\ Node!Insertable(nullifiers, Node!NullifiersOf(bundle))
         /\ nullifiers' = nullifiers \cup Node!Elements(Node!NullifiersOf(bundle))
         /\ Node!Seal(Node!AppendedAll(tree, Node!CommitmentsOf(bundle)), Node!NullifiersOf(bundle),
                      {bundle.anchor})
<1>1. Node!Verify(bundle, sighash) = "Ok"
  BY Zenon DEF Node!Apply
<1>2. Node!Write(bundle)
  BY <1>1, Zenon DEF Node!Apply
<1>3. /\ verify_bundle_crypto(bundle, sighash) = "Ok"
      /\ Len(bundle.actions) = NumActions
      /\ Node!HasRoomFor(tree, NumActions)
  BY <1>1 DEF Node!Verify
<1>4. Node!Insertable(nullifiers, Node!NullifiersOf(bundle))
  <2> SUFFICES ASSUME ~Node!Insertable(nullifiers, Node!NullifiersOf(bundle)) PROVE FALSE
    OBVIOUS
  <2>1. outcome' = "DoubleSpend"
    BY <1>2 DEF Node!Write
  <2> QED
    BY <2>1
<1>5. /\ nullifiers' = nullifiers \cup Node!Elements(Node!NullifiersOf(bundle))
      /\ Node!Seal(Node!AppendedAll(tree, Node!CommitmentsOf(bundle)), Node!NullifiersOf(bundle),
                   {bundle.anchor})
  BY <1>2, <1>4 DEF Node!Write
<1> QED
  BY <1>3, <1>4, <1>5

(* What the proof and the binding signature of such a bundle say.          *)
LEMMA Balanced ==
  ASSUME NEW bundle, NEW sighash, verify_bundle_crypto(bundle, sighash) = "Ok"
  PROVE  /\ bundle.proof.of = instances(bundle.community, bundle.anchor, bundle.now, bundle.actions)
         /\ bundle.binding_sig = [key |-> binding_verification_key(bundle.actions), over |-> sighash]
BY DEF verify_bundle_crypto, verify_binding

(* The total of two values.                                                *)
LEMMA TotalOfTwo ==
  ASSUME NEW values, values \in [1..2 -> Int]
  PROVE  Total(values) = values[1] + values[2]
<1>1. 2 \in Nat
  OBVIOUS
<1>2. PICK sums : Sums(values, 2, sums)
  BY <1>1, SumsExist
<1>3. FoldLeft(LAMBDA a, b : a + b, 0, values) = sums[2]
  BY <1>1, <1>2, FoldIsSum, Zenon
<1>4. sums[2] = values[1] + values[2]
  BY <1>2 DEF Sums
<1> QED
  BY <1>3, <1>4, Zenon DEF Total

(* What one transaction consists of.                                       *)
LEMMA TransactParts ==
  ASSUME PInv, NEW here, NEW anchor \in Roots,
         NEW proven, proven \in Proven(here, anchor, 1) \X Proven(here, anchor, 2),
         Transact(here, anchor, proven)
  PROVE  /\ DOMAIN proven = 1..2 /\ NumActions = 2
         /\ \A i \in 1..2 : /\ proven[i] \in Proven(here, anchor, i)
                            /\ proven[i].claim.community = Community
                            /\ proven[i].claim.now = clock
         /\ Total([i \in 1..2 |-> proven[i].claim.cv_net.value]) = 0
         /\ Node!HasRoomFor(tree, 2)
         /\ \A i \in 1..2 : proven[i].claim.nullifier \notin nullifiers
         /\ proven[1].claim.nullifier # proven[2].claim.nullifier
         /\ nullifiers' = nullifiers \cup {proven[i].claim.nullifier : i \in 1..2}
         /\ \E nfs, under : Node!Seal(Node!AppendedAll(tree, [i \in 1..2 |-> proven[i].claim.cm]), nfs, under)
<1> DEFINE bundle == Received(BundleOf(here, anchor, proven), Community, clock)
           sighash == SighashOf(here, anchor, proven)
           actions == ActionsOf(proven)
<1>1. /\ DOMAIN proven = 1..2
      /\ \A i \in 1..2 : proven[i] \in Proven(here, anchor, i)
  OBVIOUS
<1>2. /\ Node!Apply(bundle, sighash) /\ outcome' = "Ok"
  BY TransactSteps
<1>3. /\ bundle.anchor = anchor /\ bundle.now = clock /\ bundle.community = Community
      /\ bundle.actions = actions
      /\ bundle.proof.of = [i \in DOMAIN proven |-> proven[i].claim]
      /\ bundle.binding_sig = sign_binding([i \in DOMAIN proven |-> proven[i].witness.rcv], sighash)
  BY ReceivedFields
<1> HIDE DEF bundle, sighash
<1>4. /\ verify_bundle_crypto(bundle, sighash) = "Ok"
      /\ Len(bundle.actions) = NumActions
      /\ Node!HasRoomFor(tree, NumActions)
      /\ Node!Insertable(nullifiers, Node!NullifiersOf(bundle))
      /\ nullifiers' = nullifiers \cup Node!Elements(Node!NullifiersOf(bundle))
      /\ Node!Seal(Node!AppendedAll(tree, Node!CommitmentsOf(bundle)), Node!NullifiersOf(bundle),
                   {bundle.anchor})
  BY <1>2, Accepted
<1>5. /\ DOMAIN actions = 1..2
      /\ \A i \in 1..2 : /\ actions[i].cv_net = proven[i].claim.cv_net
                         /\ actions[i].nullifier = proven[i].claim.nullifier
                         /\ actions[i].cm = proven[i].claim.cm
  BY <1>1 DEF ActionsOf
<1>6. NumActions = 2
  <2>1. actions = [i \in 1..2 |-> actions[i]]
    BY <1>1 DEF ActionsOf
  <2> HIDE DEF actions
  <2>2. Len(actions) = 2
    BY <1>5, <2>1, Lists
  <2> QED
    BY <1>3, <1>4, <2>2
<1>7. ASSUME NEW i \in 1..2
      PROVE  proven[i].claim.community = Community /\ proven[i].claim.now = clock
  <2>1. bundle.proof.of = instances(Community, anchor, clock, actions)
    BY <1>3, <1>4, Balanced
  <2>2. instances(Community, anchor, clock, actions)[i].community = Community
        /\ instances(Community, anchor, clock, actions)[i].now = clock
    BY <1>5 DEF instances, Instance
  <2>3. bundle.proof.of[i] = proven[i].claim
    BY <1>1, <1>3
  <2> QED
    BY <2>1, <2>2, <2>3
<1>8. Total([i \in 1..2 |-> proven[i].claim.cv_net.value]) = 0
  <2> DEFINE values == [i \in 1..2 |-> proven[i].claim.cv_net.value]
             rcvs == [i \in DOMAIN proven |-> proven[i].witness.rcv]
  <2>1. [i \in DOMAIN actions |-> actions[i].cv_net.value] = values
    BY <1>5
  <2>2. binding_verification_key(actions).value = Total(values)
    <3> HIDE DEF values, actions
    <3> QED
      BY <2>1 DEF binding_verification_key, value_commitment
  <2>3. bundle.binding_sig.key = binding_verification_key(actions)
    <3>1. bundle.binding_sig = [key |-> binding_verification_key(bundle.actions), over |-> sighash]
      BY <1>4, Balanced
    <3>2. bundle.actions = actions
      BY <1>3
    <3> HIDE DEF actions
    <3> QED
      BY <3>1, <3>2
  <2>4. bundle.binding_sig.key.value = 0
    <3> HIDE DEF rcvs
    <3> QED
      BY <1>3 DEF sign_binding, value_commitment, rcvs
  <2> QED
    BY <2>2, <2>3, <2>4
<1>9. /\ Node!NullifiersOf(bundle) = [i \in 1..2 |-> proven[i].claim.nullifier]
      /\ Node!CommitmentsOf(bundle) = [i \in 1..2 |-> proven[i].claim.cm]
  BY <1>3, <1>5 DEF Node!NullifiersOf, Node!CommitmentsOf
<1>10. /\ \A i \in 1..2 : proven[i].claim.nullifier \notin nullifiers
       /\ proven[1].claim.nullifier # proven[2].claim.nullifier
  <2> DEFINE nfs == [i \in 1..2 |-> proven[i].claim.nullifier]
  <2>1. Node!Insertable(nullifiers, nfs)
    BY <1>4, <1>9
  <2>2. \A i \in 1..2 : nfs[i] = proven[i].claim.nullifier
    OBVIOUS
  <2>3. DOMAIN nfs = 1..2
    OBVIOUS
  <2> HIDE DEF nfs
  <2>4. /\ \A i \in 1..2 : nfs[i] \notin nullifiers
        /\ \A i, j \in 1..2 : nfs[i] = nfs[j] => i = j
    BY <2>1, <2>3, Zenon DEF Node!Insertable
  <2>5. 1 \in 1..2 /\ 2 \in 1..2 /\ 1 # 2
    OBVIOUS
  <2> QED
    BY <2>2, <2>4, <2>5
<1>11. nullifiers' = nullifiers \cup {proven[i].claim.nullifier : i \in 1..2}
  BY <1>4, <1>9 DEF Node!Elements
<1>12. \E nfs, under : Node!Seal(Node!AppendedAll(tree, [i \in 1..2 |-> proven[i].claim.cm]), nfs, under)
  BY <1>4, <1>9, Zenon
<1> QED
  BY <1>1, <1>4, <1>6, <1>7, <1>8, <1>10, <1>11, <1>12

(* The tree after a loop of appends with room for both.                    *)
LEMMA TwoLeavesMore ==
  ASSUME PInv, NEW cms, DOMAIN cms = 1..2, cms = [i \in 1..2 |-> cms[i]],
         Node!HasRoomFor(tree, 2),
         NEW nfs, NEW under, Node!Seal(Node!AppendedAll(tree, cms), nfs, under)
  PROVE  LET n == Len(tree.leaves)
         IN  /\ n \in Nat /\ TreeIsRecord' /\ Len(tree'.leaves) = n + 2
             /\ \A p \in 1..n : tree'.leaves[p] = tree.leaves[p]
             /\ tree'.leaves[n + 1] = cms[1] /\ tree'.leaves[n + 2] = cms[2]
             /\ \E e : e.root = tree'.leaves /\ log' = Append(log, e)
<1> DEFINE n == Len(tree.leaves)
           grown == Node!AppendedAll(tree, cms)
           l == tree.leaves \o cms
<1>1. Listed(tree.leaves) /\ n \in Nat
  BY ListedProperties DEF PInv, TreeIsRecord
<1>2. Listed(cms) /\ Len(cms) = 2
  BY Lists
<1>3. SubSeq(cms, 1, 2) = cms
  BY <1>2, SubSeqFull DEF Listed
<1>4. /\ Listed(l) /\ Len(l) = n + 2
      /\ \A p \in 1..n : l[p] = tree.leaves[p]
      /\ l[n + 1] = cms[1] /\ l[n + 2] = cms[2]
  BY <1>1, <1>2, Joining
<1>5. grown = [tree EXCEPT !.leaves = l]
  <2>1. Len(cms) <= MAX_NOTES - Node!Size(tree)
    <3>1. n + 2 <= MAX_NOTES
      BY DEF Node!HasRoomFor, Node!Size
    <3> QED
      BY <1>1, <1>2, <3>1, MaxNotesAssumption DEF Node!Size
  <2>2. SubSeq(cms, 1, IF Len(cms) <= MAX_NOTES - Node!Size(tree) THEN Len(cms)
                       ELSE MAX_NOTES - Node!Size(tree)) = cms
    BY <1>2, <1>3, <2>1
  <2> QED
    BY <2>2 DEF Node!AppendedAll
<1> HIDE DEF grown
<1>6. grown = [leaves |-> l, marked |-> tree.marked, checkpoints |-> tree.checkpoints]
  <2> DEFINE a == tree.leaves
             k == tree.marked
             c == tree.checkpoints
  <2>1. tree = [leaves |-> a, marked |-> k, checkpoints |-> c]
    BY DEF PInv, TreeIsRecord
  <2> HIDE DEF a, k, c, l
  <2> QED
    BY <1>5, <2>1 DEF k, c
<1>7. /\ tree' = [grown EXCEPT !.checkpoints = grown.checkpoints + 1]
      /\ log' = Append(log, Node!Entry(nfs, grown.leaves, under))
  BY DEF Node!Seal, Node!Checkpointed, Node!TreeRoot, grown
<1> HIDE DEF l
<1>8. /\ tree' = [leaves |-> tree'.leaves, marked |-> tree'.marked, checkpoints |-> tree'.checkpoints]
      /\ tree'.leaves = l /\ grown.leaves = l
  BY <1>6, <1>7
<1>9. TreeIsRecord'
  BY <1>4, <1>8 DEF TreeIsRecord, Listed
<1>10. \E e : e.root = tree'.leaves /\ log' = Append(log, e)
  <2> DEFINE e == Node!Entry(nfs, grown.leaves, under)
  <2>1. e.root = tree'.leaves
    BY <1>8 DEF Node!Entry
  <2>2. log' = Append(log, e)
    BY <1>7
  <2> HIDE DEF e
  <2> QED
    BY <2>1, <2>2
<1> QED
  BY <1>1, <1>4, <1>8, <1>9, <1>10

(* Whatever bundle passes the node, PInv holds after it.                   *)
LEMMA TransactKeepsPInv ==
  ASSUME PInv, NEW here, NEW anchor \in Roots,
         NEW proven, proven \in Proven(here, anchor, 1) \X Proven(here, anchor, 2),
         Transact(here, anchor, proven)
  PROVE  PInv'
<1> DEFINE n  == Len(tree.leaves)
           m  == Len(spent)
           nf(i)  == proven[i].claim.nullifier
           cms == [i \in 1..2 |-> proven[i].claim.cm]
           old(i) == proven[i].witness.old
           ak(i)  == proven[i].witness.fvk.ak
           made(i) == proven[i].witness.new.value
<1>1. /\ DOMAIN proven = 1..2 /\ NumActions = 2
      /\ \A i \in 1..2 : /\ proven[i] \in Proven(here, anchor, i)
                         /\ proven[i].claim.community = Community
                         /\ proven[i].claim.now = clock
      /\ Total([i \in 1..2 |-> proven[i].claim.cv_net.value]) = 0
      /\ Node!HasRoomFor(tree, 2)
      /\ \A i \in 1..2 : nf(i) \notin nullifiers
      /\ nf(1) # nf(2)
      /\ nullifiers' = nullifiers \cup {nf(i) : i \in 1..2}
      /\ \E nfs, under : Node!Seal(Node!AppendedAll(tree, cms), nfs, under)
  BY TransactParts
<1>2. spent' = Append(spent, SpentBy(proven)) /\ clock' = clock
  BY TransactSteps
<1>3. ASSUME NEW i \in 1..2
      PROVE  /\ old(i).value \in Nat /\ old(i).t_note \in Nat /\ old(i).t_note <= clock
             /\ made(i) \in Nat
             /\ Kind(nf(i)) = NullifierKind
             /\ proven[i].claim.cv_net = value_commitment(Worth(old(i), clock) - made(i), proven[i].witness.rcv)
             /\ old(i).value > 0 => /\ old(i) \in Leaves /\ old(i).address.ak = ak(i)
                                    /\ nf(i) = nullifier(old(i).address.nk, old(i))
             /\ IsNote(cms[i]) /\ cms[i].rho = nf(i)
             /\ cms[i].community = Community /\ cms[i].coin_community = Community
             /\ cms[i].value = made(i) /\ cms[i].t_note = clock
  BY <1>1, ProvenAction
<1>4. DOMAIN cms = 1..2 /\ cms = [i \in 1..2 |-> cms[i]]
  OBVIOUS
<1>5. /\ SpentBy(proven).now = clock
      /\ SpentBy(proven).old = [i \in 1..2 |-> old(i)]
      /\ SpentBy(proven).ak = [i \in 1..2 |-> ak(i)]
      /\ SpentBy(proven).created = [i \in 1..2 |-> made(i)]
  BY <1>1 DEF SpentBy
<1> HIDE DEF nf, cms, old, ak, made
<1>6. /\ n \in Nat /\ TreeIsRecord' /\ Len(tree'.leaves) = n + 2
      /\ \A p \in 1..n : tree'.leaves[p] = tree.leaves[p]
      /\ tree'.leaves[n + 1] = cms[1] /\ tree'.leaves[n + 2] = cms[2]
      /\ \E e : e.root = tree'.leaves /\ log' = Append(log, e)
  BY <1>1, <1>4, TwoLeavesMore
<1>7. Listed(log)' /\ RootsArePrefixes' /\ Leaves \subseteq Leaves'
  <2>1. n <= Len(tree'.leaves)
    BY <1>6
  <2> QED
    BY <1>6, <2>1, TreeGrows
<1>8. nullifiers \subseteq nullifiers' /\ NullifiersAreNullifiers'
  BY <1>1, <1>3 DEF PInv, NullifiersAreNullifiers, Kind
<1>9. LeavesAreNotes' /\ RhosDistinct'
  <2>1. ASSUME NEW k \in (n + 1)..Len(tree'.leaves)
        PROVE  \E i \in 1..2 : k = n + i /\ tree'.leaves[k] = cms[i]
    <3>1. k = n + 1 \/ k = n + 2
      BY <1>6
    <3> QED
      BY <1>6, <3>1
  <2>2. ASSUME NEW k \in (n + 1)..Len(tree'.leaves)
        PROVE  LET leaf == tree'.leaves[k]
               IN  /\ IsNote(leaf)
                   /\ leaf.community = Community /\ leaf.coin_community = Community
                   /\ leaf.value \in Nat /\ leaf.t_note = clock
                   /\ leaf.rho = creation_rho(Community, k - 1) \/ leaf.rho \in nullifiers' \ nullifiers
    <3>1. PICK i \in 1..2 : tree'.leaves[k] = cms[i]
      BY <2>1
    <3>2. cms[i].rho \in nullifiers' \ nullifiers
      BY <1>1, <1>3
    <3> QED
      BY <1>3, <3>1, <3>2
  <2>3. ASSUME NEW k \in (n + 1)..Len(tree'.leaves), NEW l \in (n + 1)..Len(tree'.leaves),
               tree'.leaves[k].rho = tree'.leaves[l].rho
        PROVE  k = l
    <3>1. PICK i \in 1..2 : k = n + i /\ tree'.leaves[k] = cms[i]
      BY <2>1
    <3>2. PICK j \in 1..2 : l = n + j /\ tree'.leaves[l] = cms[j]
      BY <2>1
    <3>3. nf(i) = nf(j)
      BY <1>3, <2>3, <3>1, <3>2
    <3>4. i = j
      BY <1>1, <3>3
    <3> QED
      BY <3>1, <3>2, <3>4
  <2>4. n <= Len(tree'.leaves)
    BY <1>6
  <2> QED
    BY <1>2, <1>6, <1>8, <2>2, <2>3, <2>4, LeavesGrow
<1>10. /\ Listed(spent') /\ m \in Nat /\ DOMAIN spent = 1..m /\ DOMAIN spent' = 1..(m + 1)
       /\ \A e \in 1..m : spent'[e] = spent[e]
       /\ spent'[m + 1] = SpentBy(proven)
  <2>1. Listed(spent) /\ m \in Nat /\ DOMAIN spent = 1..m
    BY ListedProperties DEF PInv
  <2>2. /\ Listed(spent') /\ Len(spent') = m + 1
        /\ \A e \in 1..m : spent'[e] = spent[e]
        /\ spent'[m + 1] = SpentBy(proven)
    BY <1>2, <2>1, Appending
  <2> QED
    BY <2>1, <2>2, ListedProperties
<1> HIDE DEF m
<1>11. SpentIsGone'
  <2> SUFFICES ASSUME NEW e \in 1..(m + 1), NEW i \in DOMAIN spent'[e].old
               PROVE  LET gone == spent'[e].old[i]
                      IN  /\ gone.value \in Nat
                          /\ gone.value > 0 => /\ gone \in Leaves' /\ gone.address.ak = spent'[e].ak[i]
                                               /\ nullifier(gone.address.nk, gone) \in nullifiers'
    BY <1>10 DEF SpentIsGone, nullifier, commitment
  <2>1. CASE e = m + 1
    <3>1. i \in 1..2 /\ spent'[e].old[i] = old(i) /\ spent'[e].ak[i] = ak(i)
      BY <1>5, <1>10, <2>1
    <3> QED
      BY <1>1, <1>3, <1>7, <3>1
  <2>2. CASE e # m + 1
    <3>1. e \in 1..m /\ spent'[e] = spent[e]
      BY <1>10, <2>2
    <3> QED
      BY <1>7, <1>8, <1>10, <3>1 DEF PInv, SpentIsGone
  <2> QED
    BY <2>1, <2>2
<1>12. ASSUME NEW e \in 1..m, NEW j \in DOMAIN spent[e].old, NEW i \in 1..2,
              old(i).value > 0
       PROVE  spent[e].old[j] # old(i)
  <2> SUFFICES ASSUME spent[e].old[j] = old(i) PROVE FALSE
    OBVIOUS
  <2>1. nullifier(old(i).address.nk, old(i)) \in nullifiers
    BY <1>10, <1>12 DEF PInv, SpentIsGone
  <2> QED
    BY <1>1, <1>3, <1>12, <2>1
<1>13. NoteSpentOnce'
  <2> SUFFICES ASSUME NEW e \in 1..(m + 1), NEW f \in 1..(m + 1),
                      NEW i \in DOMAIN spent'[e].old, NEW j \in DOMAIN spent'[f].old,
                      spent'[e].old[i].value > 0, spent'[e].old[i] = spent'[f].old[j]
               PROVE  e = f /\ i = j
    BY <1>10 DEF NoteSpentOnce
  <2>1. \A k \in DOMAIN spent'[m + 1].old : k \in 1..2 /\ spent'[m + 1].old[k] = old(k)
    BY <1>5, <1>10
  <2>2. CASE e = m + 1 /\ f = m + 1
    <3>1. i \in 1..2 /\ j \in 1..2 /\ old(i) = old(j) /\ old(i).value > 0
      BY <2>1, <2>2
    <3>2. nf(i) = nf(j)
      BY <1>3, <3>1
    <3> QED
      BY <1>1, <2>2, <3>1, <3>2
  <2>3. CASE e = m + 1 /\ f # m + 1
    <3>1. f \in 1..m /\ spent'[f] = spent[f] /\ i \in 1..2 /\ spent'[e].old[i] = old(i)
      BY <1>10, <2>1, <2>3
    <3> QED
      BY <1>12, <3>1
  <2>4. CASE e # m + 1 /\ f = m + 1
    <3>1. e \in 1..m /\ spent'[e] = spent[e] /\ j \in 1..2 /\ spent'[f].old[j] = old(j)
      BY <1>10, <2>1, <2>4
    <3> QED
      BY <1>12, <3>1
  <2>5. CASE e # m + 1 /\ f # m + 1
    <3>1. e \in 1..m /\ spent'[e] = spent[e] /\ f \in 1..m /\ spent'[f] = spent[f]
      BY <1>10, <2>5
    <3> QED
      BY <1>10, <3>1 DEF PInv, NoteSpentOnce
  <2> QED
    BY <2>2, <2>3, <2>4, <2>5
<1>14. ValueConserved'
  <2> SUFFICES ASSUME NEW e \in 1..(m + 1)
               PROVE  Total([i \in DOMAIN spent'[e].old |->
                               decay_windowed(spent'[e].old[i].value,
                                              spent'[e].now - spent'[e].old[i].t_note)])
                      = Total(spent'[e].created)
    BY <1>10, Zenon DEF ValueConserved
  <2>1. CASE e = m + 1
    <3> DEFINE worth(i) == decay_windowed(old(i).value, clock - old(i).t_note)
               worths == [i \in 1..2 |-> worth(i)]
               net == [i \in 1..2 |-> worth(i) - made(i)]
    <3>1. \A i \in 1..2 : worth(i) \in Int /\ made(i) \in Int
      <4> TAKE i \in 1..2
      <4> DEFINE d == clock - old(i).t_note
                 v == old(i).value
      <4>1. v \in Nat /\ d \in Nat /\ made(i) \in Nat
        BY <1>3 DEF PInv
      <4> HIDE DEF v, d
      <4>2. decay_windowed(v, d) \in Nat
        BY <4>1, WorthIsNat
      <4> QED
        BY <4>1, <4>2 DEF v, d
    <3>2. [i \in 1..2 |-> proven[i].claim.cv_net.value] = net
      <4>1. \A i \in 1..2 : proven[i].claim.cv_net.value = worth(i) - made(i)
        <5> TAKE i \in 1..2
        <5>1. proven[i].claim.cv_net = value_commitment(Worth(old(i), clock) - made(i), proven[i].witness.rcv)
          BY <1>3
        <5>2. Worth(old(i), clock) = worth(i)
          BY Zenon DEF Worth
        <5> HIDE DEF worth
        <5> QED
          BY <5>1, <5>2 DEF value_commitment
      <4> HIDE DEF worth
      <4> QED
        BY <4>1
    <3>3. [i \in DOMAIN spent'[e].old |->
             decay_windowed(spent'[e].old[i].value, spent'[e].now - spent'[e].old[i].t_note)] = worths
      <4>1. /\ DOMAIN spent'[e].old = 1..2 /\ spent'[e].now = clock
            /\ \A i \in 1..2 : spent'[e].old[i] = old(i)
        BY <1>5, <1>10, <2>1
      <4> QED
        BY <4>1
    <3>4. spent'[e].created = [i \in 1..2 |-> made(i)]
      BY <1>5, <1>10, <2>1
    <3> HIDE DEF worth
    <3>5. /\ worths \in [1..2 -> Int] /\ net \in [1..2 -> Int] /\ [i \in 1..2 |-> made(i)] \in [1..2 -> Int]
      BY <3>1
    <3>6. /\ Total(worths) = worth(1) + worth(2)
          /\ Total([i \in 1..2 |-> made(i)]) = made(1) + made(2)
          /\ Total(net) = (worth(1) - made(1)) + (worth(2) - made(2))
      BY <3>5, TotalOfTwo
    <3>7. Total(net) = 0
      BY <1>1, <3>2
    <3>8. worth(1) \in Int /\ worth(2) \in Int /\ made(1) \in Int /\ made(2) \in Int
      BY <3>1
    <3> HIDE DEF worths, net
    <3>9. Total(worths) = Total([i \in 1..2 |-> made(i)])
      BY <3>6, <3>7, <3>8
    <3> QED
      BY <3>3, <3>4, <3>9
  <2>2. CASE e # m + 1
    <3>1. e \in DOMAIN spent /\ spent'[e] = spent[e]
      BY <1>10, <2>2
    <3>2. Total([i \in DOMAIN spent[e].old |->
                    decay_windowed(spent[e].old[i].value, spent[e].now - spent[e].old[i].t_note)])
          = Total(spent[e].created)
      BY <3>1, Zenon DEF PInv, ValueConserved
    <3> QED
      BY <3>1, <3>2
  <2> QED
    BY <2>1, <2>2
<1> QED
  BY <1>2, <1>6, <1>7, <1>8, <1>9, <1>10, <1>11, <1>13, <1>14 DEF PInv, Listed

-----------------------------------------------------------------------------
(* PInv holds in every state that can be reached.                          *)
LEMMA Inductive == Spec => []PInv
<1>1. ASSUME PInv, [Next]_vars
      PROVE  PInv'
  <2>1. CASE Tick
    <3>1. UNCHANGED <<tree, nullifiers, log, spent>> /\ clock' = clock + 1
      BY <2>1 DEF Tick, ledger
    <3>2. clock' \in Nat /\ clock <= clock'
      BY <1>1, <3>1 DEF PInv
    <3> QED
      BY <1>1, <3>1, <3>2, NothingKeepsPInv
  <2>2. CASE \E owner \in Owner : Create(owner)
    BY <1>1, <2>2, CreateKeepsPInv
  <2>3. CASE /\ Len(log) <= MAX_LOG
             /\ \E here \in Settings, anchor \in Roots :
                  \E proven \in Proven(here, anchor, 1) \X Proven(here, anchor, 2) :
                    Transact(here, anchor, proven)
    <3>1. PICK here \in Settings, anchor \in Roots :
            \E proven \in Proven(here, anchor, 1) \X Proven(here, anchor, 2) :
              Transact(here, anchor, proven)
      BY <2>3, Zenon
    <3>2. PICK proven \in Proven(here, anchor, 1) \X Proven(here, anchor, 2) :
            Transact(here, anchor, proven)
      BY <3>1, Zenon
    <3> QED
      BY <1>1, <3>2, TransactKeepsPInv
  <2>4. CASE UNCHANGED vars
    <3>1. UNCHANGED <<tree, nullifiers, log, spent>> /\ clock' = clock
      BY <2>4 DEF vars, ledger
    <3>2. clock' \in Nat /\ clock <= clock'
      BY <1>1, <3>1 DEF PInv
    <3> QED
      BY <1>1, <3>1, <3>2, NothingKeepsPInv
  <2> QED
    BY <1>1, <2>1, <2>2, <2>3, <2>4, Zenon DEF Next
<1> QED
  BY <1>1, InitPInv, PTL DEF Spec

(* Whoever spends a note of value spends one that stands in the tree and is
   theirs (gates cm_old, root = anchor, rk and pk_d).                      *)

THEOREM OnlyOwnersSpend == Spec => []SpentNotesAreOwned
<1>1. PInv => SpentNotesAreOwned
  BY DEF PInv, SpentIsGone, SpentNotesAreOwned
<1> QED
  BY <1>1, Inductive, PTL

(* No note is spent twice, whoever tries (gate nf, NullifierSet).          *)
THEOREM NoteIsSpentOnce == Spec => []NoteSpentOnce
<1>1. PInv => NoteSpentOnce
  BY DEF PInv
<1> QED
  BY <1>1, Inductive, PTL

(* A bundle creates what its spent notes are worth (gate cv_net, the
   binding signature).                                                     *)

THEOREM ValueIsConserved == Spec => []ValueConserved
<1>1. PInv => ValueConserved
  BY DEF PInv
<1> QED
  BY <1>1, Inductive, PTL

(* Every note of the tree is of the ledger's community and not from its
   future (from_wire takes both from the receiver).                        *)

THEOREM NotesBelongToTheLedger == Spec => []NotesAreOfThisLedger
<1>1. PInv => NotesAreOfThisLedger
  BY DEF PInv, LeavesAreNotes, Leaves, NotesAreOfThisLedger
<1> QED
  BY <1>1, Inductive, PTL
=============================================================================
