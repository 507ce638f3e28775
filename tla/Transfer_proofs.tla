-------------------------- MODULE Transfer_proofs --------------------------
(***************************************************************************)
(* Proofs about Transfer, for every number of users, transfers and actions *)
(* and every mix-up of requests and answers.  The invariant TInv follows a *)
(* transfer through its stages: the ledger stays sound (its notes differ,  *)
(* its roots are what the tree began with, the chain tells what was added);*)
(* the wallets are copies of it that stop earlier; so what is built from a *)
(* wallet passes every check of the node but those on the state of the     *)
(* ledger; a device's answer covers one body that it reviewed; and what    *)
(* authorize accepts is the answer for its own body.                       *)
(***************************************************************************)
EXTENDS Transfer, Decay_proofs, FiniteSetTheorems

-----------------------------------------------------------------------------
(* What a rho can be: of a creation or a nullifier.                        *)
Kind(rho) == DOMAIN rho
NullifierKind == {"nk", "rho", "cm"}
CreationKind == {"created", "at"}

(* A note as it may stand in the tree.                                     *)
IsSound(note) ==
  /\ IsNote(note)
  /\ note.community = Community /\ note.coin_community = Community
  /\ note.value \in Nat /\ note.value < VALUE_LIMIT
  /\ note.t_note \in Nat /\ note.t_note < TIME_LIMIT

(* A list of so many elements.                                             *)
OfLength(n, s) == DOMAIN s = 1..n /\ s = [i \in 1..n |-> s[i]]

(* What an action publishes.                                               *)
IsPublished(action) ==
  /\ Kind(action.nullifier) = NullifierKind
  /\ IsSound(action.cm) /\ action.cm.rho = action.nullifier
  /\ action.encrypted.plaintext = action.cm

(* Who may sign for action i of a transfer.                                *)
IsSpend(u, i, owner) ==
  IF u.dummy_asks[i] = {}
  THEN u.actions[i].rk.ak = owner /\ Spent(u.actions[i]).address.ak = owner
  ELSE Spent(u.actions[i]).value = 0
IsPadding(u, i) ==
  u.dummy_asks[i] # {} =>
    \A ask \in u.dummy_asks[i] : u.actions[i].rk = Rerandomized(ask, u.alphas[i])

IsUnauthorized(u, owner) ==
  /\ OfLength(NumActions, u.actions)
  /\ DOMAIN u.outputs = 1..NumActions /\ DOMAIN u.rcvs = 1..NumActions
  /\ \A i \in 1..NumActions : /\ IsPublished(u.actions[i])
                              /\ IsSpend(u, i, owner) /\ IsPadding(u, i)
  /\ u.proof.of = instances(u.community, u.anchor, u.now, u.actions)
  /\ u.proof.holds
  /\ Total([i \in DOMAIN u.actions |-> u.actions[i].cv_net.value]) = 0
  /\ \A i \in 1..NumActions : u.actions[i].cv_net.rcv = u.rcvs[i]

(* An answer covers one body, and its owner's device reviewed that.        *)
Covers(signatures, owner, body, agreed) ==
  /\ DOMAIN signatures = 1..Len(signatures)
  /\ \A k \in DOMAIN signatures : /\ signatures[k].over = body_sighash(body)
                                  /\ signatures[k].key.ak = owner
  /\ \E consent \in agreed : consent.by = owner /\ consent.review.sighash = body_sighash(body)

IsBuilt(session, agreed) ==
  /\ session = [stage |-> "built", owner |-> session.owner, answer |-> session.answer,
                unauthorized |-> session.unauthorized]
  /\ session.owner \in User
  /\ IsUnauthorized(session.unauthorized, session.owner)
  /\ \A signatures \in session.answer :
       Covers(signatures, session.owner, TransferBody(session.unauthorized), agreed)

HasConsent(body, agreed) ==
  \A i \in DOMAIN body.actions :
    Spent(body.actions[i]).value > 0 =>
      \E consent \in agreed : /\ consent.by = Spent(body.actions[i]).address.ak
                              /\ consent.review.sighash = body

IsReady(session, agreed) ==
  LET bundle == session.bundle
  IN  /\ OfLength(NumActions, bundle.actions)
      /\ \A i \in 1..NumActions : IsPublished(bundle.actions[i])
      /\ session.body.actions = bundle.actions
      /\ Len(bundle.spend_auth_sigs) = NumActions
      /\ verify_bundle_crypto(bundle, body_sighash(session.body)) = "Ok"
      /\ HasConsent(session.body, agreed)

SessionsAreSound ==
  \A s \in Session :
    /\ sessions[s].stage \in {"idle", "built", "ready", "lost"}
    /\ sessions[s].stage = "built" => IsBuilt(sessions[s], consents)
    /\ sessions[s].stage = "ready" => IsReady(sessions[s], consents)

-----------------------------------------------------------------------------
TreeIsRecord ==
  /\ tree = [leaves |-> tree.leaves, marked |-> tree.marked, checkpoints |-> tree.checkpoints]
  /\ Listed(tree.leaves)

LeavesAreSound ==
  \A i \in DOMAIN tree.leaves :
    /\ IsSound(tree.leaves[i])
    /\ \/ tree.leaves[i].rho = creation_rho(Community, i - 1)
       \/ tree.leaves[i].rho \in nullifiers

RhosDistinct ==
  \A i, j \in DOMAIN tree.leaves : tree.leaves[i].rho = tree.leaves[j].rho => i = j

NullifiersAreNullifiers == \A nf \in nullifiers : Kind(nf) = NullifierKind

(* Every root is what the tree began with.                                 *)
RootsArePrefixes ==
  \A k \in DOMAIN log :
    LET root == log[k].root
    IN  /\ Listed(root) /\ Len(root) <= Len(tree.leaves)
        /\ \A p \in 1..Len(root) : root[p] = tree.leaves[p]

(* What a transaction published are the leaves it added.                   *)
Follows(published, entries, leaves) ==
  /\ Listed(entries) /\ Listed(published) /\ Len(published) = Len(entries) /\ Len(entries) >= 1
  /\ entries[1].root = <<>> /\ entries[Len(entries)].root = leaves
  /\ \A k \in 2..Len(entries) :
       entries[k].root = entries[k - 1].root \o [i \in DOMAIN published[k] |-> published[k][i].cm]
  /\ \A k \in DOMAIN published :
       /\ Listed(published[k])
       /\ \A i \in DOMAIN published[k] : published[k][i].note = published[k][i].cm
ChainFollowsLog == Follows(chain, log, tree.leaves)

LedgerIsSound ==
  /\ clock \in Nat
  /\ TreeIsRecord /\ Len(tree.leaves) <= MAX_NOTES
  /\ LeavesAreSound /\ RhosDistinct /\ NullifiersAreNullifiers
  /\ RootsArePrefixes
  /\ ChainFollowsLog

(* A wallet's tree is a root, and its notes stand in it.                   *)
IsWallet(user, wallet) ==
  /\ wallet.tree = [leaves |-> wallet.tree.leaves, marked |-> wallet.tree.marked,
                    checkpoints |-> wallet.tree.checkpoints]
  /\ wallet.tree.checkpoints \in 0..(Len(log) - 1)
  /\ wallet.tree.leaves = log[wallet.tree.checkpoints + 1].root
  /\ \A owned \in wallet.notes :
       /\ owned.position \in Nat /\ owned.position + 1 \in DOMAIN wallet.tree.leaves
       /\ wallet.tree.leaves[owned.position + 1] = owned.note
       /\ owned.note.address = address_of(full_viewing_key(user))

WalletsAreSound == \A user \in User : IsWallet(user, wallets[user])

Outcomes == {"Ok", "TreeFull", "UnknownAnchor", "DoubleSpend"}

TInv ==
  /\ LedgerIsSound
  /\ WalletsAreSound
  /\ DOMAIN sessions = Session /\ sessions = [s \in Session |-> sessions[s]]
  /\ DOMAIN wallets = User /\ wallets = [user \in User |-> wallets[user]]
  /\ SessionsAreSound
  /\ SignedAsShown
  /\ outcome \in Outcomes

-----------------------------------------------------------------------------
(* Each way to make a rho gives one of its kind.                           *)
LEMMA Kinds ==
  /\ \A c, p : Kind(creation_rho(c, p)) = CreationKind
  /\ \A nk, note : Kind(nullifier(nk, note)) = NullifierKind
BY DEF Kind, creation_rho, nullifier, CreationKind, NullifierKind

(* No rho is of both kinds.                                                *)
LEMMA KindsDiffer == CreationKind # NullifierKind
<1>1. "at" \in {"created", "at"} /\ "at" \notin {"nk", "rho", "cm"}
  OBVIOUS
<1> QED
  BY <1>1 DEF CreationKind, NullifierKind

-----------------------------------------------------------------------------
(* TInv holds in the beginning.                                            *)
LEMMA InitTInv == Init => TInv
<1> SUFFICES ASSUME Init PROVE TInv
  OBVIOUS
<1>1. /\ clock = 0 /\ nullifiers = {} /\ outcome = "Ok" /\ chain = <<<<>>>> /\ consents = {}
      /\ tree = [leaves |-> <<>>, marked |-> {}, checkpoints |-> 0]
      /\ log = <<[nfs |-> <<>>, root |-> <<>>, under |-> {}]>>
      /\ wallets = [user \in User |-> [tree |-> EmptyTree, notes |-> {}]]
      /\ sessions = [s \in Session |-> [stage |-> "idle"]]
  BY DEF Init, Node!Init, Node!EmptyTree, Node!Entry, Node!TreeRoot
<1>2. Listed(<<>>) /\ Len(<<>>) = 0
  <2>1. DOMAIN <<>> = 1..0 /\ <<>> = [i \in 1..0 |-> <<>>[i]]
    OBVIOUS
  <2> QED
    BY <2>1, Lists
<1>3. 1..1 = {1} /\ 1 \in Nat
  OBVIOUS
<1>4. Listed(log) /\ Len(log) = 1 /\ DOMAIN log = {1} /\ log[1].root = <<>>
  <2>1. DOMAIN log = 1..1 /\ log = [i \in 1..1 |-> log[i]]
    BY <1>1
  <2> QED
    BY <1>1, <2>1, <1>3, Lists
<1>5. Listed(chain) /\ Len(chain) = 1 /\ DOMAIN chain = {1} /\ chain[1] = <<>>
  <2>1. DOMAIN chain = 1..1 /\ chain = [i \in 1..1 |-> chain[i]]
    BY <1>1
  <2> QED
    BY <1>1, <2>1, <1>3, Lists
<1>6. TreeIsRecord /\ tree.leaves = <<>>
  BY <1>1, <1>2 DEF TreeIsRecord
<1>7. RootsArePrefixes
  BY <1>2, <1>4, <1>6 DEF RootsArePrefixes
<1>8. LeavesAreSound /\ RhosDistinct /\ NullifiersAreNullifiers
  BY <1>1, <1>6 DEF LeavesAreSound, RhosDistinct, NullifiersAreNullifiers
<1>9. ChainFollowsLog
  BY <1>2, <1>4, <1>5, <1>6 DEF ChainFollowsLog, Follows
<1>10. LedgerIsSound
  BY <1>1, <1>2, <1>6, <1>7, <1>8, <1>9, MaxNotesAssumption DEF LedgerIsSound
<1>11. WalletsAreSound
  <2> SUFFICES ASSUME NEW user \in User PROVE IsWallet(user, wallets[user])
    BY DEF WalletsAreSound
  <2> DEFINE w == wallets[user]
  <2>1. w.notes = {} /\ w.tree = [leaves |-> <<>>, marked |-> {}, checkpoints |-> 0]
    BY <1>1 DEF EmptyTree
  <2> HIDE DEF w
  <2>2. IsWallet(user, w)
    BY <1>4, <2>1 DEF IsWallet
  <2> QED
    BY <2>2 DEF w
<1>12. SessionsAreSound
  BY <1>1 DEF SessionsAreSound
<1>13. SignedAsShown
  BY <1>1 DEF SignedAsShown
<1> QED
  BY <1>1, <1>10, <1>11, <1>12, <1>13 DEF TInv, Outcomes

-----------------------------------------------------------------------------
(* What a step leaves alone.                                               *)
LEMMA LedgerStays ==
  ASSUME LedgerIsSound, UNCHANGED <<tree, nullifiers, log, chain>>, clock' \in Nat
  PROVE  LedgerIsSound'
<1>1. TreeIsRecord' /\ Len(tree'.leaves) <= MAX_NOTES
  BY DEF LedgerIsSound, TreeIsRecord, Listed
<1>2. RootsArePrefixes'
  <2> SUFFICES ASSUME NEW k \in DOMAIN log'
               PROVE  /\ Listed(log'[k].root) /\ Len(log'[k].root) <= Len(tree'.leaves)
                      /\ \A p \in 1..Len(log'[k].root) : log'[k].root[p] = tree'.leaves[p]
    BY DEF RootsArePrefixes, Listed
  <2>1. log' = log /\ tree' = tree
    OBVIOUS
  <2>2. /\ Listed(log[k].root) /\ Len(log[k].root) <= Len(tree.leaves)
        /\ \A p \in 1..Len(log[k].root) : log[k].root[p] = tree.leaves[p]
    BY <2>1 DEF LedgerIsSound, RootsArePrefixes
  <2> QED
    BY <2>1, <2>2
<1>3. LeavesAreSound'
  BY DEF LedgerIsSound, LeavesAreSound, IsSound, IsNote, creation_rho
<1>4. RhosDistinct' /\ NullifiersAreNullifiers'
  BY DEF LedgerIsSound, RhosDistinct, NullifiersAreNullifiers, Kind
<1>5. ChainFollowsLog'
  <2>1. Follows(chain', log', tree'.leaves)
    BY DEF LedgerIsSound, ChainFollowsLog
  <2> QED
    BY <2>1 DEF ChainFollowsLog, Follows, Listed
<1> QED
  BY <1>1, <1>2, <1>3, <1>4, <1>5 DEF LedgerIsSound

(* Wallets follow a log that only grows.                                   *)
LEMMA WalletsStay ==
  ASSUME TInv, wallets' = wallets, Len(log') \in Nat, Len(log) <= Len(log'),
         \A k \in 1..Len(log) : log'[k] = log[k]
  PROVE  WalletsAreSound'
<1> SUFFICES ASSUME NEW user \in User, NEW w, w = wallets[user]
             PROVE  /\ w.tree = [leaves |-> w.tree.leaves, marked |-> w.tree.marked,
                                 checkpoints |-> w.tree.checkpoints]
                    /\ w.tree.checkpoints \in 0..(Len(log') - 1)
                    /\ w.tree.leaves = log'[w.tree.checkpoints + 1].root
                    /\ \A owned \in w.notes :
                         /\ owned.position \in Nat /\ owned.position + 1 \in DOMAIN w.tree.leaves
                         /\ w.tree.leaves[owned.position + 1] = owned.note
                         /\ owned.note.address = address_of(full_viewing_key(user))
  BY DEF WalletsAreSound, IsWallet, address_of, full_viewing_key, commit_ivk
<1>1. IsWallet(user, w)
  BY DEF TInv, WalletsAreSound
<1>2. Len(log) \in Nat
  BY ListedProperties DEF TInv, LedgerIsSound, ChainFollowsLog, Follows
<1>3. w.tree.checkpoints + 1 \in 1..Len(log) /\ w.tree.checkpoints \in 0..(Len(log') - 1)
  BY <1>1, <1>2 DEF IsWallet
<1> QED
  BY <1>1, <1>3 DEF IsWallet

(* More consents take nothing back.                                        *)
LEMMA ConsentsStay ==
  ASSUME NEW agreed, NEW more, agreed \subseteq more, NEW session
  PROVE  /\ IsBuilt(session, agreed) => IsBuilt(session, more)
         /\ IsReady(session, agreed) => IsReady(session, more)
<1>1. ASSUME NEW signatures, NEW owner, NEW body, Covers(signatures, owner, body, agreed)
      PROVE  Covers(signatures, owner, body, more)
  BY <1>1 DEF Covers
<1>2. ASSUME NEW body, HasConsent(body, agreed)
      PROVE  HasConsent(body, more)
  BY <1>2 DEF HasConsent
<1>3. IsBuilt(session, agreed) => IsBuilt(session, more)
  BY <1>1, Zenon DEF IsBuilt
<1>4. IsReady(session, agreed) => IsReady(session, more)
  BY <1>2, Zenon DEF IsReady
<1> QED
  BY <1>3, <1>4

-----------------------------------------------------------------------------
(* What was published has been added to the tree.                          *)
CmsOf(outputs) == [i \in DOMAIN outputs |-> outputs[i].cm]

Extended(outputs) ==
  /\ Listed(outputs)
  /\ TreeIsRecord' /\ tree'.leaves = tree.leaves \o CmsOf(outputs)
  /\ Len(tree'.leaves) <= MAX_NOTES
  /\ \E e : e.root = tree'.leaves /\ log' = Append(log, e)
  /\ chain' = Append(chain, outputs)
  /\ \A i \in DOMAIN outputs :
       LET cm == outputs[i].cm
       IN  /\ outputs[i].note = cm /\ IsSound(cm)
           /\ \/ cm.rho = creation_rho(Community, Len(tree.leaves) + i - 1)
              \/ cm.rho \in nullifiers' \ nullifiers
  /\ \A i, j \in DOMAIN outputs : outputs[i].cm.rho = outputs[j].cm.rho => i = j

(* The leaves after a transaction, counted.                                *)
LEMMA LeavesMore ==
  ASSUME LedgerIsSound, NEW outputs, Extended(outputs)
  PROVE  LET n == Len(tree.leaves)
             m == Len(tree'.leaves)
             cms == CmsOf(outputs)
         IN  /\ n \in Nat /\ m \in Nat /\ n <= m
             /\ DOMAIN tree.leaves = 1..n /\ DOMAIN tree'.leaves = 1..m
             /\ DOMAIN cms = 1..Len(cms) /\ Len(cms) \in Nat /\ m = n + Len(cms)
             /\ Listed(tree.leaves) /\ Listed(tree'.leaves) /\ Listed(cms)
             /\ DOMAIN outputs = DOMAIN cms
             /\ \A p \in 1..n : tree'.leaves[p] = tree.leaves[p]
             /\ \A p \in (n + 1)..m : p - n \in DOMAIN outputs /\ tree'.leaves[p] = outputs[p - n].cm
<1> DEFINE n == Len(tree.leaves)
           m == Len(tree'.leaves)
           cms == CmsOf(outputs)
           k == Len(outputs)
<1>1. /\ Listed(tree.leaves) /\ n \in Nat /\ DOMAIN tree.leaves = 1..n
  BY ListedProperties DEF LedgerIsSound, TreeIsRecord
<1>2. Listed(outputs) /\ k \in Nat /\ DOMAIN outputs = 1..k
  BY ListedProperties DEF Extended
<1>3. DOMAIN cms = 1..k /\ cms = [i \in 1..k |-> cms[i]] /\ \A i \in 1..k : cms[i] = outputs[i].cm
  BY <1>2 DEF CmsOf
<1> HIDE DEF cms, k
<1>4. Listed(cms) /\ Len(cms) = k
  BY <1>2, <1>3, Lists
<1>5. /\ Listed(tree'.leaves) /\ m = n + k
      /\ \A p \in 1..n : tree'.leaves[p] = tree.leaves[p]
      /\ \A p \in 1..k : tree'.leaves[n + p] = cms[p]
  <2>1. tree'.leaves = tree.leaves \o cms
    BY DEF Extended, cms
  <2>2. Listed(tree'.leaves) /\ Len(tree'.leaves) = Len(tree.leaves) + Len(cms)
    BY <1>1, <1>4, <2>1, Joined
  <2>3. \A p \in 1..Len(tree.leaves) : tree'.leaves[p] = tree.leaves[p]
    BY <1>1, <1>4, <2>1, Joined
  <2>4. \A p \in 1..Len(cms) : tree'.leaves[Len(tree.leaves) + p] = cms[p]
    BY <1>1, <1>4, <2>1, Joined
  <2> QED
    BY <1>4, <2>2, <2>3, <2>4
<1>6. DOMAIN tree'.leaves = 1..m /\ m \in Nat
  BY <1>5, ListedProperties
<1>7. \A p \in (n + 1)..m : p - n \in 1..k /\ n + (p - n) = p
  BY <1>1, <1>2, <1>5, <1>6
<1>8. \A p \in (n + 1)..m : p - n \in 1..k /\ tree'.leaves[p] = outputs[p - n].cm
  <2> TAKE p \in (n + 1)..m
  <2> DEFINE q == p - n
  <2>1. q \in 1..k /\ n + q = p
    BY <1>7
  <2> HIDE DEF q
  <2>2. tree'.leaves[n + q] = outputs[q].cm
    BY <1>3, <1>5, <2>1
  <2> QED
    BY <2>1, <2>2 DEF q
<1> QED
  BY <1>1, <1>2, <1>3, <1>4, <1>5, <1>6, <1>8 DEF cms

(* Every root stays what the tree began with, and the log one entry more.  *)
LEMMA RootsGrow ==
  ASSUME LedgerIsSound, NEW outputs, Extended(outputs)
  PROVE  /\ RootsArePrefixes' /\ ChainFollowsLog'
         /\ Len(log') \in Nat /\ Len(log) <= Len(log')
         /\ \A k \in 1..Len(log) : log'[k] = log[k]
<1> DEFINE l == Len(log)
<1>1. PICK e : e.root = tree'.leaves /\ log' = Append(log, e)
  BY DEF Extended
<1>2. Follows(chain, log, tree.leaves)
  BY DEF LedgerIsSound, ChainFollowsLog
<1>3. /\ Listed(log) /\ Listed(chain) /\ Len(chain) = l /\ l \in Nat /\ l >= 1
      /\ DOMAIN log = 1..l /\ DOMAIN chain = 1..l
  BY <1>2, ListedProperties DEF Follows
<1>4. /\ Listed(log') /\ Len(log') = l + 1 /\ DOMAIN log' = 1..(l + 1)
      /\ \A k \in 1..l : log'[k] = log[k]
      /\ log'[l + 1] = e
  <2>1. /\ Listed(log') /\ Len(log') = l + 1
        /\ \A k \in 1..l : log'[k] = log[k]
        /\ log'[l + 1] = e
    BY <1>1, <1>3, Appending
  <2> QED
    BY <2>1, ListedProperties
<1>5. /\ Listed(chain') /\ Len(chain') = l + 1 /\ DOMAIN chain' = 1..(l + 1)
      /\ \A k \in 1..l : chain'[k] = chain[k]
      /\ chain'[l + 1] = outputs
  <2>1. /\ Listed(chain') /\ Len(chain') = l + 1
        /\ \A k \in 1..l : chain'[k] = chain[k]
        /\ chain'[l + 1] = outputs
    BY <1>3, Appending DEF Extended
  <2> QED
    BY <2>1, ListedProperties
<1> HIDE DEF l
<1>6. RootsArePrefixes'
  <2> SUFFICES ASSUME NEW k \in 1..(l + 1)
               PROVE  /\ Listed(log'[k].root) /\ Len(log'[k].root) <= Len(tree'.leaves)
                      /\ \A p \in 1..Len(log'[k].root) : log'[k].root[p] = tree'.leaves[p]
    BY <1>4 DEF RootsArePrefixes, Listed
  <2>1. CASE k = l + 1
    BY <1>1, <1>4, <2>1, LeavesMore
  <2>2. CASE k # l + 1
    <3>1. k \in DOMAIN log /\ log'[k] = log[k]
      BY <1>3, <1>4, <2>2
    <3> DEFINE root == log[k].root
    <3>2. /\ Listed(root) /\ Len(root) <= Len(tree.leaves)
          /\ \A p \in 1..Len(root) : root[p] = tree.leaves[p]
      BY <3>1 DEF LedgerIsSound, RootsArePrefixes
    <3>3. Len(root) \in Nat
      BY <3>2, ListedProperties
    <3> HIDE DEF root
    <3>4. \A p \in 1..Len(root) : p \in 1..Len(tree.leaves)
      BY <3>2, <3>3, LeavesMore
    <3>5. log'[k].root = root
      BY <3>1 DEF root
    <3> QED
      BY <3>2, <3>3, <3>4, <3>5, LeavesMore
  <2> QED
    BY <2>1, <2>2
<1>7. Follows(chain', log', tree'.leaves)
  <2>1. log'[1].root = <<>> /\ log'[Len(log')].root = tree'.leaves
    BY <1>1, <1>2, <1>3, <1>4 DEF Follows
  <2>2. ASSUME NEW k \in 2..Len(log')
        PROVE  log'[k].root = log'[k - 1].root \o [i \in DOMAIN chain'[k] |-> chain'[k][i].cm]
    <3>1. CASE k = l + 1
      <4>1. k - 1 = l /\ l \in 1..l
        BY <1>3, <3>1
      <4>2. log'[k - 1].root = tree.leaves
        BY <1>2, <1>4, <4>1 DEF Follows, l
      <4>3. log'[k].root = tree.leaves \o CmsOf(outputs)
        BY <1>1, <1>4, <3>1 DEF Extended
      <4>4. chain'[k] = outputs
        BY <1>5, <3>1
      <4> QED
        BY <4>2, <4>3, <4>4 DEF CmsOf
    <3>2. CASE k # l + 1
      <4>1. k \in 2..Len(log) /\ k \in 1..l /\ k - 1 \in 1..l
        BY <1>3, <1>4, <3>2 DEF l
      <4>2. log[k].root = log[k - 1].root \o [i \in DOMAIN chain[k] |-> chain[k][i].cm]
        BY <1>2, <4>1 DEF Follows
      <4>3. log'[k] = log[k] /\ log'[k - 1] = log[k - 1] /\ chain'[k] = chain[k]
        BY <1>4, <1>5, <4>1
      <4> QED
        BY <4>2, <4>3
    <3> QED
      BY <3>1, <3>2
  <2>3. ASSUME NEW k \in DOMAIN chain'
        PROVE  Listed(chain'[k]) /\ \A i \in DOMAIN chain'[k] : chain'[k][i].note = chain'[k][i].cm
    <3>1. CASE k = l + 1
      <4>1. chain'[k] = outputs
        BY <1>5, <3>1
      <4> QED
        BY <4>1 DEF Extended
    <3>2. CASE k # l + 1
      <4>1. k \in DOMAIN chain /\ chain'[k] = chain[k]
        BY <1>3, <1>5, <3>2
      <4> QED
        BY <1>2, <4>1 DEF Follows
    <3> QED
      BY <3>1, <3>2
  <2>4. Listed(log') /\ Listed(chain') /\ Len(chain') = Len(log') /\ Len(log') >= 1
    BY <1>3, <1>4, <1>5
  <2> QED
    BY <2>1, <2>2, <2>3, <2>4 DEF Follows
<1>8. ChainFollowsLog'
  BY <1>7 DEF ChainFollowsLog, Follows, Listed
<1> QED
  BY <1>3, <1>4, <1>6, <1>8 DEF l

(* New leaves have a rho no leaf had.                                      *)
LEMMA LeavesGrow ==
  ASSUME LedgerIsSound, NEW outputs, Extended(outputs),
         nullifiers \subseteq nullifiers', NullifiersAreNullifiers'
  PROVE  LeavesAreSound' /\ RhosDistinct'
<1> DEFINE n == Len(tree.leaves)
           m == Len(tree'.leaves)
<1>1. /\ n \in Nat /\ m \in Nat /\ n <= m
      /\ DOMAIN tree.leaves = 1..n /\ DOMAIN tree'.leaves = 1..m
      /\ \A p \in 1..n : tree'.leaves[p] = tree.leaves[p]
      /\ \A p \in (n + 1)..m : p - n \in DOMAIN outputs /\ tree'.leaves[p] = outputs[p - n].cm
  BY LeavesMore
<1>2. \A i \in 1..m : i \in 1..n \/ i \in (n + 1)..m
  BY <1>1
<1>3. ASSUME NEW i \in 1..n
      PROVE  /\ IsSound(tree.leaves[i])
             /\ tree.leaves[i].rho = creation_rho(Community, i - 1) \/ tree.leaves[i].rho \in nullifiers
  BY <1>1 DEF LedgerIsSound, LeavesAreSound
<1>4. ASSUME NEW i \in (n + 1)..m
      PROVE  /\ IsSound(tree'.leaves[i])
             /\ \/ tree'.leaves[i].rho = creation_rho(Community, i - 1)
                \/ tree'.leaves[i].rho \in nullifiers' \ nullifiers
  <2> DEFINE k == i - n
  <2>1. k \in DOMAIN outputs /\ tree'.leaves[i] = outputs[k].cm /\ n + k - 1 = i - 1
    BY <1>1
  <2> HIDE DEF k
  <2>2. LET cm == outputs[k].cm
        IN  IsSound(cm) /\ \/ cm.rho = creation_rho(Community, n + k - 1)
                           \/ cm.rho \in nullifiers' \ nullifiers
    BY <2>1 DEF Extended
  <2> QED
    BY <2>1, <2>2
<1> HIDE DEF n, m
<1>5. LeavesAreSound'
  <2> SUFFICES ASSUME NEW i \in 1..m
               PROVE  /\ IsSound(tree'.leaves[i])
                      /\ \/ tree'.leaves[i].rho = creation_rho(Community, i - 1)
                         \/ tree'.leaves[i].rho \in nullifiers'
    BY <1>1 DEF LeavesAreSound, IsSound, IsNote, creation_rho
  <2> QED
    BY <1>1, <1>2, <1>3, <1>4
<1>6. ASSUME NEW i \in 1..n, NEW j \in (n + 1)..m
      PROVE  tree'.leaves[i].rho # tree'.leaves[j].rho
  <2> DEFINE r == tree.leaves[i].rho
             q == tree'.leaves[j].rho
  <2>1. r = creation_rho(Community, i - 1) \/ r \in nullifiers
    BY <1>3
  <2>2. q = creation_rho(Community, j - 1) \/ q \in nullifiers' \ nullifiers
    BY <1>4
  <2>3. tree'.leaves[i].rho = r
    BY <1>1
  <2>4. /\ Kind(creation_rho(Community, i - 1)) = CreationKind
        /\ Kind(creation_rho(Community, j - 1)) = CreationKind
        /\ CreationKind # NullifierKind
    BY Kinds, KindsDiffer
  <2>5. /\ \A nf \in nullifiers : Kind(nf) = NullifierKind
        /\ \A nf \in nullifiers' : Kind(nf) = NullifierKind
    BY DEF LedgerIsSound, NullifiersAreNullifiers, Kind, NullifierKind
  <2>6. creation_rho(Community, i - 1) # creation_rho(Community, j - 1)
    <3>1. i - 1 # j - 1
      BY <1>1
    <3>2. creation_rho(Community, i - 1).at = i - 1 /\ creation_rho(Community, j - 1).at = j - 1
      BY DEF creation_rho
    <3> QED
      BY <3>1, <3>2
  <2> HIDE DEF r, q
  <2>7. r # q
    BY <2>1, <2>2, <2>4, <2>5, <2>6
  <2> QED
    BY <2>3, <2>7 DEF q
<1>7. RhosDistinct'
  <2> SUFFICES ASSUME NEW i \in 1..m, NEW j \in 1..m, tree'.leaves[i].rho = tree'.leaves[j].rho
               PROVE  i = j
    BY <1>1 DEF RhosDistinct
  <2>1. CASE i \in 1..n /\ j \in 1..n
    BY <1>1, <2>1 DEF LedgerIsSound, RhosDistinct
  <2>2. CASE i \in (n + 1)..m /\ j \in (n + 1)..m
    <3> DEFINE k == i - n
               o == j - n
    <3>1. k \in DOMAIN outputs /\ o \in DOMAIN outputs /\ outputs[k].cm.rho = outputs[o].cm.rho
      BY <1>1, <2>2
    <3>2. k = o
      BY <3>1 DEF Extended
    <3> QED
      BY <1>1, <2>2, <3>2
  <2> QED
    BY <1>2, <1>6, <2>1, <2>2
<1> QED
  BY <1>5, <1>7

(* A ledger that took a transaction is sound again.                        *)
LEMMA LedgerGrows ==
  ASSUME LedgerIsSound, NEW outputs, Extended(outputs), clock' = clock,
         nullifiers \subseteq nullifiers', NullifiersAreNullifiers'
  PROVE  LedgerIsSound'
<1>1. TreeIsRecord' /\ Len(tree'.leaves) <= MAX_NOTES /\ clock' \in Nat
  BY DEF Extended, LedgerIsSound
<1> QED
  BY <1>1, LeavesGrow, RootsGrow DEF LedgerIsSound
-----------------------------------------------------------------------------
(* A step of the ledger leaves wallets, transfers and consents alone.      *)
LEMMA OthersStay ==
  ASSUME TInv, LedgerIsSound', UNCHANGED <<wallets, sessions, consents>>, outcome' \in Outcomes,
         Len(log') \in Nat, Len(log) <= Len(log'), \A k \in 1..Len(log) : log'[k] = log[k]
  PROVE  TInv'
<1>1. WalletsAreSound'
  BY WalletsStay
<1>2. SessionsAreSound'
  BY DEF TInv, SessionsAreSound, IsBuilt, Covers, IsReady, HasConsent
<1>3. SignedAsShown'
  BY DEF TInv, SignedAsShown
<1>4. /\ DOMAIN sessions' = Session /\ sessions' = [s \in Session |-> sessions'[s]]
      /\ DOMAIN wallets' = User /\ wallets' = [user \in User |-> wallets'[user]]
  BY DEF TInv
<1> QED
  BY <1>1, <1>2, <1>3, <1>4 DEF TInv, Outcomes

(* TInv survives what changes nothing but the clock and the outcome.       *)
LEMMA NothingKeepsTInv ==
  ASSUME TInv, UNCHANGED <<tree, nullifiers, log, chain, wallets, sessions, consents>>,
         outcome' \in Outcomes, clock' \in Nat
  PROVE  TInv'
<1>1. LedgerIsSound'
  BY LedgerStays DEF TInv
<1>2. Len(log) \in Nat
  BY ListedProperties DEF TInv, LedgerIsSound, ChainFollowsLog, Follows
<1> QED
  BY <1>1, <1>2, OthersStay

(* TInv survives a transaction of which the notes are sound and new.       *)
LEMMA ExtendedKeepsTInv ==
  ASSUME TInv, NEW outputs, Extended(outputs), UNCHANGED <<clock, wallets, sessions, consents>>,
         nullifiers \subseteq nullifiers', NullifiersAreNullifiers', outcome' \in Outcomes
  PROVE  TInv'
<1>1. LedgerIsSound
  BY DEF TInv
<1>2. LedgerIsSound'
  BY <1>1, LedgerGrows
<1> QED
  BY <1>1, <1>2, RootsGrow, OthersStay

-----------------------------------------------------------------------------
(* The tree after a loop of appends with room for all of them.             *)
LEMMA AllAppended ==
  ASSUME TreeIsRecord, NEW cms, Listed(cms), Node!HasRoomFor(tree, Len(cms))
  PROVE  /\ Node!AppendedAll(tree, cms) =
              [leaves |-> tree.leaves \o cms, marked |-> tree.marked, checkpoints |-> tree.checkpoints]
         /\ Len(tree.leaves \o cms) = Len(tree.leaves) + Len(cms)
         /\ Len(tree.leaves \o cms) <= MAX_NOTES
<1> DEFINE l == tree.leaves \o cms
           grown == Node!AppendedAll(tree, cms)
<1>1. Len(cms) \in Nat /\ Len(tree.leaves) \in Nat
  BY ListedProperties DEF TreeIsRecord
<1>2. Len(tree.leaves) + Len(cms) <= MAX_NOTES /\ MAX_NOTES \in Nat
  BY MaxNotesAssumption DEF Node!HasRoomFor, Node!Size
<1>3. SubSeq(cms, 1, Len(cms)) = cms
  BY SubSeqFull DEF Listed
<1>4. Len(l) = Len(tree.leaves) + Len(cms)
  BY Joining DEF TreeIsRecord
<1>5. Len(cms) <= MAX_NOTES - Node!Size(tree)
  BY <1>1, <1>2 DEF Node!Size
<1>6. grown = [tree EXCEPT !.leaves = l]
  <2>1. SubSeq(cms, 1, IF Len(cms) <= MAX_NOTES - Node!Size(tree) THEN Len(cms)
                       ELSE MAX_NOTES - Node!Size(tree)) = cms
    BY <1>3, <1>5
  <2> QED
    BY <2>1 DEF Node!AppendedAll
<1> DEFINE a == tree.leaves
           k == tree.marked
           c == tree.checkpoints
<1>7. tree = [leaves |-> a, marked |-> k, checkpoints |-> c]
  BY DEF TreeIsRecord
<1> HIDE DEF a, k, c, l, grown
<1>8. grown = [leaves |-> l, marked |-> k, checkpoints |-> c]
  BY <1>6, <1>7
<1> QED
  BY <1>2, <1>4, <1>8 DEF grown, l, k, c

(* What the end of add_note and apply makes of a grown tree.               *)
LEMMA Sealed ==
  ASSUME NEW grown, NEW l, NEW k, NEW c, grown = [leaves |-> l, marked |-> k, checkpoints |-> c],
         NEW nfs, NEW under, Node!Seal(grown, nfs, under), Listed(l)
  PROVE  /\ TreeIsRecord' /\ tree'.leaves = l
         /\ \E e : e.root = tree'.leaves /\ log' = Append(log, e)
<1>1. /\ tree' = [grown EXCEPT !.checkpoints = grown.checkpoints + 1]
      /\ log' = Append(log, Node!Entry(nfs, grown.leaves, under))
  BY DEF Node!Seal, Node!Checkpointed, Node!TreeRoot
<1>2. /\ tree' = [leaves |-> tree'.leaves, marked |-> tree'.marked, checkpoints |-> tree'.checkpoints]
      /\ tree'.leaves = l /\ grown.leaves = l
  BY <1>1
<1>3. TreeIsRecord'
  BY <1>2 DEF TreeIsRecord, Listed
<1>4. \E e : e.root = tree'.leaves /\ log' = Append(log, e)
  <2> DEFINE e == Node!Entry(nfs, grown.leaves, under)
  <2>1. e.root = tree'.leaves
    BY <1>2 DEF Node!Entry
  <2>2. log' = Append(log, e)
    BY <1>1
  <2> HIDE DEF e
  <2> QED
    BY <2>1, <2>2
<1> QED
  BY <1>2, <1>3, <1>4

(* A creation keeps TInv, whether the ledger has room for it or not.       *)
LEMMA CreateKeepsTInv ==
  ASSUME TInv, NEW user \in User, Create(user)
  PROVE  TInv'
<1> DEFINE n == Len(tree.leaves)
           note == from_parts(Community, CreationValue, clock, address_of(full_viewing_key(user)),
                              creation_rho(Community, Size(tree)), "none", Published)
           outputs == <<[cm |-> commitment(note), note |-> note]>>
           cms == CmsOf(outputs)
<1>1. /\ Node!AddNote(commitment(note)) /\ Publish(outputs) /\ NoteError(CreationValue, clock) = "Ok"
      /\ UNCHANGED <<clock, wallets, sessions, consents>>
  BY Zenon DEF Create
<1>2. LedgerIsSound /\ clock \in Nat /\ TreeIsRecord /\ Listed(tree.leaves) /\ n \in Nat
  BY ListedProperties DEF TInv, LedgerIsSound, TreeIsRecord
<1>3. IsSound(note) /\ note.rho = creation_rho(Community, n)
  <2>1. CreationValue \in Nat /\ TIME_LIMIT \in Nat /\ VALUE_LIMIT \in Nat
    BY AmountAssumption, DecayAssumption
  <2>2. CreationValue < VALUE_LIMIT /\ clock < TIME_LIMIT
    BY <1>1, <1>2, <2>1 DEF NoteError
  <2> QED
    BY <1>2, <2>1, <2>2 DEF from_parts, IsSound, IsNote, Size
<1>4. commitment(note) = note
  BY DEF commitment
<1> HIDE DEF note
<1>5. /\ outputs = <<[cm |-> note, note |-> note]>>
      /\ Listed(outputs) /\ Len(outputs) = 1 /\ DOMAIN outputs = 1..1
      /\ outputs[1].cm = note /\ outputs[1].note = note
  <2>1. outputs = <<[cm |-> note, note |-> note]>>
    BY <1>4
  <2> DEFINE o == [cm |-> note, note |-> note]
  <2>2. o.cm = note /\ o.note = note
    OBVIOUS
  <2> HIDE DEF o
  <2>3. outputs = <<o>>
    BY <2>1 DEF o
  <2> HIDE DEF outputs
  <2>4. DOMAIN outputs = 1..1 /\ outputs = [i \in 1..1 |-> outputs[i]] /\ outputs[1] = o /\ 1 \in Nat
    BY <2>3
  <2> QED
    BY <2>1, <2>2, <2>4, Lists
<1>6. Listed(cms) /\ Len(cms) = 1 /\ DOMAIN cms = 1..1 /\ cms[1] = note
  <2> HIDE DEF outputs
  <2>1. DOMAIN cms = 1..1 /\ cms = [i \in 1..1 |-> cms[i]] /\ cms[1] = note /\ 1 \in Nat
    BY <1>5 DEF CmsOf
  <2> QED
    BY <2>1, Lists
<1> HIDE DEF outputs, cms
<1>7. CASE ~Node!HasRoomFor(tree, 1)
  <2>1. UNCHANGED <<tree, nullifiers, log>> /\ outcome' = "TreeFull"
    BY <1>1, <1>7 DEF Node!AddNote
  <2>2. chain' = chain
    BY <1>1, <2>1 DEF Publish
  <2> QED
    BY <1>1, <1>2, <2>1, <2>2, NothingKeepsTInv DEF Outcomes
<1>8. CASE Node!HasRoomFor(tree, 1)
  <2> DEFINE grown == Node!Appended(tree, note, TRUE)
             l == Append(tree.leaves, note)
  <2>1. Node!Seal(grown, <<>>, {}) /\ nullifiers' = nullifiers /\ outcome' = "Ok"
    BY <1>1, <1>4, <1>8 DEF Node!AddNote
  <2>2. grown = [leaves |-> l, marked |-> tree.marked \cup {Node!Size(tree)},
                 checkpoints |-> tree.checkpoints]
    <3> DEFINE a == tree.leaves
               k == tree.marked
               c == tree.checkpoints
               k2 == k \cup {Node!Size(tree)}
               t1 == [tree EXCEPT !.leaves = l]
    <3>1. tree = [leaves |-> a, marked |-> k, checkpoints |-> c]
      BY <1>2 DEF TreeIsRecord
    <3>2. grown = [t1 EXCEPT !.marked = k2]
      BY DEF Node!Appended
    <3> HIDE DEF a, k, c, l, grown, k2
    <3>3. t1 = [leaves |-> l, marked |-> k, checkpoints |-> c]
      BY <3>1
    <3> HIDE DEF t1
    <3>4. [t1 EXCEPT !.marked = k2] = [leaves |-> l, marked |-> k2, checkpoints |-> c]
      BY <3>3
    <3> QED
      BY <3>2, <3>4 DEF k, c, k2
  <2>3. /\ Listed(l) /\ Len(l) = n + 1
        /\ \A p \in 1..n : l[p] = tree.leaves[p]
        /\ l[n + 1] = note
    BY <1>2, Appending
  <2>4. l = tree.leaves \o cms
    <3> DEFINE t == tree.leaves \o cms
    <3>1. Listed(t) /\ Len(t) = n + 1
      <4>1. Listed(t) /\ Len(t) = Len(tree.leaves) + Len(cms)
        BY <1>2, <1>6, Joining
      <4> QED
        BY <1>6, <4>1
    <3>2. \A p \in 1..n : t[p] = tree.leaves[p]
      BY <1>2, <1>6, Joined
    <3>3. t[n + 1] = note
      <4>1. 1 \in 1..Len(cms)
        BY <1>6
      <4>2. \A p \in 1..Len(cms) : t[Len(tree.leaves) + p] = cms[p]
        BY <1>2, <1>6, Joining
      <4> HIDE DEF t
      <4> QED
        BY <1>6, <4>1, <4>2
    <3> HIDE DEF t, l
    <3>4. \A p \in 1..Len(l) : l[p] = t[p]
      BY <1>2, <2>3, <3>2, <3>3
    <3>5. l = t
      BY <2>3, <3>1, <3>4, SameLists
    <3> QED
      BY <3>5 DEF t
  <2> HIDE DEF l, grown
  <2>5. /\ TreeIsRecord' /\ tree'.leaves = l
        /\ \E e : e.root = tree'.leaves /\ log' = Append(log, e)
    BY <2>1, <2>2, <2>3, Sealed
  <2>6. Len(l) <= MAX_NOTES
    BY <1>2, <1>8, <2>3 DEF Node!HasRoomFor, Node!Size
  <2>7. chain' = Append(chain, outputs)
    BY <1>1, <2>1 DEF Publish
  <2>8. \A i \in DOMAIN outputs :
          LET cm == outputs[i].cm
          IN  /\ outputs[i].note = cm /\ IsSound(cm)
              /\ cm.rho = creation_rho(Community, Len(tree.leaves) + i - 1)
    <3>1. \A i \in DOMAIN outputs : i = 1 /\ Len(tree.leaves) + i - 1 = n
      BY <1>2, <1>5
    <3> QED
      BY <1>3, <1>5, <3>1
  <2>9. \A i, j \in DOMAIN outputs : i = j
    BY <1>5
  <2>10. Extended(outputs)
    BY <1>5, <2>4, <2>5, <2>6, <2>7, <2>8, <2>9 DEF Extended, cms
  <2>11. NullifiersAreNullifiers'
    BY <1>2, <2>1 DEF LedgerIsSound, NullifiersAreNullifiers, Kind
  <2> QED
    BY <1>1, <2>1, <2>10, <2>11, ExtendedKeepsTInv DEF Outcomes
<1> QED
  BY <1>7, <1>8
-----------------------------------------------------------------------------
(* What a bundle publishes, if it is accepted.                             *)
OutputsOf(bundle) ==
  [i \in DOMAIN bundle.actions |->
     [cm |-> bundle.actions[i].cm, note |-> bundle.actions[i].encrypted.plaintext]]

(* What a bundle publishes, as a list.                                     *)
LEMMA BundleOutputs ==
  ASSUME NEW bundle, OfLength(NumActions, bundle.actions),
         \A i \in 1..NumActions : IsPublished(bundle.actions[i])
  PROVE  LET outputs == OutputsOf(bundle)
             nfs == Node!NullifiersOf(bundle)
         IN  /\ Listed(outputs) /\ DOMAIN outputs = 1..NumActions
             /\ CmsOf(outputs) = Node!CommitmentsOf(bundle)
             /\ Listed(CmsOf(outputs)) /\ Len(CmsOf(outputs)) = NumActions
             /\ DOMAIN nfs = 1..NumActions /\ Len(nfs) = NumActions
             /\ Len(bundle.actions) = NumActions
             /\ \A i \in 1..NumActions :
                  /\ nfs[i] = outputs[i].cm.rho /\ Kind(nfs[i]) = NullifierKind
                  /\ outputs[i].note = outputs[i].cm /\ IsSound(outputs[i].cm)
<1> DEFINE outputs == OutputsOf(bundle)
           nfs == Node!NullifiersOf(bundle)
           cms == CmsOf(outputs)
           a == bundle.actions
<1>1. NumActions \in Nat
  BY AmountAssumption
<1>2. DOMAIN a = 1..NumActions /\ a = [i \in 1..NumActions |-> a[i]]
      /\ \A i \in 1..NumActions : IsPublished(a[i])
  BY DEF OfLength
<1>3. /\ outputs = [i \in DOMAIN a |-> [cm |-> a[i].cm, note |-> a[i].encrypted.plaintext]]
      /\ nfs = [i \in DOMAIN a |-> a[i].nullifier]
      /\ Node!CommitmentsOf(bundle) = [i \in DOMAIN a |-> a[i].cm]
  BY DEF OutputsOf, Node!NullifiersOf, Node!CommitmentsOf
<1> HIDE DEF a, outputs, nfs
<1>4. /\ DOMAIN outputs = 1..NumActions /\ outputs = [i \in 1..NumActions |-> outputs[i]]
      /\ \A i \in 1..NumActions : /\ outputs[i].cm = a[i].cm
                                  /\ outputs[i].note = a[i].encrypted.plaintext
  BY <1>2, <1>3
<1>5. /\ DOMAIN nfs = 1..NumActions /\ nfs = [i \in 1..NumActions |-> nfs[i]]
      /\ \A i \in 1..NumActions : nfs[i] = a[i].nullifier
  BY <1>2, <1>3
<1>6. /\ DOMAIN cms = 1..NumActions /\ cms = [i \in 1..NumActions |-> cms[i]]
      /\ cms = Node!CommitmentsOf(bundle)
  BY <1>2, <1>3, <1>4 DEF CmsOf
<1>7. Listed(outputs) /\ Listed(cms) /\ Len(cms) = NumActions /\ Len(nfs) = NumActions
      /\ Len(a) = NumActions
  <2> HIDE DEF cms
  <2>1. Listed(outputs)
    BY <1>1, <1>4, Lists
  <2>2. Listed(cms) /\ Len(cms) = NumActions
    BY <1>1, <1>6, Lists
  <2>3. Len(nfs) = NumActions
    BY <1>1, <1>5, Lists
  <2>4. Len(a) = NumActions
    BY <1>1, <1>2, Lists
  <2> QED
    BY <2>1, <2>2, <2>3, <2>4
<1>8. \A i \in 1..NumActions :
        /\ nfs[i] = outputs[i].cm.rho /\ Kind(nfs[i]) = NullifierKind
        /\ outputs[i].note = outputs[i].cm /\ IsSound(outputs[i].cm)
  BY <1>2, <1>4, <1>5 DEF IsPublished
<1> QED
  BY <1>4, <1>5, <1>6, <1>7, <1>8 DEF outputs, nfs, a

(* The ledger takes a sound bundle, or refuses it for what it holds itself. *)
LEMMA ApplyParts ==
  ASSUME TInv, NEW bundle, NEW sighash, OfLength(NumActions, bundle.actions),
         Len(bundle.actions) = NumActions, Len(bundle.spend_auth_sigs) = NumActions,
         verify_bundle_crypto(bundle, sighash) = "Ok",
         Len(Node!NullifiersOf(bundle)) = NumActions,
         Listed(Node!CommitmentsOf(bundle)), Len(Node!CommitmentsOf(bundle)) = NumActions,
         Node!Apply(bundle, sighash)
  PROVE  \/ /\ UNCHANGED <<tree, nullifiers, log>>
            /\ outcome' \in {"TreeFull", "UnknownAnchor", "DoubleSpend"}
         \/ /\ outcome' = "Ok"
            /\ Node!HasRoomFor(tree, NumActions)
            /\ Node!Insertable(nullifiers, Node!NullifiersOf(bundle))
            /\ nullifiers' = nullifiers \cup Node!Elements(Node!NullifiersOf(bundle))
            /\ Node!Seal(Node!AppendedAll(tree, Node!CommitmentsOf(bundle)),
                         Node!NullifiersOf(bundle), {bundle.anchor})
<1> DEFINE nfs == Node!NullifiersOf(bundle)
           cms == Node!CommitmentsOf(bundle)
           grown == Node!AppendedAll(tree, cms)
<1>1. CASE Node!Verify(bundle, sighash) # "Ok"
  <2>1. UNCHANGED <<tree, nullifiers, log>> /\ outcome' = Node!Verify(bundle, sighash)
    BY <1>1, Zenon DEF Node!Apply
  <2>2. Node!Verify(bundle, sighash) \in {"Ok", "TreeFull", "UnknownAnchor", "DoubleSpend"}
    BY DEF Node!Verify
  <2> QED
    BY <1>1, <2>1, <2>2
<1>2. CASE Node!Verify(bundle, sighash) = "Ok"
  <2>1. Node!Write(bundle)
    BY <1>2, Zenon DEF Node!Apply
  <2>2. Node!HasRoomFor(tree, NumActions)
    BY <1>2 DEF Node!Verify
  <2>3. CASE ~Node!Insertable(nullifiers, nfs)
    BY <2>1, <2>3, Zenon DEF Node!Write
  <2>4. CASE Node!Insertable(nullifiers, nfs)
    <3>1. TreeIsRecord
      BY DEF TInv, LedgerIsSound
    <3>2. grown = [leaves |-> tree.leaves \o cms, marked |-> tree.marked,
                   checkpoints |-> tree.checkpoints]
          /\ Len(tree.leaves \o cms) = Len(tree.leaves) + Len(cms)
      <4> HIDE DEF cms
      <4>1. Node!HasRoomFor(tree, Len(cms)) /\ Listed(cms)
        BY <2>2 DEF cms
      <4> QED
        BY <3>1, <4>1, AllAppended
    <3> DEFINE l == tree.leaves \o cms
    <3>3. Node!Size(grown) = Node!Size(tree) + Len(nfs)
      <4>1. Len(l) = Len(tree.leaves) + Len(nfs)
        BY <3>2
      <4> HIDE DEF l, grown, nfs
      <4>2. grown.leaves = l
        BY <3>2 DEF l
      <4> QED
        BY <4>1, <4>2 DEF Node!Size
    <3>4. /\ nullifiers' = nullifiers \cup Node!Elements(nfs)
          /\ Node!Seal(grown, nfs, {bundle.anchor}) /\ outcome' = "Ok"
      BY <2>1, <2>4, <3>3, Zenon DEF Node!Write
    <3> QED
      BY <2>2, <2>4, <3>4, Zenon
  <2> QED
    BY <2>3, <2>4
<1> QED
  BY <1>1, <1>2

(* A finished bundle keeps TInv, accepted or refused, and refused for
   nothing but the state of the ledger.                                    *)
LEMMA ApplyKeepsTInv ==
  ASSUME TInv, NEW s \in Session, Apply(s)
  PROVE  TInv'
<1> DEFINE bundle == sessions[s].bundle
           sighash == body_sighash(sessions[s].body)
           outputs == OutputsOf(bundle)
           nfs == Node!NullifiersOf(bundle)
           cms == CmsOf(outputs)
<1>1. /\ sessions[s].stage = "ready"
      /\ Node!Apply(bundle, sighash) /\ Publish(outputs)
      /\ UNCHANGED <<clock, wallets, sessions, consents>>
  BY Zenon DEF Apply, OutputsOf
<1>2. IsReady(sessions[s], consents)
  BY <1>1 DEF TInv, SessionsAreSound
<1>3. /\ OfLength(NumActions, bundle.actions)
      /\ \A i \in 1..NumActions : IsPublished(bundle.actions[i])
      /\ Len(bundle.spend_auth_sigs) = NumActions
      /\ verify_bundle_crypto(bundle, sighash) = "Ok"
  BY <1>2 DEF IsReady
<1> HIDE DEF bundle, sighash
<1>4. /\ Listed(outputs) /\ DOMAIN outputs = 1..NumActions
      /\ cms = Node!CommitmentsOf(bundle)
      /\ Listed(cms) /\ Len(cms) = NumActions
      /\ DOMAIN nfs = 1..NumActions /\ Len(nfs) = NumActions
      /\ Len(bundle.actions) = NumActions
      /\ \A i \in 1..NumActions :
           /\ nfs[i] = outputs[i].cm.rho /\ Kind(nfs[i]) = NullifierKind
           /\ outputs[i].note = outputs[i].cm /\ IsSound(outputs[i].cm)
  BY <1>3, BundleOutputs
<1> HIDE DEF outputs, nfs, cms
<1>5. \/ /\ UNCHANGED <<tree, nullifiers, log>>
         /\ outcome' \in {"TreeFull", "UnknownAnchor", "DoubleSpend"}
      \/ /\ outcome' = "Ok"
         /\ Node!HasRoomFor(tree, NumActions)
         /\ Node!Insertable(nullifiers, nfs)
         /\ nullifiers' = nullifiers \cup Node!Elements(nfs)
         /\ Node!Seal(Node!AppendedAll(tree, cms), nfs, {bundle.anchor})
  <2>1. Len(Node!NullifiersOf(bundle)) = NumActions
    BY <1>4 DEF nfs
  <2>2. Listed(Node!CommitmentsOf(bundle)) /\ Len(Node!CommitmentsOf(bundle)) = NumActions
    BY <1>4
  <2> QED
    BY <1>1, <1>3, <1>4, <2>1, <2>2, ApplyParts DEF nfs
<1>6. CASE outcome' # "Ok"
  <2>1. UNCHANGED <<tree, nullifiers, log, chain>> /\ outcome' \in Outcomes
    BY <1>1, <1>5, <1>6 DEF Publish, Outcomes
  <2>2. clock' \in Nat
    BY <1>1 DEF TInv, LedgerIsSound
  <2> QED
    BY <1>1, <2>1, <2>2, NothingKeepsTInv
<1>7. CASE outcome' = "Ok"
  <2>1. /\ Node!HasRoomFor(tree, NumActions)
        /\ Node!Insertable(nullifiers, nfs)
        /\ nullifiers' = nullifiers \cup Node!Elements(nfs)
        /\ Node!Seal(Node!AppendedAll(tree, cms), nfs, {bundle.anchor})
    BY <1>5, <1>7
  <2>2. TreeIsRecord /\ NullifiersAreNullifiers
    BY DEF TInv, LedgerIsSound
  <2> DEFINE grown == Node!AppendedAll(tree, cms)
             l == tree.leaves \o cms
             k == tree.marked
             c == tree.checkpoints
  <2>3. grown = [leaves |-> l, marked |-> k, checkpoints |-> c] /\ Len(l) <= MAX_NOTES
    BY <1>4, <2>1, <2>2, AllAppended
  <2>4. Listed(l)
    BY <1>4, <2>2, Joining DEF TreeIsRecord
  <2> HIDE DEF grown, l, k, c
  <2>5. /\ TreeIsRecord' /\ tree'.leaves = l
        /\ \E e : e.root = tree'.leaves /\ log' = Append(log, e)
    <3>1. Node!Seal(grown, nfs, {bundle.anchor})
      BY <2>1 DEF grown
    <3> QED
      BY <2>3, <2>4, <3>1, Sealed
  <2>6. chain' = Append(chain, outputs)
    BY <1>1, <1>7 DEF Publish
  <2>7. nullifiers' = nullifiers \cup {nfs[i] : i \in 1..NumActions}
    BY <1>4, <2>1 DEF Node!Elements
  <2>8. /\ \A i \in 1..NumActions : nfs[i] \notin nullifiers
        /\ \A i, j \in 1..NumActions : nfs[i] = nfs[j] => i = j
    BY <1>4, <2>1 DEF Node!Insertable
  <2>9. NullifiersAreNullifiers'
    <3> SUFFICES ASSUME NEW nf \in nullifiers' PROVE Kind(nf) = NullifierKind
      BY DEF NullifiersAreNullifiers, Kind, NullifierKind
    <3> QED
      BY <1>4, <2>2, <2>7 DEF NullifiersAreNullifiers
  <2>10. Extended(outputs)
    <3>1. ASSUME NEW i \in DOMAIN outputs
          PROVE  LET cm == outputs[i].cm
                 IN  outputs[i].note = cm /\ IsSound(cm) /\ cm.rho \in nullifiers' \ nullifiers
      BY <1>4, <2>7, <2>8
    <3>2. \A i, j \in DOMAIN outputs : outputs[i].cm.rho = outputs[j].cm.rho => i = j
      BY <1>4, <2>8
    <3>3. tree'.leaves = tree.leaves \o CmsOf(outputs) /\ Len(tree'.leaves) <= MAX_NOTES
      BY <2>3, <2>5 DEF l, cms
    <3> QED
      BY <1>4, <2>5, <2>6, <3>1, <3>2, <3>3 DEF Extended
  <2>11. nullifiers \subseteq nullifiers' /\ outcome' \in Outcomes
    BY <1>7, <2>7 DEF Outcomes
  <2> QED
    BY <1>1, <2>9, <2>10, <2>11, ExtendedKeepsTInv
<1> QED
  BY <1>6, <1>7
-----------------------------------------------------------------------------
(* What is read of the log at the place a wallet has come to.              *)
LEMMA NextRoot ==
  ASSUME LedgerIsSound, NEW c \in Nat, c + 2 <= Len(chain)
  PROVE  LET l   == log[c + 1].root
             cms == CmsOf(chain[c + 2])
         IN  /\ Listed(l) /\ Listed(cms) /\ DOMAIN cms = 1..Len(cms) /\ Len(cms) \in Nat
             /\ DOMAIN chain[c + 2] = DOMAIN cms
             /\ \A i \in DOMAIN cms : cms[i] = chain[c + 2][i].cm /\ cms[i] = chain[c + 2][i].note
             /\ log[c + 2].root = l \o cms
             /\ Len(l) + Len(cms) <= MAX_NOTES
             /\ c + 1 \in 0..(Len(log) - 1)
<1> DEFINE l == log[c + 1].root
           outputs == chain[c + 2]
           cms == CmsOf(outputs)
<1>1. Follows(chain, log, tree.leaves)
  BY DEF LedgerIsSound, ChainFollowsLog
<1>2. /\ Len(chain) = Len(log) /\ Len(log) \in Nat /\ DOMAIN log = 1..Len(log)
      /\ DOMAIN chain = 1..Len(log)
  BY <1>1, ListedProperties DEF Follows
<1>3. /\ c + 2 \in 2..Len(log) /\ c + 2 \in DOMAIN chain /\ c + 1 \in DOMAIN log
      /\ c + 2 \in DOMAIN log /\ (c + 2) - 1 = c + 1 /\ c + 1 \in 0..(Len(log) - 1)
  BY <1>2
<1>4. Listed(outputs) /\ \A i \in DOMAIN outputs : outputs[i].note = outputs[i].cm
  BY <1>1, <1>3 DEF Follows
<1>5. log[c + 2].root = l \o cms
  <2>1. log[c + 2].root = log[(c + 2) - 1].root \o [i \in DOMAIN outputs |-> outputs[i].cm]
    BY <1>1, <1>3 DEF Follows
  <2> QED
    BY <1>3, <2>1 DEF CmsOf
<1>6. Listed(l) /\ Len(log[c + 2].root) <= Len(tree.leaves)
  BY <1>3 DEF LedgerIsSound, RootsArePrefixes
<1> DEFINE k == Len(outputs)
<1>7. DOMAIN outputs = 1..k /\ k \in Nat
  BY <1>4, ListedProperties
<1> HIDE DEF outputs, k, l
<1>8. DOMAIN cms = 1..k /\ cms = [i \in 1..k |-> cms[i]] /\ \A i \in 1..k : cms[i] = outputs[i].cm
  BY <1>7 DEF CmsOf
<1> HIDE DEF cms
<1>9. Listed(cms) /\ Len(cms) = k
  BY <1>7, <1>8, Lists
<1>10. Len(l) + Len(cms) <= MAX_NOTES
  <2>1. Len(log[c + 2].root) = Len(l) + Len(cms)
    BY <1>5, <1>6, <1>9, Joined
  <2>2. Len(tree.leaves) \in Nat /\ Len(tree.leaves) <= MAX_NOTES /\ MAX_NOTES \in Nat
    BY ListedProperties, MaxNotesAssumption DEF LedgerIsSound, TreeIsRecord
  <2>3. Len(l) \in Nat
    BY <1>6, ListedProperties
  <2> QED
    BY <1>6, <1>7, <1>9, <2>1, <2>2, <2>3
<1> QED
  BY <1>3, <1>4, <1>5, <1>6, <1>7, <1>8, <1>9, <1>10 DEF l, cms, outputs

(* A wallet's tree takes in the next transaction whole.                    *)
LEMMA FollowedTree ==
  ASSUME NEW t, t = [leaves |-> t.leaves, marked |-> t.marked, checkpoints |-> t.checkpoints],
         NEW outputs, Listed(t.leaves), Listed(CmsOf(outputs)),
         Len(t.leaves) + Len(CmsOf(outputs)) <= MAX_NOTES, NEW mine
  PROVE  \E marked : Followed(t, outputs, mine) =
           [leaves |-> t.leaves \o CmsOf(outputs), marked |-> marked,
            checkpoints |-> t.checkpoints + 1]
<1> DEFINE cms == CmsOf(outputs)
           a == t.leaves
           k == t.marked
           c == t.checkpoints
           l == a \o cms
           more == {Size(t) + i - 1 : i \in mine}
           grown == AppendedAll(t, cms)
           marking == [grown EXCEPT !.marked = @ \cup more]
<1>1. Len(cms) \in Nat /\ Len(a) \in Nat /\ MAX_NOTES \in Nat
  BY ListedProperties, MaxNotesAssumption
<1>2. SubSeq(cms, 1, Len(cms)) = cms
  BY SubSeqFull DEF Listed
<1>3. grown = [t EXCEPT !.leaves = l]
  <2>1. Len(cms) <= MAX_NOTES - Size(t)
    BY <1>1 DEF Size
  <2>2. SubSeq(cms, 1, IF Len(cms) <= MAX_NOTES - Size(t) THEN Len(cms)
                       ELSE MAX_NOTES - Size(t)) = cms
    BY <1>2, <2>1
  <2> QED
    BY <2>2 DEF AppendedAll
<1>4. t = [leaves |-> a, marked |-> k, checkpoints |-> c]
  OBVIOUS
<1>5. Followed(t, outputs, mine) = [marking EXCEPT !.checkpoints = marking.checkpoints + 1]
  BY DEF Followed, Checkpointed, CmsOf
<1> HIDE DEF a, k, c, l, more, grown
<1>6. grown = [leaves |-> l, marked |-> k, checkpoints |-> c]
  BY <1>3, <1>4
<1> DEFINE k2 == k \cup more
           c2 == c + 1
<1>7. marking = [grown EXCEPT !.marked = k2]
  <2>1. grown.marked = k
    BY <1>6
  <2> QED
    BY <2>1
<1> HIDE DEF k2, c2, marking
<1>8. marking = [leaves |-> l, marked |-> k2, checkpoints |-> c] /\ marking.checkpoints + 1 = c2
  <2>1. marking = [leaves |-> l, marked |-> k2, checkpoints |-> c]
    BY <1>6, <1>7
  <2>2. marking.checkpoints = c
    BY <2>1
  <2> QED
    BY <2>1, <2>2 DEF c2
<1>9. [marking EXCEPT !.checkpoints = c2] = [leaves |-> l, marked |-> k2, checkpoints |-> c2]
  BY <1>8
<1>10. Followed(t, outputs, mine) = [leaves |-> l, marked |-> k2, checkpoints |-> c2]
  BY <1>5, <1>8, <1>9
<1> QED
  BY <1>10 DEF l, a, c2, c

(* Following the chain keeps TInv: the wallet gets the next root, and the
   notes found are the leaves that were added for them.                    *)
LEMMA FollowKeepsTInv ==
  ASSUME TInv, NEW user \in User, Follow(user)
  PROVE  TInv'
<1> DEFINE w == wallets[user]
           t == w.tree
           next == t.checkpoints + 2
           outputs == chain[next]
           mine == Mine(user, outputs)
           found == {[note |-> outputs[i].note, position |-> Positions(t, i)] : i \in mine}
           new == [tree |-> Followed(t, outputs, mine), notes |-> w.notes \cup found]
           cms == CmsOf(outputs)
           n == Len(t.leaves)
<1>1. /\ next <= Len(chain) /\ wallets' = [wallets EXCEPT ![user] = new]
      /\ UNCHANGED <<clock, ledger, chain, sessions, consents>>
  BY Zenon DEF Follow
<1>2. LedgerIsSound /\ IsWallet(user, w)
  BY DEF TInv, WalletsAreSound
<1>3. /\ t = [leaves |-> t.leaves, marked |-> t.marked, checkpoints |-> t.checkpoints]
      /\ t.checkpoints \in Nat
      /\ t.leaves = log[t.checkpoints + 1].root
      /\ \A owned \in w.notes :
           /\ owned.position \in Nat /\ owned.position + 1 \in DOMAIN t.leaves
           /\ t.leaves[owned.position + 1] = owned.note
           /\ owned.note.address = address_of(full_viewing_key(user))
  BY <1>2 DEF IsWallet
<1>4. /\ Listed(t.leaves) /\ Listed(cms) /\ DOMAIN cms = 1..Len(cms) /\ Len(cms) \in Nat
      /\ DOMAIN outputs = DOMAIN cms
      /\ \A i \in DOMAIN cms : cms[i] = outputs[i].cm /\ cms[i] = outputs[i].note
      /\ log[next].root = t.leaves \o cms
      /\ n + Len(cms) <= MAX_NOTES
      /\ t.checkpoints + 1 \in 0..(Len(log) - 1)
  BY <1>1, <1>2, <1>3, NextRoot
<1>5. \E marked : Followed(t, outputs, mine) =
        [leaves |-> t.leaves \o CmsOf(outputs), marked |-> marked, checkpoints |-> t.checkpoints + 1]
  <2>1. t = [leaves |-> t.leaves, marked |-> t.marked, checkpoints |-> t.checkpoints]
    BY <1>3
  <2>2. Listed(t.leaves) /\ Listed(CmsOf(outputs)) /\ Len(t.leaves) + Len(CmsOf(outputs)) <= MAX_NOTES
    BY <1>4
  <2> HIDE DEF t, outputs, mine
  <2> QED
    BY <2>1, <2>2, FollowedTree
<1>6. PICK marked : Followed(t, outputs, mine) =
        [leaves |-> t.leaves \o cms, marked |-> marked, checkpoints |-> t.checkpoints + 1]
  BY <1>5
<1> DEFINE l == t.leaves \o cms
           c == t.checkpoints
<1>7. DOMAIN t.leaves = 1..n /\ n \in Nat
  BY <1>4, ListedProperties
<1> HIDE DEF w, t, n, cms, outputs, mine, found, c
<1>8. /\ Listed(l) /\ Len(l) = n + Len(cms)
      /\ \A p \in 1..n : l[p] = t.leaves[p]
      /\ \A p \in 1..Len(cms) : l[n + p] = cms[p]
  <2>1. Listed(l) /\ Len(l) = Len(t.leaves) + Len(cms)
    BY <1>4, Joining
  <2>2. \A p \in 1..Len(t.leaves) : l[p] = t.leaves[p]
    BY <1>4, Joining
  <2>3. \A p \in 1..Len(cms) : l[Len(t.leaves) + p] = cms[p]
    BY <1>4, Joining
  <2> QED
    BY <2>1, <2>2, <2>3 DEF n
<1> HIDE DEF l
<1>9. DOMAIN l = 1..(n + Len(cms))
  BY <1>8, ListedProperties
<1>10. new.tree = [leaves |-> l, marked |-> marked, checkpoints |-> c + 1]
      /\ new.notes = w.notes \cup found
  BY <1>6 DEF l, c, w
<1>11. new.tree.leaves = l /\ new.tree.checkpoints = c + 1
       /\ new.tree = [leaves |-> new.tree.leaves, marked |-> new.tree.marked,
                      checkpoints |-> new.tree.checkpoints]
  <2> HIDE DEF new
  <2> QED
    BY <1>10
<1>12. ASSUME NEW owned \in w.notes
       PROVE  /\ owned.position \in Nat /\ owned.position + 1 \in DOMAIN l
              /\ l[owned.position + 1] = owned.note
              /\ owned.note.address = address_of(full_viewing_key(user))
  <2> DEFINE p == owned.position + 1
  <2>1. /\ p \in 1..n /\ owned.position \in Nat /\ t.leaves[p] = owned.note
        /\ owned.note.address = address_of(full_viewing_key(user))
    BY <1>3, <1>7
  <2> HIDE DEF p
  <2>2. p \in DOMAIN l
    BY <1>4, <1>7, <1>9, <2>1
  <2>3. l[p] = owned.note
    BY <1>8, <2>1
  <2> QED
    BY <2>1, <2>2, <2>3 DEF p
<1>13. ASSUME NEW owned \in found
       PROVE  /\ owned.position \in Nat /\ owned.position + 1 \in DOMAIN l
              /\ l[owned.position + 1] = owned.note
              /\ owned.note.address = address_of(full_viewing_key(user))
  <2>1. PICK i \in mine : owned = [note |-> outputs[i].note, position |-> Positions(t, i)]
    BY DEF found
  <2>2. owned.note = outputs[i].note /\ owned.position = n + i - 1
    BY <2>1 DEF Positions, Size, n
  <2>3. i \in DOMAIN outputs /\ outputs[i].note.address = address_of(full_viewing_key(user))
    BY DEF Mine, owns, mine
  <2>4. i \in 1..Len(cms) /\ cms[i] = outputs[i].note
    BY <1>4, <2>3
  <2>5. n + i - 1 \in Nat /\ (n + i - 1) + 1 = n + i /\ n + i \in 1..(n + Len(cms))
    BY <1>4, <1>7, <2>4
  <2> QED
    BY <1>8, <1>9, <2>2, <2>3, <2>4, <2>5
<1>14. c + 1 \in 0..(Len(log) - 1) /\ l = log[(c + 1) + 1].root
  <2>1. (c + 1) + 1 = next
    BY <1>3 DEF c
  <2> QED
    BY <1>4, <2>1 DEF l, c
<1> HIDE DEF next
<1>15. IsWallet(user, new)
  BY <1>10, <1>11, <1>12, <1>13, <1>14 DEF IsWallet
<1> HIDE DEF new
<1>16. DOMAIN wallets' = User /\ wallets' = [v \in User |-> wallets'[v]]
       /\ \A v \in User : wallets'[v] = IF v = user THEN new ELSE wallets[v]
  BY <1>1 DEF TInv
<1>17. log' = log /\ tree' = tree /\ nullifiers' = nullifiers /\ outcome' = outcome
  BY <1>1 DEF ledger
<1>18. WalletsAreSound'
  <2>1. \A v \in User : IsWallet(v, wallets'[v])
    BY <1>15, <1>16 DEF TInv, WalletsAreSound
  <2> QED
    BY <1>17, <2>1 DEF WalletsAreSound, IsWallet, address_of, full_viewing_key, commit_ivk
<1>19. LedgerIsSound'
  <2>1. clock' \in Nat
    BY <1>1 DEF TInv, LedgerIsSound
  <2> QED
    BY <1>1, <1>2, <1>17, <2>1, LedgerStays
<1>20. SessionsAreSound' /\ SignedAsShown'
  <2>1. sessions' = sessions /\ consents' = consents
    BY <1>1
  <2>2. SessionsAreSound /\ SignedAsShown
    BY DEF TInv
  <2>3. SessionsAreSound'
    BY <2>1, <2>2 DEF SessionsAreSound, IsBuilt, Covers, IsReady, HasConsent
  <2>4. SignedAsShown'
    BY <2>1, <2>2 DEF SignedAsShown
  <2> QED
    BY <2>3, <2>4
<1>21. DOMAIN sessions' = Session /\ sessions' = [s \in Session |-> sessions'[s]]
       /\ outcome' \in Outcomes
  BY <1>1, <1>17 DEF TInv, Outcomes
<1> QED
  BY <1>16, <1>18, <1>19, <1>20, <1>21 DEF TInv, Outcomes

(* The clock keeps TInv.                                                   *)
LEMMA TickKeepsTInv ==
  ASSUME TInv, Tick
  PROVE  TInv'
<1>1. UNCHANGED <<tree, nullifiers, log, chain, wallets, sessions, consents>> /\ outcome' = outcome
  BY DEF Tick, ledger
<1>2. clock' \in Nat
  BY DEF Tick, TInv, LedgerIsSound
<1> QED
  BY <1>1, <1>2, NothingKeepsTInv DEF TInv, Outcomes

-----------------------------------------------------------------------------
(* No element is bad when the first bad one is none.                       *)
LEMMA FirstErrorOk ==
  ASSUME NEW results, DOMAIN results \in SUBSET Nat, FirstError(results) = "Ok"
  PROVE  \A i \in DOMAIN results : results[i] = "Ok"
<1> DEFINE bad == {i \in DOMAIN results : results[i] # "Ok"}
           first == CHOOSE i \in bad : \A j \in bad : i <= j
<1> SUFFICES ASSUME bad # {} PROVE FALSE
  OBVIOUS
<1>1. bad \in SUBSET Nat
  OBVIOUS
<1>2. \E i \in bad : \A j \in bad : i <= j
  BY <1>1, Least
<1>3. first \in bad
  BY <1>2, Zenon
<1>4. FirstError(results) = results[first]
  BY Zenon DEF FirstError
<1> QED
  BY <1>3, <1>4

-----------------------------------------------------------------------------
(* Zeros at the end add nothing.                                           *)
LEMMA PaddedTotal ==
  ASSUME NEW n \in Nat, NEW m \in Nat, m <= n, NEW values \in [1..n -> Int],
         \A i \in (m + 1)..n : values[i] = 0
  PROVE  Total(values) = Total([i \in 1..m |-> values[i]])
<1> DEFINE short == [i \in 1..m |-> values[i]]
<1>1. PICK sums : Sums(values, n, sums)
  BY SumsExist
<1>2. sums \in [0..n -> Int] /\ sums[0] = 0
      /\ \A i \in 1..n : sums[i] = sums[i - 1] + values[i]
  BY <1>1 DEF Sums
<1> DEFINE start == [i \in 0..m |-> sums[i]]
<1>3. Sums(short, m, start)
  <2>1. short \in [1..m -> Int] /\ start \in [0..m -> Int] /\ start[0] = 0
    BY <1>2
  <2>2. ASSUME NEW i \in 1..m PROVE start[i] = start[i - 1] + short[i]
    <3>1. i \in 1..n /\ i \in 0..m /\ i - 1 \in 0..m
      OBVIOUS
    <3> QED
      BY <1>2, <3>1
  <2> HIDE DEF short, start
  <2> QED
    BY <2>1, <2>2 DEF Sums
<1> DEFINE d == n - m
           rest == [i \in 0..d |-> sums[m + i]]
           S == {sums[m]}
<1>4. \A i \in 0..d : rest[i] \in S
  <2>1. d \in Nat /\ rest[0] \in S
    BY <1>2
  <2>2. ASSUME NEW i \in 1..d, rest[i - 1] \in S PROVE rest[i] \in S
    <3>1. m + i \in 1..n /\ m + i \in (m + 1)..n /\ (m + i) - 1 = m + (i - 1)
          /\ m + (i - 1) \in 0..n /\ i - 1 \in 0..d /\ i \in 0..d
      OBVIOUS
    <3>2. sums[m + i] = sums[m + (i - 1)] + 0 /\ sums[m + (i - 1)] \in Int
      BY <1>2, <3>1
    <3>3. sums[m + i] = sums[m + (i - 1)]
      BY <3>2
    <3> QED
      BY <2>2, <3>1, <3>3
  <2> HIDE DEF d, rest, S
  <2> QED
    BY <2>1, <2>2, StaysIn
<1>5. sums[n] = start[m]
  <2>1. d \in 0..d /\ m + d = n
    OBVIOUS
  <2> QED
    BY <1>4, <2>1
<1>6. Total(values) = sums[n]
  BY <1>1, FoldIsSum, Zenon DEF Total
<1>7. Total(short) = start[m]
  <2> HIDE DEF short, start
  <2> QED
    BY <1>3, FoldIsSum, Zenon DEF Total
<1> QED
  BY <1>5, <1>6, <1>7

(* A sum of differences is the difference of both sums.                    *)
LEMMA TotalOfDifferences ==
  ASSUME NEW n \in Nat, NEW a \in [1..n -> Int], NEW b \in [1..n -> Int]
  PROVE  /\ Total([i \in 1..n |-> a[i] - b[i]]) = Total(a) - Total(b)
         /\ Total(a) \in Int /\ Total(b) \in Int
<1> DEFINE c == [i \in 1..n |-> a[i] - b[i]]
<1>1. PICK p : Sums(a, n, p)
  BY SumsExist
<1>2. PICK q : Sums(b, n, q)
  BY SumsExist
<1> DEFINE r == [i \in 0..n |-> p[i] - q[i]]
<1>3. Sums(c, n, r)
  <2>1. c \in [1..n -> Int] /\ r \in [0..n -> Int] /\ r[0] = 0
    BY <1>1, <1>2 DEF Sums
  <2>2. ASSUME NEW i \in 1..n PROVE r[i] = r[i - 1] + c[i]
    <3>1. i \in 0..n /\ i - 1 \in 0..n
      OBVIOUS
    <3>2. p[i] = p[i - 1] + a[i] /\ q[i] = q[i - 1] + b[i]
          /\ p[i - 1] \in Int /\ q[i - 1] \in Int /\ a[i] \in Int /\ b[i] \in Int
      BY <1>1, <1>2, <3>1 DEF Sums
    <3> QED
      BY <3>1, <3>2
  <2> HIDE DEF c, r
  <2> QED
    BY <2>1, <2>2 DEF Sums
<1>4. Total(a) = p[n] /\ Total(b) = q[n]
  BY <1>1, <1>2, FoldIsSum, Zenon DEF Total
<1>5. Total(c) = r[n]
  <2> HIDE DEF c, r
  <2> QED
    BY <1>3, FoldIsSum, Zenon DEF Total
<1>6. n \in 0..n /\ p[n] \in Int /\ q[n] \in Int
  BY <1>1, <1>2 DEF Sums
<1> QED
  BY <1>4, <1>5, <1>6

-----------------------------------------------------------------------------
(* A spend and an output that build has nothing against.                   *)
Spendable(spend, anchor, now) ==
  /\ IsSound(spend.note) /\ spend.note.address = address_of(spend.fvk)
  /\ spend.note.t_note <= now
  /\ spend.note.value = 0 \/ PathLeadsTo(spend.note, spend.position, spend.path, anchor)
Creatable(output) == output.value \in Nat /\ output.value < VALUE_LIMIT

(* What one action is made of.                                             *)
LEMMA ActionParts ==
  ASSUME NEW anchor, NEW now, NEW spend, NEW output, NEW ovk, NEW seed, NEW i
  PROVE  LET a   == Action(Community, anchor, now, spend, output, ovk, seed, i)
             p   == a.published
             nf  == nullifier(spend.fvk.nk, spend.note)
             new == from_parts(Community, output.value, now, output.address, nf,
                               output.memo_cm, Fresh(seed, "rseed", i))
             cv  == value_commitment(Worth(spend.note, now) - output.value, a.rcv)
         IN  /\ p.cv_net = cv /\ p.nullifier = nf /\ p.rk = Rerandomized(spend.fvk.ak, a.alpha)
             /\ p.cm = new /\ p.encrypted.plaintext = new
             /\ a.proven <=> Statement(
                   Instance(Community, anchor, nf, p.rk, new, cv, now),
                   Witnessed(spend.note, spend.fvk, spend.position, spend.path,
                             new, a.rcv, a.alpha))
<1> DEFINE nf == nullifier(spend.fvk.nk, spend.note)
           new == from_parts(Community, output.value, now, output.address, nf,
                             output.memo_cm, Fresh(seed, "rseed", i))
           alpha == Fresh(seed, "alpha", i)
           rcv == Fresh(seed, "rcv", i)
           cv == value_commitment(Worth(spend.note, now) - output.value, rcv)
           rk == Rerandomized(spend.fvk.ak, alpha)
           enc == encrypt(new, ovk, cv)
           proven == Statement(Instance(Community, anchor, nf, rk, new, cv, now),
                       Witnessed(spend.note, spend.fvk, spend.position, spend.path,
                                 new, rcv, alpha))
           opening == [address |-> output.address, value |-> output.value,
                       rseed |-> Fresh(seed, "rseed", i),
                       memo_cm |-> output.memo_cm, memo |-> output.memo]
           a == Action(Community, anchor, now, spend, output, ovk, seed, i)
<1>1. a = [published |-> [cv_net |-> cv, nullifier |-> nf, rk |-> rk, cm |-> new, encrypted |-> enc],
           proven |-> proven, alpha |-> alpha, rcv |-> rcv, opening |-> opening]
  BY Zenon DEF Action, commitment
<1>2. enc.plaintext = new
  BY DEF encrypt
<1> HIDE DEF enc, proven, opening, rk, cv, new, nf, alpha, rcv, a
<1>3. /\ a.published = [cv_net |-> cv, nullifier |-> nf, rk |-> rk, cm |-> new, encrypted |-> enc]
      /\ a.proven = proven /\ a.alpha = alpha /\ a.rcv = rcv
  BY <1>1
<1>4. /\ a.published.cv_net = cv /\ a.published.nullifier = nf /\ a.published.rk = rk
      /\ a.published.cm = new /\ a.published.encrypted.plaintext = new
  BY <1>2, <1>3
<1> QED
  BY <1>3, <1>4, Zenon DEF rk, cv, new, nf, proven, a

(* It is sound, and what it claims is so.                                  *)
LEMMA ActionIsSound ==
  ASSUME NEW anchor, NEW now \in Nat, now < TIME_LIMIT, NEW spend, Spendable(spend, anchor, now),
         NEW output, Creatable(output), NEW ovk, NEW seed, NEW i
  PROVE  LET a == Action(Community, anchor, now, spend, output, ovk, seed, i)
         IN  /\ IsPublished(a.published) /\ a.proven
             /\ Spent(a.published) = spend.note
             /\ a.published.rk = Rerandomized(spend.fvk.ak, a.alpha)
             /\ a.published.cv_net.value = Worth(spend.note, now) - output.value
             /\ a.published.cv_net.rcv = a.rcv
<1> DEFINE a == Action(Community, anchor, now, spend, output, ovk, seed, i)
           p == a.published
           alpha == a.alpha
           rcv == a.rcv
           nf == nullifier(spend.fvk.nk, spend.note)
           new == from_parts(Community, output.value, now, output.address, nf,
                             output.memo_cm, Fresh(seed, "rseed", i))
           cv == value_commitment(Worth(spend.note, now) - output.value, rcv)
           instance == Instance(Community, anchor, nf, p.rk, new, cv, now)
           w == Witnessed(spend.note, spend.fvk, spend.position, spend.path, new, rcv, alpha)
<1>1. /\ p.cv_net = cv /\ p.nullifier = nf /\ p.rk = Rerandomized(spend.fvk.ak, alpha)
      /\ p.cm = new /\ p.encrypted.plaintext = new
      /\ a.proven <=> Statement(instance, w)
  BY ActionParts
<1>2. /\ new = [community |-> Community, coin_community |-> Community, value |-> output.value,
                t_note |-> now, address |-> output.address, rho |-> nf,
                memo_cm |-> output.memo_cm, rseed |-> Fresh(seed, "rseed", i)]
      /\ nf.cm = spend.note /\ Kind(nf) = NullifierKind
      /\ cv.value = Worth(spend.note, now) - output.value /\ cv.rcv = rcv
  BY Kinds DEF from_parts, nullifier, commitment, value_commitment
<1>3. /\ instance.community = Community /\ instance.anchor = anchor /\ instance.now = now
      /\ instance.nullifier = nf /\ instance.rk = p.rk /\ instance.cm = new /\ instance.cv_net = cv
      /\ w.old = spend.note /\ w.fvk = spend.fvk /\ w.position = spend.position
      /\ w.path = spend.path /\ w.new = new /\ w.rcv = rcv /\ w.alpha = alpha
  BY DEF Instance, Witnessed
<1> HIDE DEF a, p, alpha, rcv, nf, new, cv, instance, w
<1>4. /\ new.value = output.value /\ new.t_note = now /\ new.rho = nf /\ IsNote(new)
      /\ new.community = Community /\ new.coin_community = Community
  BY <1>2 DEF IsNote
<1>5. IsSound(new)
  BY <1>4 DEF IsSound, Creatable
<1>6. IsPublished(p)
  <2>1. Kind(p.nullifier) = NullifierKind
    BY <1>1, <1>2
  <2>2. IsSound(p.cm) /\ p.cm.rho = p.nullifier
    BY <1>1, <1>4, <1>5
  <2>3. p.encrypted.plaintext = p.cm
    BY <1>1
  <2> QED
    BY <2>1, <2>2, <2>3, Zenon DEF IsPublished
<1>7. OldNote(instance, w) = spend.note
  <2> DEFINE note == spend.note
  <2>1. OldNote(instance, w) = [note EXCEPT !.community = Community, !.coin_community = Community,
                                            !.address = address_of(spend.fvk)]
    BY <1>3, Zenon DEF OldNote
  <2>2. /\ IsNote(note) /\ note.community = Community /\ note.coin_community = Community
        /\ note.address = address_of(spend.fvk)
    BY DEF Spendable, IsSound
  <2> HIDE DEF note
  <2>3. note = [community |-> Community, coin_community |-> Community,
                value |-> note.value, t_note |-> note.t_note, address |-> address_of(spend.fvk),
                rho |-> note.rho, memo_cm |-> note.memo_cm, rseed |-> note.rseed]
    BY <2>2, Zenon DEF IsNote
  <2>4. OldNote(instance, w) = note
    BY <2>1, <2>2, <2>3, NoteMoved, Zenon
  <2> QED
    BY <2>4 DEF note
<1>8. NewNote(instance, w, nf) = new
  <2> DEFINE n1 == [new EXCEPT !.community = Community, !.coin_community = Community, !.t_note = now]
  <2>1. NewNote(instance, w, nf) = [n1 EXCEPT !.rho = nf]
    BY <1>3 DEF NewNote
  <2>2. n1 = [community |-> Community, coin_community |-> Community, value |-> new.value,
              t_note |-> now, address |-> new.address, rho |-> new.rho,
              memo_cm |-> new.memo_cm, rseed |-> new.rseed]
    <3>1. IsNote(new)
      BY <1>4
    <3> QED
      BY <3>1, NoteRedated, Zenon
  <2>3. new = n1
    BY <1>4, <2>2, Zenon DEF IsNote
  <2>4. n1.rho = nf
    BY <1>4, <2>3
  <2> HIDE DEF n1
  <2>5. [n1 EXCEPT !.rho = nf] = n1
    BY <2>2, <2>4
  <2> QED
    BY <2>1, <2>3, <2>5
<1>9. Statement(instance, w)
  <2> DEFINE note == spend.note
  <2>1. /\ note.value \in Nat /\ note.value < VALUE_LIMIT /\ note.t_note \in Nat
        /\ note.t_note < TIME_LIMIT /\ note.t_note <= now
        /\ note.value = 0 \/ PathLeadsTo(note, spend.position, spend.path, anchor)
    BY DEF Spendable, IsSound
  <2> HIDE DEF note
  <2>2. InRange(note) /\ InRange(new)
    BY <1>4, <2>1 DEF InRange, Creatable
  <2>3. ~FromTheFuture(note, now)
    BY <2>1 DEF FromTheFuture
  <2>4. SpendsFromTree(instance, w, note)
    BY <1>3, <2>1 DEF SpendsFromTree, commitment
  <2>5. nullifier(w.fvk.nk, note) = nf
    BY <1>3 DEF nf, note
  <2>6. instance.cv_net = value_commitment(Worth(note, instance.now) - new.value, w.rcv)
    BY <1>3, <1>4 DEF cv, note
  <2>7. instance.rk = Rerandomized(w.fvk.ak, w.alpha) /\ instance.cm = commitment(new)
    BY <1>1, <1>3 DEF commitment
  <2>8. OldNote(instance, w) = note
    BY <1>7 DEF note
  <2> QED
    BY <1>3, <1>8, <2>2, <2>3, <2>4, <2>5, <2>6, <2>7, <2>8, Zenon DEF Statement
<1>10. Spent(p) = spend.note
  BY <1>1, <1>2 DEF Spent
<1> QED
  BY <1>1, <1>2, <1>6, <1>9, <1>10 DEF a, p, alpha, rcv

-----------------------------------------------------------------------------
(* What build has looked at.                                               *)
LEMMA NoBuildError ==
  ASSUME NEW now \in Nat, NEW spends, DOMAIN spends = 1..Len(spends), Len(spends) \in Nat,
         NEW outputs, DOMAIN outputs = 1..Len(outputs), Len(outputs) \in Nat,
         \A i \in DOMAIN outputs : outputs[i].value \in Nat,
         BuildError(Community, now, spends, outputs) = "Ok"
  PROVE  /\ Len(spends) <= NumActions /\ Len(outputs) <= NumActions /\ now < TIME_LIMIT
         /\ \A i \in DOMAIN spends : ~FromTheFuture(spends[i].note, now)
         /\ WorthUpTo(spends, Len(spends), now) = CreatedUpTo(outputs, Len(outputs))
         /\ \A i \in DOMAIN outputs : Creatable(outputs[i])
<1> DEFINE spendErrors == [i \in DOMAIN spends |-> SpendError(Community, now, spends, i)]
           outputErrors == [i \in DOMAIN outputs |-> OutputError(outputs, i)]
           noteErrors == [i \in DOMAIN outputs |-> NoteError(outputs[i].value, now)]
<1>1. /\ ~(Len(spends) > NumActions) /\ ~(Len(outputs) > NumActions) /\ ~(now >= TIME_LIMIT)
      /\ FirstError(spendErrors) = "Ok"
      /\ WorthUpTo(spends, Len(spends), now) = CreatedUpTo(outputs, Len(outputs))
      /\ FirstError(noteErrors) = "Ok"
  <2> HIDE DEF spendErrors, outputErrors, noteErrors
  <2>1. BuildError(Community, now, spends, outputs) =
          IF Len(spends) > NumActions THEN "TooManySpends"
          ELSE IF Len(outputs) > NumActions THEN "TooManyOutputs"
          ELSE IF now >= TIME_LIMIT THEN "TimestampTooLarge"
          ELSE IF FirstError(spendErrors) # "Ok" THEN FirstError(spendErrors)
          ELSE IF FirstError(outputErrors) # "Ok" THEN FirstError(outputErrors)
          ELSE IF WorthUpTo(spends, Len(spends), now) # CreatedUpTo(outputs, Len(outputs))
          THEN "Unbalanced"
          ELSE FirstError(noteErrors)
    BY Zenon DEF BuildError, spendErrors, outputErrors, noteErrors
  <2> QED
    BY <2>1
<1>2. ASSUME NEW i \in DOMAIN spends PROVE ~FromTheFuture(spends[i].note, now)
  <2>1. DOMAIN spendErrors \in SUBSET Nat
    OBVIOUS
  <2>2. spendErrors[i] = "Ok"
    <3> HIDE DEF spendErrors
    <3>1. i \in DOMAIN spendErrors
      BY DEF spendErrors
    <3> QED
      BY <1>1, <2>1, <3>1, FirstErrorOk
  <2>3. SpendError(Community, now, spends, i) = "Ok"
    BY <2>2
  <2>4. ~(\E j \in 1..i : FromTheFuture(spends[j].note, now))
    BY <2>3 DEF SpendError
  <2>5. i \in 1..i
    OBVIOUS
  <2> QED
    BY <2>4, <2>5
<1>3. ASSUME NEW i \in DOMAIN outputs PROVE Creatable(outputs[i])
  <2>1. DOMAIN noteErrors \in SUBSET Nat
    OBVIOUS
  <2>2. noteErrors[i] = "Ok"
    <3> HIDE DEF noteErrors
    <3>1. i \in DOMAIN noteErrors
      BY DEF noteErrors
    <3> QED
      BY <1>1, <2>1, <3>1, FirstErrorOk
  <2>3. NoteError(outputs[i].value, now) = "Ok"
    BY <2>2
  <2>4. ~(outputs[i].value >= VALUE_LIMIT)
    BY <2>3 DEF NoteError
  <2>5. VALUE_LIMIT \in Nat /\ outputs[i].value \in Nat
    BY DecayAssumption
  <2> QED
    BY <2>4, <2>5 DEF Creatable
<1>4. NumActions \in Nat /\ TIME_LIMIT \in Nat
  BY AmountAssumption
<1> QED
  BY <1>1, <1>2, <1>3, <1>4

(* A note that a wallet found can be spent from the wallet's tree.         *)
LEMMA FoundIsSpendable ==
  ASSUME TInv, NEW user \in User, NEW owned \in wallets[user].notes
  PROVE  LET info == SpendInfo(user, owned)
         IN  /\ IsSound(info.note) /\ info.note.address = address_of(info.fvk)
             /\ info.fvk = full_viewing_key(user)
             /\ PathLeadsTo(info.note, info.position, info.path, TreeRoot(wallets[user].tree))
<1> DEFINE info == SpendInfo(user, owned)
           l == wallets[user].tree.leaves
           c == wallets[user].tree.checkpoints
           p == owned.position + 1
<1>1. IsWallet(user, wallets[user])
  BY DEF TInv, WalletsAreSound
<1>2. /\ info.fvk = full_viewing_key(user) /\ info.note = owned.note
      /\ info.position = owned.position
      /\ info.path = [tree |-> l, position |-> owned.position]
  BY DEF SpendInfo, Witness
<1>3. /\ c \in 0..(Len(log) - 1) /\ l = log[c + 1].root
      /\ p \in DOMAIN l /\ l[p] = owned.note
      /\ owned.note.address = address_of(full_viewing_key(user))
  BY <1>1 DEF IsWallet
<1> HIDE DEF info, c
<1>4. c + 1 \in DOMAIN log
  <2>1. DOMAIN log = 1..Len(log) /\ Len(log) \in Nat
    BY ListedProperties DEF TInv, LedgerIsSound, ChainFollowsLog, Follows
  <2> QED
    BY <1>3, <2>1
<1>5. Listed(l) /\ Len(l) <= Len(tree.leaves) /\ \A q \in 1..Len(l) : l[q] = tree.leaves[q]
  BY <1>3, <1>4 DEF TInv, LedgerIsSound, RootsArePrefixes
<1> HIDE DEF l, p
<1>6. /\ DOMAIN l = 1..Len(l) /\ Len(l) \in Nat /\ l = [q \in 1..Len(l) |-> l[q]]
      /\ DOMAIN tree.leaves = 1..Len(tree.leaves) /\ Len(tree.leaves) \in Nat
  BY <1>5, ListedProperties DEF TInv, LedgerIsSound, TreeIsRecord
<1>7. p \in DOMAIN tree.leaves /\ tree.leaves[p] = owned.note
  BY <1>3, <1>5, <1>6
<1>8. IsSound(owned.note)
  BY <1>7 DEF TInv, LedgerIsSound, LeavesAreSound
<1>9. l = [l EXCEPT ![p] = owned.note]
  BY <1>3, <1>6
<1>10. PathLeadsTo(info.note, info.position, info.path, TreeRoot(wallets[user].tree))
  <2>1. TreeRoot(wallets[user].tree) = l
    BY DEF TreeRoot, l
  <2>2. info.path.tree = l /\ info.path.position = owned.position
    BY <1>2
  <2> QED
    BY <1>2, <1>9, <2>1, <2>2 DEF PathLeadsTo, p
<1> QED
  BY <1>2, <1>3, <1>8, <1>10 DEF info

(* Every element of a list of spends is a note of the wallet.              *)
LEMMA SpendListParts ==
  ASSUME NEW user \in User, NEW spends \in SpendLists(user)
  PROVE  /\ DOMAIN spends = 1..Len(spends) /\ Len(spends) \in Nat
         /\ \A i \in DOMAIN spends :
              \E owned \in wallets[user].notes : spends[i] = SpendInfo(user, owned)
<1> DEFINE infos == {SpendInfo(user, owned) : owned \in wallets[user].notes}
<1>1. \/ \E spend \in infos : spends = <<spend>>
      \/ \E pair \in infos \X infos : spends = <<pair[1], pair[2]>>
  BY DEF SpendLists
<1>2. \A info \in infos : \E owned \in wallets[user].notes : info = SpendInfo(user, owned)
  OBVIOUS
<1> HIDE DEF infos
<1>3. CASE \E spend \in infos : spends = <<spend>>
  <2>1. PICK spend \in infos : spends = <<spend>>
    BY <1>3
  <2>2. Len(spends) = 1 /\ DOMAIN spends = 1..1 /\ spends[1] = spend /\ 1..1 = {1}
    BY <2>1
  <2> QED
    BY <1>2, <2>2
<1>4. CASE \E pair \in infos \X infos : spends = <<pair[1], pair[2]>>
  <2>1. PICK pair \in infos \X infos : spends = <<pair[1], pair[2]>>
    BY <1>4
  <2>2. /\ Len(spends) = 2 /\ DOMAIN spends = 1..2 /\ 1..2 = {1, 2}
        /\ spends[1] = pair[1] /\ spends[2] = pair[2] /\ pair[1] \in infos /\ pair[2] \in infos
    BY <2>1
  <2> QED
    BY <1>2, <2>2
<1> QED
  BY <1>1, <1>3, <1>4

-----------------------------------------------------------------------------
(* The parts of what build returns: padded spends and outputs, and an
   action of each pair.                                                    *)
SpendAt(spends, now, seed, i) ==
  IF i <= Len(spends) THEN spends[i] ELSE dummy_spend(Community, now, seed, i)
OutputAt(outputs, seed, i) ==
  IF i <= Len(outputs) THEN outputs[i] ELSE dummy_output(seed, i)
ActionAt(anchor, now, spends, outputs, ovk, seed, i) ==
  Action(Community, anchor, now, SpendAt(spends, now, seed, i), OutputAt(outputs, seed, i),
         ovk, seed, i)

(* A bundle of these actions.                                              *)
IsBuildOf(u, at, anchor, now, spends, seed) ==
  /\ u.anchor = anchor /\ u.now = now /\ u.community = Community
  /\ u.actions = [i \in 1..NumActions |-> at[i].published]
  /\ u.proof.of = instances(Community, anchor, now, u.actions)
  /\ u.alphas = [i \in 1..NumActions |-> at[i].alpha]
  /\ u.rcvs = [i \in 1..NumActions |-> at[i].rcv]
  /\ u.dummy_asks = [i \in 1..NumActions |->
                       IF i <= Len(spends) THEN {} ELSE {Fresh(seed, "dummy sk", i)}]
  /\ DOMAIN u.outputs = 1..NumActions
HoldsIfProven(u, at) == u.proof.holds <=> \A i \in 1..NumActions : at[i].proven

(* build returns what IsBuildOf says.                                      *)
LEMMA PartsOfBuild ==
  ASSUME NEW anchor, NEW now, NEW spends, NEW outputs, NEW ovk, NEW seed
  PROVE  LET u  == build(Community, anchor, now, spends, outputs, ovk, seed)
             at == [i \in 1..NumActions |-> ActionAt(anchor, now, spends, outputs, ovk, seed, i)]
         IN  IsBuildOf(u, at, anchor, now, spends, seed) /\ HoldsIfProven(u, at)
<1> DEFINE at == [i \in 1..NumActions |-> ActionAt(anchor, now, spends, outputs, ovk, seed, i)]
           actions == [i \in 1..NumActions |-> at[i].published]
           proof == [of |-> instances(Community, anchor, now, actions),
                     holds |-> \A i \in 1..NumActions : at[i].proven]
           alphas == [i \in 1..NumActions |-> at[i].alpha]
           rcvs == [i \in 1..NumActions |-> at[i].rcv]
           asks == [i \in 1..NumActions |->
                      IF i <= Len(spends) THEN {} ELSE {Fresh(seed, "dummy sk", i)}]
           openings == [i \in 1..NumActions |-> at[i].opening]
           u == build(Community, anchor, now, spends, outputs, ovk, seed)
<1>1. u = [anchor |-> anchor, now |-> now, community |-> Community, actions |-> actions,
           proof |-> proof, alphas |-> alphas, rcvs |-> rcvs, dummy_asks |-> asks,
           outputs |-> openings]
  BY Zenon DEF build, ActionAt, SpendAt, OutputAt
<1>2. proof.of = instances(Community, anchor, now, actions)
  OBVIOUS
<1>3. proof.holds <=> \A i \in 1..NumActions : at[i].proven
  <2> HIDE DEF at
  <2> QED
    OBVIOUS
<1>4. DOMAIN openings = 1..NumActions
  OBVIOUS
<1> HIDE DEF proof, openings, u, asks, at, actions, alphas, rcvs
<1>5. /\ u.anchor = anchor /\ u.now = now /\ u.community = Community
      /\ u.actions = actions /\ u.proof = proof /\ u.alphas = alphas
      /\ u.rcvs = rcvs /\ u.dummy_asks = asks /\ u.outputs = openings
  BY <1>1
<1>6. IsBuildOf(u, at, anchor, now, spends, seed)
  BY <1>2, <1>4, <1>5, Zenon DEF IsBuildOf, asks, actions, alphas, rcvs
<1>7. HoldsIfProven(u, at)
  BY <1>3, <1>5, Zenon DEF HoldsIfProven
<1> QED
  BY <1>6, <1>7, Zenon DEF u, at

(* What an action makes of its spend and its output.                       *)
ActionFits(a, spend, output, now) ==
  /\ IsPublished(a.published) /\ Spent(a.published) = spend.note
  /\ a.published.rk = Rerandomized(spend.fvk.ak, a.alpha)
  /\ a.published.cv_net.value = Worth(spend.note, now) - output.value
  /\ a.published.cv_net.rcv = a.rcv
(* Of p spends and q outputs, which are the user's.                        *)
PairFits(spend, output, i, p, q, user, now, seed) ==
  /\ output.value \in Nat /\ Worth(spend.note, now) \in Nat
  /\ i <= p => spend.fvk.ak = user /\ spend.note.address.ak = user
  /\ ~(i <= p) => /\ spend.note.value = 0 /\ Worth(spend.note, now) = 0
                  /\ spend.fvk.ak = Fresh(seed, "dummy sk", i)
  /\ ~(i <= q) => output.value = 0

(* Every action of a bundle is sound, and it is clear who signs for it.    *)
LEMMA ActionsOfBuild ==
  ASSUME TInv, NEW user \in User, NEW spends \in SpendLists(user), NEW outputs,
         NEW anchor, anchor = TreeRoot(wallets[user].tree),
         Listed(outputs), \A i \in DOMAIN outputs : outputs[i].value \in Nat,
         NEW now \in Nat, BuildError(Community, now, spends, outputs) = "Ok",
         NEW ovk, NEW seed, NEW i \in 1..NumActions
  PROVE  LET a      == ActionAt(anchor, now, spends, outputs, ovk, seed, i)
             spend  == SpendAt(spends, now, seed, i)
             output == OutputAt(outputs, seed, i)
         IN  /\ ActionFits(a, spend, output, now) /\ a.proven
             /\ PairFits(spend, output, i, Len(spends), Len(outputs), user, now, seed)
<1> DEFINE spend == SpendAt(spends, now, seed, i)
           output == OutputAt(outputs, seed, i)
           fake == dummy_spend(Community, now, seed, i)
<1>1. /\ DOMAIN spends = 1..Len(spends) /\ Len(spends) \in Nat
      /\ DOMAIN outputs = 1..Len(outputs) /\ Len(outputs) \in Nat
  BY SpendListParts, ListedProperties
<1>2. /\ now < TIME_LIMIT /\ \A j \in DOMAIN spends : ~FromTheFuture(spends[j].note, now)
      /\ \A j \in DOMAIN outputs : Creatable(outputs[j])
  BY <1>1, NoBuildError
<1>3. NumActions \in Nat /\ VALUE_LIMIT \in Nat \ {0}
  BY AmountAssumption, DecayAssumption
<1>4. ASSUME i <= Len(spends)
      PROVE  /\ Spendable(spend, anchor, now)
             /\ spend.fvk.ak = user /\ spend.note.address.ak = user
  <2>1. i \in DOMAIN spends /\ spend = spends[i]
    BY <1>1, <1>4 DEF SpendAt
  <2>2. PICK owned \in wallets[user].notes : spend = SpendInfo(user, owned)
    BY <2>1, SpendListParts
  <2> HIDE DEF spend
  <2>3. /\ IsSound(spend.note) /\ spend.note.address = address_of(spend.fvk)
        /\ spend.fvk = full_viewing_key(user)
        /\ PathLeadsTo(spend.note, spend.position, spend.path, anchor)
    BY <2>2, FoundIsSpendable
  <2>4. ~(now < spend.note.t_note)
    BY <1>2, <2>1 DEF FromTheFuture
  <2>5. spend.note.t_note \in Nat /\ spend.note.t_note <= now
    BY <2>3, <2>4 DEF IsSound
  <2>6. Spendable(spend, anchor, now)
    BY <2>3, <2>5 DEF Spendable
  <2>7. spend.fvk.ak = user /\ spend.note.address.ak = user
    BY <2>3 DEF full_viewing_key, address_of, commit_ivk
  <2> QED
    BY <2>6, <2>7
<1>5. ASSUME ~(i <= Len(spends))
      PROVE  /\ Spendable(spend, anchor, now)
             /\ spend.note.value = 0 /\ Worth(spend.note, now) = 0
             /\ spend.fvk.ak = Fresh(seed, "dummy sk", i)
  <2>1. spend = fake
    BY <1>5 DEF SpendAt
  <2> DEFINE sk == Fresh(seed, "dummy sk", i)
             fvk == full_viewing_key(sk)
             note == from_parts(Community, 0, now, address_of(fvk), Fresh(seed, "dummy rho", i),
                                "none", Fresh(seed, "dummy rseed", i))
  <2>2. fake.fvk = fvk /\ fake.note = note
    BY DEF dummy_spend
  <2>3. fvk.ak = sk
    BY DEF full_viewing_key
  <2> HIDE DEF sk, fvk, fake, spend
  <2>4. /\ note.value = 0 /\ note.t_note = now /\ note.address = address_of(fvk)
        /\ note.community = Community /\ note.coin_community = Community /\ IsNote(note)
    BY DEF from_parts, IsNote
  <2> HIDE DEF note
  <2>5. IsSound(note)
    BY <1>2, <1>3, <2>4 DEF IsSound
  <2>6. Spendable(spend, anchor, now)
    BY <2>1, <2>2, <2>4, <2>5 DEF Spendable
  <2>7. spend.note.value = 0 /\ spend.fvk.ak = sk
    BY <2>1, <2>2, <2>3, <2>4
  <2>8. Worth(spend.note, now) = 0
    <3>1. now - now \in Nat
      OBVIOUS
    <3>2. Worth(spend.note, now) = decay_windowed(0, now - now)
      BY <2>1, <2>2, <2>4 DEF Worth
    <3> QED
      BY <3>1, <3>2, NothingIsWorthNothing
  <2> QED
    BY <2>6, <2>7, <2>8 DEF sk
<1>6. Creatable(output) /\ (~(i <= Len(outputs)) => output.value = 0)
  <2>1. CASE i <= Len(outputs)
    <3>1. i \in DOMAIN outputs /\ output = outputs[i]
      BY <1>1, <2>1 DEF OutputAt
    <3> QED
      BY <1>2, <2>1, <3>1
  <2>2. CASE ~(i <= Len(outputs))
    <3>1. output = dummy_output(seed, i)
      BY <2>2 DEF OutputAt
    <3>2. dummy_output(seed, i).value = 0
      BY DEF dummy_output
    <3> QED
      BY <1>3, <3>1, <3>2 DEF Creatable
  <2> QED
    BY <2>1, <2>2
<1> HIDE DEF spend, output
<1>7. Spendable(spend, anchor, now)
  BY <1>4, <1>5
<1>8. Worth(spend.note, now) \in Nat
  <2>1. spend.note.value \in Nat /\ now - spend.note.t_note \in Nat
    BY <1>7 DEF Spendable, IsSound
  <2> QED
    BY <2>1, WorthIsNat DEF Worth
<1> DEFINE a == Action(Community, anchor, now, spend, output, ovk, seed, i)
<1>9. /\ IsPublished(a.published)
      /\ Spent(a.published) = spend.note
      /\ a.published.rk = Rerandomized(spend.fvk.ak, a.alpha)
      /\ a.published.cv_net.value = Worth(spend.note, now) - output.value
      /\ a.published.cv_net.rcv = a.rcv
  BY <1>2, <1>6, <1>7, ActionIsSound
<1>10. a.proven
  BY <1>2, <1>6, <1>7, ActionIsSound
<1> HIDE DEF a
<1>11. ActionFits(a, spend, output, now)
  BY <1>9, Zenon DEF ActionFits
<1>12. PairFits(spend, output, i, Len(spends), Len(outputs), user, now, seed)
  BY <1>4, <1>5, <1>6, <1>8 DEF Creatable, PairFits
<1> QED
  BY <1>10, <1>11, <1>12, Zenon DEF spend, output, a, ActionAt

(* What build returns is ready for the device.                             *)
LEMMA BuildIsSound ==
  ASSUME TInv, NEW user \in User, NEW spends \in SpendLists(user), NEW outputs,
         NEW anchor, anchor = TreeRoot(wallets[user].tree),
         Listed(outputs), \A i \in DOMAIN outputs : outputs[i].value \in Nat,
         NEW now \in Nat, BuildError(Community, now, spends, outputs) = "Ok", NEW ovk, NEW seed
  PROVE  IsUnauthorized(build(Community, anchor, now, spends, outputs, ovk, seed), user)
<1> DEFINE u == build(Community, anchor, now, spends, outputs, ovk, seed)
           at == [i \in 1..NumActions |-> ActionAt(anchor, now, spends, outputs, ovk, seed, i)]
           spend == [i \in 1..NumActions |-> SpendAt(spends, now, seed, i)]
           output == [i \in 1..NumActions |-> OutputAt(outputs, seed, i)]
           n == NumActions
           p == Len(spends)
           q == Len(outputs)
<1>1. IsBuildOf(u, at, anchor, now, spends, seed) /\ HoldsIfProven(u, at)
  BY PartsOfBuild, Zenon
<1>2. ASSUME NEW i \in 1..n
      PROVE  /\ ActionFits(at[i], spend[i], output[i], now) /\ at[i].proven
             /\ PairFits(spend[i], output[i], i, p, q, user, now, seed)
  BY ActionsOfBuild, Zenon
<1>3. \A i \in 1..n : spend[i] = SpendAt(spends, now, seed, i) /\ output[i] = OutputAt(outputs, seed, i)
  OBVIOUS
<1> HIDE DEF u, at, spend, output
<1>4. u.proof.holds
  BY <1>1, <1>2, Zenon DEF HoldsIfProven
<1>5. /\ u.anchor = anchor /\ u.now = now /\ u.community = Community
       /\ DOMAIN u.actions = 1..n /\ u.actions = [i \in 1..n |-> u.actions[i]]
       /\ DOMAIN u.rcvs = 1..n /\ DOMAIN u.outputs = 1..n
       /\ u.proof.of = instances(Community, anchor, now, u.actions)
  BY <1>1 DEF IsBuildOf
<1>6. \A i \in 1..n :
         /\ u.actions[i] = at[i].published /\ u.alphas[i] = at[i].alpha /\ u.rcvs[i] = at[i].rcv
         /\ u.dummy_asks[i] = IF i <= p THEN {} ELSE {Fresh(seed, "dummy sk", i)}
  BY <1>1 DEF IsBuildOf
<1>7. ASSUME NEW i \in 1..n
       PROVE  /\ ActionFits(at[i], spend[i], output[i], now)
              /\ PairFits(spend[i], output[i], i, p, q, user, now, seed)
  BY <1>2, Zenon
<1>8. /\ DOMAIN spends = 1..p /\ p \in Nat /\ DOMAIN outputs = 1..q /\ q \in Nat /\ n \in Nat
  BY SpendListParts, ListedProperties, AmountAssumption
<1>9. p <= n /\ q <= n /\ WorthUpTo(spends, p, now) = CreatedUpTo(outputs, q)
  BY <1>8, NoBuildError
<1> DEFINE worths == [i \in 1..n |-> Worth(spend[i].note, now)]
           values == [i \in 1..n |-> output[i].value]
<1>10. Total([i \in 1..n |-> worths[i] - values[i]]) = 0
  <2>1. /\ worths \in [1..n -> Int] /\ values \in [1..n -> Int]
        /\ \A i \in (p + 1)..n : worths[i] = 0
        /\ \A i \in (q + 1)..n : values[i] = 0
    <3>1. ASSUME NEW i \in 1..n PROVE worths[i] \in Int /\ values[i] \in Int
      <4>1. output[i].value \in Nat /\ Worth(spend[i].note, now) \in Nat
        BY <1>7, Zenon DEF PairFits
      <4> QED
        BY <4>1
    <3>2. ASSUME NEW i \in (p + 1)..n PROVE worths[i] = 0
      <4>1. i \in 1..n /\ ~(i <= p)
        BY <1>8
      <4> QED
        BY <1>7, <4>1 DEF PairFits
    <3>3. ASSUME NEW i \in (q + 1)..n PROVE values[i] = 0
      <4>1. i \in 1..n /\ ~(i <= q)
        BY <1>8
      <4> QED
        BY <1>7, <4>1 DEF PairFits
    <3> QED
      BY <3>1, <3>2, <3>3
  <2>2. /\ [i \in 1..p |-> worths[i]] = [j \in 1..p |-> Worth(spends[j].note, now)]
        /\ [i \in 1..q |-> values[i]] = [j \in 1..q |-> outputs[j].value]
    <3>1. \A i \in 1..p : i \in 1..n /\ spend[i] = spends[i]
      BY <1>3, <1>8, <1>9 DEF SpendAt
    <3>2. \A i \in 1..q : i \in 1..n /\ output[i] = outputs[i]
      BY <1>3, <1>8, <1>9 DEF OutputAt
    <3> QED
      BY <3>1, <3>2
  <2> HIDE DEF worths, values
  <2>3. Total(worths) = Total([i \in 1..p |-> worths[i]])
    BY <1>8, <1>9, <2>1, PaddedTotal
  <2>4. Total(values) = Total([i \in 1..q |-> values[i]])
    BY <1>8, <1>9, <2>1, PaddedTotal
  <2>5. Total(worths) = Total(values)
    BY <1>9, <2>2, <2>3, <2>4 DEF WorthUpTo, CreatedUpTo
  <2>6. /\ Total([i \in 1..n |-> worths[i] - values[i]]) = Total(worths) - Total(values)
        /\ Total(worths) \in Int /\ Total(values) \in Int
    BY <1>8, <2>1, TotalOfDifferences
  <2> QED
    BY <2>5, <2>6
<1>11. Total([i \in DOMAIN u.actions |-> u.actions[i].cv_net.value]) = 0
  <2>1. DOMAIN u.actions = 1..n /\ \A i \in 1..n : u.actions[i].cv_net.value = worths[i] - values[i]
    <3>1. \A i \in 1..n : worths[i] = Worth(spend[i].note, now) /\ values[i] = output[i].value
      OBVIOUS
    <3> HIDE DEF worths, values
    <3> QED
      BY <1>5, <1>6, <1>7, <3>1 DEF ActionFits
  <2> HIDE DEF worths, values
  <2>2. [i \in DOMAIN u.actions |-> u.actions[i].cv_net.value] =
          [i \in 1..n |-> worths[i] - values[i]]
    BY <2>1
  <2> QED
    BY <1>10, <2>2
<1> HIDE DEF p, q, worths, values
<1>12. OfLength(NumActions, u.actions)
  BY <1>5 DEF OfLength
<1>13. /\ DOMAIN u.rcvs = 1..NumActions
      /\ \A i \in 1..NumActions : IsPublished(u.actions[i]) /\ u.actions[i].cv_net.rcv = u.rcvs[i]
  BY <1>5, <1>6, <1>7 DEF ActionFits
<1>14. ASSUME NEW i \in 1..NumActions
      PROVE  IsSpend(u, i, user) /\ IsPadding(u, i)
  <2>1. /\ u.actions[i] = at[i].published /\ u.alphas[i] = at[i].alpha
        /\ u.dummy_asks[i] = IF i <= p THEN {} ELSE {Fresh(seed, "dummy sk", i)}
    BY <1>6
  <2>2. CASE i <= p
    <3>1. u.dummy_asks[i] = {}
      BY <2>1, <2>2
    <3>2. u.actions[i].rk.ak = user
      <4>1. at[i].published.rk = Rerandomized(spend[i].fvk.ak, at[i].alpha)
        BY <1>7, Zenon DEF ActionFits
      <4>2. spend[i].fvk.ak = user
        BY <1>7, <2>2, Zenon DEF PairFits
      <4>3. u.actions[i].rk = Rerandomized(user, at[i].alpha)
        BY <2>1, <4>1, <4>2
      <4>4. Rerandomized(user, at[i].alpha).ak = user
        BY DEF Rerandomized
      <4> QED
        BY <4>3, <4>4
    <3>3. Spent(u.actions[i]).address.ak = user
      BY <1>7, <2>1, <2>2 DEF ActionFits, PairFits
    <3> QED
      BY <3>1, <3>2, <3>3 DEF IsSpend, IsPadding
  <2>3. CASE ~(i <= p)
    <3>1. u.dummy_asks[i] = {Fresh(seed, "dummy sk", i)}
      BY <2>1, <2>3
    <3>2. Spent(u.actions[i]).value = 0
      BY <1>7, <2>1, <2>3 DEF ActionFits, PairFits
    <3>3. u.actions[i].rk = Rerandomized(Fresh(seed, "dummy sk", i), u.alphas[i])
      BY <1>7, <2>1, <2>3 DEF ActionFits, PairFits
    <3> QED
      BY <3>1, <3>2, <3>3 DEF IsSpend, IsPadding
  <2> QED
    BY <2>2, <2>3
<1>15. u.proof.of = instances(u.community, u.anchor, u.now, u.actions)
  BY <1>5
<1>16. \A i \in 1..NumActions : IsPublished(u.actions[i]) /\ IsSpend(u, i, user) /\ IsPadding(u, i)
  BY <1>13, <1>14
<1>17. \A i \in 1..NumActions : u.actions[i].cv_net.rcv = u.rcvs[i]
  BY <1>13
<1>18. DOMAIN u.rcvs = 1..NumActions /\ DOMAIN u.outputs = 1..NumActions
  BY <1>5
<1>19. IsUnauthorized(u, user)
  BY <1>11, <1>12, <1>15, <1>4, <1>16, <1>17, <1>18, Zenon DEF IsUnauthorized
<1> QED
  BY <1>19, Zenon DEF u

-----------------------------------------------------------------------------
(* A step that changes one transfer, and adds to the consents.             *)
LEMMA SessionKeepsTInv ==
  ASSUME TInv, NEW s \in Session, NEW new, sessions' = [sessions EXCEPT ![s] = new],
         UNCHANGED <<clock, ledger, chain, wallets>>, consents \subseteq consents',
         SignedAsShown', new.stage \in {"idle", "built", "ready", "lost"},
         new.stage = "built" => IsBuilt(new, consents'),
         new.stage = "ready" => IsReady(new, consents')
  PROVE  TInv'
<1>1. UNCHANGED <<tree, nullifiers, log, chain, wallets>> /\ outcome' = outcome /\ clock' \in Nat
  BY DEF ledger, TInv, LedgerIsSound
<1>2. LedgerIsSound'
  BY <1>1, LedgerStays DEF TInv
<1>3. WalletsAreSound'
  <2>1. Len(log) \in Nat
    BY ListedProperties DEF TInv, LedgerIsSound, ChainFollowsLog, Follows
  <2> QED
    BY <1>1, <2>1, WalletsStay
<1>4. /\ DOMAIN sessions' = Session /\ sessions' = [t \in Session |-> sessions'[t]]
      /\ \A t \in Session : sessions'[t] = IF t = s THEN new ELSE sessions[t]
  BY DEF TInv
<1>5. SessionsAreSound'
  <2> SUFFICES ASSUME NEW t \in Session
               PROVE  /\ sessions'[t].stage \in {"idle", "built", "ready", "lost"}
                      /\ sessions'[t].stage = "built" => IsBuilt(sessions'[t], consents')
                      /\ sessions'[t].stage = "ready" => IsReady(sessions'[t], consents')
    BY DEF SessionsAreSound, IsBuilt, Covers, IsReady, HasConsent
  <2>1. CASE t = s
    <3>1. sessions'[t] = new
      BY <1>4, <2>1
    <3> QED
      BY <3>1
  <2>2. CASE t # s
    <3> DEFINE session == sessions[t]
    <3>1. sessions'[t] = session
      BY <1>4, <2>2
    <3>2. /\ session.stage \in {"idle", "built", "ready", "lost"}
          /\ session.stage = "built" => IsBuilt(session, consents)
          /\ session.stage = "ready" => IsReady(session, consents)
      BY DEF TInv, SessionsAreSound
    <3> HIDE DEF session
    <3> QED
      BY <3>1, <3>2, ConsentsStay
  <2> QED
    BY <2>1, <2>2
<1>6. DOMAIN wallets' = User /\ wallets' = [user \in User |-> wallets'[user]]
      /\ outcome' \in Outcomes
  BY <1>1 DEF TInv, Outcomes
<1> QED
  BY <1>2, <1>3, <1>4, <1>5, <1>6 DEF TInv, Outcomes

(* Building a transfer keeps TInv.                                         *)
LEMMA BuildKeepsTInv ==
  ASSUME TInv, NEW s \in Session, NEW user \in User, NEW spends \in SpendLists(user),
         NEW outputs \in Outputs(user), Build(s, user, spends, outputs)
  PROVE  TInv'
<1> DEFINE root == TreeRoot(wallets[user].tree)
           u == build(Community, root, clock, spends, outputs, {full_viewing_key(user).ovk}, s)
           new == [stage |-> "built", owner |-> user, answer |-> {}, unauthorized |-> u]
<1>1. /\ BuildError(Community, clock, spends, outputs) = "Ok"
      /\ sessions' = [sessions EXCEPT ![s] = new]
      /\ UNCHANGED <<clock, ledger, chain, wallets, consents>>
  BY Zenon DEF Build
<1>2. Listed(outputs) /\ \A i \in DOMAIN outputs : outputs[i].value \in Nat
  BY AmountAssumption DEF Listed
<1>3. clock \in Nat
  BY DEF TInv, LedgerIsSound
<1>4. IsUnauthorized(u, user)
  BY <1>1, <1>2, <1>3, BuildIsSound
<1> HIDE DEF u
<1>5. new.stage = "built" /\ new.owner = user /\ new.answer = {} /\ new.unauthorized = u
  OBVIOUS
<1>6. new = [stage |-> "built", owner |-> new.owner, answer |-> new.answer,
             unauthorized |-> new.unauthorized]
  OBVIOUS
<1> HIDE DEF new
<1>7. IsBuilt(new, consents)
  BY <1>4, <1>5, <1>6 DEF IsBuilt
<1>8. SignedAsShown'
  BY <1>1 DEF TInv, SignedAsShown
<1>9. consents' = consents
  BY <1>1
<1> QED
  BY <1>1, <1>5, <1>7, <1>8, <1>9, SessionKeepsTInv

-----------------------------------------------------------------------------
(* What SignedAsShown says of one consent.                                 *)
CreatedIn(body) == [i \in DOMAIN body.actions |-> body.actions[i].cm]
OwnIn(body, user) ==
  {i \in DOMAIN CreatedIn(body) : owns(full_viewing_key(user), CreatedIn(body)[i].address)}
IsShown(shown, user) ==
  LET created == CreatedIn(shown.sighash)
      own     == OwnIn(shown.sighash, user)
  IN  /\ \A i \in DOMAIN created \ own :
           created[i].value > 0 =>
             /\ i \in DOMAIN shown.payments
             /\ shown.payments[i] = [address |-> created[i].address,
                                     value |-> created[i].value,
                                     memo |-> created[i].memo_cm]
      /\ shown.change =
           Total([i \in DOMAIN created |-> IF i \in own THEN created[i].value ELSE 0])

(* SignedAsShown, consent by consent.                                      *)
LEMMA EachIsShown == SignedAsShown <=> \A consent \in consents : IsShown(consent.review, consent.by)
BY Zenon DEF SignedAsShown, IsShown, CreatedIn, OwnIn

(* What the device has looked at: every opening is the note of its action. *)
LEMMA NoReviewError ==
  ASSUME NEW request, NEW user, DOMAIN request.outputs = 1..NumActions,
         review_error(request, user, Community) = "Ok"
  PROVE  /\ \A i \in 1..NumActions :
              LET opening == request.outputs[i]
                  cm == request.body.actions[i].cm
              IN  /\ cm.address = opening.address /\ cm.value = opening.value
                  /\ cm.memo_cm = opening.memo
         /\ Len(request.alphas) = NumActions
<1> DEFINE error(i) == IF OpeningError(request, i, user, Community) # "Ok"
                       THEN OpeningError(request, i, user, Community)
                       ELSE IF ~SpendsWith(request, i, user) THEN "ForeignSpend" ELSE "Ok"
           errors == [i \in DOMAIN request.outputs |-> error(i)]
<1>1. FirstError(errors) = "Ok" /\ Len(request.alphas) = NumActions
  <2>1. review_error(request, user, Community) =
          IF Len(request.outputs) # NumActions THEN "WrongOutputCount"
          ELSE IF Len(request.alphas) # NumActions THEN "WrongAlphaCount"
          ELSE IF FirstError(errors) # "Ok" THEN FirstError(errors)
          ELSE IF ToSign(request) = {} THEN "NothingToSign"
          ELSE "Ok"
    BY Zenon DEF review_error
  <2> HIDE DEF errors
  <2> QED
    BY <2>1
<1>2. ASSUME NEW i \in 1..NumActions
      PROVE  OpeningError(request, i, user, Community) = "Ok"
  <2>1. DOMAIN errors = 1..NumActions /\ errors[i] = error(i)
    OBVIOUS
  <2>2. NumActions \in Nat
    BY AmountAssumption
  <2> HIDE DEF errors
  <2>3. errors[i] = "Ok"
    <3>1. DOMAIN errors \in SUBSET Nat
      BY <2>1, <2>2
    <3> QED
      BY <1>1, <2>1, <3>1, FirstErrorOk
  <2> QED
    BY <2>1, <2>3
<1>3. ASSUME NEW i \in 1..NumActions
      PROVE  LET opening == request.outputs[i]
                 cm == request.body.actions[i].cm
             IN  /\ cm.address = opening.address /\ cm.value = opening.value
                 /\ cm.memo_cm = opening.memo
  <2> DEFINE note == OpenedNote(request, i, Community)
             opening == request.outputs[i]
  <2>1. note.address = opening.address /\ note.value = opening.value /\ note.memo_cm = opening.memo_cm
    BY DEF OpenedNote, from_parts
  <2> HIDE DEF note, opening
  <2>2. /\ note = request.body.actions[i].cm
        /\ opening.memo = opening.memo_cm
    BY <1>2 DEF OpeningError, commitment, MemoMatches, note, opening
  <2> QED
    BY <2>1, <2>2 DEF opening
<1> QED
  BY <1>1, <1>3

(* So the review shows what the body does.                                 *)
LEMMA ReviewIsTrue ==
  ASSUME NEW request, NEW user, DOMAIN request.outputs = 1..NumActions,
         DOMAIN request.body.actions = 1..NumActions,
         review_error(request, user, Community) = "Ok"
  PROVE  /\ IsShown(review(request, user), user)
         /\ review(request, user).sighash = body_sighash(request.body)
<1> DEFINE shown == review(request, user)
           body == request.body
           outputs == request.outputs
           created == CreatedIn(body)
           own == OwnIn(body, user)
           payments == {i \in DOMAIN outputs : ~Own(request, i, user) /\ outputs[i].value > 0}
           listed == [i \in payments |-> [address |-> outputs[i].address, value |-> outputs[i].value,
                                          memo |-> outputs[i].memo]]
           change == Total([i \in DOMAIN outputs |->
                              IF Own(request, i, user) THEN outputs[i].value ELSE 0])
<1>1. shown = [created_at |-> body.created_at, payments |-> listed, change |-> change,
               sighash |-> body_sighash(body), spends |-> Cardinality(ToSign(request))]
  BY Zenon DEF review
<1> HIDE DEF shown, listed, change
<1>2. shown.payments = listed /\ shown.change = change /\ shown.sighash = body
  BY <1>1 DEF body_sighash
<1>3. \A i \in 1..NumActions : created[i] = body.actions[i].cm
  BY DEF CreatedIn
<1>4. DOMAIN created = 1..NumActions
  BY DEF CreatedIn
<1>5. \A i \in 1..NumActions : /\ created[i].address = outputs[i].address
                              /\ created[i].value = outputs[i].value
                              /\ created[i].memo_cm = outputs[i].memo
  BY <1>3, NoReviewError
<1>6. \A i \in 1..NumActions : i \in own <=> Own(request, i, user)
  BY <1>4, <1>5 DEF OwnIn, Own
<1> HIDE DEF created, own
<1>7. ASSUME NEW i \in DOMAIN created \ own, created[i].value > 0
      PROVE  /\ i \in DOMAIN listed
             /\ listed[i] = [address |-> created[i].address, value |-> created[i].value,
                             memo |-> created[i].memo_cm]
  <2>1. i \in payments
    BY <1>4, <1>5, <1>6, <1>7
  <2> HIDE DEF payments
  <2> QED
    BY <1>4, <1>5, <2>1 DEF listed
<1>8. change = Total([i \in DOMAIN created |-> IF i \in own THEN created[i].value ELSE 0])
  <2>1. [i \in DOMAIN outputs |-> IF Own(request, i, user) THEN outputs[i].value ELSE 0] =
        [i \in DOMAIN created |-> IF i \in own THEN created[i].value ELSE 0]
    BY <1>4, <1>5, <1>6
  <2> QED
    BY <2>1 DEF change
<1>9. IsShown(shown, user)
  BY <1>2, <1>7, <1>8 DEF IsShown, created, own
<1> QED
  BY <1>2, <1>9 DEF shown, body_sighash

(* And what is signed is the body, as many times as the device spends.     *)
LEMMA SignCovers ==
  ASSUME NEW request, NEW user, DOMAIN request.alphas = 1..NumActions, NEW agreed,
         \E consent \in agreed :
           consent.by = user /\ consent.review.sighash = body_sighash(request.body)
  PROVE  Covers(sign(request, user), user, request.body, agreed)
<1> DEFINE n == Cardinality(ToSign(request))
           signatures == sign(request, user)
           chosen(k) == CHOOSE i \in ToSign(request) :
                          Cardinality({j \in ToSign(request) : j <= i}) = k
           alpha(k) == CHOOSE alpha \in request.alphas[chosen(k)] : TRUE
           signature(k) == sign_spend_auth(user, alpha(k), body_sighash(request.body))
<1>1. n \in Nat
  <2>1. ToSign(request) \subseteq 1..NumActions /\ NumActions \in Int
    BY AmountAssumption DEF ToSign
  <2>2. IsFiniteSet(1..NumActions)
    BY <2>1, FS_Interval
  <2> QED
    BY <2>1, <2>2, FS_Subset, FS_CardinalityType
<1>2. signatures = [k \in 1..n |-> signature(k)]
  BY Zenon DEF sign
<1> HIDE DEF n, signatures
<1>3. ASSUME NEW k \in 1..n
      PROVE  signatures[k].over = body_sighash(request.body) /\ signatures[k].key.ak = user
  <2>1. signatures[k] = signature(k)
    BY <1>2
  <2> DEFINE a == alpha(k)
             hash == body_sighash(request.body)
  <2> HIDE DEF a, hash
  <2>2. signatures[k] = [key |-> [ak |-> user, alpha |-> a], over |-> hash]
    BY <2>1 DEF sign_spend_auth, Rerandomized, a, hash
  <2> QED
    BY <2>2 DEF hash
<1>4. DOMAIN signatures = 1..n /\ signatures = [k \in 1..n |-> signatures[k]]
  BY <1>2
<1>5. Len(signatures) = n
  BY <1>1, <1>4, Lists
<1> QED
  BY <1>3, <1>4, <1>5 DEF Covers, signatures

(* The device keeps TInv, whatever mix of requests it gets.                *)
LEMMA SignKeepsTInv ==
  ASSUME TInv, NEW s \in Session, NEW t \in Session, NEW u \in Session, Sign(s, t, u)
  PROVE  TInv'
<1> DEFINE session == sessions[s]
           body == TransferBody(session.unauthorized)
           request == [signing_request(sessions[t].unauthorized, body) EXCEPT
                         !.alphas = signing_request(sessions[u].unauthorized, body).alphas]
           user == session.owner
           answer == {sign(request, user)}
           new == [session EXCEPT !.answer = answer]
           consent == [by |-> user, review |-> review(request, user)]
<1>1. /\ sessions[s].stage = "built" /\ sessions[t].stage = "built" /\ sessions[u].stage = "built"
      /\ review_error(request, user, Community) = "Ok"
      /\ sessions' = [sessions EXCEPT ![s] = new]
      /\ consents' = consents \cup {consent}
      /\ UNCHANGED <<clock, ledger, chain, wallets>>
  BY Zenon DEF Sign
<1>2. /\ IsBuilt(sessions[s], consents) /\ IsBuilt(sessions[t], consents)
      /\ IsBuilt(sessions[u], consents)
  BY <1>1 DEF TInv, SessionsAreSound
<1>3. /\ DOMAIN request.outputs = 1..NumActions /\ DOMAIN request.alphas = 1..NumActions
      /\ request.body = body /\ DOMAIN body.actions = 1..NumActions
  <2> DEFINE first == signing_request(sessions[t].unauthorized, body)
             alphas == signing_request(sessions[u].unauthorized, body).alphas
             openings == sessions[t].unauthorized.outputs
  <2>1. DOMAIN openings = 1..NumActions
    BY <1>2 DEF IsBuilt, IsUnauthorized
  <2>2. DOMAIN sessions[u].unauthorized.actions = 1..NumActions
    BY <1>2 DEF IsBuilt, IsUnauthorized, OfLength
  <2>3. DOMAIN alphas = 1..NumActions
    BY <2>2 DEF signing_request
  <2>4. DOMAIN session.unauthorized.actions = 1..NumActions
    BY <1>2 DEF IsBuilt, IsUnauthorized, OfLength
  <2>5. body.actions = session.unauthorized.actions
    BY DEF TransferBody
  <2> HIDE DEF body, alphas
  <2>6. first.body = body /\ first.outputs = openings
        /\ first = [body |-> first.body, outputs |-> first.outputs, alphas |-> first.alphas]
    BY DEF signing_request
  <2> HIDE DEF first, openings
  <2>7. [first EXCEPT !.alphas = alphas] = [body |-> body, outputs |-> openings, alphas |-> alphas]
    BY <2>6
  <2>8. request = [body |-> body, outputs |-> openings, alphas |-> alphas]
    BY <2>7 DEF first, alphas
  <2> QED
    BY <2>1, <2>3, <2>4, <2>5, <2>8
<1>4. session = [stage |-> "built", owner |-> session.owner, answer |-> session.answer,
                 unauthorized |-> session.unauthorized]
      /\ user \in User /\ IsUnauthorized(session.unauthorized, user)
  BY <1>2 DEF IsBuilt
<1> HIDE DEF request, body, session, user
<1>5. IsShown(consent.review, consent.by) /\ consent.review.sighash = body_sighash(body)
      /\ consent.by = user
  BY <1>1, <1>3, ReviewIsTrue
<1> HIDE DEF consent
<1>6. Covers(sign(request, user), user, body, consents')
  BY <1>1, <1>3, <1>5, SignCovers
<1> HIDE DEF answer
<1>7. new = [stage |-> "built", owner |-> session.owner, answer |-> answer,
             unauthorized |-> session.unauthorized]
  BY <1>4
<1> HIDE DEF new
<1>8. /\ new.stage = "built" /\ new.owner = user /\ new.answer = answer
      /\ new.unauthorized = session.unauthorized
      /\ new = [stage |-> "built", owner |-> new.owner, answer |-> new.answer,
                unauthorized |-> new.unauthorized]
  BY <1>7 DEF user
<1>9. IsBuilt(new, consents')
  <2>1. ASSUME NEW signatures \in new.answer
        PROVE  Covers(signatures, new.owner, TransferBody(new.unauthorized), consents')
    BY <1>6, <1>8 DEF answer, body
  <2> QED
    BY <1>4, <1>8, <2>1 DEF IsBuilt
<1>10. SignedAsShown'
  <2>1. \A c \in consents' : IsShown(c.review, c.by)
    BY <1>1, <1>5, EachIsShown DEF TInv
  <2> QED
    BY <2>1, Zenon DEF SignedAsShown, IsShown, CreatedIn, OwnIn
<1>11. consents \subseteq consents'
  BY <1>1
<1> QED
  BY <1>1, <1>8, <1>9, <1>10, <1>11, SessionKeepsTInv

-----------------------------------------------------------------------------
(* Signatures that authorize accepts are of the spender's device, over the
   body they go into, so this device has agreed to it.                     *)

LEMMA PlaceOfSignature ==
  ASSUME NEW real, real \subseteq 1..NumActions, NEW i \in real
  PROVE  Cardinality({j \in real : j <= i}) \in 1..Cardinality(real)
<1> DEFINE before == {j \in real : j <= i}
<1>1. IsFiniteSet(real)
  <2>1. NumActions \in Int
    BY AmountAssumption
  <2>2. IsFiniteSet(1..NumActions)
    BY <2>1, FS_Interval
  <2> QED
    BY <2>2, FS_Subset
<1>2. before \subseteq real /\ i \in before
  OBVIOUS
<1> HIDE DEF before
<1>3. IsFiniteSet(before) /\ Cardinality(before) <= Cardinality(real)
  BY <1>1, <1>2, FS_Subset
<1>4. Cardinality(before) \in Nat /\ Cardinality(real) \in Nat /\ Cardinality(before) # 0
  BY <1>1, <1>2, <1>3, FS_CardinalityType, FS_EmptySet
<1>5. Cardinality(before) \in 1..Cardinality(real)
  BY <1>3, <1>4
<1> QED
  BY <1>5 DEF before

(* If authorize accepts an answer, every note of value has its owner among
   those who signed, and the signatures are those of the body.             *)
LEMMA AuthorizedHasConsent ==
  ASSUME NEW u, NEW owner, IsUnauthorized(u, owner), NEW signatures, NEW body, NEW by, NEW agreed,
         Covers(signatures, by, body, agreed),
         authorize_error(u, body_sighash(TransferBody(u)), signatures) = "Ok"
  PROVE  /\ HasConsent(TransferBody(u), agreed)
         /\ \A i \in real_spends(u) :
              DeviceSig(u, signatures, i) =
                [key |-> u.actions[i].rk, over |-> body_sighash(TransferBody(u))]
<1> DEFINE real == real_spends(u)
           this == TransferBody(u)
<1>1. DOMAIN u.actions = 1..NumActions /\ this.actions = u.actions
  BY DEF IsUnauthorized, OfLength, TransferBody
<1>2. /\ Len(signatures) = Cardinality(real)
      /\ \A i \in real : DeviceSig(u, signatures, i) = [key |-> u.actions[i].rk, over |-> body_sighash(this)]
  <2>1. authorize_error(u, body_sighash(this), signatures) =
          IF Len(signatures) # Cardinality(real) THEN "SignatureCount"
          ELSE IF \E i \in real : ~verify_spend_auth(u.actions[i].rk, body_sighash(this),
                                                     DeviceSig(u, signatures, i))
          THEN "BadSignature" ELSE "Ok"
    BY Zenon DEF authorize_error
  <2>2. authorize_error(u, body_sighash(this), signatures) = "Ok"
    OBVIOUS
  <2> HIDE DEF real, this
  <2>3. /\ Len(signatures) = Cardinality(real)
        /\ ~(\E i \in real : ~verify_spend_auth(u.actions[i].rk, body_sighash(this),
                                                DeviceSig(u, signatures, i)))
    BY <2>1, <2>2
  <2> QED
    BY <2>3 DEF verify_spend_auth
<1>3. real \subseteq 1..NumActions /\ \A i \in 1..NumActions : i \in real <=> u.dummy_asks[i] = {}
  BY <1>1 DEF real_spends
<1> HIDE DEF this
<1>4. ASSUME NEW i \in real
      PROVE  \E consent \in agreed : /\ consent.by = Spent(u.actions[i]).address.ak
                                    /\ consent.review.sighash = this
  <2> DEFINE k == Cardinality({j \in real : j <= i})
             signature == signatures[k]
  <2>1. k \in 1..Len(signatures)
    BY <1>2, <1>3, PlaceOfSignature
  <2>2. signature = [key |-> u.actions[i].rk, over |-> body_sighash(this)]
    BY <1>2 DEF DeviceSig
  <2> HIDE DEF k, signature
  <2>3. signature.over = body_sighash(body) /\ signature.key.ak = by
    BY <2>1 DEF Covers, signature
  <2>4. body_sighash(body) = body_sighash(this) /\ u.actions[i].rk.ak = by
    BY <2>2, <2>3
  <2>5. u.actions[i].rk.ak = owner /\ Spent(u.actions[i]).address.ak = owner
    BY <1>3 DEF IsUnauthorized, IsSpend
  <2>6. \E consent \in agreed : consent.by = by /\ consent.review.sighash = body_sighash(body)
    BY DEF Covers
  <2> QED
    BY <2>4, <2>5, <2>6 DEF body_sighash
<1>5. ASSUME NEW i \in 1..NumActions, Spent(u.actions[i]).value > 0
      PROVE  i \in real
  BY <1>3, <1>5 DEF IsUnauthorized, IsSpend
<1>6. HasConsent(this, agreed)
  BY <1>1, <1>4, <1>5 DEF HasConsent
<1> QED
  BY <1>2, <1>6 DEF this

(* The bundle that comes out of it verifies.                               *)
LEMMA AuthorizedVerifies ==
  ASSUME NEW u, NEW owner, IsUnauthorized(u, owner), NEW signatures, NEW sighash,
         \A i \in real_spends(u) :
           DeviceSig(u, signatures, i) = [key |-> u.actions[i].rk, over |-> sighash]
  PROVE  LET bundle == authorize(u, sighash, signatures)
         IN  /\ bundle.actions = u.actions /\ Len(bundle.spend_auth_sigs) = NumActions
             /\ verify_bundle_crypto(bundle, sighash) = "Ok"
<1> DEFINE bundle == authorize(u, sighash, signatures)
           real == real_spends(u)
           dummy(i) == sign_spend_auth(CHOOSE ask \in u.dummy_asks[i] : TRUE, u.alphas[i], sighash)
           sigs == [i \in DOMAIN u.actions |->
                      IF i \in real THEN DeviceSig(u, signatures, i) ELSE dummy(i)]
           binding == sign_binding(u.rcvs, sighash)
<1>1. bundle = [anchor |-> u.anchor, now |-> u.now, community |-> u.community,
                actions |-> u.actions, proof |-> u.proof, spend_auth_sigs |-> sigs,
                binding_sig |-> binding]
  BY Zenon DEF authorize
<1> HIDE DEF bundle, sigs, binding
<1>2. /\ bundle.anchor = u.anchor /\ bundle.now = u.now /\ bundle.community = u.community
      /\ bundle.actions = u.actions /\ bundle.proof = u.proof
      /\ bundle.spend_auth_sigs = sigs /\ bundle.binding_sig = binding
  BY <1>1
<1>3. /\ NumActions \in Nat /\ DOMAIN u.actions = 1..NumActions
      /\ u.actions = [i \in 1..NumActions |-> u.actions[i]]
  BY AmountAssumption DEF IsUnauthorized, OfLength
<1>4. Len(u.actions) = NumActions
  BY <1>3, Lists
<1>5. DOMAIN sigs = 1..NumActions /\ sigs = [i \in 1..NumActions |-> sigs[i]]
  BY <1>3 DEF sigs
<1>6. Len(sigs) = NumActions
  BY <1>3, <1>5, Lists
<1>7. ASSUME NEW i \in 1..NumActions
      PROVE  verify_spend_auth(u.actions[i].rk, sighash, sigs[i])
  <2>1. CASE i \in real
    BY <1>3, <2>1 DEF sigs, verify_spend_auth
  <2>2. CASE i \notin real
    <3>1. u.dummy_asks[i] # {}
      BY <1>3, <2>2 DEF real_spends
    <3> DEFINE ask == CHOOSE ask \in u.dummy_asks[i] : TRUE
    <3>2. ask \in u.dummy_asks[i]
      BY <3>1
    <3> HIDE DEF ask
    <3>3. u.actions[i].rk = Rerandomized(ask, u.alphas[i])
      BY <3>1, <3>2 DEF IsUnauthorized, IsPadding
    <3>4. sigs[i] = sign_spend_auth(ask, u.alphas[i], sighash)
      BY <1>3, <2>2 DEF sigs, ask
    <3> QED
      BY <3>3, <3>4 DEF verify_spend_auth, sign_spend_auth
  <2> QED
    BY <2>1, <2>2
<1>8. verify_binding(binding_verification_key(u.actions), sighash, binding)
  <2>1. Total([i \in DOMAIN u.actions |-> u.actions[i].cv_net.value]) = 0
    BY DEF IsUnauthorized
  <2>2. {u.actions[i].cv_net.rcv : i \in DOMAIN u.actions} = {u.rcvs[i] : i \in DOMAIN u.rcvs}
    <3>1. DOMAIN u.rcvs = 1..NumActions /\ \A i \in 1..NumActions : u.actions[i].cv_net.rcv = u.rcvs[i]
      BY DEF IsUnauthorized
    <3> QED
      BY <1>3, <3>1
  <2>3. binding_verification_key(u.actions) = value_commitment(0, {u.rcvs[i] : i \in DOMAIN u.rcvs})
    BY <2>1, <2>2 DEF binding_verification_key
  <2> QED
    BY <2>3 DEF verify_binding, sign_binding, binding
<1>9. u.proof.of = instances(u.community, u.anchor, u.now, u.actions)
  BY DEF IsUnauthorized
<1>10. u.proof.holds
  BY Zenon DEF IsUnauthorized
<1>11. verify_bundle_crypto(bundle, sighash) = "Ok"
  <2>1. ~(Len(bundle.actions) # NumActions \/ Len(bundle.spend_auth_sigs) # NumActions)
    BY <1>2, <1>4, <1>6
  <2>2. ~(\E i \in DOMAIN bundle.actions :
            ~verify_spend_auth(bundle.actions[i].rk, sighash, bundle.spend_auth_sigs[i]))
    BY <1>2, <1>3, <1>7
  <2>3. verify_binding(binding_verification_key(bundle.actions), sighash, bundle.binding_sig)
    BY <1>2, <1>8
  <2>4. bundle.proof.of = instances(bundle.community, bundle.anchor, bundle.now, bundle.actions)
    BY <1>2, <1>9
  <2>5. bundle.proof.holds
    BY <1>2, <1>10, Zenon
  <2> QED
    BY <2>1, <2>2, <2>3, <2>4, <2>5, Zenon DEF verify_bundle_crypto
<1> QED
  BY <1>2, <1>6, <1>11 DEF bundle

(* Authorising a transfer keeps TInv, with the right answer or a wrong
   one.                                                                    *)
LEMMA AuthorizeKeepsTInv ==
  ASSUME TInv, NEW s \in Session, NEW t \in Session, Authorize(s, t)
  PROVE  TInv'
<1> DEFINE session == sessions[s]
           u == session.unauthorized
           body == TransferBody(u)
           sighash == body_sighash(body)
           ready(signatures) == [stage |-> "ready", owner |-> session.owner, body |-> body,
                                 bundle |-> authorize(u, sighash, signatures)]
           lost == [stage |-> "lost"]
<1>1. /\ sessions[s].stage = "built" /\ sessions[t].stage = "built"
      /\ UNCHANGED <<clock, ledger, chain, wallets, consents>>
  BY Zenon DEF Authorize
<1>2. PICK signatures \in sessions[t].answer :
        sessions' = [sessions EXCEPT ![s] =
          IF authorize_error(u, sighash, signatures) = "Ok" THEN ready(signatures) ELSE lost]
  BY Zenon DEF Authorize
<1>3. /\ IsUnauthorized(u, session.owner)
      /\ Covers(signatures, sessions[t].owner, TransferBody(sessions[t].unauthorized), consents)
  BY <1>1 DEF TInv, SessionsAreSound, IsBuilt
<1>4. SignedAsShown' /\ consents \subseteq consents'
  <2>1. consents' = consents
    BY <1>1
  <2> QED
    BY <2>1 DEF TInv, SignedAsShown
<1>5. CASE authorize_error(u, sighash, signatures) = "Ok"
  <2> DEFINE new == ready(signatures)
             bundle == authorize(u, sighash, signatures)
  <2>1. sessions' = [sessions EXCEPT ![s] = new]
    BY <1>2, <1>5
  <2>2. /\ HasConsent(body, consents)
        /\ \A i \in real_spends(u) :
             DeviceSig(u, signatures, i) = [key |-> u.actions[i].rk, over |-> sighash]
    BY <1>3, <1>5, AuthorizedHasConsent
  <2>3. /\ bundle.actions = u.actions /\ Len(bundle.spend_auth_sigs) = NumActions
        /\ verify_bundle_crypto(bundle, sighash) = "Ok"
    BY <1>3, <2>2, AuthorizedVerifies
  <2>4. body.actions = u.actions
    BY DEF TransferBody
  <2>5. OfLength(NumActions, u.actions) /\ \A i \in 1..NumActions : IsPublished(u.actions[i])
    BY <1>3 DEF IsUnauthorized
  <2> HIDE DEF bundle, body, u, session
  <2>6. new.stage = "ready" /\ new.body = body /\ new.bundle = bundle
    BY DEF bundle
  <2> HIDE DEF new
  <2>7. IsReady(new, consents)
    BY <2>2, <2>3, <2>4, <2>5, <2>6 DEF IsReady, sighash
  <2>8. consents' = consents
    BY <1>1
  <2> QED
    BY <1>1, <1>4, <2>1, <2>6, <2>7, <2>8, SessionKeepsTInv
<1>6. CASE authorize_error(u, sighash, signatures) # "Ok"
  <2>1. sessions' = [sessions EXCEPT ![s] = lost]
    BY <1>2, <1>6
  <2>2. lost.stage = "lost"
    OBVIOUS
  <2> HIDE DEF lost
  <2> QED
    BY <1>1, <1>4, <2>1, <2>2, SessionKeepsTInv
<1> QED
  BY <1>5, <1>6

-----------------------------------------------------------------------------
(* TInv holds in every state that can be reached.                          *)
LEMMA NextKeepsTInv ==
  ASSUME TInv, [Next]_vars
  PROVE  TInv'
<1>1. CASE Tick
  BY <1>1, TickKeepsTInv
<1>2. ASSUME NEW user \in User, Create(user) PROVE TInv'
  BY <1>2, CreateKeepsTInv
<1>3. ASSUME NEW user \in User, Follow(user) PROVE TInv'
  BY <1>3, FollowKeepsTInv
<1>4. ASSUME NEW s \in Session, NEW user \in User, NEW spends \in SpendLists(user),
             NEW outputs \in Outputs(user), Build(s, user, spends, outputs)
      PROVE  TInv'
  BY <1>4, BuildKeepsTInv
<1>5. ASSUME NEW s \in Session, NEW t \in Session, NEW u \in Session, Sign(s, t, u) PROVE TInv'
  BY <1>5, SignKeepsTInv
<1>6. ASSUME NEW s \in Session, NEW t \in Session, Authorize(s, t) PROVE TInv'
  BY <1>6, AuthorizeKeepsTInv
<1>7. ASSUME NEW s \in Session, Apply(s) PROVE TInv'
  BY <1>7, ApplyKeepsTInv
<1>8. CASE UNCHANGED vars
  <2>1. /\ UNCHANGED <<tree, nullifiers, log, chain, wallets, sessions, consents>>
        /\ outcome' = outcome /\ clock' = clock
    BY <1>8 DEF vars, ledger
  <2>2. clock' \in Nat /\ outcome' \in Outcomes
    BY <2>1 DEF TInv, LedgerIsSound, Outcomes
  <2> QED
    BY <2>1, <2>2, NothingKeepsTInv
<1> QED
  BY <1>1, <1>2, <1>3, <1>4, <1>5, <1>6, <1>7, <1>8 DEF Next

(* TInv holds in every state that can be reached.                          *)
LEMMA TransferInvariant == Spec => []TInv
BY InitTInv, NextKeepsTInv, PTL DEF Spec

-----------------------------------------------------------------------------
(* Notes made by transfers take the nullifier spent beside them as their
   rho, which is new each time, creations their place in the tree
   (note.rs: creation_rho): so no two notes of the ledger ever have one
   nullifier, and each can be spent.                                       *)

THEOREM EveryNoteCanBeSpent == Spec => []NullifiersDistinct
<1>1. ASSUME TInv PROVE NullifiersDistinct
  <2> SUFFICES ASSUME NEW i \in DOMAIN tree.leaves, NEW j \in DOMAIN tree.leaves,
                      nullifier(tree.leaves[i].address.nk, tree.leaves[i])
                        = nullifier(tree.leaves[j].address.nk, tree.leaves[j])
               PROVE  i = j
    BY DEF NullifiersDistinct
  <2>1. tree.leaves[i].rho = tree.leaves[j].rho
    BY DEF nullifier
  <2> QED
    BY <1>1, <2>1 DEF TInv, LedgerIsSound, RhosDistinct
<1> QED
  BY <1>1, TransferInvariant, PTL

(* However late a server follows the chain, its copy of the tree has the
   root that the ledger had after as many transactions, and a note it found
   for a user stands in the ledger's tree, where the wallet spends it from
   (wallet.rs: follow, find_notes).                                        *)

THEOREM WalletsAreWhole == Spec => []WalletsFollowLedger
<1>1. ASSUME TInv PROVE WalletsFollowLedger
  <2> SUFFICES ASSUME NEW user \in User
               PROVE  /\ TreeRoot(wallets[user].tree)
                           = log[wallets[user].tree.checkpoints + 1].root
                      /\ \A owned \in wallets[user].notes :
                           /\ owned.position < Size(tree)
                           /\ tree.leaves[owned.position + 1] = commitment(owned.note)
    BY DEF WalletsFollowLedger
  <2> DEFINE l == wallets[user].tree.leaves
             c == wallets[user].tree.checkpoints
  <2>1. /\ c \in 0..(Len(log) - 1) /\ l = log[c + 1].root
        /\ \A owned \in wallets[user].notes :
             /\ owned.position \in Nat /\ owned.position + 1 \in DOMAIN l
             /\ l[owned.position + 1] = owned.note
    BY <1>1 DEF TInv, WalletsAreSound, IsWallet
  <2>2. TreeRoot(wallets[user].tree) = l
    BY DEF TreeRoot
  <2> HIDE DEF l, c
  <2>3. c + 1 \in DOMAIN log
    <3>1. DOMAIN log = 1..Len(log) /\ Len(log) \in Nat
      BY <1>1, ListedProperties DEF TInv, LedgerIsSound, ChainFollowsLog, Follows
    <3> QED
      BY <2>1, <3>1
  <2>4. /\ Listed(l) /\ Len(l) <= Len(tree.leaves)
        /\ \A p \in 1..Len(l) : l[p] = tree.leaves[p]
    BY <1>1, <2>1, <2>3 DEF TInv, LedgerIsSound, RootsArePrefixes
  <2>5. DOMAIN l = 1..Len(l) /\ Len(l) \in Nat /\ Len(tree.leaves) \in Nat
    BY <1>1, <2>4, ListedProperties DEF TInv, LedgerIsSound, TreeIsRecord
  <2>6. ASSUME NEW owned \in wallets[user].notes
        PROVE  /\ owned.position < Size(tree)
               /\ tree.leaves[owned.position + 1] = commitment(owned.note)
    BY <2>1, <2>4, <2>5 DEF Size, commitment
  <2> QED
    BY <2>1, <2>2, <2>6 DEF c
<1> QED
  BY <1>1, TransferInvariant, PTL

(* Whatever the server puts together, with openings and rerandomisers of
   other transfers if it likes, the body a device signs creates nothing of
   value that its review did not show: signer.rs, "the server cannot hide
   an output".                                                             *)

THEOREM ServerCannotHide == Spec => []SignedAsShown
<1>1. TInv => SignedAsShown
  BY DEF TInv
<1> QED
  BY <1>1, TransferInvariant, PTL

(* No note of value is spent by a transfer that its owner's device has not
   reviewed, exactly that body (signer.rs: sign; bundle.rs: authorize).    *)

THEOREM NoSpendWithoutConsent == Spec => []SpendsHaveConsent
<1>1. ASSUME TInv PROVE SpendsHaveConsent
  <2>1. ASSUME NEW s \in Session, sessions[s].stage = "ready"
        PROVE  HasConsent(sessions[s].body, consents)
    BY <1>1, <2>1 DEF TInv, SessionsAreSound, IsReady
  <2> QED
    BY <2>1 DEF SpendsHaveConsent, HasConsent
<1> QED
  BY <1>1, TransferInvariant, PTL

(* What was built from a wallet that follows the ledger, reviewed, signed
   and authorised without an error passes the node's cryptographic checks:
   the node refuses it only for a full tree, a root that is no longer known
   or a note that was spent meanwhile (ledger.rs: apply).                  *)

THEOREM OnlyLedgerRefuses == Spec => []RefusedOnlyByLedger
<1>1. TInv => RefusedOnlyByLedger
  BY DEF TInv, Outcomes, RefusedOnlyByLedger
<1> QED
  BY <1>1, TransferInvariant, PTL
=============================================================================
