# Shielded transfers of gradido-blockchain-zk in TLA+

A verification project for `gradido-blockchain-zk`: shielded transfers with decay inside the
proof, the ledger a node keeps for them, and the split between a community server that builds
transfers and a device that signs them. The modules are translated from the Rust source;
`PROJECT.json` maps every definition to its lines.

- [The system](#the-system): components, state, operations, and how they interact
- [What is hard here](#what-is-hard-here)
- [Modules](#modules): what models what, and what is abstracted
- [Runs](#runs): what TLC checks, the bounds, and why they are enough
- [Proofs](#proofs): what TLAPS proves, from which assumptions, along which argument
- [Not modelled, and what is next](#not-modelled-and-what-is-next)

Run a check with `tlc -config MCLedger.cfg MCLedger.tla`, a proof with `tlapm Ledger_proofs.tla`.

## The system

The code is a library: it starts no threads, the only global state that changes are proving and
verifying keys that whoever needs them first builds, and every operation is one call on a value
(`&mut self`) or of the C interface. What runs concurrently are its callers: the
nodes that keep a ledger each, the community servers that build transfers for their users, and
the devices that hold the keys. Between any two calls on one transfer anything may happen to the
ledger, to the wallet and to the other transfers.

```
 device (signer.rs)        server (bundle.rs)               node (bundle.rs, ffi.rs)
   spending key              full viewing key                 Ledger
                             WalletTree  <--- follows --------  published transactions
                             build: spends, outputs, paths
   review  <-- request ----  UnauthorizedBundle
   sign    --- answer ---->  authorize
                             Bundle  ------------------------>  verify, apply
                                                                add_note (public creations)
```

| component | state | operations | what makes it correct |
|---|---|---|---|
| Anchor history (`tree.rs`) | queue of roots; hash map root → occurrences | `new`, `push`, `contains` | map and queue agree, also with repeated roots; never more than its capacity |
| Nullifier set (`tree.rs`) | set of nullifiers | `contains`, `insert_all` | inserts all or none |
| Commitment tree (`tree.rs`) | leaves, marked positions, checkpoints (`bridgetree`) | `append`, `checkpoint`, `root`, `size`, `has_room_for`, `witness` | never more than 2^32 leaves; a path leads to the root it was taken under |
| Ledger (`bundle.rs`) | tree, anchors, nullifiers | `new`, `add_note`, `verify`, `apply` | no nullifier twice; anchors are the last roots; a refused call changes nothing; what is good is accepted |
| Building (`bundle.rs`) | none; draws randomness | `build` | balances, pads both sides, proves what is true |
| Authorising (`bundle.rs`, `signature.rs`) | the `UnauthorizedBundle`, consumed by value | `signing_request`, `authorize` | device signatures go to their own actions |
| Device (`signer.rs`) | the spending key | `review`, `sign` | signs only what it recomputed and showed |
| Notes, keys (`note.rs`, `keys.rs`) | none | `from_parts`, `commitment`, `nullifier`, `creation_rho`; key derivation | one note, one nullifier; one address, one nullifier key |
| Action circuit (`circuit/action_slice.rs`, `circuit/note_chip.rs`) | the cells of one proof | `synthesize`, `instance` | only notes of the tree, by their owner, for what they are worth now |
| Decay (`decay.rs`) | none | `decay`, `decay_windowed` and their traces | the two chains and the chip compute the same function each |
| Values of a bundle (`circuit/note_chip.rs`, `circuit/action_slice.rs`, `signature.rs`, `bundle.rs`) | cells, elements, scalars, u64 | packing, the gate "action", `to_scalar`, the sums | one number in every field |
| Decay chip (`circuit/decay_chip.rs`) | the cells of its regions | `decay` in both variants | no second solution; every note that exists has one |
| Range check (`circuit/range.rs`) | a running sum | `check_bits` | exact, for every width |
| Wallet's tree (`WalletTree` in `tests_bundle.rs`) | a copy of the tree, positions of own notes | `follow`, `find_notes` | a path for every own note, under a root the ledger has had |
| Note encryption, memos (`note_encryption.rs`, `memo.rs`) | none | encrypt, decrypt, commit | what is sent opens to what is committed |
| C interface (`ffi.rs`) | the node's tree, opaque | a call per step: size, creation commitment, append, checkpoint, verify | position and commitment belong together; a rebuilt tree is the same tree |
| Wire format (`wire.rs`), signing requests on their way (`signer.rs`) | none | encode, decode, body hash | one meaning per encoding, for every reader |
| Skeleton circuit and its calls (`circuit/value_balance.rs`, `prover.rs`, `ffi.rs`) | the cells of one proof; the cached keys; buffers handed to C | `prove`, `verify`, `grdzk_init`, `grdzk_buffer_free` | sums of integers, not of field elements; codes that tell the truth; each buffer freed once |
| Addresses, WebAssembly, benchmarks, generated tables | none | conversions, measurements | not modelled, see below |

The wallet's tree is in the tests because the wallet itself is another repository; it is the
only statement in this repository of how a wallet is to use `CommitmentTree`.

## What is hard here

`PROJECT.json` lists each hazard at its line. In short:

- **Two representations that have to agree.** The anchor queue and the map beside it; the tree
  and the anchors; the wallet's copy of the tree and the ledger's.
- **Stale state.** A bundle is built against the root of a copy of the tree, reviewed, signed
  and sent, while the ledger moves on and its window of anchors moves with it.
- **All or nothing.** `apply` writes nullifiers before the appends, which `expect` room; that
  nothing fails half way rests on checks made in another function.
- **Calls that belong together.** Behind the C interface the position of a creation, its
  commitment and its append are three calls, and what is verified on one thread is admitted on
  another, perhaps after a restart that rebuilt the tree.
- **Several readers.** Device, server and node parse the same bytes with different parsers, one
  of which merges what another replaces.
- **Parts that come together.** A wallet decrypts whatever was published, whoever put ephemeral
  key, commitment, ciphertexts and memo together, and the memo can be exchanged between two readings.
- **Mix-ups.** Body, openings and rerandomisers of a signing request are separate fields, and
  the device's signatures come back as a list without indices.
- **Second solutions.** A circuit's cells are what they should be only because range checks in
  a prime field leave no other solution.
- **A shared start.** Threads race for the keys, and the one that builds them may panic while
  others wait.
- **One step of several failing.** No call takes an append back, and a node may stop between any
  two calls; it has to carry through what it took up.
- **Recombination.** Keys consist of parts that may be combined at will; a note must have one
  nullifier however its spender combines them.
- **Limits.** The last leaf of the tree; the last second of a year; the shift from which a
  value is zero; two largest values in one sum.

## Modules

```
 AnchorHistory   CommitmentTree            Decay
        \          /      \                /    \
         Ledger --/        \           Notes    DecayChip
           |  => ShieldedLog \          /
           |                  ActionCircuit
           |                       |
           |                    Bundles
           |                    /      \
           |                Signer      \
           |                  |          \
           +-- INSTANCE -- Transfer   ShieldedPool -- INSTANCE -- Ledger

 CommitmentTree      Protobuf             Keys            ValueBalance
    /     \             |                   |                  |
 NodeFfi  MerkleTree   Wire           NoteEncryption     SkeletonFfi
    |                   |                   |
 => ShieldedLog  SigningRequests         Delivery
                        |
                      Relay                RangeCheck        NetValue
```

`MerkleTree`, `RangeCheck` and `NetValue` look below what other modules take as one thing: a root
that is a sequence of leaves, a cell that is in range, a net value that is an integer.

| module | models | state |
|---|---|---|
| `AnchorHistory` | the queue and the map of `tree.rs`, `Push` with its two halves | `roots`, `counts` |
| `CommitmentTree` | the tree as a value | – |
| `Ledger` | `Ledger::new`, `add_note`, `verify`, `apply`; `Write` is `apply` after `verify`, including the branch in which an append finds no room and unwinds | `tree`, `roots`, `counts`, `nullifiers`, `outcome` (what the call returned), `log` (history) |
| `ShieldedLog` | abstract: what a ledger promises, by the log of what it accepted alone | `log`, `accepted` |
| `Decay` | both chains of `decay.rs` as functions of value and age | – |
| `Notes` | notes, their two hashes, and which key parts an address depends on | – |
| `ActionCircuit` | the statement of `synthesize`, a conjunct per gate | – |
| `Bundles` | `build` with every early return in its order, `authorize`, both signature schemes, `verify_bundle_crypto` | – |
| `Signer` | `review` with every early return in its order, `sign` | – |
| `Transfer` | composition: users, sessions, wallets, devices, ledger, clock | `clock`, the ledger's, `chain`, `wallets`, `sessions`, `consents` (history) |
| `ShieldedPool` | composition: ledger, circuit and signatures against provers with a free choice of witness | `clock`, the ledger's, `spent` (history) |
| `NodeFfi` | the node behind `ffi.rs`: each C call a step, its database, its stops and restarts | `tree` (or none), `store`, `verified`, `task`, `accepted`, `log` (history) |
| `Protobuf` | messages as sequences of fields; readers that merge and readers that replace | – |
| `Wire` | `encode`, `decode` and `parse_transfer_body` of `wire.rs` with every error in its order | – |
| `SigningRequests` | `encode` and `decode` of a signing request | – |
| `Relay` | bodies, authorisations and requests on their way, changed at any depth | `sent`, `body`, `authorization`, `request`, `edits` |
| `Keys` | derivation with its resampling, viewing keys as handed over, monthly addresses | – |
| `NoteEncryption` | the domain of `note_encryption.rs`, `encrypt`, `decrypt`, `recover`; memos | – |
| `Delivery` | addresses, senders, publishers who recombine parts, exchangers of sealed memos, wallets | `addresses`, `published`, `exchanges`, `sends` and `shown` (histories) |
| `MerkleTree` | the hashes behind `CommitmentTree`: a frontier, the table of empty roots, paths | `trees`, `frontiers` |
| `RangeCheck` | `check_bits`, against a prover who chooses every word | `cell`, `bits`, the running sum |
| `NetValue` | the numbers of a bundle in base field, scalar field and u64, action by action | cells, `cv`, the sums |
| `SkeletonFfi` | the skeleton's C calls by several threads: keys, codes, panics, buffers | `setup`, `calls`, `outs`, `heap`, `sent` |
| `ValueBalance` | the skeleton circuit, `prove` with its check, `verify` | cells, `limbs`, `takenFor` |
| `DecayChip` | the regions of the chip, filled one after another by a prover with a free choice of cells | the caller's cells, the chain's, the results |
| `MC…` | instances for TLC | |
| `…_proofs` | theorems, see [Proofs](#proofs) | |
| `Basics` | lemmas the proofs share: induction, folds, remainders, products and powers, lists | – |

**An action is a call.** The code takes `&mut self` and returns, so `AddNote`, `Apply`, `Build`,
`Sign`, `Authorize` and `Follow` are one step each, with all that the call does. What is not
one step in the code is not one here: a transfer is at least built, signed, authorised and
applied in four, with anything between them. `Sign(s, t, u)` takes the body of one session with
the openings and the rerandomisers of others; `Authorize(s, t)` takes the answer given to
another session; `Apply` may be repeated. In `NodeFfi` a step is one call of the C interface:
what `Apply` does at once is a row of five steps or more there, and the node may stop between any
two of them.

**History variables.** `log`, `outcome`, `consents`, `spent`, `sends` and `shown` record what happened and are not
read by any guard of the code's steps (`Len(log)` only bounds the runs).

**Deviations.** An operator with the comment "Deviation: …" stands before the definition it
deviates from and does what a plausible mistake in that code would do. Nothing uses it; put in
place of the definition, it breaks the property that is there to notice.

### Abstractions

- *Cryptography is ideal.* A hash is the record of what it hashes, so it has no collisions. The
  root of a tree is its sequence of leaves, and a Merkle path is the tree with one leaf left
  open: `MerkleTree` shows that the code's hashes, computed from a frontier and a table, are
  just as good, provided that the empty leaf is no note's commitment ("not a valid note commitment
  in practice", `tree.rs`). A signature names its key and what it covers, and is made only by who has that key. A
  proof carries whether the statement held: `create_proof` does not look, the verifier does.
- *Randomness never repeats.* What the code draws is named by call, purpose and action.
- *Net values are integers* and checked cells are in range, except where that is the question:
  `NetValue` has the fields, `RangeCheck` the words a prover chooses. There a curve point is known
  by how often it holds the value base, since nobody knows that base as a multiple of the other.
- *Keys* consist of `ak`, `nk` and `ovk`; `rivk` only blinds, a diversifier only makes another
  address of the same key, and both are left out, as are a note's kind and expiry epoch, which
  decide nothing yet.
  `Keys`, `NoteEncryption` and `Delivery` have them all: there a point is a base point and the
  set of scalars it was multiplied with, which is all that key agreement relies on.
- *Decryption* in `Transfer` is finding the notes at one's own addresses; in `NoteEncryption` a
  ciphertext is its key and its plaintext, and opens for that key only. The checks of a decrypted
  note are `zcash_note_encryption`'s, an external crate.
- *Bytes* in `Protobuf` are an atom or a sequence of fields. An atom has a length and may or may
  not be canonical; a field has a number or bytes, and knows whether its varints are minimal. Ten bytes
  of a varint hold seventy bits: `read_varint` drops what is above 64 (`ReadVarint`), a strict
  reader, as prost is one, refuses the message (`VarintsFit`).
  No message in the code has more than three levels of its own; readers and writers are made
  level by level (`Read1`, `Read2`, `Read3`), as prost derives a message's from those of its fields.
  prost and the C side's pbtools are external, modelled as the code and `wire.rs` rely on them.
- *The node* of `NodeFfi` is another repository. Its checks and its database are external,
  written from what `ffi.rs` and its header ask of a caller: one owner of the tree ("Not
  thread-safe: one owner, or a lock around every call", `include/gradido_blockchain_zk.h`), the
  checks of `Ledger::verify` in their order, and one database transaction per transfer. Buffers,
  null pointers and caught panics of the calls on shielded transfers are left out.
- *Buffers* in `SkeletonFfi` are addresses on a heap; a caller does what the header asks: it passes
  pointers that are null or valid and never hands in a buffer it has not given back. Any
  step that computes may panic, each thread once, and `create_proof` may fail. Of the length of a
  proof only counts whether it cuts the proof short; halo2 does not look at what is behind one.
- *Checks left out of `verify_bundle_crypto`:* the length of the proof and an `rk` that is the
  identity; no builder modelled here produces either.
- *Caller's duty.* Community and time are the receiver's own, `Ledger::verify` is handed bundles
  decoded with them (`from_wire`). In `ShieldedPool` bundles are made for any community and any time, and
  `Received` puts in the receiver's; `Transfer` has one community.

## Runs

### Fairness

A library has no scheduler: nothing in this code promises that a server follows the chain or that
a device answers, and `authorize` takes a transfer by value, so that it is gone after a wrong
answer. Two specifications assume fairness
all the same, each of one thing only:

- `NodeFfi`: `WF_vars(OwnerStep)`. The tree has one owner, a sequential program whose calls return,
  and a node that stopped is started again. Nothing is assumed of what arrives, of
  verification, or of when the node stops.
- `SkeletonFfi`: `WF_vars(Proceed(t))` for each thread. A thread inside a call is run until the call
  returns; nobody has to call anything. While another thread builds the keys a waiting one has
  nothing it could do, so its fairness does not help it.

Every other run checks safety.

### What is checked

A run checks what takes several steps to break. `TypeOK` of `AnchorHistory`, `Ledger` and `NodeFfi`,
`CountsMatchQueue` and `AnchorWindow` are proved for every size and are not run. Of the properties
that hold, all but the two about what must happen are proved as well.

| run | states | shows |
|---|---|---|
| `ledger` | 1 487 | the ledger keeps its promises under every order of calls, good and bad |
| `transfer` | 85 602 | two users' transfers, interleaved and mixed up |
| `pool` | 14 431 | a prover with a free hand neither gains value nor spends what is not theirs |
| `decay_chip` | 704 960 | the chip has exactly one solution for every note that exists |
| `node` | 76 416 | a node that makes its calls one by one, and stops anywhere, keeps a ledger's promises |
| `relay` | 88 446 | bytes that were changed on their way mean one thing to all readers, or nothing |
| `delivery` | 494 615 | notes and memos arrive, and only where and as they were committed |
| `value_balance` | 45 810 | every assignment of the skeleton circuit's cells |
| `range_check` | 6 960 | every choice of words: only what is in range passes |
| `net_value` | 160 237 | a bundle balances for its verifier as it does for its builder |
| `merkle_tree` | 14 641 | hashes from a frontier, and paths, are as good as the sequence of leaves |
| `skeleton` | 436 013 | threads race, panic and free: codes are true, buffers owned, calls return |

**`ledger`** — a tree for five notes with two actions per bundle: one bundle and three creations
fill it, two bundles leave room for one note but not for a bundle. A window of two anchors over
up to five transactions, so that anchors expire. Bundles with every anchor of at most three
notes (accepted, expired, never there), with nullifiers that overlap pairwise or within the
bundle, of the wrong length, or signed for something else; any of them again.
`NoDoubleSpend` and `StateFollowsLog` relate the structures to the log.
`AllOrNothing` states the code's comment "nothing below can fail halfway". `AcceptsExactly`
compares `verify` with the log's own definition of a good bundle, in both directions, so that a
ledger that refuses everything would not do; it is the property that notices an anchor
history whose map and queue drift apart. `ImplementsShieldedLog` is the refinement. The
system does not stop: a full tree still answers calls.

**`transfer`** — two users and two sessions, each symmetric. A year has two seconds and a note of
4 is worth 3 after one, so that the clock may run between building and applying and change what
is owed. Up to two creations before or between the transfers, a window of two anchors: with one creation or
transfer in between an anchor still holds, with two it has expired. Payments with and without
change, of one note or two, so that padding stands on either side. `NullifiersDistinct` is the
ground for "otherwise the second one could never be spent" (`note.rs`). `WalletsFollowLedger`
says that a wallet's tree is one the ledger had, and its positions are right. `SignedAsShown`
is the code's "the server cannot hide an output": whatever was mixed up, a signed body creates
what the device showed. `SpendsHaveConsent` follows a spent note back to its owner's review of
that very body. `RefusedOnlyByLedger`: what was built, signed and authorised is refused only for
a full tree, an expired anchor or a note spent meanwhile – never for its proof or signatures.
Sessions end, so the run may stop (`CHECK_DEADLOCK FALSE`).

**`pool`** — the builder of the code is replaced by one that may choose: any community and time
to make a bundle for, any note of the tree or
an invented one, any combination of key parts, the path of any tree there has been at any
position or none, any of three values for each created note (0; what an old note is worth; what
a new one is worth), under any anchor. `NotesAreOfThisLedger`: whatever it was made for, an
accepted bundle spends notes of the receiver's community and creates such, dated by its clock. What the circuit's statement lets through is signed and
handed to the ledger; only accepted bundles are steps, since by `AllOrNothing` a refused one
changes nothing. Four transactions are enough for two creations and the spend of both, for the
spend of a created note, and for the attempt to spend any of them again. The bound on
transactions ends the run (`CHECK_DEADLOCK FALSE`).

**`decay_chip`** — every value, every pair of timestamps over more than three years, and both
chains, against every filling of the cells within their range checks, over the field of 8191
elements. `DecayedIsDecay`: what is proven is the decay of `decay.rs`. `HonestProverSucceeds`:
who follows `decay_trace` or `windowed_trace` can fill every region, so no note is stuck. The
parameters keep the code's proportions, which `FieldAssumption` states and TLC evaluates: checked
cells may exceed a word but no product of them reaches the field's order. `NoSecondSolution` says
it region by region, for whatever factor the chain came to. The code's widths are
64 bit words, 70 bit checks, a 255 bit field, a year of 25 bits and windows of 5. A proof or a
dead end ends a behaviour (`CHECK_DEADLOCK FALSE`).

The accumulators of `rem`, which the code keeps in cells and ends on the constant 0, are the
running sum of the digits here: the gate gives each as an expression of the one before.

**`node`** — a tree for four notes, a window of two anchors, seven bundles that share or repeat
nullifiers under the empty tree or under one creation, one of the wrong length, and creations
with the same fields. Verification runs ahead at any time, of anything; admission, the calls for
each note, the checkpoint and the database are steps of the owner of the tree; a stop may fall
between any two of them. `TreeIsStored`: between two transactions the tree is what the database
describes, also after a rebuild and after refused appends. `CreationsStayDistinct`: each creation
of the tree was computed for the position it stands at, although size, commitment and append are
calls of their own. `ImplementsShieldedLog`: the same abstract log that `Ledger` implements. That
alone lets a node refuse what it likes; `NodeAcceptsExactly` says the other half, that a verified
transfer is taken up exactly if the log takes it by then, and that a refused append is a creation's,
at a full tree. `AdmittedIsStored`: the nullifiers of what it took up get into the database unless the
process ends first; without room for both notes beforehand a tree would refuse the second append
and nothing takes back the first.

**`relay`** — one bundle of two actions and its signing request, with one opening that has a memo
and one that has none. Two changes at any depth: a field dropped, repeated, swapped with its
neighbour, added, written with a longer varint, with one of more than 64 bits, or given another
number or other bytes. The size limit lies between three actions and four, numbers on both sides of
their limits and of 2^64. `ReadersAgree`: of a body that the device accepts every reader that
reads its varints as the device does sees the same anchor, actions, time and version, whether it
merges repeated sub-messages or replaces them. A reader that refuses long varints, as prost does,
sees the same or nothing: such a body signed by a device would be lost, not misread. `BundleHasOneEncoding` and
`RequestHasOneEncoding`: what is accepted is the encoding of what it decodes to. Two changes are
needed, since one that repeats a field and one that alters it make a message readers differ on.
The bound on changes ends the run (`CHECK_DEADLOCK FALSE`).

**`delivery`** — two users, one of whom needs a second `rivk`, two addresses, three outputs:
two that were made and one that was put together of their parts, or encrypted to another address
than the one it commits to; or an output fewer for each memo that was exchanged, under the
key it had or another, with any text and with an opening that is known from another note. Months inside and outside a year, two of which are the same byte.
`FoundNotesAreCommitted`: what a wallet finds it can spend, and the note was encrypted to the
very address it names. `SentNotesAreSeen`: who should see a note sees all of it, and nobody else
does. `MemosAreCommitted`: a reader takes what opens with the key at hand and verifies for the
note it sees, at any time; of one commitment of the ledger all readers ever take the same text, an
honest sender's is taken for what it is, and a memo that nobody exchanged is read. Texts are
compared and nothing else, so the run counts states that differ in their names as one.
`MonthsHaveTheirAddresses`: no address serves two months, and its owner recognises it. The bounds
on addresses and outputs end the run (`CHECK_DEADLOCK FALSE`).

**`value_balance`** — every assignment of two inputs and two outputs in the field of eleven
elements, with two limbs of one bit. `VerifiedBalances`: equality in the field is equality of
integers. `ProveRefusesExactly`: `check_witness`, which stands in for the check halo2's prover
does not make, refuses what has no proof and nothing else. A proof or a dead end ends a
behaviour (`CHECK_DEADLOCK FALSE`).

**`range_check`** — every cell of the field of 67 elements, words of three bits, widths from one
to six: less than a word, whole words, and a word with bits that do not fill a second. `Pinned` is
the code's "`cell < 2^bits`, exactly". A check ends (`CHECK_DEADLOCK FALSE`).

**`net_value`** — two actions with every value of three bits and date of two, in the smallest fields
`FieldAssumption` admits, so that one more value would wrap around. `ElementsReadBack`: "two
different notes could pack to the same element" (`note_chip.rs`) they do not. `CommitsToNet`: the
commitment inside the circuit and the one `build` makes outside are to the same number, for
each magnitude and sign the gate admits. `VerifiedAsBuilt`: the binding signature verifies exactly
if the u64 sums of `build` are equal, and those do not overflow; with values of one bit more they
could. A bundle ends (`CHECK_DEADLOCK FALSE`).

**`merkle_tree`** — two trees of depth two, of any leaves among three notes, each filled in any
order, full ones included. `RootIsOfAllLeaves`: the root from what is kept of a tree is that of all
leaves. `PathsAreExact`: a path of a wallet, read at any
position, for any note, under any root of either tree, leads there only if the note stands there; at
its own position that is just when `CommitmentTree` says so. Depth two has a left and a right
child below a left and a right child. Full trees end the run (`CHECK_DEADLOCK FALSE`).

**`skeleton`** — two threads, two buffers, amounts that balance, do not, balance in the field only,
are out of range, are no field elements, or are too few; proofs of one call in another, bytes
that are none, and proofs that the length given cuts short (a length above `isize::MAX` is among
the observations below). `AnswersAreRight`: each code names the
first thing that is wrong, with sums over numbers, `GRDZK_ERR_PROVE_FAILED` comes only for a witness that
holds, and `GRDZK_ERR_PANIC` only to who panicked. `BuffersAreOwned`: a buffer has one owner as long as it is on the heap, whatever call failed,
panicked, or freed twice. `EveryCallReturns`: also who waits for keys whose builder panics. Two
threads suffice, since one waits while the other builds. Address or thread may run out
(`CHECK_DEADLOCK FALSE`).

### Bounds

| constant | code | ledger | transfer | pool | decay_chip |
|---|---|---|---|---|---|
| `Capacity` (`ANCHOR_HISTORY`) | 20000 | 2 | 2 | 2 | – |
| `MAX_NOTES` (2^`MERKLE_DEPTH`) | 2^32 | 5 | 6 | 6 | – |
| `NumActions` (`ACTIONS`) | 2 | 2 | 2 | 2 | – |
| `SECONDS_PER_YEAR` | 31 556 952 | – | 2 | 2 | 12 |
| `WORD` | 2^64 | – | 4 | 4 | 16 |
| `VALUE_LIMIT` | 2^63 | – | 8 | 8 | 8 |
| `W1_SHIFT_LIMIT` | 63 | – | 3 | 3 | 3 |
| `WINDOW_BITS` | 5 | – | 1 | 1 | 2 |
| `TIME_LIMIT` | 2^40 | – | 4 | 4 | 40 |
| `RANGE`, `FIELD`, `POW_TABLE_MAX` | 2^70, p, 127 | – | – | – | 32, 8191, 7 |
| `MAX_CLOCK`, `MAX_LOG` (bounds of the runs) | – | – | 1, 2 | 1, 4 | – |

| constant | code | node | relay | delivery | value_balance |
|---|---|---|---|---|---|
| `Capacity`, `MAX_NOTES`, `NumActions` (in `relay` `BUNDLE_ACTIONS`) | 20000, 2^32, 2 | 2, 4, 2 | –, –, 2 | – | – |
| `WORD32`, `WORD64` | 2^32, 2^64 | – | 8, 16 | – | – |
| `TIME_LIMIT`, in `relay` `TIMESTAMP_LIMIT` | 2^40 | – | 8 | 4 | – |
| `VALUE_LIMIT`, `EXPIRY_LIMIT` | 2^63, 2^16 | – | – | 8, 4 | – |
| `MAX_SHIELDED_BUNDLE_SIZE` | 4096 | – | 3000 | – | – |
| other sizes | | – | as in the code | – | – |
| `BYTE` | 256 | – | – | 256 | – |
| `PRIME`, `LIMB`, `N_LIMBS` | p, 2^8, 20 | – | – | – | 11, 2, 2 |
| `MAX_EDITS` (bound of the run) | – | – | 2 | – | – |
| memo keys, those shared with senders | any | – | – | 2, 1 | – |
| `MAX_ADDRESSES`, `MAX_MAIL` (bounds of the run) | – | – | – | 2, 3 | – |
| `MAX_RESAMPLES` (bound of the run) | none | – | – | 2 | – |

| constant | code | range_check | net_value | merkle_tree | skeleton |
|---|---|---|---|---|---|
| `FIELD` or `MODULUS`, `ORDER` | p, q | 67 | 37, 17 | – | 11 |
| `WORD_BITS`, `Width` | 10; 1, 16, 40, 63, 64 | 3; 1–6 | – | – | – |
| `VALUE_LIMIT`, `TIME_LIMIT`, `KIND_LIMIT`, `EXPIRY_LIMIT` | 2^63, 2^40, 2, 2^16 | – | 8, 4, 2, 2 | – | – |
| `NumActions` | 2 | – | 2 | – | – |
| `MERKLE_DEPTH`, `MAX_NOTES` | 32, 2^32 | – | – | 2, 4 | – |
| `LIMB`, `N_LIMBS`, `N_IN`, `N_OUT` | 2^8, 20, 2, 2 | – | – | – | 2, 2, 2, 2 |
| threads, addresses | any | – | – | – | 2, 2 |

In `relay` a field's key, length and number count as three bytes together, so that an action is
a little smaller than in the code and the limit is scaled with it. A node's run ends with its
tree: four notes are four transactions at most, each with stops before, in and after it.
`MAX_LOG` of `transfer` bounds creations only; what sessions apply comes on top of it.

## Proofs

For every value of the constants, under the assumptions that the modules name:

| assumption | says | in the code |
|---|---|---|
| `MaxNotesAssumption` | the tree has a size | 2^`MERKLE_DEPTH` |
| `ParameterAssumption` of `Ledger` | a bundle and the window are not empty | `ACTIONS`; `AnchorHistory::new` asserts it |
| `BundleAssumption` of `Ledger` | a bundle's actions are a sequence of nullifiers and commitments | `Vec<Action>` |
| `CryptoAssumption` | proof and signatures are good or fail with one of their errors | `verify_bundle_crypto` |
| `ParameterAssumption`, `BundleAssumption` of `NodeFfi` | counts are numbers; a transfer's commitment is no creation's | its rho is a nullifier |
| `DepthAssumption` | 2^`MERKLE_DEPTH` leaves; the empty leaf is no commitment | "Not a valid note commitment in practice" |
| `ByteAssumption` | a byte holds every month | `u8` |
| `MemoKeyAssumption` | senders have keys among those there are | – |
| `ResampleAssumption` | the loop that draws `rivk` ends for every user | it fails with negligible probability |
| `ValueAssumption`, `AmountAssumption` | amounts and times are numbers, outputs a list | `u64`, `&[Output]` |
| `DecayAssumption` | widths are not zero and fit each other; factors fit a word | `decay.rs`, `DECAY_POWERS` |
| `FieldAssumption` of `DecayChip`, `NetValue`; `ModulusAssumption`; `LimbAssumption` | nothing that is compared reaches the field's order | 64, 70 and 255 bit; 160 and 255 bit |
| `DecayAssumption` of `NetValue` | a value does not grow; `DecayOnlyTakes` proves it of `decay.rs` | – |
| `SumAssumption` | the largest values of all actions fit u64 | `ACTIONS` is 2, values are below 2^63 |
| `AtomAssumption` of `Wire`, `WireAssumption` | an atom is no message; elements and points have 32 bytes; words have their order; the circuit version fits its field | `bytes32`, `point`; `u32`, `u64`; `CIRCUIT_VERSION` is 2 |
| `RequestAssumption` | addresses and scalars are bytes; both kinds of a note have a number of their field | `NoteKind` as `u32` |
| `SentAssumption` | a server sends whole bundles, openings and rerandomisers, whose encodings are not above the limits | the fixed sizes of `Bundle` and `OutputOpening`; the limits of `wire.rs` and `signer.rs` |
| `EditAssumption` | what a change puts in are numbers of at most seventy bits, atoms, or no bytes | ten bytes in `read_varint` |
| `AddressAssumption`, `ArgumentAssumption` | an address is not null; the sizes of `ValueBalance`; arguments are lists of numbers | the header |
| `PositivePowers`, `PowerAssumption`, `WordAssumption`, `WeightAssumption` | the powers that occur are powers | – |

The last four are there because the provers know nothing of exponentiation: they list, for the
exponents a module meets, the few laws its proofs use. TLC evaluates them, as the others.

`Basics` has what the proofs share. The library's theorems on induction take a predicate as
parameter, which no installed prover can instantiate; induction over a *set* of numbers is one of its
lemmas, proved from well-founded induction, and with it recursive functions and folds can be
reasoned about: that there is a function made level by level as its definition says, and what
holds of each of its values. So what decay, limbs, sums of bundles and hashes of trees compute is
proved for every size.

**`Ledger_proofs`**, the ledger. The anchors come first: `AnchorTypeCorrect` and `MapCountsQueue`, for
any sequence of pushes, the same root again included. In the ledger roots never repeat, as the
tree only grows, so the run `ledger` cannot show this case and the theorem stands for it. The
invariant `AnchorInv` states the counts for every key, in the map or not: that the map accepts
exactly the queued roots is not inductive alone, since what `push` forgets of a root depends on
how often it was counted. `LInv` consists of the types, `AnchorInv`, `StateFollowsLog` and
`NoDoubleSpend`. `NoDoubleSpend` alone is not inductive: a new bundle is checked against the
set, not against the log, so the set has to be known to hold exactly what the log shows. From it:

| theorem | establishes |
|---|---|
| `TypeCorrect` | types, and that the `expect` of `apply` never fires |
| `NoDoubleSpendHolds` | no nullifier is accepted twice |
| `StateFollowsLogHolds` | the structures are what the log adds up to |
| `AnchorWindowHolds` | the anchors are the roots after the last `Capacity` transactions |
| `AcceptsExactlyHolds` | `verify` accepts exactly the good bundles |
| `AllOrNothingHolds` | a call that fails changes nothing |
| `Refinement` | the ledger implements `ShieldedLog` |

`AnchorWindow`, `AcceptsExactly` and `AllOrNothing` are consequences of the invariant in one
state or one step; they are not needed to prove it. The refinement maps `accepted` to
`outcome = "Ok"` and the log to itself; a refused call maps to a refused call.

**`Ledger_proofs`**, `Delivery`. `MailInv` says of each address that it was handed out as its owner's
keys and a month give it, of each send what was published for it, and of each text a reader took
that it is the one committed to by the `memo_cm` in the commitment it was read from. `SentNotesHold`
follows from it, and `AddressesOfMonthsHold` from its first part. `MemosHold`: two readings of one
commitment agree, and with what an honest sender wrote, whose note has its `memo_cm`; this holds for
all that is read at any time, although what lies beside a note changes. That an unexchanged
memo is read at all follows as in `SentNotesHold`. `FoundNotesHold` needs
no invariant: it is about whatever may be published, by whomever, and follows from the checks
of `decrypt` alone.

**`Ledger_proofs`**, `MerkleTree`. The lemmas are about positions and levels: going up halves a
position and keeps the order, counting on clears the low bits up to the first zero, a walk past the
siblings of a leaf's ancestors visits these. `SubtreeTells` says that two trees have the same subtree
at a place just if they have the same leaves under it: one direction since hashes do not collide,
the other since they depend on nothing else. `MerkleInv` says that what is kept of a tree is its last
leaf and, for each set bit of its position, the subtree left of its ancestor; an append keeps
this because the subtree it closes stands just there. `RootsAreOfAllLeaves` fills the zeros with
the table of empty roots. `PathsLeadExactly`: a walk that ends in a tree's root began at its leaf, which
is no empty one; and the siblings of a leaf stay when the leaf is changed.

**`Ledger_proofs`, `Relay`.** `RelayTyped`, `BundleHasOneEncodingHolds`, `RequestHasOneEncodingHolds`,
`ReadersAgreeHolds`: for everything servers may send, any numbers, atoms and fields to change it
with, and any number of changes. `RelayTypeOK` is the whole invariant, and what is sent is in
it: what is on its way is a sequence of fields, at most five levels deep, since each change of a
field leaves a field of its level. Everything else is about such sequences, changed or not.

- A schema and a value that fits it (`Fits`: the value a field of this kind can have) determine the
  bytes: the fields of each tag stand together, in tag order, so reading a tag finds the part
  that was written for it, and reading what was written gives the value back, at each level, numbers
  below 2^64 with `read_varint`'s remainder as well. With the
  sizes of `SentAssumption` this is the half about what was sent.
- For what was changed, `MessageError` compares with the canonical encoding, so bytes that are taken
  are what is written for what was read in them. What is left to show is that nothing is lost
  between the message and the bundle or the request: of an anchor the root is kept and the epoch has to be
  zero, of an opening the memo's two parts are both there or both empty, and so on for each field.
- `FirstOf`, the code's early returns, gives "Ok" exactly if no check fails; from it comes what a
  body that the device takes consists of: known fields, each singular one once, the timestamp's
  too. A reader that merges and one that replaces differ only where a sub-message comes twice;
  in the body none does, and in the bundle none does since its bytes are canonical. So both read
  what the device reads. The bundle's bytes were taken by a strict reader, and what such a one takes
  the others take (`StrictOrNot`).

**`Transfer_proofs`.** All five properties of `transfer`, for any number of users, sessions and
actions: `EveryNoteCanBeSpent`, `WalletsAreWhole`, `ServerCannotHide`, `NoSpendWithoutConsent`,
`OnlyLedgerRefuses`. The invariant `TInv` has three parts. The ledger: each leaf's note has a rho of
its own – a creation's position, or a nullifier that was spent – and the roots are beginnings of the
tree. The wallets: copies of the tree as it once was, with the positions of own notes. The
sessions, stage by stage: what is built balances and opens what its body says; what is signed was
recomputed from the body by the device, whichever session's openings it was given; what is
authorised has each signature from the owner of the note it spends. Only then is a refusal the
ledger's doing.

**`ShieldedPool_proofs`.** All four properties of `pool`, against every witness that the circuit's
statement admits: `OnlyOwnersSpend`, `NoteIsSpentOnce`, `ValueIsConserved`,
`NotesBelongToTheLedger`. `PInv` ties the history of spends to the ledger: each leaf is a note of
its community and no later than its clock, with a rho no other leaf has (a creation's position, or
a nullifier of the set); each spent note of value is in the tree, by its owner, and its nullifier
in the set; each transaction created what its spent notes were worth. A second nullifier for one
note would need another `nk` for the same address, which the conjunct on the key parts excludes.

**`Ffi_proofs`**, `NodeFfi`. `TypeCorrect`, `TreeIsStoredHolds`, `CreationsStayDistinctHold`,
`NodeRefinement` and `NodeAcceptsExactlyHolds`. The inductive invariant `NInv` says what the database is in terms of the log, and
for each stage of a task what the tree is in terms of the database: how many of the notes have been
appended already, or how many of the stored ones while rebuilding. `TreeIsStored` and
`CreationsStayDistinct` hold between tasks only because of what holds within them. In the
refinement the call that stores maps to a transaction, every other step and each stop to a
stutter. `NodeAcceptsExactly` compares `Fits`, about the database, with what the log calls acceptable;
both verdicts agree because `NInv` derives one from the other, and because effects in `verified`
come from a bundle that decoded and whose proof and signatures are good. A refused append leaves
the task `append` without its stages being done; `NInv` knows that a transfer has room for all its notes.

**`Ffi_proofs`**, `SkeletonFfi`. `BuffersAreOwnedHolds` and `AnswersAreRightHolds`, for any number
of threads. For the buffers the invariant adds that a thread in a call of `prove` holds no address, so
that what the call writes drops nothing. For the codes `AInv` says that a call on its way has passed
every refusal, so what is left to decide its code is whether the thread panicked, whether `create_proof` failed,
and whether a whole proof of these sums was given. Nothing is claimed of a length above `isize::MAX`.

**`Decay_proofs`.** `DecayOnlyTakes`: neither chain makes a note worth more than before. The factors
of both chains never leave a word, by induction over bits and windows.

**`DecayChip_proofs`.** `NoSecondSolutionHolds`, `ProvenIsDecay`, `HonestProversSucceed`. A lemma per region
shows that no side of its gate reaches the field's order, hence the equation is one of integers and
its quotient the only one. The invariant `CInv` carries what the regions need of each other: the
factor is at most one, the digits so far are below what they can reach. `DInv` adds that the
factor is the one `decay.rs` has after as many windows or bits of the duration: digits in front do
not change the factors of those behind. The honest witnesses are numbers of `decay.rs`, small enough for
each check because of `Decay_proofs`.

**`NetValue_proofs`.** `ElementsReadBackHolds`, `CommitsToNetHolds`, `VerifiedAsBuiltHolds`. The
invariant `NVInv` bounds both sums by the number of actions proved so far times the largest value and says
that the key of the binding signature is their difference in the scalar field; that
difference is then zero in the field only if it is zero. `PinnedHolds`, of `RangeCheck`: the invariant
`RInv` is a congruence, the cell is the rest times the power of the words taken, plus something below that
power. At the end the rest is zero or has its short check, and the sum is too small to have
wrapped around. `VerifiedBalancesHolds` and `ProveRefusesExactlyHolds`, of `ValueBalance`: in `VBInv`
the cells whose limbs are filled are in range, so that sums of all of them stay below the field's
order; for the other direction the limbs of a number in range exist.

**Only model-checked:** the liveness properties `AdmittedIsStored` and `EveryCallReturns`, since neither fairness nor `ENABLED` is within TLAPS's reach here.

## Not modelled, and what is next

| part | why |
|---|---|
| `address.rs` | an encoding of bytes without state |
| `wasm.rs` | conversions around `signer.rs` without state; the app that calls it is another repository |
| buffers, null pointers and caught panics of the calls on shielded transfers in `ffi.rs` | what those calls do is in `NodeFfi`; buffers and panics are modelled for the skeleton's calls, in `SkeletonFfi` |
| `bridgetree`'s pruning of checkpoints and rewinding | nothing in the repository rewinds |
| `circuit/decay_bench.rs`, `examples/` | measurements |
| `circuit/fixed_bases_generated.rs` | generated constants |
| the chips under the circuit (ECC, Poseidon, Sinsemilla) | taken as the functions they compute |

Observations that no run concerns:

- `note.rs` says of `t_note` "never before DECAY_START_TIME", which neither `from_parts` nor the
  circuit asks for.
- `read_varint` in `wire.rs` drops the bits of a tenth byte above the 64th, where prost refuses the
  varint: a device signs a body with a version of `82 80 80 80 80 80 80 80 80 02`, read as 2, that a
  prost reader does not decode. No line of the code says that it would not; `relay` has the case.
- Bytes behind a proof are no error to `grdzk_verify`, as they are to `decode` of a bundle
  ("halo2 would ignore trailing bytes", `wire.rs`).
- The header explains `GRDZK_ERR_PROVE_FAILED` as "witness does not satisfy the constraints";
  such a witness is refused by `check_witness` with a code of its own, and this one is left
  for errors of `create_proof`.
- The head of `ffi.rs` says "a length above `isize::MAX` is rejected, since no allocation can be that
  large" (line 7). The calls on shielded transfers have it checked by their helper `slice` (line 189);
  `grdzk_verify` hands `proof_len` to `from_raw_parts` as it is (line 140), which is undefined. The
  model has what a build without debug assertions does, verify what is at the pointer;
  `AnswersAreRight` claims nothing for such a length, and the run has none.

### Plan

The order was: the ledger first, because every promise to users ends there, with its proofs;
then what a transfer goes through before it arrives; then the provers who do not follow the
code; then the chip; then the node, the bytes on their way, the notes on their way, and the
first circuit; then what those take for granted (range checks, net values, hashes of the tree), the
calls of the skeleton, and their proofs. What would come next is
a lock around every call, the other use the header of the C interface allows, in which several
tasks take turns between size, commitment and append; and null pointers and buffers of the calls on
shielded transfers.
