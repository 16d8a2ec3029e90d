# TLA+ models and proofs of psbt-v2

`psbt-v2` is a library for Partially Signed Bitcoin Transactions of version 2
(BIP-174, BIP-370, BIP-371, BIP-375). It keeps no threads, files or sockets: a
PSBT is a value, and each BIP-370 *role* is a Rust type that owns the value,
changes it, and gives it back. What is hard about it is the order of things.
Roles follow each other in any order their constructors accept, several people
do so at once on copies of the same PSBT, and the copies are put together again
by whoever receives them. These modules are about that: what may be added after
a signature, which lock time the transaction ends up with, what signing,
finalizing and combining leave alone, and what a set of people passing copies
around ends up with. The other thing it must get right is the serialization,
which is decoded from bytes that arrive in pieces.

Paths below are relative to the repository's crate (`src/...`).

## Inventory

| Part | State | Operations | Correct when |
| --- | --- | --- | --- |
| `psbt.rs` `Psbt` | global map, input maps, output maps | `determine_lock_time`, `unsigned_tx`, `id`, `fee`, `combine_with`, `is_finalized`, `clear_tx_modifiable` | the lock time meets every input, the id does not change under signing |
| `tx_modifiable_flags.rs`, `sighash_type.rs` | three bits; a sighash type | `apply_sighash`, `is_anyone_can_pay`, `is_none`, `is_single` | the flags never allow what a signature present forbids |
| `roles/creator.rs` | an empty PSBT | builder calls, `psbt`, `constructor_*` | – |
| `roles/constructor.rs` | `Constructor<T>`: a PSBT and a type for what may be added | `new`, `input`, `output`, `no_more_*`, `psbt`, `updater` | adds only where no signature objects |
| `roles/updater.rs` | a PSBT with a lock time | `new`, `update` (lends the maps), `psbt`, `signer`, `id` | gives back a PSBT with a lock time |
| `roles/signer.rs` | a PSBT and the sighash cache of its unsigned transaction | `session` (signable inputs, `get_*`), `apply`, `ecdsa_clear_tx_modifiable` | signatures are over this PSBT, flags follow |
| `roles/finalizer/*` | a PSBT whose signatures have the right type | `new`, `finalize`, `interpreter_check`, the satisfier | final inputs are valid and the transaction is unchanged |
| `roles/extractor.rs` | a finalized PSBT | `new`, `extract_tx*` with a fee limit | the transaction is the one that was signed |
| `map/{global,input,output}.rs` `combine`, `map/mod.rs` macros | – | field by field merge, xpub key sources | nothing is lost, places match, order does not matter where it is said not to |
| `psbt.rs` `PsbtV2Decoder`, `v0.rs` `PsbtV0Decoder`, `map/*` decoders, `map/framing.rs`, `encoding/*` | stage: magic, separator, global, inputs, outputs, done, errored | `push_bytes`, `read_limit`, `end` | any split of the bytes gives the same PSBT or error |
| `v0.rs`, `map/v0/*` | a PSBT and the lock time it is written with | `from_psbt`, `into_psbt`, encoders and decoders, `degraded` | the unsigned transaction and the common fields survive |
| `silent_payments/*` | opaque shares, proofs, labels | codecs, output rules, the Extractor's guard | an output with no script is never extracted |
| `error.rs`, `map/error.rs`, `consts.rs`, `version.rs`, `map/serde.rs`, `map/vout.rs`, `map/count.rs`, `tap_key_origin.rs` | – | types, wording, codecs of single values | – |

How they interact: by passing the `Psbt` on. `Creator` → `Constructor<T>` →
`Updater` → `Signer` → `Finalizer` → `Extractor` is the usual way, but every
role after the Creator also has a `new(psbt)`, so after any `psbt()` any role
may follow whose guard accepts the PSBT. Between people a PSBT travels
serialized, and `combine_with` merges what arrives. The crate has no concurrency
of its own, persists nothing and waits for nothing. The behaviours that are
hard are therefore long legal call sequences, independent changes of copies,
reordered, duplicated and lost copies, values read from one place (type, flag,
own lock time) that another place has outdated, and boundaries of arithmetic.
`PROJECT.json` lists each with its line.

## Modules

| Module | Models | Notes |
| --- | --- | --- |
| `LockTime` | `determine_lock_time`, the predicates of `Input` on lock times, `Input::lock_time` | pure; ends with the meaning of the fields, stated apart from the algorithm |
| `Psbt` | the PSBT as a record, its unsigned transaction, signatures, and each handler as an operator PSBT → PSBT | no state |
| `PsbtRoles` | one PSBT and the role type that holds it (`role`, `psbt`), one action per method | extends `Psbt` |
| `TxDraft` | abstract: inputs and outputs grow at the end, only while their side is open, and a closed side stays closed | implemented by `PsbtRoles` |
| `Combine` | `Psbt::combine_with` and the `combine` of inputs and outputs | extends `Psbt` |
| `PsbtExchange` | several holders with a copy each and a wire that loses, duplicates and reorders | extends `Combine` |
| `SigningSession` | `Signer` and its sessions: several PSBTs, the transaction each Signer computed, the `InputSigs` a caller keeps, and `apply`, which may be given any of them | extends `Psbt` |
| `KeySources` | the merge of `PSBT_GLOBAL_XPUB` key sources in `Global::combine` | on its own |
| `UnsignedTxCodec` | the unsigned transaction inside a version 0 PSBT: where it ends, what is refused, what it says | pure, extends `LockTime` |
| `ValueCodecs` | values decoded by hand: signatures, key sources, taproot origins and trees, leaf scripts | pure, extends `UnsignedTxCodec` |
| `PsbtFields` | the fields of the maps of both versions, their keys, framing and order | pure, extends `ValueCodecs` |
| `PsbtFormat` | what the encoders of both versions write, what maps of version 0 stand for; apart from any decoder, which messages are well formed and what they mean | pure, extends `PsbtFields` |
| `PsbtDecoder` | `PsbtV2Decoder` and `PsbtV0Decoder` with the map decoders and `ValueDecoder` under them, the caller that pushes bytes, and the encoders as its second source of bytes | extends `PsbtFormat` |
| `MCPsbtRoles`, `MCPsbtExchange`, `MCSigningSession`, `MCPsbtDecoder` | values of the constants for TLC | |
| `LockTimeProofs`, `PsbtProofs`, `PsbtRolesProofs`, `PsbtExchangeProofs`, `SigningSessionProofs`, `KeySourcesProofs`, `CodecProofs`, `PsbtDecoderProofs` | theorems | `PsbtExchangeProofs` has those of `Combine` too, `CodecProofs` those of `PsbtFormat` and the pure modules it extends |

### State and actions

`psbt.flags`, `.fallback`, `.ins`, `.outs` are `tx_modifiable_flags`,
`fallback_lock_time`, `inputs`, `outputs`. An input has its outpoint (`prev`),
`min_time`, `min_height`, `sequence`, `sighash_type`, its signatures by key
(`partial_sigs`), its final scripts, and in `named` the keys whose scripts and
derivations it carries. `role` is the Rust type that owns the PSBT, with `"Psbt"`
for a bare one. A `Signer` and a `Finalizer` never show an intermediate PSBT
(sessions borrow it immutably, `finalize` builds a new one), so each is one
step from Psbt to Psbt; an action's guard is everything its calls would refuse
with an error. In `PsbtExchange` the Constructor and the Updater are one step
as well, since only the `Psbt` between roles can be sent; `PsbtRoles` has their
inner steps.

`PsbtRoles` and `PsbtExchange` sign in one step, `SignInputs`, a session whose
signatures are applied at once. `SigningSession` takes that step apart:
`SignerNew` fills the cache; `GetInputSigs` (`get_input_sigs`, `get_some`,
`sign_input`) and `GetAll` (`get_all`, `sign_all`) check inputs, strictly
(`SignableInput::verify`) or not (`assume_checked`), and make `InputSigs`, which
join `entries`; `Apply` gives a Signer one or two of these, whoever made them;
`SignerPsbt` and `EcdsaClearTxModifiable` are the other ways on. Between
Signers `Update` and `Construct` change the PSBT. An entry records the PSBT and
the Signer it came from and the keys held, which the code's `InputSigs` do not:
no action reads them, but for `mixed`, which only a property reads. A failed
`apply` puts the PSBT into `lost`, a failed `expect` of a sighash sets
`panicked`.

In `PsbtDecoder` the four layers of decoders are the variables `stage`
(`PsbtV2Decoder`, or `PsbtV0Decoder` if `format` is 0), `inner` (the map's decoder and `ValueDecoder`), `got` and
`consumed` (the decoder of a key or value), `tx` (the transaction of a version 0 global map) and `psbt`
(the lists of maps). A step
is one turn of the loop in `push_bytes`: `NeedsMore` when the decoder at work
takes the rest of the bytes and returns, `End...` when it has all it needs. The
map decoders are the same code over other fields, so they share their steps up
to the separator, and each has its own `EndGlobal`, `EndInput`, `EndOutput` with
its own checks, and `EndGlobal0`, `EndInput0`, `EndOutput0` for version 0, where
the counts come from the transaction and its parts are put into the maps.
`Reencode(target)` encodes what was decoded, in either version, and starts over
with the decoder of that version. `Push(n)` is a call, `End` the call of `end()`
on a decoder that waits. `PushReturns` needs the loop to run on: its fairness is
`WF_vars(Turn)`, which the code has because the turns of one call are one
uninterrupted loop. Nothing makes the caller push or end.

### Abstractions

* Outpoints, outputs (amount and script) and keys are opaque. 0 stands for
  `None` in lock times, whose types exclude 0; an absent fallback is 0, as in
  `unwrap_or(ZERO)`.
* A signature is the part of the transaction its sighash type commits to
  (`Digest`), so it is valid for another transaction exactly if these parts
  agree. That is the external meaning of a sighash (the `bitcoin` crate);
  amounts and scripts of spent outputs go with the outpoint.
* A sighash type is what the code asks of it: its base (ALL, NONE, SINGLE) and
  ANYONECANPAY.
* In `PsbtRoles` and `PsbtExchange` signing is ECDSA and the caller-attested way
  into a session stands for both, since it allows more behaviours;
  `SigningSession` has ECDSA and taproot, and both ways in.
* In `SigningSession` a key is a place for a signature: a public key, the key path
  of a taproot output, or a key in one of its leaves. `OutputType` gives that of
  each outpoint: `"Bare"` is `OutputType::Bare`, `"Tr"` taproot, and `"Wpkh"` stands for
  all the others, which differ from it in the script code alone. The scripts and script codes
  of an input are those of the output it spends. `TapSighashType::Default` is
  ALL. Which keys a provider finds is an input (`Holdings`).
* Scripts ask for signatures of a set of keys and an absolute lock time
  (`Spendings`): what the satisfier looks up in the fields modelled. Relative
  lock times, preimages and descriptors are left out.
* The two final fields of an input are one record. Finalizing clears what
  `Input::finalize` clears, and `named` with it: the scripts and derivations.
* Inputs are added unsigned. An Updater sets what BIP-370 lets it set (sequence,
  and through the view sighash type and lock times), not the outpoint. Versions
  and the two counts, which follow the lists, are left out.
* `Output::validate` is taken to succeed.
* `combine_with` takes the PSBT by value, so an error loses it. `Receive` is a holder who
  combines a clone: it keeps its PSBT when the copy cannot be combined.
* The wire (`Send`) delivers what was sent: encoding and decoding is not part of
  the exchange; `RoundTrips` of the decoder is what it rests on.
* In `PsbtFormat` and below, bytes are numbers, lengths take one byte, a value of
  fixed size has `FixedSize` bytes, and values the `bitcoin` crate parses (a
  previous transaction, a witness) say in their first byte how long they are;
  the first byte of such a transaction's body is its txid. `Bad` stands for
  whatever makes a value or key data be refused. Values that this crate parses
  itself, and the unsigned transaction of version 0, have their parts. Which
  error is returned is not distinguished. The order of the keys of one field is
  the one of its `BTreeMap`, on which nothing depends. The build is the one with
  silent payments, which has all fields of the other.
* `PsbtDecoder` leaves bytes behind a PSBT to the caller (`deserialize` refuses
  them, `decode_from_slice_unbounded` returns them) and ends at an error.
* In `KeySources` the panic of a negative length is a state, `"panic"`; it is
  the same with overflow checks (the subtraction panics) and without (the index
  does).

## What is checked

All runs finish. `CHECK_DEADLOCK FALSE` in every one: a PSBT may rest where it
is, after extraction or with all bounds reached, and `KeySources` stops at an
error, a decoder that has answered stops. Of the roles and the exchange no
fairness is assumed and no liveness stated: a library has no scheduling of its
own, nobody is obliged to call the next role.
`CompleteFinalizes` is the safety statement in the place of "eventually
finalized": the step is possible as soon as the signatures are there.

| Run | Instance | Properties |
| --- | --- | --- |
| `roles` (MCPsbtRoles.cfg, 332,000 states) | two outpoints, outputs, inputs; one key; five of the six standard sighash types, of which an Updater may ask for two, SINGLE with ANYONECANPAY and NONE, and ALL is signed where nothing is asked; all initial flags; a height and a time, in each combination an input can have, set when it is added or by an Updater; a fallback that is a time; a sequence to change | `TypeOK`, `FlagsAccurate`, `CommitmentsKept`, `ConstructorsHarmless`, `TxLockMeetsInputs`, `ImplementsTxDraft`, `SigsBreakOnlyByTimes`, `SigningKeepsTx` |
| `exchange_sign` (MCExchangeSign.cfg, 43,857) | two signers and one who combines and finalizes; two inputs with both keys and different sighash types, and a draft that only gets outputs; three PSBTs on the wire | `GatheredSigsStay`, `HoldersConverge`, `CompleteFinalizes` |
| `exchange_build` (MCExchangeBuild.cfg, 220,364) | two holders who add different inputs, update and sign; two PSBTs on the wire | `TypeOK`, `SigsOnOwnInput`, `LockTimesSurvive` |
| `key_sources` (MCKeySources.cfg, 2,532) | two fingerprints, two child numbers, paths up to length 2, any number of merges | `LongestPathKept`, `FailsOnlyOnConflict` |
| `sessions` (MCSigningSession.cfg, 424,542) | two PSBTs that share an outpoint: one spends a taproot output with two places for a signature and one of a public key, the other the latter alone; three sighash types, two Signers, two entries, two updates or added inputs | `TypeOK`, `SignerTxStands`, `OwnSigsValid`, `LostOnlyMixed`, `AppliedFlagsReflect`, `StrictSigsAgree`, `SessionsInfallible` |
| `decoder` (MCPsbtDecoder.cfg, 406,042) | in version 2 a payment, a silent payment with no input, and taproot values with parts; in version 0 a payment, a silent payment, and nothing at all; and the messages one slip away from them: a changed, missing, repeated or misplaced pair, a wrong length, key data, count, magic, separator, number of maps, number inside a value, or version; a tree that is complete with half a leaf behind it; about 600 messages in pieces of one or three bytes in any order, an end after each, encoded again in either version | `TypeOK`, `DecodesMessage`, `RoundTrips`, `ConversionKeepsTx`, `ReadLimitInMessage`, `PushReturns` |

* `FlagsAccurate`: no signature forbids what a flag allows. The header of
  `tx_modifiable_flags.rs` promises it; it takes a Signer, a changed sighash
  type, and another Signer to get wrong.
* `CommitmentsKept`, `ConstructorsHarmless`: what a signature covers of the
  inputs and outputs is still there, and a Constructor in hand can do it no
  harm. The second is what the first needs to be inductive: the Constructor's
  type was earned from a flag at `new` and outlives it.
* `ImplementsTxDraft`: to an observer of the inputs, the outputs and what is
  open, the roles are `TxDraft`. A side is open while its flag is set or a
  Constructor typed for it is at work (`no_more_inputs` leaves `input` callable).
* `TxLockMeetsInputs`: the meaning of the lock fields against the algorithm.
* `SigsBreakOnlyByTimes`: a valid signature is only invalidated by a new lock
  time or sequence. `SigningKeepsTx`: no Signer or Finalizer step changes the
  unsigned transaction.
* `SigsOnOwnInput`, `LockTimesSurvive`: the two things that could go wrong when
  diverged copies are matched by place.
* `GatheredSigsStay`, `HoldersConverge`, `CompleteFinalizes`: with only signers
  at work, copies in any order lead to the same inputs, and to a PSBT that can
  be finalized.
* `SignerTxStands`: what a Signer hashes is the transaction of its PSBT.
* `OwnSigsValid`: applied by the Signer it was made with, an entry leaves a valid
  signature for every key held, whatever came before, except that a taproot
  signature already there stays, valid or not.
* `LostOnlyMixed`: `apply` loses a PSBT only to entries of another one, as its doc
  says; inputs are never taken away, so old entries fit. `AppliedFlagsReflect`:
  even for entries of another PSBT the flags account for all that is there.
* `StrictSigsAgree`, `SessionsInfallible`: what a check established is still so
  when the signature is made and written.
* `LongestPathKept`, `FailsOnlyOnConflict`: the pairwise merge of key sources,
  over any sequence.
* `DecodesMessage`: the streaming decoder against `WellFormed` and `Meaning`,
  which look at the whole message and know nothing of stages: the PSBT returned,
  the number of bytes taken, and for what is not well formed an error, from a
  call or from `end()`. The values of two fields (`Unchecked`) may make the decoder panic
  instead, if they are malformed: the property allows it for these and no others,
  and the claim that it never does has a run of its own, `decoder_panics` below.
* `RoundTrips`: what was decoded is encoded to something that decodes to the
  same, as fuzz target `deserialize_v2` asserts, or in version 0 to `Demoted`: the
  same PSBT with its lock time resolved, without flags and redeem scripts of
  outputs. `Fits` excludes what a version has no place for.
* `ConversionKeepsTx`: in whichever version a PSBT is written, the transaction is
  the one it was; and what version 0 decodes to describes the transaction it
  carried. It sets the code of `from_psbt`, the unsigned transaction's encoder and
  decoder, `into_input` and `into_output` against `Psbt::unsigned_tx`.
* `ReadLimitInMessage`: a reader that fetches `read_limit()` bytes at a time
  always fetches some and never any from behind the PSBT; `TapKeyOriginDecoder`,
  which asks again for what it has of a half read part, is the exception, and
  the property says by how much.
* `PushReturns`: no turn of the loop leads back to itself.

Bounds. `MaxInputs`, `MaxOutputs` cap the lists, `MaxWire` the number of
different PSBTs sent (each can arrive any number of times or never). Two inputs
are enough for one that is signed and another that is added, for SINGLE with
and without its output, and for the two units of lock times to disagree; the
proofs have no such bound. Two PSBTs on the wire from two holders give copies
that diverged, crossing each other, and stale ones. `Threshold = 2` and
`MaxLockTime = 2` give one height and one time; the order among several heights
is the business of `LockTimeProofs`. The
one fallback differs from no lock time and from every height, and only inputs
without a request see it. Symmetry is over outpoints and outputs,
which the instances treat alike (the spendings are the same for both, no
configuration names one of them). Pieces of one byte stop the decoder at every
byte there is and make values of three bytes span three calls; pieces of three
hold the end of one item and the start of the next, whole small pairs, and the
end of a map with the start of another. In `sessions` two Signers are enough for
an entry that outlives its Signer, on its own PSBT or another, and two entries for
one that overwrites another or fails behind one already written. The messages have a field of every
framing (own frame, prefixed, counted), keyed and not, present, absent and twice.

### Claims the code does not keep

Six runs check a sentence of the source, a doc or a test, and find a run of the
code against it; `PROJECT.json` quotes them under `findings`.

* `updater_lock`: `Updater::id` expects a lock time that `update` can take away.
* `finalized_locks`: `interpreter_check` uses the lock time of the input, not of
  the transaction, and accepts scripts that will not run.
* `v0_encoding`: the encoder of version 0 drops the redeem scripts of outputs, which
  its decoder reads; for preimages and proprietary pairs from version 2 it writes
  what its decoder refuses.
* `combine_succeeds`: whether `combine_with` succeeds depends on the order, though
  it is said to be commutative.
* `key_conflicts`: conflicting key sources are merged, or panic.
* `decoder_panics`: tests and fuzz targets expect of a value that is too short an
  error and no panic (`NeverPanics`). `TapKeyOriginDecoder` subtracts what it read from
  the declared length without comparing, and `TapTreeDecoder::end` slices a script
  out of what may be less than the script.

## What is proved

TLAPS checks the following for every value of the constants that satisfies
`LockTimeAssumption`, `AbsentAssumption`, `PsbtAssumption`, `PsbtRolesAssumption`,
`PsbtExchangeAssumption`, `SigningAssumption`, `SizeAssumption` and
`DecoderAssumption` (ranges of the constants; an absent signature is not a
signature; an exchange starts from unsigned drafts with a lock time, a signing
session from PSBTs whose flags account for their signatures; messages consist of
bytes), whatever the number of inputs, keys, holders, copies, maps, pairs and
bytes.

* `LockTimeProofs`: `determine_lock_time` returns a lock time whenever it
  returns (the two `expect`s hold), it meets every input, it fails only if no
  lock time could, and it is the least of its unit.
* `PsbtProofs`: lemmas on each handler: it keeps the type, the agreement of
  flags and signatures (`FlagsReflectSigs`) and what signatures commit to
  (`SigsPinned`).
* `PsbtRolesProofs`: `IInv`, the conjunction of the type invariant,
  `FlagsAccurate`, `CommitmentsKept` and `ConstructorsHarmless`, is inductive;
  the four follow. The first two are not inductive without the last, because a
  Constructor acts on its type and not on the flags.
  `PsbtRoles` implements `TxDraft` (every step maps to a step or a stutter),
  `TxLockMeetsInputs` follows from the lock time theorem, `SigningKeepsTx` from
  what a Signer and a Finalizer leave of an input, and `SigsBreakOnlyByTimes` from
  `CommitmentsKept` and `ConstructorsHarmless`: what a step adds is outside of what
  a valid signature commits to, so only a time or a sequence is left to break it.
* `PsbtExchangeProofs`: combining keeps the outpoints, outputs, flags and fallback lock
  time of the first PSBT, the times and sequence numbers it has set, and a signature of
  every key that signed on either side (`CombineKeepsWhatIsSet`); it keeps the
  unsigned transaction and the validity of all signatures if the other PSBT sets no
  time or sequence number the first leaves open (`CombineKeepsTx`); and it is idempotent. `IInv` says of every PSBT held, and of every copy ever
  sent, that it is well typed, has a lock time, and has its signatures on their
  own inputs. It must include the wire, since a copy may arrive arbitrarily
  late. `TypeOK`, `SigsOnOwnInput` and `LockTimesSurvive` follow.
  `GatheredSigsStay`, `HoldersConverge` and `CompleteFinalizes` are theorems under
  `NobodyAdds`, which the run `exchange_sign` instantiates: `combine_with` does not
  merge the flags, so a holder whose copy knows of no signature may go on adding to
  it what a signature on another copy excludes, and no more is promised. Their
  invariant is `OneDraft`: there is one draft of which every PSBT held or sent is
  a copy, that is, has its transaction, on each input the signatures that reached
  it and no others, or final scripts made of these. Combining copies gives a copy,
  since an input of which one side is finalized gets its cleared fields back
  from the other along with the final scripts. `CompleteFinalizes` also wants
  `DraftsSpendable`: each input of a draft has a way to be spent whose lock time it
  asks for itself, or finalizing would have been hopeless from the start.
  `FinalScriptsAlwaysHold`: final scripts that `combine_with` takes over unchecked
  pass the interpreter check.
* `SigningSessionProofs`: all seven properties of the sessions. An entry is made
  in one step and applied in a later one, so the invariant must carry it over:
  `OwnMade` says of each entry whose Signer is still there that its input would
  still pass the check it passed, and that it is what this Signer would make of
  the PSBT now; it holds because nothing changes a PSBT while a Signer has it.
  `EntriesFit` says of all other entries that their index is in the PSBT they
  were made from, since inputs are only added. `OwnSigsValid` and
  `StrictSigsAgree` follow from `OwnMade`, `LostOnlyMixed` from `EntriesFit`.
* `KeySourcesProofs`: both properties of the merge for paths of any length, from
  three facts about suffixes (reflexive, transitive, and equal if as long).
* `CodecProofs`: about the format alone. The size of an item, computed from as much
  of it as was seen, is larger than that until all of it was seen and the same from then on
  (`Steady`), for every framing and for the unsigned transaction inside a global
  map; every pair and every map of a message stands in its bytes where the lengths
  before it say. Sums over lists are functions on the numbers, and induction on
  them is `WFMin` over the set of counterexamples.
  Then the encoders: of a PSBT that is what some message means (`MeaningGood`: its maps
  are `Sane`, with the counts in place and what each map requires), what is written in version 2
  is well formed and means the same PSBT (`TwoIsRead`), and what is written in
  version 0, if version 0 has a place for it (`Fits`), means what that version keeps
  (`ZeroIsRead`). The parts of it: a map is read back to the entries it was written from,
  in whichever order its fields are written (`MapIsReadBack`), an unsigned transaction
  to the transaction (`TxIsRead`), a number of fixed size to its bytes
  (`NumberIsWritten`); and what version 0 reads describes the transaction it
  read (`TxOfMeaning`).
* `PsbtDecoderProofs`: `WellFormedAlwaysDecodes`, that what a well-formed message
  means is what the decoder returns, in pieces of any size, taking exactly its
  bytes, without an error, a panic or an end that came too early before it was
  all there; and `ReadLimitAlwaysInMessage`. The invariant, `Decoding`, says where in the
  message the decoder is: its stage, the maps done, the entries of the current map,
  the key and length just read and the bytes held back are those of a *place*
  in the message, and the bytes held back are fewer than the item at that place
  is long. Each of the actions goes from a place to the next one, and no other is enabled
  there. The proof found the arms of `Need` overlapping in the model (a decoder at
  its separator with a map stage left over), which TLC had not shown, since it
  takes the first.
  `PanicsOnlyAtUnchecked`: whatever the bytes, no decoder panics but at the
  values of the two fields in `Unchecked`.
  `AcceptedIsWellFormed` is the converse, for any bytes at all: a decoder that
  returns a PSBT took the bytes of a well-formed message, to the end of its last map and
  no further, and returns what this message means. Its invariant, `Sound`, builds
  the message as the decoder goes: what was taken so far is the bytes of some maps
  that are complete and well-formed (`OfMaps`), the pairs of the current one with no key twice
  (`OfPairs`) and this part of the next pair (`InPart`), or the decoder has failed, or
  takes parts of a taproot origin for ever (`Stuck`), and then never returns a PSBT.

  All of these are for every message, the first one and those encoded again: what
  was decoded is what a well-formed message means, so what the encoders write of
  it is a message (`MeaningEncodes`), and the invariant starts over with it. The
  invariant of `PsbtDecoder`, `DecoderInv`, is `Sound`, `Decoding` and the types
  (`TypeCorrect`), together.

  `AlwaysRoundTrips` is `RoundTrips` for every message a caller may have: the
  invariant remembers of what was decoded first that it is what a well-formed message means
  (`Again`), `CodecProofs` says what is encoded of it means, and
  `WellFormedAlwaysDecodes` that the decoder returns that. The proof found that
  `Fits` had the condition on outputs inside of the quantifier over inputs, so that a
  PSBT without inputs was taken to fit version 0 whatever its outputs held; TLC had
  no such message.
  `AlwaysConversionKeepsTx` is `ConversionKeepsTx` while the message read is well
  formed (`expected.ok`); what is encoded in version 0 need not fit it. It needs bytes that
  are bytes: a number of fixed size is written as it was read only if none of its digits is
  above 255, which `DecoderAssumption` says of `Messages`, as `u8` does.

  `HonestAlwaysDecodes` is `DecodesMessage` as a whole, for messages whose lengths are those of
  their values (`Honest`), with `PanicsOnlyAtUnchecked` for the panics it allows. `AcceptedIsWellFormed` gives a well-formed message
  whose bytes start those of the message given; pair by pair and map by map, two such messages
  cannot differ where both have something (`StartsIsFirst`: a key is never as short
  as the end of a map, and a length settles where the next key stands), so the one given has
  the maps of the other and is well formed too (`StartsWellFormed`). What the encoders write is
  honest (`EncodeHonest`), so this holds of what is encoded again. With it
  `HonestConversionKeepsTx` needs no `expected.ok`.

Of messages that lie about a length, `DecodesMessage` says that they are never accepted. That is
checked by TLC, over the messages of the run; it does not hold of all of `MessageType`, where
the lengths in one message can be such that its bytes are also those of another,
which is well formed. `WellFormedAlwaysDecodes` and `AcceptedIsWellFormed` say what does hold:
the bytes accepted are those of some well-formed message.

Only model-checked: `DecodesMessage` and `ConversionKeepsTx` of messages with such
lengths; and `PushReturns`, a liveness property, which is out of TLAPS's reach.

## Not modelled

* Amounts: `Psbt::fee`, the fee rate limit of the Extractor. The guard of Extractor
  and Constructor on silent payment outputs (the decoder's are modelled).
* Relative lock times, preimages and descriptors in the finalizer; the final
  script sig and witness are one field.
* The `GetKey` providers: which secret key answers a request is an input.
* `PsbtV0::degraded`, which only counts, base64, and functions that read whole
  files or slices.
* Error wording, serde and re-exports have no behaviour a model would show.

## Plan

Done in this order: lock times, the PSBT as a value, the roles, the draft they
implement, combining, the exchange, key sources, the format and its decoder,
version 0 with its conversions, the values with parts, signing sessions, and
the proofs. What follows, most important first:

1. The Extractor's fee and limit with `funding_utxo`, the silent payment guards
   of the roles, relative lock times.

Runs for these will replace or share those of today, at most one run for each
question.
