---------------------------- MODULE SigningSession ----------------------------
(***************************************************************************)
(* Signers at work.  Signer::new takes a PSBT and computes its transaction  *)
(* once; sessions lend both out and make InputSigs of them, which the       *)
(* caller keeps; Signer::apply takes any InputSigs, writes them into the    *)
(* PSBT and gives it back.  An InputSigs names its input by index alone, so *)
(* the caller may hand it to the Signer of another PSBT, or to a later one  *)
(* of the same PSBT.  Between Signers its PSBTs are updated.                *)
(*                                                                         *)
(* A key is a place for a signature here: a public key, the key path of a   *)
(* taproot output, or a key in one of its leaves.  The scripts an input     *)
(* comes with are those of the output it spends.                           *)
(***************************************************************************)
EXTENDS Psbt, FiniteSets

CONSTANTS
    OutputType,     \* of each outpoint: "Bare", "Wpkh" or "Tr"
    Start,          \* the PSBTs a caller starts with, by name
    StartUtxos,     \* how the outputs their inputs spend are known
    Updates,        \* what an Updater makes of an input
    Holdings,       \* the sets of keys a session is given
    NoTx,           \* no transaction is cached
    MaxInputs,      \* bound on the number of inputs
    MaxEdits,       \* bound on the number of updates and inputs added
    MaxSigners,     \* bound on the number of Signers made
    MaxEntries      \* bound on the number of InputSigs made

Names == DOMAIN Start

\* Not at all, by witness_utxo alone, or by non_witness_utxo.
UtxoForms == {"none", "witness", "full"}

ASSUME SigningAssumption ==
    /\ OutputType \in [OutPoints -> {"Bare", "Wpkh", "Tr"}]
    /\ Start \in [Names -> Psbts]
    /\ StartUtxos \in [Names -> Seq(UtxoForms)]
    /\ \A n \in Names : Len(StartUtxos[n]) = Len(Start[n].ins)
    /\ Updates \subseteq [seq : Sequences \cup {NoSequence},
                          sighash : SighashTypes \cup {NoSighash}, utxo : UtxoForms]
    /\ Holdings \subseteq SUBSET Keys
    /\ \A n \in Names : FlagsReflectSigs(Start[n])
    /\ MaxEdits \in Nat /\ MaxSigners \in Nat

VARIABLES
    psbt,       \* the PSBT of each name
    utxos,      \* the forms in which its inputs know what they spend
    edits,      \* how many updates there were, and inputs added
    signer,     \* the number of the Signer that holds it, or NoSigner
    cache,      \* the transaction this Signer computed
    made,       \* how many Signers were made
    entries,    \* the InputSigs the caller has
    lost,       \* the PSBTs that went with a Signer whose apply failed
    panicked,   \* a sighash could not be computed
    mixed       \* the PSBTs whose Signer was given InputSigs of another one:
                \* no action reads it

vars == <<psbt, utxos, edits, signer, cache, made, entries, lost, panicked, mixed>>

NoSigner == 0

Init ==
    /\ psbt = Start
    /\ utxos = StartUtxos
    /\ edits = 0
    /\ signer = [n \in Names |-> NoSigner]
    /\ cache = [n \in Names |-> NoTx]
    /\ made = 0
    /\ entries = {}
    /\ lost = {}
    /\ panicked = FALSE
    /\ mixed = {}

-----------------------------------------------------------------------------
(* The caller, while it has the PSBT                                        *)

WithCaller(n) == n \notin lost /\ signer[n] = NoSigner

Update(n, i, u) ==
    /\ WithCaller(n)
    /\ edits < MaxEdits
    /\ edits' = edits + 1
    /\ LET in == psbt[n].ins[i]
       IN  psbt' = [psbt EXCEPT ![n] =
                       UpdateInput(@, i, u.seq, u.sighash, in.minTime, in.minHeight)]
    /\ utxos' = [utxos EXCEPT ![n][i] = u.utxo]
    /\ UNCHANGED <<signer, cache, made, entries, lost, panicked, mixed>>

\* A Constructor, where the flags still allow it.
Construct(n, prev) ==
    /\ WithCaller(n)
    /\ "inputs" \in psbt[n].flags
    /\ Len(psbt[n].ins) < MaxInputs
    /\ edits < MaxEdits
    /\ edits' = edits + 1
    /\ psbt' = [psbt EXCEPT ![n] = AddInput(@, NewInput(prev, None, None))]
    /\ utxos' = [utxos EXCEPT ![n] = Append(@, "none")]
    /\ UNCHANGED <<signer, cache, made, entries, lost, panicked, mixed>>

\* A slip: the lock time of the transaction is left at the fallback.
UnsignedTxAtFallback(p) == [UnsignedTx(p) EXCEPT !.lock = p.fallback]

CachedTx(p) == UnsignedTx(p)

SignerNew(n) ==
    /\ WithCaller(n)
    /\ Determinable(psbt[n])
    /\ made < MaxSigners
    /\ made' = made + 1
    /\ signer' = [signer EXCEPT ![n] = made']
    /\ cache' = [cache EXCEPT ![n] = CachedTx(psbt[n])]
    /\ UNCHANGED <<psbt, utxos, edits, entries, lost, panicked, mixed>>

-----------------------------------------------------------------------------
(* Sessions                                                                 *)

TypeOf(n, i) == OutputType[psbt[n].ins[i].prev]

\* check_data, which is all that assume_checked asks for.
CheckData(n, i) ==
    /\ utxos[n][i] # "none"
    /\ TypeOf(n, i) = "Bare" => utxos[n][i] = "full"
    /\ HasCommittedOutput(psbt[n], i, SighashOf(psbt[n].ins[i]))

\* A slip: signatures of another type are let pass.
VerifyUtxo(n, i) ==
    CheckData(n, i) /\ (TypeOf(n, i) # "Tr" => utxos[n][i] = "full")

\* What the strict check asks for besides.
Verify(n, i) ==
    /\ CheckData(n, i)
    /\ TypeOf(n, i) # "Tr" => utxos[n][i] = "full"
    /\ SighashesAgree(psbt[n].ins[i])

Checked(n, i, strict) == IF strict THEN Verify(n, i) ELSE CheckData(n, i)

NeedsAllPrevouts(n, i) ==
    TypeOf(n, i) = "Tr" /\ ~SighashOf(psbt[n].ins[i]).acp

\* A slip: AllPrevoutsRequired is never returned.
StandaloneAny(n, i, strict) == Checked(n, i, strict)

\* signable_input and assume_checked_input.
Standalone(n, i, strict) == Checked(n, i, strict) /\ ~NeedsAllPrevouts(n, i)

\* The places that are signed: taproot ones only while they are empty.
Places(n, i, held) ==
    LET in == psbt[n].ins[i]
    IN  {k \in held \cap in.named : TypeOf(n, i) = "Tr" => in.sigs[k] = NoSig}

\* What the cache hashes for input i.  Unlike the other sighashes, those of taproot
\* are over every sequence number unless they are ANYONECANPAY.
TxDigest(tx, i, type, spent) ==
    [type |-> type,
     prevs |-> IF type.acp THEN <<tx.prevs[i]>> ELSE tx.prevs,
     seqs |-> IF type.acp \/ (type.base # "ALL" /\ spent # "Tr") THEN <<tx.seqs[i]>> ELSE tx.seqs,
     outs |-> CASE type.base = "ALL"    -> tx.outs
                [] type.base = "SINGLE" -> <<tx.outs[i]>>
                [] type.base = "NONE"   -> <<>>,
     lock |-> tx.lock]

\* The errors of a taproot sighash: fewer prevouts than inputs, no output to go
\* with the input.  Nothing is hashed where there is nothing to sign.
SighashFails(n, i, held, prevouts) ==
    LET type == SighashOf(psbt[n].ins[i])
    IN  /\ TypeOf(n, i) = "Tr"
        /\ Places(n, i, held) # {}
        /\ \/ ~type.acp /\ prevouts # Len(cache[n].prevs)
           \/ type.base = "SINGLE" /\ i \notin DOMAIN cache[n].outs

\* A slip: the index of the code, which counts from 0, is kept as it is.
InputSigsFromZero(n, i, held, strict) ==
    [psbt |-> n, signer |-> signer[n], index |-> i - 1, held |-> held, strict |-> strict,
     sigs |-> [k \in Keys |->
        IF k \in Places(n, i, held)
        THEN TxDigest(cache[n], i, SighashOf(psbt[n].ins[i]), TypeOf(n, i))
        ELSE NoSig]]

InputSigs(n, i, held, strict) ==
    [psbt |-> n, signer |-> signer[n], index |-> i, held |-> held, strict |-> strict,
     sigs |-> [k \in Keys |->
        IF k \in Places(n, i, held)
        THEN TxDigest(cache[n], i, SighashOf(psbt[n].ins[i]), TypeOf(n, i))
        ELSE NoSig]]

\* Signing the inputs in `chosen`, with that many prevouts at hand.
Produce(n, chosen, held, strict, prevouts) ==
    /\ \/ /\ \E i \in chosen : SighashFails(n, i, held, prevouts)
          /\ panicked' = TRUE
          /\ UNCHANGED entries
       \/ /\ \A i \in chosen : ~SighashFails(n, i, held, prevouts)
          /\ entries' = entries \cup {InputSigs(n, i, held, strict) : i \in chosen}
          /\ Cardinality(entries') <= MaxEntries
          /\ UNCHANGED panicked
    /\ UNCHANGED <<psbt, utxos, edits, signer, cache, made, lost, mixed>>

\* get_input_sigs, get_some, and sign_input, for one input.
GetInputSigs(n, i, held, strict) ==
    /\ signer[n] # NoSigner
    /\ Standalone(n, i, strict)
    /\ Produce(n, {i}, held, strict, 0)

\* get_all, sign_all: every input must pass its checks.
GetAll(n, held, strict) ==
    /\ signer[n] # NoSigner
    /\ \A i \in DOMAIN psbt[n].ins : Checked(n, i, strict)
    /\ Produce(n, DOMAIN psbt[n].ins, held, strict, Len(psbt[n].ins))

-----------------------------------------------------------------------------
(* Signer::apply                                                            *)

SigsIn(entry) == {entry.sigs[k] : k \in {j \in Keys : entry.sigs[j] # NoSig}}

\* A slip: the last input is taken for out of bounds.
InBoundsBelow(p, entry) == entry.index < Len(p.ins)

InBounds(p, entry) == entry.index \in DOMAIN p.ins

\* The entries that have a signature for the place.
Writers(es, i, k) == {j \in DOMAIN es : es[j].index = i /\ es[j].sigs[k] # NoSig}

Written(p, es) ==
    [i \in DOMAIN p.ins |-> [p.ins[i] EXCEPT !.sigs =
        [k \in Keys |-> IF Writers(es, i, k) = {} THEN p.ins[i].sigs[k]
                        ELSE es[Max(Writers(es, i, k))].sigs[k]]]]

\* A slip: the flags follow what the inputs ask for now.
WriteDeclared(p, es) ==
    [p EXCEPT !.ins = Written(p, es),
              !.flags = ApplySighash(@, {SighashOf(p.ins[es[j].index]) :
                                            j \in {l \in DOMAIN es : SigsIn(es[l]) # {}}})]

\* One entry after the other, the flags following the type of its first signature:
\* those of an entry have one type.  An entry without signatures is skipped.
Write(p, es) ==
    [p EXCEPT !.ins = Written(p, es),
              !.flags = ApplySighash(@, UNION {{sig.type : sig \in SigsIn(es[j])} :
                                                  j \in DOMAIN es})]

\* The end of a Signer.
Drop(n) ==
    /\ signer' = [signer EXCEPT ![n] = NoSigner]
    /\ cache' = [cache EXCEPT ![n] = NoTx]

\* The first entry out of bounds is an error, and nobody has the PSBT any more.
Apply(n, es) ==
    /\ signer[n] # NoSigner
    /\ IF \A j \in DOMAIN es : InBounds(psbt[n], es[j])
       THEN psbt' = [psbt EXCEPT ![n] = Write(@, es)] /\ UNCHANGED lost
       ELSE lost' = lost \cup {n} /\ UNCHANGED psbt
    /\ Drop(n)
    /\ mixed' = IF \E j \in DOMAIN es : es[j].psbt # n THEN mixed \cup {n} ELSE mixed
    /\ UNCHANGED <<utxos, edits, made, entries, panicked>>

\* For signatures that are kept elsewhere.
EcdsaClearTxModifiable(n, type) ==
    /\ signer[n] # NoSigner
    /\ psbt' = [psbt EXCEPT ![n].flags = ApplySighash(@, {type})]
    /\ UNCHANGED <<utxos, edits, signer, cache, made, entries, lost, panicked, mixed>>

\* Signer::psbt: nothing is applied.
SignerPsbt(n) ==
    /\ signer[n] # NoSigner
    /\ Drop(n)
    /\ UNCHANGED <<psbt, utxos, edits, made, entries, lost, panicked, mixed>>

\* What the caller may pass to apply at once.
Batches == {<<e>> : e \in entries} \cup {<<e, f>> : e, f \in entries}

Next ==
    \E n \in Names :
        \/ \E i \in DOMAIN psbt[n].ins, u \in Updates : Update(n, i, u)
        \/ \E prev \in OutPoints : Construct(n, prev)
        \/ SignerNew(n)
        \/ \E i \in DOMAIN psbt[n].ins, held \in Holdings, strict \in BOOLEAN :
              GetInputSigs(n, i, held, strict)
        \/ \E held \in Holdings, strict \in BOOLEAN : GetAll(n, held, strict)
        \/ \E es \in Batches : Apply(n, es)
        \/ \E type \in SighashTypes : EcdsaClearTxModifiable(n, type)
        \/ SignerPsbt(n)

Spec == Init /\ [][Next]_vars

-----------------------------------------------------------------------------
(* Properties                                                               *)

Entries ==
    [psbt : Names, signer : 1 .. made, index : Nat \ {0}, held : SUBSET Keys,
     strict : BOOLEAN, sigs : SigMaps]

Txs == [prevs : Seq(OutPoints), seqs : Seq(Sequences), outs : Seq(Outputs), lock : LockTimes]

\* Type invariant; a Signer holds one PSBT.
TypeOK ==
    /\ psbt \in [Names -> Psbts]
    /\ utxos \in [Names -> Seq(UtxoForms)]
    /\ \A n \in Names : Len(utxos[n]) = Len(psbt[n].ins)
    /\ signer \in [Names -> 0 .. made] /\ made \in 0 .. MaxSigners /\ edits \in 0 .. MaxEdits
    /\ cache \in [Names -> Txs \cup {NoTx}]
    /\ \A n, m \in Names : signer[n] = signer[m] /\ signer[n] # NoSigner => n = m
    /\ entries \subseteq Entries
    /\ lost \subseteq Names /\ mixed \subseteq Names
    /\ panicked \in BOOLEAN

\* The transaction cached is that of the PSBT for as long as its Signer lives
\* ("no &mut self method mutates the tx-defining fields").
SignerTxStands == \A n \in Names : signer[n] # NoSigner => cache[n] = UnsignedTx(psbt[n])

\* The Signer an entry was made with still holds its PSBT.
Own(entry) == signer[entry.psbt] = entry.signer

TxSigValid(sig, p, i) ==
    /\ HasCommittedOutput(p, i, sig.type)
    /\ sig = TxDigest(UnsignedTx(p), i, sig.type, OutputType[p.ins[i].prev])

\* Applied by the Signer it was made with, an entry leaves a valid signature for
\* every key held that its input names, whatever was done with Signers, updates and
\* other entries before: signatures gone stale are replaced, but for those of
\* taproot, which are never made twice (the sessions of roles/signer.rs, apply).
OwnSigsValid ==
    \A e \in {f \in entries : Own(f)} :
        LET before == psbt[e.psbt].ins[e.index]
            after == Write(psbt[e.psbt], <<e>>)
        IN  \A k \in e.held \cap before.named :
                \/ TxSigValid(after.ins[e.index].sigs[k], after, e.index)
                \/ /\ OutputType[before.prev] = "Tr"
                   /\ before.sigs[k] # NoSig
                   /\ after.ins[e.index].sigs[k] = before.sigs[k]

\* apply fails, and takes the PSBT with it, only for entries "created for a
\* different Psbt": those of an earlier Signer of the same one always fit.
LostOnlyMixed == lost \subseteq mixed

\* Whatever entries a Signer is given, the flags it leaves account for all the
\* signatures that are in the PSBT then (Signer::apply, apply_sighash).
AppliedFlagsReflect == \A n \in Names \ lost : FlagsReflectSigs(psbt[n])

\* An input that passed the strict check and is signed by the Signer that checked it
\* has signatures of the one type the Finalizer asks for, although each signature
\* is made in one call and written in a later one (SignableInput::verify against
\* check_partial_sigs_sighash_type).
StrictSigsAgree ==
    \A e \in {f \in entries : Own(f) /\ f.strict} :
        SighashesAgree(Write(psbt[e.psbt], <<e>>).ins[e.index])

\* "This method is infallible": an input that was checked can be hashed, alone or
\* with all the others (get_input_sigs, get_some, get_all; taproot_sighash).
SessionsInfallible == ~panicked
=============================================================================
