--------------------------------- MODULE Psbt ---------------------------------
(***************************************************************************)
(* A PSBT as a value, the transaction it describes, and what the roles do   *)
(* to it.  Every handler is an operator from a PSBT to a PSBT, with its     *)
(* guard beside it; PsbtRoles and PsbtExchange turn them into actions.      *)
(*                                                                         *)
(* Outpoints, outputs and keys are opaque.  A signature is what it commits  *)
(* to (the parts of the transaction its sighash type selects), so it is     *)
(* valid for a transaction exactly when these parts agree.                  *)
(***************************************************************************)
EXTENDS LockTime

CONSTANTS
    OutPoints,      \* outputs that can be spent
    Outputs,        \* (amount, script) pairs that can be paid
    Keys,           \* public keys
    Sequences,      \* sequence numbers
    MaxSequence,    \* Sequence::MAX, what an absent PSBT_IN_SEQUENCE means
    NoSequence,     \* an absent PSBT_IN_SEQUENCE
    SighashTypes,   \* the sighash types in use
    SighashAll,     \* the type of an input that names none
    NoSighash,      \* an absent PSBT_IN_SIGHASH_TYPE
    Spendings,      \* outpoint |-> the ways its script can be satisfied
    NoSig,          \* no signature for a key
    NoFinal         \* an input without final scripts

Bases == {"ALL", "NONE", "SINGLE"}

ASSUME PsbtAssumption ==
    /\ MaxSequence \in Sequences
    /\ NoSequence \notin Sequences
    /\ SighashTypes \subseteq [base : Bases, acp : BOOLEAN]
    /\ SighashAll = [base |-> "ALL", acp |-> FALSE]
    /\ SighashAll \in SighashTypes
    /\ NoSighash \notin SighashTypes
    /\ Spendings \in [OutPoints -> SUBSET [keys : SUBSET Keys, after : LockTimes]]

-----------------------------------------------------------------------------
(* The data.                                                                *)

ModifiableFlags == {"inputs", "outputs", "single"}

\* What a signature is over: see Digest.
Sigs ==
    [type : SighashTypes, prevs : Seq(OutPoints), seqs : Seq(Sequences),
     outs : Seq(Outputs), lock : LockTimes]

\* Both signature maps of an input: one signature at most for each key.
SigMaps == [Keys -> Sigs \cup {NoSig}]
NoSigs  == [k \in Keys |-> NoSig]

\* The final scripts of an input: the satisfaction taken and its signatures.
Finals == [spending : [keys : SUBSET Keys, after : LockTimes], sigs : SigMaps]

\* Absent is none of the values that can be present.
ASSUME AbsentAssumption == NoSig \notin Sigs /\ NoFinal \notin Finals

Inputs ==
    [prev : OutPoints, minTime : MinTimes, minHeight : MinHeights,
     seq : Sequences \cup {NoSequence}, sighash : SighashTypes \cup {NoSighash},
     named : SUBSET Keys, sigs : SigMaps, final : Finals \cup {NoFinal}]

Psbts ==
    [flags : SUBSET ModifiableFlags, fallback : LockTimes,
     ins : Seq(Inputs), outs : Seq(Outputs)]

EmptyPsbt(flags, fallback) ==
    [flags |-> flags, fallback |-> fallback, ins |-> <<>>, outs |-> <<>>]

\* The keys that can satisfy the script of an outpoint.
KeysOf(prev) == UNION { s.keys : s \in Spendings[prev] }

\* A slip: the two lock times in each other's place.
NewInputSwapped(prev, minTime, minHeight) ==
    [prev |-> prev, minTime |-> minHeight, minHeight |-> minTime,
     seq |-> NoSequence, sighash |-> NoSighash, named |-> KeysOf(prev),
     sigs |-> NoSigs, final |-> NoFinal]

\* An input as Constructor::input gets it: with its scripts and the derivations
\* of their keys (bip32_derivations), unsigned.
NewInput(prev, minTime, minHeight) ==
    [prev |-> prev, minTime |-> minTime, minHeight |-> minHeight,
     seq |-> NoSequence, sighash |-> NoSighash, named |-> KeysOf(prev),
     sigs |-> NoSigs, final |-> NoFinal]

IsFinalized(in) == in.final # NoFinal

\* The signatures an input carries, in its maps or in its final scripts.
SigsOf(in) ==
    { in.sigs[k] : k \in {j \in Keys : in.sigs[j] # NoSig} }
      \cup IF IsFinalized(in)
           THEN { in.final.sigs[k] : k \in {j \in Keys : in.final.sigs[j] # NoSig} }
           ELSE {}

-----------------------------------------------------------------------------
(* The unsigned transaction and what a signature commits to.                *)

Determinable(p) == LockTimeDeterminable(p.ins)
TxLock(p)       == DetermineLockTime(p.ins, p.fallback)

TxSequence(in) == IF in.seq = NoSequence THEN MaxSequence ELSE in.seq
TxPrevs(p)     == [i \in DOMAIN p.ins |-> p.ins[i].prev]
TxSequences(p) == [i \in DOMAIN p.ins |-> TxSequence(p.ins[i])]

UnsignedTx(p) ==
    [prevs |-> TxPrevs(p), seqs |-> TxSequences(p), outs |-> p.outs, lock |-> TxLock(p)]

CommittedPrevs(p, i, type) ==
    IF type.acp THEN <<p.ins[i].prev>> ELSE TxPrevs(p)

CommittedSequences(p, i, type) ==
    IF type.acp \/ type.base # "ALL" THEN <<TxSequence(p.ins[i])>> ELSE TxSequences(p)

CommittedOutputs(p, i, type) ==
    CASE type.base = "ALL"    -> p.outs
      [] type.base = "SINGLE" -> <<p.outs[i]>>
      [] type.base = "NONE"   -> <<>>

\* The sighash of input i: the signature made over p with this type.
Digest(p, i, type) ==
    [type |-> type, prevs |-> CommittedPrevs(p, i, type),
     seqs |-> CommittedSequences(p, i, type), outs |-> CommittedOutputs(p, i, type),
     lock |-> TxLock(p)]

\* A SINGLE signature needs the output of its index.
HasCommittedOutput(p, i, type) == type.base = "SINGLE" => i \in DOMAIN p.outs

SigValid(sig, p, i) == HasCommittedOutput(p, i, sig.type) /\ sig = Digest(p, i, sig.type)

-----------------------------------------------------------------------------
(* Constructor and Updater.                                                 *)

AddInput(p, in)   == [p EXCEPT !.ins = Append(@, in)]
AddOutput(p, out) == [p EXCEPT !.outs = Append(@, out)]

\* The Updater sets PSBT_IN_SEQUENCE, and through its view of the inputs the
\* sighash type and the lock times an input asks for.
UpdateInput(p, i, seq, sighash, minTime, minHeight) ==
    [p EXCEPT !.ins[i] = [@ EXCEPT !.seq = seq, !.sighash = sighash,
                                   !.minTime = minTime, !.minHeight = minHeight]]

-----------------------------------------------------------------------------
(* Signer.                                                                  *)

SighashOf(in) == IF in.sighash = NoSighash THEN SighashAll ELSE in.sighash

\* check_data.  `verify`, the strict way in, also wants the signatures present
\* to have this sighash type; `assume_checked` does not, and signs more.
Signable(p, i) == HasCommittedOutput(p, i, SighashOf(p.ins[i]))

FlagsCleared(type) ==
    (IF type.acp THEN {} ELSE {"inputs"})
      \cup (IF type.base = "NONE" THEN {} ELSE {"outputs"})

\* A slip: SIGHASH_SINGLE taken for a type that leaves the outputs open.
ApplySighashNotAll(flags, types) ==
    (flags \ UNION { (IF t.acp THEN {} ELSE {"inputs"})
                       \cup (IF t.base = "ALL" THEN {"outputs"} ELSE {}) : t \in types })
      \cup (IF \E t \in types : t.base = "SINGLE" THEN {"single"} ELSE {})

\* A slip: the flags are set from a single type of those signed with.
ApplySighashOnce(flags, types) ==
    IF types = {} THEN flags
    ELSE LET t == CHOOSE u \in types : TRUE
         IN (flags \ FlagsCleared(t)) \cup (IF t.base = "SINGLE" THEN {"single"} ELSE {})

\* apply_sighash for each of the types signed with, in whatever order.
ApplySighash(flags, types) ==
    (flags \ UNION { FlagsCleared(t) : t \in types })
      \cup (IF \E t \in types : t.base = "SINGLE" THEN {"single"} ELSE {})

\* Signatures with every key held of those the input names.
SignInput(p, i, held) ==
    [p.ins[i] EXCEPT !.sigs =
        [k \in Keys |-> IF k \in held \cap p.ins[i].named
                        THEN Digest(p, i, SighashOf(p.ins[i]))
                        ELSE p.ins[i].sigs[k]]]

\* A session over the inputs in `chosen` with the keys `held`, and the apply of
\* what it produced.  An input none of the keys belongs to is skipped.
SignInputs(p, chosen, held) ==
    LET signed == { i \in chosen : held \cap p.ins[i].named # {} }
    IN [p EXCEPT !.ins = [i \in DOMAIN p.ins |->
                             IF i \in signed THEN SignInput(p, i, held) ELSE p.ins[i]],
                 !.flags = ApplySighash(@, { SighashOf(p.ins[i]) : i \in signed })]

-----------------------------------------------------------------------------
(* Finalizer and Extractor.                                                 *)

\* The satisfier accepts `after` when the input itself asks for as much.
CheckAfter(in, want) ==
    want # None =>
      IF IsHeight(want) THEN in.minHeight # None /\ want <= in.minHeight
                        ELSE in.minTime # None /\ want <= in.minTime

Satisfiable(in, spending) ==
    /\ \A k \in spending.keys : in.sigs[k] # NoSig
    /\ CheckAfter(in, spending.after)

\* Input::finalize keeps what the unsigned transaction is rebuilt from.
FinalizeInput(in, spending) ==
    [in EXCEPT !.final = [spending |-> spending,
                          sigs |-> [k \in Keys |-> IF k \in spending.keys THEN in.sigs[k]
                                                                         ELSE NoSig]],
               !.named = {}, !.sigs = NoSigs, !.sighash = NoSighash]

\* check_partial_sigs_sighash_type: the signatures present have one type.
SighashesAgree(in) ==
    \A k \in Keys : in.sigs[k] # NoSig => in.sigs[k].type = SighashOf(in)

\* Finalizer::finalize with the spending chosen for each input: all or nothing,
\* and inputs already finalized pass through.
Finalizable(p, choice) ==
    \A i \in DOMAIN p.ins :
       \/ IsFinalized(p.ins[i])
       \/ choice[i] \in Spendings[p.ins[i].prev] /\ Satisfiable(p.ins[i], choice[i])

FinalizeInputs(p, choice) ==
    [p EXCEPT !.ins = [i \in DOMAIN p.ins |->
        IF IsFinalized(p.ins[i]) THEN p.ins[i] ELSE FinalizeInput(p.ins[i], choice[i])]]

FinalSigsValid(p, i) ==
    LET final == p.ins[i].final
    IN \A k \in final.spending.keys : final.sigs[k] # NoSig /\ SigValid(final.sigs[k], p, i)

\* interpreter_check: the lock time given to an input's script is its own.
InterpreterCheck(p) ==
    \A i \in DOMAIN p.ins :
       /\ FinalSigsValid(p, i)
       /\ AfterHolds(p.ins[i].final.spending.after, InputLockTime(p.ins[i]))

AllFinalized(p) == \A i \in DOMAIN p.ins : IsFinalized(p.ins[i])

-----------------------------------------------------------------------------
(* What must hold of a PSBT whoever handled it.                             *)

(***************************************************************************)
(* The modifiable flags reflect the signatures present: inputs stay open    *)
(* only while every signature is ANYONECANPAY, outputs only while every one *)
(* is NONE, and a SINGLE signature is announced.  This is what the header   *)
(* of tx_modifiable_flags.rs promises to the roles that come after a        *)
(* Signer, over any number of Signers, Constructors and Finalizers.         *)
(***************************************************************************)
FlagsReflectSigs(p) ==
    \A i \in DOMAIN p.ins : \A sig \in SigsOf(p.ins[i]) :
       /\ "inputs" \in p.flags => sig.type.acp
       /\ "outputs" \in p.flags => sig.type.base = "NONE"
       /\ sig.type.base = "SINGLE" => "single" \in p.flags

(***************************************************************************)
(* No role takes away what a signature covers: the outpoints and outputs it *)
(* committed to are still those of the PSBT, whatever Constructors were     *)
(* allowed to add since (handlers Constructor::input, Constructor::output). *)
(***************************************************************************)
SigsPinned(p) ==
    \A i \in DOMAIN p.ins : \A sig \in SigsOf(p.ins[i]) :
       /\ HasCommittedOutput(p, i, sig.type)
       /\ sig.prevs = CommittedPrevs(p, i, sig.type)
       /\ sig.outs = CommittedOutputs(p, i, sig.type)

=============================================================================
