------------------------------ MODULE PsbtProofs ------------------------------
(***************************************************************************)
(* What the handlers of Psbt return: their types, and what they do to the   *)
(* signatures an input carries.                                             *)
(***************************************************************************)
EXTENDS Psbt, LockTimeProofs

LEMMA SeqOfFunction ==
    ASSUME NEW S, NEW n \in Nat, NEW f \in [1 .. n -> S]
    PROVE  f \in Seq(S) /\ Len(f) = n /\ DOMAIN f = 1 .. n
OBVIOUS

LEMMA InputsOf ==
    ASSUME NEW p \in Psbts
    PROVE  /\ p.ins \in Seq(Inputs) /\ p.outs \in Seq(Outputs)
           /\ p.fallback \in LockTimes /\ p.flags \in SUBSET ModifiableFlags
           /\ DOMAIN p.ins = 1 .. Len(p.ins) /\ Len(p.ins) \in Nat
           /\ \A i \in DOMAIN p.ins : p.ins[i] \in Inputs
<1>1. p.ins \in Seq(Inputs) /\ p.outs \in Seq(Outputs)
  BY DEF Psbts
<1>. QED  BY <1>1 DEF Psbts

LEMMA LocksOf ==
    ASSUME NEW p \in Psbts
    PROVE  LockFieldsOk(p.ins) /\ TxLock(p) \in LockTimes
<1>1. LockFieldsOk(p.ins)
  <2>1. \A i \in DOMAIN p.ins : p.ins[i] \in Inputs
    BY InputsOf
  <2>. QED  BY <2>1 DEF LockFieldsOk, Inputs
<1>2. p.fallback \in LockTimes
  BY InputsOf
<1>. QED  BY <1>1, <1>2, LockTimeDefined DEF TxLock

\* A Digest is a signature.
LEMMA DigestType ==
    ASSUME NEW p \in Psbts, NEW i \in DOMAIN p.ins, NEW type \in SighashTypes,
           HasCommittedOutput(p, i, type)
    PROVE  /\ Digest(p, i, type) \in Sigs
           /\ Digest(p, i, type).type = type
           /\ Digest(p, i, type).prevs = CommittedPrevs(p, i, type)
           /\ Digest(p, i, type).outs = CommittedOutputs(p, i, type)
<1>1. \A j \in DOMAIN p.ins : p.ins[j].prev \in OutPoints /\ TxSequence(p.ins[j]) \in Sequences
  <2>1. \A j \in DOMAIN p.ins : p.ins[j] \in Inputs
    BY InputsOf
  <2>. QED  BY <2>1, PsbtAssumption DEF Inputs, TxSequence
<1>2. TxPrevs(p) \in Seq(OutPoints) /\ TxSequences(p) \in Seq(Sequences)
  <2>1. /\ TxPrevs(p) \in [1 .. Len(p.ins) -> OutPoints]
        /\ TxSequences(p) \in [1 .. Len(p.ins) -> Sequences]
    BY <1>1, InputsOf DEF TxPrevs, TxSequences
  <2>. QED  BY <2>1, SeqOfFunction, InputsOf
<1>3. CommittedPrevs(p, i, type) \in Seq(OutPoints)
  BY <1>1, <1>2 DEF CommittedPrevs
<1>4. CommittedSequences(p, i, type) \in Seq(Sequences)
  BY <1>1, <1>2 DEF CommittedSequences
<1>5. CommittedOutputs(p, i, type) \in Seq(Outputs)
  <2>1. type.base \in Bases
    BY PsbtAssumption
  <2>2. p.outs \in Seq(Outputs)
    BY InputsOf
  <2>3. CASE type.base = "SINGLE"
    <3>1. p.outs[i] \in Outputs
      BY <2>2, <2>3 DEF HasCommittedOutput
    <3>. QED  BY <3>1, <2>3 DEF CommittedOutputs
  <2>4. CASE type.base = "ALL"
    BY <2>2, <2>4 DEF CommittedOutputs
  <2>5. CASE type.base = "NONE"
    BY <2>5 DEF CommittedOutputs
  <2>. QED  BY <2>1, <2>3, <2>4, <2>5 DEF Bases
<1>6. TxLock(p) \in LockTimes
  BY LocksOf
<1>. QED  BY <1>3, <1>4, <1>5, <1>6 DEF Digest, Sigs

\* An input that names no sighash type is signed with SighashAll.
LEMMA SighashOfType ==
    ASSUME NEW in \in Inputs
    PROVE  SighashOf(in) \in SighashTypes
BY PsbtAssumption DEF SighashOf, Inputs

-----------------------------------------------------------------------------
(* Types of what the handlers return.                                       *)

LEMMA EmptyPsbtType ==
    ASSUME NEW flags \in SUBSET ModifiableFlags, NEW fallback \in LockTimes
    PROVE  EmptyPsbt(flags, fallback) \in Psbts
BY DEF EmptyPsbt, Psbts

LEMMA SetFlagsType ==
    ASSUME NEW p \in Psbts, NEW flags \in SUBSET ModifiableFlags
    PROVE  [p EXCEPT !.flags = flags] \in Psbts
BY DEF Psbts

LEMMA AddInputType ==
    ASSUME NEW p \in Psbts, NEW prev \in OutPoints, NEW minTime \in MinTimes,
           NEW minHeight \in MinHeights
    PROVE  /\ NewInput(prev, minTime, minHeight) \in Inputs
           /\ AddInput(p, NewInput(prev, minTime, minHeight)) \in Psbts
<1>1. NewInput(prev, minTime, minHeight) \in Inputs
  <2>1. KeysOf(prev) \in SUBSET Keys
    BY PsbtAssumption DEF KeysOf
  <2>. QED  BY <2>1 DEF NewInput, Inputs, NoSigs, SigMaps
<1>2. Append(p.ins, NewInput(prev, minTime, minHeight)) \in Seq(Inputs)
  BY <1>1, InputsOf
<1>. QED  BY <1>1, <1>2 DEF AddInput, Psbts

LEMMA AddOutputType ==
    ASSUME NEW p \in Psbts, NEW out \in Outputs
    PROVE  AddOutput(p, out) \in Psbts
<1>1. Append(p.outs, out) \in Seq(Outputs)
  BY InputsOf
<1>. QED  BY <1>1 DEF AddOutput, Psbts

LEMMA UpdateInputType ==
    ASSUME NEW p \in Psbts, NEW i \in DOMAIN p.ins, NEW seq \in Sequences \cup {NoSequence},
           NEW sighash \in SighashTypes \cup {NoSighash}, NEW minTime \in MinTimes,
           NEW minHeight \in MinHeights
    PROVE  UpdateInput(p, i, seq, sighash, minTime, minHeight) \in Psbts
<1>. DEFINE in == [p.ins[i] EXCEPT !.seq = seq, !.sighash = sighash,
                                   !.minTime = minTime, !.minHeight = minHeight]
            ins == [p.ins EXCEPT ![i] = in]
<1>1. in \in Inputs
  <2>1. p.ins[i] \in Inputs
    BY InputsOf
  <2>. QED  BY <2>1 DEF Inputs
<1>2. ins \in Seq(Inputs)
  <2>. HIDE DEF in
  <2>. QED  BY <1>1, InputsOf
<1>3. UpdateInput(p, i, seq, sighash, minTime, minHeight) = [p EXCEPT !.ins = ins]
  BY InputsOf DEF UpdateInput, Psbts
<1>. HIDE DEF ins
<1>. QED  BY <1>2, <1>3 DEF Psbts

LEMMA SignInputType ==
    ASSUME NEW p \in Psbts, NEW i \in DOMAIN p.ins, NEW held \in SUBSET Keys,
           Signable(p, i)
    PROVE  SignInput(p, i, held) \in Inputs
<1>. DEFINE in == p.ins[i]
            sigs == [k \in Keys |-> IF k \in held \cap in.named
                                    THEN Digest(p, i, SighashOf(in)) ELSE in.sigs[k]]
<1>1. in \in Inputs
  BY InputsOf
<1>2. Digest(p, i, SighashOf(in)) \in Sigs
  BY <1>1, SighashOfType, DigestType DEF Signable
<1>3. in.sigs \in [Keys -> Sigs \cup {NoSig}]
  BY <1>1 DEF Inputs, SigMaps
<1>4. sigs \in SigMaps
  BY <1>2, <1>3 DEF SigMaps
<1>5. SignInput(p, i, held) = [in EXCEPT !.sigs = sigs]
  BY DEF SignInput
<1>. HIDE DEF sigs, in
<1>. QED  BY <1>1, <1>4, <1>5 DEF Inputs

\* Signing adds at most the digest of the input to the signatures it carries.
LEMMA SignInputSigs ==
    ASSUME NEW p \in Psbts, NEW i \in DOMAIN p.ins, NEW held
    PROVE  /\ SignInput(p, i, held).prev = p.ins[i].prev
           /\ SigsOf(SignInput(p, i, held))
                \subseteq SigsOf(p.ins[i]) \cup {Digest(p, i, SighashOf(p.ins[i]))}
<1>1. p.ins[i] \in Inputs
  BY InputsOf
<1>. QED  BY <1>1 DEF Inputs, SignInput, SigsOf, IsFinalized

\* What Input::finalize sets are final scripts.
LEMMA FinalizeInputFinal ==
    ASSUME NEW in \in Inputs, NEW spending \in Spendings[in.prev]
    PROVE  FinalizeInput(in, spending).final \in Finals
<1>. DEFINE sigs == [k \in Keys |-> IF k \in spending.keys THEN in.sigs[k] ELSE NoSig]
<1>1. in.sigs \in [Keys -> Sigs \cup {NoSig}] /\ in.prev \in OutPoints
  BY DEF Inputs, SigMaps
<1>2. sigs \in SigMaps
  BY <1>1 DEF SigMaps
<1>3. spending \in [keys : SUBSET Keys, after : LockTimes]
  BY <1>1, PsbtAssumption
<1>4. FinalizeInput(in, spending).final = [spending |-> spending, sigs |-> sigs]
  BY DEF FinalizeInput, Inputs
<1>. HIDE DEF sigs
<1>. QED  BY <1>2, <1>3, <1>4 DEF Finals

LEMMA FinalizeInputType ==
    ASSUME NEW in \in Inputs, NEW spending \in Spendings[in.prev]
    PROVE  FinalizeInput(in, spending) \in Inputs
<1>. DEFINE final == FinalizeInput(in, spending).final
<1>1. final \in Finals
  BY FinalizeInputFinal
<1>2. NoSigs \in SigMaps
  BY DEF NoSigs, SigMaps
<1>3. FinalizeInput(in, spending)
        = [in EXCEPT !.final = final, !.named = {}, !.sigs = NoSigs, !.sighash = NoSighash]
  BY DEF FinalizeInput, Inputs
<1>. HIDE DEF final
<1>. QED  BY <1>1, <1>2, <1>3 DEF Inputs

\* What Input::finalize keeps, what it clears and what it makes.
LEMMA FinalizeInputFields ==
    ASSUME NEW in \in Inputs, NEW spending
    PROVE  LET out == FinalizeInput(in, spending)
           IN /\ out.prev = in.prev /\ out.seq = in.seq
              /\ out.minTime = in.minTime /\ out.minHeight = in.minHeight
              /\ out.sighash = NoSighash /\ out.named = {} /\ out.sigs = NoSigs
              /\ out.final.spending = spending
              /\ \A k \in Keys : out.final.sigs[k] = IF k \in spending.keys THEN in.sigs[k]
                                                                            ELSE NoSig
BY DEF FinalizeInput, Inputs

\* Finalizing moves signatures or drops them, and makes none.
LEMMA FinalizeInputSigs ==
    ASSUME NEW in \in Inputs, NEW spending
    PROVE  /\ FinalizeInput(in, spending).prev = in.prev
           /\ SigsOf(FinalizeInput(in, spending)) \subseteq SigsOf(in)
<1>. DEFINE out == FinalizeInput(in, spending)
<1>1. /\ out.prev = in.prev /\ out.sigs = NoSigs
      /\ out.final.sigs = [k \in Keys |-> IF k \in spending.keys THEN in.sigs[k] ELSE NoSig]
  BY DEF FinalizeInput, Inputs
<1>2. \A k \in Keys : out.sigs[k] = NoSig
  BY <1>1 DEF NoSigs
<1>3. \A k \in Keys : out.final.sigs[k] # NoSig => out.final.sigs[k] = in.sigs[k]
  BY <1>1
<1>. HIDE DEF out
<1>4. ASSUME NEW sig \in SigsOf(out)
      PROVE  sig \in SigsOf(in)
  <2>1. PICK k \in Keys : out.final.sigs[k] # NoSig /\ sig = out.final.sigs[k]
    BY <1>2, <1>4 DEF SigsOf
  <2>2. sig = in.sigs[k] /\ in.sigs[k] # NoSig
    BY <1>3, <2>1
  <2>. QED  BY <2>2 DEF SigsOf
<1>. QED  BY <1>1, <1>4 DEF out

LEMMA SignInputsType ==
    ASSUME NEW p \in Psbts, NEW chosen \in SUBSET DOMAIN p.ins, NEW held \in SUBSET Keys,
           \A i \in chosen : Signable(p, i)
    PROVE  SignInputs(p, chosen, held) \in Psbts
<1>. DEFINE signed == { i \in chosen : held \cap p.ins[i].named # {} }
            ins == [i \in DOMAIN p.ins |->
                       IF i \in signed THEN SignInput(p, i, held) ELSE p.ins[i]]
            flags == ApplySighash(p.flags, { SighashOf(p.ins[i]) : i \in signed })
<1>1. flags \in SUBSET ModifiableFlags
  BY InputsOf DEF ApplySighash, ModifiableFlags
<1>2. ins \in [1 .. Len(p.ins) -> Inputs]
  <2>1. \A i \in DOMAIN p.ins : p.ins[i] \in Inputs
    BY InputsOf
  <2>2. \A i \in signed : SignInput(p, i, held) \in Inputs
    BY SignInputType
  <2>. HIDE DEF signed
  <2>. QED  BY <2>1, <2>2, InputsOf
<1>3. ins \in Seq(Inputs)
  BY <1>2, InputsOf, SeqOfFunction
<1>4. SignInputs(p, chosen, held) = [p EXCEPT !.ins = ins, !.flags = flags]
  BY DEF SignInputs
<1>. HIDE DEF ins, flags
<1>. QED  BY <1>1, <1>3, <1>4 DEF Psbts

LEMMA FinalizeInputsType ==
    ASSUME NEW p \in Psbts, NEW choice, Finalizable(p, choice)
    PROVE  FinalizeInputs(p, choice) \in Psbts
<1>. DEFINE ins == [i \in DOMAIN p.ins |-> IF IsFinalized(p.ins[i]) THEN p.ins[i]
                                          ELSE FinalizeInput(p.ins[i], choice[i])]
<1>1. ins \in [1 .. Len(p.ins) -> Inputs]
  <2>1. \A i \in DOMAIN p.ins : p.ins[i] \in Inputs
    BY InputsOf
  <2>2. \A i \in DOMAIN p.ins : ~IsFinalized(p.ins[i]) => FinalizeInput(p.ins[i], choice[i]) \in Inputs
    BY <2>1, FinalizeInputType DEF Finalizable
  <2>. QED  BY <2>1, <2>2, InputsOf
<1>2. ins \in Seq(Inputs)
  BY <1>1, InputsOf, SeqOfFunction
<1>3. FinalizeInputs(p, choice) = [p EXCEPT !.ins = ins]
  BY DEF FinalizeInputs
<1>. HIDE DEF ins
<1>. QED  BY <1>2, <1>3 DEF Psbts

-----------------------------------------------------------------------------
(* What the transaction and its lock time depend on.                        *)

\* What UnsignedTx reads of a PSBT.
LEMMA SameTx ==
    ASSUME NEW p, NEW q, DOMAIN q.ins = DOMAIN p.ins, q.outs = p.outs,
           q.fallback = p.fallback,
           \A i \in DOMAIN p.ins :
              /\ q.ins[i].prev = p.ins[i].prev /\ q.ins[i].seq = p.ins[i].seq
              /\ q.ins[i].minTime = p.ins[i].minTime
              /\ q.ins[i].minHeight = p.ins[i].minHeight
    PROVE  UnsignedTx(q) = UnsignedTx(p)
<1>1. TxPrevs(q) = TxPrevs(p)
  BY DEF TxPrevs
<1>2. TxSequences(q) = TxSequences(p)
  BY DEF TxSequences, TxSequence
<1>3. TxLock(q) = TxLock(p)
  <2>1. /\ {q.ins[i].minHeight : i \in DOMAIN q.ins} = {p.ins[i].minHeight : i \in DOMAIN p.ins}
        /\ {q.ins[i].minTime : i \in DOMAIN q.ins} = {p.ins[i].minTime : i \in DOMAIN p.ins}
    OBVIOUS
  <2>2. \A i \in DOMAIN p.ins :
           /\ HasLockTime(q.ins[i]) <=> HasLockTime(p.ins[i])
           /\ SatisfiedWithHeight(q.ins[i]) <=> SatisfiedWithHeight(p.ins[i])
    BY DEF HasLockTime, SatisfiedWithHeight, RequiresHeight
  <2>3. /\ (\A i \in DOMAIN q.ins : ~HasLockTime(q.ins[i]))
             <=> (\A i \in DOMAIN p.ins : ~HasLockTime(p.ins[i]))
        /\ (\A i \in DOMAIN q.ins : SatisfiedWithHeight(q.ins[i]))
             <=> (\A i \in DOMAIN p.ins : SatisfiedWithHeight(p.ins[i]))
    BY <2>2
  <2>4. CASE \A i \in DOMAIN p.ins : ~HasLockTime(p.ins[i])
    BY <2>3, <2>4 DEF TxLock, DetermineLockTime
  <2>5. CASE /\ ~ \A i \in DOMAIN p.ins : ~HasLockTime(p.ins[i])
             /\ \A i \in DOMAIN p.ins : SatisfiedWithHeight(p.ins[i])
    BY <2>1, <2>3, <2>5 DEF TxLock, DetermineLockTime
  <2>6. CASE /\ ~ \A i \in DOMAIN p.ins : ~HasLockTime(p.ins[i])
             /\ ~ \A i \in DOMAIN p.ins : SatisfiedWithHeight(p.ins[i])
    BY <2>1, <2>3, <2>6 DEF TxLock, DetermineLockTime
  <2>. QED  BY <2>4, <2>5, <2>6
<1>. QED  BY <1>1, <1>2, <1>3 DEF UnsignedTx

\* Whether there is a lock time is a matter of the lock fields alone.
LEMMA SameLocks ==
    ASSUME NEW p, NEW q, DOMAIN q.ins = DOMAIN p.ins, Determinable(p),
           \A i \in DOMAIN p.ins : /\ q.ins[i].minTime = p.ins[i].minTime
                                   /\ q.ins[i].minHeight = p.ins[i].minHeight
    PROVE  Determinable(q)
BY DEF Determinable, LockTimeDeterminable, RequiresTime, RequiresHeight

-----------------------------------------------------------------------------
(* What the handlers leave of the two promises made to signatures.          *)

\* q is p with signatures lost, fields of inputs changed and flags cleared.
Loses(p, q) ==
    /\ DOMAIN q.ins = DOMAIN p.ins
    /\ q.outs = p.outs
    /\ \A i \in DOMAIN p.ins :
          q.ins[i].prev = p.ins[i].prev /\ SigsOf(q.ins[i]) \subseteq SigsOf(p.ins[i])
    /\ q.flags \cap {"inputs", "outputs"} \subseteq p.flags
    /\ "single" \in p.flags => "single" \in q.flags

LEMMA LosesPrevs ==
    ASSUME NEW p, NEW q, DOMAIN q.ins = DOMAIN p.ins,
           \A i \in DOMAIN p.ins : q.ins[i].prev = p.ins[i].prev
    PROVE  TxPrevs(q) = TxPrevs(p)
BY DEF TxPrevs

LEMMA LosesKeeps ==
    ASSUME NEW p, NEW q, Loses(p, q), SigsPinned(p), FlagsReflectSigs(p)
    PROVE  SigsPinned(q) /\ FlagsReflectSigs(q)
<1>1. TxPrevs(q) = TxPrevs(p)
  BY LosesPrevs DEF Loses
<1>2. FlagsReflectSigs(q)
  BY DEF Loses, FlagsReflectSigs
<1>3. ASSUME NEW i \in DOMAIN q.ins, NEW sig \in SigsOf(q.ins[i])
      PROVE  /\ HasCommittedOutput(q, i, sig.type)
             /\ sig.prevs = CommittedPrevs(q, i, sig.type)
             /\ sig.outs = CommittedOutputs(q, i, sig.type)
  <2>1. /\ i \in DOMAIN p.ins /\ sig \in SigsOf(p.ins[i])
        /\ q.outs = p.outs /\ q.ins[i].prev = p.ins[i].prev
    BY <1>3 DEF Loses
  <2>2. /\ HasCommittedOutput(p, i, sig.type)
        /\ sig.prevs = CommittedPrevs(p, i, sig.type)
        /\ sig.outs = CommittedOutputs(p, i, sig.type)
    BY <2>1 DEF SigsPinned
  <2>. QED  BY <1>1, <2>1, <2>2 DEF HasCommittedOutput, CommittedPrevs, CommittedOutputs
<1>. QED  BY <1>2, <1>3 DEF SigsPinned

\* A new input leaves ANYONECANPAY signatures covering what they covered.
LEMMA AddInputKeeps ==
    ASSUME NEW p \in Psbts, NEW prev \in OutPoints, NEW minTime, NEW minHeight,
           SigsPinned(p), FlagsReflectSigs(p),
           \A i \in DOMAIN p.ins : \A sig \in SigsOf(p.ins[i]) : sig.type.acp
    PROVE  LET q == AddInput(p, NewInput(prev, minTime, minHeight))
           IN /\ SigsPinned(q) /\ FlagsReflectSigs(q)
              /\ q.flags = p.flags /\ q.outs = p.outs
              /\ DOMAIN p.ins \subseteq DOMAIN q.ins
              /\ \A i \in DOMAIN p.ins : q.ins[i] = p.ins[i]
              /\ \A i \in DOMAIN q.ins : i \notin DOMAIN p.ins => SigsOf(q.ins[i]) = {}
<1>. DEFINE in == NewInput(prev, minTime, minHeight)
            q == AddInput(p, in)
<1>1. SigsOf(in) = {}
  BY DEF NewInput, SigsOf, IsFinalized, NoSigs
<1>2. q.ins = Append(p.ins, in) /\ q.outs = p.outs /\ q.flags = p.flags
  BY DEF AddInput, Psbts
<1>. HIDE DEF in, q
<1>3. /\ DOMAIN q.ins = DOMAIN p.ins \cup {Len(p.ins) + 1}
      /\ \A i \in DOMAIN p.ins : q.ins[i] = p.ins[i]
      /\ q.ins[Len(p.ins) + 1] = in
  BY <1>2, InputsOf
<1>4. \A i \in DOMAIN q.ins : i \notin DOMAIN p.ins => SigsOf(q.ins[i]) = {}
  BY <1>1, <1>3
<1>5. FlagsReflectSigs(q)
  BY <1>2, <1>3, <1>4 DEF FlagsReflectSigs
<1>6. ASSUME NEW i \in DOMAIN q.ins, NEW sig \in SigsOf(q.ins[i])
      PROVE  /\ HasCommittedOutput(q, i, sig.type)
             /\ sig.prevs = CommittedPrevs(q, i, sig.type)
             /\ sig.outs = CommittedOutputs(q, i, sig.type)
  <2>1. i \in DOMAIN p.ins /\ q.ins[i] = p.ins[i]
    BY <1>3, <1>4, <1>6
  <2>2. /\ HasCommittedOutput(p, i, sig.type)
        /\ sig.prevs = CommittedPrevs(p, i, sig.type)
        /\ sig.outs = CommittedOutputs(p, i, sig.type)
        /\ sig.type.acp
    BY <1>6, <2>1 DEF SigsPinned
  <2>. QED  BY <1>2, <2>1, <2>2 DEF HasCommittedOutput, CommittedPrevs, CommittedOutputs
<1>7. SigsPinned(q)
  BY <1>6 DEF SigsPinned
<1>. QED  BY <1>2, <1>3, <1>4, <1>5, <1>7 DEF q, in

\* A new output leaves NONE signatures covering what they covered.
LEMMA AddOutputKeeps ==
    ASSUME NEW p \in Psbts, NEW out \in Outputs, SigsPinned(p), FlagsReflectSigs(p),
           \A i \in DOMAIN p.ins : \A sig \in SigsOf(p.ins[i]) : sig.type.base = "NONE"
    PROVE  LET q == AddOutput(p, out)
           IN SigsPinned(q) /\ FlagsReflectSigs(q) /\ q.ins = p.ins /\ q.flags = p.flags
<1>. DEFINE q == AddOutput(p, out)
<1>1. q.ins = p.ins /\ q.flags = p.flags
  BY DEF AddOutput, Psbts
<1>. HIDE DEF q
<1>2. FlagsReflectSigs(q)
  BY <1>1 DEF FlagsReflectSigs
<1>3. TxPrevs(q) = TxPrevs(p)
  BY <1>1 DEF TxPrevs
<1>4. SigsPinned(q)
  BY <1>1, <1>3 DEF SigsPinned, HasCommittedOutput, CommittedPrevs, CommittedOutputs
<1>. QED  BY <1>1, <1>2, <1>4 DEF q

LEMMA FinalizeInputsLoses ==
    ASSUME NEW p \in Psbts, NEW choice
    PROVE  Loses(p, FinalizeInputs(p, choice))
<1>. DEFINE q == FinalizeInputs(p, choice)
<1>1. /\ DOMAIN q.ins = DOMAIN p.ins /\ q.outs = p.outs /\ q.flags = p.flags
      /\ \A i \in DOMAIN p.ins : \/ q.ins[i] = p.ins[i]
                                 \/ q.ins[i] = FinalizeInput(p.ins[i], choice[i])
  BY DEF FinalizeInputs, Psbts
<1>. HIDE DEF q
<1>2. \A i \in DOMAIN p.ins :
         q.ins[i].prev = p.ins[i].prev /\ SigsOf(q.ins[i]) \subseteq SigsOf(p.ins[i])
  BY <1>1, InputsOf, FinalizeInputSigs
<1>. QED  BY <1>1, <1>2 DEF Loses, q

\* Signing with `type` clears the flags the new signature contradicts.
LEMMA ApplySighashClears ==
    ASSUME NEW flags \in SUBSET ModifiableFlags, NEW types
    PROVE  /\ ApplySighash(flags, types) \cap {"inputs", "outputs"} \subseteq flags
           /\ "single" \in flags => "single" \in ApplySighash(flags, types)
           /\ \A type \in types :
                 /\ "inputs" \in ApplySighash(flags, types) => type.acp
                 /\ "outputs" \in ApplySighash(flags, types) => type.base = "NONE"
                 /\ type.base = "SINGLE" => "single" \in ApplySighash(flags, types)
<1>1. \A type \in types : /\ "inputs" \notin FlagsCleared(type) => type.acp
                          /\ "outputs" \notin FlagsCleared(type) => type.base = "NONE"
                          /\ "single" \notin FlagsCleared(type)
  BY DEF FlagsCleared
<1>. QED  BY <1>1 DEF ApplySighash

LEMMA SignInputsKeeps ==
    ASSUME NEW p \in Psbts, NEW chosen \in SUBSET DOMAIN p.ins, NEW held \in SUBSET Keys,
           \A i \in chosen : Signable(p, i),
           SigsPinned(p), FlagsReflectSigs(p)
    PROVE  LET q == SignInputs(p, chosen, held) IN SigsPinned(q) /\ FlagsReflectSigs(q)
<1>. DEFINE signed == { i \in chosen : held \cap p.ins[i].named # {} }
            types == { SighashOf(p.ins[i]) : i \in signed }
            q == SignInputs(p, chosen, held)
<1>1. /\ DOMAIN q.ins = DOMAIN p.ins /\ q.outs = p.outs
      /\ q.flags = ApplySighash(p.flags, types)
      /\ \A i \in DOMAIN p.ins : /\ i \in signed => q.ins[i] = SignInput(p, i, held)
                                 /\ i \notin signed => q.ins[i] = p.ins[i]
  BY DEF SignInputs, Psbts
<1>2. \A i \in signed : /\ i \in chosen /\ i \in DOMAIN p.ins
                        /\ SighashOf(p.ins[i]) \in types
  OBVIOUS
<1>. HIDE DEF q, signed, types
<1>3. \A i \in DOMAIN p.ins : q.ins[i].prev = p.ins[i].prev
  BY <1>1, SignInputSigs
<1>4. TxPrevs(q) = TxPrevs(p)
  BY <1>1, <1>3, LosesPrevs
<1>5. /\ q.flags \cap {"inputs", "outputs"} \subseteq p.flags
      /\ "single" \in p.flags => "single" \in q.flags
      /\ \A type \in types : /\ "inputs" \in q.flags => type.acp
                             /\ "outputs" \in q.flags => type.base = "NONE"
                             /\ type.base = "SINGLE" => "single" \in q.flags
  <2>1. p.flags \in SUBSET ModifiableFlags
    BY InputsOf
  <2>. QED  BY <1>1, <2>1, ApplySighashClears
<1>6. ASSUME NEW i \in DOMAIN q.ins, NEW sig \in SigsOf(q.ins[i])
      PROVE  /\ HasCommittedOutput(q, i, sig.type)
             /\ sig.prevs = CommittedPrevs(q, i, sig.type)
             /\ sig.outs = CommittedOutputs(q, i, sig.type)
             /\ "inputs" \in q.flags => sig.type.acp
             /\ "outputs" \in q.flags => sig.type.base = "NONE"
             /\ sig.type.base = "SINGLE" => "single" \in q.flags
  <2>1. i \in DOMAIN p.ins
    BY <1>1
  <2>2. CASE sig \in SigsOf(p.ins[i])
    <3>1. /\ HasCommittedOutput(p, i, sig.type)
          /\ sig.prevs = CommittedPrevs(p, i, sig.type)
          /\ sig.outs = CommittedOutputs(p, i, sig.type)
      BY <2>1, <2>2 DEF SigsPinned
    <3>2. /\ "inputs" \in q.flags => sig.type.acp
          /\ "outputs" \in q.flags => sig.type.base = "NONE"
          /\ sig.type.base = "SINGLE" => "single" \in q.flags
      BY <1>5, <2>1, <2>2 DEF FlagsReflectSigs
    <3>. QED  BY <1>1, <1>3, <1>4, <2>1, <3>1, <3>2
              DEF HasCommittedOutput, CommittedPrevs, CommittedOutputs
  <2>3. CASE i \in signed /\ sig = Digest(p, i, SighashOf(p.ins[i]))
    <3>. DEFINE type == SighashOf(p.ins[i])
    <3>1. type \in SighashTypes /\ type \in types /\ HasCommittedOutput(p, i, type)
      BY <1>2, <2>1, <2>3, InputsOf, SighashOfType DEF Signable
    <3>2. /\ sig.type = type
          /\ sig.prevs = CommittedPrevs(p, i, type)
          /\ sig.outs = CommittedOutputs(p, i, type)
      BY <2>1, <2>3, <3>1, DigestType
    <3>. HIDE DEF type
    <3>. QED  BY <1>1, <1>3, <1>4, <1>5, <2>1, <3>1, <3>2
              DEF HasCommittedOutput, CommittedPrevs, CommittedOutputs
  <2>4. sig \in SigsOf(p.ins[i]) \/ (i \in signed /\ sig = Digest(p, i, SighashOf(p.ins[i])))
    BY <1>1, <1>6, <2>1, SignInputSigs
  <2>. QED  BY <2>2, <2>3, <2>4
<1>. QED  BY <1>6 DEF SigsPinned, FlagsReflectSigs, q

=============================================================================
