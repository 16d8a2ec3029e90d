-------------------------- MODULE PsbtExchangeProofs --------------------------
(***************************************************************************)
(* Proofs about PsbtExchange, for any holders, keys, drafts and number of   *)
(* copies on the wire.  What holds of the PSBT of each holder has to hold   *)
(* of every copy on its way too, however old: a copy may be received at any *)
(* later time.                                                              *)
(***************************************************************************)
EXTENDS PsbtExchange, PsbtProofs

-----------------------------------------------------------------------------
(* combine_with, of any two PSBTs.                                          *)

LEMMA CombineInputType ==
    ASSUME NEW this \in Inputs, NEW that \in Inputs
    PROVE  CombineInput(this, that) \in Inputs
<1>1. CombineMap(this.sigs, that.sigs, NoSig) \in SigMaps
  BY DEF Inputs, SigMaps, CombineMap
<1>2. /\ CombineOption(this.seq, that.seq, NoSequence) \in Sequences \cup {NoSequence}
      /\ CombineOption(this.minTime, that.minTime, None) \in MinTimes
      /\ CombineOption(this.minHeight, that.minHeight, None) \in MinHeights
      /\ CombineOption(this.sighash, that.sighash, NoSighash) \in SighashTypes \cup {NoSighash}
      /\ CombineOption(this.final, that.final, NoFinal) \in Finals \cup {NoFinal}
      /\ this.named \cup that.named \in SUBSET Keys
  BY DEF Inputs, CombineOption
<1>. QED  BY <1>1, <1>2 DEF Inputs, CombineInput

\* Combining two inputs invents no signature.
LEMMA CombineInputSigs ==
    ASSUME NEW this \in Inputs, NEW that \in Inputs
    PROVE  /\ CombineInput(this, that).prev = this.prev
           /\ SigsOf(CombineInput(this, that)) \subseteq SigsOf(this) \cup SigsOf(that)
<1>. DEFINE both == CombineInput(this, that)
<1>1. /\ both.prev = this.prev
      /\ both.sigs = CombineMap(this.sigs, that.sigs, NoSig)
      /\ both.final = CombineOption(this.final, that.final, NoFinal)
  BY DEF CombineInput, Inputs
<1>2. \A k \in Keys : both.sigs[k] \in {this.sigs[k], that.sigs[k]}
  BY <1>1 DEF CombineMap, Inputs, SigMaps
<1>3. both.final \in {this.final, that.final}
  BY <1>1 DEF CombineOption
<1>. HIDE DEF both
<1>4. ASSUME NEW sig \in SigsOf(both)
      PROVE  sig \in SigsOf(this) \cup SigsOf(that)
  <2>1. \/ \E k \in Keys : both.sigs[k] # NoSig /\ sig = both.sigs[k]
        \/ IsFinalized(both) /\ \E k \in Keys : both.final.sigs[k] # NoSig /\ sig = both.final.sigs[k]
    BY <1>4 DEF SigsOf
  <2>2. CASE \E k \in Keys : both.sigs[k] # NoSig /\ sig = both.sigs[k]
    BY <1>2, <2>2 DEF SigsOf
  <2>3. CASE /\ IsFinalized(both)
             /\ \E k \in Keys : both.final.sigs[k] # NoSig /\ sig = both.final.sigs[k]
    BY <1>3, <2>3 DEF SigsOf, IsFinalized
  <2>. QED  BY <2>1, <2>2, <2>3
<1>. QED  BY <1>1, <1>4 DEF both

\* No signature of either side is lost: a key that signed has a signature.
LEMMA CombineInputGathers ==
    ASSUME NEW this \in Inputs, NEW that \in Inputs, NEW k \in Keys,
           this.sigs[k] # NoSig \/ that.sigs[k] # NoSig
    PROVE  CombineInput(this, that).sigs[k] # NoSig
<1>1. CombineInput(this, that).sigs = CombineMap(this.sigs, that.sigs, NoSig)
  BY DEF CombineInput, Inputs
<1>. QED  BY <1>1 DEF CombineMap, Inputs, SigMaps

\* `later` has what `in` has set of a transaction's input, and its keys' signatures.
KeepsWhatIsSet(in, later) ==
    /\ later.prev = in.prev
    /\ in.seq # NoSequence => later.seq = in.seq
    /\ in.minTime # None => later.minTime = in.minTime
    /\ in.minHeight # None => later.minHeight = in.minHeight
    /\ IsFinalized(in) => later.final = in.final
    /\ \A k \in Keys : in.sigs[k] # NoSig => later.sigs[k] # NoSig

LEMMA CombineInputKeeps ==
    ASSUME NEW this \in Inputs, NEW that \in Inputs
    PROVE  KeepsWhatIsSet(this, CombineInput(this, that))
<1>. DEFINE both == CombineInput(this, that)
<1>1. /\ both.prev = this.prev
      /\ both.seq = CombineOption(this.seq, that.seq, NoSequence)
      /\ both.minTime = CombineOption(this.minTime, that.minTime, None)
      /\ both.minHeight = CombineOption(this.minHeight, that.minHeight, None)
      /\ both.final = CombineOption(this.final, that.final, NoFinal)
  BY DEF CombineInput, Inputs
<1>2. \A k \in Keys : this.sigs[k] # NoSig => both.sigs[k] # NoSig
  BY CombineInputGathers
<1>. QED  BY <1>1, <1>2 DEF KeepsWhatIsSet, CombineOption, IsFinalized

LEMMA CombineShape ==
    ASSUME NEW this \in Psbts, NEW that \in Psbts
    PROVE  /\ DOMAIN Combine(this, that).ins = DOMAIN this.ins
           /\ Combine(this, that).outs = this.outs
           /\ Combine(this, that).flags = this.flags
           /\ Combine(this, that).fallback = this.fallback
           /\ \A i \in DOMAIN this.ins :
                 Combine(this, that).ins[i] =
                   IF i \in DOMAIN that.ins THEN CombineInput(this.ins[i], that.ins[i])
                                            ELSE this.ins[i]
BY DEF Combine, Psbts

LEMMA CombineType ==
    ASSUME NEW this \in Psbts, NEW that \in Psbts
    PROVE  Combine(this, that) \in Psbts
<1>. DEFINE ins == [i \in DOMAIN this.ins |-> IF i \in DOMAIN that.ins
                                             THEN CombineInput(this.ins[i], that.ins[i])
                                             ELSE this.ins[i]]
<1>1. ins \in [1 .. Len(this.ins) -> Inputs]
  BY InputsOf, CombineInputType
<1>2. ins \in Seq(Inputs)
  BY <1>1, InputsOf, SeqOfFunction
<1>3. Combine(this, that) = [this EXCEPT !.ins = ins]
  BY DEF Combine
<1>. HIDE DEF ins
<1>. QED  BY <1>2, <1>3 DEF Psbts

-----------------------------------------------------------------------------

\* Whatever the other PSBT brings, the result has the outpoints, the outputs, the
\* flags and the fallback lock time of the first, and of each input all the
\* times and the sequence number the first has set, and a signature of every
\* key that signed on either side (combine_with, Input::combine).
THEOREM CombineKeepsWhatIsSet ==
    ASSUME NEW this \in Psbts, NEW that \in Psbts
    PROVE  LET both == Combine(this, that)
           IN  /\ TxPrevs(both) = TxPrevs(this) /\ both.outs = this.outs
               /\ both.flags = this.flags /\ both.fallback = this.fallback
               /\ \A i \in DOMAIN this.ins : KeepsWhatIsSet(this.ins[i], both.ins[i])
               /\ \A i \in Both(this.ins, that.ins), k \in Keys :
                     that.ins[i].sigs[k] # NoSig => both.ins[i].sigs[k] # NoSig
<1>. DEFINE both == Combine(this, that)
<1>1. \A i \in DOMAIN this.ins : KeepsWhatIsSet(this.ins[i], both.ins[i])
  <2>. TAKE i \in DOMAIN this.ins
  <2>1. this.ins[i] \in Inputs
    BY InputsOf
  <2>2. CASE i \in DOMAIN that.ins
    <3>1. that.ins[i] \in Inputs /\ both.ins[i] = CombineInput(this.ins[i], that.ins[i])
      BY <2>2, InputsOf, CombineShape
    <3>. QED  BY <2>1, <3>1, CombineInputKeeps
  <2>3. CASE i \notin DOMAIN that.ins
    BY <2>3, CombineShape DEF KeepsWhatIsSet
  <2>. QED  BY <2>2, <2>3
<1>2. ASSUME NEW i \in Both(this.ins, that.ins), NEW k \in Keys, that.ins[i].sigs[k] # NoSig
      PROVE  both.ins[i].sigs[k] # NoSig
  <2>1. /\ this.ins[i] \in Inputs /\ that.ins[i] \in Inputs
        /\ both.ins[i] = CombineInput(this.ins[i], that.ins[i])
    BY InputsOf, CombineShape DEF Both
  <2>. QED  BY <1>2, <2>1, CombineInputGathers
<1>3. TxPrevs(both) = TxPrevs(this)
  BY <1>1, CombineShape, LosesPrevs DEF KeepsWhatIsSet
<1>. QED  BY <1>1, <1>2, <1>3, CombineShape

\* p has what a signature of q can be over.
SameTxFields(p, q) ==
    /\ DOMAIN p.ins = DOMAIN q.ins
    /\ p.fallback = q.fallback
    /\ q.ins = <<>> \/ p.outs = q.outs
    /\ \A i \in DOMAIN q.ins :
          /\ p.ins[i].prev = q.ins[i].prev /\ p.ins[i].seq = q.ins[i].seq
          /\ p.ins[i].minTime = q.ins[i].minTime /\ p.ins[i].minHeight = q.ins[i].minHeight

LEMMA SameDigest ==
    ASSUME NEW p, NEW q, SameTxFields(p, q), NEW i \in DOMAIN q.ins, NEW type
    PROVE  /\ Digest(p, i, type) = Digest(q, i, type)
           /\ HasCommittedOutput(p, i, type) <=> HasCommittedOutput(q, i, type)
           /\ InputLockTime(p.ins[i]) = InputLockTime(q.ins[i])
<1>1. p.outs = q.outs
  BY DEF SameTxFields
<1>2. UnsignedTx(p) = UnsignedTx(q)
  BY <1>1, SameTx DEF SameTxFields
<1>3. /\ TxPrevs(p) = TxPrevs(q) /\ TxSequences(p) = TxSequences(q)
      /\ TxLock(p) = TxLock(q)
  BY <1>2 DEF UnsignedTx
<1>4. p.ins[i].prev = q.ins[i].prev /\ TxSequence(p.ins[i]) = TxSequence(q.ins[i])
  BY DEF SameTxFields, TxSequence
<1>5. /\ CommittedPrevs(p, i, type) = CommittedPrevs(q, i, type)
      /\ CommittedSequences(p, i, type) = CommittedSequences(q, i, type)
      /\ CommittedOutputs(p, i, type) = CommittedOutputs(q, i, type)
  BY <1>1, <1>3, <1>4 DEF CommittedPrevs, CommittedSequences, CommittedOutputs
<1>6. Digest(p, i, type) = Digest(q, i, type)
  BY <1>3, <1>5 DEF Digest
<1>7. InputLockTime(p.ins[i]) = InputLockTime(q.ins[i])
  BY DEF SameTxFields, InputLockTime
<1>. QED  BY <1>1, <1>6, <1>7 DEF HasCommittedOutput

\* The other PSBT sets no sequence number and no lock time that this one leaves open.
SetsNoTimes(this, that) ==
    \A i \in Both(this.ins, that.ins) :
       /\ this.ins[i].seq = NoSequence => that.ins[i].seq = NoSequence
       /\ this.ins[i].minTime = None => that.ins[i].minTime = None
       /\ this.ins[i].minHeight = None => that.ins[i].minHeight = None

\* A PSBT that brings signatures, final scripts, sighash types and derivations only
\* leaves the unsigned transaction, and so the id and the signatures made before,
\* as they were, and combine_with has nothing to complain about but different
\* outpoints or outputs.
THEOREM CombineKeepsTx ==
    ASSUME NEW this \in Psbts, NEW that \in Psbts, SetsNoTimes(this, that)
    PROVE  LET both == Combine(this, that)
           IN  /\ UnsignedTx(both) = UnsignedTx(this)
               /\ \A i \in DOMAIN this.ins, sig \in Sigs :
                     SigValid(sig, both, i) <=> SigValid(sig, this, i)
               /\ Determinable(this) /\ SameTxParts(this, that) => Combinable(this, that)
<1>. DEFINE both == Combine(this, that)
<1>1. ASSUME NEW i \in DOMAIN this.ins
      PROVE  /\ both.ins[i].prev = this.ins[i].prev /\ both.ins[i].seq = this.ins[i].seq
             /\ both.ins[i].minTime = this.ins[i].minTime
             /\ both.ins[i].minHeight = this.ins[i].minHeight
  <2>1. this.ins[i] \in Inputs
    BY InputsOf
  <2>2. CASE i \in DOMAIN that.ins
    <3>1. /\ both.ins[i] = CombineInput(this.ins[i], that.ins[i])
          /\ this.ins[i].seq = NoSequence => that.ins[i].seq = NoSequence
          /\ this.ins[i].minTime = None => that.ins[i].minTime = None
          /\ this.ins[i].minHeight = None => that.ins[i].minHeight = None
      BY <2>2, CombineShape DEF SetsNoTimes, Both
    <3>. QED  BY <2>1, <3>1 DEF CombineInput, CombineOption, Inputs
  <2>3. CASE i \notin DOMAIN that.ins
    BY <2>3, CombineShape
  <2>. QED  BY <2>2, <2>3
<1>2. /\ DOMAIN both.ins = DOMAIN this.ins /\ both.outs = this.outs
      /\ both.fallback = this.fallback
  BY CombineShape
<1>. HIDE DEF both
<1>3. UnsignedTx(both) = UnsignedTx(this)
  BY <1>1, <1>2, SameTx
<1>4. SameTxFields(both, this)
  BY <1>1, <1>2 DEF SameTxFields
<1>5. ASSUME NEW i \in DOMAIN this.ins, NEW sig \in Sigs
      PROVE  SigValid(sig, both, i) <=> SigValid(sig, this, i)
  BY <1>4, SameDigest DEF SigValid
<1>6. Determinable(this) => Determinable(both)
  BY <1>1, <1>2, SameLocks
<1>. QED  BY <1>3, <1>5, <1>6 DEF both, Combinable

\* A copy that arrives twice changes nothing: combine_with is idempotent.
THEOREM CombineIdempotent ==
    ASSUME NEW p \in Psbts
    PROVE  Combine(p, p) = p
<1>1. \A in \in Inputs : CombineInput(in, in) = in
  <2>. TAKE in \in Inputs
  <2>1. CombineMap(in.sigs, in.sigs, NoSig) = in.sigs
    BY DEF CombineMap, Inputs, SigMaps
  <2>2. \A x, none : CombineOption(x, x, none) = x
    BY DEF CombineOption
  <2>3. CombineInput(in, in) =
          [in EXCEPT !.seq = in.seq, !.minTime = in.minTime, !.minHeight = in.minHeight,
                     !.sighash = in.sighash, !.named = in.named, !.sigs = in.sigs,
                     !.final = in.final]
    <3>1. in.named \cup in.named = in.named
      OBVIOUS
    <3>. QED  BY <2>1, <2>2, <3>1 DEF CombineInput, Inputs
  <2>. QED  BY <2>3 DEF Inputs
<1>2. [i \in DOMAIN p.ins |-> IF i \in DOMAIN p.ins THEN CombineInput(p.ins[i], p.ins[i])
                             ELSE p.ins[i]] = p.ins
  BY <1>1, InputsOf
<1>. QED  BY <1>2 DEF Combine, Psbts

-----------------------------------------------------------------------------
(* The exchange.                                                            *)

Sound(p) == Determinable(p) /\ OnOwnInput(p)

IInv ==
    /\ TypeOK
    /\ \A h \in Holders : Sound(psbts[h])
    /\ \A copy \in wire : Sound(copy.psbt)

-----------------------------------------------------------------------------
(* The two parts of Sound, handler by handler.                              *)

\* What a signature of input i has to commit to.
PrevOf(sig, i) == IF sig.type.acp THEN sig.prevs[1] ELSE sig.prevs[i]

LEMMA DigestOnOwn ==
    ASSUME NEW p \in Psbts, NEW i \in DOMAIN p.ins, NEW type \in SighashTypes,
           HasCommittedOutput(p, i, type)
    PROVE  PrevOf(Digest(p, i, type), i) = p.ins[i].prev
<1>1. TxPrevs(p)[i] = p.ins[i].prev
  BY DEF TxPrevs
<1>2. /\ Digest(p, i, type).type = type
      /\ Digest(p, i, type).prevs = CommittedPrevs(p, i, type)
  BY DigestType
<1>. QED  BY <1>1, <1>2 DEF CommittedPrevs, PrevOf

\* Every signature of q is one that p had there, or a digest of p.
LEMMA OnOwnKept ==
    ASSUME NEW p \in Psbts, NEW q, OnOwnInput(p), DOMAIN q.ins = DOMAIN p.ins,
           \A i \in DOMAIN p.ins :
              /\ q.ins[i].prev = p.ins[i].prev
              /\ \A sig \in SigsOf(q.ins[i]) : \/ sig \in SigsOf(p.ins[i])
                                               \/ PrevOf(sig, i) = p.ins[i].prev
    PROVE  OnOwnInput(q)
BY DEF OnOwnInput, PrevOf

LEMMA AddInputSound ==
    ASSUME NEW p \in Psbts, NEW prev \in OutPoints, NEW minTime \in MinTimes,
           NEW minHeight \in MinHeights, OnOwnInput(p)
    PROVE  OnOwnInput(AddInput(p, NewInput(prev, minTime, minHeight)))
<1>. DEFINE in == NewInput(prev, minTime, minHeight)
            q == AddInput(p, in)
<1>1. SigsOf(in) = {}
  BY DEF NewInput, SigsOf, IsFinalized, NoSigs
<1>2. q.ins = Append(p.ins, in)
  BY DEF AddInput, Psbts
<1>. HIDE DEF in, q
<1>3. /\ DOMAIN q.ins = DOMAIN p.ins \cup {Len(p.ins) + 1}
      /\ \A i \in DOMAIN p.ins : q.ins[i] = p.ins[i]
      /\ q.ins[Len(p.ins) + 1] = in
  BY <1>2, InputsOf
<1>. QED  BY <1>1, <1>3 DEF OnOwnInput, q, in

LEMMA AddOutputSound ==
    ASSUME NEW p \in Psbts, NEW out, Sound(p)
    PROVE  Sound(AddOutput(p, out))
<1>1. AddOutput(p, out).ins = p.ins
  BY DEF AddOutput, Psbts
<1>. QED  BY <1>1 DEF Sound, Determinable, OnOwnInput

LEMMA UpdateOnOwn ==
    ASSUME NEW p \in Psbts, NEW i \in DOMAIN p.ins, NEW seq, NEW sighash, NEW minTime,
           NEW minHeight, OnOwnInput(p)
    PROVE  OnOwnInput(UpdateInput(p, i, seq, sighash, minTime, minHeight))
<1>. DEFINE in == [p.ins[i] EXCEPT !.seq = seq, !.sighash = sighash,
                                   !.minTime = minTime, !.minHeight = minHeight]
            q == UpdateInput(p, i, seq, sighash, minTime, minHeight)
<1>1. p.ins[i] \in Inputs
  BY InputsOf
<1>2. in.prev = p.ins[i].prev /\ in.sigs = p.ins[i].sigs /\ in.final = p.ins[i].final
  BY <1>1 DEF Inputs
<1>3. SigsOf(in) = SigsOf(p.ins[i])
  <2>. HIDE DEF in
  <2>. QED  BY <1>2 DEF SigsOf, IsFinalized
<1>4. q.ins = [p.ins EXCEPT ![i] = in]
  BY DEF UpdateInput, Psbts
<1>. HIDE DEF in, q
<1>5. /\ DOMAIN q.ins = DOMAIN p.ins
      /\ q.ins[i] = in
      /\ \A j \in DOMAIN p.ins : j # i => q.ins[j] = p.ins[j]
  BY <1>4
<1>. QED  BY <1>2, <1>3, <1>5, OnOwnKept DEF q

LEMMA SignInputsSound ==
    ASSUME NEW p \in Psbts, NEW chosen \in SUBSET DOMAIN p.ins, NEW held \in SUBSET Keys,
           \A i \in chosen : Signable(p, i), Sound(p)
    PROVE  Sound(SignInputs(p, chosen, held))
<1>. DEFINE q == SignInputs(p, chosen, held)
<1>1. /\ DOMAIN q.ins = DOMAIN p.ins
      /\ \A i \in DOMAIN p.ins : \/ q.ins[i] = p.ins[i]
                                 \/ i \in chosen /\ q.ins[i] = SignInput(p, i, held)
  BY DEF SignInputs, Psbts
<1>. HIDE DEF q
<1>2. \A i \in DOMAIN p.ins : /\ SignInput(p, i, held).minTime = p.ins[i].minTime
                              /\ SignInput(p, i, held).minHeight = p.ins[i].minHeight
  BY InputsOf DEF SignInput, Inputs
<1>3. Determinable(q)
  BY <1>1, <1>2, SameLocks DEF Sound
<1>4. ASSUME NEW i \in DOMAIN p.ins
      PROVE  /\ q.ins[i].prev = p.ins[i].prev
             /\ \A sig \in SigsOf(q.ins[i]) : \/ sig \in SigsOf(p.ins[i])
                                              \/ PrevOf(sig, i) = p.ins[i].prev
  <2>1. CASE q.ins[i] = p.ins[i]
    BY <2>1
  <2>2. CASE i \in chosen /\ q.ins[i] = SignInput(p, i, held)
    <3>1. /\ SighashOf(p.ins[i]) \in SighashTypes
          /\ HasCommittedOutput(p, i, SighashOf(p.ins[i]))
      BY <2>2, InputsOf, SighashOfType DEF Signable
    <3>2. PrevOf(Digest(p, i, SighashOf(p.ins[i])), i) = p.ins[i].prev
      BY <3>1, DigestOnOwn
    <3>. QED  BY <2>2, <3>2, SignInputSigs
  <2>. QED  BY <1>1, <2>1, <2>2
<1>5. OnOwnInput(q)
  BY <1>1, <1>4, OnOwnKept DEF Sound
<1>. QED  BY <1>3, <1>5 DEF Sound, q

LEMMA FinalizeInputsSound ==
    ASSUME NEW p \in Psbts, NEW choice, Sound(p)
    PROVE  Sound(FinalizeInputs(p, choice))
<1>. DEFINE q == FinalizeInputs(p, choice)
<1>1. /\ DOMAIN q.ins = DOMAIN p.ins
      /\ \A i \in DOMAIN p.ins : \/ q.ins[i] = p.ins[i]
                                 \/ q.ins[i] = FinalizeInput(p.ins[i], choice[i])
  BY DEF FinalizeInputs, Psbts
<1>. HIDE DEF q
<1>2. \A in \in Inputs : \A s : /\ FinalizeInput(in, s).minTime = in.minTime
                            /\ FinalizeInput(in, s).minHeight = in.minHeight
  BY DEF FinalizeInput, Inputs
<1>3. Determinable(q)
  BY <1>1, <1>2, InputsOf, SameLocks DEF Sound
<1>4. \A i \in DOMAIN p.ins :
         q.ins[i].prev = p.ins[i].prev /\ SigsOf(q.ins[i]) \subseteq SigsOf(p.ins[i])
  BY FinalizeInputsLoses DEF Loses, q
<1>5. OnOwnInput(q)
  BY <1>1, <1>4, OnOwnKept DEF Sound
<1>. QED  BY <1>3, <1>5 DEF Sound, q

\* Inputs are matched by place, and the places agree on the outpoint.
LEMMA CombineSound ==
    ASSUME NEW this \in Psbts, NEW that \in Psbts, Sound(this), Sound(that),
           Combinable(this, that)
    PROVE  Sound(Combine(this, that))
<1>. DEFINE both == Combine(this, that)
<1>1. Determinable(both)
  BY DEF Combinable
<1>2. ASSUME NEW i \in DOMAIN this.ins
      PROVE  /\ both.ins[i].prev = this.ins[i].prev
             /\ \A sig \in SigsOf(both.ins[i]) : PrevOf(sig, i) = this.ins[i].prev
  <2>0. this.ins[i] \in Inputs
    BY InputsOf
  <2>1. \A sig \in SigsOf(this.ins[i]) : PrevOf(sig, i) = this.ins[i].prev
    BY DEF Sound, OnOwnInput, PrevOf
  <2>2. CASE i \in DOMAIN that.ins
    <3>1. this.ins[i].prev = that.ins[i].prev /\ that.ins[i] \in Inputs
      BY <2>2, InputsOf DEF Combinable, SameTxParts, Both
    <3>2. \A sig \in SigsOf(that.ins[i]) : PrevOf(sig, i) = this.ins[i].prev
      BY <2>2, <3>1 DEF Sound, OnOwnInput, PrevOf
    <3>3. both.ins[i] = CombineInput(this.ins[i], that.ins[i])
      BY <2>2, CombineShape
    <3>. HIDE DEF both
    <3>. QED  BY <2>0, <2>1, <3>1, <3>2, <3>3, CombineInputSigs
  <2>3. CASE i \notin DOMAIN that.ins
    BY <2>1, <2>3, CombineShape
  <2>. QED  BY <2>2, <2>3
<1>3. DOMAIN both.ins = DOMAIN this.ins
  BY CombineShape
<1>. HIDE DEF both
<1>4. OnOwnInput(both)
  BY <1>2, <1>3, OnOwnKept DEF Sound
<1>. QED  BY <1>1, <1>4 DEF Sound, both

-----------------------------------------------------------------------------

LEMMA InitIInv == Init => IInv
<1>. SUFFICES ASSUME Init PROVE IInv
  OBVIOUS
<1>1. PICK draft \in Drafts : psbts = [h \in Holders |-> draft]
  BY DEF Init
<1>2. /\ draft \in Psbts /\ Determinable(draft)
      /\ \A i \in DOMAIN draft.ins : SigsOf(draft.ins[i]) = {}
  BY <1>1, PsbtExchangeAssumption
<1>3. Sound(draft)
  BY <1>2 DEF Sound, OnOwnInput
<1>4. TypeOK
  BY <1>1, <1>2 DEF Init, TypeOK
<1>. QED  BY <1>1, <1>3, <1>4 DEF Init, IInv

\* A holder's turn: a sound PSBT of its own, nothing sent.
LEMMA TurnIInv ==
    ASSUME IInv, NEW h \in Holders, NEW p \in Psbts, Sound(p), Become(h, p),
           wire' = wire, got' \in [Holders -> SUBSET (Keys \X Nat)]
    PROVE  IInv'
<1>1. psbts' = [psbts EXCEPT ![h] = p] /\ psbts \in [Holders -> Psbts]
  BY DEF Become, IInv, TypeOK
<1>2. psbts' \in [Holders -> Psbts] /\ \A g \in Holders : Sound(psbts'[g])
  BY <1>1 DEF IInv
<1>. QED  BY <1>2 DEF IInv, TypeOK

LEMMA NextIInv == IInv /\ [Next]_vars => IInv'
<1>. SUFFICES ASSUME IInv, [Next]_vars PROVE IInv'
  OBVIOUS
<1>0. /\ psbts \in [Holders -> Psbts]
      /\ got \in [Holders -> SUBSET (Keys \X Nat)]
      /\ \A h \in Holders : psbts[h] \in Psbts /\ Sound(psbts[h])
      /\ \A copy \in wire : /\ copy.psbt \in Psbts /\ Sound(copy.psbt)
                            /\ copy.got \in SUBSET (Keys \X Nat)
  BY DEF IInv, TypeOK
<1>1. ASSUME NEW h \in Holders, NEW new \in NewInputs, Construct(h, new)
      PROVE  IInv'
  <2>. DEFINE p == AddInput(psbts[h], NewInput(new.prev, new.minTime, new.minHeight))
  <2>1. new.prev \in OutPoints /\ new.minTime \in MinTimes /\ new.minHeight \in MinHeights
    BY PsbtExchangeAssumption
  <2>2. p \in Psbts /\ OnOwnInput(p)
    BY <1>0, <2>1, AddInputType, AddInputSound DEF Sound
  <2>3. Determinable(p) /\ Become(h, p) /\ wire' = wire /\ got' = got
    BY <1>1 DEF Construct
  <2>. HIDE DEF p
  <2>. QED  BY <1>0, <2>2, <2>3, TurnIInv DEF Sound
<1>2. ASSUME NEW h \in Holders, NEW out \in NewOutputs, ConstructOutput(h, out)
      PROVE  IInv'
  <2>1. out \in Outputs
    BY PsbtExchangeAssumption
  <2>2. AddOutput(psbts[h], out) \in Psbts /\ Sound(AddOutput(psbts[h], out))
    BY <1>0, <2>1, AddOutputType, AddOutputSound
  <2>. QED  BY <1>0, <1>2, <2>2, TurnIInv DEF ConstructOutput
<1>3. ASSUME NEW h \in Holders, NEW i \in DOMAIN psbts[h].ins, NEW u \in Updates,
             Update(h, i, u)
      PROVE  IInv'
  <2>. DEFINE p == UpdateInput(psbts[h], i, u.seq, u.sighash, u.minTime, u.minHeight)
  <2>1. /\ u.seq \in Sequences \cup {NoSequence} /\ u.sighash \in SighashTypes \cup {NoSighash}
        /\ u.minTime \in MinTimes /\ u.minHeight \in MinHeights
    BY PsbtExchangeAssumption
  <2>2. p \in Psbts /\ OnOwnInput(p)
    BY <1>0, <2>1, UpdateInputType, UpdateOnOwn DEF Sound
  <2>3. Determinable(p) /\ Become(h, p) /\ wire' = wire /\ got' = got
    BY <1>3 DEF Update
  <2>. HIDE DEF p
  <2>. QED  BY <1>0, <2>2, <2>3, TurnIInv DEF Sound
<1>4. ASSUME NEW h \in Holders, NEW chosen \in SUBSET DOMAIN psbts[h].ins, Sign(h, chosen)
      PROVE  IInv'
  <2>. DEFINE p == SignInputs(psbts[h], chosen, Held[h])
              made == UNION { (Held[h] \cap psbts[h].ins[i].named) \X {i} : i \in chosen }
  <2>1. Held[h] \in SUBSET Keys /\ \A i \in chosen : Signable(psbts[h], i)
    BY <1>4, PsbtExchangeAssumption DEF Sign
  <2>2. p \in Psbts /\ Sound(p)
    BY <1>0, <2>1, SignInputsType, SignInputsSound
  <2>3. made \in SUBSET (Keys \X Nat)
    <3>1. chosen \subseteq Nat
      BY <1>0, InputsOf
    <3>. QED  BY <2>1, <3>1
  <2>4. Become(h, p) /\ wire' = wire /\ got' = [got EXCEPT ![h] = @ \cup made]
    BY <1>4 DEF Sign
  <2>. HIDE DEF p, made
  <2>5. got' \in [Holders -> SUBSET (Keys \X Nat)]
    BY <1>0, <2>3, <2>4
  <2>. QED  BY <2>2, <2>4, <2>5, TurnIInv
<1>5. ASSUME NEW h \in Holders, NEW choice, Finalize(h, choice)
      PROVE  IInv'
  <2>1. FinalizeInputs(psbts[h], choice) \in Psbts /\ Sound(FinalizeInputs(psbts[h], choice))
    BY <1>0, <1>5, FinalizeInputsType, FinalizeInputsSound DEF Finalize
  <2>. QED  BY <1>0, <1>5, <2>1, TurnIInv DEF Finalize
<1>6. ASSUME NEW h \in Holders, Send(h)
      PROVE  IInv'
  <2>1. /\ wire' = wire \cup {[psbt |-> psbts[h], got |-> got[h]]}
        /\ psbts' = psbts /\ got' = got
    BY <1>6 DEF Send
  <2>. QED  BY <1>0, <2>1 DEF IInv, TypeOK
<1>7. ASSUME NEW h \in Holders, NEW copy \in wire, Receive(h, copy)
      PROVE  IInv'
  <2>. DEFINE p == Combine(psbts[h], copy.psbt)
              taken == { sig \in copy.got : sig[2] \in DOMAIN psbts[h].ins }
  <2>1. p \in Psbts /\ Sound(p)
    BY <1>0, <1>7, CombineType, CombineSound DEF Receive
  <2>2. Become(h, p) /\ wire' = wire /\ got' = [got EXCEPT ![h] = @ \cup taken]
    BY <1>7 DEF Receive
  <2>3. taken \in SUBSET (Keys \X Nat)
    BY <1>0
  <2>. HIDE DEF p, taken
  <2>4. got' \in [Holders -> SUBSET (Keys \X Nat)]
    BY <1>0, <2>2, <2>3
  <2>. QED  BY <2>1, <2>2, <2>4, TurnIInv
<1>8. CASE UNCHANGED vars
  BY <1>8 DEF vars, IInv, TypeOK
<1>. QED  BY <1>1, <1>2, <1>3, <1>4, <1>5, <1>6, <1>7, <1>8 DEF Next

THEOREM Invariance == Spec => []IInv
BY InitIInv, NextIInv, PTL DEF Spec

\* Combining PSBTs of different lengths, in any order, gives well typed ones.
THEOREM TypeCorrect == Spec => []TypeOK
<1>1. IInv => TypeOK
  BY DEF IInv
<1>. QED  BY <1>1, Invariance, PTL

\* However copies are built, combined and delivered, a signature is only found
\* on the input it was made for.
THEOREM SigsAlwaysOnOwnInput == Spec => []SigsOnOwnInput
<1>1. IInv => SigsOnOwnInput
  BY DEF IInv, Sound, SigsOnOwnInput
<1>. QED  BY <1>1, Invariance, PTL

\* No PSBT that changes hands is without a lock time.
THEOREM LockTimesAlwaysSurvive == Spec => []LockTimesSurvive
<1>1. IInv => LockTimesSurvive
  BY DEF IInv, Sound, LockTimesSurvive
<1>. QED  BY <1>1, Invariance, PTL

-----------------------------------------------------------------------------
(***************************************************************************)
(* While nobody updates or adds, all that is anywhere is the draft with     *)
(* signatures.  A copy may lag behind, and an input that was finalized      *)
(* loses its sighash type, its keys and its signatures, but gets them back  *)
(* when it is combined with a copy in which it is not: so "what the draft   *)
(* says" and "nothing" both have to be allowed, and what is recorded in got *)
(* describes the signature maps of the inputs that are not finalized.       *)
(***************************************************************************)

\* The signature input i of the draft d asks for.
DigestOf(d, i) == Digest(d, i, SighashOf(d.ins[i]))

\* Final scripts that pass the interpreter check in the draft's transaction.
Made(d, i, final) ==
    /\ final # NoFinal
    /\ \A k \in final.spending.keys : final.sigs[k] # NoSig /\ SigValid(final.sigs[k], d, i)
    /\ AfterHolds(final.spending.after, InputLockTime(d.ins[i]))

\* `in` is input i of the draft with the signatures recorded in g.
InputCopy(d, i, in, g) ==
    /\ \/ in.sighash = d.ins[i].sighash /\ in.named = d.ins[i].named
       \/ /\ IsFinalized(in)
          /\ in.sighash = NoSighash /\ in.named = {} /\ in.sigs = NoSigs
    /\ \A k \in Keys : in.sigs[k] # NoSig => Signable(d, i) /\ in.sigs[k] = DigestOf(d, i)
    /\ in.final = d.ins[i].final \/ Made(d, i, in.final)
    /\ ~IsFinalized(in) => \A k \in Keys : in.sigs[k] # NoSig <=> <<k, i>> \in g

CopyOf(d, p, g) ==
    /\ SameTxFields(p, d)
    /\ g \subseteq Keys \X DOMAIN d.ins
    /\ \A i \in DOMAIN d.ins : InputCopy(d, i, p.ins[i], g)

AllCopiesOf(d) ==
    /\ \A h \in Holders : CopyOf(d, psbts[h], got[h])
    /\ \A copy \in wire : CopyOf(d, copy.psbt, copy.got)

OneDraft == \E d \in Drafts : AllCopiesOf(d)

LEMMA DigestOfPresent ==
    ASSUME NEW d \in Psbts, NEW i \in DOMAIN d.ins, Signable(d, i)
    PROVE  DigestOf(d, i) # NoSig /\ SigValid(DigestOf(d, i), d, i)
<1>1. SighashOf(d.ins[i]) \in SighashTypes
  BY InputsOf, SighashOfType
<1>2. DigestOf(d, i) \in Sigs /\ DigestOf(d, i).type = SighashOf(d.ins[i])
  BY <1>1, DigestType DEF DigestOf, Signable
<1>. QED  BY <1>2, AbsentAssumption DEF DigestOf, SigValid, Signable

-----------------------------------------------------------------------------
(* The handlers, one input at a time.                                       *)

LEMMA SignedInputCopy ==
    ASSUME NEW d \in Psbts, NEW p \in Psbts, NEW g, CopyOf(d, p, g),
           NEW i \in DOMAIN p.ins, Signable(p, i),
           NEW held \in SUBSET Keys, held \cap p.ins[i].named # {},
           NEW more,
           \A k \in Keys : <<k, i>> \in more <=> <<k, i>> \in g \/ k \in held \cap p.ins[i].named
    PROVE  InputCopy(d, i, SignInput(p, i, held), more)
<1>. DEFINE in == p.ins[i]
            out == SignInput(p, i, held)
<1>0. in \in Inputs /\ i \in DOMAIN d.ins /\ InputCopy(d, i, in, g) /\ SameTxFields(p, d)
  BY InputsOf DEF CopyOf, SameTxFields
<1>1. in.sighash = d.ins[i].sighash /\ in.named = d.ins[i].named
  BY <1>0 DEF InputCopy
<1>2. SighashOf(in) = SighashOf(d.ins[i])
  BY <1>1 DEF SighashOf
<1>3. Digest(p, i, SighashOf(in)) = DigestOf(d, i) /\ Signable(d, i)
  BY <1>0, <1>2, SameDigest DEF DigestOf, Signable
<1>4. DigestOf(d, i) # NoSig
  BY <1>0, <1>3, DigestOfPresent
<1>5. /\ out.sighash = in.sighash /\ out.named = in.named /\ out.final = in.final
      /\ \A k \in Keys : out.sigs[k] = IF k \in held \cap in.named THEN DigestOf(d, i)
                                                                    ELSE in.sigs[k]
  BY <1>0, <1>3 DEF SignInput, Inputs
<1>. HIDE DEF in, out
<1>6. \A k \in Keys : out.sigs[k] # NoSig => Signable(d, i) /\ out.sigs[k] = DigestOf(d, i)
  BY <1>0, <1>3, <1>5 DEF InputCopy
<1>7. ~IsFinalized(out) => \A k \in Keys : out.sigs[k] # NoSig <=> <<k, i>> \in more
  BY <1>0, <1>4, <1>5 DEF InputCopy, IsFinalized, in
<1>. QED  BY <1>0, <1>1, <1>5, <1>6, <1>7 DEF InputCopy, out

LEMMA CombinedInputCopy ==
    ASSUME NEW d, NEW i, NEW this \in Inputs, NEW that \in Inputs, NEW g, NEW h,
           InputCopy(d, i, this, g), InputCopy(d, i, that, h)
    PROVE  InputCopy(d, i, CombineInput(this, that), g \cup h)
<1>. DEFINE both == CombineInput(this, that)
<1>1. /\ both.sighash = CombineOption(this.sighash, that.sighash, NoSighash)
      /\ both.named = this.named \cup that.named
      /\ both.sigs = CombineMap(this.sigs, that.sigs, NoSig)
      /\ both.final = CombineOption(this.final, that.final, NoFinal)
  BY DEF CombineInput, Inputs
<1>. HIDE DEF both
<1>2. DOMAIN this.sigs = Keys /\ DOMAIN that.sigs = Keys
  BY DEF Inputs, SigMaps
<1>3. \A k \in Keys : both.sigs[k] = IF that.sigs[k] # NoSig THEN that.sigs[k] ELSE this.sigs[k]
  BY <1>1, <1>2 DEF CombineMap
<1>4. /\ IsFinalized(both) <=> IsFinalized(this) \/ IsFinalized(that)
      /\ both.final \in {this.final, that.final}
  BY <1>1 DEF IsFinalized, CombineOption
<1>5. \/ both.sighash = d.ins[i].sighash /\ both.named = d.ins[i].named
      \/ /\ IsFinalized(both)
         /\ both.sighash = NoSighash /\ both.named = {} /\ both.sigs = NoSigs
  <2>. DEFINE Full(in) == in.sighash = d.ins[i].sighash /\ in.named = d.ins[i].named
              Bare(in) == /\ IsFinalized(in)
                          /\ in.sighash = NoSighash /\ in.named = {} /\ in.sigs = NoSigs
  <2>1. (Full(this) \/ Bare(this)) /\ (Full(that) \/ Bare(that))
    BY DEF InputCopy
  <2>2. CASE Full(this) \/ Full(that)
    BY <1>1, <2>1, <2>2 DEF CombineOption
  <2>3. CASE Bare(this) /\ Bare(that)
    <3>1. both.sigs = NoSigs
      BY <1>1, <2>3 DEF CombineMap, NoSigs
    <3>. QED  BY <1>1, <1>4, <2>3, <3>1 DEF CombineOption
  <2>. QED  BY <2>1, <2>2, <2>3
<1>6. \A k \in Keys : both.sigs[k] # NoSig => Signable(d, i) /\ both.sigs[k] = DigestOf(d, i)
  BY <1>3 DEF InputCopy
<1>7. both.final = d.ins[i].final \/ Made(d, i, both.final)
  BY <1>4 DEF InputCopy
<1>8. ~IsFinalized(both) => \A k \in Keys : both.sigs[k] # NoSig <=> <<k, i>> \in g \cup h
  BY <1>3, <1>4 DEF InputCopy
<1>. QED  BY <1>5, <1>6, <1>7, <1>8 DEF InputCopy, both

-----------------------------------------------------------------------------
(* The handlers, and the steps.                                             *)

LEMMA SignCopy ==
    ASSUME NEW d \in Psbts, NEW p \in Psbts, NEW g, CopyOf(d, p, g),
           NEW chosen \in SUBSET DOMAIN p.ins, NEW held \in SUBSET Keys,
           \A i \in chosen : Signable(p, i)
    PROVE  CopyOf(d, SignInputs(p, chosen, held),
                  g \cup UNION { (held \cap p.ins[i].named) \X {i} : i \in chosen })
<1>. DEFINE q == SignInputs(p, chosen, held)
            signed == { i \in chosen : held \cap p.ins[i].named # {} }
            more == g \cup UNION { (held \cap p.ins[i].named) \X {i} : i \in chosen }
<1>1. /\ DOMAIN q.ins = DOMAIN p.ins /\ q.outs = p.outs /\ q.fallback = p.fallback
      /\ \A i \in DOMAIN p.ins :
            q.ins[i] = IF i \in signed THEN SignInput(p, i, held) ELSE p.ins[i]
  BY DEF SignInputs, Psbts
<1>2. \A i \in DOMAIN p.ins :
         LET in == SignInput(p, i, held)
         IN /\ in.prev = p.ins[i].prev /\ in.seq = p.ins[i].seq
            /\ in.minTime = p.ins[i].minTime /\ in.minHeight = p.ins[i].minHeight
  BY InputsOf DEF SignInput, Inputs
<1>3. \A i \in DOMAIN p.ins, k \in Keys :
         <<k, i>> \in more <=> <<k, i>> \in g \/ (i \in chosen /\ k \in held \cap p.ins[i].named)
  OBVIOUS
<1>4. DOMAIN p.ins = DOMAIN d.ins /\ g \subseteq Keys \X DOMAIN d.ins
  BY DEF CopyOf, SameTxFields
<1>5. more \subseteq Keys \X DOMAIN d.ins
  BY <1>4
<1>. HIDE DEF q, more
<1>6. SameTxFields(q, d)
  BY <1>1, <1>2 DEF CopyOf, SameTxFields
<1>7. ASSUME NEW i \in DOMAIN d.ins PROVE InputCopy(d, i, q.ins[i], more)
  <2>1. CASE i \in signed
    BY <1>1, <1>3, <1>4, <2>1, SignedInputCopy
  <2>2. CASE i \notin signed
    <3>1. q.ins[i] = p.ins[i] /\ \A k \in Keys : <<k, i>> \in more <=> <<k, i>> \in g
      BY <1>1, <1>3, <1>4, <2>2
    <3>. QED  BY <3>1 DEF CopyOf, InputCopy
  <2>. QED  BY <2>1, <2>2
<1>. QED  BY <1>5, <1>6, <1>7 DEF CopyOf, q, more

LEMMA FinalizeShape ==
    ASSUME NEW d, NEW p \in Psbts, NEW choice, SameTxFields(p, d)
    PROVE  LET q == FinalizeInputs(p, choice)
           IN /\ SameTxFields(q, d)
              /\ DOMAIN q.ins = DOMAIN p.ins
              /\ \A i \in DOMAIN p.ins :
                    q.ins[i] = IF IsFinalized(p.ins[i]) THEN p.ins[i]
                               ELSE FinalizeInput(p.ins[i], choice[i])
<1>. DEFINE q == FinalizeInputs(p, choice)
<1>1. /\ DOMAIN q.ins = DOMAIN p.ins /\ q.outs = p.outs /\ q.fallback = p.fallback
      /\ \A i \in DOMAIN p.ins : q.ins[i] = IF IsFinalized(p.ins[i]) THEN p.ins[i]
                                            ELSE FinalizeInput(p.ins[i], choice[i])
  BY DEF FinalizeInputs, Psbts
<1>2. ASSUME NEW i \in DOMAIN p.ins
      PROVE  LET out == FinalizeInput(p.ins[i], choice[i])
             IN /\ out.prev = p.ins[i].prev /\ out.seq = p.ins[i].seq
                /\ out.minTime = p.ins[i].minTime /\ out.minHeight = p.ins[i].minHeight
  <2>1. p.ins[i] \in Inputs
    BY InputsOf
  <2>. QED  BY <2>1, FinalizeInputFields
<1>. HIDE DEF q
<1>3. SameTxFields(q, d)
  BY <1>1, <1>2 DEF SameTxFields
<1>. QED  BY <1>1, <1>3 DEF q

LEMMA FinalizeCopy ==
    ASSUME NEW d \in Psbts, NEW p \in Psbts, NEW g, CopyOf(d, p, g), NEW choice,
           Finalizable(p, choice), InterpreterCheck(FinalizeInputs(p, choice))
    PROVE  CopyOf(d, FinalizeInputs(p, choice), g)
<1>. DEFINE q == FinalizeInputs(p, choice)
<1>1. /\ SameTxFields(p, d) /\ SameTxFields(q, d) /\ InterpreterCheck(q)
      /\ DOMAIN q.ins = DOMAIN p.ins
      /\ \A i \in DOMAIN p.ins : q.ins[i] = IF IsFinalized(p.ins[i]) THEN p.ins[i]
                                            ELSE FinalizeInput(p.ins[i], choice[i])
  BY FinalizeShape DEF CopyOf
<1>. HIDE DEF q
<1>2. ASSUME NEW i \in DOMAIN d.ins PROVE InputCopy(d, i, q.ins[i], g)
  <2>1. i \in DOMAIN p.ins /\ p.ins[i] \in Inputs /\ InputCopy(d, i, p.ins[i], g)
    BY <1>1, InputsOf DEF CopyOf, SameTxFields
  <2>2. CASE IsFinalized(p.ins[i])
    BY <1>1, <2>1, <2>2
  <2>3. CASE ~IsFinalized(p.ins[i])
    <3>1. q.ins[i] = FinalizeInput(p.ins[i], choice[i]) /\ choice[i] \in Spendings[p.ins[i].prev]
      BY <1>1, <2>1, <2>3 DEF Finalizable
    <3>2. q.ins[i].final # NoFinal
      BY <2>1, <3>1, FinalizeInputFinal, AbsentAssumption
    <3>3. Made(d, i, q.ins[i].final)
      BY <1>1, <2>1, <3>2, SameDigest
      DEF InterpreterCheck, FinalSigsValid, SigValid, Made
    <3>4. /\ q.ins[i].sighash = NoSighash /\ q.ins[i].named = {} /\ q.ins[i].sigs = NoSigs
          /\ \A k \in Keys : q.ins[i].sigs[k] = NoSig
      BY <2>1, <3>1, FinalizeInputFields DEF NoSigs
    <3>. QED  BY <3>2, <3>3, <3>4 DEF InputCopy, IsFinalized
  <2>. QED  BY <2>2, <2>3
<1>. QED  BY <1>1, <1>2 DEF CopyOf, q

LEMMA CombineCopy ==
    ASSUME NEW d \in Psbts, NEW this \in Psbts, NEW that \in Psbts, NEW g, NEW h,
           CopyOf(d, this, g), CopyOf(d, that, h)
    PROVE  CopyOf(d, Combine(this, that), g \cup { sig \in h : sig[2] \in DOMAIN this.ins })
<1>. DEFINE both == Combine(this, that)
<1>1. /\ DOMAIN this.ins = DOMAIN d.ins /\ DOMAIN that.ins = DOMAIN d.ins
      /\ g \subseteq Keys \X DOMAIN d.ins /\ h \subseteq Keys \X DOMAIN d.ins
  BY DEF CopyOf, SameTxFields
<1>2. { sig \in h : sig[2] \in DOMAIN this.ins } = h
  BY <1>1
<1>3. /\ DOMAIN both.ins = DOMAIN d.ins /\ both.outs = this.outs
      /\ both.fallback = this.fallback
      /\ \A i \in DOMAIN d.ins : both.ins[i] = CombineInput(this.ins[i], that.ins[i])
  BY <1>1, CombineShape
<1>4. \A i \in DOMAIN d.ins : this.ins[i] \in Inputs /\ that.ins[i] \in Inputs
  BY <1>1, InputsOf
<1>. HIDE DEF both
<1>5. ASSUME NEW i \in DOMAIN d.ins PROVE InputCopy(d, i, both.ins[i], g \cup h)
  BY <1>3, <1>4, CombinedInputCopy DEF CopyOf
<1>6. ASSUME NEW i \in DOMAIN d.ins
      PROVE  /\ both.ins[i].prev = d.ins[i].prev /\ both.ins[i].seq = d.ins[i].seq
             /\ both.ins[i].minTime = d.ins[i].minTime
             /\ both.ins[i].minHeight = d.ins[i].minHeight
  <2>. DEFINE this1 == this.ins[i]
              that1 == that.ins[i]
  <2>1. /\ this1.prev = d.ins[i].prev
        /\ this1.seq = d.ins[i].seq /\ that1.seq = d.ins[i].seq
        /\ this1.minTime = d.ins[i].minTime /\ that1.minTime = d.ins[i].minTime
        /\ this1.minHeight = d.ins[i].minHeight /\ that1.minHeight = d.ins[i].minHeight
    BY DEF CopyOf, SameTxFields
  <2>2. this1 \in Inputs /\ both.ins[i] = CombineInput(this1, that1)
    BY <1>3, <1>4
  <2>. HIDE DEF this1, that1
  <2>. QED  BY <2>1, <2>2 DEF CombineInput, CombineOption, Inputs
<1>7. SameTxFields(both, d)
  BY <1>3, <1>6 DEF CopyOf, SameTxFields
<1>. QED  BY <1>1, <1>2, <1>5, <1>7 DEF CopyOf, both

LEMMA AddOutputCopy ==
    ASSUME NEW d, NEW p \in Psbts, NEW g, NEW out, CopyOf(d, p, g), d.ins = <<>>
    PROVE  CopyOf(d, AddOutput(p, out), g)
<1>1. AddOutput(p, out).ins = p.ins /\ AddOutput(p, out).fallback = p.fallback
  BY DEF AddOutput, Psbts
<1>. QED  BY <1>1 DEF CopyOf, SameTxFields

\* What is left to show of a turn: the holder still has a copy.
LEMMA TurnCopy ==
    ASSUME IInv, NEW d \in Drafts, AllCopiesOf(d), NEW h \in Holders,
           NEW p, NEW g, CopyOf(d, p, g), Become(h, p), wire' = wire,
           got' = [got EXCEPT ![h] = g]
    PROVE  AllCopiesOf(d)'
<1>1. /\ psbts' = [psbts EXCEPT ![h] = p] /\ psbts \in [Holders -> Psbts]
      /\ got \in [Holders -> SUBSET (Keys \X Nat)]
  BY DEF Become, IInv, TypeOK
<1>2. \A f \in Holders : /\ psbts'[f] = IF f = h THEN p ELSE psbts[f]
                         /\ got'[f] = IF f = h THEN g ELSE got[f]
  BY <1>1
<1>. QED  BY <1>2 DEF AllCopiesOf

LEMMA InitOneDraft == Init => OneDraft
<1>. SUFFICES ASSUME Init PROVE OneDraft
  OBVIOUS
<1>1. PICK d \in Drafts : psbts = [h \in Holders |-> d]
  BY DEF Init
<1>2. d \in Psbts /\ \A i \in DOMAIN d.ins : SigsOf(d.ins[i]) = {}
  BY PsbtExchangeAssumption
<1>3. \A i \in DOMAIN d.ins, k \in Keys : d.ins[i].sigs[k] = NoSig
  BY <1>2 DEF SigsOf
<1>4. CopyOf(d, d, {})
  BY <1>3 DEF CopyOf, SameTxFields, InputCopy
<1>. QED  BY <1>1, <1>4 DEF Init, OneDraft, AllCopiesOf

LEMMA NextOneDraft ==
    ASSUME NobodyAdds
    PROVE  IInv /\ OneDraft /\ [Next]_vars => OneDraft'
<1>. SUFFICES ASSUME IInv, [Next]_vars, NEW d \in Drafts, AllCopiesOf(d)
              PROVE  AllCopiesOf(d)'
  BY DEF OneDraft
<1>0. /\ d \in Psbts
      /\ got \in [Holders -> SUBSET (Keys \X Nat)]
      /\ \A h \in Holders : psbts[h] \in Psbts /\ CopyOf(d, psbts[h], got[h])
      /\ \A copy \in wire : copy.psbt \in Psbts /\ CopyOf(d, copy.psbt, copy.got)
  BY PsbtExchangeAssumption DEF IInv, TypeOK, AllCopiesOf
<1>1. NewInputs = {} /\ Updates = {}
  BY DEF NobodyAdds
<1>2. ASSUME NEW h \in Holders, NEW out \in NewOutputs, ConstructOutput(h, out)
      PROVE  AllCopiesOf(d)'
  <2>1. d.ins = <<>>
    <3>1. Len(psbts[h].outs) < MaxOutputs
      BY <1>2 DEF ConstructOutput
    <3>2. Len(d.outs) \in Nat /\ MaxOutputs \in Nat
      BY <1>0, InputsOf, PsbtExchangeAssumption
    <3>3. d.ins # <<>> => psbts[h].outs = d.outs /\ MaxOutputs <= Len(d.outs)
      BY <1>0 DEF NobodyAdds, CopyOf, SameTxFields
    <3>. QED  BY <3>1, <3>2, <3>3
  <2>2. CopyOf(d, AddOutput(psbts[h], out), got[h])
    BY <1>0, <2>1, AddOutputCopy
  <2>3. got' = [got EXCEPT ![h] = got[h]]
    BY <1>0, <1>2 DEF ConstructOutput
  <2>. QED  BY <1>2, <2>2, <2>3, TurnCopy DEF ConstructOutput
<1>3. ASSUME NEW h \in Holders, NEW chosen \in SUBSET DOMAIN psbts[h].ins, Sign(h, chosen)
      PROVE  AllCopiesOf(d)'
  <2>. DEFINE p == SignInputs(psbts[h], chosen, Held[h])
              more == got[h] \cup
                        UNION { (Held[h] \cap psbts[h].ins[i].named) \X {i} : i \in chosen }
  <2>1. Held[h] \in SUBSET Keys /\ \A i \in chosen : Signable(psbts[h], i)
    BY <1>3, PsbtExchangeAssumption DEF Sign
  <2>2. CopyOf(d, p, more)
    BY <1>0, <2>1, SignCopy
  <2>3. Become(h, p) /\ wire' = wire /\ got' = [got EXCEPT ![h] = more]
    BY <1>3 DEF Sign
  <2>. HIDE DEF p, more
  <2>. QED  BY <2>2, <2>3, TurnCopy
<1>4. ASSUME NEW h \in Holders, NEW choice, Finalize(h, choice)
      PROVE  AllCopiesOf(d)'
  <2>1. CopyOf(d, FinalizeInputs(psbts[h], choice), got[h])
    BY <1>0, <1>4, FinalizeCopy DEF Finalize
  <2>2. got' = [got EXCEPT ![h] = got[h]]
    BY <1>0, <1>4 DEF Finalize
  <2>. QED  BY <1>4, <2>1, <2>2, TurnCopy DEF Finalize
<1>5. ASSUME NEW h \in Holders, Send(h)
      PROVE  AllCopiesOf(d)'
  <2>1. /\ wire' = wire \cup {[psbt |-> psbts[h], got |-> got[h]]}
        /\ psbts' = psbts /\ got' = got
    BY <1>5 DEF Send
  <2>. QED  BY <1>0, <2>1 DEF AllCopiesOf
<1>6. ASSUME NEW h \in Holders, NEW copy \in wire, Receive(h, copy)
      PROVE  AllCopiesOf(d)'
  <2>. DEFINE p == Combine(psbts[h], copy.psbt)
              more == got[h] \cup { sig \in copy.got : sig[2] \in DOMAIN psbts[h].ins }
  <2>1. CopyOf(d, p, more)
    BY <1>0, CombineCopy
  <2>2. Become(h, p) /\ wire' = wire /\ got' = [got EXCEPT ![h] = more]
    BY <1>6 DEF Receive
  <2>. HIDE DEF p, more
  <2>. QED  BY <2>1, <2>2, TurnCopy
<1>7. CASE UNCHANGED vars
  BY <1>7 DEF vars, AllCopiesOf
<1>. QED  BY <1>1, <1>2, <1>3, <1>4, <1>5, <1>6, <1>7 DEF Next

THEOREM OneDraftInvariance ==
    ASSUME NobodyAdds
    PROVE  Spec => [](IInv /\ OneDraft)
<1>1. IInv /\ OneDraft /\ [Next]_vars => OneDraft'
  BY NextOneDraft
<1>. QED  BY <1>1, InitOneDraft, InitIInv, NextIInv, PTL DEF Spec

\* A signature that reached a holder stays with its PSBT and stays valid, or is
\* in the final scripts: Psbt::combine_with, Signer::apply and the Finalizer,
\* in whatever order the copies arrive.
THEOREM GatheredSigsAlwaysStay ==
    ASSUME NobodyAdds
    PROVE  Spec => []GatheredSigsStay
<1>1. IInv /\ OneDraft => GatheredSigsStay
  <2>. SUFFICES ASSUME IInv, NEW d \in Drafts, AllCopiesOf(d), NEW h \in Holders,
                       NEW sig \in got[h], ~IsFinalized(psbts[h].ins[sig[2]])
                PROVE  /\ psbts[h].ins[sig[2]].sigs[sig[1]] # NoSig
                       /\ SigValid(psbts[h].ins[sig[2]].sigs[sig[1]], psbts[h], sig[2])
    BY DEF OneDraft, GatheredSigsStay
  <2>1. PICK k \in Keys, i \in DOMAIN d.ins : sig = <<k, i>>
    BY DEF AllCopiesOf, CopyOf
  <2>. DEFINE p == psbts[h]
  <2>2. d \in Psbts /\ SameTxFields(p, d) /\ InputCopy(d, i, p.ins[i], got[h])
    BY PsbtExchangeAssumption DEF AllCopiesOf, CopyOf
  <2>3. /\ p.ins[i].sigs[k] # NoSig
        /\ p.ins[i].sigs[k] = DigestOf(d, i) /\ Signable(d, i)
    BY <2>1, <2>2 DEF InputCopy
  <2>4. SigValid(DigestOf(d, i), p, i)
    BY <2>2, <2>3, DigestOfPresent, SameDigest DEF SigValid
  <2>. QED  BY <2>1, <2>3, <2>4
<1>. QED  BY <1>1, OneDraftInvariance, PTL

\* Holders whom the same signatures reached have the same inputs, however often
\* and in whatever order the copies came (Psbt::combine_with).
THEOREM HoldersAlwaysConverge ==
    ASSUME NobodyAdds
    PROVE  Spec => []HoldersConverge
<1>1. IInv /\ OneDraft => HoldersConverge
  <2>. SUFFICES ASSUME IInv, NEW d \in Drafts, AllCopiesOf(d),
                       NEW e \in Holders, NEW h \in Holders, got[e] = got[h],
                       \A i \in DOMAIN psbts[e].ins : ~IsFinalized(psbts[e].ins[i]),
                       \A i \in DOMAIN psbts[h].ins : ~IsFinalized(psbts[h].ins[i])
                PROVE  psbts[e].ins = psbts[h].ins
    BY DEF OneDraft, HoldersConverge
  <2>. DEFINE p == psbts[e]
              q == psbts[h]
  <2>1. p \in Psbts /\ q \in Psbts /\ CopyOf(d, p, got[h]) /\ CopyOf(d, q, got[h])
    BY DEF IInv, TypeOK, AllCopiesOf
  <2>2. DOMAIN p.ins = DOMAIN d.ins /\ DOMAIN q.ins = DOMAIN d.ins
    BY <2>1 DEF CopyOf, SameTxFields
  <2>3. ASSUME NEW i \in DOMAIN d.ins PROVE p.ins[i] = q.ins[i]
    <3>. DEFINE this == p.ins[i]
                that == q.ins[i]
    <3>1. this \in Inputs /\ that \in Inputs /\ ~IsFinalized(this) /\ ~IsFinalized(that)
      BY <2>1, <2>2, InputsOf
    <3>2. /\ this.prev = that.prev /\ this.seq = that.seq
          /\ this.minTime = that.minTime /\ this.minHeight = that.minHeight
      BY <2>1 DEF CopyOf, SameTxFields
    <3>3. InputCopy(d, i, this, got[h]) /\ InputCopy(d, i, that, got[h])
      BY <2>1 DEF CopyOf
    <3>. HIDE DEF this, that
    <3>4. this.sighash = that.sighash /\ this.named = that.named /\ this.final = that.final
      BY <3>1, <3>3 DEF InputCopy, IsFinalized
    <3>5. \A k \in Keys : this.sigs[k] = that.sigs[k]
      BY <3>1, <3>3 DEF InputCopy
    <3>6. this.sigs = that.sigs
      <4>1. this.sigs \in SigMaps /\ that.sigs \in SigMaps
        BY <3>1 DEF Inputs
      <4>. QED  BY <3>5, <4>1 DEF SigMaps
    <3>7. this = that
      BY <3>1, <3>2, <3>4, <3>6 DEF Inputs
    <3>. QED  BY <3>7 DEF this, that
  <2>4. p.ins \in [DOMAIN d.ins -> Inputs] /\ q.ins \in [DOMAIN d.ins -> Inputs]
    BY <2>1, <2>2, InputsOf
  <2>. QED  BY <2>3, <2>4
<1>. QED  BY <1>1, OneDraftInvariance, PTL

LEMMA CompleteInput ==
    ASSUME NEW d \in Psbts, NEW p \in Psbts, NEW g, CopyOf(d, p, g), NEW i \in DOMAIN p.ins,
           ~IsFinalized(p.ins[i]), KeysOf(p.ins[i].prev) \X {i} \subseteq g,
           NEW spending \in Spendings[p.ins[i].prev], CheckAfter(d.ins[i], spending.after)
    PROVE  /\ Satisfiable(p.ins[i], spending)
           /\ \A k \in spending.keys : /\ k \in Keys
                                       /\ p.ins[i].sigs[k] = DigestOf(d, i)
                                       /\ Signable(d, i)
<1>. DEFINE in == p.ins[i]
<1>1. in \in Inputs /\ SameTxFields(p, d) /\ i \in DOMAIN d.ins /\ InputCopy(d, i, in, g)
  BY InputsOf DEF CopyOf, SameTxFields
<1>2. spending.keys \subseteq Keys /\ spending.keys \subseteq KeysOf(in.prev)
  BY <1>1, PsbtAssumption DEF KeysOf, Inputs
<1>3. \A k \in spending.keys : in.sigs[k] # NoSig
  BY <1>1, <1>2 DEF InputCopy
<1>4. in.minTime = d.ins[i].minTime /\ in.minHeight = d.ins[i].minHeight
  BY <1>1 DEF SameTxFields
<1>5. CheckAfter(in, spending.after)
  <2>. HIDE DEF in
  <2>. QED  BY <1>4 DEF CheckAfter
<1>6. \A k \in spending.keys : in.sigs[k] = DigestOf(d, i) /\ Signable(d, i)
  BY <1>1, <1>2, <1>3 DEF InputCopy
<1>. QED  BY <1>2, <1>3, <1>5, <1>6 DEF Satisfiable

\* A holder whom all signatures reached can finalize, unless no way to spend an
\* input would have been possible from the start.
THEOREM CompleteAlwaysFinalizes ==
    ASSUME NobodyAdds, DraftsSpendable
    PROVE  Spec => []CompleteFinalizes
<1>1. IInv /\ OneDraft => CompleteFinalizes
  <2>. SUFFICES ASSUME IInv, NEW d \in Drafts, AllCopiesOf(d), NEW h \in Holders,
                       \A i \in DOMAIN psbts[h].ins :
                          KeysOf(psbts[h].ins[i].prev) \X {i} \subseteq got[h]
                PROVE  LET p == psbts[h]
                       IN /\ \A i \in DOMAIN p.ins : SighashesAgree(p.ins[i])
                          /\ \E choice \in [DOMAIN p.ins ->
                                   UNION { Spendings[p.ins[i].prev] : i \in DOMAIN p.ins }] :
                                Finalizable(p, choice)
                                  /\ InterpreterCheck(FinalizeInputs(p, choice))
    BY DEF OneDraft, CompleteFinalizes
  <2>. DEFINE p == psbts[h]
              Fits(i, s) == /\ s \in Spendings[p.ins[i].prev]
                            /\ CheckAfter(d.ins[i], s.after)
                            /\ AfterHolds(s.after, InputLockTime(d.ins[i]))
              choice == [i \in DOMAIN p.ins |-> CHOOSE s \in Spendings[p.ins[i].prev] : Fits(i, s)]
              q == FinalizeInputs(p, choice)
  <2>1. /\ d \in Psbts /\ p \in Psbts /\ CopyOf(d, p, got[h]) /\ SameTxFields(p, d)
        /\ DOMAIN p.ins = DOMAIN d.ins
    BY PsbtExchangeAssumption DEF IInv, TypeOK, AllCopiesOf, CopyOf, SameTxFields
  <2>2. \A i \in DOMAIN p.ins : Fits(i, choice[i])
    <3>1. \A i \in DOMAIN p.ins : \E s \in Spendings[p.ins[i].prev] : Fits(i, s)
      BY <2>1 DEF DraftsSpendable, SameTxFields
    <3>. QED  BY <3>1
  <2>3. choice \in [DOMAIN p.ins -> UNION { Spendings[p.ins[i].prev] : i \in DOMAIN p.ins }]
    BY <2>2
  <2>. HIDE DEF p, choice
  <2>4. \A i \in DOMAIN p.ins : ~IsFinalized(p.ins[i]) =>
           /\ Satisfiable(p.ins[i], choice[i])
           /\ \A k \in choice[i].keys : k \in Keys /\ p.ins[i].sigs[k] = DigestOf(d, i)
                                                  /\ Signable(d, i)
    BY <2>1, <2>2, CompleteInput DEF p
  <2>5. Finalizable(p, choice)
    BY <2>2, <2>4 DEF Finalizable
  <2>6. ASSUME NEW i \in DOMAIN p.ins PROVE SighashesAgree(p.ins[i])
    <3>1. InputCopy(d, i, p.ins[i], got[h]) /\ i \in DOMAIN d.ins
      BY <2>1 DEF CopyOf
    <3>2. Signable(d, i) => DigestOf(d, i).type = SighashOf(d.ins[i])
      BY <2>1, <3>1 DEF DigestOf, Digest
    <3>3. CASE p.ins[i].sighash = d.ins[i].sighash
      BY <3>1, <3>2, <3>3 DEF InputCopy, SighashesAgree, SighashOf
    <3>4. CASE p.ins[i].sigs = NoSigs
      BY <3>4 DEF SighashesAgree, NoSigs
    <3>. QED  BY <3>1, <3>3, <3>4 DEF InputCopy
  <2>7. InterpreterCheck(q)
    <3>1. /\ SameTxFields(q, d) /\ DOMAIN q.ins = DOMAIN p.ins
          /\ \A i \in DOMAIN p.ins : q.ins[i] = IF IsFinalized(p.ins[i]) THEN p.ins[i]
                                                ELSE FinalizeInput(p.ins[i], choice[i])
      BY <2>1, FinalizeShape
    <3>. HIDE DEF q
    <3>2. ASSUME NEW i \in DOMAIN p.ins
          PROVE  LET final == q.ins[i].final
                 IN /\ \A k \in final.spending.keys : /\ final.sigs[k] # NoSig
                                                      /\ SigValid(final.sigs[k], d, i)
                    /\ AfterHolds(final.spending.after, InputLockTime(d.ins[i]))
      <4>1. p.ins[i] \in Inputs /\ InputCopy(d, i, p.ins[i], got[h]) /\ i \in DOMAIN d.ins
        BY <2>1, InputsOf DEF CopyOf
      <4>2. CASE IsFinalized(p.ins[i])
        <5>1. Made(d, i, p.ins[i].final)
          BY <4>1, <4>2 DEF InputCopy, IsFinalized, DraftsSpendable
        <5>. QED  BY <3>1, <4>2, <5>1 DEF Made
      <4>3. CASE ~IsFinalized(p.ins[i])
        <5>0. q.ins[i] = FinalizeInput(p.ins[i], choice[i])
          BY <3>1, <4>3
        <5>1. /\ q.ins[i].final.spending = choice[i]
              /\ \A k \in Keys : k \in choice[i].keys =>
                    q.ins[i].final.sigs[k] = p.ins[i].sigs[k]
          <6>1. p.ins[i] \in Inputs
            BY <4>1
          <6>2. /\ FinalizeInput(p.ins[i], choice[i]).final.spending = choice[i]
                /\ \A k \in Keys : FinalizeInput(p.ins[i], choice[i]).final.sigs[k]
                                     = IF k \in choice[i].keys THEN p.ins[i].sigs[k] ELSE NoSig
            BY <6>1, FinalizeInputFields
          <6>. QED  BY <5>0, <6>2
        <5>2. \A k \in choice[i].keys : q.ins[i].final.sigs[k] = DigestOf(d, i) /\ Signable(d, i)
          BY <2>4, <4>3, <5>1
        <5>. QED  BY <2>1, <2>2, <4>1, <5>1, <5>2, DigestOfPresent
      <4>. QED  BY <4>2, <4>3
    <3>3. \A i \in DOMAIN p.ins : FinalSigsValid(q, i)
      <4>1. ASSUME NEW i \in DOMAIN p.ins, NEW sig
            PROVE  SigValid(sig, q, i) <=> SigValid(sig, d, i)
        BY <2>1, <3>1, SameDigest DEF SigValid
      <4>. QED  BY <3>2, <4>1 DEF FinalSigsValid
    <3>4. ASSUME NEW i \in DOMAIN p.ins
          PROVE  AfterHolds(q.ins[i].final.spending.after, InputLockTime(q.ins[i]))
      <4>1. InputLockTime(q.ins[i]) = InputLockTime(d.ins[i])
        BY <2>1, <3>1, SameDigest
      <4>. QED  BY <3>2, <4>1
    <3>. QED  BY <3>1, <3>3, <3>4 DEF InterpreterCheck
  <2>. QED  BY <2>3, <2>5, <2>6, <2>7 DEF p
<1>. QED  BY <1>1, OneDraftInvariance, PTL

\* Whoever has a PSBT in which every input is finalized, by itself or by copies
\* it combined, has final scripts that pass the interpreter check (finalizing
\* checks them once; combine_with takes them over unchecked).
THEOREM FinalScriptsAlwaysHold ==
    ASSUME NobodyAdds, DraftsSpendable
    PROVE  Spec => [](\A h \in Holders : AllFinalized(psbts[h]) => InterpreterCheck(psbts[h]))
<1>1. IInv /\ OneDraft =>
        \A h \in Holders : AllFinalized(psbts[h]) => InterpreterCheck(psbts[h])
  <2>. SUFFICES ASSUME NEW d \in Drafts, AllCopiesOf(d), NEW h \in Holders,
                       AllFinalized(psbts[h]), NEW i \in DOMAIN psbts[h].ins
                PROVE  LET final == psbts[h].ins[i].final
                       IN /\ FinalSigsValid(psbts[h], i)
                          /\ AfterHolds(final.spending.after, InputLockTime(psbts[h].ins[i]))
    BY DEF OneDraft, InterpreterCheck
  <2>1. SameTxFields(psbts[h], d) /\ i \in DOMAIN d.ins
    BY DEF AllCopiesOf, CopyOf, SameTxFields
  <2>2. InputCopy(d, i, psbts[h].ins[i], got[h]) /\ IsFinalized(psbts[h].ins[i])
    BY <2>1 DEF AllCopiesOf, CopyOf, AllFinalized
  <2>3. Made(d, i, psbts[h].ins[i].final)
    BY <2>1, <2>2 DEF InputCopy, IsFinalized, DraftsSpendable
  <2>4. ASSUME NEW sig PROVE SigValid(sig, psbts[h], i) <=> SigValid(sig, d, i)
    BY <2>1, SameDigest DEF SigValid
  <2>5. FinalSigsValid(psbts[h], i)
    BY <2>3, <2>4 DEF Made, FinalSigsValid
  <2>6. InputLockTime(psbts[h].ins[i]) = InputLockTime(d.ins[i])
    BY <2>1, SameDigest
  <2>. QED  BY <2>3, <2>5, <2>6 DEF Made
<1>. QED  BY <1>1, OneDraftInvariance, PTL

=============================================================================
