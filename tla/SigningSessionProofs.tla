------------------------- MODULE SigningSessionProofs -------------------------
(***************************************************************************)
(* Proofs about SigningSession, for any PSBTs, keys, sighash types, updates *)
(* and numbers of Signers and entries.                                      *)
(*                                                                         *)
(* What a Signer does with an entry is not inductive by itself, because the *)
(* entry is made in one step and applied in a later one.  The invariant     *)
(* says of each entry whose Signer is still there that it is what the       *)
(* Signer would make of the PSBT now (OwnMade), and of every other one that *)
(* its index still fits the PSBT it was made from (EntriesFit): PSBTs only  *)
(* grow.                                                                   *)
(***************************************************************************)
EXTENDS SigningSession, PsbtProofs

EntriesFit == \A e \in entries : e.index \in DOMAIN psbt[e.psbt].ins

OwnMade ==
    \A e \in {f \in entries : Own(f)} :
        /\ Checked(e.psbt, e.index, e.strict)
        /\ e = InputSigs(e.psbt, e.index, e.held, e.strict)

IInv ==
    /\ TypeOK
    /\ SignerTxStands
    /\ EntriesFit
    /\ OwnMade
    /\ LostOnlyMixed
    /\ \A n \in Names : FlagsReflectSigs(psbt[n])
    /\ SessionsInfallible

-----------------------------------------------------------------------------
(* What a session makes.                                                    *)

LEMMA UnsignedTxType ==
    ASSUME NEW p \in Psbts
    PROVE  /\ UnsignedTx(p) \in Txs
           /\ Len(UnsignedTx(p).prevs) = Len(p.ins) /\ UnsignedTx(p).outs = p.outs
           /\ \A i \in DOMAIN p.ins : /\ UnsignedTx(p).prevs[i] \in OutPoints
                                      /\ UnsignedTx(p).seqs[i] \in Sequences
<1>1. \A j \in DOMAIN p.ins : p.ins[j].prev \in OutPoints /\ TxSequence(p.ins[j]) \in Sequences
  <2>1. \A j \in DOMAIN p.ins : p.ins[j] \in Inputs
    BY InputsOf
  <2>. QED  BY <2>1, PsbtAssumption DEF Inputs, TxSequence
<1>2. /\ TxPrevs(p) \in [1 .. Len(p.ins) -> OutPoints]
      /\ TxSequences(p) \in [1 .. Len(p.ins) -> Sequences]
  BY <1>1, InputsOf DEF TxPrevs, TxSequences
<1>3. /\ TxPrevs(p) \in Seq(OutPoints) /\ TxSequences(p) \in Seq(Sequences)
      /\ Len(TxPrevs(p)) = Len(p.ins)
  BY <1>2, SeqOfFunction, InputsOf
<1>. QED  BY <1>2, <1>3, InputsOf, LocksOf DEF UnsignedTx, Txs

\* What is hashed for an input of a PSBT is a signature of the type asked for.
LEMMA TxDigestType ==
    ASSUME NEW p \in Psbts, NEW i \in DOMAIN p.ins, NEW type \in SighashTypes,
           NEW spent, HasCommittedOutput(p, i, type)
    PROVE  /\ TxDigest(UnsignedTx(p), i, type, spent) \in Sigs
           /\ TxDigest(UnsignedTx(p), i, type, spent).type = type
           /\ TxDigest(UnsignedTx(p), i, type, spent) # NoSig
<1>. DEFINE tx == UnsignedTx(p)
<1>3. /\ tx.prevs \in Seq(OutPoints) /\ tx.prevs[i] \in OutPoints
      /\ tx.seqs \in Seq(Sequences) /\ tx.seqs[i] \in Sequences
  BY UnsignedTxType DEF Txs
<1>4. tx.outs \in Seq(Outputs) /\ tx.outs = p.outs /\ tx.lock \in LockTimes
  BY InputsOf, LocksOf DEF UnsignedTx
<1>5. type.base \in Bases
  BY PsbtAssumption
<1>. HIDE DEF tx
<1>6. TxDigest(tx, i, type, spent).prevs \in Seq(OutPoints)
  BY <1>3 DEF TxDigest
<1>7. TxDigest(tx, i, type, spent).seqs \in Seq(Sequences)
  BY <1>3 DEF TxDigest
<1>8. TxDigest(tx, i, type, spent).outs \in Seq(Outputs)
  <2>1. CASE type.base = "SINGLE"
    <3>1. tx.outs[i] \in Outputs
      BY <1>4, <2>1 DEF HasCommittedOutput
    <3>. QED  BY <3>1, <2>1 DEF TxDigest
  <2>2. CASE type.base = "ALL"
    BY <1>4, <2>2 DEF TxDigest
  <2>3. CASE type.base = "NONE"
    BY <2>3 DEF TxDigest
  <2>. QED  BY <1>5, <2>1, <2>2, <2>3 DEF Bases
<1>9. TxDigest(tx, i, type, spent) \in Sigs
  BY <1>4, <1>6, <1>7, <1>8 DEF TxDigest, Sigs
<1>. QED  BY <1>9, AbsentAssumption DEF TxDigest, tx

\* An entry made of a checked input is an entry, with signatures in the places
\* signed and nowhere else.
LEMMA InputSigsType ==
    ASSUME TypeOK, SignerTxStands, NEW n \in Names, signer[n] # NoSigner,
           NEW i \in DOMAIN psbt[n].ins, NEW held \in SUBSET Keys, NEW strict \in BOOLEAN,
           CheckData(n, i)
    PROVE  /\ InputSigs(n, i, held, strict) \in Entries
           /\ \A k \in Keys :
                 InputSigs(n, i, held, strict).sigs[k] =
                    IF k \in Places(n, i, held)
                    THEN TxDigest(cache[n], i, SighashOf(psbt[n].ins[i]), TypeOf(n, i))
                    ELSE NoSig
<1>. DEFINE type == SighashOf(psbt[n].ins[i])
            digest == TxDigest(cache[n], i, type, TypeOf(n, i))
            places == Places(n, i, held)
            sigs == [k \in Keys |-> IF k \in places THEN digest ELSE NoSig]
<1>1. psbt[n] \in Psbts /\ cache[n] = UnsignedTx(psbt[n]) /\ signer[n] \in 1 .. made
  BY DEF TypeOK, SignerTxStands, NoSigner
<1>2. type \in SighashTypes /\ i \in Nat \ {0}
  BY <1>1, InputsOf, SighashOfType
<1>3. digest \in Sigs
  BY <1>1, <1>2, TxDigestType DEF CheckData
<1>4. InputSigs(n, i, held, strict)
        = [psbt |-> n, signer |-> signer[n], index |-> i, held |-> held,
           strict |-> strict, sigs |-> sigs]
  BY DEF InputSigs
<1>. HIDE DEF digest, places
<1>5. sigs \in SigMaps
  BY <1>3 DEF SigMaps
<1>6. \A k \in Keys : sigs[k] = IF k \in places THEN digest ELSE NoSig
  OBVIOUS
<1>. HIDE DEF sigs
<1>. QED  BY <1>1, <1>2, <1>4, <1>5, <1>6 DEF Entries, digest, places

-----------------------------------------------------------------------------
(* What apply leaves.                                                       *)

LEMMA MaxOfTwo ==
    ASSUME NEW S \in SUBSET (1 .. 2), S # {}
    PROVE  Max(S) \in S
<1>1. \E m \in S : \A y \in S : m >= y
  <2>1. \A y \in S : y = 1 \/ y = 2
    OBVIOUS
  <2>2. CASE 2 \in S
    BY <2>1, <2>2
  <2>3. CASE 2 \notin S
    <3>1. \A y \in S : y = 1
      BY <2>1, <2>3
    <3>2. PICK m \in S : TRUE
      OBVIOUS
    <3>3. m = 1 /\ \A y \in S : m >= y
      BY <3>1
    <3>. QED  BY <3>3
  <2>. QED  BY <2>2, <2>3
<1>. QED  BY <1>1 DEF Max

LEMMA WriteType ==
    ASSUME NEW p \in Psbts, NEW es, DOMAIN es \subseteq 1 .. 2,
           \A j \in DOMAIN es : es[j].sigs \in SigMaps
    PROVE  LET q == Write(p, es)
           IN  /\ q \in Psbts /\ q.outs = p.outs /\ q.fallback = p.fallback
               /\ DOMAIN q.ins = DOMAIN p.ins /\ Len(q.ins) = Len(p.ins)
               /\ \A i \in DOMAIN p.ins :
                     /\ q.ins[i].prev = p.ins[i].prev /\ q.ins[i].seq = p.ins[i].seq
                     /\ q.ins[i].minTime = p.ins[i].minTime
                     /\ q.ins[i].minHeight = p.ins[i].minHeight
                     /\ q.ins[i].sighash = p.ins[i].sighash
                     /\ q.ins[i].final = p.ins[i].final
                     /\ q.ins[i].named = p.ins[i].named
                     /\ \A k \in Keys :
                           q.ins[i].sigs[k] = IF Writers(es, i, k) = {} THEN p.ins[i].sigs[k]
                                              ELSE es[Max(Writers(es, i, k))].sigs[k]
<1>. DEFINE types == UNION {{sig.type : sig \in SigsIn(es[j])} : j \in DOMAIN es}
            flags == ApplySighash(p.flags, types)
            ins == Written(p, es)
            sigs(i) == [k \in Keys |-> IF Writers(es, i, k) = {} THEN p.ins[i].sigs[k]
                                       ELSE es[Max(Writers(es, i, k))].sigs[k]]
<1>1. flags \in SUBSET ModifiableFlags
  BY InputsOf DEF ApplySighash, ModifiableFlags
<1>2. ASSUME NEW i \in DOMAIN p.ins
      PROVE  sigs(i) \in SigMaps
  <2>1. \A k \in Keys : p.ins[i].sigs[k] \in Sigs \cup {NoSig}
    BY InputsOf DEF Inputs, SigMaps
  <2>2. ASSUME NEW k \in Keys, Writers(es, i, k) # {}
        PROVE  es[Max(Writers(es, i, k))].sigs[k] \in Sigs \cup {NoSig}
    <3>1. Writers(es, i, k) \in SUBSET (1 .. 2) /\ Writers(es, i, k) \subseteq DOMAIN es
      BY DEF Writers
    <3>2. Max(Writers(es, i, k)) \in DOMAIN es
      BY <2>2, <3>1, MaxOfTwo
    <3>. QED  BY <3>2 DEF SigMaps
  <2>. QED  BY <2>1, <2>2 DEF SigMaps
<1>3. ins = [i \in DOMAIN p.ins |-> [p.ins[i] EXCEPT !.sigs = sigs(i)]]
  BY DEF Written
<1>4. \A i \in DOMAIN p.ins : \A k \in Keys :
         sigs(i)[k] = IF Writers(es, i, k) = {} THEN p.ins[i].sigs[k]
                      ELSE es[Max(Writers(es, i, k))].sigs[k]
  OBVIOUS
<1>. HIDE DEF sigs, ins
<1>5. \A i \in DOMAIN p.ins : [p.ins[i] EXCEPT !.sigs = sigs(i)] \in Inputs
  <2>1. \A i \in DOMAIN p.ins : p.ins[i] \in Inputs
    BY InputsOf
  <2>. QED  BY <1>2, <2>1 DEF Inputs
<1>6. ins \in [1 .. Len(p.ins) -> Inputs]
  BY <1>3, <1>5, InputsOf
<1>7. ins \in Seq(Inputs) /\ Len(ins) = Len(p.ins) /\ DOMAIN ins = DOMAIN p.ins
  BY <1>6, InputsOf, SeqOfFunction
<1>8. Write(p, es) = [p EXCEPT !.ins = ins, !.flags = flags]
  BY DEF Write, ins
<1>9. \A i \in DOMAIN p.ins :
         /\ ins[i].prev = p.ins[i].prev /\ ins[i].seq = p.ins[i].seq
         /\ ins[i].minTime = p.ins[i].minTime /\ ins[i].minHeight = p.ins[i].minHeight
         /\ ins[i].sighash = p.ins[i].sighash /\ ins[i].final = p.ins[i].final
         /\ ins[i].named = p.ins[i].named /\ ins[i].sigs = sigs(i)
  BY <1>3, InputsOf DEF Inputs
<1>. HIDE DEF flags
<1>10. /\ Write(p, es) \in Psbts /\ Write(p, es).ins = ins
       /\ Write(p, es).outs = p.outs /\ Write(p, es).fallback = p.fallback
  BY <1>1, <1>7, <1>8 DEF Psbts
<1>. QED  BY <1>4, <1>7, <1>9, <1>10

LEMMA WriteKeepsTx ==
    ASSUME NEW p \in Psbts, NEW es, DOMAIN es \subseteq 1 .. 2,
           \A j \in DOMAIN es : es[j].sigs \in SigMaps
    PROVE  UnsignedTx(Write(p, es)) = UnsignedTx(p)
BY WriteType, SameTx

\* The flags account for the signatures that were there, and for those written.
LEMMA WriteReflects ==
    ASSUME NEW p \in Psbts, NEW es, DOMAIN es \subseteq 1 .. 2,
           \A j \in DOMAIN es : es[j].sigs \in SigMaps, FlagsReflectSigs(p)
    PROVE  FlagsReflectSigs(Write(p, es))
<1>. DEFINE types == UNION {{sig.type : sig \in SigsIn(es[j])} : j \in DOMAIN es}
            q == Write(p, es)
<1>1. q.flags = ApplySighash(p.flags, types)
  BY DEF Write, Psbts
<1>2. /\ DOMAIN q.ins = DOMAIN p.ins
      /\ \A i \in DOMAIN p.ins :
            /\ q.ins[i].final = p.ins[i].final
            /\ \A k \in Keys :
                  q.ins[i].sigs[k] = IF Writers(es, i, k) = {} THEN p.ins[i].sigs[k]
                                     ELSE es[Max(Writers(es, i, k))].sigs[k]
  BY WriteType
<1>. HIDE DEF q
<1>3. ASSUME NEW i \in DOMAIN p.ins, NEW sig \in SigsOf(q.ins[i])
      PROVE  sig \in SigsOf(p.ins[i]) \/ sig.type \in types
  <2>1. CASE \E k \in Keys : q.ins[i].sigs[k] # NoSig /\ sig = q.ins[i].sigs[k]
    <3>1. PICK k \in Keys : q.ins[i].sigs[k] # NoSig /\ sig = q.ins[i].sigs[k]
      BY <2>1
    <3>2. CASE Writers(es, i, k) = {}
      BY <1>2, <3>1, <3>2 DEF SigsOf
    <3>3. CASE Writers(es, i, k) # {}
      <4>. DEFINE j == Max(Writers(es, i, k))
      <4>1. Writers(es, i, k) \in SUBSET (1 .. 2)
        BY DEF Writers
      <4>2. j \in Writers(es, i, k)
        BY <3>3, <4>1, MaxOfTwo
      <4>3. j \in DOMAIN es /\ sig = es[j].sigs[k] /\ sig # NoSig
        BY <1>2, <3>1, <3>3, <4>2 DEF Writers
      <4>4. sig \in SigsIn(es[j])
        BY <4>3 DEF SigsIn
      <4>. HIDE DEF j
      <4>. QED  BY <4>3, <4>4
    <3>. QED  BY <3>2, <3>3
  <2>2. CASE ~ \E k \in Keys : q.ins[i].sigs[k] # NoSig /\ sig = q.ins[i].sigs[k]
    <3>1. sig \in IF IsFinalized(q.ins[i])
                  THEN { q.ins[i].final.sigs[k] : k \in {j \in Keys : q.ins[i].final.sigs[j] # NoSig} }
                  ELSE {}
      BY <1>3, <2>2 DEF SigsOf
    <3>. QED  BY <1>2, <3>1 DEF SigsOf, IsFinalized
  <2>. QED  BY <2>1, <2>2
<1>4. /\ q.flags \cap {"inputs", "outputs"} \subseteq p.flags
      /\ "single" \in p.flags => "single" \in q.flags
      /\ \A type \in types : /\ "inputs" \in q.flags => type.acp
                             /\ "outputs" \in q.flags => type.base = "NONE"
                             /\ type.base = "SINGLE" => "single" \in q.flags
  <2>1. p.flags \in SUBSET ModifiableFlags
    BY InputsOf
  <2>. HIDE DEF types
  <2>. QED  BY <1>1, <2>1, ApplySighashClears
<1>. HIDE DEF types
<1>5. ASSUME NEW i \in DOMAIN q.ins, NEW sig \in SigsOf(q.ins[i])
      PROVE  /\ "inputs" \in q.flags => sig.type.acp
             /\ "outputs" \in q.flags => sig.type.base = "NONE"
             /\ sig.type.base = "SINGLE" => "single" \in q.flags
  BY <1>2, <1>3, <1>4, <1>5 DEF FlagsReflectSigs
<1>. QED  BY <1>5 DEF FlagsReflectSigs, q

-----------------------------------------------------------------------------
(* Entries across steps.                                                    *)

\* What checks and sessions read of the state.
LEMMA SessionReads ==
    ASSUME NEW n, NEW i, NEW held, NEW strict,
           psbt'[n].ins = psbt[n].ins, psbt'[n].outs = psbt[n].outs,
           utxos'[n] = utxos[n], cache'[n] = cache[n], signer'[n] = signer[n]
    PROVE  /\ InputSigs(n, i, held, strict)' = InputSigs(n, i, held, strict)
           /\ Checked(n, i, strict)' <=> Checked(n, i, strict)
<1>1. /\ TypeOf(n, i)' = TypeOf(n, i)
      /\ CheckData(n, i)' <=> CheckData(n, i)
      /\ Places(n, i, held)' = Places(n, i, held)
  BY DEF TypeOf, CheckData, HasCommittedOutput, Places
<1>. QED  BY <1>1 DEF InputSigs, Checked, Verify

\* A step that makes no entries leaves those of Signers still there as they are,
\* if it leaves alone what these Signers hold.
LEMMA OwnKept ==
    ASSUME TypeOK, OwnMade, entries' = entries,
           \A m \in Names :
              \/ signer'[m] \notin 1 .. made
              \/ /\ psbt'[m].ins = psbt[m].ins /\ psbt'[m].outs = psbt[m].outs
                 /\ utxos'[m] = utxos[m] /\ cache'[m] = cache[m] /\ signer'[m] = signer[m]
    PROVE  OwnMade'
<1>. SUFFICES ASSUME NEW e \in entries, signer'[e.psbt] = e.signer
              PROVE  /\ Checked(e.psbt, e.index, e.strict)'
                     /\ e = InputSigs(e.psbt, e.index, e.held, e.strict)'
  BY DEF OwnMade, Own
<1>1. e.psbt \in Names /\ e.signer \in 1 .. made
  BY DEF TypeOK, Entries
<1>2. /\ psbt'[e.psbt].ins = psbt[e.psbt].ins /\ psbt'[e.psbt].outs = psbt[e.psbt].outs
      /\ utxos'[e.psbt] = utxos[e.psbt] /\ cache'[e.psbt] = cache[e.psbt]
      /\ signer'[e.psbt] = signer[e.psbt]
  BY <1>1
<1>3. /\ Checked(e.psbt, e.index, e.strict)
      /\ e = InputSigs(e.psbt, e.index, e.held, e.strict)
  BY <1>2 DEF OwnMade, Own
<1>. QED  BY <1>2, <1>3, SessionReads

-----------------------------------------------------------------------------
(* The steps.                                                               *)

LEMMA InitIInv == Init => IInv
<1>. SUFFICES ASSUME Init PROVE IInv
  OBVIOUS
<1>1. TypeOK
  <2>1. /\ psbt \in [Names -> Psbts] /\ utxos \in [Names -> Seq(UtxoForms)]
        /\ \A n \in Names : Len(utxos[n]) = Len(psbt[n].ins)
    BY SigningAssumption DEF Init
  <2>2. /\ made = 0 /\ edits = 0 /\ 0 \in 0 .. MaxSigners /\ 0 \in 0 .. MaxEdits
        /\ signer \in [Names -> 0 .. made] /\ \A n \in Names : signer[n] = NoSigner
    BY SigningAssumption DEF Init, NoSigner
  <2>3. /\ entries \subseteq Entries /\ lost \subseteq Names /\ mixed \subseteq Names
        /\ cache \in [Names -> Txs \cup {NoTx}] /\ panicked \in BOOLEAN
    BY DEF Init
  <2>. QED  BY <2>1, <2>2, <2>3 DEF TypeOK
<1>. QED  BY <1>1, SigningAssumption
          DEF Init, IInv, SignerTxStands, EntriesFit, OwnMade, LostOnlyMixed,
              SessionsInfallible, NoSigner

LEMMA UpdateIInv ==
    ASSUME IInv, NEW n \in Names, NEW i \in DOMAIN psbt[n].ins, NEW u \in Updates,
           Update(n, i, u)
    PROVE  IInv'
<1>. DEFINE in == psbt[n].ins[i]
            q == UpdateInput(psbt[n], i, u.seq, u.sighash, in.minTime, in.minHeight)
<1>1. /\ psbt \in [Names -> Psbts] /\ utxos \in [Names -> Seq(UtxoForms)]
      /\ Len(utxos[n]) = Len(psbt[n].ins) /\ signer[n] = NoSigner
  BY DEF IInv, TypeOK, Update, WithCaller
<1>2. in \in Inputs
  BY <1>1, InputsOf
<1>3. /\ u.seq \in Sequences \cup {NoSequence} /\ u.sighash \in SighashTypes \cup {NoSighash}
      /\ u.utxo \in UtxoForms
  BY SigningAssumption
<1>4. q \in Psbts
  BY <1>1, <1>2, <1>3, UpdateInputType DEF Inputs
<1>5. /\ DOMAIN q.ins = DOMAIN psbt[n].ins /\ q.flags = psbt[n].flags
      /\ \A j \in DOMAIN psbt[n].ins : /\ q.ins[j].sigs = psbt[n].ins[j].sigs
                                       /\ q.ins[j].final = psbt[n].ins[j].final
  <2>1. /\ q = [psbt[n] EXCEPT !.ins[i] = [@ EXCEPT !.seq = u.seq, !.sighash = u.sighash,
                                    !.minTime = in.minTime, !.minHeight = in.minHeight]]
    BY DEF UpdateInput
  <2>2. \A j \in DOMAIN psbt[n].ins : psbt[n].ins[j] \in Inputs
    BY <1>1, InputsOf
  <2>. QED  BY <1>1, <2>1, <2>2 DEF Psbts, Inputs
<1>6. /\ psbt' = [psbt EXCEPT ![n] = q] /\ utxos' = [utxos EXCEPT ![n][i] = u.utxo]
      /\ edits' \in 0 .. MaxEdits
      /\ UNCHANGED <<signer, cache, made, entries, lost, panicked, mixed>>
  BY SigningAssumption DEF Update, IInv, TypeOK
<1>. HIDE DEF q, in
<1>7. FlagsReflectSigs(q)
  <2>1. \A j \in DOMAIN q.ins : SigsOf(q.ins[j]) = SigsOf(psbt[n].ins[j])
    BY <1>5 DEF SigsOf, IsFinalized
  <2>. QED  BY <1>5, <2>1 DEF IInv, FlagsReflectSigs
<1>8. Len(q.ins) = Len(psbt[n].ins)
  BY <1>1, <1>4, <1>5, InputsOf
<1>9. utxos' \in [Names -> Seq(UtxoForms)] /\ \A m \in Names : Len(utxos'[m]) = Len(utxos[m])
  BY <1>1, <1>3, <1>6
<1>10. TypeOK'
  <2>1. psbt' \in [Names -> Psbts] /\ \A m \in Names : Len(utxos'[m]) = Len(psbt'[m].ins)
    BY <1>1, <1>4, <1>6, <1>8, <1>9 DEF IInv, TypeOK
  <2>. QED  BY <1>6, <1>9, <2>1 DEF IInv, TypeOK, Entries
<1>11. \A m \in Names : signer[m] # NoSigner =>
          psbt'[m] = psbt[m] /\ utxos'[m] = utxos[m]
  BY <1>1, <1>6
<1>12. SignerTxStands'
  BY <1>6, <1>11 DEF IInv, SignerTxStands
<1>13. OwnMade'
  BY <1>6, <1>11, OwnKept DEF IInv, NoSigner
<1>14. EntriesFit'
  BY <1>1, <1>5, <1>6 DEF IInv, EntriesFit
<1>15. \A m \in Names : FlagsReflectSigs(psbt'[m])
  BY <1>1, <1>6, <1>7 DEF IInv
<1>. QED  BY <1>6, <1>10, <1>12, <1>13, <1>14, <1>15
          DEF IInv, LostOnlyMixed, SessionsInfallible

LEMMA ConstructIInv ==
    ASSUME IInv, NEW n \in Names, NEW prev \in OutPoints, Construct(n, prev)
    PROVE  IInv'
<1>. DEFINE in == NewInput(prev, None, None)
            q == AddInput(psbt[n], in)
<1>1. /\ psbt \in [Names -> Psbts] /\ utxos \in [Names -> Seq(UtxoForms)]
      /\ Len(utxos[n]) = Len(psbt[n].ins) /\ signer[n] = NoSigner
  BY DEF IInv, TypeOK, Construct, WithCaller
<1>2. in \in Inputs /\ q \in Psbts
  BY <1>1, AddInputType DEF MinTimes, MinHeights
<1>3. SigsOf(in) = {}
  BY DEF NewInput, SigsOf, IsFinalized, NoSigs
<1>. HIDE DEF in
<1>4. q.ins = Append(psbt[n].ins, in) /\ q.flags = psbt[n].flags
  BY <1>1 DEF AddInput, Psbts
<1>5. /\ psbt' = [psbt EXCEPT ![n] = q] /\ utxos' = [utxos EXCEPT ![n] = Append(@, "none")]
      /\ edits' \in 0 .. MaxEdits
      /\ UNCHANGED <<signer, cache, made, entries, lost, panicked, mixed>>
  BY SigningAssumption DEF Construct, IInv, TypeOK, in
<1>. HIDE DEF q
<1>6. /\ DOMAIN psbt[n].ins \subseteq DOMAIN q.ins /\ Len(q.ins) = Len(psbt[n].ins) + 1
      /\ \A j \in DOMAIN q.ins : q.ins[j] = in \/ (j \in DOMAIN psbt[n].ins /\ q.ins[j] = psbt[n].ins[j])
  BY <1>1, <1>2, <1>4, InputsOf
<1>7. FlagsReflectSigs(q)
  BY <1>3, <1>4, <1>6 DEF IInv, FlagsReflectSigs
<1>8. Append(utxos[n], "none") \in Seq(UtxoForms)
      /\ Len(Append(utxos[n], "none")) = Len(utxos[n]) + 1
  <2>1. utxos[n] \in Seq(UtxoForms) /\ "none" \in UtxoForms
    BY <1>1 DEF UtxoForms
  <2>. QED  BY <2>1
<1>9. TypeOK'
  <2>1. /\ psbt' \in [Names -> Psbts] /\ utxos' \in [Names -> Seq(UtxoForms)]
    BY <1>1, <1>2, <1>5, <1>8
  <2>2. \A m \in Names : Len(utxos'[m]) = Len(psbt'[m].ins)
    BY <1>1, <1>5, <1>6, <1>8 DEF IInv, TypeOK
  <2>. QED  BY <1>5, <2>1, <2>2 DEF IInv, TypeOK, Entries
<1>10. \A m \in Names : signer[m] # NoSigner =>
          psbt'[m] = psbt[m] /\ utxos'[m] = utxos[m]
  BY <1>1, <1>5
<1>11. SignerTxStands'
  BY <1>5, <1>10 DEF IInv, SignerTxStands
<1>12. OwnMade'
  BY <1>5, <1>10, OwnKept DEF IInv, NoSigner
<1>13. EntriesFit'
  BY <1>1, <1>5, <1>6 DEF IInv, EntriesFit
<1>14. \A m \in Names : FlagsReflectSigs(psbt'[m])
  BY <1>1, <1>5, <1>7 DEF IInv
<1>. QED  BY <1>5, <1>9, <1>11, <1>12, <1>13, <1>14
          DEF IInv, LostOnlyMixed, SessionsInfallible

\* The number of a new Signer is that of no entry.
LEMMA SignerNewIInv ==
    ASSUME IInv, NEW n \in Names, SignerNew(n)
    PROVE  IInv'
<1>1. /\ made \in Nat /\ made < MaxSigners /\ made' = made + 1
      /\ signer \in [Names -> 0 .. made] /\ signer' = [signer EXCEPT ![n] = made + 1]
      /\ cache \in [Names -> Txs \cup {NoTx}]
      /\ cache' = [cache EXCEPT ![n] = UnsignedTx(psbt[n])]
      /\ UNCHANGED <<psbt, utxos, edits, entries, lost, panicked, mixed>>
  BY SigningAssumption DEF IInv, TypeOK, SignerNew, CachedTx
<1>2. psbt[n] \in Psbts
  BY DEF IInv, TypeOK
<1>3. /\ signer'[n] = made + 1 /\ cache'[n] = UnsignedTx(psbt[n])
      /\ \A m \in Names \ {n} : signer'[m] = signer[m] /\ cache'[m] = cache[m]
  BY <1>1
<1>4. TypeOK'
  <2>1. signer' \in [Names -> 0 .. made'] /\ made' \in 0 .. MaxSigners
    BY <1>1, SigningAssumption
  <2>2. cache' \in [Names -> Txs \cup {NoTx}]
    BY <1>1, <1>2, UnsignedTxType
  <2>3. entries \subseteq Entries'
    <3>1. 1 .. made \subseteq 1 .. made'
      BY <1>1
    <3>. QED  BY <3>1 DEF IInv, TypeOK, Entries
  <2>4. \A l, m \in Names : signer'[l] = signer'[m] /\ signer'[l] # NoSigner => l = m
    <3>1. \A m \in Names \ {n} : signer'[m] = signer[m] /\ signer[m] # made + 1
      BY <1>1, <1>3
    <3>. QED  BY <1>3, <3>1 DEF IInv, TypeOK
  <2>. QED  BY <1>1, <2>1, <2>2, <2>3, <2>4 DEF IInv, TypeOK
<1>5. SignerTxStands'
  BY <1>1, <1>3 DEF IInv, SignerTxStands
<1>6. OwnMade'
  <2>1. signer'[n] \notin 1 .. made
    BY <1>1, <1>3
  <2>. QED  BY <1>1, <1>3, <2>1, OwnKept DEF IInv
<1>. QED  BY <1>1, <1>4, <1>5, <1>6
          DEF IInv, EntriesFit, LostOnlyMixed, SessionsInfallible

-----------------------------------------------------------------------------
(* Sessions make entries and change nothing else.                           *)

LEMMA ProduceIInv ==
    ASSUME IInv, NEW n \in Names, signer[n] # NoSigner, NEW chosen \in SUBSET DOMAIN psbt[n].ins,
           NEW held \in SUBSET Keys, NEW strict \in BOOLEAN, NEW prevouts,
           \A i \in chosen : Checked(n, i, strict) /\ ~SighashFails(n, i, held, prevouts),
           Produce(n, chosen, held, strict, prevouts)
    PROVE  IInv'
<1>1. /\ entries' = entries \cup {InputSigs(n, i, held, strict) : i \in chosen}
      /\ UNCHANGED <<psbt, utxos, edits, signer, cache, made, lost, mixed, panicked>>
  BY DEF Produce
<1>2. \A i \in chosen : CheckData(n, i)
  BY DEF Checked, Verify
<1>3. ASSUME NEW i \in chosen
      PROVE  /\ InputSigs(n, i, held, strict) \in Entries
             /\ InputSigs(n, i, held, strict).psbt = n
             /\ InputSigs(n, i, held, strict).index = i
             /\ InputSigs(n, i, held, strict).held = held
             /\ InputSigs(n, i, held, strict).strict = strict
  <2>1. InputSigs(n, i, held, strict) \in Entries
    BY <1>2, InputSigsType DEF IInv
  <2>. QED  BY <2>1 DEF InputSigs
<1>4. TypeOK'
  BY <1>1, <1>3 DEF IInv, TypeOK, Entries
<1>5. EntriesFit'
  BY <1>1, <1>3 DEF IInv, EntriesFit
<1>6. OwnMade'
  <2>. SUFFICES ASSUME NEW e \in entries', signer'[e.psbt] = e.signer
                PROVE  /\ Checked(e.psbt, e.index, e.strict)'
                       /\ e = InputSigs(e.psbt, e.index, e.held, e.strict)'
    BY DEF OwnMade, Own
  <2>1. /\ Checked(e.psbt, e.index, e.strict)
        /\ e = InputSigs(e.psbt, e.index, e.held, e.strict)
    <3>1. CASE e \in entries
      BY <1>1, <3>1 DEF IInv, OwnMade, Own
    <3>2. CASE \E i \in chosen : e = InputSigs(n, i, held, strict)
      <4>1. PICK i \in chosen : e = InputSigs(n, i, held, strict)
        BY <3>2
      <4>. QED  BY <1>3, <4>1
    <3>. QED  BY <1>1, <3>1, <3>2
  <2>. QED  BY <1>1, <2>1, SessionReads
<1>. QED  BY <1>1, <1>4, <1>5, <1>6
          DEF IInv, SignerTxStands, LostOnlyMixed, SessionsInfallible

LEMMA GetInputSigsIInv ==
    ASSUME IInv, NEW n \in Names, NEW i \in DOMAIN psbt[n].ins, NEW held \in Holdings,
           NEW strict \in BOOLEAN, GetInputSigs(n, i, held, strict)
    PROVE  IInv'
<1>1. /\ signer[n] # NoSigner /\ Checked(n, i, strict) /\ ~NeedsAllPrevouts(n, i)
      /\ Produce(n, {i}, held, strict, 0)
  BY DEF GetInputSigs, Standalone
<1>2. cache[n].outs = psbt[n].outs /\ CheckData(n, i)
  <2>1. psbt[n] \in Psbts /\ cache[n] = UnsignedTx(psbt[n])
    BY <1>1 DEF IInv, TypeOK, SignerTxStands
  <2>. QED  BY <1>1, <2>1, UnsignedTxType DEF Checked, Verify
<1>3. ~SighashFails(n, i, held, 0)
  BY <1>1, <1>2 DEF SighashFails, NeedsAllPrevouts, CheckData, HasCommittedOutput
<1>4. held \in SUBSET Keys
  BY SigningAssumption
<1>. QED  BY <1>1, <1>3, <1>4, ProduceIInv

LEMMA GetAllIInv ==
    ASSUME IInv, NEW n \in Names, NEW held \in Holdings, NEW strict \in BOOLEAN,
           GetAll(n, held, strict)
    PROVE  IInv'
<1>1. /\ signer[n] # NoSigner /\ \A i \in DOMAIN psbt[n].ins : Checked(n, i, strict)
      /\ Produce(n, DOMAIN psbt[n].ins, held, strict, Len(psbt[n].ins))
  BY DEF GetAll
<1>2. /\ cache[n].outs = psbt[n].outs /\ Len(cache[n].prevs) = Len(psbt[n].ins)
      /\ \A i \in DOMAIN psbt[n].ins : CheckData(n, i)
  <2>1. psbt[n] \in Psbts /\ cache[n] = UnsignedTx(psbt[n])
    BY <1>1 DEF IInv, TypeOK, SignerTxStands
  <2>. QED  BY <1>1, <2>1, UnsignedTxType DEF Checked, Verify
<1>3. \A i \in DOMAIN psbt[n].ins : ~SighashFails(n, i, held, Len(psbt[n].ins))
  BY <1>2 DEF SighashFails, CheckData, HasCommittedOutput
<1>4. held \in SUBSET Keys
  BY SigningAssumption
<1>. QED  BY <1>1, <1>3, <1>4, ProduceIInv

-----------------------------------------------------------------------------
(* The end of a Signer.                                                     *)

LEMMA DropType ==
    ASSUME TypeOK, NEW n \in Names, Drop(n)
    PROVE  /\ signer' \in [Names -> 0 .. made] /\ cache' \in [Names -> Txs \cup {NoTx}]
           /\ signer'[n] = NoSigner
           /\ \A m \in Names \ {n} : signer'[m] = signer[m] /\ cache'[m] = cache[m]
           /\ \A l, m \in Names : signer'[l] = signer'[m] /\ signer'[l] # NoSigner => l = m
<1>1. /\ signer \in [Names -> 0 .. made] /\ made \in Nat
      /\ cache \in [Names -> Txs \cup {NoTx}]
      /\ signer' = [signer EXCEPT ![n] = NoSigner] /\ cache' = [cache EXCEPT ![n] = NoTx]
  BY SigningAssumption DEF TypeOK, Drop
<1>2. /\ signer'[n] = NoSigner
      /\ \A m \in Names \ {n} : signer'[m] = signer[m] /\ cache'[m] = cache[m]
  BY <1>1
<1>3. \A l, m \in Names : signer'[l] = signer'[m] /\ signer'[l] # NoSigner => l = m
  BY <1>2 DEF TypeOK
<1>. QED  BY <1>1, <1>2, <1>3 DEF NoSigner

\* What a Signer leaves when it ends with the PSBT q.
LEMMA EndIInv ==
    ASSUME IInv, NEW n \in Names, Drop(n), NEW q \in Psbts, FlagsReflectSigs(q),
           DOMAIN q.ins = DOMAIN psbt[n].ins, psbt' = [psbt EXCEPT ![n] = q],
           lost' \subseteq Names, mixed' \subseteq Names, lost' \subseteq mixed',
           UNCHANGED <<utxos, edits, made, entries, panicked>>
    PROVE  IInv'
<1>1. /\ psbt \in [Names -> Psbts] /\ psbt'[n] = q
      /\ \A m \in Names \ {n} : psbt'[m] = psbt[m]
  BY DEF IInv, TypeOK
<1>2. /\ signer' \in [Names -> 0 .. made] /\ cache' \in [Names -> Txs \cup {NoTx}]
      /\ signer'[n] = NoSigner
      /\ \A m \in Names \ {n} : signer'[m] = signer[m] /\ cache'[m] = cache[m]
      /\ \A l, m \in Names : signer'[l] = signer'[m] /\ signer'[l] # NoSigner => l = m
  BY DropType DEF IInv
<1>3. TypeOK'
  <2>1. Len(q.ins) = Len(psbt[n].ins)
    BY <1>1, InputsOf
  <2>2. psbt' \in [Names -> Psbts] /\ \A m \in Names : Len(utxos'[m]) = Len(psbt'[m].ins)
    BY <1>1, <2>1 DEF IInv, TypeOK
  <2>. QED  BY <1>2, <2>2 DEF IInv, TypeOK, Entries
<1>4. SignerTxStands'
  BY <1>1, <1>2 DEF IInv, SignerTxStands
<1>5. OwnMade'
  BY <1>1, <1>2, OwnKept DEF IInv, NoSigner
<1>6. EntriesFit'
  BY <1>1 DEF IInv, EntriesFit
<1>7. \A m \in Names : FlagsReflectSigs(psbt'[m])
  BY <1>1 DEF IInv
<1>. QED  BY <1>3, <1>4, <1>5, <1>6, <1>7 DEF IInv, LostOnlyMixed, SessionsInfallible

LEMMA BatchType ==
    ASSUME TypeOK, NEW es \in Batches
    PROVE  /\ DOMAIN es \subseteq 1 .. 2
           /\ \A j \in DOMAIN es : es[j] \in entries /\ es[j].sigs \in SigMaps
<1>1. \A e \in entries : e.sigs \in SigMaps
  BY DEF TypeOK, Entries
<1>2. CASE \E e \in entries : es = <<e>>
  BY <1>1, <1>2
<1>3. CASE \E e, f \in entries : es = <<e, f>>
  BY <1>1, <1>3
<1>. QED  BY <1>2, <1>3 DEF Batches

\* An entry out of bounds is not one of this PSBT.
LEMMA ApplyIInv ==
    ASSUME IInv, NEW n \in Names, NEW es \in Batches, Apply(n, es)
    PROVE  IInv'
<1>1. psbt[n] \in Psbts /\ psbt \in [Names -> Psbts] /\ lost \subseteq mixed
      /\ lost \subseteq Names /\ mixed \subseteq Names /\ FlagsReflectSigs(psbt[n])
  BY DEF IInv, TypeOK, LostOnlyMixed
<1>2. /\ DOMAIN es \subseteq 1 .. 2
      /\ \A j \in DOMAIN es : es[j] \in entries /\ es[j].sigs \in SigMaps
  BY BatchType DEF IInv
<1>3. mixed' = IF \E j \in DOMAIN es : es[j].psbt # n THEN mixed \cup {n} ELSE mixed
  BY DEF Apply
<1>4. Drop(n) /\ UNCHANGED <<utxos, edits, made, entries, panicked>>
  BY DEF Apply
<1>5. CASE \A j \in DOMAIN es : InBounds(psbt[n], es[j])
  <2>. DEFINE q == Write(psbt[n], es)
  <2>1. q \in Psbts /\ FlagsReflectSigs(q) /\ DOMAIN q.ins = DOMAIN psbt[n].ins
    BY <1>1, <1>2, WriteType, WriteReflects
  <2>2. psbt' = [psbt EXCEPT ![n] = q] /\ lost' = lost
    BY <1>5 DEF Apply
  <2>. HIDE DEF q
  <2>. QED  BY <1>1, <1>3, <1>4, <2>1, <2>2, EndIInv
<1>6. CASE ~ \A j \in DOMAIN es : InBounds(psbt[n], es[j])
  <2>1. psbt' = [psbt EXCEPT ![n] = psbt[n]] /\ lost' = lost \cup {n}
    BY <1>1, <1>6 DEF Apply
  <2>2. PICK j \in DOMAIN es : es[j].index \notin DOMAIN psbt[n].ins
    BY <1>6 DEF InBounds
  <2>3. es[j].psbt # n
    BY <1>2, <2>2 DEF IInv, EntriesFit
  <2>4. mixed' = mixed \cup {n}
    BY <1>3, <2>3
  <2>. QED  BY <1>1, <1>4, <2>1, <2>4, EndIInv
<1>. QED  BY <1>5, <1>6

LEMMA SignerPsbtIInv ==
    ASSUME IInv, NEW n \in Names, SignerPsbt(n)
    PROVE  IInv'
<1>1. /\ psbt[n] \in Psbts /\ FlagsReflectSigs(psbt[n]) /\ psbt' = [psbt EXCEPT ![n] = psbt[n]]
      /\ lost' \subseteq Names /\ mixed' \subseteq Names /\ lost' \subseteq mixed'
  BY DEF IInv, TypeOK, LostOnlyMixed, SignerPsbt
<1>2. Drop(n) /\ UNCHANGED <<utxos, edits, made, entries, panicked>>
  BY DEF SignerPsbt
<1>. QED  BY <1>1, <1>2, EndIInv

\* The flags are no part of the transaction.
LEMMA ClearIInv ==
    ASSUME IInv, NEW n \in Names, NEW type \in SighashTypes, EcdsaClearTxModifiable(n, type)
    PROVE  IInv'
<1>. DEFINE flags == ApplySighash(psbt[n].flags, {type})
            q == [psbt[n] EXCEPT !.flags = flags]
<1>1. psbt \in [Names -> Psbts] /\ psbt[n] \in Psbts /\ FlagsReflectSigs(psbt[n])
  BY DEF IInv, TypeOK
<1>2. /\ flags \in SUBSET ModifiableFlags
      /\ flags \cap {"inputs", "outputs"} \subseteq psbt[n].flags
      /\ "single" \in psbt[n].flags => "single" \in flags
  <2>1. psbt[n].flags \in SUBSET ModifiableFlags
    BY <1>1, InputsOf
  <2>2. flags \in SUBSET ModifiableFlags
    BY <2>1 DEF ApplySighash, ModifiableFlags
  <2>. QED  BY <2>1, <2>2, ApplySighashClears
<1>3. /\ psbt' = [psbt EXCEPT ![n] = q]
      /\ UNCHANGED <<utxos, edits, signer, cache, made, entries, lost, panicked, mixed>>
  BY <1>1 DEF EcdsaClearTxModifiable
<1>. HIDE DEF flags
<1>4. /\ q \in Psbts /\ q.ins = psbt[n].ins /\ q.outs = psbt[n].outs
      /\ q.fallback = psbt[n].fallback /\ q.flags = flags
  BY <1>1, <1>2 DEF Psbts
<1>. HIDE DEF q
<1>5. FlagsReflectSigs(q) /\ UnsignedTx(q) = UnsignedTx(psbt[n])
  BY <1>1, <1>2, <1>4, SameTx DEF FlagsReflectSigs
<1>6. /\ psbt'[n] = q /\ \A m \in Names \ {n} : psbt'[m] = psbt[m]
  BY <1>1, <1>3
<1>7. TypeOK'
  BY <1>1, <1>3, <1>4, <1>6 DEF IInv, TypeOK, Entries
<1>8. SignerTxStands'
  BY <1>3, <1>5, <1>6 DEF IInv, SignerTxStands
<1>9. OwnMade'
  BY <1>3, <1>4, <1>6, OwnKept DEF IInv
<1>10. EntriesFit'
  BY <1>3, <1>4, <1>6 DEF IInv, EntriesFit
<1>11. \A m \in Names : FlagsReflectSigs(psbt'[m])
  BY <1>5, <1>6 DEF IInv
<1>. QED  BY <1>3, <1>7, <1>8, <1>9, <1>10, <1>11
          DEF IInv, LostOnlyMixed, SessionsInfallible

LEMMA NextIInv == IInv /\ [Next]_vars => IInv'
<1>. SUFFICES ASSUME IInv, [Next]_vars PROVE IInv'
  OBVIOUS
<1>1. CASE UNCHANGED vars
  <2>1. UNCHANGED <<psbt, utxos, edits, signer, cache, made, entries, lost, panicked, mixed>>
    BY <1>1 DEF vars
  <2>2. TypeOK'
    BY <2>1 DEF IInv, TypeOK, Entries
  <2>3. SignerTxStands' /\ EntriesFit'
    BY <2>1 DEF IInv, SignerTxStands, EntriesFit
  <2>4. OwnMade'
    BY <2>1, OwnKept DEF IInv
  <2>. QED  BY <2>1, <2>2, <2>3, <2>4 DEF IInv, LostOnlyMixed, SessionsInfallible
<1>2. CASE Next
  BY <1>2, UpdateIInv, ConstructIInv, SignerNewIInv, GetInputSigsIInv, GetAllIInv,
     ApplyIInv, ClearIInv, SignerPsbtIInv DEF Next
<1>. QED  BY <1>1, <1>2

THEOREM Invariance == Spec => []IInv
BY InitIInv, NextIInv, PTL DEF Spec

-----------------------------------------------------------------------------
(* The properties.                                                          *)

\* Every PSBT, entry and cached transaction is well typed.
THEOREM TypeCorrect == Spec => []TypeOK
BY Invariance, PTL DEF IInv

\* No Signer signs a transaction that is not that of its PSBT.
THEOREM SignerTxAlwaysStands == Spec => []SignerTxStands
BY Invariance, PTL DEF IInv

\* A PSBT is only lost with an apply that was given entries of another one.
THEOREM AlwaysLostOnlyMixed == Spec => []LostOnlyMixed
BY Invariance, PTL DEF IInv

\* The flags account for all signatures, whatever was applied to which PSBT.
THEOREM AppliedFlagsAlwaysReflect == Spec => []AppliedFlagsReflect
<1>1. IInv => AppliedFlagsReflect
  BY DEF IInv, AppliedFlagsReflect
<1>. QED  BY <1>1, Invariance, PTL

\* No input that passed its checks makes a session panic.
THEOREM SessionsAlwaysInfallible == Spec => []SessionsInfallible
BY Invariance, PTL DEF IInv

\* An entry with a signature for a place is what apply writes there.
LEMMA WriteOne ==
    ASSUME NEW p \in Psbts, NEW e, e.sigs \in SigMaps, e.index \in DOMAIN p.ins
    PROVE  \A k \in Keys :
              Write(p, <<e>>).ins[e.index].sigs[k] =
                 IF e.sigs[k] # NoSig THEN e.sigs[k] ELSE p.ins[e.index].sigs[k]
<1>. TAKE k \in Keys
<1>1. DOMAIN <<e>> \subseteq 1 .. 2 /\ <<e>>[1] = e /\ \A j \in DOMAIN <<e>> : j = 1
  OBVIOUS
<1>2. \A j \in DOMAIN <<e>> : <<e>>[j].sigs \in SigMaps
  BY <1>1
<1>3. Write(p, <<e>>).ins[e.index].sigs[k] =
         IF Writers(<<e>>, e.index, k) = {} THEN p.ins[e.index].sigs[k]
         ELSE <<e>>[Max(Writers(<<e>>, e.index, k))].sigs[k]
  BY <1>1, <1>2, WriteType
<1>4. CASE e.sigs[k] = NoSig
  <2>1. Writers(<<e>>, e.index, k) = {}
    BY <1>1, <1>4 DEF Writers
  <2>. QED  BY <1>3, <1>4, <2>1
<1>5. CASE e.sigs[k] # NoSig
  <2>1. Writers(<<e>>, e.index, k) = {1}
    BY <1>1, <1>5 DEF Writers
  <2>2. Max({1}) = 1
    BY MaxOfTwo
  <2>. QED  BY <1>1, <1>3, <1>5, <2>1, <2>2
<1>. QED  BY <1>4, <1>5

\* What the Signer of an entry makes of its input by applying it.
LEMMA OwnEntry ==
    ASSUME IInv, NEW e \in entries, Own(e), NEW k \in Keys
    PROVE  LET p == psbt[e.psbt]
               in == p.ins[e.index]
               q == Write(p, <<e>>)
               type == SighashOf(in)
               digest == TxDigest(UnsignedTx(p), e.index, type, OutputType[in.prev])
           IN  /\ in \in Inputs /\ HasCommittedOutput(p, e.index, type)
               /\ e.strict => SighashesAgree(in)
               /\ digest.type = type /\ digest # NoSig
               /\ UnsignedTx(q) = UnsignedTx(p) /\ q.outs = p.outs
               /\ q.ins[e.index].prev = in.prev /\ SighashOf(q.ins[e.index]) = type
               /\ q.ins[e.index].sigs[k]
                     = IF k \in Places(e.psbt, e.index, e.held) THEN digest ELSE in.sigs[k]
<1>. DEFINE n == e.psbt
            i == e.index
            p == psbt[n]
            in == p.ins[i]
            q == Write(p, <<e>>)
            type == SighashOf(in)
            spent == OutputType[in.prev]
            digest == TxDigest(UnsignedTx(p), i, type, spent)
<1>1. /\ n \in Names /\ p \in Psbts /\ e.sigs \in SigMaps /\ e.held \in SUBSET Keys
      /\ e.strict \in BOOLEAN /\ signer[n] # NoSigner
  <2>1. e \in Entries /\ made \in Nat
    BY SigningAssumption DEF IInv, TypeOK
  <2>. QED  BY <2>1 DEF IInv, TypeOK, Entries, Own, NoSigner
<1>2. /\ i \in DOMAIN p.ins /\ CheckData(n, i) /\ e = InputSigs(n, i, e.held, e.strict)
      /\ cache[n] = UnsignedTx(p)
      /\ e.strict => SighashesAgree(in)
  BY <1>1 DEF IInv, EntriesFit, OwnMade, SignerTxStands, Checked, Verify
<1>3. in \in Inputs /\ type \in SighashTypes
  BY <1>1, <1>2, InputsOf, SighashOfType
<1>4. /\ digest.type = type /\ digest # NoSig /\ HasCommittedOutput(p, i, type)
  BY <1>1, <1>2, <1>3, TxDigestType DEF CheckData
<1>5. e.sigs[k] = IF k \in Places(n, i, e.held) THEN digest ELSE NoSig
  <2>1. InputSigs(n, i, e.held, e.strict).sigs[k]
          = IF k \in Places(n, i, e.held)
            THEN TxDigest(cache[n], i, SighashOf(psbt[n].ins[i]), TypeOf(n, i)) ELSE NoSig
    BY <1>1, <1>2, InputSigsType DEF IInv
  <2>2. TxDigest(cache[n], i, SighashOf(psbt[n].ins[i]), TypeOf(n, i)) = digest
    BY <1>2 DEF TypeOf
  <2>3. e.sigs[k] = InputSigs(n, i, e.held, e.strict).sigs[k]
    BY <1>2
  <2>. HIDE DEF digest
  <2>. QED  BY <2>1, <2>2, <2>3
<1>6. q.ins[i].sigs[k] = IF e.sigs[k] # NoSig THEN e.sigs[k] ELSE in.sigs[k]
  BY <1>1, <1>2, WriteOne
<1>7. /\ UnsignedTx(q) = UnsignedTx(p) /\ q.outs = p.outs /\ q.ins[i].prev = in.prev
      /\ q.ins[i].sighash = in.sighash
  <2>1. DOMAIN <<e>> \subseteq 1 .. 2 /\ \A j \in DOMAIN <<e>> : <<e>>[j].sigs \in SigMaps
    BY <1>1
  <2>. QED  BY <1>1, <1>2, <2>1, WriteType, WriteKeepsTx
<1>8. SighashOf(q.ins[i]) = type
  <2>. HIDE DEF q
  <2>. QED  BY <1>7 DEF SighashOf
<1>. HIDE DEF q, digest, type
<1>9. q.ins[i].sigs[k] = IF k \in Places(n, i, e.held) THEN digest ELSE in.sigs[k]
  BY <1>4, <1>5, <1>6
<1>. QED  BY <1>2, <1>3, <1>4, <1>7, <1>8, <1>9 DEF q, digest, type

\* An entry applied by its own Signer leaves signatures that are valid, but for
\* those of taproot that were there before.
THEOREM OwnSigsAlwaysValid == Spec => []OwnSigsValid
<1>1. IInv => OwnSigsValid
  <2>. SUFFICES ASSUME IInv, NEW e \in entries, Own(e),
                       NEW k \in e.held \cap psbt[e.psbt].ins[e.index].named
                PROVE  LET before == psbt[e.psbt].ins[e.index]
                           after == Write(psbt[e.psbt], <<e>>)
                       IN  \/ TxSigValid(after.ins[e.index].sigs[k], after, e.index)
                           \/ /\ OutputType[before.prev] = "Tr"
                              /\ before.sigs[k] # NoSig
                              /\ after.ins[e.index].sigs[k] = before.sigs[k]
    BY DEF OwnSigsValid
  <2>. DEFINE p == psbt[e.psbt]
              in == p.ins[e.index]
              q == Write(p, <<e>>)
              type == SighashOf(in)
              digest == TxDigest(UnsignedTx(p), e.index, type, OutputType[in.prev])
              places == Places(e.psbt, e.index, e.held)
  <2>1. k \in Keys
    BY DEF IInv, TypeOK, Entries
  <2>2. /\ HasCommittedOutput(p, e.index, type)
        /\ digest.type = type /\ digest # NoSig
        /\ UnsignedTx(q) = UnsignedTx(p) /\ q.outs = p.outs
        /\ q.ins[e.index].prev = in.prev
        /\ q.ins[e.index].sigs[k] = IF k \in places THEN digest ELSE in.sigs[k]
    BY <2>1, OwnEntry
  <2>. HIDE DEF q, type
  <2>3. digest = TxDigest(UnsignedTx(q), e.index, digest.type, OutputType[q.ins[e.index].prev])
    BY <2>2
  <2>4. HasCommittedOutput(q, e.index, digest.type)
    BY <2>2 DEF HasCommittedOutput
  <2>5. k \notin places => OutputType[in.prev] = "Tr" /\ in.sigs[k] # NoSig
    BY DEF Places, TypeOf
  <2>. HIDE DEF digest, places
  <2>. QED  BY <2>2, <2>3, <2>4, <2>5 DEF TxSigValid, q
<1>. QED  BY <1>1, Invariance, PTL

\* An input checked strictly has signatures of one type after its own entry.
THEOREM StrictSigsAlwaysAgree == Spec => []StrictSigsAgree
<1>1. IInv => StrictSigsAgree
  <2>. SUFFICES ASSUME IInv, NEW e \in entries, Own(e), e.strict, NEW k \in Keys,
                       Write(psbt[e.psbt], <<e>>).ins[e.index].sigs[k] # NoSig
                PROVE  Write(psbt[e.psbt], <<e>>).ins[e.index].sigs[k].type
                         = SighashOf(Write(psbt[e.psbt], <<e>>).ins[e.index])
    BY DEF StrictSigsAgree, SighashesAgree
  <2>. DEFINE p == psbt[e.psbt]
              in == p.ins[e.index]
              q == Write(p, <<e>>)
              type == SighashOf(in)
              digest == TxDigest(UnsignedTx(p), e.index, type, OutputType[in.prev])
              places == Places(e.psbt, e.index, e.held)
  <2>1. /\ digest.type = type /\ SighashesAgree(in) /\ SighashOf(q.ins[e.index]) = type
        /\ q.ins[e.index].sigs[k] = IF k \in places THEN digest ELSE in.sigs[k]
    BY OwnEntry
  <2>2. in.sigs[k] # NoSig => in.sigs[k].type = type
    BY <2>1 DEF SighashesAgree
  <2>3. q.ins[e.index].sigs[k] # NoSig
    OBVIOUS
  <2>. HIDE DEF q, type, digest, places
  <2>. QED  BY <2>1, <2>2, <2>3 DEF q, type
<1>. QED  BY <1>1, Invariance, PTL

=============================================================================
