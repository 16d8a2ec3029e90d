--------------------------- MODULE PsbtRolesProofs ---------------------------
(***************************************************************************)
(* Proofs about PsbtRoles, for any outpoints, outputs, keys, scripts,       *)
(* sighash types, lock times and numbers of inputs and outputs.             *)
(*                                                                         *)
(* The promises to signatures are not inductive by themselves: a            *)
(* Constructor keeps its type after no_more_inputs cleared the flag it was  *)
(* admitted for, so what the type still allows (ConstructorsHarmless) is    *)
(* part of the invariant.                                                   *)
(***************************************************************************)
EXTENDS PsbtRoles, PsbtProofs

IInv ==
    /\ TypeOK
    /\ CommitmentsKept
    /\ FlagsAccurate
    /\ ConstructorsHarmless

LEMMA InitIInv == Init => IInv
<1>. SUFFICES ASSUME Init PROVE IInv
  OBVIOUS
<1>1. PICK flags \in CreatorFlags, fallback \in Fallbacks : psbt = EmptyPsbt(flags, fallback)
  BY DEF Init
<1>2. flags \in SUBSET ModifiableFlags /\ fallback \in LockTimes
  BY <1>1, PsbtRolesAssumption
<1>3. TypeOK
  BY <1>1, <1>2, EmptyPsbtType DEF Init, TypeOK, Roles
<1>4. psbt.ins = <<>> /\ DOMAIN psbt.ins = {}
  BY <1>1 DEF EmptyPsbt
<1>. QED  BY <1>3, <1>4 DEF IInv, CommitmentsKept, SigsPinned, FlagsAccurate,
                            FlagsReflectSigs, ConstructorsHarmless

\* A step that loses signatures and clears flags keeps the invariant, if it
\* leads to no Constructor but those the new flags admit.
LEMMA LosesIInv ==
    ASSUME IInv, NEW r \in Roles, NEW q \in Psbts, Become(r, q), Loses(psbt, q),
           r # "Creator",
           \/ r \notin Constructors
           \/ r = role
           \/ /\ r \in InputConstructors => "inputs" \in q.flags
              /\ r \in OutputConstructors => "outputs" \in q.flags
    PROVE  IInv'
<1>1. role' = r /\ psbt' = q
  BY DEF Become
<1>2. SigsPinned(q) /\ FlagsReflectSigs(q)
  BY LosesKeeps DEF IInv, CommitmentsKept, FlagsAccurate
<1>3. ASSUME NEW i \in DOMAIN q.ins, NEW sig \in SigsOf(q.ins[i])
      PROVE  /\ r \in InputConstructors => sig.type.acp
             /\ r \in OutputConstructors => sig.type.base = "NONE"
  <2>1. i \in DOMAIN psbt.ins /\ sig \in SigsOf(psbt.ins[i])
    BY <1>3 DEF Loses
  <2>2. CASE r = role
    BY <2>1, <2>2 DEF IInv, ConstructorsHarmless
  <2>3. CASE /\ r \in InputConstructors => "inputs" \in q.flags
             /\ r \in OutputConstructors => "outputs" \in q.flags
    BY <1>2, <1>3, <2>3 DEF FlagsReflectSigs
  <2>. QED  BY <2>2, <2>3 DEF Constructors
<1>. QED  BY <1>1, <1>2, <1>3
          DEF IInv, TypeOK, CommitmentsKept, FlagsAccurate, ConstructorsHarmless

\* Changing only the flags, in the way roles do, is such a step.
LEMMA FlagsLose ==
    ASSUME NEW p \in Psbts, NEW flags \in SUBSET ModifiableFlags,
           flags \cap {"inputs", "outputs"} \subseteq p.flags,
           "single" \in p.flags => "single" \in flags
    PROVE  /\ [p EXCEPT !.flags = flags] \in Psbts
           /\ Loses(p, [p EXCEPT !.flags = flags])
<1>1. [p EXCEPT !.flags = flags] \in Psbts
  BY SetFlagsType
<1>2. LET q == [p EXCEPT !.flags = flags]
      IN q.flags = flags /\ q.ins = p.ins /\ q.outs = p.outs
  BY DEF Psbts
<1>. QED  BY <1>1, <1>2 DEF Loses

LEMMA SameLoses ==
    ASSUME NEW p
    PROVE  Loses(p, p)
BY DEF Loses

LEMMA UpdateLoses ==
    ASSUME NEW p \in Psbts, NEW i \in DOMAIN p.ins, NEW seq, NEW sighash, NEW minTime,
           NEW minHeight
    PROVE  Loses(p, UpdateInput(p, i, seq, sighash, minTime, minHeight))
<1>. DEFINE in == [p.ins[i] EXCEPT !.seq = seq, !.sighash = sighash,
                                   !.minTime = minTime, !.minHeight = minHeight]
            q == UpdateInput(p, i, seq, sighash, minTime, minHeight)
<1>1. p.ins[i] \in Inputs
  BY InputsOf
<1>2. in.prev = p.ins[i].prev /\ in.sigs = p.ins[i].sigs /\ in.final = p.ins[i].final
  BY <1>1 DEF Inputs
<1>3. SigsOf(in) = SigsOf(p.ins[i])
  <2>. HIDE DEF in
  <2>. QED  BY <1>2 DEF SigsOf, IsFinalized
<1>4. q.flags = p.flags /\ q.outs = p.outs /\ q.ins = [p.ins EXCEPT ![i] = in]
  BY DEF UpdateInput, Psbts
<1>. HIDE DEF in, q
<1>5. /\ DOMAIN q.ins = DOMAIN p.ins
      /\ q.ins[i] = in
      /\ \A j \in DOMAIN p.ins : j # i => q.ins[j] = p.ins[j]
  BY <1>4
<1>. QED  BY <1>2, <1>3, <1>4, <1>5 DEF Loses, q

-----------------------------------------------------------------------------

LEMMA NextIInv == IInv /\ [Next]_vars => IInv'
<1>. SUFFICES ASSUME IInv, [Next]_vars PROVE IInv'
  OBVIOUS
<1>. USE DEF Become
<1>0. psbt \in Psbts /\ role \in Roles
  BY DEF IInv, TypeOK
<1>1. CASE CreatorPsbt
  BY <1>0, <1>1, SameLoses, LosesIInv DEF CreatorPsbt, Roles, Constructors,
     InputConstructors, OutputConstructors
<1>2. ASSUME NEW r \in Constructors, CreatorConstructor(r)
      PROVE  IInv'
  <2>. DEFINE flags == (psbt.flags \ {"inputs", "outputs"})
            \cup (IF r \in InputConstructors THEN {"inputs"} ELSE {})
            \cup (IF r \in OutputConstructors THEN {"outputs"} ELSE {})
  <2>1. role' = r /\ psbt' = [psbt EXCEPT !.flags = flags] /\ DOMAIN psbt.ins = {}
    BY <1>2 DEF CreatorConstructor, IInv, ConstructorsHarmless
  <2>2. flags \in SUBSET ModifiableFlags
    BY <1>0, InputsOf DEF ModifiableFlags
  <2>3. psbt' \in Psbts /\ DOMAIN psbt'.ins = {}
    <3>. HIDE DEF flags
    <3>. QED  BY <1>0, <2>1, <2>2, SetFlagsType DEF Psbts
  <2>4. r \in Roles /\ r # "Creator"
    BY DEF Roles, Constructors, InputConstructors, OutputConstructors
  <2>. QED  BY <2>1, <2>3, <2>4 DEF IInv, TypeOK, CommitmentsKept, SigsPinned,
            FlagsAccurate, FlagsReflectSigs, ConstructorsHarmless
<1>3. ASSUME NEW r \in Constructors, ConstructorNew(r)
      PROVE  IInv'
  BY <1>0, <1>3, SameLoses, LosesIInv DEF ConstructorNew, Roles, Constructors,
     InputConstructors, OutputConstructors
<1>4. ASSUME NEW prev \in OutPoints, NEW lock \in LockRequests, ConstructorInput(prev, lock)
      PROVE  IInv'
  <2>. DEFINE q == AddInput(psbt, NewInput(prev, lock.minTime, lock.minHeight))
  <2>1. lock.minTime \in MinTimes /\ lock.minHeight \in MinHeights
    BY PsbtRolesAssumption
  <2>2. psbt' = q /\ role' = role /\ role \in InputConstructors
    BY <1>4 DEF ConstructorInput
  <2>3. \A i \in DOMAIN psbt.ins : \A sig \in SigsOf(psbt.ins[i]) : sig.type.acp
    BY <2>2 DEF IInv, ConstructorsHarmless
  <2>4. q \in Psbts
    BY <1>0, <2>1, AddInputType
  <2>5. /\ SigsPinned(q) /\ FlagsReflectSigs(q)
        /\ \A i \in DOMAIN psbt.ins : q.ins[i] = psbt.ins[i]
        /\ \A i \in DOMAIN q.ins : i \notin DOMAIN psbt.ins => SigsOf(q.ins[i]) = {}
    BY <1>0, <2>3, AddInputKeeps DEF IInv, CommitmentsKept, FlagsAccurate
  <2>6. role # "Creator"
    BY <2>2 DEF InputConstructors
  <2>. HIDE DEF q
  <2>. QED  BY <1>0, <2>2, <2>4, <2>5, <2>6
            DEF IInv, TypeOK, CommitmentsKept, FlagsAccurate, ConstructorsHarmless
<1>5. ASSUME NEW out \in Outputs, ConstructorOutput(out)
      PROVE  IInv'
  <2>. DEFINE q == AddOutput(psbt, out)
  <2>1. psbt' = q /\ role' = role /\ role \in OutputConstructors
    BY <1>5 DEF ConstructorOutput
  <2>2. \A i \in DOMAIN psbt.ins : \A sig \in SigsOf(psbt.ins[i]) : sig.type.base = "NONE"
    BY <2>1 DEF IInv, ConstructorsHarmless
  <2>3. q \in Psbts
    BY <1>0, AddOutputType
  <2>4. SigsPinned(q) /\ FlagsReflectSigs(q) /\ q.ins = psbt.ins
    BY <1>0, <2>2, AddOutputKeeps DEF IInv, CommitmentsKept, FlagsAccurate
  <2>. HIDE DEF q
  <2>. QED  BY <1>0, <2>1, <2>3, <2>4
            DEF IInv, TypeOK, CommitmentsKept, FlagsAccurate, ConstructorsHarmless
<1>6. ASSUME NEW flag \in {"inputs", "outputs"}, NoMore(flag)
      PROVE  IInv'
  <2>1. psbt.flags \ {flag} \in SUBSET ModifiableFlags
    BY <1>0, InputsOf
  <2>2. "single" \in psbt.flags => "single" \in psbt.flags \ {flag}
    OBVIOUS
  <2>3. [psbt EXCEPT !.flags = @ \ {flag}] \in Psbts
        /\ Loses(psbt, [psbt EXCEPT !.flags = @ \ {flag}])
    BY <1>0, <2>1, <2>2, FlagsLose
  <2>4. role # "Creator"
    BY <1>6 DEF NoMore, Constructors, InputConstructors, OutputConstructors
  <2>. QED  BY <1>0, <1>6, <2>3, <2>4, LosesIInv DEF NoMore
<1>7. CASE ConstructorPsbt
  BY <1>0, <1>7, SameLoses, LosesIInv DEF ConstructorPsbt, Roles, Constructors,
     InputConstructors, OutputConstructors
<1>8. CASE ConstructorUpdater
  <2>. DEFINE flags == psbt.flags \ {"inputs", "outputs"}
  <2>1. flags \in SUBSET ModifiableFlags
    BY <1>0, InputsOf
  <2>2. [psbt EXCEPT !.flags = flags] \in Psbts /\ Loses(psbt, [psbt EXCEPT !.flags = flags])
    BY <1>0, <2>1, FlagsLose
  <2>. QED  BY <1>0, <1>8, <2>2, LosesIInv DEF ConstructorUpdater, Roles, Constructors,
            InputConstructors, OutputConstructors
<1>9. CASE UpdaterNew
  BY <1>0, <1>9, SameLoses, LosesIInv DEF UpdaterNew, Roles, Constructors,
     InputConstructors, OutputConstructors
<1>10. ASSUME NEW i \in DOMAIN psbt.ins, NEW seq \in Sequencings, NEW sighash \in Sighashes,
              NEW lock \in LockRequests, UpdaterUpdate(i, seq, sighash, lock)
       PROVE  IInv'
  <2>. DEFINE q == UpdateInput(psbt, i, seq, sighash, lock.minTime, lock.minHeight)
  <2>1. /\ lock.minTime \in MinTimes /\ lock.minHeight \in MinHeights
        /\ seq \in Sequences \cup {NoSequence} /\ sighash \in SighashTypes \cup {NoSighash}
    BY PsbtRolesAssumption
  <2>2. q \in Psbts /\ Loses(psbt, q)
    BY <1>0, <2>1, UpdateInputType, UpdateLoses
  <2>3. role = "Updater" /\ Become(role, q)
    BY <1>10 DEF UpdaterUpdate
  <2>. HIDE DEF q, Become
  <2>. QED  BY <1>0, <2>2, <2>3, LosesIInv
<1>11. CASE UpdaterPsbt
  BY <1>0, <1>11, SameLoses, LosesIInv DEF UpdaterPsbt, Roles, Constructors,
     InputConstructors, OutputConstructors
<1>12. ASSUME NEW chosen \in SUBSET DOMAIN psbt.ins, NEW held \in SUBSET Keys,
              Sign(chosen, held)
       PROVE  IInv'
  <2>. DEFINE q == SignInputs(psbt, chosen, held)
  <2>1. /\ role' = "Psbt" /\ psbt' = q
        /\ \A i \in chosen : Signable(psbt, i)
    BY <1>12 DEF Sign
  <2>2. q \in Psbts
    BY <1>0, <2>1, SignInputsType
  <2>3. SigsPinned(q) /\ FlagsReflectSigs(q)
    BY <1>0, <2>1, SignInputsKeeps DEF IInv, CommitmentsKept, FlagsAccurate
  <2>. HIDE DEF q
  <2>. QED  BY <2>1, <2>2, <2>3 DEF IInv, TypeOK, CommitmentsKept, FlagsAccurate,
            ConstructorsHarmless, Roles, InputConstructors, OutputConstructors
<1>13. ASSUME NEW type \in SighashTypes, SignerClearModifiable(type)
       PROVE  IInv'
  <2>. DEFINE flags == ApplySighash(psbt.flags, {type})
  <2>1. flags \in SUBSET ModifiableFlags
    BY <1>0, InputsOf DEF ApplySighash, ModifiableFlags
  <2>2. /\ flags \cap {"inputs", "outputs"} \subseteq psbt.flags
        /\ "single" \in psbt.flags => "single" \in flags
    BY <1>0, InputsOf, ApplySighashClears
  <2>. HIDE DEF flags
  <2>3. [psbt EXCEPT !.flags = flags] \in Psbts /\ Loses(psbt, [psbt EXCEPT !.flags = flags])
    BY <1>0, <2>1, <2>2, FlagsLose
  <2>4. role = "Psbt" /\ Become("Psbt", [psbt EXCEPT !.flags = flags])
    BY <1>13 DEF SignerClearModifiable, flags
  <2>. QED  BY <1>0, <2>3, <2>4, LosesIInv
<1>14. ASSUME NEW choice \in [DOMAIN psbt.ins -> AllSpendings], Finalize(choice)
       PROVE  IInv'
  <2>. DEFINE q == FinalizeInputs(psbt, choice)
  <2>1. role = "Psbt" /\ Become("Psbt", q) /\ Finalizable(psbt, choice)
    BY <1>14 DEF Finalize
  <2>2. q \in Psbts /\ Loses(psbt, q)
    BY <1>0, <2>1, FinalizeInputsType, FinalizeInputsLoses
  <2>. HIDE DEF q, Become
  <2>. QED  BY <1>0, <2>1, <2>2, LosesIInv
<1>15. CASE Extract
  BY <1>0, <1>15, SameLoses, LosesIInv DEF Extract, Roles, Constructors,
     InputConstructors, OutputConstructors
<1>16. CASE UNCHANGED vars
  BY <1>16 DEF vars, IInv, TypeOK, CommitmentsKept, FlagsAccurate, ConstructorsHarmless
<1>. QED  BY <1>1, <1>2, <1>3, <1>4, <1>5, <1>6, <1>7, <1>8, <1>9, <1>10, <1>11, <1>12,
          <1>13, <1>14, <1>15, <1>16 DEF Next

\* The invariant holds in every state of every behaviour.
THEOREM Invariance == Spec => []IInv
BY InitIInv, NextIInv, PTL DEF Spec

\* Every value the PSBT and its role take is one of their types.
THEOREM TypeCorrect == Spec => []TypeOK
<1>1. IInv => TypeOK
  BY DEF IInv
<1>. QED  BY <1>1, Invariance, PTL

\* The modifiable flags never say more than the signatures present allow.
THEOREM FlagsAlwaysAccurate == Spec => []FlagsAccurate
<1>1. IInv => FlagsAccurate
  BY DEF IInv
<1>. QED  BY <1>1, Invariance, PTL

\* The outpoints and outputs a signature covers are never taken away.
THEOREM CommitmentsAlwaysKept == Spec => []CommitmentsKept
<1>1. IInv => CommitmentsKept
  BY DEF IInv
<1>. QED  BY <1>1, Invariance, PTL

\* No Constructor can be held that could hurt a signature.
THEOREM ConstructorsAlwaysHarmless == Spec => []ConstructorsHarmless
<1>1. IInv => ConstructorsHarmless
  BY DEF IInv
<1>. QED  BY <1>1, Invariance, PTL

-----------------------------------------------------------------------------
(* TxDraft.                                                                 *)

LEMMA InitDraft == Init => Draft!Init
<1>. SUFFICES ASSUME Init PROVE Draft!Init
  OBVIOUS
<1>1. role = "Creator" /\ psbt.ins = <<>> /\ psbt.outs = <<>>
  BY DEF Init, EmptyPsbt
<1>2. TxPrevs(psbt) = <<>>
  BY <1>1 DEF TxPrevs
<1>3. OpenSides = {"inputs", "outputs"}
  BY <1>1 DEF OpenSides
<1>. QED  BY <1>1, <1>2, <1>3 DEF Draft!Init

\* A step that opens no side and keeps outpoints and outputs closes sides.
LEMMA LosesCloses ==
    ASSUME NEW r, NEW q, Become(r, q), Loses(psbt, q), r # "Creator",
           r \in InputConstructors => "inputs" \in OpenSides,
           r \in OutputConstructors => "outputs" \in OpenSides
    PROVE  Draft!Close
<1>1. role' = r /\ psbt' = q
  BY DEF Become
<1>2. TxPrevs(psbt') = TxPrevs(psbt) /\ psbt'.outs = psbt.outs
  BY <1>1, LosesPrevs DEF Loses
<1>3. OpenSides' \subseteq OpenSides
  BY <1>1 DEF OpenSides, Loses
<1>. QED  BY <1>2, <1>3 DEF Draft!Close

LEMMA NextDraft == IInv /\ [Next]_vars => [Draft!Next]_<<TxPrevs(psbt), psbt.outs, OpenSides>>
<1>. SUFFICES ASSUME IInv, [Next]_vars
              PROVE  \/ Draft!GrowInputs \/ Draft!GrowOutputs \/ Draft!Close
                     \/ UNCHANGED <<TxPrevs(psbt), psbt.outs, OpenSides>>
  BY DEF Draft!Next
<1>0. psbt \in Psbts /\ role \in Roles
  BY DEF IInv, TypeOK
<1>. DEFINE Side(r) == /\ r \in InputConstructors => "inputs" \in OpenSides
                       /\ r \in OutputConstructors => "outputs" \in OpenSides
<1>s. Side(role) /\ Loses(psbt, psbt)
  BY SameLoses DEF OpenSides
<1>n. \A r \in {"Psbt", "Updater", "Extractor"} : Side(r) /\ r # "Creator"
  BY DEF InputConstructors, OutputConstructors
<1>. HIDE DEF Side
<1>c. ASSUME NEW r, NEW q, Become(r, q), Loses(psbt, q), r # "Creator", Side(r)
      PROVE  Draft!Close
  BY <1>c, LosesCloses DEF Side
<1>1. CASE CreatorPsbt
  BY <1>1, <1>s, <1>n, <1>c DEF CreatorPsbt
<1>2. ASSUME NEW r \in Constructors, CreatorConstructor(r)
      PROVE  Draft!Close
  <2>. DEFINE flags == (psbt.flags \ {"inputs", "outputs"})
            \cup (IF r \in InputConstructors THEN {"inputs"} ELSE {})
            \cup (IF r \in OutputConstructors THEN {"outputs"} ELSE {})
              q == [psbt EXCEPT !.flags = flags]
  <2>1. role' = r /\ psbt' = q
    BY <1>2 DEF CreatorConstructor, Become
  <2>2. q.ins = psbt.ins /\ q.outs = psbt.outs
    <3>. HIDE DEF flags
    <3>. QED  BY <1>0 DEF Psbts
  <2>3. OpenSides = {"inputs", "outputs"}
    BY <1>2 DEF CreatorConstructor, OpenSides
  <2>4. OpenSides' \subseteq {"inputs", "outputs"}
    BY DEF OpenSides
  <2>5. TxPrevs(psbt') = TxPrevs(psbt)
    <3>. HIDE DEF q
    <3>. QED  BY <2>1, <2>2 DEF TxPrevs
  <2>. HIDE DEF q
  <2>. QED  BY <2>1, <2>2, <2>3, <2>4, <2>5 DEF Draft!Close
<1>3. ASSUME NEW r \in Constructors, ConstructorNew(r)
      PROVE  Draft!Close
  <2>1. Side(r) /\ r # "Creator"
    BY <1>3 DEF ConstructorNew, OpenSides, Side, Constructors, InputConstructors,
       OutputConstructors
  <2>. QED  BY <1>3, <1>s, <1>c, <2>1 DEF ConstructorNew
<1>4. ASSUME NEW prev \in OutPoints, NEW lock \in LockRequests, ConstructorInput(prev, lock)
      PROVE  Draft!GrowInputs
  <2>. DEFINE in == NewInput(prev, lock.minTime, lock.minHeight)
              q == AddInput(psbt, in)
  <2>1. role \in InputConstructors /\ role' = role /\ psbt' = q
    BY <1>4 DEF ConstructorInput, Become
  <2>2. q.ins = Append(psbt.ins, in) /\ q.outs = psbt.outs /\ q.flags = psbt.flags
    BY <1>0 DEF AddInput, Psbts
  <2>3. in.prev = prev
    BY DEF NewInput
  <2>. HIDE DEF q, in
  <2>4. TxPrevs(q) = Append(TxPrevs(psbt), prev)
    <3>1. /\ DOMAIN q.ins = 1 .. (Len(psbt.ins) + 1)
          /\ \A i \in 1 .. Len(psbt.ins) : q.ins[i] = psbt.ins[i]
          /\ q.ins[Len(psbt.ins) + 1] = in
      BY <1>0, <2>2, InputsOf
    <3>2. /\ TxPrevs(psbt) \in [1 .. Len(psbt.ins) -> OutPoints]
          /\ \A i \in 1 .. Len(psbt.ins) : TxPrevs(psbt)[i] = psbt.ins[i].prev
      BY <1>0, InputsOf DEF TxPrevs, Inputs
    <3>3. TxPrevs(psbt) \in Seq(OutPoints) /\ Len(TxPrevs(psbt)) = Len(psbt.ins)
      BY <1>0, <3>2, InputsOf, SeqOfFunction
    <3>4. /\ TxPrevs(q) \in [1 .. (Len(psbt.ins) + 1) -> OutPoints]
          /\ \A i \in 1 .. Len(psbt.ins) : TxPrevs(q)[i] = TxPrevs(psbt)[i]
          /\ TxPrevs(q)[Len(psbt.ins) + 1] = prev
      <4>. DEFINE n == Len(psbt.ins)
      <4>1. TxPrevs(q) = [i \in 1 .. (n + 1) |-> q.ins[i].prev]
        BY <3>1 DEF TxPrevs
      <4>2. n \in Nat
        BY <1>0, InputsOf
      <4>3. \A i \in 1 .. (n + 1) : i \in 1 .. n \/ i = n + 1
        BY <4>2
      <4>4. \A i \in 1 .. n : q.ins[i].prev = TxPrevs(psbt)[i] /\ TxPrevs(psbt)[i] \in OutPoints
        BY <3>1, <3>2
      <4>5. q.ins[n + 1].prev = prev
        BY <2>3, <3>1
      <4>. HIDE DEF n
      <4>6. \A i \in 1 .. (n + 1) : q.ins[i].prev \in OutPoints
        BY <4>3, <4>4, <4>5
      <4>7. /\ TxPrevs(q) \in [1 .. (n + 1) -> OutPoints]
            /\ \A i \in 1 .. (n + 1) : TxPrevs(q)[i] = q.ins[i].prev
        BY <4>1, <4>6
      <4>8. 1 .. n \subseteq 1 .. (n + 1) /\ n + 1 \in 1 .. (n + 1)
        BY <4>2
      <4>. QED  BY <4>4, <4>5, <4>7, <4>8 DEF n
    <3>5. Len(psbt.ins) + 1 \in Nat
      BY <1>0, InputsOf
    <3>6. TxPrevs(q) \in Seq(OutPoints) /\ Len(TxPrevs(q)) = Len(psbt.ins) + 1
      BY <3>4, <3>5, SeqOfFunction
    <3>. QED  BY <3>3, <3>4, <3>6, InputsOf
  <2>5. "inputs" \in OpenSides
    BY <2>1 DEF OpenSides
  <2>6. OpenSides' = OpenSides
    BY <2>1, <2>2 DEF OpenSides
  <2>. QED  BY <2>1, <2>2, <2>4, <2>5, <2>6 DEF Draft!GrowInputs
<1>5. ASSUME NEW out \in Outputs, ConstructorOutput(out)
      PROVE  Draft!GrowOutputs
  <2>1. role \in OutputConstructors /\ role' = role /\ psbt' = AddOutput(psbt, out)
    BY <1>5 DEF ConstructorOutput, Become
  <2>2. /\ psbt'.ins = psbt.ins /\ psbt'.flags = psbt.flags
        /\ psbt'.outs = Append(psbt.outs, out)
    BY <1>0, <2>1 DEF AddOutput, Psbts
  <2>3. TxPrevs(psbt') = TxPrevs(psbt)
    BY <2>2 DEF TxPrevs
  <2>4. "outputs" \in OpenSides /\ OpenSides' = OpenSides
    BY <2>1, <2>2 DEF OpenSides
  <2>. QED  BY <2>2, <2>3, <2>4 DEF Draft!GrowOutputs
<1>6. ASSUME NEW flag \in {"inputs", "outputs"}, NoMore(flag)
      PROVE  Draft!Close
  <2>1. psbt.flags \ {flag} \in SUBSET ModifiableFlags
    BY <1>0, InputsOf
  <2>2. "single" \in psbt.flags => "single" \in psbt.flags \ {flag}
    OBVIOUS
  <2>3. Loses(psbt, [psbt EXCEPT !.flags = @ \ {flag}])
    BY <1>0, <2>1, <2>2, FlagsLose
  <2>4. role # "Creator"
    BY <1>6 DEF NoMore, Constructors, InputConstructors, OutputConstructors
  <2>. QED  BY <1>6, <1>s, <1>c, <2>3, <2>4 DEF NoMore
<1>7. CASE ConstructorPsbt
  BY <1>7, <1>s, <1>n, <1>c DEF ConstructorPsbt
<1>8. CASE ConstructorUpdater
  <2>1. psbt.flags \ {"inputs", "outputs"} \in SUBSET ModifiableFlags
    BY <1>0, InputsOf
  <2>2. Loses(psbt, [psbt EXCEPT !.flags = @ \ {"inputs", "outputs"}])
    BY <1>0, <2>1, FlagsLose
  <2>. QED  BY <1>8, <1>n, <1>c, <2>2 DEF ConstructorUpdater
<1>9. CASE UpdaterNew
  BY <1>9, <1>s, <1>n, <1>c DEF UpdaterNew
<1>10. ASSUME NEW i \in DOMAIN psbt.ins, NEW seq \in Sequencings, NEW sighash \in Sighashes,
              NEW lock \in LockRequests, UpdaterUpdate(i, seq, sighash, lock)
       PROVE  Draft!Close
  BY <1>0, <1>10, <1>n, <1>c, UpdateLoses DEF UpdaterUpdate
<1>11. CASE UpdaterPsbt
  BY <1>11, <1>s, <1>n, <1>c DEF UpdaterPsbt
<1>12. ASSUME NEW chosen \in SUBSET DOMAIN psbt.ins, NEW held \in SUBSET Keys,
              Sign(chosen, held)
       PROVE  Draft!Close
  <2>. DEFINE q == SignInputs(psbt, chosen, held)
  <2>1. role = "Psbt" /\ role' = "Psbt" /\ psbt' = q
    BY <1>12 DEF Sign, Become
  <2>2. /\ DOMAIN q.ins = DOMAIN psbt.ins /\ q.outs = psbt.outs
        /\ \A i \in DOMAIN psbt.ins : q.ins[i] \in {psbt.ins[i], SignInput(psbt, i, held)}
        /\ \E types : q.flags = ApplySighash(psbt.flags, types)
    BY <1>0 DEF SignInputs, Psbts
  <2>. HIDE DEF q
  <2>3. TxPrevs(q) = TxPrevs(psbt)
    BY <1>0, <2>2, SignInputSigs, LosesPrevs
  <2>4. q.flags \cap {"inputs", "outputs"} \subseteq psbt.flags
    BY <1>0, <2>2, InputsOf, ApplySighashClears
  <2>5. OpenSides' \subseteq OpenSides
    BY <2>1, <2>4 DEF OpenSides, InputConstructors, OutputConstructors
  <2>. QED  BY <2>1, <2>2, <2>3, <2>5 DEF Draft!Close
<1>13. ASSUME NEW type \in SighashTypes, SignerClearModifiable(type)
       PROVE  Draft!Close
  <2>. DEFINE flags == ApplySighash(psbt.flags, {type})
  <2>1. flags \in SUBSET ModifiableFlags
    BY <1>0, InputsOf DEF ApplySighash, ModifiableFlags
  <2>2. /\ flags \cap {"inputs", "outputs"} \subseteq psbt.flags
        /\ "single" \in psbt.flags => "single" \in flags
    BY <1>0, InputsOf, ApplySighashClears
  <2>. HIDE DEF flags
  <2>3. Loses(psbt, [psbt EXCEPT !.flags = flags])
    BY <1>0, <2>1, <2>2, FlagsLose
  <2>4. Become("Psbt", [psbt EXCEPT !.flags = flags])
    BY <1>13 DEF SignerClearModifiable, flags
  <2>. QED  BY <2>3, <2>4, <1>n, <1>c
<1>14. ASSUME NEW choice \in [DOMAIN psbt.ins -> AllSpendings], Finalize(choice)
       PROVE  Draft!Close
  BY <1>0, <1>14, <1>n, <1>c, FinalizeInputsLoses DEF Finalize
<1>15. CASE Extract
  BY <1>15, <1>s, <1>n, <1>c DEF Extract
<1>16. CASE UNCHANGED vars
  BY <1>16 DEF vars, TxPrevs, OpenSides
<1>. QED  BY <1>1, <1>2, <1>3, <1>4, <1>5, <1>6, <1>7, <1>8, <1>9, <1>10, <1>11, <1>12,
          <1>13, <1>14, <1>15, <1>16 DEF Next

\* The life of a PSBT implements the append-only draft of TxDraft.
THEOREM RolesImplementTxDraft == Spec => ImplementsTxDraft
BY InitDraft, NextDraft, Invariance, PTL DEF Spec, ImplementsTxDraft, Draft!Spec

-----------------------------------------------------------------------------
(* Lock times.                                                              *)

ExtractorLock == role = "Extractor" => Determinable(psbt)

LEMMA NextExtractorLock == ExtractorLock /\ [Next]_vars => ExtractorLock'
<1>. SUFFICES ASSUME ExtractorLock, [Next]_vars, role' = "Extractor"
              PROVE  Determinable(psbt')
  BY DEF ExtractorLock
<1>1. CASE Extract
  BY <1>1 DEF Extract, Become
<1>2. CASE UNCHANGED vars
  BY <1>2 DEF vars, ExtractorLock
<1>3. ~ \E r \in Constructors : CreatorConstructor(r) \/ ConstructorNew(r)
  BY DEF CreatorConstructor, ConstructorNew, Become, Constructors, InputConstructors,
     OutputConstructors
<1>4. ~ \E prev \in OutPoints, lock \in LockRequests : ConstructorInput(prev, lock)
  BY DEF ConstructorInput, Become, InputConstructors
<1>5. ~ \E out \in Outputs : ConstructorOutput(out)
  BY DEF ConstructorOutput, Become, OutputConstructors
<1>6. ~ \E flag \in {"inputs", "outputs"} : NoMore(flag)
  BY DEF NoMore, Become, Constructors, InputConstructors, OutputConstructors
<1>7. ~CreatorPsbt /\ ~ConstructorPsbt /\ ~ConstructorUpdater /\ ~UpdaterNew /\ ~UpdaterPsbt
  BY DEF CreatorPsbt, ConstructorPsbt, ConstructorUpdater, UpdaterNew, UpdaterPsbt, Become
<1>8. ~ \E i \in DOMAIN psbt.ins, seq \in Sequencings, sighash \in Sighashes,
           lock \in LockRequests : UpdaterUpdate(i, seq, sighash, lock)
  BY DEF UpdaterUpdate, Become
<1>9. ~ \E chosen \in SUBSET DOMAIN psbt.ins, held \in SUBSET Keys : Sign(chosen, held)
  BY DEF Sign, Become
<1>10. ~ \E type \in SighashTypes : SignerClearModifiable(type)
  BY DEF SignerClearModifiable, Become
<1>11. ~ \E choice \in [DOMAIN psbt.ins -> AllSpendings] : Finalize(choice)
  BY DEF Finalize, Become
<1>. QED  BY <1>1, <1>2, <1>3, <1>4, <1>5, <1>6, <1>7, <1>8, <1>9, <1>10, <1>11 DEF Next

\* The nLockTime of the transaction meets what every input asks for.
THEOREM TxLockAlwaysMeetsInputs == Spec => []TxLockMeetsInputs
<1>1. TypeOK /\ ExtractorLock => TxLockMeetsInputs
  <2>. SUFFICES ASSUME TypeOK, ExtractorLock PROVE TxLockMeetsInputs
    OBVIOUS
  <2>1. LockFieldsOk(psbt.ins) /\ psbt.fallback \in LockTimes
    BY LocksOf, InputsOf DEF TypeOK
  <2>2. Determinable(psbt) => \A i \in DOMAIN psbt.ins : Satisfies(TxLock(psbt), psbt.ins[i])
    BY <2>1, LockTimeSatisfiesInputs DEF Determinable, TxLock
  <2>. QED  BY <2>2 DEF TxLockMeetsInputs, ExtractorLock
<1>2. Init => ExtractorLock
  BY DEF Init, ExtractorLock
<1>. QED  BY <1>1, <1>2, NextExtractorLock, TypeCorrect, PTL DEF Spec

-----------------------------------------------------------------------------
(* The transaction under Signers and Finalizers.                            *)

LEMMA SignInputsKeepTx ==
    ASSUME NEW p \in Psbts, NEW chosen, NEW held
    PROVE  UnsignedTx(SignInputs(p, chosen, held)) = UnsignedTx(p)
<1>. DEFINE q == SignInputs(p, chosen, held)
<1>1. /\ DOMAIN q.ins = DOMAIN p.ins /\ q.outs = p.outs /\ q.fallback = p.fallback
      /\ \A i \in DOMAIN p.ins : q.ins[i] \in {p.ins[i], SignInput(p, i, held)}
  BY DEF SignInputs, Psbts
<1>2. \A i \in DOMAIN p.ins :
         LET in == SignInput(p, i, held)
         IN /\ in.prev = p.ins[i].prev /\ in.seq = p.ins[i].seq
            /\ in.minTime = p.ins[i].minTime /\ in.minHeight = p.ins[i].minHeight
  BY InputsOf DEF SignInput, Inputs
<1>. HIDE DEF q
<1>. QED  BY <1>1, <1>2, SameTx DEF q

LEMMA FinalizeInputsKeepTx ==
    ASSUME NEW p \in Psbts, NEW choice
    PROVE  UnsignedTx(FinalizeInputs(p, choice)) = UnsignedTx(p)
<1>. DEFINE q == FinalizeInputs(p, choice)
<1>1. /\ DOMAIN q.ins = DOMAIN p.ins /\ q.outs = p.outs /\ q.fallback = p.fallback
      /\ \A i \in DOMAIN p.ins : \/ q.ins[i] = p.ins[i]
                                 \/ q.ins[i] = FinalizeInput(p.ins[i], choice[i])
  BY DEF FinalizeInputs, Psbts
<1>2. \A in \in Inputs : \A s :
         LET final == FinalizeInput(in, s)
         IN /\ final.prev = in.prev /\ final.seq = in.seq
            /\ final.minTime = in.minTime /\ final.minHeight = in.minHeight
  BY DEF FinalizeInput, Inputs
<1>. HIDE DEF q
<1>. QED  BY <1>1, <1>2, InputsOf, SameTx DEF q

LEMMA NextKeepsTx ==
    IInv /\ [Next]_vars => (role = "Psbt" => UnsignedTx(psbt') = UnsignedTx(psbt))
<1>. SUFFICES ASSUME IInv, [Next]_vars, role = "Psbt"
              PROVE  UnsignedTx(psbt') = UnsignedTx(psbt)
  OBVIOUS
<1>0. psbt \in Psbts
  BY DEF IInv, TypeOK
<1>1. CASE psbt' = psbt
  BY <1>1
<1>2. ASSUME NEW chosen \in SUBSET DOMAIN psbt.ins, NEW held \in SUBSET Keys,
             Sign(chosen, held)
      PROVE  UnsignedTx(psbt') = UnsignedTx(psbt)
  BY <1>0, <1>2, SignInputsKeepTx DEF Sign, Become
<1>3. ASSUME NEW type \in SighashTypes, SignerClearModifiable(type)
      PROVE  UnsignedTx(psbt') = UnsignedTx(psbt)
  <2>1. /\ psbt'.ins = psbt.ins /\ psbt'.outs = psbt.outs /\ psbt'.fallback = psbt.fallback
    BY <1>0, <1>3 DEF SignerClearModifiable, Become, Psbts
  <2>. QED  BY <2>1, SameTx
<1>4. ASSUME NEW choice \in [DOMAIN psbt.ins -> AllSpendings], Finalize(choice)
      PROVE  UnsignedTx(psbt') = UnsignedTx(psbt)
  BY <1>0, <1>4, FinalizeInputsKeepTx DEF Finalize, Become
<1>5. ~ \E r \in Constructors : CreatorConstructor(r)
  BY DEF CreatorConstructor
<1>6. /\ \A r \in Constructors : ConstructorNew(r) => psbt' = psbt
      /\ UpdaterNew \/ Extract \/ UNCHANGED vars => psbt' = psbt
  BY DEF ConstructorNew, UpdaterNew, Extract, vars, Become
<1>7. ~ \E prev \in OutPoints, lock \in LockRequests : ConstructorInput(prev, lock)
  BY DEF ConstructorInput, InputConstructors
<1>8. ~ \E out \in Outputs : ConstructorOutput(out)
  BY DEF ConstructorOutput, OutputConstructors
<1>9. ~ \E flag \in {"inputs", "outputs"} : NoMore(flag)
  BY DEF NoMore, Constructors, InputConstructors, OutputConstructors
<1>10. ~CreatorPsbt /\ ~ConstructorPsbt /\ ~ConstructorUpdater /\ ~UpdaterPsbt
  BY DEF CreatorPsbt, ConstructorPsbt, ConstructorUpdater, UpdaterPsbt, Constructors,
     InputConstructors, OutputConstructors
<1>11. ~ \E i \in DOMAIN psbt.ins, seq \in Sequencings, sighash \in Sighashes,
            lock \in LockRequests : UpdaterUpdate(i, seq, sighash, lock)
  BY DEF UpdaterUpdate
<1>. QED  BY <1>1, <1>2, <1>3, <1>4, <1>5, <1>6, <1>7, <1>8, <1>9, <1>10, <1>11 DEF Next

\* Signing and finalizing leave the unsigned transaction what it was.
THEOREM SigningAlwaysKeepsTx == Spec => SigningKeepsTx
BY NextKeepsTx, Invariance, PTL DEF Spec, SigningKeepsTx

-----------------------------------------------------------------------------
(* What breaks a signature.  Both PSBTs of a step keep the promises to the  *)
(* signatures present, so that only what CommitmentsKept leaves open, the   *)
(* lock time and the sequence numbers, can make the difference.             *)

LEMMA NextKeepsInputs ==
    IInv /\ [Next]_vars => DOMAIN psbt.ins \subseteq DOMAIN psbt'.ins
<1>. SUFFICES ASSUME IInv, [Next]_vars PROVE DOMAIN psbt.ins \subseteq DOMAIN psbt'.ins
  OBVIOUS
<1>1. psbt \in Psbts
  BY DEF IInv, TypeOK
<1>2. \/ TxPrevs(psbt') = TxPrevs(psbt)
      \/ \E o \in OutPoints : TxPrevs(psbt') = Append(TxPrevs(psbt), o)
  BY NextDraft DEF Draft!Next, Draft!GrowInputs, Draft!GrowOutputs, Draft!Close
<1>3. TxPrevs(psbt) \in Seq(OutPoints)
  BY <1>1, InputsOf, SeqOfFunction DEF TxPrevs, Inputs
<1>4. DOMAIN TxPrevs(psbt) \subseteq DOMAIN TxPrevs(psbt')
  BY <1>2, <1>3
<1>. QED  BY <1>4 DEF TxPrevs

LEMMA PinnedBreaksByTimes ==
    ASSUME NEW p, NEW q, SigsPinned(q), DOMAIN p.ins \subseteq DOMAIN q.ins,
           NEW i \in DOMAIN p.ins, NEW sig \in SigsOf(q.ins[i]),
           SigValid(sig, p, i), TxLock(q) = TxLock(p),
           \A j \in DOMAIN p.ins : TxSequence(q.ins[j]) = TxSequence(p.ins[j])
    PROVE  SigValid(sig, q, i)
<1>. DEFINE type == sig.type
<1>1. sig = Digest(p, i, type)
  BY DEF SigValid
<1>2. /\ HasCommittedOutput(q, i, type)
      /\ sig.prevs = CommittedPrevs(q, i, type)
      /\ sig.outs = CommittedOutputs(q, i, type)
  BY DEF SigsPinned
<1>3. CommittedSequences(q, i, type) = CommittedSequences(p, i, type)
  <2>1. CASE type.acp \/ type.base # "ALL"
    BY <2>1 DEF CommittedSequences
  <2>2. CASE ~type.acp /\ type.base = "ALL"
    <3>1. TxPrevs(q) = TxPrevs(p)
      BY <1>1, <1>2, <2>2 DEF CommittedPrevs, Digest
    <3>2. DOMAIN q.ins = DOMAIN p.ins
      BY <3>1 DEF TxPrevs
    <3>3. TxSequences(q) = TxSequences(p)
      BY <3>2 DEF TxSequences
    <3>. QED  BY <3>3 DEF CommittedSequences
  <2>. QED  BY <2>1, <2>2
<1>4. /\ sig.prevs = CommittedPrevs(p, i, type) /\ sig.outs = CommittedOutputs(p, i, type)
  BY <1>1 DEF Digest
<1>5. Digest(q, i, type) = Digest(p, i, type)
  BY <1>2, <1>3, <1>4 DEF Digest
<1>. QED  BY <1>1, <1>2, <1>5 DEF SigValid

\* No handler of any role turns a valid signature invalid, except by the lock
\* time of the transaction or a sequence number under it.
THEOREM SigsOnlyEverBreakByTimes == Spec => SigsBreakOnlyByTimes
<1>. DEFINE Breaks ==
       \A i \in DOMAIN psbt.ins : \A sig \in SigsOf(psbt.ins[i]) \cap SigsOf(psbt'.ins[i]) :
          SigValid(sig, psbt, i) /\ ~SigValid(sig, psbt', i)
            => \/ TxLock(psbt') # TxLock(psbt)
               \/ \E j \in DOMAIN psbt.ins :
                     TxSequence(psbt'.ins[j]) # TxSequence(psbt.ins[j])
<1>1. IInv /\ IInv' /\ [Next]_vars => Breaks
  <2>. SUFFICES ASSUME IInv, IInv', [Next]_vars PROVE Breaks
    OBVIOUS
  <2>1. SigsPinned(psbt') /\ DOMAIN psbt.ins \subseteq DOMAIN psbt'.ins
    BY NextKeepsInputs DEF IInv, CommitmentsKept
  <2>. QED  BY <2>1, PinnedBreaksByTimes
<1>. QED  BY <1>1, Invariance, PTL DEF Spec, SigsBreakOnlyByTimes
=============================================================================
