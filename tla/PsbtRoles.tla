------------------------------- MODULE PsbtRoles -------------------------------
(***************************************************************************)
(* One PSBT on its way through the BIP-370 roles.  Each role type owns the  *)
(* Psbt it works on, so the whole state is the PSBT and the type that holds *)
(* it: Creator, one of the three Constructor<T>, Updater, or the bare Psbt  *)
(* between roles.  A Signer and a Finalizer hold an immutable copy until    *)
(* they return the Psbt, so each is one step from Psbt to Psbt.  Any role   *)
(* may be taken up again as long as its constructor accepts the PSBT.       *)
(***************************************************************************)
EXTENDS Psbt

CONSTANTS
    Sequencings,    \* the values an Updater gives PSBT_IN_SEQUENCE
    Sighashes,      \* the values an Updater gives PSBT_IN_SIGHASH_TYPE
    LockRequests,   \* the [minTime, minHeight] pairs given to an input
    Fallbacks,      \* fallback lock times
    CreatorFlags,   \* the modifiable flags a Creator starts from
    MaxInputs,      \* bound on the number of inputs
    MaxOutputs      \* bound on the number of outputs

ASSUME PsbtRolesAssumption ==
    /\ Sequencings \subseteq Sequences \cup {NoSequence}
    /\ Sighashes \subseteq SighashTypes \cup {NoSighash}
    /\ LockRequests \subseteq [minTime : MinTimes, minHeight : MinHeights]
    /\ Fallbacks \subseteq LockTimes
    /\ CreatorFlags \subseteq SUBSET ModifiableFlags

VARIABLES role, psbt
vars == <<role, psbt>>

InputConstructors  == {"Modifiable", "InputsOnlyModifiable"}
OutputConstructors == {"Modifiable", "OutputsOnlyModifiable"}
Constructors       == InputConstructors \cup OutputConstructors
Roles              == Constructors \cup {"Creator", "Psbt", "Updater", "Extractor"}

TypeOK == role \in Roles /\ psbt \in Psbts

Become(r, p) == role' = r /\ psbt' = p

\* Creator::new and its builder calls, up to the first change of role.
Init ==
    /\ role = "Creator"
    /\ \E flags \in CreatorFlags, fallback \in Fallbacks :
          psbt = EmptyPsbt(flags, fallback)

-----------------------------------------------------------------------------
(* Creator.                                                                 *)

CreatorPsbt == role = "Creator" /\ Become("Psbt", psbt)

\* constructor_modifiable and its two variants set and clear the two flags.
CreatorConstructor(r) ==
    /\ role = "Creator"
    /\ Become(r, [psbt EXCEPT !.flags =
          (@ \ {"inputs", "outputs"})
            \cup (IF r \in InputConstructors THEN {"inputs"} ELSE {})
            \cup (IF r \in OutputConstructors THEN {"outputs"} ELSE {})])

-----------------------------------------------------------------------------
(* Constructor.                                                             *)

\* A slip: Constructor<Modifiable>::new content with either flag.
ConstructorNewEither(r) ==
    /\ role = "Psbt"
    /\ \/ r \in InputConstructors /\ "inputs" \in psbt.flags
       \/ r \in OutputConstructors /\ "outputs" \in psbt.flags
    /\ Become(r, psbt)

ConstructorNew(r) ==
    /\ role = "Psbt"
    /\ r \in InputConstructors => "inputs" \in psbt.flags
    /\ r \in OutputConstructors => "outputs" \in psbt.flags
    /\ Become(r, psbt)

ConstructorInput(prev, lock) ==
    /\ role \in InputConstructors
    /\ Len(psbt.ins) < MaxInputs
    /\ Become(role, AddInput(psbt, NewInput(prev, lock.minTime, lock.minHeight)))

ConstructorOutput(out) ==
    /\ role \in OutputConstructors
    /\ Len(psbt.outs) < MaxOutputs
    /\ Become(role, AddOutput(psbt, out))

\* no_more_inputs and no_more_outputs clear the flag, not the type.
NoMore(flag) ==
    /\ role \in Constructors
    /\ Become(role, [psbt EXCEPT !.flags = @ \ {flag}])

\* Constructor::psbt; an undeterminable lock time is an error.
ConstructorPsbt ==
    /\ role \in Constructors
    /\ Determinable(psbt)
    /\ Become("Psbt", psbt)

ConstructorUpdater ==
    /\ role \in Constructors
    /\ Determinable(psbt)
    /\ Become("Updater", [psbt EXCEPT !.flags = @ \ {"inputs", "outputs"}])

-----------------------------------------------------------------------------
(* Updater.                                                                 *)

UpdaterNew == role = "Psbt" /\ Determinable(psbt) /\ Become("Updater", psbt)

UpdaterUpdate(i, seq, sighash, lock) ==
    /\ role = "Updater"
    /\ Become(role, UpdateInput(psbt, i, seq, sighash, lock.minTime, lock.minHeight))

UpdaterPsbt == role = "Updater" /\ Determinable(psbt) /\ Become("Psbt", psbt)

-----------------------------------------------------------------------------
(* Signer, Finalizer, Extractor.                                            *)

\* Signer::new, one session, Signer::apply.
Sign(chosen, held) ==
    /\ role = "Psbt"
    /\ Determinable(psbt)
    /\ \A i \in chosen : Signable(psbt, i)
    /\ Become(role, SignInputs(psbt, chosen, held))

\* Signer::ecdsa_clear_tx_modifiable for signatures kept elsewhere.
SignerClearModifiable(type) ==
    /\ role = "Psbt"
    /\ Determinable(psbt)
    /\ Become(role, [psbt EXCEPT !.flags = ApplySighash(@, {type})])

\* A slip: what a final input no longer needs is cleared in the end, and with it
\* what the transaction is rebuilt from.
FinalizeClearing(choice) ==
    /\ role = "Psbt"
    /\ Determinable(psbt)
    /\ \A i \in DOMAIN psbt.ins : SighashesAgree(psbt.ins[i])
    /\ Finalizable(psbt, choice)
    /\ InterpreterCheck(FinalizeInputs(psbt, choice))
    /\ Become(role, [psbt EXCEPT !.ins = [i \in DOMAIN @ |->
          [FinalizeInputs(psbt, choice).ins[i] EXCEPT !.seq = NoSequence, !.minTime = None,
                                                      !.minHeight = None]]])

\* Finalizer::new and Finalizer::finalize.
Finalize(choice) ==
    /\ role = "Psbt"
    /\ Determinable(psbt)
    /\ \A i \in DOMAIN psbt.ins : SighashesAgree(psbt.ins[i])
    /\ Finalizable(psbt, choice)
    /\ InterpreterCheck(FinalizeInputs(psbt, choice))
    /\ Become(role, FinalizeInputs(psbt, choice))

\* Extractor::new and extract_tx: the transaction is that of psbt.
Extract ==
    /\ role = "Psbt"
    /\ AllFinalized(psbt)
    /\ Determinable(psbt)
    /\ Become("Extractor", psbt)

-----------------------------------------------------------------------------

AllSpendings == UNION { Spendings[o] : o \in OutPoints }

Next ==
    \/ CreatorPsbt
    \/ \E r \in Constructors : CreatorConstructor(r) \/ ConstructorNew(r)
    \/ \E prev \in OutPoints, lock \in LockRequests : ConstructorInput(prev, lock)
    \/ \E out \in Outputs : ConstructorOutput(out)
    \/ \E flag \in {"inputs", "outputs"} : NoMore(flag)
    \/ ConstructorPsbt
    \/ ConstructorUpdater
    \/ UpdaterNew
    \/ \E i \in DOMAIN psbt.ins, seq \in Sequencings, sighash \in Sighashes,
          lock \in LockRequests : UpdaterUpdate(i, seq, sighash, lock)
    \/ UpdaterPsbt
    \/ \E chosen \in SUBSET DOMAIN psbt.ins, held \in SUBSET Keys : Sign(chosen, held)
    \/ \E type \in SighashTypes : SignerClearModifiable(type)
    \/ \E choice \in [DOMAIN psbt.ins -> AllSpendings] : Finalize(choice)
    \/ Extract

Spec == Init /\ [][Next]_vars

-----------------------------------------------------------------------------
(* Properties.                                                              *)

\* No order of role steps leaves the flags saying more than the signatures
\* allow (Signer::apply against Constructor<T>::new).
FlagsAccurate == FlagsReflectSigs(psbt)

\* No order of role steps takes away the outpoints or the outputs a signature
\* covers (Constructor::input and Constructor::output after Signer::apply).
CommitmentsKept == SigsPinned(psbt)

(***************************************************************************)
(* A Constructor in hand can hurt no signature: its type was earned from a  *)
(* flag, and still stands for what the signatures left open after           *)
(* no_more_inputs or no_more_outputs cleared the flag under it.             *)
(***************************************************************************)
ConstructorsHarmless ==
    /\ role = "Creator" => psbt.ins = <<>>
    /\ \A i \in DOMAIN psbt.ins : \A sig \in SigsOf(psbt.ins[i]) :
          /\ role \in InputConstructors => sig.type.acp
          /\ role \in OutputConstructors => sig.type.base = "NONE"

(***************************************************************************)
(* The life of a PSBT implements TxDraft.  A side is open while its flag is *)
(* set, while a Constructor typed for it is at work (its type outlives the  *)
(* flag: no_more_inputs leaves `input` callable), and in the Creator.       *)
(***************************************************************************)
OpenSides ==
    { side \in {"inputs", "outputs"} :
        \/ role = "Creator"
        \/ side \in psbt.flags
        \/ side = "inputs" /\ role \in InputConstructors
        \/ side = "outputs" /\ role \in OutputConstructors }

Draft == INSTANCE TxDraft WITH prevs <- TxPrevs(psbt), outs <- psbt.outs, open <- OpenSides

ImplementsTxDraft == Draft!Spec

(***************************************************************************)
(* A valid signature turns invalid only when the lock time of the           *)
(* transaction or a sequence number under it changes (an Updater, or a      *)
(* Constructor bringing an input with a lock time): no other handler of any *)
(* role disturbs a signature.                                               *)
(***************************************************************************)
SigsBreakOnlyByTimes ==
    [][ \A i \in DOMAIN psbt.ins : \A sig \in SigsOf(psbt.ins[i]) \cap SigsOf(psbt'.ins[i]) :
           SigValid(sig, psbt, i) /\ ~SigValid(sig, psbt', i)
             => \/ TxLock(psbt') # TxLock(psbt)
                \/ \E j \in DOMAIN psbt.ins :
                      TxSequence(psbt'.ins[j]) # TxSequence(psbt.ins[j]) ]_vars

(***************************************************************************)
(* The nLockTime derived for the transaction (Psbt::determine_lock_time)    *)
(* meets what every input asks for, whenever there is one to derive; in     *)
(* particular that of the transaction an Extractor returns does.            *)
(***************************************************************************)
TxLockMeetsInputs ==
    /\ Determinable(psbt) => \A i \in DOMAIN psbt.ins : Satisfies(TxLock(psbt), psbt.ins[i])
    /\ role = "Extractor" => Determinable(psbt)

(***************************************************************************)
(* Signing and finalizing leave the transaction alone: what is rebuilt from *)
(* the maps after Input::finalize or Signer::apply has the outpoints,       *)
(* sequences, outputs and lock time, and so the Psbt::id, it had before,    *)
(* although both empty or rewrite fields of the input maps.                 *)
(***************************************************************************)
SigningKeepsTx == [][ role = "Psbt" => UnsignedTx(psbt') = UnsignedTx(psbt) ]_vars

(***************************************************************************)
(* Claims of the source that the code does not keep.                        *)
(***************************************************************************)

\* Updater::id: "Updater guarantees lock time can be determined".
UpdaterLockTimeDeterminable == role = "Updater" => Determinable(psbt)

\* interpreter_check: "checks whether the finalized psbt interprets correctly".
\* A PSBT just finalized would meet the lock times its scripts ask for.
FinalizedLocksHold ==
    [][ AllFinalized(psbt') /\ ~AllFinalized(psbt)
          => \A i \in DOMAIN psbt'.ins :
                AfterHolds(psbt'.ins[i].final.spending.after, TxLock(psbt')) ]_vars

=============================================================================
