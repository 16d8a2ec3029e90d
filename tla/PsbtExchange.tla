----------------------------- MODULE PsbtExchange -----------------------------
(***************************************************************************)
(* Several holders of one PSBT.  Each works on a copy of its own, and sends *)
(* serialized copies that arrive in any order, late, repeatedly or never;   *)
(* whoever receives one combines it into what it has (psbt.combine_with).   *)
(* The turns a holder takes as Constructor, Updater, Signer and Finalizer   *)
(* go from Psbt to Psbt, so each is one step here; PsbtRoles takes them     *)
(* apart.                                                                   *)
(***************************************************************************)
EXTENDS Combine, FiniteSets

CONSTANTS
    Holders,
    Held,           \* holder |-> the keys it signs with
    Drafts,         \* the PSBTs an exchange starts from
    NewInputs,      \* [prev, minTime, minHeight] of inputs that may be added
    NewOutputs,     \* outputs that may be added
    Updates,        \* [seq, sighash, minTime, minHeight] an Updater may set
    MaxInputs,      \* bound on the number of inputs
    MaxOutputs,     \* bound on the number of outputs
    MaxWire         \* bound on the number of different PSBTs sent

ASSUME PsbtExchangeAssumption ==
    /\ Held \in [Holders -> SUBSET Keys]
    /\ \A draft \in Drafts : /\ draft \in Psbts
                             /\ Determinable(draft)
                             /\ \A i \in DOMAIN draft.ins : SigsOf(draft.ins[i]) = {}
    /\ NewInputs \subseteq [prev : OutPoints, minTime : MinTimes, minHeight : MinHeights]
    /\ NewOutputs \subseteq Outputs
    /\ Updates \subseteq [seq : Sequences \cup {NoSequence},
                          sighash : SighashTypes \cup {NoSighash},
                          minTime : MinTimes, minHeight : MinHeights]
    /\ {MaxInputs, MaxOutputs, MaxWire} \subseteq Nat

VARIABLES
    psbts,          \* holder |-> the PSBT it has
    wire,           \* the copies sent: [psbt, got]
    got             \* holder |-> the signatures that went into its PSBT, as
                    \* <<key, input>>: what happened, for the properties
vars == <<psbts, wire, got>>

Init ==
    /\ \E draft \in Drafts : psbts = [h \in Holders |-> draft]
    /\ wire = {}
    /\ got = [h \in Holders |-> {}]

Become(h, p) == psbts' = [psbts EXCEPT ![h] = p]

\* Constructor<T>::new, input, psbt.
Construct(h, new) ==
    LET p == AddInput(psbts[h], NewInput(new.prev, new.minTime, new.minHeight))
    IN /\ "inputs" \in psbts[h].flags
       /\ Len(psbts[h].ins) < MaxInputs
       /\ Determinable(p)
       /\ Become(h, p)
       /\ UNCHANGED <<wire, got>>

\* Constructor<T>::new, output, psbt.
ConstructOutput(h, out) ==
    /\ "outputs" \in psbts[h].flags
    /\ Len(psbts[h].outs) < MaxOutputs
    /\ Determinable(psbts[h])
    /\ Become(h, AddOutput(psbts[h], out))
    /\ UNCHANGED <<wire, got>>

\* Updater::new, update, psbt.
Update(h, i, u) ==
    LET p == UpdateInput(psbts[h], i, u.seq, u.sighash, u.minTime, u.minHeight)
    IN /\ Determinable(psbts[h])
       /\ Determinable(p)
       /\ Become(h, p)
       /\ UNCHANGED <<wire, got>>

\* Signer::new, a session over `chosen`, apply.
Sign(h, chosen) ==
    /\ Determinable(psbts[h])
    /\ \A i \in chosen : Signable(psbts[h], i)
    /\ Become(h, SignInputs(psbts[h], chosen, Held[h]))
    /\ got' = [got EXCEPT ![h] = @ \cup
                  UNION { (Held[h] \cap psbts[h].ins[i].named) \X {i} : i \in chosen }]
    /\ UNCHANGED wire

\* Finalizer::new, finalize.
Finalize(h, choice) ==
    /\ Determinable(psbts[h])
    /\ \A i \in DOMAIN psbts[h].ins : SighashesAgree(psbts[h].ins[i])
    /\ Finalizable(psbts[h], choice)
    /\ InterpreterCheck(FinalizeInputs(psbts[h], choice))
    /\ Become(h, FinalizeInputs(psbts[h], choice))
    /\ UNCHANGED <<wire, got>>

Send(h) ==
    /\ wire' = wire \cup {[psbt |-> psbts[h], got |-> got[h]]}
    /\ Cardinality({ copy.psbt : copy \in wire' }) <= MaxWire
    /\ UNCHANGED <<psbts, got>>

\* psbt.clone().combine_with(copy): combine_with consumes both, so a holder that means
\* to go on after an error combines a clone.
Receive(h, copy) ==
    /\ Combinable(psbts[h], copy.psbt)
    /\ Become(h, Combine(psbts[h], copy.psbt))
    /\ got' = [got EXCEPT ![h] = @ \cup
                  { sig \in copy.got : sig[2] \in DOMAIN psbts[h].ins }]
    /\ UNCHANGED wire

Next ==
    \E h \in Holders :
       \/ \E new \in NewInputs : Construct(h, new)
       \/ \E out \in NewOutputs : ConstructOutput(h, out)
       \/ \E i \in DOMAIN psbts[h].ins, u \in Updates : Update(h, i, u)
       \/ \E chosen \in SUBSET DOMAIN psbts[h].ins : Sign(h, chosen)
       \/ \E choice \in [DOMAIN psbts[h].ins ->
                           UNION { Spendings[psbts[h].ins[i].prev] : i \in DOMAIN psbts[h].ins }] :
             Finalize(h, choice)
       \/ Send(h)
       \/ \E copy \in wire : Receive(h, copy)

Spec == Init /\ [][Next]_vars

-----------------------------------------------------------------------------
(* Properties.                                                              *)

TypeOK ==
    /\ psbts \in [Holders -> Psbts]
    /\ wire \subseteq [psbt : Psbts, got : SUBSET (Keys \X Nat)]
    /\ got \in [Holders -> SUBSET (Keys \X Nat)]

(***************************************************************************)
(* A signature is only ever found on the input it was made for: the         *)
(* outpoint it commits to at that place is that of the input, although      *)
(* combine matches inputs by their place alone and the copies may have been *)
(* built further by different Constructors.                                 *)
(***************************************************************************)
OnOwnInput(p) ==
    \A i \in DOMAIN p.ins : \A sig \in SigsOf(p.ins[i]) :
       p.ins[i].prev = IF sig.type.acp THEN sig.prevs[1] ELSE sig.prevs[i]

SigsOnOwnInput == \A h \in Holders : OnOwnInput(psbts[h])

(***************************************************************************)
(* Every PSBT that changes hands has a lock time, although two copies that  *)
(* have one each may disagree on its unit (the last check of combine_with). *)
(***************************************************************************)
LockTimesSurvive == \A h \in Holders : Determinable(psbts[h])

\* Nobody updates or adds.  Outputs may still be added to a draft without
\* inputs: there is no signature they could invalidate.
NobodyAdds ==
    /\ NewInputs = {} /\ Updates = {}
    /\ \A draft \in Drafts : draft.ins = <<>> \/ MaxOutputs <= Len(draft.outs)

(***************************************************************************)
(* While nobody updates or adds, a signature that reached a holder, through *)
(* whatever copies, stays with its PSBT and stays valid, or is part of the  *)
(* final scripts.                                                           *)
(***************************************************************************)
GatheredSigsStay ==
    \A h \in Holders : \A sig \in got[h] :
       LET in == psbts[h].ins[sig[2]]
       IN \/ IsFinalized(in)
          \/ in.sigs[sig[1]] # NoSig /\ SigValid(in.sigs[sig[1]], psbts[h], sig[2])

(***************************************************************************)
(* While nobody updates or adds, holders who have the same signatures have  *)
(* the same inputs, in whatever order and how often the copies arrived.     *)
(* (Not the same PSBT: the modifiable flags of the copies are not combined.)*)
(***************************************************************************)
HoldersConverge ==
    \A g, h \in Holders :
       /\ got[g] = got[h]
       /\ \A i \in DOMAIN psbts[g].ins : ~IsFinalized(psbts[g].ins[i])
       /\ \A i \in DOMAIN psbts[h].ins : ~IsFinalized(psbts[h].ins[i])
       => psbts[g].ins = psbts[h].ins

\* Each input of each draft has a way to be spent whose lock time the input
\* itself asks for, as the satisfier and the interpreter check want it.
DraftsSpendable ==
    \A draft \in Drafts : \A i \in DOMAIN draft.ins :
       LET in == draft.ins[i]
       IN /\ ~IsFinalized(in)
          /\ \E s \in Spendings[in.prev] :
                CheckAfter(in, s.after) /\ AfterHolds(s.after, InputLockTime(in))

(***************************************************************************)
(* While nobody updates or adds, a holder that every signature reached can  *)
(* finalize: the Finalizer takes what the Combiner put together.            *)
(***************************************************************************)
CompleteFinalizes ==
    \A h \in Holders :
       LET p == psbts[h]
       IN (\A i \in DOMAIN p.ins : KeysOf(p.ins[i].prev) \X {i} \subseteq got[h])
            => /\ \A i \in DOMAIN p.ins : SighashesAgree(p.ins[i])
               /\ \E choice \in [DOMAIN p.ins ->
                                   UNION { Spendings[p.ins[i].prev] : i \in DOMAIN p.ins }] :
                     /\ Finalizable(p, choice)
                     /\ InterpreterCheck(FinalizeInputs(p, choice))

(***************************************************************************)
(* Claims of the source that the code does not keep.                        *)
(***************************************************************************)

\* combine_with: "This function is commutative"; the fuzz targets: "Combining
\* should be commutative in terms of success/failure."
CombineSuccessCommutes ==
    \A g, h \in Holders :
       Combinable(psbts[g], psbts[h]) <=> Combinable(psbts[h], psbts[g])

=============================================================================
