-------------------------------- MODULE TxDraft --------------------------------
(***************************************************************************)
(* What BIP-370 construction promises to whoever looks at a PSBT later: the *)
(* inputs and the outputs of the transaction only ever grow at the end,     *)
(* only while that side is open, and a side once closed stays closed.       *)
(***************************************************************************)
EXTENDS Sequences

CONSTANTS OutPoints, Outputs

VARIABLES prevs,    \* the outpoints spent, in order
          outs,     \* the outputs paid, in order
          open      \* which of the two may still grow

Init ==
    /\ prevs = <<>>
    /\ outs = <<>>
    /\ open = {"inputs", "outputs"}

GrowInputs ==
    /\ "inputs" \in open
    /\ \E o \in OutPoints : prevs' = Append(prevs, o)
    /\ UNCHANGED <<outs, open>>

GrowOutputs ==
    /\ "outputs" \in open
    /\ \E o \in Outputs : outs' = Append(outs, o)
    /\ UNCHANGED <<prevs, open>>

Close == open' \in SUBSET open /\ UNCHANGED <<prevs, outs>>

Next == GrowInputs \/ GrowOutputs \/ Close

Spec == Init /\ [][Next]_<<prevs, outs, open>>

=============================================================================
