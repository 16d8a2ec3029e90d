-------------------------------- MODULE Combine --------------------------------
(***************************************************************************)
(* Psbt::combine_with: two copies of a PSBT become one.                     *)
(*                                                                         *)
(* Where both sides have a value, fields that are options keep that of the  *)
(* first PSBT and maps take that of the second.  Inputs and outputs are     *)
(* matched by position as far as the shorter list goes; what the first has  *)
(* beyond stays, what the second has beyond is dropped.  The flags, the     *)
(* fallback lock time and the counts of the first are not touched.          *)
(***************************************************************************)
EXTENDS Psbt

\* v2_combine_option
CombineOption(this, that, none) == IF this = none THEN that ELSE this

\* v2_combine_map
CombineMap(this, that, none) ==
    [k \in DOMAIN this |-> IF that[k] # none THEN that[k] ELSE this[k]]

\* A slip: the signatures of the other side replace the map.
CombineInputReplace(this, that) ==
    [this EXCEPT !.seq       = CombineOption(@, that.seq, NoSequence),
                 !.minTime   = CombineOption(@, that.minTime, None),
                 !.minHeight = CombineOption(@, that.minHeight, None),
                 !.sighash   = CombineOption(@, that.sighash, NoSighash),
                 !.named     = @ \cup that.named,
                 !.sigs      = that.sigs,
                 !.final     = CombineOption(@, that.final, NoFinal)]

\* Input::combine
CombineInput(this, that) ==
    [this EXCEPT !.seq       = CombineOption(@, that.seq, NoSequence),
                 !.minTime   = CombineOption(@, that.minTime, None),
                 !.minHeight = CombineOption(@, that.minHeight, None),
                 !.sighash   = CombineOption(@, that.sighash, NoSighash),
                 !.named     = @ \cup that.named,
                 !.sigs      = CombineMap(@, that.sigs, NoSig),
                 !.final     = CombineOption(@, that.final, NoFinal)]

\* The Ok value of combine_with.
Combine(this, that) ==
    [this EXCEPT !.ins = [i \in DOMAIN this.ins |->
                             IF i \in DOMAIN that.ins
                             THEN CombineInput(this.ins[i], that.ins[i])
                             ELSE this.ins[i]]]

Both(s, t) == DOMAIN s \cap DOMAIN t

\* Input::combine compares outpoints, Output::combine amounts and scripts.
SameTxParts(this, that) ==
    /\ \A i \in Both(this.ins, that.ins) : this.ins[i].prev = that.ins[i].prev
    /\ \A i \in Both(this.outs, that.outs) : this.outs[i] = that.outs[i]

\* Slips: inputs are matched without looking, and the last check is forgotten.
CombinableByPlace(this, that)   == Determinable(Combine(this, that))
CombinableUnchecked(this, that) == SameTxParts(this, that)

\* combine_with returns Ok.
Combinable(this, that) == SameTxParts(this, that) /\ Determinable(Combine(this, that))

=============================================================================
