---------------------------- MODULE MCPsbtExchange ----------------------------
(***************************************************************************)
(* Small instances of PsbtExchange: two signers and one who only combines   *)
(* and finalizes, one or two inputs that both sign, few copies on the wire. *)
(***************************************************************************)
EXTENDS PsbtExchange

CONSTANTS alice, bob, carol, ka, kb, o1, o2, a1, a2

ST(base, acp) == [base |-> base, acp |-> acp]
Input(prev, t, h) == [prev |-> prev, minTime |-> t, minHeight |-> h]
Set(seq, sighash, t, h) == [seq |-> seq, sighash |-> sighash, minTime |-> t, minHeight |-> h]

MCSighashAll == ST("ALL", FALSE)
MCSighashTypes == { ST("ALL", FALSE), ST("SINGLE", TRUE), ST("NONE", TRUE) }
MCHeld == [h \in Holders |-> IF h = alice THEN {ka} ELSE IF h = bob THEN {kb} ELSE {}]
MCHeldByAlice == [h \in Holders |-> IF h = alice THEN {ka} ELSE {}]

MCMultisig == [o \in OutPoints |-> {[keys |-> {ka, kb}, after |-> 0]}]

Draft(flags, ins, outs) == [flags |-> flags, fallback |-> 0, ins |-> ins, outs |-> outs]
Asks(in, sighash) == [in EXCEPT !.sighash = sighash]

\* Two inputs to sign; and a PSBT that has no input yet and gets its outputs.
MCSignDrafts ==
    { Draft({"inputs", "outputs"},
            <<NewInput(o1, 0, 0), Asks(NewInput(o2, 0, 1), ST("SINGLE", TRUE))>>, <<a1, a1>>),
      Draft({"outputs"}, <<>>, <<>>) }

MCBuildDrafts ==
    { Draft({"inputs"}, <<Asks(NewInput(o1, 0, 0), ST("NONE", TRUE))>>, <<a1>>) }

MCNewInputs == { Input(o1, 0, 1), Input(o2, 0, 0) }
MCUpdates == { Set(NoSequence, ST("NONE", TRUE), 2, 0) }

\* The instance in which nobody updates or adds is one the theorems about
\* signing apply to.
ASSUME NewInputs \cup Updates = {} => NobodyAdds /\ DraftsSpendable

=============================================================================
