-------------------------- MODULE MCSigningSession --------------------------
(***************************************************************************)
(* Two PSBTs that share an outpoint: one spends a taproot output with two   *)
(* places for a signature, then one of a public key; the other only the     *)
(* latter, and may get more inputs.  The first input asks for a lock time.  *)
(***************************************************************************)
EXTENDS SigningSession, TLC

CONSTANTS o1, o2, a1, k1, k2

ST(base, acp) == [base |-> base, acp |-> acp]
MCSighashAll == ST("ALL", FALSE)
MCSighashTypes == {MCSighashAll, ST("NONE", TRUE), ST("SINGLE", FALSE)}

MCOutputType == (o1 :> "Tr") @@ (o2 :> "Wpkh")
MCSpendings ==
    (o1 :> {[keys |-> {k1}, after |-> 0], [keys |-> {k2}, after |-> 0]})
        @@ (o2 :> {[keys |-> {k1}, after |-> 0]})

P(flags, ins) == [flags |-> flags, fallback |-> 0, ins |-> ins, outs |-> <<a1>>]

MCStart ==
    [a |-> P({"outputs"}, <<NewInput(o1, None, 1), NewInput(o2, None, None)>>),
     b |-> P({"inputs"}, <<NewInput(o2, None, None)>>)]
MCStartUtxos == [a |-> <<"witness", "full">>, b |-> <<"witness">>]

U(seq, sighash) == [seq |-> seq, sighash |-> sighash, utxo |-> "full"]
MCUpdates == {U("rbf", ST("NONE", TRUE)), U(NoSequence, ST("SINGLE", FALSE))}

\* The second key signs for one place of the taproot input, and for nothing else.
MCHoldings == {{k2}, Keys}
=============================================================================
