------------------------------ MODULE PsbtDecoder ------------------------------
(***************************************************************************)
(* PsbtV2Decoder and PsbtV0Decoder: bytes are pushed in pieces of any size, *)
(* each call takes what it can and returns "needs more", the PSBT, or an    *)
(* error.  The stages of the PSBT contain those of a map (is this its end?  *)
(* - key - value) and those the ones of a value (length - body).  One step  *)
(* here is one turn of the loop inside push_bytes.                          *)
(*                                                                         *)
(* The stream may end at any point between two calls.  A PSBT that was      *)
(* decoded is encoded again, in its version or in the other, and given back *)
(* to the decoder of that version, as the fuzz targets deserialize_v2 and   *)
(* deserialize_v0 do.                                                       *)
(***************************************************************************)
EXTENDS PsbtFormat

CONSTANTS
    Messages,       \* the messages a caller may have
    Chunks,         \* how many bytes it may push at once
    Targets         \* the versions it may encode a PSBT in

ASSUME DecoderAssumption ==
    /\ Messages \subseteq MessageType
    /\ \A message \in Messages : Bytes(message) \in Seq(0 .. 255)
    /\ Chunks \subseteq Nat \ {0}
    /\ Targets \subseteq {0, 2}

VARIABLES
    format,     \* the version the message is read as
    expected,   \* what the message means: no action reads it
    bytes,      \* its bytes, of which
    fed,        \* so many were pushed
    pos,        \* and so many were taken by the decoder
    status,     \* "waiting" for a call, "running" in one, "ready", "error",
                \* "panicked", or "ended": too early
    stage,      \* of PsbtV2Decoder
    inner,      \* stage of the decoder of the current map
    got,        \* what the active decoder took and cannot complete yet
    consumed,   \* ValueDecoder: bytes its inner decoder took in earlier calls
    declared,   \* ValueDecoder: the length in front of the value
    key,        \* the key of the pair
    fields,     \* the entries of the current map
    tx,         \* PsbtV0Decoder: the transaction of the global map
    psbt,       \* the maps done
    first       \* the PSBT as it was decoded the first time, as a
                \* sequence: empty until then

given   == <<format, expected, bytes>>
reading == <<stage, inner, declared, key, fields, tx, psbt>>
taking  == <<pos, got, consumed>>
vars == <<given, fed, status, first, taking, reading>>

Init ==
    /\ \E message \in Messages :
           /\ format = message.format
           /\ expected = Expected(message)
           /\ bytes = Bytes(message)
    /\ fed = 0 /\ pos = 0 /\ got = <<>> /\ consumed = 0 /\ declared = 0
    /\ status = "waiting"
    /\ stage = "magic" /\ inner = "separator"
    /\ key = [type |-> 0, data |-> <<>>]
    /\ fields = {}
    /\ tx = NoTx
    /\ psbt = EmptyPsbt
    /\ first = <<>>

-----------------------------------------------------------------------------
(* Taking bytes *)

\* The map that is decoded, and the field.
Kind == CASE stage = "global" -> "global" [] stage = "inputs" -> "input" [] OTHER -> "output"
Map == MapName(Kind, format)
Field == FieldOf(Map, key.type)

\* ExactVecDecoderWith: all the maps the global map announced are there.
ListDone ==
    \/ stage = "inputs" /\ Len(psbt.inputs) = ValueOf(psbt.global, "input_count")[1]
    \/ stage = "outputs" /\ Len(psbt.outputs) = ValueOf(psbt.global, "output_count")[1]

InMap == stage \in {"global", "inputs", "outputs"} /\ ~ListDone

\* How many bytes the active decoder takes, as far as those seen say.
Need(seen) ==
    CASE stage = "magic" -> 4
      [] stage # "magic" /\ inner \in {"separator", "length"} -> 1
      [] inner = "key" -> PrefixedSize(seen)
      [] inner = "value" /\ Field \in Framed[Map] -> InnerSize(Field, seen)
      [] inner = "value" /\ Field \notin Framed[Map] -> BehindLength(Field, seen)
      [] inner = "runaway" -> Len(seen) + 1

Seen == got \o SubSeq(bytes, pos + 1, fed)
Complete == Len(Seen) >= Need(Seen)
Item == SubSeq(Seen, 1, Need(Seen))
Taken == Need(Seen) - Len(got)

\* TapKeyOriginDecoder, which counts down what remains by whole parts.
InOrigin == InMap /\ inner = "value" /\ Field = "tap_bip32_derivation"

\* A slip: what is held of the item is asked for again.
ReadLimitOfItem ==
    IF InMap /\ inner = "length" THEN 1 + InnerSize(Field, <<>>)
    ELSE IF stage \in {"done", "errored"} \/ inner = "errored" THEN 0
    ELSE Need(got)

\* What read_limit answers: a ValueDecoder adds the least its inner decoder takes.
ReadLimit ==
    IF InMap /\ inner = "length" THEN 1 + InnerSize(Field, <<>>)
    ELSE IF InOrigin THEN OriginRemaining(got)
    ELSE IF stage \in {"done", "errored"} \/ inner = "errored" THEN 0
    ELSE Need(got) - Len(got)

Running == status = "running"

\* The active decoder takes the rest of its item.
Take ==
    /\ Running
    /\ Complete
    /\ pos' = pos + Taken
    /\ got' = <<>>
    /\ UNCHANGED <<given, fed, first>>

\* A slip: only the last call is counted.
CountLastCall ==
    IF InMap /\ inner = "value" /\ Field \in Framed[Map] THEN fed - pos ELSE consumed

\* The bytes a ValueDecoder counts in a call that does not complete its value.
CountConsumed ==
    IF InMap /\ inner = "value" /\ Field \in Framed[Map] THEN consumed + (fed - pos) ELSE consumed

\* A slip: a call that finds nothing at the start of an item goes on.
NeedsMoreOfItem ==
    /\ Running
    /\ stage # "done" /\ ~ListDone
    /\ ~Complete /\ Seen # <<>>
    /\ got' = Seen
    /\ pos' = fed
    /\ consumed' = CountConsumed
    /\ status' = "waiting"
    /\ UNCHANGED <<given, fed, first, reading>>

\* It takes all there is, and push_bytes returns NeedsMore.
NeedsMore ==
    /\ Running
    /\ stage # "done" /\ ~ListDone
    /\ ~Complete
    /\ got' = Seen
    /\ pos' = fed
    /\ consumed' = CountConsumed
    /\ status' = "waiting"
    /\ UNCHANGED <<given, fed, first, reading>>

\* push_bytes returns an error.  It leaves the sentinel in the decoder that
\* failed: PsbtV2Decoder, or that of the map or value, under the stage it is in.
\* A map that is not accepted at its end stays at its separator.
Fail ==
    /\ status' = "error"
    /\ stage' = IF InMap THEN stage ELSE "errored"
    /\ inner' = IF InMap /\ inner # "separator" THEN "errored" ELSE inner
    /\ UNCHANGED <<consumed, declared, key, fields, tx, psbt>>

-----------------------------------------------------------------------------
(* The stages *)

EndMagic ==
    /\ stage = "magic"
    /\ Take
    /\ \/ /\ Item = PSBT_MAGIC
          /\ stage' = "separator"
          /\ UNCHANGED <<status, consumed, inner, declared, key, fields, tx, psbt>>
       \/ Item # PSBT_MAGIC /\ Fail

EndSeparator ==
    /\ stage = "separator"
    /\ Take
    /\ \/ /\ Item = <<PSBT_SEPARATOR>>
          /\ stage' = "global"
          /\ UNCHANGED <<status, consumed, inner, declared, key, fields, tx, psbt>>
       \/ Item # <<PSBT_SEPARATOR>> /\ Fail

\* The byte is only looked at: it is the length of the key.
StartKey ==
    /\ Running /\ InMap /\ inner = "separator"
    /\ Complete /\ Item # <<EndOfMap>>
    /\ inner' = "key"
    /\ UNCHANGED <<given, fed, status, first, taking, stage, declared, key, fields, tx, psbt>>

\* KeyDecoder, and DecoderStage::from_key of the map.
EndKey ==
    /\ InMap /\ inner = "key"
    /\ Take
    /\ LET field == FieldOf(Map, Item[2])
           data == SubSeq(Item, 3, Len(Item))
       IN  \/ /\ ~KeyRefused(Map, field, data)
              /\ key' = [type |-> Item[2], data |-> data]
              /\ inner' = IF field \in Framed[Map] THEN "length" ELSE "value"
              /\ UNCHANGED <<status, consumed, stage, declared, fields, tx, psbt>>
           \/ KeyRefused(Map, field, data) /\ Fail

EndLength ==
    /\ InMap /\ inner = "length"
    /\ Take
    /\ declared' = Item[1]
    /\ inner' = "value"
    /\ consumed' = 0
    /\ UNCHANGED <<status, stage, key, fields, tx, psbt>>

\* The value without the length that a decoder of its own frame takes with it.
Body == IF Field \in Framed[Map] THEN Item ELSE Tail(Item)

LengthMatches == Field \in Framed[Map] => consumed + Taken = declared

Entry == EntryOf(Map, key.type, key.data, Body)

IsDuplicate ==
    \E e \in fields : e.field = Entry.field /\ e.type = Entry.type /\ e.data = Entry.data

Accepted ==
    /\ LengthMatches
    /\ Field \notin Framed[Map] => ~LengthRefused(Field, Item[1])
    /\ ValueDecodes(Map, Field, Body)
    /\ KeyDecodes(Map, Field, key.data)
    /\ ~IsDuplicate

EndValue ==
    /\ InMap /\ inner = "value"
    /\ Take
    /\ ~Overruns(Field, Item)
    /\ \/ /\ Accepted
          /\ fields' = fields \union {Entry}
          /\ inner' = "separator"
          /\ UNCHANGED <<status, consumed, stage, declared, key, tx, psbt>>
       \/ ~Accepted /\ Fail

\* More is taken of what remains of a value than there is.  It panics, but that a
\* build without overflow checks goes on with a count that wrapped around, and
\* takes part after part.
Overrun ==
    /\ InMap /\ inner = "value"
    /\ Take
    /\ Overruns(Field, Item)
    /\ \/ status' = "panicked" /\ UNCHANGED inner
       \/ Field = "tap_bip32_derivation" /\ inner' = "runaway" /\ UNCHANGED status
    /\ UNCHANGED <<consumed, stage, declared, key, fields, tx, psbt>>

-----------------------------------------------------------------------------
(* The ends of the maps *)

Has(field) == field \in FieldsIn(fields)

SpFieldsMatch == Has("sp_ecdh_share") <=> Has("sp_dleq")

AtEndOfMap ==
    /\ InMap /\ inner = "separator"
    /\ Take
    /\ Item = <<EndOfMap>>

GlobalOk ==
    /\ Has("version") /\ Has("tx_version")
    /\ Has("input_count") /\ Has("output_count")
    /\ SpFieldsMatch

\* Flags that are absent are 0.
GlobalEntries ==
    fields \union (IF Has("tx_modifiable") THEN {} ELSE {Single("global", "tx_modifiable", <<0>>)})

EndGlobal ==
    /\ stage = "global" /\ format = 2
    /\ AtEndOfMap
    /\ \/ /\ GlobalOk
          /\ psbt' = [psbt EXCEPT !.global = GlobalEntries]
          /\ stage' = "inputs"
          /\ fields' = {}
          /\ UNCHANGED <<status, consumed, inner, declared, key, tx>>
       \/ ~GlobalOk /\ Fail

GlobalOk0 == Has("unsigned_tx") /\ SpFieldsMatch

\* Lists without an element have no stage.
EndGlobal0 ==
    /\ stage = "global" /\ format = 0
    /\ AtEndOfMap
    /\ \/ /\ GlobalOk0
          /\ tx' = DecodeTx[ValueOf(fields, "unsigned_tx")]
          /\ psbt' = [psbt EXCEPT !.global = IntoGlobal(fields, tx')]
          /\ stage' = CASE tx'.ins # <<>>  -> "inputs"
                        [] tx'.ins = <<>> /\ tx'.outs # <<>> -> "outputs"
                        [] OTHER -> "done"
          /\ status' = IF stage' = "done" THEN "ready" ELSE status
          /\ fields' = {}
          /\ UNCHANGED <<consumed, inner, declared, key>>
       \/ ~GlobalOk0 /\ Fail

\* The checks at the separator, and the one of InputDecoder::end on the previous
\* transaction.
InputOk ==
    /\ Has("previous_txid") /\ Has("spent_output_index")
    /\ SpFieldsMatch
    /\ Has("non_witness_utxo") =>
           ValueOf(fields, "non_witness_utxo")[2] = ValueOf(fields, "previous_txid")[1]

EndInput ==
    /\ stage = "inputs" /\ format = 2
    /\ AtEndOfMap
    /\ \/ /\ InputOk
          /\ psbt' = [psbt EXCEPT !.inputs = Append(@, fields)]
          /\ fields' = {}
          /\ UNCHANGED <<status, consumed, stage, inner, declared, key, tx>>
       \/ ~InputOk /\ Fail

\* An InputV0, which nothing is asked of.
EndInput0 ==
    /\ stage = "inputs" /\ format = 0
    /\ AtEndOfMap
    /\ psbt' = [psbt EXCEPT !.inputs = Append(@, fields)]
    /\ fields' = {}
    /\ UNCHANGED <<status, consumed, stage, inner, declared, key, tx>>

OutputOk ==
    /\ Has("amount")
    /\ Has("script") \/ Has("sp_v0_info")
    /\ Has("sp_v0_label") => Has("sp_v0_info")

\* A script that is absent is empty.
OutputEntries ==
    fields \union (IF Has("script") THEN {} ELSE {Single("output", "script", <<>>)})

\* A slip: the fields stay for the next map.
EndOutputKeepsFields ==
    /\ stage = "outputs" /\ format = 2
    /\ AtEndOfMap
    /\ \/ /\ OutputOk
          /\ psbt' = [psbt EXCEPT !.outputs = Append(@, OutputEntries)]
          /\ UNCHANGED <<status, consumed, stage, inner, declared, key, fields, tx>>
       \/ ~OutputOk /\ Fail

\* The separator, with Output::validate.
EndOutput ==
    /\ stage = "outputs" /\ format = 2
    /\ AtEndOfMap
    /\ \/ /\ OutputOk
          /\ psbt' = [psbt EXCEPT !.outputs = Append(@, OutputEntries)]
          /\ fields' = {}
          /\ UNCHANGED <<status, consumed, stage, inner, declared, key, tx>>
       \/ ~OutputOk /\ Fail

\* An OutputV0, which is not validated.
EndOutput0 ==
    /\ stage = "outputs" /\ format = 0
    /\ AtEndOfMap
    /\ psbt' = [psbt EXCEPT !.outputs = Append(@, fields)]
    /\ fields' = {}
    /\ UNCHANGED <<status, consumed, stage, inner, declared, key, tx>>

EndInputs ==
    /\ Running /\ stage = "inputs" /\ format = 2 /\ ListDone
    /\ stage' = "outputs"
    /\ UNCHANGED <<given, fed, status, first, taking, inner, declared, key, fields, tx, psbt>>

\* The list is complete: each of its maps gets its part of the transaction.
EndInputs0 ==
    /\ Running /\ stage = "inputs" /\ format = 0 /\ ListDone
    /\ psbt' = [psbt EXCEPT !.inputs =
                    [i \in DOMAIN @ |-> IntoInput(@[i], tx.ins[i])]]
    /\ stage' = IF tx.outs = <<>> THEN "done" ELSE "outputs"
    /\ status' = IF stage' = "done" THEN "ready" ELSE status
    /\ UNCHANGED <<given, fed, first, taking, inner, declared, key, fields, tx>>

EndOutputs ==
    /\ Running /\ stage = "outputs" /\ format = 2 /\ ListDone
    /\ stage' = "done"
    /\ status' = "ready"
    /\ UNCHANGED <<given, fed, first, taking, inner, declared, key, fields, tx, psbt>>

EndOutputs0 ==
    /\ Running /\ stage = "outputs" /\ format = 0 /\ ListDone
    /\ psbt' = [psbt EXCEPT !.outputs =
                    [i \in DOMAIN @ |-> IntoOutput(@[i], tx.outs[i])]]
    /\ stage' = "done"
    /\ status' = "ready"
    /\ UNCHANGED <<given, fed, first, taking, inner, declared, key, fields, tx>>

-----------------------------------------------------------------------------
(* The caller *)

Push(n) ==
    /\ status = "waiting"
    /\ fed < Len(bytes)
    /\ fed' = IF fed + n < Len(bytes) THEN fed + n ELSE Len(bytes)
    /\ status' = "running"
    /\ UNCHANGED <<given, first, taking, reading>>

\* There are no more bytes: end() returns EarlyEnd.
End ==
    /\ status = "waiting"
    /\ status' = "ended"
    /\ UNCHANGED <<given, fed, first, taking, reading>>

\* The fuzz targets: what was decoded is encoded, in version 0 after
\* PsbtV0::from_psbt, and given to the decoder of that version.
Reencode(target) ==
    /\ status = "ready"
    /\ first = <<>>
    /\ target = 0 => LockTimeOk(psbt)
    /\ first' = <<psbt>>
    /\ format' = target
    /\ LET message == Encode(psbt, target)
       IN  expected' = Expected(message) /\ bytes' = Bytes(message)
    /\ fed' = 0 /\ pos' = 0 /\ consumed' = 0 /\ declared' = 0
    /\ status' = "waiting"
    /\ stage' = "magic"
    /\ tx' = NoTx
    /\ psbt' = EmptyPsbt
    /\ UNCHANGED <<got, inner, key, fields>>

Turn ==
    \/ NeedsMore \/ EndMagic \/ EndSeparator
    \/ StartKey \/ EndKey \/ EndLength \/ EndValue \/ Overrun
    \/ EndGlobal \/ EndGlobal0 \/ EndInput \/ EndInput0
    \/ EndOutput \/ EndOutput0 \/ EndInputs \/ EndInputs0
    \/ EndOutputs \/ EndOutputs0

Next ==
    \/ Turn
    \/ \E n \in Chunks : Push(n)
    \/ End
    \/ \E target \in Targets : Reencode(target)

\* The turns of the loop follow each other; no one has to call again.
Spec == Init /\ [][Next]_vars /\ WF_vars(Turn)

-----------------------------------------------------------------------------
(* Properties *)

\* Type invariant, with what every stage relies on: a decoder never holds more
\* than was pushed, and keeps nothing across items but what it still needs.
TypeOK ==
    /\ fed \in 0 .. Len(bytes) /\ pos \in 0 .. fed
    /\ got \in Seq(Nat) /\ Len(got) <= pos
    /\ declared \in Nat /\ consumed \in 0 .. pos
    /\ status \in {"waiting", "running", "ready", "error", "panicked", "ended"}
    /\ stage \in {"magic", "separator", "global", "inputs", "outputs", "done", "errored"}
    /\ inner \in {"separator", "key", "length", "value", "runaway", "errored"}
    /\ fields # {} => InMap
    /\ status = "waiting" => pos = fed
    /\ (status = "ready") <=> (stage = "done")
    /\ "errored" \in {stage, inner} => status = "error"

\* Fields whose decoders subtract or slice by numbers of the value that need not
\* fit into it (TapKeyOriginDecoder::push_bytes and TapTreeDecoder::end).
Unchecked == {"tap_bip32_derivation", "tap_tree"}

\* However the bytes were cut into calls, the answer is that of the message.  If it
\* is well formed: its maps and nothing after them, and "ended too early" only
\* if the bytes did end too early.  If it is not: an error, then or from end();
\* but for the values of two fields it may be a panic, which NeverPanics is about.
\* No subtraction and no slice of any other decoder fails (push_bytes and end of
\* the decoders of both versions, of their maps and of their values).
DecodesMessage ==
    /\ status = "ready" => expected.ok /\ psbt = expected.psbt /\ pos = expected.extent
    /\ status = "error" => ~expected.ok
    /\ status = "ended" => ~expected.ok \/ fed < expected.extent
    /\ status = "panicked" => ~expected.ok /\ inner = "value" /\ Field \in Unchecked

\* Whatever the bytes, the decoder answers with a PSBT or with an error (the fuzz
\* targets give deserialize any bytes and ask no more of it than a Result; and
\* tests/fuzz.rs: a value "too short (does not panic)").
NeverPanics == status # "panicked"

\* What a decoded PSBT is encoded to decodes to the same PSBT, if the version it
\* is encoded in has a place for all of it.  Version 0 keeps the lock time, not
\* the requests it was resolved from (the encoders and decoders of both versions,
\* PsbtV0::from_psbt).
RoundTrips ==
    first # <<>> /\ Fits(first[1], format) =>
        /\ status \notin {"error", "panicked"}
        /\ status = "ready" => psbt = IF format = 2 THEN first[1] ELSE Demoted(first[1])

\* No conversion changes the transaction that is signed: what a message of version
\* 0 decodes to describes the transaction in it, and what is encoded again decodes
\* to the same one, whatever else was lost (UnsignedTxDecoder, into_input and
\* into_output; PsbtV0::from_psbt and UnsignedTxEncoder; against Psbt::unsigned_tx).
ConversionKeepsTx ==
    status = "ready" =>
        /\ format = 0 => TxOfPsbt(psbt) = expected.tx
        /\ first # <<>> /\ (format = 2 => Fits(first[1], 2)) =>
               TxOfPsbt(psbt) = TxOfPsbt(first[1])

\* What version 0 has a field for outlives the encoder of version 0 and its decoder
\* (PsbtV0::serialize, PsbtV0::deserialize; "fails rather than lose data").
V0EncodingKeepsData ==
    first # <<>> /\ format = 0 =>
        /\ status # "error"
        /\ status = "ready" =>
            /\ \A i \in DOMAIN psbt.inputs :
                  FieldsIn(first[1].inputs[i]) \intersect DOMAIN InputFields0
                      \subseteq FieldsIn(psbt.inputs[i])
            /\ \A i \in DOMAIN psbt.outputs :
                  FieldsIn(first[1].outputs[i]) \intersect DOMAIN OutputFields0
                      \subseteq FieldsIn(psbt.outputs[i])

\* A reader of a well formed PSBT that fetches no more than read_limit() never
\* waits for nothing, and never fetches what comes after the PSBT, except that
\* TapKeyOriginDecoder asks again for what it has of an unfinished part.
ReadLimitInMessage ==
    status = "waiting" /\ expected.ok =>
        /\ ReadLimit > 0
        /\ fed + ReadLimit <= expected.extent + (IF InOrigin THEN HalfPart(got) ELSE 0)

\* Every call of push_bytes returns: its loop never spins.
PushReturns == status = "running" ~> status # "running"
=============================================================================
