------------------------------ MODULE PsbtFormat ------------------------------
(***************************************************************************)
(* PSBTs as messages, in version 2 and in version 0: the bytes of one, what *)
(* the encoders write, what the maps of version 0 stand for, and, apart     *)
(* from any decoder, which messages are well formed and what they mean.     *)
(*                                                                         *)
(* Bytes are numbers and every length is a byte, as in any message whose    *)
(* keys and values are shorter than 253 bytes.                             *)
(***************************************************************************)
EXTENDS PsbtFields

PSBT_MAGIC == <<112, 115, 98, 116>>
PSBT_SEPARATOR == 255
EndOfMap == 0

\* The kinds of map, as version 2 and as version 0 have them.
MapName(kind, format) ==
    IF format = 2 THEN kind
    ELSE [global |-> "global0", input |-> "input0", output |-> "output0"][kind]

-----------------------------------------------------------------------------
(* Messages and their bytes *)

\* A message is the version it is read as, its magic, the separator after it,
\* and maps, each a sequence of pairs with their type, key data, announced length
\* and value.
PairType == [type : Nat, data : Seq(Nat), len : Nat, value : Seq(Nat)]

MessageType ==
    [format : {0, 2}, magic : Seq(Nat), separator : Nat, maps : Seq(Seq(PairType))]

PairBytes(p) == <<1 + Len(p.data), p.type>> \o p.data \o <<p.len>> \o p.value

MapBytes(pairs) ==
    FlattenSeq([i \in 1 .. Len(pairs) |-> PairBytes(pairs[i])]) \o <<EndOfMap>>

Bytes(message) ==
    message.magic \o <<message.separator>>
        \o FlattenSeq([i \in 1 .. Len(message.maps) |-> MapBytes(message.maps[i])])

-----------------------------------------------------------------------------
(* The unsigned transaction of a PSBT                                       *)

Zero == NumberBytes(0)

LockFields(psbt) ==
    [i \in DOMAIN psbt.inputs |->
        [minTime |-> Number(ValueOr(psbt.inputs[i], "min_time", Zero)),
         minHeight |-> Number(ValueOr(psbt.inputs[i], "min_height", Zero))]]

Fallback(psbt) == Number(ValueOr(psbt.global, "fallback_lock_time", Zero))

LockTimeOk(psbt) == LockTimeDeterminable(LockFields(psbt))

\* Psbt::unsigned_tx.
TxOfPsbt(psbt) ==
    [version |-> ValueOf(psbt.global, "tx_version"),
     ins |-> [i \in DOMAIN psbt.inputs |->
        [txid |-> ValueOf(psbt.inputs[i], "previous_txid"),
         vout |-> ValueOf(psbt.inputs[i], "spent_output_index"),
         seq |-> ValueOr(psbt.inputs[i], "sequence", DefaultSequence)]],
     outs |-> [i \in DOMAIN psbt.outputs |->
        [amount |-> ValueOf(psbt.outputs[i], "amount"),
         script |-> ValueOf(psbt.outputs[i], "script")]],
     lock |-> NumberBytes(DetermineLockTime(LockFields(psbt), Fallback(psbt)))]

-----------------------------------------------------------------------------
(* Encoding *)

EncodePair(e) ==
    [type |-> e.type, data |-> e.data, len |-> Len(e.value), value |-> e.value]

\* The fields in the order of their map, those without a place left out; the
\* order of the keys of one field is that of its BTreeMap, of which nothing
\* depends.
EncodeMap(map, entries) ==
    LET OfField(field) == {EncodePair(e) : e \in {x \in entries : x.field = field}}
    IN  FlattenSeq([i \in 1 .. Len(Orders[map]) |-> SetToSeq(OfField(Orders[map][i]))])

\* A slip: every empty script is left out.
OmitEmptyScript(entries) == ValueOf(entries, "script") = <<>>

\* An empty script of a silent payment output is left out.
OmitScript(entries) ==
    "sp_v0_info" \in FieldsIn(entries) /\ ValueOf(entries, "script") = <<>>

EncodeOutput(entries) ==
    EncodeMap("output", IF OmitScript(entries) THEN Without(entries, {"script"}) ELSE entries)

Encode2(psbt) ==
    <<EncodeMap("global", psbt.global)>>
        \o [i \in DOMAIN psbt.inputs |-> EncodeMap("input", psbt.inputs[i])]
        \o [i \in DOMAIN psbt.outputs |-> EncodeOutput(psbt.outputs[i])]

\* A slip: the lock times the inputs ask for are left out.
LockTimeOfGlobal(psbt) == Fallback(psbt)

\* PsbtV0::from_psbt: the lock time the transaction is written with.
LockTimeOf(psbt) == DetermineLockTime(LockFields(psbt), Fallback(psbt))

EncodeGlobal0(psbt) ==
    LET tx == [TxOfPsbt(psbt) EXCEPT !.lock = NumberBytes(LockTimeOf(psbt))]
    IN  EncodeMap("global0", psbt.global \union
            {EntryOf("global0", GlobalFields.unsigned_tx, <<>>, EncodeTx(tx))})

Encode0(psbt) ==
    <<EncodeGlobal0(psbt)>>
        \o [i \in DOMAIN psbt.inputs |-> EncodeMap("input0", psbt.inputs[i])]
        \o [i \in DOMAIN psbt.outputs |-> EncodeMap("output0", psbt.outputs[i])]

Encode(psbt, format) ==
    [format |-> format, magic |-> PSBT_MAGIC, separator |-> PSBT_SEPARATOR,
     maps |-> IF format = 2 THEN Encode2(psbt) ELSE Encode0(psbt)]

-----------------------------------------------------------------------------
(* What the maps of version 0 stand for, with the unsigned transaction      *)

\* No flag is set: construction is over.  A lock time of 0 is none.
IntoGlobal(entries, tx) ==
    Without(entries, {"unsigned_tx", "version"})
        \union {Single("global", "version", NumberBytes(2)),
                Single("global", "tx_version", tx.version),
                Single("global", "input_count", <<Len(tx.ins)>>),
                Single("global", "output_count", <<Len(tx.outs)>>),
                Single("global", "tx_modifiable", <<0>>)}
        \union (IF tx.lock = Zero THEN {}
                ELSE {Single("global", "fallback_lock_time", tx.lock)})

IntoInput(entries, in) ==
    entries \union {Single("input", "previous_txid", in.txid),
                    Single("input", "spent_output_index", in.vout),
                    Single("input", "sequence", in.seq)}

IntoOutput(entries, out) ==
    entries \union {Single("output", "amount", out.amount),
                    Single("output", "script", out.script)}

-----------------------------------------------------------------------------
(* What a message means, whole and at once *)

Entries(map, pairs) ==
    {EntryOf(map, pairs[i].type, pairs[i].data, pairs[i].value) : i \in 1 .. Len(pairs)}

PairOk(map, p) ==
    LET f == FieldOf(map, p.type)
    IN  /\ ~KeyRefused(map, f, p.data)
        /\ KeyDecodes(map, f, p.data)
        /\ p.len = Len(p.value)
        /\ f \in Framed[map] => Len(p.value) = InnerSize(f, p.value)
        /\ ~LengthRefused(f, Len(p.value))
        /\ f = "tap_bip32_derivation" => OriginDecodes(p.value)
        /\ ValueDecodes(map, f, p.value)

\* No key twice.
KeysDiffer(map, pairs) ==
    \A i, j \in 1 .. Len(pairs) :
        EntryOf(map, pairs[i].type, pairs[i].data, <<>>)
            = EntryOf(map, pairs[j].type, pairs[j].data, <<>>) => i = j

Required ==
    [global |-> {"version", "tx_version", "input_count", "output_count"},
     input |-> {"previous_txid", "spent_output_index"}, output |-> {"amount"},
     global0 |-> {"unsigned_tx"}, input0 |-> {}, output0 |-> {}]

\* The rules between the fields of a map of version 2, for entries to be in one.
SpPaired(entries) == ("sp_ecdh_share" \in FieldsIn(entries)) <=> ("sp_dleq" \in FieldsIn(entries))

SpendsPrevious(entries) ==
    "non_witness_utxo" \in FieldsIn(entries) =>
        ValueOf(entries, "non_witness_utxo")[2] = ValueOf(entries, "previous_txid")[1]

LabelHasInfo(entries) == "sp_v0_label" \in FieldsIn(entries) => "sp_v0_info" \in FieldsIn(entries)

MapOk(map, pairs) ==
    LET entries == Entries(map, pairs)
    IN  /\ \A i \in 1 .. Len(pairs) : PairOk(map, pairs[i])
        /\ KeysDiffer(map, pairs)
        /\ Required[map] \subseteq FieldsIn(entries)
        /\ map \in {"global", "input", "global0"} => SpPaired(entries)
        /\ map = "input" => SpendsPrevious(entries)
        /\ map = "output" => /\ LabelHasInfo(entries)
                             /\ FieldsIn(entries) \intersect {"script", "sp_v0_info"} # {}

GlobalOf(message) == Entries(MapName("global", message.format), message.maps[1])

\* The transaction of a message of version 0.
TxOfMessage(message) == DecodeTx[ValueOf(GlobalOf(message), "unsigned_tx")]

\* How many maps of each kind the global map announces.
InputCount(message) ==
    IF message.format = 2 THEN ValueOf(GlobalOf(message), "input_count")[1]
    ELSE Len(TxOfMessage(message).ins)

OutputCount(message) ==
    IF message.format = 2 THEN ValueOf(GlobalOf(message), "output_count")[1]
    ELSE Len(TxOfMessage(message).outs)

WellFormed(message) ==
    /\ message.magic = PSBT_MAGIC
    /\ message.separator = PSBT_SEPARATOR
    /\ message.maps # <<>>
    /\ MapOk(MapName("global", message.format), message.maps[1])
    /\ LET n == InputCount(message)
           k == OutputCount(message)
       IN  /\ Len(message.maps) >= 1 + n + k
           /\ \A i \in 2 .. 1 + n :
                  MapOk(MapName("input", message.format), message.maps[i])
           /\ \A i \in 2 + n .. 1 + n + k :
                  MapOk(MapName("output", message.format), message.maps[i])

\* Flags that are absent are 0, and so is the script of a silent payment output.
WithDefault(map, entries, field, value) ==
    IF field \in FieldsIn(entries) THEN entries
    ELSE entries \union {Single(map, field, value)}

Meaning(message) ==
    LET n == InputCount(message)
        global == GlobalOf(message)
        Input(i) == Entries(MapName("input", message.format), message.maps[1 + i])
        Output(i) == Entries(MapName("output", message.format), message.maps[1 + n + i])
        tx == TxOfMessage(message)
    IN  IF message.format = 2
        THEN [global |-> WithDefault("global", global, "tx_modifiable", <<0>>),
              inputs |-> [i \in 1 .. n |-> Input(i)],
              outputs |-> [i \in 1 .. OutputCount(message) |->
                  WithDefault("output", Output(i), "script", <<>>)]]
        ELSE [global |-> IntoGlobal(global, tx),
              inputs |-> [i \in 1 .. n |-> IntoInput(Input(i), tx.ins[i])],
              outputs |-> [i \in 1 .. OutputCount(message) |-> IntoOutput(Output(i), tx.outs[i])]]

\* The bytes of the PSBT a message starts with.
Extent(message) ==
    Len(Bytes([message EXCEPT !.maps =
        SubSeq(@, 1, 1 + InputCount(message) + OutputCount(message))]))

EmptyPsbt == [global |-> {}, inputs |-> <<>>, outputs |-> <<>>]

NoTx == [version |-> Zero, ins |-> <<>>, outs |-> <<>>, lock |-> Zero]

\* What a decoder should make of a message; its transaction, where it holds one.
Expected(message) ==
    IF WellFormed(message)
    THEN [ok |-> TRUE, psbt |-> Meaning(message), extent |-> Extent(message),
          tx |-> IF message.format = 0 THEN TxOfMessage(message) ELSE NoTx]
    ELSE [ok |-> FALSE, psbt |-> EmptyPsbt, extent |-> 0, tx |-> NoTx]

-----------------------------------------------------------------------------
(* What a conversion keeps                                                  *)

\* Version 0 holds no flags and no lock times but the transaction's, and its
\* encoder leaves out the redeem scripts of outputs.
Demoted(psbt) ==
    LET tx == TxOfPsbt(psbt)
        lost == {"tx_version", "fallback_lock_time", "input_count", "output_count",
                 "tx_modifiable", "previous_txid", "spent_output_index", "sequence",
                 "min_time", "min_height", "amount", "script", "redeem_script"}
    IN  [global |-> IntoGlobal(Without(psbt.global, lost), tx),
         inputs |-> [i \in DOMAIN psbt.inputs |->
             IntoInput(Without(psbt.inputs[i], lost \ {"redeem_script"}), tx.ins[i])],
         outputs |-> [i \in DOMAIN psbt.outputs |->
             IntoOutput(Without(psbt.outputs[i], lost), tx.outs[i])]]

\* Fields no map of version 0 is read with.
Unreadable0(entries) ==
    FieldsIn(entries) \intersect {"ripemd160", "sha256", "hash160", "hash256", "proprietary"} # {}

\* Pairs version 0 does not know and version 2 does.
Misread2(map, entries) ==
    \E e \in entries : e.field = "unknown" /\ FieldOf(map, e.type) # "unknown"

\* Version `format` has a place for all of the PSBT.
Fits(psbt, format) ==
    IF format = 0
    THEN /\ \A i \in DOMAIN psbt.inputs : ~Unreadable0(psbt.inputs[i])
         /\ \A i \in DOMAIN psbt.outputs : ~Unreadable0(psbt.outputs[i])
    ELSE /\ ~Misread2("global", psbt.global)
         /\ \A i \in DOMAIN psbt.inputs :
                ~Misread2("input", psbt.inputs[i]) /\ SpPaired(psbt.inputs[i])
                    /\ SpendsPrevious(psbt.inputs[i])
         /\ \A i \in DOMAIN psbt.outputs :
                ~Misread2("output", psbt.outputs[i]) /\ LabelHasInfo(psbt.outputs[i])
=============================================================================
