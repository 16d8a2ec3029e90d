---------------------------- MODULE MCPsbtDecoder ----------------------------
(***************************************************************************)
(* Messages for TLC: PSBTs of both versions with all kinds of field, and    *)
(* what one slip makes of them.                                            *)
(***************************************************************************)
EXTENDS PsbtDecoder

P(fieldsOf, name, data, value) ==
    [type |-> fieldsOf[name], data |-> data, len |-> Len(value), value |-> value]
G(name, data, value) == P(GlobalFields, name, data, value)
I(name, data, value) == P(InputFields, name, data, value)
O(name, data, value) == P(OutputFields, name, data, value)
Unknown(type, data, value) ==
    [type |-> type, data |-> data, len |-> Len(value), value |-> value]

Message(version, maps) ==
    [format |-> version, magic |-> PSBT_MAGIC, separator |-> PSBT_SEPARATOR, maps |-> maps]

\* One input, one output.
Payment ==
    Message(2, <<
        <<G("version", <<>>, <<2, 0>>), G("tx_version", <<>>, <<2, 0>>),
          G("input_count", <<>>, <<1>>), G("output_count", <<>>, <<1>>),
          G("xpub", <<1>>, <<7, 7>>), Unknown(9, <<>>, <<>>)>>,
        <<I("previous_txid", <<>>, <<5, 5>>), I("spent_output_index", <<3>>, <<0, 0>>),
          I("non_witness_utxo", <<>>, <<2, 5, 0>>), I("min_height", <<>>, <<4, 0>>),
          I("partial_sig", <<1>>, <<4>>), I("partial_sig", <<2>>, <<4>>)>>,
        <<O("amount", <<>>, <<1, 0>>), O("script", <<>>, <<8>>),
          O("redeem_script", <<>>, <<>>)>> >>)

\* Silent payments: two outputs, one of them without a script, and no inputs.
Silent ==
    Message(2, <<
        <<G("sp_ecdh_share", <<1>>, <<1, 1>>), G("sp_dleq", <<1>>, <<1, 1>>),
          G("output_count", <<>>, <<2>>), G("input_count", <<>>, <<0>>),
          G("tx_modifiable", <<>>, <<3>>), G("tx_version", <<>>, <<2, 0>>),
          G("version", <<>>, <<2, 0>>)>>,
        <<O("sp_v0_label", <<>>, <<0, 1>>), O("sp_v0_info", <<>>, <<1, 2>>),
          O("amount", <<>>, <<1, 0>>)>>,
        <<O("amount", <<>>, <<2, 0>>), O("script", <<>>, <<>>),
          O("tap_internal_key", <<>>, <<6, 6>>)>> >>)

\* Values with parts: an input whose key is in a leaf and has a path of one step,
\* and an output with a tree of two leaves.
Taproot ==
    Message(2, <<
        <<G("version", <<>>, <<2, 0>>), G("tx_version", <<>>, <<2, 0>>),
          G("input_count", <<>>, <<1>>), G("output_count", <<>>, <<1>>)>>,
        <<I("previous_txid", <<>>, <<5, 5>>), I("spent_output_index", <<>>, <<0, 0>>),
          I("tap_key_sig", <<>>, <<4, 4>>), I("tap_leaf_script", <<1>>, <<8, 192>>),
          I("tap_bip32_derivation", <<1>>, <<1, 9, 9, 7, 7, 3, 0>>)>>,
        <<O("amount", <<>>, <<1, 0>>), O("script", <<>>, <<8>>),
          O("bip32_derivation", <<1>>, <<7, 7>>),
          O("tap_tree", <<>>, <<1, 192, 1, 5, 1, 192, 0>>)>> >>)

\* The same in version 0: a transaction with an input and an output and a lock
\* time, and one with outputs only.
Payment0 ==
    Message(0, <<
        <<G("unsigned_tx", <<>>, EncodeTx(
              [version |-> <<2, 0>>, lock |-> <<4, 0>>,
               ins |-> <<[txid |-> <<5, 5>>, vout |-> <<0, 0>>, seq |-> <<254, 255>>]>>,
               outs |-> <<[amount |-> <<1, 0>>, script |-> <<8>>]>>])),
          G("version", <<>>, <<0, 0>>)>>,
        <<I("non_witness_utxo", <<>>, <<2, 5, 0>>), I("partial_sig", <<1>>, <<4>>),
          Unknown(InputFields.sequence, <<>>, <<1>>)>>,
        <<O("redeem_script", <<>>, <<3>>)>> >>)

Silent0 ==
    Message(0, <<
        <<G("sp_ecdh_share", <<1>>, <<1, 1>>), G("sp_dleq", <<1>>, <<1, 1>>),
          G("unsigned_tx", <<>>, EncodeTx(
              [version |-> <<2, 0>>, lock |-> <<0, 0>>, ins |-> <<>>,
               outs |-> <<[amount |-> <<1, 0>>, script |-> <<>>]>>]))>>,
        <<O("sp_v0_info", <<>>, <<1, 2>>), O("sp_v0_label", <<1>>, <<0, 1>>)>> >>)

\* No inputs and no outputs.
Nothing0 ==
    Message(0, <<
        <<G("unsigned_tx", <<>>, EncodeTx(NoTx))>> >>)

\* What one slip makes of a pair.
Slips(p) ==
    {[p EXCEPT !.data = <<>>], [p EXCEPT !.data = <<Bad>>],
     [p EXCEPT !.value = Append(@, 3), !.len = @ + 1]}
    \union (IF p.value = <<>> THEN {}
            ELSE {[p EXCEPT !.value = Front(@), !.len = @ - 1]}
                    \union {[p EXCEPT !.value[1] = v] : v \in {0, Bad}})

\* A length is only wrong where something else tells where the value ends.
Misframed(map, p) ==
    IF FieldOf(map, p.type) \in Framed[map]
    THEN {[p EXCEPT !.len = @ - 1], [p EXCEPT !.len = @ + 1]} ELSE {}

MapOf(m, i) ==
    MapName(IF i = 1 THEN "global" ELSE IF i <= 1 + InputCount(m) THEN "input" ELSE "output",
            m.format)

OfMap(m, i) ==
    LET pairs == m.maps[i]
        n == Len(pairs)
    IN  UNION {{ReplaceAt(pairs, j, q) :
                    q \in Slips(pairs[j]) \union Misframed(MapOf(m, i), pairs[j])} : j \in 1 .. n}
        \union {RemoveAt(pairs, j) : j \in 1 .. n}
        \union {Append(pairs, pairs[j]) : j \in 1 .. n}
        \union {Reverse(pairs)}
        \union {Append(pairs, G("unsigned_tx", <<>>, <<>>))}

\* One slip in the maps of `places`.
InMaps(m, places) ==
    UNION {{[m EXCEPT !.maps[i] = pairs] : pairs \in OfMap(m, i)} : i \in places}

OfMessage(m) ==
    {m, [m EXCEPT !.format = 2 - @], [m EXCEPT !.magic[4] = 0], [m EXCEPT !.separator = 0],
     [m EXCEPT !.maps = Front(@)], [m EXCEPT !.maps = Append(@, Last(@))]}
    \union InMaps(m, 1 .. Len(m.maps))

\* A slip in each of the numbers of a value with parts.
OfParts(m, i, j) ==
    {[m EXCEPT !.maps[i][j].value[k] = v] :
        k \in 1 .. Len(m.maps[i][j].value), v \in {0, 2, Bad}}

\* A tree that is complete, and a leaf behind it whose script is not whole.
LeafBehind ==
    [Taproot EXCEPT !.maps[3][4].value = <<0, 192, 1, 5, 1, 192, 2>>]

\* A slip in each of the numbers of the transaction.
OfTx(m, i) ==
    {[m EXCEPT !.maps[1][i].value[k] = v] : k \in 1 .. Len(m.maps[1][i].value), v \in {1, Bad}}

MCMessages ==
    OfMessage(Payment) \union OfMessage(Silent)
        \union OfMessage(Payment0) \union OfMessage(Silent0) \union OfMessage(Nothing0)
        \union InMaps(Taproot, {2, 3}) \union OfParts(Taproot, 2, 5) \union OfParts(Taproot, 3, 4)
        \union {LeafBehind} \union OfTx(Payment0, 1) \union OfTx(Silent0, 3)

MCChunks == {1, 3}
MCTargets == {0, 2}

\* A taproot key with a leaf hash and a path that end in the middle of a step, and
\* trees whose last script is not whole.
MCOverruns ==
    {[Taproot EXCEPT !.maps[2][5].value = Front(@), !.maps[2][5].len = @ - 1],
     [Taproot EXCEPT !.maps[3][4].value[7] = 2], LeafBehind}

\* A payment of version 0 with the redeem script of an output, and payments of
\* version 2 whose input has a preimage, or whose output is proprietary.
MCDemotable ==
    {Payment0,
     Message(2, <<Payment.maps[1], Append(Payment.maps[2], I("sha256", <<1>>, <<1>>)), Payment.maps[3]>>),
     Message(2, <<Payment.maps[1], Payment.maps[2], Append(Payment.maps[3], O("proprietary", <<1>>, <<1>>))>>)}
=============================================================================
