------------------------------ MODULE PsbtFields ------------------------------
(***************************************************************************)
(* The fields of the maps of a PSBT: their types, how each is keyed and     *)
(* framed, the order in which they are written, and what their decoders     *)
(* refuse.  "global", "input" and "output" are the maps of version 2,       *)
(* "global0", "input0" and "output0" those of version 0.  The build is the  *)
(* one with silent payments.                                               *)
(*                                                                         *)
(* Values are shrunk: one of fixed size has FixedSize bytes, and a          *)
(* transaction, TxOut or witness says in its first byte how many follow.    *)
(***************************************************************************)
EXTENDS ValueCodecs, Functions

GlobalFields ==
    [unsigned_tx |-> 0, xpub |-> 1, tx_version |-> 2, fallback_lock_time |-> 3,
     input_count |-> 4, output_count |-> 5, tx_modifiable |-> 6,
     sp_ecdh_share |-> 7, sp_dleq |-> 8, version |-> 251, proprietary |-> 252]

InputFields ==
    [non_witness_utxo |-> 0, witness_utxo |-> 1, partial_sig |-> 2,
     sighash_type |-> 3, redeem_script |-> 4, witness_script |-> 5,
     bip32_derivation |-> 6, final_script_sig |-> 7, final_script_witness |-> 8,
     ripemd160 |-> 10, sha256 |-> 11, hash160 |-> 12, hash256 |-> 13,
     previous_txid |-> 14, spent_output_index |-> 15, sequence |-> 16,
     min_time |-> 17, min_height |-> 18, tap_key_sig |-> 19,
     tap_script_sig |-> 20, tap_leaf_script |-> 21, tap_bip32_derivation |-> 22,
     tap_internal_key |-> 23, tap_merkle_root |-> 24, sp_ecdh_share |-> 29,
     sp_dleq |-> 30, proprietary |-> 252]

OutputFields ==
    [redeem_script |-> 0, witness_script |-> 1, bip32_derivation |-> 2,
     amount |-> 3, script |-> 4, tap_internal_key |-> 5, tap_tree |-> 6,
     tap_bip32_derivation |-> 7, sp_v0_info |-> 9, sp_v0_label |-> 10,
     proprietary |-> 252]

\* What version 0 says in the unsigned transaction, or does not say.
GlobalFields0 ==
    Restrict(GlobalFields,
        {"unsigned_tx", "xpub", "sp_ecdh_share", "sp_dleq", "version", "proprietary"})

InputFields0 ==
    Restrict(InputFields, DOMAIN InputFields \
        {"previous_txid", "spent_output_index", "sequence", "min_time", "min_height"})

OutputFields0 == Restrict(OutputFields, DOMAIN OutputFields \ {"amount", "script"})

Fields ==
    [global |-> GlobalFields, input |-> InputFields, output |-> OutputFields,
     global0 |-> GlobalFields0, input0 |-> InputFields0, output0 |-> OutputFields0]

\* The field of each type that has one.
FieldAt ==
    [map \in DOMAIN Fields |->
        [type \in Range(Fields[map]) |-> CHOOSE f \in DOMAIN Fields[map] : Fields[map][f] = type]]

FieldOf(map, type) == IF type \in DOMAIN FieldAt[map] THEN FieldAt[map][type] ELSE "unknown"

-----------------------------------------------------------------------------
(* Framing.  A field listed here is read by a ValueDecoder: the value's own  *)
(* decoder finds its end, and the length in front is only compared.  Every   *)
(* other value ends where its length says.                                  *)

GlobalFramed ==
    {"version", "tx_version", "fallback_lock_time", "input_count",
     "output_count", "tx_modifiable", "sp_ecdh_share", "sp_dleq"}

InputFramed ==
    {"previous_txid", "spent_output_index", "sequence", "min_time", "min_height",
     "non_witness_utxo", "witness_utxo", "sighash_type", "final_script_witness",
     "tap_internal_key", "tap_merkle_root", "sp_ecdh_share", "sp_dleq"}

OutputFramed == {"amount", "tap_internal_key", "sp_v0_info", "sp_v0_label"}

GlobalFramed0 == {"unsigned_tx", "version", "sp_ecdh_share", "sp_dleq"}
InputFramed0  == InputFramed \intersect DOMAIN InputFields0
OutputFramed0 == OutputFramed \intersect DOMAIN OutputFields0

Framed ==
    [global |-> GlobalFramed, input |-> InputFramed, output |-> OutputFramed,
     global0 |-> GlobalFramed0, input0 |-> InputFramed0, output0 |-> OutputFramed0]

\* The bytes the decoder of a framed value takes, as far as seen.
InnerSize(field, seen) ==
    CASE field \in {"input_count", "output_count", "tx_modifiable"} -> 1
      [] field \in {"non_witness_utxo", "witness_utxo", "final_script_witness"} ->
            PrefixedSize(seen)
      [] field = "unsigned_tx" -> TxSize[seen]
      [] OTHER -> FixedSize

-----------------------------------------------------------------------------
(* Keys                                                                     *)

\* Several pairs of one type, told apart by their key data.
GlobalKeyed == {"xpub", "sp_ecdh_share", "sp_dleq", "proprietary"}

InputKeyed ==
    {"partial_sig", "bip32_derivation", "ripemd160", "sha256", "hash160",
     "hash256", "tap_script_sig", "tap_leaf_script", "tap_bip32_derivation",
     "sp_ecdh_share", "sp_dleq", "proprietary"}

OutputKeyed == {"bip32_derivation", "tap_bip32_derivation", "proprietary"}

Keyed ==
    [global |-> GlobalKeyed, input |-> InputKeyed, output |-> OutputKeyed,
     global0 |-> GlobalKeyed, input0 |-> InputKeyed, output0 |-> OutputKeyed]

\* Version 0 refuses these as soon as it sees key data with them, and reads the
\* key data of preimages and of proprietary pairs all the same: it takes none.
InputUnkeyed0 ==
    {"non_witness_utxo", "witness_utxo", "sighash_type", "redeem_script",
     "witness_script", "final_script_sig", "final_script_witness", "tap_key_sig",
     "tap_internal_key", "tap_merkle_root", "ripemd160", "sha256", "hash160",
     "hash256", "proprietary"}

OutputUnkeyed0 ==
    {"redeem_script", "witness_script", "tap_internal_key", "tap_tree", "proprietary"}

\* What DecoderStage::from_key refuses.
KeyRefused(map, field, data) ==
    \/ map = "global" /\ field = "unsigned_tx"
    \/ map = "input0" /\ field \in InputUnkeyed0 /\ data # <<>>
    \/ map = "output0" /\ field \in OutputUnkeyed0 /\ data # <<>>

\* Fields whose key data must be empty once their value is there; the other
\* fields of one pair ignore theirs.
Bare(map) ==
    CASE map = "output"  -> {"sp_v0_info", "sp_v0_label"}
      [] map = "global0" -> {"version", "unsigned_tx"}
      [] OTHER           -> {}

KeyDecodes(map, field, data) ==
    /\ field \in Keyed[map] => data # <<>> /\ Bad \notin ToSet(data)
    /\ field \in Bare(map) => data = <<>>

-----------------------------------------------------------------------------
(* Values                                                                   *)

\* The bytes an unframed value takes with its length, as far as seen.  A length
\* that is refused is all that is taken.
BehindLength(field, seen) ==
    CASE field = "tap_bip32_derivation" -> OriginSize(seen)
      [] seen # <<>> /\ LengthRefused(field, seen[1]) -> 1
      [] OTHER -> PrefixedSize(seen)

\* Those whose type refuses some bodies of a length it accepts.
Validated ==
    {"sp_ecdh_share", "non_witness_utxo", "witness_utxo", "final_script_witness",
     "partial_sig", "tap_key_sig", "tap_script_sig", "tap_internal_key", "amount",
     "sp_v0_info"}

ValueDecodes(map, field, value) ==
    /\ field \in Validated => value # <<>> /\ Bad \notin ToSet(value)
    /\ field = "version" => Number(value) = (IF map = "global" THEN 2 ELSE 0)
    /\ field = "min_time" => Number(value) \in Times
    /\ field = "min_height" => Number(value) \in Heights
    /\ field = "unsigned_tx" => TxDecodes[value]
    /\ field = "tap_leaf_script" => LeafScriptDecodes(value)
    /\ field = "tap_tree" => TreeDecodes[value]

-----------------------------------------------------------------------------
(* A pair as the maps of a PSBT hold it: key data counts only where it keys. *)

EntryOf(map, type, data, value) ==
    LET field == FieldOf(map, type)
    IN  [field |-> field, type |-> type, value |-> value,
         data |-> IF field \in Keyed[map] \union {"unknown"} THEN data ELSE <<>>]

\* That of a field of one pair, in version 2.
Single(map, field, value) == EntryOf(map, Fields[map][field], <<>>, value)

FieldsIn(entries) == {e.field : e \in entries}

Without(entries, fields) == {e \in entries : e.field \notin fields}

\* The value of a field of one pair, if it is present, and if it may not be.
ValueOf(entries, field) == (CHOOSE e \in entries : e.field = field).value

ValueOr(entries, field, default) ==
    IF field \in FieldsIn(entries) THEN ValueOf(entries, field) ELSE default

-----------------------------------------------------------------------------
(* The orders in which the fields of a map are written                      *)

GlobalOrder ==
    <<"version", "tx_version", "fallback_lock_time", "input_count",
      "output_count", "tx_modifiable", "xpub", "sp_ecdh_share", "sp_dleq",
      "proprietary", "unknown">>

InputOrder ==
    <<"previous_txid", "spent_output_index", "sequence", "min_time",
      "min_height", "non_witness_utxo", "witness_utxo", "partial_sig",
      "sighash_type", "redeem_script", "witness_script", "bip32_derivation",
      "final_script_sig", "final_script_witness", "ripemd160", "sha256",
      "hash160", "hash256", "tap_key_sig", "tap_script_sig", "tap_leaf_script",
      "tap_bip32_derivation", "tap_internal_key", "tap_merkle_root",
      "sp_ecdh_share", "sp_dleq", "proprietary", "unknown">>

OutputOrder ==
    <<"amount", "script", "redeem_script", "witness_script", "bip32_derivation",
      "tap_internal_key", "tap_tree", "tap_bip32_derivation", "sp_v0_info",
      "sp_v0_label", "proprietary", "unknown">>

GlobalOrder0 ==
    <<"unsigned_tx", "xpub", "proprietary", "unknown", "sp_ecdh_share", "sp_dleq">>

InputOrder0 ==
    <<"non_witness_utxo", "witness_utxo", "partial_sig", "sighash_type",
      "redeem_script", "witness_script", "bip32_derivation", "final_script_sig",
      "final_script_witness", "ripemd160", "sha256", "hash160", "hash256",
      "tap_key_sig", "tap_script_sig", "tap_leaf_script", "tap_bip32_derivation",
      "tap_internal_key", "tap_merkle_root", "proprietary", "unknown",
      "sp_ecdh_share", "sp_dleq">>

\* Without the redeem script.
OutputOrder0 ==
    <<"witness_script", "bip32_derivation", "tap_internal_key", "tap_tree",
      "tap_bip32_derivation", "proprietary", "unknown", "sp_v0_info", "sp_v0_label">>

Orders ==
    [global |-> GlobalOrder, input |-> InputOrder, output |-> OutputOrder,
     global0 |-> GlobalOrder0, input0 |-> InputOrder0, output0 |-> OutputOrder0]
=============================================================================
