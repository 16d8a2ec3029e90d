--------------------------- MODULE UnsignedTxCodec ---------------------------
(***************************************************************************)
(* The unsigned transaction a version 0 PSBT holds in its global map: where *)
(* its bytes end, which bytes are refused, and what they say.  Its script   *)
(* signatures are empty, and it has no witnesses.                          *)
(*                                                                         *)
(* A number of fixed size takes FixedSize bytes, the lowest first.  A body  *)
(* that its type refuses (an amount out of range, a point off the curve)    *)
(* contains Bad.                                                           *)
(***************************************************************************)
EXTENDS LockTime, SequencesExt

CONSTANTS FixedSize, Bad
ASSUME SizeAssumption == FixedSize \in Nat \ {0} /\ Bad \in Nat

Number(bytes) == FoldRight(LAMBDA b, n : b + 256 * n, bytes, 0)

NumberBytes(n) ==
    LET next == [rest \in Nat |-> rest \div 256]
        rests[i \in 0 .. FixedSize - 1] == IF i = 0 THEN n ELSE next[rests[i - 1]]
    IN  [i \in 1 .. FixedSize |-> rests[i - 1] % 256]

\* What an input without a sequence number has in a transaction.
DefaultSequence == [i \in 1 .. FixedSize |-> 255]

-----------------------------------------------------------------------------
(* Where it ends, as far as the bytes seen say: a place past them is one the *)
(* decoder needs to reach before it can say more.                           *)

\* What comes after `end`, once it was reached.
Past(seen, end, next) == IF Len(seen) < end THEN end ELSE next

\* Items of a list, each a script behind its length between two fixed parts.
ItemsEnd(seen, start, n, before, after) ==
    LET next == [end \in Nat |->
            LET script == end + before + 1
            IN  Past(seen, end, Past(seen, script, script + seen[script] + after))]
        ends[i \in 0 .. n] == IF i = 0 THEN start ELSE next[ends[i - 1]]
    IN  ends[n]

\* A list behind its length.
ListEnd(seen, start, before, after) ==
    Past(seen, start,
        Past(seen, start + 1, ItemsEnd(seen, start + 1, seen[start + 1], before, after)))

InputsEnd[seen \in Seq(Nat)] == ListEnd(seen, FixedSize, 2 * FixedSize, FixedSize)
OutputsEnd[seen \in Seq(Nat)] == ListEnd(seen, InputsEnd[seen], FixedSize, 0)
TxSize[seen \in Seq(Nat)] == Past(seen, OutputsEnd[seen], OutputsEnd[seen] + FixedSize)

-----------------------------------------------------------------------------
(* What it says, once whole.                                                *)

\* The number of fixed size at a place.
Part(bytes, start) == SubSeq(bytes, start + 1, start + FixedSize)

TxInCount(bytes)  == bytes[FixedSize + 1]
TxOutCount(bytes) == bytes[InputsEnd[bytes] + 1]

\* Inputs without script have one size.
TxInStart(i) == FixedSize + 1 + (i - 1) * (3 * FixedSize + 1)

TxOutStart(bytes, i) == ItemsEnd(bytes, InputsEnd[bytes] + 1, i - 1, FixedSize, 0)

ScriptSigsEmpty(bytes) ==
    \A i \in 1 .. TxInCount(bytes) : bytes[TxInStart(i) + 2 * FixedSize + 1] = 0

TxDecodes[bytes \in Seq(Nat)] ==
    /\ ScriptSigsEmpty(bytes)
    /\ \A i \in 1 .. TxOutCount(bytes) :
           Bad \notin ToSet(Part(bytes, TxOutStart(bytes, i)))

TxIn(bytes, i) ==
    [txid |-> Part(bytes, TxInStart(i)), vout |-> Part(bytes, TxInStart(i) + FixedSize),
     seq |-> Part(bytes, TxInStart(i) + 2 * FixedSize + 1)]

TxOut(bytes, i) ==
    LET script == TxOutStart(bytes, i) + FixedSize + 1
    IN  [amount |-> Part(bytes, TxOutStart(bytes, i)),
         script |-> SubSeq(bytes, script + 1, script + bytes[script])]

DecodeTx[bytes \in Seq(Nat)] ==
    [version |-> Part(bytes, 0),
     ins |-> [i \in 1 .. TxInCount(bytes) |-> TxIn(bytes, i)],
     outs |-> [i \in 1 .. TxOutCount(bytes) |-> TxOut(bytes, i)],
     lock |-> Part(bytes, OutputsEnd[bytes])]

-----------------------------------------------------------------------------
(* How it is written                                                        *)

EncodeTxIn(in)   == in.txid \o in.vout \o <<0>> \o in.seq
EncodeTxOut(out) == out.amount \o <<Len(out.script)>> \o out.script

EncodeTx(tx) ==
    tx.version
        \o <<Len(tx.ins)>> \o FlattenSeq([i \in DOMAIN tx.ins |-> EncodeTxIn(tx.ins[i])])
        \o <<Len(tx.outs)>> \o FlattenSeq([i \in DOMAIN tx.outs |-> EncodeTxOut(tx.outs[i])])
        \o tx.lock
=============================================================================
