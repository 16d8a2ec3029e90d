------------------------------ MODULE ValueCodecs ------------------------------
(***************************************************************************)
(* Values whose decoder takes the length in front of them with them: which  *)
(* lengths are refused as soon as they are read, where a value with parts   *)
(* of its own ends, and what is in it.  The parts of a key source and of    *)
(* the origin of a taproot key are of fixed size, but for the number of     *)
(* leaf hashes, and a signature is of fixed size or one byte longer.        *)
(***************************************************************************)
EXTENDS UnsignedTxCodec

\* The bytes a <<length>> and what it announces take, as far as seen.
PrefixedSize(seen) == IF seen = <<>> THEN 1 ELSE 1 + seen[1]

-----------------------------------------------------------------------------
(* Lengths *)

EcdsaLengthRefused(length)     == length > FixedSize + 1
TaprootLengthRefused(length)   == length \notin {FixedSize, FixedSize + 1}
KeySourceLengthRefused(length) == length < FixedSize \/ length % FixedSize # 0

LengthRefused(field, length) ==
    CASE field = "partial_sig" -> EcdsaLengthRefused(length)
      [] field \in {"tap_key_sig", "tap_script_sig"} -> TaprootLengthRefused(length)
      [] field \in {"xpub", "bip32_derivation"} -> KeySourceLengthRefused(length)
      [] OTHER -> FALSE

-----------------------------------------------------------------------------
(* The origin of a taproot key: the number of leaf hashes, the hashes, the   *)
(* fingerprint and the steps of the path.                                   *)

\* Where part i ends, the number being part 0.
PartEnd(i) == 2 + i * FixedSize

\* TapKeyOriginDecoder is done when no bytes remain after a part behind the
\* hashes, and subtracts too much when fewer remain than the part had.
OriginDone(seen, i)    == i > seen[2] /\ PartEnd(i) = PrefixedSize(seen)
OriginOverrun(seen, i) == PartEnd(i) > PrefixedSize(seen)

LastPart[seen \in Seq(Nat)] ==
    LET Stops(i) == OriginDone(seen, i) \/ OriginOverrun(seen, i)
    IN  CHOOSE i \in 0 .. seen[1] : Stops(i) /\ \A j \in 0 .. i - 1 : ~Stops(j)

OriginSize(seen) == IF Len(seen) < 2 THEN Len(seen) + 1 ELSE PartEnd(LastPart[seen])

\* The bytes of a part that is not whole: `remaining` does not know of them.
HalfPart(got) == IF Len(got) < 2 THEN 0 ELSE (Len(got) - 2) % FixedSize

\* What read_limit answers.
OriginRemaining(got) ==
    IF got = <<>> THEN 1 ELSE PrefixedSize(got) - (Len(got) - HalfPart(got))

\* The value taken as a whole.
OriginDecodes(value) ==
    /\ value # <<>>
    /\ (Len(value) - 1) % FixedSize = 0
    /\ (Len(value) - 1) \div FixedSize > value[1]

-----------------------------------------------------------------------------
(* A taproot tree: its leaves in depth first order, each with its depth, its *)
(* version and a script behind its length.                                  *)

\* Depths above this one stand for those bitcoin refuses.
MaxDepth == 4

\* Where the leaf that starts behind `start` ends, or start, if it is not whole.
LeafEnd(value, start) ==
    IF start + 3 > Len(value) THEN start
    ELSE LET end == start + 3 + value[start + 3]
         IN  IF end > Len(value) THEN start ELSE end

\* Where the leaves end that are whole, and 0.
LeafEnds[value \in Seq(Nat)] ==
    LET next == [start \in Nat |-> LeafEnd(value, start)]
        end[i \in 0 .. Len(value)] == IF i = 0 THEN 0 ELSE next[end[i - 1]]
    IN  {end[i] : i \in 0 .. Len(value)}

\* They start where the one before ends.
LeafStarts[value \in Seq(Nat)] == {s \in LeafEnds[value] : LeafEnd(value, s) # s}

VersionsOk(value) == \A s \in LeafStarts[value] : value[s + 2] # Bad

\* TaprootBuilder: a leaf of depth d takes 1 / 2^d of the tree, and starts at a
\* multiple of that.
Width(depth) == 2 ^ (MaxDepth - depth)

\* What the leaves before a place take.
Filled(value, end) ==
    MapThenSumSet(LAMBDA s : Width(value[s + 1]), {s \in LeafStarts[value] : s < end})

LeavesFit(value) ==
    /\ \A s \in LeafStarts[value] : value[s + 1] <= MaxDepth
    /\ \A s \in LeafStarts[value] :
          /\ Filled(value, s) % Width(value[s + 1]) = 0
          /\ Filled(value, s + 1) <= Width(0)

TreeDecodes[value \in Seq(Nat)] ==
    /\ Len(value) \in LeafEnds[value]
    /\ VersionsOk(value)
    /\ LeavesFit(value)
    /\ Filled(value, Len(value)) = Width(0)

\* TapTreeDecoder::end cuts a script out of less than it announced.
TreeOverruns[value \in Seq(Nat)] ==
    /\ VersionsOk(value)
    /\ LeavesFit(value)
    /\ \E start \in LeafEnds[value] :
           start + 3 <= Len(value) /\ start + 3 + value[start + 3] > Len(value)

-----------------------------------------------------------------------------

\* The script and the version behind it.
LeafScriptDecodes(value) == value # <<>> /\ Last(value) # Bad

\* Values on which a decoder takes more than there is instead of refusing.  `item`
\* has the length in front.
Overruns(field, item) ==
    \/ /\ field = "tap_bip32_derivation"
       /\ ~OriginDone(item, LastPart[item])
    \/ field = "tap_tree" /\ TreeOverruns[Tail(item)]
=============================================================================
