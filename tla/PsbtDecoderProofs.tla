------------------------- MODULE PsbtDecoderProofs -------------------------
(***************************************************************************)
(* Proofs about PsbtDecoder, for any messages of callers, what they are     *)
(* encoded to again, and any way to cut them into calls.  While a decoder   *)
(* reads a message that is well formed, what it holds and what it has built *)
(* so far are those of a place in that message: behind so many maps, so     *)
(* many pairs and this part of the next one.  The invariant, Decoding, says *)
(* that there is such a place.  While it reads any bytes at all, what it    *)
(* took are the bytes of maps and pairs that are well formed, and it holds  *)
(* what they mean, or it has failed: the invariant of that is Sound.        *)
(***************************************************************************)
EXTENDS PsbtDecoder, CodecProofs

-----------------------------------------------------------------------------
(* Taking bytes *)

\* Where the item the active decoder waits for starts.
Start == pos - Len(got)

\* What it holds are the bytes before pos.
Held ==
    /\ bytes \in Seq(Nat) /\ got \in Seq(Nat)
    /\ pos \in Nat /\ fed \in Nat /\ pos <= fed /\ fed <= Len(bytes)
    /\ Len(got) <= pos
    /\ Stands(got, bytes, Start)

AsksFor(item) ==
    \A seen \in Seq(Nat) : Agree(seen, item) => Finds(Need(seen), seen, item)

Awaits(item) == item \in Seq(Nat) /\ Stands(item, bytes, Start) /\ AsksFor(item)

LEMMA SeenStands ==
    ASSUME Held
    PROVE  /\ Seen \in Seq(Nat) /\ Len(Seen) = fed - Start
           /\ Start \in Nat
           /\ Stands(Seen, bytes, Start)
<1>1. Start \in Nat /\ Start + Len(got) = pos
  BY DEF Held, Start
<1>2. PICK more : more = SubSeq(bytes, pos + 1, fed)
  OBVIOUS
<1>3. more \in Seq(Nat) /\ Len(more) = fed - pos /\ \A i \in 1 .. fed - pos : more[i] = bytes[pos + i]
  BY <1>2 DEF Held
<1>4. got \in Seq(Nat) /\ pos \in Nat /\ fed \in Nat /\ pos <= fed /\ fed <= Len(bytes)
  BY DEF Held
<1>5. got \o more \in Seq(Nat) /\ Len(got \o more) = Len(got) + Len(more)
  BY <1>3, <1>4, Concat
<1>6. ASSUME NEW i \in 1 .. Len(got \o more) PROVE (got \o more)[i] = bytes[Start + i]
  <2>1. CASE i <= Len(got)
    <3>1. (got \o more)[i] = got[i]
      BY <1>3, <1>4, <2>1
    <3>2. got[i] = bytes[Start + i]
      BY <1>5, <2>1, <1>3, <1>4 DEF Held, Stands
    <3>. QED  BY <3>1, <3>2
  <2>2. CASE i > Len(got)
    <3>1. PICK k \in 1 .. fed - pos : i = Len(got) + k
      <4>1. i - Len(got) \in 1 .. fed - pos /\ i = Len(got) + (i - Len(got))
        BY <1>3, <1>4, <1>5, <2>2
      <4>. QED  BY <4>1
    <3>2. (got \o more)[i] = more[k]
      BY <1>3, <1>4, <3>1, Concat
    <3>3. more[k] = bytes[pos + k]
      BY <1>3
    <3>4. pos + k = Start + i
      <4>1. Len(got) \in Nat /\ k \in Nat
        BY <1>4
      <4>. QED  BY <1>1, <1>4, <3>1, <4>1
    <3>. QED  BY <3>2, <3>3, <3>4
  <2>. QED  BY <1>3, <1>4, <1>5, <2>1, <2>2, SMTT(20)
<1>7. Len(got \o more) = fed - Start /\ Start + Len(got \o more) <= Len(bytes)
  BY <1>1, <1>3, <1>4, <1>5, SMTT(20)
<1>8. Stands(got \o more, bytes, Start)
  BY <1>6, <1>7 DEF Stands
<1>. QED  BY <1>1, <1>2, <1>5, <1>7, <1>8 DEF Seen

LEMMA StandersAgree ==
    ASSUME NEW a \in Seq(Nat), NEW b \in Seq(Nat), NEW s \in Seq(Nat), NEW start \in Nat,
           Stands(a, s, start), Stands(b, s, start)
    PROVE  Agree(a, b)
  BY DEF Stands, Agree

LEMMA TakesItem ==
    ASSUME Held, NEW item, Awaits(item), Complete
    PROVE  Item = item /\ Need(Seen) = Len(item) /\ Start + Len(item) <= fed
<1>1. Seen \in Seq(Nat) /\ Len(Seen) = fed - Start /\ Start \in Nat /\ Stands(Seen, bytes, Start)
  BY SeenStands
<1>2. item \in Seq(Nat) /\ Stands(item, bytes, Start) /\ bytes \in Seq(Nat) /\ fed \in Nat
  BY DEF Awaits, Held
<1>3. Agree(Seen, item)
  BY <1>1, <1>2, StandersAgree
<1>4. Finds(Need(Seen), Seen, item)
  BY <1>1, <1>3 DEF Awaits, AsksFor
<1>5. Len(Seen) >= Len(item) /\ Need(Seen) = Len(item)
  <2>1. CASE Len(Seen) >= Len(item)
    BY <1>4, <2>1 DEF Finds
  <2>2. CASE ~(Len(Seen) >= Len(item))
    <3>1. Need(Seen) \in Len(Seen) + 1 .. Len(item)
      BY <1>4, <2>2 DEF Finds
    <3>2. Len(Seen) >= Need(Seen)
      BY DEF Complete
    <3>3. Len(Seen) \in Nat /\ Len(item) \in Nat
      BY <1>1, <1>2
    <3>. QED  BY <2>2, <3>1, <3>2, <3>3
  <2>. QED  BY <2>1, <2>2
<1>6. SubSeq(Seen, 1, Len(item)) = item
  <2>1. \A i \in 1 .. Len(item) : Seen[i] = item[i]
    BY <1>1, <1>2, <1>3, <1>5 DEF Agree
  <2>2. PICK seen \in Seq(Nat) : seen = Seen
    BY <1>1
  <2>3. SubSeq(seen, 1, Len(item)) = item
    BY <1>2, <1>5, <2>1, <2>2
  <2>. QED  BY <2>2, <2>3
<1>. QED  BY <1>1, <1>2, <1>5, <1>6 DEF Item

LEMMA TakeMoves ==
    ASSUME Held, NEW item, Awaits(item), Take
    PROVE  /\ Item = item
           /\ Held' /\ got' = <<>> /\ pos' = Start + Len(item) /\ Start' = Start + Len(item)
           /\ fed' = fed /\ bytes' = bytes
<1>1. Item = item /\ Need(Seen) = Len(item) /\ Start + Len(item) <= fed
  BY TakesItem DEF Take
<1>2. Start \in Nat /\ item \in Seq(Nat) /\ bytes \in Seq(Nat)
        /\ fed \in Nat /\ pos \in Nat /\ fed <= Len(bytes) /\ got \in Seq(Nat)
  BY SeenStands DEF Awaits, Held
<1>3. pos' = Start + Len(item) /\ got' = <<>> /\ fed' = fed /\ bytes' = bytes
  BY <1>1, <1>2 DEF Take, Taken, Start, given
<1>4. Start' = Start + Len(item)
  BY <1>2, <1>3 DEF Start
<1>5. Stands(<<>>, bytes, Start + Len(item))
  BY <1>1, <1>2 DEF Stands
<1>6. Held'
  BY <1>1, <1>2, <1>3, <1>4, <1>5 DEF Held
<1>. QED  BY <1>1, <1>3, <1>4, <1>6

LEMMA NeedsMoreStays ==
    ASSUME Held, NeedsMore
    PROVE  /\ Held' /\ Start' = Start /\ pos' = fed' /\ got' = Seen
           /\ fed' = fed /\ bytes' = bytes
           /\ consumed = Len(got) => CountConsumed \in {consumed, Len(Seen)}
<1>1. Seen \in Seq(Nat) /\ Len(Seen) = fed - Start /\ Start \in Nat /\ Stands(Seen, bytes, Start)
  BY SeenStands
<1>2. got' = Seen /\ pos' = fed /\ fed' = fed /\ bytes' = bytes
  BY DEF NeedsMore, given
<1>3. Start' = Start
  BY <1>1, <1>2 DEF Start, Held
<1>4. Held'
  BY <1>1, <1>2, <1>3 DEF Held
<1>5. consumed = Len(got) => CountConsumed \in {consumed, Len(Seen)}
  BY <1>1 DEF CountConsumed, Start, Held
<1>. QED  BY <1>2, <1>3, <1>4, <1>5

-----------------------------------------------------------------------------
(* The place of a decoder in a message that is well formed *)

Psbt(message, inputs, outputs) ==
    [global |-> Meaning(message).global, inputs |-> inputs, outputs |-> outputs]

\* The maps before map i are read, and those of its kind are next.
ReadTo(message, i) ==
    LET n == InputCount(message)
        k == OutputCount(message)
    IN  \/ stage = "global" /\ i = 1 /\ psbt = EmptyPsbt
        \/ /\ stage = "inputs" /\ i \in 2 .. 2 + n
           /\ psbt = Psbt(message, ReadInputs(message, i - 2), <<>>)
        \/ /\ stage = "outputs" /\ i \in 2 + n .. 2 + n + k
           /\ psbt = Psbt(message, Meaning(message).inputs, ReadOutputs(message, i - 2 - n))

AtListEnd(message, i) ==
    \/ stage = "inputs" /\ i = 2 + InputCount(message)
    \/ stage = "outputs" /\ i = 2 + InputCount(message) + OutputCount(message)

\* A map, or what is behind the maps of a list, starts.
MapAhead(message, i) ==
    inner = "separator" /\ fields = {} /\ got = <<>> /\ Start = MapStart(message, i)

\* In pair p, which starts at place.
InPair(place, map, p) ==
    \/ inner = "key" /\ Start = place
    \/ /\ key = [type |-> p.type, data |-> p.data]
       /\ \/ /\ FieldOf(map, p.type) \in Framed[map]
             /\ inner = "length"
             /\ Start = place + Len(KeyItem(p))
          \/ /\ FieldOf(map, p.type) \in Framed[map]
             /\ inner = "value"
             /\ Start = place + Len(KeyItem(p)) + 1
             /\ declared = p.len /\ consumed = Len(got)
          \/ /\ FieldOf(map, p.type) \notin Framed[map]
             /\ inner = "value"
             /\ Start = place + Len(KeyItem(p))

\* Behind the first j pairs of map i.
InPairs(message, i, j) ==
    LET pairs == message.maps[i]
    IN  /\ j \in 0 .. Len(pairs)
        /\ fields = EntriesTo(NameAt(message, i), pairs, j)
        /\ \/ inner = "separator" /\ Start = PairStart(message, i, j)
           \/ /\ j < Len(pairs)
              /\ InPair(PairStart(message, i, j), NameAt(message, i), pairs[j + 1])

AtHead ==
    /\ \/ stage = "magic" /\ Start = 0
       \/ stage = "separator" /\ Start = 4
    /\ inner = "separator" /\ fields = {} /\ psbt = EmptyPsbt

InMaps(message) ==
    \E i \in Nat :
        /\ ReadTo(message, i)
        /\ IF AtListEnd(message, i) THEN MapAhead(message, i) /\ status = "running"
           ELSE \E j \in Nat : InPairs(message, i, j)

AtEnd(message) ==
    stage = "done" /\ psbt = Meaning(message) /\ pos = Extent(message) /\ got = <<>>

Place(message) ==
    /\ AtHead \/ InMaps(message) \/ AtEnd(message)
    /\ stage \notin {"magic", "separator", "global"} /\ format = 0 => tx = TxOfMessage(message)

\* Whoever waits for a call needs more than it has.
Waits ==
    /\ status \in {"waiting", "running", "ready", "ended"}
    /\ status = "ready" <=> stage = "done"
    /\ status \in {"waiting", "ended"} => pos = fed /\ ~ListDone /\ Len(got) < Need(got)

Given(message) ==
    /\ message \in MessageType
    /\ format = message.format /\ bytes = Bytes(message) /\ expected = Expected(message)

Decodes(message) == Given(message) /\ Held /\ Place(message) /\ Waits

-----------------------------------------------------------------------------
(* In the maps *)

LEMMA ListDoneAt ==
    ASSUME NEW message \in MessageType, stage # "global" => HasGlobal(message),
           format = message.format, NEW i, ReadTo(message, i),
           NEW n, n = InputCount(message), NEW k, k = OutputCount(message)
    PROVE  /\ ListDone <=> AtListEnd(message, i)
           /\ ~ListDone => InMap /\ Map = NameAt(message, i)
           /\ stage # "global" => n \in Nat /\ k \in Nat
<1>1. ASSUME stage # "global"
      PROVE  /\ n \in Nat /\ k \in Nat
             /\ ValueOf(Meaning(message).global, "input_count")[1] = n
             /\ ValueOf(Meaning(message).global, "output_count")[1] = k
  BY <1>1, GlobalCounts DEF HasGlobal
<1>2. CASE stage = "global"
  BY <1>2 DEF ReadTo, ListDone, AtListEnd, InMap, Map, Kind, NameAt
<1>3. CASE stage = "inputs"
  <2>0. n \in Nat /\ k \in Nat /\ ValueOf(Meaning(message).global, "input_count")[1] = n
    BY <1>1, <1>3
  <2>1. i \in 2 .. 2 + n /\ psbt = Psbt(message, ReadInputs(message, i - 2), <<>>)
    BY <1>3 DEF ReadTo
  <2>2. PICK c \in Nat : c = i - 2
    BY <2>0, <2>1
  <2>3. Len(psbt.inputs) = c /\ psbt.global = Meaning(message).global
    BY <2>1, <2>2, ListLengths DEF Psbt
  <2>4. ListDone <=> c = n
    BY <1>3, <2>0, <2>3 DEF ListDone
  <2>5. AtListEnd(message, i) <=> c = n
    BY <1>3, <2>0, <2>1, <2>2 DEF AtListEnd
  <2>6. c # n => i \in 2 .. 1 + n
    BY <2>0, <2>1, <2>2
  <2>7. i \in 2 .. 1 + n => NameAt(message, i) = MapName("input", message.format)
    BY <2>0 DEF NameAt
  <2>8. Map = MapName("input", message.format)
    BY <1>3 DEF Map, Kind
  <2>. QED  BY <1>3, <2>0, <2>4, <2>5, <2>6, <2>7, <2>8 DEF InMap
<1>4. CASE stage = "outputs"
  <2>0. n \in Nat /\ k \in Nat /\ ValueOf(Meaning(message).global, "output_count")[1] = k
    BY <1>1, <1>4
  <2>1. i \in 2 + n .. 2 + n + k /\ psbt = Psbt(message, Meaning(message).inputs, ReadOutputs(message, i - 2 - n))
    BY <1>4 DEF ReadTo
  <2>2. PICK c \in Nat : c = i - 2 - n
    BY <2>0, <2>1
  <2>3. Len(psbt.outputs) = c /\ psbt.global = Meaning(message).global
    BY <2>1, <2>2, ListLengths DEF Psbt
  <2>4. ListDone <=> c = k
    BY <1>4, <2>0, <2>3 DEF ListDone
  <2>5. AtListEnd(message, i) <=> c = k
    BY <1>4, <2>0, <2>1, <2>2 DEF AtListEnd
  <2>6. c # k => i \in 2 + n .. 1 + n + k
    BY <2>0, <2>1, <2>2
  <2>7. i \in 2 + n .. 1 + n + k => NameAt(message, i) = MapName("output", message.format)
    BY <2>0 DEF NameAt
  <2>8. Map = MapName("output", message.format)
    BY <1>4 DEF Map, Kind
  <2>. QED  BY <1>4, <2>0, <2>4, <2>5, <2>6, <2>7, <2>8 DEF InMap
<1>. QED  BY <1>2, <1>3, <1>4 DEF ReadTo

LEMMA ListDoneIs ==
    ASSUME NEW message \in MessageType, WellFormed(message), format = message.format,
           NEW i, ReadTo(message, i)
    PROVE  /\ ListDone <=> AtListEnd(message, i)
           /\ ~ListDone => /\ InMap /\ Map = NameAt(message, i)
                           /\ i \in 1 .. 1 + InputCount(message) + OutputCount(message)
<1>1. PICK n \in Nat, k \in Nat : n = InputCount(message) /\ k = OutputCount(message)
  BY MessageCounts
<1>2. HasGlobal(message)
  BY DEF WellFormed, HasGlobal
<1>3. (ListDone <=> AtListEnd(message, i)) /\ (~ListDone => InMap /\ Map = NameAt(message, i))
  BY <1>2, ListDoneAt
<1>4. ~AtListEnd(message, i) => i \in 1 .. 1 + n + k
  BY <1>1 DEF ReadTo, AtListEnd
<1>. QED  BY <1>1, <1>3, <1>4

\* Where pair j + 1 of map i stands, with its parts,
PairIsAt(message, i, j, p) ==
    LET place == PairStart(message, i, j)
    IN  /\ p \in PairType /\ PairOk(NameAt(message, i), p)
        /\ place \in Nat
        /\ Stands(KeyItem(p), Bytes(message), place)
        /\ Stands(LengthItem(p), Bytes(message), place + Len(KeyItem(p)))
        /\ Stands(ValueItem(p), Bytes(message), place + Len(KeyItem(p)))
        /\ Stands(p.value, Bytes(message), place + Len(KeyItem(p)) + 1)
        /\ PairStart(message, i, j + 1) = place + Len(KeyItem(p)) + Len(ValueItem(p))
        /\ PairStart(message, i, j + 1) < Extent(message)

\* and where map i ends.
MapEndsAt(message, i, place) ==
    /\ place \in Nat
    /\ Stands(<<EndOfMap>>, Bytes(message), place)
    /\ MapStart(message, i + 1) = place + 1
    /\ place + 1 <= Extent(message)

LEMMA PlacesOfMap ==
    ASSUME NEW message \in MessageType, WellFormed(message),
           NEW i \in 1 .. 1 + InputCount(message) + OutputCount(message),
           NEW pairs, pairs = message.maps[i]
    PROVE  /\ pairs \in Seq(PairType) /\ MapOk(NameAt(message, i), pairs)
           /\ PairStart(message, i, 0) = MapStart(message, i)
           /\ MapEndsAt(message, i, PairStart(message, i, Len(pairs)))
           /\ Extent(message) \in Nat
           /\ \A j \in 0 .. Len(pairs) - 1 : PairIsAt(message, i, j, pairs[j + 1])
<1>1. message.magic = PSBT_MAGIC /\ Bytes(message) \in Seq(Nat)
  BY BytesType DEF WellFormed
<1>2. PICK n \in Nat, k \in Nat : n = InputCount(message) /\ k = OutputCount(message) /\ 1 + n + k <= Len(message.maps)
  BY MessageCounts
<1>3. i \in 1 .. Len(message.maps) /\ pairs \in Seq(PairType) /\ MapOk(NameAt(message, i), pairs)
  BY MapsAreOk
<1>4. Extent(message) = MapStart(message, 2 + n + k)
  BY <1>1, <1>2, ExtentEnds
<1>5. /\ MapStart(message, i + 1) <= MapStart(message, 2 + n + k)
      /\ MapStart(message, i + 1) \in Nat /\ MapStart(message, 2 + n + k) \in Nat
  <2>1. PICK maps \in Nat : maps = Len(message.maps)
    BY DEF MessageType
  <2>2. i + 1 \in 1 .. maps + 1 /\ 2 + n + k \in i + 1 .. maps + 1
    <3>1. i \in Nat /\ i <= 1 + n + k /\ 1 + n + k <= maps
      BY <1>2, <2>1
    <3>. QED  BY <3>1
  <2>3. PICK last : last = 2 + n + k
    OBVIOUS
  <2>4. PICK next : next = i + 1
    OBVIOUS
  <2>5. next \in 1 .. Len(message.maps) + 1 /\ last \in next .. Len(message.maps) + 1
    BY <2>1, <2>2, <2>3, <2>4
  <2>6. /\ MapStart(message, next) <= MapStart(message, last)
        /\ MapStart(message, next) \in Nat /\ MapStart(message, last) \in Nat
    BY <2>5, MapsOrdered
  <2>. QED  BY <2>3, <2>4, <2>6
<1>6. PICK len \in Nat : len = Len(pairs)
  BY <1>3
<1>7. /\ PairStart(message, i, 0) = MapStart(message, i)
      /\ \A j \in 0 .. len : PairStart(message, i, j) \in Nat
      /\ \A j \in 1 .. len :
            /\ Stands(PairBytes(pairs[j]), Bytes(message), PairStart(message, i, j - 1))
            /\ PairStart(message, i, j) = PairStart(message, i, j - 1) + Len(PairBytes(pairs[j]))
      /\ Stands(<<EndOfMap>>, Bytes(message), PairStart(message, i, len))
      /\ MapStart(message, i + 1) = PairStart(message, i, len) + 1
  BY <1>1, <1>3, <1>6, PairStands
<1>8. MapEndsAt(message, i, PairStart(message, i, len))
  <2>1. PairStart(message, i, len) \in Nat
    BY <1>7
  <2>. QED  BY <1>4, <1>5, <1>7, <2>1 DEF MapEndsAt
<1>9. ASSUME NEW j \in 0 .. len - 1 PROVE PairIsAt(message, i, j, pairs[j + 1])
  <2>1. j + 1 \in 1 .. len /\ (j + 1) - 1 = j /\ j \in 0 .. len /\ j + 1 \in 0 .. len
    BY <1>6
  <2>2. PICK p : p = pairs[j + 1]
    OBVIOUS
  <2>3. p \in PairType /\ PairOk(NameAt(message, i), p)
    BY <1>3, <1>6, <2>1, <2>2 DEF MapOk
  <2>4. PICK place \in Nat : place = PairStart(message, i, j)
    BY <1>7, <2>1
  <2>5. /\ Stands(PairBytes(p), Bytes(message), place)
        /\ PairStart(message, i, j + 1) = place + Len(PairBytes(p))
    BY <1>7, <2>1, <2>2, <2>4
  <2>6. /\ Stands(KeyItem(p), Bytes(message), place)
        /\ Stands(LengthItem(p), Bytes(message), place + Len(KeyItem(p)))
        /\ Stands(ValueItem(p), Bytes(message), place + Len(KeyItem(p)))
        /\ Stands(p.value, Bytes(message), place + Len(KeyItem(p)) + 1)
        /\ Len(PairBytes(p)) = Len(KeyItem(p)) + Len(ValueItem(p))
    BY <1>1, <2>3, <2>4, <2>5, PairParts
  <2>7. PairStart(message, i, j + 1) <= PairStart(message, i, len)
    BY <1>1, <1>3, <1>6, <2>1, PairsOrdered
  <2>8. PairStart(message, i, j + 1) < Extent(message)
    <3>1. PairStart(message, i, j + 1) \in Nat /\ PairStart(message, i, len) \in Nat
      BY <1>7, <2>1
    <3>. QED  BY <1>4, <1>5, <1>7, <2>7, <3>1
  <2>9. PairStart(message, i, j + 1) = place + Len(KeyItem(p)) + Len(ValueItem(p))
    <3>1. Len(KeyItem(p)) \in Nat /\ Len(ValueItem(p)) \in Nat
      BY <2>3, PairItems
    <3>. QED  BY <2>5, <2>6, <3>1
  <2>. QED  BY <2>2, <2>3, <2>4, <2>6, <2>8, <2>9 DEF PairIsAt
<1>. QED  BY <1>3, <1>4, <1>5, <1>6, <1>7, <1>8, <1>9

LEMMA NeedIs ==
    ASSUME InMap
    PROVE  /\ inner = "separator" => \A seen : Need(seen) = 1
           /\ inner = "key" => \A seen : Need(seen) = PrefixedSize(seen)
           /\ inner = "length" => \A seen : Need(seen) = 1
           /\ inner = "value" /\ Field \in Framed[Map] => \A seen : Need(seen) = InnerSize(Field, seen)
           /\ inner = "value" /\ Field \notin Framed[Map] => \A seen : Need(seen) = BehindLength(Field, seen)
  BY DEF Need, InMap

LEMMA ByteFinds ==
    ASSUME NEW item \in Seq(Nat), Len(item) = 1, NEW seen \in Seq(Nat)
    PROVE  Finds(1, seen, item)
  BY DEF Finds

LEMMA FramedFields ==
    ASSUME NEW map \in MapNames, NEW f \in Framed[map]
    PROVE  f \notin {"tap_bip32_derivation", "tap_tree"}
  BY DEF Framed, MapNames, GlobalFramed, InputFramed, OutputFramed,
         GlobalFramed0, InputFramed0, OutputFramed0

-----------------------------------------------------------------------------
(* What is waited for *)

AwaitsIn(message, item) ==
    Awaits(item) /\ Len(item) \in Nat \ {0} /\ Start + Len(item) <= Extent(message)

LEMMA HeadAwaited ==
    ASSUME NEW message, Given(message), WellFormed(message), Held, AtHead
    PROVE  /\ stage = "magic" => AwaitsIn(message, PSBT_MAGIC)
           /\ stage = "separator" => AwaitsIn(message, <<PSBT_SEPARATOR>>)
           /\ MapStart(message, 1) = 5 /\ Extent(message) \in Nat
<1>1. message \in MessageType /\ bytes = Bytes(message) /\ message.magic = PSBT_MAGIC
        /\ message.separator = PSBT_SEPARATOR
  BY DEF Given, WellFormed
<1>2. MapStart(message, 1) = 5
  <2>1. PICK seqs \in Seq(Seq(Nat)) : seqs = MapSeqs(message.maps)
    BY <1>1, BytesType
  <2>2. Joined(seqs, 0) = <<>>
    BY JoinedStep
  <2>. QED  BY <2>1, <2>2 DEF MapStart
<1>3. PICK n \in Nat, k \in Nat : n = InputCount(message) /\ k = OutputCount(message) /\ 1 + n + k <= Len(message.maps)
  BY <1>1, MessageCounts
<1>4. 5 <= Extent(message) /\ Extent(message) \in Nat
  <2>1. Extent(message) = MapStart(message, 2 + n + k)
    BY <1>1, <1>3, ExtentEnds
  <2>2. Len(message.maps) \in Nat
    BY <1>1 DEF MessageType
  <2>3. 1 \in 1 .. Len(message.maps) + 1 /\ 2 + n + k \in 1 .. Len(message.maps) + 1
    BY <1>3, <2>2
  <2>4. MapStart(message, 1) <= MapStart(message, 2 + n + k) /\ MapStart(message, 2 + n + k) \in Nat
    BY <1>1, <2>3, MapsOrdered
  <2>. QED  BY <1>2, <2>1, <2>4
<1>5. PSBT_MAGIC \in Seq(Nat) /\ Len(PSBT_MAGIC) = 4 /\ <<PSBT_SEPARATOR>> \in Seq(Nat) /\ Len(<<PSBT_SEPARATOR>>) = 1
  BY DEF PSBT_MAGIC, PSBT_SEPARATOR
<1>6. Stands(PSBT_MAGIC, bytes, 0) /\ Stands(<<PSBT_SEPARATOR>>, bytes, 4)
  BY <1>1, HeadStands
<1>7. ASSUME stage = "magic" PROVE AwaitsIn(message, PSBT_MAGIC)
  <2>1. \A seen : Need(seen) = 4
    BY <1>7 DEF Need, AtHead
  <2>2. AsksFor(PSBT_MAGIC)
    BY <1>5, <2>1 DEF AsksFor, Finds
  <2>3. Start = 0
    BY <1>7 DEF AtHead
  <2>. QED  BY <1>4, <1>5, <1>6, <2>2, <2>3 DEF AwaitsIn, Awaits
<1>8. ASSUME stage = "separator" PROVE AwaitsIn(message, <<PSBT_SEPARATOR>>)
  <2>1. \A seen : Need(seen) = 1
    BY <1>8 DEF Need, AtHead
  <2>2. AsksFor(<<PSBT_SEPARATOR>>)
    BY <1>5, <2>1, ByteFinds DEF AsksFor
  <2>3. Start = 4
    BY <1>8 DEF AtHead
  <2>. QED  BY <1>4, <1>5, <1>6, <2>2, <2>3 DEF AwaitsIn, Awaits
<1>. QED  BY <1>2, <1>4, <1>7, <1>8

Reads(message, i, j) ==
    /\ Given(message) /\ WellFormed(message) /\ Held
    /\ i \in Nat /\ ReadTo(message, i) /\ ~ListDone
    /\ j \in Nat /\ InPairs(message, i, j)

LEMMA ReadsWhere ==
    ASSUME NEW message, NEW i, NEW j, Reads(message, i, j),
           NEW pairs, pairs = message.maps[i]
    PROVE  /\ message \in MessageType /\ bytes = Bytes(message) /\ format = message.format
           /\ InMap /\ Map = NameAt(message, i) /\ NameAt(message, i) \in MapNames
           /\ i \in 1 .. 1 + InputCount(message) + OutputCount(message)
           /\ pairs \in Seq(PairType) /\ MapOk(NameAt(message, i), pairs)
           /\ j \in 0 .. Len(pairs) /\ fields = EntriesTo(NameAt(message, i), pairs, j)
           /\ PairStart(message, i, 0) = MapStart(message, i)
           /\ MapEndsAt(message, i, PairStart(message, i, Len(pairs)))
           /\ j < Len(pairs) => PairIsAt(message, i, j, pairs[j + 1])
           /\ Extent(message) \in Nat
<1>1. message \in MessageType /\ WellFormed(message) /\ bytes = Bytes(message) /\ format = message.format
  BY DEF Reads, Given
<1>2. InMap /\ Map = NameAt(message, i) /\ i \in 1 .. 1 + InputCount(message) + OutputCount(message)
  BY <1>1, ListDoneIs DEF Reads
<1>3. /\ pairs \in Seq(PairType) /\ MapOk(NameAt(message, i), pairs)
      /\ PairStart(message, i, 0) = MapStart(message, i)
      /\ MapEndsAt(message, i, PairStart(message, i, Len(pairs)))
      /\ Extent(message) \in Nat
      /\ \A m \in 0 .. Len(pairs) - 1 : PairIsAt(message, i, m, pairs[m + 1])
  BY <1>1, <1>2, PlacesOfMap
<1>4. j \in 0 .. Len(pairs) /\ fields = EntriesTo(NameAt(message, i), pairs, j)
  BY DEF Reads, InPairs
<1>5. j < Len(pairs) => j \in 0 .. Len(pairs) - 1
  BY <1>3, <1>4
<1>6. j < Len(pairs) => PairIsAt(message, i, j, pairs[j + 1])
  BY <1>3, <1>5
<1>7. NameAt(message, i) \in MapNames
  BY <1>1, <1>2, MapsAreOk
<1>. QED  BY <1>1, <1>2, <1>3, <1>4, <1>6, <1>7

LEMMA ByteStands ==
    ASSUME NEW S, NEW item \in Seq(S), Len(item) = 1, NEW s \in Seq(S), NEW start \in Nat,
           start + 1 <= Len(s), s[start + 1] = item[1]
    PROVE  Stands(item, s, start)
  BY DEF Stands

LEMMA SeparatorAwaited ==
    ASSUME NEW message, NEW i, NEW j, Reads(message, i, j), inner = "separator",
           NEW pairs, pairs = message.maps[i]
    PROVE  /\ Start = PairStart(message, i, j)
           /\ j = Len(pairs) => AwaitsIn(message, <<EndOfMap>>)
           /\ j < Len(pairs) => AwaitsIn(message, <<1 + Len(pairs[j + 1].data)>>)
<1>1. Start = PairStart(message, i, j)
  BY DEF Reads, InPairs, InPair
<1>2. \A seen : Need(seen) = 1
  <2>1. InMap
    BY ReadsWhere
  <2>. QED  BY <2>1, NeedIs
<1>3. bytes = Bytes(message) /\ bytes \in Seq(Nat)
  BY ReadsWhere DEF Reads, Held
<1>4. ASSUME j = Len(pairs) PROVE AwaitsIn(message, <<EndOfMap>>)
  <2>1. <<EndOfMap>> \in Seq(Nat) /\ Len(<<EndOfMap>>) = 1
    BY DEF EndOfMap
  <2>2. AsksFor(<<EndOfMap>>)
    BY <1>2, <2>1, ByteFinds DEF AsksFor
  <2>3. Stands(<<EndOfMap>>, bytes, Start) /\ Start + 1 <= Extent(message)
    <3>1. MapEndsAt(message, i, PairStart(message, i, Len(pairs)))
      BY ReadsWhere
    <3>. QED  BY <1>1, <1>3, <1>4, <3>1 DEF MapEndsAt
  <2>. QED  BY <2>1, <2>2, <2>3 DEF AwaitsIn, Awaits
<1>5. ASSUME j < Len(pairs) PROVE AwaitsIn(message, <<1 + Len(pairs[j + 1].data)>>)
  <2>1. PICK p : p = pairs[j + 1]
    OBVIOUS
  <2>2. PairIsAt(message, i, j, p)
    BY <1>5, <2>1, ReadsWhere
  <2>3. p \in PairType /\ Stands(KeyItem(p), bytes, Start) /\ Start \in Nat
    BY <1>1, <1>3, <2>2 DEF PairIsAt
  <2>4. PICK x \in Nat : x = 1 + Len(p.data)
    BY <2>3 DEF PairType
  <2>5. KeyItem(p) \in Seq(Nat) /\ Len(KeyItem(p)) = 1 + x /\ KeyItem(p)[1] = x /\ x >= 1
    <3>1. Len(p.data) \in Nat
      BY <2>3 DEF PairType
    <3>. QED  BY <2>3, <2>4, <3>1, PairItems
  <2>6. <<x>> \in Seq(Nat) /\ Len(<<x>>) = 1 /\ <<x>>[1] = x
    OBVIOUS
  <2>7. Stands(<<x>>, bytes, Start)
    <3>1. Start + Len(KeyItem(p)) <= Len(bytes) /\ bytes[Start + 1] = x
      BY <2>3, <2>5 DEF Stands
    <3>2. Start + 1 <= Len(bytes)
      BY <1>3, <2>3, <2>4, <2>5, <3>1
    <3>. QED  BY <1>3, <2>3, <2>6, <3>1, <3>2, ByteStands
  <2>8. AsksFor(<<x>>)
    BY <1>2, <2>6, ByteFinds DEF AsksFor
  <2>9. Start + 1 <= Extent(message)
    <3>1. PairStart(message, i, j + 1) = Start + Len(KeyItem(p)) + Len(ValueItem(p))
             /\ PairStart(message, i, j + 1) < Extent(message) /\ Len(ValueItem(p)) \in Nat
      BY <1>1, <2>2, PairItems DEF PairIsAt
    <3>2. Extent(message) \in Nat
      BY ReadsWhere
    <3>. QED  BY <2>3, <2>5, <3>1, <3>2
  <2>. QED  BY <2>1, <2>4, <2>6, <2>7, <2>8, <2>9 DEF AwaitsIn, Awaits
<1>. QED  BY <1>1, <1>4, <1>5

LEMMA PairAwaited ==
    ASSUME NEW message, NEW i, NEW j, Reads(message, i, j), inner # "separator",
           NEW pairs, pairs = message.maps[i], NEW p, p = pairs[j + 1]
    PROVE  /\ j < Len(pairs) /\ PairIsAt(message, i, j, p)
           /\ inner \in {"key", "length", "value"}
           /\ inner = "key" => AwaitsIn(message, KeyItem(p)) /\ Start = PairStart(message, i, j)
           /\ inner # "key" =>
                /\ key = [type |-> p.type, data |-> p.data]
                /\ Field = FieldOf(Map, p.type)
           /\ inner = "length" => /\ AwaitsIn(message, LengthItem(p)) /\ Field \in Framed[Map]
                                  /\ Start = PairStart(message, i, j) + Len(KeyItem(p))
           /\ inner = "value" /\ Field \in Framed[Map] =>
                /\ AwaitsIn(message, p.value) /\ declared = p.len /\ consumed = Len(got)
                /\ Start + Len(p.value) = PairStart(message, i, j + 1)
           /\ inner = "value" /\ Field \notin Framed[Map] =>
                /\ AwaitsIn(message, ValueItem(p))
                /\ Start + Len(ValueItem(p)) = PairStart(message, i, j + 1)
<1>1. /\ j < Len(pairs) /\ PairIsAt(message, i, j, p)
      /\ InPair(PairStart(message, i, j), Map, p)
      /\ InMap /\ Map = NameAt(message, i) /\ Map \in MapNames
      /\ bytes = Bytes(message) /\ bytes \in Seq(Nat) /\ Extent(message) \in Nat
  <2>1. j < Len(pairs) /\ InPair(PairStart(message, i, j), NameAt(message, i), p)
    BY DEF Reads, InPairs
  <2>. QED  BY <2>1, ReadsWhere DEF Reads, Held
<1>2. PICK place \in Nat : place = PairStart(message, i, j)
  BY <1>1 DEF PairIsAt
<1>3. p \in PairType /\ PairOk(Map, p) /\ p.value \in Seq(Nat) /\ p.len = Len(p.value)
  BY <1>1 DEF PairIsAt, PairType, PairOk
<1>4. PICK a \in Nat : a = Len(KeyItem(p)) /\ a >= 2
  <2>1. PICK d \in Nat : d = Len(p.data)
    BY <1>3 DEF PairType
  <2>2. Len(KeyItem(p)) = 2 + d
    BY <1>3, <2>1, PairItems
  <2>. QED  BY <2>2
<1>5. PICK b \in Nat : b = Len(p.value)
  BY <1>3
<1>6. PICK c \in Nat : c = Extent(message)
  BY <1>1
<1>7. Len(ValueItem(p)) = 1 + b /\ Len(LengthItem(p)) = 1
  BY <1>3, <1>5, PairItems
<1>8. a = Len(KeyItem(p)) /\ b = Len(p.value) /\ c = Extent(message) /\ a >= 2
        /\ Len(ValueItem(p)) = 1 + b /\ Len(LengthItem(p)) = 1
  BY <1>4, <1>5, <1>6, <1>7
<1>9. /\ Stands(KeyItem(p), bytes, place) /\ Stands(LengthItem(p), bytes, place + a)
      /\ Stands(ValueItem(p), bytes, place + a) /\ Stands(p.value, bytes, place + a + 1)
  BY <1>1, <1>2, <1>8 DEF PairIsAt
<1>10. PairStart(message, i, j + 1) = place + a + (1 + b) /\ place + a + (1 + b) < c
  BY <1>1, <1>2, <1>8 DEF PairIsAt
<1>11. /\ place + a <= c /\ (place + a) + 1 <= c
       /\ (place + a + 1) + b = place + a + (1 + b) /\ (place + a + 1) + b <= c
       /\ (place + a) + (1 + b) = place + a + (1 + b) /\ (place + a) + (1 + b) <= c
       /\ 1 + b \in Nat \ {0} /\ a \in Nat \ {0}
  <2>1. place + a + (1 + b) < c /\ a >= 2
    BY <1>8, <1>10
  <2>. QED  BY <2>1
<1>12. KeyItem(p) \in Seq(Nat) /\ LengthItem(p) \in Seq(Nat) /\ ValueItem(p) \in Seq(Nat)
  BY <1>3, PairItems
<1>13. inner # "key" => /\ key = [type |-> p.type, data |-> p.data]
                       /\ Field = FieldOf(Map, p.type)
  BY <1>1 DEF InPair, Field
<1>14. ASSUME inner = "key" PROVE AwaitsIn(message, KeyItem(p)) /\ Start = place
  <2>1. Start = place
    BY <1>1, <1>2, <1>14 DEF InPair
  <2>2. AsksFor(KeyItem(p))
    BY <1>1, <1>3, <1>14, NeedIs, KeyFinds DEF AsksFor
  <2>3. Start + Len(KeyItem(p)) <= Extent(message) /\ Len(KeyItem(p)) \in Nat \ {0}
    BY <1>8, <1>11, <2>1
  <2>. QED  BY <1>8, <1>9, <1>12, <2>1, <2>2, <2>3 DEF AwaitsIn, Awaits
<1>15. ASSUME inner = "length"
       PROVE  AwaitsIn(message, LengthItem(p)) /\ Field \in Framed[Map] /\ Start = place + a
  <2>1. Start = place + a /\ Field \in Framed[Map]
    BY <1>1, <1>2, <1>8, <1>13, <1>15 DEF InPair
  <2>2. \A seen : Need(seen) = 1
    BY <1>1, <1>15, NeedIs
  <2>3. AsksFor(LengthItem(p))
    BY <1>8, <1>12, <2>2, ByteFinds DEF AsksFor
  <2>4. Stands(LengthItem(p), bytes, Start)
    BY <1>9, <2>1
  <2>5. Start + Len(LengthItem(p)) <= Extent(message) /\ Len(LengthItem(p)) \in Nat \ {0}
    BY <1>8, <1>10, <1>11, <2>1
  <2>. QED  BY <1>12, <2>1, <2>3, <2>4, <2>5 DEF AwaitsIn, Awaits
<1>16. ASSUME inner = "value", Field \in Framed[Map]
       PROVE  /\ AwaitsIn(message, p.value) /\ declared = p.len /\ consumed = Len(got)
              /\ Start + Len(p.value) = PairStart(message, i, j + 1)
  <2>1. Start = place + a + 1 /\ declared = p.len /\ consumed = Len(got)
    BY <1>1, <1>2, <1>8, <1>13, <1>16 DEF InPair
  <2>2. Len(p.value) = InnerSize(Field, p.value)
    BY <1>3, <1>13, <1>16 DEF PairOk
  <2>3. AsksFor(p.value)
    <3>1. \A seen : Need(seen) = InnerSize(Field, seen)
      BY <1>1, <1>16, NeedIs
    <3>2. PICK f : f = Field
      OBVIOUS
    <3>3. \A seen \in Seq(Nat) : Agree(seen, p.value) => Finds(InnerSize(f, seen), seen, p.value)
      BY <1>3, <2>2, <3>2, FramedFinds
    <3>. QED  BY <3>1, <3>2, <3>3 DEF AsksFor
  <2>4. Len(p.value) \in Nat \ {0}
    <3>1. PICK f : f = Field
      OBVIOUS
    <3>. QED  BY <1>3, <2>2, <3>1, InnerSizePositive
  <2>5. Stands(p.value, bytes, Start)
    BY <1>9, <2>1
  <2>6. Start + Len(p.value) <= Extent(message) /\ Start + Len(p.value) = PairStart(message, i, j + 1)
    BY <1>8, <1>10, <1>11, <2>1
  <2>. QED  BY <1>3, <2>1, <2>3, <2>4, <2>5, <2>6 DEF AwaitsIn, Awaits
<1>17. ASSUME inner = "value", Field \notin Framed[Map]
       PROVE  /\ AwaitsIn(message, ValueItem(p))
              /\ Start + Len(ValueItem(p)) = PairStart(message, i, j + 1)
  <2>1. Start = place + a
    BY <1>1, <1>2, <1>8, <1>13, <1>17 DEF InPair
  <2>2. PICK f : f = Field
    OBVIOUS
  <2>3. /\ ~LengthRefused(f, Len(p.value))
        /\ f = "tap_bip32_derivation" => OriginDecodes(p.value)
    BY <1>3, <1>13, <1>17, <2>2 DEF PairOk
  <2>4. ValueItem(p) = <<Len(p.value)>> \o p.value
    BY <1>3 DEF ValueItem, LengthItem
  <2>5. \A seen \in Seq(Nat) : Agree(seen, ValueItem(p)) => Finds(BehindLength(f, seen), seen, ValueItem(p))
    BY <1>3, <1>12, <2>3, <2>4, BehindLengthFinds
  <2>6. AsksFor(ValueItem(p))
    BY <1>1, <1>17, <2>2, <2>5, NeedIs DEF AsksFor
  <2>7. Stands(ValueItem(p), bytes, Start)
    BY <1>9, <2>1
  <2>8. /\ Start + Len(ValueItem(p)) <= Extent(message) /\ Len(ValueItem(p)) \in Nat \ {0}
        /\ Start + Len(ValueItem(p)) = PairStart(message, i, j + 1)
    BY <1>8, <1>10, <1>11, <2>1
  <2>. QED  BY <1>12, <2>6, <2>7, <2>8 DEF AwaitsIn, Awaits
<1>18. inner \in {"key", "length", "value"}
  BY <1>1 DEF InPair
<1>. QED  BY <1>1, <1>2, <1>8, <1>13, <1>14, <1>15, <1>16, <1>17, <1>18

\* Whenever the decoder reads, it waits for an item of the message.
LEMMA SomethingAwaited ==
    ASSUME NEW message, Decodes(message), WellFormed(message), stage # "done", ~ListDone
    PROVE  \E item : AwaitsIn(message, item)
<1>1. CASE AtHead
  <2>1. stage \in {"magic", "separator"}
    BY <1>1 DEF AtHead
  <2>. QED  BY <1>1, <2>1, HeadAwaited DEF Decodes
<1>2. CASE InMaps(message)
  <2>1. PICK i \in Nat :
            /\ ReadTo(message, i)
            /\ IF AtListEnd(message, i) THEN MapAhead(message, i) /\ status = "running"
               ELSE \E j \in Nat : InPairs(message, i, j)
    BY <1>2 DEF InMaps
  <2>2. ~AtListEnd(message, i)
    BY <2>1, ListDoneIs DEF Decodes, Given
  <2>3. PICK j \in Nat : InPairs(message, i, j)
    BY <2>1, <2>2
  <2>4. Reads(message, i, j)
    BY <2>1, <2>3 DEF Reads, Decodes
  <2>5. j = Len(message.maps[i]) \/ j < Len(message.maps[i])
    <3>1. j \in 0 .. Len(message.maps[i]) /\ message.maps[i] \in Seq(PairType)
      BY <2>4, ReadsWhere
    <3>. QED  BY <3>1
  <2>6. CASE inner = "separator"
    BY <2>4, <2>5, <2>6, SeparatorAwaited
  <2>7. CASE inner # "separator"
    BY <2>4, <2>7, PairAwaited
  <2>. QED  BY <2>6, <2>7
<1>3. ~AtEnd(message)
  BY DEF AtEnd
<1>. QED  BY <1>1, <1>2, <1>3 DEF Decodes, Place

-----------------------------------------------------------------------------
(* The turns of push_bytes *)

\* The place of a state that differs in nothing a place is made of.
LEMMA SamePlace ==
    ASSUME NEW message, Given(message), Place(message), stage # "done", ~ListDone,
           WellFormed(message),
           UNCHANGED <<given, reading>>, Start' = Start,
           consumed = Len(got) /\ InMap /\ inner = "value" /\ Field \in Framed[Map]
               => consumed' = Len(got')
    PROVE  Given(message)' /\ Place(message)' /\ ListDone' = ListDone
<1>1. /\ format' = format /\ expected' = expected /\ bytes' = bytes
      /\ stage' = stage /\ inner' = inner /\ declared' = declared /\ key' = key
      /\ fields' = fields /\ tx' = tx /\ psbt' = psbt
  BY DEF given, reading
<1>2. Given(message)'
  BY <1>1 DEF Given
<1>3. ListDone' = ListDone
  BY <1>1 DEF ListDone
<1>4. CASE AtHead
  <2>1. AtHead'
    BY <1>1, <1>4 DEF AtHead
  <2>2. stage \in {"magic", "separator"}
    BY <1>4 DEF AtHead
  <2>. QED  BY <1>1, <1>2, <1>3, <2>1, <2>2 DEF Place
<1>5. CASE InMaps(message)
  <2>1. PICK i \in Nat :
            /\ ReadTo(message, i)
            /\ IF AtListEnd(message, i) THEN MapAhead(message, i) /\ status = "running"
               ELSE \E j \in Nat : InPairs(message, i, j)
    BY <1>5 DEF InMaps
  <2>2. /\ ~AtListEnd(message, i) /\ InMap /\ Map = NameAt(message, i)
    BY <2>1, ListDoneIs DEF Given
  <2>3. PICK j \in Nat : InPairs(message, i, j)
    BY <2>1, <2>2
  <2>4. ReadTo(message, i)' /\ ~AtListEnd(message, i)'
    BY <1>1, <2>1, <2>2 DEF ReadTo, AtListEnd
  <2>5. InPairs(message, i, j)'
    <3>1. CASE inner = "separator" /\ Start = PairStart(message, i, j)
      BY <1>1, <2>3, <3>1 DEF InPairs
    <3>2. CASE /\ j < Len(message.maps[i])
               /\ InPair(PairStart(message, i, j), NameAt(message, i), message.maps[i][j + 1])
      <4>1. PICK p : p = message.maps[i][j + 1]
        OBVIOUS
      <4>2. PICK place : place = PairStart(message, i, j)
        OBVIOUS
      <4>3. InPair(place, NameAt(message, i), p)
        BY <3>2, <4>1, <4>2
      <4>4. key = [type |-> p.type, data |-> p.data] => Field = FieldOf(NameAt(message, i), p.type)
        BY <2>2 DEF Field
      <4>5. InPair(place, NameAt(message, i), p)'
        BY <1>1, <2>2, <4>3, <4>4 DEF InPair
      <4>. QED  BY <1>1, <2>3, <3>2, <4>1, <4>2, <4>5 DEF InPairs
    <3>. QED  BY <2>3, <3>1, <3>2 DEF InPairs
  <2>6. InMaps(message)'
    BY <2>4, <2>5 DEF InMaps
  <2>. QED  BY <1>1, <1>2, <1>3, <1>5, <2>6 DEF Place
<1>6. ~AtEnd(message)
  BY DEF AtEnd
<1>. QED  BY <1>4, <1>5, <1>6 DEF Place

LEMMA NeedsMoreDecodes ==
    ASSUME NEW message, Decodes(message), WellFormed(message), NeedsMore
    PROVE  Decodes(message)'
<1>1. Given(message) /\ Held /\ Place(message) /\ stage # "done" /\ ~ListDone
  BY DEF Decodes, NeedsMore
<1>2. /\ Held' /\ Start' = Start /\ pos' = fed' /\ got' = Seen
  BY <1>1, NeedsMoreStays
<1>3. UNCHANGED <<given, reading>> /\ status' = "waiting" /\ consumed' = CountConsumed /\ fed' = fed
  BY DEF NeedsMore
<1>4. Start = pos - Len(got) /\ Len(Seen) = fed - Start /\ Seen \in Seq(Nat) /\ Start \in Nat
        /\ pos \in Nat /\ fed \in Nat /\ Len(got) \in Nat /\ Stands(Seen, bytes, Start)
  BY <1>1, SeenStands DEF Held, Start
<1>5. consumed = Len(got) /\ InMap /\ inner = "value" /\ Field \in Framed[Map]
               => consumed' = Len(got')
  BY <1>2, <1>3, <1>4 DEF CountConsumed
<1>6. Given(message)' /\ Place(message)' /\ ListDone' = ListDone
  BY <1>1, <1>2, <1>3, <1>5, SamePlace
<1>7. Len(Seen) < Need(Seen)
  <2>1. PICK item : AwaitsIn(message, item)
    BY <1>1, SomethingAwaited
  <2>2. Awaits(item) /\ item \in Seq(Nat) /\ bytes \in Seq(Nat)
    BY <1>1, <2>1 DEF AwaitsIn, Awaits, Held
  <2>3. Agree(Seen, item)
    BY <1>4, <2>2, StandersAgree DEF Awaits
  <2>4. Finds(Need(Seen), Seen, item)
    BY <1>4, <2>2, <2>3 DEF Awaits, AsksFor
  <2>5. ~(Len(Seen) >= Need(Seen))
    BY DEF NeedsMore, Complete
  <2>. QED  BY <1>4, <2>2, <2>4, <2>5 DEF Finds
<1>8. Need(got)' = Need(Seen)
  <2>1. /\ format' = format /\ stage' = stage /\ inner' = inner /\ key' = key
    BY <1>3 DEF given, reading
  <2>2. Field' = Field /\ Map' = Map
    BY <2>1 DEF Field, Map, Kind
  <2>. QED  BY <1>2, <2>1, <2>2 DEF Need
<1>9. Waits'
  <2>1. stage' # "done"
    BY <1>1, <1>3 DEF reading
  <2>. QED  BY <1>1, <1>2, <1>3, <1>6, <1>7, <1>8, <2>1 DEF Waits
<1>. QED  BY <1>2, <1>6, <1>9 DEF Decodes

LEMMA PushDecodes ==
    ASSUME NEW message, Decodes(message), WellFormed(message), NEW n \in Chunks, Push(n)
    PROVE  Decodes(message)'
<1>1. Given(message) /\ Held /\ Place(message) /\ stage # "done" /\ ~ListDone
  BY DEF Decodes, Push, Waits
<1>2. UNCHANGED <<given, reading>> /\ status' = "running" /\ pos' = pos /\ got' = got
        /\ consumed' = consumed
  BY DEF Push, taking
<1>3. Start' = Start
  BY <1>2 DEF Start
<1>4. Given(message)' /\ Place(message)' /\ ListDone' = ListDone
  BY <1>1, <1>2, <1>3, SamePlace
<1>5. Held'
  <2>1. bytes \in Seq(Nat) /\ bytes' = bytes /\ n \in Nat /\ fed \in Nat /\ fed <= Len(bytes)
          /\ pos \in Nat /\ pos <= fed
    BY <1>1, <1>2, DecoderAssumption DEF Held, given
  <2>2. fed' \in Nat /\ fed <= fed' /\ fed' <= Len(bytes)
    BY <2>1 DEF Push
  <2>3. pos <= fed'
    BY <2>1, <2>2
  <2>. QED  BY <1>1, <1>2, <1>3, <2>1, <2>2, <2>3 DEF Held
<1>6. Waits'
  <2>1. stage' # "done"
    BY <1>1, <1>2 DEF reading
  <2>. QED  BY <1>2, <2>1 DEF Waits
<1>. QED  BY <1>4, <1>5, <1>6 DEF Decodes

LEMMA EndDecodes ==
    ASSUME NEW message, Decodes(message), WellFormed(message), End
    PROVE  Decodes(message)'
<1>1. Given(message) /\ Held /\ Place(message) /\ Waits /\ status = "waiting"
        /\ stage # "done" /\ ~ListDone
  BY DEF Decodes, End, Waits
<1>2. UNCHANGED <<given, reading>> /\ status' = "ended" /\ pos' = pos /\ got' = got
        /\ consumed' = consumed /\ fed' = fed
  BY DEF End, taking
<1>3. Start' = Start
  BY <1>2 DEF Start
<1>4. Given(message)' /\ Place(message)' /\ ListDone' = ListDone
  BY <1>1, <1>2, <1>3, SamePlace
<1>5. Held'
  BY <1>1, <1>2, <1>3 DEF Held, given
<1>6. Waits'
  <2>1. /\ format' = format /\ stage' = stage /\ inner' = inner /\ key' = key
    BY <1>2 DEF given, reading
  <2>2. Field' = Field /\ Map' = Map
    BY <2>1 DEF Field, Map, Kind
  <2>3. Need(got)' = Need(got)
    BY <1>2, <2>1, <2>2 DEF Need
  <2>. QED  BY <1>1, <1>2, <1>4, <2>1, <2>3 DEF Waits
<1>. QED  BY <1>4, <1>5, <1>6 DEF Decodes

\* A map that is next begins, or the list is complete.
LEMMA MapBegins ==
    ASSUME NEW message \in MessageType, WellFormed(message), format' = message.format,
           NEW i \in Nat, ReadTo(message, i)', MapAhead(message, i)', status' = "running"
    PROVE  InMaps(message)'
<1>1. CASE AtListEnd(message, i)'
  BY <1>1 DEF InMaps
<1>2. CASE ~AtListEnd(message, i)'
  <2>1. PICK n \in Nat, k \in Nat : n = InputCount(message) /\ k = OutputCount(message)
    BY MessageCounts
  <2>2. i \in 1 .. 1 + n + k
    <3>1. \/ i = 1
          \/ i \in 2 .. 2 + n /\ i # 2 + n
          \/ i \in 2 + n .. 2 + n + k /\ i # 2 + n + k
      BY <1>2, <2>1 DEF ReadTo, AtListEnd
    <3>. QED  BY <3>1
  <2>3. PICK pairs : pairs = message.maps[i]
    OBVIOUS
  <2>4. pairs \in Seq(PairType) /\ PairStart(message, i, 0) = MapStart(message, i)
    BY <2>1, <2>2, <2>3, PlacesOfMap
  <2>5. EntriesTo(NameAt(message, i), pairs, 0) = {} /\ 0 \in 0 .. Len(pairs)
    BY <2>4, EntriesGrow
  <2>6. InPairs(message, i, 0)'
    BY <2>3, <2>4, <2>5 DEF InPairs, MapAhead
  <2>. QED  BY <1>2, <2>6 DEF InMaps
<1>. QED  BY <1>1, <1>2

LEMMA MagicDecodes ==
    ASSUME NEW message, Decodes(message), WellFormed(message), EndMagic
    PROVE  Decodes(message)'
<1>1. Given(message) /\ Held /\ stage = "magic" /\ Take /\ status = "running"
  BY DEF Decodes, EndMagic, Take, Running
<1>2. AtHead
  BY <1>1 DEF Decodes, Place, AtEnd, InMaps, ReadTo
<1>3. AwaitsIn(message, PSBT_MAGIC)
  BY <1>1, <1>2, HeadAwaited DEF Decodes
<1>4. Item = PSBT_MAGIC /\ Held' /\ Start' = Start + Len(PSBT_MAGIC) /\ got' = <<>>
  BY <1>1, <1>3, TakeMoves DEF AwaitsIn
<1>5. stage' = "separator" /\ UNCHANGED <<status, consumed, inner, declared, key, fields, tx, psbt>>
        /\ UNCHANGED given
  BY <1>1, <1>4 DEF EndMagic, Take
<1>6. Start' = 4
  BY <1>1, <1>2, <1>4 DEF AtHead, PSBT_MAGIC
<1>7. AtHead' /\ Place(message)'
  BY <1>2, <1>5, <1>6 DEF AtHead, Place
<1>8. Waits'
  BY <1>1, <1>5 DEF Waits
<1>9. Given(message)'
  BY <1>1, <1>5 DEF Given, given
<1>. QED  BY <1>4, <1>7, <1>8, <1>9 DEF Decodes

LEMMA SeparatorDecodes ==
    ASSUME NEW message, Decodes(message), WellFormed(message), EndSeparator
    PROVE  Decodes(message)'
<1>1. Given(message) /\ Held /\ stage = "separator" /\ Take /\ status = "running"
        /\ message \in MessageType
  BY DEF Decodes, EndSeparator, Take, Running, Given
<1>2. AtHead
  BY <1>1 DEF Decodes, Place, AtEnd, InMaps, ReadTo
<1>3. AwaitsIn(message, <<PSBT_SEPARATOR>>) /\ MapStart(message, 1) = 5
  BY <1>1, <1>2, HeadAwaited DEF Decodes
<1>4. Item = <<PSBT_SEPARATOR>> /\ Held' /\ Start' = Start + 1 /\ got' = <<>>
  <2>1. PICK item : item = <<PSBT_SEPARATOR>>
    OBVIOUS
  <2>2. Len(item) = 1 /\ Awaits(item)
    BY <1>3, <2>1 DEF AwaitsIn
  <2>3. Item = item /\ Held' /\ Start' = Start + Len(item) /\ got' = <<>>
    BY <1>1, <2>2, TakeMoves
  <2>. QED  BY <2>1, <2>2, <2>3
<1>5. stage' = "global" /\ UNCHANGED <<status, consumed, inner, declared, key, fields, tx, psbt>>
        /\ UNCHANGED given
  BY <1>1, <1>4 DEF EndSeparator, Take
<1>6. Start' = 5
  BY <1>1, <1>2, <1>4 DEF AtHead
<1>7. Given(message)'
  BY <1>1, <1>5 DEF Given, given
<1>8. InMaps(message)'
  <2>1. ReadTo(message, 1)' /\ MapAhead(message, 1)'
    BY <1>2, <1>3, <1>4, <1>5, <1>6 DEF AtHead, ReadTo, MapAhead
  <2>. QED  BY <1>1, <1>5, <1>7, <2>1, MapBegins DEF Given
<1>9. Waits'
  BY <1>1, <1>5 DEF Waits
<1>. QED  BY <1>4, <1>5, <1>8, <1>9, <1>7 DEF Decodes, Place

\* Whoever decodes a map is behind some of its pairs.
LEMMA ReadsSome ==
    ASSUME NEW message, Decodes(message), WellFormed(message), InMap
    PROVE  \E i, j \in Nat : Reads(message, i, j)
<1>1. InMaps(message)
  BY DEF Decodes, Place, AtHead, AtEnd, InMap
<1>2. PICK i \in Nat :
          /\ ReadTo(message, i)
          /\ IF AtListEnd(message, i) THEN MapAhead(message, i) /\ status = "running"
             ELSE \E j \in Nat : InPairs(message, i, j)
  BY <1>1 DEF InMaps
<1>3. ~ListDone /\ ~AtListEnd(message, i)
  BY <1>2, ListDoneIs DEF Decodes, Given, InMap
<1>4. PICK j \in Nat : InPairs(message, i, j)
  BY <1>2, <1>3
<1>5. Reads(message, i, j)
  BY <1>2, <1>3, <1>4 DEF Reads, Decodes
<1>. QED  BY <1>5

\* A turn that stays in a map: it only has to say where in its pairs.
LEMMA StaysInMap ==
    ASSUME NEW message, Decodes(message), WellFormed(message),
           NEW i, NEW j, Reads(message, i, j), status = "running",
           UNCHANGED <<given, status, stage, tx, psbt>>, Held',
           NEW k \in Nat, InPairs(message, i, k)'
    PROVE  Decodes(message)'
<1>1. Given(message)'
  BY DEF Given, given, Decodes
<1>2. ReadTo(message, i)' /\ ~AtListEnd(message, i)' /\ i \in Nat /\ InMap
  <2>1. ReadTo(message, i) /\ ~AtListEnd(message, i) /\ i \in Nat
    BY ListDoneIs DEF Reads, Decodes, Given
  <2>. QED  BY <2>1, ReadsWhere DEF ReadTo, AtListEnd
<1>3. InMaps(message)'
  BY <1>2 DEF InMaps
<1>4. Waits'
  BY <1>2 DEF Waits, InMap
<1>5. Place(message)'
  BY <1>3 DEF Place, Decodes, given
<1>. QED  BY <1>1, <1>4, <1>5 DEF Decodes

LEMMA StartKeyDecodes ==
    ASSUME NEW message, Decodes(message), WellFormed(message), StartKey
    PROVE  Decodes(message)'
<1>1. InMap /\ inner = "separator" /\ Complete /\ Item # <<EndOfMap>> /\ Held /\ status = "running"
  BY DEF StartKey, Decodes, Running
<1>2. PICK i, j \in Nat : Reads(message, i, j)
  BY <1>1, ReadsSome
<1>3. PICK pairs : pairs = message.maps[i]
  OBVIOUS
<1>4. /\ Start = PairStart(message, i, j)
      /\ j = Len(pairs) => AwaitsIn(message, <<EndOfMap>>)
  BY <1>1, <1>2, <1>3, SeparatorAwaited
<1>5. j # Len(pairs)
  <2>1. ~Awaits(<<EndOfMap>>)
    BY <1>1, TakesItem
  <2>. QED  BY <1>4, <2>1 DEF AwaitsIn
<1>6. j \in 0 .. Len(pairs) /\ j < Len(pairs)
  BY <1>2, <1>3, <1>5 DEF Reads, InPairs
<1>7. /\ inner' = "key" /\ UNCHANGED <<given, status, stage, tx, psbt>>
      /\ fields' = fields /\ pos' = pos /\ got' = got /\ fed' = fed
  BY DEF StartKey, taking
<1>8. Start' = Start /\ Held'
  BY <1>1, <1>7 DEF Start, Held, given
<1>9. InPairs(message, i, j)'
  <2>1. InPair(PairStart(message, i, j), NameAt(message, i), pairs[j + 1])'
    BY <1>4, <1>7, <1>8 DEF InPair
  <2>2. fields = EntriesTo(NameAt(message, i), message.maps[i], j)
    BY <1>2 DEF Reads, InPairs
  <2>. QED  BY <1>3, <1>6, <1>7, <2>1, <2>2 DEF InPairs
<1>. QED  BY <1>1, <1>2, <1>7, <1>8, <1>9, StaysInMap

LEMMA EndKeyDecodes ==
    ASSUME NEW message, Decodes(message), WellFormed(message), EndKey
    PROVE  Decodes(message)'
<1>1. InMap /\ inner = "key" /\ Take /\ Held /\ status = "running" /\ UNCHANGED given
  BY DEF EndKey, Decodes, Running, Take
<1>2. PICK i, j \in Nat : Reads(message, i, j)
  BY <1>1, ReadsSome
<1>3. PICK pairs : pairs = message.maps[i]
  OBVIOUS
<1>4. PICK p : p = pairs[j + 1]
  OBVIOUS
<1>5. /\ j < Len(pairs) /\ PairIsAt(message, i, j, p) /\ AwaitsIn(message, KeyItem(p))
      /\ Start = PairStart(message, i, j) /\ Map = NameAt(message, i)
  BY <1>1, <1>2, <1>3, <1>4, PairAwaited, ReadsWhere
<1>6. PICK item : item = KeyItem(p)
  OBVIOUS
<1>7. Item = item /\ Held' /\ got' = <<>> /\ Start' = Start + Len(item)
  BY <1>1, <1>5, <1>6, TakeMoves DEF AwaitsIn
<1>8. item[2] = p.type /\ SubSeq(item, 3, Len(item)) = p.data /\ ~KeyRefused(Map, FieldOf(Map, p.type), p.data)
  BY <1>5, <1>6, PairItems DEF PairIsAt, PairOk
<1>9. /\ key' = [type |-> p.type, data |-> p.data]
      /\ inner' = IF FieldOf(Map, p.type) \in Framed[Map] THEN "length" ELSE "value"
      /\ UNCHANGED <<status, consumed, stage, declared, fields, tx, psbt>>
  BY <1>7, <1>8 DEF EndKey
<1>10. InPairs(message, i, j)'
  <2>1. InPair(PairStart(message, i, j), NameAt(message, i), p)'
    BY <1>5, <1>6, <1>7, <1>9 DEF InPair
  <2>2. fields = EntriesTo(NameAt(message, i), message.maps[i], j) /\ j \in 0 .. Len(pairs)
    BY <1>2, <1>3 DEF Reads, InPairs
  <2>. QED  BY <1>3, <1>4, <1>5, <1>9, <2>1, <2>2 DEF InPairs
<1>. QED  BY <1>1, <1>2, <1>7, <1>9, <1>10, StaysInMap

LEMMA EndLengthDecodes ==
    ASSUME NEW message, Decodes(message), WellFormed(message), EndLength
    PROVE  Decodes(message)'
<1>1. InMap /\ inner = "length" /\ Take /\ Held /\ status = "running" /\ UNCHANGED given
  BY DEF EndLength, Decodes, Running, Take
<1>2. PICK i, j \in Nat : Reads(message, i, j)
  BY <1>1, ReadsSome
<1>3. PICK pairs : pairs = message.maps[i]
  OBVIOUS
<1>4. PICK p : p = pairs[j + 1]
  OBVIOUS
<1>5. /\ j < Len(pairs) /\ PairIsAt(message, i, j, p) /\ AwaitsIn(message, LengthItem(p))
      /\ Start = PairStart(message, i, j) + Len(KeyItem(p)) /\ Map = NameAt(message, i)
      /\ Field \in Framed[Map] /\ key = [type |-> p.type, data |-> p.data]
      /\ Field = FieldOf(Map, p.type)
  BY <1>1, <1>2, <1>3, <1>4, PairAwaited, ReadsWhere
<1>6. PICK item : item = LengthItem(p)
  OBVIOUS
<1>7. Item = item /\ Held' /\ got' = <<>> /\ Start' = Start + Len(item)
  BY <1>1, <1>5, <1>6, TakeMoves DEF AwaitsIn
<1>8. item[1] = p.len /\ Len(item) = 1
  BY <1>5, <1>6, PairItems DEF PairIsAt
<1>9. /\ declared' = p.len /\ inner' = "value" /\ consumed' = 0
      /\ UNCHANGED <<status, stage, key, fields, tx, psbt>>
  BY <1>7, <1>8 DEF EndLength
<1>10. InPairs(message, i, j)'
  <2>1. InPair(PairStart(message, i, j), NameAt(message, i), p)'
    <3>1. Len(got)' = 0 /\ consumed' = Len(got)'
      BY <1>7, <1>9
    <3>. QED  BY <1>5, <1>7, <1>8, <1>9, <3>1 DEF InPair
  <2>2. fields = EntriesTo(NameAt(message, i), message.maps[i], j) /\ j \in 0 .. Len(pairs)
    BY <1>2, <1>3 DEF Reads, InPairs
  <2>. QED  BY <1>3, <1>4, <1>5, <1>9, <2>1, <2>2 DEF InPairs
<1>. QED  BY <1>1, <1>2, <1>7, <1>9, <1>10, StaysInMap

\* What the decoder takes as a value is the one of the pair.
LEMMA ValueTaken ==
    ASSUME NEW message, Decodes(message), WellFormed(message),
           InMap, inner = "value", Take,
           NEW i, NEW j, Reads(message, i, j), NEW pairs, pairs = message.maps[i],
           NEW p, p = pairs[j + 1]
    PROVE  /\ Body = p.value /\ LengthMatches /\ ~Overruns(Field, Item)
           /\ Field \notin Framed[Map] => Item[1] = Len(p.value)
           /\ Held' /\ got' = <<>> /\ Start' = PairStart(message, i, j + 1)
<1>1. /\ j < Len(pairs) /\ PairIsAt(message, i, j, p) /\ Map = NameAt(message, i)
      /\ Map \in MapNames /\ Field = FieldOf(Map, p.type) /\ Held
  BY PairAwaited, ReadsWhere DEF Decodes
<1>2. /\ p \in PairType /\ p.value \in Seq(Nat) /\ p.len = Len(p.value)
      /\ Field = "tap_bip32_derivation" => OriginDecodes(p.value)
      /\ ValueDecodes(Map, Field, p.value)
  BY <1>1 DEF PairIsAt, PairType, PairOk
<1>3. CASE Field \in Framed[Map]
  <2>1. /\ AwaitsIn(message, p.value) /\ declared = p.len /\ consumed = Len(got)
        /\ Start + Len(p.value) = PairStart(message, i, j + 1)
    BY <1>3, PairAwaited
  <2>2. PICK item : item = p.value
    OBVIOUS
  <2>3. Item = item /\ Held' /\ got' = <<>> /\ Start' = Start + Len(item)
    BY <1>1, <2>1, <2>2, TakeMoves DEF AwaitsIn
  <2>4. Need(Seen) = Len(item)
    BY <1>1, <2>1, <2>2, TakesItem DEF AwaitsIn, Take
  <2>5. Len(got) \in Nat /\ Len(item) \in Nat
    BY <1>1, <1>2, <2>2 DEF Held
  <2>6. consumed + Taken = declared
    BY <1>2, <2>1, <2>2, <2>4, <2>5 DEF Taken
  <2>7. ~Overruns(Field, Item)
    <3>1. Field \notin {"tap_bip32_derivation", "tap_tree"}
      BY <1>1, <1>3, FramedFields
    <3>. QED  BY <3>1 DEF Overruns
  <2>. QED  BY <1>3, <2>1, <2>2, <2>3, <2>6, <2>7 DEF Body, LengthMatches
<1>4. CASE Field \notin Framed[Map]
  <2>1. /\ AwaitsIn(message, ValueItem(p))
        /\ Start + Len(ValueItem(p)) = PairStart(message, i, j + 1)
    BY <1>4, PairAwaited
  <2>2. PICK item : item = ValueItem(p)
    OBVIOUS
  <2>3. Item = item /\ Held' /\ got' = <<>> /\ Start' = Start + Len(item)
    BY <1>1, <2>1, <2>2, TakeMoves DEF AwaitsIn
  <2>4. item[1] = Len(p.value) /\ Tail(item) = p.value /\ item \in Seq(Nat)
    BY <1>2, <2>2, PairItems
  <2>5. ~Overruns(Field, item)
    <3>1. PICK f : f = Field
      OBVIOUS
    <3>2. item = <<Len(p.value)>> \o p.value
      BY <1>2, <2>2 DEF ValueItem, LengthItem
    <3>3. f = "tap_tree" => TreeDecodes[p.value]
      BY <1>2, <3>1 DEF ValueDecodes
    <3>. QED  BY <1>2, <2>4, <3>1, <3>2, <3>3, NeverOverruns
  <2>. QED  BY <1>4, <2>1, <2>2, <2>3, <2>4, <2>5 DEF Body, LengthMatches
<1>. QED  BY <1>3, <1>4

\* A pair of a map that is well formed has a key none of those before it has.
LEMMA NoneBefore ==
    ASSUME NEW map, NEW pairs \in Seq(PairType), KeysDiffer(map, pairs),
           NEW j \in 0 .. Len(pairs) - 1, NEW p, p = pairs[j + 1],
           NEW e \in EntriesTo(map, pairs, j)
    PROVE  ~(/\ e.field = EntryAt(map, p).field
             /\ e.type = EntryAt(map, p).type
             /\ e.data = EntryAt(map, p).data)
<1>1. PICK m \in 1 .. j : e = EntryAt(map, pairs[m])
  BY DEF EntriesTo
<1>2. PICK k \in 1 .. Len(pairs) : k = j + 1 /\ m \in 1 .. Len(pairs) /\ m # k
  <2>1. j + 1 \in 1 .. Len(pairs) /\ m \in 1 .. Len(pairs) /\ m # j + 1
    OBVIOUS
  <2>. QED  BY <2>1
<1>. QED  BY <1>1, <1>2, EntriesDiffer

LEMMA EndValueDecodes ==
    ASSUME NEW message, Decodes(message), WellFormed(message), EndValue
    PROVE  Decodes(message)'
<1>1. InMap /\ inner = "value" /\ Take /\ Held /\ status = "running" /\ UNCHANGED given
  BY DEF EndValue, Decodes, Running, Take
<1>2. PICK i, j \in Nat : Reads(message, i, j)
  BY <1>1, ReadsSome
<1>3. PICK pairs : pairs = message.maps[i]
  OBVIOUS
<1>4. PICK p : p = pairs[j + 1]
  OBVIOUS
<1>5. /\ j < Len(pairs) /\ PairIsAt(message, i, j, p) /\ Map = NameAt(message, i)
      /\ Field = FieldOf(Map, p.type) /\ key = [type |-> p.type, data |-> p.data]
      /\ pairs \in Seq(PairType) /\ MapOk(Map, pairs)
      /\ j \in 0 .. Len(pairs) /\ fields = EntriesTo(Map, pairs, j)
  BY <1>1, <1>2, <1>3, <1>4, PairAwaited, ReadsWhere
<1>6. /\ Body = p.value /\ LengthMatches
      /\ Field \notin Framed[Map] => Item[1] = Len(p.value)
      /\ Held' /\ got' = <<>> /\ Start' = PairStart(message, i, j + 1)
  BY <1>1, <1>2, <1>3, <1>4, ValueTaken
<1>7. /\ ~LengthRefused(Field, Len(p.value)) /\ ValueDecodes(Map, Field, p.value)
      /\ KeyDecodes(Map, Field, p.data)
  BY <1>5 DEF PairIsAt, PairOk
<1>8. j \in 0 .. Len(pairs) - 1 /\ j + 1 \in 0 .. Len(pairs)
  BY <1>5
<1>9. Entry = EntryAt(Map, p)
  BY <1>5, <1>6 DEF Entry, EntryAt
<1>10. ~IsDuplicate
  BY <1>4, <1>5, <1>8, <1>9, NoneBefore DEF IsDuplicate, MapOk
<1>11. Accepted
  BY <1>5, <1>6, <1>7, <1>10 DEF Accepted
<1>12. fields' = fields \union {Entry} /\ inner' = "separator"
         /\ UNCHANGED <<status, consumed, stage, declared, key, tx, psbt>>
  BY <1>11 DEF EndValue
<1>13. InPairs(message, i, j + 1)'
  <2>1. fields' = EntriesTo(NameAt(message, i), pairs, j + 1)
    <3>1. PICK map : map = Map
      OBVIOUS
    <3>2. EntriesTo(map, pairs, j + 1) = EntriesTo(map, pairs, j) \union {EntryAt(map, pairs[j + 1])}
      BY <1>5, <1>8, EntriesNext
    <3>3. map = NameAt(message, i) /\ fields' = EntriesTo(map, pairs, j) \union {EntryAt(map, p)}
      BY <1>5, <1>9, <1>12, <3>1
    <3>. QED  BY <1>4, <3>2, <3>3
  <2>. QED  BY <1>3, <1>6, <1>8, <1>12, <2>1 DEF InPairs
<1>. QED  BY <1>1, <1>2, <1>6, <1>12, <1>13, StaysInMap

LEMMA NoOverrun ==
    ASSUME NEW message, Decodes(message), WellFormed(message)
    PROVE  ~Overrun
<1> SUFFICES ASSUME Overrun PROVE FALSE
  OBVIOUS
<1>1. InMap /\ inner = "value" /\ Take /\ Overruns(Field, Item)
  BY DEF Overrun
<1>2. PICK i, j \in Nat : Reads(message, i, j)
  BY <1>1, ReadsSome
<1>. QED  BY <1>1, <1>2, ValueTaken

-----------------------------------------------------------------------------
(* The ends of maps and of lists *)

\* At the end of map i, all of its pairs are read.
EndsMap(message, i) ==
    /\ i \in 1 .. 1 + InputCount(message) + OutputCount(message)
    /\ ReadTo(message, i) /\ ~AtListEnd(message, i)
    /\ Map = NameAt(message, i) /\ MapOk(Map, message.maps[i])
    /\ fields = Entries(Map, message.maps[i])

LEMMA MapEnds ==
    ASSUME NEW message, Decodes(message), WellFormed(message), AtEndOfMap
    PROVE  \E i \in Nat :
              EndsMap(message, i) /\ Held' /\ got' = <<>> /\ Start' = MapStart(message, i + 1)
<1>1. InMap /\ inner = "separator" /\ Item = <<EndOfMap>> /\ Take /\ Complete /\ Held
  BY DEF AtEndOfMap, Take, Decodes
<1>2. PICK i, j \in Nat : Reads(message, i, j)
  BY <1>1, ReadsSome
<1>3. PICK pairs : pairs = message.maps[i]
  OBVIOUS
<1>4. /\ Start = PairStart(message, i, j)
      /\ j = Len(pairs) => AwaitsIn(message, <<EndOfMap>>)
      /\ j < Len(pairs) => AwaitsIn(message, <<1 + Len(pairs[j + 1].data)>>)
  BY <1>1, <1>2, <1>3, SeparatorAwaited
<1>5. /\ Map = NameAt(message, i) /\ pairs \in Seq(PairType) /\ MapOk(Map, pairs)
      /\ i \in 1 .. 1 + InputCount(message) + OutputCount(message)
      /\ j \in 0 .. Len(pairs) /\ fields = EntriesTo(Map, pairs, j)
      /\ MapEndsAt(message, i, PairStart(message, i, Len(pairs)))
      /\ j < Len(pairs) => PairIsAt(message, i, j, pairs[j + 1])
  BY <1>2, <1>3, ReadsWhere
<1>6. j = Len(pairs)
  <2> SUFFICES ASSUME j < Len(pairs) PROVE FALSE
    BY <1>5
  <2>1. PICK p : p = pairs[j + 1]
    OBVIOUS
  <2>2. PICK x \in Nat : x = 1 + Len(p.data) /\ x # 0
    <3>1. PairIsAt(message, i, j, p)
      BY <1>5, <2>1
    <3>2. p \in PairType
      BY <3>1 DEF PairIsAt
    <3>3. Len(p.data) \in Nat
      BY <3>2 DEF PairType
    <3>. QED  BY <3>3
  <2>3. Awaits(<<x>>)
    BY <1>4, <2>1, <2>2 DEF AwaitsIn
  <2>4. Item = <<x>>
    BY <1>1, <2>3, TakesItem
  <2>5. <<x>>[1] = <<EndOfMap>>[1]
    BY <1>1, <2>4
  <2>. QED  BY <2>2, <2>5 DEF EndOfMap
<1>7. Held' /\ got' = <<>> /\ Start' = MapStart(message, i + 1)
  <2>0. PICK item : item = <<EndOfMap>>
    OBVIOUS
  <2>1. item = <<EndOfMap>> /\ Len(item) = 1
    BY <2>0
  <2>2. Held' /\ got' = <<>> /\ Start' = Start + Len(item)
    BY <1>1, <1>4, <1>6, <2>1, TakeMoves DEF AwaitsIn
  <2>. QED  BY <1>4, <1>5, <1>6, <2>1, <2>2 DEF MapEndsAt
<1>8. fields = Entries(Map, pairs)
  <2>1. PICK map : map = Map
    OBVIOUS
  <2>2. EntriesTo(map, pairs, Len(pairs)) = Entries(map, pairs)
    BY <1>5, EntriesGrow
  <2>. QED  BY <1>5, <1>6, <2>1, <2>2
<1>9. ReadTo(message, i) /\ ~AtListEnd(message, i)
  BY <1>2, ListDoneIs DEF Reads, Given
<1>. QED  BY <1>3, <1>5, <1>7, <1>8, <1>9 DEF EndsMap

\* A list that is complete.
EndsList(message, i) ==
    /\ ReadTo(message, i) /\ AtListEnd(message, i) /\ MapAhead(message, i)

LEMMA ListEnds ==
    ASSUME NEW message, Decodes(message), WellFormed(message), ListDone
    PROVE  \E i \in Nat : EndsList(message, i)
<1>1. InMaps(message)
  BY DEF Decodes, Place, AtHead, AtEnd, ListDone
<1>2. PICK i \in Nat :
          /\ ReadTo(message, i)
          /\ IF AtListEnd(message, i) THEN MapAhead(message, i) /\ status = "running"
             ELSE \E j \in Nat : InPairs(message, i, j)
  BY <1>1 DEF InMaps
<1>3. AtListEnd(message, i)
  BY <1>2, ListDoneIs DEF Decodes, Given
<1>. QED  BY <1>2, <1>3 DEF EndsList

\* A turn after which the next map begins.
LEMMA NextMapBegins ==
    ASSUME NEW message, Decodes(message), WellFormed(message),
           UNCHANGED given, Held', status' = "running",
           NEW i \in Nat, ReadTo(message, i)', MapAhead(message, i)',
           format = 0 => tx' = TxOfMessage(message)
    PROVE  Decodes(message)'
<1>1. Given(message)' /\ message \in MessageType /\ format' = message.format
  BY DEF Given, given, Decodes
<1>2. InMaps(message)'
  BY <1>1, MapBegins
<1>3. stage' \in {"global", "inputs", "outputs"}
  BY DEF ReadTo
<1>4. Place(message)'
  BY <1>1, <1>2 DEF Place, given
<1>5. Waits'
  BY <1>3 DEF Waits
<1>. QED  BY <1>1, <1>4, <1>5 DEF Decodes

\* A turn that is the last.
LEMMA PsbtIsDone ==
    ASSUME NEW message, Decodes(message), WellFormed(message),
           UNCHANGED given, Held', status' = "ready", stage' = "done", got' = <<>>,
           psbt' = Meaning(message), pos' = Extent(message),
           format = 0 => tx' = TxOfMessage(message)
    PROVE  Decodes(message)'
<1>1. Given(message)'
  BY DEF Given, given, Decodes
<1>2. Place(message)' /\ Waits'
  BY DEF Place, AtEnd, Waits, given
<1>. QED  BY <1>1, <1>2 DEF Decodes

LEMMA CountPlaces ==
    ASSUME NEW message \in MessageType, WellFormed(message), NEW i \in Nat,
           ReadTo(message, i)
    PROVE  /\ stage = "global" => i = 1 /\ NameAt(message, i) = MapName("global", message.format)
           /\ stage = "inputs" /\ ~AtListEnd(message, i) =>
                 \E c \in 0 .. InputCount(message) - 1 :
                    /\ i = c + 2 /\ NameAt(message, i) = MapName("input", message.format)
                    /\ psbt = Psbt(message, ReadInputs(message, c), <<>>)
           /\ stage = "outputs" /\ ~AtListEnd(message, i) =>
                 \E c \in 0 .. OutputCount(message) - 1 :
                    /\ i = c + 2 + InputCount(message)
                    /\ NameAt(message, i) = MapName("output", message.format)
                    /\ psbt = Psbt(message, Meaning(message).inputs, ReadOutputs(message, c))
<1>1. PICK n \in Nat, k \in Nat : n = InputCount(message) /\ k = OutputCount(message)
  BY MessageCounts
<1>2. stage = "global" => i = 1 /\ NameAt(message, i) = MapName("global", message.format)
  BY DEF ReadTo, NameAt
<1>3. ASSUME stage = "inputs", ~AtListEnd(message, i)
      PROVE  \E c \in 0 .. InputCount(message) - 1 :
                    /\ i = c + 2 /\ NameAt(message, i) = MapName("input", message.format)
                    /\ psbt = Psbt(message, ReadInputs(message, c), <<>>)
  <2>1. i \in 2 .. 2 + n /\ i # 2 + n /\ psbt = Psbt(message, ReadInputs(message, i - 2), <<>>)
    BY <1>1, <1>3 DEF ReadTo, AtListEnd
  <2>2. PICK c : c = i - 2
    OBVIOUS
  <2>3. c \in 0 .. n - 1 /\ i = c + 2 /\ i # 1 /\ i <= 1 + n
    BY <2>1, <2>2
  <2>. QED  BY <1>1, <2>1, <2>2, <2>3 DEF NameAt
<1>4. ASSUME stage = "outputs", ~AtListEnd(message, i)
      PROVE  \E c \in 0 .. OutputCount(message) - 1 :
                    /\ i = c + 2 + InputCount(message)
                    /\ NameAt(message, i) = MapName("output", message.format)
                    /\ psbt = Psbt(message, Meaning(message).inputs, ReadOutputs(message, c))
  <2>1. /\ i \in 2 + n .. 2 + n + k /\ i # 2 + n + k
        /\ psbt = Psbt(message, Meaning(message).inputs, ReadOutputs(message, i - 2 - n))
    BY <1>1, <1>4 DEF ReadTo, AtListEnd
  <2>2. PICK c : c = i - 2 - n
    OBVIOUS
  <2>3. c \in 0 .. k - 1 /\ i = c + 2 + n /\ i # 1 /\ ~(i <= 1 + n)
    BY <2>1, <2>2
  <2>. QED  BY <1>1, <2>1, <2>2, <2>3 DEF NameAt
<1>. QED  BY <1>2, <1>3, <1>4

LEMMA EndGlobalDecodes ==
    ASSUME NEW message, Decodes(message), WellFormed(message), EndGlobal
    PROVE  Decodes(message)'
<1>1. /\ stage = "global" /\ format = 2 /\ AtEndOfMap /\ message \in MessageType
      /\ message.format = 2 /\ UNCHANGED given /\ status = "running"
  BY DEF EndGlobal, Decodes, Given, AtEndOfMap, Take, Running
<1>2. PICK i \in Nat :
          EndsMap(message, i) /\ Held' /\ got' = <<>> /\ Start' = MapStart(message, i + 1)
  BY <1>1, MapEnds
<1>3. /\ i = 1 /\ Map = "global" /\ MapOk("global", message.maps[1])
      /\ fields = Entries("global", message.maps[1]) /\ inner = "separator"
      /\ psbt = EmptyPsbt /\ fields = GlobalOf(message)
  BY <1>1, <1>2, CountPlaces, MapNamesOf DEF EndsMap, AtEndOfMap, ReadTo, GlobalOf
<1>4. GlobalOk
  <2>1. Required["global"] \subseteq FieldsIn(fields) /\ SpPaired(fields)
    BY <1>3 DEF MapOk
  <2>. QED  BY <2>1 DEF GlobalOk, Has, Required, SpPaired, SpFieldsMatch
<1>5. /\ psbt' = [psbt EXCEPT !.global = GlobalEntries] /\ stage' = "inputs" /\ fields' = {}
      /\ UNCHANGED <<status, consumed, inner, declared, key, tx>>
  BY <1>4 DEF EndGlobal
<1>6. psbt' = Psbt(message, ReadInputs(message, 0), <<>>)
  <2>1. Meaning(message).global = GlobalEntries
    BY <1>1, <1>3, MeaningIsRead DEF WithDefault, GlobalEntries, Has
  <2>2. ReadInputs(message, 0) = <<>>
    BY ReadsMore
  <2>. QED  BY <1>3, <1>5, <2>1, <2>2 DEF Psbt, EmptyPsbt
<1>7. ReadTo(message, 2)' /\ MapAhead(message, 2)'
  <2>1. 2 \in 2 .. 2 + InputCount(message)
    BY <1>1, MessageCounts DEF Decodes
  <2>. QED  BY <1>2, <1>3, <1>5, <1>6, <2>1 DEF ReadTo, MapAhead
<1>. QED  BY <1>1, <1>2, <1>5, <1>7, NextMapBegins

LEMMA EndInputDecodes ==
    ASSUME NEW message, Decodes(message), WellFormed(message), EndInput \/ EndInput0
    PROVE  Decodes(message)'
<1>1. /\ stage = "inputs" /\ AtEndOfMap /\ message \in MessageType
      /\ message.format = format /\ format \in {0, 2} /\ UNCHANGED given /\ status = "running"
  BY DEF EndInput, EndInput0, Decodes, Given, AtEndOfMap, Take, Running
<1>2. PICK i \in Nat :
          EndsMap(message, i) /\ Held' /\ got' = <<>> /\ Start' = MapStart(message, i + 1)
  BY <1>1, MapEnds
<1>3. PICK c \in 0 .. InputCount(message) - 1 :
          /\ i = c + 2 /\ NameAt(message, i) = MapName("input", message.format)
          /\ psbt = Psbt(message, ReadInputs(message, c), <<>>)
  BY <1>1, <1>2, CountPlaces DEF EndsMap
<1>4. /\ Map = MapName("input", message.format) /\ MapOk(Map, message.maps[i])
      /\ fields = Entries(Map, message.maps[i]) /\ inner = "separator"
  BY <1>1, <1>2, <1>3 DEF EndsMap, AtEndOfMap
<1>5. EndInput => InputOk
  <2> SUFFICES ASSUME EndInput PROVE InputOk
    OBVIOUS
  <2>1. Map = "input"
    BY <1>1, <1>4, MapNamesOf DEF EndInput
  <2>2. Required["input"] \subseteq FieldsIn(fields) /\ SpPaired(fields) /\ SpendsPrevious(fields)
    BY <1>4, <2>1 DEF MapOk
  <2>. QED  BY <2>2 DEF InputOk, Has, Required, SpPaired, SpFieldsMatch, SpendsPrevious
<1>6. /\ psbt' = [psbt EXCEPT !.inputs = Append(@, fields)] /\ fields' = {}
      /\ UNCHANGED <<status, consumed, stage, inner, declared, key, tx>>
  BY <1>5 DEF EndInput, EndInput0
<1>7. PICK d \in Nat : d = c + 1
  BY <1>3
<1>8. psbt' = Psbt(message, ReadInputs(message, d), <<>>)
  <2>1. i = 1 + d /\ c \in Nat
    BY <1>3, <1>7
  <2>2. Append(ReadInputs(message, c), fields) = ReadInputs(message, d)
    BY <1>4, <1>7, <2>1, ReadsMore
  <2>. QED  BY <1>3, <1>6, <2>2 DEF Psbt
<1>9. PICK n \in Nat : n = InputCount(message)
  BY <1>1, MessageCounts
<1>10. PICK h \in Nat : h = i + 1 /\ h \in 2 .. 2 + n /\ h - 2 = d
  BY <1>3, <1>7, <1>9
<1>11. ReadTo(message, h)' /\ MapAhead(message, h)'
  BY <1>1, <1>2, <1>4, <1>6, <1>8, <1>9, <1>10 DEF ReadTo, MapAhead
<1>12. format = 0 => tx' = TxOfMessage(message)
  BY <1>1, <1>6 DEF Decodes, Place
<1>. QED  BY <1>1, <1>2, <1>6, <1>10, <1>11, <1>12, NextMapBegins

LEMMA EndOutputDecodes ==
    ASSUME NEW message, Decodes(message), WellFormed(message), EndOutput \/ EndOutput0
    PROVE  Decodes(message)'
<1>1. /\ stage = "outputs" /\ AtEndOfMap /\ message \in MessageType
      /\ message.format = format /\ format \in {0, 2} /\ UNCHANGED given /\ status = "running"
  BY DEF EndOutput, EndOutput0, Decodes, Given, AtEndOfMap, Take, Running
<1>2. PICK i \in Nat :
          EndsMap(message, i) /\ Held' /\ got' = <<>> /\ Start' = MapStart(message, i + 1)
  BY <1>1, MapEnds
<1>3. PICK c \in 0 .. OutputCount(message) - 1 :
          /\ i = c + 2 + InputCount(message) /\ NameAt(message, i) = MapName("output", message.format)
          /\ psbt = Psbt(message, Meaning(message).inputs, ReadOutputs(message, c))
  BY <1>1, <1>2, CountPlaces DEF EndsMap
<1>4. /\ Map = MapName("output", message.format) /\ MapOk(Map, message.maps[i])
      /\ fields = Entries(Map, message.maps[i]) /\ inner = "separator"
  BY <1>1, <1>2, <1>3 DEF EndsMap, AtEndOfMap
<1>5. ASSUME EndOutput PROVE OutputOk
  <2>1. Map = "output"
    BY <1>1, <1>4, <1>5, MapNamesOf DEF EndOutput
  <2>2. /\ Required["output"] \subseteq FieldsIn(fields) /\ LabelHasInfo(fields)
        /\ FieldsIn(fields) \intersect {"script", "sp_v0_info"} # {}
    BY <1>4, <2>1 DEF MapOk
  <2>. QED  BY <2>2 DEF OutputOk, Has, Required, LabelHasInfo
<1>6. PICK entries : entries = IF format = 2 THEN WithDefault("output", fields, "script", <<>>) ELSE fields
  OBVIOUS
<1>7. /\ psbt' = [psbt EXCEPT !.outputs = Append(@, entries)] /\ fields' = {}
      /\ UNCHANGED <<status, consumed, stage, inner, declared, key, tx>>
  <2>1. CASE EndOutput
    <3>1. format = 2 /\ OutputEntries = entries
      BY <1>6, <2>1 DEF EndOutput, OutputEntries, WithDefault, Has
    <3>. QED  BY <1>5, <2>1, <3>1 DEF EndOutput
  <2>2. CASE EndOutput0
    BY <1>6, <2>2 DEF EndOutput0
  <2>. QED  BY <2>1, <2>2
<1>8. PICK n \in Nat, k \in Nat : n = InputCount(message) /\ k = OutputCount(message)
  BY <1>1, MessageCounts
<1>9. PICK d \in Nat : d = c + 1
  BY <1>3, <1>8
<1>10. psbt' = Psbt(message, Meaning(message).inputs, ReadOutputs(message, d))
  <2>1. c \in Nat /\ i = 1 + n + d
    BY <1>3, <1>8, <1>9
  <2>2. Append(ReadOutputs(message, c), entries) = ReadOutputs(message, d)
    <3>1. fields = Entries(MapName("output", message.format), message.maps[1 + InputCount(message) + d])
      BY <1>4, <1>8, <2>1
    <3>2. entries = AsOutput(message, OutputMap(message, d))
      BY <1>1, <1>6, <3>1 DEF AsOutput, OutputMap
    <3>3. c \in Nat /\ d = c + 1
      BY <1>9, <2>1
    <3>. QED  BY <3>2, <3>3, ReadsMoreOutputs
  <2>. QED  BY <1>3, <1>7, <2>2 DEF Psbt
<1>11. PICK h \in Nat : h = i + 1 /\ h \in 2 + n .. 2 + n + k /\ h - 2 - n = d
  BY <1>3, <1>8, <1>9
<1>12. ReadTo(message, h)' /\ MapAhead(message, h)'
  BY <1>1, <1>2, <1>4, <1>7, <1>8, <1>10, <1>11 DEF ReadTo, MapAhead
<1>13. format = 0 => tx' = TxOfMessage(message)
  BY <1>1, <1>7 DEF Decodes, Place
<1>. QED  BY <1>1, <1>2, <1>7, <1>11, <1>12, <1>13, NextMapBegins

\* The place behind the last map is the end of the PSBT.
LEMMA LastPlace ==
    ASSUME NEW message \in MessageType, WellFormed(message),
           NEW n \in Nat, n = InputCount(message), NEW k \in Nat, k = OutputCount(message)
    PROVE  Extent(message) = MapStart(message, 2 + n + k)
<1>1. message.magic = PSBT_MAGIC /\ 1 + n + k <= Len(message.maps)
  BY MessageCounts DEF WellFormed
<1>. QED  BY <1>1, ExtentEnds

LEMMA NoMaps0 ==
    ASSUME NEW message, message.format = 0
    PROVE  /\ InputCount(message) = 0 => Meaning(message).inputs = <<>>
           /\ OutputCount(message) = 0 => Meaning(message).outputs = <<>>
  BY DEF Meaning

LEMMA StartIsPos ==
    ASSUME got' = <<>>, Held'
    PROVE  pos' = Start'
<1>1. PICK x \in Nat : x = pos'
  BY DEF Held
<1>2. Start' = x - Len(<<>>)
  BY <1>1 DEF Start
<1>3. x - Len(<<>>) = x
  OBVIOUS
<1>. QED  BY <1>1, <1>2, <1>3

LEMMA EndGlobal0Decodes ==
    ASSUME NEW message, Decodes(message), WellFormed(message), EndGlobal0
    PROVE  Decodes(message)'
<1>1. /\ stage = "global" /\ format = 0 /\ AtEndOfMap /\ message \in MessageType
      /\ message.format = 0 /\ UNCHANGED given /\ status = "running"
  BY DEF EndGlobal0, Decodes, Given, AtEndOfMap, Take, Running
<1>2. PICK i \in Nat :
          EndsMap(message, i) /\ Held' /\ got' = <<>> /\ Start' = MapStart(message, i + 1)
  BY <1>1, MapEnds
<1>3. /\ i = 1 /\ Map = "global0" /\ MapOk("global0", message.maps[1])
      /\ fields = Entries("global0", message.maps[1]) /\ inner = "separator"
      /\ psbt = EmptyPsbt /\ fields = GlobalOf(message)
  BY <1>1, <1>2, CountPlaces, MapNamesOf DEF EndsMap, AtEndOfMap, ReadTo, GlobalOf
<1>4. GlobalOk0
  <2>1. Required["global0"] \subseteq FieldsIn(fields) /\ SpPaired(fields)
    BY <1>3 DEF MapOk
  <2>. QED  BY <2>1 DEF GlobalOk0, Has, Required, SpPaired, SpFieldsMatch
<1>5. PICK t : t = TxOfMessage(message)
  OBVIOUS
<1>6. /\ tx' = t /\ psbt' = [psbt EXCEPT !.global = IntoGlobal(fields, t)]
      /\ stage' = CASE t.ins # <<>>  -> "inputs"
                    [] t.ins = <<>> /\ t.outs # <<>> -> "outputs"
                    [] OTHER -> "done"
      /\ status' = IF stage' = "done" THEN "ready" ELSE status
      /\ fields' = {} /\ UNCHANGED inner
  BY <1>3, <1>4, <1>5 DEF EndGlobal0, TxOfMessage
<1>7. PICK n \in Nat, k \in Nat : n = InputCount(message) /\ k = OutputCount(message)
  BY <1>1, MessageCounts
<1>8. Len(t.ins) = n /\ Len(t.outs) = k
  BY <1>1, <1>5, <1>7, MessageCounts DEF Decodes
<1>9. psbt' = Psbt(message, <<>>, <<>>)
  <2>1. Meaning(message).global = IntoGlobal(fields, t)
    BY <1>1, <1>3, <1>5, MeaningIsRead
  <2>. QED  BY <1>3, <1>6, <2>1 DEF Psbt, EmptyPsbt
<1>10. ReadInputs(message, 0) = <<>> /\ ReadOutputs(message, 0) = <<>>
  BY ReadsMore
<1>11. n = 0 => Meaning(message).inputs = <<>>
  BY <1>1, <1>7, NoMaps0
<1>12. k = 0 => Meaning(message).outputs = <<>>
  BY <1>1, <1>7, NoMaps0
<1>13. Start' = MapStart(message, 2)
  BY <1>2, <1>3
<1>14. CASE t.ins # <<>>
  <2>1. stage' = "inputs"
    BY <1>6, <1>14
  <2>2. 2 \in 2 .. 2 + InputCount(message)
    BY <1>7
  <2>3. ReadTo(message, 2)' /\ MapAhead(message, 2)'
    BY <1>2, <1>3, <1>6, <1>9, <1>10, <1>13, <2>1, <2>2 DEF ReadTo, MapAhead
  <2>. QED  BY <1>1, <1>2, <1>5, <1>6, <2>1, <2>3, NextMapBegins
<1>15. CASE t.ins = <<>> /\ t.outs # <<>>
  <2>1. stage' = "outputs" /\ n = 0
    BY <1>6, <1>8, <1>15
  <2>2. 2 \in 2 + n .. 2 + n + k /\ 2 - 2 - n = 0
    BY <2>1
  <2>3. ReadTo(message, 2)' /\ MapAhead(message, 2)'
    BY <1>2, <1>3, <1>6, <1>7, <1>9, <1>10, <1>11, <1>13, <2>1, <2>2 DEF ReadTo, MapAhead
  <2>. QED  BY <1>1, <1>2, <1>5, <1>6, <2>1, <2>3, NextMapBegins
<1>16. CASE t.ins = <<>> /\ t.outs = <<>>
  <2>1. stage' = "done" /\ status' = "ready" /\ n = 0 /\ k = 0
    BY <1>6, <1>8, <1>16
  <2>2. psbt' = Meaning(message)
    BY <1>1, <1>5, <1>7, <1>9, <1>11, <1>12, <2>1, MeaningIsRead DEF Psbt
  <2>3. pos' = Extent(message)
    <3>1. Extent(message) = MapStart(message, 2 + n + k)
      BY <1>1, <1>7, LastPlace
    <3>3. 2 + n + k = 2
      BY <2>1
    <3>2. pos' = Start'
      BY <1>2, StartIsPos
    <3>. QED  BY <1>13, <3>1, <3>2, <3>3
  <2>. QED  BY <1>1, <1>2, <1>5, <1>6, <2>1, <2>2, <2>3, PsbtIsDone
<1>. QED  BY <1>14, <1>15, <1>16

\* What is read of the lists, when they are complete.
LEMMA ListPlaces ==
    ASSUME NEW message, Decodes(message), WellFormed(message), ListDone
    PROVE  /\ Held /\ MapAhead(message, IF stage = "inputs" THEN 2 + InputCount(message)
                                       ELSE 2 + InputCount(message) + OutputCount(message))
           /\ stage \in {"inputs", "outputs"}
           /\ stage = "inputs" => psbt = Psbt(message, ReadInputs(message, InputCount(message)), <<>>)
           /\ stage = "outputs" =>
                 psbt = Psbt(message, Meaning(message).inputs, ReadOutputs(message, OutputCount(message)))
<1>1. PICK i \in Nat : EndsList(message, i)
  BY ListEnds
<1>2. PICK n \in Nat, k \in Nat : n = InputCount(message) /\ k = OutputCount(message)
  BY MessageCounts DEF Decodes, Given
<1>3. stage \in {"inputs", "outputs"} /\ ReadTo(message, i) /\ AtListEnd(message, i) /\ MapAhead(message, i)
  BY <1>1 DEF EndsList, AtListEnd
<1>4. ASSUME stage = "inputs"
      PROVE  i = 2 + n /\ psbt = Psbt(message, ReadInputs(message, n), <<>>)
  <2>1. i = 2 + n /\ psbt = Psbt(message, ReadInputs(message, i - 2), <<>>)
    BY <1>2, <1>3, <1>4 DEF ReadTo, AtListEnd
  <2>2. i - 2 = n
    BY <2>1
  <2>. QED  BY <2>1, <2>2
<1>5. ASSUME stage = "outputs"
      PROVE  i = 2 + n + k /\ psbt = Psbt(message, Meaning(message).inputs, ReadOutputs(message, k))
  <2>1. i = 2 + n + k /\ psbt = Psbt(message, Meaning(message).inputs, ReadOutputs(message, i - 2 - n))
    BY <1>2, <1>3, <1>5 DEF ReadTo, AtListEnd
  <2>2. i - 2 - n = k
    BY <2>1
  <2>. QED  BY <2>1, <2>2
<1>. QED  BY <1>2, <1>3, <1>4, <1>5 DEF Decodes

LEMMA EndInputsDecodes ==
    ASSUME NEW message, Decodes(message), WellFormed(message), EndInputs
    PROVE  Decodes(message)'
<1>1. /\ status = "running" /\ stage = "inputs" /\ format = 2 /\ ListDone
      /\ stage' = "outputs" /\ message \in MessageType /\ message.format = 2
      /\ UNCHANGED <<given, fed, status, first, taking, inner, declared, key, fields, tx, psbt>>
  BY DEF EndInputs, Decodes, Given, Running
<1>2. PICK n \in Nat, k \in Nat : n = InputCount(message) /\ k = OutputCount(message)
  BY <1>1, MessageCounts
<1>3. /\ Held /\ MapAhead(message, 2 + n)
      /\ psbt = Psbt(message, ReadInputs(message, n), <<>>)
  BY <1>1, <1>2, ListPlaces
<1>4. psbt' = Psbt(message, Meaning(message).inputs, ReadOutputs(message, 0))
  BY <1>1, <1>2, <1>3, MeaningIsRead, ReadsMore DEF Psbt
<1>5. Held' /\ Start' = Start /\ got' = got
  BY <1>1, <1>3 DEF Held, Start, given, taking
<1>6. PICK h \in Nat : h = 2 + n /\ h \in 2 + n .. 2 + n + k /\ h - 2 - n = 0
  <2>1. 2 + n \in Nat /\ 2 + n \in 2 + n .. 2 + n + k /\ (2 + n) - 2 - n = 0
    OBVIOUS
  <2>. QED  BY <2>1
<1>7. ReadTo(message, h)' /\ MapAhead(message, h)'
  BY <1>1, <1>2, <1>3, <1>4, <1>5, <1>6 DEF ReadTo, MapAhead
<1>. QED  BY <1>1, <1>5, <1>6, <1>7, NextMapBegins

LEMMA EndInputs0Decodes ==
    ASSUME NEW message, Decodes(message), WellFormed(message), EndInputs0
    PROVE  Decodes(message)'
<1>1. /\ status = "running" /\ stage = "inputs" /\ format = 0 /\ ListDone
      /\ psbt' = [psbt EXCEPT !.inputs = WithInputs(psbt.inputs, tx)]
      /\ stage' = IF tx.outs = <<>> THEN "done" ELSE "outputs"
      /\ status' = IF stage' = "done" THEN "ready" ELSE status
      /\ message \in MessageType /\ message.format = 0
      /\ UNCHANGED <<given, fed, first, taking, inner, declared, key, fields, tx>>
  BY DEF EndInputs0, Decodes, Given, Running, WithInputs
<1>2. PICK n \in Nat, k \in Nat : n = InputCount(message) /\ k = OutputCount(message)
  BY <1>1, MessageCounts
<1>3. /\ Held /\ MapAhead(message, 2 + n)
      /\ psbt = Psbt(message, ReadInputs(message, n), <<>>)
  BY <1>1, <1>2, ListPlaces
<1>4. tx = TxOfMessage(message) /\ tx' = tx /\ Len(tx.outs) = k
  BY <1>1, <1>2, MessageCounts DEF Decodes, Place
<1>5. psbt' = Psbt(message, Meaning(message).inputs, <<>>)
  <2>1. PICK t : t = tx
    OBVIOUS
  <2>2. WithInputs(ReadInputs(message, n), t) = Meaning(message).inputs
    BY <1>1, <1>2, <1>4, <2>1, PartsGiven
  <2>. QED  BY <1>1, <1>3, <2>1, <2>2 DEF Psbt
<1>6. Held' /\ Start' = Start /\ got' = got /\ got' = <<>>
  BY <1>1, <1>3 DEF Held, Start, given, taking, MapAhead
<1>7. CASE tx.outs # <<>>
  <2>1. stage' = "outputs" /\ status' = "running"
    BY <1>1, <1>7
  <2>2. PICK h \in Nat : h = 2 + n /\ h \in 2 + n .. 2 + n + k /\ h - 2 - n = 0
    <3>1. 2 + n \in Nat /\ 2 + n \in 2 + n .. 2 + n + k /\ (2 + n) - 2 - n = 0
      OBVIOUS
    <3>. QED  BY <3>1
  <2>3. psbt' = Psbt(message, Meaning(message).inputs, ReadOutputs(message, 0))
    BY <1>5, ReadsMore
  <2>4. ReadTo(message, h)' /\ MapAhead(message, h)'
    BY <1>1, <1>2, <1>3, <1>6, <2>1, <2>2, <2>3 DEF ReadTo, MapAhead
  <2>. QED  BY <1>1, <1>4, <1>6, <2>1, <2>4, NextMapBegins
<1>8. CASE tx.outs = <<>>
  <2>1. stage' = "done" /\ status' = "ready" /\ k = 0
    BY <1>1, <1>4, <1>8
  <2>2. psbt' = Meaning(message)
    <3>1. Meaning(message).outputs = <<>>
      BY <1>1, <1>2, <2>1, NoMaps0
    <3>2. Meaning(message) = [global |-> Meaning(message).global, inputs |-> Meaning(message).inputs,
                              outputs |-> Meaning(message).outputs]
      BY <1>1, <1>2, <1>4, MeaningIsRead
    <3>. QED  BY <1>5, <3>1, <3>2 DEF Psbt
  <2>3. pos' = Extent(message)
    <3>1. Extent(message) = MapStart(message, 2 + n + k)
      BY <1>1, <1>2, LastPlace
    <3>2. 2 + n + k = 2 + n
      BY <2>1
    <3>3. pos' = Start'
      BY <1>6, StartIsPos
    <3>. QED  BY <1>3, <1>6, <3>1, <3>2, <3>3 DEF MapAhead
  <2>. QED  BY <1>1, <1>4, <1>6, <2>1, <2>2, <2>3, PsbtIsDone
<1>. QED  BY <1>7, <1>8

LEMMA EndOutputsDecodes ==
    ASSUME NEW message, Decodes(message), WellFormed(message), EndOutputs \/ EndOutputs0
    PROVE  Decodes(message)'
<1>1. /\ status = "running" /\ stage = "outputs" /\ format = message.format /\ ListDone
      /\ stage' = "done" /\ status' = "ready"
      /\ message \in MessageType
      /\ UNCHANGED <<given, fed, first, taking, inner, declared, key, fields, tx>>
  BY DEF EndOutputs, EndOutputs0, Decodes, Given, Running
<1>2. PICK n \in Nat, k \in Nat : n = InputCount(message) /\ k = OutputCount(message)
  BY <1>1, MessageCounts
<1>3. /\ Held /\ MapAhead(message, 2 + n + k)
      /\ psbt = Psbt(message, Meaning(message).inputs, ReadOutputs(message, k))
  BY <1>1, <1>2, ListPlaces
<1>4. format = 0 => tx = TxOfMessage(message) /\ tx' = TxOfMessage(message)
  BY <1>1 DEF Decodes, Place
<1>5. PICK t : t = TxOfMessage(message)
  OBVIOUS
<1>6. Meaning(message) = [global |-> Meaning(message).global, inputs |-> Meaning(message).inputs,
                          outputs |-> Meaning(message).outputs]
  BY <1>1, <1>2, <1>5, MeaningIsRead
<1>7. psbt' = Meaning(message)
  <2>1. CASE EndOutputs
    <3>1. message.format = 2 /\ psbt' = psbt
      BY <1>1, <2>1 DEF EndOutputs
    <3>2. Meaning(message).outputs = ReadOutputs(message, k)
      BY <1>1, <1>2, <1>5, <3>1, MeaningIsRead
    <3>. QED  BY <1>3, <1>6, <3>1, <3>2 DEF Psbt
  <2>2. CASE EndOutputs0
    <3>1. /\ message.format = 0 /\ tx = t
          /\ psbt' = [psbt EXCEPT !.outputs = WithOutputs(psbt.outputs, tx)]
      BY <1>1, <1>4, <1>5, <2>2 DEF EndOutputs0, WithOutputs
    <3>2. WithOutputs(ReadOutputs(message, k), t) = Meaning(message).outputs
      BY <1>1, <1>2, <1>5, <3>1, PartsGiven
    <3>. QED  BY <1>3, <1>6, <3>1, <3>2 DEF Psbt
  <2>. QED  BY <2>1, <2>2
<1>8. Held' /\ Start' = Start /\ got' = <<>>
  BY <1>1, <1>3 DEF Held, Start, given, taking, MapAhead
<1>9. pos' = Extent(message)
  <2>1. Extent(message) = MapStart(message, 2 + n + k)
    BY <1>1, <1>2, LastPlace
  <2>2. pos' = Start'
    BY <1>8, StartIsPos
  <2>. QED  BY <1>3, <1>8, <2>1, <2>2 DEF MapAhead
<1>. QED  BY <1>1, <1>4, <1>7, <1>8, <1>9, PsbtIsDone

-----------------------------------------------------------------------------
(* All steps *)

LEMMA TurnDecodes ==
    ASSUME NEW message, Decodes(message), WellFormed(message), Turn
    PROVE  Decodes(message)'
<1>1. CASE NeedsMore
  BY <1>1, NeedsMoreDecodes
<1>2. CASE EndMagic \/ EndSeparator
  BY <1>2, MagicDecodes, SeparatorDecodes
<1>3. CASE StartKey \/ EndKey \/ EndLength
  BY <1>3, StartKeyDecodes, EndKeyDecodes, EndLengthDecodes
<1>4. CASE EndValue \/ Overrun
  BY <1>4, EndValueDecodes, NoOverrun
<1>5. CASE EndGlobal \/ EndGlobal0
  BY <1>5, EndGlobalDecodes, EndGlobal0Decodes
<1>6. CASE EndInput \/ EndInput0 \/ EndOutput \/ EndOutput0
  BY <1>6, EndInputDecodes, EndOutputDecodes
<1>7. CASE EndInputs \/ EndInputs0 \/ EndOutputs \/ EndOutputs0
  BY <1>7, EndInputsDecodes, EndInputs0Decodes, EndOutputsDecodes
<1>. QED  BY <1>1, <1>2, <1>3, <1>4, <1>5, <1>6, <1>7 DEF Turn

LEMMA StaysDecodes ==
    ASSUME NEW message, Decodes(message), WellFormed(message), UNCHANGED vars
    PROVE  Decodes(message)'
<1>1. /\ format' = format /\ expected' = expected /\ bytes' = bytes /\ fed' = fed
      /\ pos' = pos /\ status' = status /\ stage' = stage /\ inner' = inner /\ got' = got
      /\ consumed' = consumed /\ declared' = declared /\ key' = key /\ fields' = fields
      /\ tx' = tx /\ psbt' = psbt
  BY DEF vars, given, taking, reading
<1>2. Start' = Start /\ ListDone' = ListDone /\ Field' = Field /\ Map' = Map
  BY <1>1 DEF Start, ListDone, Field, Map, Kind
<1>3. Given(message)' /\ Held'
  BY <1>1, <1>2 DEF Given, Held, Decodes
<1>4. Need(got)' = Need(got)
  BY <1>1, <1>2 DEF Need
<1>5. Waits'
  BY <1>1, <1>2, <1>4 DEF Waits, Decodes
<1>6. AtHead' <=> AtHead
  BY <1>1, <1>2 DEF AtHead
<1>7. AtEnd(message)' <=> AtEnd(message)
  BY <1>1 DEF AtEnd
<1>8. InMaps(message) => InMaps(message)'
  <2>1. \A i \in Nat : /\ ReadTo(message, i)' <=> ReadTo(message, i)
                       /\ AtListEnd(message, i)' <=> AtListEnd(message, i)
                       /\ MapAhead(message, i)' <=> MapAhead(message, i)
    BY <1>1, <1>2 DEF ReadTo, AtListEnd, MapAhead
  <2>2. \A i, j \in Nat : InPairs(message, i, j)' <=> InPairs(message, i, j)
    BY <1>1, <1>2 DEF InPairs, InPair
  <2>. QED  BY <1>1, <2>1, <2>2 DEF InMaps
<1>9. Place(message)'
  BY <1>1, <1>6, <1>7, <1>8 DEF Place, Decodes
<1>. QED  BY <1>3, <1>5, <1>9 DEF Decodes

\* What is decoded of a message, if it is well formed.
OfMessage(message) == Given(message) /\ (WellFormed(message) => Decodes(message))

Decoding == \E message \in MessageType : OfMessage(message)

\* A decoder that nothing was pushed into.
Fresh ==
    /\ \E message \in MessageType : Given(message)
    /\ fed = 0 /\ pos = 0 /\ got = <<>> /\ consumed = 0 /\ declared = 0
    /\ status = "waiting" /\ stage = "magic" /\ inner = "separator"
    /\ fields = {} /\ psbt = EmptyPsbt

LEMMA FreshHeld ==
    ASSUME Fresh
    PROVE  Held /\ Start = 0
<1>1. PICK message \in MessageType : Given(message)
  BY DEF Fresh
<1>2. fed = 0 /\ pos = 0 /\ got = <<>> /\ bytes \in Seq(Nat)
  BY <1>1, BytesType DEF Fresh, Given
<1>3. Start = 0
  <2>1. PICK x \in Nat : x = pos
    BY <1>2
  <2>2. Start = x - Len(<<>>)
    BY <1>2, <2>1 DEF Start
  <2>3. x - Len(<<>>) = x
    OBVIOUS
  <2>. QED  BY <1>2, <2>1, <2>2, <2>3
<1>4. Stands(<<>>, bytes, 0)
  BY <1>2 DEF Stands
<1>. QED  BY <1>2, <1>3, <1>4 DEF Held

LEMMA FreshDecodes ==
    ASSUME Fresh
    PROVE  Decoding
<1>1. PICK message \in MessageType : Given(message)
  BY DEF Fresh
<1>2. /\ fed = 0 /\ pos = 0 /\ got = <<>> /\ status = "waiting" /\ stage = "magic"
      /\ inner = "separator" /\ fields = {} /\ psbt = EmptyPsbt
  BY DEF Fresh
<1>3. Held /\ Start = 0
  BY FreshHeld
<1>4. Place(message)
  BY <1>2, <1>3 DEF Place, AtHead
<1>5. Waits
  <2>1. Need(got) = 4
    BY <1>2 DEF Need
  <2>. QED  BY <1>2, <2>1 DEF Waits, ListDone
<1>6. Decodes(message)
  BY <1>1, <1>3, <1>4, <1>5 DEF Decodes
<1>. QED  BY <1>1, <1>6 DEF Decoding, OfMessage

\* A step of a decoder, or of its caller.
Step == Turn \/ (\E n \in Chunks : Push(n)) \/ End \/ UNCHANGED vars

LEMMA StepDecodes ==
    ASSUME Decoding, Step
    PROVE  Decoding'
<1>1. PICK message \in MessageType : OfMessage(message)
  BY DEF Decoding
<1>2. UNCHANGED given
  BY DEF Step, Turn, vars, NeedsMore, EndMagic, EndSeparator, StartKey, EndKey, EndLength,
     EndValue, Overrun, EndGlobal, EndGlobal0, EndInput, EndInput0, EndOutput, EndOutput0,
     EndInputs, EndInputs0, EndOutputs, EndOutputs0, AtEndOfMap, Take, Push, End
<1>3. Given(message)'
  BY <1>1, <1>2 DEF OfMessage, Given, given
<1>4. ASSUME WellFormed(message) PROVE Decodes(message)'
  <2>1. Decodes(message)
    BY <1>1, <1>4 DEF OfMessage
  <2>2. CASE Turn
    BY <1>4, <2>1, <2>2, TurnDecodes
  <2>3. CASE \E n \in Chunks : Push(n)
    BY <1>4, <2>1, <2>3, PushDecodes
  <2>4. CASE End
    BY <1>4, <2>1, <2>4, EndDecodes
  <2>5. CASE UNCHANGED vars
    BY <1>4, <2>1, <2>5, StaysDecodes
  <2>. QED  BY <2>2, <2>3, <2>4, <2>5 DEF Step
<1>. QED  BY <1>3, <1>4 DEF Decoding, OfMessage

LEMMA ExtentType ==
    ASSUME NEW message \in MessageType, WellFormed(message)
    PROVE  Extent(message) \in Nat
<1>1. PICK n \in Nat, k \in Nat : n = InputCount(message) /\ k = OutputCount(message)
  BY MessageCounts
<1>2. 1 \in 1 .. 1 + n + k
  BY <1>1
<1>. QED  BY <1>1, <1>2, PlacesOfMap

\* What is held is less than the item, and no more is needed.
LEMMA LessThanItem ==
    ASSUME Held, NEW item, Awaits(item), Len(got) < Need(got), NEW need, need = Need(got)
    PROVE  Agree(got, item) /\ Len(got) < Len(item) /\ need \in Len(got) + 1 .. Len(item)
<1>1. got \in Seq(Nat) /\ item \in Seq(Nat) /\ bytes \in Seq(Nat) /\ Start \in Nat
  BY SeenStands DEF Held, Awaits
<1>2. Agree(got, item)
  BY <1>1, StandersAgree DEF Held, Awaits
<1>3. Finds(need, got, item)
  BY <1>1, <1>2 DEF Awaits, AsksFor
<1>. QED  BY <1>1, <1>2, <1>3 DEF Finds

\* TapKeyOriginDecoder asks for what remains behind the last whole part.
LEMMA OriginAsks ==
    ASSUME NEW value \in Seq(Nat), NEW held \in Seq(Nat), Agree(held, <<Len(value)>> \o value),
           Len(held) < 1 + Len(value)
    PROVE  /\ OriginRemaining(held) \in Nat \ {0}
           /\ Len(held) + OriginRemaining(held) <= 1 + Len(value) + HalfPart(held)
           /\ HalfPart(held) \in Nat
<1>1. PICK x \in Nat, n \in Nat : x = Len(held) /\ n = Len(value)
  OBVIOUS
<1>2. HalfPart(held) \in Nat
  <2>1. x >= 2 => (x - 2) % FixedSize \in Nat
    BY <1>1, SizeAssumption
  <2>. QED  BY <1>1, <2>1 DEF HalfPart
<1>3. CASE held = <<>>
  <2>1. OriginRemaining(held) = 1 /\ x = 0
    BY <1>1, <1>3 DEF OriginRemaining
  <2>. QED  BY <1>1, <1>2, <2>1
<1>4. CASE held # <<>>
  <2>1. x >= 1
    BY <1>1, <1>4
  <2>2. held[1] = n
    <3>1. 1 \in 1 .. Len(held) /\ 1 <= Len(<<Len(value)>> \o value)
            /\ (<<Len(value)>> \o value)[1] = Len(value)
      BY <1>1, <2>1
    <3>. QED  BY <1>1, <3>1 DEF Agree
  <2>3. PrefixedSize(held) = 1 + n
    BY <1>4, <2>2 DEF PrefixedSize
  <2>4. PICK h \in Nat : h = HalfPart(held)
    BY <1>2
  <2>5. OriginRemaining(held) = (1 + n) - (x - h)
    BY <1>1, <1>4, <2>3, <2>4 DEF OriginRemaining
  <2>6. x < 1 + n
    BY <1>1
  <2>7. (1 + n) - (x - h) \in Nat \ {0} /\ x + ((1 + n) - (x - h)) <= 1 + n + h
    BY <2>6
  <2>. QED  BY <1>1, <2>4, <2>5, <2>7
<1>. QED  BY <1>3, <1>4

\* What a reader may fetch.
LEMMA ReadLimitStays ==
    ASSUME NEW message, Decodes(message), WellFormed(message), status = "waiting"
    PROVE  /\ ReadLimit > 0
           /\ fed + ReadLimit <= Extent(message) + (IF InOrigin THEN HalfPart(got) ELSE 0)
<1>1. /\ Held /\ pos = fed /\ ~ListDone /\ Len(got) < Need(got) /\ stage # "done"
      /\ got \in Seq(Nat) /\ fed \in Nat
  BY DEF Decodes, Waits, Held
<1>2. stage # "errored" /\ inner # "errored"
  <2>1. CASE AtHead
    BY <2>1 DEF AtHead
  <2>2. CASE InMaps(message)
    BY <2>2 DEF InMaps, ReadTo, MapAhead, InPairs, InPair
  <2>. QED  BY <1>1, <2>1, <2>2 DEF Decodes, Place, AtEnd
<1>3. PICK x \in Nat : x = Len(got)
  BY <1>1
<1>4. PICK place \in Nat : place = Start /\ fed = place + x
  <2>1. Start \in Nat /\ fed = Start + x
    BY <1>1, <1>3, SeenStands DEF Start, Held
  <2>. QED  BY <2>1
<1>5. PICK extent \in Nat : extent = Extent(message)
  BY ExtentType DEF Decodes, Given
<1>6. CASE InMap /\ inner = "length"
  <2>1. PICK i, j \in Nat : Reads(message, i, j)
    BY <1>6, ReadsSome
  <2>2. PICK pairs : pairs = message.maps[i]
    OBVIOUS
  <2>3. PICK p : p = pairs[j + 1]
    OBVIOUS
  <2>4. /\ PairIsAt(message, i, j, p) /\ Field \in Framed[Map] /\ Field = FieldOf(Map, p.type)
        /\ Start = PairStart(message, i, j) + Len(KeyItem(p)) /\ Map = NameAt(message, i)
    BY <1>6, <2>1, <2>2, <2>3, PairAwaited, ReadsWhere
  <2>50. p \in PairType /\ PairOk(Map, p)
    BY <2>4 DEF PairIsAt
  <2>51. p.value \in Seq(Nat)
    BY <2>50 DEF PairType
  <2>52. Len(p.value) = InnerSize(Field, p.value)
    BY <2>4, <2>50 DEF PairOk
  <2>5. p \in PairType /\ p.value \in Seq(Nat) /\ Len(p.value) = InnerSize(Field, p.value)
    BY <2>50, <2>51, <2>52
  <2>61. PICK f : f = Field
    OBVIOUS
  <2>62. PICK b \in Nat : b = Len(p.value)
    BY <2>5
  <2>63. PICK a \in Nat : a = Len(KeyItem(p))
    BY <2>5, PairItems
  <2>6. f = Field /\ b = Len(p.value) /\ a = Len(KeyItem(p))
    BY <2>61, <2>62, <2>63
  <2>7. PICK size \in Nat : size = InnerSize(f, <<>>) /\ size <= b /\ size > 0
    <3>1. Agree(<<>>, p.value) /\ <<>> \in Seq(Nat)
      BY DEF Agree
    <3>2. PICK seen \in Seq(Nat) : seen = <<>>
      BY <3>1
    <3>3. Finds(InnerSize(f, seen), seen, p.value)
      BY <2>5, <2>6, <3>1, <3>2, FramedFinds
    <3>4. PICK size \in Nat \ {0} : size = InnerSize(f, seen)
      BY <3>2, InnerSizePositive
    <3>5. Len(seen) = 0
      BY <3>2
    <3>6. size <= b
      BY <2>6, <3>3, <3>4, <3>5 DEF Finds
    <3>. QED  BY <3>2, <3>4, <3>6
  <2>8. x = 0
    <3>1. Need(got) = 1
      BY <1>6, NeedIs
    <3>. QED  BY <1>1, <1>3, <3>1
  <2>9. ReadLimit = 1 + size
    BY <1>6, <2>6, <2>7 DEF ReadLimit
  <2>10. place + 1 + b < extent
    <3>1. PICK start \in Nat : start = PairStart(message, i, j)
      BY <2>4 DEF PairIsAt
    <3>2. Len(ValueItem(p)) = 1 + b
      BY <2>5, <2>6, PairItems
    <3>3. place = start + a /\ start + a + (1 + b) < extent
      BY <1>4, <1>5, <2>4, <2>6, <3>1, <3>2 DEF PairIsAt
    <3>. QED  BY <3>3
  <2>11. ~InOrigin
    BY <1>6 DEF InOrigin
  <2>12. fed + (1 + size) <= extent
    BY <1>4, <2>7, <2>8, <2>10
  <2>. QED  BY <1>5, <2>7, <2>9, <2>11, <2>12
<1>7. CASE InOrigin
  <2>1. PICK i, j \in Nat : Reads(message, i, j)
    BY <1>7, ReadsSome DEF InOrigin
  <2>2. PICK pairs : pairs = message.maps[i]
    OBVIOUS
  <2>3. PICK p : p = pairs[j + 1]
    OBVIOUS
  <2>4. /\ PairIsAt(message, i, j, p) /\ Map = NameAt(message, i) /\ Map \in MapNames
    BY <1>7, <2>1, <2>2, <2>3, PairAwaited, ReadsWhere DEF InOrigin
  <2>5. Field \notin Framed[Map]
    BY <1>7, <2>4, FramedFields DEF InOrigin
  <2>6. AwaitsIn(message, ValueItem(p))
    BY <1>7, <2>1, <2>2, <2>3, <2>5, PairAwaited DEF InOrigin
  <2>7. p \in PairType /\ p.value \in Seq(Nat) /\ ValueItem(p) = <<Len(p.value)>> \o p.value
    BY <2>4 DEF PairIsAt, PairType, PairOk, ValueItem, LengthItem
  <2>8. PICK b \in Nat : b = Len(p.value) /\ Len(ValueItem(p)) = 1 + b
    <3>1. Len(p.value) \in Nat /\ Len(ValueItem(p)) = 1 + Len(p.value)
      BY <2>7, PairItems
    <3>. QED  BY <3>1
  <2>9. Agree(got, ValueItem(p)) /\ x < 1 + b
    BY <1>1, <1>3, <2>6, <2>8, LessThanItem DEF AwaitsIn
  <2>10. PICK held \in Seq(Nat) : held = got
    BY <1>1
  <2>11. /\ OriginRemaining(held) \in Nat \ {0} /\ HalfPart(held) \in Nat
         /\ x + OriginRemaining(held) <= 1 + b + HalfPart(held)
    BY <1>3, <2>7, <2>8, <2>9, <2>10, OriginAsks
  <2>12. PICK r \in Nat \ {0}, h \in Nat : r = OriginRemaining(held) /\ h = HalfPart(held)
    BY <2>11
  <2>13. place + (1 + b) <= extent
    BY <1>4, <1>5, <2>6, <2>8 DEF AwaitsIn
  <2>14. fed + r <= extent + h
    BY <1>4, <2>11, <2>12, <2>13
  <2>15. ReadLimit = r
    BY <1>7, <2>10, <2>12 DEF ReadLimit, InOrigin
  <2>. QED  BY <1>5, <1>7, <2>10, <2>12, <2>14, <2>15
<1>8. CASE ~(InMap /\ inner = "length") /\ ~InOrigin
  <2>1. PICK item : AwaitsIn(message, item)
    BY <1>1, SomethingAwaited
  <2>2. PICK need : need = Need(got)
    OBVIOUS
  <2>3. need \in Len(got) + 1 .. Len(item)
    BY <1>1, <2>1, <2>2, LessThanItem DEF AwaitsIn
  <2>4. PICK size \in Nat : size = Len(item) /\ place + size <= extent
    BY <1>4, <1>5, <2>1 DEF AwaitsIn
  <2>5. need \in x + 1 .. size
    BY <1>3, <2>3, <2>4
  <2>6. ReadLimit = need - x
    BY <1>1, <1>2, <1>3, <1>8, <2>2 DEF ReadLimit
  <2>7. need - x > 0 /\ fed + (need - x) <= extent
    BY <1>4, <2>4, <2>5
  <2>. QED  BY <1>5, <1>8, <2>6, <2>7
<1>. QED  BY <1>6, <1>7, <1>8

LEMMA AnswerIsRight ==
    ASSUME NEW message, Decodes(message), WellFormed(message)
    PROVE  DecodesMessage
<1>1. /\ expected.ok /\ expected.psbt = Meaning(message) /\ expected.extent = Extent(message)
  BY DEF Decodes, Given, Expected
<1>2. ASSUME status = "ready" PROVE psbt = Meaning(message) /\ pos = Extent(message)
  <2>1. stage = "done"
    BY <1>2 DEF Decodes, Waits
  <2>2. AtEnd(message)
    BY <2>1 DEF Decodes, Place, AtHead, InMaps, ReadTo
  <2>. QED  BY <2>2 DEF AtEnd
<1>3. status \notin {"error", "panicked"}
  BY DEF Decodes, Waits
<1>4. ASSUME status = "ended" PROVE fed < Extent(message)
  <2>1. /\ Held /\ pos = fed /\ ~ListDone /\ Len(got) < Need(got) /\ stage # "done"
        /\ got \in Seq(Nat)
    BY <1>4 DEF Decodes, Waits, Held
  <2>2. PICK item : AwaitsIn(message, item)
    BY <2>1, SomethingAwaited
  <2>3. PICK need : need = Need(got)
    OBVIOUS
  <2>4. Len(got) < Len(item)
    BY <2>1, <2>2, <2>3, LessThanItem DEF AwaitsIn
  <2>5. PICK x \in Nat : x = Len(got)
    BY <2>1
  <2>6. PICK place \in Nat : place = Start /\ fed = place + x
    <3>1. Start \in Nat /\ fed = Start + x
      BY <2>1, <2>5, SeenStands DEF Start, Held
    <3>. QED  BY <3>1
  <2>7. PICK size \in Nat : size = Len(item) /\ place + size <= Extent(message)
    BY <2>2, <2>6 DEF AwaitsIn
  <2>8. x < size
    BY <2>4, <2>5, <2>7
  <2>9. Extent(message) \in Nat
    BY ExtentType DEF Decodes, Given
  <2>. QED  BY <2>6, <2>7, <2>8, <2>9
<1>. QED  BY <1>1, <1>2, <1>3, <1>4 DEF DecodesMessage

-----------------------------------------------------------------------------
(* What was read, of bytes that may be those of no message                  *)

\* The bytes of all that was taken but what is held.
ReadIs(x) == x \in Seq(Nat) /\ Stands(x, bytes, 0) /\ Start = Len(x)

LEMMA TakeReads ==
    ASSUME Held, Take, NEW n \in Nat, n = Need(Seen), NEW item, item = Item
    PROVE  /\ item \in Seq(Nat) /\ Len(item) = n /\ item = SubSeq(Seen, 1, n)
           /\ n <= Len(Seen) /\ Seen \in Seq(Nat)
           /\ Held' /\ got' = <<>> /\ fed' = fed /\ bytes' = bytes
           /\ \A x : ReadIs(x) => ReadIs(x \o item)'
<1>1. /\ Seen \in Seq(Nat) /\ Len(Seen) = fed - Start /\ Start \in Nat /\ Stands(Seen, bytes, Start)
  BY SeenStands
<1>2. PICK seen \in Seq(Nat) : seen = Seen
  BY <1>1
<1>3. n <= Len(seen) /\ item = SubSeq(seen, 1, n)
  BY <1>2 DEF Take, Complete, Item
<1>4. item \in Seq(Nat) /\ Len(item) = n /\ \A i \in 1 .. n : item[i] = seen[i]
  BY <1>3, FirstPart
<1>5. /\ bytes \in Seq(Nat) /\ got \in Seq(Nat) /\ pos \in Nat /\ fed \in Nat /\ fed <= Len(bytes)
      /\ Len(got) <= pos /\ Len(got) \in Nat
  BY DEF Held
<1>6. PICK start \in Nat : start = Start
  BY <1>1
<1>7. start = pos - Len(got)
  BY <1>6 DEF Start
<1>8. pos' = start + n /\ got' = <<>> /\ fed' = fed /\ bytes' = bytes
  <2>1. pos' = pos + (n - Len(got))
    BY DEF Take, Taken
  <2>. QED  BY <1>5, <1>7, <2>1 DEF Take, given
<1>9. Start' = start + n
  <2>1. PICK p \in Nat : p = start + n
    OBVIOUS
  <2>2. Start' = p - Len(<<>>)
    BY <1>8, <2>1 DEF Start
  <2>3. p - Len(<<>>) = p
    OBVIOUS
  <2>. QED  BY <2>1, <2>2, <2>3
<1>10. start + n <= fed /\ fed <= Len(bytes)
  BY <1>1, <1>2, <1>3, <1>5, <1>6
<1>11. Held'
  <2>1. Stands(<<>>, bytes, start + n)
    BY <1>5, <1>10 DEF Stands
  <2>2. Len(<<>>) <= start + n
    OBVIOUS
  <2>. QED  BY <1>5, <1>8, <1>9, <1>10, <2>1, <2>2 DEF Held
<1>12. Stands(item, bytes, start)
  BY <1>1, <1>2, <1>3, <1>4, <1>6, SMTT(20) DEF Stands
<1>13. ASSUME NEW x, ReadIs(x) PROVE ReadIs(x \o item)'
  <2>1. x \in Seq(Nat) /\ Stands(x, bytes, 0) /\ start = Len(x)
    BY <1>13, <1>6 DEF ReadIs
  <2>2. Stands(x \o item, bytes, 0)
    BY <1>4, <1>5, <1>12, <2>1, StandsJoined
  <2>3. x \o item \in Seq(Nat) /\ Len(x \o item) = start + n
    BY <1>4, <2>1, Concat
  <2>. QED  BY <1>8, <1>9, <2>2, <2>3 DEF ReadIs
<1>. QED  BY <1>1, <1>2, <1>3, <1>4, <1>8, <1>11, <1>13

-----------------------------------------------------------------------------
(* The message that was read *)

\* The map behind those of a message.
NextMap(m) == Len(m.maps) + 1

\* The maps done are those of m, and in order.
OfMaps(m) ==
    /\ m \in MessageType /\ m.format = format
    /\ m.magic = PSBT_MAGIC /\ m.separator = PSBT_SEPARATOR
    /\ MapsOk(m) /\ ReadTo(m, NextMap(m))
    /\ stage # "global" => m.maps # <<>>
    /\ stage # "global" /\ format = 0 => tx = TxOfMessage(m)

FrontOf(m, pairs) == Bytes(m) \o FlattenSeq(PairSeqs(pairs))

\* The entries of the current map are those of pairs.
OfPairs(pairs) ==
    /\ pairs \in Seq(PairType) /\ PairsOk(Map, pairs) /\ KeysDiffer(Map, pairs)
    /\ fields = Entries(Map, pairs)

KeyRead == key \in KeyType /\ ~KeyRefused(Map, Field, key.data)

\* Behind front, in the parts of a pair.
InPart(front) ==
    \/ inner = "separator" /\ ReadIs(front)
    \/ inner = "key" /\ ReadIs(front) /\ Start < Len(bytes) /\ bytes[Start + 1] # 0
    \/ /\ inner = "length" /\ KeyRead /\ Field \in Framed[Map]
       /\ ReadIs(front \o KeyItem(key))
    \/ /\ inner = "value" /\ KeyRead /\ Field \in Framed[Map]
       /\ declared \in Nat /\ consumed = Len(got)
       /\ ReadIs((front \o KeyItem(key)) \o <<declared>>)
    \/ /\ inner = "value" /\ KeyRead /\ Field \notin Framed[Map]
       /\ ReadIs(front \o KeyItem(key))

ReadsMaps(m) ==
    /\ OfMaps(m)
    /\ IF ListDone THEN inner = "separator" /\ fields = {} /\ got = <<>> /\ ReadIs(Bytes(m))
       ELSE \E pairs : OfPairs(pairs) /\ InPart(FrontOf(m, pairs))

ReadsHead ==
    /\ \/ stage = "magic" /\ ReadIs(<<>>)
       \/ stage = "separator" /\ ReadIs(PSBT_MAGIC)
    /\ inner = "separator" /\ fields = {} /\ psbt = EmptyPsbt

\* All of a message that is well formed was read, and nothing behind it.
HasRead(m) ==
    /\ m \in MessageType /\ m.format = format /\ WellFormed(m)
    /\ Len(m.maps) = 1 + InputCount(m) + OutputCount(m)
    /\ Stands(Bytes(m), bytes, 0) /\ pos = Len(Bytes(m))
    /\ psbt = Meaning(m)

\* It answered, or never will.
Stuck ==
    \/ status \in {"error", "panicked"}
    \/ inner = "runaway" /\ InMap

ReadSome ==
    \/ Stuck
    \/ ReadsHead
    \/ \E m : ReadsMaps(m)
    \/ stage = "done" /\ \E m : HasRead(m)

Sound ==
    /\ Held /\ format \in {0, 2}
    /\ status = "ready" => stage = "done"
    /\ ReadSome

-----------------------------------------------------------------------------
(* Steps that take nothing *)

LEMMA StuckStays ==
    ASSUME Stuck, Turn \/ (\E n \in Chunks : Push(n)) \/ End \/ UNCHANGED vars
    PROVE  Stuck' /\ (status' = "ready" => status = "ready")
<1>1. CASE status \in {"error", "panicked"}
  <2>1. ~Running /\ status # "waiting"
    BY <1>1 DEF Running
  <2>2. ~Turn
    BY <2>1 DEF Turn, NeedsMore, EndMagic, EndSeparator, StartKey, EndKey, EndLength, EndValue, Overrun,
                EndGlobal, EndGlobal0, EndInput, EndInput0, EndOutput, EndOutput0, EndInputs, EndInputs0,
                EndOutputs, EndOutputs0, AtEndOfMap, Take
  <2>3. UNCHANGED vars
    BY <2>1, <2>2 DEF Push, End
  <2>4. status' = status
    BY <2>3 DEF vars
  <2>5. status' \in {"error", "panicked"}
    BY <1>1, <2>4
  <2>6. Stuck'
    BY <2>5 DEF Stuck
  <2>. QED  BY <2>4, <2>6
<1>2. CASE inner = "runaway" /\ InMap
  <2>1. stage \in {"global", "inputs", "outputs"} /\ ~ListDone
    BY <1>2 DEF InMap
  <2>2. Turn => NeedsMore
    BY <1>2, <2>1 DEF Turn, EndMagic, EndSeparator, StartKey, EndKey, EndLength, EndValue, Overrun,
                EndGlobal, EndGlobal0, EndInput, EndInput0, EndOutput, EndOutput0, EndInputs, EndInputs0,
                EndOutputs, EndOutputs0, AtEndOfMap
  <2>3. UNCHANGED reading /\ (status' = "ready" => status = "ready")
    BY <2>2 DEF NeedsMore, Push, End, vars
  <2>4. InMap' <=> InMap
    BY <2>3 DEF InMap, ListDone, reading
  <2>. QED  BY <1>2, <2>3, <2>4 DEF Stuck, reading
<1>. QED  BY <1>1, <1>2 DEF Stuck

LEMMA SameRead ==
    ASSUME NEW x, ReadIs(x), bytes' = bytes, Start' = Start
    PROVE  ReadIs(x)'
  BY DEF ReadIs

LEMMA SameMaps ==
    ASSUME NEW m, OfMaps(m), UNCHANGED <<format, stage, psbt, tx>>
    PROVE  OfMaps(m)' /\ ListDone' = ListDone /\ Map' = Map
<1>1. ReadTo(m, NextMap(m))'
  BY DEF ReadTo, OfMaps
<1>. QED  BY <1>1 DEF OfMaps, ListDone, Map, Kind

\* A step that keeps what a decoder made of the bytes.
LEMMA SoundStays ==
    ASSUME Sound, ~Stuck, UNCHANGED <<given, reading>>, Start' = Start, Held',
           stage = "done" => pos' = pos,
           consumed = Len(got) /\ InMap /\ inner = "value" /\ Field \in Framed[Map]
               => consumed' = Len(got'),
           ListDone /\ got = <<>> => got' = <<>>,
           status' = "ready" => status = "ready"
    PROVE  Sound'
<1>1. /\ format' = format /\ bytes' = bytes /\ stage' = stage /\ inner' = inner
      /\ declared' = declared /\ key' = key /\ fields' = fields /\ tx' = tx /\ psbt' = psbt
  BY DEF given, reading
<1>2. Map' = Map /\ Field' = Field /\ (ListDone' <=> ListDone) /\ (KeyRead' <=> KeyRead)
  BY <1>1 DEF Map, Kind, Field, ListDone, KeyRead
<1>3. ASSUME NEW x, ReadIs(x) PROVE ReadIs(x)'
  BY <1>1, <1>3, SameRead
<1>4. ASSUME ReadsHead PROVE ReadsHead'
  BY <1>1, <1>3, <1>4 DEF ReadsHead
<1>5. ASSUME NEW m, ReadsMaps(m) PROVE ReadsMaps(m)'
  <2>1. OfMaps(m)' /\ OfMaps(m)
    BY <1>1, <1>5, SameMaps DEF ReadsMaps
  <2>2. CASE ListDone
    BY <1>1, <1>2, <1>3, <1>5, <2>1, <2>2 DEF ReadsMaps
  <2>3. CASE ~ListDone
    <3>1. PICK pairs : OfPairs(pairs) /\ InPart(FrontOf(m, pairs))
      BY <1>5, <2>3 DEF ReadsMaps
    <3>2. OfPairs(pairs)'
      BY <1>1, <1>2, <3>1 DEF OfPairs
    <3>3. PICK front : front = FrontOf(m, pairs)
      OBVIOUS
    <3>4. InMap
      BY <2>1, <2>3 DEF OfMaps, ReadTo, InMap
    <3>5. InPart(front)'
      <4>1. PICK item : item = KeyItem(key)
        OBVIOUS
      <4>2. item = KeyItem(key')
        BY <1>1, <4>1
      <4>3. CASE inner \in {"separator", "key"}
        BY <1>1, <1>3, <3>1, <3>3, <4>3 DEF InPart
      <4>4. CASE inner = "length"
        <5>1. KeyRead /\ Field \in Framed[Map] /\ ReadIs(front \o item)
          BY <3>1, <3>3, <4>1, <4>4 DEF InPart
        <5>2. ReadIs(front \o item)'
          BY <1>3, <5>1
        <5>. QED  BY <1>1, <1>2, <4>2, <4>4, <5>1, <5>2 DEF InPart
      <4>5. CASE inner = "value" /\ Field \in Framed[Map]
        <5>1. PICK length : length = <<declared>>
          OBVIOUS
        <5>2. KeyRead /\ declared \in Nat /\ consumed = Len(got) /\ ReadIs((front \o item) \o length)
          BY <3>1, <3>3, <4>1, <4>5, <5>1 DEF InPart
        <5>3. ReadIs((front \o item) \o length)'
          BY <1>3, <5>2
        <5>4. length = <<declared'>> /\ consumed' = Len(got')
          BY <1>1, <3>4, <4>5, <5>1, <5>2
        <5>. QED  BY <1>1, <1>2, <4>2, <4>5, <5>2, <5>3, <5>4 DEF InPart
      <4>6. CASE inner = "value" /\ Field \notin Framed[Map]
        <5>1. KeyRead /\ ReadIs(front \o item)
          BY <3>1, <3>3, <4>1, <4>6 DEF InPart
        <5>2. ReadIs(front \o item)'
          BY <1>3, <5>1
        <5>. QED  BY <1>1, <1>2, <4>2, <4>6, <5>1, <5>2 DEF InPart
      <4>. QED  BY <3>1, <3>3, <4>3, <4>4, <4>5, <4>6 DEF InPart
    <3>. QED  BY <1>2, <2>1, <2>3, <3>2, <3>3, <3>5 DEF ReadsMaps
  <2>. QED  BY <2>2, <2>3
<1>6. ASSUME stage = "done", NEW m, HasRead(m) PROVE HasRead(m)'
  BY <1>1, <1>6 DEF HasRead
<1>7. ReadSome'
  <2>1. CASE ReadsHead
    BY <1>4, <2>1 DEF ReadSome
  <2>2. CASE \E m : ReadsMaps(m)
    BY <1>5, <2>2 DEF ReadSome
  <2>3. CASE stage = "done" /\ \E m : HasRead(m)
    BY <1>1, <1>6, <2>3 DEF ReadSome
  <2>. QED  BY <2>1, <2>2, <2>3 DEF Sound, ReadSome
<1>. QED  BY <1>1, <1>7 DEF Sound

LEMMA PushHolds ==
    ASSUME Held, NEW n \in Chunks, Push(n)
    PROVE  Held' /\ Start' = Start
<1>1. bytes \in Seq(Nat) /\ bytes' = bytes /\ n \in Nat /\ fed \in Nat /\ fed <= Len(bytes)
        /\ pos \in Nat /\ pos <= fed /\ pos' = pos /\ got' = got
  BY DecoderAssumption DEF Held, given, Push, taking
<1>2. fed' \in Nat /\ fed <= fed' /\ fed' <= Len(bytes)
  BY <1>1 DEF Push
<1>3. pos <= fed' /\ Start' = Start
  BY <1>1, <1>2 DEF Start
<1>. QED  BY <1>1, <1>2, <1>3 DEF Held

LEMMA NeedsMoreCounts ==
    ASSUME Held, NeedsMore, consumed = Len(got), inner = "value", Field \in Framed[Map], InMap
    PROVE  consumed' = Len(got')
<1>1. Start = pos - Len(got) /\ Len(Seen) = fed - Start /\ Start \in Nat
        /\ pos \in Nat /\ fed \in Nat /\ Len(got) \in Nat
  BY SeenStands DEF Held, Start
<1>2. got' = Seen /\ consumed' = CountConsumed
  BY DEF NeedsMore
<1>. QED  BY <1>1, <1>2 DEF CountConsumed

LEMMA SameHolds ==
    ASSUME Held, UNCHANGED <<given, fed, pos, got>>
    PROVE  Held' /\ Start' = Start
  BY DEF Held, Start, given

LEMMA StuckSound ==
    ASSUME Sound, Stuck, Turn \/ (\E n \in Chunks : Push(n)) \/ End \/ UNCHANGED vars
    PROVE  Sound'
<1>1. Stuck' /\ (status' = "ready" => status = "ready")
  BY StuckStays
<1>2. Held' /\ format' = format /\ stage' = stage
  <2>1. CASE NeedsMore
    BY <2>1, NeedsMoreStays DEF Sound, NeedsMore, given, reading
  <2>2. CASE \E n \in Chunks : Push(n)
    <3>1. PICK n \in Chunks : Push(n)
      BY <2>2
    <3>. QED  BY <3>1, PushHolds DEF Sound, Push, given, reading
  <2>3. CASE End \/ UNCHANGED vars
    <3>1. UNCHANGED <<given, fed, pos, got, stage>>
      BY <2>3 DEF End, vars, taking, reading
    <3>. QED  BY <3>1, SameHolds DEF Sound, given
  <2>4. Turn => NeedsMore
    <3>1. CASE status \in {"error", "panicked"}
      <4>1. ~Running
        BY <3>1 DEF Running
      <4>. QED  BY <4>1 DEF Turn, NeedsMore, EndMagic, EndSeparator, StartKey, EndKey, EndLength,
             EndValue, Overrun, EndGlobal, EndGlobal0, EndInput, EndInput0, EndOutput, EndOutput0,
             EndInputs, EndInputs0, EndOutputs, EndOutputs0, AtEndOfMap, Take
    <3>2. CASE inner = "runaway" /\ InMap
      <4>1. stage \in {"global", "inputs", "outputs"} /\ ~ListDone
        BY <3>2 DEF InMap
      <4>. QED  BY <3>2, <4>1 DEF Turn, EndMagic, EndSeparator, StartKey, EndKey, EndLength, EndValue,
             Overrun, EndGlobal, EndGlobal0, EndInput, EndInput0, EndOutput, EndOutput0, EndInputs,
             EndInputs0, EndOutputs, EndOutputs0, AtEndOfMap
    <3>. QED  BY <3>1, <3>2 DEF Stuck
  <2>. QED  BY <2>1, <2>2, <2>3, <2>4
<1>. QED  BY <1>1, <1>2 DEF Sound, ReadSome

LEMMA WaitsSound ==
    ASSUME Sound, NeedsMore \/ (\E n \in Chunks : Push(n)) \/ End \/ UNCHANGED vars
    PROVE  Sound'
<1>1. CASE Stuck
  BY <1>1, StuckSound DEF Turn
<1>2. CASE ~Stuck /\ NeedsMore
  <2>1. UNCHANGED <<given, reading>> /\ stage # "done" /\ ~ListDone /\ status' = "waiting" /\ Held
    BY <1>2 DEF NeedsMore, Sound
  <2>2. Held' /\ Start' = Start
    BY <1>2, <2>1, NeedsMoreStays
  <2>3. consumed = Len(got) /\ InMap /\ inner = "value" /\ Field \in Framed[Map] => consumed' = Len(got')
    BY <1>2, <2>1, NeedsMoreCounts
  <2>. QED  BY <1>2, <2>1, <2>2, <2>3, SoundStays
<1>3. CASE ~Stuck /\ \E n \in Chunks : Push(n)
  <2>1. PICK n \in Chunks : Push(n)
    BY <1>3
  <2>2. UNCHANGED <<given, reading>> /\ status' = "running" /\ Held
          /\ pos' = pos /\ got' = got /\ consumed' = consumed
    BY <2>1 DEF Push, Sound, taking
  <2>3. Held' /\ Start' = Start
    BY <2>1, <2>2, PushHolds
  <2>. QED  BY <1>3, <2>2, <2>3, SoundStays
<1>4. CASE ~Stuck /\ (End \/ UNCHANGED vars)
  <2>1. UNCHANGED <<given, reading>> /\ (status' = "ready" => status = "ready") /\ Held
          /\ pos' = pos /\ got' = got /\ consumed' = consumed /\ fed' = fed
    BY <1>4 DEF End, vars, Sound, taking
  <2>2. Held' /\ Start' = Start
    BY <2>1, SameHolds
  <2>. QED  BY <1>4, <2>1, <2>2, SoundStays
<1>. QED  BY <1>1, <1>2, <1>3, <1>4

-----------------------------------------------------------------------------
(* The head *)

LEMMA FailSound ==
    ASSUME Held', format' \in {0, 2}, Fail
    PROVE  Sound'
<1>1. status' = "error"
  BY DEF Fail
<1>. QED  BY <1>1 DEF Sound, ReadSome, Stuck

LEMMA MapIsOne ==
    ASSUME format \in {0, 2}
    PROVE  Map \in MapNames
<1>1. Kind \in {"global", "input", "output"}
  BY DEF Kind
<1>. QED  BY <1>1, MapNamesOf DEF Map

\* A decoder takes items of these kinds.
Asks ==
    \/ stage \in {"magic", "separator"} /\ inner = "separator"
    \/ InMap /\ inner \in {"separator", "key", "length", "value"}

LEMMA NeedType ==
    ASSUME Held, Asks
    PROVE  Need(Seen) \in Nat
<1>1. PICK seen \in Seq(Nat) : seen = Seen
  BY SeenStands
<1>2. PICK f : f = Field
  OBVIOUS
<1>3. InnerSize(f, seen) \in Nat
  BY InnerSizePositive
<1>4. BehindLength(f, seen) \in Nat
  BY BehindLengthType
<1>5. PrefixedSize(seen) \in Nat
  <2>1. Prefix(seen, seen)
    BY DEF Prefix
  <2>. QED  BY <2>1, PrefixedSizeSteady
<1>6. Need(seen) \in Nat
  <2>1. CASE stage \in {"magic", "separator"} /\ inner = "separator"
    BY <2>1 DEF Need
  <2>2. CASE InMap /\ inner \in {"separator", "key", "length", "value"}
    BY <1>2, <1>3, <1>4, <1>5, <2>2, NeedIs
  <2>. QED  BY <2>1, <2>2 DEF Asks
<1>. QED  BY <1>1, <1>6

\* What the item and its length are, after it was taken.
Takes(n, item) ==
    /\ n \in Nat /\ item \in Seq(Nat) /\ Len(item) = n /\ item = Item /\ n = Need(Seen)

LEMMA TakeHolds ==
    ASSUME Sound, Take, Asks
    PROVE  /\ \E n, item : Takes(n, item)
           /\ Held' /\ got' = <<>> /\ fed' = fed /\ UNCHANGED given /\ format' \in {0, 2}
           /\ status = "running" /\ format \in {0, 2} /\ Held
<1>1. Held /\ format \in {0, 2}
  BY DEF Sound
<1>2. PICK n \in Nat : n = Need(Seen)
  BY <1>1, NeedType
<1>3. PICK item : item = Item
  OBVIOUS
<1>4. item \in Seq(Nat) /\ Len(item) = n /\ Held' /\ got' = <<>> /\ fed' = fed
  BY <1>1, <1>2, <1>3, TakeReads
<1>5. UNCHANGED given /\ format' = format /\ status = "running"
  BY DEF Take, given, Running
<1>. QED  BY <1>1, <1>2, <1>3, <1>4, <1>5 DEF Takes

LEMMA TakeGives ==
    ASSUME Sound, Take, Asks, NEW n, NEW item, Takes(n, item), NEW x, ReadIs(x)
    PROVE  ReadIs(x \o item)'
<1>1. Held /\ n \in Nat /\ n = Need(Seen) /\ item = Item
  BY DEF Takes, Sound
<1>. QED  BY <1>1, TakeReads

LEMMA ReadsWhereItIs ==
    ASSUME Sound, ~Stuck
    PROVE  /\ stage \in {"magic", "separator"} => ReadsHead
           /\ stage \in {"global", "inputs", "outputs"} => \E m : ReadsMaps(m)
<1>1. ReadsHead => stage \in {"magic", "separator"}
  BY DEF ReadsHead
<1>2. (\E m : ReadsMaps(m)) => stage \in {"global", "inputs", "outputs"}
  BY DEF ReadsMaps, OfMaps, ReadTo
<1>. QED  BY <1>1, <1>2 DEF Sound, ReadSome

LEMMA EndMagicSound ==
    ASSUME Sound, ~Stuck, EndMagic
    PROVE  Sound'
<1>1. stage = "magic" /\ Take /\ ReadsHead
  BY ReadsWhereItIs DEF EndMagic
<1>2. Asks
  BY <1>1 DEF Asks, ReadsHead
<1>3. PICK n, item : Takes(n, item)
  BY <1>1, <1>2, TakeHolds
<1>4. Held' /\ got' = <<>> /\ UNCHANGED given /\ format' \in {0, 2} /\ status = "running"
  BY <1>1, <1>2, TakeHolds
<1>5. CASE item = PSBT_MAGIC
  <2>1. stage' = "separator" /\ UNCHANGED <<status, consumed, inner, declared, key, fields, tx, psbt>>
    BY <1>3, <1>5 DEF EndMagic, Takes, Fail
  <2>2. ReadIs(<<>> \o item)'
    BY <1>1, <1>2, <1>3, TakeGives DEF ReadsHead
  <2>3. <<>> \o item = PSBT_MAGIC
    BY <1>3, <1>5 DEF Takes
  <2>4. ReadsHead'
    BY <1>1, <2>1, <2>2, <2>3 DEF ReadsHead
  <2>. QED  BY <1>4, <2>1, <2>4 DEF Sound, ReadSome
<1>6. CASE item # PSBT_MAGIC
  <2>1. Fail
    BY <1>3, <1>6 DEF EndMagic, Takes
  <2>. QED  BY <1>4, <2>1, FailSound
<1>. QED  BY <1>5, <1>6

LEMMA NoPairs ==
    ASSUME NEW map, NEW pairs, pairs = <<>>
    PROVE  /\ pairs \in Seq(PairType) /\ PairsOk(map, pairs) /\ KeysDiffer(map, pairs)
           /\ Entries(map, pairs) = {}
           /\ \A m \in MessageType : FrontOf(m, pairs) = Bytes(m)
<1>1. pairs \in Seq(PairType) /\ Len(pairs) = 0
  OBVIOUS
<1>2. PairsOk(map, pairs) /\ KeysDiffer(map, pairs) /\ Entries(map, pairs) = {}
  BY <1>1 DEF PairsOk, KeysDiffer, Entries
<1>3. ASSUME NEW m \in MessageType PROVE FrontOf(m, pairs) = Bytes(m)
  <2>1. PairSeqs(pairs) = <<>>
    BY <1>1 DEF PairSeqs
  <2>2. FlattenSeq(<<>>) = <<>>
    BY DEF FlattenSeq
  <2>3. PICK x \in Seq(Nat) : x = Bytes(m)
    BY BytesType
  <2>4. x \o <<>> = x
    OBVIOUS
  <2>. QED  BY <2>1, <2>2, <2>3, <2>4 DEF FrontOf
<1>. QED  BY <1>1, <1>2, <1>3

\* Behind a map.
LEMMA MapAheadSound ==
    ASSUME format' \in {0, 2}, Held', status' = "running",
           NEW m, OfMaps(m)', ReadIs(Bytes(m))',
           inner' = "separator", fields' = {}, got' = <<>>
    PROVE  Sound'
<1>1. ReadsMaps(m)'
  <2>1. CASE ListDone'
    BY <2>1 DEF ReadsMaps
  <2>2. CASE ~ListDone'
    <3>1. PICK none : none = <<>>
      OBVIOUS
    <3>2. PICK map : map = Map'
      OBVIOUS
    <3>3. m \in MessageType
      BY DEF OfMaps
    <3>4. /\ none \in Seq(PairType) /\ PairsOk(map, none) /\ KeysDiffer(map, none)
          /\ Entries(map, none) = {} /\ FrontOf(m, none) = Bytes(m)
      BY <3>1, <3>3, NoPairs
    <3>5. OfPairs(none)'
      BY <3>2, <3>4 DEF OfPairs
    <3>6. PICK front : front = FrontOf(m, none)
      OBVIOUS
    <3>7. InPart(front)'
      <4>1. ReadIs(front)'
        BY <3>4, <3>6
      <4>. QED  BY <4>1 DEF InPart
    <3>. QED  BY <2>2, <3>5, <3>6, <3>7 DEF ReadsMaps
  <2>. QED  BY <2>1, <2>2
<1>. QED  BY <1>1 DEF Sound, ReadSome

LEMMA EndSeparatorSound ==
    ASSUME Sound, ~Stuck, EndSeparator
    PROVE  Sound'
<1>1. stage = "separator" /\ Take /\ ReadsHead
  BY ReadsWhereItIs DEF EndSeparator
<1>2. Asks
  BY <1>1 DEF Asks, ReadsHead
<1>3. PICK n, item : Takes(n, item)
  BY <1>1, <1>2, TakeHolds
<1>4. Held' /\ got' = <<>> /\ UNCHANGED given /\ format' \in {0, 2} /\ status = "running"
  BY <1>1, <1>2, TakeHolds
<1>5. CASE item = <<PSBT_SEPARATOR>>
  <2>1. stage' = "global" /\ UNCHANGED <<status, consumed, inner, declared, key, fields, tx, psbt>>
    BY <1>3, <1>5 DEF EndSeparator, Takes, Fail
  <2>2. ReadIs(PSBT_MAGIC \o <<PSBT_SEPARATOR>>)'
    <3>1. ReadIs(PSBT_MAGIC)
      BY <1>1 DEF ReadsHead
    <3>2. PICK magic : magic = PSBT_MAGIC
      OBVIOUS
    <3>3. ReadIs(magic \o item)'
      BY <1>1, <1>2, <1>3, <3>1, <3>2, TakeGives
    <3>. QED  BY <1>5, <3>2, <3>3
  <2>3. PICK f \in {0, 2} : f = format'
    BY <1>4
  <2>4. PICK m : m = MessageOf(f, <<>>)
    OBVIOUS
  <2>5. /\ m \in MessageType /\ m.format = f /\ m.maps = <<>>
        /\ m.magic = PSBT_MAGIC /\ m.separator = PSBT_SEPARATOR
    <3>1. PICK none : none = <<>>
      OBVIOUS
    <3>2. none \in Seq(Seq(PairType))
      BY <3>1
    <3>3. m = MessageOf(f, none)
      BY <2>4, <3>1
    <3>. QED  BY <3>1, <3>2, <3>3, MessageOfType
  <2>6. ReadIs(Bytes(m))'
    <3>1. Bytes(m) = PSBT_MAGIC \o <<PSBT_SEPARATOR>>
      BY <2>4, NoMapBytes
    <3>. QED  BY <2>2, <3>1
  <2>7. OfMaps(m)'
    <3>1. MapsOk(m)
      BY <2>5 DEF MapsOk
    <3>2. NextMap(m) = 1
      BY <2>5 DEF NextMap
    <3>3. psbt' = EmptyPsbt
      BY <1>1, <2>1 DEF ReadsHead
    <3>4. ReadTo(m, NextMap(m))'
      BY <2>1, <3>2, <3>3 DEF ReadTo
    <3>. QED  BY <2>1, <2>3, <2>5, <3>1, <3>4 DEF OfMaps
  <2>. QED  BY <1>1, <1>4, <2>1, <2>6, <2>7, MapAheadSound DEF ReadsHead
<1>6. CASE item # <<PSBT_SEPARATOR>>
  <2>1. Fail
    BY <1>3, <1>6 DEF EndSeparator, Takes
  <2>. QED  BY <1>4, <2>1, FailSound
<1>. QED  BY <1>5, <1>6

-----------------------------------------------------------------------------
(* In a pair *)

\* Behind some pairs of a map.
InMapOf(m, pairs) ==
    OfMaps(m) /\ ~ListDone /\ InMap /\ OfPairs(pairs) /\ InPart(FrontOf(m, pairs))

LEMMA ReadsPairs ==
    ASSUME Sound, ~Stuck, InMap
    PROVE  \E m, pairs : InMapOf(m, pairs)
<1>1. stage \in {"global", "inputs", "outputs"} /\ ~ListDone
  BY DEF InMap
<1>2. PICK m : ReadsMaps(m)
  BY <1>1, ReadsWhereItIs
<1>. QED  BY <1>1, <1>2 DEF ReadsMaps, InMapOf

LEMMA PartSound ==
    ASSUME format' \in {0, 2}, Held', status' = "running",
           NEW m, NEW pairs, OfMaps(m), InMap, UNCHANGED <<format, stage, psbt, tx>>,
           OfPairs(pairs)', InPart(FrontOf(m, pairs))'
    PROVE  Sound'
<1>1. OfMaps(m)' /\ ListDone' = ListDone
  BY SameMaps
<1>2. ~ListDone
  BY DEF InMap
<1>3. ReadsMaps(m)'
  BY <1>1, <1>2 DEF ReadsMaps
<1>. QED  BY <1>3 DEF Sound, ReadSome

LEMMA SamePairs ==
    ASSUME NEW pairs, OfPairs(pairs), UNCHANGED <<format, stage, fields>>
    PROVE  OfPairs(pairs)'
<1>1. Map' = Map
  BY DEF Map, Kind
<1>. QED  BY <1>1 DEF OfPairs

LEMMA FrontType ==
    ASSUME NEW m \in MessageType, NEW pairs \in Seq(PairType)
    PROVE  FrontOf(m, pairs) \in Seq(Nat)
<1>1. Bytes(m) \in Seq(Nat) /\ FlattenSeq(PairSeqs(pairs)) \in Seq(Nat)
  BY BytesType, MapBytesType
<1>. QED  BY <1>1, Concat DEF FrontOf

PairAdded(map, m, pairs, p, more) ==
    /\ more \in Seq(PairType) /\ PairsOk(map, more) /\ KeysDiffer(map, more)
    /\ Entries(map, more) = Entries(map, pairs) \union {EntryAt(map, p)}
    /\ FrontOf(m, more) = FrontOf(m, pairs) \o PairBytes(p)

LEMMA PairRead ==
    ASSUME NEW map, NEW pairs \in Seq(PairType), PairsOk(map, pairs), KeysDiffer(map, pairs),
           NEW p \in PairType, PairOk(map, p), NewKey(Entries(map, pairs), EntryAt(map, p)),
           NEW m \in MessageType
    PROVE  \E more : PairAdded(map, m, pairs, p, more)
<1>1. PICK more : more = Append(pairs, p)
  OBVIOUS
<1>2. more \in Seq(PairType) /\ Appends(more, pairs, p)
  BY <1>1, AppendIs
<1>3. PairsOk(map, more)
  BY <1>1, PairsStillOk
<1>4. KeysDiffer(map, more)
  BY <1>1, KeysStillDiffer
<1>5. Entries(map, more) = Entries(map, pairs) \union {EntryAt(map, p)}
  BY <1>2, EntriesOfMore
<1>6. FlattenSeq(PairSeqs(more)) = FlattenSeq(PairSeqs(pairs)) \o PairBytes(p)
  BY <1>1, PairsAppend
<1>7. PICK a \in Seq(Nat) : a = Bytes(m)
  BY BytesType
<1>8. PICK b \in Seq(Nat) : b = FlattenSeq(PairSeqs(pairs))
  BY MapBytesType
<1>9. PICK c \in Seq(Nat) : c = PairBytes(p)
  BY PairBytesType
<1>10. Associates(a, b, c)
  BY ConcatAssociates
<1>11. FrontOf(m, more) = FrontOf(m, pairs) \o PairBytes(p)
  BY <1>6, <1>7, <1>8, <1>9, <1>10 DEF FrontOf, Associates
<1>. QED  BY <1>2, <1>3, <1>4, <1>5, <1>11 DEF PairAdded

-----------------------------------------------------------------------------
(* The parts of a pair *)

LEMMA StartKeySound ==
    ASSUME Sound, ~Stuck, StartKey
    PROVE  Sound'
<1>1. InMap /\ inner = "separator" /\ Complete /\ Item # <<EndOfMap>> /\ status = "running"
        /\ Held /\ format \in {0, 2}
  BY DEF StartKey, Running, Sound
<1>2. PICK m, pairs : InMapOf(m, pairs)
  BY <1>1, ReadsPairs
<1>3. /\ inner' = "key"
      /\ UNCHANGED <<given, fed, status, first, taking, stage, declared, key, fields, tx, psbt>>
  BY DEF StartKey
<1>4. Held' /\ Start' = Start /\ bytes' = bytes /\ format' = format
  BY <1>1, <1>3, SameHolds DEF taking, given
<1>5. Start < Len(bytes) /\ bytes[Start + 1] # 0
  <2>1. /\ Seen \in Seq(Nat) /\ Start \in Nat /\ Stands(Seen, bytes, Start)
    BY <1>1, SeenStands
  <2>2. PICK seen \in Seq(Nat) : seen = Seen
    BY <2>1
  <2>3. Need(seen) = 1
    BY <1>1, NeedIs
  <2>4. Len(seen) >= 1 /\ Item = SubSeq(seen, 1, 1)
    BY <1>1, <2>2, <2>3 DEF Complete, Item
  <2>5. SubSeq(seen, 1, 1) = <<seen[1]>>
    <3>1. PICK first1 : first1 = SubSeq(seen, 1, 1)
      OBVIOUS
    <3>2. first1 \in Seq(Nat) /\ Len(first1) = 1 /\ \A i \in 1 .. 1 : first1[i] = seen[i]
      BY <2>4, <3>1, FirstPart
    <3>3. PICK x \in Nat : x = seen[1] /\ first1[1] = x
      BY <2>4, <3>2
    <3>4. PICK one : one = <<x>>
      OBVIOUS
    <3>5. one \in Seq(Nat) /\ Len(one) = 1 /\ one[1] = x
      BY <3>4
    <3>6. first1 = one
      BY <3>2, <3>3, <3>5, SamePoints
    <3>. QED  BY <3>1, <3>3, <3>4, <3>6
  <2>6. seen[1] # 0
    BY <1>1, <2>4, <2>5 DEF EndOfMap
  <2>7. 1 \in 1 .. Len(seen)
    BY <2>4
  <2>8. bytes[Start + 1] = seen[1] /\ Start + Len(seen) <= Len(bytes)
    BY <2>1, <2>2, <2>7 DEF Stands
  <2>9. Len(bytes) \in Nat /\ Len(seen) \in Nat
    BY <1>1, <2>2 DEF Held
  <2>. QED  BY <2>1, <2>4, <2>6, <2>8, <2>9
<1>6. PICK front : front = FrontOf(m, pairs)
  OBVIOUS
<1>7. ReadIs(front)
  BY <1>1, <1>2, <1>6 DEF InMapOf, InPart
<1>8. InPart(front)'
  <2>1. ReadIs(front)'
    BY <1>4, <1>7, SameRead
  <2>. QED  BY <1>3, <1>4, <1>5, <2>1 DEF InPart
<1>9. OfPairs(pairs)'
  BY <1>2, <1>3, <1>4, SamePairs DEF InMapOf
<1>. QED  BY <1>1, <1>2, <1>3, <1>4, <1>6, <1>8, <1>9, PartSound DEF InMapOf

LEMMA EndKeySound ==
    ASSUME Sound, ~Stuck, EndKey
    PROVE  Sound'
<1>1. InMap /\ inner = "key" /\ Take
  BY DEF EndKey
<1>2. Asks
  BY <1>1 DEF Asks
<1>3. PICK n, item : Takes(n, item)
  BY <1>1, <1>2, TakeHolds
<1>4. Held' /\ Held /\ got' = <<>> /\ UNCHANGED given /\ format' \in {0, 2} /\ status = "running"
  BY <1>1, <1>2, TakeHolds
<1>5. PICK m, pairs : InMapOf(m, pairs)
  BY <1>1, ReadsPairs
<1>6. PICK front : front = FrontOf(m, pairs)
  OBVIOUS
<1>7. ReadIs(front) /\ Start < Len(bytes) /\ bytes[Start + 1] # 0
  BY <1>1, <1>5, <1>6 DEF InMapOf, InPart
<1>8. item \in Seq(Nat) /\ n \in Nat /\ n = Len(item) /\ n >= 2 /\ item[1] = n - 1
  <2>1. /\ Seen \in Seq(Nat) /\ Start \in Nat /\ Stands(Seen, bytes, Start)
    BY <1>4, SeenStands
  <2>2. PICK seen \in Seq(Nat) : seen = Seen
    BY <2>1
  <2>3. n = PrefixedSize(seen)
    BY <1>1, <1>3, <2>2, NeedIs DEF Takes
  <2>4. n <= Len(seen) /\ item = SubSeq(seen, 1, n) /\ n \in Nat /\ item \in Seq(Nat) /\ Len(item) = n
    BY <1>1, <1>3, <2>2 DEF Takes, Take, Complete, Item
  <2>5. seen # <<>>
    BY <2>3, <2>4 DEF PrefixedSize
  <2>6. 1 \in 1 .. Len(seen) /\ seen[1] \in Nat
    BY <2>5
  <2>7. seen[1] = bytes[Start + 1] /\ n = 1 + seen[1]
    BY <2>1, <2>2, <2>3, <2>5, <2>6 DEF Stands, PrefixedSize
  <2>8. n >= 2
    BY <1>7, <2>6, <2>7
  <2>9. item[1] = seen[1]
    BY <2>4, <2>8
  <2>. QED  BY <2>4, <2>6, <2>7, <2>8, <2>9
<1>9. PICK k : k = [type |-> item[2], data |-> SubSeq(item, 3, Len(item))]
  OBVIOUS
<1>10. k \in KeyType /\ KeyItem(k) = item
  BY <1>8, <1>9, KeyItemIs
<1>11. PICK field : field = FieldOf(Map, k.type)
  OBVIOUS
<1>12. CASE ~KeyRefused(Map, field, k.data)
  <2>0. k.type = item[2] /\ k.data = SubSeq(item, 3, Len(item))
    BY <1>9
  <2>1. /\ key' = k /\ inner' = IF field \in Framed[Map] THEN "length" ELSE "value"
        /\ UNCHANGED <<status, consumed, stage, declared, fields, tx, psbt>>
    BY <1>3, <1>9, <1>11, <1>12, <2>0 DEF EndKey, Takes
  <2>2. Map' = Map /\ Field' = field
    BY <1>4, <1>11, <2>1 DEF given, Map, Kind, Field
  <2>3. KeyRead'
    BY <1>10, <1>12, <2>1, <2>2 DEF KeyRead
  <2>4. ReadIs(front \o item)'
    BY <1>1, <1>2, <1>3, <1>7, TakeGives
  <2>5. item = KeyItem(key')
    BY <1>10, <2>1
  <2>6. InPart(front)'
    BY <2>1, <2>2, <2>3, <2>4, <2>5 DEF InPart
  <2>7. OfPairs(pairs)'
    BY <1>4, <1>5, <2>1, SamePairs DEF InMapOf, given
  <2>. QED  BY <1>1, <1>4, <1>5, <1>6, <2>1, <2>6, <2>7, PartSound DEF InMapOf, given
<1>13. CASE KeyRefused(Map, field, k.data)
  <2>0. k.type = item[2] /\ k.data = SubSeq(item, 3, Len(item))
    BY <1>9
  <2>1. Fail
    BY <1>3, <1>11, <1>13, <2>0 DEF EndKey, Takes
  <2>. QED  BY <1>4, <2>1, FailSound
<1>. QED  BY <1>12, <1>13

LEMMA EndLengthSound ==
    ASSUME Sound, ~Stuck, EndLength
    PROVE  Sound'
<1>1. InMap /\ inner = "length" /\ Take
  BY DEF EndLength
<1>2. Asks
  BY <1>1 DEF Asks
<1>3. PICK n, item : Takes(n, item)
  BY <1>1, <1>2, TakeHolds
<1>4. Held' /\ Held /\ got' = <<>> /\ UNCHANGED given /\ format' \in {0, 2} /\ status = "running"
  BY <1>1, <1>2, TakeHolds
<1>5. PICK m, pairs : InMapOf(m, pairs)
  BY <1>1, ReadsPairs
<1>6. PICK front : front = FrontOf(m, pairs)
  OBVIOUS
<1>7. PICK k : k = KeyItem(key)
  OBVIOUS
<1>8. ReadIs(front \o k) /\ KeyRead /\ Field \in Framed[Map]
  BY <1>1, <1>5, <1>6, <1>7 DEF InMapOf, InPart
<1>9. item \in Seq(Nat) /\ Len(item) = 1 /\ item[1] \in Nat /\ item = <<item[1]>>
  <2>1. n = 1
    BY <1>1, <1>3, NeedIs DEF Takes
  <2>2. item \in Seq(Nat) /\ Len(item) = 1
    BY <1>3, <2>1 DEF Takes
  <2>3. PICK x \in Nat : x = item[1]
    BY <2>2
  <2>4. PICK one : one = <<x>>
    OBVIOUS
  <2>5. one \in Seq(Nat) /\ Len(one) = 1 /\ one[1] = x
    BY <2>4
  <2>6. item = one
    BY <2>2, <2>3, <2>5, SamePoints
  <2>. QED  BY <2>2, <2>3, <2>4, <2>6
<1>10. /\ declared' = item[1] /\ inner' = "value" /\ consumed' = 0
       /\ UNCHANGED <<status, stage, key, fields, tx, psbt>>
  BY <1>3 DEF EndLength, Takes
<1>11. ReadIs((front \o k) \o item)'
  <2>1. PICK x : x = front \o k
    OBVIOUS
  <2>2. ReadIs(x \o item)'
    BY <1>1, <1>2, <1>3, <1>8, <2>1, TakeGives
  <2>. QED  BY <2>1, <2>2
<1>12. Map' = Map /\ Field' = Field
  BY <1>4, <1>10 DEF given, Map, Kind, Field
<1>13. KeyRead' /\ k = KeyItem(key') /\ item = <<declared'>>
  BY <1>7, <1>8, <1>9, <1>10, <1>12 DEF KeyRead
<1>14. consumed' = Len(got') /\ declared' \in Nat
  BY <1>4, <1>9, <1>10
<1>15. InPart(front)'
  BY <1>8, <1>10, <1>11, <1>12, <1>13, <1>14 DEF InPart
<1>16. OfPairs(pairs)'
  BY <1>4, <1>5, <1>10, SamePairs DEF InMapOf, given
<1>. QED  BY <1>1, <1>4, <1>5, <1>6, <1>10, <1>15, <1>16, PartSound DEF InMapOf, given

\* What is taken as the value of a pair, if it is accepted, is one.
ValueRead(p, front) ==
    /\ p \in PairType /\ p.type = key.type /\ p.data = key.data /\ p.value = Body
    /\ PairOk(Map, p) /\ ReadIs(front \o PairBytes(p))'

LEMMA AcceptedValue ==
    ASSUME Sound, InMap, inner = "value", Take, ~Overruns(Field, Item), Accepted,
           NEW front \in Seq(Nat), InPart(front)
    PROVE  \E p : ValueRead(p, front)
<1>1. Asks /\ Held /\ Map \in MapNames
  BY MapIsOne DEF Asks, Sound
<1>2. PICK n, item : Takes(n, item)
  BY <1>1, TakeHolds
<1>3. PICK seen \in Seq(Nat) : seen = Seen
  BY <1>1, SeenStands
<1>4. item \in Seq(Nat) /\ n \in Nat /\ Len(item) = n /\ n <= Len(seen) /\ item = SubSeq(seen, 1, n)
        /\ item = Item /\ n = Need(seen)
  BY <1>2, <1>3 DEF Takes, Take, Complete, Item
<1>5. PICK f : f = Field
  OBVIOUS
<1>6. KeyRead /\ key \in KeyType
  BY DEF InPart, KeyRead
<1>7. PICK k \in KeyType : k = key
  BY <1>6
<1>8. PICK a : a = front \o KeyItem(k)
  OBVIOUS
<1>9. ~KeyRefused(Map, f, k.data) /\ KeyDecodes(Map, f, k.data) /\ f = FieldOf(Map, k.type)
        /\ ValueDecodes(Map, f, Body)
  BY <1>5, <1>6, <1>7 DEF KeyRead, Accepted, Field
<1>10. CASE f \in Framed[Map]
  <2>1. n = InnerSize(f, seen)
    BY <1>4, <1>5, <1>10, NeedIs
  <2>12. FramedItem(f, seen, n, item)
    BY <1>4, <2>1 DEF FramedItem
  <2>2. Len(item) = InnerSize(f, item)
    BY <2>12, FramedTaken
  <2>3. declared \in Nat /\ consumed = Len(got) /\ ReadIs(a \o <<declared>>)
    BY <1>5, <1>7, <1>8, <1>10 DEF InPart
  <2>4. Body = item /\ declared = Len(item)
    <3>1. consumed + Taken = declared
      BY <1>5, <1>10 DEF Accepted, LengthMatches
    <3>2. Len(got) \in Nat
      BY <1>1 DEF Held
    <3>3. Taken = n - Len(got)
      BY <1>3, <1>4 DEF Taken
    <3>. QED  BY <1>4, <1>5, <1>10, <2>3, <3>1, <3>2, <3>3 DEF Body
  <2>5. PICK x : x = a \o <<declared>>
    OBVIOUS
  <2>6. ReadIs(x \o item)'
    BY <1>1, <1>2, <2>3, <2>5, TakeGives
  <2>7. PICK p : p = PairOf(k, item)
    OBVIOUS
  <2>8. /\ p \in PairType /\ p.type = k.type /\ p.data = k.data /\ p.value = item /\ p.len = Len(item)
    BY <1>4, <2>7, PairOfKey
  <2>9. ~LengthRefused(f, Len(item)) /\ f # "tap_bip32_derivation"
    <3>1. PICK map \in MapNames : map = Map
      BY <1>1
    <3>2. PICK x1 : x1 = Len(item)
      OBVIOUS
    <3>. QED  BY <1>10, <3>1, <3>2, FramedLengths
  <2>10. PairOk(Map, p)
    BY <1>9, <1>10, <2>2, <2>4, <2>8, <2>9 DEF PairOk
  <2>11. x \o item = front \o PairBytes(p)
    <3>1. PairBehind(front, k, item, p)
      BY <1>4, <2>7, ValueBehind
    <3>. QED  BY <1>8, <2>4, <2>5, <3>1 DEF PairBehind
  <2>. QED  BY <1>7, <2>4, <2>6, <2>8, <2>10, <2>11 DEF ValueRead
<1>11. CASE f \notin Framed[Map]
  <2>1. n = BehindLength(f, seen)
    BY <1>4, <1>5, <1>11, NeedIs
  <2>2. ~LengthRefused(f, item[1]) /\ ~Overruns(f, item)
    BY <1>4, <1>5, <1>11 DEF Accepted
  <2>3. n >= 1 /\ item[1] = n - 1 /\ (f = "tap_bip32_derivation" => OriginDecodes(Tail(item)))
    <3>1. UnframedItem(f, seen, n, item)
      BY <1>4, <2>1 DEF UnframedItem
    <3>. QED  BY <2>2, <3>1, UnframedTaken
  <2>4. PICK value : value = Tail(item)
    OBVIOUS
  <2>5. value \in Seq(Nat) /\ Len(value) = item[1] /\ item = <<Len(value)>> \o value
    BY <1>4, <2>3, <2>4, BehindItsLength
  <2>6. Body = value
    BY <1>4, <1>5, <1>11, <2>4 DEF Body
  <2>7. ReadIs(a)
    BY <1>5, <1>7, <1>8, <1>11 DEF InPart
  <2>8. ReadIs(a \o item)'
    BY <1>1, <1>2, <2>7, TakeGives
  <2>9. PICK p : p = PairOf(k, value)
    OBVIOUS
  <2>10. /\ p \in PairType /\ p.type = k.type /\ p.data = k.data /\ p.value = value /\ p.len = Len(value)
    BY <2>5, <2>9, PairOfKey
  <2>11. PairOk(Map, p)
    BY <1>9, <1>11, <2>2, <2>3, <2>4, <2>5, <2>6, <2>10 DEF PairOk
  <2>12. a \o item = front \o PairBytes(p)
    <3>1. PairBehind(front, k, value, p)
      BY <2>5, <2>9, ValueBehind
    <3>. QED  BY <1>8, <2>5, <3>1 DEF PairBehind
  <2>. QED  BY <1>7, <2>6, <2>8, <2>10, <2>11, <2>12 DEF ValueRead
<1>. QED  BY <1>10, <1>11

LEMMA EndValueSound ==
    ASSUME Sound, ~Stuck, EndValue
    PROVE  Sound'
<1>1. InMap /\ inner = "value" /\ Take /\ ~Overruns(Field, Item)
  BY DEF EndValue
<1>2. Asks
  BY <1>1 DEF Asks
<1>3. Held' /\ Held /\ got' = <<>> /\ UNCHANGED given /\ format' \in {0, 2} /\ status = "running"
  BY <1>1, <1>2, TakeHolds
<1>4. PICK m, pairs : InMapOf(m, pairs)
  BY <1>1, ReadsPairs
<1>5. CASE Accepted
  <2>1. /\ fields' = fields \union {Entry} /\ inner' = "separator"
        /\ UNCHANGED <<status, consumed, stage, declared, key, tx, psbt>>
    BY <1>5 DEF EndValue
  <2>2. m \in MessageType /\ pairs \in Seq(PairType) /\ PairsOk(Map, pairs) /\ KeysDiffer(Map, pairs)
          /\ fields = Entries(Map, pairs)
    BY <1>4 DEF InMapOf, OfMaps, OfPairs
  <2>3. PICK front \in Seq(Nat) : front = FrontOf(m, pairs)
    BY <2>2, FrontType
  <2>4. InPart(front)
    BY <1>4, <2>3 DEF InMapOf
  <2>5. PICK p : ValueRead(p, front)
    BY <1>1, <1>5, <2>4, AcceptedValue
  <2>8. PairOk(Map, p) /\ ReadIs(front \o PairBytes(p))'
    BY <2>5 DEF ValueRead
  <2>9. /\ p \in PairType /\ p.type = key.type /\ p.data = key.data /\ p.value = Body
    BY <2>5 DEF ValueRead
  <2>10. Entry = EntryAt(Map, p)
    BY <2>9 DEF Entry, EntryAt
  <2>11. NewKey(Entries(Map, pairs), EntryAt(Map, p))
    BY <1>5, <2>2, <2>10 DEF NewKey, Accepted, IsDuplicate
  <2>12. PICK map : map = Map
    OBVIOUS
  <2>121. PairsOk(map, pairs) /\ KeysDiffer(map, pairs) /\ PairOk(map, p)
            /\ NewKey(Entries(map, pairs), EntryAt(map, p))
    BY <2>2, <2>8, <2>11, <2>12
  <2>122. PICK more : PairAdded(map, m, pairs, p, more)
    BY <2>2, <2>9, <2>121, PairRead
  <2>13. /\ more \in Seq(PairType) /\ PairsOk(map, more) /\ KeysDiffer(map, more)
         /\ Entries(map, more) = Entries(map, pairs) \union {EntryAt(map, p)}
         /\ FrontOf(m, more) = FrontOf(m, pairs) \o PairBytes(p)
    BY <2>122 DEF PairAdded
  <2>14. Map' = map
    BY <1>3, <2>1, <2>12 DEF Map, Kind, given
  <2>15. OfPairs(more)'
    BY <2>1, <2>2, <2>10, <2>12, <2>13, <2>14 DEF OfPairs
  <2>16. PICK x : x = FrontOf(m, more)
    OBVIOUS
  <2>17. ReadIs(x)'
    BY <2>3, <2>8, <2>13, <2>16
  <2>18. InPart(x)'
    BY <2>1, <2>17 DEF InPart
  <2>. QED  BY <1>1, <1>3, <1>4, <2>1, <2>15, <2>16, <2>18, PartSound DEF InMapOf, given
<1>6. CASE ~Accepted
  <2>1. Fail
    BY <1>6 DEF EndValue
  <2>. QED  BY <1>3, <2>1, FailSound
<1>. QED  BY <1>5, <1>6

LEMMA OverrunSound ==
    ASSUME Sound, ~Stuck, Overrun
    PROVE  Sound'
<1>1. InMap /\ inner = "value" /\ Take
  BY DEF Overrun
<1>2. Asks
  BY <1>1 DEF Asks
<1>3. Held' /\ UNCHANGED given /\ format' \in {0, 2} /\ status = "running"
  BY <1>1, <1>2, TakeHolds
<1>4. UNCHANGED <<stage, psbt>> /\ (status' = "panicked" \/ (inner' = "runaway" /\ status' = status))
  BY DEF Overrun
<1>5. InMap' <=> InMap
  BY <1>4 DEF InMap, ListDone
<1>6. Stuck'
  BY <1>1, <1>4, <1>5 DEF Stuck
<1>. QED  BY <1>3, <1>4, <1>6 DEF Sound, ReadSome

-----------------------------------------------------------------------------
(* The end of a map *)

\* The message with one more map.
MapAdded(m, pairs, more) ==
    /\ more \in MessageType /\ more.format = m.format
    /\ more.magic = PSBT_MAGIC /\ more.separator = PSBT_SEPARATOR
    /\ Appends(more.maps, m.maps, pairs)
    /\ Bytes(more) = FrontOf(m, pairs) \o <<EndOfMap>>

LEMMA MapBehind ==
    ASSUME NEW m \in MessageType, m.magic = PSBT_MAGIC, m.separator = PSBT_SEPARATOR,
           NEW pairs \in Seq(PairType)
    PROVE  \E more : MapAdded(m, pairs, more)
<1>1. PICK f \in {0, 2} : f = m.format
  BY DEF MessageType
<1>2. PICK maps \in Seq(Seq(PairType)) : maps = m.maps
  BY DEF MessageType
<1>3. m = MessageOf(f, maps)
  BY <1>1, <1>2 DEF MessageType, MessageOf
<1>4. PICK all : all = Append(maps, pairs)
  OBVIOUS
<1>5. all \in Seq(Seq(PairType)) /\ Appends(all, maps, pairs)
  BY <1>4, AppendIs
<1>6. PICK more : more = MessageOf(f, all)
  OBVIOUS
<1>7. /\ more \in MessageType /\ more.format = f /\ more.maps = all
      /\ more.magic = PSBT_MAGIC /\ more.separator = PSBT_SEPARATOR
  BY <1>5, <1>6, MessageOfType
<1>8. Bytes(more) = FrontOf(m, pairs) \o <<EndOfMap>>
  BY <1>3, <1>4, <1>6, BytesAppend DEF FrontOf
<1>. QED  BY <1>1, <1>2, <1>5, <1>7, <1>8 DEF MapAdded

LEMMA AddedGrows ==
    ASSUME NEW m \in MessageType, NEW pairs, NEW more, MapAdded(m, pairs, more)
    PROVE  /\ m.maps # <<>> => Grows(m, more)
           /\ more.maps # <<>> /\ NextMap(more) = NextMap(m) + 1
           /\ NextMap(m) \in Nat \ {0} /\ more.maps[NextMap(m)] = pairs
<1>1. PICK n \in Nat : n = Len(m.maps)
  BY DEF MessageType
<1>2. /\ Len(more.maps) = n + 1 /\ more.maps[n + 1] = pairs
      /\ \A i \in 1 .. n : more.maps[i] = m.maps[i]
  BY <1>1 DEF MapAdded, Appends
<1>3. m.maps # <<>> => n >= 1
  BY <1>1 DEF MessageType
<1>4. m.maps # <<>> => Grows(m, more)
  BY <1>1, <1>2, <1>3 DEF Grows, MapAdded
<1>5. more.maps # <<>>
  BY <1>2
<1>. QED  BY <1>1, <1>2, <1>4, <1>5 DEF NextMap

\* What was read at the end of a map.
MapRead(m, pairs, more) ==
    /\ OfMaps(m) /\ OfPairs(pairs) /\ MapAdded(m, pairs, more)
    /\ ReadIs(Bytes(more))'
    /\ Map = NameAt(more, NextMap(m))

LEMMA MapEndRead ==
    ASSUME Sound, ~Stuck, AtEndOfMap
    PROVE  /\ \E m, pairs, more : MapRead(m, pairs, more)
           /\ Held' /\ got' = <<>> /\ UNCHANGED given /\ format' \in {0, 2}
           /\ status = "running" /\ inner = "separator" /\ InMap
<1>1. InMap /\ inner = "separator" /\ Take /\ Item = <<EndOfMap>>
  BY DEF AtEndOfMap
<1>2. Asks
  BY <1>1 DEF Asks
<1>3. PICK n, item : Takes(n, item)
  BY <1>1, <1>2, TakeHolds
<1>4. Held' /\ got' = <<>> /\ UNCHANGED given /\ format' \in {0, 2} /\ status = "running"
  BY <1>1, <1>2, TakeHolds
<1>5. PICK m, pairs : InMapOf(m, pairs)
  BY <1>1, ReadsPairs
<1>6. /\ OfMaps(m) /\ OfPairs(pairs) /\ m \in MessageType /\ pairs \in Seq(PairType)
      /\ m.magic = PSBT_MAGIC /\ m.separator = PSBT_SEPARATOR /\ ~ListDone
  BY <1>5 DEF InMapOf, OfMaps, OfPairs
<1>7. PICK more : MapAdded(m, pairs, more)
  BY <1>6, MapBehind
<1>8. PICK front : front = FrontOf(m, pairs)
  OBVIOUS
<1>9. ReadIs(front)
  BY <1>1, <1>5, <1>8 DEF InMapOf, InPart
<1>10. ReadIs(front \o item)'
  BY <1>1, <1>2, <1>3, <1>9, TakeGives
<1>11. front \o item = Bytes(more)
  BY <1>1, <1>3, <1>7, <1>8 DEF MapAdded, Takes
<1>12. ReadIs(Bytes(more))'
  BY <1>10, <1>11
<1>13. Map = NameAt(more, NextMap(m))
  <2>1. ReadTo(m, NextMap(m)) /\ m.format = format /\ more.format = format
    BY <1>6, <1>7 DEF OfMaps, MapAdded
  <2>2. CASE stage = "global"
    <3>1. NextMap(m) = 1
      BY <2>1, <2>2 DEF ReadTo
    <3>. QED  BY <2>1, <2>2, <3>1 DEF NameAt, Map, Kind
  <2>3. CASE stage # "global"
    <3>1. m.maps # <<>> /\ MapsOk(m)
      BY <1>6, <2>3 DEF OfMaps
    <3>2. HasGlobal(m)
      BY <1>6, <3>1, FirstMapIsGlobal
    <3>3. Map = NameAt(m, NextMap(m))
      BY <1>6, <2>1, <3>2, ListDoneAt
    <3>4. more \in MessageType /\ Grows(m, more)
      BY <1>6, <1>7, <3>1, AddedGrows DEF MapAdded
    <3>5. NameAt(more, NextMap(m)) = NameAt(m, NextMap(m))
      BY <1>6, <3>4, SameGlobal
    <3>. QED  BY <3>3, <3>5
  <2>. QED  BY <2>2, <2>3
<1>. QED  BY <1>1, <1>4, <1>6, <1>7, <1>12, <1>13 DEF MapRead

\* A map that is accepted is one more of the message.
LEMMA MapReadSound ==
    ASSUME format' \in {0, 2}, Held', status' = "running",
           NEW m, NEW pairs, NEW more, MapRead(m, pairs, more), MapOk(Map, pairs), format' = format,
           ReadTo(more, NextMap(more))', format = 0 => tx' = TxOfMessage(more),
           inner' = "separator", fields' = {}, got' = <<>>
    PROVE  Sound'
<1>1. /\ m \in MessageType /\ MapsOk(m) /\ m.format = format /\ MapAdded(m, pairs, more)
      /\ more \in MessageType /\ more.format = format /\ Appends(more.maps, m.maps, pairs)
      /\ more.magic = PSBT_MAGIC /\ more.separator = PSBT_SEPARATOR
  BY DEF MapRead, OfMaps, MapAdded
<1>2. (m.maps # <<>> => Grows(m, more)) /\ more.maps # <<>>
  BY <1>1, AddedGrows
<1>3. MapOk(NameAt(more, Len(m.maps) + 1), pairs)
  BY DEF MapRead, NextMap
<1>4. MapsOk(more)
  BY <1>1, <1>2, <1>3, MapsStillOk
<1>5. OfMaps(more)'
  BY <1>1, <1>2, <1>4 DEF OfMaps
<1>6. ReadIs(Bytes(more))'
  BY DEF MapRead
<1>. QED  BY <1>5, <1>6, MapAheadSound

LEMMA PairsMapOk ==
    ASSUME NEW pairs, OfPairs(pairs), Required[Map] \subseteq FieldsIn(fields),
           Map \in {"global", "input", "global0"} => SpPaired(fields),
           Map = "input" => SpendsPrevious(fields),
           Map = "output" => /\ LabelHasInfo(fields)
                             /\ FieldsIn(fields) \intersect {"script", "sp_v0_info"} # {}
    PROVE  MapOk(Map, pairs)
  BY DEF OfPairs, MapOk, PairsOk

LEMMA EndGlobalSound ==
    ASSUME Sound, ~Stuck, EndGlobal
    PROVE  Sound'
<1>1. /\ stage = "global" /\ format = 2 /\ AtEndOfMap
  BY DEF EndGlobal
<1>2. /\ Held' /\ got' = <<>> /\ UNCHANGED given /\ format' \in {0, 2}
      /\ status = "running" /\ inner = "separator"
  BY <1>1, MapEndRead
<1>3. CASE ~GlobalOk
  BY <1>2, <1>3, FailSound DEF EndGlobal
<1>4. CASE GlobalOk
  <2>1. PICK m, pairs, more : MapRead(m, pairs, more)
    BY <1>1, MapEndRead
  <2>2. /\ OfMaps(m) /\ OfPairs(pairs) /\ m \in MessageType /\ m.format = 2
        /\ more \in MessageType /\ more.format = 2 /\ MapAdded(m, pairs, more)
    BY <1>1, <2>1 DEF MapRead, OfMaps, MapAdded
  <2>3. psbt = EmptyPsbt /\ NextMap(m) = 1
    BY <1>1, <2>2 DEF OfMaps, ReadTo
  <2>4. more.maps # <<>> /\ more.maps[1] = pairs /\ NextMap(more) = 2
    BY <2>2, <2>3, AddedGrows
  <2>5. Map = "global" /\ MapName("global", 2) = "global"
    BY <1>1, MapNamesOf DEF Map, Kind
  <2>6. MapOk(Map, pairs)
    BY <1>4, <2>2, <2>5, PairsMapOk DEF GlobalOk, Has, Required, SpPaired, SpFieldsMatch
  <2>7. fields = GlobalOf(more)
    BY <2>2, <2>4, <2>5 DEF OfPairs, GlobalOf
  <2>8. /\ psbt' = [psbt EXCEPT !.global = GlobalEntries] /\ stage' = "inputs" /\ fields' = {}
        /\ UNCHANGED <<status, consumed, inner, declared, key, tx>>
    BY <1>4 DEF EndGlobal
  <2>9. psbt' = Psbt(more, ReadInputs(more, 0), <<>>)
    <3>1. Meaning(more).global = GlobalEntries
      BY <2>2, <2>7, MeaningIsRead DEF WithDefault, GlobalEntries, Has
    <3>2. ReadInputs(more, 0) = <<>>
      BY ReadsMore
    <3>. QED  BY <2>3, <2>8, <3>1, <3>2 DEF Psbt, EmptyPsbt
  <2>10. InputCount(more) \in Nat
    BY <2>2, <2>4, <2>5, <2>6, GlobalCounts
  <2>11. ReadTo(more, 2)'
    <3>1. 2 \in 2 .. 2 + InputCount(more)
      BY <2>10
    <3>. QED  BY <2>8, <2>9, <3>1 DEF ReadTo
  <2>12. ReadTo(more, NextMap(more))'
    BY <2>4, <2>11
  <2>. QED  BY <1>1, <1>2, <2>1, <2>6, <2>8, <2>12, MapReadSound DEF given
<1>. QED  BY <1>3, <1>4

LEMMA EndInputSound ==
    ASSUME Sound, ~Stuck, EndInput \/ EndInput0
    PROVE  Sound'
<1>1. /\ stage = "inputs" /\ AtEndOfMap /\ format \in {0, 2}
  BY DEF EndInput, EndInput0
<1>2. /\ Held' /\ got' = <<>> /\ UNCHANGED given /\ format' \in {0, 2}
      /\ status = "running" /\ inner = "separator" /\ InMap
  BY <1>1, MapEndRead
<1>3. CASE EndInput /\ ~InputOk
  BY <1>2, <1>3, FailSound DEF EndInput
<1>4. CASE EndInput0 \/ InputOk
  <2>1. PICK m, pairs, more : MapRead(m, pairs, more)
    BY <1>1, MapEndRead
  <2>2. /\ OfMaps(m) /\ OfPairs(pairs) /\ m \in MessageType /\ m.format = format
        /\ more \in MessageType /\ more.format = format /\ MapAdded(m, pairs, more)
        /\ m.maps # <<>> /\ MapsOk(m) /\ ReadTo(m, NextMap(m))
        /\ (format = 0 => tx = TxOfMessage(m))
    BY <1>1, <2>1 DEF MapRead, OfMaps, MapAdded
  <2>3. PICK n \in Nat, k \in Nat : n = InputCount(m) /\ k = OutputCount(m)
    BY <2>2, FirstMapIsGlobal, GlobalCounts DEF HasGlobal
  <2>4. Grows(m, more) /\ NextMap(more) = NextMap(m) + 1 /\ more.maps[NextMap(m)] = pairs
          /\ NextMap(m) \in Nat \ {0}
    BY <2>2, AddedGrows
  <2>5. PICK c \in Nat : NextMap(m) = c + 2 /\ psbt = Psbt(m, ReadInputs(m, c), <<>>) /\ c <= n
    <3>1. NextMap(m) \in 2 .. 2 + n /\ psbt = Psbt(m, ReadInputs(m, NextMap(m) - 2), <<>>)
      BY <1>1, <2>2, <2>3 DEF ReadTo
    <3>2. PICK c \in Nat : c = NextMap(m) - 2
      BY <2>3, <3>1
    <3>. QED  BY <2>3, <2>4, <3>1, <3>2
  <2>6. c < n
    <3>1. ~ListDone
      BY <1>2 DEF InMap
    <3>2. HasGlobal(m)
      BY <2>2, FirstMapIsGlobal
    <3>3. ~AtListEnd(m, NextMap(m))
      BY <2>2, <2>3, <3>1, <3>2, ListDoneAt
    <3>. QED  BY <1>1, <2>3, <2>5, <3>3 DEF AtListEnd
  <2>7. PICK d \in Nat : d = c + 1
    BY <2>5
  <2>8. /\ Meaning(more).global = Meaning(m).global /\ TxOfMessage(more) = TxOfMessage(m)
        /\ InputCount(more) = n
    BY <2>2, <2>3, <2>4, SameGlobal
  <2>9. ReadInputs(more, c) = ReadInputs(m, c)
    <3>1. 1 + c <= Len(m.maps)
      BY <2>5 DEF NextMap
    <3>. QED  BY <2>2, <2>4, <3>1, SameInputs
  <2>10. Map = MapName("input", format)
    BY <1>1 DEF Map, Kind
  <2>11. MapOk(Map, pairs)
    <3>1. CASE format = 0
      <4>1. Map = "input0"
        BY <2>10, <3>1, MapNamesOf
      <4>. QED  BY <2>2, <4>1, PairsMapOk DEF Required
    <3>2. CASE format = 2
      <4>1. Map = "input" /\ InputOk
        BY <1>4, <2>10, <3>2, MapNamesOf DEF EndInput0
      <4>. QED  BY <2>2, <4>1, PairsMapOk DEF InputOk, Has, Required, SpPaired, SpFieldsMatch, SpendsPrevious
    <3>. QED  BY <1>1, <3>1, <3>2
  <2>12. /\ psbt' = [psbt EXCEPT !.inputs = Append(@, fields)] /\ fields' = {}
         /\ UNCHANGED <<status, consumed, stage, inner, declared, key, tx>>
    BY <1>4 DEF EndInput, EndInput0
  <2>13. psbt' = Psbt(more, ReadInputs(more, d), <<>>)
    <3>1. NextMap(m) = 1 + d
      BY <2>5, <2>7
    <3>2. fields = Entries(MapName("input", more.format), more.maps[1 + d])
      BY <2>2, <2>4, <2>10, <3>1 DEF OfPairs
    <3>3. Append(ReadInputs(more, c), fields) = ReadInputs(more, d)
      BY <2>7, <3>2, ReadsMore
    <3>. QED  BY <2>5, <2>8, <2>9, <2>12, <3>3 DEF Psbt
  <2>14. PICK h \in Nat : h = NextMap(more) /\ h \in 2 .. 2 + n /\ h - 2 = d
    BY <2>3, <2>4, <2>5, <2>6, <2>7
  <2>15. ReadTo(more, h)'
    BY <1>1, <2>8, <2>12, <2>13, <2>14 DEF ReadTo
  <2>16. format = 0 => tx' = TxOfMessage(more)
    BY <2>2, <2>8, <2>12
  <2>. QED  BY <1>1, <1>2, <2>1, <2>11, <2>12, <2>14, <2>15, <2>16, MapReadSound DEF given
<1>. QED  BY <1>3, <1>4

LEMMA EndOutputSound ==
    ASSUME Sound, ~Stuck, EndOutput \/ EndOutput0
    PROVE  Sound'
<1>1. /\ stage = "outputs" /\ AtEndOfMap /\ format \in {0, 2}
  BY DEF EndOutput, EndOutput0
<1>2. /\ Held' /\ got' = <<>> /\ UNCHANGED given /\ format' \in {0, 2}
      /\ status = "running" /\ inner = "separator" /\ InMap
  BY <1>1, MapEndRead
<1>3. CASE EndOutput /\ ~OutputOk
  BY <1>2, <1>3, FailSound DEF EndOutput
<1>4. CASE EndOutput0 \/ OutputOk
  <2>1. PICK m, pairs, more : MapRead(m, pairs, more)
    BY <1>1, MapEndRead
  <2>2. /\ OfMaps(m) /\ OfPairs(pairs) /\ m \in MessageType /\ m.format = format
        /\ more \in MessageType /\ more.format = format /\ MapAdded(m, pairs, more)
        /\ m.maps # <<>> /\ MapsOk(m) /\ ReadTo(m, NextMap(m))
        /\ (format = 0 => tx = TxOfMessage(m))
    BY <1>1, <2>1 DEF MapRead, OfMaps, MapAdded
  <2>3. PICK n \in Nat, k \in Nat : n = InputCount(m) /\ k = OutputCount(m)
    BY <2>2, FirstMapIsGlobal, GlobalCounts DEF HasGlobal
  <2>4. Grows(m, more) /\ NextMap(more) = NextMap(m) + 1 /\ more.maps[NextMap(m)] = pairs
          /\ NextMap(m) \in Nat \ {0}
    BY <2>2, AddedGrows
  <2>5. PICK c \in Nat : /\ NextMap(m) = c + 2 + n
                         /\ psbt = Psbt(m, Meaning(m).inputs, ReadOutputs(m, c)) /\ c <= k
    <3>1. /\ NextMap(m) \in 2 + n .. 2 + n + k
          /\ psbt = Psbt(m, Meaning(m).inputs, ReadOutputs(m, NextMap(m) - 2 - n))
      BY <1>1, <2>2, <2>3 DEF ReadTo
    <3>2. PICK c \in Nat : c = NextMap(m) - 2 - n
      BY <2>3, <3>1
    <3>. QED  BY <2>3, <2>4, <3>1, <3>2
  <2>6. c < k
    <3>1. ~ListDone
      BY <1>2 DEF InMap
    <3>2. HasGlobal(m)
      BY <2>2, FirstMapIsGlobal
    <3>3. ~AtListEnd(m, NextMap(m))
      BY <2>2, <2>3, <3>1, <3>2, ListDoneAt
    <3>. QED  BY <1>1, <2>3, <2>5, <3>3 DEF AtListEnd
  <2>7. PICK d \in Nat : d = c + 1
    BY <2>5
  <2>8. /\ Meaning(more).global = Meaning(m).global /\ TxOfMessage(more) = TxOfMessage(m)
        /\ InputCount(more) = n /\ OutputCount(more) = k
    BY <2>2, <2>3, <2>4, SameGlobal
  <2>81. PICK len \in Nat : len = Len(m.maps) /\ len = 1 + n + c
    BY <2>2, <2>3, <2>5, SMTT(20) DEF NextMap, MessageType
  <2>82. Meaning(more).inputs = Meaning(m).inputs
    <3>1. 1 + n <= Len(m.maps)
      BY <2>3, <2>5, <2>81
    <3>. QED  BY <2>2, <2>3, <2>4, <3>1, SameInputsMeant
  <2>9. ReadOutputs(more, c) = ReadOutputs(m, c)
    <3>1. 1 + n + c <= Len(m.maps)
      BY <2>81
    <3>. QED  BY <2>2, <2>3, <2>4, <2>5, <3>1, SameOutputs
  <2>10. Map = MapName("output", format)
    BY <1>1 DEF Map, Kind
  <2>11. MapOk(Map, pairs)
    <3>1. CASE format = 0
      <4>1. Map = "output0"
        BY <2>10, <3>1, MapNamesOf
      <4>. QED  BY <2>2, <4>1, PairsMapOk DEF Required
    <3>2. CASE format = 2
      <4>1. Map = "output" /\ OutputOk
        BY <1>4, <2>10, <3>2, MapNamesOf DEF EndOutput0
      <4>2. FieldsIn(fields) \intersect {"script", "sp_v0_info"} # {}
        BY <4>1 DEF OutputOk, Has
      <4>. QED  BY <2>2, <4>1, <4>2, PairsMapOk DEF OutputOk, Has, Required, LabelHasInfo
    <3>. QED  BY <1>1, <3>1, <3>2
  <2>12. PICK entries : entries = IF format = 2 THEN WithDefault("output", fields, "script", <<>>) ELSE fields
    OBVIOUS
  <2>13. /\ psbt' = [psbt EXCEPT !.outputs = Append(@, entries)] /\ fields' = {}
         /\ UNCHANGED <<status, consumed, stage, inner, declared, key, tx>>
    <3>1. CASE EndOutput
      <4>1. format = 2 /\ OutputEntries = entries
        BY <2>12, <3>1 DEF EndOutput, OutputEntries, WithDefault, Has
      <4>2. OutputOk
        BY <1>4, <3>1, <4>1 DEF EndOutput0
      <4>. QED  BY <3>1, <4>1, <4>2 DEF EndOutput
    <3>2. CASE EndOutput0
      BY <2>12, <3>2 DEF EndOutput0
    <3>. QED  BY <3>1, <3>2
  <2>14. psbt' = Psbt(more, Meaning(more).inputs, ReadOutputs(more, d))
    <3>1. NextMap(m) = 1 + n + d
      BY <2>3, <2>5, <2>7
    <3>2. fields = OutputMap(more, d)
      BY <2>2, <2>4, <2>8, <2>10, <3>1 DEF OfPairs, OutputMap
    <3>3. entries = AsOutput(more, OutputMap(more, d))
      BY <2>2, <2>12, <3>2 DEF AsOutput
    <3>4. Append(ReadOutputs(more, c), entries) = ReadOutputs(more, d)
      BY <2>7, <3>3, ReadsMoreOutputs
    <3>. QED  BY <2>5, <2>8, <2>82, <2>9, <2>13, <3>4 DEF Psbt
  <2>15. PICK h \in Nat : h = NextMap(more) /\ h \in 2 + n .. 2 + n + k /\ h - 2 - n = d
    BY <2>3, <2>4, <2>5, <2>6, <2>7
  <2>16. ReadTo(more, h)'
    BY <1>1, <2>8, <2>13, <2>14, <2>15 DEF ReadTo
  <2>17. format = 0 => tx' = TxOfMessage(more)
    BY <2>2, <2>8, <2>13
  <2>. QED  BY <1>1, <1>2, <2>1, <2>11, <2>13, <2>15, <2>16, <2>17, MapReadSound DEF given
<1>. QED  BY <1>3, <1>4

\* Behind the last map.
LEMMA DoneSound ==
    ASSUME format' \in {0, 2}, Held', got' = <<>>, stage' = "done",
           NEW m \in MessageType, m.format = format', MapsOk(m), m.maps # <<>>,
           m.magic = PSBT_MAGIC, m.separator = PSBT_SEPARATOR,
           Len(m.maps) = 1 + InputCount(m) + OutputCount(m),
           ReadIs(Bytes(m))', psbt' = Meaning(m)
    PROVE  Sound'
<1>1. WellFormed(m)
  BY AllMapsRead
<1>2. pos' = Len(Bytes(m)) /\ Stands(Bytes(m), bytes', 0)
  BY StartIsPos DEF ReadIs
<1>3. HasRead(m)'
  BY <1>1, <1>2 DEF HasRead
<1>. QED  BY <1>3 DEF Sound, ReadSome

LEMMA EndGlobal0Sound ==
    ASSUME Sound, ~Stuck, EndGlobal0
    PROVE  Sound'
<1>1. /\ stage = "global" /\ format = 0 /\ AtEndOfMap
  BY DEF EndGlobal0
<1>2. /\ Held' /\ got' = <<>> /\ UNCHANGED given /\ format' \in {0, 2}
      /\ status = "running" /\ inner = "separator"
  BY <1>1, MapEndRead
<1>3. CASE ~GlobalOk0
  BY <1>2, <1>3, FailSound DEF EndGlobal0
<1>4. CASE GlobalOk0
  <2>1. PICK m, pairs, more : MapRead(m, pairs, more)
    BY <1>1, MapEndRead
  <2>2. /\ OfMaps(m) /\ OfPairs(pairs) /\ m \in MessageType /\ m.format = 0
        /\ more \in MessageType /\ more.format = 0 /\ MapAdded(m, pairs, more)
        /\ more.magic = PSBT_MAGIC /\ more.separator = PSBT_SEPARATOR
        /\ MapsOk(m) /\ Appends(more.maps, m.maps, pairs)
    BY <1>1, <2>1 DEF MapRead, OfMaps, MapAdded
  <2>3. psbt = EmptyPsbt /\ NextMap(m) = 1
    BY <1>1, <2>2 DEF OfMaps, ReadTo
  <2>4. more.maps # <<>> /\ more.maps[1] = pairs /\ NextMap(more) = 2
    BY <2>2, <2>3, AddedGrows
  <2>5. Map = "global0" /\ MapName("global", 0) = "global0"
    BY <1>1, MapNamesOf DEF Map, Kind
  <2>6. MapOk(Map, pairs)
    BY <1>4, <2>2, <2>5, PairsMapOk DEF GlobalOk0, Has, Required, SpPaired, SpFieldsMatch
  <2>7. fields = GlobalOf(more)
    BY <2>2, <2>4, <2>5 DEF OfPairs, GlobalOf
  <2>8. PICK t : t = TxOfMessage(more)
    OBVIOUS
  <2>9. /\ tx' = t /\ psbt' = [psbt EXCEPT !.global = IntoGlobal(fields, t)]
        /\ stage' = CASE t.ins # <<>>  -> "inputs"
                      [] t.ins = <<>> /\ t.outs # <<>> -> "outputs"
                      [] OTHER -> "done"
        /\ status' = IF stage' = "done" THEN "ready" ELSE status
        /\ fields' = {} /\ UNCHANGED inner
    BY <1>4, <2>7, <2>8 DEF EndGlobal0, TxOfMessage
  <2>10. PICK n \in Nat, k \in Nat :
            n = InputCount(more) /\ k = OutputCount(more) /\ Len(t.ins) = n /\ Len(t.outs) = k
    BY <2>2, <2>4, <2>5, <2>6, <2>8, GlobalCounts
  <2>11. psbt' = Psbt(more, <<>>, <<>>)
    <3>1. Meaning(more).global = IntoGlobal(fields, t)
      BY <2>2, <2>7, <2>8, MeaningIsRead
    <3>. QED  BY <2>3, <2>9, <3>1 DEF Psbt, EmptyPsbt
  <2>12. ReadInputs(more, 0) = <<>> /\ ReadOutputs(more, 0) = <<>>
    BY ReadsMore
  <2>13. n = 0 => Meaning(more).inputs = <<>>
    BY <2>2, <2>10, NoMaps0
  <2>14. k = 0 => Meaning(more).outputs = <<>>
    BY <2>2, <2>10, NoMaps0
  <2>15. CASE t.ins # <<>>
    <3>1. stage' = "inputs" /\ status' = "running"
      BY <1>2, <2>9, <2>15
    <3>2. 2 \in 2 .. 2 + InputCount(more)
      BY <2>10
    <3>3. ReadTo(more, 2)'
      BY <2>11, <2>12, <3>1, <3>2 DEF ReadTo
    <3>4. ReadTo(more, NextMap(more))'
      BY <2>4, <3>3
    <3>. QED  BY <1>1, <1>2, <2>1, <2>6, <2>8, <2>9, <3>1, <3>4, MapReadSound DEF given
  <2>16. CASE t.ins = <<>> /\ t.outs # <<>>
    <3>1. stage' = "outputs" /\ status' = "running" /\ n = 0
      BY <1>2, <2>9, <2>10, <2>16
    <3>2. 2 \in 2 + n .. 2 + n + k /\ 2 - 2 - n = 0
      BY <3>1
    <3>3. ReadTo(more, 2)'
      BY <2>10, <2>11, <2>12, <2>13, <3>1, <3>2 DEF ReadTo
    <3>4. ReadTo(more, NextMap(more))'
      BY <2>4, <3>3
    <3>. QED  BY <1>1, <1>2, <2>1, <2>6, <2>8, <2>9, <3>1, <3>4, MapReadSound DEF given
  <2>17. CASE t.ins = <<>> /\ t.outs = <<>>
    <3>1. stage' = "done" /\ n = 0 /\ k = 0
      BY <2>9, <2>10, <2>17
    <3>2. psbt' = Meaning(more)
      BY <2>2, <2>8, <2>10, <2>11, <2>13, <2>14, <3>1, MeaningIsRead DEF Psbt
    <3>3. Len(more.maps) = 1 + InputCount(more) + OutputCount(more)
      <4>1. PICK len \in Nat : len = Len(more.maps)
        BY <2>2 DEF MessageType
      <4>2. Len(m.maps) + 1 = 1 /\ Len(more.maps) = Len(m.maps) + 1
        BY <2>2, <2>3 DEF NextMap, Appends
      <4>3. len = 1
        BY <4>1, <4>2
      <4>. QED  BY <2>10, <3>1, <4>1, <4>3
    <3>4. MapsOk(more)
      <4>1. m.maps # <<>> => Grows(m, more)
        BY <2>2, AddedGrows
      <4>2. MapOk(NameAt(more, Len(m.maps) + 1), pairs)
        BY <2>1, <2>6 DEF MapRead, NextMap
      <4>. QED  BY <2>2, <4>1, <4>2, MapsStillOk
    <3>5. ReadIs(Bytes(more))'
      BY <2>1 DEF MapRead
    <3>. QED  BY <1>1, <1>2, <2>2, <2>4, <3>1, <3>2, <3>3, <3>4, <3>5, DoneSound DEF given
  <2>. QED  BY <2>15, <2>16, <2>17
<1>. QED  BY <1>3, <1>4

-----------------------------------------------------------------------------
(* The end of a list *)

ListRead(m, n, k) ==
    /\ OfMaps(m) /\ n \in Nat /\ n = InputCount(m) /\ k \in Nat /\ k = OutputCount(m)
    /\ inner = "separator" /\ fields = {} /\ got = <<>> /\ ReadIs(Bytes(m))
    /\ stage = "inputs" => NextMap(m) = 2 + n /\ psbt = Psbt(m, ReadInputs(m, n), <<>>)
    /\ stage = "outputs" => /\ NextMap(m) = 2 + n + k
                            /\ psbt = Psbt(m, Meaning(m).inputs, ReadOutputs(m, k))

LEMMA ListEndRead ==
    ASSUME Sound, ~Stuck, ListDone, stage \in {"inputs", "outputs"}
    PROVE  \E m, n, k : ListRead(m, n, k)
<1>1. PICK m : ReadsMaps(m)
  BY ReadsWhereItIs
<1>2. /\ OfMaps(m) /\ inner = "separator" /\ fields = {} /\ got = <<>> /\ ReadIs(Bytes(m))
  BY <1>1 DEF ReadsMaps
<1>3. /\ m \in MessageType /\ m.format = format /\ HasGlobal(m) /\ ReadTo(m, NextMap(m))
  BY <1>2, FirstMapIsGlobal DEF OfMaps
<1>4. PICK n \in Nat, k \in Nat : n = InputCount(m) /\ k = OutputCount(m)
  BY <1>3, GlobalCounts DEF HasGlobal
<1>5. AtListEnd(m, NextMap(m))
  BY <1>3, <1>4, ListDoneAt
<1>6. ASSUME stage = "inputs" PROVE NextMap(m) = 2 + n /\ psbt = Psbt(m, ReadInputs(m, n), <<>>)
  <2>1. NextMap(m) = 2 + n /\ psbt = Psbt(m, ReadInputs(m, NextMap(m) - 2), <<>>)
    BY <1>3, <1>4, <1>5, <1>6 DEF AtListEnd, ReadTo
  <2>2. NextMap(m) - 2 = n
    BY <2>1
  <2>. QED  BY <2>1, <2>2
<1>7. ASSUME stage = "outputs"
      PROVE NextMap(m) = 2 + n + k /\ psbt = Psbt(m, Meaning(m).inputs, ReadOutputs(m, k))
  <2>1. /\ NextMap(m) = 2 + n + k
        /\ psbt = Psbt(m, Meaning(m).inputs, ReadOutputs(m, NextMap(m) - 2 - n))
    BY <1>3, <1>4, <1>5, <1>7 DEF AtListEnd, ReadTo
  <2>2. NextMap(m) - 2 - n = k
    BY <2>1
  <2>. QED  BY <2>1, <2>2
<1>. QED  BY <1>2, <1>4, <1>6, <1>7 DEF ListRead

LEMMA EndInputsSound ==
    ASSUME Sound, ~Stuck, EndInputs \/ EndInputs0
    PROVE  Sound'
<1>1. /\ stage = "inputs" /\ ListDone /\ format \in {0, 2} /\ status = "running"
      /\ UNCHANGED <<given, fed, taking, inner, fields, tx>> /\ Held
  BY DEF EndInputs, EndInputs0, Running, Sound
<1>2. PICK m, n, k : ListRead(m, n, k)
  BY <1>1, ListEndRead
<1>3. /\ OfMaps(m) /\ m \in MessageType /\ m.format = format /\ MapsOk(m) /\ m.maps # <<>>
      /\ m.magic = PSBT_MAGIC /\ m.separator = PSBT_SEPARATOR
      /\ n \in Nat /\ n = InputCount(m) /\ k \in Nat /\ k = OutputCount(m)
      /\ inner = "separator" /\ fields = {} /\ got = <<>> /\ ReadIs(Bytes(m))
      /\ NextMap(m) = 2 + n /\ psbt = Psbt(m, ReadInputs(m, n), <<>>)
      /\ (format = 0 => tx = TxOfMessage(m))
  BY <1>1, <1>2 DEF ListRead, OfMaps
<1>4. /\ Held' /\ Start' = Start /\ bytes' = bytes /\ format' = format
      /\ got' = <<>> /\ inner' = "separator" /\ fields' = {}
  BY <1>1, <1>3, SameHolds DEF given, taking
<1>5. ReadIs(Bytes(m))'
  BY <1>3, <1>4, SameRead
<1>6. psbt' = Psbt(m, Meaning(m).inputs, <<>>)
  <2>1. CASE EndInputs
    <3>1. Meaning(m).inputs = ReadInputs(m, n)
      BY <1>3, <2>1, MeaningIsRead DEF EndInputs
    <3>. QED  BY <1>3, <2>1, <3>1 DEF EndInputs
  <2>2. CASE EndInputs0
    <3>1. PICK t : t = tx
      OBVIOUS
    <3>2. WithInputs(ReadInputs(m, n), t) = Meaning(m).inputs
      BY <1>3, <2>2, <3>1, PartsGiven DEF EndInputs0
    <3>3. psbt' = [psbt EXCEPT !.inputs = WithInputs(psbt.inputs, tx)]
      BY <2>2 DEF EndInputs0, WithInputs
    <3>. QED  BY <1>3, <3>1, <3>2, <3>3 DEF Psbt
  <2>. QED  BY <1>1, <2>1, <2>2
<1>7. ASSUME stage' = "outputs", status' = "running" PROVE Sound'
  <2>1. PICK h \in Nat : h = NextMap(m) /\ h \in 2 + n .. 2 + n + k /\ h - 2 - n = 0
    <3>1. 2 + n \in Nat /\ 2 + n \in 2 + n .. 2 + n + k /\ (2 + n) - 2 - n = 0
      BY <1>3
    <3>. QED  BY <1>3, <3>1
  <2>2. psbt' = Psbt(m, Meaning(m).inputs, ReadOutputs(m, 0))
    BY <1>6, ReadsMore
  <2>3. ReadTo(m, h)'
    BY <1>3, <1>7, <2>1, <2>2 DEF ReadTo
  <2>4. OfMaps(m)'
    BY <1>1, <1>3, <1>4, <2>1, <2>3 DEF OfMaps
  <2>. QED  BY <1>1, <1>4, <1>5, <1>7, <2>4, MapAheadSound
<1>8. CASE EndInputs
  BY <1>1, <1>7, <1>8 DEF EndInputs
<1>9. CASE EndInputs0 /\ tx.outs # <<>>
  <2>1. stage' = "outputs" /\ status' = "running"
    BY <1>1, <1>9 DEF EndInputs0
  <2>. QED  BY <1>7, <2>1
<1>10. CASE EndInputs0 /\ tx.outs = <<>>
  <2>1. stage' = "done" /\ format = 0
    BY <1>10 DEF EndInputs0
  <2>2. k = 0
    <3>1. Len(TxOfMessage(m).outs) = k
      BY <1>3, <2>1, FirstMapIsGlobal, GlobalCounts DEF HasGlobal
    <3>. QED  BY <1>3, <1>10, <2>1, <3>1
  <2>3. psbt' = Meaning(m)
    <3>1. Meaning(m).outputs = <<>>
      BY <1>3, <2>1, <2>2, NoMaps0
    <3>2. Meaning(m) = [global |-> Meaning(m).global, inputs |-> Meaning(m).inputs,
                        outputs |-> Meaning(m).outputs]
      BY <1>3, MeaningIsRead
    <3>. QED  BY <1>6, <3>1, <3>2 DEF Psbt
  <2>4. Len(m.maps) = 1 + InputCount(m) + OutputCount(m)
    <3>1. PICK len \in Nat : len = Len(m.maps)
      BY <1>3 DEF MessageType
    <3>2. len = 1 + n
      BY <1>3, <3>1 DEF NextMap
    <3>. QED  BY <1>3, <2>2, <3>1, <3>2
  <2>. QED  BY <1>1, <1>3, <1>4, <1>5, <2>1, <2>3, <2>4, DoneSound
<1>. QED  BY <1>8, <1>9, <1>10

LEMMA EndOutputsSound ==
    ASSUME Sound, ~Stuck, EndOutputs \/ EndOutputs0
    PROVE  Sound'
<1>1. /\ stage = "outputs" /\ ListDone /\ format \in {0, 2} /\ status = "running"
      /\ UNCHANGED <<given, fed, taking, inner, fields, tx>> /\ Held /\ stage' = "done"
  BY DEF EndOutputs, EndOutputs0, Running, Sound
<1>2. PICK m, n, k : ListRead(m, n, k)
  BY <1>1, ListEndRead
<1>3. /\ OfMaps(m) /\ m \in MessageType /\ m.format = format /\ MapsOk(m) /\ m.maps # <<>>
      /\ m.magic = PSBT_MAGIC /\ m.separator = PSBT_SEPARATOR
      /\ n \in Nat /\ n = InputCount(m) /\ k \in Nat /\ k = OutputCount(m)
      /\ got = <<>> /\ ReadIs(Bytes(m))
      /\ NextMap(m) = 2 + n + k /\ psbt = Psbt(m, Meaning(m).inputs, ReadOutputs(m, k))
      /\ (format = 0 => tx = TxOfMessage(m))
  BY <1>1, <1>2 DEF ListRead, OfMaps
<1>4. /\ Held' /\ Start' = Start /\ bytes' = bytes /\ format' = format /\ got' = <<>>
  BY <1>1, <1>3, SameHolds DEF given, taking
<1>5. ReadIs(Bytes(m))'
  BY <1>3, <1>4, SameRead
<1>6. psbt' = Meaning(m)
  <2>1. Meaning(m) = [global |-> Meaning(m).global, inputs |-> Meaning(m).inputs,
                      outputs |-> Meaning(m).outputs]
    BY <1>3, MeaningIsRead
  <2>2. CASE EndOutputs
    <3>1. Meaning(m).outputs = ReadOutputs(m, k)
      BY <1>3, <2>2, MeaningIsRead DEF EndOutputs
    <3>. QED  BY <1>3, <2>1, <2>2, <3>1 DEF EndOutputs, Psbt
  <2>3. CASE EndOutputs0
    <3>1. PICK t : t = tx
      OBVIOUS
    <3>2. WithOutputs(ReadOutputs(m, k), t) = Meaning(m).outputs
      BY <1>3, <2>3, <3>1, PartsGiven DEF EndOutputs0
    <3>3. psbt' = [psbt EXCEPT !.outputs = WithOutputs(psbt.outputs, tx)]
      BY <2>3 DEF EndOutputs0, WithOutputs
    <3>. QED  BY <1>3, <2>1, <3>1, <3>2, <3>3 DEF Psbt
  <2>. QED  BY <1>1, <2>2, <2>3
<1>7. Len(m.maps) = 1 + InputCount(m) + OutputCount(m)
  <2>1. PICK len \in Nat : len = Len(m.maps)
    BY <1>3 DEF MessageType
  <2>2. len = 1 + n + k
    BY <1>3, <2>1 DEF NextMap
  <2>. QED  BY <1>3, <2>1, <2>2
<1>. QED  BY <1>1, <1>3, <1>4, <1>5, <1>6, <1>7, DoneSound

LEMMA FreshSound ==
    ASSUME Fresh
    PROVE  Sound
<1>1. PICK message \in MessageType : Given(message)
  BY DEF Fresh
<1>2. bytes \in Seq(Nat) /\ format \in {0, 2}
  BY <1>1, BytesType DEF Given, MessageType
<1>3. /\ status = "waiting" /\ stage = "magic" /\ inner = "separator" /\ fields = {} /\ psbt = EmptyPsbt
  BY DEF Fresh
<1>4. Held /\ Start = 0
  BY FreshHeld
<1>5. Stands(<<>>, bytes, 0) /\ Len(<<>>) = 0
  BY <1>2 DEF Stands
<1>6. ReadIs(<<>>)
  BY <1>4, <1>5 DEF ReadIs
<1>7. ReadsHead
  BY <1>3, <1>6 DEF ReadsHead
<1>. QED  BY <1>2, <1>3, <1>4, <1>7 DEF Sound, ReadSome

LEMMA TurnSound ==
    ASSUME Sound, Turn
    PROVE  Sound'
<1>1. CASE Stuck
  BY <1>1, StuckSound
<1>2. CASE ~Stuck
  <2>1. NeedsMore => Sound'
    BY WaitsSound
  <2>2. EndMagic \/ EndSeparator \/ StartKey \/ EndKey \/ EndLength \/ EndValue \/ Overrun => Sound'
    BY <1>2, EndMagicSound, EndSeparatorSound, StartKeySound, EndKeySound, EndLengthSound, EndValueSound,
       OverrunSound
  <2>3. EndGlobal \/ EndGlobal0 \/ EndInput \/ EndInput0 \/ EndOutput \/ EndOutput0 => Sound'
    BY <1>2, EndGlobalSound, EndGlobal0Sound, EndInputSound, EndOutputSound
  <2>4. EndInputs \/ EndInputs0 \/ EndOutputs \/ EndOutputs0 => Sound'
    BY <1>2, EndInputsSound, EndOutputsSound
  <2>. QED  BY <2>1, <2>2, <2>3, <2>4 DEF Turn
<1>. QED  BY <1>1, <1>2

LEMMA StepSound ==
    ASSUME Sound, Step
    PROVE  Sound'
  BY TurnSound, WaitsSound DEF Step

LEMMA ReadyHasRead ==
    ASSUME Sound, status = "ready"
    PROVE  \E m : HasRead(m)
<1>1. stage = "done"
  BY DEF Sound
<1>2. ~Stuck
  BY <1>1 DEF Stuck, InMap
<1>3. ~ReadsHead /\ ~\E m : ReadsMaps(m)
  BY <1>1 DEF ReadsHead, ReadsMaps, OfMaps, ReadTo
<1>. QED  BY <1>2, <1>3 DEF Sound, ReadSome

-----------------------------------------------------------------------------
(* What a decoder holds, whatever the bytes are                             *)

InFramed == InMap /\ inner = "value" /\ Field \in Framed[Map]

\* What a decoder holds between two items, and what it has counted.
Rests ==
    /\ ~InMap => inner = "separator"
    /\ stage # "magic" /\ inner = "separator" => got = <<>>
    /\ fields # {} => InMap

Counts ==
    IF InFramed THEN consumed = Len(got) /\ Len(got) < InnerSize(Field, got)
    ELSE consumed <= Start

Stages ==
    /\ declared \in Nat /\ consumed \in Nat
    /\ status \in {"waiting", "running", "ready", "error", "panicked", "ended"}
    /\ stage \in {"magic", "separator", "global", "inputs", "outputs", "done", "errored"}
    /\ inner \in {"separator", "key", "length", "value", "runaway", "errored"}
    /\ status = "waiting" => pos = fed
    /\ (status = "ready") <=> (stage = "done")
    /\ "errored" \in {stage, inner} => status = "error"

TypeInv == Held /\ format \in {0, 2} /\ Rests /\ Counts /\ Stages

LEMMA TypeInvOK ==
    ASSUME TypeInv
    PROVE  TypeOK
<1>1. fed \in 0 .. Len(bytes) /\ pos \in 0 .. fed /\ got \in Seq(Nat) /\ Len(got) <= pos
  BY DEF TypeInv, Held
<1>2. consumed \in 0 .. pos
  <2>1. pos \in Nat /\ Len(got) \in Nat /\ Len(got) <= pos /\ Start = pos - Len(got) /\ consumed \in Nat
    BY DEF TypeInv, Held, Start, Stages
  <2>2. consumed = Len(got) \/ consumed <= Start
    BY DEF TypeInv, Counts
  <2>. QED  BY <2>1, <2>2
<1>. QED  BY <1>1, <1>2 DEF TypeInv, Rests, Stages, TypeOK

LEMMA FramedGrows ==
    ASSUME TypeInv, InFramed
    PROVE  Len(got) <= Need(Seen)
<1>1. Seen \in Seq(Nat) /\ got \in Seq(Nat) /\ Len(got) < InnerSize(Field, got)
  BY SeenStands DEF TypeInv, Counts, Held
<1>2. PICK more : more = SubSeq(bytes, pos + 1, fed)
  OBVIOUS
<1>3. more \in Seq(Nat)
  BY <1>2 DEF TypeInv, Held
<1>4. PICK seen \in Seq(Nat) : seen = Seen
  BY <1>1
<1>5. Prefix(got, seen)
  <2>1. got \o more = seen
    BY <1>2, <1>4 DEF Seen
  <2>2. Len(got \o more) = Len(got) + Len(more) /\ \A i \in 1 .. Len(got) : (got \o more)[i] = got[i]
    BY <1>1, <1>3, Concat
  <2>. QED  BY <1>1, <1>3, <2>1, <2>2 DEF Prefix
<1>6. PICK f : f = Field
  OBVIOUS
<1>7. Steady(got, InnerSize(f, got), InnerSize(f, seen)) /\ InnerSize(f, got) \in Nat /\ InnerSize(f, seen) \in Nat
  BY <1>1, <1>5, InnerSizePositive, InnerSizeSteady
<1>8. Len(got) <= InnerSize(f, seen)
  BY <1>1, <1>6, <1>7 DEF Steady
<1>9. Need(seen) = InnerSize(f, seen)
  BY <1>6, NeedIs DEF InFramed
<1>. QED  BY <1>4, <1>8, <1>9

\* Where a decoder that took an item is.
Took == Held' /\ got' = <<>> /\ fed' = fed /\ format' = format /\ consumed <= Start' /\ Start' = pos'
            /\ status = "running"

LEMMA TakeTyped ==
    ASSUME TypeInv, Take, Asks
    PROVE  Took /\ \E n, item : Takes(n, item)
<1>1. Held
  BY DEF TypeInv
<1>2. PICK n \in Nat : n = Need(Seen)
  BY <1>1, NeedType
<1>3. PICK item : item = Item
  OBVIOUS
<1>4. item \in Seq(Nat) /\ Len(item) = n /\ Held' /\ got' = <<>> /\ fed' = fed
  BY <1>1, <1>2, <1>3, TakeReads
<1>5. pos' = pos + (n - Len(got)) /\ format' = format /\ status = "running"
  BY <1>2 DEF Take, Taken, given, Running
<1>6. pos \in Nat /\ Len(got) \in Nat /\ Len(got) <= pos /\ consumed \in Nat
  BY <1>1 DEF Held, TypeInv, Stages
<1>7. Start' = pos'
  <2>1. pos' \in Nat
    BY <1>4 DEF Held
  <2>2. Start' = pos' - Len(got')
    BY DEF Start
  <2>3. PICK p \in Nat : p = pos'
    BY <2>1
  <2>4. p - Len(<<>>) = p
    OBVIOUS
  <2>. QED  BY <1>4, <2>2, <2>3, <2>4
<1>8. consumed <= pos'
  <2>1. CASE InFramed
    <3>1. consumed = Len(got) /\ Len(got) <= n
      BY <1>2, <2>1, FramedGrows DEF TypeInv, Counts
    <3>. QED  BY <1>5, <1>6, <3>1
  <2>2. CASE ~InFramed
    <3>1. consumed <= pos - Len(got)
      BY <2>2 DEF TypeInv, Counts, Start
    <3>. QED  BY <1>2, <1>5, <1>6, <3>1
  <2>. QED  BY <2>1, <2>2
<1>. QED  BY <1>2, <1>3, <1>4, <1>5, <1>7, <1>8 DEF Took, Takes

LEMMA TookCounts ==
    ASSUME TypeInv, Took, (consumed' = consumed /\ ~InFramed') \/ consumed' = 0
    PROVE  Counts' /\ consumed' \in Nat
<1>1. consumed \in Nat /\ consumed <= Start' /\ got' = <<>> /\ Start' \in Nat /\ got' \in Seq(Nat)
  BY DEF TypeInv, Stages, Took, Held
<1>2. CASE ~InFramed'
  BY <1>1, <1>2 DEF Counts
<1>3. CASE InFramed'
  <2>1. consumed' = 0
    BY <1>3
  <2>2. PICK seen \in Seq(Nat) : seen = got'
    BY <1>1
  <2>3. PICK f : f = Field'
    OBVIOUS
  <2>4. InnerSize(f, seen) \in Nat \ {0}
    BY InnerSizePositive
  <2>5. Len(seen) = 0
    BY <1>1, <2>2
  <2>6. Len(seen) < InnerSize(f, seen)
    BY <2>4, <2>5
  <2>7. Len(got') < InnerSize(Field', got')
    BY ONLY <2>2, <2>3, <2>6
  <2>8. consumed' = Len(got')
    BY <2>1, <2>2, <2>5
  <2>. QED  BY <1>3, <2>7, <2>8 DEF Counts
<1>. QED  BY <1>2, <1>3

LEMMA FailTyped ==
    ASSUME TypeInv, Took, Fail
    PROVE  TypeInv'
<1>1. /\ status' = "error" /\ UNCHANGED <<consumed, declared, key, fields, tx, psbt, format>>
      /\ stage' = (IF InMap THEN stage ELSE "errored")
      /\ inner' = (IF InMap /\ inner # "separator" THEN "errored" ELSE inner)
      /\ Held' /\ got' = <<>>
  BY DEF Fail, Took
<1>2. InMap' = InMap
  <2>1. CASE InMap
    BY <1>1, <2>1 DEF InMap, ListDone
  <2>2. CASE ~InMap
    BY <1>1, <2>2 DEF InMap
  <2>. QED  BY <2>1, <2>2
<1>3. Rests /\ Stages /\ format \in {0, 2}
  BY DEF TypeInv
<1>4. Rests'
  BY <1>1, <1>2, <1>3 DEF Rests
<1>5. ~InFramed'
  BY <1>1, <1>2, <1>3 DEF InFramed, Rests
<1>6. Counts'
  BY <1>1, <1>5, TookCounts
<1>7. stage' # "done" /\ stage' \in {"magic", "separator", "global", "inputs", "outputs", "done", "errored"}
  BY <1>1, <1>3 DEF InMap, Stages
<1>8. Stages'
  BY <1>1, <1>3, <1>7 DEF Stages
<1>. QED  BY <1>1, <1>3, <1>4, <1>6, <1>8 DEF TypeInv

\* A step into a map or behind the last.
LEMMA MovesTyped ==
    ASSUME TypeInv, Took, UNCHANGED <<declared, consumed>>, inner' = "separator",
           fields' = {},
           stage' \in {"separator", "global", "inputs", "outputs", "done"},
           status' = (IF stage' = "done" THEN "ready" ELSE status)
    PROVE  TypeInv'
<1>1. Rests'
  BY DEF Rests, Took
<1>2. Counts'
  BY TookCounts DEF InFramed
<1>3. Stages'
  BY DEF TypeInv, Stages, Took
<1>. QED  BY <1>1, <1>2, <1>3 DEF TypeInv, Took

LEMMA HeadTyped ==
    ASSUME TypeInv, EndMagic \/ EndSeparator
    PROVE  TypeInv'
<1>1. /\ stage \in {"magic", "separator"} /\ Take /\ ~InMap
  BY DEF EndMagic, EndSeparator, InMap
<1>2. inner = "separator" /\ fields = {}
  BY <1>1 DEF TypeInv, Rests
<1>3. Took
  BY <1>1, <1>2, TakeTyped DEF Asks
<1>4. CASE Fail
  BY <1>3, <1>4, FailTyped
<1>5. CASE ~Fail
  <2>1. stage' \in {"separator", "global"}
        /\ UNCHANGED <<status, consumed, inner, declared, key, fields, tx, psbt>>
    BY <1>5 DEF EndMagic, EndSeparator
  <2>. QED  BY <1>2, <1>3, <2>1, MovesTyped
<1>. QED  BY <1>4, <1>5

\* A step inside a map.
LEMMA InsideTyped ==
    ASSUME TypeInv, Took, InMap, UNCHANGED <<stage, psbt>>, declared' \in Nat,
           inner' \in {"separator", "key", "length", "value", "runaway"},
           status' \in {"running", "panicked"},
           (consumed' = consumed /\ ~InFramed') \/ consumed' = 0
    PROVE  TypeInv'
<1>1. InMap'
  BY DEF InMap, ListDone, Took
<1>2. Rests'
  BY <1>1 DEF Rests, Took
<1>3. Counts' /\ consumed' \in Nat
  BY TookCounts
<1>4. stage \notin {"done", "errored"}
  BY DEF InMap
<1>5. Stages'
  BY <1>3, <1>4 DEF TypeInv, Stages, Took
<1>. QED  BY <1>2, <1>3, <1>5 DEF TypeInv, Took

LEMMA EndKeyTyped ==
    ASSUME TypeInv, EndKey
    PROVE  TypeInv'
<1>1. InMap /\ inner = "key" /\ Take
  BY DEF EndKey
<1>2. Took
  BY <1>1, TakeTyped DEF Asks
<1>3. CASE Fail
  BY <1>2, <1>3, FailTyped
<1>4. CASE ~Fail
  <2>1. PICK field : field = FieldOf(Map, Item[2])
    OBVIOUS
  <2>2. /\ key'.type = Item[2] /\ inner' = (IF field \in Framed[Map] THEN "length" ELSE "value")
        /\ UNCHANGED <<status, consumed, stage, declared, fields, tx, psbt>>
    BY <1>4, <2>1 DEF EndKey
  <2>3. Map' = Map
    BY <1>2, <2>2 DEF Map, Kind, Took
  <2>4. ~InFramed'
    BY <2>1, <2>2, <2>3 DEF InFramed, Field
  <2>. QED  BY <1>1, <1>2, <2>2, <2>4, InsideTyped DEF TypeInv, Stages, Took
<1>. QED  BY <1>3, <1>4

LEMMA EndLengthTyped ==
    ASSUME TypeInv, EndLength
    PROVE  TypeInv'
<1>1. /\ InMap /\ inner = "length" /\ Take
      /\ declared' = Item[1] /\ inner' = "value" /\ consumed' = 0
      /\ UNCHANGED <<status, stage, key, fields, tx, psbt>>
  BY DEF EndLength
<1>2. Took /\ \E n, item : Takes(n, item)
  BY <1>1, TakeTyped DEF Asks
<1>3. PICK n, item : Takes(n, item)
  BY <1>2
<1>4. n = 1
  BY <1>1, <1>3, NeedIs DEF Takes
<1>5. declared' \in Nat
  BY <1>1, <1>3, <1>4 DEF Takes
<1>. QED  BY <1>1, <1>2, <1>5, InsideTyped DEF Took

LEMMA EndValueTyped ==
    ASSUME TypeInv, EndValue \/ Overrun
    PROVE  TypeInv'
<1>1. InMap /\ inner = "value" /\ Take
  BY DEF EndValue, Overrun
<1>2. Took
  BY <1>1, TakeTyped DEF Asks
<1>3. CASE Fail
  BY <1>2, <1>3, FailTyped
<1>4. CASE EndValue /\ ~Fail
  <2>1. inner' = "separator" /\ UNCHANGED <<status, consumed, stage, declared, key, tx, psbt>>
    BY <1>4 DEF EndValue
  <2>. QED  BY <1>1, <1>2, <2>1, InsideTyped DEF TypeInv, Stages, Took, InFramed
<1>5. CASE Overrun
  <2>1. /\ UNCHANGED <<consumed, stage, declared, key, fields, tx, psbt>>
        /\ \/ status' = "panicked" /\ inner' = inner
           \/ Field = "tap_bip32_derivation" /\ inner' = "runaway" /\ status' = status
    BY <1>5 DEF Overrun
  <2>2. Field \notin Framed[Map]
    <3>1. Overruns(Field, Item)
      BY <1>5 DEF Overrun
    <3>2. Field \in {"tap_bip32_derivation", "tap_tree"}
      BY <3>1 DEF Overruns
    <3>3. Map \in MapNames
      BY MapIsOne DEF TypeInv
    <3>. QED  BY <3>2, <3>3, FramedFields
  <2>3. Map' = Map /\ Field' = Field
    BY <1>2, <2>1 DEF Map, Kind, Took, Field
  <2>4. ~InFramed'
    BY <2>2, <2>3 DEF InFramed
  <2>. QED  BY <1>1, <1>2, <2>1, <2>4, InsideTyped DEF TypeInv, Stages, Took
<1>. QED  BY <1>3, <1>4, <1>5

LEMMA MapEndTyped ==
    ASSUME TypeInv, EndGlobal \/ EndGlobal0 \/ EndInput \/ EndInput0 \/ EndOutput \/ EndOutput0
    PROVE  TypeInv'
<1>1. InMap /\ inner = "separator" /\ Take
  BY DEF EndGlobal, EndGlobal0, EndInput, EndInput0, EndOutput, EndOutput0, AtEndOfMap
<1>2. Took
  BY <1>1, TakeTyped DEF Asks
<1>3. CASE Fail
  BY <1>2, <1>3, FailTyped
<1>4. CASE ~Fail
  <2>1. UNCHANGED <<inner, declared, consumed>> /\ fields' = {}
    BY <1>4 DEF EndGlobal, EndGlobal0, EndInput, EndInput0, EndOutput, EndOutput0
  <2>2. /\ stage' \in {"inputs", "outputs", "done"}
        /\ status' = (IF stage' = "done" THEN "ready" ELSE status)
    <3>1. CASE EndGlobal0
      <4>1. PICK ins, outs : ins = tx'.ins /\ outs = tx'.outs
        OBVIOUS
      <4>2. stage' = CASE ins # <<>> -> "inputs"
                       [] ins = <<>> /\ outs # <<>> -> "outputs"
                       [] OTHER -> "done"
        BY <1>4, <3>1, <4>1 DEF EndGlobal0
      <4>3. status' = (IF stage' = "done" THEN "ready" ELSE status)
        BY <1>4, <3>1 DEF EndGlobal0
      <4>. QED  BY <4>2, <4>3
    <3>2. CASE EndGlobal
      BY <1>4, <3>2 DEF EndGlobal
    <3>3. CASE EndInput \/ EndInput0 \/ EndOutput \/ EndOutput0
      <4>1. stage \in {"inputs", "outputs"} /\ stage' = stage /\ status' = status
        BY <1>4, <3>3 DEF EndInput, EndInput0, EndOutput, EndOutput0
      <4>. QED  BY <4>1
    <3>. QED  BY <3>1, <3>2, <3>3
  <2>. QED  BY <1>1, <1>2, <2>1, <2>2, MovesTyped
<1>. QED  BY <1>3, <1>4

LEMMA ListEndTyped ==
    ASSUME TypeInv, EndInputs \/ EndInputs0 \/ EndOutputs \/ EndOutputs0
    PROVE  TypeInv'
<1>1. /\ UNCHANGED <<given, fed, pos, got, consumed, inner, declared, fields>> /\ ListDone
      /\ stage \in {"inputs", "outputs"} /\ status = "running"
  BY DEF EndInputs, EndInputs0, EndOutputs, EndOutputs0, taking, Running
<1>2. ~InMap
  BY <1>1 DEF InMap
<1>3. inner = "separator" /\ fields = {} /\ got = <<>> /\ consumed <= Start
  BY <1>1, <1>2 DEF TypeInv, Rests, Counts, InFramed
<1>4. Held' /\ Start' = Start /\ format' \in {0, 2}
  BY <1>1, SameHolds DEF TypeInv, given
<1>5. /\ stage' \in {"outputs", "done"}
      /\ status' = (IF stage' = "done" THEN "ready" ELSE status)
  BY DEF EndInputs, EndInputs0, EndOutputs, EndOutputs0
<1>6. Rests'
  BY <1>1, <1>3 DEF Rests
<1>7. Counts'
  BY <1>1, <1>3, <1>4 DEF Counts, InFramed
<1>8. Stages'
  BY <1>1, <1>5 DEF TypeInv, Stages
<1>. QED  BY <1>4, <1>6, <1>7, <1>8 DEF TypeInv

LEMMA NeedsMoreTyped ==
    ASSUME TypeInv, NeedsMore
    PROVE  TypeInv'
<1>1. /\ UNCHANGED <<given, stage, inner, declared, key, fields, tx, psbt>>
      /\ status = "running" /\ status' = "waiting"
      /\ stage # "done" /\ ~ListDone /\ ~(Len(Seen) >= Need(Seen)) /\ consumed' = CountConsumed
  BY DEF NeedsMore, Running, Complete, reading
<1>2. Held' /\ Start' = Start /\ pos' = fed' /\ got' = Seen
  BY NeedsMoreStays DEF TypeInv
<1>3. PICK seen \in Seq(Nat) : seen = Seen
  BY SeenStands DEF TypeInv
<1>4. /\ InMap' = InMap /\ Map' = Map /\ Field' = Field /\ InFramed' = InFramed /\ format' = format
  BY <1>1 DEF InMap, ListDone, Map, Kind, Field, InFramed, given
<1>5. stage # "magic" /\ inner = "separator" => got' = <<>>
  <2>1. SUFFICES ASSUME stage # "magic", inner = "separator" PROVE seen = <<>>
    BY <1>2, <1>3
  <2>2. Need(seen) = 1
    BY <2>1 DEF Need
  <2>3. ~(Len(seen) >= 1)
    BY <1>1, <1>3, <2>2
  <2>. QED  BY <2>3
<1>6. Rests'
  BY <1>1, <1>4, <1>5 DEF TypeInv, Rests
<1>7. Counts' /\ consumed' \in Nat
  <2>1. CASE InFramed
    <3>1. consumed' = Len(got')
      BY <2>1, NeedsMoreCounts DEF TypeInv, Counts, InFramed
    <3>2. PICK f : f = Field
      OBVIOUS
    <3>3. Need(seen) = InnerSize(f, seen) /\ InnerSize(f, seen) \in Nat
      BY <2>1, <3>2, NeedIs, InnerSizePositive DEF InFramed
    <3>4. Len(seen) < InnerSize(f, seen)
      BY <1>1, <1>3, <3>3
    <3>5. Len(got') < InnerSize(Field', got')
      BY <1>2, <1>3, <1>4, <3>2, <3>4
    <3>6. Len(got') \in Nat
      BY <1>2, <1>3
    <3>. QED  BY <1>4, <2>1, <3>1, <3>5, <3>6 DEF Counts
  <2>2. CASE ~InFramed
    <3>1. consumed' = consumed
      BY <1>1, <2>2 DEF CountConsumed, InFramed
    <3>. QED  BY <1>2, <1>4, <2>2, <3>1 DEF Counts, TypeInv, Stages
  <2>. QED  BY <2>1, <2>2
<1>8. Stages'
  BY <1>1, <1>2, <1>7 DEF TypeInv, Stages
<1>. QED  BY <1>2, <1>4, <1>6, <1>7, <1>8 DEF TypeInv

LEMMA StaysTyped ==
    ASSUME TypeInv, UNCHANGED <<given, got, pos, consumed, stage, declared, key, fields, tx, psbt>>,
           Held', Start' = Start,
           inner' = inner \/ (inner = "separator" /\ InMap /\ inner' = "key"),
           status' = status \/ (status \in {"running", "waiting"} /\ status' \in {"running", "ended"}),
           status' = "waiting" => fed' = fed
    PROVE  TypeInv'
<1>1. /\ InMap' = InMap /\ Map' = Map /\ Field' = Field /\ InFramed' = InFramed /\ format' = format
  BY DEF InMap, ListDone, Map, Kind, Field, InFramed, given
<1>2. Rests'
  BY <1>1 DEF TypeInv, Rests
<1>3. PICK f, seen : f = Field /\ seen = got
  OBVIOUS
<1>4. InnerSize(Field, got)' = InnerSize(f, seen) /\ InnerSize(Field, got) = InnerSize(f, seen)
  BY <1>1, <1>3
<1>5. Counts'
  BY <1>1, <1>4 DEF TypeInv, Counts
<1>6. Stages'
  BY DEF TypeInv, Stages
<1>. QED  BY <1>1, <1>2, <1>5, <1>6 DEF TypeInv

LEMMA CallTyped ==
    ASSUME TypeInv, (\E n \in Chunks : Push(n)) \/ End \/ StartKey \/ UNCHANGED vars
    PROVE  TypeInv'
<1>1. CASE \E n \in Chunks : Push(n)
  <2>1. PICK n \in Chunks : Push(n)
    BY <1>1
  <2>2. Held' /\ Start' = Start
    BY <2>1, PushHolds DEF TypeInv
  <2>3. /\ UNCHANGED <<given, got, pos, consumed, stage, inner, declared, key, fields, tx, psbt>>
        /\ status = "waiting" /\ status' = "running"
    BY <2>1 DEF Push, taking, reading
  <2>. QED  BY <2>2, <2>3, StaysTyped
<1>2. CASE End \/ UNCHANGED vars
  <2>1. UNCHANGED <<given, fed, pos, got>>
    BY <1>2 DEF End, vars, taking
  <2>2. Held' /\ Start' = Start
    BY <2>1, SameHolds DEF TypeInv
  <2>3. /\ UNCHANGED <<given, got, pos, consumed, stage, inner, declared, key, fields, tx, psbt, fed>>
        /\ status' = status \/ (status = "waiting" /\ status' = "ended")
    BY <1>2 DEF End, taking, reading, vars
  <2>. QED  BY <2>2, <2>3, StaysTyped
<1>3. CASE StartKey
  <2>1. UNCHANGED <<given, fed, pos, got>>
    BY <1>3 DEF StartKey, taking
  <2>2. Held' /\ Start' = Start
    BY <2>1, SameHolds DEF TypeInv
  <2>3. /\ UNCHANGED <<given, got, pos, consumed, stage, declared, key, fields, tx, psbt, fed, status>>
        /\ inner = "separator" /\ InMap /\ inner' = "key"
    BY <1>3 DEF StartKey, taking
  <2>. QED  BY <2>2, <2>3, StaysTyped
<1>. QED  BY <1>1, <1>2, <1>3

LEMMA TurnTyped ==
    ASSUME TypeInv, Turn
    PROVE  TypeInv'
<1>1. EndMagic \/ EndSeparator \/ EndKey \/ EndLength \/ EndValue \/ Overrun => TypeInv'
  BY HeadTyped, EndKeyTyped, EndLengthTyped, EndValueTyped
<1>2. EndGlobal \/ EndGlobal0 \/ EndInput \/ EndInput0 \/ EndOutput \/ EndOutput0 => TypeInv'
  BY MapEndTyped
<1>3. EndInputs \/ EndInputs0 \/ EndOutputs \/ EndOutputs0 => TypeInv'
  BY ListEndTyped
<1>4. NeedsMore \/ StartKey => TypeInv'
  BY NeedsMoreTyped, CallTyped
<1>. QED  BY <1>1, <1>2, <1>3, <1>4 DEF Turn

LEMMA FreshTyped ==
    ASSUME Fresh
    PROVE  TypeInv
<1>1. Held /\ format \in {0, 2}
  BY FreshSound DEF Sound
<1>2. /\ fed = 0 /\ pos = 0 /\ got = <<>> /\ consumed = 0 /\ declared = 0 /\ status = "waiting"
      /\ stage = "magic" /\ inner = "separator" /\ fields = {}
  BY DEF Fresh
<1>3. Rests /\ Stages
  BY <1>2 DEF Rests, Stages
<1>4. consumed <= Start
  BY <1>2, FreshHeld
<1>5. Counts
  BY <1>2, <1>4 DEF Counts, InFramed
<1>. QED  BY <1>1, <1>3, <1>5 DEF TypeInv

LEMMA StepTyped ==
    ASSUME TypeInv, Step
    PROVE  TypeInv'
  BY TurnTyped, CallTyped DEF Step

-----------------------------------------------------------------------------
(* All together, the first time and again: what was decoded is that of a    *)
(* message that is well formed, so it is a message that it is encoded to.   *)

DecoderInv == TypeInv /\ Sound /\ Decoding

LEMMA FreshInv == Fresh => DecoderInv
  BY FreshTyped, FreshSound, FreshDecodes DEF DecoderInv

LEMMA FreshInvNext == Fresh' => DecoderInv'
  BY FreshInv, PTL

LEMMA InitFresh ==
    ASSUME Init
    PROVE  Fresh
<1>1. PICK message \in Messages :
          format = message.format /\ expected = Expected(message) /\ bytes = Bytes(message)
  BY DEF Init
<1>2. message \in MessageType
  BY <1>1, DecoderAssumption
<1>3. Given(message)
  BY <1>1, <1>2 DEF Given
<1>. QED  BY <1>2, <1>3 DEF Init, Fresh

LEMMA ReencodeFresh ==
    ASSUME DecoderInv, NEW target \in Targets, Reencode(target)
    PROVE  Fresh'
<1>1. /\ status = "ready" /\ format' = target
      /\ fed' = 0 /\ pos' = 0 /\ consumed' = 0 /\ declared' = 0 /\ status' = "waiting"
      /\ stage' = "magic" /\ psbt' = EmptyPsbt /\ UNCHANGED <<got, inner, key, fields>>
  BY DEF Reencode
<1>2. PICK m : HasRead(m)
  BY <1>1, ReadyHasRead DEF DecoderInv
<1>3. m \in MessageType /\ WellFormed(m) /\ psbt = Meaning(m) /\ target \in {0, 2}
  BY <1>2, DecoderAssumption DEF HasRead
<1>4. PICK message : message = Encode(psbt, target)
  OBVIOUS
<1>5. message \in MessageType /\ message.format = target
  BY <1>3, <1>4, MeaningEncodes
<1>6. expected' = Expected(message) /\ bytes' = Bytes(message)
  BY <1>4 DEF Reencode
<1>7. Given(message)'
  BY <1>1, <1>5, <1>6 DEF Given
<1>8. stage = "done"
  BY <1>1 DEF DecoderInv, TypeInv, Stages
<1>9. inner = "separator" /\ fields = {} /\ got = <<>>
  BY <1>8 DEF DecoderInv, TypeInv, Rests, InMap
<1>. QED  BY <1>1, <1>5, <1>7, <1>9 DEF Fresh

LEMMA AlwaysDecoderInv == Spec => []DecoderInv
<1>1. Init => DecoderInv
  BY InitFresh, FreshInv
<1>2. DecoderInv /\ [Next]_vars => DecoderInv'
  <2> SUFFICES ASSUME DecoderInv, [Next]_vars PROVE DecoderInv'
    OBVIOUS
  <2>1. CASE Step
    BY <2>1, StepTyped, StepSound, StepDecodes DEF DecoderInv
  <2>2. CASE \E target \in Targets : Reencode(target)
    BY <2>2, ReencodeFresh, FreshInvNext
  <2>. QED  BY <2>1, <2>2 DEF Next, Step
<1>. QED  BY <1>1, <1>2, PTL DEF Spec

\* Whatever bytes are pushed, cut into any calls, and whatever is encoded and given
\* to a decoder again: no decoder holds more than was pushed, counts more than it
\* took, keeps anything across items but what it still needs, or leaves the
\* sentinel of an error without having returned one.
THEOREM TypeCorrect == Spec => []TypeOK
<1>1. DecoderInv => TypeOK
  BY TypeInvOK DEF DecoderInv
<1>. QED  BY <1>1, AlwaysDecoderInv, PTL

\* However the bytes are cut into calls, if they start with a message that is well
\* formed, its maps and nothing behind them are what push_bytes answers; it never
\* fails, and the stream ended too early only if it did.
THEOREM WellFormedAlwaysDecodes ==
    Spec => [](expected.ok => DecodesMessage)
<1>1. ASSUME Decoding, expected.ok PROVE DecodesMessage
  <2>1. PICK message \in MessageType : OfMessage(message)
    BY <1>1 DEF Decoding
  <2>2. WellFormed(message)
    BY <1>1, <2>1 DEF OfMessage, Given, Expected
  <2>. QED  BY <2>1, <2>2, AnswerIsRight DEF OfMessage
<1>2. DecoderInv => (expected.ok => DecodesMessage)
  BY <1>1 DEF DecoderInv
<1>. QED  BY <1>2, AlwaysDecoderInv, PTL

\* Whoever fetches no more than read_limit() says never waits for nothing, and
\* never fetches what is behind the PSBT.
THEOREM ReadLimitAlwaysInMessage == Spec => []ReadLimitInMessage
<1>1. ASSUME Decoding PROVE ReadLimitInMessage
  <2> SUFFICES ASSUME status = "waiting", expected.ok
               PROVE  /\ ReadLimit > 0
                      /\ fed + ReadLimit <= expected.extent + (IF InOrigin THEN HalfPart(got) ELSE 0)
    BY DEF ReadLimitInMessage
  <2>1. PICK message \in MessageType : OfMessage(message)
    BY <1>1 DEF Decoding
  <2>2. WellFormed(message) /\ expected.extent = Extent(message)
    BY <2>1 DEF OfMessage, Given, Expected
  <2>3. Decodes(message)
    BY <2>1, <2>2 DEF OfMessage
  <2>. QED  BY <2>2, <2>3, ReadLimitStays
<1>2. DecoderInv => ReadLimitInMessage
  BY <1>1 DEF DecoderInv
<1>. QED  BY <1>2, AlwaysDecoderInv, PTL

\* However the bytes are cut into calls, if push_bytes answers with a PSBT, there is
\* a message that is well formed and whose PSBT this is, and whose bytes are all
\* that was taken: the maps the first announces, no key twice in one, what is
\* required in each, and every value as its field decodes it.
THEOREM AcceptedIsWellFormed ==
    Spec => [](status = "ready" => \E m : HasRead(m))
<1>1. DecoderInv => (status = "ready" => \E m : HasRead(m))
  BY ReadyHasRead DEF DecoderInv
<1>. QED  BY <1>1, AlwaysDecoderInv, PTL

------------------------------------------------------------------------------
(* What was decoded first                                                   *)

\* What was decoded the first time, if it is decoded again now, is that of a message
\* that is well formed, and what is expected is that of what it is encoded to.
Again ==
    first # <<>> =>
        \E m \in MessageType : /\ WellFormed(m) /\ first = <<Meaning(m)>> /\ format \in {0, 2}
                               /\ expected = Expected(Encode(Meaning(m), format))

LEMMA StepKeepsFirst ==
    ASSUME Step
    PROVE  UNCHANGED <<given, first>>
  BY DEF Step, Turn, vars, NeedsMore, EndMagic, EndSeparator, StartKey, EndKey, EndLength,
     EndValue, Overrun, EndGlobal, EndGlobal0, EndInput, EndInput0, EndOutput, EndOutput0,
     EndInputs, EndInputs0, EndOutputs, EndOutputs0, AtEndOfMap, Take, Push, End

LEMMA StepAgain ==
    ASSUME Again, Step
    PROVE  Again'
<1>1. first' = first /\ format' = format /\ expected' = expected
  BY StepKeepsFirst DEF given
<1>. QED  BY <1>1 DEF Again

LEMMA ReencodeAgain ==
    ASSUME DecoderInv, NEW target \in Targets, Reencode(target)
    PROVE  Again'
<1>1. /\ status = "ready" /\ format' = target /\ first' = <<psbt>>
      /\ expected' = Expected(Encode(psbt, target))
  BY DEF Reencode
<1>2. PICK m : HasRead(m)
  BY <1>1, ReadyHasRead DEF DecoderInv
<1>3. m \in MessageType /\ WellFormed(m) /\ psbt = Meaning(m) /\ target \in {0, 2}
  BY <1>2, DecoderAssumption DEF HasRead
<1>. QED  BY <1>1, <1>3 DEF Again

LEMMA AlwaysAgain == Spec => [](DecoderInv /\ Again)
<1>1. Init => Again
  BY DEF Init, Again
<1>2. DecoderInv /\ Again /\ [Next]_vars => Again'
  <2> SUFFICES ASSUME DecoderInv, Again, [Next]_vars PROVE Again'
    OBVIOUS
  <2>1. CASE Step
    BY <2>1, StepAgain
  <2>2. CASE \E target \in Targets : Reencode(target)
    BY <2>2, ReencodeAgain
  <2>. QED  BY <2>1, <2>2 DEF Next, Step
<1>. QED  BY <1>1, <1>2, AlwaysDecoderInv, PTL DEF Spec

\* What a PSBT that was decoded is encoded to, if that has a place for all of it.
LEMMA WrittenIsRead ==
    ASSUME NEW m \in MessageType, WellFormed(m), NEW p, p = Meaning(m),
           NEW version \in {0, 2}, Fits(p, version)
    PROVE  ReadAs(Encode(p, version), IF version = 2 THEN p ELSE Demoted(p))
<1>1. PICK n \in Nat, k \in Nat : GoodPsbt(p, n, k)
  BY MeaningGood
<1>2. PsbtTyped(p)
  BY MeaningTyped
<1>3. CASE version = 2
  BY <1>1, <1>2, <1>3, TwoIsRead
<1>4. CASE version = 0
  BY <1>1, <1>2, <1>4, ZeroIsRead
<1>. QED  BY <1>3, <1>4

LEMMA ExpectedOfRead ==
    ASSUME NEW message, NEW q, ReadAs(message, q)
    PROVE  Expected(message).ok /\ Expected(message).psbt = q
  BY DEF ReadAs, Expected

LEMMA DecodesExpected ==
    ASSUME DecoderInv, expected.ok
    PROVE  DecodesMessage
<1>1. PICK message \in MessageType : OfMessage(message)
  BY DEF DecoderInv, Decoding
<1>2. WellFormed(message)
  BY <1>1 DEF OfMessage, Given, Expected
<1>. QED  BY <1>1, <1>2, AnswerIsRight DEF OfMessage

\* What is encoded of a PSBT that was decoded, in a version that has a place for all
\* of it, is decoded without an error to the same PSBT, or in version 0 to what that
\* version keeps, however it is cut into calls.
THEOREM AlwaysRoundTrips == Spec => []RoundTrips
<1>1. ASSUME DecoderInv, Again PROVE RoundTrips
  <2> SUFFICES ASSUME first # <<>>, Fits(first[1], format)
               PROVE  /\ status \notin {"error", "panicked"}
                      /\ status = "ready" => psbt = IF format = 2 THEN first[1] ELSE Demoted(first[1])
    BY DEF RoundTrips
  <2>1. PICK m \in MessageType : /\ WellFormed(m) /\ first = <<Meaning(m)>> /\ format \in {0, 2}
                                 /\ expected = Expected(Encode(Meaning(m), format))
    BY <1>1 DEF Again
  <2>2. PICK p : p = Meaning(m)
    OBVIOUS
  <2>3. first[1] = p
    BY <2>1, <2>2
  <2>4. ReadAs(Encode(p, format), IF format = 2 THEN p ELSE Demoted(p))
    BY <2>1, <2>2, <2>3, WrittenIsRead
  <2>5. expected.ok /\ expected.psbt = IF format = 2 THEN p ELSE Demoted(p)
    BY <2>1, <2>2, <2>4, ExpectedOfRead
  <2>6. DecodesMessage
    BY <1>1, <2>5, DecodesExpected
  <2>. QED  BY <2>3, <2>5, <2>6 DEF DecodesMessage
<1>2. DecoderInv /\ Again => RoundTrips
  BY <1>1
<1>. QED  BY <1>2, AlwaysAgain, PTL

\* What is decoded first is one of the messages a caller has.
Original ==
    first = <<>> =>
        \E m \in MessageType : Bytes(m) \in Seq(Byte) /\ m.format = format /\ expected = Expected(m)

LEMMA AlwaysOriginal == Spec => []Original
<1>1. Init => Original
  <2> SUFFICES ASSUME Init PROVE Original
    OBVIOUS
  <2>1. PICK m \in Messages : format = m.format /\ expected = Expected(m)
    BY DEF Init
  <2>2. m \in MessageType /\ Bytes(m) \in Seq(Byte)
    BY DecoderAssumption DEF Byte
  <2>. QED  BY <2>1, <2>2 DEF Original
<1>2. Original /\ [Next]_vars => Original'
  <2> SUFFICES ASSUME Original, [Next]_vars PROVE Original'
    OBVIOUS
  <2>1. CASE Step
    <3>1. first' = first /\ format' = format /\ expected' = expected
      BY <2>1, StepKeepsFirst DEF given
    <3>. QED  BY <3>1 DEF Original
  <2>2. CASE \E target \in Targets : Reencode(target)
    <3>1. first' # <<>>
      BY <2>2 DEF Reencode
    <3>. QED  BY <3>1 DEF Original
  <2>. QED  BY <2>1, <2>2 DEF Next, Step
<1>. QED  BY <1>1, <1>2, PTL DEF Spec

LEMMA NumberBytesAreBytes ==
    ASSUME NEW n \in Nat
    PROVE  NumberBytes(n) \in Seq(Byte)
<1>1. PICK r : DigitSteps(n, r, NumberBytes(n))
  BY DigitsStep
<1>. QED  BY <1>1 DEF DigitSteps

LEMMA LockOfTx ==
    ASSUME NEW p, PsbtTyped(p)
    PROVE  TxOfPsbt(p).lock \in Seq(Byte)
<1>1. PICK l \in Nat : l = LockTimeOf(p)
  BY LockTimeType
<1>2. PICK b : b = NumberBytes(l)
  OBVIOUS
<1>3. b \in Seq(Byte)
  BY <1>2, NumberBytesAreBytes
<1>4. TxOfPsbt(p).lock = b
  BY <1>1, <1>2 DEF TxOfPsbt, LockTimeOf
<1>. QED  BY <1>3, <1>4

\* Version 0 describes the same transaction, whatever else it lost.
LEMMA ZeroKeepsTx ==
    ASSUME NEW m \in MessageType, WellFormed(m), NEW p, p = Meaning(m),
           NEW e, e = Encode(p, 0), WellFormed(e)
    PROVE  TxOfPsbt(Meaning(e)) = TxOfPsbt(p)
<1>1. PICK n \in Nat, k \in Nat : GoodPsbt(p, n, k)
  BY MeaningGood
<1>2. PsbtTyped(p)
  BY MeaningTyped
<1>3. PICK t, maps : t = TxOfPsbt(p) /\ maps = e.maps
  OBVIOUS
<1>4. ZeroWritten(e, maps, p, t, n, k)
  BY <1>1, <1>2, <1>3, ZeroIsWritten
<1>5. e \in MessageType /\ e.format = 0 /\ TxOfMessage(e) = t
  BY <1>4 DEF ZeroWritten
<1>6. t.lock \in Seq(Byte)
  BY <1>2, <1>3, LockOfTx
<1>7. TxOfPsbt(Meaning(e)) = t
  BY <1>5, <1>6, TxOfMeaning
<1>. QED  BY <1>3, <1>7

\* No conversion of a message that is well formed changes the transaction that is
\* signed: what a message of version 0 decodes to describes the transaction in it,
\* and what a PSBT is encoded to, in either version, decodes to the transaction of
\* that PSBT (UnsignedTxDecoder, into_input and into_output; PsbtV0::from_psbt).
THEOREM AlwaysConversionKeepsTx == Spec => [](expected.ok => ConversionKeepsTx)
<1>1. ASSUME DecoderInv, Again, Original, expected.ok PROVE ConversionKeepsTx
  <2> SUFFICES ASSUME status = "ready"
               PROVE  /\ format = 0 => TxOfPsbt(psbt) = expected.tx
                      /\ first # <<>> /\ (format = 2 => Fits(first[1], 2)) =>
                             TxOfPsbt(psbt) = TxOfPsbt(first[1])
    BY DEF ConversionKeepsTx
  <2>1. psbt = expected.psbt
    BY <1>1, DecodesExpected DEF DecodesMessage
  <2>2. ASSUME NEW m \in MessageType, expected = Expected(m), m.format = 0, TxOfMessage(m).lock \in Seq(Byte)
        PROVE  TxOfPsbt(psbt) = expected.tx
    <3>1. WellFormed(m)
      BY <1>1, <2>2 DEF Expected
    <3>2. psbt = Meaning(m) /\ expected.tx = TxOfMessage(m)
      BY <2>1, <2>2, <3>1 DEF Expected
    <3>. QED  BY <2>2, <3>1, <3>2, TxOfMeaning
  <2>3. CASE first = <<>>
    <3>1. PICK m \in MessageType : Bytes(m) \in Seq(Byte) /\ m.format = format /\ expected = Expected(m)
      BY <1>1, <2>3 DEF Original
    <3>2. WellFormed(m)
      BY <1>1, <3>1 DEF Expected
    <3>3. ASSUME format = 0 PROVE TxOfMessage(m).lock \in Seq(Byte)
      BY <3>1, <3>2, <3>3, LockIsBytes
    <3>. QED  BY <2>2, <2>3, <3>1, <3>3
  <2>4. CASE first # <<>>
    <3>1. PICK m \in MessageType : /\ WellFormed(m) /\ first = <<Meaning(m)>> /\ format \in {0, 2}
                                   /\ expected = Expected(Encode(Meaning(m), format))
      BY <1>1, <2>4 DEF Again
    <3>2. PICK p : p = Meaning(m)
      OBVIOUS
    <3>3. first[1] = p
      BY <3>1, <3>2
    <3>4. CASE format = 2
      <4>1. SUFFICES ASSUME Fits(p, 2) PROVE psbt = p
        BY <3>3, <3>4
      <4>2. ReadAs(Encode(p, 2), p)
        BY <3>1, <3>2, <4>1, WrittenIsRead
      <4>3. expected.psbt = p
        BY <3>1, <3>2, <3>4, <4>2, ExpectedOfRead
      <4>. QED  BY <2>1, <4>3
    <3>5. CASE format = 0
      <4>1. PICK e : e = Encode(p, 0)
        OBVIOUS
      <4>2. expected = Expected(e)
        BY <3>1, <3>2, <3>5, <4>1
      <4>3. WellFormed(e)
        BY <1>1, <4>2 DEF Expected
      <4>4. psbt = Meaning(e)
        BY <2>1, <4>2, <4>3 DEF Expected
      <4>5. TxOfPsbt(psbt) = TxOfPsbt(p)
        BY <3>1, <3>2, <4>1, <4>3, <4>4, ZeroKeepsTx
      <4>6. PsbtTyped(p)
        BY <3>1, <3>2, MeaningTyped
      <4>7. e \in MessageType /\ e.format = 0 /\ TxOfMessage(e) = TxOfPsbt(p)
        <5>1. PICK n \in Nat, k \in Nat : GoodPsbt(p, n, k)
          BY <3>1, <3>2, MeaningGood
        <5>2. PICK t, maps : t = TxOfPsbt(p) /\ maps = e.maps
          OBVIOUS
        <5>3. ZeroWritten(e, maps, p, t, n, k)
          BY <4>1, <4>6, <5>1, <5>2, ZeroIsWritten
        <5>. QED  BY <5>2, <5>3 DEF ZeroWritten
      <4>8. TxOfMessage(e).lock \in Seq(Byte)
        BY <4>6, <4>7, LockOfTx
      <4>9. TxOfPsbt(psbt) = expected.tx
        BY <2>2, <4>2, <4>7, <4>8
      <4>. QED  BY <3>3, <3>5, <4>5, <4>9
    <3>. QED  BY <3>1, <3>4, <3>5
  <2>. QED  BY <2>3, <2>4
<1>2. DecoderInv /\ Again /\ Original => (expected.ok => ConversionKeepsTx)
  BY <1>1
<1>. QED  BY <1>2, AlwaysAgain, AlwaysOriginal, PTL

------------------------------------------------------------------------------
(* Messages that do not lie                                                 *)

\* The message that is read does not lie.
ReadsHonest == \E g \in MessageType : Given(g) /\ Honest(g)

LEMMA ReencodeHonest ==
    ASSUME DecoderInv, NEW target \in Targets, Reencode(target)
    PROVE  ReadsHonest'
<1>1. /\ status = "ready" /\ format' = target
      /\ expected' = Expected(Encode(psbt, target)) /\ bytes' = Bytes(Encode(psbt, target))
  BY DEF Reencode
<1>2. PICK m : HasRead(m)
  BY <1>1, ReadyHasRead DEF DecoderInv
<1>3. m \in MessageType /\ WellFormed(m) /\ psbt = Meaning(m) /\ target \in {0, 2}
  BY <1>2, DecoderAssumption DEF HasRead
<1>4. PICK n \in Nat, k \in Nat : GoodPsbt(psbt, n, k)
  BY <1>3, MeaningGood
<1>5. PsbtTyped(psbt)
  BY <1>3, MeaningTyped
<1>6. PICK e : e = Encode(psbt, target)
  OBVIOUS
<1>7. e \in MessageType /\ e.format = target
  BY <1>3, <1>5, <1>6, EncodeTyped
<1>8. Honest(e)
  BY <1>3, <1>4, <1>5, <1>6, EncodeHonest
<1>. QED  BY <1>1, <1>6, <1>7, <1>8 DEF ReadsHonest, Given

LEMMA AlwaysReadsHonest ==
    ASSUME \A g \in Messages : Honest(g)
    PROVE  Spec => []ReadsHonest
<1>1. Init => ReadsHonest
  <2> SUFFICES ASSUME Init PROVE ReadsHonest
    OBVIOUS
  <2>1. PICK g \in Messages : format = g.format /\ expected = Expected(g) /\ bytes = Bytes(g)
    BY DEF Init
  <2>2. g \in MessageType /\ Honest(g)
    BY DecoderAssumption
  <2>. QED  BY <2>1, <2>2 DEF ReadsHonest, Given
<1>2. ReadsHonest /\ DecoderInv /\ [Next]_vars => ReadsHonest'
  <2> SUFFICES ASSUME ReadsHonest, DecoderInv, [Next]_vars PROVE ReadsHonest'
    OBVIOUS
  <2>1. CASE Step
    <3>1. format' = format /\ expected' = expected /\ bytes' = bytes
      BY <2>1, StepKeepsFirst DEF given
    <3>. QED  BY <3>1 DEF ReadsHonest, Given
  <2>2. CASE \E target \in Targets : Reencode(target)
    BY <2>2, ReencodeHonest
  <2>. QED  BY <2>1, <2>2 DEF Next, Step
<1>. QED  BY <1>1, <1>2, AlwaysDecoderInv, PTL DEF Spec

LEMMA HonestIsWellFormed ==
    ASSUME DecoderInv, ReadsHonest, status = "ready"
    PROVE  expected.ok
<1>1. PICK g \in MessageType : Given(g) /\ Honest(g)
  BY DEF ReadsHonest
<1>2. PICK m : HasRead(m)
  BY ReadyHasRead DEF DecoderInv
<1>3. /\ m \in MessageType /\ WellFormed(m) /\ Len(m.maps) = 1 + InputCount(m) + OutputCount(m)
      /\ m.format = g.format /\ Stands(Bytes(m), Bytes(g), 0)
  BY <1>1, <1>2 DEF HasRead, Given
<1>4. WellFormed(g)
  BY <1>1, <1>3, StartsWellFormed
<1>. QED  BY <1>1, <1>4 DEF Given, Expected

-----------------------------------------------------------------------------
(* Where the decoder panics.                                                *)

PanicsAtUnchecked == status = "panicked" => inner = "value" /\ Field \in Unchecked

LEMMA OverrunUnchecked ==
    ASSUME Overrun
    PROVE  PanicsAtUnchecked'
<1>1. /\ inner = "value" /\ Overruns(Field, Item) /\ Running /\ UNCHANGED <<given, stage, key>>
      /\ \/ status' = "panicked" /\ inner' = inner
         \/ status' = status
  BY DEF Overrun, Take
<1>2. Field \in Unchecked
  BY <1>1 DEF Overruns, Unchecked
<1>3. Field' = Field
  BY <1>1 DEF Field, Map, Kind, given
<1>. QED  BY <1>1, <1>2, <1>3 DEF PanicsAtUnchecked, Running

LEMMA TurnUnchecked ==
    ASSUME Turn
    PROVE  PanicsAtUnchecked'
<1>1. CASE Overrun
  BY <1>1, OverrunUnchecked
<1>2. CASE ~Overrun
  <2>1. Running
    BY DEF Turn, NeedsMore, EndMagic, EndSeparator, StartKey, EndKey, EndLength, EndValue, Overrun,
           EndGlobal, EndGlobal0, EndInput, EndInput0, EndOutput, EndOutput0, EndInputs, EndInputs0,
           EndOutputs, EndOutputs0, AtEndOfMap, Take
  <2>2. status' \in {status, "waiting", "error", "ready"}
    BY <1>2 DEF Turn, NeedsMore, EndMagic, EndSeparator, StartKey, EndKey, EndLength, EndValue,
           EndGlobal, EndGlobal0, EndInput, EndInput0, EndOutput, EndOutput0, EndInputs, EndInputs0,
           EndOutputs, EndOutputs0, Fail
  <2>. QED  BY <2>1, <2>2 DEF Running, PanicsAtUnchecked
<1>. QED  BY <1>1, <1>2

\* Whatever bytes are pushed: the values of a taproot key's origin and of a taproot
\* tree are the only ones on which the decoder of either version can panic.
THEOREM PanicsOnlyAtUnchecked == Spec => []PanicsAtUnchecked
<1>1. Init => PanicsAtUnchecked
  BY DEF Init, PanicsAtUnchecked
<1>2. PanicsAtUnchecked /\ [Next]_vars => PanicsAtUnchecked'
  <2> SUFFICES ASSUME PanicsAtUnchecked, [Next]_vars PROVE PanicsAtUnchecked'
    OBVIOUS
  <2>1. CASE Turn
    BY <2>1, TurnUnchecked
  <2>2. CASE \/ \E n \in Chunks : Push(n)
             \/ End
             \/ \E target \in Targets : Reencode(target)
    BY <2>2 DEF Push, End, Reencode, PanicsAtUnchecked
  <2>3. CASE UNCHANGED vars
    BY <2>3 DEF vars, given, reading, PanicsAtUnchecked, Field, Map, Kind
  <2>. QED  BY <2>1, <2>2, <2>3 DEF Next
<1>. QED  BY <1>1, <1>2, PTL DEF Spec

\* If no message lies about the length of a value, the decoder answers each, those it
\* is given first and those encoded again, as it should: with the PSBT it means
\* having taken just its bytes if it is well formed, and never with a PSBT if it is
\* not, but with an error or, at two kinds of value, a panic.
THEOREM HonestAlwaysDecodes ==
    ASSUME \A g \in Messages : Honest(g)
    PROVE  Spec => []DecodesMessage
<1>1. DecoderInv /\ ReadsHonest /\ PanicsAtUnchecked => DecodesMessage
  <2> SUFFICES ASSUME DecoderInv, ReadsHonest, PanicsAtUnchecked PROVE DecodesMessage
    OBVIOUS
  <2>1. CASE expected.ok
    BY <2>1, DecodesExpected
  <2>2. CASE ~expected.ok
    <3>1. status # "ready"
      BY <2>2, HonestIsWellFormed
    <3>. QED  BY <2>2, <3>1 DEF DecodesMessage, PanicsAtUnchecked
  <2>. QED  BY <2>1, <2>2
<1>. QED  BY <1>1, AlwaysReadsHonest, AlwaysDecoderInv, PanicsOnlyAtUnchecked, PTL

\* Nor does a conversion of any of them change the transaction that is signed.
THEOREM HonestConversionKeepsTx ==
    ASSUME \A g \in Messages : Honest(g)
    PROVE  Spec => []ConversionKeepsTx
<1>1. DecoderInv /\ ReadsHonest /\ (expected.ok => ConversionKeepsTx) => ConversionKeepsTx
  BY HonestIsWellFormed DEF ConversionKeepsTx
<1>. QED  BY <1>1, AlwaysReadsHonest, AlwaysDecoderInv, AlwaysConversionKeepsTx, PTL
=============================================================================
