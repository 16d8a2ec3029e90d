---------------------------- MODULE CodecProofs ----------------------------
(***************************************************************************)
(* What the bytes of a message are, for any message: that the size of an    *)
(* item does not change once it is seen whole, that a value which decodes   *)
(* as a whole is read to its end, where every map, pair and value of a      *)
(* message stands in its bytes, and what the maps of a message that is well *)
(* formed hold.                                                            *)
(***************************************************************************)
EXTENDS PsbtFormat, WellFoundedInduction, FiniteSetTheorems, TLAPS

(***************************************************************************)
(* Induction over a set of numbers: the least number that were not in it    *)
(* would have one before it that is.                                        *)
(***************************************************************************)
LEMMA NumbersInduct ==
    ASSUME NEW T \in SUBSET Nat, 0 \in T, \A n \in T : n + 1 \in T
    PROVE  T = Nat
<1>. DEFINE R == Nat \ T
<1>. SUFFICES ASSUME R # {} PROVE FALSE
  OBVIOUS
<1>1. \E x \in R : \A y \in R : ~(<<y, x>> \in OpToRel(<, Nat))
  <2>1. R \subseteq Nat
    OBVIOUS
  <2>. HIDE DEF R
  <2>. QED  BY <2>1, NatLessThanWellFounded, WFMin
<1>2. PICK x \in R : \A y \in R : ~(y < x)
  <2>1. \A e, d \in Nat : e < d => <<e, d>> \in OpToRel(<, Nat)
    BY DEF OpToRel
  <2>. QED  BY <1>1, <2>1
<1>3. x # 0 /\ x - 1 \in Nat /\ x - 1 < x
  OBVIOUS
<1>4. x - 1 \in T
  BY <1>2, <1>3
<1>. QED  BY <1>3, <1>4

\* g is next iterated up to n times from a.
Iterated(next, a, n, g) ==
    g = [i \in 0 .. n |-> IF i = 0 THEN a ELSE next[g[i - 1]]]

LEMMA RecursiveFunction ==
    ASSUME NEW next, NEW a, NEW n \in Nat, NEW g,
           g = [i \in 0 .. n |-> g[i]],
           g[0] = a, \A i \in 1 .. n : g[i] = next[g[i - 1]]
    PROVE  Iterated(next, a, n, g)
<1>. DEFINE h == [i \in 0 .. n |-> IF i = 0 THEN a ELSE next[g[i - 1]]]
<1>1. h = [i \in 0 .. n |-> h[i]]
  OBVIOUS
<1>2. ASSUME NEW i \in 0 .. n PROVE h[i] = g[i]
  <2>1. CASE i = 0
    BY <2>1
  <2>2. CASE i # 0
    <3>1. i \in 1 .. n
      BY <2>2
    <3>2. g[i] = next[g[i - 1]]
      BY <3>1
    <3>. QED  BY <2>2, <3>2
  <2>. QED  BY <2>1, <2>2
<1>3. h = g
  <2>. HIDE DEF h
  <2>. QED  BY <1>1, <1>2
<1>. QED  BY <1>3 DEF h, Iterated

\* It exists,
LEMMA IterationExists ==
    ASSUME NEW next, NEW a, NEW n \in Nat
    PROVE  \E g : Iterated(next, a, n, g)
<1>. DEFINE T == {k \in Nat : \E g : Iterated(next, a, k, g)}
<1>1. 0 \in T
  <2>1. Iterated(next, a, 0, [i \in 0 .. 0 |-> a])
    BY DEF Iterated
  <2>. QED  BY <2>1
<1>2. ASSUME NEW k \in T PROVE k + 1 \in T
  <2>1. PICK g : Iterated(next, a, k, g)
    OBVIOUS
  <2>2. g[0] = a /\ \A i \in 1 .. k : g[i] = next[g[i - 1]]
    BY <2>1 DEF Iterated
  <2>. DEFINE h == [i \in 0 .. k + 1 |-> IF i = k + 1 THEN next[g[k]] ELSE g[i]]
  <2>3. h[0] = a /\ \A i \in 1 .. k + 1 : h[i] = next[h[i - 1]]
    <3>1. ASSUME NEW i \in 1 .. k PROVE h[i] = next[h[i - 1]]
      BY <2>2
    <3>2. h[k + 1] = next[h[k]]
      OBVIOUS
    <3>3. h[0] = a
      BY <2>2
    <3>. HIDE DEF h
    <3>. QED  BY <3>1, <3>2, <3>3
  <2>4. h = [i \in 0 .. k + 1 |-> h[i]]
    OBVIOUS
  <2>5. k + 1 \in Nat
    OBVIOUS
  <2>6. \E x : Iterated(next, a, k + 1, x)
    <3>. HIDE DEF h
    <3>. QED  BY <2>3, <2>4, <2>5, RecursiveFunction
  <2>. QED  BY <2>5, <2>6
<1>3. T \in SUBSET Nat
  OBVIOUS
<1>4. n \in T
  <2>. HIDE DEF T
  <2>. QED  BY <1>1, <1>2, <1>3, NumbersInduct
<1>. QED  BY <1>4

Chain(A, next, a, n, f) ==
    /\ f \in [0 .. n -> A]
    /\ f[0] = a
    /\ \A i \in 1 .. n : f[i] = next[f[i - 1]]

\* and stays in the set it iterates over.
LEMMA IterationType ==
    ASSUME NEW A, NEW next \in [A -> A], NEW a \in A, NEW n \in Nat,
           NEW f, Iterated(next, a, n, f)
    PROVE  Chain(A, next, a, n, f)
<1>1. f[0] = a /\ \A i \in 1 .. n : f[i] = next[f[i - 1]]
  BY DEF Iterated
<1>2. f = [i \in 0 .. n |-> f[i]]
  BY DEF Iterated
<1>. DEFINE U == {i \in Nat : i <= n => f[i] \in A}
<1>3. U = Nat
  <2>1. 0 \in U
    BY <1>1
  <2>2. ASSUME NEW i \in U PROVE i + 1 \in U
    <3>. SUFFICES ASSUME i + 1 <= n PROVE f[i + 1] \in A
      OBVIOUS
    <3>1. f[i] \in A /\ f[i + 1] = next[f[i]]
      BY <1>1
    <3>. QED  BY <3>1
  <2>3. U \in SUBSET Nat
    OBVIOUS
  <2>. HIDE DEF U
  <2>. QED  BY <2>1, <2>2, <2>3, NumbersInduct
<1>4. f \in [0 .. n -> A]
  BY <1>2, <1>3
<1>. QED  BY <1>1, <1>4 DEF Chain

-----------------------------------------------------------------------------
(* Sequences joined to one *)

LEMMA Concat ==
    ASSUME NEW S, NEW a \in Seq(S), NEW b \in Seq(S)
    PROVE  /\ a \o b \in Seq(S) /\ Len(a \o b) = Len(a) + Len(b)
           /\ \A i \in 1 .. Len(a) : (a \o b)[i] = a[i]
           /\ \A i \in 1 .. Len(b) : (a \o b)[Len(a) + i] = b[i]
  OBVIOUS

Associates(a, b, c) == a \o (b \o c) = (a \o b) \o c

LEMMA ConcatAssociates ==
    ASSUME NEW a \in Seq(Nat), NEW b \in Seq(Nat), NEW c \in Seq(Nat)
    PROVE  Associates(a, b, c)
  BY SMTT(20) DEF Associates

Joint(s, t) == s \o t

JoinedBy(seqs, n, g) ==
    g = [i \in 1 .. n |-> IF i = 1 THEN seqs[i] ELSE Joint(g[i - 1], seqs[i])]

LEMMA JoinedByPoints ==
    ASSUME NEW seqs, NEW n \in Nat, NEW g, g = [i \in 1 .. n |-> g[i]],
           n > 0 => g[1] = seqs[1],
           \A i \in 2 .. n : g[i] = Joint(g[i - 1], seqs[i])
    PROVE  JoinedBy(seqs, n, g)
<1>. DEFINE h == [i \in 1 .. n |-> IF i = 1 THEN seqs[i] ELSE Joint(g[i - 1], seqs[i])]
<1>1. h = [i \in 1 .. n |-> h[i]]
  OBVIOUS
<1>2. ASSUME NEW i \in 1 .. n PROVE h[i] = g[i]
  <2>1. CASE i = 1
    BY <2>1
  <2>2. CASE i # 1
    <3>1. i \in 2 .. n
      BY <2>2
    <3>2. g[i] = Joint(g[i - 1], seqs[i])
      BY <3>1
    <3>. QED  BY <2>2, <3>2
  <2>. QED  BY <2>1, <2>2
<1>3. h = g
  <2>. HIDE DEF h
  <2>. QED  BY <1>1, <1>2
<1>. QED  BY <1>3 DEF h, JoinedBy

LEMMA JoinExists ==
    ASSUME NEW seqs, NEW n \in Nat
    PROVE  \E g : JoinedBy(seqs, n, g)
<1>. DEFINE T == {k \in Nat : \E g : JoinedBy(seqs, k, g)}
<1>1. 0 \in T
  <2>1. JoinedBy(seqs, 0, [i \in 1 .. 0 |-> <<>>])
    BY DEF JoinedBy
  <2>. QED  BY <2>1
<1>2. ASSUME NEW k \in T PROVE k + 1 \in T
  <2>1. PICK g : JoinedBy(seqs, k, g)
    OBVIOUS
  <2>2. (k > 0 => g[1] = seqs[1]) /\ \A i \in 2 .. k : g[i] = Joint(g[i - 1], seqs[i])
    BY <2>1 DEF JoinedBy
  <2>. DEFINE last == IF k = 0 THEN seqs[1] ELSE Joint(g[k], seqs[k + 1])
              h == [i \in 1 .. k + 1 |-> IF i = k + 1 THEN last ELSE g[i]]
  <2>3. h[1] = seqs[1] /\ \A i \in 2 .. k + 1 : h[i] = Joint(h[i - 1], seqs[i])
    <3>1. ASSUME NEW i \in 2 .. k PROVE h[i] = Joint(h[i - 1], seqs[i])
      BY <2>2
    <3>2. k > 0 => h[k + 1] = Joint(h[k], seqs[k + 1])
      OBVIOUS
    <3>3. h[1] = seqs[1]
      BY <2>2
    <3>. HIDE DEF h
    <3>. QED  BY <3>1, <3>2, <3>3
  <2>4. h = [i \in 1 .. k + 1 |-> h[i]]
    OBVIOUS
  <2>5. k + 1 \in Nat
    OBVIOUS
  <2>6. \E x : JoinedBy(seqs, k + 1, x)
    <3>. HIDE DEF h
    <3>. QED  BY <2>3, <2>4, <2>5, JoinedByPoints
  <2>. QED  BY <2>5, <2>6
<1>3. T \in SUBSET Nat
  OBVIOUS
<1>4. n \in T
  <2>. HIDE DEF T
  <2>. QED  BY <1>1, <1>2, <1>3, NumbersInduct
<1>. QED  BY <1>4

LEMMA JoinedByMeans ==
    ASSUME NEW seqs, NEW n \in Nat, NEW g, JoinedBy(seqs, n, g)
    PROVE  /\ g = [i \in 1 .. n |-> g[i]]
           /\ n > 0 => g[1] = seqs[1]
           /\ \A i \in 2 .. n : g[i] = Joint(g[i - 1], seqs[i])
<1>1. g = [i \in 1 .. n |-> g[i]]
  BY DEF JoinedBy
<1>2. n > 0 => g[1] = seqs[1]
  BY DEF JoinedBy
<1>3. ASSUME NEW i \in 2 .. n PROVE g[i] = Joint(g[i - 1], seqs[i])
  BY DEF JoinedBy
<1>. QED  BY <1>1, <1>2, <1>3

LEMMA JoinType ==
    ASSUME NEW S, NEW seqs, NEW n \in Nat, \A i \in 1 .. n : seqs[i] \in Seq(S),
           NEW g, JoinedBy(seqs, n, g)
    PROVE  /\ \A i \in 1 .. n : g[i] \in Seq(S)
           /\ n > 0 => g[1] = seqs[1]
           /\ \A i \in 2 .. n : g[i] = Joint(g[i - 1], seqs[i])
<1>1. n > 0 => g[1] = seqs[1]
  BY JoinedByMeans
<1>2. \A i \in 2 .. n : g[i] = Joint(g[i - 1], seqs[i])
  BY JoinedByMeans
<1>. DEFINE U == {i \in Nat : i \in 1 .. n => g[i] \in Seq(S)}
<1>3. U = Nat
  <2>1. 0 \in U
    OBVIOUS
  <2>2. ASSUME NEW i \in U PROVE i + 1 \in U
    <3>. SUFFICES ASSUME i + 1 \in 1 .. n PROVE g[i + 1] \in Seq(S)
      OBVIOUS
    <3>1. CASE i = 0
      BY <1>1, <3>1
    <3>2. CASE i # 0
      <4>1. g[i] \in Seq(S) /\ seqs[i + 1] \in Seq(S)
        BY <3>2
      <4>2. i + 1 \in 2 .. n /\ (i + 1) - 1 = i
        BY <3>2
      <4>3. g[i + 1] = Joint(g[i], seqs[i + 1])
        BY <1>2, <4>2
      <4>4. Joint(g[i], seqs[i + 1]) \in Seq(S)
        BY <4>1 DEF Joint
      <4>. QED  BY <4>3, <4>4
    <3>. QED  BY <3>1, <3>2
  <2>3. U \in SUBSET Nat
    OBVIOUS
  <2>. HIDE DEF U
  <2>. QED  BY <2>1, <2>2, <2>3, NumbersInduct
<1>4. \A i \in 1 .. n : g[i] \in Seq(S)
  BY <1>3
<1>. QED  BY <1>1, <1>2, <1>4

LEMMA JoinUnique ==
    ASSUME NEW seqs, NEW n \in Nat,
           NEW f, JoinedBy(seqs, n, f), NEW g, JoinedBy(seqs, n, g)
    PROVE  \A i \in 1 .. n : g[i] = f[i]
<1>1. /\ n > 0 => f[1] = seqs[1] /\ g[1] = seqs[1]
      /\ \A i \in 2 .. n : f[i] = Joint(f[i - 1], seqs[i])
      /\ \A i \in 2 .. n : g[i] = Joint(g[i - 1], seqs[i])
  BY JoinedByMeans
<1>. DEFINE U == {i \in Nat : i \in 1 .. n => g[i] = f[i]}
<1>2. U = Nat
  <2>1. 0 \in U
    OBVIOUS
  <2>2. ASSUME NEW i \in U PROVE i + 1 \in U
    <3>. SUFFICES ASSUME i + 1 \in 1 .. n PROVE g[i + 1] = f[i + 1]
      OBVIOUS
    <3>1. CASE i = 0
      BY <1>1, <3>1
    <3>2. CASE i # 0
      <4>1. i + 1 \in 2 .. n /\ (i + 1) - 1 = i /\ f[i] = g[i]
        BY <3>2
      <4>. QED  BY <1>1, <4>1
    <3>. QED  BY <3>1, <3>2
  <2>3. U \in SUBSET Nat
    OBVIOUS
  <2>. HIDE DEF U
  <2>. QED  BY <2>1, <2>2, <2>3, NumbersInduct
<1>. QED  BY <1>2

\* What the first k of them are joined to.
Joined(seqs, k) == FlattenSeq(SubSeq(seqs, 1, k))

LEMMA FlattenJoins ==
    ASSUME NEW seqs, NEW n \in Nat, Len(seqs) = n, n > 0,
           NEW g, JoinedBy(seqs, n, g)
    PROVE  FlattenSeq(seqs) = g[n]
<1>1. PICK f : f = CHOOSE x : JoinedBy(seqs, n, x)
  OBVIOUS
<1>2. JoinedBy(seqs, n, f)
  BY <1>1
<1>3. FlattenSeq(seqs) = f[n]
  BY <1>1 DEF FlattenSeq, JoinedBy, Joint
<1>4. f[n] = g[n]
  BY <1>2, JoinUnique
<1>. QED  BY <1>3, <1>4

\* g is this for seqs, point by point, and s the beginning of seqs.
JoinPoints(seqs, n, g) ==
    /\ n > 0 => g[1] = seqs[1]
    /\ \A i \in 2 .. n : g[i] = Joint(g[i - 1], seqs[i])

Begins(s, seqs, k) == Len(s) = k /\ \A i \in 1 .. k : s[i] = seqs[i]

LEMMA FlattenPart ==
    ASSUME NEW seqs, NEW n \in Nat, NEW g, JoinPoints(seqs, n, g),
           NEW k \in 1 .. n, NEW s, Begins(s, seqs, k)
    PROVE  FlattenSeq(s) = g[k]
<1>1. Len(s) = k /\ \A i \in 1 .. k : s[i] = seqs[i]
  BY DEF Begins
<1>2. PICK h : h = [i \in 1 .. k |-> g[i]]
  OBVIOUS
<1>3. h = [i \in 1 .. k |-> h[i]]
  BY <1>2
<1>4. k > 0 => h[1] = s[1]
  BY <1>1, <1>2 DEF JoinPoints
<1>5. ASSUME NEW i \in 2 .. k PROVE h[i] = Joint(h[i - 1], s[i])
  <2>1. g[i] = Joint(g[i - 1], seqs[i])
    BY DEF JoinPoints
  <2>2. h[i] = g[i] /\ h[i - 1] = g[i - 1] /\ s[i] = seqs[i]
    BY <1>1, <1>2
  <2>. QED  BY <2>1, <2>2
<1>6. k \in Nat /\ k > 0
  OBVIOUS
<1>7. JoinedBy(s, k, h)
  BY <1>3, <1>4, <1>5, <1>6, JoinedByPoints
<1>8. FlattenSeq(s) = h[k]
  BY <1>1, <1>6, <1>7, FlattenJoins
<1>. QED  BY <1>2, <1>8

LEMMA JoinedStep ==
    ASSUME NEW S, NEW seqs \in Seq(Seq(S))
    PROVE  /\ \A k \in 0 .. Len(seqs) : Joined(seqs, k) \in Seq(S)
           /\ Joined(seqs, 0) = <<>>
           /\ \A k \in 1 .. Len(seqs) : Joined(seqs, k) = Joined(seqs, k - 1) \o seqs[k]
           /\ Joined(seqs, Len(seqs)) = FlattenSeq(seqs)
<1>1. PICK n \in Nat : n = Len(seqs)
  OBVIOUS
<1>2. \A i \in 1 .. n : seqs[i] \in Seq(S)
  BY <1>1
<1>3. SubSeq(seqs, 1, 0) = <<>> /\ SubSeq(seqs, 1, n) = seqs
  BY <1>1
<1>4. ASSUME NEW k \in 1 .. n PROVE Begins(SubSeq(seqs, 1, k), seqs, k)
  BY <1>1 DEF Begins
<1>5. Joined(seqs, 0) = <<>>
  BY <1>3 DEF Joined, FlattenSeq
<1>6. Joined(seqs, n) = FlattenSeq(seqs)
  BY <1>3 DEF Joined
<1>7. PICK g : JoinedBy(seqs, n, g)
  BY JoinExists
<1>8. \A i \in 1 .. n : g[i] \in Seq(S)
  BY <1>2, <1>7, JoinType
<1>9. JoinPoints(seqs, n, g)
  BY <1>7, JoinedByMeans DEF JoinPoints
<1>10. ASSUME NEW k \in 1 .. n PROVE Joined(seqs, k) = g[k]
  BY <1>4, <1>9, FlattenPart DEF Joined
<1>11. ASSUME NEW k \in 0 .. n PROVE Joined(seqs, k) \in Seq(S)
  <2>1. CASE k = 0
    <3>1. <<>> \in Seq(S)
      OBVIOUS
    <3>. QED  BY <1>5, <2>1, <3>1
  <2>2. CASE k # 0
    <3>1. k \in 1 .. n
      BY <2>2
    <3>. QED  BY <1>8, <1>10, <3>1
  <2>. QED  BY <2>1, <2>2
<1>12. ASSUME NEW k \in 1 .. n PROVE Joined(seqs, k) = Joined(seqs, k - 1) \o seqs[k]
  <2>1. CASE k = 1
    <3>1. seqs[1] = <<>> \o seqs[1] /\ n > 0
      BY <1>2, <2>1
    <3>2. Joined(seqs, 1) = seqs[1]
      BY <1>9, <1>10, <2>1, <3>1 DEF JoinPoints
    <3>3. k - 1 = 0
      BY <2>1
    <3>. QED  BY ONLY <1>5, <2>1, <3>1, <3>2, <3>3
  <2>2. CASE k # 1
    <3>1. k - 1 \in 1 .. n /\ k \in 2 .. n
      BY <2>2
    <3>2. g[k] = g[k - 1] \o seqs[k]
      BY <1>9, <3>1 DEF JoinPoints, Joint
    <3>. QED  BY <1>10, <3>1, <3>2
  <2>. QED  BY <2>1, <2>2
<1>. QED  BY <1>1, <1>5, <1>6, <1>11, <1>12

-----------------------------------------------------------------------------
(* Where a sequence stands in another *)

Stands(t, s, start) ==
    /\ start + Len(t) <= Len(s)
    /\ \A i \in 1 .. Len(t) : s[start + i] = t[i]

LEMMA StandsOfParts ==
    ASSUME NEW S, NEW a \in Seq(S), NEW b \in Seq(S), NEW s \in Seq(S), NEW start \in Nat,
           Stands(a \o b, s, start)
    PROVE  Stands(a, s, start) /\ Stands(b, s, start + Len(a))
<1>1. Len(a \o b) = Len(a) + Len(b)
  OBVIOUS
<1>2. \A i \in 1 .. Len(a) : (a \o b)[i] = a[i]
  OBVIOUS
<1>3. ASSUME NEW i \in 1 .. Len(b) PROVE (a \o b)[Len(a) + i] = b[i]
  OBVIOUS
<1>4. Stands(a, s, start)
  BY <1>1, <1>2 DEF Stands
<1>5. ASSUME NEW i \in 1 .. Len(b) PROVE s[start + Len(a) + i] = b[i]
  <2>1. Len(a) + i \in 1 .. Len(a \o b)
    BY <1>1
  <2>2. s[start + (Len(a) + i)] = (a \o b)[Len(a) + i]
    BY <2>1 DEF Stands
  <2>. QED  BY <1>3, <2>2
<1>6. Stands(b, s, start + Len(a))
  BY <1>1, <1>5 DEF Stands
<1>. QED  BY <1>4, <1>6

LEMMA StandsWithin ==
    ASSUME NEW S, NEW t \in Seq(S), NEW u \in Seq(S), NEW s \in Seq(S),
           NEW start \in Nat, NEW place \in Nat,
           Stands(t, s, start), Stands(u, t, place)
    PROVE  Stands(u, s, start + place)
<1>1. start + place + Len(u) <= Len(s)
  BY DEF Stands
<1>2. ASSUME NEW i \in 1 .. Len(u) PROVE s[start + place + i] = u[i]
  <2>1. place + i \in 1 .. Len(t) /\ t[place + i] = u[i]
    BY DEF Stands
  <2>2. s[start + (place + i)] = t[place + i]
    BY <2>1 DEF Stands
  <2>. QED  BY <2>1, <2>2
<1>. QED  BY <1>1, <1>2 DEF Stands

LEMMA StandsInMore ==
    ASSUME NEW S, NEW t \in Seq(S), NEW s \in Seq(S), NEW more \in Seq(S),
           NEW start \in Nat, Stands(t, s, start)
    PROVE  Stands(t, s \o more, start)
<1>1. Len(s \o more) = Len(s) + Len(more) /\ Len(more) \in Nat
  OBVIOUS
<1>2. \A i \in 1 .. Len(s) : (s \o more)[i] = s[i]
  OBVIOUS
<1>3. ASSUME NEW i \in 1 .. Len(t) PROVE (s \o more)[start + i] = t[i]
  <2>1. start + i \in 1 .. Len(s) /\ s[start + i] = t[i]
    BY DEF Stands
  <2>. QED  BY <1>2, <2>1
<1>. QED  BY <1>1, <1>3 DEF Stands

LEMMA JoinedStands ==
    ASSUME NEW S, NEW seqs \in Seq(Seq(S)), NEW k \in 1 .. Len(seqs)
    PROVE  Stands(seqs[k], FlattenSeq(seqs), Len(Joined(seqs, k - 1)))
<1>1. PICK n \in Nat : n = Len(seqs)
  OBVIOUS
<1>2. /\ \A m \in 0 .. n : Joined(seqs, m) \in Seq(S)
      /\ \A m \in 1 .. n : Joined(seqs, m) = Joined(seqs, m - 1) \o seqs[m]
      /\ Joined(seqs, n) = FlattenSeq(seqs)
  BY <1>1, JoinedStep
<1>3. k - 1 \in 0 .. n /\ k \in 0 .. n /\ k \in 1 .. n /\ seqs[k] \in Seq(S)
  BY <1>1
<1>4. PICK start \in Nat : start = Len(Joined(seqs, k - 1))
  BY <1>2, <1>3
<1>5. PICK t \in Seq(S) : t = seqs[k]
  BY <1>3
<1>. DEFINE U == {m \in Nat : k + m <= n => Stands(t, Joined(seqs, k + m), start)}
<1>6. U = Nat
  <2>1. 0 \in U
    <3>1. Joined(seqs, k) = Joined(seqs, k - 1) \o t
      BY <1>2, <1>3, <1>5
    <3>2. Joined(seqs, k - 1) \in Seq(S)
      BY <1>2, <1>3
    <3>3. Stands(t, Joined(seqs, k - 1) \o t, start)
      BY <1>4, <3>2 DEF Stands
    <3>4. k + 0 = k
      OBVIOUS
    <3>. QED  BY <3>1, <3>3, <3>4
  <2>2. ASSUME NEW m \in U PROVE m + 1 \in U
    <3>. SUFFICES ASSUME k + (m + 1) <= n PROVE Stands(t, Joined(seqs, k + (m + 1)), start)
      OBVIOUS
    <3>0. m \in Nat
      OBVIOUS
    <3>1. k + m \in 0 .. n /\ k + (m + 1) \in 1 .. n /\ (k + (m + 1)) - 1 = k + m
      BY <1>1
    <3>2. Stands(t, Joined(seqs, k + m), start)
      BY <3>1
    <3>3. Joined(seqs, k + (m + 1)) = Joined(seqs, k + m) \o seqs[k + (m + 1)]
      BY <1>2, <3>1
    <3>4. Joined(seqs, k + m) \in Seq(S) /\ seqs[k + (m + 1)] \in Seq(S)
      BY <1>1, <1>2, <3>1
    <3>. QED  BY <3>2, <3>3, <3>4, StandsInMore
  <2>3. U \in SUBSET Nat
    OBVIOUS
  <2>. HIDE DEF U
  <2>. QED  BY <2>1, <2>2, <2>3, NumbersInduct
<1>7. n - k \in U /\ k + (n - k) = n
  <2>1. n - k \in Nat /\ k + (n - k) = n
    BY <1>1
  <2>. QED  BY <1>6, <2>1
<1>8. Stands(t, Joined(seqs, n), start)
  BY <1>7
<1>. QED  BY <1>2, <1>4, <1>5, <1>8

-----------------------------------------------------------------------------
(* Where something ends, as far as seen: ea is what one who saw a says, eb   *)
(* what one says who saw the longer b.                                      *)

Prefix(a, b) == Len(a) <= Len(b) /\ \A i \in 1 .. Len(a) : a[i] = b[i]

Steady(a, ea, eb) == IF ea <= Len(a) THEN eb = ea ELSE eb >= ea

NextItem(seen, before, after) ==
    [end \in Nat |->
        LET script == end + before + 1
        IN  Past(seen, end, Past(seen, script, script + seen[script] + after))]

LEMMA NextItemType ==
    ASSUME NEW seen \in Seq(Nat), NEW before \in Nat, NEW after \in Nat
    PROVE  /\ NextItem(seen, before, after) \in [Nat -> Nat]
           /\ \A end \in Nat : NextItem(seen, before, after)[end] >= end
<1>1. ASSUME NEW end \in Nat
      PROVE  LET script == end + before + 1
                 e == Past(seen, end, Past(seen, script, script + seen[script] + after))
             IN  e \in Nat /\ e >= end
  <2>. DEFINE script == end + before + 1
  <2>1. script \in Nat /\ script >= end /\ script > 0
    OBVIOUS
  <2>2. script <= Len(seen) => seen[script] \in Nat
    BY <2>1
  <2>. HIDE DEF script
  <2>. QED  BY <2>1, <2>2 DEF Past, script
<1>. QED  BY <1>1 DEF NextItem

LEMMA NextItemSteady ==
    ASSUME NEW a \in Seq(Nat), NEW b \in Seq(Nat), Prefix(a, b),
           NEW before \in Nat, NEW after \in Nat,
           NEW ea \in Nat, NEW eb \in Nat, Steady(a, ea, eb)
    PROVE  Steady(a, NextItem(a, before, after)[ea], NextItem(b, before, after)[eb])
<1>1. NextItem(b, before, after)[eb] >= eb
  BY NextItemType
<1>2. CASE Len(a) < ea
  <2>1. NextItem(a, before, after)[ea] = ea
    BY <1>2 DEF NextItem, Past
  <2>2. NextItem(b, before, after)[eb] \in Nat
    <3>1. NextItem(b, before, after) \in [Nat -> Nat]
      BY NextItemType
    <3>. QED  BY <3>1
  <2>. QED  BY <1>1, <1>2, <2>1, <2>2 DEF Steady
<1>3. CASE ~(Len(a) < ea)
  <2>1. eb = ea /\ ea <= Len(a) /\ ea <= Len(b)
    BY <1>3 DEF Steady, Prefix
  <2>2. PICK script \in Nat : script = ea + before + 1
    OBVIOUS
  <2>3. /\ NextItem(a, before, after)[ea] = Past(a, script, script + a[script] + after)
        /\ NextItem(b, before, after)[eb] = Past(b, script, script + b[script] + after)
    BY <2>1, <2>2 DEF NextItem, Past
  <2>4. Len(a) <= Len(b)
    BY DEF Prefix
  <2>5. script <= Len(a) => a[script] = b[script] /\ a[script] \in Nat
    BY <2>2 DEF Prefix
  <2>6. script <= Len(b) => b[script] \in Nat
    BY <2>2
  <2>7. CASE Len(a) < script
    BY <2>3, <2>4, <2>6, <2>7 DEF Steady, Past
  <2>8. CASE ~(Len(a) < script)
    <3>1. ~(Len(b) < script)
      BY <2>4, <2>8
    <3>2. a[script] = b[script] /\ a[script] \in Nat
      BY <2>5, <2>8
    <3>3. PICK end \in Nat : end = script + a[script] + after
      BY <3>2
    <3>4. NextItem(a, before, after)[ea] = end /\ NextItem(b, before, after)[eb] = end
      BY <2>3, <2>8, <3>1, <3>2, <3>3 DEF Past
    <3>5. CASE end <= Len(a)
      BY <3>4, <3>5 DEF Steady
    <3>6. CASE ~(end <= Len(a))
      BY <3>4, <3>6 DEF Steady
    <3>. QED  BY <3>5, <3>6
  <2>. QED  BY <2>7, <2>8
<1>. QED  BY <1>2, <1>3

EndsOfItems(seen, start, n, before, after, f) ==
    /\ Chain(Nat, NextItem(seen, before, after), start, n, f)
    /\ ItemsEnd(seen, start, n, before, after) = f[n]

ItemsHaveEnds(seen, start, n, before, after) ==
    \E f : EndsOfItems(seen, start, n, before, after, f)

LEMMA ItemsEndIterates ==
    ASSUME NEW seen \in Seq(Nat), NEW start \in Nat, NEW n \in Nat,
           NEW before \in Nat, NEW after \in Nat
    PROVE  ItemsHaveEnds(seen, start, n, before, after)
<1>1. PICK next : next = NextItem(seen, before, after)
  OBVIOUS
<1>2. next \in [Nat -> Nat]
  BY <1>1, NextItemType
<1>3. PICK f : f = CHOOSE g : Iterated(next, start, n, g)
  OBVIOUS
<1>4. Iterated(next, start, n, f)
  BY <1>3, IterationExists
<1>5. ItemsEnd(seen, start, n, before, after) = f[n]
  BY <1>1, <1>3 DEF ItemsEnd, NextItem, Iterated
<1>6. Chain(Nat, next, start, n, f)
  BY <1>2, <1>4, IterationType
<1>. QED  BY <1>1, <1>5, <1>6 DEF ItemsHaveEnds, EndsOfItems

LEMMA ItemsEndSteady ==
    ASSUME NEW a \in Seq(Nat), NEW b \in Seq(Nat), Prefix(a, b),
           NEW start \in Nat, NEW n \in Nat, NEW before \in Nat, NEW after \in Nat
    PROVE  Steady(a, ItemsEnd(a, start, n, before, after), ItemsEnd(b, start, n, before, after))
<1>1. PICK f : EndsOfItems(a, start, n, before, after, f)
  <2>1. ItemsHaveEnds(a, start, n, before, after)
    BY ItemsEndIterates
  <2>. QED  BY <2>1 DEF ItemsHaveEnds
<1>2. PICK g : EndsOfItems(b, start, n, before, after, g)
  <2>1. ItemsHaveEnds(b, start, n, before, after)
    BY ItemsEndIterates
  <2>. QED  BY <2>1 DEF ItemsHaveEnds
<1>. DEFINE U == {i \in Nat : i <= n => Steady(a, f[i], g[i])}
<1>3. U = Nat
  <2>1. 0 \in U
    BY <1>1, <1>2 DEF EndsOfItems, Steady, Chain
  <2>2. ASSUME NEW i \in U PROVE i + 1 \in U
    <3>. SUFFICES ASSUME i + 1 <= n PROVE Steady(a, f[i + 1], g[i + 1])
      OBVIOUS
    <3>1. i \in 0 .. n /\ i + 1 \in 1 .. n /\ (i + 1) - 1 = i
      OBVIOUS
    <3>2. Steady(a, f[i], g[i]) /\ f[i] \in Nat /\ g[i] \in Nat
      BY <1>1, <1>2, <3>1 DEF EndsOfItems, Chain
    <3>3. /\ f[i + 1] = NextItem(a, before, after)[f[i]]
          /\ g[i + 1] = NextItem(b, before, after)[g[i]]
      BY <1>1, <1>2, <3>1 DEF EndsOfItems, Chain
    <3>. QED  BY <3>2, <3>3, NextItemSteady
  <2>3. U \in SUBSET Nat
    OBVIOUS
  <2>. HIDE DEF U
  <2>. QED  BY <2>1, <2>2, <2>3, NumbersInduct
<1>4. n \in U
  BY <1>3
<1>. QED  BY <1>1, <1>2, <1>4 DEF EndsOfItems

LEMMA ItemsEndType ==
    ASSUME NEW seen \in Seq(Nat), NEW start \in Nat, NEW n \in Nat,
           NEW before \in Nat, NEW after \in Nat
    PROVE  /\ ItemsEnd(seen, start, n, before, after) \in Nat
           /\ ItemsEnd(seen, start, n, before, after) >= start
<1>1. PICK f : EndsOfItems(seen, start, n, before, after, f)
  <2>1. ItemsHaveEnds(seen, start, n, before, after)
    BY ItemsEndIterates
  <2>. QED  BY <2>1 DEF ItemsHaveEnds
<1>. DEFINE U == {i \in Nat : i <= n => f[i] >= start}
<1>2. U = Nat
  <2>1. 0 \in U
    BY <1>1 DEF EndsOfItems, Chain
  <2>2. ASSUME NEW i \in U PROVE i + 1 \in U
    <3>. SUFFICES ASSUME i + 1 <= n PROVE f[i + 1] >= start
      OBVIOUS
    <3>1. i \in 0 .. n /\ i + 1 \in 1 .. n /\ i + 1 \in 0 .. n /\ (i + 1) - 1 = i
      OBVIOUS
    <3>2. f[i] >= start /\ f[i] \in Nat /\ f[i + 1] \in Nat
      BY <1>1, <3>1 DEF EndsOfItems, Chain
    <3>3. f[i + 1] = NextItem(seen, before, after)[f[i]]
      BY <1>1, <3>1 DEF EndsOfItems, Chain
    <3>4. f[i + 1] >= f[i]
      BY <3>2, <3>3, NextItemType
    <3>. QED  BY <3>2, <3>4
  <2>3. U \in SUBSET Nat
    OBVIOUS
  <2>. HIDE DEF U
  <2>. QED  BY <2>1, <2>2, <2>3, NumbersInduct
<1>3. n \in U
  BY <1>2
<1>4. f[n] \in Nat
  BY <1>1 DEF EndsOfItems, Chain
<1>. QED  BY <1>1, <1>3, <1>4 DEF EndsOfItems

LEMMA ListEndType ==
    ASSUME NEW seen \in Seq(Nat), NEW start \in Nat, NEW before \in Nat, NEW after \in Nat
    PROVE  /\ ListEnd(seen, start, before, after) \in Nat
           /\ ListEnd(seen, start, before, after) >= start
<1>1. CASE Len(seen) < start + 1
  BY <1>1 DEF ListEnd, Past
<1>2. CASE ~(Len(seen) < start + 1)
  <2>1. seen[start + 1] \in Nat /\ start + 1 \in Nat
    BY <1>2
  <2>2. PICK e : e = ItemsEnd(seen, start + 1, seen[start + 1], before, after)
    OBVIOUS
  <2>3. e \in Nat /\ e >= start + 1
    BY <2>1, <2>2, ItemsEndType
  <2>4. ListEnd(seen, start, before, after) = e
    BY <1>2, <2>2 DEF ListEnd, Past
  <2>. QED  BY <2>3, <2>4
<1>. QED  BY <1>1, <1>2

LEMMA ListEndSteady ==
    ASSUME NEW a \in Seq(Nat), NEW b \in Seq(Nat), Prefix(a, b),
           NEW before \in Nat, NEW after \in Nat,
           NEW ea \in Nat, NEW eb \in Nat, Steady(a, ea, eb)
    PROVE  Steady(a, ListEnd(a, ea, before, after), ListEnd(b, eb, before, after))
<1>1. Len(a) <= Len(b)
  BY DEF Prefix
<1>2. CASE Len(a) < ea
  <2>1. ListEnd(a, ea, before, after) = ea /\ eb >= ea
    BY <1>2 DEF ListEnd, Past, Steady
  <2>2. ListEnd(b, eb, before, after) >= eb /\ ListEnd(b, eb, before, after) \in Nat
    BY ListEndType
  <2>. QED  BY <1>2, <2>1, <2>2 DEF Steady
<1>3. CASE Len(a) = ea
  <2>1. eb = ea /\ ListEnd(a, ea, before, after) = ea + 1
    BY <1>3 DEF ListEnd, Past, Steady
  <2>2. ListEnd(b, eb, before, after) >= eb + 1 /\ ListEnd(b, eb, before, after) \in Nat
    <3>1. CASE Len(b) < eb + 1
      BY <1>1, <1>3, <2>1, <3>1 DEF ListEnd, Past
    <3>2. CASE ~(Len(b) < eb + 1)
      <4>1. b[eb + 1] \in Nat /\ eb + 1 \in Nat
        BY <3>2
      <4>2. PICK e : e = ItemsEnd(b, eb + 1, b[eb + 1], before, after)
        OBVIOUS
      <4>3. e \in Nat /\ e >= eb + 1
        BY <4>1, <4>2, ItemsEndType
      <4>4. ListEnd(b, eb, before, after) = e
        BY <3>2, <4>2 DEF ListEnd, Past
      <4>. QED  BY <4>3, <4>4
    <3>. QED  BY <3>1, <3>2
  <2>. QED  BY <1>3, <2>1, <2>2 DEF Steady
<1>4. CASE Len(a) > ea
  <2>1. eb = ea /\ ea + 1 <= Len(a) /\ ea + 1 <= Len(b)
    BY <1>1, <1>4 DEF Steady
  <2>2. a[ea + 1] = b[eb + 1] /\ a[ea + 1] \in Nat /\ ea + 1 \in Nat
    BY <2>1 DEF Prefix
  <2>3. /\ ListEnd(a, ea, before, after) = ItemsEnd(a, ea + 1, a[ea + 1], before, after)
        /\ ListEnd(b, eb, before, after) = ItemsEnd(b, ea + 1, a[ea + 1], before, after)
    BY <2>1, <2>2 DEF ListEnd, Past
  <2>. QED  BY <2>2, <2>3, ItemsEndSteady
<1>. QED  BY <1>2, <1>3, <1>4

LEMMA TxEnds ==
    ASSUME NEW seen \in Seq(Nat)
    PROVE  /\ InputsEnd[seen] \in Nat /\ InputsEnd[seen] >= FixedSize
           /\ InputsEnd[seen] = ListEnd(seen, FixedSize, 2 * FixedSize, FixedSize)
           /\ OutputsEnd[seen] \in Nat /\ OutputsEnd[seen] >= InputsEnd[seen]
           /\ OutputsEnd[seen] = ListEnd(seen, InputsEnd[seen], FixedSize, 0)
           /\ TxSize[seen] \in Nat /\ TxSize[seen] >= OutputsEnd[seen]
           /\ TxSize[seen] = Past(seen, OutputsEnd[seen], OutputsEnd[seen] + FixedSize)
<1>1. FixedSize \in Nat /\ 2 * FixedSize \in Nat
  BY SizeAssumption
<1>2. InputsEnd[seen] = ListEnd(seen, FixedSize, 2 * FixedSize, FixedSize)
  BY DEF InputsEnd
<1>3. OutputsEnd[seen] = ListEnd(seen, InputsEnd[seen], FixedSize, 0)
  BY DEF OutputsEnd
<1>4. TxSize[seen] = Past(seen, OutputsEnd[seen], OutputsEnd[seen] + FixedSize)
  BY DEF TxSize
<1>5. InputsEnd[seen] \in Nat /\ InputsEnd[seen] >= FixedSize
  BY <1>1, <1>2, ListEndType
<1>6. OutputsEnd[seen] \in Nat /\ OutputsEnd[seen] >= InputsEnd[seen]
  <2>1. 0 \in Nat
    OBVIOUS
  <2>. QED  BY <1>1, <1>3, <1>5, <2>1, ListEndType
<1>7. TxSize[seen] \in Nat /\ TxSize[seen] >= OutputsEnd[seen]
  BY <1>1, <1>4, <1>6 DEF Past
<1>. QED  BY <1>2, <1>3, <1>4, <1>5, <1>6, <1>7

LEMMA TxSizeSteady ==
    ASSUME NEW a \in Seq(Nat), NEW b \in Seq(Nat), Prefix(a, b)
    PROVE  Steady(a, TxSize[a], TxSize[b])
<1>1. FixedSize \in Nat /\ 2 * FixedSize \in Nat /\ 0 \in Nat
  BY SizeAssumption
<1>2. Steady(a, FixedSize, FixedSize)
  BY <1>1 DEF Steady
<1>3. Steady(a, InputsEnd[a], InputsEnd[b])
  BY <1>1, <1>2, TxEnds, ListEndSteady
<1>4. Steady(a, OutputsEnd[a], OutputsEnd[b])
  <2>1. InputsEnd[a] \in Nat /\ InputsEnd[b] \in Nat
    BY TxEnds
  <2>2. Steady(a, ListEnd(a, InputsEnd[a], FixedSize, 0), ListEnd(b, InputsEnd[b], FixedSize, 0))
    BY <1>1, <1>3, <2>1, ListEndSteady
  <2>. QED  BY <2>2, TxEnds
<1>5. OutputsEnd[a] \in Nat /\ OutputsEnd[b] \in Nat
  BY TxEnds
<1>6. /\ TxSize[a] = Past(a, OutputsEnd[a], OutputsEnd[a] + FixedSize)
      /\ TxSize[b] = Past(b, OutputsEnd[b], OutputsEnd[b] + FixedSize)
  BY TxEnds
<1>7. Len(a) <= Len(b) /\ Len(a) \in Nat /\ Len(b) \in Nat
  BY DEF Prefix
<1>. QED  BY <1>1, <1>4, <1>5, <1>6, <1>7 DEF Steady, Past

LEMMA PrefixedSizeSteady ==
    ASSUME NEW a \in Seq(Nat), NEW b \in Seq(Nat), Prefix(a, b)
    PROVE  /\ PrefixedSize(a) \in Nat \ {0}
           /\ Steady(a, PrefixedSize(a), PrefixedSize(b))
<1>1. a # <<>> => Len(a) >= 1 /\ a[1] \in Nat
  OBVIOUS
<1>2. b # <<>> => Len(b) >= 1 /\ b[1] \in Nat
  OBVIOUS
<1>3. a # <<>> => b # <<>> /\ a[1] = b[1]
  BY <1>1 DEF Prefix
<1>4. a = <<>> => Len(a) = 0
  OBVIOUS
<1>. QED  BY <1>1, <1>2, <1>3, <1>4 DEF PrefixedSize, Steady

LEMMA InnerSizeSteady ==
    ASSUME NEW a \in Seq(Nat), NEW b \in Seq(Nat), Prefix(a, b), NEW field
    PROVE  /\ InnerSize(field, a) \in Nat
           /\ Steady(a, InnerSize(field, a), InnerSize(field, b))
<1>1. PrefixedSize(a) \in Nat /\ Steady(a, PrefixedSize(a), PrefixedSize(b))
  BY PrefixedSizeSteady
<1>2. TxSize[a] \in Nat /\ Steady(a, TxSize[a], TxSize[b])
  BY TxEnds, TxSizeSteady
<1>3. FixedSize \in Nat /\ Steady(a, FixedSize, FixedSize)
  BY SizeAssumption DEF Steady
<1>4. 1 \in Nat /\ Steady(a, 1, 1)
  BY DEF Steady
<1>. QED  BY <1>1, <1>2, <1>3, <1>4 DEF InnerSize

-----------------------------------------------------------------------------
(* Values behind their length *)

LEMMA LeastNumber ==
    ASSUME NEW T \in SUBSET Nat, T # {}
    PROVE  \E x \in T : \A y \in T : x <= y
<1>1. \E x \in T : \A y \in T : ~(<<y, x>> \in OpToRel(<, Nat))
  BY NatLessThanWellFounded, WFMin
<1>2. PICK x \in T : \A y \in T : ~(y < x)
  <2>1. \A e, d \in Nat : e < d => <<e, d>> \in OpToRel(<, Nat)
    BY DEF OpToRel
  <2>. QED  BY <1>1, <2>1
<1>3. \A y \in T : x <= y
  BY <1>2
<1>. QED  BY <1>3

LEMMA Multiples ==
    ASSUME NEW i \in Nat, NEW j \in Nat, NEW f \in Nat, i < j
    PROVE  i * f \in Nat /\ j * f \in Nat /\ i * f + f <= j * f
<1>1. PICK d \in Nat : j = i + 1 + d
  <2>1. j - i - 1 \in Nat /\ j = i + 1 + (j - i - 1)
    OBVIOUS
  <2>. QED  BY <2>1
<1>2. d * f \in Nat /\ i * f \in Nat
  OBVIOUS
<1>3. j * f = i * f + f + d * f
  BY <1>1
<1>. QED  BY <1>2, <1>3

Stops(seen, i) == OriginDone(seen, i) \/ OriginOverrun(seen, i)

LEMMA LastPartStops ==
    ASSUME NEW seen \in Seq(Nat), Len(seen) >= 2
    PROVE  /\ LastPart[seen] \in Nat
           /\ Stops(seen, LastPart[seen])
           /\ \A j \in 0 .. LastPart[seen] - 1 : ~Stops(seen, j)
<1>1. seen[1] \in Nat /\ seen # <<>>
  OBVIOUS
<1>2. Stops(seen, seen[1])
  <2>1. FixedSize \in Nat /\ FixedSize >= 1
    BY SizeAssumption
  <2>2. seen[1] * FixedSize >= seen[1]
    <3>1. CASE seen[1] = 0
      BY <2>1, <3>1
    <3>2. CASE seen[1] # 0
      <4>1. PICK d \in Nat : FixedSize = 1 + d
        <5>1. FixedSize - 1 \in Nat /\ FixedSize = 1 + (FixedSize - 1)
          BY <2>1
        <5>. QED  BY <5>1
      <4>2. seen[1] * FixedSize = seen[1] + seen[1] * d /\ seen[1] * d \in Nat
        BY <1>1, <4>1, SMTT(20)
      <4>. QED  BY <1>1, <4>2
    <3>. QED  BY <3>1, <3>2
  <2>. QED  BY <1>1, <2>1, <2>2 DEF Stops, OriginOverrun, PartEnd, PrefixedSize
<1>. DEFINE T == {i \in 0 .. seen[1] : Stops(seen, i)}
<1>3. T \in SUBSET Nat /\ T # {}
  BY <1>1, <1>2
<1>4. PICK x \in T : \A y \in T : x <= y
  <2>. HIDE DEF T
  <2>. QED  BY <1>3, LeastNumber
<1>5. x \in 0 .. seen[1] /\ Stops(seen, x) /\ \A j \in 0 .. x - 1 : ~Stops(seen, j)
  BY <1>1, <1>4
<1>6. LastPart[seen] = CHOOSE i \in 0 .. seen[1] : Stops(seen, i) /\ \A j \in 0 .. i - 1 : ~Stops(seen, j)
  BY DEF LastPart, Stops
<1>. DEFINE First(i) == Stops(seen, i) /\ \A j \in 0 .. i - 1 : ~Stops(seen, j)
<1>7. \E i \in 0 .. seen[1] : First(i)
  BY <1>5
<1>8. LastPart[seen] = CHOOSE i \in 0 .. seen[1] : First(i)
  BY <1>6
<1>9. LastPart[seen] \in 0 .. seen[1] /\ First(LastPart[seen])
  <2>. HIDE DEF First
  <2>. QED  BY <1>7, <1>8
<1>. QED  BY <1>1, <1>9

LEMMA OriginSizeType ==
    ASSUME NEW seen \in Seq(Nat)
    PROVE  OriginSize(seen) \in Nat
<1>1. CASE Len(seen) < 2
  BY <1>1 DEF OriginSize
<1>2. CASE ~(Len(seen) < 2)
  <2>1. LastPart[seen] \in Nat /\ FixedSize \in Nat
    BY <1>2, LastPartStops, SizeAssumption
  <2>. QED  BY <1>2, <2>1 DEF OriginSize, PartEnd
<1>. QED  BY <1>1, <1>2

LEMMA BehindLengthType ==
    ASSUME NEW seen \in Seq(Nat), NEW field
    PROVE  BehindLength(field, seen) \in Nat
<1>1. Prefix(seen, seen)
  BY DEF Prefix
<1>2. PrefixedSize(seen) \in Nat /\ OriginSize(seen) \in Nat
  BY <1>1, PrefixedSizeSteady, OriginSizeType
<1>. QED  BY <1>2 DEF BehindLength

\* Both are parts of the same bytes.
Agree(a, b) == \A i \in 1 .. Len(a) : i <= Len(b) => a[i] = b[i]

\* What is needed to see the whole of an item, for one who saw so much.
Finds(need, seen, item) ==
    IF Len(seen) >= Len(item) THEN need = Len(item)
    ELSE need \in Len(seen) + 1 .. Len(item)

LEMMA LastPartIs ==
    ASSUME NEW seen \in Seq(Nat), Len(seen) >= 2, NEW last \in Nat,
           last > seen[2], PartEnd(last) = PrefixedSize(seen)
    PROVE  LastPart[seen] = last /\ OriginDone(seen, last)
<1>1. FixedSize \in Nat /\ FixedSize >= 1
  BY SizeAssumption
<1>2. OriginDone(seen, last)
  BY DEF OriginDone
<1>3. PICK k \in Nat : k = LastPart[seen]
  BY LastPartStops
<1>4. Stops(seen, k) /\ \A j \in 0 .. k - 1 : ~Stops(seen, j)
  BY <1>3, LastPartStops
<1>5. ~(last < k)
  <2>1. Stops(seen, last)
    BY <1>2 DEF Stops
  <2>. QED  BY <1>4, <2>1
<1>6. ~(k < last)
  <2>. SUFFICES ASSUME k < last PROVE FALSE
    OBVIOUS
  <2>1. k * FixedSize \in Nat /\ last * FixedSize \in Nat /\ k * FixedSize + FixedSize <= last * FixedSize
    BY <1>1, Multiples
  <2>2. PartEnd(k) < PartEnd(last) /\ PartEnd(k) \in Nat /\ PartEnd(last) \in Nat
    BY <1>1, <2>1 DEF PartEnd
  <2>. QED  BY <1>4, <2>2 DEF Stops, OriginDone, OriginOverrun
<1>. QED  BY <1>2, <1>3, <1>5, <1>6

LEMMA OriginParts ==
    ASSUME NEW value \in Seq(Nat), OriginDecodes(value)
    PROVE  \E last \in Nat : last > value[1] /\ PartEnd(last) = 1 + Len(value)
<1>1. FixedSize \in Nat /\ FixedSize >= 1
  BY SizeAssumption
<1>2. PICK n \in Nat : n = Len(value) - 1
  BY DEF OriginDecodes
<1>3. PICK last : last = n \div FixedSize
  OBVIOUS
<1>4. last \in Nat /\ n = last * FixedSize
  BY <1>1, <1>2, <1>3 DEF OriginDecodes
<1>5. last > value[1]
  BY <1>2, <1>3 DEF OriginDecodes
<1>6. PartEnd(last) = 1 + Len(value)
  BY <1>2, <1>4 DEF PartEnd
<1>. QED  BY <1>4, <1>5, <1>6

LEMMA BehindLengthFinds ==
    ASSUME NEW field, NEW value \in Seq(Nat),
           ~LengthRefused(field, Len(value)),
           field = "tap_bip32_derivation" => OriginDecodes(value),
           NEW item \in Seq(Nat), item = <<Len(value)>> \o value,
           NEW seen \in Seq(Nat), Agree(seen, item)
    PROVE  Finds(BehindLength(field, seen), seen, item)
<1>1. /\ Len(item) = 1 + Len(value) /\ Len(value) \in Nat /\ Len(seen) \in Nat
      /\ item[1] = Len(value)
      /\ \A i \in 1 .. Len(value) : item[1 + i] = value[i]
  OBVIOUS
<1>2. seen = <<>> => Len(seen) = 0
  OBVIOUS
<1>3. seen # <<>> => Len(seen) >= 1 /\ seen[1] = Len(value)
  BY <1>1 DEF Agree
<1>4. CASE field # "tap_bip32_derivation"
  <2>1. CASE seen = <<>>
    BY <1>1, <1>2, <1>4, <2>1 DEF BehindLength, PrefixedSize, Finds
  <2>2. CASE seen # <<>>
    BY <1>1, <1>3, <1>4, <2>2, SMTT(20) DEF BehindLength, PrefixedSize, Finds
  <2>. QED  BY <2>1, <2>2
<1>5. CASE field = "tap_bip32_derivation"
  <2>. \A length : ~LengthRefused(field, length)
    BY <1>5 DEF LengthRefused
  <2>0. value # <<>> /\ Len(value) >= 1
    BY <1>5 DEF OriginDecodes
  <2>1. CASE Len(seen) < 2
    <3>1. BehindLength(field, seen) = Len(seen) + 1
      BY <1>5, <2>1 DEF BehindLength, OriginSize
    <3>. QED  BY <1>1, <2>0, <2>1, <3>1 DEF Finds
  <2>2. CASE ~(Len(seen) < 2)
    <3>1. PICK last \in Nat : last > value[1] /\ PartEnd(last) = 1 + Len(value)
      BY <1>5, OriginParts
    <3>2. seen # <<>> /\ seen[2] = value[1]
      BY <1>1, <2>0, <2>2 DEF Agree
    <3>3. PrefixedSize(seen) = 1 + Len(value)
      BY <1>3, <3>2 DEF PrefixedSize
    <3>4. LastPart[seen] = last
      <4>1. Len(seen) >= 2 /\ last > seen[2] /\ PartEnd(last) = PrefixedSize(seen)
        BY <1>1, <2>2, <3>1, <3>2, <3>3
      <4>. QED  BY <4>1, LastPartIs
    <3>5. BehindLength(field, seen) = PartEnd(LastPart[seen])
      BY <1>5, <2>2 DEF BehindLength, OriginSize
    <3>. QED  BY <1>1, <3>1, <3>4, <3>5 DEF Finds
  <2>. QED  BY <2>1, <2>2
<1>. QED  BY <1>4, <1>5

LEMMA ChainRests ==
    ASSUME NEW A, NEW next, NEW a, NEW n \in Nat, NEW f, Chain(A, next, a, n, f),
           NEW i \in 0 .. n, next[f[i]] = f[i], NEW k \in i .. n
    PROVE  f[k] = f[i]
<1>. DEFINE U == {m \in Nat : i + m <= n => f[i + m] = f[i]}
<1>1. U = Nat
  <2>1. 0 \in U
    OBVIOUS
  <2>2. ASSUME NEW m \in U PROVE m + 1 \in U
    <3>. SUFFICES ASSUME i + (m + 1) <= n PROVE f[i + (m + 1)] = f[i]
      OBVIOUS
    <3>1. i + m \in 0 .. n /\ i + (m + 1) \in 1 .. n /\ (i + (m + 1)) - 1 = i + m
      OBVIOUS
    <3>2. f[i + m] = f[i]
      BY <3>1
    <3>3. f[i + (m + 1)] = next[f[i + m]]
      BY <3>1 DEF Chain
    <3>. QED  BY <3>2, <3>3
  <2>3. U \in SUBSET Nat
    OBVIOUS
  <2>. HIDE DEF U
  <2>. QED  BY <2>1, <2>2, <2>3, NumbersInduct
<1>2. k - i \in Nat /\ i + (k - i) = k /\ k <= n
  OBVIOUS
<1>3. k - i \in U
  BY <1>1, <1>2
<1>. QED  BY <1>2, <1>3

NextLeaf(value) == [start \in Nat |-> LeafEnd(value, start)]

LEMMA LeafEndType ==
    ASSUME NEW value \in Seq(Nat), NEW start \in Nat
    PROVE  LeafEnd(value, start) \in Nat
<1>1. start + 3 <= Len(value) => value[start + 3] \in Nat
  OBVIOUS
<1>. QED  BY <1>1 DEF LeafEnd

LeafChain(value, f) ==
    /\ Chain(Nat, NextLeaf(value), 0, Len(value), f)
    /\ LeafEnds[value] = {f[i] : i \in 0 .. Len(value)}

LEMMA LeafEndsChain ==
    ASSUME NEW value \in Seq(Nat)
    PROVE  \E f : LeafChain(value, f)
<1>1. PICK next : next = NextLeaf(value)
  OBVIOUS
<1>2. next \in [Nat -> Nat]
  BY <1>1, LeafEndType DEF NextLeaf
<1>3. PICK n \in Nat : n = Len(value)
  OBVIOUS
<1>4. PICK f : f = CHOOSE g : Iterated(next, 0, n, g)
  OBVIOUS
<1>5. Iterated(next, 0, n, f)
  BY <1>4, IterationExists
<1>6. LeafEnds[value] = {f[i] : i \in 0 .. n}
  BY <1>1, <1>3, <1>4 DEF LeafEnds, NextLeaf, Iterated
<1>7. Chain(Nat, next, 0, n, f)
  <2>1. 0 \in Nat
    OBVIOUS
  <2>. QED  BY <1>2, <1>5, <2>1, IterationType
<1>. QED  BY <1>1, <1>3, <1>6, <1>7 DEF LeafChain

LEMMA WholeTreeFits ==
    ASSUME NEW value \in Seq(Nat), TreeDecodes[value]
    PROVE  ~TreeOverruns[value]
<1>1. PICK f : LeafChain(value, f)
  BY LeafEndsChain
<1>2. PICK n \in Nat : n = Len(value)
  OBVIOUS
<1>3. Chain(Nat, NextLeaf(value), 0, n, f)
  BY <1>1, <1>2 DEF LeafChain
<1>4. PICK k \in 0 .. n : f[k] = n
  BY <1>1, <1>2 DEF TreeDecodes, LeafChain
<1>5. ASSUME NEW i \in 0 .. n, f[i] + 3 <= n, f[i] + 3 + value[f[i] + 3] > n
      PROVE  FALSE
  <2>1. f[i] \in Nat
    BY <1>3 DEF Chain
  <2>2. NextLeaf(value)[f[i]] = f[i]
    BY <1>2, <1>5, <2>1 DEF NextLeaf, LeafEnd
  <2>3. NextLeaf(value)[f[k]] = f[k]
    BY <1>2, <1>4 DEF NextLeaf, LeafEnd
  <2>4. f[i] # f[k]
    BY <1>4, <1>5, <2>1
  <2>5. CASE i <= k
    <3>1. k \in i .. n
      BY <2>5
    <3>. QED  BY <1>3, <2>2, <2>4, <3>1, ChainRests
  <2>6. CASE k <= i
    <3>1. i \in k .. n
      BY <2>6
    <3>. QED  BY <1>3, <2>3, <2>4, <3>1, ChainRests
  <2>. QED  BY <2>5, <2>6
<1>. QED  BY <1>1, <1>2, <1>5 DEF TreeOverruns, LeafChain

LEMMA NeverOverruns ==
    ASSUME NEW field, NEW value \in Seq(Nat), NEW item \in Seq(Nat),
           item = <<Len(value)>> \o value,
           field = "tap_bip32_derivation" => OriginDecodes(value),
           field = "tap_tree" => TreeDecodes[value]
    PROVE  ~Overruns(field, item)
<1>1. /\ Len(item) = 1 + Len(value) /\ Len(value) \in Nat
      /\ item[1] = Len(value)
      /\ \A i \in 1 .. Len(value) : item[1 + i] = value[i]
      /\ Tail(item) = value
  OBVIOUS
<1>2. field = "tap_tree" => ~TreeOverruns[Tail(item)]
  BY <1>1, WholeTreeFits
<1>3. ASSUME field = "tap_bip32_derivation"
      PROVE  OriginDone(item, LastPart[item])
  <2>1. PICK last \in Nat : last > value[1] /\ PartEnd(last) = 1 + Len(value)
    BY <1>3, OriginParts
  <2>2. Len(item) >= 2 /\ item[2] = value[1] /\ item # <<>>
    BY <1>1, <1>3 DEF OriginDecodes
  <2>3. PrefixedSize(item) = 1 + Len(value)
    BY <1>1, <2>2 DEF PrefixedSize
  <2>. QED  BY <2>1, <2>2, <2>3, LastPartIs
<1>. QED  BY <1>2, <1>3 DEF Overruns

-----------------------------------------------------------------------------
(* The transaction of version 0 *)

LEMMA WholeTx ==
    ASSUME NEW value \in Seq(Nat), TxSize[value] = Len(value)
    PROVE  /\ TxInCount(value) \in Nat /\ TxOutCount(value) \in Nat
           /\ Len(DecodeTx[value].ins) = TxInCount(value)
           /\ Len(DecodeTx[value].outs) = TxOutCount(value)
<1>1. FixedSize \in Nat /\ Len(value) \in Nat
  BY SizeAssumption
<1>2. InputsEnd[value] \in Nat /\ OutputsEnd[value] \in Nat /\ TxSize[value] \in Nat
  BY TxEnds
<1>3. OutputsEnd[value] <= Len(value)
  <2>1. TxSize[value] = Past(value, OutputsEnd[value], OutputsEnd[value] + FixedSize)
    BY TxEnds
  <2>. QED  BY <1>1, <1>2, <2>1 DEF Past
<1>4. InputsEnd[value] + 1 <= Len(value)
  <2>1. OutputsEnd[value] = ListEnd(value, InputsEnd[value], FixedSize, 0)
    BY TxEnds
  <2>2. CASE Len(value) < InputsEnd[value]
    BY <1>1, <1>2, <1>3, <2>1, <2>2 DEF ListEnd, Past
  <2>3. CASE Len(value) = InputsEnd[value]
    BY <1>1, <1>2, <1>3, <2>1, <2>3 DEF ListEnd, Past
  <2>. QED  BY <1>1, <1>2, <2>2, <2>3
<1>5. FixedSize + 1 <= Len(value)
  <2>1. InputsEnd[value] = ListEnd(value, FixedSize, 2 * FixedSize, FixedSize)
    BY TxEnds
  <2>2. CASE Len(value) < FixedSize
    BY <1>1, <1>2, <1>4, <2>1, <2>2 DEF ListEnd, Past
  <2>3. CASE Len(value) = FixedSize
    BY <1>1, <1>2, <1>4, <2>1, <2>3 DEF ListEnd, Past
  <2>. QED  BY <1>1, <2>2, <2>3
<1>6. TxInCount(value) \in Nat /\ TxOutCount(value) \in Nat
  BY <1>1, <1>2, <1>4, <1>5, SMTT(20) DEF TxInCount, TxOutCount
<1>7. DecodeTx[value].ins = [i \in 1 .. TxInCount(value) |-> TxIn(value, i)]
  BY DEF DecodeTx
<1>8. DecodeTx[value].outs = [i \in 1 .. TxOutCount(value) |-> TxOut(value, i)]
  BY DEF DecodeTx
<1>. QED  BY <1>6, <1>7, <1>8

-----------------------------------------------------------------------------
(* Where the parts of a message stand in its bytes *)

PairSeqs(pairs) == [i \in 1 .. Len(pairs) |-> PairBytes(pairs[i])]
MapSeqs(maps)   == [i \in 1 .. Len(maps) |-> MapBytes(maps[i])]

LEMMA PairBytesType ==
    ASSUME NEW p \in PairType
    PROVE  /\ PairBytes(p) \in Seq(Nat)
           /\ Len(PairBytes(p)) = 3 + Len(p.data) + Len(p.value)
<1>1. p.type \in Nat /\ p.len \in Nat /\ p.data \in Seq(Nat) /\ p.value \in Seq(Nat)
  BY DEF PairType
<1>2. PICK data \in Seq(Nat), value \in Seq(Nat) : data = p.data /\ value = p.value
  BY <1>1
<1>3. PICK head \in Seq(Nat) : Len(head) = 2 /\ head = <<1 + Len(data), p.type>>
  <2>1. PICK x \in Nat, y \in Nat : x = 1 + Len(data) /\ y = p.type
    BY <1>1
  <2>2. <<x, y>> \in Seq(Nat) /\ Len(<<x, y>>) = 2
    OBVIOUS
  <2>. QED  BY <2>1, <2>2
<1>4. PICK length \in Seq(Nat) : Len(length) = 1 /\ length = <<p.len>>
  <2>1. PICK x \in Nat : x = p.len
    BY <1>1
  <2>2. <<x>> \in Seq(Nat) /\ Len(<<x>>) = 1
    OBVIOUS
  <2>. QED  BY <2>1, <2>2
<1>5. PairBytes(p) = ((head \o data) \o length) \o value
  BY <1>2, <1>3, <1>4 DEF PairBytes
<1>6. /\ ((head \o data) \o length) \o value \in Seq(Nat)
      /\ Len(((head \o data) \o length) \o value) = 3 + Len(data) + Len(value)
  BY <1>3, <1>4
<1>. QED  BY <1>2, <1>5, <1>6

LEMMA MapBytesType ==
    ASSUME NEW pairs \in Seq(PairType)
    PROVE  /\ PairSeqs(pairs) \in Seq(Seq(Nat)) /\ Len(PairSeqs(pairs)) = Len(pairs)
           /\ FlattenSeq(PairSeqs(pairs)) \in Seq(Nat)
           /\ MapBytes(pairs) = FlattenSeq(PairSeqs(pairs)) \o <<EndOfMap>>
           /\ MapBytes(pairs) \in Seq(Nat)
           /\ Len(MapBytes(pairs)) = Len(FlattenSeq(PairSeqs(pairs))) + 1
<1>1. ASSUME NEW i \in 1 .. Len(pairs) PROVE PairBytes(pairs[i]) \in Seq(Nat)
  <2>1. pairs[i] \in PairType
    OBVIOUS
  <2>. QED  BY <2>1, PairBytesType
<1>2. PairSeqs(pairs) \in Seq(Seq(Nat)) /\ Len(PairSeqs(pairs)) = Len(pairs)
  BY <1>1 DEF PairSeqs
<1>3. FlattenSeq(PairSeqs(pairs)) \in Seq(Nat)
  <2>1. PICK seqs \in Seq(Seq(Nat)) : seqs = PairSeqs(pairs)
    BY <1>2
  <2>2. Len(seqs) \in 0 .. Len(seqs)
    OBVIOUS
  <2>. QED  BY <2>1, <2>2, JoinedStep
<1>4. MapBytes(pairs) = FlattenSeq(PairSeqs(pairs)) \o <<EndOfMap>>
  BY DEF MapBytes, PairSeqs
<1>5. <<EndOfMap>> \in Seq(Nat) /\ Len(<<EndOfMap>>) = 1
  BY DEF EndOfMap
<1>. QED  BY <1>2, <1>3, <1>4, <1>5

LEMMA BytesType ==
    ASSUME NEW message \in MessageType
    PROVE  /\ MapSeqs(message.maps) \in Seq(Seq(Nat))
           /\ Len(MapSeqs(message.maps)) = Len(message.maps)
           /\ FlattenSeq(MapSeqs(message.maps)) \in Seq(Nat)
           /\ Bytes(message) = (message.magic \o <<message.separator>>) \o FlattenSeq(MapSeqs(message.maps))
           /\ Bytes(message) \in Seq(Nat)
<1>1. message.maps \in Seq(Seq(PairType)) /\ message.magic \in Seq(Nat) /\ message.separator \in Nat
  BY DEF MessageType
<1>2. ASSUME NEW i \in 1 .. Len(message.maps) PROVE MapBytes(message.maps[i]) \in Seq(Nat)
  <2>1. message.maps[i] \in Seq(PairType)
    BY <1>1
  <2>. QED  BY <2>1, MapBytesType
<1>3. MapSeqs(message.maps) \in Seq(Seq(Nat)) /\ Len(MapSeqs(message.maps)) = Len(message.maps)
  BY <1>1, <1>2 DEF MapSeqs
<1>4. FlattenSeq(MapSeqs(message.maps)) \in Seq(Nat)
  <2>1. PICK seqs \in Seq(Seq(Nat)) : seqs = MapSeqs(message.maps)
    BY <1>3
  <2>2. Len(seqs) \in 0 .. Len(seqs)
    OBVIOUS
  <2>. QED  BY <2>1, <2>2, JoinedStep
<1>5. Bytes(message) = (message.magic \o <<message.separator>>) \o FlattenSeq(MapSeqs(message.maps))
  BY DEF Bytes, MapSeqs
<1>6. message.magic \o <<message.separator>> \in Seq(Nat)
  BY <1>1
<1>. QED  BY <1>3, <1>4, <1>5, <1>6

-----------------------------------------------------------------------------
(* Where the parts of a message stand *)

\* Behind the magic and the separator.
MapStart(message, i) == 5 + Len(Joined(MapSeqs(message.maps), i - 1))

\* Where pair j + 1 of map i starts, or the end of the map stands.
PairStart(message, i, j) == MapStart(message, i) + Len(Joined(PairSeqs(message.maps[i]), j))

LEMMA FlattenType ==
    ASSUME NEW S, NEW seqs \in Seq(Seq(S))
    PROVE  FlattenSeq(seqs) \in Seq(S)
<1>1. Len(seqs) \in 0 .. Len(seqs)
  OBVIOUS
<1>. QED  BY <1>1, JoinedStep

LEMMA StandsBehind ==
    ASSUME NEW S, NEW t \in Seq(S), NEW s \in Seq(S), NEW front \in Seq(S),
           NEW start \in Nat, Stands(t, s, start)
    PROVE  Stands(t, front \o s, Len(front) + start)
<1>1. Len(front \o s) = Len(front) + Len(s) /\ Len(front) \in Nat
  OBVIOUS
<1>2. \A i \in 1 .. Len(s) : (front \o s)[Len(front) + i] = s[i]
  OBVIOUS
<1>3. ASSUME NEW i \in 1 .. Len(t) PROVE (front \o s)[Len(front) + start + i] = t[i]
  <2>1. start + i \in 1 .. Len(s) /\ s[start + i] = t[i]
    BY DEF Stands
  <2>2. (front \o s)[Len(front) + (start + i)] = s[start + i]
    BY <1>2, <2>1
  <2>. QED  BY <2>1, <2>2
<1>. QED  BY <1>1, <1>3 DEF Stands

LEMMA StandsFirst ==
    ASSUME NEW S, NEW t \in Seq(S), NEW more \in Seq(S)
    PROVE  Stands(t, t \o more, 0)
  BY DEF Stands

LEMMA StandsLast ==
    ASSUME NEW S, NEW t \in Seq(S), NEW front \in Seq(S)
    PROVE  Stands(t, front \o t, Len(front))
  BY DEF Stands

\* The head of a message: its magic, of four bytes, and the separator.
LEMMA HeadStands ==
    ASSUME NEW message \in MessageType, message.magic = PSBT_MAGIC
    PROVE  /\ Stands(PSBT_MAGIC, Bytes(message), 0)
           /\ Stands(<<message.separator>>, Bytes(message), 4)
<1>1. PICK rest \in Seq(Nat) : rest = FlattenSeq(MapSeqs(message.maps))
  BY BytesType
<1>2. PICK x \in Nat : x = message.separator
  BY DEF MessageType
<1>3. Bytes(message) = (PSBT_MAGIC \o <<x>>) \o rest
  BY <1>1, <1>2, BytesType
<1>4. PSBT_MAGIC \in Seq(Nat) /\ Len(PSBT_MAGIC) = 4 /\ <<x>> \in Seq(Nat)
  BY DEF PSBT_MAGIC
<1>5. Stands(PSBT_MAGIC \o <<x>>, (PSBT_MAGIC \o <<x>>) \o rest, 0)
  <2>1. PSBT_MAGIC \o <<x>> \in Seq(Nat)
    BY <1>4
  <2>. QED  BY <2>1, StandsFirst
<1>6. (PSBT_MAGIC \o <<x>>) \o rest \in Seq(Nat) /\ 0 \in Nat
  BY <1>4
<1>7. Stands(PSBT_MAGIC, (PSBT_MAGIC \o <<x>>) \o rest, 0) /\ Stands(<<x>>, (PSBT_MAGIC \o <<x>>) \o rest, 0 + 4)
  BY <1>4, <1>5, <1>6, StandsOfParts
<1>. QED  BY <1>2, <1>3, <1>7

LEMMA MapStands ==
    ASSUME NEW message \in MessageType, message.magic = PSBT_MAGIC,
           NEW i \in 1 .. Len(message.maps)
    PROVE  /\ MapStart(message, i) \in Nat
           /\ Stands(MapBytes(message.maps[i]), Bytes(message), MapStart(message, i))
           /\ MapStart(message, i + 1) = MapStart(message, i) + Len(MapBytes(message.maps[i]))
<1>1. PICK seqs \in Seq(Seq(Nat)) : seqs = MapSeqs(message.maps) /\ Len(seqs) = Len(message.maps)
  BY BytesType
<1>2. i \in 1 .. Len(seqs) /\ i - 1 \in 0 .. Len(seqs) /\ i \in 0 .. Len(seqs)
  BY <1>1
<1>3. seqs[i] = MapBytes(message.maps[i])
  BY <1>1 DEF MapSeqs
<1>4. Stands(seqs[i], FlattenSeq(seqs), Len(Joined(seqs, i - 1)))
  BY <1>2, JoinedStands
<1>5. /\ Joined(seqs, i - 1) \in Seq(Nat) /\ Joined(seqs, i) = Joined(seqs, i - 1) \o seqs[i]
      /\ FlattenSeq(seqs) \in Seq(Nat)
  <2>1. Joined(seqs, i - 1) \in Seq(Nat)
    BY <1>2, JoinedStep
  <2>2. Joined(seqs, i) = Joined(seqs, i - 1) \o seqs[i]
    BY <1>2, JoinedStep
  <2>. QED  BY <2>1, <2>2, FlattenType
<1>6. seqs[i] \in Seq(Nat)
  BY <1>2
<1>7. Len(Joined(seqs, i)) = Len(Joined(seqs, i - 1)) + Len(seqs[i]) /\ Len(Joined(seqs, i - 1)) \in Nat
  BY <1>5, <1>6
<1>8. PICK front \in Seq(Nat) : front = PSBT_MAGIC \o <<message.separator>> /\ Len(front) = 5
  <2>1. PICK x \in Nat : x = message.separator
    BY DEF MessageType
  <2>2. PSBT_MAGIC \o <<x>> \in Seq(Nat) /\ Len(PSBT_MAGIC \o <<x>>) = 5
    BY DEF PSBT_MAGIC
  <2>. QED  BY <2>1, <2>2
<1>9. Bytes(message) = front \o FlattenSeq(seqs)
  BY <1>1, <1>8, BytesType
<1>10. Stands(seqs[i], front \o FlattenSeq(seqs), 5 + Len(Joined(seqs, i - 1)))
  BY <1>4, <1>5, <1>6, <1>7, <1>8, StandsBehind
<1>11. (i + 1) - 1 = i
  BY <1>2
<1>. QED  BY <1>1, <1>3, <1>7, <1>9, <1>10, <1>11 DEF MapStart

LEMMA PairStands ==
    ASSUME NEW message \in MessageType, message.magic = PSBT_MAGIC,
           NEW i \in 1 .. Len(message.maps), NEW pairs \in Seq(PairType), pairs = message.maps[i]
    PROVE  /\ PairStart(message, i, 0) = MapStart(message, i)
           /\ \A j \in 0 .. Len(pairs) : PairStart(message, i, j) \in Nat
           /\ \A j \in 1 .. Len(pairs) :
                 /\ Stands(PairBytes(pairs[j]), Bytes(message), PairStart(message, i, j - 1))
                 /\ PairStart(message, i, j)
                       = PairStart(message, i, j - 1) + Len(PairBytes(pairs[j]))
           /\ Stands(<<EndOfMap>>, Bytes(message), PairStart(message, i, Len(pairs)))
           /\ MapStart(message, i + 1) = PairStart(message, i, Len(pairs)) + 1
<1>1. PICK seqs \in Seq(Seq(Nat)) : seqs = PairSeqs(pairs) /\ Len(seqs) = Len(pairs)
  BY MapBytesType
<1>2. PICK start \in Nat : start = MapStart(message, i)
  BY MapStands
<1>3. PICK n \in Nat : n = Len(pairs) /\ n = Len(seqs)
  BY <1>1
<1>4. \A j \in 0 .. n : Joined(seqs, j) \in Seq(Nat)
  BY <1>3, JoinedStep
<1>5. \A j : PairStart(message, i, j) = start + Len(Joined(seqs, j))
  BY <1>1, <1>2 DEF PairStart
<1>6. Joined(seqs, 0) = <<>> /\ Joined(seqs, n) = FlattenSeq(seqs)
  BY <1>3, JoinedStep
<1>7. /\ Stands(FlattenSeq(seqs) \o <<EndOfMap>>, Bytes(message), start)
      /\ MapStart(message, i + 1) = start + Len(FlattenSeq(seqs)) + 1
  <2>1. MapBytes(pairs) = FlattenSeq(seqs) \o <<EndOfMap>> /\ Len(MapBytes(pairs)) = Len(FlattenSeq(seqs)) + 1
    BY <1>1, MapBytesType
  <2>2. /\ Stands(MapBytes(pairs), Bytes(message), start)
        /\ MapStart(message, i + 1) = start + Len(MapBytes(pairs))
    BY <1>2, MapStands
  <2>3. Len(FlattenSeq(seqs)) \in Nat
    BY <1>3, <1>4, <1>6
  <2>. QED  BY <2>1, <2>2, <2>3
<1>8. FlattenSeq(seqs) \in Seq(Nat) /\ <<EndOfMap>> \in Seq(Nat) /\ Bytes(message) \in Seq(Nat)
  <2>1. EndOfMap \in Nat
    BY DEF EndOfMap
  <2>2. <<EndOfMap>> \in Seq(Nat)
    BY <2>1
  <2>. QED  BY <2>2, FlattenType, BytesType
<1>9. Stands(FlattenSeq(seqs), Bytes(message), start) /\ Stands(<<EndOfMap>>, Bytes(message), start + Len(FlattenSeq(seqs)))
  BY <1>7, <1>8, StandsOfParts
<1>10. ASSUME NEW j \in 1 .. n
       PROVE  /\ Stands(PairBytes(pairs[j]), Bytes(message), PairStart(message, i, j - 1))
              /\ PairStart(message, i, j) = PairStart(message, i, j - 1) + Len(PairBytes(pairs[j]))
  <2>1. j \in 1 .. Len(seqs) /\ j - 1 \in 0 .. n /\ j \in 0 .. n /\ seqs[j] \in Seq(Nat)
    BY <1>3
  <2>2. seqs[j] = PairBytes(pairs[j])
    BY <1>1, <1>3 DEF PairSeqs
  <2>3. Stands(seqs[j], FlattenSeq(seqs), Len(Joined(seqs, j - 1)))
    BY <2>1, JoinedStands
  <2>4. Joined(seqs, j) = Joined(seqs, j - 1) \o seqs[j]
    BY <2>1, JoinedStep
  <2>5. Joined(seqs, j - 1) \in Seq(Nat)
    BY <1>4, <2>1
  <2>6. Len(Joined(seqs, j - 1)) \in Nat /\ Len(Joined(seqs, j)) = Len(Joined(seqs, j - 1)) + Len(seqs[j])
    BY <2>1, <2>4, <2>5
  <2>7. Stands(seqs[j], Bytes(message), start + Len(Joined(seqs, j - 1)))
    BY <1>8, <1>9, <2>1, <2>3, <2>6, StandsWithin
  <2>8. Len(seqs[j]) \in Nat
    BY <2>1
  <2>9. /\ PairStart(message, i, j - 1) = start + Len(Joined(seqs, j - 1))
        /\ PairStart(message, i, j) = start + Len(Joined(seqs, j))
    BY <1>5
  <2>. QED  BY <2>2, <2>6, <2>7, <2>8, <2>9
<1>11. \A j \in 0 .. n : PairStart(message, i, j) \in Nat
  BY <1>4, <1>5
<1>12. PairStart(message, i, 0) = start
  <2>1. PairStart(message, i, 0) = start + Len(Joined(seqs, 0))
    BY <1>5
  <2>. QED  BY <1>6, <2>1
<1>13. n \in 0 .. n
  OBVIOUS
<1>14. PairStart(message, i, n) = start + Len(FlattenSeq(seqs))
  BY <1>5, <1>6, <1>13
<1>. QED  BY <1>2, <1>3, <1>7, <1>9, <1>10, <1>11, <1>12, <1>14

LEMMA JoinedGrows ==
    ASSUME NEW S, NEW seqs \in Seq(Seq(S)), NEW j \in 0 .. Len(seqs), NEW k \in j .. Len(seqs)
    PROVE  /\ Len(Joined(seqs, j)) \in Nat
           /\ Len(Joined(seqs, j)) <= Len(Joined(seqs, k))
<1>1. PICK n \in Nat : n = Len(seqs)
  OBVIOUS
<1>2. \A i \in 0 .. n : Joined(seqs, i) \in Seq(S)
  BY <1>1, JoinedStep
<1>3. \A i \in 1 .. n : Joined(seqs, i) = Joined(seqs, i - 1) \o seqs[i]
  BY <1>1, JoinedStep
<1>. DEFINE U == {m \in Nat : j + m <= n => Len(Joined(seqs, j)) <= Len(Joined(seqs, j + m))}
<1>4. U = Nat
  <2>1. 0 \in U
    <3>1. j + 0 = j /\ Len(Joined(seqs, j)) \in Nat
      BY <1>1, <1>2
    <3>. QED  BY <3>1
  <2>2. ASSUME NEW m \in U PROVE m + 1 \in U
    <3>. SUFFICES ASSUME j + (m + 1) <= n
                  PROVE  Len(Joined(seqs, j)) <= Len(Joined(seqs, j + (m + 1)))
      OBVIOUS
    <3>1. j + m \in 0 .. n /\ j + (m + 1) \in 1 .. n /\ (j + (m + 1)) - 1 = j + m
      BY <1>1
    <3>2. Len(Joined(seqs, j)) <= Len(Joined(seqs, j + m))
      BY <3>1
    <3>3. Joined(seqs, j + (m + 1)) = Joined(seqs, j + m) \o seqs[j + (m + 1)]
      BY <1>3, <3>1
    <3>4. Joined(seqs, j + m) \in Seq(S) /\ seqs[j + (m + 1)] \in Seq(S)
      BY <1>1, <1>2, <3>1
    <3>5. PICK longer : longer = Joined(seqs, j + (m + 1))
      OBVIOUS
    <3>6. PICK shorter \in Seq(S) : shorter = Joined(seqs, j + m)
      BY <3>4
    <3>7. PICK last \in Seq(S) : last = seqs[j + (m + 1)]
      BY <3>4
    <3>8. longer = shorter \o last
      BY <3>3, <3>5, <3>6, <3>7
    <3>9. Len(shorter) <= Len(longer) /\ Len(shorter) \in Nat /\ Len(longer) \in Nat
      BY <3>8
    <3>10. Len(Joined(seqs, j)) \in Nat
      BY <1>1, <1>2
    <3>11. Len(Joined(seqs, j)) <= Len(longer)
      BY <3>2, <3>6, <3>9, <3>10
    <3>. QED  BY <3>5, <3>11
  <2>3. U \in SUBSET Nat
    OBVIOUS
  <2>. HIDE DEF U
  <2>. QED  BY <2>1, <2>2, <2>3, NumbersInduct
<1>5. k - j \in Nat /\ j + (k - j) = k /\ k <= n
  BY <1>1
<1>6. k - j \in U
  BY <1>4, <1>5
<1>. QED  BY <1>1, <1>2, <1>5, <1>6

LEMMA PairsOrdered ==
    ASSUME NEW message \in MessageType, message.magic = PSBT_MAGIC,
           NEW i \in 1 .. Len(message.maps), NEW pairs \in Seq(PairType), pairs = message.maps[i],
           NEW j \in 0 .. Len(pairs)
    PROVE  PairStart(message, i, j) <= PairStart(message, i, Len(pairs))
<1>1. PICK seqs \in Seq(Seq(Nat)) : seqs = PairSeqs(pairs) /\ Len(seqs) = Len(pairs)
  BY MapBytesType
<1>2. PICK start \in Nat : start = MapStart(message, i)
  BY MapStands
<1>3. \A m : PairStart(message, i, m) = start + Len(Joined(seqs, m))
  BY <1>1, <1>2 DEF PairStart
<1>4. PICK n \in Nat : n = Len(seqs)
  OBVIOUS
<1>5. j \in 0 .. Len(seqs) /\ n \in 0 .. Len(seqs) /\ n \in j .. Len(seqs) /\ n \in n .. Len(seqs)
  BY <1>1, <1>4
<1>6. Len(Joined(seqs, j)) \in Nat /\ Len(Joined(seqs, j)) <= Len(Joined(seqs, n))
  BY <1>5, JoinedGrows
<1>7. Len(Joined(seqs, n)) \in Nat
  BY <1>5, JoinedGrows
<1>. QED  BY <1>1, <1>3, <1>4, <1>6, <1>7

LEMMA MapsOrdered ==
    ASSUME NEW message \in MessageType,
           NEW i \in 1 .. Len(message.maps) + 1, NEW k \in i .. Len(message.maps) + 1
    PROVE  /\ MapStart(message, i) \in Nat
           /\ MapStart(message, k) \in Nat
           /\ MapStart(message, i) <= MapStart(message, k)
<1>1. PICK seqs \in Seq(Seq(Nat)) : seqs = MapSeqs(message.maps) /\ Len(seqs) = Len(message.maps)
  BY BytesType
<1>2. i - 1 \in 0 .. Len(seqs) /\ k - 1 \in (i - 1) .. Len(seqs) /\ k - 1 \in 0 .. Len(seqs)
        /\ k - 1 \in (k - 1) .. Len(seqs)
  BY <1>1
<1>3. Len(Joined(seqs, i - 1)) \in Nat /\ Len(Joined(seqs, i - 1)) <= Len(Joined(seqs, k - 1))
  BY <1>2, JoinedGrows
<1>4. Len(Joined(seqs, k - 1)) \in Nat
  BY <1>2, JoinedGrows
<1>. QED  BY <1>1, <1>3, <1>4 DEF MapStart

LEMMA ExtentEnds ==
    ASSUME NEW message \in MessageType, message.magic = PSBT_MAGIC,
           NEW n \in Nat, n = InputCount(message), NEW k \in Nat, k = OutputCount(message),
           1 + n + k <= Len(message.maps)
    PROVE  Extent(message) = MapStart(message, 2 + n + k)
<1>1. message.maps \in Seq(Seq(PairType))
  BY DEF MessageType
<1>2. PICK maps \in Seq(Seq(PairType)) : maps = message.maps
  BY <1>1
<1>3. PICK c \in Nat : c = 1 + n + k
  OBVIOUS
<1>4. c <= Len(maps)
  BY <1>2, <1>3
<1>5. PICK part : part = [message EXCEPT !.maps = SubSeq(@, 1, c)]
  OBVIOUS
<1>6. part \in MessageType
  <2>1. SubSeq(maps, 1, c) \in Seq(Seq(PairType))
    BY <1>4
  <2>. QED  BY <1>2, <1>5, <2>1 DEF MessageType
<1>7. part.maps = SubSeq(maps, 1, c) /\ part.magic = PSBT_MAGIC /\ part.separator = message.separator
  BY <1>2, <1>5 DEF MessageType
<1>8. PICK seqs : seqs = MapSeqs(maps)
  OBVIOUS
<1>9. seqs \in Seq(Seq(Nat)) /\ Len(seqs) = Len(maps)
  BY <1>2, <1>8, BytesType
<1>10. MapSeqs(part.maps) = SubSeq(seqs, 1, c)
  <2>1. MapSeqs(part.maps) = [i \in 1 .. c |-> MapBytes(maps[i])]
    BY <1>4, <1>7 DEF MapSeqs
  <2>2. \A i \in 1 .. c : seqs[i] = MapBytes(maps[i])
    BY <1>4, <1>8 DEF MapSeqs
  <2>3. SubSeq(seqs, 1, c) = [i \in 1 .. c |-> seqs[i]]
    BY <1>4, <1>9
  <2>. QED  BY <2>1, <2>2, <2>3
<1>11. Bytes(part) = (PSBT_MAGIC \o <<message.separator>>) \o Joined(seqs, c)
  BY <1>6, <1>7, <1>10, BytesType DEF Joined
<1>12. Joined(seqs, c) \in Seq(Nat)
  <2>1. c \in 0 .. Len(seqs)
    BY <1>4, <1>9
  <2>. QED  BY <1>9, <2>1, JoinedStep
<1>13. PICK front \in Seq(Nat) : front = PSBT_MAGIC \o <<message.separator>> /\ Len(front) = 5
  <2>1. PICK x \in Nat : x = message.separator
    BY DEF MessageType
  <2>2. PSBT_MAGIC \o <<x>> \in Seq(Nat) /\ Len(PSBT_MAGIC \o <<x>>) = 5
    BY DEF PSBT_MAGIC
  <2>. QED  BY <2>1, <2>2
<1>14. Len(Bytes(part)) = 5 + Len(Joined(seqs, c))
  BY <1>11, <1>12, <1>13
<1>15. Extent(message) = Len(Bytes(part))
  <2>1. 1 + InputCount(message) + OutputCount(message) = c
    BY <1>3
  <2>. QED  BY <1>5, <2>1 DEF Extent
<1>16. (2 + n + k) - 1 = c
  BY <1>3
<1>. QED  BY <1>2, <1>8, <1>14, <1>15, <1>16 DEF MapStart

-----------------------------------------------------------------------------
(* The parts of a pair, and how much of them a decoder asks for *)

KeyItem(p)    == <<1 + Len(p.data), p.type>> \o p.data
LengthItem(p) == <<p.len>>
ValueItem(p)  == LengthItem(p) \o p.value

LEMMA PairItems ==
    ASSUME NEW p \in PairType
    PROVE  /\ KeyItem(p) \in Seq(Nat) /\ Len(KeyItem(p)) = 2 + Len(p.data)
           /\ KeyItem(p)[1] = 1 + Len(p.data) /\ KeyItem(p)[2] = p.type
           /\ SubSeq(KeyItem(p), 3, Len(KeyItem(p))) = p.data
           /\ LengthItem(p) \in Seq(Nat) /\ Len(LengthItem(p)) = 1 /\ LengthItem(p)[1] = p.len
           /\ ValueItem(p) \in Seq(Nat) /\ Len(ValueItem(p)) = 1 + Len(p.value)
           /\ ValueItem(p)[1] = p.len /\ Tail(ValueItem(p)) = p.value
<1>1. p.type \in Nat /\ p.len \in Nat /\ p.data \in Seq(Nat) /\ p.value \in Seq(Nat)
  BY DEF PairType
<1>2. PICK data \in Seq(Nat), value \in Seq(Nat) : data = p.data /\ value = p.value
  BY <1>1
<1>3. PICK head \in Seq(Nat) : /\ Len(head) = 2 /\ head[1] = 1 + Len(data) /\ head[2] = p.type
                                /\ head = <<1 + Len(data), p.type>>
  <2>1. PICK x \in Nat, y \in Nat : x = 1 + Len(data) /\ y = p.type
    BY <1>1
  <2>2. <<x, y>> \in Seq(Nat) /\ Len(<<x, y>>) = 2 /\ <<x, y>>[1] = x /\ <<x, y>>[2] = y
    OBVIOUS
  <2>. QED  BY <2>1, <2>2
<1>4. PICK length \in Seq(Nat) : Len(length) = 1 /\ length[1] = p.len /\ length = <<p.len>>
  <2>1. PICK x \in Nat : x = p.len
    BY <1>1
  <2>2. <<x>> \in Seq(Nat) /\ Len(<<x>>) = 1 /\ <<x>>[1] = x
    OBVIOUS
  <2>. QED  BY <2>1, <2>2
<1>5. KeyItem(p) = head \o data /\ LengthItem(p) = length /\ ValueItem(p) = length \o value
  BY <1>2, <1>3, <1>4 DEF KeyItem, LengthItem, ValueItem
<1>6. /\ head \o data \in Seq(Nat) /\ Len(head \o data) = 2 + Len(data)
      /\ (head \o data)[1] = head[1] /\ (head \o data)[2] = head[2]
  BY <1>3
<1>7. SubSeq(head \o data, 3, Len(head \o data)) = data
  <2>1. PICK n \in Nat : n = Len(data)
    OBVIOUS
  <2>2. \A i \in 1 .. n : (head \o data)[2 + i] = data[i]
    BY <1>3, <2>1
  <2>3. PICK whole \in Seq(Nat) : whole = head \o data /\ Len(whole) = 2 + n
    BY <1>6, <2>1
  <2>4. SubSeq(whole, 3, 2 + n) = [i \in 1 .. n |-> whole[2 + i]]
    BY <2>3
  <2>5. data = [i \in 1 .. n |-> data[i]]
    BY <2>1
  <2>6. [i \in 1 .. n |-> whole[2 + i]] = [i \in 1 .. n |-> data[i]]
    BY <2>2, <2>3
  <2>. QED  BY <2>3, <2>4, <2>5, <2>6
<1>8. /\ length \o value \in Seq(Nat) /\ Len(length \o value) = 1 + Len(value)
      /\ (length \o value)[1] = length[1]
  BY <1>4
<1>9. Tail(length \o value) = value
  BY <1>4
<1>. QED  BY <1>2, <1>3, <1>4, <1>5, <1>6, <1>7, <1>8, <1>9

LEMMA PairParts ==
    ASSUME NEW p \in PairType, NEW s \in Seq(Nat), NEW start \in Nat,
           Stands(PairBytes(p), s, start)
    PROVE  /\ Stands(KeyItem(p), s, start)
           /\ Stands(LengthItem(p), s, start + Len(KeyItem(p)))
           /\ Stands(ValueItem(p), s, start + Len(KeyItem(p)))
           /\ Stands(p.value, s, start + Len(KeyItem(p)) + 1)
           /\ Len(PairBytes(p)) = Len(KeyItem(p)) + Len(ValueItem(p))
<1>1. PICK a \in Seq(Nat), b \in Seq(Nat), c \in Seq(Nat) :
          a = KeyItem(p) /\ b = LengthItem(p) /\ c = p.value
  BY PairItems DEF PairType
<1>2. PairBytes(p) = (a \o b) \o c /\ ValueItem(p) = b \o c
  BY <1>1 DEF PairBytes, KeyItem, LengthItem, ValueItem
<1>3. (a \o b) \o c = a \o (b \o c) /\ b \o c \in Seq(Nat)
  BY SMTT(20)
<1>4. Stands(a, s, start) /\ Stands(b \o c, s, start + Len(a))
  BY <1>2, <1>3, StandsOfParts, ZenonT(30)
<1>5. start + Len(a) \in Nat /\ Len(b) = 1
  BY <1>1, PairItems
<1>6. Stands(b, s, start + Len(a)) /\ Stands(c, s, start + Len(a) + Len(b))
  BY <1>4, <1>5, StandsOfParts
<1>7. Len(a \o (b \o c)) = Len(a) + Len(b \o c)
  BY <1>3
<1>. QED  BY <1>1, <1>2, <1>3, <1>4, <1>5, <1>6, <1>7

LEMMA KeyFinds ==
    ASSUME NEW p \in PairType, NEW seen \in Seq(Nat), Agree(seen, KeyItem(p))
    PROVE  Finds(PrefixedSize(seen), seen, KeyItem(p))
<1>1. Len(p.data) \in Nat
  BY DEF PairType
<1>2. Len(KeyItem(p)) = 2 + Len(p.data) /\ KeyItem(p)[1] = 1 + Len(p.data)
  BY PairItems
<1>3. seen = <<>> => Len(seen) = 0
  OBVIOUS
<1>4. seen # <<>> => Len(seen) >= 1 /\ seen[1] = 1 + Len(p.data)
  BY <1>1, <1>2 DEF Agree
<1>. QED  BY <1>1, <1>2, <1>3, <1>4 DEF Finds, PrefixedSize

LEMMA InnerSizePositive ==
    ASSUME NEW field, NEW seen \in Seq(Nat)
    PROVE  InnerSize(field, seen) \in Nat \ {0}
<1>1. FixedSize \in Nat \ {0}
  BY SizeAssumption
<1>2. TxSize[seen] \in Nat \ {0}
  BY <1>1, TxEnds
<1>3. PrefixedSize(seen) \in Nat \ {0}
  <2>1. Prefix(seen, seen)
    BY DEF Prefix
  <2>. QED  BY <2>1, PrefixedSizeSteady
<1>. QED  BY <1>1, <1>2, <1>3 DEF InnerSize

LEMMA FramedFinds ==
    ASSUME NEW field, NEW value \in Seq(Nat), Len(value) = InnerSize(field, value),
           NEW seen \in Seq(Nat), Agree(seen, value)
    PROVE  Finds(InnerSize(field, seen), seen, value)
<1>1. InnerSize(field, seen) \in Nat /\ InnerSize(field, value) \in Nat
  BY InnerSizePositive
<1>2. CASE Len(seen) >= Len(value)
  <2>1. Prefix(value, seen)
    <3>1. ASSUME NEW i \in 1 .. Len(value) PROVE value[i] = seen[i]
      <4>1. i \in 1 .. Len(seen) /\ i <= Len(value)
        BY <1>2
      <4>. QED  BY <4>1 DEF Agree
    <3>. QED  BY <1>2, <3>1 DEF Prefix
  <2>2. Steady(value, InnerSize(field, value), InnerSize(field, seen))
    BY <2>1, InnerSizeSteady
  <2>. QED  BY <1>1, <1>2, <2>2 DEF Steady, Finds
<1>3. CASE ~(Len(seen) >= Len(value))
  <2>1. Prefix(seen, value)
    <3>1. Len(seen) \in Nat /\ Len(value) \in Nat
      OBVIOUS
    <3>2. Len(seen) <= Len(value)
      BY <1>3, <3>1
    <3>3. ASSUME NEW i \in 1 .. Len(seen) PROVE seen[i] = value[i]
      <4>1. i \in 1 .. Len(seen) /\ i <= Len(value)
        BY <3>1, <3>2
      <4>. QED  BY <4>1 DEF Agree
    <3>. QED  BY <3>2, <3>3 DEF Prefix
  <2>2. Steady(seen, InnerSize(field, seen), InnerSize(field, value))
    BY <2>1, InnerSizeSteady
  <2>. QED  BY <1>1, <1>3, <2>2 DEF Steady, Finds
<1>. QED  BY <1>2, <1>3

-----------------------------------------------------------------------------
(* The fields of a map, told by their types *)

MapNames == {"global", "input", "output", "global0", "input0", "output0"}

LEMMA FieldTypes ==
    ASSUME NEW map \in MapNames, NEW type, FieldOf(map, type) # "unknown"
    PROVE  /\ FieldOf(map, type) \in DOMAIN Fields[map]
           /\ Fields[map][FieldOf(map, type)] = type
<1>1. map \in DOMAIN Fields
  BY DEF MapNames, Fields
<1>2. type \in DOMAIN FieldAt[map] /\ FieldOf(map, type) = FieldAt[map][type]
  BY DEF FieldOf
<1>3. FieldAt[map] = [t \in Range(Fields[map]) |-> CHOOSE f \in DOMAIN Fields[map] : Fields[map][f] = t]
  BY <1>1 DEF FieldAt
<1>4. type \in Range(Fields[map])
  BY <1>2, <1>3
<1>5. FieldOf(map, type) = CHOOSE f \in DOMAIN Fields[map] : Fields[map][f] = type
  BY <1>2, <1>3, <1>4
<1>6. \E f \in DOMAIN Fields[map] : Fields[map][f] = type
  BY <1>4 DEF Range
<1>. QED  BY <1>5, <1>6

LEMMA EntryParts ==
    ASSUME NEW map, NEW type, NEW data, NEW value
    PROVE  /\ EntryOf(map, type, data, value).field = FieldOf(map, type)
           /\ EntryOf(map, type, data, value).type = type
           /\ EntryOf(map, type, data, value).value = value
           /\ EntryOf(map, type, data, value).data
                 = IF FieldOf(map, type) \in Keyed[map] \union {"unknown"} THEN data ELSE <<>>
  BY DEF EntryOf

LEMMA CountFields ==
    /\ FieldOf("global", GlobalFields.input_count) = "input_count"
    /\ FieldOf("global", GlobalFields.output_count) = "output_count"
<1>1. Fields["global"] = GlobalFields
  BY DEF Fields
<1>2. "global" \in DOMAIN Fields
  BY DEF Fields
<1>3. FieldAt["global"] = [t \in Range(GlobalFields) |-> CHOOSE f \in DOMAIN GlobalFields : GlobalFields[f] = t]
  BY <1>1, <1>2 DEF FieldAt
<1>4. \A f \in DOMAIN GlobalFields : GlobalFields[f] = 4 => f = "input_count"
  BY DEF GlobalFields
<1>5. \A f \in DOMAIN GlobalFields : GlobalFields[f] = 5 => f = "output_count"
  BY DEF GlobalFields
<1>6. /\ "input_count" \in DOMAIN GlobalFields /\ GlobalFields["input_count"] = 4
      /\ "output_count" \in DOMAIN GlobalFields /\ GlobalFields["output_count"] = 5
  BY DEF GlobalFields
<1>7. 4 \in Range(GlobalFields) /\ 5 \in Range(GlobalFields)
  BY <1>6 DEF Range
<1>8. FieldAt["global"][4] = "input_count"
  BY <1>3, <1>4, <1>6, <1>7
<1>9. FieldAt["global"][5] = "output_count"
  BY <1>3, <1>5, <1>6, <1>7
<1>10. 4 \in DOMAIN FieldAt["global"] /\ 5 \in DOMAIN FieldAt["global"]
  BY <1>3, <1>7
<1>11. GlobalFields.input_count = 4 /\ GlobalFields.output_count = 5
  BY DEF GlobalFields
<1>. QED  BY <1>8, <1>9, <1>10, <1>11 DEF FieldOf

\* No other default is one of these.
LEMMA OtherSingles ==
    ASSUME NEW f \in {"version", "tx_version", "tx_modifiable", "fallback_lock_time"}, NEW value
    PROVE  Single("global", f, value).field \notin {"input_count", "output_count"}
<1>1. Single("global", f, value).field = FieldOf("global", Fields["global"][f])
  BY EntryParts DEF Single
<1>2. Fields["global"] = GlobalFields
  BY DEF Fields
<1>3. GlobalFields[f] # 4 /\ GlobalFields[f] # 5
  BY DEF GlobalFields
<1>4. GlobalFields["input_count"] = 4 /\ GlobalFields["output_count"] = 5
  BY DEF GlobalFields
<1>5. "global" \in MapNames
  BY DEF MapNames
<1>. QED  BY <1>1, <1>2, <1>3, <1>4, <1>5, FieldTypes

LEMMA CountSingles ==
    ASSUME NEW value
    PROVE  /\ Single("global", "input_count", value).field = "input_count"
           /\ Single("global", "input_count", value).value = value
           /\ Single("global", "output_count", value).field = "output_count"
           /\ Single("global", "output_count", value).value = value
<1>1. Fields["global"] = GlobalFields
  BY DEF Fields
<1>. QED  BY <1>1, EntryParts, CountFields DEF Single

LEMMA NoCounts0 ==
    ASSUME NEW type
    PROVE  FieldOf("global0", type) \notin {"input_count", "output_count"}
<1>1. Fields["global0"] = GlobalFields0
  BY DEF Fields
<1>2. "global0" \in MapNames
  BY DEF MapNames
<1>3. "input_count" \notin DOMAIN GlobalFields0 /\ "output_count" \notin DOMAIN GlobalFields0
  BY DEF GlobalFields0, Restrict
<1>. QED  BY <1>1, <1>2, <1>3, FieldTypes

-----------------------------------------------------------------------------
(* The entries of a map *)

EntryAt(map, p) == EntryOf(map, p.type, p.data, p.value)

\* Of the first j pairs.
EntriesTo(map, pairs, j) == {EntryAt(map, pairs[i]) : i \in 1 .. j}

LEMMA EntriesGrow ==
    ASSUME NEW map, NEW pairs \in Seq(PairType)
    PROVE  /\ EntriesTo(map, pairs, 0) = {}
           /\ EntriesTo(map, pairs, Len(pairs)) = Entries(map, pairs)
           /\ \A j \in 0 .. Len(pairs) - 1 :
                 EntriesTo(map, pairs, j + 1)
                    = EntriesTo(map, pairs, j) \union {EntryAt(map, pairs[j + 1])}
<1>1. EntriesTo(map, pairs, 0) = {}
  BY DEF EntriesTo
<1>2. EntriesTo(map, pairs, Len(pairs)) = Entries(map, pairs)
  BY DEF EntriesTo, Entries, EntryAt
<1>3. ASSUME NEW j \in 0 .. Len(pairs) - 1
      PROVE  EntriesTo(map, pairs, j + 1)
                = EntriesTo(map, pairs, j) \union {EntryAt(map, pairs[j + 1])}
  <2>1. \A i : i \in 1 .. j + 1 <=> i \in 1 .. j \/ i = j + 1
    OBVIOUS
  <2>. QED  BY <2>1 DEF EntriesTo
<1>. QED  BY <1>1, <1>2, <1>3

LEMMA EntriesNext ==
    ASSUME NEW map, NEW pairs \in Seq(PairType), NEW j \in 0 .. Len(pairs) - 1
    PROVE  EntriesTo(map, pairs, j + 1)
              = EntriesTo(map, pairs, j) \union {EntryAt(map, pairs[j + 1])}
<1>1. \A m \in 0 .. Len(pairs) - 1 :
          EntriesTo(map, pairs, m + 1) = EntriesTo(map, pairs, m) \union {EntryAt(map, pairs[m + 1])}
  BY EntriesGrow
<1>. QED  BY <1>1

LEMMA EntriesDiffer ==
    ASSUME NEW map, NEW pairs \in Seq(PairType), KeysDiffer(map, pairs),
           NEW i \in 1 .. Len(pairs), NEW j \in 1 .. Len(pairs),
           EntryAt(map, pairs[i]).field = EntryAt(map, pairs[j]).field,
           EntryAt(map, pairs[i]).type = EntryAt(map, pairs[j]).type,
           EntryAt(map, pairs[i]).data = EntryAt(map, pairs[j]).data
    PROVE  i = j
<1>1. EntryOf(map, pairs[i].type, pairs[i].data, <<>>) = EntryOf(map, pairs[j].type, pairs[j].data, <<>>)
  BY DEF EntryAt, EntryOf
<1>. QED  BY <1>1 DEF KeysDiffer

OneEntry(entries, f, e) ==
    e \in entries /\ e.field = f /\ \A x \in entries : x.field = f => x = e

LEMMA OneValue ==
    ASSUME NEW entries, NEW f, NEW e, OneEntry(entries, f, e)
    PROVE  ValueOf(entries, f) = e.value /\ f \in FieldsIn(entries)
<1>1. \E x \in entries : x.field = f
  BY DEF OneEntry
<1>2. PICK y : y = CHOOSE x \in entries : x.field = f
  OBVIOUS
<1>3. y \in entries /\ y.field = f
  BY <1>1, <1>2
<1>4. y = e
  BY <1>3 DEF OneEntry
<1>5. f \in FieldsIn(entries)
  BY <1>3 DEF FieldsIn
<1>. QED  BY <1>2, <1>4, <1>5 DEF ValueOf

\* A field of one pair is in one pair.
LEMMA OneOfField ==
    ASSUME NEW map \in MapNames, NEW pairs \in Seq(PairType), KeysDiffer(map, pairs),
           NEW f \in FieldsIn(Entries(map, pairs)), f \notin Keyed[map], f # "unknown"
    PROVE  \E i \in 1 .. Len(pairs) :
              FieldOf(map, pairs[i].type) = f /\ OneEntry(Entries(map, pairs), f, EntryAt(map, pairs[i]))
<1>1. PICK i \in 1 .. Len(pairs) : EntryAt(map, pairs[i]).field = f
  BY DEF FieldsIn, Entries, EntryAt
<1>2. FieldOf(map, pairs[i].type) = f
  BY <1>1, EntryParts DEF EntryAt
<1>3. ASSUME NEW j \in 1 .. Len(pairs), EntryAt(map, pairs[j]).field = f
      PROVE  j = i
  <2>1. FieldOf(map, pairs[j].type) = f
    BY <1>3, EntryParts DEF EntryAt
  <2>2. pairs[i].type = pairs[j].type
    BY <1>2, <2>1, FieldTypes
  <2>3. EntryAt(map, pairs[i]).data = <<>> /\ EntryAt(map, pairs[j]).data = <<>>
    BY <1>2, <2>1, EntryParts DEF EntryAt
  <2>4. EntryAt(map, pairs[i]).type = EntryAt(map, pairs[j]).type
    BY <2>2, EntryParts DEF EntryAt
  <2>. QED  BY <1>1, <1>3, <2>3, <2>4, EntriesDiffer
<1>4. OneEntry(Entries(map, pairs), f, EntryAt(map, pairs[i]))
  <2>1. EntryAt(map, pairs[i]) \in Entries(map, pairs)
    BY DEF Entries, EntryAt
  <2>2. ASSUME NEW x \in Entries(map, pairs), x.field = f PROVE x = EntryAt(map, pairs[i])
    <3>1. PICK j \in 1 .. Len(pairs) : x = EntryAt(map, pairs[j])
      BY DEF Entries, EntryAt
    <3>. QED  BY <1>3, <2>2, <3>1
  <2>. QED  BY <1>1, <2>1, <2>2 DEF OneEntry
<1>. QED  BY <1>2, <1>4

LEMMA CountOf ==
    ASSUME NEW pairs \in Seq(PairType), MapOk("global", pairs),
           NEW f \in {"input_count", "output_count"}
    PROVE  /\ ValueOf(Entries("global", pairs), f)[1] \in Nat
           /\ ValueOf(WithDefault("global", Entries("global", pairs), "tx_modifiable", <<0>>), f)
                 = ValueOf(Entries("global", pairs), f)
<1>1. f \in FieldsIn(Entries("global", pairs)) /\ KeysDiffer("global", pairs)
  BY DEF MapOk, Required
<1>2. f \notin Keyed["global"] /\ f # "unknown" /\ "global" \in MapNames
  BY DEF Keyed, GlobalKeyed, MapNames
<1>3. PICK i \in 1 .. Len(pairs) :
          /\ FieldOf("global", pairs[i].type) = f
          /\ OneEntry(Entries("global", pairs), f, EntryAt("global", pairs[i]))
  BY <1>1, <1>2, OneOfField
<1>4. ValueOf(Entries("global", pairs), f) = pairs[i].value
  BY <1>3, OneValue, EntryParts DEF EntryAt
<1>5. pairs[i].value \in Seq(Nat) /\ Len(pairs[i].value) = 1
  <2>1. pairs[i] \in PairType
    OBVIOUS
  <2>2. PairOk("global", pairs[i])
    BY DEF MapOk
  <2>3. f \in Framed["global"]
    BY DEF Framed, GlobalFramed
  <2>4. Len(pairs[i].value) = InnerSize(f, pairs[i].value)
    BY <1>3, <2>2, <2>3 DEF PairOk
  <2>5. InnerSize(f, pairs[i].value) = 1
    BY DEF InnerSize
  <2>. QED  BY <2>1, <2>4, <2>5 DEF PairType
<1>6. PICK value \in Seq(Nat) : value = pairs[i].value /\ Len(value) = 1
  BY <1>5
<1>7. value[1] \in Nat
  BY <1>6
<1>8. OneEntry(WithDefault("global", Entries("global", pairs), "tx_modifiable", <<0>>), f,
               EntryAt("global", pairs[i]))
  <2>1. Single("global", "tx_modifiable", <<0>>).field # f
    BY OtherSingles
  <2>. QED  BY <1>3, <2>1 DEF OneEntry, WithDefault
<1>9. ValueOf(WithDefault("global", Entries("global", pairs), "tx_modifiable", <<0>>), f) = pairs[i].value
  BY <1>8, OneValue, EntryParts DEF EntryAt
<1>. QED  BY <1>4, <1>6, <1>7, <1>9

LEMMA CountsOfTx ==
    ASSUME NEW pairs, NEW tx
    PROVE  /\ ValueOf(IntoGlobal(Entries("global0", pairs), tx), "input_count") = <<Len(tx.ins)>>
           /\ ValueOf(IntoGlobal(Entries("global0", pairs), tx), "output_count") = <<Len(tx.outs)>>
<1>1. \A e \in Entries("global0", pairs) : e.field \notin {"input_count", "output_count"}
  BY NoCounts0, EntryParts DEF Entries
<1>2. PICK a, b, c, d, e, g :
          /\ a = Single("global", "version", NumberBytes(2))
          /\ b = Single("global", "tx_version", tx.version)
          /\ c = Single("global", "input_count", <<Len(tx.ins)>>)
          /\ d = Single("global", "output_count", <<Len(tx.outs)>>)
          /\ e = Single("global", "tx_modifiable", <<0>>)
          /\ g = Single("global", "fallback_lock_time", tx.lock)
  OBVIOUS
<1>3. \A x \in {a, b, e, g} : x.field \notin {"input_count", "output_count"}
  BY <1>2, OtherSingles
<1>4. /\ c.field = "input_count" /\ c.value = <<Len(tx.ins)>>
      /\ d.field = "output_count" /\ d.value = <<Len(tx.outs)>>
  BY <1>2, CountSingles
<1>5. PICK entries : entries = IntoGlobal(Entries("global0", pairs), tx)
  OBVIOUS
<1>6. /\ \A x \in entries : x \in Entries("global0", pairs) \/ x \in {a, b, c, d, e, g}
      /\ c \in entries /\ d \in entries
  BY <1>2, <1>5 DEF IntoGlobal, Without
<1>7. OneEntry(entries, "input_count", c)
  BY <1>1, <1>3, <1>4, <1>6 DEF OneEntry
<1>8. OneEntry(entries, "output_count", d)
  BY <1>1, <1>3, <1>4, <1>6 DEF OneEntry
<1>. QED  BY <1>4, <1>5, <1>7, <1>8, OneValue

\* The transaction of a map of version 0.
LEMMA TxOfMap ==
    ASSUME NEW pairs \in Seq(PairType), MapOk("global0", pairs),
           NEW value, value = ValueOf(Entries("global0", pairs), "unsigned_tx")
    PROVE  value \in Seq(Nat) /\ TxSize[value] = Len(value)
<1>1. PICK e : e = CHOOSE x \in Entries("global0", pairs) : x.field = "unsigned_tx"
  OBVIOUS
<1>2. \E x \in Entries("global0", pairs) : x.field = "unsigned_tx"
  BY DEF MapOk, Required, FieldsIn
<1>3. e \in Entries("global0", pairs) /\ e.field = "unsigned_tx"
  BY <1>1, <1>2
<1>4. PICK i \in 1 .. Len(pairs) : e = EntryAt("global0", pairs[i])
  BY <1>3 DEF Entries, EntryAt
<1>5. FieldOf("global0", pairs[i].type) = "unsigned_tx" /\ e.value = pairs[i].value
  BY <1>3, <1>4, EntryParts DEF EntryAt
<1>6. PairOk("global0", pairs[i]) /\ pairs[i] \in PairType
  BY DEF MapOk
<1>7. Len(pairs[i].value) = InnerSize("unsigned_tx", pairs[i].value)
  BY <1>5, <1>6 DEF PairOk, Framed, GlobalFramed0
<1>8. InnerSize("unsigned_tx", pairs[i].value) = TxSize[pairs[i].value]
  BY DEF InnerSize
<1>9. value = pairs[i].value
  BY <1>1, <1>5 DEF ValueOf
<1>. QED  BY <1>6, <1>7, <1>8, <1>9 DEF PairType

-----------------------------------------------------------------------------
(* Messages that are well formed *)

\* The kind of map i, in the version of the message.
NameAt(message, i) ==
    MapName(IF i = 1 THEN "global" ELSE IF i <= 1 + InputCount(message) THEN "input" ELSE "output",
            message.format)

ReadInputs(message, c) ==
    [i \in 1 .. c |-> Entries(MapName("input", message.format), message.maps[1 + i])]

ReadOutputs(message, c) ==
    [i \in 1 .. c |->
        LET entries == Entries(MapName("output", message.format),
                               message.maps[1 + InputCount(message) + i])
        IN  IF message.format = 2 THEN WithDefault("output", entries, "script", <<>>) ELSE entries]

LEMMA MapNamesOf ==
    ASSUME NEW kind \in {"global", "input", "output"}
    PROVE  /\ MapName(kind, 2) = kind
           /\ MapName("global", 0) = "global0"
           /\ MapName("input", 0) = "input0"
           /\ MapName("output", 0) = "output0"
           /\ \A format \in {0, 2} : MapName(kind, format) \in MapNames
  BY DEF MapName, MapNames

LEMMA GlobalCounts ==
    ASSUME NEW message \in MessageType, message.maps # <<>>,
           MapOk(MapName("global", message.format), message.maps[1])
    PROVE  /\ InputCount(message) \in Nat /\ OutputCount(message) \in Nat
           /\ ValueOf(Meaning(message).global, "input_count")[1] = InputCount(message)
           /\ ValueOf(Meaning(message).global, "output_count")[1] = OutputCount(message)
           /\ message.format = 0 => /\ Len(TxOfMessage(message).ins) = InputCount(message)
                                    /\ Len(TxOfMessage(message).outs) = OutputCount(message)
<1>1. message.format \in {0, 2} /\ message.maps \in Seq(Seq(PairType)) /\ message.maps # <<>>
  BY DEF MessageType
<1>2. message.maps[1] \in Seq(PairType)
  BY <1>1
<1>3. CASE message.format = 2
  <2>1. MapOk("global", message.maps[1]) /\ GlobalOf(message) = Entries("global", message.maps[1])
    BY <1>1, <1>3, MapNamesOf DEF GlobalOf
  <2>2. /\ InputCount(message) = ValueOf(Entries("global", message.maps[1]), "input_count")[1]
        /\ OutputCount(message) = ValueOf(Entries("global", message.maps[1]), "output_count")[1]
    BY <1>3, <2>1 DEF InputCount, OutputCount
  <2>3. Meaning(message).global
           = WithDefault("global", Entries("global", message.maps[1]), "tx_modifiable", <<0>>)
    BY <1>3, <2>1 DEF Meaning
  <2>. QED  BY <1>1, <1>2, <1>3, <2>1, <2>2, <2>3, CountOf
<1>4. CASE message.format = 0
  <2>1. MapOk("global0", message.maps[1]) /\ GlobalOf(message) = Entries("global0", message.maps[1])
    BY <1>1, <1>4, MapNamesOf DEF GlobalOf
  <2>2. PICK value : value = ValueOf(GlobalOf(message), "unsigned_tx")
    OBVIOUS
  <2>3. value \in Seq(Nat) /\ TxSize[value] = Len(value)
    BY <1>2, <2>1, <2>2, TxOfMap
  <2>4. TxOfMessage(message) = DecodeTx[value]
    BY <2>2 DEF TxOfMessage
  <2>5. Len(TxOfMessage(message).ins) \in Nat /\ Len(TxOfMessage(message).outs) \in Nat
    BY <2>3, <2>4, WholeTx
  <2>6. /\ InputCount(message) = Len(TxOfMessage(message).ins)
        /\ OutputCount(message) = Len(TxOfMessage(message).outs)
    BY <1>4 DEF InputCount, OutputCount
  <2>7. Meaning(message).global = IntoGlobal(Entries("global0", message.maps[1]), TxOfMessage(message))
    BY <1>4, <2>1 DEF Meaning
  <2>8. /\ ValueOf(Meaning(message).global, "input_count") = <<Len(TxOfMessage(message).ins)>>
        /\ ValueOf(Meaning(message).global, "output_count") = <<Len(TxOfMessage(message).outs)>>
    BY <2>7, CountsOfTx
  <2>9. PICK n \in Nat, k \in Nat :
            n = Len(TxOfMessage(message).ins) /\ k = Len(TxOfMessage(message).outs)
    BY <2>5
  <2>10. <<n>>[1] = n /\ <<k>>[1] = k
    OBVIOUS
  <2>. QED  BY <1>1, <1>4, <2>6, <2>8, <2>9, <2>10
<1>. QED  BY <1>1, <1>3, <1>4

LEMMA MessageCounts ==
    ASSUME NEW message \in MessageType, WellFormed(message)
    PROVE  /\ InputCount(message) \in Nat /\ OutputCount(message) \in Nat
           /\ 1 + InputCount(message) + OutputCount(message) <= Len(message.maps)
           /\ ValueOf(Meaning(message).global, "input_count")[1] = InputCount(message)
           /\ ValueOf(Meaning(message).global, "output_count")[1] = OutputCount(message)
           /\ message.format = 0 => /\ Len(TxOfMessage(message).ins) = InputCount(message)
                                    /\ Len(TxOfMessage(message).outs) = OutputCount(message)
<1>1. /\ message.maps # <<>> /\ MapOk(MapName("global", message.format), message.maps[1])
      /\ 1 + InputCount(message) + OutputCount(message) <= Len(message.maps)
  BY DEF WellFormed
<1>. QED  BY <1>1, GlobalCounts

LEMMA MapsAreOk ==
    ASSUME NEW message \in MessageType, WellFormed(message),
           NEW i \in 1 .. 1 + InputCount(message) + OutputCount(message)
    PROVE  /\ i \in 1 .. Len(message.maps)
           /\ message.maps[i] \in Seq(PairType)
           /\ NameAt(message, i) \in MapNames
           /\ MapOk(NameAt(message, i), message.maps[i])
<1>1. /\ InputCount(message) \in Nat /\ OutputCount(message) \in Nat
      /\ 1 + InputCount(message) + OutputCount(message) <= Len(message.maps)
  BY MessageCounts
<1>2. i \in 1 .. Len(message.maps) /\ message.maps \in Seq(Seq(PairType)) /\ message.format \in {0, 2}
  BY <1>1 DEF MessageType
<1>3. message.maps[i] \in Seq(PairType)
  BY <1>2
<1>4. NameAt(message, i) \in MapNames
  BY <1>2, MapNamesOf DEF NameAt
<1>5. CASE i = 1
  <2>1. MapOk(MapName("global", message.format), message.maps[1])
    BY DEF WellFormed
  <2>. QED  BY <1>2, <1>3, <1>4, <1>5, <2>1 DEF NameAt
<1>6. CASE i # 1 /\ i <= 1 + InputCount(message)
  <2>1. i \in 2 .. 1 + InputCount(message)
    BY <1>1, <1>6
  <2>2. MapOk(MapName("input", message.format), message.maps[i])
    BY <2>1 DEF WellFormed
  <2>. QED  BY <1>2, <1>3, <1>4, <1>6, <2>2 DEF NameAt
<1>7. CASE i # 1 /\ ~(i <= 1 + InputCount(message))
  <2>1. i \in 2 + InputCount(message) .. 1 + InputCount(message) + OutputCount(message)
    BY <1>1, <1>7
  <2>2. MapOk(MapName("output", message.format), message.maps[i])
    BY <2>1 DEF WellFormed
  <2>. QED  BY <1>2, <1>3, <1>4, <1>7, <2>2 DEF NameAt
<1>. QED  BY <1>5, <1>6, <1>7

LEMMA MeaningIsRead ==
    ASSUME NEW message \in MessageType,
           NEW n, n = InputCount(message), NEW k, k = OutputCount(message),
           NEW tx, tx = TxOfMessage(message)
    PROVE  /\ message.format = 2 =>
                /\ Meaning(message).global = WithDefault("global", GlobalOf(message), "tx_modifiable", <<0>>)
                /\ Meaning(message).inputs = ReadInputs(message, n)
                /\ Meaning(message).outputs = ReadOutputs(message, k)
           /\ message.format = 0 =>
                /\ Meaning(message).global = IntoGlobal(GlobalOf(message), tx)
                /\ Meaning(message).inputs
                      = [i \in 1 .. n |-> IntoInput(ReadInputs(message, n)[i], tx.ins[i])]
                /\ Meaning(message).outputs
                      = [i \in 1 .. k |-> IntoOutput(ReadOutputs(message, k)[i], tx.outs[i])]
           /\ Meaning(message) = [global |-> Meaning(message).global, inputs |-> Meaning(message).inputs,
                                  outputs |-> Meaning(message).outputs]
<1>1. CASE message.format = 2
  <2>1. Meaning(message).inputs = [i \in 1 .. n |-> Entries(MapName("input", message.format), message.maps[1 + i])]
    BY <1>1 DEF Meaning
  <2>2. Meaning(message).outputs = [i \in 1 .. k |->
            WithDefault("output", Entries(MapName("output", message.format), message.maps[1 + n + i]), "script", <<>>)]
    BY <1>1 DEF Meaning
  <2>3. Meaning(message).outputs = ReadOutputs(message, k)
    BY <1>1, <2>2 DEF ReadOutputs
  <2>4. Meaning(message).global = WithDefault("global", GlobalOf(message), "tx_modifiable", <<0>>)
    BY <1>1 DEF Meaning
  <2>. QED  BY <1>1, <2>1, <2>3, <2>4 DEF ReadInputs, Meaning
<1>2. CASE message.format = 0
  <2>1. Meaning(message).inputs = [i \in 1 .. n |->
            IntoInput(Entries(MapName("input", message.format), message.maps[1 + i]), tx.ins[i])]
    BY <1>2 DEF Meaning
  <2>2. Meaning(message).outputs = [i \in 1 .. k |->
            IntoOutput(Entries(MapName("output", message.format), message.maps[1 + n + i]), tx.outs[i])]
    BY <1>2 DEF Meaning
  <2>3. \A i \in 1 .. n : ReadInputs(message, n)[i] = Entries(MapName("input", message.format), message.maps[1 + i])
    BY DEF ReadInputs
  <2>4. \A i \in 1 .. k : ReadOutputs(message, k)[i] = Entries(MapName("output", message.format), message.maps[1 + n + i])
    BY <1>2 DEF ReadOutputs
  <2>5. Meaning(message).global = IntoGlobal(GlobalOf(message), tx)
    BY <1>2 DEF Meaning
  <2>. QED  BY <1>2, <2>1, <2>2, <2>3, <2>4, <2>5 DEF Meaning
<1>3. message.format \in {0, 2}
  BY DEF MessageType
<1>. QED  BY <1>1, <1>2, <1>3

LEMMA ListLengths ==
    ASSUME NEW message, NEW c \in Nat
    PROVE  Len(ReadInputs(message, c)) = c /\ Len(ReadOutputs(message, c)) = c
  BY DEF ReadInputs, ReadOutputs

LEMMA ReadsMore ==
    ASSUME NEW message, NEW c \in Nat, NEW d, d = c + 1
    PROVE  /\ ReadInputs(message, 0) = <<>> /\ ReadOutputs(message, 0) = <<>>
           /\ Append(ReadInputs(message, c), Entries(MapName("input", message.format), message.maps[1 + d]))
                 = ReadInputs(message, d)
<1>1. ReadInputs(message, 0) = <<>> /\ ReadOutputs(message, 0) = <<>>
  BY DEF ReadInputs, ReadOutputs
<1>2. Append(ReadInputs(message, c), Entries(MapName("input", message.format), message.maps[1 + d]))
         = ReadInputs(message, d)
  <2> DEFINE In(i) == Entries(MapName("input", message.format), message.maps[1 + i])
  <2>1. ReadInputs(message, c) = [i \in 1 .. c |-> In(i)] /\ ReadInputs(message, d) = [i \in 1 .. d |-> In(i)]
    BY DEF ReadInputs
  <2> HIDE DEF In
  <2>2. Append([i \in 1 .. c |-> In(i)], In(d)) = [i \in 1 .. d |-> In(i)]
    OBVIOUS
  <2>. QED  BY <2>1, <2>2 DEF In
<1>. QED  BY <1>1, <1>2

OutputMap(message, c) ==
    Entries(MapName("output", message.format), message.maps[1 + InputCount(message) + c])

AsOutput(message, entries) ==
    IF message.format = 2 THEN WithDefault("output", entries, "script", <<>>) ELSE entries

LEMMA ReadsMoreOutputs ==
    ASSUME NEW message, NEW c \in Nat, NEW d \in Nat, d = c + 1,
           NEW output, output = AsOutput(message, OutputMap(message, d))
    PROVE  Append(ReadOutputs(message, c), output) = ReadOutputs(message, d)
<1> DEFINE Out(i) == AsOutput(message, OutputMap(message, i))
<1>1. ReadOutputs(message, c) = [i \in 1 .. c |-> Out(i)] /\ ReadOutputs(message, d) = [i \in 1 .. d |-> Out(i)]
  BY DEF ReadOutputs, AsOutput, OutputMap
<1>2. output = Out(d)
  OBVIOUS
<1> HIDE DEF Out
<1>3. Append([i \in 1 .. c |-> Out(i)], Out(d)) = [i \in 1 .. d |-> Out(i)]
  OBVIOUS
<1>. QED  BY <1>1, <1>2, <1>3

\* A list of version 0, when its maps have their parts of the transaction.
WithInputs(maps, t)  == [i \in DOMAIN maps |-> IntoInput(maps[i], t.ins[i])]
WithOutputs(maps, t) == [i \in DOMAIN maps |-> IntoOutput(maps[i], t.outs[i])]

LEMMA PartsGiven ==
    ASSUME NEW message \in MessageType, message.format = 0,
           NEW n \in Nat, n = InputCount(message), NEW k \in Nat, k = OutputCount(message),
           NEW t, t = TxOfMessage(message)
    PROVE  /\ WithInputs(ReadInputs(message, n), t) = Meaning(message).inputs
           /\ WithOutputs(ReadOutputs(message, k), t) = Meaning(message).outputs
<1>1. DOMAIN ReadInputs(message, n) = 1 .. n /\ DOMAIN ReadOutputs(message, k) = 1 .. k
  BY DEF ReadInputs, ReadOutputs
<1>2. /\ Meaning(message).inputs
            = [i \in 1 .. n |-> IntoInput(ReadInputs(message, n)[i], t.ins[i])]
      /\ Meaning(message).outputs
            = [i \in 1 .. k |-> IntoOutput(ReadOutputs(message, k)[i], t.outs[i])]
  BY MeaningIsRead
<1>. QED  BY <1>1, <1>2 DEF WithInputs, WithOutputs

-----------------------------------------------------------------------------
(* A message that grows *)

Appends(more, s, x) ==
    /\ Len(more) = Len(s) + 1 /\ more[Len(s) + 1] = x
    /\ \A i \in 1 .. Len(s) : more[i] = s[i]

LEMMA AppendIs ==
    ASSUME NEW S, NEW s \in Seq(S), NEW x \in S, NEW more, more = Append(s, x)
    PROVE  more \in Seq(S) /\ Appends(more, s, x) /\ SubSeq(more, 1, Len(s)) = s
  BY DEF Appends

LEMMA SamePoints ==
    ASSUME NEW S, NEW a \in Seq(S), NEW b \in Seq(S), Len(a) = Len(b),
           \A i \in 1 .. Len(a) : a[i] = b[i]
    PROVE  a = b
  OBVIOUS

MessageOf(format, maps) ==
    [format |-> format, magic |-> PSBT_MAGIC, separator |-> PSBT_SEPARATOR, maps |-> maps]

LEMMA MagicType == PSBT_MAGIC \in Seq(Nat) /\ PSBT_SEPARATOR \in Nat /\ <<PSBT_SEPARATOR>> \in Seq(Nat)
  BY DEF PSBT_MAGIC, PSBT_SEPARATOR

LEMMA MessageOfType ==
    ASSUME NEW format \in {0, 2}, NEW maps \in Seq(Seq(PairType))
    PROVE  /\ MessageOf(format, maps) \in MessageType
           /\ MessageOf(format, maps).format = format /\ MessageOf(format, maps).maps = maps
           /\ MessageOf(format, maps).magic = PSBT_MAGIC
           /\ MessageOf(format, maps).separator = PSBT_SEPARATOR
<1>. QED  BY MagicType DEF MessageOf, MessageType

LEMMA FlattenAppend ==
    ASSUME NEW S, NEW seqs \in Seq(Seq(S)), NEW s \in Seq(S)
    PROVE  FlattenSeq(Append(seqs, s)) = FlattenSeq(seqs) \o s
<1>1. PICK n \in Nat : n = Len(seqs)
  OBVIOUS
<1>2. PICK more : more = Append(seqs, s)
  OBVIOUS
<1>3. more \in Seq(Seq(S)) /\ Len(more) = n + 1 /\ more[n + 1] = s /\ SubSeq(more, 1, n) = seqs
  BY <1>1, <1>2, AppendIs DEF Appends
<1>4. n + 1 \in 1 .. Len(more) /\ (n + 1) - 1 = n
  BY <1>3
<1>5. Joined(more, n + 1) = Joined(more, n) \o more[n + 1] /\ Joined(more, Len(more)) = FlattenSeq(more)
  <2>1. \A k \in 1 .. Len(more) : Joined(more, k) = Joined(more, k - 1) \o more[k]
    BY <1>3, JoinedStep
  <2>2. Joined(more, Len(more)) = FlattenSeq(more)
    BY <1>3, JoinedStep
  <2>. QED  BY <1>4, <2>1, <2>2
<1>6. Joined(more, n) = FlattenSeq(seqs)
  BY <1>3 DEF Joined
<1>. QED  BY <1>2, <1>3, <1>5, <1>6

LEMMA PairsAppend ==
    ASSUME NEW pairs \in Seq(PairType), NEW p \in PairType
    PROVE  FlattenSeq(PairSeqs(Append(pairs, p))) = FlattenSeq(PairSeqs(pairs)) \o PairBytes(p)
<1>1. PairSeqs(Append(pairs, p)) = Append(PairSeqs(pairs), PairBytes(p))
  <2>1. PICK n \in Nat : n = Len(pairs)
    OBVIOUS
  <2>2. PICK more : more = Append(pairs, p)
    OBVIOUS
  <2>3. /\ more \in Seq(PairType) /\ Len(more) = n + 1 /\ more[n + 1] = p
        /\ \A i \in 1 .. n : more[i] = pairs[i]
    BY <2>1, <2>2, AppendIs DEF Appends
  <2>4. PICK seqs \in Seq(Seq(Nat)) : seqs = PairSeqs(pairs) /\ Len(seqs) = n
    BY <2>1, MapBytesType
  <2>5. PICK b \in Seq(Nat) : b = PairBytes(p)
    BY PairBytesType
  <2>6. PICK all : all = PairSeqs(more)
    OBVIOUS
  <2>7. all \in Seq(Seq(Nat)) /\ Len(all) = n + 1
    BY <2>3, <2>6, MapBytesType
  <2>8. \A i \in 1 .. n : seqs[i] = PairBytes(pairs[i])
    BY <2>1, <2>4 DEF PairSeqs
  <2>9. \A i \in 1 .. n + 1 : all[i] = PairBytes(more[i])
    BY <2>3, <2>6 DEF PairSeqs
  <2>10. \A i \in 1 .. n + 1 : all[i] = Append(seqs, b)[i]
    <3>1. TAKE i \in 1 .. n + 1
    <3>2. CASE i <= n
      <4>1. i \in 1 .. n
        BY <3>2
      <4>2. Append(seqs, b)[i] = seqs[i]
        BY <2>4, <4>1
      <4>. QED  BY <2>3, <2>8, <2>9, <4>1, <4>2
    <3>3. CASE ~(i <= n)
      <4>1. i = n + 1
        BY <3>3
      <4>2. Append(seqs, b)[n + 1] = b
        BY <2>4
      <4>. QED  BY <2>3, <2>5, <2>9, <4>1, <4>2
    <3>. QED  BY <3>2, <3>3
  <2>11. Append(seqs, b) \in Seq(Seq(Nat)) /\ Len(Append(seqs, b)) = n + 1
    BY <2>4
  <2>12. all = Append(seqs, b)
    BY <2>7, <2>10, <2>11
  <2>. QED  BY <2>2, <2>4, <2>5, <2>6, <2>12
<1>2. PairSeqs(pairs) \in Seq(Seq(Nat)) /\ PairBytes(p) \in Seq(Nat)
  BY MapBytesType, PairBytesType
<1>. QED  BY <1>1, <1>2, FlattenAppend

LEMMA MapsAppend ==
    ASSUME NEW maps \in Seq(Seq(PairType)), NEW pairs \in Seq(PairType)
    PROVE  /\ MapSeqs(maps) \in Seq(Seq(Nat))
           /\ MapSeqs(Append(maps, pairs)) = Append(MapSeqs(maps), MapBytes(pairs))
<1>1. PICK n \in Nat : n = Len(maps)
  OBVIOUS
<1>2. PICK more : more = Append(maps, pairs)
  OBVIOUS
<1>3. /\ more \in Seq(Seq(PairType)) /\ Len(more) = n + 1 /\ more[n + 1] = pairs
      /\ \A i \in 1 .. n : more[i] = maps[i]
  BY <1>1, <1>2, AppendIs DEF Appends
<1>4. ASSUME NEW x \in Seq(Seq(PairType))
      PROVE  /\ MapSeqs(x) \in Seq(Seq(Nat)) /\ Len(MapSeqs(x)) = Len(x)
             /\ \A i \in 1 .. Len(x) : MapSeqs(x)[i] = MapBytes(x[i])
  <2>1. MessageOf(2, x) \in MessageType /\ MessageOf(2, x).maps = x
    BY MessageOfType
  <2>2. MapSeqs(x) \in Seq(Seq(Nat)) /\ Len(MapSeqs(x)) = Len(x)
    BY <2>1, BytesType
  <2>. QED  BY <2>2 DEF MapSeqs
<1>5. PICK seqs \in Seq(Seq(Nat)) : /\ seqs = MapSeqs(maps) /\ Len(seqs) = n
                                    /\ \A i \in 1 .. n : seqs[i] = MapBytes(maps[i])
  BY <1>1, <1>4
<1>6. PICK all \in Seq(Seq(Nat)) : /\ all = MapSeqs(more) /\ Len(all) = n + 1
                                   /\ \A i \in 1 .. n + 1 : all[i] = MapBytes(more[i])
  BY <1>2, <1>3, <1>4
<1>7. PICK b \in Seq(Nat) : b = MapBytes(pairs)
  BY MapBytesType
<1>8. \A i \in 1 .. n + 1 : all[i] = Append(seqs, b)[i]
  <2>1. TAKE i \in 1 .. n + 1
  <2>2. CASE i <= n
    <3>1. i \in 1 .. n
      BY <2>2
    <3>2. Append(seqs, b)[i] = seqs[i]
      BY <1>5, <3>1
    <3>. QED  BY <1>3, <1>5, <1>6, <3>1, <3>2
  <2>3. CASE ~(i <= n)
    <3>1. i = n + 1
      BY <2>3
    <3>2. Append(seqs, b)[n + 1] = b
      BY <1>5
    <3>. QED  BY <1>3, <1>6, <1>7, <3>1, <3>2
  <2>. QED  BY <2>2, <2>3
<1>9. Append(seqs, b) \in Seq(Seq(Nat)) /\ Len(Append(seqs, b)) = n + 1
  BY <1>5
<1>10. all = Append(seqs, b)
  BY <1>6, <1>8, <1>9
<1>. QED  BY <1>2, <1>5, <1>6, <1>7, <1>10

LEMMA BytesAppend ==
    ASSUME NEW format \in {0, 2}, NEW maps \in Seq(Seq(PairType)), NEW pairs \in Seq(PairType)
    PROVE  Bytes(MessageOf(format, Append(maps, pairs)))
              = (Bytes(MessageOf(format, maps)) \o FlattenSeq(PairSeqs(pairs))) \o <<EndOfMap>>
<1>1. Append(maps, pairs) \in Seq(Seq(PairType))
  OBVIOUS
<1>2. /\ MessageOf(format, maps) \in MessageType
      /\ MessageOf(format, maps).maps = maps
      /\ MessageOf(format, maps).magic = PSBT_MAGIC
      /\ MessageOf(format, maps).separator = PSBT_SEPARATOR
  BY MessageOfType
<1>3. /\ MessageOf(format, Append(maps, pairs)) \in MessageType
      /\ MessageOf(format, Append(maps, pairs)).maps = Append(maps, pairs)
      /\ MessageOf(format, Append(maps, pairs)).magic = PSBT_MAGIC
      /\ MessageOf(format, Append(maps, pairs)).separator = PSBT_SEPARATOR
  BY <1>1, MessageOfType
<1>4. PSBT_MAGIC \o <<PSBT_SEPARATOR>> \in Seq(Nat)
  BY MagicType, Concat
<1>5. PICK head \in Seq(Nat) : head = PSBT_MAGIC \o <<PSBT_SEPARATOR>>
  BY <1>4
<1>6. PICK seqs \in Seq(Seq(Nat)) : /\ seqs = MapSeqs(maps)
                                    /\ MapSeqs(Append(maps, pairs)) = Append(seqs, MapBytes(pairs))
  BY MapsAppend
<1>7. PICK body \in Seq(Nat) : body = FlattenSeq(PairSeqs(pairs)) /\ MapBytes(pairs) = body \o <<EndOfMap>>
  BY MapBytesType
<1>8. PICK all \in Seq(Nat) : all = FlattenSeq(seqs)
  BY FlattenType
<1>9. FlattenSeq(Append(seqs, MapBytes(pairs))) = all \o (body \o <<EndOfMap>>)
  <2>1. MapBytes(pairs) \in Seq(Nat)
    BY MapBytesType
  <2>. QED  BY <1>7, <1>8, <2>1, FlattenAppend
<1>10. Bytes(MessageOf(format, maps)) = head \o all
  BY <1>2, <1>5, <1>6, <1>8, BytesType
<1>11. Bytes(MessageOf(format, Append(maps, pairs))) = head \o (all \o (body \o <<EndOfMap>>))
  BY <1>3, <1>5, <1>6, <1>9, BytesType
<1>12. head \o (all \o (body \o <<EndOfMap>>)) = ((head \o all) \o body) \o <<EndOfMap>>
  <2>1. PICK e \in Seq(Nat) : e = <<EndOfMap>>
    <3>1. EndOfMap \in Nat
      BY DEF EndOfMap
    <3>2. <<EndOfMap>> \in Seq(Nat)
      BY <3>1
    <3>. QED  BY <3>2
  <2>2. all \o body \in Seq(Nat)
    BY Concat
  <2>3. Associates(all, body, e) /\ Associates(head, all \o body, e) /\ Associates(head, all, body)
    BY <2>2, ConcatAssociates
  <2>. QED  BY <2>1, <2>3 DEF Associates
<1>. QED  BY <1>7, <1>10, <1>11, <1>12

LEMMA NoMapBytes ==
    ASSUME NEW format \in {0, 2}
    PROVE  Bytes(MessageOf(format, <<>>)) = PSBT_MAGIC \o <<PSBT_SEPARATOR>>
<1>1. PICK none : none = <<>>
  OBVIOUS
<1>2. none \in Seq(Seq(PairType))
  BY <1>1
<1>3. MessageOf(format, <<>>) \in MessageType /\ MessageOf(format, <<>>).maps = <<>>
        /\ MessageOf(format, <<>>).magic = PSBT_MAGIC /\ MessageOf(format, <<>>).separator = PSBT_SEPARATOR
  BY <1>1, <1>2, MessageOfType
<1>4. MapSeqs(<<>>) = <<>>
  BY DEF MapSeqs
<1>5. FlattenSeq(<<>>) = <<>>
  BY DEF FlattenSeq
<1>6. PSBT_MAGIC \o <<PSBT_SEPARATOR>> \in Seq(Nat)
  BY MagicType, Concat
<1>7. PICK head \in Seq(Nat) : head = PSBT_MAGIC \o <<PSBT_SEPARATOR>>
  BY <1>6
<1>8. Bytes(MessageOf(format, <<>>)) = head \o <<>>
  BY <1>3, <1>4, <1>5, <1>7, BytesType
<1>. QED  BY <1>7, <1>8

LEMMA StandsJoined ==
    ASSUME NEW S, NEW a \in Seq(S), NEW b \in Seq(S), NEW s \in Seq(S),
           Stands(a, s, 0), Stands(b, s, Len(a))
    PROVE  Stands(a \o b, s, 0)
<1>1. Len(a \o b) = Len(a) + Len(b)
  OBVIOUS
<1>2. ASSUME NEW i \in 1 .. Len(a \o b) PROVE s[0 + i] = (a \o b)[i]
  <2>1. CASE i <= Len(a)
    BY <1>1, <2>1 DEF Stands
  <2>2. CASE ~(i <= Len(a))
    <3>1. PICK k \in 1 .. Len(b) : i = Len(a) + k
      <4>1. i - Len(a) \in 1 .. Len(b) /\ i = Len(a) + (i - Len(a))
        BY <1>1, <2>2
      <4>. QED  BY <4>1
    <3>2. (a \o b)[i] = b[k]
      BY <3>1
    <3>3. s[Len(a) + k] = b[k]
      BY DEF Stands
    <3>. QED  BY <3>1, <3>2, <3>3
  <2>. QED  BY <2>1, <2>2
<1>3. 0 + Len(a \o b) <= Len(s)
  BY <1>1 DEF Stands
<1>. QED  BY <1>2, <1>3 DEF Stands

KeyType == [type : Nat, data : Seq(Nat)]

PairOf(key, value) ==
    [type |-> key.type, data |-> key.data, len |-> Len(value), value |-> value]

LEMMA KeyItemType ==
    ASSUME NEW key \in KeyType
    PROVE  KeyItem(key) \in Seq(Nat)
<1>1. PICK data \in Seq(Nat), type \in Nat : data = key.data /\ type = key.type
  BY DEF KeyType
<1>2. PICK x \in Nat : x = 1 + Len(data)
  BY <1>1
<1>3. <<x, type>> \in Seq(Nat)
  OBVIOUS
<1>. QED  BY <1>1, <1>2, <1>3 DEF KeyItem

LEMMA KeyItemIs ==
    ASSUME NEW item \in Seq(Nat), NEW n \in Nat, n = Len(item), n >= 2, item[1] = n - 1,
           NEW key, key = [type |-> item[2], data |-> SubSeq(item, 3, Len(item))]
    PROVE  key \in KeyType /\ KeyItem(key) = item
<1>1. item[1] \in Nat /\ item[2] \in Nat
  <2>1. 1 \in 1 .. Len(item) /\ 2 \in 1 .. Len(item)
    OBVIOUS
  <2>. QED  BY <2>1
<1>2. PICK data : data = SubSeq(item, 3, n)
  OBVIOUS
<1>3. data \in Seq(Nat) /\ Len(data) = n - 2 /\ \A i \in 1 .. n - 2 : data[i] = item[2 + i]
  <2>1. 3 <= n + 1 /\ n <= Len(item) /\ 3 \in Nat
    OBVIOUS
  <2>2. data \in Seq(Nat)
    BY <1>2
  <2>3. Len(data) = n - 2
    BY <1>2
  <2>4. \A i \in 1 .. n - 2 : data[i] = item[2 + i]
    BY <1>2, <2>1
  <2>. QED  BY <2>2, <2>3, <2>4
<1>4. key.type = item[2] /\ key.data = data
  BY <1>2
<1>5. PICK x \in Nat : x = item[1]
  BY <1>1
<1>6. PICK y \in Nat : y = item[2]
  BY <1>1
<1>7. x = 1 + Len(data) /\ x = n - 1
  BY <1>3, <1>5
<1>8. PICK front : front = <<x, y>>
  OBVIOUS
<1>9. front \in Seq(Nat) /\ Len(front) = 2 /\ front[1] = x /\ front[2] = y
  BY <1>8
<1>10. KeyItem(key) = front \o data
  BY <1>4, <1>6, <1>7, <1>8 DEF KeyItem
<1>11. PICK whole : whole = front \o data
  OBVIOUS
<1>12. whole \in Seq(Nat) /\ Len(whole) = n /\ whole[1] = x /\ whole[2] = y
         /\ \A i \in 1 .. n - 2 : whole[2 + i] = data[i]
  <2>1. /\ whole \in Seq(Nat) /\ Len(whole) = Len(front) + Len(data)
        /\ \A i \in 1 .. Len(front) : whole[i] = front[i]
        /\ \A i \in 1 .. Len(data) : whole[Len(front) + i] = data[i]
    <3>1. front \in Seq(Nat) /\ data \in Seq(Nat)
      BY <1>3, <1>9
    <3>2. /\ front \o data \in Seq(Nat) /\ Len(front \o data) = Len(front) + Len(data)
          /\ \A i \in 1 .. Len(front) : (front \o data)[i] = front[i]
          /\ \A i \in 1 .. Len(data) : (front \o data)[Len(front) + i] = data[i]
      BY <3>1, Concat
    <3>. QED  BY <3>2, <1>11
  <2>. QED  BY <1>3, <1>9, <2>1
<1>13. \A i \in 1 .. Len(item) : whole[i] = item[i]
  <2>1. TAKE i \in 1 .. Len(item)
  <2>2. CASE i \in {1, 2}
    BY <1>5, <1>6, <1>12, <2>2
  <2>3. CASE i \notin {1, 2}
    <3>1. PICK k \in 1 .. n - 2 : i = 2 + k
      <4>1. i - 2 \in 1 .. n - 2 /\ i = 2 + (i - 2)
        BY <2>3
      <4>. QED  BY <4>1
    <3>. QED  BY <1>3, <1>12, <3>1
  <2>. QED  BY <2>2, <2>3
<1>14. whole = item
  BY <1>12, <1>13, SamePoints
<1>15. key \in KeyType
  BY <1>1, <1>2, <1>3 DEF KeyType
<1>. QED  BY <1>10, <1>11, <1>14, <1>15

LEMMA PairOfKey ==
    ASSUME NEW key \in KeyType, NEW value \in Seq(Nat)
    PROVE  /\ PairOf(key, value) \in PairType
           /\ PairOf(key, value).type = key.type /\ PairOf(key, value).data = key.data
           /\ PairOf(key, value).value = value /\ PairOf(key, value).len = Len(value)
           /\ PairBytes(PairOf(key, value)) = (KeyItem(key) \o <<Len(value)>>) \o value
<1>1. PairOf(key, value) \in PairType
  BY DEF PairOf, PairType, KeyType
<1>2. PICK item \in Seq(Nat) : item = KeyItem(key)
  BY KeyItemType
<1>. QED  BY <1>1, <1>2 DEF PairOf, PairBytes, KeyItem

-----------------------------------------------------------------------------
(* What was taken as a value *)

LEMMA FirstPart ==
    ASSUME NEW S, NEW seen \in Seq(S), NEW n \in Nat, n <= Len(seen),
           NEW item, item = SubSeq(seen, 1, n)
    PROVE  item \in Seq(S) /\ Len(item) = n /\ \A i \in 1 .. n : item[i] = seen[i]
  OBVIOUS

FramedItem(field, seen, n, item) ==
    n = InnerSize(field, seen) /\ n <= Len(seen) /\ item = SubSeq(seen, 1, n)

UnframedItem(field, seen, n, item) ==
    n = BehindLength(field, seen) /\ n <= Len(seen) /\ item = SubSeq(seen, 1, n)

LEMMA FramedTaken ==
    ASSUME NEW field, NEW seen \in Seq(Nat), NEW n, NEW item, FramedItem(field, seen, n, item)
    PROVE  item \in Seq(Nat) /\ Len(item) = n /\ Len(item) = InnerSize(field, item)
<1>1. n = InnerSize(field, seen) /\ n <= Len(seen) /\ item = SubSeq(seen, 1, n)
  BY DEF FramedItem
<1>2. n \in Nat
  BY <1>1, InnerSizePositive
<1>3. item \in Seq(Nat) /\ Len(item) = n /\ \A i \in 1 .. n : item[i] = seen[i]
  BY <1>1, <1>2, FirstPart
<1>4. Prefix(item, seen)
  BY <1>1, <1>3 DEF Prefix
<1>5. InnerSize(field, item) \in Nat /\ Steady(item, InnerSize(field, item), InnerSize(field, seen))
  BY <1>3, <1>4, InnerSizeSteady
<1>. QED  BY <1>1, <1>2, <1>3, <1>5 DEF Steady

LEMMA OriginTaken ==
    ASSUME NEW seen \in Seq(Nat), NEW n, n = OriginSize(seen), n <= Len(seen),
           NEW item, item = SubSeq(seen, 1, n), OriginDone(item, LastPart[item])
    PROVE  /\ item \in Seq(Nat) /\ Len(item) = n /\ n >= 2 /\ item[1] = n - 1
           /\ OriginDecodes(Tail(item))
<1>1. FixedSize \in Nat /\ FixedSize >= 1 /\ n \in Nat
  BY SizeAssumption, OriginSizeType
<1>2. Len(seen) >= 2
  BY DEF OriginSize
<1>3. PICK last \in Nat : last = LastPart[seen]
  BY <1>2, LastPartStops
<1>4. last * FixedSize \in Nat
  BY <1>1
<1>5. n = 2 + last * FixedSize /\ n >= 2
  BY <1>1, <1>2, <1>3, <1>4, SMTT(20) DEF OriginSize, PartEnd
<1>6. item \in Seq(Nat) /\ Len(item) = n /\ \A i \in 1 .. n : item[i] = seen[i]
  BY <1>1, FirstPart
<1>7. item[1] = seen[1] /\ item[2] = seen[2]
  BY <1>5, <1>6
<1>8. PrefixedSize(item) = PrefixedSize(seen) /\ PrefixedSize(item) = 1 + item[1] /\ item[1] \in Nat
  <2>1. item # <<>> /\ seen # <<>>
    BY <1>2, <1>5, <1>6
  <2>2. 1 \in 1 .. Len(seen)
    BY <1>2
  <2>3. seen[1] \in Nat
    BY <2>2
  <2>. QED  BY <1>7, <2>1, <2>3 DEF PrefixedSize
<1>9. \A i : Stops(item, i) <=> Stops(seen, i)
  BY <1>7, <1>8 DEF Stops, OriginDone, OriginOverrun
<1>10. PICK k \in Nat : k = LastPart[item]
  BY <1>5, <1>6, LastPartStops
<1>11. /\ Stops(seen, last) /\ \A j \in 0 .. last - 1 : ~Stops(seen, j)
       /\ Stops(item, k) /\ \A j \in 0 .. k - 1 : ~Stops(item, j)
  BY <1>2, <1>3, <1>5, <1>6, <1>10, LastPartStops
<1>12. k = last
  <2>1. ~(k < last)
    <3>. SUFFICES ASSUME k < last PROVE FALSE
      OBVIOUS
    <3>1. k \in 0 .. last - 1
      OBVIOUS
    <3>. QED  BY <1>9, <1>11, <3>1
  <2>2. ~(last < k)
    <3>. SUFFICES ASSUME last < k PROVE FALSE
      OBVIOUS
    <3>1. last \in 0 .. k - 1
      OBVIOUS
    <3>. QED  BY <1>9, <1>11, <3>1
  <2>. QED  BY <2>1, <2>2
<1>13. last > item[2] /\ 2 + last * FixedSize = 1 + item[1]
  BY <1>8, <1>10, <1>12 DEF OriginDone, PartEnd
<1>14. item[1] = n - 1
  BY <1>4, <1>5, <1>8, <1>13, SMTT(20)
<1>15. PICK value : value = Tail(item)
  OBVIOUS
<1>16. value \in Seq(Nat) /\ Len(value) = n - 1 /\ value[1] = item[2]
  <2>1. Len(item) = n /\ n >= 2 /\ item \in Seq(Nat)
    BY <1>5, <1>6
  <2>2. value \in Seq(Nat) /\ Len(value) = n - 1 /\ \A i \in 1 .. n - 1 : value[i] = item[1 + i]
    BY <1>1, <1>15, <2>1
  <2>3. PICK m \in Nat : m = n - 1
    BY <1>1, <2>1
  <2>4. value[1] = item[1 + 1]
    BY <1>1, <2>1, <2>2
  <2>5. 1 + 1 = 2
    OBVIOUS
  <2>. QED  BY <2>2, <2>4, <2>5
<1>17. PICK rest \in Nat : rest = last * FixedSize
  BY <1>4
<1>18. rest % FixedSize = 0 /\ rest \div FixedSize = last
  BY <1>1, <1>17
<1>19. Len(value) - 1 = rest /\ value # <<>>
  BY <1>5, <1>16, <1>17
<1>20. OriginDecodes(value)
  BY <1>13, <1>16, <1>18, <1>19 DEF OriginDecodes
<1>. QED  BY <1>5, <1>6, <1>14, <1>15, <1>20

LEMMA UnframedTaken ==
    ASSUME NEW field, NEW seen \in Seq(Nat), NEW n, NEW item, UnframedItem(field, seen, n, item),
           ~Overruns(field, item), ~LengthRefused(field, item[1])
    PROVE  /\ item \in Seq(Nat) /\ Len(item) = n /\ n >= 1 /\ item[1] = n - 1
           /\ field = "tap_bip32_derivation" => OriginDecodes(Tail(item))
<1>1. n = BehindLength(field, seen) /\ n <= Len(seen) /\ item = SubSeq(seen, 1, n)
  BY DEF UnframedItem
<1>2. CASE field = "tap_bip32_derivation"
  <2>1. n = OriginSize(seen) /\ OriginDone(item, LastPart[item])
    BY <1>1, <1>2 DEF BehindLength, Overruns
  <2>2. /\ item \in Seq(Nat) /\ Len(item) = n /\ n >= 2 /\ item[1] = n - 1
        /\ OriginDecodes(Tail(item))
    BY <1>1, <2>1, OriginTaken
  <2>3. n \in Nat
    BY <2>1, OriginSizeType
  <2>. QED  BY <1>2, <2>2, <2>3
<1>3. CASE field # "tap_bip32_derivation"
  <2>1. n = IF seen # <<>> /\ LengthRefused(field, seen[1]) THEN 1 ELSE PrefixedSize(seen)
    BY <1>1, <1>3 DEF BehindLength
  <2>2. seen # <<>>
    BY <1>1, <2>1 DEF PrefixedSize
  <2>3. Len(seen) >= 1 /\ seen[1] \in Nat
    BY <2>2
  <2>4. n \in Nat /\ n >= 1
    BY <2>1, <2>2, <2>3 DEF PrefixedSize
  <2>5. item \in Seq(Nat) /\ Len(item) = n /\ \A i \in 1 .. n : item[i] = seen[i]
    BY <1>1, <2>4, FirstPart
  <2>6. item[1] = seen[1]
    BY <2>4, <2>5
  <2>7. n = 1 + seen[1]
    BY <2>1, <2>2, <2>6 DEF PrefixedSize
  <2>8. item[1] = n - 1
    BY <2>3, <2>6, <2>7
  <2>. QED  BY <1>3, <2>4, <2>5, <2>8
<1>. QED  BY <1>2, <1>3

\* An item behind its length.
LEMMA BehindItsLength ==
    ASSUME NEW item \in Seq(Nat), NEW n \in Nat, Len(item) = n, n >= 1, item[1] = n - 1,
           NEW value, value = Tail(item)
    PROVE  value \in Seq(Nat) /\ Len(value) = item[1] /\ item = <<Len(value)>> \o value
<1>1. value \in Seq(Nat) /\ Len(value) = n - 1 /\ \A i \in 1 .. n - 1 : value[i] = item[1 + i]
  OBVIOUS
<1>2. PICK len \in Nat : len = n - 1
  OBVIOUS
<1>3. PICK length : length = <<len>>
  OBVIOUS
<1>4. length \in Seq(Nat) /\ Len(length) = 1 /\ length[1] = len
  BY <1>3
<1>5. PICK whole : whole = length \o value
  OBVIOUS
<1>6. /\ whole \in Seq(Nat) /\ Len(whole) = n /\ whole[1] = len
      /\ \A i \in 1 .. n - 1 : whole[1 + i] = value[i]
  <2>1. value \in Seq(Nat)
    BY <1>1
  <2>2. length \in Seq(Nat)
    BY <1>4
  <2>3. /\ length \o value \in Seq(Nat) /\ Len(length \o value) = Len(length) + Len(value)
        /\ \A i \in 1 .. Len(length) : (length \o value)[i] = length[i]
        /\ \A i \in 1 .. Len(value) : (length \o value)[Len(length) + i] = value[i]
    BY <2>1, <2>2, Concat
  <2>4. Len(value) = n - 1 /\ Len(length) = 1 /\ 1 \in 1 .. Len(length)
    BY <1>1, <1>4
  <2>. QED  BY <1>4, <1>5, <2>3, <2>4
<1>7. ASSUME NEW i \in 1 .. Len(whole) PROVE whole[i] = item[i]
  <2>1. CASE i = 1
    BY <1>2, <1>6, <2>1
  <2>2. CASE i # 1
    <3>1. PICK k \in 1 .. n - 1 : i = 1 + k
      <4>1. i - 1 \in 1 .. n - 1 /\ i = 1 + (i - 1)
        BY <1>6, <2>2
      <4>. QED  BY <4>1
    <3>. QED  BY <1>1, <1>6, <3>1
  <2>. QED  BY <2>1, <2>2
<1>8. whole = item
  BY <1>6, <1>7, SamePoints
<1>. QED  BY <1>1, <1>2, <1>3, <1>5, <1>8

LEMMA FramedLengths ==
    ASSUME NEW map \in MapNames, NEW f \in Framed[map], NEW length
    PROVE  ~LengthRefused(f, length) /\ f # "tap_bip32_derivation"
<1>1. f \notin {"partial_sig", "tap_key_sig", "tap_script_sig", "xpub", "bip32_derivation",
                "tap_bip32_derivation"}
  BY DEF Framed, MapNames, GlobalFramed, InputFramed, OutputFramed,
         GlobalFramed0, InputFramed0, OutputFramed0
<1>. QED  BY <1>1 DEF LengthRefused

-----------------------------------------------------------------------------
(* A map that grows *)

\* No entry has the key of this one.
NewKey(entries, e) ==
    \A x \in entries : ~(x.field = e.field /\ x.type = e.type /\ x.data = e.data)

LEMMA EntriesOfMore ==
    ASSUME NEW map, NEW pairs \in Seq(PairType), NEW p, NEW more \in Seq(PairType),
           Appends(more, pairs, p)
    PROVE  Entries(map, more) = Entries(map, pairs) \union {EntryAt(map, p)}
<1>1. PICK n \in Nat : n = Len(pairs)
  OBVIOUS
<1>2. Len(more) = n + 1 /\ more[n + 1] = p /\ \A i \in 1 .. n : more[i] = pairs[i]
  BY <1>1 DEF Appends
<1>3. n \in 0 .. Len(more) - 1
  BY <1>2
<1>4. Entries(map, more) = EntriesTo(map, more, n + 1)
  BY <1>2, EntriesGrow
<1>5. EntriesTo(map, more, n + 1) = EntriesTo(map, more, n) \union {EntryAt(map, more[n + 1])}
  BY <1>3, EntriesNext
<1>6. EntriesTo(map, more, n) = Entries(map, pairs)
  BY <1>1, <1>2 DEF EntriesTo, Entries, EntryAt
<1>. QED  BY <1>2, <1>4, <1>5, <1>6

LEMMA KeysStillDiffer ==
    ASSUME NEW map, NEW pairs \in Seq(PairType), KeysDiffer(map, pairs), NEW p \in PairType,
           NewKey(Entries(map, pairs), EntryAt(map, p)), NEW more, more = Append(pairs, p)
    PROVE  KeysDiffer(map, more)
<1>1. PICK n \in Nat : n = Len(pairs)
  OBVIOUS
<1>2. more \in Seq(PairType) /\ Len(more) = n + 1 /\ more[n + 1] = p /\ \A i \in 1 .. n : more[i] = pairs[i]
  BY <1>1, AppendIs DEF Appends
<1>. DEFINE K(q) == EntryOf(map, q.type, q.data, <<>>)
<1>3. ASSUME NEW i \in 1 .. n PROVE K(pairs[i]) # K(p)
  <2>1. EntryAt(map, pairs[i]) \in Entries(map, pairs)
    BY <1>1 DEF Entries, EntryAt
  <2>3. PICK q : q = pairs[i]
    OBVIOUS
  <2>2. /\ \A x : K(x).field = EntryAt(map, x).field
        /\ \A x : K(x).type = EntryAt(map, x).type
        /\ \A x : K(x).data = EntryAt(map, x).data
    BY EntryParts DEF EntryAt
  <2>4. ~(/\ EntryAt(map, q).field = EntryAt(map, p).field
          /\ EntryAt(map, q).type = EntryAt(map, p).type
          /\ EntryAt(map, q).data = EntryAt(map, p).data)
    BY <2>1, <2>3 DEF NewKey
  <2>. HIDE DEF K
  <2>5. K(q) # K(p)
    BY <2>2, <2>4
  <2>. QED  BY <2>3, <2>5
<1>4. \A i, j \in 1 .. n : K(pairs[i]) = K(pairs[j]) => i = j
  BY <1>1 DEF KeysDiffer
<1>5. ASSUME NEW i \in 1 .. n + 1, NEW j \in 1 .. n + 1, K(more[i]) = K(more[j]) PROVE i = j
  <2>. HIDE DEF K
  <2>1. CASE i \in 1 .. n /\ j \in 1 .. n
    BY <1>2, <1>4, <1>5, <2>1
  <2>2. CASE i = n + 1 /\ j \in 1 .. n
    BY <1>2, <1>3, <1>5, <2>2
  <2>3. CASE i \in 1 .. n /\ j = n + 1
    BY <1>2, <1>3, <1>5, <2>3
  <2>4. CASE i = n + 1 /\ j = n + 1
    BY <2>4
  <2>. QED  BY <2>1, <2>2, <2>3, <2>4
<1>. QED  BY <1>2, <1>5 DEF KeysDiffer

PairsOk(map, pairs) == \A i \in 1 .. Len(pairs) : PairOk(map, pairs[i])

LEMMA PairsStillOk ==
    ASSUME NEW map, NEW pairs \in Seq(PairType), PairsOk(map, pairs), NEW p \in PairType,
           PairOk(map, p), NEW more, more = Append(pairs, p)
    PROVE  PairsOk(map, more)
<1>1. PICK n \in Nat : n = Len(pairs)
  OBVIOUS
<1>2. more \in Seq(PairType) /\ Len(more) = n + 1 /\ more[n + 1] = p /\ \A i \in 1 .. n : more[i] = pairs[i]
  BY <1>1, AppendIs DEF Appends
<1>3. ASSUME NEW i \in 1 .. n + 1 PROVE PairOk(map, more[i])
  <2>1. CASE i \in 1 .. n
    BY <1>1, <1>2, <2>1 DEF PairsOk
  <2>2. CASE i = n + 1
    BY <1>2, <2>2
  <2>3. i \in 1 .. n \/ i = n + 1
    OBVIOUS
  <2>. QED  BY <2>1, <2>2, <2>3
<1>. QED  BY <1>2, <1>3 DEF PairsOk

-----------------------------------------------------------------------------
(* A message with more maps *)

Grows(a, b) ==
    /\ a.format = b.format
    /\ Len(a.maps) >= 1 /\ Len(a.maps) <= Len(b.maps)
    /\ \A i \in 1 .. Len(a.maps) : b.maps[i] = a.maps[i]

LEMMA MeaningOf0 ==
    ASSUME NEW m \in MessageType, m.format = 0
    PROVE  /\ Meaning(m).global = IntoGlobal(GlobalOf(m), TxOfMessage(m))
           /\ Meaning(m).inputs = WithInputs(ReadInputs(m, InputCount(m)), TxOfMessage(m))
<1>1. Meaning(m).global = IntoGlobal(GlobalOf(m), TxOfMessage(m))
  BY DEF Meaning
<1>2. Meaning(m).inputs = [i \in 1 .. InputCount(m) |->
          IntoInput(Entries(MapName("input", m.format), m.maps[1 + i]), TxOfMessage(m).ins[i])]
  BY DEF Meaning
<1>. QED  BY <1>1, <1>2 DEF ReadInputs, WithInputs

LEMMA SameGlobal ==
    ASSUME NEW a \in MessageType, NEW b \in MessageType, Grows(a, b)
    PROVE  /\ GlobalOf(b) = GlobalOf(a) /\ TxOfMessage(b) = TxOfMessage(a)
           /\ InputCount(b) = InputCount(a) /\ OutputCount(b) = OutputCount(a)
           /\ Meaning(b).global = Meaning(a).global
           /\ \A i : NameAt(b, i) = NameAt(a, i)
<1>1. a.format = b.format /\ a.maps \in Seq(Seq(PairType)) /\ a.format \in {0, 2}
  BY DEF Grows, MessageType
<1>2. b.maps[1] = a.maps[1]
  <2>1. 1 \in 1 .. Len(a.maps)
    BY <1>1 DEF Grows
  <2>. QED  BY <2>1 DEF Grows
<1>3. GlobalOf(b) = GlobalOf(a)
  BY <1>1, <1>2 DEF GlobalOf
<1>4. TxOfMessage(b) = TxOfMessage(a)
  BY <1>3 DEF TxOfMessage
<1>5. InputCount(b) = InputCount(a) /\ OutputCount(b) = OutputCount(a)
  BY <1>1, <1>3, <1>4 DEF InputCount, OutputCount
<1>6. Meaning(b).global = Meaning(a).global
  <2>1. CASE a.format = 2
    BY <1>1, <1>3, <2>1, MeaningIsRead
  <2>2. CASE a.format = 0
    <3>1. PICK tx : tx = TxOfMessage(a)
      OBVIOUS
    <3>3. PICK global : global = GlobalOf(a)
      OBVIOUS
    <3>4. Meaning(a).global = IntoGlobal(global, tx)
      BY <2>2, <3>1, <3>3, MeaningOf0
    <3>5. tx = TxOfMessage(b) /\ global = GlobalOf(b) /\ b.format = 0
      BY <1>1, <1>3, <1>4, <2>2, <3>1, <3>3
    <3>6. Meaning(b).global = IntoGlobal(global, tx)
      BY <3>5, MeaningOf0
    <3>. QED  BY <3>4, <3>6
  <2>. QED  BY <1>1, <2>1, <2>2
<1>7. \A i : NameAt(b, i) = NameAt(a, i)
  BY <1>1, <1>5 DEF NameAt
<1>. QED  BY <1>3, <1>4, <1>5, <1>6, <1>7

LEMMA SameInputs ==
    ASSUME NEW a \in MessageType, NEW b \in MessageType, Grows(a, b),
           NEW c \in Nat, 1 + c <= Len(a.maps)
    PROVE  ReadInputs(b, c) = ReadInputs(a, c)
<1>1. ASSUME NEW i \in 1 .. c PROVE b.maps[1 + i] = a.maps[1 + i]
  <2>1. 1 + i \in 1 .. Len(a.maps)
    <3>1. Len(a.maps) \in Nat
      BY DEF MessageType
    <3>. QED  BY <3>1
  <2>. QED  BY <2>1 DEF Grows
<1>. QED  BY <1>1 DEF ReadInputs, Grows

LEMMA SameOutputs ==
    ASSUME NEW a \in MessageType, NEW b \in MessageType, Grows(a, b),
           NEW n \in Nat, n = InputCount(a), NEW c \in Nat, 1 + n + c <= Len(a.maps)
    PROVE  ReadOutputs(b, c) = ReadOutputs(a, c)
<1>1. InputCount(b) = n /\ InputCount(a) = n /\ a.format = b.format
  BY SameGlobal DEF Grows
<1>2. ASSUME NEW i \in 1 .. c PROVE b.maps[1 + n + i] = a.maps[1 + n + i]
  <2>1. 1 + n + i \in 1 .. Len(a.maps)
    <3>1. Len(a.maps) \in Nat
      BY DEF MessageType
    <3>. QED  BY <3>1
  <2>. QED  BY <2>1 DEF Grows
<1>3. \A i \in 1 .. c : AsOutput(b, OutputMap(b, i)) = AsOutput(a, OutputMap(a, i))
  BY <1>1, <1>2 DEF AsOutput, OutputMap
<1>4. /\ ReadOutputs(a, c) = [i \in 1 .. c |-> AsOutput(a, OutputMap(a, i))]
      /\ ReadOutputs(b, c) = [i \in 1 .. c |-> AsOutput(b, OutputMap(b, i))]
  BY DEF ReadOutputs, AsOutput, OutputMap
<1>. QED  BY <1>3, <1>4

LEMMA SameInputsMeant ==
    ASSUME NEW a \in MessageType, NEW b \in MessageType, Grows(a, b),
           NEW n \in Nat, n = InputCount(a), 1 + n <= Len(a.maps)
    PROVE  Meaning(b).inputs = Meaning(a).inputs
<1>1. ReadInputs(b, n) = ReadInputs(a, n)
  BY SameInputs
<1>2. InputCount(b) = n /\ a.format = b.format /\ a.format \in {0, 2}
  BY SameGlobal DEF Grows, MessageType
<1>3. PICK t : t = TxOfMessage(a)
  OBVIOUS
<1>4. t = TxOfMessage(b)
  BY <1>3, SameGlobal
<1>5. CASE a.format = 2
  <2>1. Meaning(a).inputs = ReadInputs(a, n) /\ Meaning(b).inputs = ReadInputs(b, n)
    BY <1>2, <1>5, MeaningIsRead
  <2>. QED  BY <1>1, <2>1
<1>6. CASE a.format = 0
  <2>1. Meaning(a).inputs = WithInputs(ReadInputs(a, n), t)
    BY <1>3, <1>6, MeaningOf0
  <2>2. Meaning(b).inputs = WithInputs(ReadInputs(b, n), t)
    BY <1>2, <1>6, <1>4, MeaningOf0
  <2>. QED  BY <1>1, <2>1, <2>2
<1>. QED  BY <1>2, <1>5, <1>6

\* All the maps of a message are ones of their kind.
MapsOk(m) == \A i \in 1 .. Len(m.maps) : MapOk(NameAt(m, i), m.maps[i])

LEMMA MapsStillOk ==
    ASSUME NEW a \in MessageType, NEW b \in MessageType, a.maps # <<>> => Grows(a, b),
           NEW pairs, Appends(b.maps, a.maps, pairs), MapsOk(a),
           MapOk(NameAt(b, Len(a.maps) + 1), pairs)
    PROVE  MapsOk(b)
<1>1. PICK n \in Nat : n = Len(a.maps)
  BY DEF MessageType
<1>2. Len(b.maps) = n + 1 /\ b.maps[n + 1] = pairs /\ \A i \in 1 .. n : b.maps[i] = a.maps[i]
  BY <1>1 DEF Appends
<1>3. ASSUME NEW i \in 1 .. n + 1 PROVE MapOk(NameAt(b, i), b.maps[i])
  <2>1. CASE i \in 1 .. n
    <3>1. a.maps # <<>>
      BY <1>1, <2>1
    <3>2. NameAt(b, i) = NameAt(a, i)
      BY <3>1, SameGlobal
    <3>. QED  BY <1>1, <1>2, <2>1, <3>2 DEF MapsOk
  <2>2. CASE i = n + 1
    BY <1>1, <1>2, <2>2
  <2>3. i \in 1 .. n \/ i = n + 1
    OBVIOUS
  <2>. QED  BY <2>1, <2>2, <2>3
<1>. QED  BY <1>2, <1>3 DEF MapsOk

\* A map of no output of version 2 needs its count to be known.
HasGlobal(m) == m.maps # <<>> /\ MapOk(MapName("global", m.format), m.maps[1])

LEMMA FirstMapIsGlobal ==
    ASSUME NEW m \in MessageType, MapsOk(m), m.maps # <<>>
    PROVE  HasGlobal(m)
<1>1. 1 \in 1 .. Len(m.maps)
  BY DEF MessageType
<1>2. NameAt(m, 1) = MapName("global", m.format)
  BY DEF NameAt
<1>. QED  BY <1>1, <1>2 DEF MapsOk, HasGlobal

\* With all the maps its first announces it is well formed.
LEMMA AllMapsRead ==
    ASSUME NEW m \in MessageType, MapsOk(m), m.maps # <<>>,
           m.magic = PSBT_MAGIC, m.separator = PSBT_SEPARATOR,
           Len(m.maps) = 1 + InputCount(m) + OutputCount(m)
    PROVE  WellFormed(m)
<1>1. HasGlobal(m)
  BY FirstMapIsGlobal
<1>2. PICK n \in Nat : n = InputCount(m)
  BY <1>1, GlobalCounts DEF HasGlobal
<1>3. PICK k \in Nat : k = OutputCount(m)
  BY <1>1, GlobalCounts DEF HasGlobal
<1>4. Len(m.maps) = 1 + n + k
  BY <1>2, <1>3
<1>5. ASSUME NEW i \in 2 .. 1 + n PROVE MapOk(MapName("input", m.format), m.maps[i])
  <2>1. i \in 1 .. Len(m.maps) /\ i # 1 /\ i <= 1 + n
    BY <1>4
  <2>2. NameAt(m, i) = MapName("input", m.format)
    BY <1>2, <2>1 DEF NameAt
  <2>. QED  BY <2>1, <2>2 DEF MapsOk
<1>6. ASSUME NEW i \in 2 + n .. 1 + n + k PROVE MapOk(MapName("output", m.format), m.maps[i])
  <2>1. i \in 1 .. Len(m.maps) /\ i # 1 /\ ~(i <= 1 + n)
    BY <1>4
  <2>2. NameAt(m, i) = MapName("output", m.format)
    BY <1>2, <2>1 DEF NameAt
  <2>. QED  BY <2>1, <2>2 DEF MapsOk
<1>7. 1 + n + k <= Len(m.maps)
  BY <1>4
<1>. QED  BY <1>1, <1>2, <1>3, <1>5, <1>6, <1>7 DEF WellFormed, HasGlobal

\* The pair of a key and the value behind it.
PairBehind(front, k, value, p) ==
    /\ front \o PairBytes(p) = ((front \o KeyItem(k)) \o <<Len(value)>>) \o value
    /\ front \o PairBytes(p) = (front \o KeyItem(k)) \o (<<Len(value)>> \o value)

LEMMA ValueBehind ==
    ASSUME NEW front \in Seq(Nat), NEW k \in KeyType, NEW value \in Seq(Nat), NEW p, p = PairOf(k, value)
    PROVE  PairBehind(front, k, value, p)
<1>1. PICK a \in Seq(Nat) : a = KeyItem(k)
  BY KeyItemType
<1>2. PICK x \in Nat : x = Len(value)
  OBVIOUS
<1>3. PICK b : b = <<x>>
  OBVIOUS
<1>4. b \in Seq(Nat)
  BY <1>3
<1>5. PairBytes(p) = (a \o b) \o value
  BY <1>1, <1>2, <1>3, PairOfKey
<1>6. PICK ab : ab = a \o b
  OBVIOUS
<1>7. PICK fa : fa = front \o a
  OBVIOUS
<1>8. ab \in Seq(Nat) /\ fa \in Seq(Nat)
  BY <1>4, <1>6, <1>7, Concat
<1>9. Associates(front, ab, value)
  BY <1>8, ConcatAssociates
<1>10. Associates(front, a, b)
  BY <1>4, ConcatAssociates
<1>11. Associates(fa, b, value)
  BY <1>4, <1>8, ConcatAssociates
<1>. QED  BY <1>1, <1>2, <1>3, <1>5, <1>6, <1>7, <1>9, <1>10, <1>11 DEF Associates, PairBehind

-----------------------------------------------------------------------------
(* Sets as lists, and numbers                                              *)

\* SetToSeq: each element once.
Lists(s, S) ==
    /\ s \in Seq(S)
    /\ \A i, j \in 1 .. Len(s) : s[i] = s[j] => i = j
    /\ \A x \in S : \E i \in 1 .. Len(s) : s[i] = x

LEMMA SetToSeqLists ==
    ASSUME NEW S, IsFiniteSet(S)
    PROVE  Lists(SetToSeq(S), S)
<1>1. PICK n \in Nat : n = Cardinality(S)
  BY FS_CardinalityType
<1>2. PICK g \in Bijection(1 .. n, S) : TRUE
  BY <1>1, FS_CardinalityType DEF ExistsBijection
<1>3. g \in [1 .. n -> S] /\ IsInjective(g)
  BY <1>2 DEF Bijection, Injection
<1>4. PICK f : f = SetToSeq(S)
  OBVIOUS
<1>5. f \in [1 .. n -> S] /\ IsInjective(f)
  BY <1>1, <1>3, <1>4 DEF SetToSeq
<1>6. f \in Surjection(1 .. n, S)
  <2>1. f \in Injection(1 .. n, S)
    BY <1>5 DEF Injection
  <2>2. Cardinality(1 .. n) = n
    BY FS_Interval
  <2>. QED  BY <1>1, <2>1, <2>2, FS_Injection
<1>7. \A x \in S : \E i \in 1 .. n : f[i] = x
  BY <1>6 DEF Surjection
<1>8. f \in Seq(S) /\ Len(f) = n
  BY <1>5
<1>9. \A i, j \in 1 .. n : f[i] = f[j] => i = j
  BY <1>5 DEF IsInjective
<1>. QED  BY <1>4, <1>7, <1>8, <1>9 DEF Lists

\* The image of a finite set.
LEMMA FiniteImage ==
    ASSUME NEW S, IsFiniteSet(S), NEW f, NEW T, T = {f[x] : x \in S}
    PROVE  IsFiniteSet(T)
<1>. DEFINE g == [x \in S |-> f[x]]
<1>1. g \in Surjection(S, T)
  BY DEF Surjection
<1>. QED  BY <1>1, FS_Surjection

-----------------------------------------------------------------------------
(* Numbers *)

LEMMA ListType ==
    ASSUME NEW S, NEW n \in Nat, NEW f, f = [i \in 1 .. n |-> f[i]], \A i \in 1 .. n : f[i] \in S
    PROVE  f \in Seq(S) /\ Len(f) = n
  OBVIOUS

Rest == [rest \in Nat |-> rest \div 256]

\* What remains of a number behind each of its bytes.
Digits(n, r, bytes) ==
    /\ Chain(Nat, Rest, n, FixedSize - 1, r)
    /\ bytes = [i \in 1 .. FixedSize |-> r[i - 1] % 256]

HasDigits(n) == \E r : Digits(n, r, NumberBytes(n))

LEMMA NumberBytesDigits ==
    ASSUME NEW n \in Nat
    PROVE  HasDigits(n)
<1>1. PICK next : next = Rest
  OBVIOUS
<1>2. next \in [Nat -> Nat]
  BY <1>1 DEF Rest
<1>3. PICK k \in Nat : k = FixedSize - 1
  BY SizeAssumption
<1>4. PICK r : r = CHOOSE g : Iterated(next, n, k, g)
  OBVIOUS
<1>5. Iterated(next, n, k, r)
  BY <1>4, IterationExists
<1>6. NumberBytes(n) = [i \in 1 .. FixedSize |-> r[i - 1] % 256]
  BY <1>1, <1>3, <1>4 DEF NumberBytes, Rest, Iterated
<1>7. Chain(Nat, next, n, k, r)
  BY <1>2, <1>5, IterationType
<1>. QED  BY <1>1, <1>3, <1>6, <1>7 DEF HasDigits, Digits

Byte == 0 .. 255

\* As one knows them: r[i - 1] is what is left at byte i.
DigitSteps(n, r, bytes) ==
    /\ r[0] = n /\ \A i \in 0 .. FixedSize - 1 : r[i] \in Nat
    /\ \A i \in 1 .. FixedSize - 1 : r[i] = r[i - 1] \div 256
    /\ \A i \in 1 .. FixedSize : bytes[i] = r[i - 1] % 256
    /\ bytes \in Seq(Byte) /\ Len(bytes) = FixedSize

LEMMA DigitsStep ==
    ASSUME NEW n \in Nat
    PROVE  \E r : DigitSteps(n, r, NumberBytes(n))
<1>1. PICK r : Digits(n, r, NumberBytes(n))
  BY NumberBytesDigits DEF HasDigits
<1>2. PICK k \in Nat : FixedSize = k + 1
  BY SizeAssumption
<1>3. r[0] = n /\ \A i \in 0 .. FixedSize - 1 : r[i] \in Nat
  BY <1>1 DEF Digits, Chain
<1>4. ASSUME NEW i \in 1 .. FixedSize - 1 PROVE r[i] = r[i - 1] \div 256
  <2>1. r[i] = Rest[r[i - 1]]
    BY <1>1 DEF Digits, Chain
  <2>2. i - 1 \in 0 .. FixedSize - 1
    BY <1>2
  <2>3. r[i - 1] \in Nat
    BY <1>3, <2>2
  <2>. QED  BY <2>1, <2>3 DEF Rest
<1>5. PICK bytes : bytes = NumberBytes(n)
  OBVIOUS
<1>6. bytes = [i \in 1 .. FixedSize |-> r[i - 1] % 256]
  BY <1>1, <1>5 DEF Digits
<1>7. ASSUME NEW i \in 1 .. FixedSize PROVE bytes[i] = r[i - 1] % 256 /\ bytes[i] \in Byte
  <2>1. i - 1 \in 0 .. FixedSize - 1
    BY <1>2
  <2>2. PICK m \in Nat : m = r[i - 1]
    BY <1>3, <2>1
  <2>3. m % 256 \in 0 .. 255
    OBVIOUS
  <2>. QED  BY <1>6, <2>2, <2>3 DEF Byte
<1>8. bytes = [i \in 1 .. FixedSize |-> bytes[i]]
  BY <1>6
<1>9. bytes \in Seq(Byte) /\ Len(bytes) = FixedSize
  <2>1. FixedSize \in Nat /\ \A i \in 1 .. FixedSize : bytes[i] \in Byte
    BY <1>2, <1>7
  <2>. QED  BY <2>1, <1>8, ListType
<1>. QED  BY <1>3, <1>4, <1>5, <1>7, <1>9 DEF DigitSteps

LEMMA ByteIsNumber == \A b \in Byte : b \in Nat
  BY DEF Byte

LEMMA BytesAreNumbers ==
    ASSUME NEW bytes \in Seq(Byte)
    PROVE  bytes \in Seq(Nat)
<1>1. ASSUME NEW i \in 1 .. Len(bytes) PROVE bytes[i] \in Nat
  <2>1. bytes[i] \in Byte
    OBVIOUS
  <2>. QED  BY <2>1, ByteIsNumber
<1>2. bytes = [i \in 1 .. Len(bytes) |-> bytes[i]] /\ Len(bytes) \in Nat
  OBVIOUS
<1>. QED  BY <1>1, <1>2, ListType

LEMMA NumberBytesType ==
    ASSUME NEW n \in Nat
    PROVE  NumberBytes(n) \in Seq(Nat) /\ Len(NumberBytes(n)) = FixedSize
<1>1. PICK bytes : bytes = NumberBytes(n)
  OBVIOUS
<1>2. bytes \in Seq(Byte) /\ Len(bytes) = FixedSize
  BY <1>1, DigitsStep DEF DigitSteps
<1>3. bytes \in Seq(Nat)
  BY <1>2, BytesAreNumbers
<1>. QED  BY <1>1, <1>2, <1>3

\* The value of the bytes of a set of places, the lowest first: what FoldRight folds.
Folded(bytes, S, iter) ==
    iter = [s \in SUBSET S |->
               IF s = {} THEN 0
               ELSE LET x == Min(s) IN bytes[x] + 256 * iter[s \ {x}]]

LEMMA FoldedIs ==
    ASSUME NEW bytes, NEW S, NEW iter,
           iter = [s \in SUBSET S |-> iter[s]], iter[{}] = 0,
           \A s \in SUBSET S : s # {} => iter[s] = bytes[Min(s)] + 256 * iter[s \ {Min(s)}]
    PROVE  Folded(bytes, S, iter)
<1>. DEFINE h == [s \in SUBSET S |->
               IF s = {} THEN 0
               ELSE LET x == Min(s) IN bytes[x] + 256 * iter[s \ {x}]]
<1>1. h = [s \in SUBSET S |-> h[s]]
  OBVIOUS
<1>2. ASSUME NEW s \in SUBSET S PROVE h[s] = iter[s]
  OBVIOUS
<1>3. h = iter
  <2>. HIDE DEF h
  <2>. QED  BY <1>1, <1>2
<1>. QED  BY <1>3 DEF h, Folded

FoldSteps(bytes, S, iter) ==
    /\ iter[{}] = 0
    /\ \A s \in SUBSET S : s # {} => iter[s] = bytes[Min(s)] + 256 * iter[s \ {Min(s)}]

LEMMA FoldedMeans ==
    ASSUME NEW bytes, NEW S, NEW iter, Folded(bytes, S, iter)
    PROVE  FoldSteps(bytes, S, iter)
<1>. DEFINE V(s) == IF s = {} THEN 0 ELSE LET x == Min(s) IN bytes[x] + 256 * iter[s \ {x}]
<1>1. iter = [s \in SUBSET S |-> V(s)]
  BY DEF Folded
<1>2. \A s \in SUBSET S : iter[s] = V(s)
  <2>. HIDE DEF V
  <2>. QED  BY <1>1
<1>. QED  BY <1>2 DEF FoldSteps

LEMMA MinIs ==
    ASSUME NEW s \in SUBSET Nat, NEW x \in s, \A y \in s : x <= y
    PROVE  Min(s) = x
<1>1. \A z \in s : (\A y \in s : z <= y) => z = x
  OBVIOUS
<1>. QED  BY <1>1 DEF Min

LEMMA MinExists ==
    ASSUME NEW s \in SUBSET Nat, s # {}
    PROVE  Min(s) \in s
  BY LeastNumber DEF Min

LEMMA FoldedExists ==
    ASSUME NEW bytes, NEW n \in Nat
    PROVE  \E iter : Folded(bytes, 1 .. n, iter)
<1>. DEFINE P(j) == \E iter : Folded(bytes, n - j + 1 .. n, iter)
            T == {j \in Nat : j <= n => P(j)}
<1>1. 0 \in T
  <2>1. n - 0 + 1 .. n = {}
    OBVIOUS
  <2>2. PICK S : S = n - 0 + 1 .. n
    OBVIOUS
  <2>. DEFINE iter == [s \in SUBSET S |-> 0]
  <2>3. iter = [s \in SUBSET S |-> iter[s]] /\ iter[{}] = 0 /\ \A s \in SUBSET S : s = {}
    BY <2>1, <2>2
  <2>4. Folded(bytes, S, iter)
    <3>. HIDE DEF iter
    <3>. QED  BY <2>3, FoldedIs
  <2>. QED  BY <2>2, <2>4
<1>2. ASSUME NEW j \in T PROVE j + 1 \in T
  <2>. SUFFICES ASSUME j + 1 <= n PROVE P(j + 1)
    OBVIOUS
  <2>1. PICK k \in Nat : k = n - j /\ k >= 1
    OBVIOUS
  <2>2. n - (j + 1) + 1 = k /\ n - j + 1 = k + 1
    BY <2>1
  <2>3. PICK iter : Folded(bytes, k + 1 .. n, iter)
    BY <2>2
  <2>. DEFINE more == [s \in SUBSET (k .. n) |->
                          IF k \in s THEN bytes[k] + 256 * iter[s \ {k}] ELSE iter[s]]
  <2>4. more = [s \in SUBSET (k .. n) |-> more[s]] /\ more[{}] = iter[{}]
    OBVIOUS
  <2>5. iter[{}] = 0 /\ \A s \in SUBSET (k + 1 .. n) : s # {} => iter[s] = bytes[Min(s)] + 256 * iter[s \ {Min(s)}]
    <3>1. FoldSteps(bytes, k + 1 .. n, iter)
      BY <2>3, FoldedMeans
    <3>. QED  BY <3>1 DEF FoldSteps
  <2>6. ASSUME NEW s \in SUBSET (k .. n), s # {} PROVE more[s] = bytes[Min(s)] + 256 * more[s \ {Min(s)}]
    <3>1. CASE k \in s
      <4>1. Min(s) = k
        BY <2>1, <3>1, MinIs
      <4>2. more[s] = bytes[k] + 256 * iter[s \ {k}]
        BY <3>1
      <4>3. s \ {k} \in SUBSET (k .. n) /\ k \notin s \ {k}
        OBVIOUS
      <4>4. more[s \ {k}] = iter[s \ {k}]
        BY <4>3
      <4>. QED  BY <4>1, <4>2, <4>4
    <3>2. CASE k \notin s
      <4>1. s \in SUBSET (k + 1 .. n)
        BY <2>1, <3>2
      <4>2. PICK x : x = Min(s)
        OBVIOUS
      <4>3. iter[s] = bytes[x] + 256 * iter[s \ {x}]
        BY <2>5, <2>6, <4>1, <4>2
      <4>4. s \ {x} \in SUBSET (k .. n) /\ k \notin s \ {x}
        BY <3>2
      <4>5. more[s \ {x}] = iter[s \ {x}] /\ more[s] = iter[s]
        BY <3>2, <4>4
      <4>. QED  BY <4>2, <4>3, <4>5
    <3>. QED  BY <3>1, <3>2
  <2>7. Folded(bytes, k .. n, more)
    <3>1. more[{}] = 0
      BY <2>4, <2>5
    <3>. HIDE DEF more
    <3>. QED  BY <2>4, <2>6, <3>1, FoldedIs
  <2>. QED  BY <2>2, <2>7
<1>3. T = Nat
  <2>. HIDE DEF P
  <2>1. T \in SUBSET Nat
    OBVIOUS
  <2>. HIDE DEF T
  <2>. QED  BY <1>1, <1>2, <2>1, NumbersInduct
<1>4. P(n)
  <2>. HIDE DEF P
  <2>. QED  BY <1>3
<1>5. n - n + 1 = 1
  OBVIOUS
<1>. QED  BY <1>4, <1>5

LEMMA FoldedType ==
    ASSUME NEW bytes, NEW n \in Nat, \A i \in 1 .. n : bytes[i] \in Nat,
           NEW iter, Folded(bytes, 1 .. n, iter)
    PROVE  iter[1 .. n] \in Nat
<1>. DEFINE T == {j \in Nat : j <= n => \A s \in SUBSET (n - j + 1 .. n) : iter[s] \in Nat}
<1>1. iter[{}] = 0 /\ \A s \in SUBSET (1 .. n) : s # {} => iter[s] = bytes[Min(s)] + 256 * iter[s \ {Min(s)}]
  <2>1. FoldSteps(bytes, 1 .. n, iter)
    BY FoldedMeans
  <2>. QED  BY <2>1 DEF FoldSteps
<1>2. 0 \in T
  <2>1. n - 0 + 1 .. n = {}
    OBVIOUS
  <2>2. \A s \in SUBSET {} : iter[s] \in Nat
    <3>1. iter[{}] \in Nat
      BY <1>1
    <3>2. \A s \in SUBSET {} : s = {}
      OBVIOUS
    <3>. QED  BY ONLY <3>1, <3>2
  <2>. QED  BY <2>1, <2>2
<1>3. ASSUME NEW j \in T PROVE j + 1 \in T
  <2>. SUFFICES ASSUME j + 1 <= n, NEW s \in SUBSET (n - (j + 1) + 1 .. n) PROVE iter[s] \in Nat
    OBVIOUS
  <2>1. CASE s = {}
    BY <1>1, <2>1
  <2>2. CASE s # {}
    <3>1. s \in SUBSET (1 .. n) /\ s \in SUBSET Nat
      OBVIOUS
    <3>2. PICK x \in s : x = Min(s) /\ \A y \in s : x <= y
      <4>1. PICK x \in s : \A y \in s : x <= y
        BY <2>2, <3>1, LeastNumber
      <4>. QED  BY <3>1, <4>1, MinIs
    <3>3. s \ {x} \in SUBSET (n - j + 1 .. n)
      <4>1. ASSUME NEW y \in s \ {x} PROVE y \in n - j + 1 .. n
        <5>1. x \in Nat /\ y \in Nat /\ x <= y /\ x # y /\ x \in n - (j + 1) + 1 .. n /\ y <= n
          BY <3>1, <3>2
        <5>. QED  BY <5>1
      <4>. QED  BY <4>1
    <3>4. iter[s \ {x}] \in Nat
      BY <3>3
    <3>5. bytes[x] \in Nat
      BY <3>1
    <3>6. iter[s] = bytes[x] + 256 * iter[s \ {x}]
      BY <1>1, <2>2, <3>1, <3>2
    <3>. QED  BY <3>4, <3>5, <3>6
  <2>. QED  BY <2>1, <2>2
<1>4. T = Nat
  <2>1. T \in SUBSET Nat
    OBVIOUS
  <2>. HIDE DEF T
  <2>. QED  BY <1>2, <1>3, <2>1, NumbersInduct
<1>5. PICK j \in T : j = n
  <2>. HIDE DEF T
  <2>. QED  BY <1>4
<1>6. n - j + 1 = 1
  BY <1>5
<1>7. \A s \in SUBSET (n - j + 1 .. n) : iter[s] \in Nat
  BY <1>5
<1>. QED  BY <1>6, <1>7

LEMMA NumberType ==
    ASSUME NEW bytes \in Seq(Nat)
    PROVE  Number(bytes) \in Nat
<1>1. PICK n \in Nat : n = Len(bytes) /\ DOMAIN bytes = 1 .. n /\ \A i \in 1 .. n : bytes[i] \in Nat
  OBVIOUS
<1>2. PICK iter : iter = CHOOSE f : Folded(bytes, 1 .. n, f)
  OBVIOUS
<1>3. Folded(bytes, 1 .. n, iter)
  BY <1>2, FoldedExists
<1>4. iter[1 .. n] \in Nat
  BY <1>1, <1>3, FoldedType
<1>5. Number(bytes) = iter[1 .. n]
  BY <1>1, <1>2 DEF Number, FoldRight, MapThenFoldSet, Folded
<1>. QED  BY <1>4, <1>5

-----------------------------------------------------------------------------
(* Parts that were seen                                                    *)

Sized == {s \in Seq(Nat) : Len(s) = FixedSize}

\* An item of a list whose end was seen.
ItemSeen(seen, before, after, start, end) ==
    LET script == start + before + 1
    IN  /\ start \in Nat /\ end \in Nat /\ start <= end /\ end <= Len(seen)
        /\ script <= Len(seen) /\ seen[script] \in Nat
        /\ end = script + seen[script] + after

LEMMA ItemIsSeen ==
    ASSUME NEW seen \in Seq(Nat), NEW before \in Nat, NEW after \in Nat, NEW start \in Nat,
           NEW end, end = NextItem(seen, before, after)[start], end <= Len(seen)
    PROVE  ItemSeen(seen, before, after, start, end)
<1>1. end \in Nat /\ end >= start
  <2>1. NextItem(seen, before, after) \in [Nat -> Nat]
    BY NextItemType
  <2>. QED  BY <2>1, NextItemType
<1>2. PICK script \in Nat : script = start + before + 1
  OBVIOUS
<1>3. end = Past(seen, start, Past(seen, script, script + seen[script] + after))
  BY <1>2 DEF NextItem
<1>4. ~(Len(seen) < start) /\ end = Past(seen, script, script + seen[script] + after)
  BY <1>1, <1>3 DEF Past
<1>5. ~(Len(seen) < script) /\ end = script + seen[script] + after
  BY <1>1, <1>2, <1>4 DEF Past
<1>6. seen[script] \in Nat /\ script <= Len(seen)
  BY <1>2, <1>5
<1>. QED  BY <1>1, <1>2, <1>5, <1>6 DEF ItemSeen

LEMMA ChainUnique ==
    ASSUME NEW A, NEW next, NEW a, NEW n \in Nat, NEW f, Chain(A, next, a, n, f),
           NEW k \in 0 .. n, NEW g, Chain(A, next, a, k, g)
    PROVE  g[k] = f[k]
<1>. DEFINE U == {i \in Nat : i <= k => g[i] = f[i]}
<1>1. 0 \in U
  BY DEF Chain
<1>2. ASSUME NEW i \in U PROVE i + 1 \in U
  <2>. SUFFICES ASSUME i + 1 <= k PROVE g[i + 1] = f[i + 1]
    OBVIOUS
  <2>1. i + 1 \in 1 .. k /\ i + 1 \in 1 .. n /\ (i + 1) - 1 = i
    OBVIOUS
  <2>2. g[i] = f[i]
    OBVIOUS
  <2>3. g[i + 1] = next[g[i]]
    BY <2>1 DEF Chain
  <2>4. f[i + 1] = next[f[i]]
    BY <2>1 DEF Chain
  <2>. QED  BY <2>2, <2>3, <2>4
<1>3. U = Nat
  <2>1. U \in SUBSET Nat
    OBVIOUS
  <2>. HIDE DEF U
  <2>. QED  BY <1>1, <1>2, <2>1, NumbersInduct
<1>4. k \in Nat /\ k <= k
  OBVIOUS
<1>. QED  BY <1>3, <1>4

\* All items of a list whose end was seen: f[i] is the end of item i.
ItemsSeen(seen, start, n, before, after, f) ==
    /\ f[0] = start
    /\ \A i \in 1 .. n : ItemSeen(seen, before, after, f[i - 1], f[i])
    /\ \A i \in 0 .. n : f[i] = ItemsEnd(seen, start, i, before, after) /\ f[i] \in Nat

LEMMA ItemsAreSeen ==
    ASSUME NEW seen \in Seq(Nat), NEW start \in Nat, NEW n \in Nat,
           NEW before \in Nat, NEW after \in Nat,
           ItemsEnd(seen, start, n, before, after) <= Len(seen)
    PROVE  \E f : ItemsSeen(seen, start, n, before, after, f)
<1>1. PICK f : EndsOfItems(seen, start, n, before, after, f)
  <2>1. ItemsHaveEnds(seen, start, n, before, after)
    BY ItemsEndIterates
  <2>. QED  BY <2>1 DEF ItemsHaveEnds
<1>2. PICK next : next = NextItem(seen, before, after)
  OBVIOUS
<1>3. Chain(Nat, next, start, n, f) /\ f[n] <= Len(seen)
  BY <1>1, <1>2 DEF EndsOfItems
<1>4. /\ f[0] = start /\ \A i \in 0 .. n : f[i] \in Nat
      /\ \A i \in 1 .. n : f[i] = next[f[i - 1]]
  BY <1>3 DEF Chain
<1>5. \A e \in Nat : next[e] >= e
  BY <1>2, NextItemType
<1>. DEFINE U == {j \in Nat : j <= n => f[n - j] <= Len(seen)}
<1>6. U = Nat
  <2>1. 0 \in U
    <3>1. n - 0 = n
      OBVIOUS
    <3>. QED  BY <1>3, <3>1
  <2>2. ASSUME NEW j \in U PROVE j + 1 \in U
    <3>. SUFFICES ASSUME j + 1 <= n PROVE f[n - (j + 1)] <= Len(seen)
      OBVIOUS
    <3>1. PICK k \in Nat : k = n - (j + 1)
      OBVIOUS
    <3>2. n - j = k + 1 /\ k + 1 \in 1 .. n /\ k \in 0 .. n /\ k + 1 \in 0 .. n /\ (k + 1) - 1 = k
      BY <3>1
    <3>3. f[k + 1] <= Len(seen)
      <4>1. f[n - j] <= Len(seen)
        OBVIOUS
      <4>. QED  BY <3>2, <4>1
    <3>4. f[k + 1] = next[f[k]] /\ f[k] \in Nat /\ f[k + 1] \in Nat
      BY <1>4, <3>2
    <3>5. f[k] <= f[k + 1]
      BY <1>5, <3>4
    <3>. QED  BY <3>1, <3>3, <3>4, <3>5
  <2>3. U \in SUBSET Nat
    OBVIOUS
  <2>. HIDE DEF U
  <2>. QED  BY <2>1, <2>2, <2>3, NumbersInduct
<1>7. ASSUME NEW i \in 0 .. n PROVE f[i] <= Len(seen)
  <2>1. PICK j \in Nat : j = n - i /\ j <= n /\ n - j = i
    OBVIOUS
  <2>2. j \in U
    BY <1>6, <2>1
  <2>. QED  BY <2>1, <2>2
<1>8. ASSUME NEW i \in 1 .. n PROVE ItemSeen(seen, before, after, f[i - 1], f[i])
  <2>1. f[i - 1] \in Nat /\ f[i] = next[f[i - 1]] /\ f[i] <= Len(seen)
    BY <1>4, <1>7
  <2>. QED  BY <1>2, <2>1, ItemIsSeen
<1>9. ASSUME NEW i \in 0 .. n PROVE f[i] = ItemsEnd(seen, start, i, before, after)
  <2>1. PICK g : EndsOfItems(seen, start, i, before, after, g)
    <3>1. ItemsHaveEnds(seen, start, i, before, after)
      BY ItemsEndIterates
    <3>. QED  BY <3>1 DEF ItemsHaveEnds
  <2>2. Chain(Nat, next, start, i, g) /\ ItemsEnd(seen, start, i, before, after) = g[i]
    BY <1>2, <2>1 DEF EndsOfItems
  <2>3. g[i] = f[i]
    BY <1>3, <2>2, ChainUnique
  <2>. QED  BY <2>2, <2>3
<1>. QED  BY <1>4, <1>8, <1>9 DEF ItemsSeen

LEMMA PartIs ==
    ASSUME NEW bytes \in Seq(Nat), NEW start \in Nat, start + FixedSize <= Len(bytes)
    PROVE  Part(bytes, start) \in Sized
<1>1. PICK n \in Nat : n = FixedSize
  BY SizeAssumption
<1>2. PICK p : p = SubSeq(bytes, start + 1, start + n)
  OBVIOUS
<1>3. p \in Seq(Nat) /\ Len(p) = n
  BY <1>1, <1>2
<1>. QED  BY <1>1, <1>2, <1>3 DEF Part, Sized

\* The number of items and the end of a list whose end was seen.
ListSeen(seen, start, before, after, n, f) ==
    /\ start + 1 <= Len(seen) /\ n = seen[start + 1] /\ n \in Nat
    /\ ItemsSeen(seen, start + 1, n, before, after, f)
    /\ f[n] = ListEnd(seen, start, before, after)

LEMMA ListIsSeen ==
    ASSUME NEW seen \in Seq(Nat), NEW start \in Nat, NEW before \in Nat, NEW after \in Nat,
           NEW end, end = ListEnd(seen, start, before, after), end <= Len(seen)
    PROVE  \E n, f : ListSeen(seen, start, before, after, n, f)
<1>1. PICK s \in Nat : s = start + 1
  OBVIOUS
<1>2. end \in Nat /\ end >= start
  BY ListEndType
<1>3. end = Past(seen, start, Past(seen, s, ItemsEnd(seen, s, seen[s], before, after)))
  BY <1>1 DEF ListEnd
<1>4. end = Past(seen, s, ItemsEnd(seen, s, seen[s], before, after))
  BY <1>2, <1>3 DEF Past
<1>5. s <= Len(seen) /\ end = ItemsEnd(seen, s, seen[s], before, after)
  BY <1>1, <1>2, <1>4 DEF Past
<1>6. PICK n \in Nat : n = seen[s]
  BY <1>1, <1>5
<1>7. ItemsEnd(seen, s, n, before, after) <= Len(seen)
  BY <1>5, <1>6
<1>8. PICK f : ItemsSeen(seen, s, n, before, after, f)
  BY <1>7, ItemsAreSeen
<1>9. n \in 0 .. n
  OBVIOUS
<1>10. f[n] = ItemsEnd(seen, s, n, before, after)
  BY <1>8, <1>9 DEF ItemsSeen
<1>11. f[n] = ListEnd(seen, start, before, after)
  BY <1>5, <1>6, <1>10
<1>. QED  BY <1>1, <1>5, <1>6, <1>8, <1>11 DEF ListSeen

-----------------------------------------------------------------------------
(* The transaction of a value that is whole                                *)

TxInType == [txid : Sized, vout : Sized, seq : Sized]
TxOutType == [amount : Sized, script : Seq(Nat)]
TxType == [version : Sized, ins : Seq(TxInType), outs : Seq(TxOutType), lock : Sized]

\* The lists of a transaction that is whole, and the places of its numbers.
TxSeen(value, n, f, k, g) ==
    /\ ListSeen(value, FixedSize, 2 * FixedSize, FixedSize, n, f)
    /\ ListSeen(value, f[n], FixedSize, 0, k, g)
    /\ n = TxInCount(value) /\ k = TxOutCount(value)
    /\ f[n] = InputsEnd[value] /\ f[n] \in Nat /\ f[n] + 1 <= Len(value)
    /\ g[k] = OutputsEnd[value] /\ g[k] \in Nat /\ g[k] + FixedSize = Len(value)

LEMMA TxIsSeen ==
    ASSUME NEW value \in Seq(Nat), TxSize[value] = Len(value)
    PROVE  \E n, f, k, g : TxSeen(value, n, f, k, g)
<1>1. PICK size \in Nat, two \in Nat, zero \in Nat : size = FixedSize /\ size > 0 /\ two = 2 * FixedSize /\ zero = 0
  BY SizeAssumption
<1>2. PICK a, b : a = InputsEnd[value] /\ b = OutputsEnd[value]
  OBVIOUS
<1>3. /\ a \in Nat /\ a >= size /\ b \in Nat /\ b >= a
      /\ a = ListEnd(value, size, two, size) /\ b = ListEnd(value, a, size, zero)
  BY <1>1, <1>2, TxEnds
<1>4. Len(value) = Past(value, b, b + size)
  BY <1>1, <1>2, TxEnds
<1>5. b <= Len(value) /\ b + size = Len(value)
  <2>1. Len(value) \in Nat
    OBVIOUS
  <2>. QED  BY <1>1, <1>3, <1>4, <2>1 DEF Past
<1>6. a <= Len(value)
  BY <1>3, <1>5
<1>7. PICK n, f : ListSeen(value, size, two, size, n, f)
  BY <1>1, <1>3, <1>6, ListIsSeen
<1>8. PICK k, g : ListSeen(value, a, size, zero, k, g)
  BY <1>1, <1>3, <1>5, ListIsSeen
<1>9. f[n] = a /\ g[k] = b
  BY <1>3, <1>7, <1>8 DEF ListSeen
<1>10. n = TxInCount(value) /\ k = TxOutCount(value) /\ a + 1 <= Len(value)
  BY <1>1, <1>2, <1>7, <1>8 DEF ListSeen, TxInCount, TxOutCount
<1>. QED  BY <1>1, <1>2, <1>3, <1>5, <1>7, <1>8, <1>9, <1>10 DEF TxSeen

\* Inputs without script have one size.
LEMMA TxInStarts ==
    ASSUME NEW value \in Seq(Nat), ScriptSigsEmpty(value),
           NEW n, NEW f, NEW k, NEW g, TxSeen(value, n, f, k, g), NEW i \in 0 .. n
    PROVE  f[i] = TxInStart(i + 1) /\ TxInStart(i + 1) \in Nat
<1>1. PICK size \in Nat, two \in Nat : size = FixedSize /\ two = 2 * FixedSize
  BY SizeAssumption
<1>2. PICK width \in Nat : width = 3 * size + 1
  OBVIOUS
<1>3. /\ n \in Nat /\ f[0] = size + 1
      /\ \A j \in 1 .. n : ItemSeen(value, two, size, f[j - 1], f[j])
      /\ \A j \in 1 .. n : value[TxInStart(j) + two + 1] = 0
  BY <1>1 DEF TxSeen, ListSeen, ItemsSeen, ScriptSigsEmpty
<1>4. ASSUME NEW j \in Nat PROVE TxInStart(j + 1) = size + 1 + j * width /\ j * width \in Nat
  <2>1. (j + 1) - 1 = j
    OBVIOUS
  <2>2. TxInStart(j + 1) = size + 1 + ((j + 1) - 1) * width
    BY <1>1, <1>2 DEF TxInStart
  <2>3. j * width \in Nat
    OBVIOUS
  <2>. QED  BY <2>1, <2>2, <2>3
<1>. DEFINE U == {j \in Nat : j <= n => f[j] = TxInStart(j + 1)}
<1>5. 0 \in U
  <2>0. PICK z \in Nat : z = 0
    OBVIOUS
  <2>1. TxInStart(z + 1) = size + 1 + z * width
    BY <1>4
  <2>2. z * width = 0
    BY <2>0
  <2>3. f[z] = TxInStart(z + 1)
    <3>1. f[z] = size + 1
      BY <1>3, <2>0
    <3>. QED  BY <2>1, <2>2, <3>1
  <2>. QED  BY <2>0, <2>3
<1>6. ASSUME NEW j \in U PROVE j + 1 \in U
  <2>. SUFFICES ASSUME j + 1 <= n PROVE f[j + 1] = TxInStart((j + 1) + 1)
    OBVIOUS
  <2>0. j \in Nat /\ j + 1 \in 1 .. n /\ (j + 1) - 1 = j /\ j <= n
    BY <1>3
  <2>1. PICK start : start = f[j]
    OBVIOUS
  <2>2. start = TxInStart(j + 1)
    BY <2>0, <2>1
  <2>3. start = size + 1 + j * width /\ j * width \in Nat
    BY <1>4, <2>0, <2>2
  <2>4. ItemSeen(value, two, size, start, f[j + 1])
    BY <1>3, <2>0, <2>1
  <2>5. value[start + two + 1] = 0
    BY <1>3, <2>0, <2>2
  <2>6. f[j + 1] = start + two + 1 + 0 + size
    BY <2>4, <2>5 DEF ItemSeen
  <2>7. (j + 1) * width = j * width + width
    BY <2>0
  <2>8. TxInStart((j + 1) + 1) = size + 1 + (j + 1) * width
    <3>1. PICK next \in Nat : next = j + 1
      BY <2>0
    <3>2. TxInStart(next + 1) = size + 1 + next * width
      BY <1>4
    <3>. QED  BY <3>1, <3>2
  <2>9. two = size + size
    BY <1>1
  <2>. QED  BY <1>2, <2>3, <2>6, <2>7, <2>8, <2>9
<1>7. U = Nat
  <2>1. U \in SUBSET Nat
    OBVIOUS
  <2>. HIDE DEF U
  <2>. QED  BY <1>5, <1>6, <2>1, NumbersInduct
<1>8. i \in Nat /\ i <= n
  BY <1>3
<1>9. TxInStart(i + 1) \in Nat
  BY <1>4, <1>8
<1>. QED  BY <1>7, <1>8, <1>9

LEMMA DecodeTxType ==
    ASSUME NEW value \in Seq(Nat), TxSize[value] = Len(value), ScriptSigsEmpty(value)
    PROVE  DecodeTx[value] \in TxType
<1>1. PICK size \in Nat, two \in Nat, zero \in Nat : size = FixedSize /\ size > 0 /\ two = 2 * FixedSize /\ zero = 0
  BY SizeAssumption
<1>2. PICK n, f, k, g : TxSeen(value, n, f, k, g)
  BY TxIsSeen
<1>3. /\ n \in Nat /\ k \in Nat /\ n = TxInCount(value) /\ k = TxOutCount(value)
      /\ f[n] = InputsEnd[value] /\ f[n] \in Nat /\ g[k] = OutputsEnd[value] /\ g[k] \in Nat
      /\ g[k] + size = Len(value) /\ Len(value) \in Nat
  BY <1>1, <1>2 DEF TxSeen, ListSeen
<1>4. Part(value, 0) \in Sized
  BY <1>1, <1>3, PartIs
<1>5. Part(value, OutputsEnd[value]) \in Sized
  BY <1>1, <1>3, PartIs
<1>6. ASSUME NEW i \in 1 .. n PROVE TxIn(value, i) \in TxInType
  <2>0. i \in Nat /\ i - 1 \in 0 .. n /\ (i - 1) + 1 = i
    BY <1>3
  <2>1. PICK start \in Nat : start = f[i - 1] /\ start = TxInStart(i)
    BY <1>2, <2>0, TxInStarts
  <2>2. ItemSeen(value, two, size, start, f[i])
    BY <1>1, <1>2, <2>1 DEF TxSeen, ListSeen, ItemsSeen
  <2>3. PICK script \in Nat : script = start + two + 1
    OBVIOUS
  <2>4. script <= Len(value) /\ value[script] \in Nat /\ f[i] = script + value[script] + size /\ f[i] <= Len(value)
    BY <2>2, <2>3 DEF ItemSeen
  <2>5. value[script] = 0
    BY <1>1, <1>3, <2>1, <2>3 DEF ScriptSigsEmpty
  <2>6. script + size <= Len(value) /\ two = size + size /\ start + size \in Nat
    <3>1. f[i] = script + 0 + size
      BY <2>4, <2>5
    <3>2. f[i] = script + size
      BY <3>1
    <3>3. script + size <= Len(value)
      BY <2>4, <3>2
    <3>4. two = size + size
      BY <1>1
    <3>5. start + size \in Nat
      OBVIOUS
    <3>. QED  BY <3>3, <3>4, <3>5
  <2>7. Part(value, start) \in Sized
    BY <1>1, <1>3, <2>3, <2>6, PartIs
  <2>8. Part(value, start + size) \in Sized
    BY <1>1, <1>3, <2>3, <2>6, PartIs
  <2>9. Part(value, script) \in Sized
    BY <1>1, <1>3, <2>3, <2>6, PartIs
  <2>10. TxIn(value, i) = [txid |-> Part(value, start), vout |-> Part(value, start + size), seq |-> Part(value, script)]
    BY <1>1, <2>1, <2>3 DEF TxIn
  <2>. QED  BY <2>7, <2>8, <2>9, <2>10 DEF TxInType
<1>7. ASSUME NEW i \in 1 .. k PROVE TxOut(value, i) \in TxOutType
  <2>0. i \in Nat /\ i - 1 \in 0 .. k
    BY <1>3
  <2>1. /\ ItemSeen(value, size, zero, g[i - 1], g[i])
        /\ g[i - 1] = ItemsEnd(value, InputsEnd[value] + 1, i - 1, size, zero)
    BY <1>1, <1>2, <1>3, <2>0 DEF TxSeen, ListSeen, ItemsSeen
  <2>2. PICK start \in Nat : start = g[i - 1]
    BY <2>1 DEF ItemSeen
  <2>3. TxOutStart(value, i) = start
    BY <1>1, <2>1, <2>2 DEF TxOutStart
  <2>4. PICK script \in Nat : script = start + size + 1
    OBVIOUS
  <2>5. script <= Len(value) /\ value[script] \in Nat /\ g[i] = script + value[script] + zero /\ g[i] <= Len(value)
    BY <2>1, <2>2, <2>4 DEF ItemSeen
  <2>6. start + size <= Len(value)
    BY <1>3, <2>4, <2>5
  <2>7. Part(value, start) \in Sized
    BY <1>1, <2>6, PartIs
  <2>8. PICK last \in Nat : last = script + value[script] /\ last <= Len(value)
    BY <1>1, <2>5
  <2>9. SubSeq(value, script + 1, last) \in Seq(Nat)
    BY <2>8
  <2>10. TxOut(value, i) = [amount |-> Part(value, start), script |-> SubSeq(value, script + 1, last)]
    BY <1>1, <2>3, <2>4, <2>8 DEF TxOut
  <2>. QED  BY <2>7, <2>9, <2>10 DEF TxOutType
<1>8. /\ [i \in 1 .. n |-> TxIn(value, i)] \in Seq(TxInType)
      /\ [i \in 1 .. k |-> TxOut(value, i)] \in Seq(TxOutType)
  <2>1. PICK ins, outs : ins = [i \in 1 .. n |-> TxIn(value, i)] /\ outs = [i \in 1 .. k |-> TxOut(value, i)]
    OBVIOUS
  <2>2. ins = [i \in 1 .. n |-> ins[i]] /\ outs = [i \in 1 .. k |-> outs[i]]
    BY <2>1
  <2>3. (\A i \in 1 .. n : ins[i] \in TxInType) /\ \A i \in 1 .. k : outs[i] \in TxOutType
    BY <1>6, <1>7, <2>1
  <2>4. n \in Nat /\ k \in Nat
    BY <1>3
  <2>5. ins \in Seq(TxInType)
    BY ONLY <2>2, <2>3, <2>4, ListType
  <2>6. outs \in Seq(TxOutType)
    BY ONLY <2>2, <2>3, <2>4, ListType
  <2>. QED  BY <2>1, <2>5, <2>6
<1>9. DecodeTx[value] = [version |-> Part(value, 0), ins |-> [i \in 1 .. n |-> TxIn(value, i)],
                         outs |-> [i \in 1 .. k |-> TxOut(value, i)], lock |-> Part(value, OutputsEnd[value])]
  BY <1>3 DEF DecodeTx
<1>. QED  BY <1>4, <1>5, <1>8, <1>9 DEF TxType

-----------------------------------------------------------------------------
(* Pairs that can be written                                               *)

\* A pair that can be written.
EntryTyped(e) == e.type \in Nat /\ e.data \in Seq(Nat) /\ e.value \in Seq(Nat)

EntriesTyped(entries) == IsFiniteSet(entries) /\ \A e \in entries : EntryTyped(e)

LEMMA EntryOfTyped ==
    ASSUME NEW map, NEW type \in Nat, NEW data \in Seq(Nat), NEW value \in Seq(Nat)
    PROVE  EntryTyped(EntryOf(map, type, data, value))
<1>1. PICK e : e = EntryOf(map, type, data, value)
  OBVIOUS
<1>2. e.type = type /\ e.value = value /\ (e.data = data \/ e.data = <<>>)
  BY <1>1, EntryParts
<1>3. <<>> \in Seq(Nat)
  OBVIOUS
<1>. QED  BY <1>1, <1>2, <1>3 DEF EntryTyped

LEMMA EntriesOfPairs ==
    ASSUME NEW map, NEW pairs \in Seq(PairType)
    PROVE  EntriesTyped(Entries(map, pairs))
<1>1. PICK n \in Nat : n = Len(pairs)
  OBVIOUS
<1>2. IsFiniteSet(1 .. n)
  BY FS_Interval
<1>3. PICK f : f = [i \in 1 .. n |-> EntryAt(map, pairs[i])]
  OBVIOUS
<1>4. PICK T : T = Entries(map, pairs)
  OBVIOUS
<1>5. T = {f[i] : i \in 1 .. n}
  BY <1>1, <1>3, <1>4 DEF Entries, EntryAt
<1>6. IsFiniteSet(T)
  BY <1>2, <1>5, FiniteImage
<1>7. ASSUME NEW e \in T PROVE EntryTyped(e)
  <2>1. PICK i \in 1 .. n : e = EntryAt(map, pairs[i])
    BY <1>3, <1>5
  <2>2. pairs[i] \in PairType
    BY <1>1
  <2>3. pairs[i].type \in Nat /\ pairs[i].data \in Seq(Nat) /\ pairs[i].value \in Seq(Nat)
    BY <2>2 DEF PairType
  <2>. QED  BY <2>1, <2>3, EntryOfTyped DEF EntryAt
<1>. QED  BY <1>4, <1>6, <1>7 DEF EntriesTyped

LEMMA AnyTyped ==
    ASSUME NEW entries, EntriesTyped(entries)
    PROVE  /\ \A some \in SUBSET entries : EntriesTyped(some)
           /\ \A e : EntryTyped(e) => EntriesTyped(entries \union {e})
<1>1. ASSUME NEW some \in SUBSET entries PROVE EntriesTyped(some)
  <2>1. IsFiniteSet(some)
    BY FS_Subset DEF EntriesTyped
  <2>. QED  BY <2>1 DEF EntriesTyped
<1>2. ASSUME NEW e, EntryTyped(e) PROVE EntriesTyped(entries \union {e})
  <2>1. IsFiniteSet(entries \union {e})
    BY FS_AddElement DEF EntriesTyped
  <2>. QED  BY <1>2, <2>1 DEF EntriesTyped
<1>. QED  BY <1>1, <1>2

\* The fields that are given a value where their pair is not read.
GivenFields ==
    {<<"global", "version">>, <<"global", "tx_version">>, <<"global", "input_count">>,
     <<"global", "output_count">>, <<"global", "tx_modifiable">>, <<"global", "fallback_lock_time">>,
     <<"input", "previous_txid">>, <<"input", "spent_output_index">>, <<"input", "sequence">>,
     <<"output", "amount">>, <<"output", "script">>}

LEMMA FieldOfType ==
    ASSUME NEW map \in DOMAIN Fields, NEW f \in DOMAIN Fields[map],
           \A g \in DOMAIN Fields[map] : Fields[map][g] = Fields[map][f] => g = f
    PROVE  FieldOf(map, Fields[map][f]) = f
<1>1. PICK type : type = Fields[map][f]
  OBVIOUS
<1>2. FieldAt[map] = [t \in Range(Fields[map]) |-> CHOOSE g \in DOMAIN Fields[map] : Fields[map][g] = t]
  BY DEF FieldAt
<1>3. type \in Range(Fields[map])
  BY <1>1 DEF Range
<1>4. PICK h : h = CHOOSE g \in DOMAIN Fields[map] : Fields[map][g] = type
  OBVIOUS
<1>5. h \in DOMAIN Fields[map] /\ Fields[map][h] = type
  BY <1>1, <1>4
<1>6. h = f
  BY <1>1, <1>5
<1>7. type \in DOMAIN FieldAt[map] /\ FieldAt[map][type] = h
  BY <1>2, <1>3, <1>4
<1>. QED  BY <1>1, <1>6, <1>7 DEF FieldOf

LEMMA GivenFieldsAre ==
    ASSUME NEW map, NEW f, <<map, f>> \in GivenFields
    PROVE  FieldOf(map, Fields[map][f]) = f /\ Fields[map][f] \in Nat
<1>1. /\ "global" \in DOMAIN Fields /\ Fields["global"] = GlobalFields
      /\ "input" \in DOMAIN Fields /\ Fields["input"] = InputFields
      /\ "output" \in DOMAIN Fields /\ Fields["output"] = OutputFields
  BY DEF Fields
<1>2. CASE map = "global"
  <2>1. f \in {"version", "tx_version", "input_count", "output_count", "tx_modifiable", "fallback_lock_time"}
    BY <1>2 DEF GivenFields
  <2>2. f \in DOMAIN GlobalFields /\ GlobalFields[f] \in Nat
    BY <2>1 DEF GlobalFields
  <2>3. \A g \in DOMAIN GlobalFields : GlobalFields[g] = GlobalFields[f] => g = f
    BY <2>1 DEF GlobalFields
  <2>. QED  BY <1>1, <1>2, <2>2, <2>3, FieldOfType
<1>3. CASE map = "input"
  <2>1. f \in {"previous_txid", "spent_output_index", "sequence"}
    BY <1>3 DEF GivenFields
  <2>2. f \in DOMAIN InputFields /\ InputFields[f] \in Nat
    BY <2>1 DEF InputFields
  <2>3. \A g \in DOMAIN InputFields : InputFields[g] = InputFields[f] => g = f
    BY <2>1 DEF InputFields
  <2>. QED  BY <1>1, <1>3, <2>2, <2>3, FieldOfType
<1>4. CASE map = "output"
  <2>1. f \in {"amount", "script"}
    BY <1>4 DEF GivenFields
  <2>2. f \in DOMAIN OutputFields /\ OutputFields[f] \in Nat
    BY <2>1 DEF OutputFields
  <2>3. \A g \in DOMAIN OutputFields : OutputFields[g] = OutputFields[f] => g = f
    BY <2>1 DEF OutputFields
  <2>. QED  BY <1>1, <1>4, <2>2, <2>3, FieldOfType
<1>5. map \in {"global", "input", "output"}
  BY DEF GivenFields
<1>. QED  BY <1>2, <1>3, <1>4, <1>5

LEMMA SingleTyped ==
    ASSUME NEW map, NEW f, <<map, f>> \in GivenFields, NEW value \in Seq(Nat)
    PROVE  EntryTyped(Single(map, f, value)) /\ Single(map, f, value).field = f
<1>1. Fields[map][f] \in Nat /\ FieldOf(map, Fields[map][f]) = f
  BY GivenFieldsAre
<1>2. PICK type \in Nat : type = Fields[map][f]
  BY <1>1
<1>3. <<>> \in Seq(Nat)
  OBVIOUS
<1>4. Single(map, f, value) = EntryOf(map, type, <<>>, value)
  BY <1>2 DEF Single
<1>5. EntryTyped(EntryOf(map, type, <<>>, value))
  BY <1>3, EntryOfTyped
<1>6. EntryOf(map, type, <<>>, value).field = FieldOf(map, type)
  BY EntryParts
<1>. QED  BY <1>1, <1>2, <1>4, <1>5, <1>6

LEMMA ValueTyped ==
    ASSUME NEW entries, EntriesTyped(entries), NEW f \in FieldsIn(entries)
    PROVE  ValueOf(entries, f) \in Seq(Nat)
<1>1. PICK e : e = CHOOSE x \in entries : x.field = f
  OBVIOUS
<1>2. \E x \in entries : x.field = f
  BY DEF FieldsIn
<1>3. e \in entries
  BY <1>1, <1>2
<1>4. ValueOf(entries, f) = e.value
  BY <1>1 DEF ValueOf
<1>. QED  BY <1>3, <1>4 DEF EntriesTyped, EntryTyped

LEMMA ValueOrTyped ==
    ASSUME NEW entries, EntriesTyped(entries), NEW f, NEW default \in Seq(Nat)
    PROVE  ValueOr(entries, f, default) \in Seq(Nat)
  BY ValueTyped DEF ValueOr

-----------------------------------------------------------------------------
(* A PSBT that can be written *)

InputTyped(entries) ==
    EntriesTyped(entries) /\ {"previous_txid", "spent_output_index"} \subseteq FieldsIn(entries)

OutputTyped(entries) == EntriesTyped(entries) /\ {"amount", "script"} \subseteq FieldsIn(entries)

GlobalTyped(entries) == EntriesTyped(entries) /\ "tx_version" \in FieldsIn(entries)

InputsTyped(list) ==
    \E n \in Nat : list = [i \in 1 .. n |-> list[i]] /\ \A i \in 1 .. n : InputTyped(list[i])

OutputsTyped(list) ==
    \E n \in Nat : list = [i \in 1 .. n |-> list[i]] /\ \A i \in 1 .. n : OutputTyped(list[i])

PsbtTyped(psbt) ==
    GlobalTyped(psbt.global) /\ InputsTyped(psbt.inputs) /\ OutputsTyped(psbt.outputs)

LEMMA FieldsStay ==
    ASSUME NEW entries, NEW more, entries \subseteq more
    PROVE  FieldsIn(entries) \subseteq FieldsIn(more)
  BY DEF FieldsIn

LEMMA WithTyped ==
    ASSUME NEW entries, EntriesTyped(entries), NEW map, NEW f, <<map, f>> \in GivenFields,
           NEW value \in Seq(Nat), NEW more, more = entries \union {Single(map, f, value)}
    PROVE  EntriesTyped(more) /\ f \in FieldsIn(more) /\ entries \subseteq more
<1>1. PICK e : e = Single(map, f, value)
  OBVIOUS
<1>2. EntryTyped(e) /\ e.field = f
  BY <1>1, SingleTyped
<1>3. more = entries \union {e}
  BY <1>1
<1>. QED  BY <1>2, <1>3, AnyTyped DEF FieldsIn

LEMMA DefaultTyped ==
    ASSUME NEW entries, EntriesTyped(entries), NEW map, NEW f, <<map, f>> \in GivenFields,
           NEW value \in Seq(Nat), NEW more, more = WithDefault(map, entries, f, value)
    PROVE  EntriesTyped(more) /\ f \in FieldsIn(more) /\ entries \subseteq more
<1>1. CASE f \in FieldsIn(entries)
  BY <1>1 DEF WithDefault
<1>2. CASE f \notin FieldsIn(entries)
  BY <1>2, WithTyped DEF WithDefault
<1>. QED  BY <1>1, <1>2

-----------------------------------------------------------------------------
(* What a message that is well formed means can be written                 *)

\* What is required of a map is in it.
LEMMA RequiredThere ==
    ASSUME NEW map, NEW pairs, MapOk(map, pairs)
    PROVE  /\ map = "global" => "tx_version" \in FieldsIn(Entries(map, pairs))
           /\ map = "input" => {"previous_txid", "spent_output_index"} \subseteq FieldsIn(Entries(map, pairs))
           /\ map = "output" => "amount" \in FieldsIn(Entries(map, pairs))
<1>1. Required[map] \subseteq FieldsIn(Entries(map, pairs))
  BY DEF MapOk
<1>. QED  BY <1>1 DEF Required

LEMMA TxOfMapDecodes ==
    ASSUME NEW pairs \in Seq(PairType), MapOk("global0", pairs),
           NEW value, value = ValueOf(Entries("global0", pairs), "unsigned_tx")
    PROVE  DecodeTx[value] \in TxType
<1>1. PICK e : e = CHOOSE x \in Entries("global0", pairs) : x.field = "unsigned_tx"
  OBVIOUS
<1>2. \E x \in Entries("global0", pairs) : x.field = "unsigned_tx"
  BY DEF MapOk, Required, FieldsIn
<1>3. e \in Entries("global0", pairs) /\ e.field = "unsigned_tx"
  BY <1>1, <1>2
<1>4. PICK i \in 1 .. Len(pairs) : e = EntryAt("global0", pairs[i])
  BY <1>3 DEF Entries, EntryAt
<1>5. FieldOf("global0", pairs[i].type) = "unsigned_tx" /\ e.value = pairs[i].value
  BY <1>3, <1>4, EntryParts DEF EntryAt
<1>6. PairOk("global0", pairs[i])
  BY DEF MapOk
<1>7. value = pairs[i].value
  BY <1>1, <1>5 DEF ValueOf
<1>8. ValueDecodes("global0", "unsigned_tx", value)
  BY <1>5, <1>6, <1>7 DEF PairOk
<1>9. value \in Seq(Nat) /\ TxSize[value] = Len(value)
  BY TxOfMap
<1>10. TxDecodes[value]
  BY <1>8 DEF ValueDecodes
<1>11. ScriptSigsEmpty(value)
  BY <1>9, <1>10 DEF TxDecodes
<1>. QED  BY <1>9, <1>11, DecodeTxType

LEMMA OneByte ==
    ASSUME NEW n \in Nat
    PROVE  <<n>> \in Seq(Nat)
  OBVIOUS

LEMMA IntoGlobalTyped ==
    ASSUME NEW entries, EntriesTyped(entries), NEW tx \in TxType
    PROVE  GlobalTyped(IntoGlobal(entries, tx))
<1>1. PICK version \in Seq(Nat), lock \in Seq(Nat), n \in Nat, k \in Nat :
          version = tx.version /\ lock = tx.lock /\ n = Len(tx.ins) /\ k = Len(tx.outs)
  <2>1. tx.version \in Seq(Nat) /\ tx.lock \in Seq(Nat)
    BY DEF TxType, Sized
  <2>2. tx.ins \in Seq(TxInType) /\ tx.outs \in Seq(TxOutType)
    BY DEF TxType
  <2>3. Len(tx.ins) \in Nat /\ Len(tx.outs) \in Nat
    BY <2>2
  <2>. QED  BY <2>1, <2>3
<1>2. PICK ins \in Seq(Nat), outs \in Seq(Nat), zero \in Seq(Nat), two \in Seq(Nat) :
          ins = <<n>> /\ outs = <<k>> /\ zero = <<0>> /\ two = NumberBytes(2)
  <2>1. NumberBytes(2) \in Seq(Nat)
    BY NumberBytesType
  <2>2. <<n>> \in Seq(Nat) /\ <<k>> \in Seq(Nat) /\ <<0>> \in Seq(Nat)
    BY OneByte
  <2>. QED  BY <2>1, <2>2
<1>3. PICK a, b, c, d, e, g :
          /\ a = Single("global", "version", two)
          /\ b = Single("global", "tx_version", version)
          /\ c = Single("global", "input_count", ins)
          /\ d = Single("global", "output_count", outs)
          /\ e = Single("global", "tx_modifiable", zero)
          /\ g = Single("global", "fallback_lock_time", lock)
  OBVIOUS
<1>4. EntryTyped(a) /\ EntryTyped(b) /\ EntryTyped(c) /\ EntryTyped(d) /\ EntryTyped(e) /\ EntryTyped(g)
      /\ b.field = "tx_version"
  BY <1>3, SingleTyped DEF GivenFields
<1>5. PICK kept : kept = Without(entries, {"unsigned_tx", "version"})
  OBVIOUS
<1>6. EntriesTyped(kept)
  <2>1. kept \in SUBSET entries
    BY <1>5 DEF Without
  <2>. QED  BY <2>1, AnyTyped
<1>7. EntriesTyped(((((kept \union {a}) \union {b}) \union {c}) \union {d}) \union {e})
  BY <1>4, <1>6, AnyTyped
<1>8. EntriesTyped((((((kept \union {a}) \union {b}) \union {c}) \union {d}) \union {e}) \union {g})
  BY <1>4, <1>7, AnyTyped
<1>9. PICK into : into = IntoGlobal(entries, tx)
  OBVIOUS
<1>10. into = kept \union {a, b, c, d, e} \union (IF lock = Zero THEN {} ELSE {g})
  BY <1>1, <1>2, <1>3, <1>5, <1>9 DEF IntoGlobal
<1>11. EntriesTyped(into)
  <2>1. CASE lock = Zero
    <3>1. into = ((((kept \union {a}) \union {b}) \union {c}) \union {d}) \union {e}
      BY <1>10, <2>1
    <3>. QED  BY <1>7, <3>1
  <2>2. CASE lock # Zero
    <3>1. into = (((((kept \union {a}) \union {b}) \union {c}) \union {d}) \union {e}) \union {g}
      BY <1>10, <2>2
    <3>. QED  BY <1>8, <3>1
  <2>. QED  BY <2>1, <2>2
<1>12. b \in into
  BY <1>10
<1>13. "tx_version" \in FieldsIn(into)
  BY <1>4, <1>12 DEF FieldsIn
<1>. QED  BY <1>9, <1>11, <1>13 DEF GlobalTyped

LEMMA IntoInputTyped ==
    ASSUME NEW entries, EntriesTyped(entries), NEW in \in TxInType
    PROVE  InputTyped(IntoInput(entries, in))
<1>1. in.txid \in Seq(Nat) /\ in.vout \in Seq(Nat) /\ in.seq \in Seq(Nat)
  BY DEF TxInType, Sized
<1>2. PICK a, b, c :
          /\ a = Single("input", "previous_txid", in.txid)
          /\ b = Single("input", "spent_output_index", in.vout)
          /\ c = Single("input", "sequence", in.seq)
  OBVIOUS
<1>3. EntryTyped(a) /\ EntryTyped(b) /\ EntryTyped(c)
      /\ a.field = "previous_txid" /\ b.field = "spent_output_index"
  BY <1>1, <1>2, SingleTyped DEF GivenFields
<1>4. PICK into : into = IntoInput(entries, in)
  OBVIOUS
<1>5. into = ((entries \union {a}) \union {b}) \union {c}
  BY <1>2, <1>4 DEF IntoInput
<1>6. EntriesTyped(into)
  BY <1>3, <1>5, AnyTyped
<1>7. {"previous_txid", "spent_output_index"} \subseteq FieldsIn(into)
  BY <1>3, <1>5 DEF FieldsIn
<1>. QED  BY <1>4, <1>6, <1>7 DEF InputTyped

LEMMA IntoOutputTyped ==
    ASSUME NEW entries, EntriesTyped(entries), NEW out \in TxOutType
    PROVE  OutputTyped(IntoOutput(entries, out))
<1>1. out.amount \in Seq(Nat) /\ out.script \in Seq(Nat)
  BY DEF TxOutType, Sized
<1>2. PICK a, b :
          /\ a = Single("output", "amount", out.amount)
          /\ b = Single("output", "script", out.script)
  OBVIOUS
<1>3. EntryTyped(a) /\ EntryTyped(b) /\ a.field = "amount" /\ b.field = "script"
  BY <1>1, <1>2, SingleTyped DEF GivenFields
<1>4. PICK into : into = IntoOutput(entries, out)
  OBVIOUS
<1>5. into = (entries \union {a}) \union {b}
  BY <1>2, <1>4 DEF IntoOutput
<1>6. EntriesTyped(into)
  BY <1>3, <1>5, AnyTyped
<1>7. {"amount", "script"} \subseteq FieldsIn(into)
  BY <1>3, <1>5 DEF FieldsIn
<1>. QED  BY <1>4, <1>6, <1>7 DEF OutputTyped

LEMMA MeaningTyped ==
    ASSUME NEW message \in MessageType, WellFormed(message)
    PROVE  PsbtTyped(Meaning(message))
<1>1. PICK n \in Nat, k \in Nat : n = InputCount(message) /\ k = OutputCount(message)
  BY MessageCounts
<1>2. message.format \in {0, 2}
  BY DEF MessageType
<1>3. ASSUME NEW i \in 1 .. 1 + n + k
      PROVE  /\ EntriesTyped(Entries(NameAt(message, i), message.maps[i]))
             /\ MapOk(NameAt(message, i), message.maps[i]) /\ message.maps[i] \in Seq(PairType)
  <2>1. message.maps[i] \in Seq(PairType) /\ MapOk(NameAt(message, i), message.maps[i])
    BY <1>1, MapsAreOk
  <2>. QED  BY <2>1, EntriesOfPairs
<1>4. /\ NameAt(message, 1) = MapName("global", message.format)
      /\ \A i \in 1 .. n : NameAt(message, 1 + i) = MapName("input", message.format)
      /\ \A i \in 1 .. k : NameAt(message, 1 + n + i) = MapName("output", message.format)
  BY <1>1 DEF NameAt
<1>5. 1 \in 1 .. 1 + n + k /\ (\A i \in 1 .. n : 1 + i \in 1 .. 1 + n + k)
      /\ \A i \in 1 .. k : 1 + n + i \in 1 .. 1 + n + k
  OBVIOUS
<1>6. PICK tx : tx = TxOfMessage(message)
  OBVIOUS
<1>7. CASE message.format = 2
  <2>1. /\ Meaning(message).global = WithDefault("global", GlobalOf(message), "tx_modifiable", <<0>>)
        /\ Meaning(message).inputs = ReadInputs(message, n)
        /\ Meaning(message).outputs = ReadOutputs(message, k)
    BY <1>1, <1>6, <1>7, MeaningIsRead
  <2>2. MapName("global", 2) = "global" /\ MapName("input", 2) = "input" /\ MapName("output", 2) = "output"
    BY MapNamesOf
  <2>3. GlobalTyped(Meaning(message).global)
    <3>1. GlobalOf(message) = Entries("global", message.maps[1])
      BY <1>7, <2>2 DEF GlobalOf
    <3>2. EntriesTyped(Entries("global", message.maps[1])) /\ MapOk("global", message.maps[1])
      BY <1>3, <1>4, <1>5, <1>7, <2>2
    <3>3. PICK entries, more : entries = GlobalOf(message) /\ more = Meaning(message).global
      OBVIOUS
    <3>4. EntriesTyped(entries) /\ "tx_version" \in FieldsIn(entries)
      BY <3>1, <3>2, <3>3, RequiredThere
    <3>5. <<0>> \in Seq(Nat) /\ <<"global", "tx_modifiable">> \in GivenFields
      BY OneByte DEF GivenFields
    <3>6. more = WithDefault("global", entries, "tx_modifiable", <<0>>)
      BY <2>1, <3>3
    <3>7. EntriesTyped(more) /\ entries \subseteq more
      BY <3>4, <3>5, <3>6, DefaultTyped, SMTT(20)
    <3>8. "tx_version" \in FieldsIn(more)
      BY <3>4, <3>7, FieldsStay
    <3>. QED  BY <3>3, <3>7, <3>8 DEF GlobalTyped
  <2>4. InputsTyped(Meaning(message).inputs)
    <3>1. PICK list : list = Meaning(message).inputs
      OBVIOUS
    <3>2. list = [i \in 1 .. n |-> Entries("input", message.maps[1 + i])]
      BY <1>7, <2>1, <2>2, <3>1 DEF ReadInputs
    <3>3. ASSUME NEW i \in 1 .. n PROVE InputTyped(list[i])
      <4>1. EntriesTyped(Entries("input", message.maps[1 + i])) /\ MapOk("input", message.maps[1 + i])
        BY <1>3, <1>4, <1>5, <1>7, <2>2
      <4>2. {"previous_txid", "spent_output_index"} \subseteq FieldsIn(Entries("input", message.maps[1 + i]))
        BY <4>1, RequiredThere
      <4>. QED  BY <3>2, <4>1, <4>2 DEF InputTyped
    <3>4. list = [i \in 1 .. n |-> list[i]]
      BY <3>2
    <3>. QED  BY <3>1, <3>3, <3>4 DEF InputsTyped
  <2>5. OutputsTyped(Meaning(message).outputs)
    <3>1. PICK list : list = Meaning(message).outputs
      OBVIOUS
    <3>2. list = [i \in 1 .. k |-> WithDefault("output", Entries("output", message.maps[1 + n + i]), "script", <<>>)]
      BY <1>1, <1>7, <2>1, <2>2, <3>1 DEF ReadOutputs
    <3>3. ASSUME NEW i \in 1 .. k PROVE OutputTyped(list[i])
      <4>1. EntriesTyped(Entries("output", message.maps[1 + n + i])) /\ MapOk("output", message.maps[1 + n + i])
        BY <1>3, <1>4, <1>5, <1>7, <2>2
      <4>2. PICK entries, more : entries = Entries("output", message.maps[1 + n + i]) /\ more = list[i]
        OBVIOUS
      <4>3. EntriesTyped(entries) /\ "amount" \in FieldsIn(entries)
        BY <4>1, <4>2, RequiredThere
      <4>4. PICK script \in Seq(Nat) : script = <<>>
        <5>1. <<>> \in Seq(Nat)
          OBVIOUS
        <5>. QED  BY <5>1
      <4>5. more = WithDefault("output", entries, "script", script)
        BY <3>2, <4>2, <4>4
      <4>8. <<"output", "script">> \in GivenFields
        BY DEF GivenFields
      <4>6. EntriesTyped(more) /\ "script" \in FieldsIn(more) /\ entries \subseteq more
        BY <4>3, <4>5, <4>8, DefaultTyped
      <4>7. "amount" \in FieldsIn(more)
        BY <4>3, <4>6, FieldsStay
      <4>. QED  BY <4>2, <4>6, <4>7 DEF OutputTyped
    <3>4. list = [i \in 1 .. k |-> list[i]]
      BY <3>2
    <3>. QED  BY <3>1, <3>3, <3>4 DEF OutputsTyped
  <2>. QED  BY <2>3, <2>4, <2>5 DEF PsbtTyped
<1>8. CASE message.format = 0
  <2>1. /\ Meaning(message).global = IntoGlobal(GlobalOf(message), tx)
        /\ Meaning(message).inputs = [i \in 1 .. n |-> IntoInput(ReadInputs(message, n)[i], tx.ins[i])]
        /\ Meaning(message).outputs = [i \in 1 .. k |-> IntoOutput(ReadOutputs(message, k)[i], tx.outs[i])]
    BY <1>1, <1>6, <1>8, MeaningIsRead
  <2>2. MapName("global", 0) = "global0" /\ MapName("input", 0) = "input0" /\ MapName("output", 0) = "output0"
    BY MapNamesOf
  <2>3. GlobalOf(message) = Entries("global0", message.maps[1])
    BY <1>8, <2>2 DEF GlobalOf
  <2>4. tx \in TxType
    <3>1. MapOk("global0", message.maps[1]) /\ message.maps[1] \in Seq(PairType)
      BY <1>3, <1>4, <1>5, <1>8, <2>2
    <3>2. PICK value : value = ValueOf(Entries("global0", message.maps[1]), "unsigned_tx")
      OBVIOUS
    <3>3. tx = DecodeTx[value]
      BY <1>6, <2>3, <3>2 DEF TxOfMessage
    <3>. QED  BY <3>1, <3>2, <3>3, TxOfMapDecodes
  <2>5. Len(tx.ins) = n /\ Len(tx.outs) = k /\ tx.ins \in Seq(TxInType) /\ tx.outs \in Seq(TxOutType)
    <3>1. tx.ins \in Seq(TxInType) /\ tx.outs \in Seq(TxOutType)
      BY <2>4 DEF TxType
    <3>. QED  BY <1>1, <1>6, <1>8, <3>1, MessageCounts
  <2>6. PICK ins \in Seq(TxInType), outs \in Seq(TxOutType) :
            ins = tx.ins /\ outs = tx.outs /\ Len(ins) = n /\ Len(outs) = k
    BY <2>5
  <2>7. (\A i \in 1 .. n : ins[i] \in TxInType) /\ \A i \in 1 .. k : outs[i] \in TxOutType
    BY <2>6
  <2>8. GlobalTyped(Meaning(message).global)
    <3>1. EntriesTyped(Entries("global0", message.maps[1]))
      BY <1>3, <1>4, <1>5, <1>8, <2>2
    <3>. QED  BY <2>1, <2>3, <2>4, <3>1, IntoGlobalTyped
  <2>9. InputsTyped(Meaning(message).inputs)
    <3>1. PICK list : list = Meaning(message).inputs
      OBVIOUS
    <3>2. \A i \in 1 .. n : ReadInputs(message, n)[i] = Entries("input0", message.maps[1 + i])
      BY <1>8, <2>2 DEF ReadInputs
    <3>3. list = [i \in 1 .. n |-> IntoInput(ReadInputs(message, n)[i], tx.ins[i])]
      BY <2>1, <3>1
    <3>4. ASSUME NEW i \in 1 .. n PROVE InputTyped(list[i])
      <4>1. EntriesTyped(Entries("input0", message.maps[1 + i]))
        BY <1>3, <1>4, <1>5, <1>8, <2>2
      <4>2. list[i] = IntoInput(Entries("input0", message.maps[1 + i]), ins[i])
        BY <2>6, <3>2, <3>3
      <4>3. ins[i] \in TxInType
        BY <2>7
      <4>. QED  BY <4>1, <4>2, <4>3, IntoInputTyped
    <3>5. list = [i \in 1 .. n |-> list[i]]
      BY <3>3
    <3>. QED  BY <3>1, <3>4, <3>5 DEF InputsTyped
  <2>10. OutputsTyped(Meaning(message).outputs)
    <3>1. PICK list : list = Meaning(message).outputs
      OBVIOUS
    <3>2. \A i \in 1 .. k : ReadOutputs(message, k)[i] = Entries("output0", message.maps[1 + n + i])
      BY <1>1, <1>8, <2>2 DEF ReadOutputs
    <3>3. list = [i \in 1 .. k |-> IntoOutput(ReadOutputs(message, k)[i], tx.outs[i])]
      BY <2>1, <3>1
    <3>4. ASSUME NEW i \in 1 .. k PROVE OutputTyped(list[i])
      <4>1. EntriesTyped(Entries("output0", message.maps[1 + n + i]))
        BY <1>3, <1>4, <1>5, <1>8, <2>2
      <4>2. list[i] = IntoOutput(Entries("output0", message.maps[1 + n + i]), outs[i])
        BY <2>6, <3>2, <3>3
      <4>3. outs[i] \in TxOutType
        BY <2>7
      <4>. QED  BY <4>1, <4>2, <4>3, IntoOutputTyped
    <3>5. list = [i \in 1 .. k |-> list[i]]
      BY <3>3
    <3>. QED  BY <3>1, <3>4, <3>5 DEF OutputsTyped
  <2>. QED  BY <2>8, <2>9, <2>10 DEF PsbtTyped
<1>. QED  BY <1>2, <1>7, <1>8

-----------------------------------------------------------------------------
(* What is written                                                         *)

\* A list of numbers that is not empty has a largest one.
LEMMA Greatest ==
    ASSUME NEW f, NEW n \in Nat, n > 0, \A i \in 1 .. n : f[i] \in Nat
    PROVE  \E j \in 1 .. n : \A i \in 1 .. n : f[j] >= f[i]
<1>. DEFINE P(m) == \E j \in 1 .. m : \A i \in 1 .. m : f[j] >= f[i]
            U == {m \in Nat : m + 1 <= n => P(m + 1)}
<1>1. 0 \in U
  <2>1. \A i \in 1 .. 0 + 1 : f[1] >= f[i]
    OBVIOUS
  <2>2. 1 \in 1 .. 0 + 1
    OBVIOUS
  <2>. QED  BY <2>1, <2>2
<1>2. ASSUME NEW m \in U PROVE m + 1 \in U
  <2>0. PICK x \in Nat : x = m + 1
    OBVIOUS
  <2>. SUFFICES ASSUME x + 1 <= n PROVE P(x + 1)
    BY <2>0
  <2>1. m + 1 <= n
    BY <2>0
  <2>2. P(m + 1)
    BY <2>1
  <2>3. PICK j \in 1 .. x : \A i \in 1 .. x : f[j] >= f[i]
    BY <2>0, <2>2
  <2>4. PICK a \in Nat, b \in Nat : a = f[j] /\ b = f[x + 1]
    OBVIOUS
  <2>5. j \in 1 .. x + 1 /\ x + 1 \in 1 .. x + 1 /\ \A i \in 1 .. x + 1 : i \in 1 .. x \/ i = x + 1
    OBVIOUS
  <2>6. \A i \in 1 .. x : f[i] \in Nat /\ a >= f[i]
    BY <2>3, <2>4
  <2>7. CASE a >= b
    <3>1. \A i \in 1 .. x + 1 : f[j] >= f[i]
      BY <2>4, <2>5, <2>6, <2>7
    <3>. QED  BY <2>5, <3>1
  <2>8. CASE ~(a >= b)
    <3>1. \A i \in 1 .. x : b >= f[i]
      BY <2>6, <2>8
    <3>2. \A i \in 1 .. x + 1 : f[x + 1] >= f[i]
      BY <2>4, <2>5, <3>1
    <3>. QED  BY <2>5, <3>2
  <2>. QED  BY <2>7, <2>8
<1>3. U = Nat
  <2>1. U \in SUBSET Nat
    OBVIOUS
  <2>. HIDE DEF U
  <2>. QED  BY <1>1, <1>2, <2>1, NumbersInduct
<1>4. PICK m \in Nat : m + 1 = n
  <2>1. n - 1 \in Nat /\ (n - 1) + 1 = n
    OBVIOUS
  <2>. QED  BY <2>1
<1>5. m \in U
  BY <1>3
<1>6. P(m + 1)
  BY <1>4, <1>5
<1>. QED  BY <1>4, <1>6

LEMMA MaxType ==
    ASSUME NEW S \in SUBSET Nat, NEW x \in S, \A y \in S : x >= y
    PROVE  Max(S) \in Nat
  BY DEF Max

LEMMA MaxOfList ==
    ASSUME NEW f, NEW n \in Nat, n > 0, \A i \in 1 .. n : f[i] \in Nat,
           NEW S, S = {f[i] : i \in 1 .. n}
    PROVE  Max(S) \in Nat
<1>1. PICK j \in 1 .. n : \A i \in 1 .. n : f[j] >= f[i]
  BY Greatest
<1>2. S \in SUBSET Nat /\ f[j] \in S /\ \A y \in S : f[j] >= y
  BY <1>1
<1>. QED  BY <1>2, MaxType

LEMMA DetermineType ==
    ASSUME NEW ins, NEW n \in Nat, DOMAIN ins = 1 .. n,
           \A i \in 1 .. n : ins[i].minTime \in Nat /\ ins[i].minHeight \in Nat,
           NEW fallback \in Nat
    PROVE  DetermineLockTime(ins, fallback) \in Nat
<1>1. CASE \A i \in DOMAIN ins : ~HasLockTime(ins[i])
  BY <1>1 DEF DetermineLockTime
<1>2. CASE ~\A i \in DOMAIN ins : ~HasLockTime(ins[i])
  <2>1. n > 0
    BY <1>2
  <2>2. PICK f, g : f = [i \in 1 .. n |-> ins[i].minHeight] /\ g = [i \in 1 .. n |-> ins[i].minTime]
    OBVIOUS
  <2>3. PICK hs, ts : hs = {ins[i].minHeight : i \in DOMAIN ins} /\ ts = {ins[i].minTime : i \in DOMAIN ins}
    OBVIOUS
  <2>4. hs = {f[i] : i \in 1 .. n} /\ ts = {g[i] : i \in 1 .. n}
    BY <2>2, <2>3
  <2>5. \A i \in 1 .. n : f[i] \in Nat /\ g[i] \in Nat
    BY <2>2
  <2>6. Max(hs) \in Nat
    BY <2>1, <2>4, <2>5, MaxOfList
  <2>7. Max(ts) \in Nat
    BY <2>1, <2>4, <2>5, MaxOfList
  <2>. QED  BY <1>2, <2>3, <2>6, <2>7 DEF DetermineLockTime
<1>. QED  BY <1>1, <1>2

-----------------------------------------------------------------------------
(* What is written *)

LEMMA EncodePairTyped ==
    ASSUME NEW e, EntryTyped(e)
    PROVE  EncodePair(e) \in PairType
<1>1. PICK value \in Seq(Nat), data \in Seq(Nat), type \in Nat : value = e.value /\ data = e.data /\ type = e.type
  BY DEF EntryTyped
<1>2. Len(value) \in Nat
  OBVIOUS
<1>. QED  BY <1>1, <1>2 DEF EncodePair, PairType

LEMMA EncodeMapTyped ==
    ASSUME NEW map \in MapNames, NEW entries, EntriesTyped(entries)
    PROVE  EncodeMap(map, entries) \in Seq(PairType)
<1>1. PICK order : order = Orders[map]
  OBVIOUS
<1>2. PICK n \in Nat : n = Len(order)
  <2>1. Len(Orders[map]) \in Nat
    BY DEF MapNames, Orders, GlobalOrder, InputOrder, OutputOrder, GlobalOrder0, InputOrder0, OutputOrder0
  <2>. QED  BY <1>1, <2>1
<1>. DEFINE OfField(field) == {EncodePair(e) : e \in {x \in entries : x.field = field}}
<1>3. ASSUME NEW field PROVE SetToSeq(OfField(field)) \in Seq(PairType)
  <2>1. PICK some : some = {x \in entries : x.field = field}
    OBVIOUS
  <2>2. some \in SUBSET entries
    BY <2>1
  <2>3. EntriesTyped(some)
    BY <2>2, AnyTyped
  <2>4. PICK f : f = [e \in some |-> EncodePair(e)]
    OBVIOUS
  <2>5. PICK T : T = OfField(field)
    OBVIOUS
  <2>6. T = {f[e] : e \in some}
    BY <2>1, <2>4, <2>5
  <2>7. IsFiniteSet(T)
    BY <2>3, <2>6, FiniteImage DEF EntriesTyped
  <2>8. T \in SUBSET PairType
    BY <2>3, <2>4, <2>6, EncodePairTyped DEF EntriesTyped
  <2>9. SetToSeq(T) \in Seq(T)
    BY <2>7, SetToSeqLists DEF Lists
  <2>10. SetToSeq(T) \in Seq(PairType)
    BY <2>8, <2>9
  <2>. QED  BY <2>5, <2>10
<1>4. PICK seqs : seqs = [i \in 1 .. n |-> SetToSeq(OfField(order[i]))]
  OBVIOUS
<1>5. EncodeMap(map, entries) = FlattenSeq(seqs)
  BY <1>1, <1>2, <1>4 DEF EncodeMap
<1>6. seqs = [i \in 1 .. n |-> seqs[i]] /\ \A i \in 1 .. n : seqs[i] \in Seq(PairType)
  BY <1>3, <1>4
<1>7. seqs \in Seq(Seq(PairType))
  BY <1>6, ListType
<1>. QED  BY <1>5, <1>7, FlattenType

\* A transaction that can be written.
TxTyped(tx) ==
    /\ tx.version \in Seq(Nat) /\ tx.lock \in Seq(Nat)
    /\ \E n \in Nat : /\ tx.ins = [i \in 1 .. n |-> tx.ins[i]]
                      /\ \A i \in 1 .. n : EncodeTxIn(tx.ins[i]) \in Seq(Nat)
    /\ \E k \in Nat : /\ tx.outs = [i \in 1 .. k |-> tx.outs[i]]
                      /\ \A i \in 1 .. k : EncodeTxOut(tx.outs[i]) \in Seq(Nat)

LEMMA Prefixed ==
    ASSUME NEW list, NEW n \in Nat, list = [i \in 1 .. n |-> list[i]],
           NEW written, written = [i \in 1 .. n |-> written[i]],
           \A i \in 1 .. n : written[i] \in Seq(Nat)
    PROVE  <<Len(list)>> \in Seq(Nat) /\ FlattenSeq(written) \in Seq(Nat)
<1>1. Len(list) = n
  OBVIOUS
<1>2. <<n>> \in Seq(Nat)
  BY OneByte
<1>3. written \in Seq(Seq(Nat))
  BY ListType
<1>4. FlattenSeq(written) \in Seq(Nat)
  BY <1>3, FlattenType
<1>. QED  BY <1>1, <1>2, <1>4

LEMMA EncodeTxTyped ==
    ASSUME NEW tx, TxTyped(tx)
    PROVE  EncodeTx(tx) \in Seq(Nat)
<1>1. PICK n \in Nat : /\ tx.ins = [i \in 1 .. n |-> tx.ins[i]]
                       /\ \A i \in 1 .. n : EncodeTxIn(tx.ins[i]) \in Seq(Nat)
  BY DEF TxTyped
<1>2. PICK k \in Nat : /\ tx.outs = [i \in 1 .. k |-> tx.outs[i]]
                       /\ \A i \in 1 .. k : EncodeTxOut(tx.outs[i]) \in Seq(Nat)
  BY DEF TxTyped
<1>3. PICK a, b : a = [i \in DOMAIN tx.ins |-> EncodeTxIn(tx.ins[i])]
                  /\ b = [i \in DOMAIN tx.outs |-> EncodeTxOut(tx.outs[i])]
  OBVIOUS
<1>4. DOMAIN tx.ins = 1 .. n /\ DOMAIN tx.outs = 1 .. k
  BY <1>1, <1>2
<1>5. a = [i \in 1 .. n |-> a[i]] /\ \A i \in 1 .. n : a[i] \in Seq(Nat)
  BY <1>1, <1>3, <1>4
<1>6. b = [i \in 1 .. k |-> b[i]] /\ \A i \in 1 .. k : b[i] \in Seq(Nat)
  BY <1>2, <1>3, <1>4
<1>7. <<Len(tx.ins)>> \in Seq(Nat) /\ FlattenSeq(a) \in Seq(Nat)
  BY <1>1, <1>5, Prefixed
<1>8. <<Len(tx.outs)>> \in Seq(Nat) /\ FlattenSeq(b) \in Seq(Nat)
  BY <1>2, <1>6, Prefixed
<1>9. tx.version \in Seq(Nat) /\ tx.lock \in Seq(Nat)
  BY DEF TxTyped
<1>10. PICK v \in Seq(Nat), ni \in Seq(Nat), ins \in Seq(Nat), no \in Seq(Nat), outs \in Seq(Nat), lock \in Seq(Nat) :
          v = tx.version /\ ni = <<Len(tx.ins)>> /\ ins = FlattenSeq(a) /\ no = <<Len(tx.outs)>>
          /\ outs = FlattenSeq(b) /\ lock = tx.lock
  BY <1>7, <1>8, <1>9
<1>11. EncodeTx(tx) = v \o ni \o ins \o no \o outs \o lock
  BY <1>3, <1>10 DEF EncodeTx
<1>. QED  BY <1>11

LEMMA TxInBytes ==
    ASSUME NEW in, in.txid \in Seq(Nat), in.vout \in Seq(Nat), in.seq \in Seq(Nat)
    PROVE  EncodeTxIn(in) \in Seq(Nat)
<1>1. PICK a \in Seq(Nat), b \in Seq(Nat), c \in Seq(Nat) : a = in.txid /\ b = in.vout /\ c = in.seq
  OBVIOUS
<1>2. PICK zero \in Seq(Nat) : zero = <<0>>
  BY OneByte
<1>3. EncodeTxIn(in) = a \o b \o zero \o c
  BY <1>1, <1>2 DEF EncodeTxIn
<1>. QED  BY <1>3

LEMMA TxOutBytes ==
    ASSUME NEW out, out.amount \in Seq(Nat), out.script \in Seq(Nat)
    PROVE  EncodeTxOut(out) \in Seq(Nat)
<1>1. PICK a \in Seq(Nat), b \in Seq(Nat) : a = out.amount /\ b = out.script
  OBVIOUS
<1>2. PICK n \in Nat : n = Len(b)
  OBVIOUS
<1>3. PICK size \in Seq(Nat) : size = <<n>>
  BY OneByte
<1>4. EncodeTxOut(out) = a \o size \o b
  BY <1>1, <1>2, <1>3 DEF EncodeTxOut
<1>. QED  BY <1>4

LEMMA LockTimeType ==
    ASSUME NEW psbt, PsbtTyped(psbt)
    PROVE  LockTimeOf(psbt) \in Nat
<1>1. GlobalTyped(psbt.global) /\ InputsTyped(psbt.inputs) /\ OutputsTyped(psbt.outputs)
  BY DEF PsbtTyped
<1>2. PICK n \in Nat : psbt.inputs = [i \in 1 .. n |-> psbt.inputs[i]] /\ \A i \in 1 .. n : InputTyped(psbt.inputs[i])
  BY <1>1 DEF InputsTyped
<1>3. PICK k \in Nat : psbt.outputs = [i \in 1 .. k |-> psbt.outputs[i]] /\ \A i \in 1 .. k : OutputTyped(psbt.outputs[i])
  BY <1>1 DEF OutputsTyped
<1>4. DOMAIN psbt.inputs = 1 .. n /\ DOMAIN psbt.outputs = 1 .. k
  BY <1>2, <1>3
<1>5. Zero \in Seq(Nat)
  BY NumberBytesType DEF Zero
<1>6. PICK locks : locks = LockFields(psbt)
  OBVIOUS
<1>7. locks = [i \in 1 .. n |->
        [minTime |-> Number(ValueOr(psbt.inputs[i], "min_time", Zero)),
         minHeight |-> Number(ValueOr(psbt.inputs[i], "min_height", Zero))]]
  BY <1>4, <1>6 DEF LockFields
<1>8. ASSUME NEW i \in 1 .. n PROVE locks[i].minTime \in Nat /\ locks[i].minHeight \in Nat
  <2>1. EntriesTyped(psbt.inputs[i])
    BY <1>2 DEF InputTyped
  <2>2. ValueOr(psbt.inputs[i], "min_time", Zero) \in Seq(Nat) /\ ValueOr(psbt.inputs[i], "min_height", Zero) \in Seq(Nat)
    BY <1>5, <2>1, ValueOrTyped
  <2>3. Number(ValueOr(psbt.inputs[i], "min_time", Zero)) \in Nat /\ Number(ValueOr(psbt.inputs[i], "min_height", Zero)) \in Nat
    BY <2>2, NumberType
  <2>. QED  BY <1>7, <2>3
<1>9. Fallback(psbt) \in Nat
  <2>1. ValueOr(psbt.global, "fallback_lock_time", Zero) \in Seq(Nat)
    BY <1>1, <1>5, ValueOrTyped DEF GlobalTyped
  <2>. QED  BY <2>1, NumberType DEF Fallback
<1>10. LockTimeOf(psbt) \in Nat
  <2>1. DOMAIN locks = 1 .. n
    BY <1>7
  <2>. QED  BY <1>6, <1>8, <1>9, <2>1, DetermineType DEF LockTimeOf
<1>. QED  BY <1>10

LEMMA TxOfPsbtTyped ==
    ASSUME NEW psbt, PsbtTyped(psbt), NEW tx, tx = [TxOfPsbt(psbt) EXCEPT !.lock = NumberBytes(LockTimeOf(psbt))]
    PROVE  TxTyped(tx)
<1>1. GlobalTyped(psbt.global) /\ InputsTyped(psbt.inputs) /\ OutputsTyped(psbt.outputs)
  BY DEF PsbtTyped
<1>2. PICK n \in Nat : psbt.inputs = [i \in 1 .. n |-> psbt.inputs[i]] /\ \A i \in 1 .. n : InputTyped(psbt.inputs[i])
  BY <1>1 DEF InputsTyped
<1>3. PICK k \in Nat : psbt.outputs = [i \in 1 .. k |-> psbt.outputs[i]] /\ \A i \in 1 .. k : OutputTyped(psbt.outputs[i])
  BY <1>1 DEF OutputsTyped
<1>4. DOMAIN psbt.inputs = 1 .. n /\ DOMAIN psbt.outputs = 1 .. k
  BY <1>2, <1>3
<1>5. LockTimeOf(psbt) \in Nat
  BY LockTimeType
<1>6. PICK of : of = TxOfPsbt(psbt)
  OBVIOUS
<1>7. /\ tx.version = of.version /\ tx.ins = of.ins /\ tx.outs = of.outs
      /\ tx.lock = NumberBytes(LockTimeOf(psbt))
  BY <1>6 DEF TxOfPsbt
<1>8. tx.lock \in Seq(Nat)
  BY <1>5, <1>7, NumberBytesType
<1>9. tx.version \in Seq(Nat)
  <2>1. of.version = ValueOf(psbt.global, "tx_version")
    BY <1>6 DEF TxOfPsbt
  <2>. QED  BY <1>1, <1>7, <2>1, ValueTyped DEF GlobalTyped
<1>10. DefaultSequence \in Seq(Nat)
  <2>1. FixedSize \in Nat
    BY SizeAssumption
  <2>2. DefaultSequence = [i \in 1 .. FixedSize |-> DefaultSequence[i]] /\ \A i \in 1 .. FixedSize : DefaultSequence[i] \in Nat
    BY DEF DefaultSequence
  <2>. QED  BY <2>1, <2>2, ListType
<1>11. /\ tx.ins = [i \in 1 .. n |-> tx.ins[i]]
       /\ \A i \in 1 .. n : EncodeTxIn(tx.ins[i]) \in Seq(Nat)
  <2>1. tx.ins = [i \in 1 .. n |->
            [txid |-> ValueOf(psbt.inputs[i], "previous_txid"),
             vout |-> ValueOf(psbt.inputs[i], "spent_output_index"),
             seq |-> ValueOr(psbt.inputs[i], "sequence", DefaultSequence)]]
    BY <1>4, <1>6, <1>7 DEF TxOfPsbt
  <2>2. ASSUME NEW i \in 1 .. n PROVE EncodeTxIn(tx.ins[i]) \in Seq(Nat)
    <3>1. EntriesTyped(psbt.inputs[i]) /\ {"previous_txid", "spent_output_index"} \subseteq FieldsIn(psbt.inputs[i])
      BY <1>2 DEF InputTyped
    <3>2. PICK txid \in Seq(Nat), vout \in Seq(Nat), seq \in Seq(Nat) :
              /\ txid = ValueOf(psbt.inputs[i], "previous_txid")
              /\ vout = ValueOf(psbt.inputs[i], "spent_output_index")
              /\ seq = ValueOr(psbt.inputs[i], "sequence", DefaultSequence)
      BY <1>10, <3>1, ValueTyped, ValueOrTyped
    <3>3. tx.ins[i] = [txid |-> txid, vout |-> vout, seq |-> seq]
      BY <2>1, <3>2
    <3>4. PICK in : in = tx.ins[i]
      OBVIOUS
    <3>5. in.txid = txid /\ in.vout = vout /\ in.seq = seq
      BY <3>3, <3>4
    <3>. QED  BY <3>4, <3>5, TxInBytes
  <2>3. tx.ins = [i \in 1 .. n |-> tx.ins[i]]
    BY <2>1
  <2>. QED  BY <2>2, <2>3
<1>12. /\ tx.outs = [i \in 1 .. k |-> tx.outs[i]]
       /\ \A i \in 1 .. k : EncodeTxOut(tx.outs[i]) \in Seq(Nat)
  <2>1. tx.outs = [i \in 1 .. k |->
            [amount |-> ValueOf(psbt.outputs[i], "amount"),
             script |-> ValueOf(psbt.outputs[i], "script")]]
    BY <1>4, <1>6, <1>7 DEF TxOfPsbt
  <2>2. ASSUME NEW i \in 1 .. k PROVE EncodeTxOut(tx.outs[i]) \in Seq(Nat)
    <3>1. EntriesTyped(psbt.outputs[i]) /\ {"amount", "script"} \subseteq FieldsIn(psbt.outputs[i])
      BY <1>3 DEF OutputTyped
    <3>2. PICK amount \in Seq(Nat), script \in Seq(Nat) :
              /\ amount = ValueOf(psbt.outputs[i], "amount")
              /\ script = ValueOf(psbt.outputs[i], "script")
      BY <3>1, ValueTyped
    <3>3. tx.outs[i] = [amount |-> amount, script |-> script]
      BY <2>1, <3>2
    <3>4. PICK out : out = tx.outs[i]
      OBVIOUS
    <3>5. out.amount = amount /\ out.script = script
      BY <3>3, <3>4
    <3>. QED  BY <3>4, <3>5, TxOutBytes
  <2>3. tx.outs = [i \in 1 .. k |-> tx.outs[i]]
    BY <2>1
  <2>. QED  BY <2>2, <2>3
<1>. QED  BY <1>8, <1>9, <1>11, <1>12 DEF TxTyped

\* Lists of the maps of one kind, as they are written.
LEMMA MapsWritten ==
    ASSUME NEW first \in Seq(PairType),
           NEW ins, NEW n \in Nat, ins = [i \in 1 .. n |-> ins[i]], \A i \in 1 .. n : ins[i] \in Seq(PairType),
           NEW outs, NEW k \in Nat, outs = [i \in 1 .. k |-> outs[i]], \A i \in 1 .. k : outs[i] \in Seq(PairType)
    PROVE  <<first>> \o ins \o outs \in Seq(Seq(PairType))
<1>1. PICK T : T = Seq(PairType)
  OBVIOUS
<1>2. ins \in Seq(T) /\ outs \in Seq(T)
  BY <1>1, ListType
<1>3. <<first>> \in Seq(T)
  BY <1>1
<1>4. (<<first>> \o ins) \o outs \in Seq(T)
  BY <1>2, <1>3
<1>. QED  BY <1>1, <1>4

LEMMA EncodeOutputTyped ==
    ASSUME NEW entries, EntriesTyped(entries)
    PROVE  EncodeOutput(entries) \in Seq(PairType)
<1>1. Without(entries, {"script"}) \in SUBSET entries
  BY DEF Without
<1>2. EntriesTyped(Without(entries, {"script"}))
  BY <1>1, AnyTyped
<1>3. "output" \in MapNames
  BY DEF MapNames
<1>4. EncodeMap("output", entries) \in Seq(PairType)
  BY <1>3, EncodeMapTyped
<1>5. EncodeMap("output", Without(entries, {"script"})) \in Seq(PairType)
  BY <1>2, <1>3, EncodeMapTyped
<1>. QED  BY <1>4, <1>5 DEF EncodeOutput

LEMMA UnsignedTxNumber ==
    GlobalFields.unsigned_tx \in Nat
  BY DEF GlobalFields

LEMMA EncodeGlobal0Typed ==
    ASSUME NEW psbt, PsbtTyped(psbt)
    PROVE  EncodeGlobal0(psbt) \in Seq(PairType)
<1>1. PICK tx : tx = [TxOfPsbt(psbt) EXCEPT !.lock = NumberBytes(LockTimeOf(psbt))]
  OBVIOUS
<1>2. EncodeTx(tx) \in Seq(Nat)
  BY <1>1, TxOfPsbtTyped, EncodeTxTyped
<1>3. PICK e : e = EntryOf("global0", GlobalFields.unsigned_tx, <<>>, EncodeTx(tx))
  OBVIOUS
<1>4. EntryTyped(e)
  <2>1. <<>> \in Seq(Nat)
    OBVIOUS
  <2>. QED  BY <1>2, <1>3, <2>1, UnsignedTxNumber, EntryOfTyped
<1>5. EntriesTyped(psbt.global)
  BY DEF PsbtTyped, GlobalTyped
<1>6. PICK more : more = psbt.global \union {e}
  OBVIOUS
<1>7. EntriesTyped(more)
  BY <1>4, <1>5, <1>6, AnyTyped
<1>8. "global0" \in MapNames
  BY DEF MapNames
<1>9. EncodeGlobal0(psbt) = EncodeMap("global0", more)
  BY <1>1, <1>3, <1>6 DEF EncodeGlobal0
<1>. QED  BY <1>7, <1>8, <1>9, EncodeMapTyped

LEMMA Encode2Typed ==
    ASSUME NEW psbt, PsbtTyped(psbt)
    PROVE  Encode2(psbt) \in Seq(Seq(PairType))
<1>1. GlobalTyped(psbt.global) /\ InputsTyped(psbt.inputs) /\ OutputsTyped(psbt.outputs)
  BY DEF PsbtTyped
<1>2. PICK n \in Nat : psbt.inputs = [i \in 1 .. n |-> psbt.inputs[i]] /\ \A i \in 1 .. n : InputTyped(psbt.inputs[i])
  BY <1>1 DEF InputsTyped
<1>3. PICK k \in Nat : psbt.outputs = [i \in 1 .. k |-> psbt.outputs[i]] /\ \A i \in 1 .. k : OutputTyped(psbt.outputs[i])
  BY <1>1 DEF OutputsTyped
<1>4. DOMAIN psbt.inputs = 1 .. n /\ DOMAIN psbt.outputs = 1 .. k
  BY <1>2, <1>3
<1>5. PICK global \in Seq(PairType) : global = EncodeMap("global", psbt.global)
  <2>1. "global" \in MapNames /\ EntriesTyped(psbt.global)
    BY <1>1 DEF MapNames, GlobalTyped
  <2>. QED  BY <2>1, EncodeMapTyped
<1>6. PICK ins, outs : ins = [i \in 1 .. n |-> EncodeMap("input", psbt.inputs[i])]
                       /\ outs = [i \in 1 .. k |-> EncodeOutput(psbt.outputs[i])]
  OBVIOUS
<1>7. ASSUME NEW i \in 1 .. n PROVE ins[i] \in Seq(PairType)
  <2>1. "input" \in MapNames /\ EntriesTyped(psbt.inputs[i])
    BY <1>2 DEF MapNames, InputTyped
  <2>. QED  BY <1>6, <2>1, EncodeMapTyped
<1>8. ASSUME NEW i \in 1 .. k PROVE outs[i] \in Seq(PairType)
  <2>1. EntriesTyped(psbt.outputs[i])
    BY <1>3 DEF OutputTyped
  <2>. QED  BY <1>6, <2>1, EncodeOutputTyped
<1>9. ins = [i \in 1 .. n |-> ins[i]] /\ outs = [i \in 1 .. k |-> outs[i]]
  BY <1>6
<1>10. Encode2(psbt) = <<global>> \o ins \o outs
  BY <1>4, <1>5, <1>6 DEF Encode2
<1>. QED  BY <1>7, <1>8, <1>9, <1>10, MapsWritten

LEMMA Encode0Typed ==
    ASSUME NEW psbt, PsbtTyped(psbt)
    PROVE  Encode0(psbt) \in Seq(Seq(PairType))
<1>1. InputsTyped(psbt.inputs) /\ OutputsTyped(psbt.outputs)
  BY DEF PsbtTyped
<1>2. PICK n \in Nat : psbt.inputs = [i \in 1 .. n |-> psbt.inputs[i]] /\ \A i \in 1 .. n : InputTyped(psbt.inputs[i])
  BY <1>1 DEF InputsTyped
<1>3. PICK k \in Nat : psbt.outputs = [i \in 1 .. k |-> psbt.outputs[i]] /\ \A i \in 1 .. k : OutputTyped(psbt.outputs[i])
  BY <1>1 DEF OutputsTyped
<1>4. DOMAIN psbt.inputs = 1 .. n /\ DOMAIN psbt.outputs = 1 .. k
  BY <1>2, <1>3
<1>5. PICK global \in Seq(PairType) : global = EncodeGlobal0(psbt)
  BY EncodeGlobal0Typed
<1>6. PICK ins, outs : ins = [i \in 1 .. n |-> EncodeMap("input0", psbt.inputs[i])]
                       /\ outs = [i \in 1 .. k |-> EncodeMap("output0", psbt.outputs[i])]
  OBVIOUS
<1>7. ASSUME NEW i \in 1 .. n PROVE ins[i] \in Seq(PairType)
  <2>1. "input0" \in MapNames /\ EntriesTyped(psbt.inputs[i])
    BY <1>2 DEF MapNames, InputTyped
  <2>. QED  BY <1>6, <2>1, EncodeMapTyped
<1>8. ASSUME NEW i \in 1 .. k PROVE outs[i] \in Seq(PairType)
  <2>1. "output0" \in MapNames /\ EntriesTyped(psbt.outputs[i])
    BY <1>3 DEF MapNames, OutputTyped
  <2>. QED  BY <1>6, <2>1, EncodeMapTyped
<1>9. ins = [i \in 1 .. n |-> ins[i]] /\ outs = [i \in 1 .. k |-> outs[i]]
  BY <1>6
<1>10. Encode0(psbt) = <<global>> \o ins \o outs
  BY <1>4, <1>5, <1>6 DEF Encode0
<1>. QED  BY <1>7, <1>8, <1>9, <1>10, MapsWritten

\* A PSBT that can be written is written as a message.
LEMMA EncodeTyped ==
    ASSUME NEW psbt, PsbtTyped(psbt), NEW target \in {0, 2}
    PROVE  Encode(psbt, target) \in MessageType /\ Encode(psbt, target).format = target
<1>1. PICK maps \in Seq(Seq(PairType)) : maps = IF target = 2 THEN Encode2(psbt) ELSE Encode0(psbt)
  BY Encode0Typed, Encode2Typed
<1>2. Encode(psbt, target) = [format |-> target, magic |-> PSBT_MAGIC, separator |-> PSBT_SEPARATOR, maps |-> maps]
  BY <1>1 DEF Encode
<1>3. PSBT_MAGIC \in Seq(Nat) /\ PSBT_SEPARATOR \in Nat
  BY MagicType
<1>. QED  BY <1>2, <1>3 DEF MessageType

\* What a message that is well formed means is written as a message.
LEMMA MeaningEncodes ==
    ASSUME NEW message \in MessageType, WellFormed(message), NEW target \in {0, 2}
    PROVE  Encode(Meaning(message), target) \in MessageType /\ Encode(Meaning(message), target).format = target
  BY MeaningTyped, EncodeTyped

------------------------------------------------------------------------------
(* A number of fixed size and its bytes                                     *)

\* v[i] is the number the bytes from byte i on say.
ValueSteps(bytes, n, v) ==
    /\ v[n + 1] = 0
    /\ \A i \in 1 .. n : v[i] = bytes[i] + 256 * v[i + 1]
    /\ \A i \in 1 .. n + 1 : v[i] \in Nat
    /\ v[1] = Number(bytes)

LEMMA NumberStep ==
    ASSUME NEW bytes \in Seq(Nat), NEW n, n = Len(bytes)
    PROVE  \E v : ValueSteps(bytes, n, v)
<1>1. n \in Nat /\ DOMAIN bytes = 1 .. n /\ \A i \in 1 .. n : bytes[i] \in Nat
  OBVIOUS
<1>2. PICK iter : iter = CHOOSE f : Folded(bytes, 1 .. n, f)
  OBVIOUS
<1>3. Folded(bytes, 1 .. n, iter)
  BY <1>1, <1>2, FoldedExists
<1>4. Number(bytes) = iter[1 .. n]
  BY <1>1, <1>2 DEF Number, FoldRight, MapThenFoldSet, Folded
<1>5. iter[{}] = 0 /\ \A s \in SUBSET (1 .. n) : s # {} => iter[s] = bytes[Min(s)] + 256 * iter[s \ {Min(s)}]
  <2>1. FoldSteps(bytes, 1 .. n, iter)
    BY <1>3, FoldedMeans
  <2>. QED  BY <2>1 DEF FoldSteps
<1>6. PICK v : v = [i \in 1 .. n + 1 |-> iter[i .. n]]
  OBVIOUS
<1>7. v[n + 1] = 0
  <2>1. n + 1 .. n = {}
    BY <1>1
  <2>2. n + 1 \in 1 .. n + 1
    BY <1>1
  <2>. QED  BY <1>5, <1>6, <2>1, <2>2
<1>8. ASSUME NEW i \in 1 .. n PROVE v[i] = bytes[i] + 256 * v[i + 1]
  <2>1. PICK s : s = i .. n
    OBVIOUS
  <2>2. s \in SUBSET Nat /\ i \in s /\ (\A y \in s : i <= y) /\ s \in SUBSET (1 .. n) /\ s # {}
    BY <1>1, <2>1
  <2>3. Min(s) = i
    BY <2>2, MinIs
  <2>4. s \ {i} = i + 1 .. n
    BY <1>1, <2>1
  <2>5. iter[s] = bytes[i] + 256 * iter[s \ {i}]
    BY <1>5, <2>2, <2>3, ZenonT(30)
  <2>6. i \in 1 .. n + 1 /\ i + 1 \in 1 .. n + 1
    BY <1>1
  <2>. QED  BY <1>6, <2>1, <2>4, <2>5, <2>6
<1>. DEFINE T == {j \in Nat : j <= n => v[n + 1 - j] \in Nat}
<1>9. T = Nat
  <2>1. 0 \in T
    <3>1. n + 1 - 0 = n + 1
      BY <1>1
    <3>. QED  BY <1>7, <3>1
  <2>2. ASSUME NEW j \in T PROVE j + 1 \in T
    <3>. SUFFICES ASSUME j + 1 <= n PROVE v[n + 1 - (j + 1)] \in Nat
      OBVIOUS
    <3>1. PICK i \in 1 .. n : i = n + 1 - (j + 1) /\ i + 1 = n + 1 - j
      BY <1>1
    <3>2. v[i + 1] \in Nat /\ bytes[i] \in Nat
      BY <1>1, <3>1
    <3>3. v[i] = bytes[i] + 256 * v[i + 1]
      BY <1>8
    <3>. QED  BY <3>1, <3>2, <3>3
  <2>3. T \in SUBSET Nat
    OBVIOUS
  <2>. HIDE DEF T
  <2>. QED  BY <2>1, <2>2, <2>3, NumbersInduct
<1>10. ASSUME NEW i \in 1 .. n + 1 PROVE v[i] \in Nat
  <2>0. n \in Nat
    BY <1>1
  <2>1. n + 1 - i \in Nat /\ n + 1 - i <= n /\ n + 1 - (n + 1 - i) = i
    BY <2>0
  <2>3. PICK j : j = n + 1 - i
    OBVIOUS
  <2>2. j \in T
    <3>. HIDE DEF T
    <3>. QED  BY <1>9, <2>1, <2>3
  <2>. QED  BY <2>1, <2>2, <2>3
<1>11. v[1] = Number(bytes)
  <2>1. 1 \in 1 .. n + 1
    BY <1>1
  <2>. QED  BY <1>4, <1>6, <2>1
<1>12. ValueSteps(bytes, n, v)
  BY <1>7, <1>8, <1>10, <1>11 DEF ValueSteps
<1>. QED  BY <1>12

Above(y, b, x) == y = b + 256 * x
Divides(y, b, x) == y % 256 = b /\ y \div 256 = x

LEMMA ByteBelow ==
    ASSUME NEW b \in Byte, NEW x \in Nat, NEW y, Above(y, b, x)
    PROVE  Divides(y, b, x)
  BY DEF Byte, Above, Divides

\* What bytes say is written with them,
LEMMA NumberIsWritten ==
    ASSUME NEW bytes \in Seq(Byte), Len(bytes) = FixedSize
    PROVE  NumberBytes(Number(bytes)) = bytes
<1>1. bytes \in Seq(Nat)
  BY BytesAreNumbers
<1>2. PICK n \in Nat : n = FixedSize /\ n > 0
  BY SizeAssumption
<1>3. PICK v : ValueSteps(bytes, n, v)
  BY <1>1, <1>2, NumberStep
<1>4. /\ \A i \in 1 .. n : v[i] = bytes[i] + 256 * v[i + 1]
      /\ \A i \in 1 .. n + 1 : v[i] \in Nat
      /\ v[1] = Number(bytes)
  BY <1>3 DEF ValueSteps
<1>5. v[1] \in Nat
  BY <1>4
<1>6. PICK r : DigitSteps(v[1], r, NumberBytes(v[1]))
  BY <1>5, DigitsStep
<1>7. PICK out : out = NumberBytes(v[1])
  OBVIOUS
<1>8. /\ r[0] = v[1]
      /\ \A i \in 1 .. n - 1 : r[i] = r[i - 1] \div 256
      /\ \A i \in 1 .. n : out[i] = r[i - 1] % 256
      /\ out \in Seq(Byte) /\ Len(out) = n
  BY <1>2, <1>6, <1>7 DEF DigitSteps
<1>9. ASSUME NEW i \in 1 .. n PROVE bytes[i] \in Byte /\ v[i + 1] \in Nat
  BY <1>2, <1>4
<1>10. ASSUME NEW i \in 1 .. n PROVE v[i] % 256 = bytes[i] /\ v[i] \div 256 = v[i + 1]
  <2>0. PICK y : y = v[i]
    OBVIOUS
  <2>1. PICK b \in Byte, x \in Nat : b = bytes[i] /\ x = v[i + 1] /\ y = v[i]
    BY <1>9, <2>0
  <2>2. y = b + 256 * x
    BY <1>4, <2>1
  <2>3. Above(y, b, x)
    BY <2>2 DEF Above
  <2>4. Divides(y, b, x)
    BY <2>3, ByteBelow
  <2>5. y % 256 = b /\ y \div 256 = x
    BY <2>4 DEF Divides
  <2>. QED  BY <2>1, <2>5
<1>. DEFINE T == {j \in Nat : j < n => r[j] = v[j + 1]}
<1>11. T = Nat
  <2>1. 0 \in T
    BY <1>8
  <2>2. ASSUME NEW j \in T PROVE j + 1 \in T
    <3>. SUFFICES ASSUME j + 1 < n PROVE r[j + 1] = v[(j + 1) + 1]
      OBVIOUS
    <3>1. PICK i \in 1 .. n - 1 : i = j + 1 /\ i - 1 = j
      BY <1>2
    <3>2. r[i] = r[j] \div 256 /\ r[j] = v[i]
      BY <1>8, <3>1
    <3>3. i \in 1 .. n
      BY <1>2
    <3>4. v[i] \div 256 = v[i + 1]
      BY <1>10, <3>3
    <3>. QED  BY <3>1, <3>2, <3>4
  <2>3. T \in SUBSET Nat
    OBVIOUS
  <2>. HIDE DEF T
  <2>. QED  BY <2>1, <2>2, <2>3, NumbersInduct
<1>12. ASSUME NEW i \in 1 .. n PROVE out[i] = bytes[i]
  <2>1. PICK j \in Nat : j = i - 1 /\ j < n /\ j + 1 = i
    BY <1>2
  <2>2. r[j] = v[i]
    BY <1>11, <2>1
  <2>3. out[i] = v[i] % 256
    BY <1>8, <2>1, <2>2
  <2>4. v[i] % 256 = bytes[i]
    BY <1>10
  <2>. QED  BY <2>3, <2>4
<1>13. out = [i \in 1 .. n |-> out[i]] /\ bytes = [i \in 1 .. n |-> bytes[i]]
  BY <1>2, <1>8
<1>14. out = bytes
  BY <1>12, <1>13
<1>. QED  BY <1>4, <1>7, <1>14

\* and a number of one byte is read as it was written.
LEMMA SmallIsRead ==
    ASSUME NEW m \in Byte
    PROVE  Number(NumberBytes(m)) = m
<1>1. m \in Nat
  BY ByteIsNumber
<1>2. PICK n \in Nat : n = FixedSize /\ n > 0
  BY SizeAssumption
<1>3. PICK out : out = NumberBytes(m)
  OBVIOUS
<1>4. PICK r : DigitSteps(m, r, out)
  BY <1>1, <1>3, DigitsStep
<1>5. /\ r[0] = m
      /\ \A i \in 1 .. n - 1 : r[i] = r[i - 1] \div 256
      /\ \A i \in 1 .. n : out[i] = r[i - 1] % 256
      /\ out \in Seq(Byte) /\ Len(out) = n
  BY <1>2, <1>4 DEF DigitSteps
<1>6. m \div 256 = 0 /\ m % 256 = m /\ 0 \div 256 = 0 /\ 0 % 256 = 0
  <2>1. m % 256 = m /\ m \div 256 = 0
    BY DEF Byte
  <2>. QED  BY <2>1
<1>. DEFINE T == {j \in Nat : 0 < j /\ j < n => r[j] = 0}
<1>7. T = Nat
  <2>1. 0 \in T
    OBVIOUS
  <2>2. ASSUME NEW j \in T PROVE j + 1 \in T
    <3>. SUFFICES ASSUME j + 1 < n PROVE r[j + 1] = 0
      OBVIOUS
    <3>1. PICK i \in 1 .. n - 1 : i = j + 1 /\ i - 1 = j
      BY <1>2
    <3>2. r[i] = r[j] \div 256
      BY <1>5, <3>1
    <3>3. CASE j = 0
      BY <1>5, <1>6, <3>1, <3>2, <3>3
    <3>4. CASE j # 0
      BY <1>6, <3>1, <3>2, <3>4
    <3>. QED  BY <3>3, <3>4
  <2>3. T \in SUBSET Nat
    OBVIOUS
  <2>. HIDE DEF T
  <2>. QED  BY <2>1, <2>2, <2>3, NumbersInduct
<1>8. ASSUME NEW i \in 2 .. n PROVE out[i] = 0
  <2>1. PICK j \in Nat : j = i - 1 /\ 0 < j /\ j < n /\ i \in 1 .. n
    BY <1>2
  <2>2. r[j] = 0
    BY <1>7, <2>1
  <2>. QED  BY <1>5, <1>6, <2>1, <2>2
<1>9. out[1] = m
  <2>1. 1 \in 1 .. n /\ 1 - 1 = 0
    BY <1>2
  <2>. QED  BY <1>5, <1>6, <2>1
<1>10. out \in Seq(Nat)
  BY <1>5, BytesAreNumbers
<1>11. PICK v : ValueSteps(out, n, v)
  BY <1>5, <1>10, NumberStep
<1>12. /\ v[n + 1] = 0 /\ \A i \in 1 .. n : v[i] = out[i] + 256 * v[i + 1]
       /\ v[1] = Number(out)
  BY <1>11 DEF ValueSteps
<1>. DEFINE U == {j \in Nat : j < n => v[n + 1 - j] = 0}
<1>13. U = Nat
  <2>1. 0 \in U
    <3>1. n + 1 - 0 = n + 1
      BY <1>2
    <3>. QED  BY <1>12, <3>1
  <2>2. ASSUME NEW j \in U PROVE j + 1 \in U
    <3>. SUFFICES ASSUME j + 1 < n PROVE v[n + 1 - (j + 1)] = 0
      OBVIOUS
    <3>1. PICK i \in 2 .. n : i = n + 1 - (j + 1) /\ i + 1 = n + 1 - j /\ i \in 1 .. n
      BY <1>2
    <3>2. v[i + 1] = 0 /\ out[i] = 0
      BY <1>2, <1>8, <3>1
    <3>3. v[i] = out[i] + 256 * v[i + 1]
      BY <1>12, <3>1
    <3>. QED  BY <3>1, <3>2, <3>3
  <2>3. U \in SUBSET Nat
    OBVIOUS
  <2>. HIDE DEF U
  <2>. QED  BY <2>1, <2>2, <2>3, NumbersInduct
<1>14. v[2] = 0
  <2>1. PICK j \in Nat : j = n - 1 /\ j < n /\ n + 1 - j = 2
    BY <1>2
  <2>. QED  BY <1>13, <2>1
<1>15. v[1] = m
  <2>1. 1 \in 1 .. n /\ 1 + 1 = 2
    BY <1>2
  <2>. QED  BY <1>1, <1>9, <1>12, <1>14, <2>1
<1>. QED  BY <1>3, <1>12, <1>15

------------------------------------------------------------------------------
(* Where what lists are joined to has an element of one of them             *)

\* Place p of what lists are joined to is place j of list i.
PlaceIn(seqs, k, p, i, j) ==
    /\ i \in 1 .. k /\ j \in 1 .. Len(seqs[i])
    /\ p = Len(Joined(seqs, i - 1)) + j
    /\ Joined(seqs, k)[p] = seqs[i][j]

Placed(seqs, k) ==
    \A p \in 1 .. Len(Joined(seqs, k)) : \E i, j \in Nat : PlaceIn(seqs, k, p, i, j)

LEMMA JoinedPlaces ==
    ASSUME NEW S, NEW seqs \in Seq(Seq(S))
    PROVE  Placed(seqs, Len(seqs))
<1>1. PICK n \in Nat : n = Len(seqs)
  OBVIOUS
<1>2. /\ \A k \in 0 .. n : Joined(seqs, k) \in Seq(S)
      /\ Joined(seqs, 0) = <<>>
      /\ \A k \in 1 .. n : Joined(seqs, k) = Joined(seqs, k - 1) \o seqs[k]
  BY <1>1, JoinedStep
<1>. DEFINE T == {k \in Nat : k <= n => Placed(seqs, k)}
<1>3. 0 \in T
  <2>1. Len(Joined(seqs, 0)) = 0
    BY <1>2
  <2>2. \A p \in 1 .. Len(Joined(seqs, 0)) : FALSE
    BY <2>1
  <2>. QED  BY <2>2 DEF Placed
<1>4. ASSUME NEW k \in T PROVE k + 1 \in T
  <2>. SUFFICES ASSUME k + 1 <= n PROVE Placed(seqs, k + 1)
    OBVIOUS
  <2>0. PICK m \in Nat : m = k + 1 /\ m \in 1 .. n /\ m - 1 = k /\ k \in 0 .. n /\ k \in Nat
    OBVIOUS
  <2>1. PICK a \in Seq(S), b \in Seq(S) : a = Joined(seqs, k) /\ b = seqs[m]
    BY <1>1, <1>2, <2>0
  <2>2. Joined(seqs, m) = a \o b
    BY <1>2, <2>0, <2>1
  <2>3. Len(a \o b) = Len(a) + Len(b) /\ Len(a) \in Nat /\ Len(b) \in Nat
    OBVIOUS
  <2>4. ASSUME NEW p \in 1 .. Len(a \o b) PROVE \E i, j \in Nat : PlaceIn(seqs, m, p, i, j)
    <3>1. CASE p <= Len(a)
      <4>1. p \in 1 .. Len(Joined(seqs, k))
        BY <2>1, <2>3, <3>1
      <4>2. Placed(seqs, k)
        BY <2>0
      <4>3. PICK i \in Nat, j \in Nat : PlaceIn(seqs, k, p, i, j)
        BY <4>1, <4>2 DEF Placed
      <4>4. (a \o b)[p] = a[p]
        BY <2>3, <3>1
      <4>5. i \in 1 .. m
        BY <2>0, <4>3 DEF PlaceIn
      <4>6. PlaceIn(seqs, m, p, i, j)
        BY <2>1, <2>2, <4>3, <4>4, <4>5 DEF PlaceIn
      <4>. QED  BY <4>6
    <3>2. CASE ~(p <= Len(a))
      <4>0. PICK x \in Nat, y \in Nat : x = Len(a) /\ y = Len(b) /\ p \in 1 .. x + y
        BY <2>3
      <4>1. PICK j \in Nat : j = p - Len(a) /\ j \in 1 .. Len(b) /\ p = Len(a) + j
        <5>1. p - x \in Nat /\ p - x \in 1 .. y /\ p = x + (p - x)
          BY <3>2, <4>0
        <5>2. PICK j : j = p - x
          OBVIOUS
        <5>. QED  BY <4>0, <5>1, <5>2
      <4>2. (a \o b)[p] = b[j]
        BY <2>3, <4>1
      <4>3. Joined(seqs, m - 1) = a
        BY <2>0, <2>1
      <4>4. m \in 1 .. m
        BY <2>0
      <4>5. PlaceIn(seqs, m, p, m, j)
        BY <2>1, <2>2, <4>1, <4>2, <4>3, <4>4 DEF PlaceIn
      <4>. QED  BY <4>5
    <3>. QED  BY <3>1, <3>2
  <2>5. Placed(seqs, m)
    BY <2>2, <2>4 DEF Placed
  <2>. QED  BY <2>0, <2>5
<1>5. T = Nat
  <2>1. T \in SUBSET Nat
    OBVIOUS
  <2>. HIDE DEF T
  <2>. QED  BY <1>3, <1>4, <2>1, NumbersInduct
<1>6. n \in T
  <2>. HIDE DEF T
  <2>. QED  BY <1>5
<1>. QED  BY <1>1, <1>6

\* The elements of joined lists,
ListPlace(seqs, all, p, i, j) ==
    /\ i \in 1 .. Len(seqs) /\ j \in 1 .. Len(seqs[i])
    /\ p = Len(Joined(seqs, i - 1)) + j
    /\ all[p] = seqs[i][j]

LEMMA FlattenHas ==
    ASSUME NEW S, NEW seqs \in Seq(Seq(S)), NEW all, all = FlattenSeq(seqs), NEW p \in 1 .. Len(all)
    PROVE  \E i, j \in Nat : ListPlace(seqs, all, p, i, j)
<1>1. PICK n : n = Len(seqs)
  OBVIOUS
<1>2. Joined(seqs, n) = all
  BY <1>1, JoinedStep
<1>3. Placed(seqs, n)
  BY <1>1, JoinedPlaces
<1>4. PICK i \in Nat, j \in Nat : PlaceIn(seqs, n, p, i, j)
  BY <1>2, <1>3 DEF Placed
<1>5. ListPlace(seqs, all, p, i, j)
  BY <1>1, <1>2, <1>4 DEF PlaceIn, ListPlace
<1>. QED  BY <1>5

\* and all of them.
HasAllOf(all, t) == \A j \in 1 .. Len(t) : \E p \in 1 .. Len(all) : all[p] = t[j]

LEMMA FlattenHasAll ==
    ASSUME NEW S, NEW seqs \in Seq(Seq(S))
    PROVE  \A i \in 1 .. Len(seqs) : HasAllOf(FlattenSeq(seqs), seqs[i])
<1>. SUFFICES ASSUME NEW i \in 1 .. Len(seqs) PROVE HasAllOf(FlattenSeq(seqs), seqs[i])
  OBVIOUS
<1>1. PICK all, t : all = FlattenSeq(seqs) /\ t = seqs[i]
  OBVIOUS
<1>2. t \in Seq(S)
  BY <1>1
<1>3. all \in Seq(S)
  BY <1>1, FlattenType
<1>4. PICK start \in Nat : start = Len(Joined(seqs, i - 1))
  <2>1. i - 1 \in 0 .. Len(seqs)
    OBVIOUS
  <2>2. Joined(seqs, i - 1) \in Seq(S)
    BY <2>1, JoinedStep
  <2>. QED  BY <2>2
<1>5. Stands(t, all, start)
  BY <1>1, <1>4, JoinedStands
<1>6. start + Len(t) <= Len(all) /\ \A j \in 1 .. Len(t) : all[start + j] = t[j]
  BY <1>2, <1>5 DEF Stands
<1>7. \A j \in 1 .. Len(t) : start + j \in 1 .. Len(all)
  BY <1>2, <1>3, <1>6
<1>. QED  BY <1>1, <1>6, <1>7 DEF HasAllOf

------------------------------------------------------------------------------
(* The order in which the fields of a map are written                       *)

\* The fields a map is written with.
WrittenFields(map) ==
    CASE map = "global" -> (DOMAIN GlobalFields \ {"unsigned_tx"}) \union {"unknown"}
      [] map = "input" -> DOMAIN InputFields \union {"unknown"}
      [] map = "output" -> DOMAIN OutputFields \union {"unknown"}
      [] map = "global0" -> {"unsigned_tx", "xpub", "proprietary", "unknown", "sp_ecdh_share", "sp_dleq"}
      [] map = "input0" ->
            (DOMAIN InputFields \ {"previous_txid", "spent_output_index", "sequence", "min_time", "min_height"})
            \union {"unknown"}
      [] map = "output0" -> (DOMAIN OutputFields \ {"amount", "script", "redeem_script"}) \union {"unknown"}

OrderOf(order, fields) ==
    /\ \A i, j \in 1 .. Len(order) : order[i] = order[j] => i = j
    /\ \A f \in fields : \E i \in 1 .. Len(order) : order[i] = f
    /\ \A i \in 1 .. Len(order) : order[i] \in fields

LEMMA OrdersAre ==
    ASSUME NEW map \in MapNames
    PROVE  OrderOf(Orders[map], WrittenFields(map)) /\ Len(Orders[map]) \in Nat
<1>1. CASE map = "global"
  <2>1. Orders[map] = GlobalOrder /\ Len(GlobalOrder) = 11
    BY <1>1 DEF Orders, GlobalOrder
  <2>2. \A i, j \in 1 .. 11 : GlobalOrder[i] = GlobalOrder[j] => i = j
    BY DEF GlobalOrder
  <2>3. \A i \in 1 .. 11 : GlobalOrder[i] \in WrittenFields("global")
    BY DEF GlobalOrder, WrittenFields, GlobalFields
  <2>4. \A f \in WrittenFields("global") : \E i \in 1 .. 11 : GlobalOrder[i] = f
    BY DEF GlobalOrder, WrittenFields, GlobalFields
  <2>. QED  BY <1>1, <2>1, <2>2, <2>3, <2>4 DEF OrderOf
<1>2. CASE map = "input"
  <2>1. Orders[map] = InputOrder /\ Len(InputOrder) = 28
    BY <1>2 DEF Orders, InputOrder
  <2>2. \A i, j \in 1 .. 28 : InputOrder[i] = InputOrder[j] => i = j
    BY DEF InputOrder
  <2>3. \A i \in 1 .. 28 : InputOrder[i] \in WrittenFields("input")
    BY DEF InputOrder, WrittenFields, InputFields
  <2>4. \A f \in WrittenFields("input") : \E i \in 1 .. 28 : InputOrder[i] = f
    BY DEF InputOrder, WrittenFields, InputFields
  <2>. QED  BY <1>2, <2>1, <2>2, <2>3, <2>4 DEF OrderOf
<1>3. CASE map = "output"
  <2>1. Orders[map] = OutputOrder /\ Len(OutputOrder) = 12
    BY <1>3 DEF Orders, OutputOrder
  <2>2. \A i, j \in 1 .. 12 : OutputOrder[i] = OutputOrder[j] => i = j
    BY DEF OutputOrder
  <2>3. \A i \in 1 .. 12 : OutputOrder[i] \in WrittenFields("output")
    BY DEF OutputOrder, WrittenFields, OutputFields
  <2>4. \A f \in WrittenFields("output") : \E i \in 1 .. 12 : OutputOrder[i] = f
    BY DEF OutputOrder, WrittenFields, OutputFields
  <2>. QED  BY <1>3, <2>1, <2>2, <2>3, <2>4 DEF OrderOf
<1>4. CASE map = "global0"
  <2>1. Orders[map] = GlobalOrder0 /\ Len(GlobalOrder0) = 6
    BY <1>4 DEF Orders, GlobalOrder0
  <2>2. \A i, j \in 1 .. 6 : GlobalOrder0[i] = GlobalOrder0[j] => i = j
    BY DEF GlobalOrder0
  <2>3. \A i \in 1 .. 6 : GlobalOrder0[i] \in WrittenFields("global0")
    BY DEF GlobalOrder0, WrittenFields
  <2>4. \A f \in WrittenFields("global0") : \E i \in 1 .. 6 : GlobalOrder0[i] = f
    BY DEF GlobalOrder0, WrittenFields
  <2>. QED  BY <1>4, <2>1, <2>2, <2>3, <2>4 DEF OrderOf
<1>5. CASE map = "input0"
  <2>1. Orders[map] = InputOrder0 /\ Len(InputOrder0) = 23
    BY <1>5 DEF Orders, InputOrder0
  <2>2. \A i, j \in 1 .. 23 : InputOrder0[i] = InputOrder0[j] => i = j
    BY DEF InputOrder0
  <2>3. \A i \in 1 .. 23 : InputOrder0[i] \in WrittenFields("input0")
    BY DEF InputOrder0, WrittenFields, InputFields
  <2>4. \A f \in WrittenFields("input0") : \E i \in 1 .. 23 : InputOrder0[i] = f
    BY DEF InputOrder0, WrittenFields, InputFields
  <2>. QED  BY <1>5, <2>1, <2>2, <2>3, <2>4 DEF OrderOf
<1>6. CASE map = "output0"
  <2>1. Orders[map] = OutputOrder0 /\ Len(OutputOrder0) = 9
    BY <1>6 DEF Orders, OutputOrder0
  <2>2. \A i, j \in 1 .. 9 : OutputOrder0[i] = OutputOrder0[j] => i = j
    BY DEF OutputOrder0
  <2>3. \A i \in 1 .. 9 : OutputOrder0[i] \in WrittenFields("output0")
    BY DEF OutputOrder0, WrittenFields, OutputFields
  <2>4. \A f \in WrittenFields("output0") : \E i \in 1 .. 9 : OutputOrder0[i] = f
    BY DEF OutputOrder0, WrittenFields, OutputFields
  <2>. QED  BY <1>6, <2>1, <2>2, <2>3, <2>4 DEF OrderOf
<1>. QED  BY <1>1, <1>2, <1>3, <1>4, <1>5, <1>6 DEF MapNames

------------------------------------------------------------------------------
(* The pairs of a map that is written                                       *)

Written(map, entries) == {e \in entries : e.field \in WrittenFields(map)}

\* An entry of a map, as it is read from the pair it is written as.
EntryOk(map, e) ==
    e = EntryOf(map, e.type, e.data, e.value) /\ PairOk(map, EncodePair(e))

OneEach(entries) ==
    \A e, x \in entries : e.field = x.field /\ e.type = x.type /\ e.data = x.data => e = x

Writable(map, entries) ==
    EntriesTyped(entries) /\ OneEach(entries) /\ \A e \in Written(map, entries) : EntryOk(map, e)

\* Pair p of the list is entry e.
WrittenAs(map, entries, pairs, p, e) ==
    e \in Written(map, entries) /\ pairs[p] = EncodePair(e)

\* The entries of field i of the order, as a list.
FieldList(map, entries, i) ==
    SetToSeq({EncodePair(e) : e \in {x \in entries : x.field = Orders[map][i]}})

ListsField(entries, field, list) ==
    /\ list \in Seq(PairType)
    /\ \A j, k \in 1 .. Len(list) : list[j] = list[k] => j = k
    /\ \A j \in 1 .. Len(list) : \E e \in entries : e.field = field /\ list[j] = EncodePair(e)
    /\ \A e \in entries : e.field = field => \E j \in 1 .. Len(list) : list[j] = EncodePair(e)

LEMMA FieldListHas ==
    ASSUME NEW map, NEW entries, EntriesTyped(entries), NEW i
    PROVE  ListsField(entries, Orders[map][i], FieldList(map, entries, i))
<1>1. PICK list : list = FieldList(map, entries, i)
  OBVIOUS
<1>2. PICK some : some = {x \in entries : x.field = Orders[map][i]}
  OBVIOUS
<1>3. PICK T : T = {EncodePair(e) : e \in some}
  OBVIOUS
<1>4. PICK f : f = [e \in some |-> EncodePair(e)]
  OBVIOUS
<1>5. T = {f[e] : e \in some}
  BY <1>3, <1>4
<1>6. IsFiniteSet(some) /\ \A e \in some : EntryTyped(e)
  <2>1. some \in SUBSET entries
    BY <1>2
  <2>. QED  BY <2>1, AnyTyped DEF EntriesTyped
<1>7. IsFiniteSet(T)
  BY <1>5, <1>6, FiniteImage
<1>8. T \in SUBSET PairType
  BY <1>3, <1>6, EncodePairTyped
<1>9. list = SetToSeq(T)
  BY <1>1, <1>2, <1>3 DEF FieldList
<1>10. /\ list \in Seq(T)
       /\ \A j, k \in 1 .. Len(list) : list[j] = list[k] => j = k
       /\ \A x \in T : \E j \in 1 .. Len(list) : list[j] = x
  BY <1>7, <1>9, SetToSeqLists DEF Lists
<1>11. list \in Seq(PairType) /\ \A j \in 1 .. Len(list) : list[j] \in T
  BY <1>8, <1>10
<1>. QED  BY <1>1, <1>2, <1>3, <1>10, <1>11 DEF ListsField

\* The lists of the fields in their order, joined.
MapJoins(map, entries, pairs, n, seqs) ==
    /\ n = Len(Orders[map]) /\ Len(seqs) = n
    /\ \A i \in 1 .. n : ListsField(entries, Orders[map][i], seqs[i])
    /\ pairs = FlattenSeq(seqs)

LEMMA EncodeMapJoins ==
    ASSUME NEW map \in MapNames, NEW entries, EntriesTyped(entries)
    PROVE  \E n \in Nat : \E seqs \in Seq(Seq(PairType)) :
              MapJoins(map, entries, EncodeMap(map, entries), n, seqs)
<1>1. PICK n \in Nat : n = Len(Orders[map])
  BY OrdersAre
<1>2. PICK seqs : seqs = [i \in 1 .. n |-> FieldList(map, entries, i)]
  OBVIOUS
<1>3. EncodeMap(map, entries) = FlattenSeq(seqs)
  BY <1>1, <1>2 DEF EncodeMap, FieldList
<1>4. seqs = [i \in 1 .. n |-> seqs[i]] /\ \A i \in 1 .. n : seqs[i] = FieldList(map, entries, i)
  BY <1>2
<1>5. \A i \in 1 .. n : ListsField(entries, Orders[map][i], seqs[i])
  BY <1>4, FieldListHas
<1>6. \A i \in 1 .. n : seqs[i] \in Seq(PairType)
  BY <1>5 DEF ListsField
<1>7. seqs \in Seq(Seq(PairType)) /\ Len(seqs) = n
  BY <1>4, <1>6, ListType
<1>8. MapJoins(map, entries, EncodeMap(map, entries), n, seqs)
  BY <1>1, <1>3, <1>5, <1>7 DEF MapJoins
<1>. QED  BY <1>7, <1>8

\* Pair p is number j of the list of field i.
IsFrom(map, entries, pairs, seqs, p, i, j, e) ==
    /\ pairs[p] = EncodePair(e)
    /\ i \in 1 .. Len(seqs) /\ j \in 1 .. Len(seqs[i])
    /\ p = Len(Joined(seqs, i - 1)) + j
    /\ e \in entries /\ e.field = Orders[map][i] /\ seqs[i][j] = EncodePair(e)

LEMMA PairIsFrom ==
    ASSUME NEW map, NEW entries, NEW pairs, NEW n \in Nat, NEW seqs \in Seq(Seq(PairType)),
           MapJoins(map, entries, pairs, n, seqs), NEW p \in 1 .. Len(pairs)
    PROVE  \E i, j \in Nat : \E e : IsFrom(map, entries, pairs, seqs, p, i, j, e)
<1>1. PICK i \in Nat, j \in Nat : ListPlace(seqs, pairs, p, i, j)
  <2>1. pairs = FlattenSeq(seqs)
    BY DEF MapJoins
  <2>. QED  BY <2>1, FlattenHas
<1>2. i \in 1 .. n /\ j \in 1 .. Len(seqs[i]) /\ p = Len(Joined(seqs, i - 1)) + j /\ pairs[p] = seqs[i][j]
  BY <1>1 DEF ListPlace, MapJoins
<1>3. ListsField(entries, Orders[map][i], seqs[i])
  BY <1>2 DEF MapJoins
<1>4. PICK e \in entries : e.field = Orders[map][i] /\ seqs[i][j] = EncodePair(e)
  BY <1>2, <1>3 DEF ListsField
<1>5. IsFrom(map, entries, pairs, seqs, p, i, j, e)
  BY <1>2, <1>4 DEF IsFrom, MapJoins
<1>. QED  BY <1>2, <1>4, <1>5

\* Every pair that is written is an entry,
LEMMA PairsAreEntries ==
    ASSUME NEW map \in MapNames, NEW entries, EntriesTyped(entries),
           NEW pairs, pairs = EncodeMap(map, entries), NEW p \in 1 .. Len(pairs)
    PROVE  \E e : WrittenAs(map, entries, pairs, p, e)
<1>1. PICK n \in Nat, seqs \in Seq(Seq(PairType)) : MapJoins(map, entries, pairs, n, seqs)
  BY EncodeMapJoins
<1>2. PICK i \in Nat, j \in Nat : \E e : IsFrom(map, entries, pairs, seqs, p, i, j, e)
  BY <1>1, PairIsFrom
<1>3. PICK e : IsFrom(map, entries, pairs, seqs, p, i, j, e)
  BY <1>2
<1>4. i \in 1 .. Len(Orders[map]) /\ e \in entries /\ e.field = Orders[map][i]
  BY <1>1, <1>3 DEF IsFrom, MapJoins
<1>5. Orders[map][i] \in WrittenFields(map)
  BY <1>4, OrdersAre DEF OrderOf
<1>. QED  BY <1>3, <1>4, <1>5 DEF IsFrom, WrittenAs, Written

\* every entry with a place is written,
LEMMA EntriesAreWritten ==
    ASSUME NEW map \in MapNames, NEW entries, EntriesTyped(entries),
           NEW pairs, pairs = EncodeMap(map, entries), NEW e \in Written(map, entries)
    PROVE  \E p \in 1 .. Len(pairs) : pairs[p] = EncodePair(e)
<1>1. PICK n \in Nat, seqs \in Seq(Seq(PairType)) : MapJoins(map, entries, pairs, n, seqs)
  BY EncodeMapJoins
<1>2. e \in entries /\ e.field \in WrittenFields(map)
  BY DEF Written
<1>3. PICK i \in 1 .. Len(Orders[map]) : Orders[map][i] = e.field
  BY <1>2, OrdersAre DEF OrderOf
<1>4. i \in 1 .. Len(seqs) /\ pairs = FlattenSeq(seqs)
  BY <1>1, <1>3 DEF MapJoins
<1>5. PICK list : list = seqs[i]
  OBVIOUS
<1>6. ListsField(entries, e.field, list)
  BY <1>1, <1>3, <1>5 DEF MapJoins
<1>7. PICK j \in 1 .. Len(list) : list[j] = EncodePair(e)
  BY <1>2, <1>6 DEF ListsField
<1>8. HasAllOf(pairs, list)
  BY <1>4, <1>5, FlattenHasAll
<1>. QED  BY <1>7, <1>8 DEF HasAllOf

\* and once.
LEMMA WrittenOnce ==
    ASSUME NEW map \in MapNames, NEW entries, Writable(map, entries),
           NEW pairs, pairs = EncodeMap(map, entries),
           NEW p \in 1 .. Len(pairs), NEW q \in 1 .. Len(pairs),
           pairs[p].type = pairs[q].type, pairs[p].data = pairs[q].data
    PROVE  p = q
<1>1. PICK n \in Nat, seqs \in Seq(Seq(PairType)) : MapJoins(map, entries, pairs, n, seqs)
  BY EncodeMapJoins DEF Writable
<1>2. PICK i \in Nat, j \in Nat : \E e : IsFrom(map, entries, pairs, seqs, p, i, j, e)
  BY <1>1, PairIsFrom
<1>3. PICK e : IsFrom(map, entries, pairs, seqs, p, i, j, e)
  BY <1>2
<1>4. PICK k \in Nat, m \in Nat : \E x : IsFrom(map, entries, pairs, seqs, q, k, m, x)
  BY <1>1, PairIsFrom
<1>5. PICK x : IsFrom(map, entries, pairs, seqs, q, k, m, x)
  BY <1>4
<1>6. PICK order : order = Orders[map]
  OBVIOUS
<1>7. i \in 1 .. Len(order) /\ k \in 1 .. Len(order)
  BY <1>1, <1>3, <1>5, <1>6 DEF IsFrom, MapJoins
<1>8. OrderOf(order, WrittenFields(map))
  BY <1>6, OrdersAre
<1>9. /\ e \in entries /\ e.field = order[i] /\ e \in Written(map, entries)
      /\ x \in entries /\ x.field = order[k] /\ x \in Written(map, entries)
  BY <1>3, <1>5, <1>6, <1>7, <1>8 DEF IsFrom, OrderOf, Written
<1>10. e.type = x.type /\ e.data = x.data
  BY <1>3, <1>5 DEF EncodePair, IsFrom
<1>11. e.field = FieldOf(map, e.type) /\ x.field = FieldOf(map, x.type)
  <2>1. EntryOk(map, e) /\ EntryOk(map, x)
    BY <1>9 DEF Writable
  <2>. QED  BY <2>1, EntryParts DEF EntryOk
<1>12. e = x
  BY <1>9, <1>10, <1>11 DEF Writable, OneEach
<1>13. i = k
  BY <1>7, <1>8, <1>9, <1>12 DEF OrderOf
<1>14. PICK list : list = seqs[i]
  OBVIOUS
<1>15. ListsField(entries, order[i], list)
  BY <1>1, <1>6, <1>7, <1>14 DEF MapJoins
<1>16. j \in 1 .. Len(list) /\ m \in 1 .. Len(list) /\ list[j] = list[m]
  BY <1>3, <1>5, <1>12, <1>13, <1>14 DEF IsFrom
<1>17. j = m
  BY <1>15, <1>16 DEF ListsField
<1>. QED  BY <1>3, <1>5, <1>13, <1>17 DEF IsFrom

\* What is written is read as what it was.
ReadBack(map, entries, pairs) ==
    /\ pairs \in Seq(PairType)
    /\ Entries(map, pairs) = Written(map, entries)
    /\ KeysDiffer(map, pairs)
    /\ \A i \in 1 .. Len(pairs) : PairOk(map, pairs[i])

LEMMA MapIsReadBack ==
    ASSUME NEW map \in MapNames, NEW entries, Writable(map, entries),
           NEW pairs, pairs = EncodeMap(map, entries)
    PROVE  ReadBack(map, entries, pairs)
<1>1. EntriesTyped(entries) /\ \A e \in Written(map, entries) : EntryOk(map, e)
  BY DEF Writable
<1>2. pairs \in Seq(PairType)
  BY <1>1, EncodeMapTyped
<1>3. ASSUME NEW p \in 1 .. Len(pairs)
      PROVE  /\ EntryAt(map, pairs[p]) \in Written(map, entries)
             /\ PairOk(map, pairs[p])
             /\ pairs[p].data = EntryAt(map, pairs[p]).data /\ pairs[p].type = EntryAt(map, pairs[p]).type
  <2>1. PICK e : WrittenAs(map, entries, pairs, p, e)
    BY <1>1, PairsAreEntries
  <2>2. e \in Written(map, entries) /\ pairs[p] = EncodePair(e)
    BY <2>1 DEF WrittenAs
  <2>3. EntryOk(map, e)
    BY <1>1, <2>2
  <2>4. pairs[p].type = e.type /\ pairs[p].data = e.data /\ pairs[p].value = e.value
    BY <2>2 DEF EncodePair
  <2>5. EntryAt(map, pairs[p]) = e
    BY <2>3, <2>4 DEF EntryAt, EntryOk
  <2>. QED  BY <2>2, <2>3, <2>4, <2>5 DEF EntryOk
<1>4. Entries(map, pairs) = Written(map, entries)
  <2>1. Entries(map, pairs) = {EntryAt(map, pairs[p]) : p \in 1 .. Len(pairs)}
    BY DEF Entries, EntryAt
  <2>2. ASSUME NEW e \in Written(map, entries) PROVE \E p \in 1 .. Len(pairs) : EntryAt(map, pairs[p]) = e
    <3>1. PICK p \in 1 .. Len(pairs) : pairs[p] = EncodePair(e)
      BY <1>1, EntriesAreWritten
    <3>2. pairs[p].type = e.type /\ pairs[p].data = e.data /\ pairs[p].value = e.value
      BY <3>1 DEF EncodePair
    <3>3. EntryAt(map, pairs[p]) = e
      BY <1>1, <3>2 DEF EntryAt, EntryOk
    <3>. QED  BY <3>3
  <2>. QED  BY <1>3, <2>1, <2>2
<1>5. KeysDiffer(map, pairs)
  <2> SUFFICES ASSUME NEW i \in 1 .. Len(pairs), NEW j \in 1 .. Len(pairs),
                      EntryOf(map, pairs[i].type, pairs[i].data, <<>>)
                         = EntryOf(map, pairs[j].type, pairs[j].data, <<>>)
               PROVE  i = j
    BY DEF KeysDiffer
  <2>1. EntryAt(map, pairs[i]).type = EntryAt(map, pairs[j]).type
        /\ EntryAt(map, pairs[i]).data = EntryAt(map, pairs[j]).data
    BY DEF EntryAt, EntryOf
  <2>. QED  BY <1>3, <2>1, WrittenOnce
<1>. QED  BY <1>2, <1>3, <1>4, <1>5 DEF ReadBack

------------------------------------------------------------------------------
(* The fields of a map of either version                                    *)

Kinds == {"global", "input", "output"}

\* The map of version 0.
Old(kind) == MapName(kind, 0)

LEMMA OldNames ==
    /\ Old("global") = "global0" /\ Old("input") = "input0" /\ Old("output") = "output0"
    /\ \A kind \in Kinds : kind \in MapNames /\ Old(kind) \in MapNames
<1>1. Old("global") = "global0" /\ Old("input") = "input0" /\ Old("output") = "output0"
  BY DEF Old, MapName
<1>. QED  BY <1>1 DEF Kinds, MapNames

\* No two fields of a map have one number.
LEMMA NumbersDiffer ==
    ASSUME NEW kind \in Kinds
    PROVE  \A f, g \in DOMAIN Fields[kind] : Fields[kind][f] = Fields[kind][g] => f = g
<1>1. \A f, g \in DOMAIN GlobalFields : GlobalFields[f] = GlobalFields[g] => f = g
  BY DEF GlobalFields
<1>2. \A f, g \in DOMAIN InputFields : InputFields[f] = InputFields[g] => f = g
  BY SMTT(60) DEF InputFields
<1>3. \A f, g \in DOMAIN OutputFields : OutputFields[f] = OutputFields[g] => f = g
  BY DEF OutputFields
<1>. QED  BY <1>1, <1>2, <1>3 DEF Kinds, Fields

\* The table of version 0 is part of that of version 2.
LEMMA TablesOf0 ==
    ASSUME NEW kind \in Kinds
    PROVE  \A f \in DOMAIN Fields[Old(kind)] :
              f \in DOMAIN Fields[kind] /\ Fields[Old(kind)][f] = Fields[kind][f]
<1>1. \A f \in DOMAIN GlobalFields0 : f \in DOMAIN GlobalFields /\ GlobalFields0[f] = GlobalFields[f]
  BY DEF GlobalFields0, Restrict, GlobalFields
<1>2. \A f \in DOMAIN InputFields0 : f \in DOMAIN InputFields /\ InputFields0[f] = InputFields[f]
  BY DEF InputFields0, Restrict
<1>3. \A f \in DOMAIN OutputFields0 : f \in DOMAIN OutputFields /\ OutputFields0[f] = OutputFields[f]
  BY DEF OutputFields0, Restrict
<1>4. /\ Fields["global"] = GlobalFields /\ Fields["global0"] = GlobalFields0
      /\ Fields["input"] = InputFields /\ Fields["input0"] = InputFields0
      /\ Fields["output"] = OutputFields /\ Fields["output0"] = OutputFields0
  BY DEF Fields
<1>. QED  BY <1>1, <1>2, <1>3, <1>4, OldNames DEF Kinds

LEMMA FieldOfNumber ==
    ASSUME NEW map \in MapNames, NEW f \in DOMAIN Fields[map]
    PROVE  FieldOf(map, Fields[map][f]) = f
<1>1. map \in DOMAIN Fields
  BY DEF Fields, MapNames
<1>2. \A g \in DOMAIN Fields[map] : Fields[map][g] = Fields[map][f] => g = f
  <2>1. \E kind \in Kinds : map = kind \/ map = Old(kind)
    BY OldNames DEF MapNames, Kinds
  <2>. QED  BY <2>1, NumbersDiffer, TablesOf0
<1>. QED  BY <1>1, <1>2, FieldOfType

\* What version 0 knows, version 2 knows as the same,
LEMMA KnownAbove ==
    ASSUME NEW kind \in Kinds, NEW type, FieldOf(Old(kind), type) # "unknown"
    PROVE  FieldOf(kind, type) = FieldOf(Old(kind), type)
<1>1. PICK f : f = FieldOf(Old(kind), type)
  OBVIOUS
<1>2. f \in DOMAIN Fields[Old(kind)] /\ Fields[Old(kind)][f] = type
  BY <1>1, OldNames, FieldTypes
<1>3. f \in DOMAIN Fields[kind] /\ Fields[kind][f] = type
  BY <1>2, TablesOf0
<1>. QED  BY <1>1, <1>3, OldNames, FieldOfNumber

\* and the other way round, if it has the field,
LEMMA KnownBelow ==
    ASSUME NEW kind \in Kinds, NEW type, FieldOf(kind, type) \in DOMAIN Fields[Old(kind)],
           FieldOf(kind, type) # "unknown"
    PROVE  FieldOf(Old(kind), type) = FieldOf(kind, type)
<1>1. PICK f : f = FieldOf(kind, type)
  OBVIOUS
<1>2. Fields[kind][f] = type
  BY <1>1, OldNames, FieldTypes
<1>3. Fields[Old(kind)][f] = type
  BY <1>1, <1>2, TablesOf0
<1>. QED  BY <1>1, <1>3, OldNames, FieldOfNumber

\* and what version 2 does not know, version 0 does not.
LEMMA UnknownBelow ==
    ASSUME NEW kind \in Kinds, NEW type, FieldOf(kind, type) = "unknown"
    PROVE  FieldOf(Old(kind), type) = "unknown"
  BY KnownAbove

\* Maps that read an entry alike.
ReadAlike(a, b, e) ==
    /\ FieldOf(b, e.type) = FieldOf(a, e.type)
    /\ Keyed[a] = Keyed[b]
    /\ e.field \in Framed[b] => e.field \in Framed[a]
    /\ ~KeyRefused(b, e.field, e.data)
    /\ e.field \in Bare(b) => e.data = <<>>
    /\ e.field # "version"

LEMMA EntryTransfers ==
    ASSUME NEW a, NEW b, NEW e, EntryOk(a, e), ReadAlike(a, b, e)
    PROVE  EntryOk(b, e)
<1>1. e = EntryOf(a, e.type, e.data, e.value) /\ PairOk(a, EncodePair(e))
  BY DEF EntryOk
<1>2. e.field = FieldOf(a, e.type) /\ FieldOf(b, e.type) = FieldOf(a, e.type) /\ Keyed[a] = Keyed[b]
  BY <1>1, EntryParts DEF ReadAlike
<1>3. EntryOf(b, e.type, e.data, e.value) = EntryOf(a, e.type, e.data, e.value)
  BY <1>2 DEF EntryOf
<1>4. PICK p : p = EncodePair(e)
  OBVIOUS
<1>5. p.type = e.type /\ p.data = e.data /\ p.value = e.value
  BY <1>4 DEF EncodePair
<1>6. PairOk(a, p)
  BY <1>1, <1>4
<1>7. FieldOf(a, p.type) = e.field /\ FieldOf(b, p.type) = e.field
  BY <1>2, <1>5
<1>8. KeyDecodes(b, e.field, p.data)
  <2>1. KeyDecodes(a, e.field, p.data)
    BY <1>6, <1>7 DEF PairOk
  <2>. QED  BY <1>2, <1>5, <2>1 DEF KeyDecodes, ReadAlike
<1>9. ValueDecodes(b, e.field, p.value)
  <2>1. ValueDecodes(a, e.field, p.value)
    BY <1>6, <1>7 DEF PairOk
  <2>. QED  BY <2>1 DEF ValueDecodes, ReadAlike
<1>10. PairOk(b, p)
  BY <1>5, <1>6, <1>7, <1>8, <1>9 DEF PairOk, ReadAlike
<1>. QED  BY <1>1, <1>3, <1>4, <1>10 DEF EntryOk

------------------------------------------------------------------------------
(* A map that is read as it was written                                     *)

LEMMA EntryFields ==
    ASSUME NEW map \in MapNames, NEW e, EntryOk(map, e)
    PROVE  /\ e.field = FieldOf(map, e.type)
           /\ e.field \in DOMAIN Fields[map] \union {"unknown"}
           /\ e.field # "unknown" => Fields[map][e.field] = e.type
           /\ e.field \notin Keyed[map] \union {"unknown"} => e.data = <<>>
<1>1. e.field = FieldOf(map, e.type)
  BY EntryParts DEF EntryOk
<1>2. e.field \notin Keyed[map] \union {"unknown"} => e.data = <<>>
  BY EntryParts DEF EntryOk
<1>. QED  BY <1>1, <1>2, FieldTypes

\* What a map that is accepted holds can be written.
LEMMA PairsMakeEntries ==
    ASSUME NEW map, NEW p, PairOk(map, p), NEW e, e = EntryAt(map, p)
    PROVE  EntryOk(map, e)
<1>1. PICK f : f = FieldOf(map, p.type)
  OBVIOUS
<1>2. e.field = f /\ e.type = p.type /\ e.value = p.value
      /\ e.data = IF f \in Keyed[map] \union {"unknown"} THEN p.data ELSE <<>>
  BY <1>1, EntryParts DEF EntryAt
<1>3. e = EntryOf(map, e.type, e.data, e.value)
  <2>1. CASE f \in Keyed[map] \union {"unknown"}
    BY <1>2, <2>1 DEF EntryAt
  <2>2. CASE f \notin Keyed[map] \union {"unknown"}
    BY <1>1, <1>2, <2>2 DEF EntryAt, EntryOf
  <2>. QED  BY <2>1, <2>2
<1>4. PICK q : q = EncodePair(e)
  OBVIOUS
<1>5. q.type = p.type /\ q.data = e.data /\ q.value = p.value /\ q.len = Len(p.value)
  BY <1>2, <1>4 DEF EncodePair
<1>6. ~KeyRefused(map, f, q.data)
  <2>1. ~KeyRefused(map, f, p.data)
    BY <1>1 DEF PairOk
  <2>. QED  BY <1>2, <1>5, <2>1 DEF KeyRefused
<1>7. KeyDecodes(map, f, q.data)
  <2>1. KeyDecodes(map, f, p.data)
    BY <1>1 DEF PairOk
  <2>. QED  BY <1>2, <1>5, <2>1 DEF KeyDecodes
<1>8. PairOk(map, q)
  BY <1>1, <1>5, <1>6, <1>7 DEF PairOk
<1>. QED  BY <1>3, <1>4, <1>8 DEF EntryOk

LEMMA AcceptedWritable ==
    ASSUME NEW map, NEW pairs \in Seq(PairType), MapOk(map, pairs)
    PROVE  /\ EntriesTyped(Entries(map, pairs)) /\ OneEach(Entries(map, pairs))
           /\ \A e \in Entries(map, pairs) : EntryOk(map, e)
<1>1. Entries(map, pairs) = {EntryAt(map, pairs[i]) : i \in 1 .. Len(pairs)}
  BY DEF Entries, EntryAt
<1>2. /\ \A i \in 1 .. Len(pairs) : PairOk(map, pairs[i])
      /\ KeysDiffer(map, pairs)
  BY DEF MapOk
<1>3. \A e \in Entries(map, pairs) : EntryOk(map, e)
  BY <1>1, <1>2, PairsMakeEntries
<1>4. ASSUME NEW e \in Entries(map, pairs), NEW x \in Entries(map, pairs),
             e.field = x.field, e.type = x.type, e.data = x.data
      PROVE  e = x
  <2>1. PICK i \in 1 .. Len(pairs) : e = EntryAt(map, pairs[i])
    BY <1>1
  <2>2. PICK j \in 1 .. Len(pairs) : x = EntryAt(map, pairs[j])
    BY <1>1
  <2>3. EntryOf(map, pairs[i].type, pairs[i].data, <<>>)
           = EntryOf(map, pairs[j].type, pairs[j].data, <<>>)
    BY <1>4, <2>1, <2>2 DEF EntryAt, EntryOf
  <2>. QED  BY <1>2, <2>1, <2>2, <2>3 DEF KeysDiffer
<1>. QED  BY <1>3, <1>4, EntriesOfPairs DEF OneEach

\* The entries of a map of a PSBT that was decoded.
Readable(kind, e) ==
    /\ e.field # "unsigned_tx"
    /\ EntryOk(kind, e) \/ (EntryOk(Old(kind), e) /\ e.field # "version")

Sane(kind, entries) ==
    /\ EntriesTyped(entries) /\ OneEach(entries)
    /\ \A e \in entries : Readable(kind, e)

LEMMA SameKeys ==
    ASSUME NEW kind \in Kinds
    PROVE  Keyed[Old(kind)] = Keyed[kind]
  BY OldNames DEF Kinds, Keyed

LEMMA ReadableParts ==
    ASSUME NEW kind \in Kinds, NEW e, Readable(kind, e)
    PROVE  /\ e.field \in DOMAIN Fields[kind] \union {"unknown"}
           /\ e.field # "unknown" => Fields[kind][e.field] = e.type
           /\ e.field \notin Keyed[kind] \union {"unknown"} => e.data = <<>>
<1>1. CASE EntryOk(kind, e)
  BY <1>1, EntryFields, OldNames
<1>2. CASE EntryOk(Old(kind), e)
  <2>1. /\ e.field \in DOMAIN Fields[Old(kind)] \union {"unknown"}
        /\ e.field # "unknown" => Fields[Old(kind)][e.field] = e.type
        /\ e.field \notin Keyed[Old(kind)] \union {"unknown"} => e.data = <<>>
    BY <1>2, EntryFields, OldNames
  <2>. QED  BY <2>1, TablesOf0, SameKeys
<1>. QED  BY <1>1, <1>2 DEF Readable

\* A field of one pair is there once.
LEMMA OnlyOne ==
    ASSUME NEW kind \in Kinds, NEW entries, Sane(kind, entries),
           NEW e \in entries, NEW x \in entries, e.field = x.field,
           e.field \notin Keyed[kind] \union {"unknown"}
    PROVE  e = x
<1>1. Readable(kind, e) /\ Readable(kind, x)
  BY DEF Sane
<1>2. e.type = x.type /\ e.data = x.data
  BY <1>1, ReadableParts
<1>. QED  BY <1>2 DEF Sane, OneEach

LEMMA FramedBelow ==
    ASSUME NEW kind \in Kinds, NEW f, f # "unsigned_tx", f # "version"
    PROVE  /\ f \in Framed[Old(kind)] => f \in Framed[kind]
           /\ f \in Framed[kind] /\ f \in DOMAIN Fields[Old(kind)] => f \in Framed[Old(kind)]
           /\ "unknown" \notin Framed[kind]
<1>1. CASE kind = "global"
  <2>1. Framed[kind] = GlobalFramed /\ Framed[Old(kind)] = GlobalFramed0
        /\ Fields[Old(kind)] = GlobalFields0
    BY <1>1, OldNames DEF Framed, Fields
  <2>2. DOMAIN GlobalFields0 = {"unsigned_tx", "xpub", "sp_ecdh_share", "sp_dleq", "version", "proprietary"}
    BY DEF GlobalFields0, Restrict
  <2>. QED  BY <2>1, <2>2 DEF GlobalFramed, GlobalFramed0
<1>2. CASE kind = "input"
  <2>1. Framed[kind] = InputFramed /\ Framed[Old(kind)] = InputFramed0
        /\ Fields[Old(kind)] = InputFields0
    BY <1>2, OldNames DEF Framed, Fields
  <2>. QED  BY <2>1 DEF InputFramed0, InputFramed
<1>3. CASE kind = "output"
  <2>1. Framed[kind] = OutputFramed /\ Framed[Old(kind)] = OutputFramed0
        /\ Fields[Old(kind)] = OutputFields0
    BY <1>3, OldNames DEF Framed, Fields
  <2>. QED  BY <2>1 DEF OutputFramed0, OutputFramed
<1>. QED  BY <1>1, <1>2, <1>3 DEF Kinds

\* Version 2 reads all that it does not take for a field of its own.
LEMMA ReadIn2 ==
    ASSUME NEW kind \in Kinds, NEW e, Readable(kind, e),
           ~(e.field = "unknown" /\ FieldOf(kind, e.type) # "unknown")
    PROVE  EntryOk(kind, e)
<1>. SUFFICES ASSUME EntryOk(Old(kind), e), e.field # "version" PROVE EntryOk(kind, e)
  BY DEF Readable
<1>1. e.field # "unsigned_tx"
  BY DEF Readable
<1>2. /\ e.field = FieldOf(Old(kind), e.type)
      /\ e.field \in DOMAIN Fields[Old(kind)] \union {"unknown"}
      /\ e.field \notin Keyed[Old(kind)] \union {"unknown"} => e.data = <<>>
  BY EntryFields, OldNames
<1>3. FieldOf(kind, e.type) = FieldOf(Old(kind), e.type)
  BY <1>2, KnownAbove
<1>4. e.field \in Framed[kind] => e.field \in Framed[Old(kind)]
  BY <1>1, <1>2, FramedBelow
<1>5. ~KeyRefused(kind, e.field, e.data)
  BY <1>1 DEF KeyRefused, Kinds
<1>6. e.field \in Bare(kind) => e.data = <<>>
  <2>1. Keyed["output0"] = OutputKeyed
    BY DEF Keyed
  <2>2. e.field \in Bare(kind) => Old(kind) = "output0" /\ e.field \in {"sp_v0_info", "sp_v0_label"}
    BY OldNames DEF Bare, Kinds
  <2>. QED  BY <1>2, <2>1, <2>2 DEF OutputKeyed
<1>. QED  BY <1>3, <1>4, <1>5, <1>6, SameKeys, EntryTransfers DEF ReadAlike

Preimages == {"ripemd160", "sha256", "hash160", "hash256", "proprietary"}

LEMMA WrittenIn0 ==
    ASSUME NEW kind \in Kinds, NEW f \in WrittenFields(Old(kind)), f # "unknown"
    PROVE  f \in DOMAIN Fields[Old(kind)]
<1>1. CASE kind = "global"
  BY <1>1, OldNames DEF WrittenFields, Fields, GlobalFields0, Restrict
<1>2. CASE kind = "input"
  BY <1>2, OldNames DEF WrittenFields, Fields, InputFields0, Restrict
<1>3. CASE kind = "output"
  BY <1>3, OldNames DEF WrittenFields, Fields, OutputFields0, Restrict
<1>. QED  BY <1>1, <1>2, <1>3 DEF Kinds

\* Version 0 reads what it has written, but for preimages and proprietary pairs.
LEMMA ReadIn0 ==
    ASSUME NEW kind \in Kinds, NEW e, Readable(kind, e), e.field \in WrittenFields(Old(kind)),
           kind # "global" => e.field \notin Preimages
    PROVE  EntryOk(Old(kind), e)
<1>. SUFFICES ASSUME EntryOk(kind, e) PROVE EntryOk(Old(kind), e)
  BY DEF Readable
<1>1. e.field # "unsigned_tx"
  BY DEF Readable
<1>2. /\ e.field = FieldOf(kind, e.type)
      /\ e.field \notin Keyed[kind] \union {"unknown"} => e.data = <<>>
  BY EntryFields, OldNames
<1>3. FieldOf(Old(kind), e.type) = FieldOf(kind, e.type)
  <2>1. CASE e.field = "unknown"
    BY <1>2, <2>1, UnknownBelow
  <2>2. CASE e.field # "unknown"
    BY <1>2, <2>2, WrittenIn0, KnownBelow
  <2>. QED  BY <2>1, <2>2
<1>4. e.field # "version"
  <2>1. "version" \notin WrittenFields(Old(kind))
    BY OldNames DEF WrittenFields, Kinds, InputFields, OutputFields
  <2>. QED  BY <2>1
<1>5. e.field \in Framed[Old(kind)] => e.field \in Framed[kind]
  BY <1>1, <1>4, FramedBelow
<1>6. ~KeyRefused(Old(kind), e.field, e.data)
  <2>1. Keyed["input"] = InputKeyed /\ Keyed["output"] = OutputKeyed
    BY DEF Keyed
  <2>2. InputUnkeyed0 \intersect (InputKeyed \union {"unknown"}) \subseteq Preimages
    BY DEF InputUnkeyed0, InputKeyed, Preimages
  <2>3. OutputUnkeyed0 \intersect (OutputKeyed \union {"unknown"}) \subseteq Preimages
    BY DEF OutputUnkeyed0, OutputKeyed, Preimages
  <2>. QED  BY <1>2, <2>1, <2>2, <2>3, OldNames DEF KeyRefused, Kinds
<1>7. e.field \in Bare(Old(kind)) => e.data = <<>>
  BY <1>1, <1>4, OldNames DEF Bare, Kinds
<1>. QED  BY <1>3, <1>4, <1>5, <1>6, <1>7, SameKeys, EntryTransfers DEF ReadAlike

------------------------------------------------------------------------------
(* A value that version 0 has in the transaction                            *)

\* What a field that version 0 has in the transaction needs.
GivenOk(f, v) ==
    /\ v \in Seq(Nat)
    /\ f = "version" => Number(v) = 2
    /\ f = "amount" => Bad \notin ToSet(v)
    /\ f \in {"input_count", "output_count", "tx_modifiable"} => Len(v) = 1
    /\ f \in {"version", "tx_version", "fallback_lock_time", "previous_txid",
              "spent_output_index", "sequence", "amount"} => Len(v) = FixedSize

LEMMA GivenEntryOk ==
    ASSUME NEW kind, NEW f, <<kind, f>> \in GivenFields, NEW v, GivenOk(f, v),
           NEW e, e = Single(kind, f, v)
    PROVE  /\ kind \in Kinds /\ EntryOk(kind, e) /\ Readable(kind, e) /\ EntryTyped(e)
           /\ e.field = f /\ e.value = v /\ f \notin Keyed[kind] \union {"unknown"}
<1>1. PICK t : t = Fields[kind][f]
  OBVIOUS
<1>2. FieldOf(kind, t) = f /\ t \in Nat
  BY <1>1, GivenFieldsAre
<1>3. kind \in Kinds
  BY DEF GivenFields, Kinds
<1>4. f \in {"version", "tx_version", "input_count", "output_count", "tx_modifiable", "fallback_lock_time",
             "previous_txid", "spent_output_index", "sequence", "amount", "script"}
  BY DEF GivenFields
<1>5. f \notin Keyed[kind] \union {"unknown"}
  <2>1. Keyed["global"] = GlobalKeyed /\ Keyed["input"] = InputKeyed /\ Keyed["output"] = OutputKeyed
    BY DEF Keyed
  <2>. QED  BY <1>3, <1>4, <2>1 DEF Kinds, GlobalKeyed, InputKeyed, OutputKeyed
<1>6. PICK p : p = [type |-> t, data |-> <<>>, len |-> Len(v), value |-> v]
  OBVIOUS
<1>7. p.type = t /\ p.data = <<>> /\ p.len = Len(v) /\ p.value = v
  BY <1>6
<1>8. e = EntryAt(kind, p)
  BY <1>1, <1>7 DEF Single, EntryAt
<1>9. ~KeyRefused(kind, f, <<>>)
  BY <1>4 DEF KeyRefused
<1>10. KeyDecodes(kind, f, <<>>)
  BY <1>5 DEF KeyDecodes
<1>11. f \in Framed[kind] => Len(v) = InnerSize(f, v)
  <2>1. "script" \notin Framed[kind]
    BY <1>3 DEF Kinds, Framed, GlobalFramed, InputFramed, OutputFramed
  <2>2. f # "script" => Len(v) = InnerSize(f, v)
    BY <1>4 DEF GivenOk, InnerSize
  <2>. QED  BY <2>1, <2>2
<1>12. ~LengthRefused(f, Len(v))
  BY <1>4 DEF LengthRefused
<1>13. ValueDecodes(kind, f, v)
  <2>1. f = "amount" => v # <<>>
    BY SizeAssumption DEF GivenOk
  <2>2. f = "version" => kind = "global"
    BY DEF GivenFields
  <2>3. f \in Validated => f = "amount"
    BY <1>4 DEF Validated
  <2>4. f \in Validated => v # <<>> /\ Bad \notin ToSet(v)
    BY <2>1, <2>3 DEF GivenOk
  <2>5. f = "version" => Number(v) = (IF kind = "global" THEN 2 ELSE 0)
    BY <2>2 DEF GivenOk
  <2>6. f \notin {"min_time", "min_height", "unsigned_tx", "tap_leaf_script", "tap_tree"}
    BY <1>4
  <2>. QED  BY <2>4, <2>5, <2>6 DEF ValueDecodes
<1>14. PairOk(kind, p)
  BY <1>2, <1>4, <1>7, <1>9, <1>10, <1>11, <1>12, <1>13 DEF PairOk
<1>15. EntryOk(kind, e)
  BY <1>8, <1>14, PairsMakeEntries
<1>16. e.field = f /\ e.value = v /\ EntryTyped(e)
  <2>1. v \in Seq(Nat)
    BY DEF GivenOk
  <2>2. e.field = f /\ EntryTyped(e)
    BY <2>1, SingleTyped
  <2>3. e.value = v
    BY <1>7, <1>8, EntryParts DEF EntryAt
  <2>. QED  BY <2>2, <2>3
<1>17. Readable(kind, e)
  BY <1>4, <1>15, <1>16 DEF Readable
<1>. QED  BY <1>3, <1>5, <1>15, <1>16, <1>17

LEMMA SaneLess ==
    ASSUME NEW kind, NEW entries, Sane(kind, entries), NEW some, some \subseteq entries
    PROVE  Sane(kind, some)
<1>1. EntriesTyped(some)
  <2>1. some \in SUBSET entries
    OBVIOUS
  <2>. QED  BY <2>1, AnyTyped DEF Sane
<1>. QED  BY <1>1 DEF Sane, OneEach

LEMMA SaneMore ==
    ASSUME NEW kind, NEW entries, Sane(kind, entries), NEW f, f \notin FieldsIn(entries),
           <<kind, f>> \in GivenFields, NEW v, GivenOk(f, v),
           NEW more, more = entries \union {Single(kind, f, v)}
    PROVE  Sane(kind, more) /\ FieldsIn(more) = FieldsIn(entries) \union {f}
<1>1. PICK e : e = Single(kind, f, v)
  OBVIOUS
<1>2. Readable(kind, e) /\ EntryTyped(e) /\ e.field = f
  BY <1>1, GivenEntryOk
<1>3. EntriesTyped(more)
  BY <1>1, <1>2, AnyTyped DEF Sane
<1>4. \A x \in entries : x.field # f
  BY DEF FieldsIn
<1>5. OneEach(more)
  BY <1>1, <1>2, <1>4 DEF Sane, OneEach
<1>6. FieldsIn(more) = FieldsIn(entries) \union {f}
  BY <1>1, <1>2 DEF FieldsIn
<1>. QED  BY <1>1, <1>2, <1>3, <1>5, <1>6 DEF Sane

\* The value of a field of one pair is that of its entry.
LEMMA ValueIs ==
    ASSUME NEW kind \in Kinds, NEW entries, Sane(kind, entries), NEW e \in entries,
           NEW f, f = e.field, f \notin Keyed[kind] \union {"unknown"}
    PROVE  ValueOf(entries, f) = e.value /\ f \in FieldsIn(entries)
<1>1. PICK x : x = CHOOSE y \in entries : y.field = f
  OBVIOUS
<1>2. x \in entries /\ x.field = f
  BY <1>1
<1>3. x = e
  BY <1>2, OnlyOne
<1>. QED  BY <1>1, <1>3 DEF ValueOf, FieldsIn

LEMMA GivenValue ==
    ASSUME NEW kind, NEW entries, Sane(kind, entries), NEW f, <<kind, f>> \in GivenFields,
           NEW v, GivenOk(f, v), Single(kind, f, v) \in entries
    PROVE  ValueOf(entries, f) = v /\ f \in FieldsIn(entries)
<1>1. PICK e : e = Single(kind, f, v)
  OBVIOUS
<1>2. kind \in Kinds /\ e.field = f /\ e.value = v /\ f \notin Keyed[kind] \union {"unknown"}
  BY <1>1, GivenEntryOk
<1>. QED  BY <1>1, <1>2, ValueIs

\* An entry of a map that was accepted.
LEMMA AcceptedSane ==
    ASSUME NEW kind \in Kinds, NEW format \in {0, 2}, NEW map, map = MapName(kind, format),
           NEW pairs \in Seq(PairType), MapOk(map, pairs), NEW entries,
           entries \subseteq Entries(map, pairs),
           format = 0 => \A e \in entries : e.field \notin {"unsigned_tx", "version"}
    PROVE  Sane(kind, entries)
<1>1. (format = 2 => map = kind) /\ (format = 0 => map = Old(kind)) /\ map \in MapNames
  BY OldNames DEF MapName, Old
<1>2. /\ EntriesTyped(Entries(map, pairs)) /\ OneEach(Entries(map, pairs))
      /\ \A e \in Entries(map, pairs) : EntryOk(map, e)
  BY AcceptedWritable
<1>3. EntriesTyped(entries)
  <2>1. entries \in SUBSET Entries(map, pairs)
    OBVIOUS
  <2>. QED  BY <1>2, <2>1, AnyTyped
<1>4. OneEach(entries)
  BY <1>2 DEF OneEach
<1>5. ASSUME NEW e \in entries PROVE Readable(kind, e)
  <2>1. EntryOk(map, e)
    BY <1>2
  <2>2. CASE format = 2
    <3>1. EntryOk(kind, e) /\ e.field = FieldOf(kind, e.type)
      BY <1>1, <2>1, <2>2, EntryFields
    <3>2. e.field # "unsigned_tx"
      <4>1. ~KeyRefused(kind, e.field, e.data)
        <5>1. PairOk(kind, EncodePair(e))
          BY <3>1 DEF EntryOk
        <5>. QED  BY <3>1, <5>1 DEF PairOk, EncodePair
      <4>2. kind = "global" => e.field # "unsigned_tx"
        BY <4>1 DEF KeyRefused
      <4>3. kind # "global" => e.field # "unsigned_tx"
        <5>1. e.field \in DOMAIN Fields[kind] \union {"unknown"}
          BY <3>1, EntryFields, OldNames
        <5>2. kind # "global" => "unsigned_tx" \notin DOMAIN Fields[kind]
          <6>1. Fields["input"] = InputFields /\ Fields["output"] = OutputFields
            BY DEF Fields
          <6>2. "unsigned_tx" \notin DOMAIN InputFields
            BY DEF InputFields
          <6>3. "unsigned_tx" \notin DOMAIN OutputFields
            BY DEF OutputFields
          <6>. QED  BY <6>1, <6>2, <6>3 DEF Kinds
        <5>. QED  BY <5>1, <5>2
      <4>. QED  BY <4>2, <4>3
    <3>. QED  BY <3>1, <3>2 DEF Readable
  <2>3. CASE format = 0
    BY <1>1, <2>1, <2>3 DEF Readable
  <2>. QED  BY <2>2, <2>3
<1>. QED  BY <1>3, <1>4, <1>5 DEF Sane

------------------------------------------------------------------------------
(* The maps of a PSBT that was decoded                                      *)

\* The maps of a PSBT that was decoded.
GoodGlobal(entries, n, k) ==
    /\ Sane("global", entries)
    /\ {"version", "tx_version", "input_count", "output_count", "tx_modifiable"} \subseteq FieldsIn(entries)
    /\ ValueOf(entries, "input_count")[1] = n /\ ValueOf(entries, "output_count")[1] = k
    /\ SpPaired(entries)

GoodInput(entries) ==
    Sane("input", entries) /\ {"previous_txid", "spent_output_index"} \subseteq FieldsIn(entries)

GoodOutput(entries) ==
    Sane("output", entries) /\ {"amount", "script"} \subseteq FieldsIn(entries)

HasThree(psbt) ==
    psbt = [global |-> psbt.global, inputs |-> psbt.inputs, outputs |-> psbt.outputs]

GoodPsbt(psbt, n, k) ==
    /\ HasThree(psbt)
    /\ GoodGlobal(psbt.global, n, k)
    /\ psbt.inputs = [i \in 1 .. n |-> psbt.inputs[i]] /\ \A i \in 1 .. n : GoodInput(psbt.inputs[i])
    /\ psbt.outputs = [i \in 1 .. k |-> psbt.outputs[i]] /\ \A i \in 1 .. k : GoodOutput(psbt.outputs[i])

\* What a map of version 0 becomes, one field after the other.
With(kind, entries, f, v) == entries \union {Single(kind, f, v)}

LEMMA SaneWith ==
    ASSUME NEW kind, NEW entries, Sane(kind, entries), NEW f, f \notin FieldsIn(entries),
           <<kind, f>> \in GivenFields, NEW v, GivenOk(f, v)
    PROVE  /\ Sane(kind, With(kind, entries, f, v))
           /\ FieldsIn(With(kind, entries, f, v)) = FieldsIn(entries) \union {f}
           /\ entries \subseteq With(kind, entries, f, v)
           /\ Single(kind, f, v) \in With(kind, entries, f, v)
  BY SaneMore DEF With

LEMMA LockGiven ==
    ASSUME NEW v \in Sized
    PROVE  \A f \in {"tx_version", "fallback_lock_time", "previous_txid", "spent_output_index", "sequence"} :
              GivenOk(f, v)
  BY DEF GivenOk, Sized

LEMMA OthersGiven ==
    /\ \A n \in Nat : GivenOk("input_count", <<n>>) /\ GivenOk("output_count", <<n>>)
    /\ GivenOk("tx_modifiable", <<0>>)
    /\ GivenOk("version", NumberBytes(2))
    /\ GivenOk("script", <<>>)
<1>1. \A n \in Nat : GivenOk("input_count", <<n>>) /\ GivenOk("output_count", <<n>>)
  BY OneByte DEF GivenOk
<1>2. GivenOk("tx_modifiable", <<0>>)
  BY OneByte DEF GivenOk
<1>3. GivenOk("version", NumberBytes(2))
  <2>1. NumberBytes(2) \in Seq(Nat) /\ Len(NumberBytes(2)) = FixedSize
    BY NumberBytesType
  <2>2. Number(NumberBytes(2)) = 2
    <3>1. 2 \in Byte
      BY DEF Byte
    <3>. QED  BY <3>1, SmallIsRead
  <2>. QED  BY <2>1, <2>2 DEF GivenOk
<1>4. GivenOk("script", <<>>)
  BY DEF GivenOk
<1>. QED  BY <1>1, <1>2, <1>3, <1>4

LEMMA FieldsWithout ==
    ASSUME NEW entries, NEW out
    PROVE  FieldsIn(Without(entries, out)) = FieldsIn(entries) \ out /\ Without(entries, out) \subseteq entries
  BY DEF FieldsIn, Without

\* The fields of a map of version 0.
LEMMA FieldsOfOld ==
    ASSUME NEW kind \in Kinds, NEW pairs \in Seq(PairType), MapOk(Old(kind), pairs)
    PROVE  FieldsIn(Entries(Old(kind), pairs)) \subseteq DOMAIN Fields[Old(kind)] \union {"unknown"}
<1>1. \A e \in Entries(Old(kind), pairs) : EntryOk(Old(kind), e)
  BY AcceptedWritable
<1>. QED  BY <1>1, EntryFields, OldNames DEF FieldsIn

LEMMA OldDomains ==
    /\ DOMAIN Fields[Old("global")]
          = {"unsigned_tx", "xpub", "sp_ecdh_share", "sp_dleq", "version", "proprietary"}
    /\ DOMAIN Fields[Old("input")]
          = DOMAIN InputFields \ {"previous_txid", "spent_output_index", "sequence", "min_time", "min_height"}
    /\ DOMAIN Fields[Old("output")] = DOMAIN OutputFields \ {"amount", "script"}
    /\ "unsigned_tx" \notin DOMAIN InputFields /\ "version" \notin DOMAIN InputFields
    /\ "unsigned_tx" \notin DOMAIN OutputFields /\ "version" \notin DOMAIN OutputFields
<1>1. /\ Fields["global0"] = GlobalFields0 /\ Fields["input0"] = InputFields0
      /\ Fields["output0"] = OutputFields0
  BY DEF Fields
<1>2. DOMAIN GlobalFields0 = {"unsigned_tx", "xpub", "sp_ecdh_share", "sp_dleq", "version", "proprietary"}
  BY DEF GlobalFields0, Restrict
<1>3. DOMAIN InputFields0
         = DOMAIN InputFields \ {"previous_txid", "spent_output_index", "sequence", "min_time", "min_height"}
  BY DEF InputFields0, Restrict
<1>4. DOMAIN OutputFields0 = DOMAIN OutputFields \ {"amount", "script"}
  BY DEF OutputFields0, Restrict
<1>5. "unsigned_tx" \notin DOMAIN InputFields /\ "version" \notin DOMAIN InputFields
  BY DEF InputFields
<1>6. "unsigned_tx" \notin DOMAIN OutputFields /\ "version" \notin DOMAIN OutputFields
  BY DEF OutputFields
<1>. QED  BY <1>1, <1>2, <1>3, <1>4, <1>5, <1>6, OldNames

LEMMA OldGlobalGood ==
    ASSUME NEW pairs \in Seq(PairType), MapOk("global0", pairs), NEW tx, tx \in TxType,
           NEW entries, entries = Entries("global0", pairs)
    PROVE  GoodGlobal(IntoGlobal(entries, tx), Len(tx.ins), Len(tx.outs))
<1>1. "global" \in Kinds /\ "global0" = Old("global") /\ MapName("global", 0) = "global0"
  BY OldNames DEF Kinds, MapName
<1>2. PICK m : m = IntoGlobal(entries, tx)
  OBVIOUS
<1>3. PICK s0 : s0 = Without(entries, {"unsigned_tx", "version"})
  OBVIOUS
<1>4. PICK s1 : s1 = With("global", s0, "version", NumberBytes(2))
  OBVIOUS
<1>5. PICK s2 : s2 = With("global", s1, "tx_version", tx.version)
  OBVIOUS
<1>6. PICK s3 : s3 = With("global", s2, "input_count", <<Len(tx.ins)>>)
  OBVIOUS
<1>7. PICK s4 : s4 = With("global", s3, "output_count", <<Len(tx.outs)>>)
  OBVIOUS
<1>8. PICK s5 : s5 = With("global", s4, "tx_modifiable", <<0>>)
  OBVIOUS
<1>9. m = IF tx.lock = Zero THEN s5 ELSE With("global", s5, "fallback_lock_time", tx.lock)
  BY <1>2, <1>3, <1>4, <1>5, <1>6, <1>7, <1>8 DEF IntoGlobal, With
<1>10. tx.version \in Sized /\ tx.lock \in Sized /\ Len(tx.ins) \in Nat /\ Len(tx.outs) \in Nat
  BY DEF TxType
<1>11. FieldsIn(s0) \subseteq {"xpub", "sp_ecdh_share", "sp_dleq", "proprietary", "unknown"}
       /\ s0 \subseteq entries /\ FieldsIn(s0) = FieldsIn(entries) \ {"unsigned_tx", "version"}
  BY <1>1, <1>3, FieldsWithout, FieldsOfOld, OldDomains
<1>12. Sane("global", s0)
  <2>1. \A e \in s0 : e.field \notin {"unsigned_tx", "version"}
    BY <1>3 DEF Without
  <2>. QED  BY <1>1, <1>11, <2>1, AcceptedSane
<1>13. Sane("global", s1) /\ FieldsIn(s1) = FieldsIn(s0) \union {"version"}
  <2>1. GivenOk("version", NumberBytes(2)) /\ <<"global", "version">> \in GivenFields
    BY OthersGiven DEF GivenFields
  <2>2. "version" \notin FieldsIn(s0)
    BY <1>11
  <2>. QED  BY <1>4, <1>12, <2>1, <2>2, SaneWith
<1>14. Sane("global", s2) /\ FieldsIn(s2) = FieldsIn(s1) \union {"tx_version"}
  <2>1. GivenOk("tx_version", tx.version) /\ <<"global", "tx_version">> \in GivenFields
    BY <1>10, LockGiven DEF GivenFields
  <2>2. "tx_version" \notin FieldsIn(s1)
    BY <1>11, <1>13
  <2>. QED  BY <1>5, <1>13, <2>1, <2>2, SaneWith
<1>15. Sane("global", s3) /\ FieldsIn(s3) = FieldsIn(s2) \union {"input_count"}
       /\ Single("global", "input_count", <<Len(tx.ins)>>) \in s3
  <2>1. GivenOk("input_count", <<Len(tx.ins)>>) /\ <<"global", "input_count">> \in GivenFields
    BY <1>10, OthersGiven DEF GivenFields
  <2>2. "input_count" \notin FieldsIn(s2)
    BY <1>11, <1>13, <1>14
  <2>. QED  BY <1>6, <1>14, <2>1, <2>2, SaneWith
<1>16. Sane("global", s4) /\ FieldsIn(s4) = FieldsIn(s3) \union {"output_count"} /\ s3 \subseteq s4
       /\ Single("global", "output_count", <<Len(tx.outs)>>) \in s4
  <2>1. GivenOk("output_count", <<Len(tx.outs)>>) /\ <<"global", "output_count">> \in GivenFields
    BY <1>10, OthersGiven DEF GivenFields
  <2>2. "output_count" \notin FieldsIn(s3)
    BY <1>11, <1>13, <1>14, <1>15
  <2>. QED  BY <1>7, <1>15, <2>1, <2>2, SaneWith
<1>17. Sane("global", s5) /\ FieldsIn(s5) = FieldsIn(s4) \union {"tx_modifiable"} /\ s4 \subseteq s5
  <2>1. GivenOk("tx_modifiable", <<0>>) /\ <<"global", "tx_modifiable">> \in GivenFields
    BY OthersGiven DEF GivenFields
  <2>2. "tx_modifiable" \notin FieldsIn(s4)
    BY <1>11, <1>13, <1>14, <1>15, <1>16
  <2>. QED  BY <1>8, <1>16, <2>1, <2>2, SaneWith
<1>18. Sane("global", m) /\ s5 \subseteq m
       /\ FieldsIn(m) \ {"fallback_lock_time"} = FieldsIn(s5)
  <2>0. "fallback_lock_time" \notin FieldsIn(s5)
    BY <1>11, <1>13, <1>14, <1>15, <1>16, <1>17
  <2>1. CASE tx.lock = Zero
    BY <1>9, <1>17, <2>0, <2>1
  <2>2. CASE tx.lock # Zero
    <3>1. GivenOk("fallback_lock_time", tx.lock) /\ <<"global", "fallback_lock_time">> \in GivenFields
      BY <1>10, LockGiven DEF GivenFields
    <3>2. m = With("global", s5, "fallback_lock_time", tx.lock)
      BY <1>9, <2>2
    <3>3. Sane("global", m) /\ s5 \subseteq m /\ FieldsIn(m) = FieldsIn(s5) \union {"fallback_lock_time"}
      BY <1>17, <2>0, <3>1, <3>2, SaneWith
    <3>. QED  BY <2>0, <3>3
  <2>. QED  BY <2>1, <2>2
<1>19. ValueOf(m, "input_count")[1] = Len(tx.ins)
  <2>1. Single("global", "input_count", <<Len(tx.ins)>>) \in m
    BY <1>15, <1>16, <1>17, <1>18
  <2>2. GivenOk("input_count", <<Len(tx.ins)>>) /\ <<"global", "input_count">> \in GivenFields
    BY <1>10, OthersGiven DEF GivenFields
  <2>3. ValueOf(m, "input_count") = <<Len(tx.ins)>>
    BY <1>18, <2>1, <2>2, GivenValue
  <2>. QED  BY <2>3
<1>20. ValueOf(m, "output_count")[1] = Len(tx.outs)
  <2>1. Single("global", "output_count", <<Len(tx.outs)>>) \in m
    BY <1>16, <1>17, <1>18
  <2>2. GivenOk("output_count", <<Len(tx.outs)>>) /\ <<"global", "output_count">> \in GivenFields
    BY <1>10, OthersGiven DEF GivenFields
  <2>3. ValueOf(m, "output_count") = <<Len(tx.outs)>>
    BY <1>18, <2>1, <2>2, GivenValue
  <2>. QED  BY <2>3
<1>21. SpPaired(m)
  <2>1. SpPaired(entries)
    BY DEF MapOk
  <2>2. "sp_ecdh_share" \in FieldsIn(m) <=> "sp_ecdh_share" \in FieldsIn(entries)
    BY <1>11, <1>13, <1>14, <1>15, <1>16, <1>17, <1>18
  <2>3. "sp_dleq" \in FieldsIn(m) <=> "sp_dleq" \in FieldsIn(entries)
    BY <1>11, <1>13, <1>14, <1>15, <1>16, <1>17, <1>18
  <2>. QED  BY <2>1, <2>2, <2>3 DEF SpPaired
<1>22. {"version", "tx_version", "input_count", "output_count", "tx_modifiable"} \subseteq FieldsIn(m)
  BY <1>13, <1>14, <1>15, <1>16, <1>17, <1>18
<1>. QED  BY <1>2, <1>18, <1>19, <1>20, <1>21, <1>22 DEF GoodGlobal

LEMMA OldInputGood ==
    ASSUME NEW pairs \in Seq(PairType), MapOk("input0", pairs), NEW in \in TxInType
    PROVE  GoodInput(IntoInput(Entries("input0", pairs), in))
<1>1. "input" \in Kinds /\ "input0" = Old("input") /\ MapName("input", 0) = "input0"
  BY OldNames DEF Kinds, MapName
<1>2. PICK s0 : s0 = Entries("input0", pairs)
  OBVIOUS
<1>3. PICK s1 : s1 = With("input", s0, "previous_txid", in.txid)
  OBVIOUS
<1>4. PICK s2 : s2 = With("input", s1, "spent_output_index", in.vout)
  OBVIOUS
<1>5. PICK s3 : s3 = With("input", s2, "sequence", in.seq)
  OBVIOUS
<1>6. IntoInput(s0, in) = s3
  BY <1>3, <1>4, <1>5 DEF IntoInput, With
<1>7. in.txid \in Sized /\ in.vout \in Sized /\ in.seq \in Sized
  BY DEF TxInType
<1>8. FieldsIn(s0) \subseteq (DOMAIN InputFields \ {"previous_txid", "spent_output_index", "sequence"}) \union {"unknown"}
  BY <1>1, <1>2, FieldsOfOld, OldDomains
<1>9. Sane("input", s0)
  <2>1. \A e \in s0 : e.field \in FieldsIn(s0)
    BY DEF FieldsIn
  <2>2. \A e \in s0 : e.field \notin {"unsigned_tx", "version"}
    BY <1>8, <2>1, OldDomains
  <2>. QED  BY <1>1, <1>2, <2>2, AcceptedSane
<1>10. Sane("input", s1) /\ FieldsIn(s1) = FieldsIn(s0) \union {"previous_txid"}
  <2>1. GivenOk("previous_txid", in.txid) /\ <<"input", "previous_txid">> \in GivenFields
    BY <1>7, LockGiven DEF GivenFields
  <2>2. "previous_txid" \notin FieldsIn(s0)
    BY <1>8
  <2>. QED  BY <1>3, <1>9, <2>1, <2>2, SaneWith
<1>11. Sane("input", s2) /\ FieldsIn(s2) = FieldsIn(s1) \union {"spent_output_index"}
  <2>1. GivenOk("spent_output_index", in.vout) /\ <<"input", "spent_output_index">> \in GivenFields
    BY <1>7, LockGiven DEF GivenFields
  <2>2. "spent_output_index" \notin FieldsIn(s1)
    BY <1>8, <1>10
  <2>. QED  BY <1>4, <1>10, <2>1, <2>2, SaneWith
<1>12. Sane("input", s3) /\ FieldsIn(s3) = FieldsIn(s2) \union {"sequence"}
  <2>1. GivenOk("sequence", in.seq) /\ <<"input", "sequence">> \in GivenFields
    BY <1>7, LockGiven DEF GivenFields
  <2>2. "sequence" \notin FieldsIn(s2)
    BY <1>8, <1>10, <1>11
  <2>. QED  BY <1>5, <1>11, <2>1, <2>2, SaneWith
<1>. QED  BY <1>2, <1>6, <1>10, <1>11, <1>12 DEF GoodInput

LEMMA OldOutputGood ==
    ASSUME NEW pairs \in Seq(PairType), MapOk("output0", pairs), NEW out \in TxOutType,
           Bad \notin ToSet(out.amount)
    PROVE  GoodOutput(IntoOutput(Entries("output0", pairs), out))
<1>1. "output" \in Kinds /\ "output0" = Old("output") /\ MapName("output", 0) = "output0"
  BY OldNames DEF Kinds, MapName
<1>2. PICK s0 : s0 = Entries("output0", pairs)
  OBVIOUS
<1>3. PICK s1 : s1 = With("output", s0, "amount", out.amount)
  OBVIOUS
<1>4. PICK s2 : s2 = With("output", s1, "script", out.script)
  OBVIOUS
<1>5. IntoOutput(s0, out) = s2
  BY <1>3, <1>4 DEF IntoOutput, With
<1>6. out.amount \in Seq(Nat) /\ Len(out.amount) = FixedSize /\ out.script \in Seq(Nat)
  BY DEF TxOutType, Sized
<1>7. FieldsIn(s0) \subseteq (DOMAIN OutputFields \ {"amount", "script"}) \union {"unknown"}
  BY <1>1, <1>2, FieldsOfOld, OldDomains
<1>8. Sane("output", s0)
  <2>1. \A e \in s0 : e.field \in FieldsIn(s0)
    BY DEF FieldsIn
  <2>2. \A e \in s0 : e.field \notin {"unsigned_tx", "version"}
    BY <1>7, <2>1, OldDomains
  <2>. QED  BY <1>1, <1>2, <2>2, AcceptedSane
<1>9. Sane("output", s1) /\ FieldsIn(s1) = FieldsIn(s0) \union {"amount"}
  <2>1. GivenOk("amount", out.amount) /\ <<"output", "amount">> \in GivenFields
    BY <1>6 DEF GivenFields, GivenOk
  <2>2. "amount" \notin FieldsIn(s0)
    BY <1>7
  <2>. QED  BY <1>3, <1>8, <2>1, <2>2, SaneWith
<1>10. Sane("output", s2) /\ FieldsIn(s2) = FieldsIn(s1) \union {"script"}
  <2>1. GivenOk("script", out.script) /\ <<"output", "script">> \in GivenFields
    BY <1>6 DEF GivenFields, GivenOk
  <2>2. "script" \notin FieldsIn(s1)
    BY <1>7, <1>9
  <2>. QED  BY <1>4, <1>9, <2>1, <2>2, SaneWith
<1>. QED  BY <1>2, <1>5, <1>9, <1>10 DEF GoodOutput

------------------------------------------------------------------------------
(* What a message that is well formed means is such a PSBT                  *)

LEMMA DefaultSane ==
    ASSUME NEW kind, NEW entries, Sane(kind, entries), NEW f, <<kind, f>> \in GivenFields,
           NEW v, GivenOk(f, v), NEW more, more = WithDefault(kind, entries, f, v)
    PROVE  Sane(kind, more) /\ FieldsIn(more) = FieldsIn(entries) \union {f} /\ entries \subseteq more
<1>1. CASE f \in FieldsIn(entries)
  BY <1>1 DEF WithDefault
<1>2. CASE f \notin FieldsIn(entries)
  <2>1. more = With(kind, entries, f, v)
    BY <1>2 DEF WithDefault, With
  <2>. QED  BY <1>2, <2>1, SaneWith
<1>. QED  BY <1>1, <1>2

LEMMA NewGlobalGood ==
    ASSUME NEW pairs \in Seq(PairType), MapOk("global", pairs),
           NEW entries, entries = Entries("global", pairs),
           NEW n, n = ValueOf(entries, "input_count")[1],
           NEW k, k = ValueOf(entries, "output_count")[1]
    PROVE  GoodGlobal(WithDefault("global", entries, "tx_modifiable", <<0>>), n, k)
<1>1. "global" \in Kinds /\ MapName("global", 2) = "global"
  BY DEF Kinds, MapName
<1>2. PICK more : more = WithDefault("global", entries, "tx_modifiable", <<0>>)
  OBVIOUS
<1>3. Sane("global", entries)
  BY <1>1, AcceptedSane
<1>4. <<"global", "tx_modifiable">> \in GivenFields /\ GivenOk("tx_modifiable", <<0>>)
  BY OthersGiven DEF GivenFields
<1>5. Sane("global", more) /\ FieldsIn(more) = FieldsIn(entries) \union {"tx_modifiable"}
  BY <1>2, <1>3, <1>4, DefaultSane
<1>6. {"version", "tx_version", "input_count", "output_count"} \subseteq FieldsIn(entries) /\ SpPaired(entries)
  BY DEF MapOk, Required
<1>7. ValueOf(more, "input_count")[1] = n /\ ValueOf(more, "output_count")[1] = k
  BY <1>2, CountOf
<1>8. SpPaired(more)
  BY <1>5, <1>6 DEF SpPaired
<1>. QED  BY <1>2, <1>5, <1>6, <1>7, <1>8 DEF GoodGlobal

LEMMA NewInputGood ==
    ASSUME NEW pairs \in Seq(PairType), MapOk("input", pairs)
    PROVE  GoodInput(Entries("input", pairs))
<1>1. "input" \in Kinds /\ MapName("input", 2) = "input"
  BY DEF Kinds, MapName
<1>2. Sane("input", Entries("input", pairs))
  BY <1>1, AcceptedSane
<1>. QED  BY <1>2, RequiredThere DEF GoodInput

LEMMA NewOutputGood ==
    ASSUME NEW pairs \in Seq(PairType), MapOk("output", pairs)
    PROVE  GoodOutput(WithDefault("output", Entries("output", pairs), "script", <<>>))
<1>1. "output" \in Kinds /\ MapName("output", 2) = "output"
  BY DEF Kinds, MapName
<1>2. Sane("output", Entries("output", pairs))
  BY <1>1, AcceptedSane
<1>3. <<"output", "script">> \in GivenFields /\ GivenOk("script", <<>>)
  BY OthersGiven DEF GivenFields
<1>4. PICK more : more = WithDefault("output", Entries("output", pairs), "script", <<>>)
  OBVIOUS
<1>5. Sane("output", more) /\ FieldsIn(more) = FieldsIn(Entries("output", pairs)) \union {"script"}
  BY <1>2, <1>3, <1>4, DefaultSane
<1>. QED  BY <1>4, <1>5, RequiredThere DEF GoodOutput

\* The transaction of a message of version 0.
LEMMA TxIsGood ==
    ASSUME NEW pairs \in Seq(PairType), MapOk("global0", pairs),
           NEW tx, tx = DecodeTx[ValueOf(Entries("global0", pairs), "unsigned_tx")]
    PROVE  tx \in TxType /\ \A i \in 1 .. Len(tx.outs) : Bad \notin ToSet(tx.outs[i].amount)
<1>1. PICK value : value = ValueOf(Entries("global0", pairs), "unsigned_tx")
  OBVIOUS
<1>2. tx \in TxType
  BY <1>1, TxOfMapDecodes
<1>3. value \in Seq(Nat) /\ TxSize[value] = Len(value)
  BY <1>1, TxOfMap
<1>4. "global0" \in MapNames
  BY DEF MapNames
<1>5. TxDecodes[value]
  <2>1. KeysDiffer("global0", pairs) /\ "unsigned_tx" \in FieldsIn(Entries("global0", pairs))
    BY DEF MapOk, Required
  <2>2. "unsigned_tx" \notin Keyed["global0"]
    BY DEF Keyed, GlobalKeyed
  <2>3. PICK i \in 1 .. Len(pairs) : /\ FieldOf("global0", pairs[i].type) = "unsigned_tx"
                                     /\ OneEntry(Entries("global0", pairs), "unsigned_tx", EntryAt("global0", pairs[i]))
    BY <1>4, <2>1, <2>2, OneOfField
  <2>4. value = EntryAt("global0", pairs[i]).value
    BY <1>1, <2>3, OneValue
  <2>5. value = pairs[i].value
    BY <2>4, EntryParts DEF EntryAt
  <2>6. PairOk("global0", pairs[i])
    BY DEF MapOk
  <2>7. ValueDecodes("global0", "unsigned_tx", value)
    BY <2>3, <2>5, <2>6 DEF PairOk
  <2>. QED  BY <2>7 DEF ValueDecodes
<1>6. \A i \in 1 .. TxOutCount(value) : Bad \notin ToSet(Part(value, TxOutStart(value, i)))
  BY <1>3, <1>5 DEF TxDecodes
<1>7. Len(tx.outs) = TxOutCount(value)
  BY <1>1, <1>3, WholeTx
<1>8. \A i \in 1 .. TxOutCount(value) : tx.outs[i].amount = Part(value, TxOutStart(value, i))
  <2>1. tx.outs = [i \in 1 .. TxOutCount(value) |-> TxOut(value, i)]
    BY <1>1, <1>3 DEF DecodeTx
  <2>. QED  BY <2>1 DEF TxOut
<1>. QED  BY <1>2, <1>6, <1>7, <1>8

LEMMA MeaningGood ==
    ASSUME NEW message \in MessageType, WellFormed(message)
    PROVE  \E n, k \in Nat : /\ n = InputCount(message) /\ k = OutputCount(message)
                             /\ GoodPsbt(Meaning(message), n, k)
<1>1. PICK n \in Nat, k \in Nat : n = InputCount(message) /\ k = OutputCount(message)
  BY MessageCounts
<1>2. message.format \in {0, 2}
  BY DEF MessageType
<1>3. ASSUME NEW i \in 1 .. 1 + n + k
      PROVE  MapOk(NameAt(message, i), message.maps[i]) /\ message.maps[i] \in Seq(PairType)
  BY <1>1, MapsAreOk
<1>4. /\ NameAt(message, 1) = MapName("global", message.format)
      /\ \A i \in 1 .. n : NameAt(message, 1 + i) = MapName("input", message.format)
      /\ \A i \in 1 .. k : NameAt(message, 1 + n + i) = MapName("output", message.format)
  BY <1>1 DEF NameAt
<1>5. 1 \in 1 .. 1 + n + k /\ (\A i \in 1 .. n : 1 + i \in 1 .. 1 + n + k)
      /\ \A i \in 1 .. k : 1 + n + i \in 1 .. 1 + n + k
  OBVIOUS
<1>6. PICK tx : tx = TxOfMessage(message)
  OBVIOUS
<1>7. PICK psbt : psbt = Meaning(message)
  OBVIOUS
<1>8. HasThree(psbt)
  BY <1>1, <1>6, <1>7, MeaningIsRead DEF HasThree
<1>9. ASSUME message.format = 2 PROVE GoodPsbt(psbt, n, k)
  <2>1. /\ psbt.global = WithDefault("global", GlobalOf(message), "tx_modifiable", <<0>>)
        /\ psbt.inputs = ReadInputs(message, n)
        /\ psbt.outputs = ReadOutputs(message, k)
    BY <1>1, <1>6, <1>7, <1>9, MeaningIsRead
  <2>2. MapName("global", 2) = "global" /\ MapName("input", 2) = "input" /\ MapName("output", 2) = "output"
    BY MapNamesOf
  <2>3. GoodGlobal(psbt.global, n, k)
    <3>1. GlobalOf(message) = Entries("global", message.maps[1])
      BY <1>9, <2>2 DEF GlobalOf
    <3>2. MapOk("global", message.maps[1]) /\ message.maps[1] \in Seq(PairType)
      BY <1>3, <1>4, <1>5, <1>9, <2>2
    <3>3. n = ValueOf(GlobalOf(message), "input_count")[1] /\ k = ValueOf(GlobalOf(message), "output_count")[1]
      BY <1>1, <1>9 DEF InputCount, OutputCount
    <3>. QED  BY <2>1, <3>1, <3>2, <3>3, NewGlobalGood
  <2>4. psbt.inputs = [i \in 1 .. n |-> psbt.inputs[i]] /\ \A i \in 1 .. n : GoodInput(psbt.inputs[i])
    <3>1. PICK list : list = psbt.inputs
      OBVIOUS
    <3>2. list = [i \in 1 .. n |-> Entries("input", message.maps[1 + i])]
      BY <1>9, <2>1, <2>2, <3>1 DEF ReadInputs
    <3>3. ASSUME NEW i \in 1 .. n PROVE GoodInput(list[i])
      <4>1. MapOk("input", message.maps[1 + i]) /\ message.maps[1 + i] \in Seq(PairType)
        BY <1>3, <1>4, <1>5, <1>9, <2>2
      <4>. QED  BY <3>2, <4>1, NewInputGood
    <3>4. list = [i \in 1 .. n |-> list[i]]
      BY <3>2
    <3>. QED  BY <3>1, <3>3, <3>4
  <2>5. psbt.outputs = [i \in 1 .. k |-> psbt.outputs[i]] /\ \A i \in 1 .. k : GoodOutput(psbt.outputs[i])
    <3>1. PICK list : list = psbt.outputs
      OBVIOUS
    <3>2. list = [i \in 1 .. k |-> WithDefault("output", Entries("output", message.maps[1 + n + i]), "script", <<>>)]
      BY <1>1, <1>9, <2>1, <2>2, <3>1 DEF ReadOutputs
    <3>3. ASSUME NEW i \in 1 .. k PROVE GoodOutput(list[i])
      <4>1. MapOk("output", message.maps[1 + n + i]) /\ message.maps[1 + n + i] \in Seq(PairType)
        BY <1>3, <1>4, <1>5, <1>9, <2>2
      <4>. QED  BY <3>2, <4>1, NewOutputGood
    <3>4. list = [i \in 1 .. k |-> list[i]]
      BY <3>2
    <3>. QED  BY <3>1, <3>3, <3>4
  <2>. QED  BY <1>8, <2>3, <2>4, <2>5 DEF GoodPsbt
<1>10. ASSUME message.format = 0 PROVE GoodPsbt(psbt, n, k)
  <2>0. PICK entries : entries = Entries("global0", message.maps[1])
    OBVIOUS
  <2>1. /\ psbt.global = IntoGlobal(GlobalOf(message), tx)
        /\ psbt.inputs = [i \in 1 .. n |-> IntoInput(ReadInputs(message, n)[i], tx.ins[i])]
        /\ psbt.outputs = [i \in 1 .. k |-> IntoOutput(ReadOutputs(message, k)[i], tx.outs[i])]
    BY <1>1, <1>6, <1>7, <1>10, MeaningIsRead
  <2>2. MapName("global", 0) = "global0" /\ MapName("input", 0) = "input0" /\ MapName("output", 0) = "output0"
    BY MapNamesOf
  <2>3. /\ tx \in TxType /\ Len(tx.ins) = n /\ Len(tx.outs) = k
        /\ \A i \in 1 .. k : Bad \notin ToSet(tx.outs[i].amount)
        /\ GoodGlobal(psbt.global, n, k)
    <3>1. GlobalOf(message) = entries
      BY <1>10, <2>0, <2>2 DEF GlobalOf
    <3>2. MapOk("global0", message.maps[1]) /\ message.maps[1] \in Seq(PairType)
      BY <1>3, <1>4, <1>5, <1>10, <2>2
    <3>3. tx = DecodeTx[ValueOf(Entries("global0", message.maps[1]), "unsigned_tx")]
      BY <1>6, <2>0, <3>1 DEF TxOfMessage
    <3>4. tx \in TxType /\ \A i \in 1 .. Len(tx.outs) : Bad \notin ToSet(tx.outs[i].amount)
      BY <3>2, <3>3, TxIsGood
    <3>5. Len(tx.ins) = n /\ Len(tx.outs) = k
      BY <1>1, <1>6, <1>10, MessageCounts
    <3>6. GoodGlobal(psbt.global, Len(tx.ins), Len(tx.outs))
      BY <2>0, <2>1, <3>1, <3>2, <3>4, OldGlobalGood
    <3>. QED  BY <3>4, <3>5, <3>6
  <2>4. /\ \A i \in 1 .. n : tx.ins[i] \in TxInType
        /\ \A i \in 1 .. k : tx.outs[i] \in TxOutType
    BY <2>3 DEF TxType
  <2>5. psbt.inputs = [i \in 1 .. n |-> psbt.inputs[i]] /\ \A i \in 1 .. n : GoodInput(psbt.inputs[i])
    <3>1. PICK list : list = psbt.inputs
      OBVIOUS
    <3>2. list = [i \in 1 .. n |-> IntoInput(Entries("input0", message.maps[1 + i]), tx.ins[i])]
      BY <1>10, <2>1, <2>2, <3>1 DEF ReadInputs
    <3>3. ASSUME NEW i \in 1 .. n PROVE GoodInput(list[i])
      <4>1. MapOk("input0", message.maps[1 + i]) /\ message.maps[1 + i] \in Seq(PairType)
        BY <1>3, <1>4, <1>5, <1>10, <2>2
      <4>. QED  BY <2>4, <3>2, <4>1, OldInputGood
    <3>4. list = [i \in 1 .. n |-> list[i]]
      BY <3>2
    <3>. QED  BY <3>1, <3>3, <3>4
  <2>6. psbt.outputs = [i \in 1 .. k |-> psbt.outputs[i]] /\ \A i \in 1 .. k : GoodOutput(psbt.outputs[i])
    <3>1. PICK list : list = psbt.outputs
      OBVIOUS
    <3>2. list = [i \in 1 .. k |-> IntoOutput(Entries("output0", message.maps[1 + n + i]), tx.outs[i])]
      BY <1>1, <1>10, <2>1, <2>2, <3>1 DEF ReadOutputs
    <3>3. ASSUME NEW i \in 1 .. k PROVE GoodOutput(list[i])
      <4>1. MapOk("output0", message.maps[1 + n + i]) /\ message.maps[1 + n + i] \in Seq(PairType)
        BY <1>3, <1>4, <1>5, <1>10, <2>2
      <4>. QED  BY <2>3, <2>4, <3>2, <4>1, OldOutputGood
    <3>4. list = [i \in 1 .. k |-> list[i]]
      BY <3>2
    <3>. QED  BY <3>1, <3>3, <3>4
  <2>. QED  BY <1>8, <2>3, <2>5, <2>6 DEF GoodPsbt
<1>11. GoodPsbt(psbt, n, k)
  BY <1>2, <1>9, <1>10
<1>. QED  BY <1>1, <1>7, <1>11

------------------------------------------------------------------------------
(* Version 2 is read as it was written                                      *)

\* The maps of what is written.
MapsOf(maps, first, ins, n, outs, k) ==
    /\ maps \in Seq(Seq(PairType)) /\ maps # <<>> /\ Len(maps) = 1 + n + k /\ maps[1] = first
    /\ \A i \in 1 .. n : maps[1 + i] = ins[i]
    /\ \A i \in 1 .. k : maps[1 + n + i] = outs[i]

Concats(c, a, b, S) ==
    /\ c \in Seq(S) /\ Len(c) = Len(a) + Len(b)
    /\ \A i \in 1 .. Len(a) : c[i] = a[i]
    /\ \A i \in 1 .. Len(b) : c[Len(a) + i] = b[i]

LEMMA ConcatIs ==
    ASSUME NEW S, NEW a \in Seq(S), NEW b \in Seq(S)
    PROVE  Concats(a \o b, a, b, S)
  BY Concat DEF Concats

LEMMA JoinedMaps ==
    ASSUME NEW first \in Seq(PairType),
           NEW ins, NEW n \in Nat, ins = [i \in 1 .. n |-> ins[i]], \A i \in 1 .. n : ins[i] \in Seq(PairType),
           NEW outs, NEW k \in Nat, outs = [i \in 1 .. k |-> outs[i]], \A i \in 1 .. k : outs[i] \in Seq(PairType),
           NEW maps, maps = <<first>> \o ins \o outs
    PROVE  MapsOf(maps, first, ins, n, outs, k)
<1>1. PICK S : S = Seq(PairType)
  OBVIOUS
<1>2. ins \in Seq(S) /\ Len(ins) = n
  BY <1>1, ListType
<1>3. outs \in Seq(S) /\ Len(outs) = k
  BY <1>1, ListType
<1>4. PICK head : head = <<first>>
  OBVIOUS
<1>5. head \in Seq(S) /\ Len(head) = 1 /\ head[1] = first
  BY <1>1, <1>4
<1>6. PICK front : front = head \o ins
  OBVIOUS
<1>7. /\ front \in Seq(S) /\ Len(front) = 1 + n /\ front[1] = first
      /\ \A i \in 1 .. n : front[1 + i] = ins[i]
  <2>1. Concats(front, head, ins, S)
    BY <1>2, <1>5, <1>6, ConcatIs
  <2>. QED  BY <1>2, <1>5, <2>1 DEF Concats
<1>8. maps = front \o outs
  BY <1>4, <1>6
<1>9. /\ maps \in Seq(S) /\ Len(maps) = 1 + n + k /\ maps[1] = first
      /\ (\A i \in 1 .. n : maps[1 + i] = ins[i])
      /\ \A i \in 1 .. k : maps[1 + n + i] = outs[i]
  <2>1. Concats(maps, front, outs, S)
    BY <1>3, <1>7, <1>8, ConcatIs
  <2>2. 1 \in 1 .. 1 + n /\ \A i \in 1 .. n : 1 + i \in 1 .. 1 + n
    OBVIOUS
  <2>. QED  BY <1>3, <1>7, <2>1, <2>2 DEF Concats
<1>10. maps # <<>>
  BY <1>9
<1>. QED  BY <1>1, <1>9, <1>10 DEF MapsOf

\* A map of version 2 is read as what was written.
LEMMA BackIn2 ==
    ASSUME NEW kind \in Kinds, NEW entries, Sane(kind, entries), ~Misread2(kind, entries),
           NEW pairs, pairs = EncodeMap(kind, entries)
    PROVE  /\ pairs \in Seq(PairType) /\ Entries(kind, pairs) = entries
           /\ KeysDiffer(kind, pairs) /\ PairsOk(kind, pairs)
<1>1. ASSUME NEW e \in entries PROVE EntryOk(kind, e)
  <2>1. Readable(kind, e)
    BY DEF Sane
  <2>2. ~(e.field = "unknown" /\ FieldOf(kind, e.type) # "unknown")
    BY DEF Misread2
  <2>. QED  BY <2>1, <2>2, ReadIn2
<1>2. Written(kind, entries) = entries
  <2>1. ASSUME NEW e \in entries PROVE e.field \in WrittenFields(kind)
    <3>1. e.field \in DOMAIN Fields[kind] \union {"unknown"} /\ e.field # "unsigned_tx"
      BY ReadableParts DEF Sane, Readable
    <3>2. Fields["global"] = GlobalFields /\ Fields["input"] = InputFields /\ Fields["output"] = OutputFields
      BY DEF Fields
    <3>. QED  BY <3>1, <3>2 DEF Kinds, WrittenFields
  <2>. QED  BY <2>1 DEF Written
<1>3. Writable(kind, entries)
  BY <1>1, <1>2 DEF Writable, Sane
<1>4. ReadBack(kind, entries, pairs)
  BY <1>3, OldNames, MapIsReadBack
<1>. QED  BY <1>2, <1>4 DEF ReadBack, PairsOk

LEMMA GlobalBackIn2 ==
    ASSUME NEW entries, NEW n, NEW k, GoodGlobal(entries, n, k), ~Misread2("global", entries),
           NEW pairs, pairs = EncodeMap("global", entries)
    PROVE  MapOk("global", pairs) /\ Entries("global", pairs) = entries
<1>1. "global" \in Kinds /\ Sane("global", entries)
  BY DEF Kinds, GoodGlobal
<1>2. Entries("global", pairs) = entries /\ KeysDiffer("global", pairs) /\ PairsOk("global", pairs)
  BY <1>1, BackIn2
<1>3. Required["global"] \subseteq FieldsIn(entries) /\ SpPaired(entries)
  BY DEF Required, GoodGlobal
<1>. QED  BY <1>2, <1>3 DEF MapOk, PairsOk

LEMMA InputBackIn2 ==
    ASSUME NEW entries, GoodInput(entries), ~Misread2("input", entries),
           SpPaired(entries), SpendsPrevious(entries),
           NEW pairs, pairs = EncodeMap("input", entries)
    PROVE  MapOk("input", pairs) /\ Entries("input", pairs) = entries
<1>1. "input" \in Kinds /\ Sane("input", entries)
  BY DEF Kinds, GoodInput
<1>2. Entries("input", pairs) = entries /\ KeysDiffer("input", pairs) /\ PairsOk("input", pairs)
  BY <1>1, BackIn2
<1>3. Required["input"] \subseteq FieldsIn(entries)
  BY DEF Required, GoodInput
<1>. QED  BY <1>2, <1>3 DEF MapOk, PairsOk

LEMMA OutputBackIn2 ==
    ASSUME NEW entries, GoodOutput(entries), ~Misread2("output", entries), LabelHasInfo(entries),
           NEW pairs, pairs = EncodeOutput(entries)
    PROVE  /\ MapOk("output", pairs)
           /\ WithDefault("output", Entries("output", pairs), "script", <<>>) = entries
<1>1. "output" \in Kinds
  BY DEF Kinds
<1>2. Sane("output", entries) /\ {"amount", "script"} \subseteq FieldsIn(entries)
  BY DEF GoodOutput
<1>3. PICK some : some = IF OmitScript(entries) THEN Without(entries, {"script"}) ELSE entries
  OBVIOUS
<1>4. some \subseteq entries
  BY <1>3 DEF Without
<1>5. Sane("output", some) /\ ~Misread2("output", some)
  BY <1>2, <1>4, SaneLess DEF Misread2
<1>6. pairs = EncodeMap("output", some)
  BY <1>3 DEF EncodeOutput
<1>7. Entries("output", pairs) = some /\ KeysDiffer("output", pairs) /\ PairsOk("output", pairs)
  BY <1>1, <1>5, <1>6, BackIn2
<1>8. \A f \in FieldsIn(entries) : f # "script" => f \in FieldsIn(some)
  BY <1>3 DEF Without, FieldsIn
<1>9. Required["output"] \subseteq FieldsIn(some)
  BY <1>2, <1>8 DEF Required
<1>10. LabelHasInfo(some)
  BY <1>4, <1>8, FieldsStay DEF LabelHasInfo
<1>11. FieldsIn(some) \intersect {"script", "sp_v0_info"} # {}
  <2>1. CASE OmitScript(entries)
    <3>1. "sp_v0_info" \in FieldsIn(entries)
      BY <2>1 DEF OmitScript
    <3>. QED  BY <1>8, <3>1
  <2>2. CASE ~OmitScript(entries)
    BY <1>2, <1>3, <2>2
  <2>. QED  BY <2>1, <2>2
<1>12. MapOk("output", pairs)
  BY <1>7, <1>9, <1>10, <1>11 DEF MapOk, PairsOk
<1>13. WithDefault("output", some, "script", <<>>) = entries
  <2>1. CASE ~OmitScript(entries)
    BY <1>2, <1>3, <2>1 DEF WithDefault
  <2>2. CASE OmitScript(entries)
    <3>1. PICK e \in entries : e.field = "script"
      BY <1>2 DEF FieldsIn
    <3>2. "script" \notin Keyed["output"] \union {"unknown"}
      BY DEF Keyed, OutputKeyed
    <3>3. e.value = <<>>
      <4>1. ValueOf(entries, "script") = e.value
        BY <1>1, <1>2, <3>1, <3>2, ValueIs
      <4>. QED  BY <2>2, <4>1 DEF OmitScript
    <3>4. Readable("output", e) /\ ~(e.field = "unknown" /\ FieldOf("output", e.type) # "unknown")
      BY <1>2, <3>1 DEF Sane
    <3>5. EntryOk("output", e)
      BY <1>1, <3>4, ReadIn2
    <3>6. e.type = Fields["output"]["script"] /\ e.data = <<>>
      BY <1>1, <3>1, <3>2, <3>4, ReadableParts
    <3>7. e = Single("output", "script", <<>>)
      BY <3>3, <3>5, <3>6 DEF EntryOk, Single
    <3>8. \A x \in entries : x.field = "script" => x = e
      BY <1>1, <1>2, <3>1, <3>2, OnlyOne
    <3>9. some = {x \in entries : x.field # "script"}
      BY <1>3, <2>2 DEF Without
    <3>10. "script" \notin FieldsIn(some) /\ some \union {e} = entries
      BY <3>1, <3>8, <3>9 DEF FieldsIn
    <3>. QED  BY <3>7, <3>10 DEF WithDefault
  <2>. QED  BY <2>1, <2>2
<1>. QED  BY <1>7, <1>12, <1>13

LEMMA PartsEqual ==
    ASSUME NEW p, HasThree(p), NEW q, HasThree(q),
           p.global = q.global, p.inputs = q.inputs, p.outputs = q.outputs
    PROVE  p = q
  BY DEF HasThree

\* What is written in version 2.
Encoded2(psbt, n, k, maps) ==
    MapsOf(maps, EncodeMap("global", psbt.global),
           [i \in 1 .. n |-> EncodeMap("input", psbt.inputs[i])], n,
           [i \in 1 .. k |-> EncodeOutput(psbt.outputs[i])], k)

LEMMA Encoded2Is ==
    ASSUME NEW psbt, PsbtTyped(psbt), NEW n \in Nat, NEW k \in Nat, GoodPsbt(psbt, n, k)
    PROVE  Encoded2(psbt, n, k, Encode2(psbt))
<1>1. GlobalTyped(psbt.global)
  BY DEF PsbtTyped
<1>2. psbt.inputs = [i \in 1 .. n |-> psbt.inputs[i]] /\ \A i \in 1 .. n : GoodInput(psbt.inputs[i])
  BY DEF GoodPsbt
<1>3. psbt.outputs = [i \in 1 .. k |-> psbt.outputs[i]] /\ \A i \in 1 .. k : GoodOutput(psbt.outputs[i])
  BY DEF GoodPsbt
<1>4. DOMAIN psbt.inputs = 1 .. n /\ DOMAIN psbt.outputs = 1 .. k
  BY <1>2, <1>3
<1>5. PICK global \in Seq(PairType) : global = EncodeMap("global", psbt.global)
  <2>1. "global" \in MapNames /\ EntriesTyped(psbt.global)
    BY <1>1 DEF MapNames, GlobalTyped
  <2>. QED  BY <2>1, EncodeMapTyped
<1>6. PICK ins : ins = [i \in 1 .. n |-> EncodeMap("input", psbt.inputs[i])]
  OBVIOUS
<1>7. PICK outs : outs = [i \in 1 .. k |-> EncodeOutput(psbt.outputs[i])]
  OBVIOUS
<1>8. ASSUME NEW i \in 1 .. n PROVE ins[i] \in Seq(PairType)
  <2>1. "input" \in MapNames /\ EntriesTyped(psbt.inputs[i])
    BY <1>2 DEF MapNames, GoodInput, Sane
  <2>. QED  BY <1>6, <2>1, EncodeMapTyped
<1>9. ASSUME NEW i \in 1 .. k PROVE outs[i] \in Seq(PairType)
  <2>1. EntriesTyped(psbt.outputs[i])
    BY <1>3 DEF GoodOutput, Sane
  <2>. QED  BY <1>7, <2>1, EncodeOutputTyped
<1>10. ins = [i \in 1 .. n |-> ins[i]] /\ outs = [i \in 1 .. k |-> outs[i]]
  BY <1>6, <1>7
<1>11. PICK maps : maps = Encode2(psbt)
  OBVIOUS
<1>12. maps = <<global>> \o ins \o outs
  BY <1>4, <1>5, <1>6, <1>7, <1>11 DEF Encode2
<1>13. MapsOf(maps, global, ins, n, outs, k)
  BY <1>8, <1>9, <1>10, <1>12, JoinedMaps
<1>. QED  BY <1>5, <1>6, <1>7, <1>11, <1>13 DEF Encoded2

\* What is written in version 2 is read as what it was, if it fits.
ReadAs(message, psbt) ==
    message \in MessageType /\ WellFormed(message) /\ Meaning(message) = psbt

LEMMA TwoIsRead ==
    ASSUME NEW psbt, PsbtTyped(psbt), NEW n \in Nat, NEW k \in Nat, GoodPsbt(psbt, n, k), Fits(psbt, 2)
    PROVE  ReadAs(Encode(psbt, 2), psbt)
<1>1. PICK m : m = Encode(psbt, 2)
  OBVIOUS
<1>2. m \in MessageType /\ m.format = 2
  BY <1>1, EncodeTyped
<1>3. m.magic = PSBT_MAGIC /\ m.separator = PSBT_SEPARATOR /\ m.maps = Encode2(psbt)
  BY <1>1 DEF Encode
<1>4. PICK maps : maps = m.maps
  OBVIOUS
<1>5. Encoded2(psbt, n, k, maps)
  BY <1>3, <1>4, Encoded2Is
<1>6. /\ maps # <<>> /\ Len(maps) = 1 + n + k
      /\ maps[1] = EncodeMap("global", psbt.global)
      /\ \A i \in 1 .. n : maps[1 + i] = EncodeMap("input", psbt.inputs[i])
      /\ \A i \in 1 .. k : maps[1 + n + i] = EncodeOutput(psbt.outputs[i])
  BY <1>5 DEF Encoded2, MapsOf
<1>7. /\ ~Misread2("global", psbt.global)
      /\ \A i \in DOMAIN psbt.inputs :
             ~Misread2("input", psbt.inputs[i]) /\ SpPaired(psbt.inputs[i]) /\ SpendsPrevious(psbt.inputs[i])
      /\ \A i \in DOMAIN psbt.outputs :
             ~Misread2("output", psbt.outputs[i]) /\ LabelHasInfo(psbt.outputs[i])
  BY DEF Fits
<1>8. /\ HasThree(psbt) /\ GoodGlobal(psbt.global, n, k)
      /\ psbt.inputs = [i \in 1 .. n |-> psbt.inputs[i]] /\ \A i \in 1 .. n : GoodInput(psbt.inputs[i])
      /\ psbt.outputs = [i \in 1 .. k |-> psbt.outputs[i]] /\ \A i \in 1 .. k : GoodOutput(psbt.outputs[i])
  BY DEF GoodPsbt
<1>9. DOMAIN psbt.inputs = 1 .. n /\ DOMAIN psbt.outputs = 1 .. k
  BY <1>8
<1>10. MapOk("global", maps[1]) /\ Entries("global", maps[1]) = psbt.global
  BY <1>6, <1>7, <1>8, GlobalBackIn2
<1>11. ASSUME NEW i \in 1 .. n PROVE MapOk("input", maps[1 + i]) /\ Entries("input", maps[1 + i]) = psbt.inputs[i]
  <2>1. GoodInput(psbt.inputs[i])
    BY <1>8
  <2>2. ~Misread2("input", psbt.inputs[i]) /\ SpPaired(psbt.inputs[i]) /\ SpendsPrevious(psbt.inputs[i])
    BY <1>7, <1>9
  <2>3. maps[1 + i] = EncodeMap("input", psbt.inputs[i])
    BY <1>6
  <2>. QED  BY <2>1, <2>2, <2>3, InputBackIn2
<1>12. ASSUME NEW i \in 1 .. k
       PROVE  /\ MapOk("output", maps[1 + n + i])
              /\ WithDefault("output", Entries("output", maps[1 + n + i]), "script", <<>>) = psbt.outputs[i]
  <2>1. GoodOutput(psbt.outputs[i])
    BY <1>8
  <2>2. ~Misread2("output", psbt.outputs[i]) /\ LabelHasInfo(psbt.outputs[i])
    BY <1>7, <1>9
  <2>3. maps[1 + n + i] = EncodeOutput(psbt.outputs[i])
    BY <1>6
  <2>. QED  BY <2>1, <2>2, <2>3, OutputBackIn2
<1>13. MapName("global", 2) = "global" /\ MapName("input", 2) = "input" /\ MapName("output", 2) = "output"
  BY MapNamesOf
<1>14. GlobalOf(m) = psbt.global
  BY <1>2, <1>4, <1>10, <1>13 DEF GlobalOf
<1>15. InputCount(m) = n /\ OutputCount(m) = k
  BY <1>2, <1>8, <1>14 DEF InputCount, OutputCount, GoodGlobal
<1>16. WellFormed(m)
  <2>1. ASSUME NEW i \in 2 .. 1 + n PROVE MapOk("input", maps[i])
    <3>1. PICK j \in 1 .. n : i = 1 + j
      <4>1. i - 1 \in 1 .. n /\ i = 1 + (i - 1)
        OBVIOUS
      <4>. QED  BY <4>1
    <3>. QED  BY <1>11, <3>1
  <2>2. ASSUME NEW i \in 2 + n .. 1 + n + k PROVE MapOk("output", maps[i])
    <3>1. PICK j \in 1 .. k : i = 1 + n + j
      <4>1. i - (1 + n) \in 1 .. k /\ i = 1 + n + (i - (1 + n))
        OBVIOUS
      <4>. QED  BY <4>1
    <3>. QED  BY <1>12, <3>1
  <2>3. Len(maps) >= 1 + n + k
    BY <1>6
  <2>. QED  BY <1>2, <1>3, <1>4, <1>6, <1>10, <1>13, <1>15, <2>1, <2>2, <2>3 DEF WellFormed
<1>17. Meaning(m) = psbt
  <2>1. PICK q : q = Meaning(m)
    OBVIOUS
  <2>2. PICK tx : tx = TxOfMessage(m)
    OBVIOUS
  <2>3. /\ q.global = WithDefault("global", GlobalOf(m), "tx_modifiable", <<0>>)
        /\ q.inputs = ReadInputs(m, n)
        /\ q.outputs = ReadOutputs(m, k)
        /\ HasThree(q)
    BY <1>2, <1>15, <2>1, <2>2, MeaningIsRead DEF HasThree
  <2>4. q.global = psbt.global
    BY <1>8, <1>14, <2>3 DEF WithDefault, GoodGlobal
  <2>5. q.inputs = psbt.inputs
    <3>1. q.inputs = [i \in 1 .. n |-> Entries("input", maps[1 + i])]
      BY <1>2, <1>4, <1>13, <2>3 DEF ReadInputs
    <3>. QED  BY <1>8, <1>11, <3>1
  <2>6. q.outputs = psbt.outputs
    <3>1. q.outputs = [i \in 1 .. k |-> WithDefault("output", Entries("output", maps[1 + n + i]), "script", <<>>)]
      BY <1>2, <1>4, <1>13, <1>15, <2>3 DEF ReadOutputs
    <3>. QED  BY <1>8, <1>12, <3>1
  <2>. QED  BY <1>8, <2>1, <2>3, <2>4, <2>5, <2>6, PartsEqual
<1>. QED  BY <1>1, <1>2, <1>16, <1>17 DEF ReadAs

-----------------------------------------------------------------------------
(* The unsigned transaction is read as it was written                       *)

LEMMA SeenIsNext ==
    ASSUME NEW seen \in Seq(Nat), NEW before \in Nat, NEW after \in Nat,
           NEW start, NEW end, ItemSeen(seen, before, after, start, end)
    PROVE  NextItem(seen, before, after)[start] = end
<1>1. PICK script : script = start + before + 1
  OBVIOUS
<1>2. /\ start \in Nat /\ end \in Nat /\ start <= end /\ end <= Len(seen)
      /\ script <= Len(seen) /\ end = script + seen[script] + after
  BY <1>1 DEF ItemSeen
<1>3. NextItem(seen, before, after)[start]
        = Past(seen, start, Past(seen, script, script + seen[script] + after))
  BY <1>1, <1>2 DEF NextItem
<1>4. ~(Len(seen) < start) /\ ~(Len(seen) < script)
  BY <1>1, <1>2
<1>. QED  BY <1>2, <1>3, <1>4 DEF Past

\* Items that follow each other are those of a list.
LEMMA ItemsInRow ==
    ASSUME NEW seen \in Seq(Nat), NEW start \in Nat, NEW n \in Nat,
           NEW before \in Nat, NEW after \in Nat, NEW f,
           f[0] = start, \A i \in 0 .. n : f[i] \in Nat,
           \A i \in 1 .. n : ItemSeen(seen, before, after, f[i - 1], f[i])
    PROVE  ItemsSeen(seen, start, n, before, after, f)
<1>1. PICK next : next = NextItem(seen, before, after)
  OBVIOUS
<1>2. PICK h : h = [i \in 0 .. n |-> f[i]]
  OBVIOUS
<1>3. Chain(Nat, next, start, n, h)
  <2>1. h \in [0 .. n -> Nat]
    BY <1>2
  <2>2. h[0] = start
    BY <1>2
  <2>3. ASSUME NEW i \in 1 .. n PROVE h[i] = next[h[i - 1]]
    <3>1. h[i] = f[i] /\ h[i - 1] = f[i - 1]
      BY <1>2
    <3>2. ItemSeen(seen, before, after, f[i - 1], f[i])
      OBVIOUS
    <3>. QED  BY <1>1, <3>1, <3>2, SeenIsNext
  <2>. QED  BY <2>1, <2>2, <2>3 DEF Chain
<1>4. ASSUME NEW i \in 0 .. n PROVE f[i] = ItemsEnd(seen, start, i, before, after)
  <2>0. i \in Nat
    OBVIOUS
  <2>1. PICK g : EndsOfItems(seen, start, i, before, after, g)
    <3>1. ItemsHaveEnds(seen, start, i, before, after)
      BY <2>0, ItemsEndIterates
    <3>. QED  BY <3>1 DEF ItemsHaveEnds
  <2>2. Chain(Nat, next, start, i, g) /\ ItemsEnd(seen, start, i, before, after) = g[i]
    BY <1>1, <2>1 DEF EndsOfItems
  <2>3. g[i] = h[i]
    BY <1>3, <2>2, ChainUnique
  <2>. QED  BY <1>2, <2>2, <2>3
<1>. QED  BY <1>4 DEF ItemsSeen

LEMMA ListInPlace ==
    ASSUME NEW seen \in Seq(Nat), NEW start \in Nat, NEW n \in Nat,
           NEW before \in Nat, NEW after \in Nat, NEW f, NEW first, first = start + 1,
           first <= Len(seen), seen[first] = n,
           ItemsSeen(seen, first, n, before, after, f)
    PROVE  ListSeen(seen, start, before, after, n, f)
<1>1. f[n] = ItemsEnd(seen, first, n, before, after)
  BY DEF ItemsSeen
<1>2. ListEnd(seen, start, before, after)
        = Past(seen, start, Past(seen, first, ItemsEnd(seen, first, n, before, after)))
  BY DEF ListEnd
<1>3. ~(Len(seen) < start) /\ ~(Len(seen) < first)
  OBVIOUS
<1>4. ListEnd(seen, start, before, after) = f[n]
  BY <1>1, <1>2, <1>3 DEF Past
<1>. QED  BY <1>4 DEF ListSeen

\* The bytes of an item.
ItemShape(t, before, after) ==
    /\ t \in Seq(Nat) /\ before + 1 <= Len(t) /\ t[before + 1] \in Nat
    /\ Len(t) = before + 1 + t[before + 1] + after

LEMMA StandingItem ==
    ASSUME NEW t, NEW before \in Nat, NEW after \in Nat, ItemShape(t, before, after),
           NEW s \in Seq(Nat), NEW start \in Nat, Stands(t, s, start)
    PROVE  ItemSeen(s, before, after, start, start + Len(t))
<1>1. PICK b \in Nat : b = before + 1
  OBVIOUS
<1>2. t \in Seq(Nat) /\ b <= Len(t) /\ t[b] \in Nat /\ Len(t) = b + t[b] + after
  BY <1>1 DEF ItemShape
<1>3. start + Len(t) <= Len(s) /\ \A i \in 1 .. Len(t) : s[start + i] = t[i]
  BY DEF Stands
<1>4. s[start + b] = t[b] /\ start + b <= Len(s)
  BY <1>1, <1>2, <1>3
<1>5. start + b = start + before + 1
  BY <1>1
<1>6. PICK v \in Nat, l \in Nat : v = t[b] /\ l = Len(t)
  BY <1>2
<1>7. l = b + v + after
  BY <1>2, <1>6
<1>8. start + l = start + b + v + after /\ start <= start + l /\ start + l \in Nat
  BY <1>7
<1>9. PICK end \in Nat : end = start + Len(t) /\ end = start + l
  BY <1>6, <1>8
<1>10. PICK script \in Nat : script = start + before + 1
  OBVIOUS
<1>11. script <= Len(s) /\ s[script] = v /\ end = script + v + after /\ start <= end /\ end <= Len(s)
  BY <1>1, <1>3, <1>4, <1>5, <1>6, <1>8, <1>9, <1>10
<1>12. ItemSeen(s, before, after, start, end)
  BY <1>10, <1>11 DEF ItemSeen
<1>. QED  BY <1>9, <1>12

\* The places of the items of a list.
Places(s, seqs, start, n, f, before, after) ==
    /\ f[0] = start
    /\ \A i \in 0 .. n : f[i] \in Nat
    /\ f[n] = start + Len(FlattenSeq(seqs))
    /\ \A i \in 1 .. n : /\ ItemSeen(s, before, after, f[i - 1], f[i])
                         /\ Stands(seqs[i], s, f[i - 1])
                         /\ f[i] = f[i - 1] + Len(seqs[i])

LEMMA ItemsHavePlaces ==
    ASSUME NEW n \in Nat, NEW seqs \in Seq(Seq(Nat)), Len(seqs) = n,
           NEW before \in Nat, NEW after \in Nat, \A i \in 1 .. n : ItemShape(seqs[i], before, after),
           NEW s \in Seq(Nat), NEW start \in Nat, Stands(FlattenSeq(seqs), s, start)
    PROVE  \E f : Places(s, seqs, start, n, f, before, after)
<1>1. PICK f : f = [i \in 0 .. n |-> start + Len(Joined(seqs, i))]
  OBVIOUS
<1>2. /\ \A k \in 0 .. n : Joined(seqs, k) \in Seq(Nat)
      /\ Joined(seqs, 0) = <<>>
      /\ \A k \in 1 .. n : Joined(seqs, k) = Joined(seqs, k - 1) \o seqs[k]
      /\ Joined(seqs, n) = FlattenSeq(seqs)
  BY JoinedStep
<1>3. \A i \in 0 .. n : f[i] = start + Len(Joined(seqs, i))
  BY <1>1
<1>4. f[0] = start
  <2>1. 0 \in 0 .. n /\ Len(<<>>) = 0
    OBVIOUS
  <2>2. f[0] = start + Len(<<>>)
    BY <1>3, <1>2, <2>1
  <2>. QED  BY <2>1, <2>2
<1>5. \A i \in 0 .. n : f[i] \in Nat
  <2>1. \A i \in 0 .. n : Len(Joined(seqs, i)) \in Nat
    BY <1>2
  <2>. QED  BY <1>3, <2>1
<1>6. f[n] = start + Len(FlattenSeq(seqs))
  <2>1. n \in 0 .. n
    OBVIOUS
  <2>. QED  BY <1>3, <1>2, <2>1
<1>7. ASSUME NEW i \in 1 .. n
      PROVE  /\ ItemSeen(s, before, after, f[i - 1], f[i])
             /\ Stands(seqs[i], s, f[i - 1])
             /\ f[i] = f[i - 1] + Len(seqs[i])
  <2>1. i - 1 \in 0 .. n /\ i \in 0 .. n
    OBVIOUS
  <2>2. PICK a \in Seq(Nat), b \in Seq(Nat) : a = Joined(seqs, i - 1) /\ b = seqs[i]
    <3>1. Joined(seqs, i - 1) \in Seq(Nat)
      BY <1>2, <2>1
    <3>2. seqs[i] \in Seq(Nat)
      OBVIOUS
    <3>. QED  BY <3>1, <3>2
  <2>3. Joined(seqs, i) = a \o b
    BY <1>2, <2>2
  <2>4. Len(a \o b) = Len(a) + Len(b)
    OBVIOUS
  <2>5. f[i - 1] = start + Len(a) /\ f[i] = start + Len(a) + Len(b)
    <3>1. f[i - 1] = start + Len(Joined(seqs, i - 1)) /\ f[i] = start + Len(Joined(seqs, i))
      BY <1>3, <2>1
    <3>2. Len(Joined(seqs, i - 1)) = Len(a) /\ Len(Joined(seqs, i)) = Len(a) + Len(b)
      BY <2>2, <2>3, <2>4
    <3>3. PICK la \in Nat, lb \in Nat : la = Len(a) /\ lb = Len(b)
      OBVIOUS
    <3>4. f[i - 1] = start + la /\ f[i] = start + (la + lb)
      BY <3>1, <3>2, <3>3
    <3>. QED  BY <3>3, <3>4
  <2>6. PICK place \in Nat : place = Len(a)
    OBVIOUS
  <2>7. Stands(b, FlattenSeq(seqs), place)
    BY <2>2, <2>6, JoinedStands
  <2>8. FlattenSeq(seqs) \in Seq(Nat)
    BY FlattenType
  <2>9. Stands(b, s, start + place)
    BY <2>7, <2>8, StandsWithin
  <2>10. ItemShape(b, before, after) /\ start + place \in Nat
    BY <2>2
  <2>11. ItemSeen(s, before, after, start + place, (start + place) + Len(b))
    BY <2>9, <2>10, StandingItem
  <2>. QED  BY <2>2, <2>5, <2>6, <2>9, <2>11
<1>. QED  BY <1>4, <1>5, <1>6, <1>7 DEF Places

\* An input as it is written.
InWritten(t, in, size, two) ==
    /\ ItemShape(t, two, size) /\ t[two + 1] = 0 /\ Len(t) = two + 1 + size
    /\ Stands(in.txid, t, 0) /\ Stands(in.vout, t, size) /\ Stands(in.seq, t, two + 1)

LEMMA TxInWritten ==
    ASSUME NEW in \in TxInType, NEW t, t = EncodeTxIn(in),
           NEW size \in Nat, size = FixedSize, NEW two \in Nat, two = size + size
    PROVE  InWritten(t, in, size, two)
<1>1. PICK a \in Seq(Nat), b \in Seq(Nat), c \in Seq(Nat) :
          /\ a = in.txid /\ b = in.vout /\ c = in.seq
          /\ Len(a) = size /\ Len(b) = size /\ Len(c) = size
  BY DEF TxInType, Sized
<1>2. PICK zero \in Seq(Nat) : zero = <<0>>
  BY OneByte
<1>3. Len(zero) = 1 /\ zero[1] = 0
  BY <1>2
<1>4. PICK ab \in Seq(Nat) : ab = a \o b
  BY Concat
<1>5. Len(ab) = two
  <2>1. Concats(ab, a, b, Nat)
    BY <1>4, ConcatIs
  <2>. QED  BY <1>1, <2>1 DEF Concats
<1>6. PICK abz \in Seq(Nat) : abz = ab \o zero
  BY Concat
<1>7. Len(abz) = two + 1
  <2>1. Concats(abz, ab, zero, Nat)
    BY <1>6, ConcatIs
  <2>. QED  BY <1>3, <1>5, <2>1 DEF Concats
<1>8. t = abz \o c
  BY <1>1, <1>2, <1>4, <1>6 DEF EncodeTxIn
<1>9. t \in Seq(Nat) /\ Len(t) = two + 1 + size
  <2>1. abz \o c \in Seq(Nat) /\ Len(abz \o c) = Len(abz) + Len(c)
    OBVIOUS
  <2>. QED  BY <1>1, <1>7, <1>8, <2>1
<1>10. Stands(abz, t, 0) /\ Stands(c, t, two + 1)
  BY <1>7, <1>8, StandsFirst, StandsLast
<1>11. Stands(ab, t, 0) /\ Stands(zero, t, two)
  <2>1. Stands(ab, abz, 0) /\ Stands(zero, abz, two)
    BY <1>5, <1>6, StandsFirst, StandsLast
  <2>2. Stands(ab, abz \o c, 0) /\ Stands(zero, abz \o c, two)
    BY <2>1, StandsInMore
  <2>. QED  BY <1>8, <2>2
<1>12. Stands(a, t, 0) /\ Stands(b, t, size)
  <2>1. Stands(a \o b, t, 0)
    BY <1>4, <1>11
  <2>2. Stands(a, t, 0) /\ Stands(b, t, 0 + Len(a))
    BY <1>9, <2>1, StandsOfParts
  <2>. QED  BY <1>1, <2>2
<1>13. t[two + 1] = 0
  <2>1. 1 \in 1 .. Len(zero)
    BY <1>3
  <2>2. t[two + 1] = zero[1]
    BY <1>11, <2>1 DEF Stands
  <2>. QED  BY <1>3, <2>2
<1>14. ItemShape(t, two, size)
  <2>1. two + 1 <= Len(t) /\ Len(t) = two + 1 + 0 + size
    BY <1>9
  <2>. QED  BY <1>9, <1>13, <2>1 DEF ItemShape
<1>. QED  BY <1>1, <1>9, <1>10, <1>12, <1>13, <1>14 DEF InWritten

\* An output as it is written.
OutWritten(t, out, size) ==
    /\ ItemShape(t, size, 0) /\ t[size + 1] = Len(out.script)
    /\ Stands(out.amount, t, 0) /\ Stands(out.script, t, size + 1)

LEMMA TxOutWritten ==
    ASSUME NEW out \in TxOutType, NEW t, t = EncodeTxOut(out), NEW size \in Nat, size = FixedSize
    PROVE  OutWritten(t, out, size)
<1>1. PICK a \in Seq(Nat), b \in Seq(Nat) : a = out.amount /\ b = out.script /\ Len(a) = size
  BY DEF TxOutType, Sized
<1>2. PICK l \in Nat : l = Len(b)
  OBVIOUS
<1>3. PICK one \in Seq(Nat) : one = <<l>>
  BY OneByte
<1>4. Len(one) = 1 /\ one[1] = l
  BY <1>3
<1>5. PICK front \in Seq(Nat) : front = a \o one
  BY Concat
<1>6. Len(front) = size + 1
  <2>1. Concats(front, a, one, Nat)
    BY <1>5, ConcatIs
  <2>. QED  BY <1>1, <1>4, <2>1 DEF Concats
<1>7. t = front \o b
  BY <1>1, <1>2, <1>3, <1>5 DEF EncodeTxOut
<1>8. t \in Seq(Nat) /\ Len(t) = size + 1 + l
  <2>1. front \o b \in Seq(Nat) /\ Len(front \o b) = Len(front) + Len(b)
    OBVIOUS
  <2>. QED  BY <1>2, <1>6, <1>7, <2>1
<1>9. Stands(front, t, 0) /\ Stands(b, t, size + 1)
  BY <1>6, <1>7, StandsFirst, StandsLast
<1>10. Stands(a, t, 0) /\ Stands(one, t, size)
  <2>1. Stands(a \o one, t, 0)
    BY <1>5, <1>9
  <2>2. Stands(a, t, 0) /\ Stands(one, t, 0 + Len(a))
    BY <1>8, <2>1, StandsOfParts
  <2>. QED  BY <1>1, <2>2
<1>11. t[size + 1] = l
  <2>1. 1 \in 1 .. Len(one)
    BY <1>4
  <2>2. t[size + 1] = one[1]
    BY <1>10, <2>1 DEF Stands
  <2>. QED  BY <1>4, <2>2
<1>12. ItemShape(t, size, 0)
  <2>1. size + 1 <= Len(t) /\ Len(t) = size + 1 + l + 0
    BY <1>8
  <2>. QED  BY <1>8, <1>11, <2>1 DEF ItemShape
<1>. QED  BY <1>1, <1>2, <1>9, <1>10, <1>11, <1>12 DEF OutWritten

LEMMA StandingSlice ==
    ASSUME NEW t \in Seq(Nat), NEW s \in Seq(Nat), NEW start \in Nat, Stands(t, s, start),
           NEW last, last = start + Len(t)
    PROVE  SubSeq(s, start + 1, last) = t
<1>1. PICK n \in Nat : n = Len(t)
  OBVIOUS
<1>2. PICK m \in Nat : m = start + n /\ m = last
  BY <1>1
<1>3. m <= Len(s) /\ \A i \in 1 .. n : s[start + i] = t[i]
  BY <1>1, <1>2 DEF Stands
<1>4. SubSeq(s, start + 1, m) = [i \in 1 .. n |-> s[start + i]]
  <2>1. m - start = n
    BY <1>2
  <2>2. SubSeq(s, start + 1, m) = [i \in 1 .. n |-> s[(start + 1) + i - 1]]
    BY <1>2, <1>3, <2>1
  <2>3. \A i \in 1 .. n : (start + 1) + i - 1 = start + i
    OBVIOUS
  <2>. QED  BY <2>2, <2>3
<1>5. t = [i \in 1 .. n |-> t[i]]
  BY <1>1
<1>. QED  BY <1>2, <1>3, <1>4, <1>5

LEMMA StandingPart ==
    ASSUME NEW t \in Sized, NEW s \in Seq(Nat), NEW start \in Nat, Stands(t, s, start)
    PROVE  Part(s, start) = t
<1>1. PICK n \in Nat : n = FixedSize
  BY SizeAssumption
<1>2. t \in Seq(Nat) /\ Len(t) = n
  BY <1>1 DEF Sized
<1>3. PICK m \in Nat : m = start + n
  OBVIOUS
<1>4. m <= Len(s) /\ \A i \in 1 .. n : s[start + i] = t[i]
  BY <1>2, <1>3 DEF Stands
<1>5. SubSeq(s, start + 1, m) = [i \in 1 .. n |-> s[start + i]]
  <2>1. m - start = n
    BY <1>3
  <2>2. SubSeq(s, start + 1, m) = [i \in 1 .. n |-> s[(start + 1) + i - 1]]
    BY <1>3, <1>4, <2>1
  <2>3. \A i \in 1 .. n : (start + 1) + i - 1 = start + i
    OBVIOUS
  <2>. QED  BY <2>2, <2>3
<1>6. t = [i \in 1 .. n |-> t[i]]
  BY <1>2
<1>. QED  BY <1>1, <1>3, <1>4, <1>5, <1>6 DEF Part

\* The parts of a transaction in its bytes.
TxStands(b, tx, size, ins, outs, a, c) ==
    /\ Stands(tx.version, b, 0)
    /\ size + 1 <= Len(b) /\ b[size + 1] = Len(tx.ins)
    /\ Stands(FlattenSeq(ins), b, size + 1) /\ a = size + 1 + Len(FlattenSeq(ins))
    /\ a + 1 <= Len(b) /\ b[a + 1] = Len(tx.outs)
    /\ Stands(FlattenSeq(outs), b, a + 1) /\ c = a + 1 + Len(FlattenSeq(outs))
    /\ Stands(tx.lock, b, c) /\ Len(b) = c + size

\* What is written of its lists.
TxLists(tx, ins, outs, size, two) ==
    /\ ins \in Seq(Seq(Nat)) /\ Len(ins) = Len(tx.ins)
    /\ \A i \in 1 .. Len(tx.ins) : InWritten(ins[i], tx.ins[i], size, two)
    /\ outs \in Seq(Seq(Nat)) /\ Len(outs) = Len(tx.outs)
    /\ \A i \in 1 .. Len(tx.outs) : OutWritten(outs[i], tx.outs[i], size)

LEMMA ListsWritten ==
    ASSUME NEW tx \in TxType,
           NEW ins, ins = [i \in DOMAIN tx.ins |-> EncodeTxIn(tx.ins[i])],
           NEW outs, outs = [i \in DOMAIN tx.outs |-> EncodeTxOut(tx.outs[i])],
           NEW size \in Nat, size = FixedSize, NEW two \in Nat, two = size + size
    PROVE  TxLists(tx, ins, outs, size, two)
<1>1. PICK n \in Nat, k \in Nat : n = Len(tx.ins) /\ k = Len(tx.outs)
  BY DEF TxType
<1>2. /\ DOMAIN tx.ins = 1 .. n /\ \A i \in 1 .. n : tx.ins[i] \in TxInType
      /\ DOMAIN tx.outs = 1 .. k /\ \A i \in 1 .. k : tx.outs[i] \in TxOutType
  BY <1>1 DEF TxType
<1>3. ASSUME NEW i \in 1 .. n PROVE InWritten(ins[i], tx.ins[i], size, two)
  BY <1>2, TxInWritten
<1>4. ASSUME NEW i \in 1 .. k PROVE OutWritten(outs[i], tx.outs[i], size)
  BY <1>2, TxOutWritten
<1>5. ins \in Seq(Seq(Nat)) /\ Len(ins) = n
  <2>1. ins = [i \in 1 .. n |-> ins[i]]
    BY <1>2
  <2>2. \A i \in 1 .. n : ins[i] \in Seq(Nat)
    BY <1>3 DEF InWritten, ItemShape
  <2>3. PICK S : S = Seq(Nat)
    OBVIOUS
  <2>4. \A i \in 1 .. n : ins[i] \in S
    BY <2>2, <2>3
  <2>5. n \in Nat
    OBVIOUS
  <2>6. ins \in Seq(S) /\ Len(ins) = n
    BY ONLY <2>1, <2>4, <2>5, ListType
  <2>. QED  BY <2>3, <2>6
<1>6. outs \in Seq(Seq(Nat)) /\ Len(outs) = k
  <2>1. outs = [i \in 1 .. k |-> outs[i]]
    BY <1>2
  <2>2. \A i \in 1 .. k : outs[i] \in Seq(Nat)
    BY <1>4 DEF OutWritten, ItemShape
  <2>3. PICK S : S = Seq(Nat)
    OBVIOUS
  <2>4. \A i \in 1 .. k : outs[i] \in S
    BY <2>2, <2>3
  <2>5. k \in Nat
    OBVIOUS
  <2>6. outs \in Seq(S) /\ Len(outs) = k
    BY ONLY <2>1, <2>4, <2>5, ListType
  <2>. QED  BY <2>3, <2>6
<1>. QED  BY <1>1, <1>3, <1>4, <1>5, <1>6 DEF TxLists

\* A sequence put behind another one stands there.
Behind(more, front, t) ==
    /\ more \in Seq(Nat) /\ Len(more) = Len(front) + Len(t)
    /\ Stands(front, more, 0) /\ Stands(t, more, Len(front))

LEMMA BehindIs ==
    ASSUME NEW front \in Seq(Nat), NEW t \in Seq(Nat)
    PROVE  Behind(front \o t, front, t)
<1>1. Stands(front, front \o t, 0) /\ Stands(t, front \o t, Len(front))
  BY StandsFirst, StandsLast
<1>2. front \o t \in Seq(Nat) /\ Len(front \o t) = Len(front) + Len(t)
  BY Concat
<1>. QED  BY <1>1, <1>2 DEF Behind

LEMMA StandsFurther ==
    ASSUME NEW t \in Seq(Nat), NEW front \in Seq(Nat), NEW more \in Seq(Nat), NEW s \in Seq(Nat),
           Behind(s, front, more), NEW start \in Nat, Stands(t, front, start)
    PROVE  Stands(t, s, start)
<1>1. Stands(front, s, 0)
  BY DEF Behind
<1>2. 0 \in Nat /\ 0 + start = start
  OBVIOUS
<1>. QED  BY <1>1, <1>2, StandsWithin

LEMMA OneStands ==
    ASSUME NEW n \in Nat, NEW s \in Seq(Nat), NEW start \in Nat, Stands(<<n>>, s, start)
    PROVE  start + 1 <= Len(s) /\ s[start + 1] = n
<1>1. PICK one : one = <<n>>
  OBVIOUS
<1>2. Len(one) = 1 /\ one[1] = n
  BY <1>1
<1>. QED  BY <1>1, <1>2 DEF Stands

LEMMA TxWritten ==
    ASSUME NEW tx \in TxType, NEW b, b = EncodeTx(tx),
           NEW ins, ins = [i \in DOMAIN tx.ins |-> EncodeTxIn(tx.ins[i])],
           NEW outs, outs = [i \in DOMAIN tx.outs |-> EncodeTxOut(tx.outs[i])],
           NEW size \in Nat, size = FixedSize, NEW two \in Nat, two = size + size
    PROVE  b \in Seq(Nat) /\ \E a \in Nat, c \in Nat : TxStands(b, tx, size, ins, outs, a, c)
<1>1. TxLists(tx, ins, outs, size, two)
  BY ListsWritten
<1>2. PICK n \in Nat, k \in Nat : n = Len(tx.ins) /\ k = Len(tx.outs)
  BY DEF TxType
<1>3. PICK v \in Seq(Nat), l \in Seq(Nat) : v = tx.version /\ l = tx.lock /\ Len(v) = size /\ Len(l) = size
  BY DEF TxType, Sized
<1>4. PICK ni \in Seq(Nat), no \in Seq(Nat) : ni = <<n>> /\ no = <<k>>
  BY OneByte
<1>5. Len(ni) = 1 /\ Len(no) = 1
  BY <1>4
<1>6. PICK i \in Seq(Nat), o \in Seq(Nat) : i = FlattenSeq(ins) /\ o = FlattenSeq(outs)
  BY <1>1, FlattenType DEF TxLists
<1>7. PICK s1 : s1 = v \o ni
  OBVIOUS
<1>8. Behind(s1, v, ni)
  BY <1>7, BehindIs
<1>9. s1 \in Seq(Nat) /\ Len(s1) = size + 1
  BY <1>3, <1>5, <1>8 DEF Behind
<1>10. PICK s2 : s2 = s1 \o i
  OBVIOUS
<1>11. Behind(s2, s1, i)
  BY <1>9, <1>10, BehindIs
<1>12. PICK a \in Nat : a = size + 1 + Len(i)
  OBVIOUS
<1>13. s2 \in Seq(Nat) /\ Len(s2) = a
  BY <1>9, <1>11, <1>12 DEF Behind
<1>14. PICK s3 : s3 = s2 \o no
  OBVIOUS
<1>15. Behind(s3, s2, no)
  BY <1>13, <1>14, BehindIs
<1>16. s3 \in Seq(Nat) /\ Len(s3) = a + 1
  BY <1>5, <1>13, <1>15 DEF Behind
<1>17. PICK s4 : s4 = s3 \o o
  OBVIOUS
<1>18. Behind(s4, s3, o)
  BY <1>16, <1>17, BehindIs
<1>19. PICK c \in Nat : c = a + 1 + Len(o)
  OBVIOUS
<1>20. s4 \in Seq(Nat) /\ Len(s4) = c
  BY <1>16, <1>18, <1>19 DEF Behind
<1>21. b = s4 \o l
  BY <1>2, <1>3, <1>4, <1>6, <1>7, <1>10, <1>14, <1>17 DEF EncodeTx
<1>22. Behind(b, s4, l)
  BY <1>20, <1>21, BehindIs
<1>23. b \in Seq(Nat) /\ Len(b) = c + size
  BY <1>3, <1>20, <1>22 DEF Behind
<1>24. Stands(l, b, c)
  BY <1>20, <1>22 DEF Behind
<1>25. Stands(o, b, a + 1)
  <2>1. Stands(o, s4, a + 1)
    BY <1>16, <1>18 DEF Behind
  <2>. QED  BY <1>20, <1>22, <1>23, <2>1, StandsFurther
<1>26. Stands(no, b, a)
  <2>1. Stands(no, s3, a)
    BY <1>13, <1>15 DEF Behind
  <2>2. Stands(no, s4, a)
    BY <1>16, <1>18, <1>20, <2>1, StandsFurther
  <2>. QED  BY <1>20, <1>22, <1>23, <2>2, StandsFurther
<1>27. Stands(i, b, size + 1)
  <2>0. size + 1 \in Nat
    OBVIOUS
  <2>1. Stands(i, s2, size + 1)
    BY <1>9, <1>11 DEF Behind
  <2>2. Stands(i, s3, size + 1)
    BY <1>13, <1>15, <1>16, <2>0, <2>1, StandsFurther
  <2>3. Stands(i, s4, size + 1)
    BY <1>16, <1>18, <1>20, <2>0, <2>2, StandsFurther
  <2>. QED  BY <1>20, <1>22, <1>23, <2>0, <2>3, StandsFurther
<1>28. Stands(v, b, 0) /\ Stands(ni, b, size)
  <2>0. 0 \in Nat
    OBVIOUS
  <2>1. Stands(v, s1, 0) /\ Stands(ni, s1, size)
    BY <1>3, <1>8 DEF Behind
  <2>2. Stands(v, s2, 0) /\ Stands(ni, s2, size)
    BY <1>9, <1>11, <1>13, <2>0, <2>1, StandsFurther
  <2>3. Stands(v, s3, 0) /\ Stands(ni, s3, size)
    BY <1>13, <1>15, <1>16, <2>0, <2>2, StandsFurther
  <2>4. Stands(v, s4, 0) /\ Stands(ni, s4, size)
    BY <1>16, <1>18, <1>20, <2>0, <2>3, StandsFurther
  <2>. QED  BY <1>20, <1>22, <1>23, <2>0, <2>4, StandsFurther
<1>29. size + 1 <= Len(b) /\ b[size + 1] = n /\ a + 1 <= Len(b) /\ b[a + 1] = k
  BY <1>4, <1>23, <1>26, <1>28, OneStands
<1>30. TxStands(b, tx, size, ins, outs, a, c)
  BY <1>2, <1>3, <1>6, <1>12, <1>19, <1>23, <1>24, <1>25, <1>27, <1>28, <1>29 DEF TxStands
<1>. QED  BY <1>23, <1>30

\* Inputs as they are written have one size.
LEMMA TxInSteps ==
    ASSUME NEW size \in Nat, size = FixedSize, NEW width \in Nat, width = 3 * size + 1,
           NEW n \in Nat, NEW f, f[0] = size + 1, \A j \in 1 .. n : f[j] = f[j - 1] + width,
           NEW i \in 0 .. n
    PROVE  f[i] = TxInStart(i + 1)
<1>1. ASSUME NEW j \in Nat PROVE TxInStart(j + 1) = size + 1 + j * width /\ j * width \in Nat
  <2>1. (j + 1) - 1 = j
    OBVIOUS
  <2>2. TxInStart(j + 1) = size + 1 + ((j + 1) - 1) * width
    BY DEF TxInStart
  <2>3. j * width \in Nat
    OBVIOUS
  <2>. QED  BY <2>1, <2>2, <2>3
<1>. DEFINE U == {j \in Nat : j <= n => f[j] = size + 1 + j * width}
<1>2. 0 \in U
  <2>1. PICK z \in Nat : z = 0 /\ z * width = 0
    OBVIOUS
  <2>2. f[z] = size + 1 + z * width
    BY <2>1
  <2>. QED  BY <2>1, <2>2
<1>3. ASSUME NEW j \in U PROVE j + 1 \in U
  <2>. SUFFICES ASSUME j + 1 <= n PROVE f[j + 1] = size + 1 + (j + 1) * width
    OBVIOUS
  <2>1. j \in Nat /\ j + 1 \in 1 .. n /\ (j + 1) - 1 = j /\ j <= n
    OBVIOUS
  <2>2. f[j] = size + 1 + j * width /\ f[j + 1] = f[j] + width
    BY <2>1
  <2>3. (j + 1) * width = j * width + width /\ j * width \in Nat
    BY <2>1
  <2>. QED  BY <2>2, <2>3
<1>4. U = Nat
  <2>1. U \in SUBSET Nat
    OBVIOUS
  <2>. HIDE DEF U
  <2>. QED  BY <1>2, <1>3, <2>1, NumbersInduct
<1>5. i \in Nat /\ i <= n
  OBVIOUS
<1>6. f[i] = size + 1 + i * width
  BY <1>4, <1>5
<1>. QED  BY <1>1, <1>5, <1>6

\* A transaction in its bytes, with the places of its inputs and outputs.
TxPlaces(b, tx, size, two, a, c, f, g) ==
    /\ f[0] = size + 1 /\ f[Len(tx.ins)] = a /\ a \in Nat
    /\ ListSeen(b, size, two, size, Len(tx.ins), f)
    /\ \A i \in 1 .. Len(tx.ins) : f[i - 1] \in Nat /\ f[i] = f[i - 1] + (two + 1 + size)
    /\ g[Len(tx.outs)] = c /\ c \in Nat
    /\ ListSeen(b, a, size, 0, Len(tx.outs), g)
    /\ \A i \in 1 .. Len(tx.outs) : g[i - 1] \in Nat

HasPlaces(b, tx, ins, outs, size, two, a, c) ==
    \E f, g : /\ TxPlaces(b, tx, size, two, a, c, f, g)
              /\ \A i \in 1 .. Len(tx.ins) : Stands(ins[i], b, f[i - 1])
              /\ \A i \in 1 .. Len(tx.outs) : Stands(outs[i], b, g[i - 1])

LEMMA TxHasPlaces ==
    ASSUME NEW tx \in TxType, NEW b \in Seq(Nat), NEW ins, NEW outs,
           NEW size \in Nat, NEW two \in Nat,
           TxLists(tx, ins, outs, size, two),
           NEW a \in Nat, NEW c \in Nat, TxStands(b, tx, size, ins, outs, a, c)
    PROVE  HasPlaces(b, tx, ins, outs, size, two, a, c)
<1>1. PICK n \in Nat, k \in Nat : n = Len(tx.ins) /\ k = Len(tx.outs)
  BY DEF TxType
<1>2. /\ ins \in Seq(Seq(Nat)) /\ Len(ins) = n
      /\ \A i \in 1 .. n : InWritten(ins[i], tx.ins[i], size, two)
      /\ outs \in Seq(Seq(Nat)) /\ Len(outs) = k
      /\ \A i \in 1 .. k : OutWritten(outs[i], tx.outs[i], size)
  BY <1>1 DEF TxLists
<1>3. PICK s1 \in Nat, a1 \in Nat, zero \in Nat : s1 = size + 1 /\ a1 = a + 1 /\ zero = 0
  OBVIOUS
<1>4. /\ s1 <= Len(b) /\ b[s1] = n /\ Stands(FlattenSeq(ins), b, s1)
      /\ a = s1 + Len(FlattenSeq(ins))
      /\ a1 <= Len(b) /\ b[a1] = k /\ Stands(FlattenSeq(outs), b, a1)
      /\ c = a1 + Len(FlattenSeq(outs))
  BY <1>1, <1>3 DEF TxStands
<1>5. PICK f : Places(b, ins, s1, n, f, two, size)
  <2>1. \A i \in 1 .. n : ItemShape(ins[i], two, size)
    BY <1>2 DEF InWritten
  <2>. QED  BY <1>2, <1>4, <2>1, ItemsHavePlaces
<1>6. PICK g : Places(b, outs, a1, k, g, size, zero)
  <2>1. \A i \in 1 .. k : ItemShape(outs[i], size, zero)
    BY <1>2, <1>3 DEF OutWritten
  <2>. QED  BY <1>2, <1>4, <2>1, ItemsHavePlaces
<1>7. /\ f[0] = s1 /\ (\A i \in 0 .. n : f[i] \in Nat) /\ f[n] = a
      /\ \A i \in 1 .. n : /\ ItemSeen(b, two, size, f[i - 1], f[i])
                           /\ Stands(ins[i], b, f[i - 1])
                           /\ f[i] = f[i - 1] + Len(ins[i])
  BY <1>4, <1>5 DEF Places
<1>8. /\ g[0] = a1 /\ (\A i \in 0 .. k : g[i] \in Nat) /\ g[k] = c
      /\ \A i \in 1 .. k : ItemSeen(b, size, zero, g[i - 1], g[i]) /\ Stands(outs[i], b, g[i - 1])
  BY <1>4, <1>6 DEF Places
<1>9. ListSeen(b, size, two, size, n, f)
  <2>1. ItemsSeen(b, s1, n, two, size, f)
    BY <1>7, ItemsInRow
  <2>. QED  BY <1>3, <1>4, <2>1, ListInPlace
<1>10. ListSeen(b, a, size, zero, k, g)
  <2>1. ItemsSeen(b, a1, k, size, zero, g)
    BY <1>8, ItemsInRow
  <2>. QED  BY <1>3, <1>4, <2>1, ListInPlace
<1>11. ASSUME NEW i \in 1 .. n PROVE f[i - 1] \in Nat /\ f[i] = f[i - 1] + (two + 1 + size)
  <2>1. i - 1 \in 0 .. n
    OBVIOUS
  <2>2. Len(ins[i]) = two + 1 + size
    BY <1>2 DEF InWritten
  <2>. QED  BY <1>7, <2>1, <2>2
<1>12. ASSUME NEW i \in 1 .. k PROVE g[i - 1] \in Nat
  <2>1. i - 1 \in 0 .. k
    OBVIOUS
  <2>. QED  BY <1>8, <2>1
<1>13. TxPlaces(b, tx, size, two, a, c, f, g)
  BY <1>1, <1>3, <1>7, <1>8, <1>9, <1>10, <1>11, <1>12 DEF TxPlaces
<1>. QED  BY <1>1, <1>7, <1>8, <1>13 DEF HasPlaces

\* What is read of a transaction.
TxReadAs(b, tx) ==
    /\ b \in Seq(Nat) /\ TxSize[b] = Len(b) /\ ScriptSigsEmpty(b)
    /\ TxOutCount(b) = Len(tx.outs)
    /\ \A i \in 1 .. Len(tx.outs) : Part(b, TxOutStart(b, i)) = tx.outs[i].amount
    /\ DecodeTx[b] = tx

LEMMA TxIsRead ==
    ASSUME NEW tx \in TxType, NEW b, b = EncodeTx(tx)
    PROVE  TxReadAs(b, tx)
<1>1. PICK size \in Nat, two \in Nat : size = FixedSize /\ two = size + size /\ two = 2 * FixedSize
  <2>1. FixedSize \in Nat
    BY SizeAssumption
  <2>. QED  BY <2>1
<1>2. PICK n \in Nat, k \in Nat : n = Len(tx.ins) /\ k = Len(tx.outs)
  BY DEF TxType
<1>3. /\ \A i \in 1 .. n : tx.ins[i] \in TxInType
      /\ \A i \in 1 .. k : tx.outs[i] \in TxOutType
      /\ tx.version \in Sized /\ tx.lock \in Sized
      /\ tx.ins = [i \in 1 .. n |-> tx.ins[i]] /\ tx.outs = [i \in 1 .. k |-> tx.outs[i]]
  BY <1>2 DEF TxType
<1>4. PICK ins : ins = [i \in DOMAIN tx.ins |-> EncodeTxIn(tx.ins[i])]
  OBVIOUS
<1>5. PICK outs : outs = [i \in DOMAIN tx.outs |-> EncodeTxOut(tx.outs[i])]
  OBVIOUS
<1>6. TxLists(tx, ins, outs, size, two)
  BY <1>1, <1>4, <1>5, ListsWritten
<1>7. b \in Seq(Nat) /\ \E a \in Nat, c \in Nat : TxStands(b, tx, size, ins, outs, a, c)
  BY <1>1, <1>4, <1>5, TxWritten
<1>8. PICK a \in Nat, c \in Nat : TxStands(b, tx, size, ins, outs, a, c)
  BY <1>7
<1>9. PICK f, g : /\ TxPlaces(b, tx, size, two, a, c, f, g)
                  /\ \A i \in 1 .. Len(tx.ins) : Stands(ins[i], b, f[i - 1])
                  /\ \A i \in 1 .. Len(tx.outs) : Stands(outs[i], b, g[i - 1])
  <2>1. HasPlaces(b, tx, ins, outs, size, two, a, c)
    BY <1>6, <1>7, <1>8, TxHasPlaces
  <2>. QED  BY <2>1 DEF HasPlaces
<1>10. /\ f[0] = size + 1 /\ f[n] = a /\ g[k] = c
       /\ ListSeen(b, size, two, size, n, f) /\ ListSeen(b, a, size, 0, k, g)
       /\ \A i \in 1 .. n : f[i - 1] \in Nat /\ f[i] = f[i - 1] + (two + 1 + size)
       /\ \A i \in 1 .. k : g[i - 1] \in Nat
  BY <1>2, <1>9 DEF TxPlaces
<1>11. InputsEnd[b] = a
  <2>1. a = ListEnd(b, size, two, size)
    BY <1>10 DEF ListSeen
  <2>2. InputsEnd[b] = ListEnd(b, FixedSize, 2 * FixedSize, FixedSize)
    BY <1>7, TxEnds
  <2>. QED  BY <1>1, <2>1, <2>2
<1>12. OutputsEnd[b] = c
  <2>1. c = ListEnd(b, a, size, 0)
    BY <1>10 DEF ListSeen
  <2>2. OutputsEnd[b] = ListEnd(b, InputsEnd[b], FixedSize, 0)
    BY <1>7, TxEnds
  <2>. QED  BY <1>1, <1>11, <2>1, <2>2
<1>13. Len(b) = c + size /\ Stands(tx.lock, b, c) /\ Stands(tx.version, b, 0)
  BY <1>8 DEF TxStands
<1>14. TxSize[b] = Len(b)
  <2>1. TxSize[b] = Past(b, c, c + size)
    BY <1>1, <1>7, <1>12, TxEnds
  <2>2. ~(Len(b) < c)
    BY <1>13
  <2>. QED  BY <1>13, <2>1, <2>2 DEF Past
<1>15. TxInCount(b) = n
  BY <1>1, <1>10 DEF TxInCount, ListSeen
<1>16. TxOutCount(b) = k
  BY <1>1, <1>10, <1>11 DEF TxOutCount, ListSeen
<1>17. ASSUME NEW i \in 1 .. n PROVE f[i - 1] = TxInStart(i)
  <2>1. PICK width \in Nat : width = 3 * size + 1 /\ width = two + 1 + size
    BY <1>1
  <2>2. \A j \in 1 .. n : f[j] = f[j - 1] + width
    BY <1>10, <2>1
  <2>3. PICK j \in 0 .. n : j = i - 1 /\ j + 1 = i
    <3>1. i - 1 \in 0 .. n /\ (i - 1) + 1 = i
      OBVIOUS
    <3>. QED  BY <3>1
  <2>4. f[j] = TxInStart(j + 1)
    BY <1>1, <1>10, <2>1, <2>2, TxInSteps
  <2>. QED  BY <2>3, <2>4
<1>18. ASSUME NEW i \in 1 .. n
       PROVE  TxIn(b, i) = tx.ins[i] /\ b[TxInStart(i) + 2 * FixedSize + 1] = 0
  <2>1. PICK t : t = ins[i]
    OBVIOUS
  <2>2. InWritten(t, tx.ins[i], size, two)
    BY <1>2, <1>6, <2>1 DEF TxLists
  <2>3. PICK start \in Nat : start = TxInStart(i)
    BY <1>10, <1>17
  <2>4. Stands(t, b, start)
    BY <1>2, <1>9, <1>17, <2>1, <2>3
  <2>5. PICK in : in = tx.ins[i]
    OBVIOUS
  <2>6. /\ t \in Seq(Nat) /\ t[two + 1] = 0 /\ two + 1 <= Len(t)
        /\ Stands(in.txid, t, 0) /\ Stands(in.vout, t, size) /\ Stands(in.seq, t, two + 1)
    BY <2>2, <2>5 DEF InWritten, ItemShape
  <2>7. PICK txid \in Sized, vout \in Sized, seq \in Sized :
            txid = in.txid /\ vout = in.vout /\ seq = in.seq /\ in = [txid |-> txid, vout |-> vout, seq |-> seq]
    BY <1>3, <2>5 DEF TxInType
  <2>8. txid \in Seq(Nat) /\ vout \in Seq(Nat) /\ seq \in Seq(Nat)
    BY DEF Sized
  <2>9. Stands(txid, b, start + 0) /\ Stands(vout, b, start + size) /\ Stands(seq, b, start + (two + 1))
    <3>1. 0 \in Nat /\ two + 1 \in Nat
      OBVIOUS
    <3>2. Stands(txid, b, start + 0)
      BY <1>7, <2>4, <2>6, <2>7, <2>8, <3>1, StandsWithin
    <3>3. Stands(vout, b, start + size)
      BY <1>7, <2>4, <2>6, <2>7, <2>8, <3>1, StandsWithin
    <3>4. Stands(seq, b, start + (two + 1))
      BY <1>7, <2>4, <2>6, <2>7, <2>8, <3>1, StandsWithin
    <3>. QED  BY <3>2, <3>3, <3>4
  <2>10. PICK at1 \in Nat, at2 \in Nat, at3 \in Nat : at1 = start /\ at2 = start + size /\ at3 = start + two + 1
    OBVIOUS
  <2>11. Stands(txid, b, at1) /\ Stands(vout, b, at2) /\ Stands(seq, b, at3)
    <3>1. start + 0 = at1 /\ start + size = at2 /\ start + (two + 1) = at3
      BY <2>10
    <3>. QED  BY <2>9, <3>1
  <2>12. Part(b, at1) = txid /\ Part(b, at2) = vout /\ Part(b, at3) = seq
    BY <1>7, <2>11, StandingPart
  <2>13. TxIn(b, i) = [txid |-> Part(b, at1), vout |-> Part(b, at2), seq |-> Part(b, at3)]
    BY <1>1, <2>3, <2>10 DEF TxIn
  <2>14. b[at3] = 0
    <3>1. two + 1 \in 1 .. Len(t)
      BY <2>6
    <3>2. b[start + (two + 1)] = t[two + 1]
      BY <2>4, <3>1 DEF Stands
    <3>3. start + (two + 1) = at3
      BY <2>10
    <3>. QED  BY <2>6, <3>2, <3>3
  <2>. QED  BY <1>1, <2>3, <2>5, <2>7, <2>10, <2>12, <2>13, <2>14
<1>19. ASSUME NEW i \in 1 .. k
       PROVE  TxOut(b, i) = tx.outs[i] /\ Part(b, TxOutStart(b, i)) = tx.outs[i].amount
  <2>1. PICK t : t = outs[i]
    OBVIOUS
  <2>2. OutWritten(t, tx.outs[i], size)
    BY <1>2, <1>6, <2>1 DEF TxLists
  <2>3. PICK start \in Nat : start = g[i - 1]
    BY <1>10
  <2>4. TxOutStart(b, i) = start
    <3>1. i - 1 \in 0 .. k
      OBVIOUS
    <3>2. g[i - 1] = ItemsEnd(b, a + 1, i - 1, size, 0)
      BY <1>10, <3>1 DEF ListSeen, ItemsSeen
    <3>. QED  BY <1>1, <1>11, <2>3, <3>2 DEF TxOutStart
  <2>5. Stands(t, b, start)
    BY <1>2, <1>9, <2>1, <2>3
  <2>6. PICK out : out = tx.outs[i]
    OBVIOUS
  <2>7. PICK amount \in Sized, script \in Seq(Nat) :
            amount = out.amount /\ script = out.script /\ out = [amount |-> amount, script |-> script]
    BY <1>3, <2>6 DEF TxOutType
  <2>8. /\ t \in Seq(Nat) /\ t[size + 1] = Len(script) /\ size + 1 <= Len(t)
        /\ Stands(amount, t, 0) /\ Stands(script, t, size + 1)
    BY <2>2, <2>6, <2>7 DEF OutWritten, ItemShape
  <2>9. amount \in Seq(Nat)
    BY DEF Sized
  <2>10. PICK at \in Nat : at = start + size + 1 /\ at = start + (size + 1)
    OBVIOUS
  <2>11. Stands(amount, b, start) /\ Stands(script, b, at)
    <3>1. 0 \in Nat /\ size + 1 \in Nat /\ start + 0 = start
      OBVIOUS
    <3>2. Stands(amount, b, start + 0)
      BY <1>7, <2>5, <2>8, <2>9, <3>1, StandsWithin
    <3>3. Stands(script, b, start + (size + 1))
      BY <1>7, <2>5, <2>8, <3>1, StandsWithin
    <3>. QED  BY <2>10, <3>1, <3>2, <3>3
  <2>12. Part(b, start) = amount
    BY <1>7, <2>11, StandingPart
  <2>13. b[at] = Len(script)
    <3>1. size + 1 \in 1 .. Len(t)
      BY <2>8
    <3>2. b[start + (size + 1)] = t[size + 1]
      BY <2>5, <3>1 DEF Stands
    <3>. QED  BY <2>8, <2>10, <3>2
  <2>14. PICK last : last = at + b[at]
    OBVIOUS
  <2>15. SubSeq(b, at + 1, last) = script
    <3>1. last = at + Len(script)
      BY <2>13, <2>14
    <3>. QED  BY <1>7, <2>11, <3>1, StandingSlice, SMTT(20)
  <2>16. TxOut(b, i) = [amount |-> Part(b, start), script |-> SubSeq(b, at + 1, last)]
    BY <1>1, <2>4, <2>10, <2>14 DEF TxOut
  <2>. QED  BY <2>4, <2>6, <2>7, <2>12, <2>15, <2>16
<1>20. ScriptSigsEmpty(b)
  BY <1>15, <1>18 DEF ScriptSigsEmpty
<1>21. DecodeTx[b] = tx
  <2>1. Part(b, 0) = tx.version /\ Part(b, c) = tx.lock
    BY <1>3, <1>7, <1>13, StandingPart
  <2>2. DecodeTx[b] = [version |-> Part(b, 0), ins |-> [i \in 1 .. n |-> TxIn(b, i)],
                       outs |-> [i \in 1 .. k |-> TxOut(b, i)], lock |-> Part(b, c)]
    BY <1>7, <1>12, <1>15, <1>16 DEF DecodeTx
  <2>3. [i \in 1 .. n |-> TxIn(b, i)] = tx.ins
    BY <1>3, <1>18
  <2>4. [i \in 1 .. k |-> TxOut(b, i)] = tx.outs
    BY <1>3, <1>19
  <2>5. tx = [version |-> tx.version, ins |-> tx.ins, outs |-> tx.outs, lock |-> tx.lock]
    BY DEF TxType
  <2>. QED  BY <2>1, <2>2, <2>3, <2>4, <2>5
<1>. QED  BY <1>2, <1>7, <1>14, <1>16, <1>19, <1>20, <1>21 DEF TxReadAs

-----------------------------------------------------------------------------
(* The transaction of a PSBT that was decoded                               *)

\* The fields of a transaction that are of fixed size.
SizedFields ==
    {<<"global", "tx_version">>, <<"global", "fallback_lock_time">>, <<"input", "previous_txid">>,
     <<"input", "spent_output_index">>, <<"input", "sequence">>, <<"output", "amount">>}

LEMMA SizedFieldsAre ==
    ASSUME NEW kind, NEW f, <<kind, f>> \in SizedFields
    PROVE  /\ kind \in Kinds /\ f \notin Keyed[kind] \union {"unknown"} /\ f \in Framed[kind]
           /\ \A seen : InnerSize(f, seen) = FixedSize
           /\ f = "amount" => f \in Validated
<1>1. kind \in Kinds
  BY DEF SizedFields, Kinds
<1>2. f \in {"tx_version", "fallback_lock_time", "previous_txid", "spent_output_index", "sequence", "amount"}
  BY DEF SizedFields
<1>3. \A seen : InnerSize(f, seen) = FixedSize
  BY <1>2 DEF InnerSize
<1>4. f \notin Keyed[kind] \union {"unknown"}
  <2>1. Keyed["global"] = GlobalKeyed /\ Keyed["input"] = InputKeyed /\ Keyed["output"] = OutputKeyed
    BY DEF Keyed
  <2>. QED  BY <1>1, <1>2, <2>1 DEF Kinds, GlobalKeyed, InputKeyed, OutputKeyed
<1>5. f \in Framed[kind]
  <2>1. Framed["global"] = GlobalFramed /\ Framed["input"] = InputFramed /\ Framed["output"] = OutputFramed
    BY DEF Framed
  <2>. QED  BY <2>1 DEF SizedFields, GlobalFramed, InputFramed, OutputFramed
<1>6. f = "amount" => f \in Validated
  BY DEF Validated
<1>. QED  BY <1>1, <1>3, <1>4, <1>5, <1>6

LEMMA SizedValue ==
    ASSUME NEW kind, NEW f, <<kind, f>> \in SizedFields,
           NEW entries, Sane(kind, entries), f \in FieldsIn(entries)
    PROVE  /\ ValueOf(entries, f) \in Sized
           /\ f = "amount" => Bad \notin ToSet(ValueOf(entries, f))
<1>1. /\ kind \in Kinds /\ f \notin Keyed[kind] \union {"unknown"} /\ f \in Framed[kind]
      /\ \A seen : InnerSize(f, seen) = FixedSize
      /\ f = "amount" => f \in Validated
  BY SizedFieldsAre
<1>2. PICK e \in entries : e.field = f
  BY DEF FieldsIn
<1>3. ValueOf(entries, f) = e.value
  BY <1>1, <1>2, ValueIs
<1>4. Readable(kind, e) /\ e.value \in Seq(Nat)
  BY <1>2 DEF Sane, EntriesTyped, EntryTyped
<1>5. EntryOk(kind, e)
  BY <1>1, <1>2, <1>4, ReadIn2
<1>6. PairOk(kind, EncodePair(e)) /\ e.field = FieldOf(kind, e.type)
  BY <1>5 DEF EntryOk, EntryOf
<1>7. PICK p : p = EncodePair(e)
  OBVIOUS
<1>8. p.type = e.type /\ p.value = e.value
  BY <1>7 DEF EncodePair
<1>9. f = FieldOf(kind, p.type)
  BY <1>2, <1>6, <1>8
<1>10. f \in Framed[kind] => Len(p.value) = InnerSize(f, p.value)
  BY <1>6, <1>7, <1>9 DEF PairOk
<1>11. ValueDecodes(kind, f, p.value)
  BY <1>6, <1>7, <1>9 DEF PairOk
<1>12. e.value \in Sized
  BY <1>1, <1>4, <1>8, <1>10 DEF Sized
<1>13. f = "amount" => Bad \notin ToSet(e.value)
  BY <1>1, <1>8, <1>11 DEF ValueDecodes
<1>. QED  BY <1>3, <1>12, <1>13

LEMMA DefaultSequenceSized == DefaultSequence \in Sized
<1>1. PICK n \in Nat : n = FixedSize
  BY SizeAssumption
<1>2. PICK s : s = DefaultSequence
  OBVIOUS
<1>3. s = [i \in 1 .. n |-> s[i]] /\ \A i \in 1 .. n : s[i] \in Nat
  BY <1>1, <1>2 DEF DefaultSequence
<1>4. s \in Seq(Nat) /\ Len(s) = n
  BY <1>3, ListType
<1>. QED  BY <1>1, <1>2, <1>4 DEF Sized

\* The transaction of a PSBT has numbers of fixed size, and amounts that are in range.
TxFine(tx, n, k) ==
    /\ tx \in TxType /\ Len(tx.ins) = n /\ Len(tx.outs) = k
    /\ \A i \in 1 .. k : Bad \notin ToSet(tx.outs[i].amount)

LEMMA TxOfGood ==
    ASSUME NEW psbt, PsbtTyped(psbt), NEW n \in Nat, NEW k \in Nat, GoodPsbt(psbt, n, k),
           NEW tx, tx = TxOfPsbt(psbt)
    PROVE  TxFine(tx, n, k)
<1>1. /\ GoodGlobal(psbt.global, n, k)
      /\ psbt.inputs = [i \in 1 .. n |-> psbt.inputs[i]] /\ \A i \in 1 .. n : GoodInput(psbt.inputs[i])
      /\ psbt.outputs = [i \in 1 .. k |-> psbt.outputs[i]] /\ \A i \in 1 .. k : GoodOutput(psbt.outputs[i])
  BY DEF GoodPsbt
<1>2. DOMAIN psbt.inputs = 1 .. n /\ DOMAIN psbt.outputs = 1 .. k
  BY <1>1
<1>3. PICK ins : ins = [i \in 1 .. n |->
                        [txid |-> ValueOf(psbt.inputs[i], "previous_txid"),
                         vout |-> ValueOf(psbt.inputs[i], "spent_output_index"),
                         seq |-> ValueOr(psbt.inputs[i], "sequence", DefaultSequence)]]
  OBVIOUS
<1>4. PICK outs : outs = [i \in 1 .. k |->
                        [amount |-> ValueOf(psbt.outputs[i], "amount"),
                         script |-> ValueOf(psbt.outputs[i], "script")]]
  OBVIOUS
<1>5. PICK version, lock : version = ValueOf(psbt.global, "tx_version") /\ lock = NumberBytes(LockTimeOf(psbt))
  OBVIOUS
<1>6. tx = [version |-> version, ins |-> ins, outs |-> outs, lock |-> lock]
  BY <1>2, <1>3, <1>4, <1>5 DEF TxOfPsbt, LockTimeOf
<1>7. version \in Sized
  <2>1. <<"global", "tx_version">> \in SizedFields
    BY DEF SizedFields
  <2>2. Sane("global", psbt.global) /\ "tx_version" \in FieldsIn(psbt.global)
    BY <1>1 DEF GoodGlobal
  <2>. QED  BY <1>5, <2>1, <2>2, SizedValue
<1>8. lock \in Sized
  BY <1>5, LockTimeType, NumberBytesType DEF Sized
<1>9. ASSUME NEW i \in 1 .. n PROVE ins[i] \in TxInType
  <2>1. PICK entries : entries = psbt.inputs[i]
    OBVIOUS
  <2>2. Sane("input", entries) /\ "previous_txid" \in FieldsIn(entries) /\ "spent_output_index" \in FieldsIn(entries)
    BY <1>1, <2>1 DEF GoodInput
  <2>3. <<"input", "previous_txid">> \in SizedFields /\ <<"input", "spent_output_index">> \in SizedFields
        /\ <<"input", "sequence">> \in SizedFields
    BY DEF SizedFields
  <2>4. ValueOf(entries, "previous_txid") \in Sized
    BY <2>2, <2>3, SizedValue
  <2>5. ValueOf(entries, "spent_output_index") \in Sized
    BY <2>2, <2>3, SizedValue
  <2>6. ValueOr(entries, "sequence", DefaultSequence) \in Sized
    <3>1. CASE "sequence" \in FieldsIn(entries)
      <4>1. ValueOf(entries, "sequence") \in Sized
        BY <2>2, <2>3, <3>1, SizedValue
      <4>. QED  BY <3>1, <4>1 DEF ValueOr
    <3>2. CASE "sequence" \notin FieldsIn(entries)
      BY <3>2, DefaultSequenceSized DEF ValueOr
    <3>. QED  BY <3>1, <3>2
  <2>. QED  BY <1>3, <2>1, <2>4, <2>5, <2>6 DEF TxInType
<1>10. ASSUME NEW i \in 1 .. k PROVE outs[i] \in TxOutType /\ Bad \notin ToSet(outs[i].amount)
  <2>1. PICK entries : entries = psbt.outputs[i]
    OBVIOUS
  <2>2. Sane("output", entries) /\ "amount" \in FieldsIn(entries) /\ "script" \in FieldsIn(entries)
    BY <1>1, <2>1 DEF GoodOutput
  <2>3. <<"output", "amount">> \in SizedFields
    BY DEF SizedFields
  <2>4. ValueOf(entries, "amount") \in Sized /\ Bad \notin ToSet(ValueOf(entries, "amount"))
    BY <2>2, <2>3, SizedValue
  <2>5. ValueOf(entries, "script") \in Seq(Nat)
    BY <2>2, ValueTyped DEF Sane
  <2>. QED  BY <1>4, <2>1, <2>4, <2>5 DEF TxOutType
<1>11. ins \in Seq(TxInType) /\ Len(ins) = n
  <2>1. ins = [i \in 1 .. n |-> ins[i]] /\ n \in Nat
    BY <1>3
  <2>2. \A i \in 1 .. n : ins[i] \in TxInType
    BY <1>9
  <2>. QED  BY ONLY <2>1, <2>2, ListType
<1>12. outs \in Seq(TxOutType) /\ Len(outs) = k
  <2>1. outs = [i \in 1 .. k |-> outs[i]] /\ k \in Nat
    BY <1>4
  <2>2. \A i \in 1 .. k : outs[i] \in TxOutType
    BY <1>10
  <2>. QED  BY ONLY <2>1, <2>2, ListType
<1>13. tx \in TxType
  BY <1>6, <1>7, <1>8, <1>11, <1>12 DEF TxType
<1>. QED  BY <1>6, <1>10, <1>11, <1>12, <1>13 DEF TxFine

-----------------------------------------------------------------------------
(* What is written in version 0                                             *)

LEMMA BackIn0 ==
    ASSUME NEW kind \in {"input", "output"}, NEW entries, Sane(kind, entries), ~Unreadable0(entries),
           NEW pairs, pairs = EncodeMap(Old(kind), entries)
    PROVE  /\ pairs \in Seq(PairType) /\ Entries(Old(kind), pairs) = Written(Old(kind), entries)
           /\ MapOk(Old(kind), pairs)
<1>1. kind \in Kinds /\ Old(kind) \in MapNames /\ Old(kind) \in {"input0", "output0"}
  BY OldNames DEF Kinds
<1>2. ASSUME NEW e \in Written(Old(kind), entries) PROVE EntryOk(Old(kind), e)
  <2>1. e \in entries /\ e.field \in WrittenFields(Old(kind))
    BY DEF Written
  <2>2. e.field \notin Preimages
    BY <2>1 DEF Unreadable0, Preimages, FieldsIn
  <2>3. Readable(kind, e)
    BY <2>1 DEF Sane
  <2>. QED  BY <1>1, <2>1, <2>2, <2>3, ReadIn0
<1>3. Writable(Old(kind), entries)
  BY <1>2 DEF Writable, Sane
<1>4. ReadBack(Old(kind), entries, pairs)
  BY <1>1, <1>3, MapIsReadBack
<1>5. pairs \in Seq(PairType) /\ Entries(Old(kind), pairs) = Written(Old(kind), entries)
      /\ KeysDiffer(Old(kind), pairs) /\ PairsOk(Old(kind), pairs)
  BY <1>4 DEF ReadBack, PairsOk
<1>6. Required[Old(kind)] = {}
  <2>1. Required["input0"] = {} /\ Required["output0"] = {}
    BY DEF Required
  <2>. QED  BY <1>1, <2>1
<1>7. MapOk(Old(kind), pairs)
  <2>1. Required[Old(kind)] \subseteq FieldsIn(Entries(Old(kind), pairs))
    BY <1>6
  <2>. QED  BY <1>1, <1>5, <2>1 DEF MapOk, PairsOk
<1>. QED  BY <1>5, <1>7

\* The pair of the transaction.
TxEntry(tx) == EntryOf("global0", GlobalFields.unsigned_tx, <<>>, EncodeTx(tx))

LEMMA TxEntryIs ==
    ASSUME NEW tx, NEW n \in Nat, NEW k \in Nat, TxFine(tx, n, k), NEW u, u = TxEntry(tx)
    PROVE  /\ u.field = "unsigned_tx" /\ u.value = EncodeTx(tx) /\ u.data = <<>>
           /\ EntryTyped(u) /\ EntryOk("global0", u)
           /\ DecodeTx[EncodeTx(tx)] = tx
<1>1. tx \in TxType /\ Len(tx.outs) = k /\ \A i \in 1 .. k : Bad \notin ToSet(tx.outs[i].amount)
  BY DEF TxFine
<1>2. PICK b : b = EncodeTx(tx)
  OBVIOUS
<1>3. /\ b \in Seq(Nat) /\ TxSize[b] = Len(b) /\ ScriptSigsEmpty(b)
      /\ TxOutCount(b) = k
      /\ \A i \in 1 .. k : Part(b, TxOutStart(b, i)) = tx.outs[i].amount
      /\ DecodeTx[b] = tx
  <2>1. TxReadAs(b, tx)
    BY <1>1, <1>2, TxIsRead
  <2>. QED  BY <1>1, <2>1 DEF TxReadAs
<1>4. TxDecodes[b]
  BY <1>1, <1>3 DEF TxDecodes
<1>5. FieldOf("global0", GlobalFields.unsigned_tx) = "unsigned_tx"
  <2>1. "global0" \in MapNames /\ Fields["global0"] = GlobalFields0
    BY DEF MapNames, Fields
  <2>2. "unsigned_tx" \in DOMAIN GlobalFields0 /\ GlobalFields0["unsigned_tx"] = GlobalFields.unsigned_tx
    BY DEF GlobalFields0, Restrict, GlobalFields
  <2>. QED  BY <2>1, <2>2, FieldOfNumber
<1>6. u = [field |-> "unsigned_tx", type |-> GlobalFields.unsigned_tx, value |-> b, data |-> <<>>]
  BY <1>2, <1>5 DEF TxEntry, EntryOf
<1>7. EntryTyped(u)
  BY <1>3, <1>6, UnsignedTxNumber DEF EntryTyped
<1>8. PICK p : p = EncodePair(u)
  OBVIOUS
<1>9. p.type = GlobalFields.unsigned_tx /\ p.data = <<>> /\ p.len = Len(b) /\ p.value = b
  BY <1>6, <1>8 DEF EncodePair
<1>10. /\ "unsigned_tx" \notin Keyed["global0"] /\ Bare("global0") = {"version", "unsigned_tx"}
       /\ "unsigned_tx" \notin Validated
  BY DEF Keyed, GlobalKeyed, Bare, Validated
<1>11. PairOk("global0", p)
  <2>1. ~KeyRefused("global0", "unsigned_tx", p.data)
    BY DEF KeyRefused
  <2>2. KeyDecodes("global0", "unsigned_tx", p.data)
    BY <1>9, <1>10 DEF KeyDecodes
  <2>3. InnerSize("unsigned_tx", p.value) = Len(p.value)
    BY <1>3, <1>9 DEF InnerSize
  <2>4. ~LengthRefused("unsigned_tx", Len(p.value))
    BY DEF LengthRefused
  <2>5. ValueDecodes("global0", "unsigned_tx", p.value)
    BY <1>4, <1>9, <1>10 DEF ValueDecodes
  <2>. QED  BY <1>5, <1>9, <2>1, <2>2, <2>3, <2>4, <2>5 DEF PairOk
<1>12. u = EntryOf("global0", u.type, u.data, u.value)
  BY <1>5, <1>6 DEF EntryOf
<1>13. EntryOk("global0", u)
  BY <1>8, <1>11, <1>12 DEF EntryOk
<1>. QED  BY <1>2, <1>3, <1>6, <1>7, <1>13

\* The global map with the transaction is read as what was written.
GlobalIsBack0(entries, tx, pairs) ==
    /\ pairs \in Seq(PairType) /\ MapOk("global0", pairs)
    /\ Entries("global0", pairs) = Written("global0", entries) \union {TxEntry(tx)}
    /\ ValueOf(Entries("global0", pairs), "unsigned_tx") = EncodeTx(tx)

LEMMA GlobalBackIn0 ==
    ASSUME NEW entries, NEW n \in Nat, NEW k \in Nat, GoodGlobal(entries, n, k),
           NEW tx, TxFine(tx, n, k),
           NEW pairs, pairs = EncodeMap("global0", entries \union {TxEntry(tx)})
    PROVE  GlobalIsBack0(entries, tx, pairs)
<1>1. PICK u : u = TxEntry(tx)
  OBVIOUS
<1>2. u.field = "unsigned_tx" /\ u.value = EncodeTx(tx) /\ u.data = <<>> /\ EntryTyped(u) /\ EntryOk("global0", u)
  BY <1>1, TxEntryIs
<1>3. PICK more : more = entries \union {u}
  OBVIOUS
<1>4. Sane("global", entries) /\ SpPaired(entries)
  BY DEF GoodGlobal
<1>5. EntriesTyped(entries) /\ OneEach(entries) /\ \A e \in entries : Readable("global", e)
  BY <1>4 DEF Sane
<1>6. \A e \in entries : e.field # "unsigned_tx"
  BY <1>5 DEF Readable
<1>7. EntriesTyped(more)
  BY <1>2, <1>3, <1>5, AnyTyped
<1>8. OneEach(more)
  BY <1>2, <1>3, <1>5, <1>6 DEF OneEach
<1>9. "global" \in Kinds /\ "global0" \in MapNames /\ Old("global") = "global0"
  BY OldNames DEF Kinds
<1>10. ASSUME NEW e \in Written("global0", more) PROVE EntryOk("global0", e)
  <2>1. e \in more /\ e.field \in WrittenFields("global0")
    BY DEF Written
  <2>2. CASE e = u
    BY <1>2, <2>2
  <2>3. CASE e \in entries
    BY <1>5, <1>9, <2>1, <2>3, ReadIn0
  <2>. QED  BY <1>3, <2>1, <2>2, <2>3
<1>11. Writable("global0", more)
  BY <1>7, <1>8, <1>10 DEF Writable
<1>12. pairs = EncodeMap("global0", more)
  BY <1>1, <1>3
<1>13. ReadBack("global0", more, pairs)
  BY <1>9, <1>11, <1>12, MapIsReadBack
<1>14. pairs \in Seq(PairType) /\ Entries("global0", pairs) = Written("global0", more)
       /\ KeysDiffer("global0", pairs) /\ PairsOk("global0", pairs)
  BY <1>13 DEF ReadBack, PairsOk
<1>15. WrittenFields("global0") = {"unsigned_tx", "xpub", "proprietary", "unknown", "sp_ecdh_share", "sp_dleq"}
  BY DEF WrittenFields
<1>16. Written("global0", more) = Written("global0", entries) \union {u}
  BY <1>2, <1>3, <1>15 DEF Written
<1>17. PICK read : read = Entries("global0", pairs)
  OBVIOUS
<1>18. OneEntry(read, "unsigned_tx", u)
  BY <1>2, <1>6, <1>14, <1>16, <1>17 DEF OneEntry, Written
<1>19. ValueOf(read, "unsigned_tx") = EncodeTx(tx) /\ "unsigned_tx" \in FieldsIn(read)
  BY <1>2, <1>18, OneValue
<1>20. SpPaired(read)
  <2>1. ASSUME NEW f \in {"sp_ecdh_share", "sp_dleq"}
        PROVE  (f \in FieldsIn(read)) <=> (f \in FieldsIn(entries))
    <3>1. f \in WrittenFields("global0") /\ f # "unsigned_tx"
      BY <1>15
    <3>. QED  BY <1>2, <1>14, <1>16, <1>17, <3>1 DEF FieldsIn, Written
  <2>. QED  BY <1>4, <2>1 DEF SpPaired
<1>21. MapOk("global0", pairs)
  <2>1. Required["global0"] = {"unsigned_tx"}
    BY DEF Required
  <2>. QED  BY <1>14, <1>17, <1>19, <1>20, <2>1 DEF MapOk, PairsOk
<1>. QED  BY <1>1, <1>14, <1>16, <1>17, <1>19, <1>21 DEF GlobalIsBack0

\* Fields that are given by the transaction or lost.
Lost == {"tx_version", "fallback_lock_time", "input_count", "output_count",
         "tx_modifiable", "previous_txid", "spent_output_index", "sequence",
         "min_time", "min_height", "amount", "script", "redeem_script"}

\* The three parts of the converted value.
DemotedParts(psbt, tx, q) ==
    /\ q.global = IntoGlobal(Without(psbt.global, Lost), tx)
    /\ q.inputs = [i \in DOMAIN psbt.inputs |->
                     IntoInput(Without(psbt.inputs[i], Lost \ {"redeem_script"}), tx.ins[i])]
    /\ q.outputs = [i \in DOMAIN psbt.outputs |->
                      IntoOutput(Without(psbt.outputs[i], Lost), tx.outs[i])]
    /\ HasThree(q)

LEMMA DemotedIs ==
    ASSUME NEW psbt, NEW tx, tx = TxOfPsbt(psbt), NEW q, q = Demoted(psbt)
    PROVE  DemotedParts(psbt, tx, q)
  BY DEF DemotedParts, Demoted, Lost, HasThree

LEMMA KeptGlobal ==
    ASSUME NEW entries, Sane("global", entries), NEW u, u.field = "unsigned_tx", NEW tx
    PROVE  IntoGlobal(Written("global0", entries) \union {u}, tx) = IntoGlobal(Without(entries, Lost), tx)
<1>1. ASSUME NEW e \in entries
      PROVE  (e.field \in WrittenFields("global0") /\ e.field \notin {"unsigned_tx", "version"})
                <=> (e.field \notin Lost /\ e.field \notin {"unsigned_tx", "version"})
  <2>1. e.field \in DOMAIN Fields["global"] \union {"unknown"}
    BY ReadableParts DEF Sane, Kinds
  <2>2. Fields["global"] = GlobalFields
    BY DEF Fields
  <2>. QED  BY <2>1, <2>2 DEF GlobalFields, Lost, WrittenFields
<1>2. Without(Written("global0", entries) \union {u}, {"unsigned_tx", "version"})
        = Without(Without(entries, Lost), {"unsigned_tx", "version"})
  BY <1>1 DEF Without, Written
<1>. QED  BY <1>2 DEF IntoGlobal

LEMMA KeptInput ==
    ASSUME NEW entries, Sane("input", entries)
    PROVE  Written("input0", entries) = Without(entries, Lost \ {"redeem_script"})
<1>1. ASSUME NEW e \in entries
      PROVE  e.field \in WrittenFields("input0") <=> e.field \notin Lost \ {"redeem_script"}
  <2>1. e.field \in DOMAIN Fields["input"] \union {"unknown"}
    BY ReadableParts DEF Sane, Kinds
  <2>2. Fields["input"] = InputFields
    BY DEF Fields
  <2>3. WrittenFields("input0") =
            (DOMAIN InputFields \ {"previous_txid", "spent_output_index", "sequence", "min_time", "min_height"})
            \union {"unknown"}
    BY DEF WrittenFields
  <2>4. DOMAIN InputFields \intersect (Lost \ {"redeem_script"})
            = {"previous_txid", "spent_output_index", "sequence", "min_time", "min_height"}
        /\ "unknown" \notin Lost
    BY DEF InputFields, Lost
  <2>. QED  BY <2>1, <2>2, <2>3, <2>4
<1>. QED  BY <1>1 DEF Written, Without

LEMMA KeptOutput ==
    ASSUME NEW entries, Sane("output", entries)
    PROVE  Written("output0", entries) = Without(entries, Lost)
<1>1. ASSUME NEW e \in entries
      PROVE  e.field \in WrittenFields("output0") <=> e.field \notin Lost
  <2>1. e.field \in DOMAIN Fields["output"] \union {"unknown"}
    BY ReadableParts DEF Sane, Kinds
  <2>2. Fields["output"] = OutputFields
    BY DEF Fields
  <2>3. WrittenFields("output0") = (DOMAIN OutputFields \ {"amount", "script", "redeem_script"}) \union {"unknown"}
    BY DEF WrittenFields
  <2>4. DOMAIN OutputFields \intersect Lost = {"amount", "script", "redeem_script"} /\ "unknown" \notin Lost
    BY DEF OutputFields, Lost
  <2>. QED  BY <2>1, <2>2, <2>3, <2>4
<1>. QED  BY <1>1 DEF Written, Without

------------------------------------------------------------------------------
(* Version 0 is read as what it keeps                                       *)

\* What is written in version 0.
Encoded0(psbt, tx, n, k, maps) ==
    MapsOf(maps, EncodeMap("global0", psbt.global \union {TxEntry(tx)}),
           [i \in 1 .. n |-> EncodeMap("input0", psbt.inputs[i])], n,
           [i \in 1 .. k |-> EncodeMap("output0", psbt.outputs[i])], k)

LEMMA GlobalIsWritten0 ==
    ASSUME NEW psbt, NEW tx, tx = TxOfPsbt(psbt)
    PROVE  EncodeGlobal0(psbt) = EncodeMap("global0", psbt.global \union {TxEntry(tx)})
<1>1. [tx EXCEPT !.lock = NumberBytes(LockTimeOf(psbt))] = tx
  BY DEF TxOfPsbt, LockTimeOf
<1>2. EncodeGlobal0(psbt) =
        EncodeMap("global0", psbt.global \union
            {EntryOf("global0", GlobalFields.unsigned_tx, <<>>,
                     EncodeTx([tx EXCEPT !.lock = NumberBytes(LockTimeOf(psbt))]))})
  BY DEF EncodeGlobal0
<1>. QED  BY <1>1, <1>2 DEF TxEntry

LEMMA Encoded0Is ==
    ASSUME NEW psbt, PsbtTyped(psbt), NEW n \in Nat, NEW k \in Nat, GoodPsbt(psbt, n, k),
           NEW tx, tx = TxOfPsbt(psbt)
    PROVE  Encoded0(psbt, tx, n, k, Encode0(psbt))
<1>1. TxFine(tx, n, k)
  BY TxOfGood
<1>2. psbt.inputs = [i \in 1 .. n |-> psbt.inputs[i]] /\ \A i \in 1 .. n : GoodInput(psbt.inputs[i])
  BY DEF GoodPsbt
<1>3. psbt.outputs = [i \in 1 .. k |-> psbt.outputs[i]] /\ \A i \in 1 .. k : GoodOutput(psbt.outputs[i])
  BY DEF GoodPsbt
<1>4. DOMAIN psbt.inputs = 1 .. n /\ DOMAIN psbt.outputs = 1 .. k
  BY <1>2, <1>3
<1>5. PICK global : global = EncodeMap("global0", psbt.global \union {TxEntry(tx)})
  OBVIOUS
<1>6. global \in Seq(PairType)
  <2>1. GoodGlobal(psbt.global, n, k)
    BY DEF GoodPsbt
  <2>2. GlobalIsBack0(psbt.global, tx, global)
    BY <1>1, <1>5, <2>1, GlobalBackIn0
  <2>. QED  BY <2>2 DEF GlobalIsBack0
<1>7. PICK ins : ins = [i \in 1 .. n |-> EncodeMap("input0", psbt.inputs[i])]
  OBVIOUS
<1>8. PICK outs : outs = [i \in 1 .. k |-> EncodeMap("output0", psbt.outputs[i])]
  OBVIOUS
<1>9. ASSUME NEW i \in 1 .. n PROVE ins[i] \in Seq(PairType)
  <2>1. "input0" \in MapNames /\ EntriesTyped(psbt.inputs[i])
    BY <1>2 DEF MapNames, GoodInput, Sane
  <2>. QED  BY <1>7, <2>1, EncodeMapTyped
<1>10. ASSUME NEW i \in 1 .. k PROVE outs[i] \in Seq(PairType)
  <2>1. "output0" \in MapNames /\ EntriesTyped(psbt.outputs[i])
    BY <1>3 DEF MapNames, GoodOutput, Sane
  <2>. QED  BY <1>8, <2>1, EncodeMapTyped
<1>11. ins = [i \in 1 .. n |-> ins[i]] /\ outs = [i \in 1 .. k |-> outs[i]]
  BY <1>7, <1>8
<1>12. PICK maps : maps = Encode0(psbt)
  OBVIOUS
<1>13. global = EncodeGlobal0(psbt)
  BY <1>5, GlobalIsWritten0
<1>14. maps = <<global>> \o ins \o outs
  BY <1>4, <1>7, <1>8, <1>12, <1>13 DEF Encode0
<1>15. MapsOf(maps, global, ins, n, outs, k)
  BY <1>6, <1>9, <1>10, <1>11, <1>14, JoinedMaps
<1>. QED  BY <1>5, <1>7, <1>8, <1>12, <1>15 DEF Encoded0

\* The maps of what is written, and the transaction in the first.
ZeroWritten(m, maps, psbt, tx, n, k) ==
    /\ m \in MessageType /\ m.format = 0 /\ m.maps = maps
    /\ m.magic = PSBT_MAGIC /\ m.separator = PSBT_SEPARATOR
    /\ Encoded0(psbt, tx, n, k, maps)
    /\ TxFine(tx, n, k) /\ TxOfMessage(m) = tx /\ InputCount(m) = n /\ OutputCount(m) = k
    /\ MapOk("global0", maps[1])
    /\ GlobalOf(m) = Written("global0", psbt.global) \union {TxEntry(tx)}

LEMMA ZeroIsWritten ==
    ASSUME NEW psbt, PsbtTyped(psbt), NEW n \in Nat, NEW k \in Nat, GoodPsbt(psbt, n, k),
           NEW m, m = Encode(psbt, 0), NEW tx, tx = TxOfPsbt(psbt), NEW maps, maps = m.maps
    PROVE  ZeroWritten(m, maps, psbt, tx, n, k)
<1>1. m \in MessageType /\ m.format = 0
  BY EncodeTyped
<1>2. m.magic = PSBT_MAGIC /\ m.separator = PSBT_SEPARATOR /\ m.maps = Encode0(psbt)
  BY DEF Encode
<1>3. Encoded0(psbt, tx, n, k, maps)
  BY <1>2, Encoded0Is
<1>4. maps[1] = EncodeMap("global0", psbt.global \union {TxEntry(tx)})
  BY <1>3 DEF Encoded0, MapsOf
<1>5. TxFine(tx, n, k)
  BY TxOfGood
<1>6. PICK global : global = Entries("global0", maps[1])
  OBVIOUS
<1>7. /\ MapOk("global0", maps[1])
      /\ global = Written("global0", psbt.global) \union {TxEntry(tx)}
      /\ ValueOf(global, "unsigned_tx") = EncodeTx(tx)
  <2>1. PICK pairs : pairs = maps[1]
    OBVIOUS
  <2>2. PICK entries : entries = psbt.global
    OBVIOUS
  <2>3. GoodGlobal(entries, n, k)
    BY <2>2 DEF GoodPsbt
  <2>4. pairs = EncodeMap("global0", entries \union {TxEntry(tx)})
    BY <1>4, <2>1, <2>2
  <2>5. GlobalIsBack0(entries, tx, pairs)
    BY <1>5, <2>3, <2>4, GlobalBackIn0
  <2>. QED  BY <1>6, <2>1, <2>2, <2>5 DEF GlobalIsBack0
<1>8. GlobalOf(m) = global
  BY <1>1, <1>6, MapNamesOf DEF GlobalOf
<1>9. TxOfMessage(m) = tx
  <2>1. PICK u : u = TxEntry(tx)
    OBVIOUS
  <2>2. DecodeTx[EncodeTx(tx)] = tx
    BY <1>5, <2>1, TxEntryIs
  <2>. QED  BY <1>7, <1>8, <2>2 DEF TxOfMessage
<1>10. InputCount(m) = n /\ OutputCount(m) = k
  <2>1. Len(tx.ins) = n /\ Len(tx.outs) = k
    BY <1>5 DEF TxFine
  <2>. QED  BY <1>1, <1>9, <2>1 DEF InputCount, OutputCount
<1>. QED  BY <1>1, <1>2, <1>3, <1>5, <1>7, <1>8, <1>9, <1>10 DEF ZeroWritten

\* What is written in version 0 is read as what version 0 keeps of it.
LEMMA ZeroIsRead ==
    ASSUME NEW psbt, PsbtTyped(psbt), NEW n \in Nat, NEW k \in Nat, GoodPsbt(psbt, n, k), Fits(psbt, 0)
    PROVE  ReadAs(Encode(psbt, 0), Demoted(psbt))
<1>1. PICK m : m = Encode(psbt, 0)
  OBVIOUS
<1>2. PICK maps, tx : maps = m.maps /\ tx = TxOfPsbt(psbt)
  OBVIOUS
<1>3. ZeroWritten(m, maps, psbt, tx, n, k)
  BY <1>1, <1>2, ZeroIsWritten
<1>4. /\ m \in MessageType /\ m.format = 0 /\ m.magic = PSBT_MAGIC /\ m.separator = PSBT_SEPARATOR
      /\ Encoded0(psbt, tx, n, k, maps) /\ TxFine(tx, n, k) /\ TxOfMessage(m) = tx
      /\ InputCount(m) = n /\ OutputCount(m) = k /\ MapOk("global0", maps[1])
      /\ GlobalOf(m) = Written("global0", psbt.global) \union {TxEntry(tx)}
  BY <1>3 DEF ZeroWritten
<1>5. /\ maps # <<>> /\ Len(maps) = 1 + n + k
      /\ \A i \in 1 .. n : maps[1 + i] = EncodeMap("input0", psbt.inputs[i])
      /\ \A i \in 1 .. k : maps[1 + n + i] = EncodeMap("output0", psbt.outputs[i])
  BY <1>4 DEF Encoded0, MapsOf
<1>6. /\ GoodGlobal(psbt.global, n, k)
      /\ psbt.inputs = [i \in 1 .. n |-> psbt.inputs[i]] /\ \A i \in 1 .. n : GoodInput(psbt.inputs[i])
      /\ psbt.outputs = [i \in 1 .. k |-> psbt.outputs[i]] /\ \A i \in 1 .. k : GoodOutput(psbt.outputs[i])
  BY DEF GoodPsbt
<1>7. DOMAIN psbt.inputs = 1 .. n /\ DOMAIN psbt.outputs = 1 .. k
  BY <1>6
<1>8. /\ \A i \in 1 .. n : ~Unreadable0(psbt.inputs[i])
      /\ \A i \in 1 .. k : ~Unreadable0(psbt.outputs[i])
  <2>1. /\ \A i \in DOMAIN psbt.inputs : ~Unreadable0(psbt.inputs[i])
        /\ \A i \in DOMAIN psbt.outputs : ~Unreadable0(psbt.outputs[i])
    BY DEF Fits
  <2>. QED  BY <1>7, <2>1
<1>9. Old("input") = "input0" /\ Old("output") = "output0"
  BY OldNames
<1>10. ASSUME NEW i \in 1 .. n
       PROVE  /\ MapOk("input0", maps[1 + i])
              /\ Entries("input0", maps[1 + i]) = Without(psbt.inputs[i], Lost \ {"redeem_script"})
  <2>1. Sane("input", psbt.inputs[i]) /\ ~Unreadable0(psbt.inputs[i])
    BY <1>6, <1>8 DEF GoodInput
  <2>2. maps[1 + i] = EncodeMap("input0", psbt.inputs[i])
    BY <1>5
  <2>3. MapOk("input0", maps[1 + i]) /\ Entries("input0", maps[1 + i]) = Written("input0", psbt.inputs[i])
    BY <1>9, <2>1, <2>2, BackIn0
  <2>. QED  BY <2>1, <2>3, KeptInput
<1>11. ASSUME NEW i \in 1 .. k
       PROVE  /\ MapOk("output0", maps[1 + n + i])
              /\ Entries("output0", maps[1 + n + i]) = Without(psbt.outputs[i], Lost)
  <2>1. Sane("output", psbt.outputs[i]) /\ ~Unreadable0(psbt.outputs[i])
    BY <1>6, <1>8 DEF GoodOutput
  <2>2. maps[1 + n + i] = EncodeMap("output0", psbt.outputs[i])
    BY <1>5
  <2>3. MapOk("output0", maps[1 + n + i]) /\ Entries("output0", maps[1 + n + i]) = Written("output0", psbt.outputs[i])
    BY <1>9, <2>1, <2>2, BackIn0
  <2>. QED  BY <2>1, <2>3, KeptOutput
<1>12. MapName("global", 0) = "global0" /\ MapName("input", 0) = "input0" /\ MapName("output", 0) = "output0"
  BY MapNamesOf
<1>13. WellFormed(m)
  <2>1. ASSUME NEW i \in 2 .. 1 + n PROVE MapOk("input0", maps[i])
    <3>1. PICK j \in 1 .. n : i = 1 + j
      <4>1. i - 1 \in 1 .. n /\ i = 1 + (i - 1)
        OBVIOUS
      <4>. QED  BY <4>1
    <3>. QED  BY <1>10, <3>1
  <2>2. ASSUME NEW i \in 2 + n .. 1 + n + k PROVE MapOk("output0", maps[i])
    <3>1. PICK j \in 1 .. k : i = 1 + n + j
      <4>1. i - (1 + n) \in 1 .. k /\ i = 1 + n + (i - (1 + n))
        OBVIOUS
      <4>. QED  BY <4>1
    <3>. QED  BY <1>11, <3>1
  <2>3. Len(maps) >= 1 + n + k
    BY <1>5
  <2>. QED  BY <1>2, <1>4, <1>5, <1>12, <2>1, <2>2, <2>3 DEF WellFormed
<1>14. PICK q : q = Meaning(m)
  OBVIOUS
<1>15. PICK d : d = Demoted(psbt)
  OBVIOUS
<1>16. /\ q.global = IntoGlobal(GlobalOf(m), tx)
       /\ q.inputs = [i \in 1 .. n |-> IntoInput(ReadInputs(m, n)[i], tx.ins[i])]
       /\ q.outputs = [i \in 1 .. k |-> IntoOutput(ReadOutputs(m, k)[i], tx.outs[i])]
       /\ HasThree(q)
  <2>1. m \in MessageType /\ m.format = 0 /\ InputCount(m) = n /\ OutputCount(m) = k /\ TxOfMessage(m) = tx
    BY <1>4
  <2>. QED  BY <1>14, <2>1, MeaningIsRead DEF HasThree
<1>17. /\ d.global = IntoGlobal(Without(psbt.global, Lost), tx)
       /\ d.inputs = [i \in 1 .. n |->
                       IntoInput(Without(psbt.inputs[i], Lost \ {"redeem_script"}), tx.ins[i])]
       /\ d.outputs = [i \in 1 .. k |-> IntoOutput(Without(psbt.outputs[i], Lost), tx.outs[i])]
       /\ HasThree(d)
  <2>1. /\ d.global = IntoGlobal(Without(psbt.global, Lost), tx)
        /\ d.inputs = [i \in DOMAIN psbt.inputs |->
                        IntoInput(Without(psbt.inputs[i], Lost \ {"redeem_script"}), tx.ins[i])]
        /\ d.outputs = [i \in DOMAIN psbt.outputs |-> IntoOutput(Without(psbt.outputs[i], Lost), tx.outs[i])]
        /\ HasThree(d)
    <3>1. tx = TxOfPsbt(psbt)
      BY <1>2
    <3>2. DemotedParts(psbt, tx, d)
      BY <1>15, <3>1, DemotedIs
    <3>. QED  BY <3>2 DEF DemotedParts
  <2>. QED  BY <1>7, <2>1
<1>18. q.global = d.global
  <2>1. PICK u : u = TxEntry(tx)
    OBVIOUS
  <2>2. u.field = "unsigned_tx"
    BY <1>4, <2>1, TxEntryIs
  <2>3. Sane("global", psbt.global)
    BY <1>6 DEF GoodGlobal
  <2>. QED  BY <1>4, <1>16, <1>17, <2>1, <2>2, <2>3, KeptGlobal
<1>19. q.inputs = d.inputs
  <2>1. \A i \in 1 .. n : ReadInputs(m, n)[i] = Without(psbt.inputs[i], Lost \ {"redeem_script"})
    BY <1>2, <1>4, <1>10, <1>12 DEF ReadInputs
  <2>. QED  BY <1>16, <1>17, <2>1
<1>20. q.outputs = d.outputs
  <2>1. \A i \in 1 .. k : ReadOutputs(m, k)[i] = Without(psbt.outputs[i], Lost)
    BY <1>2, <1>4, <1>11, <1>12 DEF ReadOutputs
  <2>. QED  BY <1>16, <1>17, <2>1
<1>21. q = d
  BY <1>16, <1>17, <1>18, <1>19, <1>20, PartsEqual
<1>. QED  BY <1>1, <1>4, <1>13, <1>14, <1>15, <1>21 DEF ReadAs

\* No map of version 0 is accepted with what version 0 cannot read.
LEMMA NotUnreadable ==
    ASSUME NEW kind \in {"input", "output"}, NEW entries, Sane(kind, entries),
           NEW pairs, pairs = EncodeMap(Old(kind), entries), MapOk(Old(kind), pairs)
    PROVE  ~Unreadable0(entries)
<1>1. kind \in Kinds /\ Old(kind) \in MapNames
  BY OldNames DEF Kinds
<1>2. Old(kind) = IF kind = "input" THEN "input0" ELSE "output0"
  BY OldNames
<1>3. ASSUME NEW e \in entries, e.field \in Preimages PROVE FALSE
  <2>1. PICK f : f = e.field
    OBVIOUS
  <2>2. Readable(kind, e) /\ EntriesTyped(entries)
    BY DEF Sane
  <2>3. f \in DOMAIN Fields[kind] /\ f # "unknown"
    <3>1. f \in DOMAIN Fields[kind] \union {"unknown"}
      BY <1>1, <2>1, <2>2, ReadableParts
    <3>. QED  BY <1>3, <2>1, <3>1 DEF Preimages
  <2>4. f \in WrittenFields(Old(kind)) /\ f \in DOMAIN Fields[Old(kind)]
    <3>1. CASE kind = "input"
      <4>1. f \in DOMAIN InputFields
        BY <2>3, <3>1 DEF Fields
      <4>2. f \notin {"previous_txid", "spent_output_index", "sequence", "min_time", "min_height"}
        BY <1>3, <2>1 DEF Preimages
      <4>. QED  BY <1>2, <3>1, <4>1, <4>2, OldDomains DEF WrittenFields
    <3>2. CASE kind = "output"
      <4>1. f \in DOMAIN OutputFields
        BY <2>3, <3>2 DEF Fields
      <4>2. f \notin {"amount", "script", "redeem_script"}
        BY <1>3, <2>1 DEF Preimages
      <4>. QED  BY <1>2, <3>2, <4>1, <4>2, OldDomains DEF WrittenFields
    <3>. QED  BY <3>1, <3>2
  <2>5. FieldOf(Old(kind), e.type) = f
    <3>1. Fields[kind][f] = e.type
      BY <1>1, <2>1, <2>2, <2>3, ReadableParts
    <3>2. Fields[Old(kind)][f] = e.type
      BY <1>1, <2>4, <3>1, TablesOf0
    <3>. QED  BY <1>1, <2>4, <3>2, FieldOfNumber
  <2>6. e \in Written(Old(kind), entries)
    BY <2>1, <2>4 DEF Written
  <2>7. PICK p \in 1 .. Len(pairs) : pairs[p] = EncodePair(e)
    BY <1>1, <2>2, <2>6, EntriesAreWritten
  <2>8. PICK x : x = EncodePair(e)
    OBVIOUS
  <2>9. x.type = e.type /\ x.data = e.data
    BY <2>8 DEF EncodePair
  <2>10. PairOk(Old(kind), x)
    BY <2>7, <2>8 DEF MapOk
  <2>11. ~KeyRefused(Old(kind), f, e.data) /\ KeyDecodes(Old(kind), f, e.data)
    BY <2>5, <2>9, <2>10 DEF PairOk
  <2>12. f \in Keyed[kind]
    <3>1. Keyed["input"] = InputKeyed /\ Keyed["output"] = OutputKeyed
      BY DEF Keyed
    <3>2. Preimages \subseteq InputKeyed
      BY DEF Preimages, InputKeyed
    <3>3. kind = "output" => f \in OutputKeyed
      <4>1. kind = "output" => f \in DOMAIN OutputFields
        BY <2>3 DEF Fields
      <4>. QED  BY <1>3, <2>1, <4>1 DEF Preimages, OutputFields, OutputKeyed
    <3>. QED  BY <1>3, <2>1, <3>1, <3>2, <3>3
  <2>13. e.data # <<>>
    BY <1>1, <2>11, <2>12, SameKeys DEF KeyDecodes
  <2>14. f \in (IF kind = "input" THEN InputUnkeyed0 ELSE OutputUnkeyed0)
    <3>1. Preimages \subseteq InputUnkeyed0
      BY DEF Preimages, InputUnkeyed0
    <3>2. kind = "output" => f \in OutputUnkeyed0
      <4>1. kind = "output" => f \in OutputKeyed
        <5>1. Keyed["output"] = OutputKeyed
          BY DEF Keyed
        <5>. QED  BY <2>12, <5>1
      <4>. QED  BY <1>3, <2>1, <4>1 DEF Preimages, OutputKeyed, OutputUnkeyed0
    <3>. QED  BY <1>3, <2>1, <3>1, <3>2
  <2>. QED  BY <1>2, <2>11, <2>13, <2>14 DEF KeyRefused
<1>. QED  BY <1>3 DEF Unreadable0, Preimages, FieldsIn

LEMMA ReadFits0 ==
    ASSUME NEW psbt, PsbtTyped(psbt), NEW n \in Nat, NEW k \in Nat, GoodPsbt(psbt, n, k),
           WellFormed(Encode(psbt, 0))
    PROVE  Fits(psbt, 0)
<1>1. PICK m : m = Encode(psbt, 0)
  OBVIOUS
<1>2. PICK maps, tx : maps = m.maps /\ tx = TxOfPsbt(psbt)
  OBVIOUS
<1>3. ZeroWritten(m, maps, psbt, tx, n, k)
  BY <1>1, <1>2, ZeroIsWritten
<1>4. /\ m \in MessageType /\ m.format = 0 /\ Encoded0(psbt, tx, n, k, maps)
      /\ InputCount(m) = n /\ OutputCount(m) = k
  BY <1>3 DEF ZeroWritten
<1>5. /\ \A i \in 1 .. n : maps[1 + i] = EncodeMap("input0", psbt.inputs[i])
      /\ \A i \in 1 .. k : maps[1 + n + i] = EncodeMap("output0", psbt.outputs[i])
  BY <1>4 DEF Encoded0, MapsOf
<1>6. /\ psbt.inputs = [i \in 1 .. n |-> psbt.inputs[i]] /\ \A i \in 1 .. n : GoodInput(psbt.inputs[i])
      /\ psbt.outputs = [i \in 1 .. k |-> psbt.outputs[i]] /\ \A i \in 1 .. k : GoodOutput(psbt.outputs[i])
  BY DEF GoodPsbt
<1>7. DOMAIN psbt.inputs = 1 .. n /\ DOMAIN psbt.outputs = 1 .. k
  BY <1>6
<1>8. Old("input") = "input0" /\ Old("output") = "output0"
      /\ MapName("input", 0) = "input0" /\ MapName("output", 0) = "output0"
  BY OldNames, MapNamesOf
<1>9. /\ \A i \in 2 .. 1 + n : MapOk("input0", maps[i])
      /\ \A i \in 2 + n .. 1 + n + k : MapOk("output0", maps[i])
  BY <1>1, <1>2, <1>4, <1>8 DEF WellFormed
<1>10. ASSUME NEW i \in 1 .. n PROVE ~Unreadable0(psbt.inputs[i])
  <2>1. MapOk("input0", maps[1 + i])
    <3>1. PICK j \in 2 .. 1 + n : j = 1 + i
      OBVIOUS
    <3>. QED  BY <1>9, <3>1
  <2>2. Sane("input", psbt.inputs[i]) /\ maps[1 + i] = EncodeMap("input0", psbt.inputs[i])
    BY <1>5, <1>6 DEF GoodInput
  <2>. QED  BY <1>8, <2>1, <2>2, NotUnreadable
<1>11. ASSUME NEW i \in 1 .. k PROVE ~Unreadable0(psbt.outputs[i])
  <2>1. MapOk("output0", maps[1 + n + i])
    <3>1. PICK j \in 2 + n .. 1 + n + k : j = 1 + n + i
      OBVIOUS
    <3>. QED  BY <1>9, <3>1
  <2>2. Sane("output", psbt.outputs[i]) /\ maps[1 + n + i] = EncodeMap("output0", psbt.outputs[i])
    BY <1>5, <1>6 DEF GoodOutput
  <2>. QED  BY <1>8, <2>1, <2>2, NotUnreadable
<1>12. /\ \A i \in DOMAIN psbt.inputs : ~Unreadable0(psbt.inputs[i])
       /\ \A i \in DOMAIN psbt.outputs : ~Unreadable0(psbt.outputs[i])
  BY <1>7, <1>10, <1>11
<1>. QED  BY <1>12 DEF Fits

-----------------------------------------------------------------------------
(* The transaction a map of version 0 is read with is the one it describes  *)

\* No input of version 0 asks for a lock time.
NoLocks(psbt, n) ==
    /\ DOMAIN psbt.inputs = 1 .. n
    /\ \A i \in 1 .. n : "min_time" \notin FieldsIn(psbt.inputs[i])
                         /\ "min_height" \notin FieldsIn(psbt.inputs[i])

LEMMA LockOfNone ==
    ASSUME NEW psbt, NEW n \in Nat, NoLocks(psbt, n)
    PROVE  LockTimeOf(psbt) = Fallback(psbt)
<1>1. Number(Zero) = 0
  <2>1. 0 \in Byte
    BY DEF Byte
  <2>. QED  BY <2>1, SmallIsRead DEF Zero
<1>2. PICK locks : locks = LockFields(psbt)
  OBVIOUS
<1>3. locks = [i \in 1 .. n |->
        [minTime |-> Number(ValueOr(psbt.inputs[i], "min_time", Zero)),
         minHeight |-> Number(ValueOr(psbt.inputs[i], "min_height", Zero))]]
  BY <1>2 DEF LockFields, NoLocks
<1>4. ASSUME NEW i \in 1 .. n PROVE locks[i].minTime = 0 /\ locks[i].minHeight = 0
  <2>1. ValueOr(psbt.inputs[i], "min_time", Zero) = Zero /\ ValueOr(psbt.inputs[i], "min_height", Zero) = Zero
    BY DEF NoLocks, ValueOr
  <2>. QED  BY <1>1, <1>3, <2>1
<1>5. DOMAIN locks = 1 .. n
  BY <1>3
<1>6. \A i \in DOMAIN locks : ~HasLockTime(locks[i])
  BY <1>4, <1>5 DEF HasLockTime, None
<1>. QED  BY <1>2, <1>6 DEF LockTimeOf, DetermineLockTime

LEMMA FallbackOfGlobal ==
    ASSUME NEW pairs \in Seq(PairType), MapOk("global0", pairs), NEW tx \in TxType, tx.lock \in Seq(Byte),
           NEW psbt, psbt.global = IntoGlobal(Entries("global0", pairs), tx), Sane("global", psbt.global)
    PROVE  NumberBytes(Fallback(psbt)) = tx.lock /\ ValueOf(psbt.global, "tx_version") = tx.version
<1>1. "global" \in Kinds /\ Old("global") = "global0"
  BY OldNames DEF Kinds
<1>2. tx.version \in Sized /\ tx.lock \in Sized
  BY DEF TxType
<1>3. PICK m : m = psbt.global
  OBVIOUS
<1>4. ValueOf(m, "tx_version") = tx.version
  <2>1. Single("global", "tx_version", tx.version) \in m
    BY <1>3 DEF IntoGlobal
  <2>2. GivenOk("tx_version", tx.version) /\ <<"global", "tx_version">> \in GivenFields
    BY <1>2, LockGiven DEF GivenFields
  <2>. QED  BY <1>3, <2>1, <2>2, GivenValue
<1>5. ValueOr(m, "fallback_lock_time", Zero) = tx.lock
  <2>1. CASE tx.lock # Zero
    <3>1. Single("global", "fallback_lock_time", tx.lock) \in m
      BY <1>3, <2>1 DEF IntoGlobal
    <3>2. GivenOk("fallback_lock_time", tx.lock) /\ <<"global", "fallback_lock_time">> \in GivenFields
      BY <1>2, LockGiven DEF GivenFields
    <3>3. ValueOf(m, "fallback_lock_time") = tx.lock /\ "fallback_lock_time" \in FieldsIn(m)
      BY <1>3, <3>1, <3>2, GivenValue
    <3>. QED  BY <3>3 DEF ValueOr
  <2>2. CASE tx.lock = Zero
    <3>1. FieldsIn(Entries("global0", pairs)) \subseteq DOMAIN Fields["global0"] \union {"unknown"}
      BY <1>1, FieldsOfOld
    <3>2. "fallback_lock_time" \notin FieldsIn(Entries("global0", pairs))
      BY <1>1, <3>1, OldDomains
    <3>3. \A f, v : Single("global", f, v).field = FieldOf("global", Fields["global"][f])
      BY EntryParts DEF Single
    <3>4. \A f \in {"version", "tx_version", "input_count", "output_count", "tx_modifiable"} :
             \A v : Single("global", f, v).field = f
      <4>1. \A f \in {"version", "tx_version", "input_count", "output_count", "tx_modifiable"} :
               f \in DOMAIN Fields["global"]
        BY DEF Fields, GlobalFields
      <4>. QED  BY <1>1, <3>3, <4>1, FieldOfNumber, OldNames
    <3>5. \A e \in m : e.field # "fallback_lock_time"
      <4>1. ASSUME NEW e \in m PROVE e.field # "fallback_lock_time"
        <5>1. \/ e \in Entries("global0", pairs)
              \/ e \in {Single("global", "version", NumberBytes(2)),
                        Single("global", "tx_version", tx.version),
                        Single("global", "input_count", <<Len(tx.ins)>>),
                        Single("global", "output_count", <<Len(tx.outs)>>),
                        Single("global", "tx_modifiable", <<0>>)}
          BY <1>3, <2>2 DEF IntoGlobal, Without
        <5>. QED  BY <3>2, <3>4, <5>1 DEF FieldsIn
      <4>. QED  BY <4>1
    <3>6. "fallback_lock_time" \notin FieldsIn(m)
      BY <3>5 DEF FieldsIn
    <3>. QED  BY <2>2, <3>6 DEF ValueOr
  <2>. QED  BY <2>1, <2>2
<1>6. NumberBytes(Number(tx.lock)) = tx.lock
  BY <1>2, NumberIsWritten DEF Sized
<1>7. Fallback(psbt) = Number(tx.lock)
  BY <1>3, <1>5 DEF Fallback
<1>. QED  BY <1>3, <1>4, <1>6, <1>7

LEMMA InputOfTx ==
    ASSUME NEW pairs \in Seq(PairType), MapOk("input0", pairs), NEW in \in TxInType,
           NEW entries, entries = IntoInput(Entries("input0", pairs), in)
    PROVE  /\ ValueOf(entries, "previous_txid") = in.txid
           /\ ValueOf(entries, "spent_output_index") = in.vout
           /\ ValueOr(entries, "sequence", DefaultSequence) = in.seq
           /\ "min_time" \notin FieldsIn(entries) /\ "min_height" \notin FieldsIn(entries)
<1>1. "input" \in Kinds /\ Old("input") = "input0"
  BY OldNames DEF Kinds
<1>2. Sane("input", entries)
  BY OldInputGood DEF GoodInput
<1>3. in.txid \in Sized /\ in.vout \in Sized /\ in.seq \in Sized
  BY DEF TxInType
<1>4. /\ Single("input", "previous_txid", in.txid) \in entries
      /\ Single("input", "spent_output_index", in.vout) \in entries
      /\ Single("input", "sequence", in.seq) \in entries
  BY DEF IntoInput
<1>5. /\ <<"input", "previous_txid">> \in GivenFields /\ <<"input", "spent_output_index">> \in GivenFields
      /\ <<"input", "sequence">> \in GivenFields
  BY DEF GivenFields
<1>6. GivenOk("previous_txid", in.txid) /\ GivenOk("spent_output_index", in.vout) /\ GivenOk("sequence", in.seq)
  BY <1>3, LockGiven
<1>7. ValueOf(entries, "previous_txid") = in.txid
  BY <1>2, <1>4, <1>5, <1>6, GivenValue
<1>8. ValueOf(entries, "spent_output_index") = in.vout
  BY <1>2, <1>4, <1>5, <1>6, GivenValue
<1>9. ValueOr(entries, "sequence", DefaultSequence) = in.seq
  <2>1. ValueOf(entries, "sequence") = in.seq /\ "sequence" \in FieldsIn(entries)
    BY <1>2, <1>4, <1>5, <1>6, GivenValue
  <2>. QED  BY <2>1 DEF ValueOr
<1>10. ASSUME NEW e \in entries PROVE e.field \notin {"min_time", "min_height"}
  <2>1. CASE e \in Entries("input0", pairs)
    <3>1. e.field \in DOMAIN Fields["input0"] \union {"unknown"}
      BY <1>1, <2>1, FieldsOfOld DEF FieldsIn
    <3>. QED  BY <1>1, <3>1, OldDomains
  <2>2. CASE e \in {Single("input", "previous_txid", in.txid), Single("input", "spent_output_index", in.vout),
                    Single("input", "sequence", in.seq)}
    <3>1. e.field \in {"previous_txid", "spent_output_index", "sequence"}
      BY <1>5, <1>6, <2>2, GivenEntryOk
    <3>. QED  BY <3>1
  <2>. QED  BY <2>1, <2>2 DEF IntoInput
<1>. QED  BY <1>7, <1>8, <1>9, <1>10 DEF FieldsIn

LEMMA OutputOfTx ==
    ASSUME NEW pairs \in Seq(PairType), MapOk("output0", pairs), NEW out \in TxOutType,
           Bad \notin ToSet(out.amount),
           NEW entries, entries = IntoOutput(Entries("output0", pairs), out)
    PROVE  ValueOf(entries, "amount") = out.amount /\ ValueOf(entries, "script") = out.script
<1>1. Sane("output", entries)
  BY OldOutputGood DEF GoodOutput
<1>2. /\ Single("output", "amount", out.amount) \in entries
      /\ Single("output", "script", out.script) \in entries
  BY DEF IntoOutput
<1>3. <<"output", "amount">> \in GivenFields /\ <<"output", "script">> \in GivenFields
  BY DEF GivenFields
<1>4. GivenOk("amount", out.amount) /\ GivenOk("script", out.script)
  BY DEF TxOutType, Sized, GivenOk
<1>5. ValueOf(entries, "amount") = out.amount
  BY <1>1, <1>2, <1>3, <1>4, GivenValue
<1>6. ValueOf(entries, "script") = out.script
  BY <1>1, <1>2, <1>3, <1>4, GivenValue
<1>. QED  BY <1>5, <1>6

------------------------------------------------------------------------------
(* The transaction of what version 0 is read as                             *)

\* A PSBT and a transaction that say the same of each input and output.
SaysOf(psbt, tx, n, k) ==
    /\ ValueOf(psbt.global, "tx_version") = tx.version
    /\ DOMAIN psbt.inputs = 1 .. n /\ DOMAIN psbt.outputs = 1 .. k
    /\ \A i \in 1 .. n : /\ ValueOf(psbt.inputs[i], "previous_txid") = tx.ins[i].txid
                         /\ ValueOf(psbt.inputs[i], "spent_output_index") = tx.ins[i].vout
                         /\ ValueOr(psbt.inputs[i], "sequence", DefaultSequence) = tx.ins[i].seq
    /\ \A i \in 1 .. k : /\ ValueOf(psbt.outputs[i], "amount") = tx.outs[i].amount
                         /\ ValueOf(psbt.outputs[i], "script") = tx.outs[i].script
    /\ NumberBytes(LockTimeOf(psbt)) = tx.lock

LEMMA SaysTheSame ==
    ASSUME NEW psbt, NEW tx \in TxType, NEW n \in Nat, NEW k \in Nat,
           Len(tx.ins) = n, Len(tx.outs) = k, SaysOf(psbt, tx, n, k)
    PROVE  TxOfPsbt(psbt) = tx
<1>1. PICK ins : ins = tx.ins
  OBVIOUS
<1>2. PICK outs : outs = tx.outs
  OBVIOUS
<1>3. ins = [i \in 1 .. n |-> ins[i]] /\ \A i \in 1 .. n : ins[i] \in TxInType
  BY <1>1 DEF TxType
<1>4. outs = [i \in 1 .. k |-> outs[i]] /\ \A i \in 1 .. k : outs[i] \in TxOutType
  BY <1>2 DEF TxType
<1>5. \A i \in 1 .. n : ins[i] = [txid |-> ins[i].txid, vout |-> ins[i].vout, seq |-> ins[i].seq]
  BY <1>3 DEF TxInType
<1>6. \A i \in 1 .. k : outs[i] = [amount |-> outs[i].amount, script |-> outs[i].script]
  BY <1>4 DEF TxOutType
<1>7. PICK made : made = [i \in 1 .. n |-> [txid |-> ValueOf(psbt.inputs[i], "previous_txid"),
                                           vout |-> ValueOf(psbt.inputs[i], "spent_output_index"),
                                           seq |-> ValueOr(psbt.inputs[i], "sequence", DefaultSequence)]]
  OBVIOUS
<1>8. PICK spent : spent = [i \in 1 .. k |-> [amount |-> ValueOf(psbt.outputs[i], "amount"),
                                              script |-> ValueOf(psbt.outputs[i], "script")]]
  OBVIOUS
<1>9. made = ins
  <2>1. \A i \in 1 .. n : made[i] = ins[i]
    BY <1>1, <1>5, <1>7 DEF SaysOf
  <2>2. made = [i \in 1 .. n |-> made[i]]
    BY <1>7
  <2>. QED  BY <1>3, <2>1, <2>2
<1>10. spent = outs
  <2>1. \A i \in 1 .. k : spent[i] = outs[i]
    BY <1>2, <1>6, <1>8 DEF SaysOf
  <2>2. spent = [i \in 1 .. k |-> spent[i]]
    BY <1>8
  <2>. QED  BY <1>4, <2>1, <2>2
<1>11. PICK version, lock : version = ValueOf(psbt.global, "tx_version") /\ lock = NumberBytes(LockTimeOf(psbt))
  OBVIOUS
<1>12. TxOfPsbt(psbt) = [version |-> version, ins |-> made, outs |-> spent, lock |-> lock]
  <2>1. DOMAIN psbt.inputs = 1 .. n /\ DOMAIN psbt.outputs = 1 .. k
    BY DEF SaysOf
  <2>. QED  BY <1>7, <1>8, <1>11, <2>1 DEF TxOfPsbt, LockTimeOf
<1>13. version = tx.version /\ lock = tx.lock
  BY <1>11 DEF SaysOf
<1>14. tx = [version |-> tx.version, ins |-> tx.ins, outs |-> tx.outs, lock |-> tx.lock]
  BY DEF TxType
<1>. QED  BY <1>1, <1>2, <1>9, <1>10, <1>12, <1>13, <1>14

LEMMA TxOfMeaning ==
    ASSUME NEW message \in MessageType, WellFormed(message), message.format = 0,
           NEW tx, tx = TxOfMessage(message), tx.lock \in Seq(Byte)
    PROVE  TxOfPsbt(Meaning(message)) = tx
<1>1. PICK n \in Nat, k \in Nat : /\ n = InputCount(message) /\ k = OutputCount(message)
                                  /\ GoodPsbt(Meaning(message), n, k)
  BY MeaningGood
<1>2. PICK psbt : psbt = Meaning(message)
  OBVIOUS
<1>3. Len(tx.ins) = n /\ Len(tx.outs) = k
  BY <1>1, MessageCounts
<1>4. ASSUME NEW i \in 1 .. 1 + n + k
      PROVE  MapOk(NameAt(message, i), message.maps[i]) /\ message.maps[i] \in Seq(PairType)
  BY <1>1, MapsAreOk
<1>5. MapName("global", 0) = "global0" /\ MapName("input", 0) = "input0" /\ MapName("output", 0) = "output0"
  BY MapNamesOf
<1>6. /\ NameAt(message, 1) = "global0"
      /\ \A i \in 1 .. n : NameAt(message, 1 + i) = "input0"
      /\ \A i \in 1 .. k : NameAt(message, 1 + n + i) = "output0"
  BY <1>1, <1>5 DEF NameAt
<1>7. 1 \in 1 .. 1 + n + k /\ (\A i \in 1 .. n : 1 + i \in 1 .. 1 + n + k)
      /\ \A i \in 1 .. k : 1 + n + i \in 1 .. 1 + n + k
  OBVIOUS
<1>8. PICK maps : maps = message.maps
  OBVIOUS
<1>9. /\ MapOk("global0", maps[1]) /\ maps[1] \in Seq(PairType)
      /\ \A i \in 1 .. n : MapOk("input0", maps[1 + i]) /\ maps[1 + i] \in Seq(PairType)
      /\ \A i \in 1 .. k : MapOk("output0", maps[1 + n + i]) /\ maps[1 + n + i] \in Seq(PairType)
  BY <1>4, <1>6, <1>7, <1>8
<1>10. /\ psbt.global = IntoGlobal(GlobalOf(message), tx)
       /\ psbt.inputs = [i \in 1 .. n |-> IntoInput(ReadInputs(message, n)[i], tx.ins[i])]
       /\ psbt.outputs = [i \in 1 .. k |-> IntoOutput(ReadOutputs(message, k)[i], tx.outs[i])]
  BY <1>1, <1>2, MeaningIsRead
<1>11. GlobalOf(message) = Entries("global0", maps[1])
  BY <1>5, <1>8 DEF GlobalOf
<1>12. \A i \in 1 .. n : psbt.inputs[i] = IntoInput(Entries("input0", maps[1 + i]), tx.ins[i])
  BY <1>5, <1>8, <1>10 DEF ReadInputs
<1>13. \A i \in 1 .. k : psbt.outputs[i] = IntoOutput(Entries("output0", maps[1 + n + i]), tx.outs[i])
  BY <1>1, <1>5, <1>8, <1>10 DEF ReadOutputs
<1>14. DOMAIN psbt.inputs = 1 .. n /\ DOMAIN psbt.outputs = 1 .. k
  BY <1>10
<1>15. tx \in TxType /\ \A i \in 1 .. k : Bad \notin ToSet(tx.outs[i].amount)
  <2>1. tx = DecodeTx[ValueOf(Entries("global0", maps[1]), "unsigned_tx")]
    BY <1>11 DEF TxOfMessage
  <2>. QED  BY <1>3, <1>9, <2>1, TxIsGood
<1>16. (\A i \in 1 .. n : tx.ins[i] \in TxInType) /\ \A i \in 1 .. k : tx.outs[i] \in TxOutType
  BY <1>3, <1>15 DEF TxType
<1>17. ASSUME NEW i \in 1 .. n
       PROVE  /\ ValueOf(psbt.inputs[i], "previous_txid") = tx.ins[i].txid
              /\ ValueOf(psbt.inputs[i], "spent_output_index") = tx.ins[i].vout
              /\ ValueOr(psbt.inputs[i], "sequence", DefaultSequence) = tx.ins[i].seq
              /\ "min_time" \notin FieldsIn(psbt.inputs[i]) /\ "min_height" \notin FieldsIn(psbt.inputs[i])
  BY <1>9, <1>12, <1>16, InputOfTx
<1>18. ASSUME NEW i \in 1 .. k
       PROVE  ValueOf(psbt.outputs[i], "amount") = tx.outs[i].amount
              /\ ValueOf(psbt.outputs[i], "script") = tx.outs[i].script
  <2>1. MapOk("output0", maps[1 + n + i]) /\ maps[1 + n + i] \in Seq(PairType)
    BY <1>9
  <2>2. tx.outs[i] \in TxOutType /\ Bad \notin ToSet(tx.outs[i].amount)
    BY <1>15, <1>16
  <2>3. psbt.outputs[i] = IntoOutput(Entries("output0", maps[1 + n + i]), tx.outs[i])
    BY <1>13
  <2>. QED  BY <2>1, <2>2, <2>3, OutputOfTx
<1>19. NumberBytes(Fallback(psbt)) = tx.lock /\ ValueOf(psbt.global, "tx_version") = tx.version
  <2>1. Sane("global", psbt.global)
    BY <1>1, <1>2 DEF GoodPsbt, GoodGlobal
  <2>2. psbt.global = IntoGlobal(Entries("global0", maps[1]), tx)
    BY <1>10, <1>11
  <2>. QED  BY <1>9, <1>15, <2>1, <2>2, FallbackOfGlobal
<1>20. LockTimeOf(psbt) = Fallback(psbt)
  <2>1. NoLocks(psbt, n)
    BY <1>14, <1>17 DEF NoLocks
  <2>. QED  BY <2>1, LockOfNone
<1>21. SaysOf(psbt, tx, n, k)
  BY <1>14, <1>17, <1>18, <1>19, <1>20 DEF SaysOf
<1>. QED  BY <1>2, <1>3, <1>15, <1>21, SaysTheSame

-----------------------------------------------------------------------------
(* A lock time is bytes                                                     *)

LEMMA BytesStand ==
    ASSUME NEW s \in Seq(Byte), NEW t \in Seq(Nat), NEW start \in Nat, Stands(t, s, start)
    PROVE  t \in Seq(Byte)
<1>1. PICK n \in Nat : n = Len(t)
  OBVIOUS
<1>2. ASSUME NEW i \in 1 .. n PROVE t[i] \in Byte
  <2>1. start + i \in 1 .. Len(s) /\ s[start + i] = t[i]
    BY <1>1 DEF Stands
  <2>2. PICK j : j = start + i
    OBVIOUS
  <2>3. s[j] \in Byte
    BY <2>1, <2>2
  <2>. QED  BY <2>1, <2>2, <2>3
<1>3. t = [i \in 1 .. n |-> t[i]]
  BY <1>1
<1>. QED  BY <1>2, <1>3, ListType

LEMMA PartOfBytes ==
    ASSUME NEW bytes \in Seq(Byte), NEW start \in Nat, start + FixedSize <= Len(bytes)
    PROVE  Part(bytes, start) \in Seq(Byte)
<1>1. PICK n \in Nat : n = FixedSize
  BY SizeAssumption
<1>2. PICK p : p = SubSeq(bytes, start + 1, start + n)
  OBVIOUS
<1>3. p \in Seq(Byte)
  BY <1>1, <1>2
<1>. QED  BY <1>1, <1>2, <1>3 DEF Part

LEMMA ValueStands ==
    ASSUME NEW p \in PairType
    PROVE  \E place \in Nat : Stands(p.value, PairBytes(p), place)
<1>1. p.data \in Seq(Nat) /\ p.value \in Seq(Nat) /\ p.type \in Nat /\ p.len \in Nat
  BY DEF PairType
<1>2. PICK head : head = <<1 + Len(p.data), p.type>>
  OBVIOUS
<1>3. PICK len : len = <<p.len>>
  OBVIOUS
<1>4. head \in Seq(Nat) /\ len \in Seq(Nat)
  <2>1. Len(p.data) \in Nat
    BY <1>1
  <2>. QED  BY <1>1, <1>2, <1>3, <2>1
<1>5. PICK front : front = (head \o p.data) \o len
  OBVIOUS
<1>6. front \in Seq(Nat) /\ Len(front) \in Nat
  <2>1. head \o p.data \in Seq(Nat)
    BY <1>1, <1>4, Concat
  <2>2. front \in Seq(Nat)
    BY <1>4, <1>5, <2>1, Concat
  <2>. QED  BY <2>2
<1>7. PairBytes(p) = front \o p.value
  BY <1>2, <1>3, <1>5 DEF PairBytes
<1>8. Stands(p.value, front \o p.value, Len(front))
  BY <1>1, <1>6, StandsLast
<1>. QED  BY <1>6, <1>7, <1>8

LEMMA LockIsBytes ==
    ASSUME NEW message \in MessageType, WellFormed(message), message.format = 0, Bytes(message) \in Seq(Byte)
    PROVE  TxOfMessage(message).lock \in Seq(Byte)
<1>1. PICK maps : maps = message.maps
  OBVIOUS
<1>2. /\ MapOk("global0", maps[1]) /\ maps[1] \in Seq(PairType) /\ 1 \in 1 .. Len(maps)
      /\ message.magic = PSBT_MAGIC
  BY <1>1, MapNamesOf DEF WellFormed, MessageType
<1>3. PICK pairs \in Seq(PairType) : pairs = maps[1]
  BY <1>2
<1>4. PICK value : value = ValueOf(Entries("global0", pairs), "unsigned_tx")
  OBVIOUS
<1>5. value \in Seq(Nat) /\ TxSize[value] = Len(value)
  BY <1>2, <1>3, <1>4, TxOfMap
<1>6. PICK i \in 1 .. Len(pairs) : value = pairs[i].value
  <2>1. KeysDiffer("global0", pairs) /\ "unsigned_tx" \in FieldsIn(Entries("global0", pairs)) /\ "global0" \in MapNames
    BY <1>2, <1>3 DEF MapOk, Required, MapNames
  <2>2. "unsigned_tx" \notin Keyed["global0"]
    BY DEF Keyed, GlobalKeyed
  <2>3. PICK j \in 1 .. Len(pairs) : OneEntry(Entries("global0", pairs), "unsigned_tx", EntryAt("global0", pairs[j]))
    BY <2>1, <2>2, OneOfField
  <2>4. value = EntryAt("global0", pairs[j]).value
    BY <1>4, <2>3, OneValue
  <2>5. value = pairs[j].value
    BY <2>4, EntryParts DEF EntryAt
  <2>. QED  BY <2>5
<1>7. PICK p \in PairType : p = pairs[i]
  OBVIOUS
<1>8. PICK b \in Seq(Byte) : b = Bytes(message)
  OBVIOUS
<1>9. b \in Seq(Nat)
  BY <1>8, BytesType
<1>10. PICK start \in Nat : Stands(PairBytes(p), b, start)
  <2>1. i - 1 \in 0 .. Len(pairs)
    OBVIOUS
  <2>2. Stands(PairBytes(pairs[i]), Bytes(message), PairStart(message, 1, i - 1)) /\ PairStart(message, 1, i - 1) \in Nat
    BY <1>1, <1>2, <1>3, <2>1, PairStands
  <2>. QED  BY <1>7, <1>8, <2>2
<1>11. value \in Seq(Byte)
  <2>1. PICK place \in Nat : Stands(p.value, PairBytes(p), place)
    BY ValueStands
  <2>2. PairBytes(p) \in Seq(Nat) /\ p.value \in Seq(Nat)
    BY PairBytesType DEF PairType
  <2>3. Stands(p.value, b, start + place)
    BY <1>9, <1>10, <2>1, <2>2, StandsWithin
  <2>4. start + place \in Nat
    OBVIOUS
  <2>. QED  BY <1>6, <1>7, <2>2, <2>3, <2>4, BytesStand
<1>12. PICK last \in Nat : last = OutputsEnd[value] /\ last + FixedSize <= Len(value)
  <2>1. PICK n, f, k, g : TxSeen(value, n, f, k, g)
    BY <1>5, TxIsSeen
  <2>2. OutputsEnd[value] \in Nat /\ OutputsEnd[value] + FixedSize = Len(value)
    BY <2>1 DEF TxSeen
  <2>. QED  BY <1>5, <2>2
<1>13. TxOfMessage(message) = DecodeTx[value]
  BY <1>1, <1>3, <1>4, MapNamesOf DEF TxOfMessage, GlobalOf
<1>14. DecodeTx[value].lock = Part(value, OutputsEnd[value])
  BY <1>5 DEF DecodeTx
<1>15. Part(value, last) \in Seq(Byte)
  BY <1>11, <1>12, PartOfBytes
<1>. QED  BY <1>12, <1>13, <1>14, <1>15

------------------------------------------------------------------------------
(* Two messages whose bytes start alike                                     *)

\* The length in front of each value is that of the value.
HonestPairs(pairs) == \A i \in 1 .. Len(pairs) : pairs[i].len = Len(pairs[i].value)

\* A message as its bytes say it: no length lies.
Honest(message) ==
    /\ Len(message.magic) = 4
    /\ \A i \in 1 .. Len(message.maps) : HonestPairs(message.maps[i])

LEMMA StandSame ==
    ASSUME NEW a \in Seq(Nat), NEW b \in Seq(Nat), NEW s \in Seq(Nat), NEW start \in Nat,
           Stands(a, s, start), Stands(b, s, start), Len(a) = Len(b)
    PROVE  a = b
<1>1. ASSUME NEW i \in 1 .. Len(a) PROVE a[i] = b[i]
  BY DEF Stands
<1>. QED  BY <1>1, SamePoints

\* Two pairs that stand at one place are one, if none of the two lies.
LEMMA SamePair ==
    ASSUME NEW a \in PairType, NEW b \in PairType, NEW s \in Seq(Nat), NEW start \in Nat,
           Stands(PairBytes(a), s, start), Stands(PairBytes(b), s, start),
           a.len = Len(a.value), b.len = Len(b.value)
    PROVE  a = b
<1>1. PICK x, y : x = KeyItem(a) /\ y = KeyItem(b)
  OBVIOUS
<1>2. /\ x \in Seq(Nat) /\ Len(x) = 2 + Len(a.data) /\ x[1] = 1 + Len(a.data) /\ x[2] = a.type
      /\ SubSeq(x, 3, Len(x)) = a.data
  BY <1>1, PairItems
<1>3. /\ y \in Seq(Nat) /\ Len(y) = 2 + Len(b.data) /\ y[1] = 1 + Len(b.data) /\ y[2] = b.type
      /\ SubSeq(y, 3, Len(y)) = b.data
  BY <1>1, PairItems
<1>4. /\ Stands(x, s, start) /\ Stands(LengthItem(a), s, start + Len(x))
      /\ Stands(a.value, s, start + Len(x) + 1)
  BY <1>1, PairParts
<1>5. /\ Stands(y, s, start) /\ Stands(LengthItem(b), s, start + Len(y))
      /\ Stands(b.value, s, start + Len(y) + 1)
  BY <1>1, PairParts
<1>6. PICK m \in Nat, n \in Nat : m = Len(a.data) /\ n = Len(b.data)
  BY DEF PairType
<1>7. m = n
  <2>1. 1 \in 1 .. Len(x) /\ 1 \in 1 .. Len(y)
    <3>1. Len(x) = 2 + m /\ Len(y) = 2 + n
      BY <1>2, <1>3, <1>6
    <3>2. 1 \in 1 .. 2 + m /\ 1 \in 1 .. 2 + n
      OBVIOUS
    <3>. QED  BY <3>1, <3>2
  <2>2. s[start + 1] = x[1] /\ s[start + 1] = y[1]
    BY <1>4, <1>5, <2>1 DEF Stands
  <2>3. 1 + m = 1 + n
    BY <1>2, <1>3, <1>6, <2>2
  <2>. QED  BY <2>3
<1>8. Len(x) = Len(y)
  BY <1>2, <1>3, <1>6, <1>7
<1>9. x = y
  BY <1>2, <1>3, <1>4, <1>5, <1>8, StandSame
<1>10. a.type = b.type /\ a.data = b.data
  BY <1>2, <1>3, <1>9
<1>11. PICK p \in Nat : p = start + Len(x)
  BY <1>2
<1>12. a.len = b.len
  <2>1. /\ Len(LengthItem(a)) = 1 /\ LengthItem(a)[1] = a.len
        /\ Len(LengthItem(b)) = 1 /\ LengthItem(b)[1] = b.len
    BY PairItems
  <2>2. s[p + 1] = LengthItem(a)[1] /\ s[p + 1] = LengthItem(b)[1]
    BY <1>4, <1>5, <1>9, <1>11, <2>1 DEF Stands
  <2>. QED  BY <2>1, <2>2
<1>13. a.value \in Seq(Nat) /\ b.value \in Seq(Nat)
  BY DEF PairType
<1>14. Stands(a.value, s, p + 1) /\ Stands(b.value, s, p + 1) /\ p + 1 \in Nat
  BY <1>4, <1>5, <1>9, <1>11
<1>15. a.value = b.value
  BY <1>12, <1>13, <1>14, StandSame
<1>16. /\ a = [type |-> a.type, data |-> a.data, len |-> a.len, value |-> a.value]
       /\ b = [type |-> b.type, data |-> b.data, len |-> b.len, value |-> b.value]
  BY DEF PairType
<1>. QED  BY <1>10, <1>12, <1>15, <1>16

\* Pairs, from f[0] on, and the end of their map: pair j + 1 starts at f[j].
Laid(pairs, s, f) ==
    /\ \A j \in 0 .. Len(pairs) : f[j] \in Nat
    /\ \A j \in 1 .. Len(pairs) : /\ Stands(PairBytes(pairs[j]), s, f[j - 1])
                                  /\ f[j] = f[j - 1] + Len(PairBytes(pairs[j]))
    /\ Stands(<<EndOfMap>>, s, f[Len(pairs)])

LEMMA NoPairAtEnd ==
    ASSUME NEW p \in PairType, NEW s \in Seq(Nat), NEW start \in Nat,
           Stands(PairBytes(p), s, start), Stands(<<EndOfMap>>, s, start)
    PROVE  FALSE
<1>1. PICK x : x = KeyItem(p)
  OBVIOUS
<1>2. x \in Seq(Nat) /\ Len(x) = 2 + Len(p.data) /\ x[1] = 1 + Len(p.data)
  BY <1>1, PairItems
<1>3. Stands(x, s, start)
  BY <1>1, PairParts
<1>4. Len(p.data) \in Nat
  BY DEF PairType
<1>5. s[start + 1] = x[1]
  BY <1>2, <1>3, <1>4 DEF Stands
<1>6. PICK e : e = <<EndOfMap>>
  OBVIOUS
<1>7. Len(e) = 1 /\ e[1] = 0
  BY <1>6 DEF EndOfMap
<1>8. s[start + 1] = e[1]
  BY <1>6, <1>7 DEF Stands
<1>. QED  BY <1>2, <1>4, <1>5, <1>7, <1>8

\* The first j pairs are the same, and end at the same place.
SameTo(a, b, f, g, j) ==
    /\ j <= Len(b) /\ f[j] = g[j] /\ \A i \in 1 .. j : a[i] = b[i]

LEMMA SameNext ==
    ASSUME NEW a \in Seq(PairType), NEW b \in Seq(PairType), NEW s \in Seq(Nat),
           NEW f, NEW g, Laid(a, s, f), Laid(b, s, g), HonestPairs(a), HonestPairs(b),
           NEW j \in Nat, NEW k \in Nat, k = j + 1, k <= Len(a), SameTo(a, b, f, g, j)
    PROVE  SameTo(a, b, f, g, k)
<1>1. k \in 1 .. Len(a) /\ k - 1 = j /\ j \in 0 .. Len(a)
  OBVIOUS
<1>2. PICK p \in PairType : p = a[k]
  BY <1>1
<1>3. PICK at \in Nat : at = f[j]
  BY <1>1 DEF Laid
<1>4. Stands(PairBytes(p), s, at) /\ f[k] = at + Len(PairBytes(p)) /\ p.len = Len(p.value)
  BY <1>1, <1>2, <1>3 DEF Laid, HonestPairs
<1>5. j # Len(b)
  <2>1. SUFFICES ASSUME j = Len(b) PROVE FALSE
    OBVIOUS
  <2>2. Stands(<<EndOfMap>>, s, at)
    BY <1>3, <2>1 DEF Laid, SameTo
  <2>. QED  BY <1>4, <2>2, NoPairAtEnd
<1>6. k <= Len(b) /\ k \in 1 .. Len(b)
  BY <1>1, <1>5 DEF SameTo
<1>7. PICK q \in PairType : q = b[k]
  BY <1>6
<1>8. Stands(PairBytes(q), s, at) /\ g[k] = at + Len(PairBytes(q)) /\ q.len = Len(q.value)
  BY <1>1, <1>3, <1>6, <1>7 DEF Laid, HonestPairs, SameTo
<1>9. p = q
  BY <1>4, <1>8, SamePair
<1>10. ASSUME NEW i \in 1 .. k PROVE a[i] = b[i]
  <2>1. CASE i = k
    BY <1>2, <1>7, <1>9, <2>1
  <2>2. CASE i # k
    <3>1. i \in 1 .. j
      BY <2>2
    <3>. QED  BY <3>1 DEF SameTo
  <2>. QED  BY <2>1, <2>2
<1>. QED  BY <1>4, <1>6, <1>8, <1>9, <1>10 DEF SameTo

LEMMA LaidPairsAgree ==
    ASSUME NEW a \in Seq(PairType), NEW b \in Seq(PairType), NEW s \in Seq(Nat),
           NEW f, NEW g, Laid(a, s, f), Laid(b, s, g), HonestPairs(a), HonestPairs(b), f[0] = g[0]
    PROVE  a = b /\ f[Len(a)] = g[Len(a)]
<1>. DEFINE T == {j \in Nat : j <= Len(a) => SameTo(a, b, f, g, j)}
<1>1. PICK n \in Nat : n = Len(a)
  OBVIOUS
<1>2. SameTo(a, b, f, g, n)
  <2>1. T \in SUBSET Nat
    OBVIOUS
  <2>2. 0 \in T
    <3>1. SameTo(a, b, f, g, 0)
      BY DEF SameTo
    <3>. QED  BY <3>1
  <2>3. ASSUME NEW j \in T PROVE j + 1 \in T
    <3>1. PICK k \in Nat : k = j + 1
      OBVIOUS
    <3>2. ASSUME k <= Len(a) PROVE SameTo(a, b, f, g, k)
      <4>1. j \in Nat /\ j <= Len(a) /\ (j <= Len(a) => SameTo(a, b, f, g, j))
        BY <3>1, <3>2
      <4>. QED  BY <3>1, <3>2, <4>1, SameNext
    <3>. QED  BY <3>1, <3>2
  <2>4. T = Nat
    <3>. HIDE DEF T
    <3>. QED  BY <2>1, <2>2, <2>3, NumbersInduct
  <2>5. n \in T
    BY <2>4
  <2>. QED  BY <1>1, <2>5
<1>3. PICK at \in Nat : at = f[n]
  BY <1>1 DEF Laid
<1>4. n = Len(b)
  <2>1. SUFFICES ASSUME n # Len(b) PROVE FALSE
    OBVIOUS
  <2>2. PICK k \in 1 .. Len(b) : k = n + 1
    BY <1>2, <2>1 DEF SameTo
  <2>3. PICK q \in PairType : q = b[k]
    BY <2>2
  <2>4. k - 1 = n /\ g[n] = at
    BY <1>2, <1>3, <2>2 DEF SameTo
  <2>5. Stands(PairBytes(q), s, at)
    BY <2>2, <2>3, <2>4 DEF Laid
  <2>6. Stands(<<EndOfMap>>, s, at)
    BY <1>1, <1>3 DEF Laid
  <2>. QED  BY <2>3, <2>5, <2>6, NoPairAtEnd
<1>5. a = b
  <2>1. \A i \in 1 .. Len(a) : a[i] = b[i]
    BY <1>1, <1>2 DEF SameTo
  <2>. QED  BY <1>1, <1>4, <2>1, SamePoints
<1>. QED  BY <1>1, <1>2, <1>5 DEF SameTo

\* Map i of a message is laid out where it starts in the message, and the next behind it.
LaidInBytes(m, i, pairs, s, f) ==
    /\ Laid(pairs, s, f) /\ f[0] = MapStart(m, i)
    /\ MapStart(m, i + 1) = f[Len(pairs)] + 1

HasLayout(m, i, pairs, s) == \E f : LaidInBytes(m, i, pairs, s, f)

LEMMA PairsLaid ==
    ASSUME NEW m \in MessageType, m.magic = PSBT_MAGIC, NEW i \in 1 .. Len(m.maps),
           NEW pairs \in Seq(PairType), pairs = m.maps[i],
           NEW s \in Seq(Nat), Stands(Bytes(m), s, 0)
    PROVE  HasLayout(m, i, pairs, s)
<1>1. PICK f : f = [j \in 0 .. Len(pairs) |-> PairStart(m, i, j)]
  OBVIOUS
<1>2. PICK t \in Seq(Nat) : t = Bytes(m)
  BY BytesType
<1>3. Len(pairs) \in Nat
  OBVIOUS
<1>4. /\ PairStart(m, i, 0) = MapStart(m, i)
      /\ \A j \in 0 .. Len(pairs) : PairStart(m, i, j) \in Nat
      /\ \A j \in 1 .. Len(pairs) :
            /\ Stands(PairBytes(pairs[j]), t, PairStart(m, i, j - 1))
            /\ PairStart(m, i, j) = PairStart(m, i, j - 1) + Len(PairBytes(pairs[j]))
      /\ Stands(<<EndOfMap>>, t, PairStart(m, i, Len(pairs)))
      /\ MapStart(m, i + 1) = PairStart(m, i, Len(pairs)) + 1
  BY <1>2, PairStands
<1>5. \A j \in 0 .. Len(pairs) : f[j] = PairStart(m, i, j)
  BY <1>1
<1>6. ASSUME NEW a \in Seq(Nat), NEW p \in Nat, Stands(a, t, p) PROVE Stands(a, s, p)
  <2>1. Stands(t, s, 0)
    BY <1>2
  <2>2. Stands(a, s, 0 + p)
    BY <1>6, <2>1, StandsWithin
  <2>3. 0 + p = p
    OBVIOUS
  <2>. QED  BY <2>2, <2>3
<1>7. ASSUME NEW j \in 1 .. Len(pairs)
      PROVE  Stands(PairBytes(pairs[j]), s, f[j - 1]) /\ f[j] = f[j - 1] + Len(PairBytes(pairs[j]))
  <2>1. j - 1 \in 0 .. Len(pairs) /\ j \in 0 .. Len(pairs)
    BY <1>3
  <2>2. f[j - 1] = PairStart(m, i, j - 1) /\ f[j] = PairStart(m, i, j) /\ f[j - 1] \in Nat
    BY <1>4, <1>5, <2>1
  <2>3. PairBytes(pairs[j]) \in Seq(Nat)
    <3>1. pairs[j] \in PairType
      OBVIOUS
    <3>. QED  BY <3>1, PairBytesType
  <2>4. Stands(PairBytes(pairs[j]), t, f[j - 1])
    BY <1>4, <2>2
  <2>5. Stands(PairBytes(pairs[j]), s, f[j - 1])
    BY <1>6, <2>2, <2>3, <2>4
  <2>. QED  BY <1>4, <2>2, <2>5
<1>8. Stands(<<EndOfMap>>, s, f[Len(pairs)]) /\ f[Len(pairs)] = PairStart(m, i, Len(pairs))
  <2>1. Len(pairs) \in 0 .. Len(pairs) /\ <<EndOfMap>> \in Seq(Nat)
    BY <1>3 DEF EndOfMap
  <2>2. f[Len(pairs)] = PairStart(m, i, Len(pairs)) /\ f[Len(pairs)] \in Nat
    BY <1>4, <1>5, <2>1
  <2>. QED  BY <1>4, <1>6, <2>1, <2>2
<1>9. f[0] = MapStart(m, i) /\ \A j \in 0 .. Len(pairs) : f[j] \in Nat
  BY <1>3, <1>4, <1>5
<1>10. Laid(pairs, s, f)
  BY <1>7, <1>8, <1>9 DEF Laid
<1>11. LaidInBytes(m, i, pairs, s, f)
  BY <1>4, <1>8, <1>9, <1>10 DEF LaidInBytes
<1>. QED  BY <1>11 DEF HasLayout

\* The bytes of a message end with its last map.
LEMMA BytesEnd ==
    ASSUME NEW m \in MessageType, m.magic = PSBT_MAGIC, NEW n, n = Len(m.maps)
    PROVE  Len(Bytes(m)) = MapStart(m, n + 1)
<1>1. PICK seqs \in Seq(Seq(Nat)) : seqs = MapSeqs(m.maps) /\ Len(seqs) = n
  BY BytesType
<1>2. PICK all \in Seq(Nat) : all = FlattenSeq(seqs)
  BY <1>1, BytesType
<1>3. Joined(seqs, n) = all
  BY <1>1, <1>2, JoinedStep
<1>4. PICK front \in Seq(Nat) : front = PSBT_MAGIC \o <<m.separator>> /\ Len(front) = 5
  <2>1. PICK x \in Nat : x = m.separator
    BY DEF MessageType
  <2>2. PSBT_MAGIC \o <<x>> \in Seq(Nat) /\ Len(PSBT_MAGIC \o <<x>>) = 5
    BY DEF PSBT_MAGIC
  <2>. QED  BY <2>1, <2>2
<1>5. Bytes(m) = front \o all
  BY <1>1, <1>2, <1>4, BytesType
<1>6. Len(front \o all) = 5 + Len(all)
  BY <1>4, Concat
<1>7. (n + 1) - 1 = n
  <2>1. n \in Nat
    BY DEF MessageType
  <2>. QED  BY <2>1
<1>. QED  BY <1>1, <1>3, <1>5, <1>6, <1>7 DEF MapStart

\* The first i maps are the same, and end at the same place.
MapsSameTo(m, g, i) ==
    /\ i <= Len(g.maps) /\ MapStart(m, i + 1) = MapStart(g, i + 1)
    /\ \A j \in 1 .. i : m.maps[j] = g.maps[j]

\* The bytes of one start those of the other.
Starts(m, g) == m.magic = PSBT_MAGIC /\ g.magic = PSBT_MAGIC /\ Stands(Bytes(m), Bytes(g), 0)

LEMMA MapsSameNext ==
    ASSUME NEW m \in MessageType, NEW g \in MessageType, Starts(m, g), Honest(m), Honest(g),
           NEW i \in Nat, NEW k \in Nat, k = i + 1, k <= Len(m.maps), MapsSameTo(m, g, i)
    PROVE  MapsSameTo(m, g, k)
<1>1. k \in 1 .. Len(m.maps) /\ k - 1 = i
  BY DEF MessageType
<1>2. PICK s \in Seq(Nat) : s = Bytes(g)
  BY BytesType
<1>3. m.magic = PSBT_MAGIC /\ g.magic = PSBT_MAGIC /\ Stands(Bytes(m), s, 0) /\ Stands(s, s, 0)
  <2>1. Stands(s, s, 0)
    BY DEF Stands
  <2>. QED  BY <1>2, <2>1 DEF Starts
<1>4. PICK a \in Seq(PairType) : a = m.maps[k]
  BY <1>1 DEF MessageType
<1>5. PICK f : LaidInBytes(m, k, a, s, f)
  BY <1>1, <1>3, <1>4, PairsLaid DEF HasLayout
<1>6. Laid(a, s, f) /\ f[0] = MapStart(m, k) /\ MapStart(m, k + 1) = f[Len(a)] + 1
  BY <1>5 DEF LaidInBytes
<1>7. i # Len(g.maps)
  <2>1. SUFFICES ASSUME i = Len(g.maps) PROVE FALSE
    OBVIOUS
  <2>2. Len(s) = MapStart(g, k)
    BY <1>2, <1>3, <2>1, BytesEnd
  <2>3. MapStart(g, k) = f[0]
    BY <1>6 DEF MapsSameTo
  <2>4. \E x \in Seq(Nat) : Len(x) >= 1 /\ Stands(x, s, f[0])
    <3>1. CASE a = <<>>
      <4>1. Len(a) = 0
        BY <3>1
      <4>2. Stands(<<EndOfMap>>, s, f[0])
        BY <1>6, <4>1 DEF Laid
      <4>3. <<EndOfMap>> \in Seq(Nat) /\ Len(<<EndOfMap>>) >= 1
        BY DEF EndOfMap
      <4>. QED  BY <4>2, <4>3
    <3>2. CASE a # <<>>
      <4>1. 1 \in 1 .. Len(a) /\ 1 - 1 = 0
        BY <3>2
      <4>2. PICK p \in PairType : p = a[1]
        BY <4>1
      <4>3. Stands(PairBytes(p), s, f[0])
        BY <1>6, <4>1, <4>2 DEF Laid
      <4>4. PICK x \in Seq(Nat) : x = PairBytes(p) /\ Len(x) = 3 + Len(p.data) + Len(p.value)
        <5>1. PairBytes(p) \in Seq(Nat) /\ Len(PairBytes(p)) = 3 + Len(p.data) + Len(p.value)
          BY PairBytesType
        <5>. QED  BY <5>1
      <4>5. PICK u \in Nat, v \in Nat : u = Len(p.data) /\ v = Len(p.value)
        BY DEF PairType
      <4>6. Len(x) >= 1
        <5>1. Len(x) = 3 + u + v
          BY <4>4, <4>5
        <5>2. 3 + u + v >= 1
          OBVIOUS
        <5>. QED  BY <5>1, <5>2
      <4>. QED  BY <4>3, <4>4, <4>6
    <3>. QED  BY <3>1, <3>2
  <2>5. PICK x \in Seq(Nat) : Len(x) >= 1 /\ Stands(x, s, f[0])
    BY <2>4
  <2>6. f[0] + Len(x) <= f[0]
    BY <2>2, <2>3, <2>5 DEF Stands
  <2>7. f[0] \in Nat
    BY <2>2, <2>3
  <2>. QED  BY <2>5, <2>6, <2>7
<1>8. k <= Len(g.maps) /\ k \in 1 .. Len(g.maps)
  <2>1. Len(g.maps) \in Nat /\ i <= Len(g.maps)
    BY DEF MapsSameTo, MessageType
  <2>. QED  BY <1>7, <2>1
<1>9. PICK b \in Seq(PairType) : b = g.maps[k]
  BY <1>8, SMTT(20) DEF MessageType
<1>10. PICK h : LaidInBytes(g, k, b, s, h)
  <2>1. Stands(Bytes(g), s, 0)
    BY <1>2, <1>3
  <2>. QED  BY <1>3, <1>8, <1>9, <2>1, PairsLaid DEF HasLayout
<1>11. Laid(b, s, h) /\ h[0] = MapStart(g, k) /\ MapStart(g, k + 1) = h[Len(b)] + 1
  BY <1>10 DEF LaidInBytes
<1>12. HonestPairs(a) /\ HonestPairs(b)
  BY <1>1, <1>4, <1>8, <1>9 DEF Honest
<1>13. f[0] = h[0]
  BY <1>6, <1>11 DEF MapsSameTo
<1>14. a = b /\ f[Len(a)] = h[Len(a)]
  BY <1>6, <1>11, <1>12, <1>13, LaidPairsAgree
<1>15. MapStart(m, k + 1) = MapStart(g, k + 1)
  BY <1>6, <1>11, <1>14
<1>16. ASSUME NEW j \in 1 .. k PROVE m.maps[j] = g.maps[j]
  <2>1. CASE j = k
    BY <1>4, <1>9, <1>14, <2>1
  <2>2. CASE j # k
    <3>1. j \in 1 .. i
      BY <2>2
    <3>. QED  BY <3>1 DEF MapsSameTo
  <2>. QED  BY <2>1, <2>2
<1>. QED  BY <1>8, <1>15, <1>16 DEF MapsSameTo

LEMMA FirstStart ==
    ASSUME NEW m \in MessageType
    PROVE  MapStart(m, 1) = 5
<1>1. PICK seqs \in Seq(Seq(Nat)) : seqs = MapSeqs(m.maps)
  BY BytesType
<1>2. Joined(seqs, 0) = <<>>
  BY JoinedStep
<1>. QED  BY <1>1, <1>2 DEF MapStart

LEMMA MapsCounted ==
    ASSUME NEW m \in MessageType
    PROVE  m.maps \in Seq(Seq(PairType)) /\ Len(m.maps) \in Nat
<1>1. m.maps \in Seq(Seq(PairType))
  BY DEF MessageType
<1>. QED  BY <1>1

\* What starts the bytes of a message are its first maps.
LEMMA StartsIsFirst ==
    ASSUME NEW m \in MessageType, NEW g \in MessageType, Starts(m, g), Honest(m), Honest(g)
    PROVE  Len(m.maps) <= Len(g.maps) /\ \A i \in 1 .. Len(m.maps) : m.maps[i] = g.maps[i]
<1>. DEFINE T == {i \in Nat : i <= Len(m.maps) => MapsSameTo(m, g, i)}
<1>1. PICK n \in Nat : n = Len(m.maps)
  BY MapsCounted
<1>2. MapsSameTo(m, g, n)
  <2>1. T \in SUBSET Nat
    OBVIOUS
  <2>2. 0 \in T
    <3>1. MapStart(m, 1) = 5 /\ MapStart(g, 1) = 5
      BY FirstStart
    <3>2. 0 + 1 = 1
      OBVIOUS
    <3>3. 0 <= Len(g.maps)
      BY DEF MessageType
    <3>4. MapsSameTo(m, g, 0)
      BY <3>1, <3>2, <3>3 DEF MapsSameTo
    <3>. QED  BY <3>4
  <2>3. ASSUME NEW i \in T PROVE i + 1 \in T
    <3>1. PICK k \in Nat : k = i + 1
      OBVIOUS
    <3>2. ASSUME k <= n PROVE MapsSameTo(m, g, k)
      <4>1. i \in Nat /\ i <= n /\ (i <= n => MapsSameTo(m, g, i))
        BY <1>1, <3>1, <3>2
      <4>. QED  BY <1>1, <3>1, <3>2, <4>1, MapsSameNext
    <3>. QED  BY <1>1, <3>1, <3>2
  <2>4. T = Nat
    <3>. HIDE DEF T
    <3>. QED  BY <2>1, <2>2, <2>3, NumbersInduct
  <2>5. n \in T
    BY <2>4
  <2>. QED  BY <1>1, <2>5
<1>. QED  BY <1>1, <1>2 DEF MapsSameTo

\* A message that starts as one that is well formed, and goes on as it, is well formed.
LEMMA MoreIsWellFormed ==
    ASSUME NEW m \in MessageType, WellFormed(m), NEW g \in MessageType,
           g.magic = PSBT_MAGIC, g.separator = PSBT_SEPARATOR, Grows(m, g)
    PROVE  WellFormed(g)
<1>1. PICK n \in Nat, k \in Nat : /\ n = InputCount(m) /\ k = OutputCount(m)
                                  /\ 1 + n + k <= Len(m.maps)
  BY MessageCounts
<1>2. InputCount(g) = n /\ OutputCount(g) = k
  BY <1>1, SameGlobal
<1>3. PICK l \in Nat, q \in Nat : l = Len(m.maps) /\ q = Len(g.maps)
  BY MapsCounted
<1>4. l <= q /\ 1 <= l /\ m.format = g.format
  BY <1>3 DEF Grows
<1>5. \A i \in 1 .. l : g.maps[i] = m.maps[i]
  BY <1>3 DEF Grows
<1>6. MapOk(MapName("global", g.format), g.maps[1]) /\ g.maps # <<>>
  <2>1. 1 \in 1 .. l
    BY <1>4
  <2>2. g.maps[1] = m.maps[1]
    BY <1>5, <2>1
  <2>3. MapOk(MapName("global", m.format), m.maps[1])
    BY DEF WellFormed
  <2>4. g.maps # <<>>
    BY <1>3, <1>4
  <2>. QED  BY <1>4, <2>2, <2>3, <2>4
<1>7. ASSUME NEW i \in 2 .. 1 + n PROVE MapOk(MapName("input", g.format), g.maps[i])
  <2>1. i \in 1 .. l
    BY <1>1, <1>3
  <2>2. MapOk(MapName("input", m.format), m.maps[i])
    BY <1>1 DEF WellFormed
  <2>. QED  BY <1>4, <1>5, <2>1, <2>2
<1>8. ASSUME NEW i \in 2 + n .. 1 + n + k PROVE MapOk(MapName("output", g.format), g.maps[i])
  <2>1. i \in 1 .. l
    BY <1>1, <1>3
  <2>2. MapOk(MapName("output", m.format), m.maps[i])
    BY <1>1 DEF WellFormed
  <2>. QED  BY <1>4, <1>5, <2>1, <2>2
<1>9. Len(g.maps) >= 1 + n + k
  BY <1>1, <1>3, <1>4
<1>. QED  BY <1>2, <1>6, <1>7, <1>8, <1>9 DEF WellFormed

LEMMA CompleteIsHonest ==
    ASSUME NEW m \in MessageType, WellFormed(m), Len(m.maps) = 1 + InputCount(m) + OutputCount(m)
    PROVE  Honest(m)
<1>1. ASSUME NEW i \in 1 .. Len(m.maps) PROVE HonestPairs(m.maps[i])
  <2>1. MapOk(NameAt(m, i), m.maps[i])
    BY MapsAreOk
  <2>2. PICK name, pairs : name = NameAt(m, i) /\ pairs = m.maps[i]
    OBVIOUS
  <2>3. \A j \in 1 .. Len(pairs) : PairOk(name, pairs[j])
    BY <2>1, <2>2 DEF MapOk
  <2>4. \A j \in 1 .. Len(pairs) : pairs[j].len = Len(pairs[j].value)
    BY <2>3 DEF PairOk
  <2>. QED  BY <2>2, <2>4 DEF HonestPairs
<1>2. Len(m.magic) = 4
  BY DEF WellFormed, PSBT_MAGIC
<1>. QED  BY <1>1, <1>2 DEF Honest

LEMMA PartStands ==
    ASSUME NEW a \in Seq(Nat), NEW b \in Seq(Nat), NEW c \in Seq(Nat),
           NEW s \in Seq(Nat), s = (a \o b) \o c
    PROVE  Stands(a, s, 0) /\ Stands(b, s, Len(a))
<1>1. PICK front \in Seq(Nat) : front = a \o b
  BY Concat
<1>2. Stands(front \o c, s, 0)
  BY <1>1 DEF Stands
<1>3. Stands(front, s, 0)
  <2>1. 0 \in Nat
    OBVIOUS
  <2>. QED  BY <1>2, <2>1, StandsOfParts
<1>4. Stands(a \o b, s, 0)
  BY <1>1, <1>3
<1>5. Stands(a, s, 0) /\ Stands(b, s, 0 + Len(a))
  <2>1. 0 \in Nat
    OBVIOUS
  <2>. QED  BY <1>4, <2>1, StandsOfParts
<1>. QED  BY <1>5

\* Magic and separator are read as what they are.
LEMMA SameHead ==
    ASSUME NEW m \in MessageType, WellFormed(m), NEW g \in MessageType, Len(g.magic) = 4,
           Stands(Bytes(m), Bytes(g), 0)
    PROVE  g.magic = PSBT_MAGIC /\ g.separator = PSBT_SEPARATOR
<1>1. PICK s \in Seq(Nat), t \in Seq(Nat) : s = Bytes(g) /\ t = Bytes(m)
  BY BytesType
<1>2. m.magic = PSBT_MAGIC /\ m.separator = PSBT_SEPARATOR
  BY DEF WellFormed
<1>3. Stands(PSBT_MAGIC, t, 0) /\ Stands(<<PSBT_SEPARATOR>>, t, 4)
  BY <1>1, <1>2, HeadStands
<1>4. Stands(PSBT_MAGIC, s, 0) /\ Stands(<<PSBT_SEPARATOR>>, s, 4)
  <2>1. Stands(t, s, 0) /\ 0 \in Nat /\ 4 \in Nat
    BY <1>1
  <2>2. Stands(PSBT_MAGIC, s, 0 + 0)
    BY <1>3, <2>1, MagicType, StandsWithin
  <2>3. Stands(<<PSBT_SEPARATOR>>, s, 0 + 4)
    BY <1>3, <2>1, MagicType, StandsWithin
  <2>. QED  BY <2>2, <2>3
<1>5. PICK a \in Seq(Nat), x \in Nat : a = g.magic /\ x = g.separator
  BY DEF MessageType
<1>6. PICK b \in Seq(Nat) : b = <<x>>
  <2>1. <<x>> \in Seq(Nat)
    OBVIOUS
  <2>. QED  BY <2>1
<1>7. PICK c \in Seq(Nat) : s = (a \o b) \o c
  BY <1>1, <1>5, <1>6, BytesType
<1>8. Stands(a, s, 0) /\ Stands(b, s, 4)
  <2>1. Stands(a, s, 0) /\ Stands(b, s, Len(a))
    BY <1>7, PartStands
  <2>. QED  BY <1>5, <2>1
<1>9. a = PSBT_MAGIC
  <2>1. Len(PSBT_MAGIC) = 4 /\ Len(a) = 4
    BY <1>5 DEF PSBT_MAGIC
  <2>2. 0 \in Nat
    OBVIOUS
  <2>. QED  BY <1>4, <1>8, <2>1, <2>2, MagicType, StandSame
<1>10. b = <<PSBT_SEPARATOR>>
  <2>1. Len(<<PSBT_SEPARATOR>>) = 1 /\ Len(b) = 1
    BY <1>6
  <2>2. 4 \in Nat
    OBVIOUS
  <2>. QED  BY <1>4, <1>8, <2>1, <2>2, MagicType, StandSame
<1>11. x = PSBT_SEPARATOR
  <2>1. b[1] = x
    BY <1>6
  <2>2. b[1] = PSBT_SEPARATOR
    BY <1>10
  <2>. QED  BY <2>1, <2>2
<1>. QED  BY <1>5, <1>9, <1>11

\* If the bytes of a message that does not lie start with those of one that is well
\* formed and complete, the message is well formed.
LEMMA StartsWellFormed ==
    ASSUME NEW m \in MessageType, WellFormed(m), Len(m.maps) = 1 + InputCount(m) + OutputCount(m),
           NEW g \in MessageType, Honest(g), g.format = m.format, Stands(Bytes(m), Bytes(g), 0)
    PROVE  WellFormed(g)
<1>1. g.magic = PSBT_MAGIC /\ g.separator = PSBT_SEPARATOR
  BY SameHead DEF Honest
<1>2. Starts(m, g)
  BY <1>1 DEF Starts, WellFormed
<1>3. Len(m.maps) <= Len(g.maps) /\ \A i \in 1 .. Len(m.maps) : m.maps[i] = g.maps[i]
  BY <1>2, CompleteIsHonest, StartsIsFirst
<1>4. Grows(m, g)
  <2>1. PICK l \in Nat : l = Len(m.maps)
    BY MapsCounted
  <2>2. m.maps # <<>> /\ m.maps \in Seq(Seq(PairType))
    BY DEF WellFormed, MessageType
  <2>3. Len(m.maps) >= 1
    BY <2>2
  <2>. QED  BY <1>3, <2>3 DEF Grows
<1>. QED  BY <1>1, <1>4, MoreIsWellFormed

-----------------------------------------------------------------------------
(* The encoders do not lie                                                  *)

LEMMA EncodeMapHonest ==
    ASSUME NEW map \in MapNames, NEW entries, EntriesTyped(entries), NEW pairs, pairs = EncodeMap(map, entries)
    PROVE  HonestPairs(pairs)
<1>1. ASSUME NEW p \in 1 .. Len(pairs) PROVE pairs[p].len = Len(pairs[p].value)
  <2>1. PICK e : WrittenAs(map, entries, pairs, p, e)
    BY PairsAreEntries
  <2>2. pairs[p] = EncodePair(e)
    BY <2>1 DEF WrittenAs
  <2>. QED  BY <2>2 DEF EncodePair
<1>. QED  BY <1>1 DEF HonestPairs

HonestMaps(maps) == \A i \in 1 .. Len(maps) : HonestPairs(maps[i])

LEMMA MapsOfHonest ==
    ASSUME NEW maps, NEW front, NEW n \in Nat, NEW ins, NEW k \in Nat, NEW outs,
           MapsOf(maps, front, ins, n, outs, k), HonestPairs(front),
           \A i \in 1 .. n : HonestPairs(ins[i]), \A i \in 1 .. k : HonestPairs(outs[i])
    PROVE  HonestMaps(maps)
<1>1. /\ Len(maps) = 1 + n + k /\ maps[1] = front
      /\ \A i \in 1 .. n : maps[1 + i] = ins[i]
      /\ \A i \in 1 .. k : maps[1 + n + i] = outs[i]
  BY DEF MapsOf
<1>2. ASSUME NEW i \in 1 .. 1 + n + k PROVE HonestPairs(maps[i])
  <2>1. CASE i = 1
    BY <1>1, <2>1
  <2>2. CASE i \in 2 .. 1 + n
    <3>1. PICK j \in 1 .. n : i = 1 + j
      <4>1. i - 1 \in 1 .. n /\ i = 1 + (i - 1)
        BY <2>2
      <4>. QED  BY <4>1
    <3>. QED  BY <1>1, <3>1
  <2>3. CASE i \in 2 + n .. 1 + n + k
    <3>1. PICK j \in 1 .. k : i = 1 + n + j
      <4>1. i - (1 + n) \in 1 .. k /\ i = 1 + n + (i - (1 + n))
        BY <2>3
      <4>. QED  BY <4>1
    <3>. QED  BY <1>1, <3>1
  <2>. QED  BY <2>1, <2>2, <2>3
<1>. QED  BY <1>1, <1>2 DEF HonestMaps

LEMMA EncodeHonest ==
    ASSUME NEW psbt, PsbtTyped(psbt), NEW n \in Nat, NEW k \in Nat, GoodPsbt(psbt, n, k),
           NEW target \in {0, 2}
    PROVE  Honest(Encode(psbt, target))
<1>1. PICK m : m = Encode(psbt, target)
  OBVIOUS
<1>2. m.magic = PSBT_MAGIC /\ m.maps = IF target = 2 THEN Encode2(psbt) ELSE Encode0(psbt)
  BY <1>1 DEF Encode
<1>3. EntriesTyped(psbt.global)
  BY DEF PsbtTyped, GlobalTyped
<1>4. \A i \in 1 .. n : EntriesTyped(psbt.inputs[i])
  BY DEF GoodPsbt, GoodInput, Sane
<1>5. \A i \in 1 .. k : EntriesTyped(psbt.outputs[i])
  BY DEF GoodPsbt, GoodOutput, Sane
<1>6. CASE target = 2
  <2>1. PICK maps : maps = Encode2(psbt)
    OBVIOUS
  <2>2. PICK front : front = EncodeMap("global", psbt.global)
    OBVIOUS
  <2>3. PICK ins : ins = [i \in 1 .. n |-> EncodeMap("input", psbt.inputs[i])]
    OBVIOUS
  <2>4. PICK outs : outs = [i \in 1 .. k |-> EncodeOutput(psbt.outputs[i])]
    OBVIOUS
  <2>5. MapsOf(maps, front, ins, n, outs, k)
    <3>1. Encoded2(psbt, n, k, maps)
      BY <2>1, Encoded2Is
    <3>. QED  BY <2>2, <2>3, <2>4, <3>1 DEF Encoded2
  <2>6. HonestPairs(front)
    <3>1. "global" \in MapNames
      BY DEF MapNames
    <3>. QED  BY <1>3, <2>2, <3>1, EncodeMapHonest
  <2>7. ASSUME NEW i \in 1 .. n PROVE HonestPairs(ins[i])
    <3>1. "input" \in MapNames
      BY DEF MapNames
    <3>2. EntriesTyped(psbt.inputs[i]) /\ ins[i] = EncodeMap("input", psbt.inputs[i])
      BY <1>4, <2>3
    <3>. QED  BY <3>1, <3>2, EncodeMapHonest
  <2>8. ASSUME NEW i \in 1 .. k PROVE HonestPairs(outs[i])
    <3>1. PICK entries : entries = psbt.outputs[i]
      OBVIOUS
    <3>2. EntriesTyped(entries) /\ outs[i] = EncodeOutput(entries)
      BY <1>5, <2>4, <3>1
    <3>3. PICK less : less = Without(entries, {"script"})
      OBVIOUS
    <3>4. EntriesTyped(less)
      <4>1. less \in SUBSET entries
        BY <3>3 DEF Without
      <4>. QED  BY <3>2, <4>1, AnyTyped
    <3>5. "output" \in MapNames
      BY DEF MapNames
    <3>6. HonestPairs(EncodeMap("output", entries))
      BY <3>2, <3>5, EncodeMapHonest
    <3>7. HonestPairs(EncodeMap("output", less))
      BY <3>4, <3>5, EncodeMapHonest
    <3>. QED  BY <3>2, <3>3, <3>6, <3>7 DEF EncodeOutput
  <2>9. HonestMaps(maps)
    BY <2>5, <2>6, <2>7, <2>8, MapsOfHonest
  <2>10. m.maps = maps
    BY <1>2, <1>6, <2>1
  <2>. QED  BY <1>1, <1>2, <2>9, <2>10 DEF Honest, HonestMaps, PSBT_MAGIC
<1>7. CASE target = 0
  <2>1. PICK maps, tx : maps = Encode0(psbt) /\ tx = TxOfPsbt(psbt)
    OBVIOUS
  <2>2. PICK front : front = EncodeMap("global0", psbt.global \union {TxEntry(tx)})
    OBVIOUS
  <2>3. PICK ins : ins = [i \in 1 .. n |-> EncodeMap("input0", psbt.inputs[i])]
    OBVIOUS
  <2>4. PICK outs : outs = [i \in 1 .. k |-> EncodeMap("output0", psbt.outputs[i])]
    OBVIOUS
  <2>5. MapsOf(maps, front, ins, n, outs, k)
    <3>1. Encoded0(psbt, tx, n, k, maps)
      BY <2>1, Encoded0Is
    <3>. QED  BY <2>2, <2>3, <2>4, <3>1 DEF Encoded0
  <2>6. HonestPairs(front)
    <3>1. "global0" \in MapNames
      BY DEF MapNames
    <3>2. TxFine(tx, n, k)
      BY <2>1, TxOfGood
    <3>3. PICK u : u = TxEntry(tx)
      OBVIOUS
    <3>4. EntryTyped(u)
      BY <3>2, <3>3, TxEntryIs
    <3>5. EntriesTyped(psbt.global \union {u})
      BY <1>3, <3>4, AnyTyped
    <3>. QED  BY <2>2, <3>1, <3>3, <3>5, EncodeMapHonest
  <2>7. ASSUME NEW i \in 1 .. n PROVE HonestPairs(ins[i])
    <3>1. "input0" \in MapNames
      BY DEF MapNames
    <3>2. EntriesTyped(psbt.inputs[i]) /\ ins[i] = EncodeMap("input0", psbt.inputs[i])
      BY <1>4, <2>3
    <3>. QED  BY <3>1, <3>2, EncodeMapHonest
  <2>8. ASSUME NEW i \in 1 .. k PROVE HonestPairs(outs[i])
    <3>1. "output0" \in MapNames
      BY DEF MapNames
    <3>2. EntriesTyped(psbt.outputs[i]) /\ outs[i] = EncodeMap("output0", psbt.outputs[i])
      BY <1>5, <2>4
    <3>. QED  BY <3>1, <3>2, EncodeMapHonest
  <2>9. HonestMaps(maps)
    BY <2>5, <2>6, <2>7, <2>8, MapsOfHonest
  <2>10. m.maps = maps
    BY <1>2, <1>7, <2>1
  <2>. QED  BY <1>1, <1>2, <2>9, <2>10 DEF Honest, HonestMaps, PSBT_MAGIC
<1>. QED  BY <1>6, <1>7
=============================================================================
