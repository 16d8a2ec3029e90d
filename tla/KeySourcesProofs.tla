--------------------------- MODULE KeySourcesProofs ---------------------------
(***************************************************************************)
(* The merge of key sources keeps a source that all the others end in, and *)
(* fails only for paths that disagree, for any paths and number of merges.  *)
(* Paths are compared from their ends, so everything rests on three facts   *)
(* about suffixes: every path ends in itself, endings of an ending are      *)
(* endings, and an ending is not longer than the path, nor as long and      *)
(* different.                                                               *)
(***************************************************************************)
EXTENDS KeySources, TLAPS

-----------------------------------------------------------------------------
(* Suffixes                                                                 *)

\* A path ends in another if they agree step by step, counted from the end
\* (IsSuffix, which compares the reversed sequences).
LEMMA SuffixFromEnd ==
    ASSUME NEW C, NEW s \in Seq(C), NEW t \in Seq(C)
    PROVE  IsSuffix(s, t) <=>
               /\ Len(s) <= Len(t)
               /\ \A i \in 1 .. Len(s) : s[(Len(s) - i) + 1] = t[(Len(t) - i) + 1]
<1>. DEFINE r == Reverse(s)
            q == Reverse(t)
<1>1. /\ r \in Seq(C) /\ Len(r) = Len(s)
      /\ \A i \in 1 .. Len(s) : r[i] = s[(Len(s) - i) + 1]
  BY DEF Reverse
<1>2. /\ q \in Seq(C) /\ Len(q) = Len(t)
      /\ \A i \in 1 .. Len(t) : q[i] = t[(Len(t) - i) + 1]
  BY DEF Reverse
<1>3. IsSuffix(s, t) <=> Len(r) <= Len(q) /\ SubSeq(r, 1, Len(r)) = SubSeq(q, 1, Len(r))
  BY DEF IsSuffix, IsPrefix
<1>. HIDE DEF r, q
<1>4. CASE Len(s) <= Len(t)
  <2>1. /\ SubSeq(r, 1, Len(r)) = [i \in 1 .. Len(s) |-> r[i]]
        /\ SubSeq(q, 1, Len(r)) = [i \in 1 .. Len(s) |-> q[i]]
    BY <1>1, <1>2, <1>4
  <2>2. SubSeq(r, 1, Len(r)) = SubSeq(q, 1, Len(r)) <=> \A i \in 1 .. Len(s) : r[i] = q[i]
    BY <2>1
  <2>3. ASSUME NEW i \in 1 .. Len(s)
        PROVE  r[i] = s[(Len(s) - i) + 1] /\ q[i] = t[(Len(t) - i) + 1]
    BY <1>1, <1>2, <1>4
  <2>4. IsSuffix(s, t) <=> \A i \in 1 .. Len(s) : r[i] = q[i]
    BY <1>1, <1>2, <1>3, <1>4, <2>2
  <2>. QED  BY <1>4, <2>3, <2>4
<1>5. CASE ~(Len(s) <= Len(t))
  BY <1>1, <1>2, <1>3, <1>5
<1>. QED  BY <1>4, <1>5

\* Paths, whatever the bound on their length, are sequences.
LEMMA PathsAreSeqs == Paths \subseteq Seq(ChildNumbers)
  BY DEF Paths, BoundedSeq, SeqOf

\* Every path ends in itself.
LEMMA SuffixReflexive ==
    ASSUME NEW s \in Paths
    PROVE  IsSuffix(s, s)
BY PathsAreSeqs, SuffixFromEnd

\* The ending of an ending is an ending.
LEMMA SuffixTransitive ==
    ASSUME NEW s \in Paths, NEW t \in Paths, NEW u \in Paths,
           IsSuffix(s, t), IsSuffix(t, u)
    PROVE  IsSuffix(s, u)
<1>1. /\ s \in Seq(ChildNumbers) /\ t \in Seq(ChildNumbers) /\ u \in Seq(ChildNumbers)
      /\ Len(s) \in Nat /\ Len(t) \in Nat /\ Len(u) \in Nat
  BY PathsAreSeqs
<1>2. /\ Len(s) <= Len(t)
      /\ \A i \in 1 .. Len(s) : s[(Len(s) - i) + 1] = t[(Len(t) - i) + 1]
  BY <1>1, SuffixFromEnd
<1>3. /\ Len(t) <= Len(u)
      /\ \A i \in 1 .. Len(t) : t[(Len(t) - i) + 1] = u[(Len(u) - i) + 1]
  BY <1>1, SuffixFromEnd
<1>4. ASSUME NEW i \in 1 .. Len(s)
      PROVE  s[(Len(s) - i) + 1] = u[(Len(u) - i) + 1]
  BY <1>1, <1>2, <1>3
<1>. QED  BY <1>1, <1>2, <1>3, <1>4, SuffixFromEnd

\* An ending is shorter than the path, or it is the path.
LEMMA SuffixLength ==
    ASSUME NEW s \in Paths, NEW t \in Paths, IsSuffix(s, t)
    PROVE  /\ Len(s) <= Len(t)
           /\ Len(s) = Len(t) => s = t
<1>1. /\ s \in Seq(ChildNumbers) /\ t \in Seq(ChildNumbers)
      /\ Len(s) \in Nat /\ Len(t) \in Nat
  BY PathsAreSeqs
<1>2. /\ Len(s) <= Len(t)
      /\ \A i \in 1 .. Len(s) : s[(Len(s) - i) + 1] = t[(Len(t) - i) + 1]
  BY <1>1, SuffixFromEnd
<1>3. ASSUME Len(s) = Len(t), NEW j \in 1 .. Len(s)
      PROVE  s[j] = t[j]
  <2>. DEFINE i == (Len(s) - j) + 1
  <2>1. i \in 1 .. Len(s) /\ (Len(s) - i) + 1 = j
    BY <1>1
  <2>. QED  BY <1>2, <1>3, <2>1
<1>4. Len(s) = Len(t) => s = t
  BY <1>1, <1>3
<1>. QED  BY <1>2, <1>4

-----------------------------------------------------------------------------
(* The merge                                                                *)

\* Inductive: the entry is one of the sources that were merged and, until combine
\* fails, they all end it; a failure leaves two that disagree.
IInv ==
    /\ entry \in Sources /\ merged \subseteq Sources
    /\ entry \in merged
    /\ status = "ok" => \A s \in merged : IsSuffix(s.path, entry.path)
    /\ status # "ok" => \E s, t \in merged : PathsDisagree(s, t)

LEMMA PathOfSource == ASSUME NEW s \in Sources PROVE s.path \in Paths
  BY DEF Sources

LEMMA InitIInv == Init => IInv
<1>. SUFFICES ASSUME Init PROVE IInv
  OBVIOUS
<1>1. IsSuffix(entry.path, entry.path)
  BY PathOfSource, SuffixReflexive DEF Init
<1>. QED  BY <1>1 DEF Init, IInv

\* What is merged and neither kept nor put in the place of the entry disagrees with
\* it: a path no longer than that of the entry that is no ending of it, or one as
\* long or longer that does not end in it.
LEMMA RefusedDisagrees ==
    ASSUME NEW theirs \in Sources, NEW ours \in Sources,
           ~Keeps(theirs, ours), ~Replaces(theirs, ours)
    PROVE  PathsDisagree(theirs, ours)
<1>1. theirs.path \in Paths /\ ours.path \in Paths
  BY PathOfSource
<1>2. Len(theirs.path) \in Nat /\ Len(ours.path) \in Nat
  BY <1>1, PathsAreSeqs
<1>3. CASE Len(theirs.path) < Len(ours.path)
  <2>1. ~IsSuffix(theirs.path, ours.path)
    BY <1>3 DEF Keeps, EndsWith
  <2>2. ~IsSuffix(ours.path, theirs.path)
    BY <1>1, <1>2, <1>3, SuffixLength
  <2>. QED  BY <2>1, <2>2 DEF PathsDisagree
<1>4. CASE ~(Len(theirs.path) < Len(ours.path))
  <2>1. ~IsSuffix(ours.path, theirs.path)
    BY <1>4 DEF Replaces, Underflows, EndsWith
  <2>2. ~IsSuffix(theirs.path, ours.path)
    <3>1. SUFFICES ASSUME IsSuffix(theirs.path, ours.path) PROVE FALSE
      OBVIOUS
    <3>2. theirs.path = ours.path
      BY <1>1, <1>2, <1>4, <3>1, SuffixLength
    <3>. QED  BY <2>1, <3>1, <3>2
  <2>. QED  BY <2>1, <2>2 DEF PathsDisagree
<1>. QED  BY <1>3, <1>4

LEMMA NextIInv == IInv /\ [Next]_vars => IInv'
<1>. SUFFICES ASSUME IInv, [Next]_vars PROVE IInv'
  OBVIOUS
<1>1. ASSUME NEW theirs \in Sources, Merge(theirs)
      PROVE  IInv'
  <2>1. /\ status = "ok" /\ entry \in Sources /\ entry \in merged
        /\ merged \subseteq Sources /\ merged' = merged \cup {theirs}
        /\ \A s \in merged : IsSuffix(s.path, entry.path)
    BY <1>1 DEF IInv, Merge
  <2>2. theirs.path \in Paths /\ entry.path \in Paths
    BY <2>1, PathOfSource
  <2>3. CASE Keeps(theirs, entry) /\ UNCHANGED <<entry, status>>
    <3>1. IsSuffix(theirs.path, entry.path)
      BY <2>2, <2>3, SuffixReflexive DEF Keeps, EndsWith
    <3>. QED  BY <2>1, <2>3, <3>1 DEF IInv
  <2>4. CASE Replaces(theirs, entry) /\ entry' = theirs /\ UNCHANGED status
    <3>1. IsSuffix(entry.path, theirs.path) /\ IsSuffix(theirs.path, theirs.path)
      BY <2>2, <2>4, SuffixReflexive DEF Replaces, EndsWith
    <3>2. ASSUME NEW s \in merged
          PROVE  IsSuffix(s.path, theirs.path)
      BY <2>1, <2>2, <3>1, PathOfSource, SuffixTransitive
    <3>. QED  BY <2>1, <2>4, <3>1, <3>2 DEF IInv
  <2>5. CASE ~Keeps(theirs, entry) /\ ~Replaces(theirs, entry)
             /\ status' \in {"panic", "error"} /\ UNCHANGED entry
    <3>1. PathsDisagree(theirs, entry)
      BY <2>1, <2>5, RefusedDisagrees
    <3>. QED  BY <2>1, <2>5, <3>1 DEF IInv
  <2>. QED  BY <1>1, <2>3, <2>4, <2>5 DEF Merge, Underflows, Replaces
<1>2. CASE UNCHANGED vars
  BY <1>2 DEF vars, IInv
<1>. QED  BY <1>1, <1>2 DEF Next

THEOREM Invariance == Spec => []IInv
BY InitIInv, NextIInv, PTL DEF Spec

\* Whatever is merged in whatever order, every path merged ends the one that is
\* kept, for paths of any length (Global::combine).
THEOREM LongestPathAlwaysKept == Spec => []LongestPathKept
<1>1. IInv => LongestPathKept
  BY DEF IInv, LongestPathKept
<1>. QED  BY <1>1, Invariance, PTL

\* combine fails only for paths that disagree.
THEOREM AlwaysFailsOnlyOnConflict == Spec => []FailsOnlyOnConflict
<1>1. IInv => FailsOnlyOnConflict
  BY DEF IInv, FailsOnlyOnConflict
<1>. QED  BY <1>1, Invariance, PTL

=============================================================================
