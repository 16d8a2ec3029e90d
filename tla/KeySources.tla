------------------------------ MODULE KeySources ------------------------------
(***************************************************************************)
(* How Global::combine merges PSBT_GLOBAL_XPUB: the key source (master      *)
(* fingerprint and derivation path) of one xpub, over the PSBTs that are    *)
(* combined into one after the other.  Not every source fits what is there: *)
(* the merge fails, or its subtraction of lengths wraps below zero and the  *)
(* slice index panics (with overflow checks, the subtraction itself does).  *)
(***************************************************************************)
EXTENDS Integers, Sequences, SequencesExt

CONSTANTS Fingerprints, ChildNumbers, MaxPath

Paths   == BoundedSeq(ChildNumbers, MaxPath)
Sources == [fingerprint : Fingerprints, path : Paths]

VARIABLES
    entry,      \* the key source in the combined PSBT
    merged,     \* those of all the PSBTs that went into it
    status      \* "ok", or how combine ended: "error" or "panic"
vars == <<entry, merged, status>>

Init ==
    /\ entry \in Sources
    /\ merged = {entry}
    /\ status = "ok"

\* A slip: paths compared from the master key on.
StartsWith(long, short) == IsPrefix(short, long)

\* long[long.len() - short.len()..] == short
EndsWith(long, short) == IsSuffix(short, long)

\* The entry stays: the same source, or a path shorter than that of the entry.
Keeps(theirs, ours) ==
    \/ theirs = ours
    \/ Len(theirs.path) < Len(ours.path) /\ EndsWith(ours.path, theirs.path)

\* derivation1.len() - derivation2.len() is negative.
Underflows(theirs, ours) == ~Keeps(theirs, ours) /\ Len(theirs.path) < Len(ours.path)

Replaces(theirs, ours) ==
    ~Keeps(theirs, ours) /\ ~Underflows(theirs, ours) /\ EndsWith(theirs.path, ours.path)

\* One PSBT combined, with this source for the xpub.
Merge(theirs) ==
    /\ status = "ok"
    /\ merged' = merged \cup {theirs}
    /\ \/ Keeps(theirs, entry) /\ UNCHANGED <<entry, status>>
       \/ Replaces(theirs, entry) /\ entry' = theirs /\ UNCHANGED status
       \/ Underflows(theirs, entry) /\ status' = "panic" /\ UNCHANGED entry
       \/ /\ ~Keeps(theirs, entry) /\ ~Replaces(theirs, entry) /\ ~Underflows(theirs, entry)
          /\ status' = "error"
          /\ UNCHANGED entry

Next == \E theirs \in Sources : Merge(theirs)

Spec == Init /\ [][Next]_vars

-----------------------------------------------------------------------------
(* Properties.                                                              *)

(***************************************************************************)
(* Whatever was merged in whatever order, the source kept is one of those   *)
(* merged, and the path of each of them is where its path ends: no xpub     *)
(* ends up below a derivation that one of the PSBTs contradicts.            *)
(***************************************************************************)
LongestPathKept ==
    status = "ok" => /\ entry \in merged
                     /\ \A s \in merged : IsSuffix(s.path, entry.path)

\* Neither path is where the other ends.
PathsDisagree(s, t) == ~IsSuffix(s.path, t.path) /\ ~IsSuffix(t.path, s.path)

(***************************************************************************)
(* The merge rejects a set of sources only when no source in it could stand *)
(* for all: a failure means that two paths disagree, never an unlucky order.*)
(***************************************************************************)
FailsOnlyOnConflict == status # "ok" => \E s, t \in merged : PathsDisagree(s, t)

\* Comment in Global::combine: in case of conflict "report an error if derivation
\* paths are equal and fingerprints are not", if they "are of the same length,
\* but not equal", or if "the shorter one is not the strict suffix".
Conflict(s, t) ==
    \/ s.path = t.path /\ s.fingerprint # t.fingerprint
    \/ PathsDisagree(s, t)

ConflictsReported == (\E s, t \in merged : Conflict(s, t)) => status = "error"

=============================================================================
