------------------------------- MODULE LockTime -------------------------------
(***************************************************************************)
(* Absolute lock times of a PSBT: what each input may require, and how      *)
(* Psbt::determine_lock_time derives the nLockTime of the transaction.      *)
(*                                                                         *)
(* A lock time is a number, as on the wire: below Threshold (500,000,000    *)
(* in the code) it is a block height, from Threshold on a Unix time.  The   *)
(* value 0 stands for None in min_time and min_height: the code's types     *)
(* (RequiredHeightLockTime, absolute::Time) exclude 0 there.                *)
(***************************************************************************)
EXTENDS Integers, Sequences, FiniteSetsExt

CONSTANTS Threshold,    \* first Unix time, the LOCK_TIME_THRESHOLD of Bitcoin
          MaxLockTime   \* largest lock time: 2^32 - 1 in the code

ASSUME LockTimeAssumption ==
    /\ Threshold \in Nat
    /\ MaxLockTime \in Nat
    /\ 0 < Threshold
    /\ Threshold <= MaxLockTime

None      == 0
Heights   == 1 .. (Threshold - 1)
Times     == Threshold .. MaxLockTime
LockTimes == 0 .. MaxLockTime

IsHeight(lock) == lock < Threshold

\* The two lock fields of an input map, and of all the maps of a PSBT.
MinTimes   == Times \cup {None}
MinHeights == Heights \cup {None}
LockFieldsOk(ins) ==
    \A i \in DOMAIN ins : ins[i].minTime \in MinTimes /\ ins[i].minHeight \in MinHeights

HasLockTime(in)    == in.minTime # None \/ in.minHeight # None
RequiresTime(in)   == in.minTime # None /\ in.minHeight = None
RequiresHeight(in) == in.minHeight # None /\ in.minTime = None

SatisfiedWithHeight(in) ==
    \/ RequiresHeight(in)
    \/ in.minTime # None /\ in.minHeight # None
    \/ in.minTime = None /\ in.minHeight = None

-----------------------------------------------------------------------------

\* determine_lock_time returns Err(DetermineLockTimeError) when this is FALSE.
LockTimeDeterminable(ins) ==
    ~ /\ \E i \in DOMAIN ins : RequiresTime(ins[i])
      /\ \E i \in DOMAIN ins : RequiresHeight(ins[i])

\* A plausible slip: the unit is chosen from the first input alone.
DetermineLockTimeByFirst(ins, fallback) ==
    IF \A i \in DOMAIN ins : ~HasLockTime(ins[i])
    THEN fallback
    ELSE IF SatisfiedWithHeight(ins[1])
         THEN Max({ins[i].minHeight : i \in DOMAIN ins})
         ELSE Max({ins[i].minTime : i \in DOMAIN ins})

\* The Ok value of determine_lock_time.  In Rust, None < Some(_), so the two
\* `max()` calls over Option fields are maxima with None as 0.
DetermineLockTime(ins, fallback) ==
    IF \A i \in DOMAIN ins : ~HasLockTime(ins[i])
    THEN fallback
    ELSE IF \A i \in DOMAIN ins : SatisfiedWithHeight(ins[i])
         THEN Max({ins[i].minHeight : i \in DOMAIN ins})
         ELSE Max({ins[i].minTime : i \in DOMAIN ins})

\* Input::lock_time, the lock time the interpreter check assumes for an input.
InputLockTime(in) == IF in.minHeight # None THEN in.minHeight ELSE in.minTime

-----------------------------------------------------------------------------
(* The meaning of the fields, independent of how a lock time is chosen.     *)

\* A transaction with this nLockTime meets what the input asks for.
Satisfies(lock, in) ==
    \/ ~HasLockTime(in)
    \/ IsHeight(lock) /\ in.minHeight # None /\ in.minHeight <= lock
    \/ ~IsHeight(lock) /\ in.minTime # None /\ in.minTime <= lock

\* OP_CHECKLOCKTIMEVERIFY: a script asking for `want` runs when `have` is set.
\* 0 asks for nothing.
AfterHolds(want, have) ==
    want # None => (IsHeight(want) <=> IsHeight(have)) /\ want <= have

=============================================================================
