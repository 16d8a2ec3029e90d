---------------------------- MODULE LockTimeProofs ----------------------------
(***************************************************************************)
(* Theorems about the lock time a PSBT gets, for every number of inputs and *)
(* every value of their lock fields.                                        *)
(***************************************************************************)
EXTENDS LockTime, WellFoundedInduction, TLAPS

(***************************************************************************)
(* A non-empty set of lock times has a largest element, and Max returns it. *)
(* (Well-foundedness of < on the distances to MaxLockTime.)                 *)
(***************************************************************************)
LEMMA MaxOfLocks ==
    ASSUME NEW S \in SUBSET LockTimes, S # {}
    PROVE  /\ Max(S) \in S
           /\ \A x \in S : x <= Max(S)
<1>. DEFINE D == {MaxLockTime - x : x \in S}
<1>0. \A x \in S : x \in Nat /\ x <= MaxLockTime
  BY LockTimeAssumption DEF LockTimes
<1>1. D \subseteq Nat /\ D # {}
  <2>1. \A x \in S : MaxLockTime - x \in Nat
    BY <1>0, LockTimeAssumption
  <2>. QED  BY <2>1
<1>2. \E d \in D : \A e \in D : ~(<<e, d>> \in OpToRel(<, Nat))
  <2>. HIDE DEF D
  <2>. QED  BY <1>1, NatLessThanWellFounded, WFMin
<1>3. PICK d \in D : \A e \in D : ~(e < d)
  <2>. HIDE DEF D
  <2>1. \A e, d \in Nat : e < d => <<e, d>> \in OpToRel(<, Nat)
    BY DEF OpToRel
  <2>. QED  BY <1>1, <1>2, <2>1
<1>4. PICK m \in S : d = MaxLockTime - m
  OBVIOUS
<1>5. \A x \in S : m >= x
  <2>. TAKE x \in S
  <2>1. MaxLockTime - x \in D
    OBVIOUS
  <2>2. ~(MaxLockTime - x < MaxLockTime - m)
    <3>. HIDE DEF D
    <3>. QED  BY <2>1, <1>3, <1>4
  <2>. QED  BY <2>2, <1>0, LockTimeAssumption
<1>6. Max(S) \in S /\ \A x \in S : Max(S) >= x
  BY <1>5 DEF Max
<1>. QED  BY <1>6, <1>0

-----------------------------------------------------------------------------

\* The two sets determine_lock_time takes a maximum of are sets of lock times.
LEMMA LockFieldSets ==
    ASSUME NEW ins, LockFieldsOk(ins)
    PROVE  /\ {ins[i].minHeight : i \in DOMAIN ins} \in SUBSET LockTimes
           /\ {ins[i].minTime : i \in DOMAIN ins} \in SUBSET LockTimes
<1>1. Heights \cup Times \cup {None} \subseteq LockTimes
  BY LockTimeAssumption DEF Heights, Times, LockTimes, None
<1>. QED  BY <1>1 DEF LockFieldsOk, MinHeights, MinTimes

(***************************************************************************)
(* determine_lock_time always returns a lock time: neither `expect` in it   *)
(* can fail, because the maximum it unwraps is that of a non-empty set.     *)
(***************************************************************************)
THEOREM LockTimeDefined ==
    ASSUME NEW ins, LockFieldsOk(ins), NEW fallback \in LockTimes
    PROVE  DetermineLockTime(ins, fallback) \in LockTimes
<1>1. CASE \A i \in DOMAIN ins : ~HasLockTime(ins[i])
  BY <1>1 DEF DetermineLockTime
<1>2. CASE \E i \in DOMAIN ins : HasLockTime(ins[i])
  <2>1. /\ {ins[i].minHeight : i \in DOMAIN ins} # {}
        /\ {ins[i].minTime : i \in DOMAIN ins} # {}
    BY <1>2
  <2>2. /\ Max({ins[i].minHeight : i \in DOMAIN ins}) \in LockTimes
        /\ Max({ins[i].minTime : i \in DOMAIN ins}) \in LockTimes
    BY <2>1, LockFieldSets, MaxOfLocks
  <2>. QED  BY <1>2, <2>2 DEF DetermineLockTime
<1>. QED  BY <1>1, <1>2

(***************************************************************************)
(* The lock time chosen meets the requirement of every input, whatever the  *)
(* number of inputs and the mixture of time and height requirements.        *)
(***************************************************************************)
THEOREM LockTimeSatisfiesInputs ==
    ASSUME NEW ins, LockFieldsOk(ins), NEW fallback \in LockTimes,
           LockTimeDeterminable(ins)
    PROVE  \A i \in DOMAIN ins : Satisfies(DetermineLockTime(ins, fallback), ins[i])
<1>. DEFINE H == {ins[i].minHeight : i \in DOMAIN ins}
            T == {ins[i].minTime : i \in DOMAIN ins}
<1>1. CASE \A i \in DOMAIN ins : ~HasLockTime(ins[i])
  BY <1>1 DEF Satisfies
<1>2. CASE /\ \E i \in DOMAIN ins : HasLockTime(ins[i])
           /\ \A i \in DOMAIN ins : SatisfiedWithHeight(ins[i])
  <2>1. H # {} /\ H \in SUBSET LockTimes
    BY <1>2, LockFieldSets
  <2>2. Max(H) \in H /\ \A x \in H : x <= Max(H)
    <3>. HIDE DEF H
    <3>. QED  BY <2>1, MaxOfLocks
  <2>3. DetermineLockTime(ins, fallback) = Max(H)
    BY <1>2 DEF DetermineLockTime
  <2>4. IsHeight(Max(H))
    BY <2>2, LockTimeAssumption DEF LockFieldsOk, MinHeights, Heights, None, IsHeight
  <2>5. \A i \in DOMAIN ins : ins[i].minHeight <= Max(H)
    BY <2>2
  <2>. QED
    <3>. HIDE DEF H
    <3>. QED  BY <1>2, <2>3, <2>4, <2>5
              DEF Satisfies, HasLockTime, SatisfiedWithHeight, RequiresHeight
<1>3. CASE \E i \in DOMAIN ins : ~SatisfiedWithHeight(ins[i])
  <2>1. PICK k \in DOMAIN ins : RequiresTime(ins[k])
    BY <1>3 DEF SatisfiedWithHeight, RequiresHeight, RequiresTime
  <2>2. T # {} /\ T \in SUBSET LockTimes
    BY <2>1, LockFieldSets
  <2>3. Max(T) \in T /\ \A x \in T : x <= Max(T)
    <3>. HIDE DEF T
    <3>. QED  BY <2>2, MaxOfLocks
  <2>4. \A i \in DOMAIN ins : ins[i].minTime <= Max(T)
    BY <2>3
  <2>5. ~IsHeight(Max(T))
    <3>. HIDE DEF T
    <3>1. ins[k].minTime \in Times
      BY <2>1 DEF LockFieldsOk, MinTimes, RequiresTime
    <3>2. Max(T) \in LockTimes
      BY <2>2, <2>3
    <3>. QED  BY <2>4, <3>1, <3>2, LockTimeAssumption DEF Times, LockTimes, IsHeight
  <2>6. DetermineLockTime(ins, fallback) = Max(T)
    BY <1>3, <2>1 DEF DetermineLockTime, RequiresTime, HasLockTime
  <2>7. \A i \in DOMAIN ins : HasLockTime(ins[i]) => ins[i].minTime # None
    BY <2>1 DEF LockTimeDeterminable, HasLockTime, RequiresHeight
  <2>. QED
    <3>. HIDE DEF T
    <3>. QED  BY <2>4, <2>5, <2>6, <2>7 DEF Satisfies
<1>. QED  BY <1>1, <1>2, <1>3

(***************************************************************************)
(* determine_lock_time fails exactly when no lock time at all would meet    *)
(* the requirements of every input: a PSBT is never refused needlessly.     *)
(***************************************************************************)
THEOREM ConflictIffUnsatisfiable ==
    ASSUME NEW ins, LockFieldsOk(ins), NEW fallback \in LockTimes
    PROVE  LockTimeDeterminable(ins) <=>
             \E lock \in LockTimes : \A i \in DOMAIN ins : Satisfies(lock, ins[i])
<1>1. ASSUME LockTimeDeterminable(ins)
      PROVE  \E lock \in LockTimes : \A i \in DOMAIN ins : Satisfies(lock, ins[i])
  BY <1>1, LockTimeDefined, LockTimeSatisfiesInputs
<1>2. ASSUME ~LockTimeDeterminable(ins), NEW lock \in LockTimes,
             \A i \in DOMAIN ins : Satisfies(lock, ins[i])
      PROVE  FALSE
  <2>1. PICK i \in DOMAIN ins, j \in DOMAIN ins :
             RequiresTime(ins[i]) /\ RequiresHeight(ins[j])
    BY <1>2 DEF LockTimeDeterminable
  <2>. QED  BY <1>2, <2>1 DEF Satisfies, HasLockTime, RequiresTime, RequiresHeight
<1>. QED  BY <1>1, <1>2

(***************************************************************************)
(* The choice is the least one, with heights preferred: any height that     *)
(* meets every input shows the chosen lock time is a height no larger, and  *)
(* when the inputs force a time, no smaller time would do.                  *)
(***************************************************************************)
THEOREM LockTimeIsLeast ==
    ASSUME NEW ins, LockFieldsOk(ins), NEW fallback \in LockTimes,
           \E i \in DOMAIN ins : HasLockTime(ins[i]),
           NEW lock \in LockTimes,
           \A i \in DOMAIN ins : Satisfies(lock, ins[i])
    PROVE  /\ DetermineLockTime(ins, fallback) <= lock
           /\ IsHeight(lock) => IsHeight(DetermineLockTime(ins, fallback))
<1>. DEFINE H == {ins[i].minHeight : i \in DOMAIN ins}
            T == {ins[i].minTime : i \in DOMAIN ins}
<1>1. H # {} /\ H \in SUBSET LockTimes /\ T # {} /\ T \in SUBSET LockTimes
  BY LockFieldSets
<1>2. Max(H) \in H /\ Max(T) \in T
  <2>. HIDE DEF H, T
  <2>. QED  BY <1>1, MaxOfLocks
<1>3. PICK h \in DOMAIN ins : Max(H) = ins[h].minHeight
  BY <1>2
<1>4. PICK t \in DOMAIN ins : Max(T) = ins[t].minTime
  BY <1>2
<1>5. /\ ins[h].minHeight \in MinHeights
      /\ ins[t].minTime \in MinTimes
  BY DEF LockFieldsOk
<1>6. CASE \A i \in DOMAIN ins : SatisfiedWithHeight(ins[i])
  <2>1. DetermineLockTime(ins, fallback) = ins[h].minHeight
    BY <1>3, <1>6 DEF DetermineLockTime
  <2>2. IsHeight(ins[h].minHeight)
    BY <1>5, LockTimeAssumption DEF MinHeights, Heights, None, IsHeight
  <2>3. ins[h].minHeight <= lock
    <3>1. CASE IsHeight(lock)
      BY <3>1, <1>5, LockTimeAssumption
         DEF Satisfies, HasLockTime, MinHeights, Heights, None, LockTimes
    <3>2. CASE ~IsHeight(lock)
      BY <3>2, <1>5, LockTimeAssumption DEF MinHeights, Heights, None, IsHeight, LockTimes
    <3>. QED  BY <3>1, <3>2
  <2>. QED  BY <2>1, <2>2, <2>3
<1>7. CASE \E i \in DOMAIN ins : ~SatisfiedWithHeight(ins[i])
  <2>1. PICK k \in DOMAIN ins : RequiresTime(ins[k])
    BY <1>7 DEF SatisfiedWithHeight, RequiresHeight, RequiresTime
  <2>2. ~IsHeight(lock)
    BY <2>1 DEF Satisfies, HasLockTime, RequiresTime
  <2>3. DetermineLockTime(ins, fallback) = ins[t].minTime
    BY <1>4, <1>7, <2>1 DEF DetermineLockTime, RequiresTime, HasLockTime
  <2>4. ins[t].minTime <= lock
    BY <2>2, <1>5, LockTimeAssumption
       DEF Satisfies, HasLockTime, MinTimes, Times, None, LockTimes, IsHeight
  <2>. QED  BY <2>2, <2>3, <2>4
<1>. QED  BY <1>6, <1>7

=============================================================================
