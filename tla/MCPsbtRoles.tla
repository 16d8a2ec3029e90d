------------------------------ MODULE MCPsbtRoles ------------------------------
(***************************************************************************)
(* Small instances of PsbtRoles: two outpoints, two outputs, one or two     *)
(* keys, one height and one time.                                           *)
(***************************************************************************)
EXTENDS PsbtRoles, TLC

CONSTANTS k1, o1, o2, a1, a2

ST(base, acp) == [base |-> base, acp |-> acp]
Lock(t, h) == [minTime |-> t, minHeight |-> h]
Spending(keys, after) == [keys |-> keys, after |-> after]

MCSighashTypes ==
    { ST("ALL", FALSE), ST("NONE", TRUE), ST("SINGLE", TRUE), ST("ALL", TRUE),
      ST("NONE", FALSE) }
MCSighashAll == ST("ALL", FALSE)
MCSpendings == [o \in OutPoints |-> {Spending({k1}, 0)}]

MCTimesTypes == { ST("ALL", FALSE), ST("ALL", TRUE) }
MCTimesSighashes == {ST("ALL", TRUE)}

\* For InterpreterCheck: o1 can be spent from height 1 on.
MCAfterSpendings ==
    [o \in OutPoints |-> {Spending({k1}, IF o = o1 THEN 1 ELSE 0)}]
MCBothLocks == {Lock(2, 1), Lock(2, 0)}

MCSymmetry == Permutations({o1, o2}) \cup Permutations({a1, a2})

\* What an Updater may ask for: between them they leave either side open, and
\* an input of which nothing is asked is signed with ALL.
MCSighashes == { ST("SINGLE", TRUE), ST("NONE", FALSE) }
MCAllFlags == SUBSET ModifiableFlags
MCNoFlags == {{}}

MCLocks == {Lock(0, 0), Lock(0, 1), Lock(2, 0), Lock(2, 1)}

=============================================================================
