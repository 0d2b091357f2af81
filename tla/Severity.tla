---------------------------- MODULE Severity ----------------------------
(* The four levels of a finding and the order in which the inspection       *)
(* compares them.  The numeric values are those of the code: the iota       *)
(* order is not the order of severity.                                      *)
EXTENDS Integers

LevelOK       == 0
LevelWarn     == 1
LevelCritical == 2
LevelUnknown  == 3

Level == LevelOK .. LevelUnknown

\* OK < Unknown < Warn < Critical
rank == [l \in Level |-> CASE l = LevelOK       -> 0
                           [] l = LevelUnknown  -> 1
                           [] l = LevelWarn     -> 2
                           [] l = LevelCritical -> 3]

\* The worst level of a set of findings' levels; LevelOK when there is none.
MaxLevel(levels) ==
    CHOOSE l \in levels \cup {LevelOK} : \A m \in levels : rank[m] <= rank[l]

\* The levels a report shows its reader as something to act on.
Alarm == {LevelWarn, LevelCritical}
==========================================================================
