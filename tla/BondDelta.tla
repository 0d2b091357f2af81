---------------------------- MODULE BondDelta ----------------------------
(* The judgement of the hw_bond item of one node: what is read from         *)
(* /proc/net/bonding, the level parseBond gives it, and the correction      *)
(* applyBondDelta makes against the two most recent recorded reports.       *)
EXTENDS Severity

\* No link_failure_total in the finding's metrics: the node was not reached,
\* has no bond, or has no hw_bond finding in the report at all.
NoMetric == -1

Totals == Nat \cup {NoMetric}

\* A hw_bond finding, reduced to what the comparison reads and writes.
Finding == [level : Level, total : Totals]

\* Outcomes of one hw_bond collection on a node.
Outcome == {"unreachable", "no_bonds", "mii_down", "mii_up"}

\* hwBond.Inspect followed by parseBond, on a node whose bonds have counted
\* `links' link failures since it booted.
parseBond(outcome, links) ==
    CASE outcome = "unreachable" -> [level |-> LevelUnknown,  total |-> NoMetric]
      [] outcome = "no_bonds"    -> [level |-> LevelOK,       total |-> NoMetric]
      [] outcome = "mii_down"    -> [level |-> LevelCritical, total |-> links]
      [] outcome = "mii_up"      -> [level |-> IF links > 0 THEN LevelWarn ELSE LevelOK,
                                     total |-> links]

\* The finding grew over one of the windows that have a baseline.
recentInc(cur, base1) == base1 # NoMetric /\ cur > base1
windowInc(cur, base2) == base2 # NoMetric /\ cur > base2

\* Mutant of applyBondDelta: a window without a baseline taken for one that shows no growth: a first
\* reading is then quiet.
applyBondDeltaNoFirst(f, base1, base2) ==
    IF /\ f.level = LevelWarn
       /\ f.total # NoMetric
       /\ ~recentInc(f.total, base1)
       /\ ~windowInc(f.total, base2)
    THEN [f EXCEPT !.level = LevelOK]
    ELSE f

\* Mutant of applyBondDelta: only the report before the last is compared, when there is one.
applyBondDeltaOldWindow(f, base1, base2) ==
    IF /\ f.level = LevelWarn
       /\ f.total # NoMetric
       /\ base1 # NoMetric \/ base2 # NoMetric
       /\ IF base2 # NoMetric THEN ~windowInc(f.total, base2)
                              ELSE ~recentInc(f.total, base1)
    THEN [f EXCEPT !.level = LevelOK]
    ELSE f

\* A Warn is kept when there is no baseline at all or the total grew over
\* either baseline, and lowered to OK otherwise.  Other levels are left alone.
applyBondDelta(f, base1, base2) ==
    IF /\ f.level = LevelWarn
       /\ f.total # NoMetric
       /\ base1 # NoMetric \/ base2 # NoMetric
       /\ ~recentInc(f.total, base1)
       /\ ~windowInc(f.total, base2)
    THEN [f EXCEPT !.level = LevelOK]
    ELSE f
==========================================================================
