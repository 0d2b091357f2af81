------------------------ MODULE MCReportMigration ------------------------
(* One node and one run at a time: a history of new reports only, or one    *)
(* that begins with Old old reports and is migrated at some time.  In the   *)
(* second case the counts are bounded by one.                               *)
EXTENDS ReportMigration

WithOld == \E t \in Times : text[t] # Untold

OldCountsSmall ==
    WithOld => \A n \in Nodes : links[n] <= 1 /\ \A t \in Times : text[t][n] <= 1

\* The runs under way, and the reports left, for which a report could not be loaded: one
\* in a history of new reports, none beside a migration.
Partial == {r \in Runs : missed[r] # {}} \cup {t \in Times : unread[t] # {}}

PartialFew == Cardinality(Partial) <= IF WithOld THEN 0 ELSE 1

Small == OldCountsSmall /\ PartialFew
==========================================================================
