------------------------ MODULE ReportMigration ------------------------
(* inspectctl beside the bot: MigrateStore walks the history, and adds to    *)
(* reports from before link_failure_total the count that their text tells.   *)
(* It is another process: it lists, loads and rewrites with plain file calls *)
(* while a run of the bot does the same, and either may be killed.           *)
EXTENDS InspectionHistory

CONSTANT Old      \* how many reports an earlier version of the bot has left

ASSUME OldAssumption == Old \in Times

VARIABLES
    mpc,        \* where the walk is: "idle", "load", "open", "write" or "done"
    left,       \* the names it has still to look at
    loaded,     \* the report it is about to write, backfilled
    text,       \* per second and node: the count in the summary of an old report
    failed,     \* history: it was killed, or could not read or write a report
    untold,     \* history: the runs that have read the history before a migration was
                \* done with its old reports
    early,      \* history: the seconds of the reports that such runs have started
    missed,     \* history: per run, the reports that it has failed to load
    unread      \* history: per report, the reports that its run has failed to load, and
                \* compared it with another one alone

migration == <<mpc, left, loaded, text, failed>>
history   == <<untold, early, missed, unread>>
allVars   == <<vars, migration, history>>

\* An old hw_bond finding: a count in its text for a Warn and for a bond in order, none
\* for a bond that is down, which stands for the other findings that tell no count.
OldFindings ==
    [level : {LevelWarn}, text : 1 .. MaxTotal]
    \cup {[level |-> LevelOK, text |-> 0], [level |-> LevelCritical, text |-> NoMetric]}

Untold == [n \in Nodes |-> NoMetric]

\* The greatest count that an old report has warned of.
Warned(old, n) ==
    LET counts == {0} \cup {old[t][n].text : t \in {u \in DOMAIN old : old[u][n].level = LevelWarn}}
    IN  CHOOSE k \in counts : \A j \in counts : j <= k

MigrationInit ==
    /\ links \in [Nodes -> 0 .. MaxTotal]
    /\ \E kept \in {0, Old} : \E old \in [0 .. kept - 1 -> [Nodes -> OldFindings]] :
          /\ now   = kept
          /\ files = [t \in Times |->
                IF t < kept THEN [n \in Nodes |-> [level |-> old[t][n].level, total |-> NoMetric]]
                ELSE Absent]
          /\ text  = [t \in Times |-> IF t < kept THEN [n \in Nodes |-> old[t][n].text]
                                      ELSE Untold]
          /\ flagged = [n \in Nodes |-> Warned(old, n)]
    /\ RunsInit
    /\ mpc = "idle" /\ left = {} /\ loaded = NoFindings
    /\ failed = FALSE /\ untold = {} /\ early = {}
    /\ missed = [r \in Runs |-> {}] /\ unread = [t \in Times |-> {}]
--------------------------------------------------------------------------
(* MigrateStore, for the directory of one cluster. *)

\* A name is done with, and the walk goes on.
NextName ==
    /\ mpc' = IF left' = {} THEN "done" ELSE "load"
    /\ loaded' = NoFindings

\* Clusters and List.  Without an old report the walk changes nothing.
MigrateList ==
    /\ mpc = "idle" /\ \E t \in Times : text[t] # Untold
    /\ left' = Listed
    /\ NextName
    /\ UNCHANGED <<vars, text, failed>>

\* backfillBondFinding: a total that is there stays, a count in the text is taken.
MigrateReport(rep, told) ==
    [n \in Nodes |-> IF rep[n].total # NoMetric THEN rep[n] ELSE [rep[n] EXCEPT !.total = told[n]]]

\* Mutant of SkipUnreadable: the first report that cannot be loaded ends the walk.
SkipAll(t) == left' = {}

\* A report that is gone or truncated is noted, and the walk goes on.
SkipUnreadable(t) == left' = left \ {t}

\* The names are walked from the newest to the oldest.
MigrateLoad ==
    /\ mpc = "load"
    /\ LET t == Newest(left) IN
       IF ~Readable(t) THEN SkipUnreadable(t) /\ NextName
       ELSE IF MigrateReport(files[t], text[t]) = files[t] THEN left' = left \ {t} /\ NextName
       ELSE /\ loaded' = MigrateReport(files[t], text[t])
            /\ mpc' = "open"
            /\ UNCHANGED left
    /\ UNCHANGED <<vars, text, failed>>

\* RewriteReport: os.WriteFile truncates the file, or creates one that prune has
\* removed, and then writes.
RewriteOpen ==
    /\ mpc = "open"
    /\ mpc' = "write"
    /\ files' = [files EXCEPT ![Newest(left)] = Truncated]
    /\ UNCHANGED <<now, links, pc, locals, flagged, left, loaded, text, failed>>

\* A file that is pruned while it is open stays removed.
RewriteWrite ==
    /\ mpc = "write"
    /\ files' = [files EXCEPT ![Newest(left)] = IF @ = Absent THEN Absent ELSE loaded]
    /\ left' = left \ {Newest(left)}
    /\ NextName
    /\ UNCHANGED <<now, links, pc, locals, flagged, text, failed>>

\* Load, the open or the write fails for a reason of its own: noted in the result.
FileError ==
    /\ mpc \in {"load", "open", "write"}
    /\ left' = left \ {Newest(left)}
    /\ NextName
    /\ failed' = TRUE
    /\ UNCHANGED <<vars, text>>

\* inspectctl is killed during the walk.  Before that, or with Clusters or List failing,
\* it is as if it had not been called.
MigrateKilled ==
    /\ mpc \in {"load", "open", "write"}
    /\ mpc' = "done" /\ left' = {} /\ loaded' = NoFindings
    /\ failed' = TRUE
    /\ UNCHANGED <<vars, text>>

Migrate ==
    \/ MigrateList \/ MigrateLoad
    \/ RewriteOpen \/ RewriteWrite
    \/ FileError   \/ MigrateKilled

\* With cron as the only caller no run begins in a second that already names a
\* file: a standard schedule fires once a minute at most.
Paced == (\E r \in Runs : pc[r] = "idle" /\ pc'[r] # "idle") => files[now] = Absent

Migrated == mpc = "done" \/ \A t \in Times : text[t] = Untold

\* The report that run r fails to load in this step, though it is there to be read.
Lost(r) ==
    {v \in Times : /\ \/ v = names[r][1] /\ LoadFirstError(r)
                      \/ v = names[r][2] /\ LoadSecondError(r)
                   /\ Readable(v)}

\* A run that ends up without any baseline is as loud as the first one: it misses nothing.
HasBaseline(r) == base1[r] # NoBaseline \/ base2[r] # NoBaseline

Remembers(r) ==
    \/ pc[r] \in {"load2", "collect", "save", "write"}
    \/ pc[r] = "start" /\ HasBaseline(r)

\* The runs that have just written what is under the name of second t.
WrittenBy(t) == {r \in Runs : pc[r] = "write" /\ pc'[r] = "list" /\ start[r] = t}

Remember ==
    /\ untold' = {r \in Runs : \/ r \in untold /\ pc'[r] # "idle"
                               \/ pc'[r] \in {"load1", "load2"} /\ ~Migrated'}
    /\ early'  = early \cup
          {start'[r] : r \in {q \in untold : pc[q] = "start" /\ pc'[q] = "collect"}}
    /\ missed' = [r \in Runs |-> IF Remembers(r)' THEN missed[r] \cup Lost(r) ELSE {}]
    /\ unread' = [t \in Times |->
          IF files'[t] = Absent THEN {}
          ELSE {v \in unread[t] \cup UNION {missed[r] : r \in WrittenBy(t)} : files'[v] # Absent}]

MigrationNext ==
    /\ (Next /\ Paced /\ UNCHANGED migration) \/ Migrate
    /\ Remember

MigrationSpec == MigrationInit /\ [][MigrationNext]_allVars
--------------------------------------------------------------------------
\* The neighbour that report t has before it in the history, when both can be read.
Before(t) ==
    {u \in Times : /\ u < t /\ Readable(t) /\ Readable(u)
                   /\ \A v \in Times : u < v /\ v < t => files[v] = Absent}

Metered(t, n) == files[t][n].total # NoMetric

\* The names that prune leaves alone.  Of the others any may survive, so that one that is
\* far behind may become the neighbour of a report that was never compared with it.
Kept == Times \ Older(Listed)

\* With cron as the only caller, a growth between two neighbouring reports that both hold
\* a total is an alarm in the later one, also when the node rebooted before the earlier
\* one and the baseline before that is too high to show it (bond_delta.go:19-20): old,
\* migrated and new reports alike, but for a report whose run has read the history before
\* the migration was done with it, or has failed to load the earlier of the two and had
\* another to compare with (runner.go:111-116); for the reports that prune keeps.
RecentGrowthFlagged ==
    \A t \in Times \ early : \A u \in Before(t) \ unread[t], n \in Nodes :
        /\ Metered(t, n) /\ Metered(u, n)
        /\ files[t][n].total > files[u][n].total
        /\ u \in Kept
        => files[t][n].level \in Alarm

\* A growth since report v is shown by the next two reports, so that a reader may miss one
\* of them (bond_delta.go:18-19), each with the same exceptions for its own run and for
\* v alone: what the second run makes of v does not hang on whether it could load the
\* report between.  The inspection after a migration compares against real history
\* (cmd/inspectctl/main.go:4-5).
GrowthFlaggedTwice ==
    \A t \in Times : \A u \in Before(t) : \A v \in Before(u), n \in Nodes :
        /\ Metered(t, n) /\ Metered(u, n) /\ Metered(v, n)
        /\ files[v][n].total < files[u][n].total
        /\ files[u][n].total <= files[t][n].total
        /\ v \in Kept
        => \A w \in {t, u} \ early : v \in unread[w] \/ files[w][n].level \in Alarm

\* A migration that met no error and was not killed leaves no old report behind whose
\* text tells a count, whatever was pruned, saved or left truncated beside it: a report
\* that cannot be loaded costs no other its count (migrate.go:81-84).
MigrationComplete ==
    (mpc = "done" /\ ~failed) =>
        \A t \in Times, n \in Nodes :
            Readable(t) /\ text[t][n] # NoMetric => files[t][n].total = text[t][n]
==========================================================================
