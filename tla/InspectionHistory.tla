------------------------ MODULE InspectionHistory ------------------------
(* One cluster's inspections and the history directory they compare         *)
(* against.  Runner.Run is entered by the cron tick and by every chat       *)
(* command, with no lock between them: each Run is a process that lists     *)
(* the history, loads the two newest reports, collects from the nodes,      *)
(* judges, and then writes and prunes with plain file calls, while the      *)
(* others do the same and the process may be killed at any point.           *)
(*                                                                          *)
(* A report is reduced to one hw_bond finding per node, the only item whose *)
(* level depends on the history.                                            *)
EXTENDS BondDelta, FiniteSets

CONSTANTS
    Nodes,      \* the cluster's nodes
    Runs,       \* concurrent Runner.Run calls for the cluster
    Keep,       \* Store.keep
    MaxTime,    \* bound: last second of the model
    MaxTotal,   \* bound: link failures counted between two reboots
    Absent,     \* no file of that name
    Truncated   \* a file that cannot be read: opened by os.WriteFile and not filled

Times   == 0 .. MaxTime
NoFile  == -1
Reports == [Nodes -> Finding]

ASSUME KeepAssumption  == Keep \in Nat \ {0}
ASSUME BoundAssumption == MaxTime \in Nat /\ MaxTotal \in Nat
ASSUME FileAssumption  == Absent # Truncated /\ {Absent, Truncated} \cap Reports = {}

VARIABLES
    now,        \* the wall clock, in the seconds a file name can tell apart
    links,      \* per node: link failures its bonds have counted since boot
    files,      \* the history directory: per second, a report or what else is there
    pc,         \* per run: where Run is
    names,      \* per run: the two newest file names List returned
    base1,      \* per run: bondBaseline(prev1)
    base2,      \* per run: bondBaseline(prev2)
    start,      \* per run: StartedAt of its report
    report,     \* per run: the report being built
    victims,    \* per run: the names prune is about to remove
    flagged     \* history: per node, the highest total that a report which was
                \* recorded or returned to its caller has shown as an alarm

locals == <<names, base1, base2, start, report, victims>>
vars   == <<now, links, files, pc, locals, flagged>>

NoBaseline == [n \in Nodes |-> NoMetric]
NoFindings == [n \in Nodes |-> [level |-> LevelOK, total |-> NoMetric]]

Steps == {"idle", "load1", "load2", "start", "collect",
          "save", "write", "list", "prune", "return"}

TypeOK ==
    /\ now     \in Times
    /\ links   \in [Nodes -> 0 .. MaxTotal]
    /\ files   \in [Times -> Reports \cup {Absent, Truncated}]
    /\ pc      \in [Runs -> Steps]
    /\ names   \in [Runs -> (Times \cup {NoFile}) \X (Times \cup {NoFile})]
    /\ base1   \in [Runs -> [Nodes -> Totals]]
    /\ base2   \in [Runs -> [Nodes -> Totals]]
    /\ start   \in [Runs -> Times]
    /\ report  \in [Runs -> Reports]
    /\ victims \in [Runs -> SUBSET Times]
    /\ flagged \in [Nodes -> Nat]

\* No run is under way.
RunsInit ==
    /\ pc      = [r \in Runs |-> "idle"]
    /\ names   = [r \in Runs |-> <<NoFile, NoFile>>]
    /\ base1   = [r \in Runs |-> NoBaseline]
    /\ base2   = [r \in Runs |-> NoBaseline]
    /\ start   = [r \in Runs |-> 0]
    /\ report  = [r \in Runs |-> NoFindings]
    /\ victims = [r \in Runs |-> {}]

Init ==
    /\ now     = 0
    /\ links   \in [Nodes -> 0 .. MaxTotal]
    /\ files   = [t \in Times |-> Absent]
    /\ RunsInit
    /\ flagged = [n \in Nodes |-> 0]
--------------------------------------------------------------------------
(* The store. *)

\* What List sees: every .json file, readable or not.
Listed == {t \in Times : files[t] # Absent}

Newest(S) == IF S = {} THEN NoFile ELSE CHOOSE t \in S : \A u \in S : u <= t

\* Mutants of NewestTwo: one report compared against; no second name at all.
NewestOnly(S)  == <<Newest(S), NoFile>>
NewestShort(S) == <<Newest(S)>>

\* The first two names of a listing that is sorted newest first.
NewestTwo(S) == <<Newest(S), Newest(S \ {Newest(S)})>>

\* Mutant of Older: the slice starts one name early.
OlderByOne(S) == {t \in S : Cardinality({u \in S : u > t}) >= Keep - 1}

\* The names after the first Keep of the listing.
Older(S) == {t \in S : Cardinality({u \in S : u > t}) >= Keep}

\* bondBaseline of what Load returns for a name: a missing or truncated file is no
\* baseline.
Baseline(t) ==
    IF t = NoFile \/ files[t] \in {Absent, Truncated}
    THEN NoBaseline
    ELSE [n \in Nodes |-> files[t][n].total]
--------------------------------------------------------------------------
(* The environment. *)

Tick ==
    /\ now < MaxTime
    /\ now' = now + 1
    /\ UNCHANGED <<links, files, pc, locals, flagged>>

LinkFails(n) ==
    /\ links[n] < MaxTotal
    /\ links' = [links EXCEPT ![n] = @ + 1]
    /\ UNCHANGED <<now, files, pc, locals, flagged>>

\* The driver's counters start again at zero.
Reboot(n) ==
    /\ links[n] > 0
    /\ links' = [links EXCEPT ![n] = 0]
    /\ UNCHANGED <<now, files, pc, locals, flagged>>

\* The bot is killed: every run is gone, and a file that was open keeps the
\* length it had.
Crash ==
    /\ \E r \in Runs : pc[r] # "idle"
    /\ pc'      = [r \in Runs |-> "idle"]
    /\ names'   = [r \in Runs |-> <<NoFile, NoFile>>]
    /\ base1'   = [r \in Runs |-> NoBaseline]
    /\ base2'   = [r \in Runs |-> NoBaseline]
    /\ start'   = [r \in Runs |-> 0]
    /\ report'  = [r \in Runs |-> NoFindings]
    /\ victims' = [r \in Runs |-> {}]
    /\ UNCHANGED <<now, links, files, flagged>>
--------------------------------------------------------------------------
(* Runner.Run. *)

Goto(r, from, to) ==
    /\ pc[r] = from
    /\ pc' = [pc EXCEPT ![r] = to]

\* recentReports lists the directory before the run's own time is taken.
List(r) ==
    /\ Goto(r, "idle", "load1")
    /\ names' = [names EXCEPT ![r] = NewestTwo(Listed)]
    /\ UNCHANGED <<now, links, files, base1, base2, start, report, victims, flagged>>

\* A List error is taken for an empty history.
ListError(r) ==
    /\ Goto(r, "idle", "start")
    /\ UNCHANGED <<now, links, files, locals, flagged>>

LoadFirst(r) ==
    /\ Goto(r, "load1", "load2")
    /\ base1' = [base1 EXCEPT ![r] = Baseline(names[r][1])]
    /\ UNCHANGED <<now, links, files, names, base2, start, report, victims, flagged>>

\* os.ReadFile fails on a file that holds a report: no baseline either.
LoadFirstError(r) ==
    /\ names[r][1] # NoFile
    /\ Goto(r, "load1", "load2")
    /\ UNCHANGED <<now, links, files, locals, flagged>>

LoadSecond(r) ==
    /\ Goto(r, "load2", "start")
    /\ base2' = [base2 EXCEPT ![r] = Baseline(names[r][2])]
    /\ names' = [names EXCEPT ![r] = <<NoFile, NoFile>>]
    /\ UNCHANGED <<now, links, files, base1, start, report, victims, flagged>>

LoadSecondError(r) ==
    /\ names[r][2] # NoFile
    /\ Goto(r, "load2", "start")
    /\ names' = [names EXCEPT ![r] = <<NoFile, NoFile>>]
    /\ UNCHANGED <<now, links, files, base1, base2, start, report, victims, flagged>>

Start(r) ==
    /\ Goto(r, "start", "collect")
    /\ start' = [start EXCEPT ![r] = now]
    /\ UNCHANGED <<now, links, files, names, base1, base2, report, victims, flagged>>

\* runWith returns once every node has answered or failed, and the run corrects
\* the levels on its own copy: the nodes' counters are those of the moment, the
\* outcomes whatever the collection meets.
Collect(r) ==
    /\ Goto(r, "collect", "save")
    /\ \E out \in [Nodes -> Outcome] :
          report' = [report EXCEPT ![r] =
             [n \in Nodes |-> applyBondDelta(parseBond(out[n], links[n]),
                                             base1[r][n], base2[r][n])]]
    /\ base1' = [base1 EXCEPT ![r] = NoBaseline]
    /\ base2' = [base2 EXCEPT ![r] = NoBaseline]
    /\ UNCHANGED <<now, links, files, names, start, victims, flagged>>

\* What flagged becomes once report rep can be seen by somebody.
Raised(rep) ==
    [n \in Nodes |-> IF rep[n].level \in Alarm /\ rep[n].total > flagged[n]
                     THEN rep[n].total
                     ELSE flagged[n]]

\* os.WriteFile opens with O_TRUNC: whatever had this second's name is gone.
SaveOpen(r) ==
    /\ Goto(r, "save", "write")
    /\ files' = [files EXCEPT ![start[r]] = Truncated]
    /\ UNCHANGED <<now, links, locals, flagged>>

\* What is under the name once run r has written.  A file that was pruned since r
\* opened it stays removed; of two runs that have opened the same name, one may write
\* over the start of the other's report, or to a file that is removed.
Written(r) ==
    LET was     == files[start[r]]
        another == was # Truncated \/ \E q \in Runs \ {r} : pc[q] = "write" /\ start[q] = start[r]
    IN  IF was = Absent THEN {Absent}
        ELSE IF another THEN {report[r], was, Truncated} ELSE {report[r]}

SaveWrite(r) ==
    /\ Goto(r, "write", "list")
    /\ \E content \in Written(r) :
          /\ files'   = [files EXCEPT ![start[r]] = content]
          /\ flagged' = IF content = report[r] THEN Raised(report[r]) ELSE flagged
    /\ UNCHANGED <<now, links, locals>>

\* MkdirAll, the open or the write fails: Save returns its error before it
\* prunes, and Run drops the error.
SaveError(r) ==
    /\ pc[r] \in {"save", "write"}
    /\ pc' = [pc EXCEPT ![r] = "return"]
    /\ UNCHANGED <<now, links, files, locals, flagged>>

\* prune lists again, and removes what it listed past the Keep newest names.
\* A List error leaves nothing to remove.
PruneList(r) ==
    /\ Goto(r, "list", "prune")
    /\ victims' = [victims EXCEPT ![r] = Older(Listed)]
    /\ UNCHANGED <<now, links, files, names, base1, base2, start, report, flagged>>

PruneListError(r) ==
    /\ Goto(r, "list", "return")
    /\ UNCHANGED <<now, links, files, locals, flagged>>

\* The victims are removed one by one, the newest first.  An os.Remove error is
\* dropped: the victim may survive.
PruneRemove(r) ==
    /\ pc[r] = "prune" /\ victims[r] # {}
    /\ LET t == Newest(victims[r]) IN
          /\ \E content \in {Absent, files[t]} : files' = [files EXCEPT ![t] = content]
          /\ victims' = [victims EXCEPT ![r] = @ \ {t}]
    /\ UNCHANGED <<now, links, pc, names, base1, base2, start, report, flagged>>

PruneDone(r) ==
    /\ victims[r] = {}
    /\ Goto(r, "prune", "return")
    /\ UNCHANGED <<now, links, files, locals, flagged>>

\* The caller gets the report, recorded or not.
Return(r) ==
    /\ Goto(r, "return", "idle")
    /\ flagged' = Raised(report[r])
    /\ start'   = [start EXCEPT ![r] = 0]
    /\ report'  = [report EXCEPT ![r] = NoFindings]
    /\ UNCHANGED <<now, links, files, names, base1, base2, victims>>

Run(r) ==
    \/ List(r)       \/ ListError(r)
    \/ LoadFirst(r)  \/ LoadFirstError(r)
    \/ LoadSecond(r) \/ LoadSecondError(r)
    \/ Start(r)      \/ Collect(r)
    \/ SaveOpen(r)   \/ SaveWrite(r)      \/ SaveError(r)
    \/ PruneList(r)  \/ PruneListError(r) \/ PruneRemove(r) \/ PruneDone(r)
    \/ Return(r)

Next ==
    \/ Tick
    \/ Crash
    \/ \E n \in Nodes : LinkFails(n) \/ Reboot(n)
    \/ \E r \in Runs : Run(r)

Spec == Init /\ [][Next]_vars
--------------------------------------------------------------------------
(* Properties. *)

\* Readable(t): a report anybody could load.
Readable(t) == files[t] \notin {Absent, Truncated}

\* No recorded report, and no report about to be returned, shows a node as
\* quiet at a total that no recorded or returned report had raised an alarm
\* for: whatever overlaps, fails, is truncated, overwritten or pruned, a
\* history of quiet reports starts with an alarm (bond_delta.go, runner.go).
NoSilentGrowth ==
    /\ \A t \in Times, n \in Nodes :
          Readable(t) => files[t][n].total <= flagged[n]
    /\ \A r \in Runs, n \in Nodes :
          pc[r] = "return" /\ report[r][n].level \notin Alarm
             => report[r][n].total <= flagged[n]

\* What makes NoSilentGrowth inductive: the baselines a run holds were read from
\* reports that were covered, and what it judged quiet is covered by them.
BaselinesCovered ==
    \A r \in Runs, n \in Nodes : base1[r][n] <= flagged[n] /\ base2[r][n] <= flagged[n]

JudgedCovered ==
    \A r \in Runs, n \in Nodes :
        report[r][n].level \notin Alarm => report[r][n].total <= flagged[n]

Covered == NoSilentGrowth /\ BaselinesCovered /\ JudgedCovered

\* The reports newer than time t.
Newer(t) == {u \in Listed : u > t}

\* Prune never removes a report that is among the Keep newest at the moment it
\* disappears, though it works from a listing that other runs have outdated:
\* they have saved, overwritten and pruned since (store.go:110-119).
PruneKeepsNewest ==
    [][\A t \in Times : files[t] # Absent /\ files'[t] = Absent
          => Cardinality(Newer(t)) >= Keep]_vars

\* What makes PruneKeepsNewest inductive: a name on a run's list of victims
\* keeps at least Keep newer ones, though others remove theirs meanwhile.
VictimsOutdated ==
    \A r \in Runs : \A t \in victims[r] : Cardinality(Newer(t)) >= Keep
==========================================================================
