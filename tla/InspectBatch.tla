-------------------------- MODULE InspectBatch --------------------------
(* An inspection of several clusters in one go: Scheduler.tick, which sends  *)
(* a card for each abnormal cluster and then a summary, or the chat command, *)
(* which answers with one card for all of them.  The configuration may be    *)
(* reloaded between any two clusters, and each name is looked up again when  *)
(* its turn comes.  Batches share nothing but the configuration: one is      *)
(* enough.                                                                   *)
EXTENDS ClusterNames, Severity

\* What became of one target: the level of its report, or no report.
Failed   == 4
Outcomes == Level \cup {Failed}

VARIABLES
    list,       \* the clusters configured
    kind,       \* who started the batch: "none", "tick" or "chat"
    done,       \* the summary has been sent, the chat answered
    targets,    \* the names the batch set out to inspect
    reports,    \* the results so far
    counts,     \* tick: how many of each kind
    cards,      \* tick: the clusters it has sent a card for
    worst,      \* chat: the level its card will have
    stable      \* history: the clusters configured ever since the batch began

vars == <<list, kind, done, targets, reports, counts, cards, worst, stable>>

Result == [name : Names, cluster : Names \cup {NotAName}, outcome : Outcomes]

NoCounts == [total |-> 0, ok |-> 0, warn |-> 0, critical |-> 0, failed |-> 0]

Init ==
    /\ list \in SUBSET Names
    /\ kind = "none" /\ done = FALSE
    /\ targets = {} /\ reports = {}
    /\ counts = NoCounts /\ cards = {}
    /\ worst = LevelOK
    /\ stable = {}
--------------------------------------------------------------------------
\* The configuration is replaced.
Reload ==
    /\ list' \in SUBSET Names
    /\ stable' = stable \cap list'
    /\ UNCHANGED <<kind, done, targets, reports, counts, cards, worst>>

\* tick takes its targets once: inspect.clusters, or every cluster if it is empty.
TickStart ==
    /\ kind = "none"
    /\ kind' = "tick"
    /\ \E chosen \in SUBSET Names :
          targets' = IF chosen # {} THEN chosen ELSE list
    /\ stable' = list
    /\ UNCHANGED <<list, done, reports, counts, cards, worst>>

\* handleInspect: the name in the message, or every cluster.
ChatStart ==
    /\ kind = "none"
    /\ kind' = "chat"
    /\ targets' \in {list} \cup {{n} : n \in Names}
    /\ stable' = list
    /\ UNCHANGED <<list, done, reports, counts, cards, worst>>

\* The targets still to inspect; the list of clusters is in no particular order.
Todo == targets \ {r.name : r \in reports}

\* Runner.Run: no single cluster of that name; no connection to it; a report.
RunResults(n) ==
    IF FindByPrefix(n, list) = {}
    THEN {[name |-> n, cluster |-> NotAName, outcome |-> Failed]}
    ELSE {[name |-> n, cluster |-> c, outcome |-> o] : c \in FindByPrefix(n, list), o \in Outcomes}

\* Mutant of Count: a run that failed is counted with those that found nothing.
CountFailedOK(outcome) ==
    CASE outcome = LevelWarn     -> [counts EXCEPT !.warn = @ + 1]
      [] outcome = LevelCritical -> [counts EXCEPT !.critical = @ + 1]
      [] OTHER                   -> [counts EXCEPT !.ok = @ + 1]

\* The switch of tick: a report that is Unknown is counted as one that is OK.
Count(outcome) ==
    CASE outcome = LevelWarn     -> [counts EXCEPT !.warn = @ + 1]
      [] outcome = LevelCritical -> [counts EXCEPT !.critical = @ + 1]
      [] outcome = Failed        -> [counts EXCEPT !.failed = @ + 1]
      [] OTHER                   -> [counts EXCEPT !.ok = @ + 1]

\* One turn of tick's loop.  The card is sent at once; if no chat is configured
\* or sending fails, the batch goes on without it.
TickRun ==
    /\ kind = "tick"
    /\ \E n \in Todo : \E r \in RunResults(n) :
          /\ reports' = reports \cup {r}
          /\ counts' = Count(r.outcome)
          /\ cards' \in IF r.outcome \in Alarm THEN {cards, cards \cup {r.cluster}} ELSE {cards}
    /\ UNCHANGED <<list, kind, done, targets, worst, stable>>

TickSummary ==
    /\ kind = "tick" /\ ~done /\ Todo = {}
    /\ done' = TRUE
    /\ counts' = [counts EXCEPT !.total = Cardinality(targets)]
    /\ UNCHANGED <<list, kind, targets, reports, cards, worst, stable>>

\* Mutant of ChatRun: a run that failed is compared like a report.
ChatRunFailed ==
    /\ kind = "chat"
    /\ \E n \in Todo : \E r \in RunResults(n) :
          /\ reports' = reports \cup {r}
          /\ worst' = IF r.outcome > worst THEN r.outcome ELSE worst
    /\ UNCHANGED <<list, kind, done, targets, counts, cards, stable>>

\* One turn of handleInspect's loop.  A failed run is a line of the answer; the
\* levels of the reports are compared as numbers.
ChatRun ==
    /\ kind = "chat"
    /\ \E n \in Todo : \E r \in RunResults(n) :
          /\ reports' = reports \cup {r}
          /\ worst' = IF r.outcome # Failed /\ r.outcome > worst THEN r.outcome ELSE worst
    /\ UNCHANGED <<list, kind, done, targets, counts, cards, stable>>

ChatReply ==
    /\ kind = "chat" /\ ~done /\ Todo = {}
    /\ done' = TRUE
    /\ UNCHANGED <<list, kind, targets, reports, counts, cards, worst, stable>>

Next ==
    \/ Reload
    \/ TickStart \/ TickRun \/ TickSummary
    \/ ChatStart \/ ChatRun \/ ChatReply

Spec == Init /\ [][Next]_vars
--------------------------------------------------------------------------
(* Properties. *)

TypeOK ==
    /\ list \subseteq Names
    /\ kind \in {"none", "tick", "chat"}
    /\ done \in BOOLEAN
    /\ targets \subseteq Names
    /\ reports \subseteq Result
    /\ counts \in [total : Nat, ok : Nat, warn : Nat, critical : Nat, failed : Nat]
    /\ cards \subseteq Names
    /\ worst \in Level
    /\ stable \subseteq Names

\* The summary accounts for every target once, and one that shows neither a
\* failure nor an alarm means that every target was reported on and no report
\* holds an alarm, reloads in the middle of the batch and failed runs included
\* (scheduler.go:98-129).
SummaryAccounts ==
    kind = "tick" /\ done =>
        /\ counts.total = counts.ok + counts.warn + counts.critical + counts.failed
        /\ counts.failed + counts.warn + counts.critical = 0 =>
              \A n \in targets :
                 \E r \in reports : r.name = n /\ r.cluster \in Names
                                    /\ r.outcome \in Level \ Alarm
        /\ Cardinality(cards) <= counts.warn + counts.critical

\* A reload in the middle of a batch concerns only the clusters it changes: a
\* target that stays configured throughout, and is named in lower case, is
\* inspected as itself, whatever other names come to contain its own
\* (manager.go:83-108, scheduler.go:92-99).
UntouchedInspected ==
    \A r \in reports : r.name \in stable /\ Lower[r.name] = r.name => r.cluster = r.name
==========================================================================
