---------------------------- MODULE Commands ----------------------------
(* The bot's handler and the web interface: every chat message and every web *)
(* request has a goroutine of its own, which finds out what is asked, looks  *)
(* the clusters up and runs the steps of a skill on one after the other.     *)
EXTENDS CephSkills

CONSTANTS
    Chats, Pages,      \* messages and web requests, each handled once
    Messages,          \* per chat: what may be written, with group and to
    Forms,             \* per page: what may be submitted, [page, skill, cluster, node]
    Skills, Storages,  \* the registered skills, the configured storages
    Configurations,    \* the sets of clusters that may be configured
    LLMAnswers,        \* what the LLM may answer: records [action, cluster, node]
    Dev,               \* the values of config.DevConfig: records [dryRun, disableLLM]
    FirstFlags,        \* the sets of flags that all clusters may have at first
    MaxReloads,        \* bounds: the reloads,
    MaxRequests        \* and the messages and web requests

Workers  == Chats \cup Pages
Clusters == UNION Configurations
AnyMessage == UNION {Messages[c] : c \in Chats}
AnyForm    == UNION {Forms[p] : p \in Pages}

ASSUME CommandsAssumption ==
    /\ Chats \cap Pages = {}
    /\ Clusters \subseteq Names /\ IsFiniteSet(Clusters) /\ "" \notin Names
    /\ Size \in [Names -> Nat] /\ DOMAIN Daemons = Clusters
    /\ \A c \in Clusters : IsFiniteSet(NodesOf[c])
    /\ \A c \in Chats : \A m \in Messages[c] :
          /\ m.words \in Seq(Names) /\ m.except \in Seq(Names)
          /\ m.named \in Names \cup {""}
    /\ Dev \subseteq [dryRun : BOOLEAN, disableLLM : BOOLEAN]
    /\ FirstFlags \subseteq SUBSET Flags
    /\ MaxReloads \in Nat /\ MaxRequests \in Nat
    /\ {"set_no_backfill", "unset_no_backfill", "set_noout", "unset_noout"} \subseteq Skills

VARIABLES
    configured,   \* the clusters of the manager
    llmOff,       \* llmDisabled
    dryRun,       \* dev.dry_run, read once at the start
    flags,        \* per cluster: the flags that are set
    inFlight,     \* Server.inFlight: 1 while a skill runs for the web
    audit,        \* what was recorded, in order
    pc,           \* per worker: "idle", "llm", "dispatch", "clusters", "steps", "done"
    task,         \* per worker: what it has in hand, see NoTask
    reloads,      \* counted against the bound
    said,         \* history, per worker: the message or the form
    outcome,      \* history, per worker: how it ended
    ran           \* history: the steps that were sent, [by, op, cluster]

shared == <<configured, llmOff, dryRun, flags, inFlight, audit, reloads>>
vars   == <<shared, pc, task, said, outcome, ran>>

\* act is the action, left the clusters to go, batch whether they were many, at the
\* cluster under way with the steps left there, and trouble whether a line of the
\* answer tells of something that failed.
NoTask == [act |-> Action("help"), left |-> <<>>, batch |-> FALSE, at |-> "",
           steps |-> <<>>, trouble |-> FALSE]

NoMessage == [words |-> <<>>, phrases |-> {}, except |-> <<>>, named |-> "",
              group |-> FALSE, to |-> <<>>]

Init ==
    /\ configured \in Configurations
    /\ \E dev \in Dev : llmOff = dev.disableLLM /\ dryRun = dev.dryRun
    /\ \E f \in FirstFlags : flags = [c \in Clusters |-> f]
    /\ inFlight = 0 /\ audit = <<>> /\ reloads = 0
    /\ pc = [w \in Workers |-> "idle"]
    /\ task = [w \in Workers |-> NoTask]
    /\ said = [w \in Workers |-> NoMessage]
    /\ outcome = [w \in Workers |-> "none"]
    /\ ran = {}

\* Manager.Reload.
Reload ==
    /\ reloads < MaxReloads
    /\ reloads' = reloads + 1
    /\ configured' \in Configurations \ {configured}
    /\ UNCHANGED <<llmOff, dryRun, flags, inFlight, audit, pc, task, said, outcome, ran>>
--------------------------------------------------------------------------
(* How a worker goes on, and how it ends. *)

Go(w, where, hand) ==
    /\ pc' = [pc EXCEPT ![w] = where]
    /\ task' = [task EXCEPT ![w] = hand]
    /\ UNCHANGED outcome

\* Mutant of Record: a command that returns an error is not recorded.
RecordUnlessError(w, status) ==
    audit' = IF status = "error" THEN audit
             ELSE Append(audit, [by |-> w, target |-> task[w].act.target,
                                 type |-> task[w].act.type, status |-> status])

\* AuditLog.Record: the target is the one that was asked for.
Record(w, status) ==
    audit' = Append(audit, [by |-> w, target |-> task[w].act.target,
                            type |-> task[w].act.type, status |-> status])

\* Mutant of Release: an error leaves the slot taken.
ReleaseUnlessError(w, status) ==
    inFlight' = IF task[w].act.type = "skill" /\ status # "error" THEN 0 ELSE inFlight

\* Mutant of Release: a count that is taken down by whoever answers a page.
ReleaseCounted(w, status) == inFlight' = inFlight - 1

\* The deferred Store of handleRun.
Release(w, status) == inFlight' = IF task[w].act.type = "skill" THEN 0 ELSE inFlight

\* The answer is given.  A chat command is recorded first, with no trouble of single
\* clusters or commands; a page is not recorded.
Finish(w, status) ==
    /\ pc' = [pc EXCEPT ![w] = "done"]
    /\ task' = [task EXCEPT ![w] = NoTask]
    /\ outcome' = [outcome EXCEPT ![w] =
                     IF status = "ok" /\ task[w].trouble THEN "trouble" ELSE status]
    /\ IF w \in Chats THEN Record(w, status) /\ UNCHANGED inFlight
                      ELSE Release(w, status) /\ UNCHANGED audit
--------------------------------------------------------------------------
(* HandleMessage. *)

OneMore == Cardinality({w \in Workers : pc[w] # "idle"}) < MaxRequests

Ignored(m) == m.group /\ ~IsBotMentioned(m.to)

\* What a message may be taken for: Manager.List has no order.
Readings ==
    [m \in AnyMessage |->
        [list \in Configurations |->
            {ParseWithAll(m, order, Skills, Storages) : order \in SetToSeqs(list)}]]

Receive(c) ==
    /\ pc[c] = "idle" /\ OneMore
    /\ \E m \in Messages[c] : \E act \in Readings[m][configured] :
          /\ said' = [said EXCEPT ![c] = m]
          /\ IF Ignored(m)
             THEN /\ pc' = [pc EXCEPT ![c] = "done"]
                  /\ outcome' = [outcome EXCEPT ![c] = "ignored"]
                  /\ UNCHANGED task
             ELSE Go(c, IF NeedsFallback(act) /\ ~llmOff THEN "llm" ELSE "dispatch",
                     [NoTask EXCEPT !.act = act])
    /\ UNCHANGED <<shared, ran>>

\* The LLM's answer replaces the action, an error of the LLM leaves it.
AskLLM(c) ==
    /\ pc[c] = "llm"
    /\ \/ Go(c, "dispatch", task[c])
       \/ \E answer \in LLMAnswers :
             Go(c, "dispatch", [task[c] EXCEPT !.act = LLMAction(answer)])
    /\ UNCHANGED <<shared, said, ran>>

\* helpMessage, listClusters, listSkills and listInspectItems.
Answer(c) ==
    /\ pc[c] = "dispatch"
    /\ task[c].act.type \in {"help", "list clusters", "list skills", "list inspect"}
    /\ Finish(c, "ok")
    /\ UNCHANGED <<configured, llmOff, dryRun, flags, reloads, said, ran>>

ToggleLLM(c) ==
    /\ pc[c] = "dispatch" /\ task[c].act.type = "toggle llm"
    /\ llmOff' = ~task[c].act.enable
    /\ Finish(c, "ok")
    /\ UNCHANGED <<configured, dryRun, flags, reloads, said, ran>>

\* handleInspect and handleRESTStorage: InspectBatch and Yanrong have what follows.
Elsewhere(c) ==
    /\ pc[c] = "dispatch" /\ task[c].act.type \in {"inspect", "rest storage"}
    /\ \E status \in {"ok", "error"} : Finish(c, status)
    /\ UNCHANGED <<configured, llmOff, dryRun, flags, reloads, said, ran>>

\* isBroadcastAllowed.
BroadcastSkills == {"set_no_backfill", "unset_no_backfill", "set_noout", "unset_noout"}

\* Mutant of Many: the clusters excluded are gone through as well.
ManyWithExcluded(act) ==
    IF act.target.kind = "all" THEN configured ELSE Matches(act.target.text, configured)

\* The clusters of a broadcast: List or ListByPrefix, without those excluded.
Many(act) ==
    (IF act.target.kind = "all" THEN configured ELSE Matches(act.target.text, configured))
        \ act.excludes

\* A cluster that is not found, or not told from others, is an error.
GoToNamed(c) ==
    LET found == FindByPrefix(task[c].act.target.text, configured) IN
    IF found = {} THEN Finish(c, "error")
    ELSE /\ \E name \in found : Go(c, "clusters", [task[c] EXCEPT !.left = <<name>>])
         /\ UNCHANGED <<inFlight, audit>>

\* Manager.List and ListByPrefix have no order.
GoToMany(c) ==
    /\ \E order \in SetToSeqs(Many(task[c].act)) :
          Go(c, "clusters", [task[c] EXCEPT !.left = order, !.batch = TRUE])
    /\ UNCHANGED <<inFlight, audit>>

\* handleHealth, handleLogAnalysis and handleNodeDiag: no cluster named is an answer.
HandleCluster(c) ==
    /\ pc[c] = "dispatch"
    /\ task[c].act.type \in {"health", "log analysis", "node diagnostics"}
    /\ IF task[c].act.target.kind = "none" THEN Finish(c, "ok") ELSE GoToNamed(c)
    /\ UNCHANGED <<configured, llmOff, dryRun, flags, reloads, said, ran>>

\* handleSkill: so is a skill that is not there or not for many, or no cluster left.
HandleSkill(c) ==
    /\ pc[c] = "dispatch" /\ task[c].act.type = "skill"
    /\ LET act == task[c].act IN
       IF act.target.kind = "none" \/ act.skill \notin Skills THEN Finish(c, "ok")
       ELSE IF act.target.kind = "name" THEN GoToNamed(c)
       ELSE IF act.skill \notin BroadcastSkills \/ Many(act) = {} THEN Finish(c, "ok")
       ELSE GoToMany(c)
    /\ UNCHANGED <<configured, llmOff, dryRun, flags, reloads, said, ran>>
--------------------------------------------------------------------------
(* The web requests. *)

PageAction(f) ==
    [Action(IF f.page = "run" THEN "skill" ELSE "health") EXCEPT
        !.skill = f.skill, !.target = OneCluster(f.cluster), !.node = f.node]

SlotFree == inFlight = 0

\* handleRun up to the compare-and-swap, and handleClusterRoutes.
Submit(p) ==
    /\ pc[p] = "idle" /\ OneMore
    /\ \E f \in Forms[p] :
          LET refused == f.cluster = ""
                         \/ (f.page = "run" /\ (f.skill = "" \/ ~SlotFree))
                         \/ (f.page = "health" /\ f.cluster \notin configured)
          IN  IF refused
              THEN /\ pc' = [pc EXCEPT ![p] = "done"]
                   /\ outcome' = [outcome EXCEPT ![p] = "refused"]
                   /\ UNCHANGED <<inFlight, task>>
              ELSE /\ inFlight' = IF f.page = "run" THEN 1 ELSE inFlight
                   /\ Go(p, "dispatch", [NoTask EXCEPT !.act = PageAction(f)])
    /\ UNCHANGED <<configured, llmOff, dryRun, flags, audit, reloads, said, ran>>

\* RunSkillForWeb and GetClusterHealth up to where the cluster is found.
LookUp(p) ==
    /\ p \in Pages /\ pc[p] = "dispatch"
    /\ LET act == task[p].act IN
       IF act.target.text \notin configured \/ (act.type = "skill" /\ act.skill \notin Skills)
       THEN Finish(p, "error")
       ELSE /\ Go(p, "clusters", [task[p] EXCEPT !.left = <<act.target.text>>])
            /\ UNCHANGED <<inFlight, audit>>
    /\ UNCHANGED <<configured, llmOff, dryRun, flags, reloads, said, ran>>
--------------------------------------------------------------------------
(* handleSkillOnClusters, runSkillOnCluster and their likes: what chat       *)
(* commands and web requests have in common.                                 *)

\* Mutant of Pretends: a broadcast forgets about the dry run.
PretendsUnlessBatch(w) == dryRun /\ ~task[w].batch

\* dev.dry_run holds but for the health page.
Pretends(w) == dryRun /\ ~(w \in Pages /\ task[w].act.type = "health")

\* Mutant of Skip: a cluster with trouble is put off until the others are done.
SkipForNow(w, trouble) ==
    Go(w, "clusters", [task[w] EXCEPT !.left = Tail(@) \o (IF trouble THEN <<Head(@)>> ELSE <<>>),
                                      !.at = "", !.steps = <<>>, !.trouble = @ \/ trouble])

\* On to the next cluster, after a line of the answer.
Skip(w, trouble) ==
    Go(w, "clusters", [task[w] EXCEPT !.left = Tail(@), !.at = "", !.steps = <<>>,
                                      !.trouble = @ \/ trouble])

\* A broadcast looks each cluster up again.
Gone(w) == task[w].batch /\ Head(task[w].left) \notin configured

\* The nodes are looked for before the dry run is in these, and in a diagnosis only
\* when one is named.
LooksFirst(w) == task[w].act.type \in {"log analysis", "node diagnostics"}
NeedsNone(w)  == task[w].act.type = "node diagnostics" /\ task[w].act.node = ""

\* The executor or the nodes may not be had: a line of a broadcast, or an error.
NextCluster(w) ==
    /\ pc[w] = "clusters" /\ task[w].left # <<>>
    /\ \/ /\ Gone(w) \/ (task[w].batch /\ ~Pretends(w))
          /\ Skip(w, TRUE)
          /\ UNCHANGED <<inFlight, audit>>
       \/ /\ ~Gone(w) /\ Pretends(w)
          /\ Skip(w, FALSE)
          /\ UNCHANGED <<inFlight, audit>>
       \/ /\ ~Gone(w) /\ ~Pretends(w)
          /\ \E plan \in PlansFor(task[w].act, Head(task[w].left)) :
                Go(w, "steps", [task[w] EXCEPT !.at = Head(task[w].left), !.steps = plan])
          /\ UNCHANGED <<inFlight, audit>>
       \/ /\ ~task[w].batch /\ (~Pretends(w) \/ LooksFirst(w)) /\ ~NeedsNone(w)
          /\ Finish(w, "error")
    /\ UNCHANGED <<configured, llmOff, dryRun, flags, reloads, said, ran>>

AllDone(w) ==
    /\ pc[w] = "clusters" /\ task[w].left = <<>>
    /\ Finish(w, "ok")
    /\ UNCHANGED <<configured, llmOff, dryRun, flags, reloads, said, ran>>

ClusterDone(w) ==
    /\ pc[w] = "steps" /\ task[w].steps = <<>>
    /\ Skip(w, FALSE)
    /\ UNCHANGED <<shared, said, ran>>

\* Head(steps) is sent, unless ValidateCephCommand refuses it.
Send(w) ==
    LET op == Head(task[w].steps).op IN
    ran' = IF Allowed(op) THEN ran \cup {[by |-> w, op |-> op, cluster |-> task[w].at]}
           ELSE ran

\* What a step does to its cluster.
Effect(w) ==
    LET op == Head(task[w].steps).op IN
    flags' = [flags EXCEPT ![task[w].at] = IF op[1] = "set" THEN @ \cup {op[2]}
                                           ELSE IF op[1] = "unset" THEN @ \ {op[2]} ELSE @]

RunStep(w) ==
    /\ pc[w] = "steps" /\ task[w].steps # <<>>
    /\ Allowed(Head(task[w].steps).op)
    /\ Send(w) /\ Effect(w)
    /\ Go(w, "steps", [task[w] EXCEPT !.steps = Tail(@)])
    /\ UNCHANGED <<configured, llmOff, dryRun, inFlight, audit, reloads, said>>

AfterFailure(w) ==
    LET fails == Head(task[w].steps).fails IN
    IF fails = "error" THEN Finish(w, "error")
    ELSE /\ Go(w, "steps", [task[w] EXCEPT !.trouble = TRUE,
                                           !.steps = IF fails = "line" THEN Tail(@) ELSE <<>>])
         /\ UNCHANGED <<inFlight, audit>>

\* No pod to run it in, no connection, an exit code or the two minutes are over: a
\* step that fails may have done its work all the same.
StepFails(w) ==
    /\ pc[w] = "steps" /\ task[w].steps # <<>>
    /\ Send(w)
    /\ UNCHANGED flags \/ (Allowed(Head(task[w].steps).op) /\ Effect(w))
    /\ AfterFailure(w)
    /\ UNCHANGED <<configured, llmOff, dryRun, reloads, said>>

WorkerStep(w) ==
    \/ NextCluster(w) \/ AllDone(w) \/ ClusterDone(w) \/ RunStep(w) \/ StepFails(w)

ChatStep(c) ==
    AskLLM(c) \/ Answer(c) \/ ToggleLLM(c) \/ Elsewhere(c)
    \/ HandleCluster(c) \/ HandleSkill(c)

Next ==
    \/ Reload
    \/ \E c \in Chats : Receive(c) \/ ChatStep(c)
    \/ \E p \in Pages : Submit(p) \/ LookUp(p)
    \/ \E w \in Workers : WorkerStep(w)

Spec == Init /\ [][Next]_vars

\* A session on a node may hang for ever: runSession does not look at its context.
Hanging(w) ==
    \/ pc[w] = "steps" /\ task[w].steps # <<>> /\ OnNode(Head(task[w].steps))
    \/ pc[w] = "dispatch" /\ task[w].act.type = "inspect"

Proceed(w) ==
    /\ ~Hanging(w)
    /\ IF w \in Chats THEN ChatStep(w) \/ WorkerStep(w) ELSE LookUp(w) \/ WorkerStep(w)

\* All the rest has a timeout or returns at once, and every worker is a goroutine.
FairSpec == Spec /\ \A w \in Workers : WF_vars(Proceed(w))
--------------------------------------------------------------------------
\* What may be asked for, and what a worker has in hand.
MessageActions == UNION {UNION {Readings[m][list] : list \in Configurations} : m \in AnyMessage}
LLMActions     == {LLMAction(answer) : answer \in LLMAnswers}
PageActions    == {PageAction(f) : f \in AnyForm}
Actions        == {Action("help")} \cup MessageActions \cup LLMActions \cup PageActions

Hands == [act : Actions, left : Seq(Clusters), batch : BOOLEAN, at : Clusters \cup {""},
          steps : Seq(Steps), trouble : BOOLEAN]

Entries == [by : Chats, target : {act.target : act \in Actions},
            type : {act.type : act \in Actions}, status : {"ok", "error"}]

\* Each variable has its shape, and who is at a cluster is there for an action
\* that the handler runs on clusters, at the first of those it has left.
TypeOK ==
    /\ configured \in Configurations
    /\ llmOff \in BOOLEAN /\ dryRun \in BOOLEAN
    /\ flags \in [Clusters -> SUBSET Flags]
    /\ inFlight \in {0, 1}
    /\ audit \in Seq(Entries)
    /\ reloads \in 0 .. MaxReloads
    /\ pc \in [Workers -> {"idle", "llm", "dispatch", "clusters", "steps", "done"}]
    /\ task \in [Workers -> Hands]
    /\ \A w \in Workers :
          /\ pc[w] \in {"clusters", "steps"} =>
                task[w].act.type \in {"skill", "health", "log analysis", "node diagnostics"}
          /\ pc[w] = "steps" => task[w].left # <<>> /\ task[w].at = Head(task[w].left)
          /\ pc[w] = "done" => task[w] = NoTask
    /\ said \in [Workers -> {NoMessage} \cup AnyMessage]
    /\ outcome \in [Workers -> {"none", "ok", "trouble", "error", "ignored", "refused"}]
    /\ ran \subseteq [by : Workers, op : Ops, cluster : Clusters]

Changes(op)  == op[1] \notin {"ask", "look"}
ByChat       == {x \in ran : x.by \in Chats}
Typed(m)     == {c \in Clusters : Lower[c] \in ToSet(m.words)}

\* A cluster is changed by a chat message only when the message stands for it: it
\* says all and does not except it, or has a word or number of its name, or of one that
\* is part of it.  A restart takes no notice of all.  What the LLM makes of a message,
\* and an overheard one, change nothing (handleSkill).
ChangesAreNamed ==
    \A x \in ByChat : Changes(x.op) =>
        LET m == said[x.by] IN
        /\ ~Ignored(m)
        /\ IF Has(m, "all") /\ x.op[1] # "delete"
           THEN reloads = 0 => ~\E w \in ToSet(m.except) : <<w, x.cluster>> \in Within
           ELSE \/ \E w \in ToSet(m.words) \cup {m.named} : <<w, x.cluster>> \in Within
                \/ \E n \in Clusters : <<n, x.cluster>> \in Within /\ HasAny(m, Numbers[n])

\* The flags that a message is to set or unset, as it is written.  Of several commands
\* the parser takes one: a message asks for flags when it has no command besides.
Backfill  == {"set nobackfill", "unset nobackfill", "set_no_backfill", "unset_no_backfill"}
Noout     == {"set noout", "unset noout", "set_noout", "unset_noout"}
Besides   == {"llm", "inspect", "restart mon", "restart_mon", "restart mgr", "restart_mgr"}
Asked(m)  == IF HasAny(m, Besides) \/ (HasAny(m, Backfill) /\ HasAny(m, Noout)) THEN {}
             ELSE IF HasAny(m, Backfill) THEN ToSet(BackfillFlags)
             ELSE IF HasAny(m, Noout) THEN {"noout"} ELSE {}
Unsets(m) == HasAny(m, {"unset nobackfill", "unset_no_backfill", "unset noout", "unset_noout"})

\* Whether no one else has changed a cluster, and whether all stands for it.
Alone(w, c) == \A x \in ran : (x.cluster = c /\ Changes(x.op)) => x.by = w
ForAll(m, c) == Has(m, "all") /\ ~\E w \in ToSet(m.except) : <<w, c>> \in Within

\* A message that asks for flags and is answered with no trouble: of the clusters it has
\* changed, and for "all" of every one not excepted while none came or went, the flags
\* are all on or all off as it was written, the three of nobackfill together.
FlagsAsWritten ==
    \A c \in Chats : (outcome[c] = "ok" /\ ~dryRun /\ Asked(said[c]) # {}) =>
        LET m     == said[c]
            meant == {n \in configured : reloads = 0 /\ ForAll(m, n)}
                     \cup {x.cluster : x \in {y \in ran : y.by = c /\ Changes(y.op)}}
        IN  \A n \in meant : Alone(c, n) =>
                IF Unsets(m) THEN Asked(m) \cap flags[n] = {} ELSE Asked(m) \subseteq flags[n]

\* A pod or a port goes down only for a message that confirms it, and a pod only in a
\* cluster typed in full when there is one: never in one whose name is part of it.
ConfirmedAsTyped ==
    \A x \in ran : x.op[1] \in {"delete", "port"} =>
        /\ x.by \in Chats /\ Yes(said[x.by])
        /\ LET typed == Typed(said[x.by]) \cap configured IN
           (x.op[1] = "delete" /\ reloads = 0 /\ typed # {}) => x.cluster \in typed

\* A dry run runs nothing, for a single cluster or many, for chat or web, but what
\* the health page asks for.
DryRunRunsNothing ==
    dryRun => \A x \in ran : x.by \in Pages /\ x.op = <<"ask">>

\* At most one skill runs for the web, and the slot is taken while it does only.
OneSkillForTheWeb ==
    inFlight = Cardinality({p \in Pages : /\ pc[p] \notin {"idle", "done"}
                                          /\ task[p].act.type = "skill"})

\* Once it is answered, a message that has changed a cluster is in the audit log
\* once, with a target that covers the cluster: an error leaves its entry too.
ChatChangesRecorded ==
    \A x \in ByChat : (Changes(x.op) /\ pc[x.by] = "done") =>
        \E i \in DOMAIN audit :
            /\ audit[i].by = x.by
            /\ \A j \in DOMAIN audit : audit[j].by = x.by => j = i
            /\ \/ audit[i].target.kind = "all"
               \/ <<audit[i].target.text, x.cluster>> \in Within

\* Whoever has been asked something answers, unless a session on a node hangs.
EveryRequestAnswered ==
    \A w \in Workers : pc[w] # "idle" ~> (pc[w] = "done" \/ Hanging(w))
==========================================================================
