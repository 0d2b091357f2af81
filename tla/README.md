# A TLA+ specification of storage-bot

storage-bot is a Go program that answers chat commands and web requests about
Ceph/Rook clusters, keeps a history of scheduled inspections, and switches ports,
flags and daemons on request.  This directory holds TLA+ modules that model its
stateful parts, TLC configurations that check them on small instances, and proofs
that TLAPS checks for every value of the constants.

Paths and line numbers are those of the repository (`inspect/runner.go:60` is
`src/inspect/runner.go`, line 60).  `PROJECT.json` maps every definition that
models code to the lines it stands for.

    tlc -config InspectionOverlap.cfg MCInspectionHistory.tla  # check a run
    tlapm InspectionHistoryProofs.tla                          # check the proofs

## 1. Inventory

### 1.1 Parts, state and operations

| Part | Code | State | Operations |
|---|---|---|---|
| Inspection history | `inspect/runner.go`, `store.go`, `bond_delta.go` | one directory per cluster with a JSON file per report, named by the second it started in | `Runner.Run` (list, load two, collect, judge, save, prune) |
| Inspection fan-out | `inspect/runner.go:129-181`, `inspector.go`, `report.go` | the report being built; a semaphore, a mutex, a WaitGroup | `runWith`, `Finalize` |
| Inspection batches | `inspect/scheduler.go:90-148`, `summary.go`, `bot/handler.go:783-862` | the results of a batch, its summary, cards | `tick`, `handleInspect`, `NotifyReport`, `NotifySummary` |
| Scheduler | `inspect/scheduler.go:27-88`, `main.go:162` | the configuration and the cron in use | `Start`, `Reload`, `install` |
| Configuration watcher | `config/watcher.go`, `config/config.go`, `main.go:108-160` | the hash of the file, the pending SIGHUP | `poll`, `fileChanged`, `reload`, `Load`, the callback of main |
| Cluster manager, executor caches | `cluster/manager.go`, `bot/handler.go:948-967` | the cluster map, two caches under its lock, a third in the handler | `Reload`, `FindByPrefix`, `KubeExecutor`, `ResolveSSHNodes`, `getKubeExecutor`, `InvalidateKubeCache` |
| Audit log | `security/audit.go` | a ring buffer with head and count | `Record`, `Recent` |
| Chat commands, web API | `bot/handler.go`, `bot/web_api.go`, `intent/parser.go`, `web/` | the LLM switch, one flag for a running web operation | `HandleMessage`, `ParseWithAll`, `dispatch`, broadcasts, `handleRun`, `handleClusterRoutes` |
| Bond port skills | `skill/builtin.go:351-619` | none of their own: the bonds of a node | `NICDown`, `NICUp` |
| Other skills | `skill/builtin.go`, `skill/skill.go` | none: flags and daemons of a cluster | `no_backfill`, `noout`, restarts, queries |
| Yanrong storage | `storage/`, `cmd/yrfsctl`, the storage pages of `web/server.go` | a bearer token per backend; recycle bins on the service | `ensureToken`, `authedGet`, `authedPost`, `listPaginated`, `ListRecycleFiles`, `ClearRecycleFiles`, quotas |
| Report migration | `inspect/migrate.go`, `cmd/inspectctl` | the same directory, from another process | `MigrateStore`, `RewriteReport` |
| Inspectors and parsers | `inspect/ceph*.go`, `inspect/hardware*.go` | none | text to findings |
| Validation | `security/validator.go` | none | string matching |
| Executors | `executor/` | connections | SSH and Kubernetes calls |
| LLM analysis, cards | `analyzer/`, `card/` | none | a remote call, a layout |

### 1.2 How the parts interact

* main loads the file, builds the manager, the handler, the watcher and, if
  inspection is enabled, the scheduler, and starts a goroutine for each of them.
* The watcher's goroutine polls the file every 30 seconds and waits for SIGHUP.
  A reload reads the file *again* and then calls, in this order,
  `Manager.Reload`, `Handler.InvalidateKubeCache`, `Handler.ReplaceRESTStorages`
  and `Scheduler.Reload`.  Requests run beside it and see every state between.
* The cron of the scheduler, a chat command and a second tick may run
  `Runner.Run` for the same cluster at the same time.  They share nothing but the
  history directory, for which there is no lock.
* A run asks the manager for an executor and nodes and fans out over SSH.  Its
  report goes to the history, to the caller, and to the chat as a card.
* Every chat command is recorded in the audit log, which the web page reads.
* A message and a page become the same skills (`handleSkill`, `RunSkillForWeb`) on the
  same clusters, with no lock between them; only web runs exclude each other.
* Chat and web share one backend, and so one token, per Yanrong storage; `yrfsctl` is a
  process with a backend of its own.

### 1.3 What is hard here

Concurrency without a common lock (the history directory; the two caches of the
manager, which are checked under one lock and filled under another), state read
once and used later (the listing that prune works from, the names of a batch, the
configuration a request found), failures in the middle of a sequence (a file that
was truncated and not written; a cluster that cannot be reached), crashes, a
level `Unknown` whose number and whose severity disagree, the order of the calls of a
reload, words and phrases that occur in each other (`set noout` in `unset noout`, one
cluster's name in another's), and a remote service whose tokens expire, whose listings
move while they are read, and whose answers get lost.  `PROJECT.json` lists each hazard at its line with the
property that would catch it, or the reason none does yet.

### 1.4 What makes each part correct

| Part | Property |
|---|---|
| Inspection history | a growth of a node's link failures is never recorded as quiet without an alarm somewhere; the two promises of the comment on `applyBondDelta`; prune removes only what is old at that moment |
| Fan-out | a report holds every finding, at most `maxNodePar` nodes are open, the overall level is the worst by severity, and the call returns |
| Batches | the summary accounts for every target; reloads disturb only the clusters they change |
| Scheduler | one cron at most, that of the configuration in force |
| Watcher | the last edit reaches every part |
| Caches | nothing made from a replaced configuration is served (not so: see 4.2) |
| Audit log | the last entries, in order, before and after the ring wraps |
| Commands | a cluster is changed only if the message stands for it; an answer with no trouble means all flags are as written on all clusters meant; a restart goes to the cluster typed in full and is confirmed; a dry run runs nothing; one skill for the web; what changed a cluster is in the audit log |
| Bond ports | no command takes the last working link of a bond down |
| Yanrong | what is cleared was asked for, once, from the deepest bin that covers the path; a retry after a 401 carries a fresh token; calls do not log in for nothing; every call ends |
| Migration | no old count is left behind by a walk that met no error; the inspections after it keep the promises of the bond comparison; a running bot's reports survive it |

## 2. Plan

Modules in the order of their importance.  Those marked * are written.

1. * `Severity`, `BondDelta`, `InspectionHistory`: what an operator is told of a
   failing link.  Proofs in `InspectionHistoryProofs`.
2. * `NodeFanOut`: the concurrency inside one inspection.  Proofs in
   `NodeFanOutProofs`.
3. * `ConfigWatcher`, `ClusterCaches`, `InspectCron`, composed by `HotReload`.
   Proofs in `HotReloadProofs`.
4. * `AuditTrail` (abstract) and `AuditLog` (the ring), with the refinement
   checked and proved (`AuditLogProofs`).
5. * `ClusterNames`, `InspectBatch`: batches across reloads.  Proofs in
   `InspectBatchProofs`.
6. * `BondPorts`: `nic_down` and `nic_up` as probe, check and execute, two at a time,
   with links that fail between them: the guarantee of `skill/builtin.go:438-441` and
   the conditions under which it holds.  Proofs in `BondPortsProofs`.
7. * `StoragePaths`, `StorageCommands`, `Yanrong`: the token under concurrent calls, the
   retry after 401, the paginated listing and the clear it precedes, with the three
   ways to ask for it.  Proofs in `YanrongProofs`.
8. * `IntentParser`, `CephSkills`, `Commands`: from a message or a page to the steps on
   the clusters, with the LLM, dry runs, broadcasts, the audit entry and the single web
   operation.  Proofs in `CommandsProofs`.
9. * `ReportMigration`: `InspectionHistory` with a second process, `inspectctl`, that
   rewrites old reports.  Proofs in `InspectionHistoryProofs` too, which share the
   lemmas about a run's steps.
10. The inspectors' classifiers (`evalPCIeLinks`, `parseSmart`, `parseLoad`,
    `parseNIC`, the Ceph health parsers) as operators: last, since they are pure and
    have a unit test for each format.

Every invariant and every action property of a run is proved; section 5 says along which
argument, and why the liveness properties are left to TLC.

## 3. The modules and the code

### 3.1 `Severity`, `BondDelta`, `InspectionHistory`

`Severity` is `inspect/inspector.go:10-75`: the four levels as numbers and
`MaxLevel`, which orders them by severity (`Unknown` is number 3 and is less severe
than `Warn`).  `BondDelta` is the `hw_bond` item of a node: `parseBond` gives a
level to what was read, and `applyBondDelta` lowers a warning when the counter has
not grown against either of the two latest reports.

`InspectionHistory` is `Runner.Run` (`runner.go:60-126`) with its store.  A run is
a process; each file system call is a step, since nothing keeps two runs apart:

| Action | Code |
|---|---|
| `List`, `ListError` | `recentReports` and `Store.List` |
| `LoadFirst`, `LoadFirstError`, `LoadSecond`, `LoadSecondError` | `Store.Load`: what is read, and an error with a report that is there to be read; in both cases a report that cannot be loaded is no baseline, and the run goes on |
| `Start` | `StartedAt`, taken after the history has been read |
| `Collect` | `runWith` and `applyBondDelta` on the run's own report |
| `SaveOpen`, `SaveWrite`, `SaveError` | `Store.Save`: `os.WriteFile` truncates, then writes; either may fail |
| `PruneList`, `PruneListError`, `PruneRemove`, `PruneDone` | `Store.prune` with the listing it makes, one `os.Remove` a step, newest name first; a failed removal is ignored |
| `Return` | the caller gets the report, saved or not |
| `Tick`, `LinkFails`, `Reboot`, `Crash` | the clock, the nodes, a kill |

A report is one `hw_bond` finding per node: no other finding depends on the
history.  A file is a report, absent, or one that cannot be read: empty, or garbled by
two runs that had it open at once.  A file that is pruned while it is open stays removed.  `flagged` is a history
variable: the highest total any report that someone could see had an alarm for.

### 3.2 `NodeFanOut`

`runWith` (`runner.go:129-181`): cluster inspectors in turn, then one goroutine per
node, with the semaphore (`Acquire`, `Release`), the mutex (`Lock`, `Unlock`), the
WaitGroup (`Spawn`, `Done`, `Return`) and the append as a read and a write.  An
inspector yields a finding of any level or an error, which leaves nothing.

### 3.3 `ConfigWatcher`, `ClusterCaches`, `InspectCron`, `HotReload`

`ConfigWatcher` is the goroutine of `config/watcher.go`, with the file, its hash and
the signal channel of capacity one.  Content stands for what SHA-256 can tell apart;
`Load` accepts it or not.  `ClusterCaches` has one cluster and the requests for it: a
request keeps the configuration that `FindByPrefix` gave it while it checks a cache
under one lock and stores under another (`manager.go:113-184`), or does both in the
handler's single critical section (`handler.go:948-967`).  What a cache holds is known
by the version it was made from.  `InspectCron` is `Start`, `Reload` and `install`;
`live` counts cron goroutines that were started and not stopped.

`HotReload` composes the three by the chain of calls of main's callback
(`main.go:108-119`): `ReloadClusters`, `ReloadHandler`, `ReloadStorages`,
`ReloadScheduler`, `InstallScheduler`.  Requests, edits, signals and the goroutine of
`Start` interleave with each.  A scheduler that was not built at startup is never
built: `hasScheduler` skips the last two steps, as the code's nil check does.

### 3.4 `AuditTrail`, `AuditLog`

`AuditLog` is the ring of `security/audit.go`.  `Record` and `Recent` hold the mutex
from the first access to the last, so each is one step.  `AuditTrail` is what it
promises: a sequence cut to its last `MaxSize` entries.  `ImplementsTrail` maps `kept`
to the ring read from its oldest entry round to its newest.

### 3.5 `ClusterNames`, `InspectBatch`

`ClusterNames` is `FindByPrefix` and `ListByPrefix` (`manager.go:83-131`): an exact
match of the lower-cased input, else the only name that contains it.  Names are model
values with two relations, their lower case and containment.  `InspectBatch` is the
loop of `tick` (`scheduler.go:91-130`) and that of `handleInspect`
(`handler.go:783-813`): the targets are taken once, each is looked up when its turn
comes, and `Reload` may replace the list at any point.  The order of the targets is
left open, since that of the map is.

### 3.6 `BondPorts`

`NICDown.Execute` and `NICUp.Execute` (`skill/builtin.go:450-605`) on one node.  A
command is asked, reads the bonds in one SSH session, decides, and acts in a second;
each message has a goroutine of its own (`main.go:123`).  `Probed` is what grep prints
of `/proc/net/bonding`, line by line, and `parseBonds` reads it as the code does, with
the guard that keeps a bond's own status from the last port of the bond before it.
`taken` is a history variable: the ports the bot has down.  The kernel's MII status is
modelled as that of the moment (the port is up and its link is good); commands that
name no node, several nodes or an illegal interface are answered before any session
and are left out.

### 3.7 `IntentParser`, `CephSkills`, `Commands`

`IntentParser` is `intent/parser.go`.  A message is its words in order, the phrases of
several words in it, and what follows "except" and "cluster"; what a text is to the
parser is given by relations (which keyword occurs in which word or phrase, which
cluster's name a word is part of, which words look like a host, an interface or an id).
So every substring test of the code is a test here, and no text is spelled out.  The
alias table and the order of the cases are the code's.  The parser gets the clusters in
the order of a map, so an operator takes the order and `Readings` has all of them.

`CephSkills` says what each skill of `skill/builtin.go` comes to on a cluster: a *plan*,
a sequence of steps, each with what it does (set or unset a flag, delete a pod, take a
port down, change the upmap, only ask) and what its failure means: a line of the
answer, the end of the plan, or an error.  Consecutive commands that only read are one
step.

`Commands` is `bot/handler.go` and the health and run pages.  A worker is the goroutine
of a message or a page:

| Action | Code |
|---|---|
| `Receive`, `AskLLM` | `HandleMessage` with `IsBotMentioned`, `ParseWithAll`, `NeedsFallback`, `ParseWithLLM` |
| `Answer`, `ToggleLLM`, `Elsewhere` | `dispatch` for what runs nothing on a cluster here |
| `HandleCluster`, `HandleSkill` | `handleHealth`, `handleLogAnalysis`, `handleNodeDiag`, `handleSkill` up to the clusters to go |
| `NextCluster`, `ClusterDone`, `AllDone` | the loop of `handleSkillOnClusters`, `runSkillOnCluster`, dry run included |
| `RunStep`, `StepFails` | one command of a skill; a failure before or after its effect |
| `Submit`, `LookUp`, `Release` | `handleRun` with its compare-and-swap and deferred release, `RunSkillForWeb`, `GetClusterHealth` |
| `Record` | `AuditLog.Record`, with the status that the error gives |
| `Reload` | `Manager.Reload`, between any two steps |

`said`, `outcome` and `ran` are history variables.  "trouble" is an answer that came
without an error and has a line that tells of one: the audit log does not know it.

### 3.8 `StoragePaths`, `StorageCommands`, `Yanrong`

`StoragePaths` is `normalizeQuotaPath`, the prefix tests on components,
`pickRecycleForPath`, `checkUserDirPath` and `ResolveUserPath`: a raw path keeps its
empty parts, dots and trailing slash, and a clean one does not.  A word of a message has
the keywords that occur in it, those it begins with and the one it is: `Query` looks for
keywords in the whole message, `parseUserScope` for words that are one.  `StorageCommands` turns
a chat message (`RESTSkill.Query`), a page (`handleStorageRoutes`) and a command line of
`yrfsctl` (with its flags, environment and configuration) into one request, or none.

`Yanrong` is the backend.  The mutex of the token is released between the steps of a
call, so each of these is one:

| Action | Code |
|---|---|
| `Start` | `Query`, a page or a command, and what is refused before anything is sent |
| `UseToken`, `Login`, `LoginFails` | `ensureToken`: the whole login under the mutex |
| `Unauthorized`, `DropToken` | `authedGet` and `authedPost` at a 401: the second one is the error |
| `GetPage`, `Listed` | a turn of `listPaginated` and what the caller does with the list |
| `Act` | the overview, the files of a bin, or the clear |
| `Fails` | every other failure, before or after the storage did what was asked |
| `Expire`, `CreateBin`, `RemoveBin` | the storage, which is not in the repository |

A listing is read page by page while bins come (at its front) and go; the total that the
storage reports may be right, missing or too high.

### 3.9 `ReportMigration`

The bot of `InspectionHistory`, with cron as its only caller (`Paced`), and beside it
`MigrateStore` on the same directory.  An old report has no totals; what the summary of
its finding tells is in `text`.

| Action | Code |
|---|---|
| `MigrateList`, `MigrateLoad` | the loops of `MigrateStore`, from the newest report to the oldest, with `MigrateReport` on what was loaded |
| `RewriteOpen`, `RewriteWrite` | `RewriteReport`: `os.WriteFile` truncates, or creates what prune has removed, and writes |
| `FileError`, `MigrateKilled` | an error in a result; a kill during the walk |

`early` is a history variable: the reports whose runs read the history before the
migration was done with it.  They are compared with reports that had no total yet, and
the promises do not hold for them: this is the reason to stop the bot for the migration,
which nothing in the repository asks for.

`missed` and `unread` are history variables too: the readable reports that a run failed to
load although it had another one to compare with, while it is under way and, afterwards,
with the report it wrote.  Such a run judges by the other report alone
(`runner.go:111-116`).  Of the totals 3, 1 after a reboot, and 2, with the second report
lost, it sees 2 after 3 and is quiet; of 0, 1 and 1, with the first lost, it sees no growth
where the report before it saw one.  So `RecentGrowthFlagged` excepts a growth since a
report that the run lost, and `GrowthFlaggedTwice` the lost report that a growth is counted
from; both fail without these exceptions.  A lost report that is not the one in question
excuses nothing, and a run that lost both reports warns of every count and needs no
exception.  `NoSilentGrowth`, `PruneKeepsNewest` and `MigrationComplete` hold whatever fails
to load.

The two promises are about the reports that prune keeps (`Kept`).  `Prune` goes on when
a file cannot be removed (`store.go`), so a report that should be gone may survive the
ones after it and become the neighbour of a report it was never compared with.  With
`Keep` 3 and four seconds this does not happen yet; with `Keep` 1 it does.

## 4. The runs

### 4.1 Runs that pass

| Run | Instance | What it asks |
|---|---|---|
| `inspection_overlap` | 1 node, 2 runs, `Keep` 1, 2 seconds, totals to 2 | whatever two runs do to each other's files, with crashes, failed writes and names that collide, `NoSilentGrowth` and `PruneKeepsNewest` hold |
| `inspection_migration` | 1 node, 1 run at a time, at most one report per second, `Keep` 3, 4 seconds; no old report and totals to 2, or 2 old reports, a migration and totals to 1 | with cron as the only caller, `RecentGrowthFlagged` and `GrowthFlaggedTwice`: both promises of the comment at `bond_delta.go:18-20`, for the new and migrated reports that prune keeps, but for a baseline the run failed to load (3.9); `NoSilentGrowth` with old reports; `MigrationComplete` |
| `fan_out` | 3 nodes, 2 slots, 1 cluster item, 1 node item | `NothingLost`, `BoundedFanOut`, `OverallIsWorst`, and that the call `Returns` |
| `hot_reload` | 3 contents (enabled, disabled, broken), 1 request | `OnlyLateStoresAreStale`, `NoCronForgotten`, `LastEditApplied` |
| `audit_ring` | 3 slots, 3 entries, readers asking for -1 to 4 | `RingShape`, `ImplementsTrail` |
| `inspect_batch` | 3 names: one part of another, one in capitals | `SummaryAccounts`, `UntouchedInspected` |
| `bond_ports` | a bond of 3 ports and one of 1, 2 commands at once | `TakenBounded`: no more ports of a bond are down, or about to be, than there are commands at once; `LastLinkGuarded`: the last good link goes only from a bond that has one port or lost a link after the check |
| `commands` | 3 clusters, one name part of another; one of 26 messages that change or ask, beside a restart, the LLM switch or one of 6 web requests | `ChangesAreNamed`, `FlagsAsWritten`, `ConfirmedAsTyped`, `DryRunRunsNothing`, `OneSkillForTheWeb`, `ChatChangesRecorded`, and that every request is answered |
| `yanrong` | 2 calls, one of any message, page or command line, the other a clear; bins for the root and a directory, one that may appear in it; pages of 2 | `ClearedAsReported`, `ClearsWereAskedFor`, `MostSpecificBin`, `RetryIsFresh`, `LoginsArePaid`, and that every call returns |

Why the bounds are enough.  Nodes share nothing in a history, so one suffices, and
the proofs are for any number.  `Keep` 1 with two seconds makes every report a
candidate for pruning and every pair of runs a possible collision; the two promises
about the history need three reports and one more for a reboot, hence four seconds.
Totals to 2 give a growth, a second growth and a reset; where old reports begin the history totals to 1 keep
the run small, and their two reports are what the next inspection compares with.  For the
same reason `Small` allows one partial loss at a time (one of two baselines fails to load)
in a history of new reports, and none where old reports begin it: one is what each of the
two exceptions is about; the proofs have no such bound.  Three nodes over two
slots leave one waiting.  In `hot_reload` two valid contents are what an edit and its
opposite need; two requests were tried as well without the liveness property (the
invariants hold, in 6.8 million states), and the proof of `OnlyLateStoresAreStale` is
for any number.  Three slots and requests past both ends take the ring through a whole
turn with each offset.  Three ports are one more than the two commands could take, and
the bond after it puts a status line where it could be read for the wrong port.
Three names have every relation the search distinguishes.

In `commands` two requests at a time (`MaxRequests` 2) are what an interference needs:
one message beside another one, two web runs for one slot.  One reload (`MaxReloads` 1)
takes away or brings the cluster whose name contains another's.  The messages have each
skill's kind of plan, each way to name a cluster (in full, by part, by number, all,
all but), each confirmation present and missing, and words that occur in others.  In
`yanrong` two events at the storage (`MaxFaults` 2) are the expiry of a token and of the
one that replaced it, an expiry beside a bin that goes or the deeper one that comes, or
two such changes, between any two steps, and three bins make a second page of two entries; a third page
(`MaxPage` 3) is the empty one that ends a listing with too high a total.  A third call
adds no new pair of steps to the token.

`CHECK_DEADLOCK FALSE` is set where the model ends: a clock at its bound, a fan-out
that has returned, a batch that is over.

### 4.2 Runs that find a violation

* `stale_cache`: a request finds its cluster, a reload replaces it and empties the
  caches, and the request stores what it made of the old one
  (`manager.go:174-182`, `handler.go:948-967`).  It is served until the next reload.
  `README.md:447` says a reload updates the clusters and their SSH nodes.
  `OnlyLateStoresAreStale`, which is proved, says this is the only way.
* `lost_reload`: a reload for SIGHUP does not update `lastHash`
  (`watcher.go:50`).  Edit, SIGHUP, edit back before the next poll: the poll sees the
  hash it knows, and the bot stays on the edit that was taken back, for ever.
  `LastEditApplied` states what does hold: the edit is applied if its content
  differs from `lastHash`.

* `double_down`: two `nic_down` commands for the two ports of a bond both read it
  before either acts, both pass the check of `builtin.go:494`, and the bond is down.
  `builtin.go:439-441` and `README.md:150` say this cannot happen.  One command after
  the other never does it: that is `TakenBounded` for one command.

Seven further divergences have no run of their own; the modules model what the code does.

* `handleInspect` keeps the numerically highest level (`handler.go:807`): with one
  cluster `Warn` or `Critical` and another `Unknown` the chat answer is green, though
  `inspector.go:63-65` says `Unknown` shall not look worse than a warning.  The scheduled
  batch sends a card per report and is not affected.
* `runner.go:93-95` says that an unreadable store degrades to a one-time baseline warning.
  It does when the listing or both reports are lost; with one lost there is no warning,
  and a growth may be judged OK (3.9).
* `notify_min_level`, which `README.md:240` and `README.md:382` describe, is no key of
  `config.InspectConfig`; a summary is sent after every batch.
* `extractClusterTarget` looks for a word that occurs in several names before it looks
  for a name (`parser.go:462`): with `cdn-01` and `cdn-01-test`, "set nobackfill cdn-01"
  goes to both, against `parser.go:422`.
* An inspection of all clusters and a REST storage command have no cluster name
  (`handler.go:158`): an enabled LLM's answer, which can be neither, replaces them.
  `ChangesAreNamed` shows that nothing is changed on that way.
* A ceph command that fails is a line of the answer and no error (`builtin.go:679`): the
  audit entry says ok.  Web runs have no entry at all, against `README.md:433`.
* `ClearStorageRecycle`, `GetClusterHealth` and `handleInspect` do not look at
  `dev.dry_run` (`web_api.go:154`), against `config.go:59`.

### 4.3 Mutants

For each property of a passing run the modules hold one mutated form of a
definition (`NewestOnly`, `OlderByOne`, `LockMissing`, `InstallThenHash`, ...), the
change a plausible bug would make; `PROJECT.json` names them.  Put in the place of the
definition, it makes TLC find that property violated in the same configuration.

### 4.4 Fairness

* `NodeFanOut`: weak fairness of the caller and of each goroutine.  Go's scheduler
  runs every runnable goroutine; weak fairness is enough although slots and the
  mutex are contended, because every holder gives them back once and no goroutine
  asks twice.  It also assumes that an inspector returns.  The code does not
  guarantee this: `runSession` (`executor/ssh.go:200`) ignores its context, and a
  command that hangs keeps the report from being returned.
* `HotReload`: weak fairness of the watcher's goroutine, whose ticker keeps firing,
  and of the goroutine of `Start`.  Nothing is assumed of requests, signals or edits.
* `Commands`: weak fairness of each worker.  A worker is a goroutine and waits for no
  other; a chat command gives up after two minutes, a web run after its own limit, and
  ceph commands end with their context.  The LLM fallback comes before the two minutes
  begin (`handler.go:160`) and its context has no deadline: the OpenAI client gives up
  after 120 seconds, while for Claude nothing in the repository sets a limit
  (`analyzer/claude.go:33-37`), so that there the fairness rests on the SDK's own.  A session
  on a node does not (`executor/ssh.go:207`), nor does an inspection, which opens such
  sessions: `Hanging` takes these out of the fairness, and the property allows for
  them.  Nothing is assumed of messages, pages or reloads.
* `Yanrong`: weak fairness of the calls together, not of each.  Every HTTP request has a
  timeout and the mutex is held for one login, so some call goes on as long as one
  can; that is enough, because no call can be sent back more than once for a request,
  and a listing ends at an empty page.
* The other specifications state safety only.

## 5. The proofs

TLAPS checks these for every value of the constants that meets the named assumptions
of the modules (`KeepAssumption`, `FileAssumption`, `SizeAssumption`,
`NoneAssumption`, `SettingsAssumption`, ...).

* `TypeCorrect` (`InspectionHistoryProofs`): the type invariant, one step per action.
* `NoSilentGrowthTheorem`: any number of nodes, runs and seconds.  The property alone
  is not inductive: a run holds baselines and a judged report that later reach a file.
  `Covered` adds that baselines in hand, and totals judged quiet, are at most
  `flagged`.  The heart is `QuietIsCovered`: a finding `applyBondDelta` leaves quiet
  has a total that is no more than one of its baselines, or zero.
* `PruneKeepsNewestTheorem`: `VictimsOutdated` says that each name on a run's list
  has `Keep` newer names *now*, not when it was listed.  Saving adds names
  (`AdditionKeepsNewer`).  Removing is the difficult case: if another run removes
  some of the newer ones, each removed name has `Keep` newer ones itself, and the
  latest of them keeps all of its own (`RemovalKeepsNewer`).
* `RingShapeTheorem`, `ImplementsTrailTheorem` (`AuditLogProofs`): the invariant is
  `TypeOK` and `RingShape`; each action is shown to be a step of `AuditTrail` under the
  mapping.  `ModOneTurn` is the arithmetic of the ring, `RecordFills` and
  `RecordOverwrites` the two cases of `Record`, `RecentIsTail` the answer.
* `StaleTheorem` (`HotReloadProofs`): inductive as it stands, for any number of
  requests and versions.
* `NoCronForgottenTheorem`: with the type of `cron` and `live` (`OneCron`), since
  `install` is one critical section.
* `UntouchedTheorem` (`InspectBatchProofs`): with the fact that what is `stable` is
  still configured (`Untouched`); an exact match wins over any containment.
* `SummaryTheorem` (`InspectBatchProofs`): the counts add up to the targets done, one
  more of both for each target, whatever its outcome.
* `HotReloadTypeCorrect`, `AuditTypeCorrect`, `BatchTypeCorrect`: the type invariants.

**The migration** (`InspectionHistoryProofs`), for any nodes, `Keep`, number of old reports
and bounds.

* `MigrationTypeCorrect`, `MigratedSilentGrowth`, `MigratedPrune`: the invariants of the
  first two items above survive a second process that writes the same files, with the
  counts of the old texts and of the report in hand bounded by `flagged` as well
  (`ToldCovered`), for any number of runs at a time.
* `MigrationCompletes`: `TextsAreOld` says that a run writes under a later second than any
  old report's, and `Walked` that an old report holds no total or its own, and its own once
  the walk is past it.  Both are needed: without the first a run could put a report in the
  place of an old one.
* `RecentGrowth` and `GrowthTwice` assume one run at a time (`SingleRun`; `Paced` has at
  most one per second): cron as the only caller.  With two runs the promises do not hold,
  and are not made: the later one may save first.  Their invariant is `WindowInv`.
  `WindowFlagged` is the property in a form a step can preserve: two reports with at
  most one name between them (`Close`), the earlier one kept by prune; the later one warns if
  its count is higher.  What makes it inductive is what a run has in hand at each of its
  steps: its second has no file yet and is later than every name (`Newcomer`); its baselines
  are what the two newest reports still hold, or it has none and warns of every count
  (`Informed`, `Rested`), but for what it failed to load, which is in `missed` and, once it
  has written, in `unread` (`MissedStays`); a report that was read too early is one of the
  exceptions of the property (`UntoldAreEarly`); an old report warns of what its text tells
  (`OldAreLoud`).  `PrunedGrowths` shows that what prune removes brings no two kept
  reports together that were not close before.

**The fan-out** (`NodeFanOutProofs`), for any finite set of nodes, any numbers of
inspectors and any `MaxPar`.  `FanOutInv` adds to the types: the semaphore counts the
nodes between acquire and release and the WaitGroup those that are not gone (`Counters`,
which needs the set of nodes to be finite); at most one node is between lock and unlock
and it holds the mutex (`Exclusive`); what was produced is in the report, in a node's
hands or in its local copy, and a copy that was read under the mutex is still that of
the report (`Accounted`); a report that is judged is judged at its worst (`Judged`).  From it
`FanOutIsBounded`, `FanOutLosesNothing` and `FanOutJudgesTheWorst`.

**Yanrong** (`YanrongProofs`), for any number of calls, any requests, paths, listings and
page size.

* `NormalizeIsClean`, `NormalizeIsIdempotent`: facts about a fold over a path of any
  length.  The library's induction takes an operator as a parameter, which no prover here
  can instantiate; `NatSetInduction` has the property as a *set* of numbers instead, and
  follows from the well-foundedness of `<`.
* `RetriesAreFresh`: by `Renewed`.  A call that was answered with 401 finds, until the
  storage expires a token again, only a good token or none in the cache: what it dropped
  is what it was refused with, never what another call got since.
* `LoginsArePaidFor`: by `Paid`.  Every login fills an empty cache, and a cache is emptied
  by a call that holds a 401 nobody has paid with yet.
* `BinIsMostSpecific`: by `Paged`.  While no bin comes or goes, the pages a call has got
  are the beginning of the listing, so at the end it has all of it, and
  `pickRecycleForPath` takes the deepest that covers the path.
* `ClearsAreAskedFor`, `ClearsAreReported`: by `Permitted` and `Situated`.  A clear that is
  under way was confirmed and is strictly under a user prefix; it is sent once, since
  only a 401, which clears nothing, leads to a second request.

One assumption ties a bound to the others: `MaxPage` pages hold every bin there can be
(`Len(FirstBins) + MaxFaults <= MaxPage * PerPage`).  `listPaginated` has no limit of pages;
with a smaller bound the model would ask for its last page again where the code goes on
to the next.

**The bonds** (`BondPortsProofs`), for any bonds and ports and any finite set of commands at
once.

* `ParsedAsProbed`: what `parseBonds` makes of grep's output is the bonds with their ports
  in order, each with its own status.  It is two inductions, over the ports of a file
  (`FileIsRead`) and over the files; between them `HasRead` says how far the reading has
  come, and that the last port read is of an earlier bond when a new file begins, which
  is why the status of the bond itself is nobody's.  `ReadConcat` reads two outputs in a
  row.
* `BondPortsTypeCorrect`: with `Placed`, since `ip link` is called for a port of a bond only.
* `TakenIsBounded`: inductive with `TakenAreDown`.  A command is allowed only when none of
  its bond's ports is down, hence none is taken (`Allowed`); the commands pending are at
  most all there are; and each, when it acts, exchanges one pending for one taken.
* `LastLink`: by `Assured`.  A command whose bond has lost no link since it read it finds all
  ports of the bond live when it acts, so that only the single port of a bond can be
  the last.

**Commands** (`CommandsProofs`), for any clusters, messages, forms, skills, storages and
answers of the LLM, any number of workers and reloads.  The parser is proved about once
per skill and not once per message: `Stands` is what an action in hand has to do with its
message (a target that it mentions, "all" only if it says so, the clusters excluded, a
confirmation), and `SkillStands` shows it of everything `ParseWithAll` yields.
`SkillPlanSteps` and its like say what the plans of `CephSkills` may hold.  The
invariant follows a worker from there: who waits for the LLM or is dispatched has an
action its message stands for (`Understood`), or that of its form (`Formed`); a skill is
only at clusters that its target covers, and a restart at one that was typed (`Aimed`);
the steps to go are what the action has it do, and none in a dry run (`Planned`); what was
sent is covered by what is in hand until the answer (`Carried`), and who has no answer yet has
no audit entry (`Unrecorded`); the slot of the web is taken by the one page whose skill runs
(`OneSlot`).  `NextWorks` reads `Next` as six kinds of steps, so that each part is proved
against these.  From it `ChangesNamed`, `Confirmed`, `DryRun`, `OneWebSkill`,
`ChangesRecorded` and the types.

`FlagsWritten` goes the whole way from the text to the flags, and needs the rest.

* What is asked: `FlagReading` shows that a message with a flag command and none besides is
  read as the skill of that command, whatever the clusters are called: only the LLM switch and
  the inspections are read before `skillAliasTable`, of which only the two restarts come
  before the flags, and unset before set.  Of a message with
  several commands the parser takes one, by the order of its table and not of the text
  ("unset noout set nobackfill"), so that nothing can be promised; `Asked` leaves it out.
  The theorem also assumes that the four flag skills are registered, as `skill.go` does.
* `AllInHandBy`: a message for "all" is never left to the LLM, which takes one cluster only.
* `StepsAskedBy`, `SentAskedBy`: what changes anything, to come or sent, is what was asked.
* `ReachedBy`: with no trouble so far, a cluster that is meant is among those left or has had
  every step, and the one under way has had each step or has it to come.  That `Many` is
  listed whole, that only a dry run or trouble passes a cluster over and that "no cluster
  left" is said only when there is none (`NothingLeft`) is what it rests on; `Smooth`
  lists the steps that are possible with no trouble.
* `InForceBy`: where no one else has changed the cluster, what was sent is in force; the steps
  of one message never undo each other, since all of them set or all unset (`InForceAfter`).

`NamesAssumption` and `CommandsAssumption` say what the texts behind the model values
satisfy: containment of names is transitive, a lower-cased name is its own lower case
and each contains the other, what is typed is not empty, there are finitely many clusters, and
the flag skills are registered.

Only model-checked:

* `Returns`, `LastEditApplied`, `EveryRequestAnswered` and `EveryCallReturns`: liveness,
  which the proof system cannot treat (fairness and ENABLED).

The modules have no recursive operators.

## 6. What is not modelled

* The inspectors' parsers: see 10 of the plan.  A second migration after one that met an
  error: it is the first one with fewer old reports.
* Cards, prompts, help texts, the overview of a Yanrong storage and pages that only show
  something: formatting without state.  The page of a cluster's nodes asks for its
  executor, which `ClusterCaches` has; `POST /api/inspect/` is one more caller of
  `Runner.Run`, and `InspectionHistory` does not tell them apart.
* `security/validator.go` but for `ValidateCephCommand` on what changes a cluster: string
  matching without state.
* The Chinese synonyms of a keyword: an English one stands for them.
* In `Yanrong`, the path as it is sent: the code checks the cleaned path and sends the
  text it was given, with a slash at its end; the storage is taken to read the two as
  the same directory.
* The executors and the LLM: network calls; their failures are outcomes of the
  modules that use them.
* Within the modelled parts: what `Load` validates (reduced to accept or reject),
  the torn read of `Scheduler.cfg` (assigned and read with no lock: a late read by
  `Start` is modelled, half an assignment is not), the stop at shutdown,
  `InvalidateNodeCache`, which has no caller, and findings other than `hw_bond` in
  the history.
