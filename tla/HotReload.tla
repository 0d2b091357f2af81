---------------------------- MODULE HotReload ----------------------------
(* A running bot whose configuration file is edited: the watcher, the        *)
(* cluster manager and handler it reloads, the inspection scheduler, and     *)
(* the requests that are served meanwhile.                                   *)
EXTENDS ConfigWatcher, ClusterCaches, InspectCron

VARIABLES restStorages  \* Handler.restStorages, by the version it was built from

vars == <<watcherVars, cacheVars, cronVars, restStorages>>

ASSUME SameVersions == Configs = Valid /\ Settings = Valid

TypeOK ==
    /\ WatcherTypeOK
    /\ CachesTypeOK
    /\ CronTypeOK
    /\ restStorages \in Valid

\* main, up to the first line that runs beside the requests.
Init ==
    /\ WatcherInit
    /\ CachesInit(loaded)
    /\ CronInit(loaded)
    /\ restStorages = loaded
--------------------------------------------------------------------------
(* The environment and the watcher on their own. *)

Environment ==
    /\ (\E c \in Contents : Edit(c)) \/ Signal
    /\ UNCHANGED <<cacheVars, cronVars, restStorages>>

Watch ==
    /\ NewWatcher \/ TakeChange \/ TakeSignal \/ Load \/ LoadFails
    /\ UNCHANGED <<cacheVars, cronVars, restStorages>>

(* The callback main registers, in the order it makes its calls. *)

ReloadClusters ==
    /\ Callback("clusters", "kube")
    /\ Reload(loaded)
    /\ UNCHANGED <<cronVars, restStorages>>

ReloadHandler ==
    /\ Callback("kube", "storages")
    /\ InvalidateKubeCache
    /\ UNCHANGED <<cronVars, restStorages>>

ReloadStorages ==
    /\ Callback("storages", IF hasScheduler THEN "scheduler" ELSE "idle")
    /\ restStorages' = loaded
    /\ UNCHANGED <<cacheVars, cronVars>>

ReloadScheduler ==
    /\ Callback("scheduler", "install")
    /\ ReloadCfg(loaded)
    /\ UNCHANGED <<cacheVars, restStorages>>

\* Mutant of InstallScheduler: the reload ends with the hash of the file as it is by then.
InstallThenHash ==
    /\ stage = "install" /\ stage' = "idle"
    /\ lastHash' = disk
    /\ ReloadInstall(loaded)
    /\ UNCHANGED <<disk, sighup, loaded, cacheVars, restStorages>>

InstallScheduler ==
    /\ Callback("install", "idle")
    /\ ReloadInstall(loaded)
    /\ UNCHANGED <<cacheVars, restStorages>>

Watcher ==
    \/ Watch
    \/ ReloadClusters  \/ ReloadHandler \/ ReloadStorages
    \/ ReloadScheduler \/ InstallScheduler

\* main starts the scheduler's goroutine once it has built the watcher.
Starter ==
    /\ stage # "boot"
    /\ StartReads \/ StartInstalls
    /\ UNCHANGED <<watcherVars, cacheVars, restStorages>>

\* Requests are served once main has connected.
Serve ==
    /\ stage # "boot"
    /\ \E p \in Requests : Request(p)
    /\ UNCHANGED <<watcherVars, cronVars, restStorages>>

Next == Environment \/ Watcher \/ Starter \/ Serve

\* The ticker keeps ticking and the goroutines of main are scheduled; nothing
\* is assumed of the requests, of the signals or of who edits the file.
Fairness == WF_vars(Watcher) /\ WF_vars(Starter)

Spec == Init /\ [][Next]_vars /\ Fairness
--------------------------------------------------------------------------
(* Properties. *)

\* An executor or a node list made from a configuration that is not in force is
\* served only because a request that had found its cluster before the reload
\* stored it after; the handler's executors also between two calls of the
\* callback (main.go:108-112, manager.go:38-184, handler.go:117-121,948-967).
OnlyLateStoresAreStale ==
    /\ kubeCache \notin {None, clusters} => "kube" \in late
    /\ nodeCache \notin {None, clusters} => "node" \in late
    /\ botCache  \notin {None, clusters} => "bot"  \in late \/ stage = "kube"

\* Whatever the goroutine of Start and the reloads do to each other, no cron is
\* left running that the scheduler no longer knows: at most one runs, the one
\* in Scheduler.cron (scheduler.go:51-87).
NoCronForgotten ==
    \A s \in Enabled : live[s] = IF s = cron THEN 1 ELSE 0

\* Everything a reload brings up to date holds version c.
Applied(c) ==
    /\ clusters = c /\ restStorages = c
    /\ hasScheduler => cron = IF c \in Enabled THEN c ELSE NoCron

\* An edit that leaves the file with content Load accepts, and that the watcher's
\* hash does not already stand for, is applied everywhere and stays so if it is
\* the last one, whatever signals arrive and whatever edits came before it
\* (watcher.go:37-94).  The scheduler has been started by then.
LastEditApplied ==
    \A c \in Valid :
        [](lastHash # c /\ starter \in {"none", "blocked"} /\ stage # "boot" /\ [](disk = c)
             => <>[]Applied(c))

\* The bot is up and uses what the file holds.
Settled ==
    /\ stage = "idle" /\ disk = lastHash /\ Applied(disk)
    /\ starter \in {"none", "blocked"}

\* What README.md says of an edit: it is reloaded within 30 seconds, so that a bot
\* that was settled uses what the file holds once it is left alone.
FileIsApplied == \A c \in Valid : <>Settled /\ <>[](disk = c) => <>[]Applied(c)

\* What README.md says a reload updates: between reloads no request is served
\* from a cluster configuration that has been replaced.
CachesFollowConfig ==
    stage = "idle" =>
        kubeCache \in {None, clusters} /\ nodeCache \in {None, clusters} /\ botCache \in {None, clusters}
==========================================================================
