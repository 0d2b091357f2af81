------------------------- MODULE HotReloadProofs -------------------------
(* Proofs about HotReload, for any number of concurrent requests, versions   *)
(* of the file and settings.                                                 *)
EXTENDS HotReload, TLAPS

(* A request stores its own configuration's executor or nodes, and is marked *)
(* late if that is not the one in force (manager.go:114-184).                *)
LEMMA RequestKeepsStale ==
    ASSUME OnlyLateStoresAreStale, NEW p \in Requests, Request(p), UNCHANGED stage
    PROVE  OnlyLateStoresAreStale'
<1>1. CASE Find(p)
  BY <1>1 DEF Find, OnlyLateStoresAreStale
<1>2. CASE GetBotExecutor(p)
  BY <1>2 DEF GetBotExecutor, Stored, OnlyLateStoresAreStale
<1>3. CASE CheckKube(p)
  BY <1>3 DEF CheckKube, OnlyLateStoresAreStale
<1>4. CASE StoreKube(p)
  BY <1>4 DEF StoreKube, Stored, OnlyLateStoresAreStale
<1>5. CASE CheckNodes(p)
  BY <1>5 DEF CheckNodes, OnlyLateStoresAreStale
<1>6. CASE StoreNodes(p)
  BY <1>6 DEF StoreNodes, Stored, OnlyLateStoresAreStale
<1>7. CASE MakeFails(p)
  BY <1>7 DEF MakeFails, OnlyLateStoresAreStale
<1> QED
  BY <1>1, <1>2, <1>3, <1>4, <1>5, <1>6, <1>7 DEF Request

(* What is served from a replaced configuration was stored late, or is a      *)
(* handler's executor in the middle of the callback (main.go:108-112).        *)
THEOREM StaleTheorem == Spec => []OnlyLateStoresAreStale
<1>1. Init => OnlyLateStoresAreStale
  BY DEF Init, CachesInit, OnlyLateStoresAreStale
<1>2. OnlyLateStoresAreStale /\ [Next]_vars => OnlyLateStoresAreStale'
  <2> SUFFICES ASSUME OnlyLateStoresAreStale, [Next]_vars
               PROVE  OnlyLateStoresAreStale'
    OBVIOUS
  <2>1. CASE Environment
    BY <2>1 DEF Environment, Edit, Signal, cacheVars, OnlyLateStoresAreStale
  <2>2. CASE Watch
    BY <2>2 DEF Watch, NewWatcher, TakeChange, TakeSignal, Load, LoadFails,
                cacheVars, OnlyLateStoresAreStale
  <2>3. CASE ReloadClusters
    BY <2>3 DEF ReloadClusters, Callback, Reload, OnlyLateStoresAreStale
  <2>4. CASE ReloadHandler
    BY <2>4 DEF ReloadHandler, Callback, InvalidateKubeCache, OnlyLateStoresAreStale
  <2>5. CASE ReloadStorages \/ ReloadScheduler \/ InstallScheduler
    BY <2>5 DEF ReloadStorages, ReloadScheduler, InstallScheduler, Callback,
                cacheVars, OnlyLateStoresAreStale
  <2>6. CASE Starter
    BY <2>6 DEF Starter, watcherVars, cacheVars, OnlyLateStoresAreStale
  <2>7. CASE Serve
    BY <2>7, RequestKeepsStale DEF Serve, watcherVars
  <2>8. CASE UNCHANGED vars
    BY <2>8 DEF vars, watcherVars, cacheVars, OnlyLateStoresAreStale
  <2> QED
    BY <2>1, <2>2, <2>3, <2>4, <2>5, <2>6, <2>7, <2>8 DEF Next, Watcher
<1> QED
  BY <1>1, <1>2, PTL DEF Spec
--------------------------------------------------------------------------
(* The scheduler. *)

(* NoCronForgotten with the types it needs to be inductive.                  *)
OneCron ==
    /\ cron \in Enabled \cup {NoCron}
    /\ live \in [Enabled -> Nat]
    /\ NoCronForgotten

LEMMA InstallKeepsOneCron ==
    ASSUME OneCron, NEW c, Install(c)
    PROVE  OneCron'
<1>1. NoCron \notin Enabled
  BY SettingsAssumption
<1>2. Stopped = [s \in Enabled |-> 0]
  <2>1. CASE cron = NoCron
    BY <1>1, <2>1 DEF OneCron, NoCronForgotten, Stopped
  <2>2. CASE cron # NoCron
    <3>1. cron \in Enabled /\ live \in [Enabled -> Nat] /\ live[cron] = 1
      BY <2>2 DEF OneCron, NoCronForgotten
    <3>2. Stopped = [s \in Enabled |-> IF s = cron THEN 0 ELSE live[s]]
      <4>1. Stopped = [live EXCEPT ![cron] = live[cron] - 1]
        BY <2>2 DEF Stopped
      <4>2. live[cron] - 1 = 0
        BY <3>1
      <4>3. [live EXCEPT ![cron] = 0] = [s \in Enabled |-> IF s = cron THEN 0 ELSE live[s]]
        BY <3>1
      <4> QED
        BY <4>1, <4>2, <4>3
    <3>3. \A s \in Enabled : s # cron => live[s] = 0
      BY DEF OneCron, NoCronForgotten
    <3> QED
      BY <3>2, <3>3
  <2> QED
    BY <2>1, <2>2
<1>3. CASE c \in Enabled
  BY <1>2, <1>3 DEF Install, OneCron, NoCronForgotten
<1>4. CASE c \notin Enabled
  BY <1>1, <1>2, <1>4 DEF Install, OneCron, NoCronForgotten
<1> QED
  BY <1>3, <1>4

(* At most one cron runs, the one the scheduler knows, in any order of the    *)
(* goroutine of Start and the reloads (scheduler.go:51-87).                   *)
THEOREM NoCronForgottenTheorem == Spec => []NoCronForgotten
<1>1. Init => OneCron
  BY SettingsAssumption DEF Init, CronInit, OneCron, NoCronForgotten
<1>2. OneCron /\ [Next]_vars => OneCron'
  <2> SUFFICES ASSUME OneCron, [Next]_vars PROVE OneCron'
    OBVIOUS
  <2>1. CASE Starter
    <3>1. CASE StartReads
      BY <3>1 DEF StartReads, OneCron, NoCronForgotten
    <3>2. CASE StartInstalls
      BY <3>2, InstallKeepsOneCron DEF StartInstalls
    <3> QED
      BY <2>1, <3>1, <3>2 DEF Starter
  <2>2. CASE ReloadScheduler
    BY <2>2 DEF ReloadScheduler, ReloadCfg, OneCron, NoCronForgotten
  <2>3. CASE InstallScheduler
    BY <2>3, InstallKeepsOneCron DEF InstallScheduler, ReloadInstall
  <2>4. CASE UNCHANGED cronVars
    BY <2>4 DEF cronVars, OneCron, NoCronForgotten
  <2>5. CASE Environment \/ Watch \/ ReloadClusters \/ ReloadHandler \/ ReloadStorages \/ Serve
    BY <2>4, <2>5 DEF Environment, Watch, ReloadClusters, ReloadHandler, ReloadStorages, Serve
  <2>6. CASE UNCHANGED vars
    BY <2>4, <2>6 DEF vars
  <2> QED
    BY <2>1, <2>2, <2>3, <2>5, <2>6 DEF Next, Watcher
<1> QED
  BY <1>1, <1>2, PTL DEF Spec, OneCron
--------------------------------------------------------------------------
(* Types. *)

LEMMA RequestTypes ==
    ASSUME CachesTypeOK, NEW p \in Requests, Request(p)
    PROVE  CachesTypeOK'
<1>1. ASSUME NEW to \in {"idle", "bot", "kube", "makeKube", "nodes", "makeNodes"}, Advance(p, to)
      PROVE  /\ step' \in [Requests -> {"idle", "bot", "kube", "makeKube", "nodes", "makeNodes"}]
             /\ cfg' \in [Requests -> Configs \cup {None}]
  BY <1>1 DEF CachesTypeOK, Advance
<1>2. cfg[p] \in Configs \cup {None}
  BY DEF CachesTypeOK
<1>3. CASE Find(p)
  BY <1>3 DEF Find, CachesTypeOK
<1>4. CASE GetBotExecutor(p)
  BY <1>1, <1>2, <1>4 DEF GetBotExecutor, Stored, CachesTypeOK, Caches
<1>5. CASE CheckKube(p) \/ CheckNodes(p) \/ MakeFails(p)
  <2>1. \E to \in {"nodes", "makeKube", "idle", "makeNodes"} : Advance(p, to)
    BY <1>5 DEF CheckKube, CheckNodes, MakeFails
  <2>2. UNCHANGED <<clusters, kubeCache, nodeCache, botCache, late>>
    BY <1>5 DEF CheckKube, CheckNodes, MakeFails
  <2> QED
    BY <1>1, <2>1, <2>2 DEF CachesTypeOK
<1>6. CASE StoreKube(p)
  BY <1>1, <1>2, <1>6 DEF StoreKube, Stored, CachesTypeOK, Caches
<1>7. CASE StoreNodes(p)
  BY <1>1, <1>2, <1>7 DEF StoreNodes, Stored, CachesTypeOK, Caches
<1> QED
  BY <1>3, <1>4, <1>5, <1>6, <1>7 DEF Request

(* Each part keeps its types in its own steps and is left alone by the others: *)
(* the watcher, the caches, the scheduler and the storages of the handler.     *)
THEOREM HotReloadTypeCorrect == Spec => []TypeOK
<1> USE SameVersions
<1>1. Init => TypeOK /\ OneCron
  <2> SUFFICES ASSUME Init PROVE TypeOK /\ OneCron
    OBVIOUS
  <2>1. WatcherTypeOK
    BY DEF Init, WatcherInit, WatcherTypeOK, Valid, Stages
  <2>2. loaded \in Valid
    BY <2>1 DEF WatcherTypeOK
  <2>3. CachesTypeOK
    BY <2>2 DEF Init, CachesInit, CachesTypeOK, Caches
  <2>4. CronTypeOK /\ OneCron
    BY <2>2, SettingsAssumption DEF Init, CronInit, CronTypeOK, OneCron, NoCronForgotten
  <2> QED
    BY <2>1, <2>2, <2>3, <2>4 DEF Init, TypeOK
<1>2. TypeOK /\ OneCron /\ [Next]_vars => (TypeOK /\ OneCron)'
  <2> SUFFICES ASSUME TypeOK, OneCron, [Next]_vars PROVE (TypeOK /\ OneCron)'
    OBVIOUS
  <2> USE DEF TypeOK
  <2>1. ASSUME NEW c \in Settings, Install(c), UNCHANGED <<hasScheduler, schedCfg>>,
               starter' \in {"none", "read", "install", "blocked"}, startCfg' = startCfg
        PROVE  CronTypeOK' /\ OneCron'
    <3>1. OneCron'
      BY <2>1, InstallKeepsOneCron
    <3> QED
      BY <2>1, <3>1 DEF CronTypeOK, OneCron
  <2>2. ASSUME UNCHANGED cronVars PROVE CronTypeOK' /\ OneCron'
    BY <2>2 DEF cronVars, CronTypeOK, OneCron, NoCronForgotten
  <2>3. ASSUME UNCHANGED cacheVars PROVE CachesTypeOK'
    BY <2>3 DEF cacheVars, CachesTypeOK
  <2>4. ASSUME UNCHANGED watcherVars PROVE WatcherTypeOK'
    BY <2>4 DEF watcherVars, WatcherTypeOK
  <2>5. CASE Environment
    <3>1. WatcherTypeOK'
      BY <2>5 DEF Environment, Edit, Signal, WatcherTypeOK
    <3> QED
      BY <2>2, <2>3, <2>5, <3>1 DEF Environment
  <2>6. CASE Watch
    <3>1. WatcherTypeOK'
      BY <2>6 DEF Watch, NewWatcher, TakeChange, TakeSignal, Load, LoadFails, WatcherTypeOK,
                  Stages, Valid
    <3> QED
      BY <2>2, <2>3, <2>6, <3>1 DEF Watch
  <2>7. ASSUME NEW from, NEW to \in Stages, Callback(from, to)
        PROVE  WatcherTypeOK' /\ loaded \in Valid
    BY <2>7 DEF Callback, WatcherTypeOK
  <2>8. CASE ReloadClusters
    <3>1. CachesTypeOK' /\ WatcherTypeOK'
      BY <2>7, <2>8 DEF ReloadClusters, Reload, CachesTypeOK, Stages
    <3> QED
      BY <2>2, <2>8, <3>1 DEF ReloadClusters
  <2>9. CASE ReloadHandler
    <3>1. CachesTypeOK' /\ WatcherTypeOK'
      BY <2>7, <2>9 DEF ReloadHandler, InvalidateKubeCache, CachesTypeOK, Stages
    <3> QED
      BY <2>2, <2>9, <3>1 DEF ReloadHandler
  <2>10. CASE ReloadStorages
    <3>1. WatcherTypeOK' /\ restStorages' \in Valid
      BY <2>7, <2>10 DEF ReloadStorages, Stages
    <3> QED
      BY <2>2, <2>3, <2>10, <3>1 DEF ReloadStorages
  <2>11. CASE ReloadScheduler
    <3>1. WatcherTypeOK' /\ loaded \in Valid
      BY <2>7, <2>11 DEF ReloadScheduler, Stages
    <3>2. CronTypeOK' /\ OneCron'
      BY <2>11, <3>1 DEF ReloadScheduler, ReloadCfg, CronTypeOK, OneCron, NoCronForgotten
    <3> QED
      BY <2>3, <2>11, <3>1, <3>2 DEF ReloadScheduler
  <2>12. CASE InstallScheduler
    <3>1. WatcherTypeOK' /\ loaded \in Valid
      BY <2>7, <2>12 DEF InstallScheduler, Stages
    <3>2. CronTypeOK' /\ OneCron'
      BY <2>1, <2>12, <3>1 DEF InstallScheduler, ReloadInstall, CronTypeOK
    <3> QED
      BY <2>3, <2>12, <3>1, <3>2 DEF InstallScheduler
  <2>13. CASE Starter
    <3>1. ASSUME StartReads PROVE CronTypeOK' /\ OneCron'
      BY <3>1 DEF StartReads, CronTypeOK, OneCron, NoCronForgotten
    <3>2. ASSUME StartInstalls PROVE CronTypeOK' /\ OneCron'
      BY <2>1, <3>2 DEF StartInstalls, CronTypeOK
    <3>3. CronTypeOK' /\ OneCron'
      BY <2>13, <3>1, <3>2 DEF Starter
    <3> QED
      BY <2>3, <2>4, <2>13, <3>3 DEF Starter
  <2>14. CASE Serve
    BY <2>2, <2>4, <2>14, RequestTypes DEF Serve
  <2>15. CASE UNCHANGED vars
    BY <2>2, <2>3, <2>4, <2>15 DEF vars
  <2> QED
    BY <2>5, <2>6, <2>8, <2>9, <2>10, <2>11, <2>12, <2>13, <2>14, <2>15 DEF Next, Watcher
<1> QED
  BY <1>1, <1>2, PTL DEF Spec
==========================================================================
