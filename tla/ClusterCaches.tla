------------------------- MODULE ClusterCaches -------------------------
(* cluster.Manager with its two caches, the handler's own cache of           *)
(* executors, and the requests that fill them.  One cluster name; what is    *)
(* cached is known by the configuration it was made from.                    *)
(*                                                                           *)
(* A request finds its cluster first and keeps that configuration: the       *)
(* manager's caches are then checked under one lock, filled with no lock     *)
(* held and stored under another, the handler's in one critical section.     *)
CONSTANTS
    Configs,    \* versions of the cluster's configuration
    Requests,   \* concurrent requests for the cluster
    None        \* nothing cached

ASSUME NoneAssumption == None \notin Configs

VARIABLES
    clusters,   \* Manager.clusters: the version in force
    kubeCache,  \* Manager.kubeCache
    nodeCache,  \* Manager.nodeCache
    botCache,   \* Handler.kubeCache
    step,       \* per request: where it is
    cfg,        \* per request: the version FindByPrefix gave it
    late        \* history: the caches that were stored to, or filled, from a
                \* version no longer in force, and not emptied since

cacheVars == <<clusters, kubeCache, nodeCache, botCache, step, cfg, late>>

Caches == {"kube", "node", "bot"}

CachesTypeOK ==
    /\ clusters \in Configs
    /\ kubeCache \in Configs \cup {None}
    /\ nodeCache \in Configs \cup {None}
    /\ botCache \in Configs \cup {None}
    /\ step \in [Requests -> {"idle", "bot", "kube", "makeKube", "nodes", "makeNodes"}]
    /\ cfg \in [Requests -> Configs \cup {None}]
    /\ late \subseteq Caches

CachesInit(c) ==
    /\ clusters = c
    /\ kubeCache = None /\ nodeCache = None /\ botCache = None
    /\ step = [p \in Requests |-> "idle"]
    /\ cfg = [p \in Requests |-> None]
    /\ late = {}

\* Mutant of Reload: the executors of the old configuration are kept.
ReloadKeepsKube(c) ==
    /\ clusters' = c
    /\ nodeCache' = None
    /\ late' = late \ {"node"}
    /\ UNCHANGED <<kubeCache, botCache, step, cfg>>

\* Manager.Reload.
Reload(c) ==
    /\ clusters' = c
    /\ kubeCache' = None
    /\ nodeCache' = None
    /\ late' = late \ {"kube", "node"}
    /\ UNCHANGED <<botCache, step, cfg>>

\* Handler.InvalidateKubeCache.
InvalidateKubeCache ==
    /\ botCache' = None
    /\ late' = late \ {"bot"}
    /\ UNCHANGED <<clusters, kubeCache, nodeCache, step, cfg>>

\* A request moves on, or is over and keeps no configuration.
Advance(p, to) ==
    /\ step' = [step EXCEPT ![p] = to]
    /\ cfg' = IF to = "idle" THEN [cfg EXCEPT ![p] = None] ELSE cfg

\* Storing what request p made: late if its configuration is no longer in force.
Stored(p, cache) == late' = IF cfg[p] # clusters THEN late \cup {cache} ELSE late \ {cache}

\* FindByPrefix.  What follows depends on the request: a chat command wants the
\* handler's executor or the nodes, an inspection the manager's executor.
Find(p) ==
    /\ step[p] = "idle"
    /\ cfg' = [cfg EXCEPT ![p] = clusters]
    /\ \E to \in {"bot", "kube", "nodes"} : step' = [step EXCEPT ![p] = to]
    /\ UNCHANGED <<clusters, kubeCache, nodeCache, botCache, late>>

\* Handler.getKubeExecutor, one critical section: a hit, or made and stored.
GetBotExecutor(p) ==
    /\ step[p] = "bot"
    /\ IF botCache # None
       THEN UNCHANGED <<botCache, late>>
       ELSE botCache' = cfg[p] /\ Stored(p, "bot")
    /\ \E to \in {"nodes", "idle"} : Advance(p, to)
    /\ UNCHANGED <<clusters, kubeCache, nodeCache>>

\* Manager.KubeExecutor: the check under the read lock.
CheckKube(p) ==
    /\ step[p] = "kube"
    /\ Advance(p, IF kubeCache # None THEN "nodes" ELSE "makeKube")
    /\ UNCHANGED <<clusters, kubeCache, nodeCache, botCache, late>>

StoreKube(p) ==
    /\ step[p] = "makeKube"
    /\ kubeCache' = cfg[p]
    /\ Stored(p, "kube")
    /\ Advance(p, "nodes")
    /\ UNCHANGED <<clusters, nodeCache, botCache>>

\* Manager.ResolveSSHNodes: an explicit list, no gateway, a hit, or a discovery.
CheckNodes(p) ==
    /\ step[p] = "nodes"
    /\ \/ Advance(p, "idle")
       \/ nodeCache = None /\ Advance(p, "makeNodes")
    /\ UNCHANGED <<clusters, kubeCache, nodeCache, botCache, late>>

StoreNodes(p) ==
    /\ step[p] = "makeNodes"
    /\ nodeCache' = cfg[p]
    /\ Stored(p, "node")
    /\ Advance(p, "idle")
    /\ UNCHANGED <<clusters, kubeCache, botCache>>

\* NewKubeExecutor or DiscoverNodes fails: nothing is stored.
MakeFails(p) ==
    /\ step[p] \in {"bot", "makeKube", "makeNodes"}
    /\ step[p] = "bot" => botCache = None
    /\ Advance(p, "idle")
    /\ UNCHANGED <<clusters, kubeCache, nodeCache, botCache, late>>

Request(p) ==
    \/ Find(p)       \/ GetBotExecutor(p)
    \/ CheckKube(p)  \/ StoreKube(p)
    \/ CheckNodes(p) \/ StoreNodes(p)
    \/ MakeFails(p)
==========================================================================
