--------------------------- MODULE CephSkills ---------------------------
(* What the skills run on a cluster.  A plan is the sequence of steps that   *)
(* one execution comes to; consecutive commands that only read are a step.   *)
EXTENDS IntentParser

CONSTANTS
    NodesOf,    \* cluster -> the names of its nodes
    Daemons     \* cluster -> the pods it has: a set of pairs <<"mon", id>>

\* A step runs op.  When it fails that is a line of the answer, and the plan goes
\* on; or "text", the plan's last; or an "error" of the skill.
Step(op, fails) == [op |-> op, fails |-> fails]
Ask(fails)  == Step(<<"ask">>, fails)     \* ceph or kubernetes, nothing changes
Look(fails) == Step(<<"look">>, fails)    \* commands over SSH, nothing changes

OnNode(step) == step.op[1] \in {"look", "port"}

BackfillFlags == <<"nobackfill", "norebalance", "norecover">>
Flags         == ToSet(BackfillFlags) \cup {"noout"}

\* What the plans are made of; a pod is deleted under its kind and id.
Ops ==
    {<<"ask">>, <<"look">>, <<"port">>, <<"upmap">>} \cup {"set", "unset"} \X Flags
        \cup UNION {{<<"delete">> \o pod : pod \in Daemons[c]} : c \in DOMAIN Daemons}
Steps == [op : Ops, fails : {"line", "text", "error"}]

\* ValidateCephCommand, for what changes a cluster: these flags only.
Allowed(op) == op[1] \in {"set", "unset"} => op \in {"set", "unset"} \X Flags

\* runCephCommands: every command is run, whatever became of the others.
RunCephCommands(ops) == [i \in DOMAIN ops |-> Step(ops[i], "line")]

FlagPlan(verb, flags) ==
    RunCephCommands([i \in DOMAIN flags |-> <<verb, flags[i]>>] \o <<<<"ask">>>>)

\* filterNodes and resolveNodes: none is an answer, no name is every node.
ResolveNodes(cluster, node) ==
    IF node = "" THEN NodesOf[cluster] ELSE Matches(node, NodesOf[cluster])

\* What is run on every node that the name stands for, node by node.
NodePlan(cluster, node) ==
    [i \in 1 .. Cardinality(ResolveNodes(cluster, node)) |-> Look("line")]

\* The skills that only ask ceph.
CephQuery == RunCephCommands(<<<<"ask">>>>)

\* IOStat, NICInfo and BondStatus.
NodeQuery(cluster, node) == NodePlan(cluster, node)

\* KernelLogs: refuses a count or a keyword that is none.
KernelLogPlans(cluster, node) == {NodePlan(cluster, node), <<>>}

\* HWInfo: a node's commands go on when one of them fails.
HWInfoPlan(cluster, node) == NodePlan(cluster, node)

\* CrashInfo: the list, and the last of it.
CrashInfoPlan == <<Ask("text")>>

\* ListNodes.
ListNodesPlan == <<Ask("error")>>

\* OptimizeRGWBucketsPG: looks for the pool, then optimizes it, confirmed or not.
OptimizePlans == {<<Ask("error")>>, <<Ask("error"), Step(<<"upmap">>, "error")>>}

\* ObjectStorage: there may be no gateway node, or no smdctl on it.
ObjectStoragePlans == {<<>>, <<Look("text"), Look("line")>>}

\* NICDown and NICUp: one node, a port, and what the probe of its bond says.
PortPlans(cluster, node, args) ==
    IF node = "" \/ Cardinality(ResolveNodes(cluster, node)) # 1 \/ args.eth = ""
    THEN {<<>>}
    ELSE {<<Look("text")>>} \cup
         {<<Look("text"), Step(<<"port">>, "text")>> : y \in {TRUE} \cap {args.yes}}

\* Mutant of RestartPlans: a preview is taken for a confirmation.
RestartPlansAtOnce(cluster, daemon, args) ==
    {<<Ask("error")>>} \cup
    {<<Ask("error"), Step(<<"delete">> \o pod, "error")>> :
        pod \in Daemons[cluster] \cap {<<daemon, args.id>>}}

\* restartCephDaemon: the pods are listed; the one asked for is deleted when it is
\* among them, which it is not while it restarts, and the command is confirmed.
RestartPlans(cluster, daemon, args) ==
    {<<Ask("error")>>} \cup
    {<<Ask("error"), Step(<<"delete">> \o pod, "error")>> :
        pod \in {p \in Daemons[cluster] : args.yes /\ p = <<daemon, args.id>>}}

\* The plans a skill may come to, by what it finds as it goes.
Plans(skill, cluster, node, args) ==
    CASE skill = "set_no_backfill"   -> {FlagPlan("set", BackfillFlags)}
      [] skill = "unset_no_backfill" -> {FlagPlan("unset", BackfillFlags)}
      [] skill = "set_noout"         -> {FlagPlan("set", <<"noout">>)}
      [] skill = "unset_noout"       -> {FlagPlan("unset", <<"noout">>)}
      [] skill = "restart_mon"       -> RestartPlans(cluster, "mon", args)
      [] skill = "restart_mgr"       -> RestartPlans(cluster, "mgr", args)
      [] skill \in {"nic_down", "nic_up"} -> PortPlans(cluster, node, args)
      [] skill = "optimize_rgw_pg"   -> OptimizePlans
      [] skill = "list_nodes"        -> {ListNodesPlan}
      [] skill = "crash_info"        -> {CrashInfoPlan}
      [] skill = "object_storage"    -> ObjectStoragePlans
      [] skill = "kernel_logs"       -> KernelLogPlans(cluster, node)
      [] skill = "hw_info"           -> {HWInfoPlan(cluster, node)}
      [] skill \in {"io_stat", "nic_info", "bond_status"} -> {NodeQuery(cluster, node)}
      [] OTHER -> {CephQuery}

\* CephHealth: status, health, df and the OSDs; one that fails is a line.
HealthPlan == RunCephCommands(<<<<"ask">>>>)

\* CollectLogs: the nodes that the name stands for, or all.
LogPlan(cluster, node) == NodePlan(cluster, node)

\* NodeDiagnostics of one node: of several the first.
DiagPlan(cluster, node) ==
    IF node = "" \/ ResolveNodes(cluster, node) = {} THEN <<>> ELSE <<Look("line")>>

PlansFor(action, cluster) ==
    CASE action.type = "skill" -> Plans(action.skill, cluster, action.node, action.args)
      [] action.type = "health" -> {HealthPlan}
      [] action.type = "log analysis" -> {LogPlan(cluster, action.node)}
      [] action.type = "node diagnostics" -> {DiagPlan(cluster, action.node)}
==========================================================================
