--------------------------- MODULE NodeFanOut ---------------------------
(* Runner.runWith: the cluster inspectors run one after the other, then     *)
(* one goroutine per node runs the node inspectors, at most MaxPar nodes at *)
(* a time, and appends what it found to the shared report under a mutex.    *)
(* The caller waits for all of them and computes the overall level.         *)
EXTENDS Severity, FiniteSets

CONSTANTS
    Nodes,          \* the cluster's SSH nodes
    ClusterItems,   \* number of ClusterScope inspectors
    NodeItems,      \* number of NodeScope inspectors
    MaxPar,         \* Runner.maxNodePar, at least 1
    Outcomes,       \* bound: the levels an inspector may find
    NoNode

ASSUME SizeAssumption ==
    /\ IsFiniteSet(Nodes)
    /\ ClusterItems \in Nat /\ NodeItems \in Nat
    /\ MaxPar \in Nat \ {0}
    /\ Outcomes \subseteq Level
    /\ NoNode \notin Nodes

VARIABLES
    caller,     \* the goroutine that called runWith
    item,       \* the next ClusterScope inspector
    spawned,    \* nodes whose goroutine the loop has started
    wg,         \* the WaitGroup's counter
    sem,        \* tokens in the semaphore channel
    mu,         \* who holds the mutex
    pc,         \* per node: where its goroutine is
    next,       \* per node: the next NodeScope inspector
    local,      \* per node: findings not yet appended
    view,       \* per node: rep.Findings as the append read it
    findings,   \* rep.Findings
    overall,    \* rep.Overall
    produced    \* history: every finding an inspector returned without an error

shared == <<caller, item, spawned, wg, sem, mu, findings, overall>>
vars   == <<shared, pc, next, local, view, produced>>

FindingOf == [by : Nodes \cup {NoNode}, item : Nat, level : Level]

TypeOK ==
    /\ caller \in {"cluster", "spawn", "wait", "returned"}
    /\ item \in 0 .. ClusterItems
    /\ spawned \subseteq Nodes
    /\ wg \in 0 .. Cardinality(Nodes)
    /\ sem \in 0 .. MaxPar
    /\ mu \in Nodes \cup {NoNode}
    /\ pc \in [Nodes -> {"off", "acquire", "inspect", "lock", "read", "write",
                         "unlock", "release", "done", "gone"}]
    /\ next \in [Nodes -> 0 .. NodeItems]
    /\ local \in [Nodes -> SUBSET FindingOf]
    /\ view \in [Nodes -> SUBSET FindingOf]
    /\ findings \subseteq FindingOf
    /\ overall \in Level
    /\ produced \subseteq FindingOf

Init ==
    /\ caller = "cluster" /\ item = 0 /\ spawned = {}
    /\ wg = 0 /\ sem = 0 /\ mu = NoNode
    /\ pc = [n \in Nodes |-> "off"]
    /\ next = [n \in Nodes |-> 0]
    /\ local = [n \in Nodes |-> {}]
    /\ view = [n \in Nodes |-> {}]
    /\ findings = {} /\ overall = LevelOK /\ produced = {}

\* What one inspector adds: one finding, or nothing when it returns an error.
Results(who, i) == {{}} \cup {{[by |-> who, item |-> i, level |-> l]} : l \in Outcomes}
--------------------------------------------------------------------------
(* The caller. *)

ClusterInspect ==
    /\ caller = "cluster" /\ item < ClusterItems
    /\ \E res \in Results(NoNode, item) :
          /\ findings' = findings \cup res
          /\ produced' = produced \cup res
    /\ item' = item + 1
    /\ UNCHANGED <<caller, spawned, wg, sem, mu, overall, pc, next, local, view>>

ClusterDone ==
    /\ caller = "cluster" /\ item = ClusterItems
    /\ caller' = "spawn"
    /\ UNCHANGED <<item, spawned, wg, sem, mu, findings, overall,
                   pc, next, local, view, produced>>

\* Mutant of Spawn: wg.Add left to the goroutine, which may start after Wait.
SpawnWithoutAdd(n) ==
    /\ caller = "spawn" /\ n \notin spawned
    /\ spawned' = spawned \cup {n}
    /\ pc' = [pc EXCEPT ![n] = "acquire"]
    /\ UNCHANGED <<caller, item, wg, sem, mu, findings, overall,
                   next, local, view, produced>>

\* wg.Add(1) and go.  The order of the nodes does not matter to what follows.
Spawn(n) ==
    /\ caller = "spawn" /\ n \notin spawned
    /\ spawned' = spawned \cup {n}
    /\ wg' = wg + 1
    /\ pc' = [pc EXCEPT ![n] = "acquire"]
    /\ UNCHANGED <<caller, item, sem, mu, findings, overall, next, local, view, produced>>

SpawnDone ==
    /\ caller = "spawn" /\ spawned = Nodes
    /\ caller' = "wait"
    /\ UNCHANGED <<item, spawned, wg, sem, mu, findings, overall,
                   pc, next, local, view, produced>>

\* Mutant of Overall: the numeric order of the constants, where Unknown is highest.
OverallByNumber(fs) ==
    LET ls == {f.level : f \in fs} \cup {LevelOK}
    IN  CHOOSE l \in ls : \A m \in ls : m <= l

\* Report.Finalize.
Overall(fs) == MaxLevel({f.level : f \in fs})

\* wg.Wait returns, and the report is finalized.
Return ==
    /\ caller = "wait" /\ wg = 0
    /\ caller' = "returned"
    /\ overall' = Overall(findings)
    /\ UNCHANGED <<item, spawned, wg, sem, mu, findings, pc, next, local, view, produced>>
--------------------------------------------------------------------------
(* The goroutine of node n. *)

Goto(n, from, to) ==
    /\ pc[n] = from
    /\ pc' = [pc EXCEPT ![n] = to]

\* Mutant of Acquire: the token is counted, and nobody waits for one.
AcquireUnbounded(n) ==
    /\ Goto(n, "acquire", "inspect")
    /\ sem' = sem + 1
    /\ UNCHANGED <<caller, item, spawned, wg, mu, findings, overall,
                   next, local, view, produced>>

\* sem <- struct{}{}: blocks while the channel is full.
Acquire(n) ==
    /\ sem < MaxPar
    /\ Goto(n, "acquire", "inspect")
    /\ sem' = sem + 1
    /\ UNCHANGED <<caller, item, spawned, wg, mu, findings, overall,
                   next, local, view, produced>>

\* Each inspector in turn; an error leaves nothing and stops nothing.
Inspect(n) ==
    /\ pc[n] = "inspect" /\ next[n] < NodeItems
    /\ \E res \in Results(n, next[n]) :
          /\ local' = [local EXCEPT ![n] = @ \cup res]
          /\ produced' = produced \cup res
    /\ next' = [next EXCEPT ![n] = @ + 1]
    /\ UNCHANGED <<shared, pc, view>>

InspectDone(n) ==
    /\ next[n] = NodeItems
    /\ Goto(n, "inspect", "lock")
    /\ UNCHANGED <<shared, next, local, view, produced>>

\* Mutant of Lock: the append is not guarded.
LockMissing(n) ==
    /\ Goto(n, "lock", "read")
    /\ UNCHANGED <<shared, next, local, view, produced>>

Lock(n) ==
    /\ mu = NoNode
    /\ Goto(n, "lock", "read")
    /\ mu' = n
    /\ UNCHANGED <<caller, item, spawned, wg, sem, findings, overall,
                   next, local, view, produced>>

\* append reads the slice and assigns the longer one: two steps of a goroutine.
AppendRead(n) ==
    /\ Goto(n, "read", "write")
    /\ view' = [view EXCEPT ![n] = findings]
    /\ UNCHANGED <<shared, next, local, produced>>

AppendWrite(n) ==
    /\ Goto(n, "write", "unlock")
    /\ findings' = view[n] \cup local[n]
    /\ view' = [view EXCEPT ![n] = {}]
    /\ local' = [local EXCEPT ![n] = {}]
    /\ UNCHANGED <<caller, item, spawned, wg, sem, mu, overall, next, produced>>

Unlock(n) ==
    /\ Goto(n, "unlock", "release")
    /\ mu' = NoNode
    /\ UNCHANGED <<caller, item, spawned, wg, sem, findings, overall,
                   next, local, view, produced>>

\* Mutant of Release: the token is kept.
ReleaseMissing(n) ==
    /\ Goto(n, "release", "done")
    /\ UNCHANGED <<shared, next, local, view, produced>>

\* The deferred receive runs before the deferred wg.Done.
Release(n) ==
    /\ Goto(n, "release", "done")
    /\ sem' = sem - 1
    /\ UNCHANGED <<caller, item, spawned, wg, mu, findings, overall,
                   next, local, view, produced>>

Done(n) ==
    /\ Goto(n, "done", "gone")
    /\ wg' = wg - 1
    /\ UNCHANGED <<caller, item, spawned, sem, mu, findings, overall,
                   next, local, view, produced>>

Goroutine(n) ==
    \/ Acquire(n) \/ Inspect(n)    \/ InspectDone(n)
    \/ Lock(n)    \/ AppendRead(n) \/ AppendWrite(n) \/ Unlock(n)
    \/ Release(n) \/ Done(n)

Caller == ClusterInspect \/ ClusterDone \/ SpawnDone \/ Return

Next == Caller \/ \E n \in Nodes : Spawn(n) \/ Goroutine(n)

\* Every goroutine is scheduled, and an inspector returns: an SSH command that
\* never ends is outside this specification (see the README).
Fairness ==
    /\ WF_vars(Caller \/ \E n \in Nodes : Spawn(n))
    /\ \A n \in Nodes : WF_vars(Goroutine(n))

Spec == Init /\ [][Next]_vars /\ Fairness
--------------------------------------------------------------------------
(* Properties. *)

\* The returned report holds exactly what the inspectors found: the join waits
\* for every goroutine and no append overwrites another's (runner.go:154-176).
NothingLost == caller = "returned" => findings = produced

\* No more than MaxPar nodes are being inspected, locked or appended at once.
BoundedFanOut ==
    Cardinality({n \in Nodes : pc[n] \notin {"off", "acquire", "done", "gone"}}) <= MaxPar

\* The overall level is that of a finding and no finding is more severe: a node
\* that could not be read neither hides a worse one nor outranks it
\* (inspector.go:63-65).
OverallIsWorst ==
    caller = "returned" =>
        /\ overall = LevelOK \/ \E f \in produced : f.level = overall
        /\ \A f \in produced : rank[f.level] <= rank[overall]
        /\ overall = LevelUnknown => \A f \in produced : f.level \notin Alarm

\* The report is returned: no order of the goroutines leaves the semaphore, the
\* mutex or the WaitGroup stuck.
Returns == <>(caller = "returned")
==========================================================================
