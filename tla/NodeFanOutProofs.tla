------------------------ MODULE NodeFanOutProofs ------------------------
(* Proofs about NodeFanOut, for any finite set of nodes, any number of       *)
(* inspectors and any number of slots.                                       *)
EXTENDS NodeFanOut, FiniteSetTheorems, TLAPS

(* The nodes that hold a token of the semaphore, and those that the          *)
(* WaitGroup waits for.                                                      *)
Busy    == {n \in Nodes : pc[n] \notin {"off", "acquire", "done", "gone"}}
Counted == {n \in Nodes : pc[n] \notin {"off", "gone"}}

(* The inductive invariant.  The semaphore and the WaitGroup count the nodes  *)
(* that are between two places of their goroutine.                           *)
Counters == sem = Cardinality(Busy) /\ wg = Cardinality(Counted)

(* Where the caller is says where the nodes can be.                          *)
Phases ==
    /\ spawned = {n \in Nodes : pc[n] # "off"}
    /\ caller = "cluster" => spawned = {}
    /\ caller \in {"wait", "returned"} => spawned = Nodes
    /\ caller = "returned" => \A n \in Nodes : pc[n] = "gone"

(* The mutex is held by the node that appends, and by no other.              *)
Exclusive == \A n \in Nodes : mu = n <=> pc[n] \in {"read", "write", "unlock"}

(* What was found is in the report or still with a node, and what a node has  *)
(* read of the report is what is there.                                      *)
Accounted ==
    /\ findings \subseteq produced
    /\ \A n \in Nodes : local[n] \subseteq produced
    /\ \A f \in produced : f \in findings \/ \E n \in Nodes : f \in local[n]
    /\ \A n \in Nodes : pc[n] \notin {"inspect", "lock", "read", "write"} => local[n] = {}
    /\ \A n \in Nodes : pc[n] = "write" => view[n] = findings

Judged == caller = "returned" => overall = Overall(findings)

FanOutInv == TypeOK /\ Counters /\ Phases /\ Exclusive /\ Accounted /\ Judged
--------------------------------------------------------------------------
(* Operators. *)

LEMMA ResultsType ==
    ASSUME NEW who \in Nodes \cup {NoNode}, NEW i \in Nat, NEW res \in Results(who, i)
    PROVE  res \subseteq FindingOf
BY SizeAssumption DEF Results, FindingOf

(* The worst of some levels is one of them or OK, and none is worse          *)
(* (inspector.go:63-75).                                                     *)
LEMMA WorstExists ==
    ASSUME NEW levels \in SUBSET Level
    PROVE  /\ MaxLevel(levels) \in levels \cup {LevelOK}
           /\ \A m \in levels : rank[m] <= rank[MaxLevel(levels)]
<1> USE DEF Level, LevelOK, LevelWarn, LevelCritical, LevelUnknown
<1>1. /\ rank[LevelOK] = 0 /\ rank[LevelUnknown] = 1
      /\ rank[LevelWarn] = 2 /\ rank[LevelCritical] = 3
  BY DEF rank
<1>2. levels \subseteq {LevelOK, LevelWarn, LevelCritical, LevelUnknown}
  OBVIOUS
<1>3. \E l \in levels \cup {LevelOK} : \A m \in levels : rank[m] <= rank[l]
  <2>1. CASE LevelCritical \in levels
    <3>1. \A m \in levels : rank[m] <= rank[LevelCritical]
      BY <1>1, <1>2
    <3> QED
      BY <2>1, <3>1
  <2>2. CASE LevelCritical \notin levels /\ LevelWarn \in levels
    <3>1. \A m \in levels : rank[m] <= rank[LevelWarn]
      BY <1>1, <1>2, <2>2
    <3> QED
      BY <2>2, <3>1
  <2>3. CASE levels \subseteq {LevelOK, LevelUnknown} /\ LevelUnknown \in levels
    <3>1. \A m \in levels : rank[m] <= rank[LevelUnknown]
      BY <1>1, <2>3
    <3> QED
      BY <2>3, <3>1
  <2>4. CASE levels \subseteq {LevelOK}
    <3>1. \A m \in levels : rank[m] <= rank[LevelOK]
      BY <1>1, <2>4
    <3> QED
      BY <3>1
  <2> QED
    BY <1>2, <2>1, <2>2, <2>3, <2>4
<1> QED
  BY <1>3 DEF MaxLevel

LEMMA OverallType ==
    ASSUME NEW fs \in SUBSET FindingOf
    PROVE  Overall(fs) \in Level
<1>1. {f.level : f \in fs} \in SUBSET Level
  BY DEF FindingOf
<1>2. LevelOK \in Level
  BY DEF Level, LevelOK, LevelUnknown
<1> QED
  BY <1>1, <1>2, WorstExists DEF Overall

(* A set of nodes has a size, which changes by one when a node joins or      *)
(* leaves.                                                                   *)
LEMMA NodeCount ==
    ASSUME NEW S \in SUBSET Nodes, NEW n \in Nodes
    PROVE  /\ Cardinality(S) \in 0 .. Cardinality(Nodes)
           /\ Cardinality(Nodes) \in Nat
           /\ n \notin S => Cardinality(S \cup {n}) = Cardinality(S) + 1
           /\ n \in S => Cardinality(S \ {n}) = Cardinality(S) - 1
           /\ Cardinality(S) = 0 => S = {}
<1>1. IsFiniteSet(Nodes) /\ IsFiniteSet(S)
  BY SizeAssumption, FS_Subset
<1>2. Cardinality(S) \in Nat /\ Cardinality(Nodes) \in Nat
  BY <1>1, FS_CardinalityType
<1>3. Cardinality(S) <= Cardinality(Nodes)
  BY <1>1, FS_Subset
<1>4. n \notin S => Cardinality(S \cup {n}) = Cardinality(S) + 1
  BY <1>1, FS_AddElement
<1>5. n \in S => Cardinality(S \ {n}) = Cardinality(S) - 1
  BY <1>1, FS_RemoveElement
<1>6. Cardinality(S) = 0 => S = {}
  BY <1>1, FS_EmptySet
<1> QED
  BY <1>2, <1>3, <1>4, <1>5, <1>6
--------------------------------------------------------------------------
(* Each part of the invariant is kept by each step. *)

(* A node that takes or leaves a slot is counted, one that moves on is not.  *)
LEMMA CountersStep ==
    ASSUME TypeOK, Counters, Phases, [Next]_vars
    PROVE  Counters'
<1> USE DEF TypeOK, Counters, Busy, Counted
<1>a. Busy \in SUBSET Nodes /\ Counted \in SUBSET Nodes
  OBVIOUS
<1>1. CASE Caller
  BY <1>1 DEF Caller, ClusterInspect, ClusterDone, SpawnDone, Return
<1>2. ASSUME NEW n \in Nodes, Spawn(n)
      PROVE  Counters'
  <2>0. pc[n] = "off"
    BY <1>2 DEF Spawn, Phases
  <2>1. Busy' = Busy /\ Counted' = Counted \cup {n} /\ n \notin Counted
    BY <1>2, <2>0 DEF Spawn
  <2> QED
    BY <1>2, <1>a, <2>1, NodeCount DEF Spawn
<1>3. ASSUME NEW n \in Nodes, Acquire(n)
      PROVE  Counters'
  <2>1. Busy' = Busy \cup {n} /\ n \notin Busy /\ Counted' = Counted
    BY <1>3 DEF Acquire, Goto
  <2> QED
    BY <1>3, <1>a, <2>1, NodeCount DEF Acquire
<1>4. ASSUME NEW n \in Nodes,
             Inspect(n) \/ InspectDone(n) \/ Lock(n) \/ AppendRead(n) \/ AppendWrite(n) \/ Unlock(n)
      PROVE  Counters'
  <2>1. Busy' = Busy /\ Counted' = Counted
    BY <1>4 DEF Inspect, InspectDone, Lock, AppendRead, AppendWrite, Unlock, Goto
  <2> QED
    BY <1>4, <2>1 DEF Inspect, InspectDone, Lock, AppendRead, AppendWrite, Unlock, shared
<1>5. ASSUME NEW n \in Nodes, Release(n)
      PROVE  Counters'
  <2>1. Busy' = Busy \ {n} /\ n \in Busy /\ Counted' = Counted
    BY <1>5 DEF Release, Goto
  <2> QED
    BY <1>5, <1>a, <2>1, NodeCount DEF Release
<1>6. ASSUME NEW n \in Nodes, Done(n)
      PROVE  Counters'
  <2>1. Busy' = Busy /\ Counted' = Counted \ {n} /\ n \in Counted
    BY <1>6 DEF Done, Goto
  <2> QED
    BY <1>6, <1>a, <2>1, NodeCount DEF Done
<1>7. CASE UNCHANGED vars
  BY <1>7 DEF vars, shared
<1> QED
  BY <1>1, <1>2, <1>3, <1>4, <1>5, <1>6, <1>7 DEF Next, Goroutine

(* The counters stay in their ranges: the semaphore because a node waits for *)
(* a slot, the WaitGroup because it counts nodes.                            *)
LEMMA TypeStep ==
    ASSUME TypeOK, Counters, Phases, [Next]_vars
    PROVE  TypeOK'
<1> USE SizeAssumption DEF TypeOK
<1>1. CASE ClusterInspect
  <2>1. PICK res \in Results(NoNode, item) :
            findings' = findings \cup res /\ produced' = produced \cup res
    BY <1>1 DEF ClusterInspect
  <2>2. res \subseteq FindingOf
    BY <2>1, ResultsType
  <2> QED
    BY <1>1, <2>1, <2>2 DEF ClusterInspect
<1>2. CASE ClusterDone \/ SpawnDone
  BY <1>2 DEF ClusterDone, SpawnDone
<1>3. CASE Return
  <2>1. Overall(findings) \in Level
    BY OverallType
  <2> QED
    BY <1>3, <2>1 DEF Return
<1>4. ASSUME NEW n \in Nodes, Spawn(n)
      PROVE  TypeOK'
  <2>1. Counters'
    BY <1>4, CountersStep DEF Next
  <2>2. Counted' \in SUBSET Nodes
    BY DEF Counted
  <2>3. wg' \in 0 .. Cardinality(Nodes)
    BY <1>4, <2>1, <2>2, NodeCount DEF Counters
  <2> QED
    BY <1>4, <2>3 DEF Spawn
<1>5. ASSUME NEW n \in Nodes, Acquire(n)
      PROVE  TypeOK'
  BY <1>5 DEF Acquire, Goto
<1>6. ASSUME NEW n \in Nodes, Inspect(n)
      PROVE  TypeOK'
  <2>1. PICK res \in Results(n, next[n]) :
            local' = [local EXCEPT ![n] = @ \cup res] /\ produced' = produced \cup res
    BY <1>6 DEF Inspect
  <2>2. res \subseteq FindingOf
    BY <2>1, ResultsType
  <2>3. local' \in [Nodes -> SUBSET FindingOf] /\ produced' \subseteq FindingOf
    BY <2>1, <2>2
  <2>4. next' \in [Nodes -> 0 .. NodeItems]
    BY <1>6 DEF Inspect
  <2> QED
    BY <1>6, <2>3, <2>4 DEF Inspect, shared
<1>7. ASSUME NEW n \in Nodes,
             InspectDone(n) \/ Lock(n) \/ AppendRead(n) \/ AppendWrite(n) \/ Unlock(n)
      PROVE  TypeOK'
  BY <1>7 DEF InspectDone, Lock, AppendRead, AppendWrite, Unlock, Goto, shared
<1>8. ASSUME NEW n \in Nodes, Release(n)
      PROVE  TypeOK'
  <2>1. n \in Busy /\ Busy \in SUBSET Nodes
    BY <1>8 DEF Release, Goto, Busy
  <2>2. sem # 0
    BY <2>1, NodeCount DEF Counters
  <2> QED
    BY <1>8, <2>2 DEF Release, Goto
<1>9. ASSUME NEW n \in Nodes, Done(n)
      PROVE  TypeOK'
  <2>1. n \in Counted /\ Counted \in SUBSET Nodes
    BY <1>9 DEF Done, Goto, Counted
  <2>2. wg # 0 /\ Cardinality(Nodes) \in Nat
    BY <2>1, NodeCount DEF Counters
  <2> QED
    BY <1>9, <2>2 DEF Done, Goto
<1>10. CASE UNCHANGED vars
  BY <1>10 DEF vars, shared
<1> QED
  BY <1>1, <1>2, <1>3, <1>4, <1>5, <1>6, <1>7, <1>8, <1>9, <1>10 DEF Next, Caller, Goroutine

(* When the join returns, every goroutine has ended: the WaitGroup counted    *)
(* each of them before it started (runner.go:154-180).                       *)
LEMMA PhasesStep ==
    ASSUME TypeOK, Counters, Phases, [Next]_vars
    PROVE  Phases'
<1> USE DEF TypeOK, Phases
<1>1. CASE ClusterInspect \/ ClusterDone \/ SpawnDone
  BY <1>1 DEF ClusterInspect, ClusterDone, SpawnDone
<1>2. CASE Return
  <2>1. Counted \in SUBSET Nodes /\ Cardinality(Counted) = 0
    BY <1>2 DEF Return, Counters, Counted
  <2>2. ASSUME NEW n \in Nodes
        PROVE  pc[n] = "gone"
    <3>1. n \notin Counted
      BY <2>1, NodeCount
    <3>2. pc[n] # "off"
      BY <1>2 DEF Return
    <3> QED
      BY <3>1, <3>2 DEF Counted
  <2> QED
    BY <1>2, <2>2 DEF Return
<1>3. ASSUME NEW n \in Nodes, Spawn(n)
      PROVE  Phases'
  BY <1>3 DEF Spawn
<1>4. ASSUME NEW n \in Nodes, Goroutine(n)
      PROVE  Phases'
  <2>1. pc[n] \notin {"off", "gone"} /\ caller' = caller /\ spawned' = spawned
    BY <1>4 DEF Goroutine, Acquire, Inspect, InspectDone, Lock, AppendRead, AppendWrite,
                Unlock, Release, Done, Goto, shared
  <2>2. \A m \in Nodes : pc'[m] = "off" <=> pc[m] = "off"
    BY <1>4 DEF Goroutine, Acquire, Inspect, InspectDone, Lock, AppendRead, AppendWrite,
                Unlock, Release, Done, Goto
  <2> QED
    BY <2>1, <2>2
<1>5. CASE UNCHANGED vars
  BY <1>5 DEF vars, shared
<1> QED
  BY <1>1, <1>2, <1>3, <1>4, <1>5 DEF Next, Caller

(* One node at a time is between the lock and the unlock.                    *)
LEMMA ExclusiveStep ==
    ASSUME TypeOK, Phases, Exclusive, [Next]_vars
    PROVE  Exclusive'
<1> USE SizeAssumption DEF TypeOK, Exclusive
<1>1. CASE Caller
  BY <1>1 DEF Caller, ClusterInspect, ClusterDone, SpawnDone, Return
<1>2. ASSUME NEW n \in Nodes, Spawn(n)
      PROVE  Exclusive'
  <2>1. pc[n] = "off"
    BY <1>2 DEF Spawn, Phases
  <2> QED
    BY <1>2, <2>1 DEF Spawn
<1>3. ASSUME NEW n \in Nodes, Acquire(n) \/ Inspect(n) \/ InspectDone(n) \/ Release(n) \/ Done(n)
      PROVE  Exclusive'
  BY <1>3 DEF Acquire, Inspect, InspectDone, Release, Done, Goto, shared
<1>4. ASSUME NEW n \in Nodes, Lock(n) \/ AppendRead(n) \/ AppendWrite(n) \/ Unlock(n)
      PROVE  Exclusive'
  BY <1>4 DEF Lock, AppendRead, AppendWrite, Unlock, Goto, shared
<1>5. CASE UNCHANGED vars
  BY <1>5 DEF vars, shared
<1> QED
  BY <1>1, <1>2, <1>3, <1>4, <1>5 DEF Next, Goroutine

(* A finding goes from the inspector to its node and from there to the       *)
(* report, and no append starts from a report that has changed since: the    *)
(* node that reads it holds the mutex.                                       *)
LEMMA AccountedStep ==
    ASSUME TypeOK, Phases, Exclusive, Accounted, [Next]_vars
    PROVE  Accounted'
<1> USE DEF TypeOK, Accounted
<1>1. CASE ClusterInspect
  <2>1. PICK res \in Results(NoNode, item) :
            findings' = findings \cup res /\ produced' = produced \cup res
    BY <1>1 DEF ClusterInspect
  <2>2. \A n \in Nodes : pc[n] # "write"
    BY <1>1 DEF ClusterInspect, Phases
  <2> QED
    BY <1>1, <2>1, <2>2 DEF ClusterInspect
<1>2. CASE ClusterDone \/ SpawnDone \/ Return
  BY <1>2 DEF ClusterDone, SpawnDone, Return
<1>3. ASSUME NEW n \in Nodes, Spawn(n)
      PROVE  Accounted'
  <2>1. pc[n] = "off"
    BY <1>3 DEF Spawn, Phases
  <2> QED
    BY <1>3, <2>1 DEF Spawn
<1>4. ASSUME NEW n \in Nodes, Inspect(n)
      PROVE  Accounted'
  <2>1. PICK res \in Results(n, next[n]) :
            local' = [local EXCEPT ![n] = @ \cup res] /\ produced' = produced \cup res
    BY <1>4 DEF Inspect
  <2>2. UNCHANGED <<findings, pc, view>> /\ pc[n] = "inspect"
    BY <1>4 DEF Inspect, shared
  <2>3. \A f \in produced' : f \in findings' \/ \E m \in Nodes : f \in local'[m]
    BY <2>1, <2>2
  <2> QED
    BY <2>1, <2>2, <2>3
<1>5. ASSUME NEW n \in Nodes, AppendWrite(n)
      PROVE  Accounted'
  <2>1. pc[n] = "write" /\ view[n] = findings /\ findings' = findings \cup local[n]
    BY <1>5 DEF AppendWrite, Goto
  <2>2. \A m \in Nodes \ {n} : pc[m] # "write"
    BY <2>1 DEF Exclusive
  <2>3. /\ local' = [local EXCEPT ![n] = {}] /\ produced' = produced
        /\ pc' = [pc EXCEPT ![n] = "unlock"]
    BY <1>5 DEF AppendWrite, Goto
  <2>4. findings' \subseteq produced' /\ \A m \in Nodes : local'[m] \subseteq produced'
    BY <2>1, <2>3
  <2>5. \A f \in produced' : f \in findings' \/ \E m \in Nodes : f \in local'[m]
    BY <2>1, <2>3
  <2>6. \A m \in Nodes : pc'[m] # "write"
    BY <2>2, <2>3
  <2>7. \A m \in Nodes : pc'[m] \notin {"inspect", "lock", "read", "write"} => local'[m] = {}
    BY <2>3
  <2> QED
    BY <2>4, <2>5, <2>6, <2>7
<1>6. ASSUME NEW n \in Nodes,
             Acquire(n) \/ InspectDone(n) \/ Lock(n) \/ AppendRead(n) \/ Unlock(n)
                \/ Release(n) \/ Done(n)
      PROVE  Accounted'
  BY <1>6 DEF Acquire, InspectDone, Lock, AppendRead, Unlock, Release, Done, Goto, shared
<1>7. CASE UNCHANGED vars
  BY <1>7 DEF vars, shared
<1> QED
  BY <1>1, <1>2, <1>3, <1>4, <1>5, <1>6, <1>7 DEF Next, Caller, Goroutine

(* The report is judged once, and nothing is appended to it afterwards.      *)
LEMMA JudgedStep ==
    ASSUME TypeOK, Phases, Judged, [Next]_vars
    PROVE  Judged'
<1> USE DEF TypeOK, Judged
<1>1. CASE ClusterInspect \/ ClusterDone \/ SpawnDone \/ \E n \in Nodes : Spawn(n)
  BY <1>1 DEF ClusterInspect, ClusterDone, SpawnDone, Spawn
<1>2. CASE Return
  BY <1>2 DEF Return
<1>3. ASSUME NEW n \in Nodes, Goroutine(n)
      PROVE  Judged'
  <2>1. pc[n] # "gone" /\ caller' = caller
    BY <1>3 DEF Goroutine, Acquire, Inspect, InspectDone, Lock, AppendRead, AppendWrite,
                Unlock, Release, Done, Goto, shared
  <2> QED
    BY <2>1 DEF Phases
<1>4. CASE UNCHANGED vars
  BY <1>4 DEF vars, shared
<1> QED
  BY <1>1, <1>2, <1>3, <1>4 DEF Next, Caller
--------------------------------------------------------------------------
(* The theorems. *)

(* Every reachable state satisfies the inductive invariant. *)
THEOREM FanOutInvariant == Spec => []FanOutInv
<1>1. Init => FanOutInv
  <2> SUFFICES ASSUME Init PROVE FanOutInv
    OBVIOUS
  <2>1. Busy = {} /\ Counted = {} /\ Cardinality({}) = 0
    BY FS_EmptySet DEF Init, Busy, Counted
  <2>2. Cardinality(Nodes) \in Nat
    BY SizeAssumption, FS_CardinalityType
  <2>3. TypeOK
    BY <2>2, SizeAssumption DEF Init, TypeOK, Level, LevelOK, LevelUnknown
  <2>4. Counters /\ Phases /\ Judged
    BY <2>1 DEF Init, Counters, Phases, Judged
  <2>5. Exclusive /\ Accounted
    BY SizeAssumption DEF Init, Exclusive, Accounted
  <2> QED
    BY <2>3, <2>4, <2>5 DEF FanOutInv
<1>2. FanOutInv /\ [Next]_vars => FanOutInv'
  BY TypeStep, CountersStep, PhasesStep, ExclusiveStep, AccountedStep, JudgedStep DEF FanOutInv
<1> QED
  BY <1>1, <1>2, PTL DEF Spec

(* Every variable keeps its type: neither the WaitGroup nor the semaphore    *)
(* goes below zero or above its bound (runner.go:142-178).                   *)
THEOREM FanOutTypeCorrect == Spec => []TypeOK
BY FanOutInvariant, PTL DEF FanOutInv

(* However the goroutines are scheduled, no more than MaxPar nodes are       *)
(* between the acquire and the release (runner.go:142-156).                  *)
THEOREM FanOutIsBounded == Spec => []BoundedFanOut
<1>1. FanOutInv => BoundedFanOut
  BY SizeAssumption DEF FanOutInv, TypeOK, Counters, Busy, BoundedFanOut
<1> QED
  BY <1>1, FanOutInvariant, PTL

LEMMA ReturnedHasAll ==
    ASSUME FanOutInv
    PROVE  NothingLost
BY DEF FanOutInv, TypeOK, Phases, Accounted, NothingLost

(* The report that runWith returns holds what every inspector of every node   *)
(* found, whatever the order of their appends (runner.go:154-180).           *)
THEOREM FanOutLosesNothing == Spec => []NothingLost
BY ReturnedHasAll, FanOutInvariant, PTL

(* The level of the returned report is the worst of what was found, and       *)
(* Unknown only when nothing worse than OK or Unknown was (inspector.go:63). *)
THEOREM FanOutJudgesTheWorst == Spec => []OverallIsWorst
<1>1. ASSUME FanOutInv, caller = "returned"
      PROVE  OverallIsWorst
  <2> DEFINE levels == {f.level : f \in produced}
  <2>1. levels \in SUBSET Level
    BY <1>1 DEF FanOutInv, TypeOK, FindingOf
  <2>2. overall = MaxLevel(levels)
    BY <1>1, ReturnedHasAll DEF NothingLost, FanOutInv, Judged, Overall
  <2>3. overall \in levels \cup {LevelOK} /\ \A m \in levels : rank[m] <= rank[overall]
    BY <2>1, <2>2, WorstExists
  <2>4. \A f \in produced : rank[f.level] <= rank[overall]
    BY <2>3
  <2>5. rank[LevelUnknown] = 1 /\ rank[LevelWarn] = 2 /\ rank[LevelCritical] = 3
    BY DEF rank, Level, LevelOK, LevelWarn, LevelCritical, LevelUnknown
  <2>6. overall = LevelUnknown => \A f \in produced : f.level \notin Alarm
    BY <2>4, <2>5 DEF Alarm
  <2>7. overall = LevelOK \/ \E f \in produced : f.level = overall
    BY <2>3
  <2> QED
    BY <2>4, <2>6, <2>7 DEF OverallIsWorst
<1>2. FanOutInv => OverallIsWorst
  BY <1>1 DEF OverallIsWorst
<1> QED
  BY <1>2, FanOutInvariant, PTL
=========================================================================
