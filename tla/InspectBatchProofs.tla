----------------------- MODULE InspectBatchProofs -----------------------
(* Proofs about InspectBatch, for any set of names and any way they contain  *)
(* one another.                                                              *)
EXTENDS InspectBatch, FiniteSetTheorems, TLAPS

(* A configured name in lower case is found as itself, whatever contains it   *)
(* (manager.go:87-91).                                                       *)
LEMMA ExactWins ==
    ASSUME NEW L, NEW n \in L, Lower[n] = n
    PROVE  FindByPrefix(n, L) = {n}
BY DEF FindByPrefix

(* A run of a batch for a name that is configured reports on that cluster.   *)
LEMMA RunOfConfigured ==
    ASSUME NEW n \in list, Lower[n] = n, NEW r \in RunResults(n)
    PROVE  r.name = n /\ r.cluster = n
BY ExactWins DEF RunResults

LEMMA RunOfName ==
    ASSUME NEW n, NEW r \in RunResults(n)
    PROVE  r.name = n
BY DEF RunResults

(* What makes UntouchedInspected inductive: stable names are still in the     *)
(* list, and there are no results before the batch begins.                   *)
Untouched ==
    /\ UntouchedInspected
    /\ stable \subseteq list
    /\ kind = "none" => reports = {}

LEMMA ResultAdded ==
    ASSUME Untouched, UNCHANGED <<list, kind, stable>>, kind # "none",
           NEW n \in Todo, NEW r \in RunResults(n), reports' = reports \cup {r}
    PROVE  Untouched'
<1>1. ASSUME NEW q \in reports', q.name \in stable, Lower[q.name] = q.name
      PROVE  q.cluster = q.name
  <2>1. CASE q \in reports
    BY <1>1, <2>1 DEF Untouched, UntouchedInspected
  <2>2. CASE q = r
    BY <1>1, <2>2, RunOfConfigured, RunOfName DEF Untouched
  <2> QED
    BY <2>1, <2>2
<1> QED
  BY <1>1 DEF Untouched, UntouchedInspected

(* A target that stays configured through every reload and is named in lower *)
(* case is inspected as itself, for any names (scheduler.go:92-99).          *)
THEOREM UntouchedTheorem == Spec => []UntouchedInspected
<1>1. Init => Untouched
  BY DEF Init, Untouched, UntouchedInspected
<1>2. Untouched /\ [Next]_vars => Untouched'
  <2> SUFFICES ASSUME Untouched, [Next]_vars PROVE Untouched'
    OBVIOUS
  <2>1. CASE Reload
    BY <2>1 DEF Reload, Untouched, UntouchedInspected
  <2>2. CASE TickStart
    BY <2>2 DEF TickStart, Untouched, UntouchedInspected
  <2>3. CASE ChatStart
    BY <2>3 DEF ChatStart, Untouched, UntouchedInspected
  <2>4. CASE TickRun
    BY <2>4, ResultAdded DEF TickRun
  <2>5. CASE ChatRun
    BY <2>5, ResultAdded DEF ChatRun
  <2>6. CASE TickSummary \/ ChatReply
    BY <2>6 DEF TickSummary, ChatReply, Untouched, UntouchedInspected
  <2>7. CASE UNCHANGED vars
    BY <2>7 DEF vars, Untouched, UntouchedInspected
  <2> QED
    BY <2>1, <2>2, <2>3, <2>4, <2>5, <2>6, <2>7 DEF Next
<1> QED
  BY <1>1, <1>2, PTL DEF Spec, Untouched
--------------------------------------------------------------------------
(* What a summary says. *)

(* The targets that have had their turn, and the inductive invariant: each has *)
(* been counted once, what is counted has been reported, and before the batch  *)
(* nothing has.                                                                *)
Reported == {r.name : r \in reports}
Counted ==
    /\ IsFiniteSet(Reported) /\ Reported \subseteq targets
    /\ kind = "none" => reports = {} /\ counts = NoCounts /\ cards = {} /\ ~done
    /\ done => Todo = {}
    /\ kind = "tick" =>
          /\ counts.ok + counts.warn + counts.critical + counts.failed = Cardinality(Reported)
          /\ done => counts.total = Cardinality(targets)
    /\ IsFiniteSet(cards) /\ Cardinality(cards) <= counts.warn + counts.critical
    /\ \A r \in reports :
          /\ r.outcome # Failed => r.cluster \in Names
          /\ kind = "tick" => /\ r.outcome = Failed => counts.failed > 0
                              /\ r.outcome = LevelWarn => counts.warn > 0
                              /\ r.outcome = LevelCritical => counts.critical > 0

BatchInv == TypeOK /\ Counted

(* Runner.Run: the report of a run has its name, and its cluster if there is   *)
(* one (scheduler.go:98-106).                                                 *)
LEMMA RunType ==
    ASSUME TypeOK, NEW n \in Todo, NEW r \in RunResults(n)
    PROVE  /\ r \in Result /\ r.name = n /\ n \in targets /\ n \notin Reported
           /\ r.outcome # Failed => r.cluster \in Names
<1>1. n \in targets /\ n \in Names /\ n \notin Reported
  BY DEF Todo, Reported, TypeOK
<1>2. CASE FindByPrefix(n, list) = {}
  BY <1>1, <1>2 DEF RunResults, Result, Outcomes, Failed
<1>3. CASE FindByPrefix(n, list) # {}
  <2>1. FindByPrefix(n, list) \subseteq Names
    BY DEF FindByPrefix, Matches, TypeOK
  <2>2. PICK c \in FindByPrefix(n, list), o \in Outcomes :
            r = [name |-> n, cluster |-> c, outcome |-> o]
    BY <1>3 DEF RunResults
  <2> QED
    BY <1>1, <2>1, <2>2 DEF Result
<1> QED
  BY <1>2, <1>3

(* One more report is one more name.                                         *)
LEMMA OneMoreName ==
    ASSUME BatchInv, NEW n \in Todo, NEW r \in RunResults(n), reports' = reports \cup {r}
    PROVE  /\ Reported' = Reported \cup {n} /\ n \notin Reported
           /\ IsFiniteSet(Reported') /\ Cardinality(Reported') = Cardinality(Reported) + 1
<1>1. r.name = n /\ n \notin Reported
  BY RunType DEF BatchInv
<1>2. Reported' = Reported \cup {n}
  BY <1>1 DEF Reported
<1> QED
  BY <1>1, <1>2, FS_AddElement DEF BatchInv, Counted

(* The switch of tick (scheduler.go:107-120) counts each report once.        *)
LEMMA CountsOnce ==
    ASSUME TypeOK, NEW o \in Outcomes, counts' = Count(o)
    PROVE  /\ counts' \in [total : Nat, ok : Nat, warn : Nat, critical : Nat, failed : Nat]
           /\ counts'.ok + counts'.warn + counts'.critical + counts'.failed
                 = counts.ok + counts.warn + counts.critical + counts.failed + 1
           /\ counts'.warn >= counts.warn /\ counts'.critical >= counts.critical
           /\ counts'.failed >= counts.failed
           /\ o = Failed => counts'.failed > 0
           /\ o = LevelWarn => counts'.warn > 0
           /\ o = LevelCritical => counts'.critical > 0
           /\ o \in Alarm => counts'.warn + counts'.critical = counts.warn + counts.critical + 1
           /\ o \notin Alarm => counts'.warn + counts'.critical = counts.warn + counts.critical
<1> USE DEF Outcomes, Level, LevelOK, LevelWarn, LevelCritical, LevelUnknown, Failed, Alarm
<1>1. counts \in [total : Nat, ok : Nat, warn : Nat, critical : Nat, failed : Nat]
  BY DEF TypeOK
<1>2. CASE o = LevelWarn
  BY <1>1, <1>2 DEF Count
<1>3. CASE o = LevelCritical
  BY <1>1, <1>3 DEF Count
<1>4. CASE o = Failed
  BY <1>1, <1>4 DEF Count
<1>5. CASE o \in {LevelOK, LevelUnknown}
  BY <1>1, <1>5 DEF Count
<1> QED
  BY <1>2, <1>3, <1>4, <1>5

LEMMA TickRunCounted ==
    ASSUME BatchInv, TickRun
    PROVE  BatchInv'
<1>0. PICK n \in Todo : \E r \in RunResults(n) :
          /\ reports' = reports \cup {r}
          /\ counts' = Count(r.outcome)
          /\ cards' \in IF r.outcome \in Alarm THEN {cards, cards \cup {r.cluster}} ELSE {cards}
  BY DEF TickRun
<1>1. PICK r \in RunResults(n) :
          /\ reports' = reports \cup {r}
          /\ counts' = Count(r.outcome)
          /\ cards' \in IF r.outcome \in Alarm THEN {cards, cards \cup {r.cluster}} ELSE {cards}
  BY <1>0
<1>2. UNCHANGED <<list, kind, done, targets, worst, stable>> /\ kind = "tick" /\ ~done
  BY <1>1 DEF TickRun, BatchInv, Counted
<1>3. /\ r \in Result /\ r.outcome \in Outcomes /\ r.name = n /\ n \in targets
      /\ r.outcome # Failed => r.cluster \in Names
  BY <1>1, RunType DEF BatchInv, Result
<1>4. r.outcome \in Alarm => r.cluster \in Names
  BY <1>3 DEF Alarm, Failed, LevelWarn, LevelCritical
<1>5. TypeOK'
  BY <1>1, <1>2, <1>3, <1>4, CountsOnce DEF BatchInv, TypeOK
<1>6. Counted'
  <2>1. counts.warn \in Nat /\ counts.critical \in Nat /\ counts.failed \in Nat /\ counts.ok \in Nat
        /\ counts'.warn \in Nat /\ counts'.critical \in Nat /\ counts'.failed \in Nat
        /\ counts'.ok \in Nat
    BY <1>5 DEF BatchInv, TypeOK
  <2>2. /\ IsFiniteSet(Reported') /\ Reported' \subseteq targets'
        /\ counts'.ok + counts'.warn + counts'.critical + counts'.failed = Cardinality(Reported')
    <3>1. Reported' = Reported \cup {n} /\ Reported \subseteq targets /\ IsFiniteSet(Reported')
          /\ Cardinality(Reported') = Cardinality(Reported) + 1
      BY <1>1, OneMoreName DEF BatchInv, Counted
    <3>2. counts.ok + counts.warn + counts.critical + counts.failed = Cardinality(Reported)
      BY <1>2 DEF BatchInv, Counted
    <3> QED
      BY <1>1, <1>2, <1>3, <3>1, <3>2, CountsOnce DEF BatchInv
  <2>3. IsFiniteSet(cards') /\ Cardinality(cards') <= counts'.warn + counts'.critical
    <3>1. IsFiniteSet(cards) /\ Cardinality(cards) <= counts.warn + counts.critical
          /\ Cardinality(cards) \in Nat
      BY FS_CardinalityType DEF BatchInv, Counted
    <3>2. CASE cards' = cards
      BY <1>1, <1>3, <2>1, <3>1, <3>2, CountsOnce DEF BatchInv
    <3>3. CASE r.outcome \in Alarm /\ cards' = cards \cup {r.cluster}
      <4>1. Cardinality(cards') <= Cardinality(cards) + 1 /\ IsFiniteSet(cards')
        <5>1. CASE r.cluster \in cards
          <6>1. cards' = cards
            BY <3>3, <5>1
          <6> QED
            BY <3>1, <6>1
        <5>2. CASE r.cluster \notin cards
          <6>1. IsFiniteSet(cards \cup {r.cluster})
                /\ Cardinality(cards \cup {r.cluster}) = Cardinality(cards) + 1
            BY <3>1, <5>2, FS_AddElement
          <6> QED
            BY <3>1, <3>3, <6>1
        <5> QED
          BY <5>1, <5>2
      <4>2. counts'.warn + counts'.critical = counts.warn + counts.critical + 1
        BY <1>1, <1>3, <3>3, CountsOnce DEF BatchInv
      <4>3. Cardinality(cards') \in Nat
        BY <4>1, FS_CardinalityType
      <4> QED
        BY <2>1, <3>1, <4>1, <4>2, <4>3
    <3> QED
      BY <1>1, <3>2, <3>3
  <2>4. ASSUME NEW q \in reports'
        PROVE  /\ q.outcome # Failed => q.cluster \in Names
               /\ q.outcome = Failed => counts'.failed > 0
               /\ q.outcome = LevelWarn => counts'.warn > 0
               /\ q.outcome = LevelCritical => counts'.critical > 0
    <3>1. CASE q = r
      BY <1>1, <1>3, <3>1, CountsOnce DEF BatchInv
    <3>2. CASE q \in reports
      <4>1. /\ q.outcome # Failed => q.cluster \in Names
            /\ q.outcome = Failed => counts.failed > 0
            /\ q.outcome = LevelWarn => counts.warn > 0
            /\ q.outcome = LevelCritical => counts.critical > 0
        BY <1>2, <3>2 DEF BatchInv, Counted
      <4>2. /\ counts'.warn >= counts.warn /\ counts'.critical >= counts.critical
            /\ counts'.failed >= counts.failed
        BY <1>1, <1>3, CountsOnce DEF BatchInv
      <4> QED
        BY <2>1, <4>1, <4>2
    <3> QED
      BY <1>1, <3>1, <3>2
  <2> QED
    BY <1>2, <2>2, <2>3, <2>4 DEF Counted
<1> QED
  BY <1>5, <1>6 DEF BatchInv
LEMMA ChatRunCounted ==
    ASSUME BatchInv, ChatRun
    PROVE  BatchInv'
<1>1. PICK n \in Todo : \E r \in RunResults(n) :
          /\ reports' = reports \cup {r}
          /\ worst' = IF r.outcome # Failed /\ r.outcome > worst THEN r.outcome ELSE worst
  BY DEF ChatRun
<1>2. PICK r \in RunResults(n) :
          /\ reports' = reports \cup {r}
          /\ worst' = IF r.outcome # Failed /\ r.outcome > worst THEN r.outcome ELSE worst
  BY <1>1
<1>3. UNCHANGED <<list, kind, done, targets, counts, cards, stable>> /\ kind = "chat" /\ ~done
  BY <1>1 DEF ChatRun, BatchInv, Counted
<1>4. /\ r \in Result /\ r.outcome \in Outcomes /\ r.name = n /\ n \in targets
      /\ r.outcome # Failed => r.cluster \in Names
  BY <1>2, RunType DEF BatchInv, Result
<1>5. TypeOK'
  BY <1>2, <1>3, <1>4 DEF BatchInv, TypeOK, Outcomes
<1>6. Reported' = Reported \cup {n} /\ IsFiniteSet(Reported')
  BY <1>2, OneMoreName
<1>7. Counted'
  BY <1>2, <1>3, <1>4, <1>6 DEF BatchInv, Counted
<1> QED
  BY <1>5, <1>7 DEF BatchInv

LEMMA BatchInvariant == Spec => []BatchInv
<1>1. Init => BatchInv
  <2> SUFFICES ASSUME Init PROVE BatchInv
    OBVIOUS
  <2>1. TypeOK
    <3>1. NoCounts \in [total : Nat, ok : Nat, warn : Nat, critical : Nat, failed : Nat]
      BY DEF NoCounts
    <3>2. LevelOK \in Level
      BY DEF Level, LevelOK, LevelUnknown
    <3> QED
      BY <3>1, <3>2 DEF Init, TypeOK
  <2>2. Reported = {}
    BY DEF Init, Reported
  <2>3. Counted
    BY <2>2, FS_EmptySet DEF Init, Counted, NoCounts
  <2> QED
    BY <2>1, <2>3 DEF BatchInv
<1>2. BatchInv /\ [Next]_vars => BatchInv'
  <2> SUFFICES ASSUME BatchInv, [Next]_vars PROVE BatchInv'
    OBVIOUS
  <2>1. CASE Reload
    BY <2>1 DEF Reload, BatchInv, TypeOK, Counted, Reported, Todo
  <2>2. CASE TickStart \/ ChatStart
    <3>1. /\ kind = "none" /\ kind' \in {"tick", "chat"} /\ targets' \subseteq Names
          /\ stable' = list /\ UNCHANGED <<list, done, reports, counts, cards, worst>>
      BY <2>2 DEF TickStart, ChatStart, BatchInv, TypeOK
    <3>2. reports = {} /\ counts = NoCounts /\ cards = {} /\ ~done
      BY <3>1 DEF BatchInv, Counted
    <3>3. Reported = {} /\ Reported' = {} /\ Cardinality(Reported') = 0
      BY <3>1, <3>2, FS_EmptySet DEF Reported
    <3>4. TypeOK'
      BY <3>1 DEF BatchInv, TypeOK
    <3>5. Counted'
      BY <3>1, <3>2, <3>3, FS_EmptySet DEF BatchInv, Counted, NoCounts
    <3> QED
      BY <3>4, <3>5 DEF BatchInv
  <2>3. CASE TickSummary
    <3>1. targets = Reported
      BY <2>3 DEF TickSummary, Todo, Reported, BatchInv, Counted
    <3>2. Cardinality(targets) \in Nat
      BY <3>1, FS_CardinalityType DEF BatchInv, Counted
    <3>3. /\ counts' = [counts EXCEPT !.total = Cardinality(targets)]
          /\ UNCHANGED <<list, kind, targets, reports, cards, worst, stable>>
          /\ kind = "tick" /\ done' = TRUE /\ Todo = {}
      BY <2>3 DEF TickSummary
    <3>4. /\ counts'.ok = counts.ok /\ counts'.warn = counts.warn
          /\ counts'.critical = counts.critical /\ counts'.failed = counts.failed
          /\ counts'.total = Cardinality(targets)
          /\ counts' \in [total : Nat, ok : Nat, warn : Nat, critical : Nat, failed : Nat]
      BY <3>2, <3>3 DEF BatchInv, TypeOK
    <3>5. TypeOK'
      BY <3>3, <3>4 DEF BatchInv, TypeOK
    <3>6. Counted'
      BY <3>3, <3>4 DEF BatchInv, Counted, Reported, Todo
    <3> QED
      BY <3>5, <3>6 DEF BatchInv
  <2>4. CASE ChatReply
    BY <2>4 DEF ChatReply, BatchInv, TypeOK, Counted, Reported, Todo
  <2>5. CASE UNCHANGED vars
    BY <2>5 DEF vars, BatchInv, TypeOK, Counted, Reported, Todo
  <2> QED
    BY <2>1, <2>2, <2>3, <2>4, <2>5, TickRunCounted, ChatRunCounted DEF Next
<1> QED
  BY <1>1, <1>2, PTL DEF Spec

(* Every variable keeps its type: the card of a chat command has a level of the *)
(* four, whatever runs failed (handler.go:797-812).                            *)
THEOREM BatchTypeCorrect == Spec => []TypeOK
BY BatchInvariant, PTL DEF BatchInv

(* The summary accounts for every target once, and a quiet one means that      *)
(* every target was reported on and no report holds an alarm, for any clusters *)
(* and any reloads in the middle of the batch (scheduler.go:90-135).           *)
THEOREM SummaryTheorem == Spec => []SummaryAccounts
<1>1. BatchInv => SummaryAccounts
  <2> SUFFICES ASSUME BatchInv, kind = "tick", done
               PROVE  /\ counts.total = counts.ok + counts.warn + counts.critical + counts.failed
                      /\ counts.failed + counts.warn + counts.critical = 0 =>
                            \A n \in targets :
                               \E r \in reports : r.name = n /\ r.cluster \in Names
                                                  /\ r.outcome \in Level \ Alarm
                      /\ Cardinality(cards) <= counts.warn + counts.critical
    BY DEF SummaryAccounts
  <2>1. targets = Reported /\ Cardinality(cards) <= counts.warn + counts.critical
    BY DEF BatchInv, Counted, Todo, Reported
  <2>2. counts.total = counts.ok + counts.warn + counts.critical + counts.failed
    BY <2>1 DEF BatchInv, Counted
  <2>3. ASSUME counts.failed + counts.warn + counts.critical = 0, NEW n \in targets
        PROVE  \E r \in reports : r.name = n /\ r.cluster \in Names
                                  /\ r.outcome \in Level \ Alarm
    <3>1. counts.failed = 0 /\ counts.warn = 0 /\ counts.critical = 0
      BY <2>3 DEF BatchInv, TypeOK
    <3>2. PICK r \in reports : r.name = n
      BY <2>1 DEF Reported
    <3>3. r.outcome \in Outcomes /\ r.outcome \notin Alarm \cup {Failed}
      BY <3>1, <3>2 DEF BatchInv, Counted, TypeOK, Result, Alarm
    <3>4. r.outcome \in Level \ Alarm /\ r.cluster \in Names
      BY <3>2, <3>3 DEF BatchInv, Counted, Outcomes
    <3> QED
      BY <3>2, <3>4
  <2> QED
    BY <2>1, <2>2, <2>3
<1> QED
  BY BatchInvariant, <1>1, PTL
==========================================================================
