--------------------- MODULE InspectionHistoryProofs ---------------------
(* Proofs about InspectionHistory and, at the end, about ReportMigration,   *)
(* which works on the same history: for any set of nodes, any number of     *)
(* overlapping runs, any Keep and any bounds.                               *)
EXTENDS ReportMigration, FiniteSetTheorems, WellFoundedInduction, TLAPS

(* A set of natural numbers that is bounded has a greatest one.             *)
LEMMA GreatestExists ==
    ASSUME NEW m \in Nat, NEW S \in SUBSET (0 .. m), S # {}
    PROVE  \E t \in S : \A u \in S : u <= t
<1> DEFINE D == {m - t : t \in S}
<1>1. D \subseteq Nat /\ D # {}
  <2>1. \A t \in S : m - t \in Nat
    OBVIOUS
  <2> QED
    BY <2>1
<1>2. PICK d \in D : \A e \in D : ~ (<<e, d>> \in OpToRel(<, Nat))
  <2>1. IsWellFoundedOn(OpToRel(<, Nat), Nat)
    BY NatLessThanWellFounded
  <2> QED
    BY <1>1, <2>1, WFMin
<1>3. \A e \in D : ~ (e < d)
  BY <1>1, <1>2 DEF OpToRel
<1>4. PICK t \in S : d = m - t
  OBVIOUS
<1>5. ASSUME NEW u \in S
      PROVE  u <= t
  <2>1. m - u \in D
    OBVIOUS
  <2>2. ~ (m - u < m - t)
    BY <1>3, <1>4, <2>1
  <2> QED
    BY <2>2
<1> QED
  BY <1>5

LEMMA LatestExists ==
    ASSUME NEW S \in SUBSET Times, S # {}
    PROVE  \E t \in S : \A u \in S : u <= t
BY GreatestExists, BoundAssumption DEF Times

(* So Newest of a listing that is not empty is one of its names.            *)
LEMMA NewestType ==
    ASSUME NEW S \in SUBSET Times
    PROVE  /\ Newest(S) \in Times \cup {NoFile}
           /\ S # {} => Newest(S) \in S /\ \A u \in S : u <= Newest(S)
BY LatestExists DEF Newest

LEMMA NewestTwoType ==
    ASSUME NEW S \in SUBSET Times
    PROVE  NewestTwo(S) \in (Times \cup {NoFile}) \X (Times \cup {NoFile})
BY NewestType DEF NewestTwo
--------------------------------------------------------------------------
(* What the judgement of one node computes. *)

LEMMA ParseType ==
    ASSUME NEW outcome \in Outcome, NEW count \in Nat
    PROVE  parseBond(outcome, count) \in Finding
BY DEF parseBond, Outcome, Finding, Totals, NoMetric,
       Level, LevelOK, LevelWarn, LevelCritical, LevelUnknown

LEMMA JudgeType ==
    ASSUME NEW f \in Finding, NEW b1 \in Totals, NEW b2 \in Totals
    PROVE  applyBondDelta(f, b1, b2) \in Finding
BY DEF applyBondDelta, Finding, Level, LevelOK, LevelUnknown

(* A finding that ends up quiet carries no total, or none above zero, or one *)
(* that a baseline reached before.                                           *)
LEMMA QuietIsCovered ==
    ASSUME NEW outcome \in Outcome, NEW count \in Nat,
           NEW b1 \in Totals, NEW b2 \in Totals, NEW g \in Nat,
           b1 <= g, b2 <= g,
           applyBondDelta(parseBond(outcome, count), b1, b2).level \notin Alarm
    PROVE  applyBondDelta(parseBond(outcome, count), b1, b2).total <= g
<1> DEFINE f == parseBond(outcome, count)
           j == applyBondDelta(f, b1, b2)
<1>1. f \in Finding /\ j \in Finding /\ j.total = f.total
  <2>1. f \in Finding
    BY ParseType
  <2>2. j \in Finding
    BY <2>1, JudgeType
  <2>3. j.total = f.total
    BY <2>1 DEF applyBondDelta, Finding
  <2> QED
    BY <2>1, <2>2, <2>3
<1>2. CASE outcome \in {"unreachable", "no_bonds"}
  <2>1. f.total = NoMetric
    BY <1>2 DEF parseBond
  <2> QED
    BY <1>1, <2>1 DEF NoMetric
<1>3. CASE outcome = "mii_down"
  <2>1. f.level = LevelCritical
    BY <1>3 DEF parseBond
  <2>2. j.level = LevelCritical
    BY <2>1 DEF applyBondDelta, LevelCritical, LevelWarn
  <2> QED
    BY <2>2 DEF Alarm
<1>4. CASE outcome = "mii_up"
  <2>1. f.total = count /\ f.level = (IF count > 0 THEN LevelWarn ELSE LevelOK)
    BY <1>4 DEF parseBond
  <2>2. CASE count > 0
    <3>1. f.level = LevelWarn
      BY <2>1, <2>2
    <3>2. j.level # LevelWarn
      BY DEF Alarm
    <3>3. /\ b1 # NoMetric \/ b2 # NoMetric
          /\ ~recentInc(f.total, b1)
          /\ ~windowInc(f.total, b2)
      BY <3>1, <3>2 DEF applyBondDelta
    <3> QED
      BY <3>3, <2>1, <1>1 DEF recentInc, windowInc, Totals, NoMetric
  <2>3. CASE ~ (count > 0)
    BY <2>1, <2>3, <1>1
  <2> QED
    BY <2>2, <2>3
<1> QED
  BY <1>2, <1>3, <1>4 DEF Outcome
--------------------------------------------------------------------------
(* Type correctness. *)

LEMMA BaselineType ==
    ASSUME TypeOK, NEW t \in Times \cup {NoFile}
    PROVE  Baseline(t) \in [Nodes -> Totals]
<1>1. CASE t = NoFile \/ files[t] \in {Absent, Truncated}
  BY <1>1 DEF Baseline, NoBaseline, Totals
<1>2. CASE ~ (t = NoFile \/ files[t] \in {Absent, Truncated})
  <2>1. files[t] \in Reports
    BY <1>2 DEF TypeOK
  <2> QED
    BY <1>2, <2>1 DEF Baseline, Reports, Finding
<1> QED
  BY <1>1, <1>2

LEMMA RaisedType ==
    ASSUME TypeOK, NEW rep \in Reports
    PROVE  Raised(rep) \in [Nodes -> Nat]
<1> SUFFICES ASSUME NEW n \in Nodes
             PROVE  Raised(rep)[n] \in Nat
  BY DEF Raised
<1>1. flagged[n] \in Nat /\ rep[n] \in Finding
  BY DEF TypeOK, Reports
<1> QED
  BY <1>1 DEF Raised, Finding, Totals, NoMetric

(* A write records the report, or changes at most what is under its name, to *)
(* a file that cannot be read.                                               *)
LEMMA WriteOutcome ==
    ASSUME TypeOK, NEW r \in Runs, SaveWrite(r)
    PROVE  \/ /\ files' = [files EXCEPT ![start[r]] = report[r]]
              /\ flagged' = Raised(report[r])
              /\ files[start[r]] # Absent
           \/ /\ files' = [files EXCEPT ![start[r]] = Truncated]
              /\ flagged' = flagged
           \/ UNCHANGED <<files, flagged>>
<1>1. report[r] \in Reports /\ start[r] \in Times
  BY DEF TypeOK
<1>2. report[r] \notin {Absent, Truncated}
  BY <1>1, FileAssumption
<1>3. PICK content \in Written(r) :
        /\ files' = [files EXCEPT ![start[r]] = content]
        /\ flagged' = IF content = report[r] THEN Raised(report[r]) ELSE flagged
  BY DEF SaveWrite
<1>4. CASE content = report[r]
  <2>1. files[start[r]] # Absent
    BY <1>2, <1>4 DEF Written
  <2> QED
    BY <1>3, <1>4, <2>1
<1>5. CASE content # report[r]
  <2>1. content \in {files[start[r]], Truncated}
    BY <1>5 DEF Written
  <2> QED
    BY <1>1, <1>3, <1>5, <2>1 DEF TypeOK
<1> QED
  BY <1>4, <1>5

LEMMA RunsInitType ==
    ASSUME RunsInit
    PROVE  /\ pc \in [Runs -> Steps] /\ start \in [Runs -> Times]
           /\ names \in [Runs -> (Times \cup {NoFile}) \X (Times \cup {NoFile})]
           /\ base1 \in [Runs -> [Nodes -> Totals]] /\ base2 \in [Runs -> [Nodes -> Totals]]
           /\ report \in [Runs -> Reports] /\ victims \in [Runs -> SUBSET Times]
<1> USE DEF RunsInit
<1>1. NoBaseline \in [Nodes -> Totals] /\ NoFindings \in Reports
  BY DEF NoBaseline, NoFindings, Totals, Reports, Finding, Level, LevelOK, LevelUnknown
<1>2. pc \in [Runs -> Steps] /\ victims \in [Runs -> SUBSET Times]
  BY DEF Steps
<1>3. start \in [Runs -> Times]
  BY BoundAssumption DEF Times
<1>4. names \in [Runs -> (Times \cup {NoFile}) \X (Times \cup {NoFile})]
  OBVIOUS
<1>5. /\ base1 \in [Runs -> [Nodes -> Totals]]
      /\ base2 \in [Runs -> [Nodes -> Totals]]
      /\ report \in [Runs -> Reports]
  BY <1>1
<1> QED
  BY <1>2, <1>3, <1>4, <1>5

(* A removal takes one of the victims, if any. *)
LEMMA RemovesVictims ==
    ASSUME TypeOK, NEW r \in Runs, PruneRemove(r)
    PROVE  /\ \E gone \in SUBSET victims[r] :
                 files' = [t \in Times |-> IF t \in gone THEN Absent ELSE files[t]]
           /\ victims' \in [Runs -> SUBSET Times]
           /\ \A q \in Runs : victims'[q] \subseteq victims[q]
<1> DEFINE t == Newest(victims[r])
<1>1. victims[r] \in SUBSET Times /\ victims[r] # {} /\ victims \in [Runs -> SUBSET Times]
  BY DEF PruneRemove, TypeOK
<1>2. t \in victims[r] /\ t \in Times
  BY <1>1, NewestType
<1>3. victims' = [victims EXCEPT ![r] = @ \ {t}]
  BY DEF PruneRemove
<1>4. PICK content \in {Absent, files[t]} : files' = [files EXCEPT ![t] = content]
  BY DEF PruneRemove
<1> HIDE DEF t
<1>5. \E gone \in SUBSET victims[r] :
          files' = [u \in Times |-> IF u \in gone THEN Absent ELSE files[u]]
  <2>1. DOMAIN files = Times /\ files \in [Times -> Reports \cup {Absent, Truncated}]
    BY DEF TypeOK
  <2>2. CASE content = Absent
    <3>1. files' = [u \in Times |-> IF u \in {t} THEN Absent ELSE files[u]]
      BY <1>4, <2>1, <2>2
    <3> QED
      BY <1>2, <3>1
  <2>3. CASE content = files[t]
    <3>1. files' = [u \in Times |-> IF u \in {} THEN Absent ELSE files[u]]
      BY <1>4, <2>1, <2>3
    <3>2. {} \in SUBSET victims[r]
      OBVIOUS
    <3> QED
      BY <3>1, <3>2
  <2> QED
    BY <2>2, <2>3
<1> QED
  BY <1>1, <1>3, <1>5

(* Every step keeps every variable's type. *)
LEMMA TypeStep ==
    ASSUME TypeOK, [Next]_vars
    PROVE  TypeOK'
<1> USE DEF TypeOK
<1>a. NoBaseline \in [Nodes -> Totals] /\ NoFindings \in Reports
  BY DEF NoBaseline, NoFindings, Totals, Reports, Finding, Level, LevelOK, LevelUnknown
<1>b. Listed \in SUBSET Times /\ Older(Listed) \in SUBSET Times
  BY DEF Listed, Older
<1>1. CASE Tick
  BY <1>1, BoundAssumption DEF Tick, Times, locals
<1>2. CASE Crash
  <2>1. /\ names' \in [Runs -> (Times \cup {NoFile}) \X (Times \cup {NoFile})]
        /\ start' \in [Runs -> Times]
    BY <1>2, BoundAssumption DEF Crash, Times
  <2> QED
    BY <1>2, <1>a, <2>1 DEF Crash, Steps
<1>3. ASSUME NEW n \in Nodes, LinkFails(n)
      PROVE  TypeOK'
  BY <1>3, BoundAssumption DEF LinkFails, locals
<1>4. ASSUME NEW n \in Nodes, Reboot(n)
      PROVE  TypeOK'
  BY <1>4, BoundAssumption DEF Reboot, locals
<1>5. ASSUME NEW r \in Runs, Run(r)
      PROVE  TypeOK'
  <2> USE DEF Goto, locals, Steps
  <2>1. CASE List(r)
    BY <2>1, <1>b, NewestTwoType DEF List
  <2>2. CASE ListError(r)
    BY <2>2 DEF ListError
  <2>3. CASE LoadFirst(r)
    <3>1. names[r][1] \in Times \cup {NoFile}
      OBVIOUS
    <3> QED
      BY <2>3, <3>1, BaselineType DEF LoadFirst
  <2>4. CASE LoadSecond(r)
    <3>1. names[r][2] \in Times \cup {NoFile}
      OBVIOUS
    <3>2. Baseline(names[r][2]) \in [Nodes -> Totals]
      BY <3>1, BaselineType
    <3> QED
      BY <2>4, <3>2 DEF LoadSecond
  <2>5. CASE Start(r)
    BY <2>5 DEF Start
  <2>6. CASE Collect(r)
    <3>1. PICK out \in [Nodes -> Outcome] :
            report' = [report EXCEPT ![r] =
               [n \in Nodes |-> applyBondDelta(parseBond(out[n], links[n]),
                                               base1[r][n], base2[r][n])]]
      BY <2>6 DEF Collect
    <3>2. ASSUME NEW n \in Nodes
          PROVE  applyBondDelta(parseBond(out[n], links[n]), base1[r][n], base2[r][n])
                   \in Finding
      <4>1. links[n] \in Nat /\ base1[r][n] \in Totals /\ base2[r][n] \in Totals
        BY BoundAssumption
      <4> QED
        BY <4>1, ParseType, JudgeType
    <3>3. report' \in [Runs -> Reports]
      BY <3>1, <3>2 DEF Reports
    <3> QED
      BY <2>6, <3>3, <1>a DEF Collect
  <2>7. CASE SaveOpen(r)
    BY <2>7 DEF SaveOpen
  <2>8. CASE SaveWrite(r)
    <3>1. files' \in [Times -> Reports \cup {Absent, Truncated}]
      BY <2>8, WriteOutcome
    <3>2. Raised(report[r]) \in [Nodes -> Nat]
      BY RaisedType
    <3>3. flagged' \in [Nodes -> Nat]
      BY <2>8, <3>2 DEF SaveWrite
    <3> QED
      BY <2>8, <3>1, <3>3 DEF SaveWrite
  <2>9. CASE SaveError(r)
    BY <2>9 DEF SaveError
  <2>10. CASE PruneList(r)
    BY <2>10, <1>b DEF PruneList
  <2>11. CASE PruneListError(r)
    BY <2>11 DEF PruneListError
  <2>12. CASE PruneRemove(r)
    <3>1. files' \in [Times -> Reports \cup {Absent, Truncated}]
      BY <2>12, RemovesVictims
    <3>2. victims' \in [Runs -> SUBSET Times]
      BY <2>12, RemovesVictims
    <3> QED
      BY <2>12, <3>1, <3>2 DEF PruneRemove
  <2>13. CASE Return(r)
    <3>1. 0 \in Times
      BY BoundAssumption DEF Times
    <3> QED
      BY <2>13, <3>1, <1>a, RaisedType DEF Return
  <2>14. CASE LoadFirstError(r)
    BY <2>14 DEF LoadFirstError
  <2>15. CASE LoadSecondError(r)
    BY <2>15 DEF LoadSecondError
  <2>16. CASE PruneDone(r)
    BY <2>16 DEF PruneDone
  <2> QED
    BY <1>5, <2>1, <2>2, <2>3, <2>4, <2>5, <2>6, <2>7, <2>8, <2>9, <2>10,
       <2>11, <2>12, <2>13, <2>14, <2>15, <2>16 DEF Run
<1>6. CASE UNCHANGED vars
  BY <1>6 DEF vars, locals
<1> QED
  BY <1>1, <1>2, <1>3, <1>4, <1>5, <1>6 DEF Next

(* Every variable keeps its type in every step. *)
THEOREM TypeCorrect == Spec => []TypeOK
<1>1. Init => TypeOK
  <2> SUFFICES ASSUME Init
               PROVE  TypeOK
    OBVIOUS
  <2>1. now \in Times /\ links \in [Nodes -> 0 .. MaxTotal] /\ flagged \in [Nodes -> Nat]
    BY BoundAssumption DEF Init, Times
  <2>2. files \in [Times -> Reports \cup {Absent, Truncated}]
    BY DEF Init
  <2> QED
    BY <2>1, <2>2, RunsInitType DEF Init, TypeOK
<1>2. TypeOK /\ [Next]_vars => TypeOK'
  BY TypeStep
<1> QED
  BY <1>1, <1>2, PTL DEF Spec
--------------------------------------------------------------------------
(* No silent growth.  Two facts carry the step: flagged never goes down, so *)
(* what is covered stays covered, and Baseline reads a recorded report.     *)

LEMMA RaisedCovers ==
    ASSUME TypeOK, NEW rep \in Reports, NEW n \in Nodes
    PROVE  /\ flagged[n] <= Raised(rep)[n]
           /\ rep[n].level \in Alarm => rep[n].total <= Raised(rep)[n]
<1>1. flagged[n] \in Nat /\ rep[n].total \in Int
  BY DEF TypeOK, Reports, Finding, Totals, NoMetric
<1> QED
  BY <1>1 DEF Raised

LEMMA BaselineCovered ==
    ASSUME TypeOK, NoSilentGrowth, NEW t \in Times \cup {NoFile}, NEW n \in Nodes
    PROVE  Baseline(t)[n] <= flagged[n]
<1>1. flagged[n] \in Nat
  BY DEF TypeOK
<1>2. CASE t = NoFile \/ files[t] \in {Absent, Truncated}
  BY <1>1, <1>2 DEF Baseline, NoBaseline, NoMetric
<1>3. CASE ~ (t = NoFile \/ files[t] \in {Absent, Truncated})
  BY <1>3 DEF Baseline, NoSilentGrowth, Readable
<1> QED
  BY <1>2, <1>3

(* A step that changes none of the history variables keeps what is covered. *)
LEMMA CoveredFrame ==
    ASSUME TypeOK, Covered, UNCHANGED <<files, base1, base2, report, flagged>>,
           \A r \in Runs : pc'[r] = "return" => pc[r] = "return"
                            \/ \A n \in Nodes : report[r][n].level \notin Alarm
                                                 => report[r][n].total <= flagged[n]
    PROVE  Covered'
BY DEF Covered, NoSilentGrowth, BaselinesCovered, JudgedCovered, Readable

LEMMA CoveredStep ==
    ASSUME TypeOK, TypeOK', Covered, [Next]_vars
    PROVE  Covered'
<1>a. /\ NoSilentGrowth /\ BaselinesCovered /\ JudgedCovered
      /\ flagged \in [Nodes -> Nat]
  BY DEF Covered, TypeOK
<1>1. CASE Tick
  BY <1>1, CoveredFrame DEF Tick, locals
<1>2. CASE Crash
  <2>1. NoSilentGrowth'
    BY <1>2, <1>a DEF Crash, NoSilentGrowth, Readable
  <2>2. BaselinesCovered' /\ JudgedCovered'
    BY <1>2, <1>a DEF Crash, BaselinesCovered, JudgedCovered, NoBaseline,
                      NoFindings, NoMetric
  <2> QED
    BY <2>1, <2>2 DEF Covered
<1>3. ASSUME NEW n \in Nodes, LinkFails(n) \/ Reboot(n)
      PROVE  Covered'
  BY <1>3, CoveredFrame DEF LinkFails, Reboot, locals
<1>4. ASSUME NEW r \in Runs, Run(r)
      PROVE  Covered'
  <2> USE DEF Goto, locals
  <2>1. CASE \/ List(r) \/ ListError(r) \/ LoadFirstError(r) \/ LoadSecondError(r)
             \/ Start(r) \/ PruneList(r)
    <3>1. \A q \in Runs : pc'[q] = "return" => pc[q] = "return"
      BY <2>1 DEF List, ListError, LoadFirstError, LoadSecondError, Start, PruneList, TypeOK
    <3> QED
      BY <2>1, <3>1, CoveredFrame
         DEF List, ListError, LoadFirstError, LoadSecondError, Start, PruneList
  <2>2. CASE SaveError(r) \/ PruneListError(r) \/ PruneDone(r)
    BY <2>2, <1>a, CoveredFrame DEF SaveError, PruneListError, PruneDone, JudgedCovered
  <2>3. CASE LoadFirst(r) \/ LoadSecond(r)
    <3>1. /\ names[r][1] \in Times \cup {NoFile}
          /\ names[r][2] \in Times \cup {NoFile}
      BY DEF TypeOK
    <3>2. \A n \in Nodes : /\ Baseline(names[r][1])[n] <= flagged[n]
                           /\ Baseline(names[r][2])[n] <= flagged[n]
      BY <3>1, <1>a, BaselineCovered
    <3>3. BaselinesCovered'
      BY <2>3, <3>2, <1>a DEF LoadFirst, LoadSecond, BaselinesCovered, TypeOK
    <3>4. NoSilentGrowth' /\ JudgedCovered'
      BY <2>3, <1>a DEF LoadFirst, LoadSecond, NoSilentGrowth, JudgedCovered, Readable, TypeOK
    <3> QED
      BY <3>3, <3>4 DEF Covered
  <2>4. CASE Collect(r)
    <3>1. PICK out \in [Nodes -> Outcome] :
            report' = [report EXCEPT ![r] =
               [n \in Nodes |-> applyBondDelta(parseBond(out[n], links[n]),
                                               base1[r][n], base2[r][n])]]
      BY <2>4 DEF Collect
    <3>2. ASSUME NEW n \in Nodes, report'[r][n].level \notin Alarm
          PROVE  report'[r][n].total <= flagged[n]
      <4>1. /\ links[n] \in Nat /\ flagged[n] \in Nat /\ out[n] \in Outcome
            /\ base1[r][n] \in Totals /\ base2[r][n] \in Totals
        BY BoundAssumption DEF TypeOK
      <4>2. report'[r][n] = applyBondDelta(parseBond(out[n], links[n]),
                                           base1[r][n], base2[r][n])
        BY <3>1 DEF TypeOK
      <4>3. base1[r][n] <= flagged[n] /\ base2[r][n] <= flagged[n]
        BY <1>a DEF BaselinesCovered
      <4> QED
        BY <3>2, <4>1, <4>2, <4>3, QuietIsCovered
    <3>3. JudgedCovered'
      BY <2>4, <3>1, <3>2, <1>a DEF Collect, JudgedCovered, TypeOK
    <3>4. BaselinesCovered'
      BY <2>4, <1>a DEF Collect, BaselinesCovered, NoBaseline, NoMetric, TypeOK
    <3>5. NoSilentGrowth'
      BY <2>4, <3>3, <1>a DEF Collect, NoSilentGrowth, JudgedCovered, Readable, TypeOK
    <3> QED
      BY <3>3, <3>4, <3>5 DEF Covered
  <2>5. CASE SaveOpen(r)
    <3>1. NoSilentGrowth'
      BY <2>5, <1>a DEF SaveOpen, NoSilentGrowth, Readable, TypeOK
    <3> QED
      BY <2>5, <3>1, <1>a DEF SaveOpen, Covered, BaselinesCovered, JudgedCovered
  <2> DEFINE Recorded == /\ files' = [files EXCEPT ![start[r]] = report[r]]
                         /\ flagged' = Raised(report[r])
             Spoilt   == /\ files' \in {files, [files EXCEPT ![start[r]] = Truncated]}
                         /\ flagged' = flagged
  <2>8. CASE SaveWrite(r) /\ Spoilt
    <3>1. \A t \in Times : Readable(t)' => files'[t] = files[t]
      BY <2>8 DEF Readable, TypeOK
    <3>2. BaselinesCovered' /\ JudgedCovered'
      BY <2>8, <1>a DEF SaveWrite, locals, BaselinesCovered, JudgedCovered
    <3>3. \A t \in Times, n \in Nodes : Readable(t)' => files'[t][n].total <= flagged'[n]
      BY <2>8, <3>1, <1>a DEF NoSilentGrowth, Readable
    <3> QED
      BY <3>2, <3>3 DEF Covered, NoSilentGrowth, JudgedCovered
  <2>9. SaveWrite(r) => Recorded \/ Spoilt
    BY WriteOutcome
  <2>6. CASE \/ SaveWrite(r) /\ Recorded
             \/ Return(r)
    <3>1. flagged' = Raised(report[r]) /\ report[r] \in Reports
      BY <2>6 DEF Return, TypeOK
    <3>2. \A n \in Nodes : flagged[n] <= flagged'[n]
      BY <3>1, RaisedCovers
    <3>3. ASSUME NEW x \in Totals, NEW n \in Nodes, x <= flagged[n]
          PROVE  x <= flagged'[n]
      BY <3>3, <3>2 DEF Totals, NoMetric, TypeOK
    <3>4. \A n \in Nodes : report[r][n].total <= flagged'[n]
      <4> SUFFICES ASSUME NEW n \in Nodes
                   PROVE  report[r][n].total <= flagged'[n]
        OBVIOUS
      <4>1. CASE report[r][n].level \in Alarm
        BY <4>1, <3>1, RaisedCovers
      <4>2. CASE report[r][n].level \notin Alarm
        <5>1. report[r][n].total <= flagged[n] /\ report[r][n].total \in Totals
          BY <4>2, <3>1, <1>a DEF JudgedCovered, Reports, Finding
        <5> QED
          BY <5>1, <3>3
      <4> QED
        BY <4>1, <4>2
    <3>5. BaselinesCovered'
      BY <2>6, <3>3, <1>a DEF SaveWrite, Return, BaselinesCovered, TypeOK
    <3>6. JudgedCovered'
      <4> SUFFICES ASSUME NEW q \in Runs, NEW n \in Nodes,
                          report'[q][n].level \notin Alarm
                   PROVE  report'[q][n].total <= flagged'[n]
        BY DEF JudgedCovered
      <4>1. CASE report'[q] = report[q]
        <5>1. report[q][n].total <= flagged[n] /\ report[q][n].total \in Totals
          BY <4>1, <1>a DEF JudgedCovered, TypeOK, Reports, Finding
        <5> QED
          BY <4>1, <5>1, <3>3
      <4>2. CASE report'[q] = NoFindings
        BY <4>2, TypeOK' DEF NoFindings, NoMetric, TypeOK
      <4> QED
        BY <4>1, <4>2, <2>6 DEF SaveWrite, Return, TypeOK
    <3>7. NoSilentGrowth'
      <4>1. ASSUME NEW t \in Times, NEW n \in Nodes, Readable(t)'
            PROVE  files'[t][n].total <= flagged'[n]
        <5>1. CASE files'[t] = files[t]
          <6>1. files[t] \in Reports /\ files[t][n].total <= flagged[n]
            BY <4>1, <5>1, <1>a DEF NoSilentGrowth, Readable, TypeOK
          <6> QED
            BY <5>1, <6>1, <3>3 DEF Reports, Finding
        <5>2. CASE files'[t] = report[r]
          BY <5>2, <3>4
        <5> QED
          BY <5>1, <5>2, <2>6 DEF Return, TypeOK
      <4> QED
        BY <4>1, <3>6 DEF NoSilentGrowth, JudgedCovered
    <3> QED
      BY <3>5, <3>6, <3>7 DEF Covered
  <2>7. CASE PruneRemove(r)
    <3>1. \A t \in Times : files'[t] = files[t] \/ files'[t] = Absent
      BY <2>7, RemovesVictims
    <3>2. NoSilentGrowth'
      BY <2>7, <3>1, <1>a DEF PruneRemove, NoSilentGrowth, JudgedCovered, Readable, TypeOK
    <3> QED
      BY <2>7, <3>2, <1>a DEF PruneRemove, Covered, BaselinesCovered, JudgedCovered
  <2> QED
    BY <1>4, <2>1, <2>2, <2>3, <2>4, <2>5, <2>6, <2>7, <2>8, <2>9 DEF Run
<1>5. CASE UNCHANGED vars
  BY <1>5, CoveredFrame DEF vars, locals
<1> QED
  BY <1>1, <1>2, <1>3, <1>4, <1>5 DEF Next

(* The inductive invariant behind NoSilentGrowth. *)
THEOREM CoveredInvariant == Spec => []Covered
<1>1. Init => Covered
  BY DEF Init, RunsInit, Covered, NoSilentGrowth, BaselinesCovered, JudgedCovered, Readable,
         NoBaseline, NoFindings, NoMetric
<1>2. TypeOK /\ TypeOK' /\ Covered /\ [Next]_vars => Covered'
  BY CoveredStep
<1> QED
  BY <1>1, <1>2, TypeCorrect, PTL DEF Spec

(* However runs overlap, fail, crash, overwrite and prune each other's      *)
(* reports, a report that shows a node as quiet was preceded by an alarm at *)
(* that node's total or above.                                              *)
THEOREM NoSilentGrowthTheorem == Spec => []NoSilentGrowth
<1>1. Covered => NoSilentGrowth
  BY DEF Covered
<1> QED
  BY <1>1, CoveredInvariant, PTL
--------------------------------------------------------------------------
(* Pruning. *)

LEMMA NewerFinite ==
    ASSUME NEW S \in SUBSET Times
    PROVE  IsFiniteSet(S)
<1>1. IsFiniteSet(0 .. MaxTime)
  BY FS_Interval, BoundAssumption
<1> QED
  BY <1>1, FS_Subset DEF Times

(* Removing names that each have Keep newer ones leaves every other such    *)
(* name with Keep newer ones: those after the latest name that goes.        *)
LEMMA RemovalKeepsNewer ==
    ASSUME NEW L \in SUBSET Times, NEW gone \in SUBSET Times,
           \A g \in gone : Cardinality({u \in L : u > g}) >= Keep,
           NEW t \in Times, Cardinality({u \in L : u > t}) >= Keep
    PROVE  Cardinality({u \in L \ gone : u > t}) >= Keep
<1> DEFINE N == {u \in L : u > t}
           R == {u \in L \ gone : u > t}
<1>1. IsFiniteSet(R) /\ Cardinality(R) \in Nat
  BY NewerFinite, FS_CardinalityType
<1>2. CASE N \cap gone = {}
  <2>1. N = R
    BY <1>2
  <2> QED
    BY <2>1
<1>3. CASE N \cap gone # {}
  <2>1. PICK g \in N \cap gone : \A u \in N \cap gone : u <= g
    BY <1>3, LatestExists
  <2> DEFINE M == {u \in L : u > g}
  <2>2. M \in SUBSET R
    <3> SUFFICES ASSUME NEW u \in M
                 PROVE  u \in R
      OBVIOUS
    <3>1. /\ u \in L /\ u \in Int /\ g \in Int /\ t \in Int
          /\ u > g /\ g > t
      BY <2>1, BoundAssumption DEF Times
    <3>2. u > t
      BY <3>1
    <3>3. u \notin gone
      BY <2>1, <3>1, <3>2
    <3> QED
      BY <3>1, <3>2, <3>3
  <2>3. Cardinality(M) <= Cardinality(R) /\ Cardinality(M) \in Nat
    <3>1. IsFiniteSet(M)
      BY NewerFinite
    <3> QED
      BY <1>1, <2>2, <3>1, FS_Subset, FS_CardinalityType
  <2>4. Cardinality(M) >= Keep
    BY <2>1
  <2> QED
    BY <1>1, <2>3, <2>4, KeepAssumption
<1> QED
  BY <1>2, <1>3

(* More names can only add newer ones. *)
LEMMA AdditionKeepsNewer ==
    ASSUME NEW L \in SUBSET Times, NEW K \in SUBSET Times, L \subseteq K,
           NEW t \in Times, Cardinality({u \in L : u > t}) >= Keep
    PROVE  Cardinality({u \in K : u > t}) >= Keep
<1> DEFINE A == {u \in L : u > t}
           B == {u \in K : u > t}
<1>1. /\ IsFiniteSet(A) /\ Cardinality(A) \in Nat
      /\ IsFiniteSet(B) /\ Cardinality(B) \in Nat
  BY NewerFinite, FS_CardinalityType
<1>2. Cardinality(A) <= Cardinality(B)
  <2>1. A \in SUBSET B
    OBVIOUS
  <2> QED
    BY <1>1, <2>1, FS_Subset
<1> QED
  BY <1>1, <1>2, KeepAssumption

LEMMA VictimsStep ==
    ASSUME TypeOK, TypeOK', VictimsOutdated, [Next]_vars
    PROVE  VictimsOutdated'
<1>a. /\ Listed \in SUBSET Times /\ Listed' \in SUBSET Times
      /\ \A r \in Runs : victims[r] \in SUBSET Times
  BY DEF Listed, TypeOK
<1>1. CASE UNCHANGED <<files, victims>>
  BY <1>1 DEF VictimsOutdated, Newer, Listed
<1>2. CASE Crash
  BY <1>2 DEF Crash, VictimsOutdated
<1>3. ASSUME NEW r \in Runs, SaveOpen(r) \/ SaveWrite(r)
      PROVE  VictimsOutdated'
  <2>1. Listed \subseteq Listed'
    <3>1. /\ Truncated # Absent /\ report[r] # Absent
          /\ start[r] \in Times
      BY FileAssumption DEF TypeOK
    <3> QED
      BY <1>3, <3>1, WriteOutcome DEF SaveOpen, Listed, TypeOK
  <2>2. victims' = victims
    BY <1>3 DEF SaveOpen, SaveWrite, locals
  <2> QED
    BY <2>1, <2>2, <1>a, AdditionKeepsNewer DEF VictimsOutdated, Newer
<1>4. ASSUME NEW r \in Runs, PruneList(r)
      PROVE  VictimsOutdated'
  <2>1. Listed' = Listed
    BY <1>4 DEF PruneList, Listed
  <2>2. \A q \in Runs : victims'[q] = victims[q] \/ victims'[q] = Older(Listed)
    BY <1>4 DEF PruneList, TypeOK
  <2> QED
    BY <2>1, <2>2 DEF VictimsOutdated, Newer, Older
<1>5. ASSUME NEW r \in Runs, PruneRemove(r)
      PROVE  VictimsOutdated'
  <2>1. PICK gone \in SUBSET victims[r] :
          files' = [t \in Times |-> IF t \in gone THEN Absent ELSE files[t]]
    BY <1>5, RemovesVictims
  <2>2. Listed' = Listed \ gone
    BY <2>1 DEF Listed
  <2>3. \A g \in gone : Cardinality({u \in Listed : u > g}) >= Keep
    BY <2>1 DEF VictimsOutdated, Newer
  <2>4. ASSUME NEW q \in Runs, NEW t \in victims'[q]
        PROVE  Cardinality(Newer(t)') >= Keep
    <3>1. t \in victims[q]
      BY <1>5, <2>4, RemovesVictims
    <3>2. Cardinality({u \in Listed : u > t}) >= Keep
      BY <3>1 DEF VictimsOutdated, Newer
    <3>3. t \in Times /\ gone \in SUBSET Times
      BY <3>1, <2>1, <1>a
    <3>4. Cardinality({u \in Listed \ gone : u > t}) >= Keep
      BY <3>2, <3>3, <2>3, <1>a, RemovalKeepsNewer
    <3> QED
      BY <3>4, <2>2 DEF Newer
  <2> QED
    BY <2>4 DEF VictimsOutdated
<1> QED
  BY <1>1, <1>2, <1>3, <1>4, <1>5
     DEF Next, Run, Tick, LinkFails, Reboot, List, ListError, LoadFirst, LoadFirstError,
         LoadSecond, LoadSecondError, Start, Collect, SaveError, PruneListError, PruneDone,
         Return, locals, vars

(* The inductive invariant behind PruneKeepsNewest. *)
THEOREM VictimsInvariant == Spec => []VictimsOutdated
<1>1. Init => VictimsOutdated
  BY DEF Init, RunsInit, VictimsOutdated
<1>2. TypeOK /\ TypeOK' /\ VictimsOutdated /\ [Next]_vars => VictimsOutdated'
  BY VictimsStep
<1> QED
  BY <1>1, <1>2, TypeCorrect, PTL DEF Spec

LEMMA RemovalStep ==
    ASSUME TypeOK, VictimsOutdated, [Next]_vars,
           NEW t \in Times, files[t] # Absent, files'[t] = Absent
    PROVE  Cardinality(Newer(t)) >= Keep
<1>1. ~ UNCHANGED files
  OBVIOUS
<1>2. PICK r \in Runs : SaveOpen(r) \/ SaveWrite(r) \/ PruneRemove(r)
  BY <1>1 DEF Next, Run, Tick, Crash, LinkFails, Reboot, List, ListError, LoadFirst,
              LoadFirstError, LoadSecond, LoadSecondError, Start, Collect, SaveError,
              PruneList, PruneListError, PruneDone, Return, locals, vars
<1>3. CASE SaveOpen(r) \/ SaveWrite(r)
  <2>1. Truncated # Absent /\ report[r] # Absent
    BY FileAssumption DEF TypeOK
  <2> QED
    BY <1>3, <2>1, WriteOutcome DEF SaveOpen, TypeOK
<1>4. CASE PruneRemove(r)
  <2>1. t \in victims[r]
    BY <1>4, RemovesVictims
  <2> QED
    BY <2>1 DEF VictimsOutdated
<1> QED
  BY <1>2, <1>3, <1>4

(* A report only disappears while Keep newer ones are there. *)
THEOREM PruneKeepsNewestTheorem == Spec => PruneKeepsNewest
<1> DEFINE Removal == \A t \in Times : files[t] # Absent /\ files'[t] = Absent
                         => Cardinality(Newer(t)) >= Keep
<1>1. TypeOK /\ VictimsOutdated /\ [Next]_vars => [Removal]_vars
  BY RemovalStep
<1>2. [][Removal]_vars => PruneKeepsNewest
  BY PTL DEF PruneKeepsNewest
<1> QED
  BY <1>1, <1>2, TypeCorrect, VictimsInvariant, PTL DEF Spec
--------------------------------------------------------------------------
(* The migration.  Every step is one of the bot's, or one of the walk's,    *)
(* which changes the history at the name it is at and nothing else of the   *)
(* bot's.                                                                   *)

\* The migration's own variables.  Its walk begins only when there is an old report,
\* and has a name left while it goes on.
MigrationTypeOK ==
    /\ mpc \in {"idle", "load", "open", "write", "done"}
    /\ left \in SUBSET Times /\ loaded \in Reports
    /\ text \in [Times -> [Nodes -> Totals]]
    /\ failed \in BOOLEAN
    /\ untold \in SUBSET Runs /\ early \in SUBSET Times
    /\ missed \in [Runs -> SUBSET Times] /\ unread \in [Times -> SUBSET Times]
    /\ mpc \in {"load", "open", "write"} <=> left # {}
    /\ mpc # "idle" => \E t \in Times : text[t] # Untold

MigrationTypes == TypeOK /\ MigrationTypeOK

LEMMA OldTypes ==
    ASSUME NEW f \in OldFindings
    PROVE  /\ f.level \in Level /\ f.text \in Totals
           /\ f.level = LevelWarn => f.text \in 1 .. MaxTotal
           /\ f.level # LevelWarn => f.text \in {0, NoMetric}
BY BoundAssumption DEF OldFindings, Totals, NoMetric,
       Level, LevelOK, LevelWarn, LevelCritical, LevelUnknown

(* What the runs before have flagged covers what the old reports tell. *)
LEMMA WarnedType ==
    ASSUME NEW kept \in Nat, NEW old \in [0 .. kept - 1 -> [Nodes -> OldFindings]],
           NEW n \in Nodes
    PROVE  /\ Warned(old, n) \in Nat
           /\ \A t \in 0 .. kept - 1 : old[t][n].text <= Warned(old, n)
<1> DEFINE warns  == {u \in DOMAIN old : old[u][n].level = LevelWarn}
           counts == {0} \cup {old[t][n].text : t \in warns}
<1>1. \A t \in 0 .. kept - 1 : old[t][n] \in OldFindings
  OBVIOUS
<1>2. counts \in SUBSET (0 .. MaxTotal) /\ counts # {}
  <2>1. \A t \in warns : old[t][n].text \in 1 .. MaxTotal
    BY <1>1, OldTypes
  <2> QED
    BY <2>1, BoundAssumption
<1>3. \E k \in counts : \A j \in counts : j <= k
  BY <1>2, GreatestExists, BoundAssumption
<1>4. Warned(old, n) \in counts /\ \A j \in counts : j <= Warned(old, n)
  BY <1>3 DEF Warned
<1>5. Warned(old, n) \in Nat
  BY <1>2, <1>4, BoundAssumption
<1>6. ASSUME NEW t \in 0 .. kept - 1
      PROVE  old[t][n].text <= Warned(old, n)
  <2>1. CASE old[t][n].level = LevelWarn
    BY <1>4, <2>1
  <2>2. CASE old[t][n].level # LevelWarn
    <3>1. old[t][n].text \in {0, NoMetric}
      BY <1>1, <2>2, OldTypes
    <3> QED
      BY <3>1, <1>5 DEF NoMetric
  <2> QED
    BY <2>1, <2>2
<1> QED
  BY <1>5, <1>6

(* What an earlier version of the bot has left. *)
LEMMA OldReports ==
    ASSUME MigrationInit
    PROVE  /\ now \in Times
           /\ \A t \in Times : text[t] # Untold => t < now
           /\ \A t \in Times : /\ files[t] # Absent => t < now
                               /\ files[t] \in Reports \cup {Absent}
                               /\ text[t] \in [Nodes -> Totals]
           /\ \A n \in Nodes : flagged[n] \in Nat
           /\ \A t \in Times, n \in Nodes :
                 /\ Readable(t) => files[t][n].total = NoMetric
                 /\ Readable(t) /\ text[t][n] > 0 => files[t][n].level \in Alarm
                 /\ text[t][n] <= flagged[n]
<1>1. PICK kept \in {0, Old} : \E old \in [0 .. kept - 1 -> [Nodes -> OldFindings]] :
          /\ now   = kept
          /\ files = [t \in Times |->
                IF t < kept THEN [n \in Nodes |-> [level |-> old[t][n].level, total |-> NoMetric]]
                ELSE Absent]
          /\ text  = [t \in Times |-> IF t < kept THEN [n \in Nodes |-> old[t][n].text]
                                      ELSE Untold]
          /\ flagged = [n \in Nodes |-> Warned(old, n)]
  BY DEF MigrationInit
<1>2. PICK old \in [0 .. kept - 1 -> [Nodes -> OldFindings]] :
          /\ now   = kept
          /\ files = [t \in Times |->
                IF t < kept THEN [n \in Nodes |-> [level |-> old[t][n].level, total |-> NoMetric]]
                ELSE Absent]
          /\ text  = [t \in Times |-> IF t < kept THEN [n \in Nodes |-> old[t][n].text]
                                      ELSE Untold]
          /\ flagged = [n \in Nodes |-> Warned(old, n)]
  BY <1>1
<1>3. kept \in Times /\ kept \in Nat
  BY OldAssumption, BoundAssumption DEF Times
<1>4. \A n \in Nodes : flagged[n] \in Nat
  BY <1>2, <1>3, WarnedType
<1>5. ASSUME NEW t \in Times, t < kept
      PROVE  /\ files[t] \in Reports /\ text[t] \in [Nodes -> Totals]
             /\ \A n \in Nodes :
                   /\ files[t][n].total = NoMetric
                   /\ text[t][n] > 0 => files[t][n].level \in Alarm
                   /\ text[t][n] <= flagged[n]
  <2>1. t \in 0 .. kept - 1
    BY <1>3, <1>5, BoundAssumption DEF Times
  <2>2. \A n \in Nodes : old[t][n] \in OldFindings
    BY <2>1
  <2>3. \A n \in Nodes :
            /\ old[t][n].level \in Level /\ old[t][n].text \in Totals
            /\ old[t][n].text > 0 => old[t][n].level = LevelWarn
            /\ old[t][n].text <= Warned(old, n)
    <3> SUFFICES ASSUME NEW n \in Nodes
                 PROVE  /\ old[t][n].level \in Level /\ old[t][n].text \in Totals
                        /\ old[t][n].text > 0 => old[t][n].level = LevelWarn
                        /\ old[t][n].text <= Warned(old, n)
      OBVIOUS
    <3>1. old[t][n].text <= Warned(old, n)
      BY <1>3, <2>1, WarnedType
    <3>2. /\ old[t][n].level \in Level /\ old[t][n].text \in Totals
          /\ old[t][n].level # LevelWarn => old[t][n].text \in {0, NoMetric}
      BY <2>2, OldTypes
    <3> QED
      BY <3>1, <3>2 DEF NoMetric
  <2>4. /\ files[t] = [n \in Nodes |-> [level |-> old[t][n].level, total |-> NoMetric]]
        /\ text[t] = [n \in Nodes |-> old[t][n].text]
    BY <1>2, <1>5
  <2>5. files[t] \in Reports
    BY <2>3, <2>4 DEF Reports, Finding, Totals
  <2> QED
    BY <1>2, <2>3, <2>4, <2>5 DEF Alarm
<1>6. ASSUME NEW t \in Times, ~ (t < kept)
      PROVE  /\ files[t] = Absent /\ text[t] = Untold /\ text[t] \in [Nodes -> Totals]
             /\ \A n \in Nodes : text[t][n] = NoMetric
  BY <1>2, <1>6 DEF Untold, Totals
<1>7. now = kept
  BY <1>2
<1>8. ASSUME NEW t \in Times, NEW n \in Nodes
      PROVE  /\ Readable(t) => files[t][n].total = NoMetric
             /\ Readable(t) /\ text[t][n] > 0 => files[t][n].level \in Alarm
             /\ text[t][n] <= flagged[n]
  <2>1. CASE t < kept
    BY <1>4, <1>5, <2>1
  <2>2. CASE ~ (t < kept)
    BY <1>4, <1>6, <2>2 DEF Readable, NoMetric
  <2> QED
    BY <2>1, <2>2
<1> QED
  BY <1>3, <1>4, <1>5, <1>6, <1>7, <1>8

LEMMA MigrationTypesInit == MigrationInit => MigrationTypes
<1> SUFFICES ASSUME MigrationInit
             PROVE  MigrationTypes
  OBVIOUS
<1>1. TypeOK
  <2>1. links \in [Nodes -> 0 .. MaxTotal] /\ RunsInit
    BY DEF MigrationInit
  <2>2. files \in [Times -> Reports \cup {Absent, Truncated}]
    <3>1. DOMAIN files = Times /\ files = [t \in Times |-> files[t]]
      BY DEF MigrationInit
    <3> QED
      BY <3>1, OldReports
  <2>3. flagged \in [Nodes -> Nat]
    <3>1. flagged = [n \in Nodes |-> flagged[n]]
      BY DEF MigrationInit
    <3> QED
      BY <3>1, OldReports
  <2> QED
    BY <2>1, <2>2, <2>3, OldReports, RunsInitType DEF TypeOK
<1>2. MigrationTypeOK
  <2>1. text \in [Times -> [Nodes -> Totals]]
    <3>1. text = [t \in Times |-> text[t]]
      BY DEF MigrationInit
    <3> QED
      BY <3>1, OldReports
  <2>2. NoFindings \in Reports
    BY DEF NoFindings, Reports, Finding, Totals, Level, LevelOK, LevelUnknown
  <2> QED
    BY <2>1, <2>2 DEF MigrationInit, MigrationTypeOK
<1> QED
  BY <1>1, <1>2 DEF MigrationTypes

(* One step of the walk, as the bot sees it. *)
LEMMA WalkSteps ==
    ASSUME MigrationTypes, Migrate
    PROVE  /\ UNCHANGED <<now, links, pc, names, base1, base2, start, report, victims, flagged>>
           /\ text' = text
           /\ \/ files' = files
              \/ /\ mpc = "open" /\ Newest(left) \in Times
                 /\ files' = [files EXCEPT ![Newest(left)] = Truncated]
              \/ /\ mpc = "write" /\ Newest(left) \in Times
                 /\ files[Newest(left)] # Absent
                 /\ files' = [files EXCEPT ![Newest(left)] = loaded]
<1> USE DEF MigrationTypes, MigrationTypeOK, TypeOK
<1>1. CASE MigrateList \/ MigrateLoad \/ FileError \/ MigrateKilled
  BY <1>1 DEF MigrateList, MigrateLoad, FileError, MigrateKilled, vars, locals
<1>2. CASE RewriteOpen \/ RewriteWrite
  <2>1. Newest(left) \in Times
    BY <1>2, NewestType DEF RewriteOpen, RewriteWrite
  <2>2. files[Newest(left)] = Absent =>
            [files EXCEPT ![Newest(left)] = Absent] = files
    BY <2>1
  <2> QED
    BY <1>2, <2>1, <2>2 DEF RewriteOpen, RewriteWrite, locals
<1> QED
  BY <1>1, <1>2 DEF Migrate

LEMMA BackfillType ==
    ASSUME NEW rep \in Reports, NEW told \in [Nodes -> Totals]
    PROVE  MigrateReport(rep, told) \in Reports
<1>1. \A n \in Nodes : rep[n] \in Finding /\ told[n] \in Totals
  BY DEF Reports
<1>2. \A n \in Nodes : [rep[n] EXCEPT !.total = told[n]] \in Finding
  BY <1>1 DEF Finding
<1> QED
  BY <1>1, <1>2 DEF MigrateReport, Reports

LEMMA MigrationTypesStep ==
    ASSUME MigrationTypes, [MigrationNext]_allVars
    PROVE  MigrationTypes'
<1> USE DEF MigrationTypes
<1>1. TypeOK'
  <2>1. CASE [Next]_vars
    BY <2>1, TypeStep
  <2>2. CASE Migrate
    <3>1. files' \in [Times -> Reports \cup {Absent, Truncated}]
      BY <2>2, WalkSteps DEF TypeOK, MigrationTypeOK
    <3> QED
      BY <2>2, <3>1, WalkSteps DEF TypeOK
  <2> QED
    BY <2>1, <2>2 DEF MigrationNext, allVars
<1>2. /\ untold' \in SUBSET Runs /\ early' \in SUBSET Times
      /\ missed' \in [Runs -> SUBSET Times] /\ unread' \in [Times -> SUBSET Times]
  <2>1. CASE Remember
    <3>1. \A r \in Runs : start'[r] \in Times
      BY <1>1 DEF TypeOK
    <3>2. untold' \in SUBSET Runs /\ early' \in SUBSET Times
      BY <2>1, <3>1 DEF Remember, MigrationTypeOK
    <3>3. \A r \in Runs : missed[r] \in SUBSET Times /\ Lost(r) \in SUBSET Times
      BY DEF MigrationTypeOK, Lost
    <3>4. missed' \in [Runs -> SUBSET Times]
      BY <2>1, <3>3 DEF Remember
    <3>5. \A t \in Times : /\ unread[t] \in SUBSET Times
                           /\ UNION {missed[r] : r \in WrittenBy(t)} \in SUBSET Times
      BY <3>3 DEF MigrationTypeOK, WrittenBy
    <3>6. unread' \in [Times -> SUBSET Times]
      BY <2>1, <3>5 DEF Remember
    <3> QED
      BY <3>2, <3>4, <3>6
  <2>2. CASE UNCHANGED allVars
    BY <2>2 DEF allVars, history, MigrationTypeOK
  <2> QED
    BY <2>1, <2>2 DEF MigrationNext
<1>3. /\ mpc' \in {"idle", "load", "open", "write", "done"}
      /\ left' \in SUBSET Times /\ loaded' \in Reports /\ failed' \in BOOLEAN
      /\ text' = text
      /\ mpc' \in {"load", "open", "write"} <=> left' # {}
      /\ mpc' # "idle" => \E t \in Times : text[t] # Untold
  <2> USE DEF MigrationTypeOK
  <2>1. CASE UNCHANGED migration
    BY <2>1 DEF migration
  <2>2. NoFindings \in Reports
    BY DEF NoFindings, Reports, Finding, Totals, Level, LevelOK, LevelUnknown
  <2>3. CASE MigrateList
    BY <2>2, <2>3 DEF MigrateList, NextName, Listed
  <2>4. CASE MigrateLoad
    <3>1. Newest(left) \in Times
      BY <2>4, NewestType DEF MigrateLoad
    <3>2. Readable(Newest(left)) => MigrateReport(files[Newest(left)], text[Newest(left)]) \in Reports
      BY <3>1, BackfillType DEF Readable, TypeOK
    <3> QED
      BY <2>2, <2>4, <3>2 DEF MigrateLoad, NextName, SkipUnreadable
  <2>5. CASE RewriteOpen
    BY <2>5 DEF RewriteOpen
  <2>6. CASE RewriteWrite \/ FileError
    BY <2>2, <2>6 DEF RewriteWrite, FileError, NextName
  <2>7. CASE MigrateKilled
    BY <2>2, <2>7 DEF MigrateKilled
  <2> QED
    BY <2>1, <2>3, <2>4, <2>5, <2>6, <2>7 DEF MigrationNext, Migrate, allVars, migration
<1> QED
  BY <1>1, <1>2, <1>3 DEF MigrationTypeOK

(* With an inspectctl that migrates beside the bot every variable keeps its *)
(* type too.                                                                *)
THEOREM MigrationTypeCorrect == MigrationSpec => []MigrationTypes
BY MigrationTypesInit, MigrationTypesStep, PTL DEF MigrationSpec
--------------------------------------------------------------------------
(* What holds of the bot alone holds beside a migration.  A total that the  *)
(* walk writes comes from the report itself or from its text, and the run   *)
(* that wrote that text has warned of it.                                   *)

\* What an old report tells is covered like what it shows.
ToldCovered ==
    \A n \in Nodes : /\ loaded[n].total <= flagged[n]
                     /\ \A t \in Times : text[t][n] <= flagged[n]

LEMMA FlaggedGrows ==
    ASSUME TypeOK, [Next]_vars, NEW n \in Nodes
    PROVE  flagged[n] <= flagged'[n]
<1>1. flagged[n] \in Nat
  BY DEF TypeOK
<1>2. CASE UNCHANGED flagged
  BY <1>1, <1>2
<1>3. ASSUME NEW r \in Runs, SaveWrite(r) \/ Return(r)
      PROVE  flagged[n] <= flagged'[n]
  <2>1. report[r] \in Reports
    BY DEF TypeOK
  <2>2. flagged' \in {flagged, Raised(report[r])}
    BY <1>3, WriteOutcome DEF Return
  <2> QED
    BY <1>1, <2>1, <2>2, RaisedCovers
<1> QED
  BY <1>2, <1>3
     DEF Next, Run, Tick, Crash, LinkFails, Reboot, List, ListError, LoadFirst, LoadFirstError,
         LoadSecond, LoadSecondError, Start, Collect, SaveOpen, SaveError, PruneList,
         PruneListError, PruneRemove, PruneDone, locals, vars

LEMMA ToldInit == MigrationInit => Covered /\ ToldCovered
<1> SUFFICES ASSUME MigrationInit
             PROVE  Covered /\ ToldCovered
  OBVIOUS
<1>1. ASSUME NEW n \in Nodes
      PROVE  /\ flagged[n] \in Nat /\ loaded[n].total = NoMetric
             /\ \A t \in Times : Readable(t) => files[t][n].total = NoMetric
             /\ \A t \in Times : text[t][n] <= flagged[n]
             /\ \A r \in Runs : /\ base1[r][n] = NoMetric /\ base2[r][n] = NoMetric
                                /\ report[r][n].total = NoMetric
  BY OldReports DEF MigrationInit, RunsInit, NoBaseline, NoFindings
<1>2. \A n \in Nodes : flagged[n] \in Nat /\ NoMetric <= flagged[n]
  BY <1>1 DEF NoMetric
<1>3. NoSilentGrowth /\ JudgedCovered
  BY <1>1, <1>2 DEF NoSilentGrowth, JudgedCovered
<1>4. BaselinesCovered /\ ToldCovered
  BY <1>1, <1>2 DEF BaselinesCovered, ToldCovered
<1> QED
  BY <1>3, <1>4 DEF Covered

LEMMA ToldStep ==
    ASSUME MigrationTypes, MigrationTypes', Covered, ToldCovered, [MigrationNext]_allVars
    PROVE  Covered' /\ ToldCovered'
<1> USE DEF MigrationTypes
<1>1. CASE [Next]_vars /\ UNCHANGED migration
  <2>1. Covered'
    BY <1>1, CoveredStep
  <2>2. ASSUME NEW n \in Nodes, NEW x \in Totals, x <= flagged[n]
        PROVE  x <= flagged'[n]
    <3>1. flagged[n] \in Nat /\ flagged'[n] \in Nat /\ flagged[n] <= flagged'[n]
      BY <1>1, FlaggedGrows DEF TypeOK
    <3> QED
      BY <2>2, <3>1 DEF Totals, NoMetric
  <2>3. loaded' = loaded /\ text' = text
    BY <1>1 DEF migration
  <2>4. \A n \in Nodes : /\ loaded[n].total \in Totals
                         /\ \A t \in Times : text[t][n] \in Totals
    BY DEF MigrationTypeOK, Reports, Finding
  <2> QED
    BY <2>1, <2>2, <2>3, <2>4 DEF ToldCovered
<1>2. CASE Migrate
  <2>1. /\ UNCHANGED <<pc, base1, base2, report, flagged>> /\ text' = text
        /\ \A t \in Times : Readable(t)' => files'[t] = files[t] \/ files'[t] = loaded
    BY <1>2, WalkSteps DEF Readable, MigrationTypeOK, TypeOK
  <2>2. NoSilentGrowth'
    BY <2>1 DEF Covered, ToldCovered, NoSilentGrowth, Readable
  <2>3. BaselinesCovered' /\ JudgedCovered'
    BY <2>1 DEF Covered, BaselinesCovered, JudgedCovered
  <2>4. \A n \in Nodes : loaded'[n].total <= flagged[n]
    <3> SUFFICES ASSUME NEW n \in Nodes
                 PROVE  loaded'[n].total <= flagged[n]
      OBVIOUS
    <3> DEFINE w == Newest(left)
    <3>1. CASE loaded' \in {loaded, NoFindings}
      BY <3>1 DEF ToldCovered, NoFindings, NoMetric, TypeOK
    <3>2. CASE /\ MigrateLoad /\ Readable(w)
               /\ loaded' = MigrateReport(files[w], text[w])
      <4>1. w \in Times
        BY <3>2, NewestType DEF MigrateLoad, MigrationTypeOK
      <4>2. loaded'[n].total \in {files[w][n].total, text[w][n]}
        <5>1. files[w] \in Reports
          BY <3>2, <4>1 DEF Readable, TypeOK
        <5>2. files[w][n] \in Finding
          BY <5>1 DEF Reports
        <5> QED
          BY <3>2, <5>2 DEF MigrateReport, Finding
      <4>3. files[w][n].total <= flagged[n] /\ text[w][n] <= flagged[n]
        BY <3>2, <4>1 DEF Covered, NoSilentGrowth, ToldCovered
      <4> QED
        BY <4>2, <4>3
    <3> QED
      BY <1>2, <3>1, <3>2 DEF Migrate, MigrateList, MigrateLoad, RewriteOpen, RewriteWrite,
                              FileError, MigrateKilled, NextName
  <2> QED
    BY <2>1, <2>2, <2>3, <2>4 DEF Covered, ToldCovered
<1>3. CASE UNCHANGED allVars
  BY <1>1, <1>3 DEF allVars
<1> QED
  BY <1>1, <1>2, <1>3 DEF MigrationNext

(* A migration adds no growth without an alarm either: no report is quiet   *)
(* at a total that no report has warned of, in its text or by its level.    *)
THEOREM MigratedSilentGrowth == MigrationSpec => []NoSilentGrowth
<1>1. Covered => NoSilentGrowth
  BY DEF Covered
<1> QED
  BY <1>1, ToldInit, ToldStep, MigrationTypeCorrect, PTL DEF MigrationSpec

LEMMA WalkKeepsNames ==
    ASSUME MigrationTypes, Migrate
    PROVE  Listed \subseteq Listed' /\ victims' = victims
<1>1. loaded # Absent /\ Truncated # Absent
  BY FileAssumption DEF MigrationTypes, MigrationTypeOK
<1> QED
  BY <1>1, WalkSteps DEF Listed, MigrationTypes, TypeOK

LEMMA MigratedVictimsStep ==
    ASSUME MigrationTypes, MigrationTypes', VictimsOutdated, [MigrationNext]_allVars
    PROVE  VictimsOutdated'
<1> USE DEF MigrationTypes
<1>1. CASE [Next]_vars
  BY <1>1, VictimsStep
<1>2. CASE Migrate
  <2>1. Listed \subseteq Listed' /\ victims' = victims
    BY <1>2, WalkKeepsNames
  <2>2. Listed \in SUBSET Times /\ Listed' \in SUBSET Times
    BY DEF Listed
  <2>3. ASSUME NEW r \in Runs, NEW t \in victims[r]
        PROVE  Cardinality(Newer(t)') >= Keep
    <3>1. t \in Times /\ Cardinality({u \in Listed : u > t}) >= Keep
      BY DEF VictimsOutdated, Newer, TypeOK
    <3> QED
      BY <2>1, <2>2, <3>1, AdditionKeepsNewer DEF Newer
  <2> QED
    BY <2>1, <2>3 DEF VictimsOutdated
<1> QED
  BY <1>1, <1>2 DEF MigrationNext, allVars

(* Nor does a migration beside the bot, which may bring back a name that was *)
(* pruned, ever make prune remove one of the Keep newest reports.            *)
THEOREM MigratedPrune == MigrationSpec => PruneKeepsNewest
<1> DEFINE Removal == \A t \in Times : files[t] # Absent /\ files'[t] = Absent
                         => Cardinality(Newer(t)) >= Keep
<1>1. MigrationTypes /\ VictimsOutdated /\ [MigrationNext]_allVars => [Removal]_vars
  <2>1. TypeOK /\ VictimsOutdated /\ [Next]_vars => [Removal]_vars
    BY RemovalStep
  <2>2. MigrationTypes /\ Migrate => Removal
    <3> SUFFICES ASSUME MigrationTypes, Migrate,
                        NEW t \in Times, files[t] # Absent, files'[t] = Absent
                 PROVE  FALSE
      OBVIOUS
    <3> QED
      BY WalkKeepsNames DEF Listed
  <2> QED
    BY <2>1, <2>2 DEF MigrationNext, allVars, MigrationTypes
<1>2. [][Removal]_vars => PruneKeepsNewest
  BY PTL DEF PruneKeepsNewest
<1>3. MigrationInit => VictimsOutdated
  BY DEF MigrationInit, RunsInit, VictimsOutdated
<1> QED
  BY <1>1, <1>2, <1>3, MigrationTypeCorrect, MigratedVictimsStep, PTL DEF MigrationSpec
--------------------------------------------------------------------------
(* The walk leaves no old report behind.  Nobody else writes one: a run     *)
(* writes under its own second, which is later than any old report's.       *)

\* An old report is of a second before any run of the bot.
TextsAreOld ==
    \A t \in Times : text[t] # Untold =>
        /\ t < now
        /\ \A r \in Runs : pc[r] \in {"collect", "save", "write"} => t < start[r]

\* An old report holds no total or the one its text tells, and once the walk is past it,
\* the one its text tells; the walk never writes another.
Walked ==
    \A t \in Times, n \in Nodes : text[t][n] # NoMetric =>
        /\ Readable(t) => files[t][n].total \in {NoMetric, text[t][n]}
        /\ Readable(t) /\ mpc # "idle" /\ ~failed /\ t \notin left
             => files[t][n].total = text[t][n]
        /\ mpc \in {"open", "write"} /\ t = Newest(left) => loaded[n].total = text[t][n]

LEMMA TextsAreOldStep ==
    ASSUME MigrationTypes, TextsAreOld, [MigrationNext]_allVars
    PROVE  TextsAreOld'
<1> USE DEF MigrationTypes
<1>1. CASE UNCHANGED <<now, pc, start, text>>
  BY <1>1 DEF TextsAreOld
<1>2. CASE Next /\ UNCHANGED migration
  <2>1. text' = text
    BY <1>2 DEF migration
  <2>2. now \in Int /\ Times \subseteq Int
    BY BoundAssumption DEF Times, TypeOK
  <2>3. CASE Tick
    <3>1. \A t \in Times : t < now => t < now'
      BY <2>2, <2>3 DEF Tick
    <3> QED
      BY <2>1, <2>3, <3>1 DEF Tick, locals, TextsAreOld
  <2>4. CASE Crash
    BY <2>1, <2>4 DEF Crash, TextsAreOld
  <2>5. ASSUME NEW r \in Runs, Run(r)
        PROVE  TextsAreOld'
    <3>1. /\ now' = now
          /\ \A q \in Runs : \/ pc'[q] \notin {"collect", "save", "write"}
                             \/ pc[q] \in {"collect", "save", "write"} /\ start'[q] = start[q]
                             \/ start'[q] = now
      BY <2>5 DEF Run, List, ListError, LoadFirst, LoadFirstError, LoadSecond, LoadSecondError,
                  Start, Collect, SaveOpen, SaveWrite, SaveError, PruneList, PruneListError,
                  PruneRemove, PruneDone, Return, Goto, locals, TypeOK, Steps
    <3> QED
      BY <2>1, <3>1 DEF TextsAreOld
  <2>6. ASSUME NEW n \in Nodes, LinkFails(n) \/ Reboot(n)
        PROVE  TextsAreOld'
    BY <2>1, <2>6 DEF LinkFails, Reboot, locals, TextsAreOld
  <2> QED
    BY <1>2, <2>3, <2>4, <2>5, <2>6 DEF Next
<1>3. CASE Migrate
  BY <1>1, <1>3, WalkSteps
<1>4. CASE UNCHANGED allVars
  BY <1>1, <1>4 DEF allVars, vars, locals, migration
<1> QED
  BY <1>2, <1>3, <1>4 DEF MigrationNext

(* A run leaves an old report alone, or removes it. *)
LEMMA RunsLeaveOld ==
    ASSUME TypeOK, TextsAreOld, [Next]_vars, NEW t \in Times, text[t] # Untold
    PROVE  files'[t] \in {files[t], Absent}
<1>1. CASE UNCHANGED files
  BY <1>1
<1>2. ASSUME NEW r \in Runs, SaveOpen(r) \/ SaveWrite(r)
      PROVE  files'[t] = files[t]
  <2>1. start[r] # t
    BY <1>2 DEF TextsAreOld, SaveOpen, SaveWrite, Goto, Times
  <2> QED
    BY <1>2, <2>1, WriteOutcome DEF SaveOpen, TypeOK
<1>3. ASSUME NEW r \in Runs, PruneRemove(r)
      PROVE  files'[t] \in {files[t], Absent}
  BY <1>3 DEF PruneRemove
<1> QED
  BY <1>1, <1>2, <1>3
     DEF Next, Run, Tick, Crash, LinkFails, Reboot, List, ListError, LoadFirst, LoadFirstError,
         LoadSecond, LoadSecondError, Start, Collect, SaveError, PruneList, PruneListError,
         PruneDone, Return, locals, vars

(* What is loaded from an old report and backfilled holds what its text tells. *)
LEMMA Backfilled ==
    ASSUME MigrationTypes, Walked, NEW t \in Times, NEW n \in Nodes, Readable(t),
           text[t][n] # NoMetric
    PROVE  MigrateReport(files[t], text[t])[n].total = text[t][n]
<1>1. files[t][n] \in Finding /\ files[t][n].total \in {NoMetric, text[t][n]}
  BY DEF MigrationTypes, TypeOK, Reports, Readable, Walked
<1> QED
  BY <1>1 DEF MigrateReport, Finding

LEMMA WalkedStep ==
    ASSUME MigrationTypes, TextsAreOld, Walked, [MigrationNext]_allVars
    PROVE  Walked'
<1> USE DEF MigrationTypes
<1>1. CASE [Next]_vars /\ UNCHANGED migration
  <2>1. UNCHANGED <<mpc, left, loaded, text, failed>> /\ Newest(left)' = Newest(left)
    BY <1>1 DEF migration, Newest
  <2>2. ASSUME NEW t \in Times, NEW n \in Nodes, text[t][n] # NoMetric
        PROVE  Readable(t)' => Readable(t) /\ files'[t] = files[t]
    <3>1. text[t] # Untold
      BY <2>2 DEF Untold
    <3> QED
      BY <1>1, <3>1, RunsLeaveOld DEF Readable
  <2> QED
    BY <2>1, <2>2 DEF Walked
<1>2. CASE Migrate
  <2> SUFFICES ASSUME NEW t \in Times, NEW n \in Nodes, text[t][n] # NoMetric
               PROVE  /\ Readable(t)' => files'[t][n].total \in {NoMetric, text[t][n]}
                      /\ Readable(t)' /\ mpc' # "idle" /\ ~failed' /\ t \notin left'
                           => files'[t][n].total = text[t][n]
                      /\ mpc' \in {"open", "write"} /\ t = Newest(left)'
                           => loaded'[n].total = text[t][n]
    BY <1>2, WalkSteps DEF Walked
  <2> DEFINE w == Newest(left)
  <2>w. mpc \in {"load", "open", "write"} => w \in left /\ w \in Times
    BY NewestType DEF MigrationTypeOK
  <2>1. CASE MigrateList
    <3>1. files' = files /\ left' = Listed /\ mpc' \in {"done", "load"}
      BY <2>1 DEF MigrateList, NextName, vars
    <3>2. Readable(t)' => Readable(t) /\ t \in left'
      BY <3>1 DEF Readable, Listed
    <3> QED
      BY <3>1, <3>2 DEF Walked
  <2>2. CASE MigrateLoad
    <3>1. files' = files /\ failed' = failed /\ mpc = "load" /\ w \in Times
          /\ (Readable(t)' <=> Readable(t))
      BY <2>2, <2>w DEF MigrateLoad, vars, Readable
    <3>2. CASE ~ Readable(w)
      <4>1. left' = left \ {w} /\ mpc' \in {"done", "load"}
        BY <2>2, <3>2 DEF MigrateLoad, SkipUnreadable, NextName
      <4> QED
        BY <3>1, <3>2, <4>1 DEF Walked
    <3>3. CASE Readable(w) /\ MigrateReport(files[w], text[w]) = files[w]
      <4>1. left' = left \ {w} /\ mpc' \in {"done", "load"}
        BY <2>2, <3>3 DEF MigrateLoad, NextName
      <4>2. t = w => files[t][n].total = text[t][n]
        BY <3>1, <3>3, Backfilled
      <4> QED
        BY <3>1, <4>1, <4>2 DEF Walked
    <3>4. CASE Readable(w) /\ MigrateReport(files[w], text[w]) # files[w]
      <4>1. /\ left' = left /\ mpc' = "open" /\ loaded' = MigrateReport(files[w], text[w])
            /\ Newest(left)' = w
        BY <2>2, <3>4 DEF MigrateLoad, Newest
      <4>2. t = w => loaded'[n].total = text[t][n]
        BY <3>1, <3>4, <4>1, Backfilled
      <4> QED
        BY <3>1, <4>1, <4>2 DEF Walked
    <3> QED
      BY <3>2, <3>3, <3>4
  <2>3. CASE RewriteOpen
    <3>1. /\ files' = [files EXCEPT ![w] = Truncated] /\ mpc = "open" /\ mpc' = "write"
          /\ left' = left /\ loaded' = loaded /\ failed' = failed /\ Newest(left)' = w
      BY <2>3 DEF RewriteOpen, Newest
    <3>2. Readable(t)' => Readable(t) /\ files'[t] = files[t]
      BY <2>w, <3>1 DEF Readable, TypeOK
    <3> QED
      BY <3>1, <3>2 DEF Walked
  <2>4. CASE RewriteWrite
    <3>1. /\ files' = [files EXCEPT ![w] = IF @ = Absent THEN Absent ELSE loaded]
          /\ mpc = "write" /\ mpc' \in {"done", "load"} /\ left' = left \ {w} /\ failed' = failed
      BY <2>4 DEF RewriteWrite, NextName
    <3>2. CASE t = w
      <4>1. Readable(t)' => files'[t] = loaded
        BY <2>w, <3>1, <3>2 DEF Readable, TypeOK
      <4>2. loaded[n].total = text[t][n]
        BY <3>1, <3>2 DEF Walked
      <4> QED
        BY <3>1, <4>1, <4>2
    <3>3. CASE t # w
      <4>1. files'[t] = files[t] /\ (Readable(t)' <=> Readable(t))
        BY <2>w, <3>1, <3>3 DEF Readable, TypeOK
      <4> QED
        BY <3>1, <3>3, <4>1 DEF Walked
    <3> QED
      BY <3>2, <3>3
  <2>5. CASE FileError \/ MigrateKilled
    <3>1. files' = files /\ failed' /\ mpc' \in {"done", "load"}
      BY <2>5 DEF FileError, MigrateKilled, NextName, vars
    <3> QED
      BY <3>1 DEF Walked, Readable
  <2> QED
    BY <1>2, <2>1, <2>2, <2>3, <2>4, <2>5 DEF Migrate
<1>3. CASE UNCHANGED allVars
  BY <1>1, <1>3 DEF allVars
<1> QED
  BY <1>1, <1>2, <1>3 DEF MigrationNext

LEMMA WalkInit == MigrationInit => TextsAreOld /\ Walked
<1> SUFFICES ASSUME MigrationInit
             PROVE  TextsAreOld /\ Walked
  OBVIOUS
<1>1. \A r \in Runs : pc[r] = "idle"
  BY DEF MigrationInit, RunsInit
<1>2. mpc = "idle" /\ \A t \in Times, n \in Nodes : Readable(t) => files[t][n].total = NoMetric
  BY OldReports DEF MigrationInit
<1>3. TextsAreOld
  BY <1>1, OldReports DEF TextsAreOld
<1> QED
  BY <1>2, <1>3 DEF Walked

LEMMA WalkIsOver == MigrationTypes /\ Walked => MigrationComplete
<1> SUFFICES ASSUME MigrationTypes, Walked, mpc = "done", ~failed,
                    NEW t \in Times, NEW n \in Nodes, Readable(t), text[t][n] # NoMetric
             PROVE  files[t][n].total = text[t][n]
  BY DEF MigrationComplete
<1>1. left = {} /\ text[t][n] \in Totals
  BY DEF MigrationTypes, MigrationTypeOK
<1> QED
  BY <1>1 DEF Walked

(* A migration that was not killed and met no error leaves no old report     *)
(* without the count its text tells, however many runs of the bot save,      *)
(* prune and crash beside it.                                                *)
THEOREM MigrationCompletes == MigrationSpec => []MigrationComplete
BY WalkInit, TextsAreOldStep, WalkedStep, WalkIsOver, MigrationTypeCorrect, PTL
   DEF MigrationSpec
--------------------------------------------------------------------------
(* Growth.  With one run at a time, a run saves under a newer name than all *)
(* the others, and unless it has read the history before it was migrated it *)
(* compares with the two reports that are still the newest when it saves.   *)

SingleRun == \A q, r \in Runs : q = r

\* Every count above zero is an alarm.
Loud(rep) == \A n \in Nodes : rep[n].total > 0 => rep[n].level \in Alarm

\* A growth from the first finding to the second is an alarm.
Noticed(old, new) ==
    old.total # NoMetric /\ old.total < new.total => new.level \in Alarm

\* At most one name of the listing is newer than v, up to time t or at all.
Close(v, t) == v < t /\ \E u \in Times : \A x \in Listed : v < x /\ x < t => x = u
Recent(v)   == \E u \in Times : \A x \in Listed : v < x => x = u

\* A run that saves does so under the newest name.
Newcomer ==
    /\ \A t \in Listed : t <= now
    /\ \A r \in Runs :
          /\ pc[r] \in {"load1", "load2", "start"} => \A t \in Listed : t < now
          /\ pc[r] \in {"collect", "save"} => \A t \in Listed : t < start[r]
          /\ pc[r] \in {"collect", "save", "write"} => start[r] <= now
          /\ pc[r] = "write" => \A t \in Listed : t <= start[r]

\* A run holds baselines only from its loads to its judgement.
Rested ==
    \A r \in Runs : pc[r] \notin {"load2", "start", "collect"} =>
        base1[r] = NoBaseline /\ base2[r] = NoBaseline

\* Old reports are loud, also once migrated, and so is every report as long as there is
\* one left to migrate.
OldAreLoud ==
    /\ \A t \in Times, n \in Nodes :
          /\ text[t] # Untold /\ Readable(t)
          /\ files[t][n].total > 0 \/ text[t][n] > 0
          => files[t][n].level \in Alarm
    /\ mpc \in {"open", "write"} => Loud(loaded) /\ text[Newest(left)] # Untold
    /\ ~Migrated => \A t \in Times \ early : Readable(t) => Loud(files[t])

\* A run that has read the history before it was migrated leaves an early report.
UntoldAreEarly ==
    \A r \in untold : pc[r] \in {"collect", "save", "write"} => start[r] \in early

\* What a run has of the two newest reports, but for what it has lost: their names, the
\* second name and what the first report holds, what both hold, and what it reports
\* compared with them.
NamesAre(two) == \A v \in Listed : Recent(v) => v \in {two[1], two[2]}

FirstIs(two, b1, lost) ==
    \A v \in Listed \ lost : Recent(v) =>
        \/ v = two[2]
        \/ Readable(v) => \A n \in Nodes : b1[n] = files[v][n].total

BaselinesAre(b1, b2, lost) ==
    \A v \in Times \ lost : Readable(v) /\ Recent(v) =>
        \/ \A n \in Nodes : b1[n] = files[v][n].total
        \/ \A n \in Nodes : b2[n] = files[v][n].total

ComparedWith(t, rep, lost) ==
    \A v \in Times \ lost : Readable(v) /\ Close(v, t) =>
        \A n \in Nodes : Noticed(files[v][n], rep[n])

\* Any other run has no baseline, or has the two newest reports as they still are, but for
\* the one that it has failed to load.
Informed ==
    \A r \in Runs \ untold :
        /\ pc[r] \in {"load1", "load2"} => Migrated
        /\ pc[r] = "load1" => NamesAre(names[r])
        /\ pc[r] = "load2" => FirstIs(names[r], base1[r], missed[r])
        /\ pc[r] \in {"start", "collect"} =>
              \/ base1[r] = NoBaseline /\ base2[r] = NoBaseline
              \/ Migrated /\ BaselinesAre(base1[r], base2[r], missed[r])
        /\ pc[r] \in {"save", "write"} =>
              Loud(report[r]) \/ (Migrated /\ ComparedWith(start[r], report[r], missed[r]))

\* A growth over one of the two reports before is an alarm, unless it could not be loaded.
WindowFlagged ==
    \A t \in Times \ early, v \in Kept, n \in Nodes :
        Readable(t) /\ Readable(v) /\ Close(v, t) /\ v \notin unread[t]
            => Noticed(files[v][n], files[t][n])

WindowInv ==
    /\ MigrationTypes /\ TextsAreOld /\ Walked
    /\ Newcomer /\ Rested /\ OldAreLoud /\ UntoldAreEarly /\ Informed /\ WindowFlagged

(* What the judgement makes of a growth. *)
LEMMA GrowthNoticed ==
    ASSUME NEW outcome \in Outcome, NEW count \in Nat, NEW b1 \in Totals, NEW b2 \in Totals,
           NEW old \in Finding, old.total \in {b1, b2}
    PROVE  Noticed(old, applyBondDelta(parseBond(outcome, count), b1, b2))
<1> DEFINE f == parseBond(outcome, count)
           j == applyBondDelta(f, b1, b2)
<1> SUFFICES ASSUME old.total # NoMetric, old.total < j.total
             PROVE  j.level \in Alarm
  BY DEF Noticed
<1>1. f \in Finding /\ j \in Finding /\ j.total = f.total /\ j.level \in {f.level, LevelOK}
  <2>1. f \in Finding
    BY ParseType
  <2> QED
    BY <2>1, JudgeType DEF applyBondDelta, Finding
<1>2. old.total \in Nat /\ f.total \in Nat /\ f.total > old.total /\ f.total > 0
  BY <1>1 DEF Finding, Totals, NoMetric
<1>3. f.level \in Alarm
  BY <1>2 DEF parseBond, Outcome, Alarm, LevelOK, LevelWarn, LevelCritical, NoMetric
<1>4. recentInc(f.total, b1) \/ windowInc(f.total, b2)
  BY <1>2 DEF recentInc, windowInc
<1>5. j = f
  BY <1>4 DEF applyBondDelta
<1> QED
  BY <1>3, <1>5

LEMMA FirstIsLoud ==
    ASSUME NEW outcome \in Outcome, NEW count \in Nat
    PROVE  LET j == applyBondDelta(parseBond(outcome, count), NoMetric, NoMetric)
           IN  j.total > 0 => j.level \in Alarm
BY DEF applyBondDelta, parseBond, Outcome, Alarm, LevelOK, LevelWarn, LevelCritical, NoMetric

LEMMA LoudNotices ==
    ASSUME NEW rep \in Reports, Loud(rep), NEW n \in Nodes, NEW old \in Finding
    PROVE  Noticed(old, rep[n])
<1>1. rep[n].total \in Totals /\ old.total \in Totals
  BY DEF Reports, Finding
<1> QED
  BY <1>1 DEF Loud, Noticed, Totals, NoMetric

(* The two names that a listing begins with are those that have at most one *)
(* before them.                                                             *)
LEMMA TwoNewest ==
    ASSUME NEW v \in Listed, Recent(v)
    PROVE  v \in {NewestTwo(Listed)[1], NewestTwo(Listed)[2]}
<1> DEFINE a == Newest(Listed)
           b == Newest(Listed \ {a})
<1>1. Listed \in SUBSET Times /\ Times \subseteq Int
  BY BoundAssumption DEF Listed, Times
<1>2. a \in Listed /\ \A x \in Listed : x <= a
  BY <1>1, NewestType
<1>3. CASE v # a
  <2>1. Listed \ {a} # {}
    BY <1>3
  <2>2. b \in Listed \ {a} /\ \A x \in Listed \ {a} : x <= b
    BY <1>1, <2>1, NewestType
  <2> HIDE DEF a, b
  <2>3. v \in Int /\ a \in Int /\ b \in Int /\ v <= a /\ v <= b
    BY <1>1, <1>2, <1>3, <2>2
  <2>4. ~ (v < b)
    BY <1>2, <1>3, <2>2, <2>3 DEF Recent
  <2>5. v = b
    BY <2>3, <2>4
  <2> QED
    BY <2>5 DEF NewestTwo, a, b
<1> QED
  BY <1>3 DEF NewestTwo

(* Once the walk is over or there is nothing to walk, it stays so. *)
LEMMA MigratedStays ==
    ASSUME MigrationTypes, [MigrationNext]_allVars, Migrated
    PROVE  [Next]_vars /\ UNCHANGED migration /\ Migrated'
<1>1. ~ Migrate
  BY DEF Migrate, MigrateList, MigrateLoad, RewriteOpen, RewriteWrite, FileError,
         MigrateKilled, Migrated, MigrationTypes, MigrationTypeOK
<1>2. [Next]_vars /\ UNCHANGED migration
  BY <1>1 DEF MigrationNext, allVars
<1> QED
  BY <1>2 DEF migration, Migrated

(* What becomes of the runs that have read the history too early. *)
LEMMA Remembered ==
    ASSUME MigrationTypes, [MigrationNext]_allVars, NEW r \in Runs
    PROVE  /\ early \subseteq early'
           /\ r \in untold' =>
                 \/ r \in untold
                 \/ pc'[r] \in {"load1", "load2"}
                 \/ UNCHANGED allVars
           /\ r \notin untold' => r \notin untold \/ pc'[r] = "idle"
           /\ r \notin untold' /\ pc'[r] \in {"load1", "load2"} =>
                 Migrated' \/ UNCHANGED allVars
           /\ r \in untold /\ pc[r] = "start" /\ pc'[r] = "collect" => start'[r] \in early'
<1>1. CASE Remember
  BY <1>1 DEF Remember
<1>2. CASE UNCHANGED allVars
  BY <1>2 DEF allVars, vars, history, MigrationTypes, TypeOK
<1> QED
  BY <1>1, <1>2 DEF MigrationNext

(* What a run has missed it remembers up to its report, and there it stays   *)
(* as long as both reports do.                                               *)
LEMMA MissedStays ==
    ASSUME MigrationTypes, [MigrationNext]_allVars, NEW v \in Times
    PROVE  /\ \A t \in Times : v \in unread[t] /\ files'[t] # Absent /\ files'[v] # Absent
                 => v \in unread'[t]
           /\ \A r \in Runs : v \in missed[r] /\ Remembers(r)' => v \in missed'[r]
           /\ \A r \in Runs :
                 /\ SaveWrite(r) /\ v \in missed[r]
                 /\ files'[start[r]] # Absent /\ files'[v] # Absent
                 => v \in unread'[start[r]]
<1>1. CASE Remember
  <2>1. \A t \in Times : v \in unread[t] /\ files'[t] # Absent /\ files'[v] # Absent
           => v \in unread'[t]
    BY <1>1 DEF Remember
  <2>2. \A r \in Runs : v \in missed[r] /\ Remembers(r)' => v \in missed'[r]
    BY <1>1 DEF Remember
  <2>3. ASSUME NEW r \in Runs, SaveWrite(r), v \in missed[r],
               files'[start[r]] # Absent, files'[v] # Absent
        PROVE  v \in unread'[start[r]]
    <3>1. start[r] \in Times
      BY DEF MigrationTypes, TypeOK
    <3>2. r \in WrittenBy(start[r])
      BY <2>3 DEF WrittenBy, SaveWrite, Goto, MigrationTypes, TypeOK
    <3>3. v \in UNION {missed[q] : q \in WrittenBy(start[r])}
      BY <2>3, <3>2
    <3> QED
      BY <1>1, <2>3, <3>1, <3>3 DEF Remember
  <2> QED
    BY <2>1, <2>2, <2>3
<1>2. CASE UNCHANGED allVars
  <2>1. unread' = unread /\ missed' = missed /\ pc' = pc
    BY <1>2 DEF allVars, vars, history
  <2>2. \A r \in Runs : ~ SaveWrite(r)
    BY <2>1 DEF SaveWrite, Goto, MigrationTypes, TypeOK
  <2> QED
    BY <2>1, <2>2
<1> QED
  BY <1>1, <1>2 DEF MigrationNext

(* A run only moves on; what of this a run changes but its place. *)
LEMMA RunMoves ==
    ASSUME TypeOK, NEW r \in Runs, Run(r)
    PROVE  /\ now' = now /\ links' = links
           /\ pc'[r] \in {"load1", "start"} \/ pc[r] # "idle"
           /\ pc'[r] = "collect" => pc[r] = "start" /\ start'[r] = now
           /\ pc'[r] = "save" => pc[r] = "collect" /\ start'[r] = start[r]
           /\ pc'[r] = "write" => pc[r] = "save" /\ start'[r] = start[r]
           /\ pc'[r] = "start" => pc[r] \in {"idle", "load2"}
           /\ pc'[r] = "load2" => pc[r] = "load1"
           /\ pc'[r] = "load1" => pc[r] = "idle"
BY DEF Run, List, ListError, LoadFirst, LoadFirstError, LoadSecond, LoadSecondError, Start,
       Collect, SaveOpen, SaveWrite, SaveError, PruneList, PruneListError, PruneRemove,
       PruneDone, Return, Goto, locals, TypeOK, Steps

(* What a step of a run does to the history. *)
LEMMA RunWrites ==
    ASSUME TypeOK, NEW r \in Runs, Run(r)
    PROVE  \/ files' = files
           \/ SaveOpen(r) \/ SaveWrite(r) \/ PruneRemove(r)
BY DEF Run, List, ListError, LoadFirst, LoadFirstError, LoadSecond, LoadSecondError, Start,
       Collect, SaveError, PruneList, PruneListError, PruneDone, Return, locals

LEMMA NewcomerStep ==
    ASSUME SingleRun, WindowInv, [MigrationNext]_allVars
    PROVE  Newcomer'
<1> USE DEF WindowInv, MigrationTypes
<1>1. /\ Times \subseteq Int /\ now \in Times /\ Listed \subseteq Times
      /\ \A r \in Runs : start[r] \in Times
  BY BoundAssumption DEF Times, TypeOK, Listed
<1>2. CASE Migrate
  <2>1. UNCHANGED <<now, pc, start>>
    BY <1>2, WalkSteps
  <2>2. ASSUME NEW t \in Listed', t \notin Listed
        PROVE  text[t] # Untold
    <3>1. mpc \in {"open", "write"} /\ t = Newest(left)
      BY <1>2, <2>2, WalkSteps DEF Listed, TypeOK
    <3> QED
      BY <3>1 DEF OldAreLoud
  <2>3. \A t \in Listed' : t \in Times
    BY DEF Listed
  <2>4. ASSUME NEW t \in Listed'
        PROVE  /\ t <= now
               /\ \A r \in Runs :
                     /\ pc[r] \in {"load1", "load2", "start"} => t < now
                     /\ pc[r] \in {"collect", "save"} => t < start[r]
                     /\ pc[r] = "write" => t <= start[r]
    <3>1. CASE t \in Listed
      BY <3>1 DEF Newcomer
    <3>2. CASE t \notin Listed
      <4>1. t < now /\ \A r \in Runs : pc[r] \in {"collect", "save", "write"} => t < start[r]
        BY <2>2, <2>3, <3>2 DEF TextsAreOld
      <4>2. t \in Int /\ now \in Int /\ \A r \in Runs : start[r] \in Int
        BY <1>1, <2>3
      <4> QED
        BY ONLY <4>1, <4>2
    <3> QED
      BY <3>1, <3>2
  <2>5. \A r \in Runs : pc[r] \in {"collect", "save", "write"} => start[r] <= now
    BY DEF Newcomer
  <2> QED
    BY <2>1, <2>4, <2>5 DEF Newcomer
<1>3. CASE UNCHANGED <<now, files, pc, start>>
  BY <1>3 DEF Newcomer, Listed
<1>4. CASE Tick
  <2>1. UNCHANGED <<files, pc, start>> /\ now' = now + 1
    BY <1>4 DEF Tick, locals
  <2>2. \A t \in Times : (t <= now => t <= now') /\ (t < now => t < now')
    BY <1>1, <2>1
  <2> QED
    BY <1>1, <2>1, <2>2 DEF Newcomer, Listed
<1>5. CASE Crash
  BY <1>5 DEF Crash, Newcomer, Listed
<1>6. ASSUME NEW r \in Runs, Run(r), Paced
      PROVE  Newcomer'
  <2>1. \A q \in Runs : q = r
    BY DEF SingleRun
  <2>2. now' = now
    BY <1>6, RunMoves
  <2>3. CASE files' = files
    <3>1. Listed' = Listed
      BY <2>3 DEF Listed
    <3>2. pc[r] = "idle" /\ pc'[r] # "idle" => \A t \in Listed : t < now
      <4>1. pc[r] = "idle" /\ pc'[r] # "idle" => files[now] = Absent
        BY <1>6 DEF Paced
      <4>2. pc[r] = "idle" /\ pc'[r] # "idle" => \A t \in Listed : t # now
        BY <4>1 DEF Listed
      <4>3. \A t \in Listed : t <= now
        BY DEF Newcomer
      <4> QED
        BY <1>1, <4>2, <4>3
    <3>3. pc'[r] \in {"load1", "load2", "start"} => \A t \in Listed : t < now
      BY <1>6, <3>2, RunMoves DEF Newcomer
    <3>4. pc'[r] \in {"collect", "save"} => \A t \in Listed : t < start'[r]
      BY <1>6, RunMoves DEF Newcomer
    <3>5. pc'[r] \in {"collect", "save", "write"} => start'[r] <= now
      BY <1>1, <1>6, RunMoves DEF Newcomer
    <3>6. pc'[r] # "write"
      <4>1. pc'[r] = "write" => SaveOpen(r)
        BY <1>6 DEF Run, List, ListError, LoadFirst, LoadFirstError, LoadSecond,
                    LoadSecondError, Start, Collect, SaveOpen, SaveWrite, SaveError, PruneList,
                    PruneListError, PruneRemove, PruneDone, Return, Goto, TypeOK
      <4>2. ~ SaveOpen(r)
        <5>1. SaveOpen(r) => files'[start[r]] = Truncated
          BY DEF SaveOpen, TypeOK
        <5>2. pc[r] = "save" => start[r] \notin Listed
          <6>1. start[r] \in Int
            BY <1>1
          <6> QED
            BY <6>1 DEF Newcomer
        <5>3. SaveOpen(r) => files[start[r]] = Absent
          BY <1>1, <5>2 DEF SaveOpen, Goto, Listed
        <5> QED
          BY <2>3, <5>1, <5>3, FileAssumption
      <4> QED
        BY <4>1, <4>2
    <3> QED
      BY <2>1, <2>2, <3>1, <3>3, <3>4, <3>5, <3>6 DEF Newcomer
  <2>4. CASE SaveOpen(r)
    <3>1. /\ pc[r] = "save" /\ pc'[r] = "write" /\ start' = start
          /\ Listed' \subseteq Listed \cup {start[r]}
      BY <2>4 DEF SaveOpen, Goto, locals, TypeOK, Listed
    <3>2. start[r] <= now /\ \A t \in Listed : t < start[r] /\ t <= now
      BY <3>1 DEF Newcomer
    <3>3. \A t \in Listed' : t <= start[r] /\ t <= now
      <4>1. \A t \in Listed : t \in Int /\ t <= now /\ t < start[r]
        BY <1>1, <3>2
      <4>2. start[r] \in Int /\ start[r] <= now
        BY <1>1, <3>2
      <4>3. \A t \in Listed' : t \in Listed \/ t = start[r]
        BY <3>1
      <4> QED
        BY ONLY <4>1, <4>2, <4>3
    <3> QED
      BY <2>1, <2>2, <3>1, <3>2, <3>3 DEF Newcomer
  <2>5. CASE SaveWrite(r)
    <3>1. /\ pc[r] = "write" /\ pc'[r] = "list" /\ Listed' \subseteq Listed \cup {start[r]}
      BY <2>5, WriteOutcome DEF SaveWrite, Goto, TypeOK, Listed
    <3>2. start[r] <= now
      BY <3>1 DEF Newcomer
    <3>3. \A t \in Listed : t <= now
      BY DEF Newcomer
    <3> QED
      BY <2>1, <2>2, <3>1, <3>2, <3>3 DEF Newcomer
  <2>6. CASE PruneRemove(r)
    <3>1. pc'[r] = "prune" /\ Listed' \subseteq Listed
      BY <2>6, RemovesVictims DEF PruneRemove, TypeOK, Listed
    <3> QED
      BY <2>1, <2>2, <3>1 DEF Newcomer
  <2> QED
    BY <1>6, <2>3, <2>4, <2>5, <2>6, RunWrites
<1> QED
  BY <1>2, <1>3, <1>4, <1>5, <1>6
     DEF MigrationNext, Next, LinkFails, Reboot, locals, allVars, vars

LEMMA RestedStep ==
    ASSUME TypeOK, Rested, [Next]_vars
    PROVE  Rested'
<1>1. CASE UNCHANGED <<pc, base1, base2>>
  BY <1>1 DEF Rested
<1>2. CASE Crash
  BY <1>2 DEF Crash, Rested
<1>3. ASSUME NEW r \in Runs, Run(r)
      PROVE  Rested'
  <2>1. \A q \in Runs : q # r => pc'[q] = pc[q] /\ base1'[q] = base1[q] /\ base2'[q] = base2[q]
    BY <1>3 DEF Run, List, ListError, LoadFirst, LoadFirstError, LoadSecond, LoadSecondError,
                Start, Collect, SaveOpen, SaveWrite, SaveError, PruneList, PruneListError,
                PruneRemove, PruneDone, Return, Goto, locals, TypeOK
  <2>2. pc'[r] \in {"load2", "start", "collect"} \/ Collect(r)
          \/ /\ pc[r] \notin {"load2", "start", "collect"}
             /\ base1'[r] = base1[r] /\ base2'[r] = base2[r]
    BY <1>3 DEF Run, List, ListError, LoadFirst, LoadFirstError, LoadSecond, LoadSecondError,
                Start, SaveOpen, SaveWrite, SaveError, PruneList, PruneListError, PruneRemove,
                PruneDone, Return, Goto, locals, TypeOK
  <2>3. Collect(r) => base1'[r] = NoBaseline /\ base2'[r] = NoBaseline
    BY DEF Collect, TypeOK
  <2> QED
    BY <2>1, <2>2, <2>3 DEF Rested
<1> QED
  BY <1>1, <1>2, <1>3 DEF Next, Tick, LinkFails, Reboot, locals, vars

LEMMA UntoldAreEarlyStep ==
    ASSUME SingleRun, WindowInv, [MigrationNext]_allVars
    PROVE  UntoldAreEarly'
<1> USE DEF WindowInv
<1> SUFFICES ASSUME NEW r \in Runs, r \in untold', pc'[r] \in {"collect", "save", "write"}
             PROVE  start'[r] \in early'
  BY MigrationTypesStep DEF UntoldAreEarly, MigrationTypes, MigrationTypeOK
<1>1. CASE UNCHANGED <<pc, start>>
  <2>1. r \in untold \/ UNCHANGED allVars
    BY Remembered
  <2>2. untold' = untold \/ r \in untold
    BY <2>1 DEF allVars, history
  <2> QED
    BY <1>1, <2>2, Remembered DEF UntoldAreEarly
<1>2. ASSUME NEW q \in Runs, Run(q)
      PROVE  start'[r] \in early'
  <2>1. q = r
    BY DEF SingleRun
  <2>2. UNCHANGED allVars => UNCHANGED <<pc, start>>
    BY DEF allVars, vars, locals
  <2>3. r \in untold \/ UNCHANGED <<pc, start>>
    BY <2>2, Remembered
  <2>4. CASE pc[r] = "start" /\ pc'[r] = "collect" /\ r \in untold
    BY <2>4, Remembered
  <2>5. CASE pc[r] \in {"collect", "save"} /\ start'[r] = start[r] /\ r \in untold
    BY <2>5, Remembered DEF UntoldAreEarly
  <2> QED
    BY <1>1, <1>2, <2>1, <2>3, <2>4, <2>5, RunMoves DEF MigrationTypes
<1>3. CASE Crash
  BY <1>3 DEF Crash
<1>4. CASE Migrate
  BY <1>1, <1>4, WalkSteps
<1> QED
  BY <1>1, <1>2, <1>3, <1>4
     DEF MigrationNext, Next, Tick, LinkFails, Reboot, locals, allVars, vars

(* A report that tells nothing stays as it is. *)
LEMMA NothingToTell ==
    ASSUME NEW rep \in Reports
    PROVE  MigrateReport(rep, Untold) = rep
<1>1. \A n \in Nodes : rep[n] \in Finding
  BY DEF Reports
<1>2. \A n \in Nodes : rep[n].total = NoMetric => [rep[n] EXCEPT !.total = NoMetric] = rep[n]
  BY <1>1 DEF Finding
<1> QED
  BY <1>1, <1>2 DEF MigrateReport, Untold, Reports

(* What is written while there is something left to migrate is loud. *)
LEMMA LoudStep ==
    ASSUME WindowInv, ~Migrated, [MigrationNext]_allVars,
           NEW t \in Times \ early', Readable(t)'
    PROVE  Loud(files'[t])
<1> USE DEF WindowInv, MigrationTypes
<1>1. t \notin early
  <2>1. early \subseteq early' \/ Runs = {}
    BY Remembered
  <2>2. Runs = {} => early \subseteq early'
    BY DEF MigrationNext, Remember, allVars, history
  <2> QED
    BY <2>1, <2>2
<1>2. CASE files'[t] = files[t]
  <2>1. Readable(t)
    BY <1>2 DEF Readable
  <2> QED
    BY <1>1, <1>2, <2>1 DEF OldAreLoud
<1>3. CASE Migrate
  <2>1. files'[t] = files[t] \/ (mpc = "write" /\ files'[t] = loaded)
    BY <1>3, WalkSteps DEF Readable, TypeOK
  <2> QED
    BY <1>2, <2>1 DEF OldAreLoud
<1>4. ASSUME NEW r \in Runs, Run(r)
      PROVE  Loud(files'[t])
  <2>1. CASE SaveWrite(r) /\ t = start[r] /\ files'[t] = report[r]
    <3>1. r \notin untold
      BY <1>1, <2>1 DEF SaveWrite, Goto, UntoldAreEarly
    <3> QED
      BY <2>1, <3>1 DEF SaveWrite, Goto, Informed
  <2>2. \/ files'[t] = files[t]
        \/ SaveWrite(r) /\ t = start[r] /\ files'[t] = report[r]
    <3>1. SaveOpen(r) => files'[t] = files[t]
      BY DEF SaveOpen, Readable, TypeOK
    <3>2. PruneRemove(r) => files'[t] = files[t]
      BY DEF PruneRemove, Readable
    <3>3. SaveWrite(r) => \/ files'[t] = files[t]
                          \/ t = start[r] /\ files'[t] = report[r]
      BY WriteOutcome DEF Readable, TypeOK
    <3> QED
      BY <1>4, <3>1, <3>2, <3>3, RunWrites
  <2> QED
    BY <1>2, <2>1, <2>2
<1> QED
  BY <1>2, <1>3, <1>4
     DEF MigrationNext, Next, Tick, Crash, LinkFails, Reboot, locals, allVars, vars

LEMMA OldAreLoudStep ==
    ASSUME WindowInv, [MigrationNext]_allVars
    PROVE  OldAreLoud'
<1> USE DEF WindowInv, MigrationTypes
<1>1. ~Migrated' => \A t \in Times \ early' : Readable(t)' => Loud(files'[t])
  BY LoudStep, MigratedStays
<1>2. CASE [Next]_vars /\ UNCHANGED migration
  <2>1. UNCHANGED <<mpc, left, loaded, text>> /\ Newest(left)' = Newest(left)
    BY <1>2 DEF migration, Newest
  <2>2. \A t \in Times : text[t] # Untold /\ Readable(t)' => Readable(t) /\ files'[t] = files[t]
    BY <1>2, RunsLeaveOld DEF Readable
  <2> QED
    BY <1>1, <2>1, <2>2 DEF OldAreLoud, Loud
<1>3. CASE Migrate
  <2> DEFINE w == Newest(left)
  <2>1. text' = text
    BY <1>3, WalkSteps
  <2>2. ASSUME NEW t \in Times, NEW n \in Nodes, text[t] # Untold, Readable(t)',
               files'[t][n].total > 0 \/ text[t][n] > 0
        PROVE  files'[t][n].level \in Alarm
    <3>1. CASE files'[t] = files[t]
      BY <2>2, <3>1 DEF OldAreLoud, Readable
    <3>2. CASE mpc = "write" /\ t = w /\ files'[t] = loaded
      <4>1. text[t][n] > 0 => loaded[n].total > 0
        BY <3>2 DEF Walked, NoMetric
      <4> QED
        BY <2>2, <3>2, <4>1 DEF OldAreLoud, Loud
    <3> QED
      BY <1>3, <2>2, <3>1, <3>2, WalkSteps DEF Readable, TypeOK
  <2>3. mpc' \in {"open", "write"} => Loud(loaded') /\ text[Newest(left)'] # Untold
    <3>1. CASE MigrateLoad /\ mpc' = "open"
      <4>1. /\ mpc = "load" /\ Readable(w) /\ MigrateReport(files[w], text[w]) # files[w]
            /\ loaded' = MigrateReport(files[w], text[w]) /\ left' = left
        BY <3>1 DEF MigrateLoad, NextName
      <4>2. w \in Times /\ Newest(left)' = w
        <5>1. w \in Times
          BY <4>1, NewestType DEF MigrationTypeOK
        <5>2. Newest(left)' = w
          BY <4>1 DEF Newest
        <5> QED
          BY <5>1, <5>2
      <4>3. files[w] \in Reports
        BY <4>1, <4>2 DEF Readable, TypeOK
      <4>4. text[w] # Untold
        BY <4>1, <4>3, NothingToTell
      <4>5. ASSUME NEW n \in Nodes, loaded'[n].total > 0
            PROVE  loaded'[n].level \in Alarm
        <5>1. files[w][n] \in Finding
          BY <4>3 DEF Reports
        <5>2. /\ loaded'[n].level = files[w][n].level
              /\ loaded'[n].total \in {files[w][n].total, text[w][n]}
          BY <4>1, <5>1 DEF MigrateReport, Finding
        <5> QED
          BY <4>1, <4>2, <4>4, <4>5, <5>2 DEF OldAreLoud
      <4> QED
        BY <4>2, <4>4, <4>5 DEF Loud
    <3>2. CASE RewriteOpen
      BY <3>2 DEF RewriteOpen, OldAreLoud, Newest
    <3> QED
      BY <1>3, <3>1, <3>2 DEF Migrate, MigrateList, MigrateLoad, RewriteWrite, FileError,
                              MigrateKilled, NextName
  <2> QED
    BY <1>1, <2>1, <2>2, <2>3 DEF OldAreLoud
<1> QED
  BY <1>2, <1>3 DEF MigrationNext, allVars

(* What a run that is not too early has of the two newest reports, each of   *)
(* its steps keeps.                                                          *)
LEMMA InformedRun ==
    ASSUME WindowInv, NEW r \in Runs \ untold, Run(r), Remember
    PROVE  /\ pc'[r] = "load1" => NamesAre(names'[r])
           /\ pc'[r] = "load2" => FirstIs(names'[r], base1'[r], missed'[r])
           /\ pc'[r] \in {"start", "collect"} =>
                 \/ base1'[r] = NoBaseline /\ base2'[r] = NoBaseline
                 \/ Migrated /\ BaselinesAre(base1'[r], base2'[r], missed'[r])
           /\ pc'[r] \in {"save", "write"} =>
                 Loud(report'[r]) \/ (Migrated /\ ComparedWith(start[r], report'[r], missed'[r]))
<1> USE DEF WindowInv, MigrationTypes
<1>a. Remembers(r)' => missed'[r] = missed[r] \cup Lost(r)
  BY DEF Remember
<1>b. /\ pc'[r] \in {"load2", "collect", "save", "write"} => Remembers(r)'
      /\ pc'[r] = "start" /\ ~ (base1'[r] = NoBaseline /\ base2'[r] = NoBaseline) => Remembers(r)'
  BY DEF Remembers, HasBaseline
<1>1. \A v \in Times : Readable(v) => v \in Listed /\ v # NoFile
  BY BoundAssumption DEF Readable, Listed, NoFile, Times
<1>2. \A v \in Times, n \in Nodes : Readable(v) => Baseline(v)[n] = files[v][n].total
  BY <1>1 DEF Readable, Baseline
<1>3. CASE List(r)
  <2>1. pc'[r] = "load1" /\ names'[r] = NewestTwo(Listed)
    BY <1>3 DEF List, Goto, TypeOK
  <2>2. NamesAre(names'[r])
    BY <2>1, TwoNewest DEF NamesAre
  <2> QED
    BY <2>1, <2>2
<1>4. CASE ListError(r)
  <2>1. pc'[r] = "start" /\ base1'[r] = NoBaseline /\ base2'[r] = NoBaseline
    BY <1>4 DEF ListError, Goto, locals, Rested, TypeOK
  <2> QED
    BY <2>1
<1>5. CASE LoadFirst(r)
  <2>1. /\ pc[r] = "load1" /\ pc'[r] = "load2"
        /\ names'[r] = names[r] /\ base1'[r] = Baseline(names[r][1])
    BY <1>5 DEF LoadFirst, Goto, TypeOK
  <2>2. NamesAre(names[r])
    BY <2>1 DEF Informed
  <2>3. FirstIs(names'[r], base1'[r], missed'[r])
    BY <1>2, <2>1, <2>2 DEF NamesAre, FirstIs, Listed
  <2> QED
    BY <2>1, <2>3
<1>11. CASE LoadFirstError(r)
  <2>1. pc[r] = "load1" /\ pc'[r] = "load2" /\ names'[r] = names[r]
    BY <1>11 DEF LoadFirstError, Goto, locals, TypeOK
  <2>2. NamesAre(names[r])
    BY <2>1 DEF Informed
  <2>3. \A v \in Times : v = names[r][1] /\ Readable(v) => v \in missed'[r]
    BY <1>11, <1>a, <1>b, <2>1 DEF Lost
  <2>4. \A v \in Listed : v \in Times
    BY DEF Listed
  <2>5. FirstIs(names'[r], base1'[r], missed'[r])
    BY <2>1, <2>2, <2>3, <2>4 DEF NamesAre, FirstIs
  <2> QED
    BY <2>1, <2>5
<1>6. CASE LoadSecond(r)
  <2>1. /\ pc[r] = "load2" /\ pc'[r] = "start"
        /\ base1'[r] = base1[r] /\ base2'[r] = Baseline(names[r][2])
    BY <1>6 DEF LoadSecond, Goto, TypeOK
  <2>2. FirstIs(names[r], base1[r], missed[r]) /\ Migrated
    BY <2>1 DEF Informed
  <2>3. BaselinesAre(base1'[r], base2'[r], missed[r])
    BY <1>1, <1>2, <2>1, <2>2 DEF FirstIs, BaselinesAre
  <2>4. Remembers(r)' => BaselinesAre(base1'[r], base2'[r], missed'[r])
    BY <1>a, <2>3 DEF BaselinesAre
  <2> QED
    BY <1>b, <2>1, <2>2, <2>4
<1>12. CASE LoadSecondError(r)
  <2>1. pc[r] = "load2" /\ pc'[r] = "start" /\ base1'[r] = base1[r]
    BY <1>12 DEF LoadSecondError, Goto, TypeOK
  <2>2. FirstIs(names[r], base1[r], missed[r]) /\ Migrated
    BY <2>1 DEF Informed
  <2>3. ASSUME Remembers(r)'
        PROVE  BaselinesAre(base1'[r], base2'[r], missed'[r])
    <3>1. missed'[r] = missed[r] \cup Lost(r)
      BY <1>a, <2>3
    <3>2. \A v \in Times : v = names[r][2] /\ Readable(v) => v \in missed'[r]
      BY <1>12, <3>1 DEF Lost
    <3> QED
      BY <1>1, <2>1, <2>2, <3>1, <3>2 DEF FirstIs, BaselinesAre
  <2> QED
    BY <1>b, <2>1, <2>2, <2>3
<1>7. CASE Start(r)
  <2>1. /\ pc[r] = "start" /\ pc'[r] = "collect"
        /\ base1'[r] = base1[r] /\ base2'[r] = base2[r]
    BY <1>7 DEF Start, Goto, TypeOK
  <2>2. BaselinesAre(base1[r], base2[r], missed[r])
           => BaselinesAre(base1[r], base2[r], missed'[r])
    BY <1>a, <1>b, <2>1 DEF BaselinesAre
  <2> QED
    BY <2>1, <2>2 DEF Informed
<1>8. CASE Collect(r)
  <2>1. pc[r] = "collect" /\ pc'[r] = "save"
    BY <1>8 DEF Collect, Goto, TypeOK
  <2>2. PICK out \in [Nodes -> Outcome] :
            report' = [report EXCEPT ![r] =
               [n \in Nodes |-> applyBondDelta(parseBond(out[n], links[n]),
                                               base1[r][n], base2[r][n])]]
    BY <1>8 DEF Collect
  <2>3. \A n \in Nodes :
            report'[r][n] = applyBondDelta(parseBond(out[n], links[n]), base1[r][n], base2[r][n])
    BY <2>2 DEF TypeOK
  <2>4. \A n \in Nodes : /\ out[n] \in Outcome /\ links[n] \in Nat
                         /\ base1[r][n] \in Totals /\ base2[r][n] \in Totals
    BY BoundAssumption DEF TypeOK
  <2>5. CASE base1[r] = NoBaseline /\ base2[r] = NoBaseline
    <3>1. Loud(report'[r])
      BY <2>3, <2>4, <2>5, FirstIsLoud DEF Loud, NoBaseline
    <3> QED
      BY <2>1, <3>1
  <2>6. CASE Migrated /\ BaselinesAre(base1[r], base2[r], missed[r])
    <3>1. \A x \in Listed : x < start[r]
      BY <2>1 DEF Newcomer
    <3>2. \A v \in Times : Close(v, start[r]) => Recent(v)
      BY <3>1 DEF Close, Recent
    <3>3. ASSUME NEW v \in Times \ missed'[r], Readable(v), Close(v, start[r]), NEW n \in Nodes
          PROVE  Noticed(files[v][n], report'[r][n])
      <4>1. files[v][n] \in Finding
        BY <3>3 DEF Readable, Reports, TypeOK
      <4>2. files[v][n].total \in {base1[r][n], base2[r][n]}
        <5>1. v \in Times \ missed[r]
          BY <1>a, <1>b, <2>1, <3>3
        <5> QED
          BY <2>6, <3>2, <3>3, <5>1 DEF BaselinesAre
      <4> QED
        BY <2>3, <2>4, <4>1, <4>2, GrowthNoticed
    <3>4. ComparedWith(start[r], report'[r], missed'[r])
      BY <3>3 DEF ComparedWith
    <3> QED
      BY <2>1, <2>6, <3>4
  <2> QED
    BY <2>1, <2>5, <2>6 DEF Informed
<1>9. CASE SaveOpen(r)
  <2>1. pc[r] = "save" /\ pc'[r] = "write" /\ report'[r] = report[r]
    BY <1>9 DEF SaveOpen, Goto, locals, TypeOK
  <2>2. ComparedWith(start[r], report[r], missed[r])
           => ComparedWith(start[r], report[r], missed'[r])
    BY <1>a, <1>b, <2>1 DEF ComparedWith
  <2> QED
    BY <2>1, <2>2 DEF Informed
<1>10. CASE \/ SaveWrite(r) \/ SaveError(r) \/ PruneList(r) \/ PruneListError(r)
            \/ PruneRemove(r) \/ PruneDone(r) \/ Return(r)
  <2>1. pc'[r] \in {"list", "return", "prune", "idle"}
    BY <1>10 DEF SaveWrite, SaveError, PruneList, PruneListError, PruneRemove, PruneDone,
                 Return, Goto, TypeOK
  <2> QED
    BY <2>1
<1> QED
  BY <1>3, <1>4, <1>5, <1>6, <1>7, <1>8, <1>9, <1>10, <1>11, <1>12 DEF Run

LEMMA InformedStep ==
    ASSUME SingleRun, WindowInv, [MigrationNext]_allVars
    PROVE  Informed'
<1> USE DEF WindowInv, MigrationTypes
<1> DEFINE Goal(r) ==
        /\ pc[r] \in {"load1", "load2"} => Migrated
        /\ pc[r] = "load1" => NamesAre(names[r])
        /\ pc[r] = "load2" => FirstIs(names[r], base1[r], missed[r])
        /\ pc[r] \in {"start", "collect"} =>
              \/ base1[r] = NoBaseline /\ base2[r] = NoBaseline
              \/ Migrated /\ BaselinesAre(base1[r], base2[r], missed[r])
        /\ pc[r] \in {"save", "write"} =>
              Loud(report[r]) \/ (Migrated /\ ComparedWith(start[r], report[r], missed[r]))
<1>1. SUFFICES ASSUME NEW r \in Runs, r \notin untold', pc'[r] # "idle"
               PROVE  Goal(r)'
  BY DEF Informed
<1>2. r \notin untold
  BY <1>1, Remembered
<1>3. Migrated => Migrated'
  BY MigratedStays
<1>4. Goal(r)
  BY <1>2 DEF Informed
<1>5. CASE UNCHANGED <<files, pc, names, base1, base2, start, report>>
  <2>1. /\ Listed' = Listed /\ \A v \in Times : Readable(v)' <=> Readable(v)
    BY <1>5 DEF Listed, Readable
  <2>2. \A v, t \in Times : (Recent(v)' <=> Recent(v)) /\ (Close(v, t)' <=> Close(v, t))
    BY <2>1 DEF Recent, Close
  <2>3. start[r] \in Times
    BY DEF TypeOK
  <2>4. \/ pc[r] \notin {"load2", "start", "collect", "save", "write"}
        \/ pc[r] = "start" /\ base1[r] = NoBaseline /\ base2[r] = NoBaseline
        \/ \A v \in Times : v \in missed[r] => v \in missed'[r]
    <3>1. \/ pc[r] \notin {"load2", "start", "collect", "save", "write"}
          \/ pc[r] = "start" /\ base1[r] = NoBaseline /\ base2[r] = NoBaseline
          \/ Remembers(r)'
      BY <1>5 DEF Remembers, HasBaseline
    <3> QED
      BY <3>1, MissedStays
  <2>5. ASSUME \A v \in Times : v \in missed[r] => v \in missed'[r]
        PROVE  /\ FirstIs(names[r], base1[r], missed[r]) => FirstIs(names[r], base1[r], missed[r])'
               /\ BaselinesAre(base1[r], base2[r], missed[r])
                     => BaselinesAre(base1[r], base2[r], missed[r])'
               /\ ComparedWith(start[r], report[r], missed[r])
                     => ComparedWith(start[r], report[r], missed[r])'
    BY <1>5, <2>1, <2>2, <2>3, <2>5 DEF FirstIs, BaselinesAre, ComparedWith, Listed
  <2>6. /\ NamesAre(names[r]) => NamesAre(names[r])'
        /\ Loud(report[r]) => Loud(report[r])'
    BY <1>5, <2>1, <2>2 DEF NamesAre, Loud, Listed
  <2> QED
    BY <1>3, <1>4, <1>5, <2>4, <2>5, <2>6
<1>6. CASE Migrate
  <2>1. ~Migrated
    BY <1>6, MigratedStays DEF Migrate, MigrateList, MigrateLoad, RewriteOpen, RewriteWrite,
          FileError, MigrateKilled, Migrated, MigrationTypeOK
  <2>2. UNCHANGED <<pc, base1, base2, report>>
    BY <1>6, WalkSteps
  <2>3. Loud(report[r]) => Loud(report[r])'
    BY <2>2 DEF Loud
  <2> QED
    BY <1>4, <2>1, <2>2, <2>3
<1>7. CASE Crash
  BY <1>1, <1>7 DEF Crash
<1>8. ASSUME NEW q \in Runs, Run(q), ~UNCHANGED allVars
      PROVE  Goal(r)'
  <2>1. Run(r)
    BY <1>8 DEF SingleRun
  <2>2. /\ pc'[r] = "load1" => NamesAre(names'[r])
        /\ pc'[r] = "load2" => FirstIs(names'[r], base1'[r], missed'[r])
        /\ pc'[r] \in {"start", "collect"} =>
              \/ base1'[r] = NoBaseline /\ base2'[r] = NoBaseline
              \/ Migrated /\ BaselinesAre(base1'[r], base2'[r], missed'[r])
        /\ pc'[r] \in {"save", "write"} =>
              Loud(report'[r]) \/ (Migrated /\ ComparedWith(start[r], report'[r], missed'[r]))
    <3>1. Remember
      BY <1>8 DEF MigrationNext
    <3> QED
      BY <1>2, <2>1, <3>1, InformedRun
  <2>3. pc'[r] \in {"load1", "load2"} => Migrated'
    BY <1>1, <1>8, Remembered
  <2>4. pc'[r] \in {"save", "write"} => start'[r] = start[r]
    BY <2>1, RunMoves
  <2>5. Loud(report'[r]) => Loud(report[r])'
    BY DEF Loud
  <2>6. CASE files' = files
    <3>1. Listed' = Listed /\ \A v \in Times : Readable(v)' <=> Readable(v)
      BY <2>6 DEF Listed, Readable
    <3>2. \A v, t \in Times : (Recent(v)' <=> Recent(v)) /\ (Close(v, t)' <=> Close(v, t))
      BY <3>1 DEF Recent, Close
    <3>3. start[r] \in Times
      BY DEF TypeOK
    <3>4. /\ NamesAre(names'[r]) => NamesAre(names[r])'
          /\ FirstIs(names'[r], base1'[r], missed'[r]) => FirstIs(names[r], base1[r], missed[r])'
          /\ BaselinesAre(base1'[r], base2'[r], missed'[r])
                => BaselinesAre(base1[r], base2[r], missed[r])'
      BY <2>6, <3>1, <3>2 DEF NamesAre, FirstIs, BaselinesAre, Listed
    <3>5. start'[r] = start[r] /\ ComparedWith(start[r], report'[r], missed'[r])
             => ComparedWith(start[r], report[r], missed[r])'
      BY <2>6, <3>1, <3>2, <3>3 DEF ComparedWith
    <3> QED
      BY <1>3, <2>2, <2>3, <2>4, <2>5, <3>4, <3>5
  <2>7. CASE SaveOpen(r)
    <3>1. /\ pc'[r] = "write" /\ start' = start /\ report' = report
          /\ Listed \subseteq Listed'
          /\ \A v \in Times : Readable(v)' => Readable(v) /\ files'[v] = files[v]
      BY <2>7, FileAssumption DEF SaveOpen, Goto, locals, TypeOK, Listed, Readable
    <3>2. \A v \in Times : Close(v, start[r])' => Close(v, start[r])
      BY <3>1 DEF Close
    <3>3. ComparedWith(start[r], report'[r], missed'[r])
             => ComparedWith(start[r], report[r], missed[r])'
      BY <3>1, <3>2 DEF ComparedWith
    <3> QED
      BY <1>3, <2>2, <2>5, <3>1, <3>3
  <2>8. CASE SaveWrite(r) \/ PruneRemove(r)
    <3>1. pc'[r] \in {"list", "prune"}
      BY <2>8 DEF SaveWrite, PruneRemove, Goto, TypeOK
    <3> QED
      BY <3>1
  <2> QED
    BY <2>1, <2>6, <2>7, <2>8, RunWrites
<1> QED
  BY <1>5, <1>6, <1>7, <1>8
     DEF MigrationNext, Next, Tick, LinkFails, Reboot, locals, allVars, vars

(* Fewer reports, or more names between them, leave fewer growths to notice. *)
LEMMA FewerGrowths ==
    ASSUME MigrationTypes, [MigrationNext]_allVars,
           WindowFlagged, early \subseteq early', Listed \subseteq Listed',
           \A t \in Times : Readable(t)' => Readable(t) /\ files'[t] = files[t]
    PROVE  WindowFlagged'
<1> SUFFICES ASSUME NEW t \in Times \ early', NEW v \in Kept', NEW n \in Nodes,
                    Readable(t)', Readable(v)', Close(v, t)', v \notin unread'[t]
             PROVE  Noticed(files[v][n], files[t][n])'
  BY DEF WindowFlagged
<1>1. Listed \in SUBSET Times /\ Listed' \in SUBSET Times /\ v \in Times
  BY DEF Listed, Kept
<1>2. v \in Listed /\ v \in Listed'
  BY <1>1 DEF Readable, Listed
<1>3. v \in Kept
  <2>1. SUFFICES ASSUME v \in Older(Listed)
                 PROVE  FALSE
    BY <1>1 DEF Kept
  <2>2. Cardinality({u \in Listed : u > v}) >= Keep
    BY <2>1 DEF Older
  <2>3. Cardinality({u \in Listed' : u > v}) >= Keep
    BY <1>1, <2>2, AdditionKeepsNewer
  <2>4. v \in Older(Listed)'
    BY <1>2, <2>3 DEF Older
  <2> QED
    BY <2>4 DEF Kept
<1>4. Close(v, t)
  BY DEF Close
<1>5. t \in Times \ early /\ Readable(t) /\ Readable(v) /\ v \notin unread[t]
  BY <1>1, MissedStays DEF Readable
<1>6. Noticed(files[v][n], files[t][n])
  BY <1>3, <1>4, <1>5 DEF WindowFlagged
<1> QED
  BY <1>1, <1>6 DEF Noticed

(* What is newer than a newer name is newer. *)
LEMMA NewerOfNewer ==
    ASSUME NEW L \in SUBSET Times, NEW v \in Times, NEW g \in Times, v < g
    PROVE  {u \in L : u > g} \in SUBSET {u \in L : u > v}
<1>1. \A u \in L : u \in Int /\ v \in Int /\ g \in Int
  BY BoundAssumption DEF Times
<1>2. \A u \in L : u > g => u > v
  BY <1>1
<1> QED
  BY <1>2

(* What prune removes brings no report next to one that prune keeps. *)
LEMMA PrunedGrowths ==
    ASSUME MigrationTypes, [MigrationNext]_allVars,
           VictimsOutdated, WindowFlagged, early \subseteq early',
           NEW r \in Runs, PruneRemove(r)
    PROVE  WindowFlagged'
<1> USE DEF MigrationTypes
<1>1. PICK gone \in SUBSET victims[r] :
        files' = [t \in Times |-> IF t \in gone THEN Absent ELSE files[t]]
  BY RemovesVictims
<1>2. /\ Listed' = Listed \ gone /\ Listed \in SUBSET Times /\ gone \in SUBSET Times
      /\ \A t \in Times : Readable(t)' => Readable(t) /\ files'[t] = files[t] /\ t \notin gone
  BY <1>1 DEF Listed, Readable, TypeOK
<1>3. \A g \in gone : Cardinality({u \in Listed : u > g}) >= Keep
  BY <1>1 DEF VictimsOutdated, Newer
<1> SUFFICES ASSUME NEW t \in Times \ early', NEW v \in Kept', NEW n \in Nodes,
                    Readable(t)', Readable(v)', Close(v, t)', v \notin unread'[t]
             PROVE  Noticed(files[v][n], files[t][n])'
  BY DEF WindowFlagged
<1>4. /\ v \in Times /\ v \in Listed /\ v \in Listed'
      /\ ~ (Cardinality({u \in Listed \ gone : u > v}) >= Keep)
  <2>1. v \in Times /\ v \in Listed /\ v \in Listed'
    BY <1>2 DEF Kept, Readable, Listed
  <2>2. v \notin Older(Listed)'
    BY DEF Kept
  <2> QED
    BY <1>2, <2>1, <2>2 DEF Older
<1>5. ~ (Cardinality({u \in Listed : u > v}) >= Keep)
  BY <1>2, <1>3, <1>4, RemovalKeepsNewer
<1>6. ASSUME NEW g \in gone, v < g
      PROVE  FALSE
  <2> DEFINE A == {u \in Listed : u > g}
             B == {u \in Listed : u > v}
  <2>1. A \in SUBSET B
    <3>1. v \in Times /\ g \in Times /\ Listed \in SUBSET Times
      BY <1>2, <1>4
    <3> QED
      BY <1>6, <3>1, NewerOfNewer
  <2>2. IsFiniteSet(A) /\ IsFiniteSet(B)
    BY <1>2, NewerFinite
  <2>3. Cardinality(A) <= Cardinality(B) /\ Cardinality(A) \in Nat /\ Cardinality(B) \in Nat
    BY <2>1, <2>2, FS_Subset, FS_CardinalityType
  <2>4. Cardinality(A) >= Keep
    BY <1>3
  <2> QED
    BY <1>5, <2>3, <2>4, KeepAssumption
<1>7. Close(v, t)
  BY <1>2, <1>6 DEF Close
<1>8. v \in Kept
  BY <1>4, <1>5 DEF Kept, Older
<1>9. v \notin unread[t]
  BY <1>4, MissedStays DEF Readable
<1>10. Noticed(files[v][n], files[t][n])
  BY <1>2, <1>4, <1>7, <1>8, <1>9 DEF WindowFlagged
<1> QED
  BY <1>2, <1>4, <1>10 DEF Noticed

LEMMA WindowFlaggedStep ==
    ASSUME SingleRun, MigrationTypes', VictimsOutdated, WindowInv, [MigrationNext]_allVars
    PROVE  WindowFlagged'
<1> USE DEF WindowInv, MigrationTypes
<1>1. CASE ~Migrated
  <2> SUFFICES ASSUME NEW t \in Times \ early', NEW v \in Kept', NEW n \in Nodes,
                      Readable(t)', Readable(v)'
               PROVE  Noticed(files[v][n], files[t][n])'
    BY DEF WindowFlagged
  <2>1. Loud(files'[t])
    BY <1>1, LoudStep
  <2>2. files'[t] \in Reports /\ files'[v] \in Reports
    BY DEF Readable, Kept, TypeOK
  <2>3. files'[v][n] \in Finding
    BY <2>2 DEF Reports
  <2>4. Noticed(files'[v][n], files'[t][n])
    BY <2>1, <2>2, <2>3, LoudNotices
  <2> QED
    BY <2>4 DEF Noticed
<1>2. CASE Migrated
  <2>1. [Next]_vars
    BY <1>2, MigratedStays
  <2>2. early \subseteq early'
    <3>1. early \subseteq early' \/ Runs = {}
      BY Remembered
    <3>2. Runs = {} => early \subseteq early'
      BY DEF MigrationNext, Remember, allVars, history
    <3> QED
      BY <3>1, <3>2
  <2>3. CASE UNCHANGED files
    <3>1. Listed \subseteq Listed' /\ \A t \in Times : Readable(t)' => Readable(t)
      BY <2>3 DEF Listed, Readable
    <3> QED
      BY <2>2, <2>3, <3>1, FewerGrowths
  <2>4. ASSUME NEW r \in Runs, SaveOpen(r)
        PROVE  WindowFlagged'
    <3>1. Listed \subseteq Listed' /\ \A t \in Times : Readable(t)' =>
                                        Readable(t) /\ files'[t] = files[t]
      BY <2>4, FileAssumption DEF SaveOpen, Listed, Readable, TypeOK
    <3> QED
      BY <2>2, <3>1, FewerGrowths
  <2>5. ASSUME NEW r \in Runs, SaveWrite(r)
        PROVE  WindowFlagged'
    <3>1. CASE files' \in {files, [files EXCEPT ![start[r]] = Truncated]}
      <4>1. Listed \subseteq Listed' /\ \A t \in Times : Readable(t)' =>
                                          Readable(t) /\ files'[t] = files[t]
        BY <3>1, FileAssumption DEF Listed, Readable, TypeOK
      <4> QED
        BY <2>2, <4>1, FewerGrowths
    <3>2. CASE /\ files' = [files EXCEPT ![start[r]] = report[r]]
               /\ files[start[r]] # Absent
      <4> DEFINE s == start[r]
      <4>1. s \in Times /\ report[r] \in Reports /\ report[r] # Absent /\ pc[r] = "write"
        BY <2>5, FileAssumption DEF SaveWrite, Goto, TypeOK
      <4>2. /\ Listed' = Listed /\ files'[s] = report[r]
            /\ \A t \in Times : t # s => files'[t] = files[t] /\ (Readable(t)' => Readable(t))
        BY <3>2, <4>1 DEF Listed, Readable, TypeOK
      <4>3. Kept' = Kept
        BY <4>2 DEF Kept, Older
      <4> SUFFICES ASSUME NEW t \in Times \ early', NEW v \in Kept', NEW n \in Nodes,
                          Readable(t)', Readable(v)', Close(v, t)', v \notin unread'[t]
                   PROVE  Noticed(files[v][n], files[t][n])'
        BY DEF WindowFlagged
      <4>4. v \in Times /\ Close(v, t) /\ t \in Times \ early
        BY <2>2, <4>2 DEF Close, Kept
      <4>9. files'[t] # Absent /\ files'[v] # Absent
        BY DEF Readable
      <4>5. v # s
        <5>1. t \in Listed /\ \A x \in Listed : x <= s
          BY <4>1, <4>2 DEF Newcomer, Listed, Readable
        <5>2. v < t /\ t <= s
          BY <4>4, <5>1 DEF Close
        <5>3. v \in Int /\ t \in Int /\ s \in Int
          BY <4>1, <4>4, BoundAssumption DEF Times
        <5> HIDE DEF s
        <5> QED
          BY <5>2, <5>3
      <4>6. files'[v] = files[v] /\ Readable(v)
        BY <4>2, <4>4, <4>5
      <4>7. CASE t # s
        <5>1. files'[t] = files[t] /\ Readable(t)
          BY <4>2, <4>7
        <5>3. v \notin unread[t]
          BY <4>4, <4>9, MissedStays
        <5>2. Noticed(files[v][n], files[t][n])
          BY <4>3, <4>4, <4>6, <5>1, <5>3 DEF WindowFlagged
        <5> QED
          BY <4>6, <5>1, <5>2 DEF Noticed
      <4>8. CASE t = s
        <5>1. r \notin untold
          BY <4>1, <4>4, <4>8 DEF UntoldAreEarly
        <5>2. Loud(report[r]) \/ ComparedWith(s, report[r], missed[r])
          BY <4>1, <5>1 DEF Informed
        <5>5. v \notin missed[r]
          BY <2>5, <4>4, <4>8, <4>9, MissedStays
        <5>3. files[v][n] \in Finding
          BY <4>4, <4>6 DEF Readable, Reports, TypeOK
        <5>4. Noticed(files[v][n], report[r][n])
          BY <4>1, <4>4, <4>6, <4>8, <5>2, <5>3, <5>5, LoudNotices DEF ComparedWith
        <5> QED
          BY <4>2, <4>6, <4>8, <5>4 DEF Noticed
      <4> QED
        BY <4>7, <4>8
    <3> QED
      BY <2>5, <3>1, <3>2, WriteOutcome
  <2>6. ASSUME NEW r \in Runs, PruneRemove(r)
        PROVE  WindowFlagged'
    BY <2>2, <2>6, PrunedGrowths
  <2>7. ASSUME NEW r \in Runs, Run(r)
        PROVE  WindowFlagged'
    BY <2>3, <2>4, <2>5, <2>6, <2>7, RunWrites
  <2> QED
    BY <2>1, <2>3, <2>7
       DEF Next, Tick, Crash, LinkFails, Reboot, locals, vars
<1> QED
  BY <1>1, <1>2

LEMMA WindowInit == MigrationInit => WindowInv
<1> SUFFICES ASSUME MigrationInit
             PROVE  WindowInv
  OBVIOUS
<1>1. MigrationTypes /\ TextsAreOld /\ Walked
  BY MigrationTypesInit, WalkInit
<1>2. /\ untold = {} /\ mpc = "idle"
      /\ \A r \in Runs : pc[r] = "idle" /\ base1[r] = NoBaseline /\ base2[r] = NoBaseline
  BY DEF MigrationInit, RunsInit
<1>3. /\ \A t \in Times : files[t] # Absent => t < now
      /\ \A t \in Times, n \in Nodes :
            /\ Readable(t) => files[t][n].total = NoMetric
            /\ Readable(t) /\ text[t][n] > 0 => files[t][n].level \in Alarm
  BY OldReports
<1>4. Newcomer
  <2>1. \A t \in Listed : t < now /\ t \in Int /\ now \in Int
    BY <1>1, <1>3, BoundAssumption DEF Listed, Times, MigrationTypes, TypeOK
  <2> QED
    BY <1>2, <2>1 DEF Newcomer
<1>5. OldAreLoud
  BY <1>2, <1>3 DEF OldAreLoud, Loud, NoMetric
<1>6. WindowFlagged
  <2>1. \A v \in Kept : v \in Times
    BY DEF Kept
  <2> QED
    BY <1>3, <2>1 DEF WindowFlagged, Noticed
<1>7. Rested /\ UntoldAreEarly /\ Informed
  BY <1>2 DEF Rested, UntoldAreEarly, Informed
<1> QED
  BY <1>1, <1>4, <1>5, <1>6, <1>7 DEF WindowInv

LEMMA WindowStep ==
    ASSUME SingleRun, MigrationTypes', VictimsOutdated, WindowInv, [MigrationNext]_allVars
    PROVE  WindowInv'
<1>1. TextsAreOld' /\ Walked'
  BY TextsAreOldStep, WalkedStep DEF WindowInv
<1>2. Rested'
  <2>1. CASE [Next]_vars
    BY <2>1, RestedStep DEF WindowInv, MigrationTypes
  <2>2. CASE Migrate
    BY <2>2, WalkSteps DEF WindowInv, Rested
  <2> QED
    BY <2>1, <2>2 DEF MigrationNext, allVars
<1>3. Newcomer' /\ OldAreLoud' /\ UntoldAreEarly'
  BY NewcomerStep, OldAreLoudStep, UntoldAreEarlyStep
<1>4. Informed' /\ WindowFlagged'
  BY InformedStep, WindowFlaggedStep
<1> QED
  BY <1>1, <1>2, <1>3, <1>4 DEF WindowInv

(* The inductive invariant behind the two promises of the comparison.        *)
THEOREM WindowInvariant ==
    ASSUME SingleRun
    PROVE  MigrationSpec => []WindowInv
<1>1. MigrationTypes' /\ VictimsOutdated /\ WindowInv /\ [MigrationNext]_allVars => WindowInv'
  BY WindowStep
<1>2. MigrationInit => VictimsOutdated
  BY DEF MigrationInit, RunsInit, VictimsOutdated
<1> QED
  BY <1>1, <1>2, WindowInit, MigrationTypeCorrect, MigratedVictimsStep, PTL DEF MigrationSpec

LEMMA NeighboursAreClose ==
    ASSUME NEW t \in Times, NEW u \in Before(t)
    PROVE  /\ Readable(t) /\ Readable(u) /\ Close(u, t)
           /\ \A v \in Before(u) : Readable(v) /\ Close(v, u) /\ Close(v, t)
<1>1. /\ u \in Times /\ u < t /\ Readable(t) /\ Readable(u)
      /\ \A x \in Listed : ~ (u < x /\ x < t)
  BY DEF Before, Listed
<1>2. Close(u, t)
  BY <1>1 DEF Close
<1>3. ASSUME NEW v \in Before(u)
      PROVE  Readable(v) /\ Close(v, u) /\ Close(v, t)
  <2>1. /\ v \in Times /\ v < u /\ Readable(v)
        /\ \A x \in Listed : ~ (v < x /\ x < u)
    BY DEF Before, Listed
  <2>2. Times \subseteq Int /\ Listed \subseteq Times
    BY BoundAssumption DEF Times, Listed
  <2>3. v < t
    BY <1>1, <2>1, <2>2
  <2>4. \A x \in Listed : v < x /\ x < t => x = u
    BY <1>1, <2>1, <2>2
  <2> QED
    BY <1>1, <2>1, <2>3, <2>4 DEF Close
<1> QED
  BY <1>1, <1>2, <1>3

(* With one run at a time, and at most one per second, a growth between two  *)
(* neighbouring reports that prune keeps is an alarm in the later one, unless *)
(* its run has failed to load the earlier and had another to compare with:   *)
(* for any Keep, any nodes, and whatever is killed, truncated or migrated.   *)
THEOREM RecentGrowth ==
    ASSUME SingleRun
    PROVE  MigrationSpec => []RecentGrowthFlagged
<1>1. WindowInv => RecentGrowthFlagged
  <2> SUFFICES ASSUME WindowInv,
                      NEW t \in Times \ early, NEW u \in Before(t) \ unread[t], NEW n \in Nodes,
                      Metered(t, n), Metered(u, n), files[t][n].total > files[u][n].total,
                      u \in Kept
               PROVE  files[t][n].level \in Alarm
    BY DEF RecentGrowthFlagged
  <2>1. Readable(t) /\ Readable(u) /\ Close(u, t)
    BY NeighboursAreClose
  <2>2. Noticed(files[u][n], files[t][n])
    BY <2>1 DEF WindowInv, WindowFlagged
  <2>3. files[u][n] \in Finding /\ files[t][n] \in Finding
    BY <2>1 DEF WindowInv, MigrationTypes, TypeOK, Readable, Reports, Before
  <2> QED
    BY <2>2, <2>3 DEF Noticed, Metered, Finding, Totals, NoMetric
<1> QED
  BY <1>1, WindowInvariant, PTL

(* And the report after shows it again, unless the node's count has fallen or *)
(* that run has failed to load the report before the growth.                 *)
THEOREM GrowthTwice ==
    ASSUME SingleRun
    PROVE  MigrationSpec => []GrowthFlaggedTwice
<1>1. WindowInv => GrowthFlaggedTwice
  <2> SUFFICES ASSUME WindowInv,
                      NEW t \in Times, NEW u \in Before(t),
                      NEW v \in Before(u), NEW n \in Nodes,
                      Metered(t, n), Metered(u, n), Metered(v, n),
                      files[v][n].total < files[u][n].total,
                      files[u][n].total <= files[t][n].total,
                      v \in Kept,
                      NEW w \in {t, u} \ early, v \notin unread[w]
               PROVE  files[w][n].level \in Alarm
    BY DEF GrowthFlaggedTwice
  <2>0. u \in Times
    BY DEF Before
  <2>1. /\ w \in Times \ early
        /\ Readable(t) /\ Readable(u) /\ Readable(v) /\ Close(v, u) /\ Close(v, t)
    BY <2>0, NeighboursAreClose
  <2>2. Noticed(files[v][n], files[w][n])
    BY <2>1 DEF WindowInv, WindowFlagged
  <2>3. /\ files[v][n].total \in Nat /\ files[u][n].total \in Nat
        /\ files[t][n].total \in Nat
    <3>1. t \in Times /\ u \in Times /\ v \in Times
      BY DEF Before
    <3> QED
      BY <2>1, <3>1 DEF WindowInv, MigrationTypes, TypeOK, Readable, Reports, Finding,
                        Totals, Metered
  <2>4. files[v][n].total < files[w][n].total
    BY <2>3
  <2> QED
    BY <2>2, <2>4 DEF Noticed, Metered
<1> QED
  BY <1>1, WindowInvariant, PTL
==========================================================================
