------------------------ MODULE BondPortsProofs ------------------------
(* What nic_down reads of the bonds is what the node has, for any bonds and  *)
(* ports; from that, the ports the bot takes down are bounded and the last   *)
(* good link of a bond is guarded.                                           *)
EXTENDS BondPorts, FiniteSetTheorems, SequenceTheorems, WellFoundedInduction, TLAPS
--------------------------------------------------------------------------
(* Induction over the natural numbers, for a property given as a set, and    *)
(* what it says of a function that is defined from the value before.         *)

LEMMA NatSetInduction ==
    ASSUME NEW S \in SUBSET Nat, 0 \in S, \A n \in S : n + 1 \in S
    PROVE  \A n \in Nat : n \in S
<1> SUFFICES ASSUME Nat \ S # {} PROVE FALSE
  OBVIOUS
<1>1. PICK m \in Nat \ S : \A k \in Nat \ S : ~(k < m)
  <2>1. IsWellFoundedOn(OpToRel(<, Nat), Nat)
    BY NatLessThanWellFounded
  <2>2. PICK m \in Nat \ S : \A k \in Nat \ S : <<k, m>> \notin OpToRel(<, Nat)
    BY <2>1, WFMin
  <2>3. \A k \in Nat \ S : <<k, m>> \notin OpToRel(<, Nat) => ~(k < m)
    BY DEF OpToRel
  <2> QED
    BY <2>2, <2>3
<1>2. m # 0 /\ m - 1 \in Nat
  OBVIOUS
<1>3. m - 1 \in S
  BY <1>1, <1>2
<1> QED
  BY <1>2, <1>3

\* Up to n, when each number below n hands the property on.
LEMMA BoundedInduction ==
    ASSUME NEW n \in Nat, NEW P, 0 \in P, \A i \in 1 .. n : i - 1 \in P => i \in P
    PROVE  0 .. n \subseteq P
<1> DEFINE S == {k \in Nat : k <= n => k \in P}
<1>1. 0 \in S
  OBVIOUS
<1>2. ASSUME NEW k \in S
      PROVE  k + 1 \in S
  <2> SUFFICES ASSUME k + 1 <= n
               PROVE  k + 1 \in P
    OBVIOUS
  <2>1. k \in P /\ k + 1 \in 1 .. n /\ (k + 1) - 1 = k
    OBVIOUS
  <2> QED
    BY <2>1
<1>3. \A k \in Nat : k \in S
  <2> HIDE DEF S
  <2>1. S \in SUBSET Nat
    BY DEF S
  <2> QED
    BY <1>1, <1>2, <2>1, NatSetInduction
<1> QED
  BY <1>3

\* f runs from t through n steps, the i-th of which takes x to g[i][x].
IsRun(f, T, n, t, g) ==
    f \in [0 .. n -> T] /\ f[0] = t /\ \A i \in 1 .. n : f[i] = g[i][f[i - 1]]

LEMMA RunExists ==
    ASSUME NEW T, NEW n \in Nat, NEW t \in T, NEW g \in [1 .. n -> [T -> T]]
    PROVE  \E f : IsRun(f, T, n, t, g)
<1> DEFINE P == {k \in Nat : \E f : IsRun(f, T, k, t, g)}
<1>1. 0 \in P
  <2>1. IsRun([i \in 0 .. 0 |-> t], T, 0, t, g)
    BY DEF IsRun
  <2> QED
    BY <2>1
<1>2. ASSUME NEW k \in 1 .. n, k - 1 \in P
      PROVE  k \in P
  <2>1. PICK f : IsRun(f, T, k - 1, t, g)
    BY <1>2
  <2> DEFINE h == [i \in 0 .. k |-> IF i = k THEN g[k][f[k - 1]] ELSE f[i]]
  <2>2. k - 1 \in 0 .. k - 1
    OBVIOUS
  <2>3. g[k][f[k - 1]] \in T
    BY <2>1, <2>2 DEF IsRun
  <2>4. h \in [0 .. k -> T] /\ h[0] = t
    BY <2>1, <2>3 DEF IsRun
  <2>5. ASSUME NEW i \in 1 .. k
        PROVE  h[i] = g[i][h[i - 1]]
    <3>1. CASE i = k
      <4>1. h[k] = g[k][f[k - 1]] /\ h[k - 1] = f[k - 1]
        BY <2>2
      <4> QED
        BY <3>1, <4>1
    <3>2. CASE i # k
      <4>1. i \in 1 .. k - 1 /\ h[i] = f[i] /\ h[i - 1] = f[i - 1]
        BY <3>2
      <4> QED
        BY <2>1, <4>1 DEF IsRun
    <3> QED
      BY <3>1, <3>2
  <2> HIDE DEF h
  <2>6. IsRun(h, T, k, t, g)
    BY <2>4, <2>5 DEF IsRun
  <2> QED
    BY <2>6
<1>3. n \in P
  <2> HIDE DEF P
  <2>1. 0 .. n \subseteq P
    BY <1>1, <1>2, BoundedInduction
  <2> QED
    BY <2>1
<1> QED
  BY <1>3
--------------------------------------------------------------------------
(* The types of what is read. *)

Vals      == Ports \cup {"", "up", "down"}
ProcLine  == [bond : Bonds, key : {"Slave Interface", "MII Status"}, val : Vals]
ReadState == [slaves : [Bonds -> Seq([name : Vals, mii : Vals])], current : Bonds \cup {NoBond}]

LEMMA MembersTypes ==
    /\ Members \in Seq(Seq(Ports)) /\ Len(Members) \in Nat /\ Bonds = 1 .. Len(Members)
    /\ \A b \in Bonds : /\ Members[b] \in Seq(Ports) /\ Len(Members[b]) \in Nat
                        /\ DOMAIN Members[b] = 1 .. Len(Members[b])
                        /\ \A i \in 1 .. Len(Members[b]) : Members[b][i] \in PortsOf(b)
    /\ \A b \in Bonds : PortsOf(b) \subseteq Ports /\ b # NoBond
<1>1. Members \in Seq(Seq(Ports)) /\ Len(Members) \in Nat /\ Bonds = 1 .. Len(Members)
  BY MembersAssumption, LenProperties DEF Bonds
<1>2. ASSUME NEW b \in Bonds
      PROVE  Members[b] \in Seq(Ports)
  BY <1>1, ElementOfSeq
<1>3. ASSUME NEW b \in Bonds
      PROVE  /\ Len(Members[b]) \in Nat /\ DOMAIN Members[b] = 1 .. Len(Members[b])
             /\ \A i \in 1 .. Len(Members[b]) : Members[b][i] \in PortsOf(b)
             /\ PortsOf(b) \subseteq Ports /\ b # NoBond
  <2>1. Len(Members[b]) \in Nat /\ DOMAIN Members[b] = 1 .. Len(Members[b])
    BY <1>2, LenProperties
  <2>2. PortsOf(b) \subseteq Ports
    BY DEF Ports
  <2>3. \A i \in 1 .. Len(Members[b]) : Members[b][i] \in PortsOf(b)
    BY <2>1 DEF PortsOf, Range
  <2>4. b # NoBond
    BY <1>1 DEF NoBond
  <2> QED
    BY <2>1, <2>2, <2>3, <2>4
<1> QED
  BY <1>1, <1>2, <1>3

LEMMA FileLines ==
    ASSUME NEW b \in Bonds
    PROVE  /\ BondLines(b) \in Seq(ProcLine) /\ Len(BondLines(b)) = 2 * Len(Members[b]) + 1
           /\ BondLines(b)[1].bond = b /\ BondLines(b)[1].key = "MII Status"
           /\ \A i \in 1 .. Len(Members[b]) :
                 /\ BondLines(b)[2 * i] = Line(b, "Slave Interface", Members[b][i])
                 /\ BondLines(b)[2 * i + 1] =
                       Line(b, "MII Status", Status(Members[b][i] \in Live))
<1> DEFINE n == Len(Members[b])
           N == 2 * n + 1
           lines == BondLines(b)
<1>1. n \in Nat /\ N \in Nat /\ \A i \in 1 .. n : Members[b][i] \in PortsOf(b)
  BY MembersTypes
<1>2. \A up \in BOOLEAN : Line(b, "MII Status", Status(up)) \in ProcLine
  <2>1. \A up \in BOOLEAN : Status(up) \in Vals
    BY DEF Status, Vals
  <2> QED
    BY <2>1 DEF Line, ProcLine
<1>3. ASSUME NEW i \in 1 .. n
      PROVE  Line(b, "Slave Interface", Members[b][i]) \in ProcLine
  <2>1. Members[b][i] \in Vals
    BY <1>1, MembersTypes DEF Vals
  <2> QED
    BY <2>1 DEF Line, ProcLine
<1>4. lines[1] = Line(b, "MII Status", Status(PortsOf(b) \cap Live # {}))
  <2>1. 1 \in 1 .. N
    BY <1>1
  <2> QED
    BY <2>1 DEF BondLines
<1>5. ASSUME NEW i \in 1 .. n
      PROVE  /\ lines[2 * i] = Line(b, "Slave Interface", Members[b][i])
             /\ lines[2 * i + 1] = Line(b, "MII Status", Status(Members[b][i] \in Live))
  <2>1. /\ 2 * i \in 1 .. N /\ 2 * i # 1 /\ (2 * i) % 2 = 0 /\ (2 * i) \div 2 = i
        /\ 2 * i + 1 \in 1 .. N /\ 2 * i + 1 # 1 /\ (2 * i + 1) % 2 # 0
        /\ (2 * i + 1) \div 2 = i
    BY <1>1
  <2> QED
    BY <2>1 DEF BondLines
<1>6. ASSUME NEW k \in 1 .. N
      PROVE  lines[k] \in ProcLine
  <2>1. k = 1 \/ \E i \in 1 .. n : k = 2 * i \/ k = 2 * i + 1
    <3>1. k # 1 => k \div 2 \in 1 .. n /\ (k = 2 * (k \div 2) \/ k = 2 * (k \div 2) + 1)
      BY <1>1
    <3> QED
      BY <3>1
  <2>2. CASE k = 1
    <3>1. (PortsOf(b) \cap Live # {}) \in BOOLEAN
      OBVIOUS
    <3>2. Line(b, "MII Status", Status(PortsOf(b) \cap Live # {})) \in ProcLine
      BY <1>2, <3>1, Zenon
    <3> QED
      BY <1>4, <2>2, <3>2
  <2>3. ASSUME NEW i \in 1 .. n, k = 2 * i \/ k = 2 * i + 1
        PROVE  lines[k] \in ProcLine
    <3>1. (Members[b][i] \in Live) \in BOOLEAN
      OBVIOUS
    <3>2. Line(b, "MII Status", Status(Members[b][i] \in Live)) \in ProcLine
      BY <1>2, <3>1, Zenon
    <3> QED
      BY <1>3, <1>5, <2>3, <3>2
  <2> QED
    BY <2>1, <2>2, <2>3
<1>7. lines \in Seq(ProcLine) /\ Len(lines) = N
  <2>1. DOMAIN lines = 1 .. N /\ lines = [k \in 1 .. N |-> lines[k]]
    BY DEF BondLines
  <2>2. lines \in [1 .. N -> ProcLine]
    BY <1>6, <2>1
  <2>3. Seq(ProcLine) = UNION {[1 .. m -> ProcLine] : m \in Nat}
    BY SeqDef
  <2> HIDE DEF lines, N
  <2>4. lines \in Seq(ProcLine)
    <3>1. [1 .. N -> ProcLine] \in {[1 .. m -> ProcLine] : m \in Nat}
      BY <1>1
    <3> QED
      BY <2>2, <2>3, <3>1, Zenon
  <2>5. Len(lines) \in Nat /\ 1 .. Len(lines) = 1 .. N
    BY <2>1, <2>4, LenProperties
  <2> QED
    BY <1>1, <2>4, <2>5
<1> HIDE DEF lines
<1>8. lines[1].bond = b /\ lines[1].key = "MII Status"
  <2>1. \A v : Line(b, "MII Status", v).bond = b /\ Line(b, "MII Status", v).key = "MII Status"
    BY DEF Line
  <2> QED
    BY <1>4, <2>1
<1>9. lines \in Seq(ProcLine) /\ Len(lines) = 2 * Len(Members[b]) + 1
  BY <1>7
<1> QED
  BY <1>5, <1>8, <1>9 DEF lines

LEMMA ReadLineType ==
    ASSUME NEW s \in ReadState, NEW line \in ProcLine
    PROVE  ReadLine(s, line) \in ReadState
<1>1. /\ s.slaves \in [Bonds -> Seq([name : Vals, mii : Vals])]
      /\ s.current \in Bonds \cup {NoBond}
      /\ line.bond \in Bonds /\ line.val \in Vals /\ "" \in Vals
  BY DEF ReadState, ProcLine, Vals
<1>2. AddSlave(s, line) \in ReadState
  <2>1. [name |-> line.val, mii |-> ""] \in [name : Vals, mii : Vals]
    BY <1>1
  <2>2. Append(s.slaves[line.bond], [name |-> line.val, mii |-> ""])
          \in Seq([name : Vals, mii : Vals])
    BY <1>1, <2>1, AppendProperties
  <2> QED
    BY <1>1, <2>2 DEF AddSlave, ReadState
<1>3. s.current = line.bond => SetStatus(s, line.val) \in ReadState
  <2> SUFFICES ASSUME s.current = line.bond
               PROVE  SetStatus(s, line.val) \in ReadState
    OBVIOUS
  <2> DEFINE old == s.slaves[line.bond]
             new == [old EXCEPT ![Len(old)].mii = line.val]
  <2>1. old \in Seq([name : Vals, mii : Vals])
    BY <1>1
  <2>2. old \in [1 .. Len(old) -> [name : Vals, mii : Vals]] /\ Len(old) \in Nat
    BY <2>1, LenProperties
  <2>3. new \in [1 .. Len(old) -> [name : Vals, mii : Vals]]
    <3> HIDE DEF old
    <3> QED
      BY <1>1, <2>2
  <2>4. new \in Seq([name : Vals, mii : Vals])
    <3> DEFINE R == [name : Vals, mii : Vals]
    <3>1. Seq(R) = UNION {[1 .. n -> R] : n \in Nat}
      BY SeqDef
    <3> HIDE DEF new, old, R
    <3>2. [1 .. Len(old) -> R] \in {[1 .. n -> R] : n \in Nat}
      BY <2>2
    <3>3. new \in [1 .. Len(old) -> R]
      BY <2>3 DEF R
    <3>4. new \in Seq(R)
      BY <3>1, <3>2, <3>3, Zenon
    <3> QED
      BY <3>4 DEF R
  <2>5. SetStatus(s, line.val) = [s EXCEPT !.slaves = [s.slaves EXCEPT ![line.bond] = new]]
    BY <1>1 DEF SetStatus, ReadState
  <2> HIDE DEF new
  <2> QED
    BY <1>1, <2>4, <2>5 DEF ReadState
<1> QED
  BY <1>2, <1>3 DEF ReadLine, ProcLine

(* Reading is a run through the lines. *)
IsReading(f, s, lines) ==
    /\ f \in [0 .. Len(lines) -> ReadState] /\ f[0] = s
    /\ \A i \in 1 .. Len(lines) : f[i] = ReadLine(f[i - 1], lines[i])

LEMMA ReadRun ==
    ASSUME NEW s \in ReadState, NEW lines \in Seq(ProcLine)
    PROVE  \E f : IsReading(f, s, lines) /\ ReadLines(s, lines) = f[Len(lines)]
<1> DEFINE n == Len(lines)
           g == [i \in 1 .. n |-> [t \in ReadState |-> ReadLine(t, lines[i])]]
           Whole(f) == f = [i \in 0 .. n |-> IF i = 0 THEN s ELSE ReadLine(f[i - 1], lines[i])]
           read == CHOOSE f : Whole(f)
<1>1. n \in Nat /\ \A i \in 1 .. n : lines[i] \in ProcLine
  BY LenProperties, ElementOfSeq
<1>2. g \in [1 .. n -> [ReadState -> ReadState]]
  BY <1>1, ReadLineType
<1>3. ASSUME NEW i \in 1 .. n, NEW t \in ReadState
      PROVE  g[i][t] = ReadLine(t, lines[i])
  OBVIOUS
<1>4. ReadLines(s, lines) = read[n]
  BY DEF ReadLines
<1> HIDE DEF n, g
<1>5. PICK f : IsRun(f, ReadState, n, s, g)
  BY <1>1, <1>2, RunExists
<1>6. f \in [0 .. n -> ReadState] /\ f[0] = s
  BY <1>5 DEF IsRun
<1>7. ASSUME NEW i \in 1 .. n
      PROVE  f[i] = ReadLine(f[i - 1], lines[i])
  <2>1. f[i - 1] \in ReadState
    BY <1>1, <1>6
  <2> QED
    BY <1>3, <1>5, <2>1 DEF IsRun
<1>8. Whole(read)
  <2>1. ASSUME NEW i \in 0 .. n
        PROVE  f[i] = IF i = 0 THEN s ELSE ReadLine(f[i - 1], lines[i])
    BY <1>1, <1>6, <1>7
  <2>2. Whole(f)
    BY <1>6, <2>1
  <2> QED
    BY <2>2
<1> HIDE DEF read
<1>9. read[n] = f[n]
  <2> DEFINE P == {i \in 0 .. n : read[i] = f[i]}
  <2>1. 0 \in P
    BY <1>1, <1>6, <1>8
  <2>2. ASSUME NEW i \in 1 .. n, i - 1 \in P
        PROVE  i \in P
    <3>1. read[i] = ReadLine(read[i - 1], lines[i])
      BY <1>1, <1>8
    <3> QED
      BY <1>7, <2>2, <3>1
  <2>3. n \in 0 .. n
    BY <1>1
  <2> HIDE DEF P
  <2>4. 0 .. n \subseteq P
    BY <1>1, <2>1, <2>2, BoundedInduction
  <2> QED
    BY <2>3, <2>4 DEF P
<1>10. IsReading(f, s, lines)
  BY <1>6, <1>7 DEF IsReading, n
<1> QED
  BY <1>4, <1>9, <1>10 DEF n

(* What is read of two outputs in a row: the second is read from where the *)
(* first ends.                                                               *)
LEMMA ReadConcat ==
    ASSUME NEW s \in ReadState, NEW one \in Seq(ProcLine), NEW two \in Seq(ProcLine)
    PROVE  /\ ReadLines(s, <<>>) = s /\ ReadLines(s, one) \in ReadState
           /\ ReadLines(s, one \o two) = ReadLines(ReadLines(s, one), two)
<1> DEFINE n == Len(one)
           m == Len(two)
           both == one \o two
<1>1. n \in Nat /\ m \in Nat
  BY LenProperties
<1>2. /\ both \in Seq(ProcLine) /\ Len(both) = n + m
      /\ \A i \in 1 .. n : both[i] = one[i]
      /\ \A i \in 1 .. m : both[n + i] = two[i]
  <2>1. /\ both \in Seq(ProcLine) /\ Len(both) = n + m
        /\ \A i \in 1 .. n + m : both[i] = IF i <= n THEN one[i] ELSE two[i - n]
    BY ConcatProperties
  <2> HIDE DEF n, m, both
  <2>2. ASSUME NEW i \in 1 .. m
        PROVE  both[n + i] = two[i]
    <3>1. n + i \in 1 .. n + m /\ ~(n + i <= n) /\ (n + i) - n = i
      BY <1>1
    <3> QED
      BY <2>1, <3>1
  <2>3. \A i \in 1 .. n : both[i] = one[i]
    BY <1>1, <2>1
  <2> QED
    BY <2>1, <2>2, <2>3
<1>3. ReadLines(s, <<>>) = s
  <2>1. <<>> \in Seq(ProcLine) /\ Len(<<>>) = 0
    OBVIOUS
  <2>2. PICK f : IsReading(f, s, <<>>) /\ ReadLines(s, <<>>) = f[Len(<<>>)]
    BY <2>1, ReadRun
  <2> QED
    BY <2>1, <2>2 DEF IsReading
<1>4. PICK f : IsReading(f, s, one) /\ ReadLines(s, one) = f[n]
  BY ReadRun
<1>5. /\ f \in [0 .. n -> ReadState] /\ f[0] = s
      /\ \A i \in 1 .. n : f[i] = ReadLine(f[i - 1], one[i])
  BY <1>4 DEF IsReading
<1>6. f[n] \in ReadState
  BY <1>1, <1>5
<1>7. PICK g : IsReading(g, f[n], two) /\ ReadLines(f[n], two) = g[m]
  BY <1>6, ReadRun
<1>8. /\ g[0] = f[n]
      /\ \A i \in 1 .. m : g[i] = ReadLine(g[i - 1], two[i])
  BY <1>7 DEF IsReading
<1> HIDE DEF both, n, m
<1>9. PICK h : IsReading(h, s, both) /\ ReadLines(s, both) = h[Len(both)]
  BY <1>2, ReadRun
<1>10. /\ h[0] = s /\ ReadLines(s, both) = h[n + m]
       /\ \A i \in 1 .. n + m : h[i] = ReadLine(h[i - 1], both[i])
  BY <1>2, <1>9 DEF IsReading
<1>11. h[n] = f[n]
  <2> DEFINE P == {i \in 0 .. n : h[i] = f[i]}
  <2>1. ASSUME NEW i \in 1 .. n, i - 1 \in P
        PROVE  i \in P
    <3>1. i \in 1 .. n + m
      BY <1>1
    <3>2. h[i] = ReadLine(h[i - 1], one[i])
      BY <1>2, <1>10, <3>1
    <3> QED
      BY <1>5, <2>1, <3>2
  <2>2. 0 \in P /\ n \in 0 .. n
    BY <1>1, <1>5, <1>10
  <2> HIDE DEF P
  <2>3. 0 .. n \subseteq P
    BY <1>1, <2>1, <2>2, BoundedInduction
  <2> QED
    BY <2>2, <2>3 DEF P
<1>12. h[n + m] = g[m]
  <2> DEFINE P == {i \in 0 .. m : h[n + i] = g[i]}
  <2>1. ASSUME NEW i \in 1 .. m, i - 1 \in P
        PROVE  i \in P
    <3>1. n + i \in 1 .. n + m /\ (n + i) - 1 = n + (i - 1)
      BY <1>1
    <3>2. h[n + i] = ReadLine(h[n + (i - 1)], two[i])
      BY <1>2, <1>10, <3>1
    <3> QED
      BY <1>8, <2>1, <3>2
  <2>2. 0 \in P /\ m \in 0 .. m
    BY <1>1, <1>8, <1>11
  <2> HIDE DEF P
  <2>3. 0 .. m \subseteq P
    BY <1>1, <2>1, <2>2, BoundedInduction
  <2> QED
    BY <2>2, <2>3 DEF P
<1>13. ReadLines(s, both) = ReadLines(ReadLines(s, one), two)
  BY <1>4, <1>7, <1>10, <1>12
<1>14. ReadLines(s, one) \in ReadState
  BY <1>4, <1>6
<1> QED
  BY <1>3, <1>13, <1>14 DEF both
--------------------------------------------------------------------------
(* What is read of a file, and of all files.                                 *)

\* A port as it is to be read.
Slave(p) == [name |-> p, mii |-> Status(p \in Live)]

\* How many ports of bond c have been read when bond b has been read up to port i.
ReadOf(c, b, i) == IF c < b THEN Len(Members[c]) ELSE IF c = b THEN i ELSE 0

\* The reading has come to port i of bond b.
HasRead(s, b, i) ==
    /\ s.slaves = [c \in Bonds |-> [j \in 1 .. ReadOf(c, b, i) |-> Slave(Members[c][j])]]
    /\ s.current \in 0 .. b /\ (s.current = b => i > 0)

LEMMA StatusIsSet ==
    ASSUME NEW p \in Vals, NEW st \in Vals
    PROVE  [[name |-> p, mii |-> ""] EXCEPT !.mii = st] = [name |-> p, mii |-> st]
<1> DEFINE r == [[name |-> p, mii |-> ""] EXCEPT !.mii = st]
<1>1. "" \in Vals
  BY DEF Vals
<1>2. r \in [name : Vals, mii : Vals]
  BY <1>1
<1>3. r.name = p /\ r.mii = st
  OBVIOUS
<1> HIDE DEF r
<1>4. r = [name |-> r.name, mii |-> r.mii]
  BY <1>2
<1>5. r = [name |-> p, mii |-> st]
  BY <1>3, <1>4
<1> QED
  BY <1>5 DEF r

\* What the two lines of a port do to what has been read of its bond.
LEMMA TwoLines ==
    ASSUME NEW b \in Bonds, NEW p \in Ports, NEW st \in Vals, NEW s \in ReadState
    PROVE  /\ DOMAIN s.slaves = Bonds /\ Len(s.slaves[b]) \in Nat
           /\ DOMAIN s.slaves[b] = 1 .. Len(s.slaves[b])
           /\ ReadLine(ReadLine(s, Line(b, "Slave Interface", p)), Line(b, "MII Status", st)) =
                 [slaves |-> [s.slaves EXCEPT ![b] =
                     [j \in 1 .. Len(s.slaves[b]) + 1 |->
                         IF j = Len(s.slaves[b]) + 1 THEN [name |-> p, mii |-> st]
                         ELSE s.slaves[b][j]]],
                  current |-> b]
<1> DEFINE S == [name : Vals, mii : Vals]
           x == s.slaves[b]
           k == Len(x)
           new == [name |-> p, mii |-> ""]
           old == Append(x, new)
           T1 == [s.slaves EXCEPT ![b] = old]
           s1 == [slaves |-> T1, current |-> b]
           more == [j \in 1 .. k + 1 |-> IF j = k + 1 THEN [name |-> p, mii |-> st] ELSE x[j]]
<1>1. s.slaves \in [Bonds -> Seq(S)]
  BY DEF ReadState
<1>2. x \in Seq(S) /\ DOMAIN s.slaves = Bonds
  BY <1>1
<1>3. k \in Nat /\ DOMAIN x = 1 .. k
  BY <1>2, LenProperties
<1>4. new \in S
  <2>1. p \in Vals /\ "" \in Vals
    BY DEF Vals
  <2> QED
    BY <2>1
<1>5. ReadLine(s, Line(b, "Slave Interface", p)) = s1
  <2>1. Line(b, "Slave Interface", p).key = "Slave Interface"
    BY DEF Line
  <2>2. ReadLine(s, Line(b, "Slave Interface", p)) = AddSlave(s, Line(b, "Slave Interface", p))
    BY <2>1 DEF ReadLine
  <2>3. Line(b, "Slave Interface", p).bond = b /\ Line(b, "Slave Interface", p).val = p
    BY DEF Line
  <2> QED
    BY <2>2, <2>3 DEF AddSlave
<1>6. /\ Len(old) = k + 1 /\ old[k + 1] = new
      /\ DOMAIN old = 1 .. k + 1 /\ old = [j \in 1 .. k + 1 |-> old[j]]
      /\ \A j \in 1 .. k : old[j] = x[j]
  <2> HIDE DEF new, x, S
  <2>1. /\ old \in Seq(S) /\ Len(old) = k + 1 /\ old[k + 1] = new
        /\ \A j \in 1 .. k : old[j] = x[j]
    BY <1>2, <1>4, AppendProperties
  <2>2. DOMAIN old = 1 .. Len(old) /\ old = [j \in 1 .. Len(old) |-> old[j]]
    <3> HIDE DEF old
    <3> QED
      BY <2>1, LenProperties
  <2> HIDE DEF old
  <2> QED
    BY <2>1, <2>2
<1> HIDE DEF S, x, k, old
<1>7. ReadLine(s1, Line(b, "MII Status", st)) = SetStatus(s1, st)
  <2>1. /\ Line(b, "MII Status", st).key = "MII Status" /\ Line(b, "MII Status", st).bond = b
        /\ Line(b, "MII Status", st).val = st
    BY DEF Line
  <2>2. s1.current = b
    OBVIOUS
  <2> HIDE DEF s1
  <2> QED
    BY <2>1, <2>2 DEF ReadLine
<1>8. SetStatus(s1, st) = [slaves |-> [s.slaves EXCEPT ![b] = [old EXCEPT ![k + 1].mii = st]],
                           current |-> b]
  <2>1. s1.current = b /\ s1.slaves = T1
    OBVIOUS
  <2>2. T1[b] = old
    BY <1>2
  <2>3. SetStatus(s1, st) = [s1 EXCEPT !.slaves[b][k + 1].mii = st]
    <3> HIDE DEF s1
    <3> QED
      BY <1>6, <2>1, <2>2 DEF SetStatus
  <2>4. [s1 EXCEPT !.slaves[b][k + 1].mii = st] =
            [slaves |-> [T1 EXCEPT ![b][k + 1].mii = st], current |-> b]
    OBVIOUS
  <2>5. [T1 EXCEPT ![b][k + 1].mii = st] = [s.slaves EXCEPT ![b] = [old EXCEPT ![k + 1].mii = st]]
    BY <1>2
  <2> QED
    BY <2>3, <2>4, <2>5
<1>9. [old EXCEPT ![k + 1].mii = st] = more
  <2>1. [new EXCEPT !.mii = st] = [name |-> p, mii |-> st]
    <3>1. p \in Vals
      BY DEF Vals
    <3> QED
      BY <3>1, StatusIsSet
  <2> HIDE DEF new
  <2>2. ASSUME NEW j \in 1 .. k + 1
        PROVE  old[j] = IF j = k + 1 THEN new ELSE x[j]
    <3>1. j = k + 1 \/ j \in 1 .. k
      BY <1>3
    <3>2. k + 1 \notin 1 .. k
      BY <1>3
    <3> QED
      BY <1>6, <3>1, <3>2
  <2> QED
    BY <1>3, <1>6, <2>1, <2>2
<1> QED
  BY <1>2, <1>3, <1>5, <1>7, <1>8, <1>9 DEF k, x

\* The two lines of a port append it with its status.
LEMMA PortIsRead ==
    ASSUME NEW b \in Bonds, NEW i \in 1 .. Len(Members[b]), NEW s \in ReadState,
           HasRead(s, b, i - 1)
    PROVE  HasRead(ReadLine(ReadLine(s, Line(b, "Slave Interface", Members[b][i])),
                            Line(b, "MII Status", Status(Members[b][i] \in Live))), b, i)
<1> DEFINE p == Members[b][i]
           st == Status(p \in Live)
           k == Len(s.slaves[b])
           more == [j \in 1 .. k + 1 |-> IF j = k + 1 THEN [name |-> p, mii |-> st]
                                         ELSE s.slaves[b][j]]
           after == ReadLine(ReadLine(s, Line(b, "Slave Interface", p)), Line(b, "MII Status", st))
<1>1. /\ i \in Nat /\ i - 1 \in Nat /\ b \in Nat
      /\ \A c \in Bonds : c \in Nat /\ Len(Members[c]) \in Nat
  BY MembersTypes
<1>2. p \in Ports /\ st \in Vals
  <2>1. p \in Ports
    BY MembersTypes
  <2> QED
    BY <2>1 DEF Status, Vals
<1>3. s.slaves = [c \in Bonds |-> [j \in 1 .. ReadOf(c, b, i - 1) |-> Slave(Members[c][j])]]
  BY DEF HasRead
<1>4. s.slaves[b] = [j \in 1 .. i - 1 |-> Slave(Members[b][j])]
  <2>1. ReadOf(b, b, i - 1) = i - 1
    BY <1>1 DEF ReadOf
  <2> QED
    BY <1>3, <2>1
<1>5. /\ k \in Nat /\ DOMAIN s.slaves[b] = 1 .. k /\ DOMAIN s.slaves = Bonds
      /\ after = [slaves |-> [s.slaves EXCEPT ![b] = more], current |-> b]
  <2> HIDE DEF p, st
  <2> QED
    BY <1>2, TwoLines
<1>6. k = i - 1
  <2>1. 1 .. k = 1 .. i - 1
    BY <1>4, <1>5
  <2>2. k \in Nat
    BY <1>5
  <2> HIDE DEF k
  <2>3. k \in 1 .. i - 1 \/ k = 0
    BY <2>1, <2>2
  <2>4. i - 1 \in 1 .. k \/ i - 1 = 0
    <3>1. i - 1 \in 1 .. i - 1 \/ i - 1 = 0
      BY <1>1
    <3> QED
      BY <2>1, <3>1
  <2> QED
    BY <1>1, <2>2, <2>3, <2>4
<1> HIDE DEF k
<1>7. more = [j \in 1 .. i |-> Slave(Members[b][j])]
  <2>1. k + 1 = i
    BY <1>1, <1>6
  <2>2. [name |-> p, mii |-> st] = Slave(Members[b][i])
    BY DEF Slave
  <2>3. \A j \in 1 .. i : j # i => s.slaves[b][j] = Slave(Members[b][j])
    BY <1>1, <1>4
  <2> QED
    BY <2>1, <2>2, <2>3
<1> HIDE DEF more, after
<1>8. after.slaves = [c \in Bonds |-> [j \in 1 .. ReadOf(c, b, i) |-> Slave(Members[c][j])]]
  <2>1. after.slaves = [s.slaves EXCEPT ![b] = more]
    BY <1>5
  <2>2. ASSUME NEW c \in Bonds
        PROVE  after.slaves[c] = [j \in 1 .. ReadOf(c, b, i) |-> Slave(Members[c][j])]
    <3>1. CASE c = b
      <4>1. ReadOf(c, b, i) = i
        BY <1>1, <3>1 DEF ReadOf
      <4> QED
        BY <1>5, <1>7, <2>1, <3>1, <4>1
    <3>2. CASE c # b
      <4>1. ReadOf(c, b, i) = ReadOf(c, b, i - 1)
        BY <3>2 DEF ReadOf
      <4> QED
        BY <1>3, <2>1, <3>2, <4>1
    <3> QED
      BY <3>1, <3>2
  <2>3. after.slaves = [c \in Bonds |-> after.slaves[c]]
    BY <1>5, <2>1
  <2> QED
    BY <2>2, <2>3
<1>9. after.current = b
  BY <1>5
<1>10. HasRead(after, b, i)
  BY <1>1, <1>8, <1>9 DEF HasRead
<1> QED
  BY <1>10 DEF after

\* The status of a bond, which precedes its ports, is nobody's.
LEMMA FileIsRead ==
    ASSUME NEW b \in Bonds, NEW s \in ReadState, HasRead(s, b, 0)
    PROVE  HasRead(ReadLines(s, BondLines(b)), b, Len(Members[b]))
<1> DEFINE n == Len(Members[b])
           lines == BondLines(b)
<1>1. n \in Nat /\ b \in Nat
  BY MembersTypes
<1>2. lines \in Seq(ProcLine) /\ Len(lines) = 2 * n + 1
  BY FileLines
<1>3. PICK f : IsReading(f, s, lines) /\ ReadLines(s, lines) = f[Len(lines)]
  BY <1>2, ReadRun
<1>4. /\ f \in [0 .. 2 * n + 1 -> ReadState] /\ f[0] = s
      /\ \A k \in 1 .. 2 * n + 1 : f[k] = ReadLine(f[k - 1], lines[k])
      /\ ReadLines(s, lines) = f[2 * n + 1]
  BY <1>2, <1>3 DEF IsReading
<1>5. lines[1].bond = b /\ lines[1].key = "MII Status"
  BY FileLines
<1>6. \A i \in 1 .. n : /\ lines[2 * i] = Line(b, "Slave Interface", Members[b][i])
                        /\ lines[2 * i + 1] = Line(b, "MII Status", Status(Members[b][i] \in Live))
  BY FileLines
<1> HIDE DEF n, lines
<1>7. f[1] = s
  <2>1. 1 \in 1 .. 2 * n + 1 /\ 1 - 1 = 0
    BY <1>1
  <2>2. f[1] = ReadLine(s, lines[1])
    BY <1>4, <2>1
  <2>3. s.current # lines[1].bond
    <3>1. s.current # b
      BY DEF HasRead
    <3> QED
      BY <1>5, <3>1
  <2> QED
    BY <1>5, <2>2, <2>3 DEF ReadLine
<1> DEFINE P == {i \in 0 .. n : HasRead(f[2 * i + 1], b, i)}
<1>8. 0 \in P
  BY <1>1, <1>7
<1>9. ASSUME NEW i \in 1 .. n, i - 1 \in P
      PROVE  i \in P
  <2>1. /\ 2 * i \in 1 .. 2 * n + 1 /\ 2 * i + 1 \in 1 .. 2 * n + 1
        /\ 2 * i - 1 \in 0 .. 2 * n + 1
        /\ 2 * (i - 1) + 1 = 2 * i - 1 /\ (2 * i + 1) - 1 = 2 * i
    BY <1>1
  <2>2. /\ f[2 * i] = ReadLine(f[2 * i - 1], Line(b, "Slave Interface", Members[b][i]))
        /\ f[2 * i + 1] = ReadLine(f[2 * i], Line(b, "MII Status", Status(Members[b][i] \in Live)))
    BY <1>4, <1>6, <2>1
  <2>3. f[2 * i - 1] \in ReadState /\ HasRead(f[2 * i - 1], b, i - 1)
    BY <1>4, <1>9, <2>1
  <2>4. HasRead(f[2 * i + 1], b, i)
    BY <2>2, <2>3, PortIsRead DEF n
  <2> QED
    BY <2>4
<1> HIDE DEF P
<1>10. 0 .. n \subseteq P
  BY <1>1, <1>8, <1>9, BoundedInduction
<1>11. HasRead(f[2 * n + 1], b, n)
  <2>1. n \in 0 .. n
    BY <1>1
  <2> QED
    BY <1>10, <2>1 DEF P
<1> QED
  BY <1>4, <1>11 DEF n, lines

\* What grep prints is a run through the files.
LEMMA ProbedRun ==
    \E f : /\ f \in [0 .. Len(Members) -> Seq(ProcLine)] /\ f[0] = <<>>
           /\ \A b \in 1 .. Len(Members) : f[b] = f[b - 1] \o BondLines(b)
           /\ Probed = f[Len(Members)]
<1> DEFINE n == Len(Members)
           T == Seq(ProcLine)
           g == [b \in 1 .. n |-> [x \in T |-> x \o BondLines(b)]]
           Whole(f) == f = [b \in 0 .. n |-> IF b = 0 THEN <<>> ELSE f[b - 1] \o BondLines(b)]
           lines == CHOOSE f : Whole(f)
<1>1. n \in Nat /\ Bonds = 1 .. n
  BY MembersTypes
<1>2. g \in [1 .. n -> [T -> T]]
  <2>1. \A b \in 1 .. n : BondLines(b) \in T
    BY <1>1, FileLines
  <2>2. \A b \in 1 .. n, x \in T : x \o BondLines(b) \in T
    BY <2>1, ConcatProperties
  <2> QED
    BY <2>2
<1>3. ASSUME NEW b \in 1 .. n, NEW x \in T
      PROVE  g[b][x] = x \o BondLines(b)
  OBVIOUS
<1>4. Probed = lines[n]
  BY DEF Probed
<1>5. <<>> \in T
  OBVIOUS
<1> HIDE DEF n, g, T
<1>6. PICK f : IsRun(f, T, n, <<>>, g)
  BY <1>1, <1>2, <1>5, RunExists
<1>7. f \in [0 .. n -> T] /\ f[0] = <<>>
  BY <1>6 DEF IsRun
<1>8. ASSUME NEW b \in 1 .. n
      PROVE  f[b] = f[b - 1] \o BondLines(b)
  <2>1. f[b - 1] \in T
    BY <1>1, <1>7
  <2> QED
    BY <1>3, <1>6, <2>1 DEF IsRun
<1>9. Whole(lines)
  <2>1. ASSUME NEW b \in 0 .. n
        PROVE  f[b] = IF b = 0 THEN <<>> ELSE f[b - 1] \o BondLines(b)
    BY <1>1, <1>7, <1>8
  <2>2. Whole(f)
    BY <1>7, <2>1
  <2> QED
    BY <2>2
<1> HIDE DEF lines
<1>10. lines[n] = f[n]
  <2> DEFINE P == {b \in 0 .. n : lines[b] = f[b]}
  <2>1. 0 \in P /\ n \in 0 .. n
    BY <1>1, <1>7, <1>9
  <2>2. ASSUME NEW b \in 1 .. n, b - 1 \in P
        PROVE  b \in P
    <3>1. b \in 0 .. n /\ b # 0
      BY <1>1
    <3>2. lines[b] = lines[b - 1] \o BondLines(b)
      BY <1>9, <3>1, Zenon
    <3>3. lines[b - 1] = f[b - 1]
      BY <2>2
    <3>4. lines[b] = f[b]
      BY <1>8, <3>2, <3>3, Zenon
    <3> QED
      BY <3>1, <3>4
  <2> HIDE DEF P
  <2>3. 0 .. n \subseteq P
    BY <1>1, <2>1, <2>2, BoundedInduction
  <2> QED
    BY <2>1, <2>3 DEF P
<1>11. Probed = f[n]
  BY <1>4, <1>10
<1> QED
  BY <1>7, <1>8, <1>11 DEF n, T

(* parseBonds, on what grep prints: every bond with all its ports in order,  *)
(* each with its own status.                                                 *)
THEOREM ParsedAsProbed ==
    parseBonds(Probed) = [b \in Bonds |-> [i \in 1 .. Len(Members[b]) |-> Slave(Members[b][i])]]
<1> DEFINE n == Len(Members)
           Done(s, b) ==
               /\ s.slaves = [c \in Bonds |-> [j \in 1 .. IF c <= b THEN Len(Members[c]) ELSE 0
                                                  |-> Slave(Members[c][j])]]
               /\ s.current \in 0 .. b
<1>1. n \in Nat /\ Bonds = 1 .. n /\ \A c \in Bonds : Len(Members[c]) \in Nat
  BY MembersTypes
<1>2. PICK f : /\ f \in [0 .. n -> Seq(ProcLine)] /\ f[0] = <<>>
               /\ \A b \in 1 .. n : f[b] = f[b - 1] \o BondLines(b)
               /\ Probed = f[n]
  BY ProbedRun
<1> HIDE DEF n
<1>3. NothingRead \in ReadState
  <2>1. <<>> \in Seq([name : Vals, mii : Vals])
    OBVIOUS
  <2> QED
    BY <2>1 DEF NothingRead, ReadState
<1>4. ASSUME NEW s \in ReadState, NEW b \in 1 .. n, Done(s, b - 1)
      PROVE  Done(ReadLines(s, BondLines(b)), b)
  <2>1. HasRead(s, b, 0)
    <3>1. ASSUME NEW c \in Bonds
          PROVE  (IF c <= b - 1 THEN Len(Members[c]) ELSE 0) = ReadOf(c, b, 0)
      BY <1>1 DEF ReadOf
    <3>2. s.slaves = [c \in Bonds |-> [j \in 1 .. ReadOf(c, b, 0) |-> Slave(Members[c][j])]]
      BY <1>4, <3>1
    <3>3. s.current \in 0 .. b /\ s.current # b
      BY <1>1, <1>4
    <3> QED
      BY <3>2, <3>3 DEF HasRead
  <2> DEFINE t == ReadLines(s, BondLines(b))
  <2>2. HasRead(t, b, Len(Members[b]))
    BY <1>1, <2>1, FileIsRead
  <2> HIDE DEF t
  <2>3. ASSUME NEW c \in Bonds
        PROVE  (IF c <= b THEN Len(Members[c]) ELSE 0) = ReadOf(c, b, Len(Members[b]))
    BY <1>1 DEF ReadOf
  <2>4. Done(t, b)
    BY <2>2, <2>3 DEF HasRead
  <2> QED
    BY <2>4 DEF t
<1> DEFINE P == {b \in 0 .. n : Done(ReadLines(NothingRead, f[b]), b)}
<1>5. 0 \in P
  <2>1. ReadLines(NothingRead, f[0]) = NothingRead
    <3>1. <<>> \in Seq(ProcLine)
      OBVIOUS
    <3> QED
      BY <1>2, <1>3, <3>1, ReadConcat
  <2>2. Done(NothingRead, 0)
    <3>1. ASSUME NEW c \in Bonds
          PROVE  << >> = [j \in 1 .. IF c <= 0 THEN Len(Members[c]) ELSE 0 |-> Slave(Members[c][j])]
      BY <1>1
    <3> QED
      BY <3>1 DEF NothingRead, NoBond
  <2> QED
    BY <1>1, <2>1, <2>2
<1>6. ASSUME NEW b \in 1 .. n, b - 1 \in P
      PROVE  b \in P
  <2>1. f[b - 1] \in Seq(ProcLine) /\ BondLines(b) \in Seq(ProcLine)
    <3>1. b - 1 \in 0 .. n /\ b \in Bonds
      BY <1>1
    <3> QED
      BY <1>2, <3>1, FileLines
  <2>2. /\ ReadLines(NothingRead, f[b - 1]) \in ReadState
        /\ ReadLines(NothingRead, f[b]) =
              ReadLines(ReadLines(NothingRead, f[b - 1]), BondLines(b))
    <3>1. f[b] = f[b - 1] \o BondLines(b)
      BY <1>2
    <3> QED
      BY <1>3, <2>1, <3>1, ReadConcat
  <2>3. Done(ReadLines(NothingRead, f[b - 1]), b - 1)
    BY <1>6
  <2> HIDE DEF Done
  <2>4. Done(ReadLines(NothingRead, f[b]), b)
    BY <1>4, <2>2, <2>3
  <2> QED
    BY <2>4
<1>7. Done(ReadLines(NothingRead, Probed), n)
  <2> HIDE DEF P
  <2>1. 0 .. n \subseteq P
    BY <1>1, <1>5, <1>6, BoundedInduction
  <2>2. n \in P
    BY <1>1, <2>1
  <2> QED
    BY <1>2, <2>2 DEF P
<1> QED
  BY <1>1, <1>7 DEF parseBonds

(* What the skills learn from it. *)
LEMMA BondIsFound ==
    ASSUME NEW eth
    PROVE  findBondForSlave(Probed, eth) =
             UNION {{Slave(p) : p \in PortsOf(b)} : b \in {c \in Bonds : eth \in PortsOf(c)}}
<1> DEFINE bonds == parseBonds(Probed)
           own == {b \in Bonds : \E s \in Range(bonds[b]) : s.name = eth}
<1>1. ASSUME NEW b \in Bonds
      PROVE  Range(bonds[b]) = {Slave(p) : p \in PortsOf(b)}
  <2>1. bonds[b] = [i \in 1 .. Len(Members[b]) |-> Slave(Members[b][i])]
    BY ParsedAsProbed
  <2>2. DOMAIN Members[b] = 1 .. Len(Members[b])
    BY MembersTypes
  <2> HIDE DEF bonds
  <2>3. Range(bonds[b]) = {Slave(Members[b][i]) : i \in 1 .. Len(Members[b])}
    BY <2>1 DEF Range
  <2>4. PortsOf(b) = {Members[b][i] : i \in 1 .. Len(Members[b])}
    BY <2>2 DEF PortsOf, Range
  <2> QED
    BY <2>3, <2>4
<1> HIDE DEF bonds
<1>2. own = {c \in Bonds : eth \in PortsOf(c)}
  <2>1. \A p : Slave(p).name = p
    BY DEF Slave
  <2>2. ASSUME NEW b \in Bonds
        PROVE  (\E s \in Range(bonds[b]) : s.name = eth) <=> eth \in PortsOf(b)
    <3> HIDE DEF Slave
    <3> QED
      BY <1>1, <2>1
  <2> QED
    BY <2>2
<1>3. findBondForSlave(Probed, eth) = UNION {Range(bonds[b]) : b \in own}
  BY DEF findBondForSlave, bonds
<1> HIDE DEF own
<1>4. {Range(bonds[b]) : b \in own} = {{Slave(p) : p \in PortsOf(b)} : b \in own}
  BY <1>1, <1>2
<1> QED
  BY <1>2, <1>3, <1>4

\* A port may be taken down only if it is in a bond of which all ports are live, and
\* raised only if it is in a bond.
LEMMA Allowed ==
    ASSUME NEW eth
    PROVE  /\ UpAllowed(findBondForSlave(Probed, eth)) => eth \in Ports
           /\ DownAllowed(findBondForSlave(Probed, eth)) =>
                 /\ eth \in Ports
                 /\ \A b \in Bonds : eth \in PortsOf(b) => PortsOf(b) \subseteq Live
<1> DEFINE slaves == findBondForSlave(Probed, eth)
<1>1. slaves = UNION {{Slave(p) : p \in PortsOf(b)} : b \in {c \in Bonds : eth \in PortsOf(c)}}
  BY BondIsFound
<1> HIDE DEF slaves
<1>2. slaves # {} => eth \in Ports
  <2> SUFFICES ASSUME slaves # {}
               PROVE  eth \in Ports
    OBVIOUS
  <2>1. PICK b \in Bonds : eth \in PortsOf(b)
    BY <1>1
  <2> QED
    BY <2>1, MembersTypes
<1>3. ASSUME \A s \in slaves : s.mii = "up", NEW b \in Bonds, eth \in PortsOf(b),
             NEW p \in PortsOf(b)
      PROVE  p \in Live
  <2>1. Slave(p) \in slaves
    BY <1>1, <1>3
  <2>2. Slave(p).mii = "up"
    BY <1>3, <2>1
  <2>3. Slave(p).mii = Status(p \in Live)
    BY DEF Slave
  <2> QED
    BY <2>2, <2>3 DEF Status
<1>4. UpAllowed(slaves) => eth \in Ports
  BY <1>2 DEF UpAllowed
<1>5. DownAllowed(slaves) =>
        eth \in Ports /\ \A b \in Bonds : eth \in PortsOf(b) => PortsOf(b) \subseteq Live
  BY <1>2, <1>3 DEF DownAllowed
<1> QED
  BY <1>4, <1>5 DEF slaves

LEMMA PortsAreFinite == \A b \in Bonds : IsFiniteSet(PortsOf(b))
<1> TAKE b \in Bonds
<1>1. DOMAIN Members[b] = 1 .. Len(Members[b]) /\ Len(Members[b]) \in Nat
  BY MembersTypes
<1>2. IsFiniteSet(1 .. Len(Members[b]))
  BY <1>1, FS_Interval
<1>3. [i \in 1 .. Len(Members[b]) |-> Members[b][i]] \in Surjection(1 .. Len(Members[b]), PortsOf(b))
  BY <1>1 DEF PortsOf, Range, Surjection
<1> QED
  BY <1>2, <1>3, FS_Surjection
--------------------------------------------------------------------------
(* The commands. *)

\* A command that acts does so on a port of a bond.
Placed == \A c \in Commands : pc[c] = "execute" => req[c].eth \in Ports

LEMMA PortsTypeStep ==
    ASSUME TypeOK, Placed, [Next]_vars
    PROVE  TypeOK' /\ Placed'
<1> USE DEF TypeOK, Placed
<1>1. CASE UNCHANGED vars
  BY <1>1 DEF vars
<1>2. ASSUME NEW p \in Ports, LinkFails(p) \/ LinkRecovers(p)
      PROVE  TypeOK' /\ Placed'
  <2>1. /\ linked' \subseteq Ports /\ UNCHANGED <<enabled, pc, req, taken>>
    BY <1>2 DEF LinkFails, LinkRecovers
  <2>2. lost' \subseteq Commands
    BY <1>2 DEF LinkFails, LinkRecovers, Unaware
  <2> QED
    BY <2>1, <2>2
<1>3. ASSUME NEW c \in Commands, Command(c)
      PROVE  TypeOK' /\ Placed'
  <2>1. NoReq \in Req
    BY DEF NoReq, Req, Ops
  <2>2. Over(c) => /\ pc' = [pc EXCEPT ![c] = "idle"] /\ req' \in [Commands -> Req]
                   /\ lost' \subseteq Commands
                   /\ \A d \in Commands : pc'[d] = "execute" => pc[d] = "execute" /\ req'[d] = req[d]
    BY <2>1 DEF Over
  <2>3. CASE Ask(c)
    BY <2>3 DEF Ask
  <2>4. CASE SessionFails(c)
    BY <2>2, <2>4 DEF SessionFails
  <2>5. ASSUME NEW allowed, Decide(c, allowed), allowed => req[c].eth \in Ports
        PROVE  TypeOK' /\ Placed'
    <3>1. CASE Over(c)
      BY <2>2, <2>5, <3>1 DEF Decide
    <3>2. CASE allowed /\ pc' = [pc EXCEPT ![c] = "execute"] /\ UNCHANGED <<req, lost>>
      BY <2>5, <3>2 DEF Decide
    <3> QED
      BY <2>5, <3>1, <3>2 DEF Decide
  <2>6. CASE NICDownProbe(c) \/ NICUpProbe(c)
    BY <2>5, <2>6, Allowed DEF NICDownProbe, NICUpProbe
  <2>7. CASE NICDownExecute(c)
    <3>1. req[c].eth \in Ports /\ \A b \in Bonds : Unaware(b) \subseteq Commands
      BY <2>7 DEF NICDownExecute, Unaware
    <3> QED
      BY <2>1, <2>7, <3>1 DEF NICDownExecute, Unaware
  <2>8. CASE NICUpExecute(c)
    BY <2>2, <2>8 DEF NICUpExecute
  <2> QED
    BY <1>3, <2>3, <2>4, <2>6, <2>7, <2>8 DEF Command
<1> QED
  BY <1>1, <1>2, <1>3 DEF Next

LEMMA PortsTypeInit == Init => TypeOK /\ Placed
  BY DEF Init, TypeOK, Placed, NoReq, Req, Ops

(* What is asked of the ports and what they are has its type, for any bonds and *)
(* any number of commands at once; a command acts only on a port of a bond.     *)
THEOREM BondPortsTypeCorrect == Spec => [](TypeOK /\ Placed)
<1>1. TypeOK /\ Placed /\ [Next]_vars => (TypeOK /\ Placed)'
  BY PortsTypeStep
<1> QED
  BY <1>1, PortsTypeInit, PTL DEF Spec

(* A command that was allowed to take a port down adds one to the ports taken *)
(* only if it was counted as pending; and it is allowed only when none of its *)
(* bond is taken.                                                             *)

TakenAreDown == taken \cap enabled = {}

Load(b) == Cardinality(taken \cap PortsOf(b)) + Cardinality(Pending(b))

LEMMA LoadTypes ==
    ASSUME TypeOK, NEW b \in Bonds
    PROVE  /\ IsFiniteSet(taken \cap PortsOf(b)) /\ Cardinality(taken \cap PortsOf(b)) \in Nat
           /\ IsFiniteSet(Pending(b)) /\ Cardinality(Pending(b)) \in Nat
           /\ Cardinality(Pending(b)) <= Cardinality(Commands)
           /\ Cardinality(Commands) \in Nat
<1>1. IsFiniteSet(taken \cap PortsOf(b))
  <2>1. IsFiniteSet(PortsOf(b)) /\ taken \cap PortsOf(b) \in SUBSET PortsOf(b)
    BY PortsAreFinite
  <2> QED
    BY <2>1, FS_Subset
<1>2. IsFiniteSet(Pending(b)) /\ Cardinality(Pending(b)) <= Cardinality(Commands)
  <2>1. IsFiniteSet(Commands) /\ Pending(b) \in SUBSET Commands
    BY MembersAssumption DEF Pending, Unaware
  <2> QED
    BY <2>1, FS_Subset
<1> QED
  BY <1>1, <1>2, MembersAssumption, FS_CardinalityType

\* Fewer taken and fewer pending are no more load.
LEMMA LoadShrinks ==
    ASSUME TypeOK, NEW b \in Bonds,
           taken' \cap PortsOf(b) \subseteq taken \cap PortsOf(b), Pending(b)' \subseteq Pending(b)
    PROVE  Load(b)' <= Load(b)
<1> DEFINE A == taken \cap PortsOf(b)
           A1 == taken' \cap PortsOf(b)
           B == Pending(b)
           B1 == Pending(b)'
<1>1. IsFiniteSet(A) /\ IsFiniteSet(B)
  BY LoadTypes
<1>2. A1 \in SUBSET A /\ B1 \in SUBSET B
  OBVIOUS
<1>3. Load(b)' = Cardinality(A1) + Cardinality(B1) /\ Load(b) = Cardinality(A) + Cardinality(B)
  BY DEF Load
<1> HIDE DEF A, A1, B, B1
<1>4. Cardinality(A1) <= Cardinality(A) /\ Cardinality(B1) <= Cardinality(B)
  BY <1>1, <1>2, FS_Subset
<1>5. IsFiniteSet(A1) /\ IsFiniteSet(B1)
  BY <1>1, <1>2, FS_Subset
<1>6. /\ Cardinality(A) \in Nat /\ Cardinality(A1) \in Nat
      /\ Cardinality(B) \in Nat /\ Cardinality(B1) \in Nat
  BY <1>1, <1>5, FS_CardinalityType
<1> QED
  BY <1>3, <1>4, <1>6

\* The command that acts takes one port and is pending no more.
LEMMA ExecuteKeepsLoad ==
    ASSUME TypeOK, NEW b \in Bonds, NEW c \in Commands, NICDownExecute(c)
    PROVE  Load(b)' <= Load(b)
<1> DEFINE eth == req[c].eth
<1>1. /\ taken' = taken \cup {eth} /\ pc' = [pc EXCEPT ![c] = "idle"]
      /\ req' = [req EXCEPT ![c] = NoReq] /\ pc[c] = "execute" /\ req[c].op = "down"
  BY DEF NICDownExecute
<1>2. Pending(b)' = Pending(b) \ {c}
  BY <1>1 DEF Pending, Unaware, TypeOK
<1>3. CASE eth \notin PortsOf(b)
  BY <1>1, <1>2, <1>3, LoadShrinks
<1>4. CASE eth \in PortsOf(b)
  <2> DEFINE A == taken \cap PortsOf(b)
             B == Pending(b)
  <2>1. c \in B
    BY <1>1, <1>4 DEF Pending, Unaware
  <2>2. taken' \cap PortsOf(b) = A \cup {eth}
    BY <1>1, <1>4
  <2>3. IsFiniteSet(A) /\ IsFiniteSet(B) /\ Cardinality(A) \in Nat /\ Cardinality(B) \in Nat
    BY LoadTypes
  <2>4. Load(b)' = Cardinality(A \cup {eth}) + Cardinality(B \ {c})
    BY <1>2, <2>2 DEF Load
  <2>5. Load(b) = Cardinality(A) + Cardinality(B)
    BY DEF Load
  <2> HIDE DEF A, B
  <2>6. Cardinality(A \cup {eth}) = IF eth \in A THEN Cardinality(A) ELSE Cardinality(A) + 1
    BY <2>3, FS_AddElement
  <2>7. Cardinality(B \ {c}) = Cardinality(B) - 1
    BY <2>1, <2>3, FS_RemoveElement
  <2> QED
    BY <2>3, <2>4, <2>5, <2>6, <2>7
<1> QED
  BY <1>3, <1>4

LEMMA TakenAreDownStep ==
    ASSUME TakenAreDown, [Next]_vars
    PROVE  TakenAreDown'
<1> USE DEF TakenAreDown
<1>1. CASE UNCHANGED <<enabled, taken>>
  BY <1>1
<1>2. ASSUME NEW p, LinkFails(p) \/ LinkRecovers(p)
      PROVE  UNCHANGED <<enabled, taken>>
  BY <1>2 DEF LinkFails, LinkRecovers
<1>3. ASSUME NEW c, Command(c)
      PROVE  TakenAreDown'
  <2>1. CASE NICDownExecute(c)
    BY <2>1 DEF NICDownExecute
  <2>2. CASE NICUpExecute(c)
    BY <2>2 DEF NICUpExecute
  <2>3. CASE Ask(c) \/ SessionFails(c) \/ NICDownProbe(c) \/ NICUpProbe(c)
    BY <2>3 DEF Ask, SessionFails, NICDownProbe, NICUpProbe, Decide
  <2> QED
    BY <1>3, <2>1, <2>2, <2>3 DEF Command
<1> QED
  BY <1>1, <1>2, <1>3 DEF Next, vars

LEMMA TakenBoundedStep ==
    ASSUME TypeOK, TypeOK', TakenAreDown, TakenBounded, [Next]_vars
    PROVE  TakenBounded'
<1> DEFINE N == Cardinality(Commands)
<1> SUFFICES ASSUME NEW b \in Bonds
             PROVE  Load(b)' <= N
  BY DEF TakenBounded, Load
<1>1. Load(b) <= N /\ Load(b) \in Nat /\ Load(b)' \in Nat /\ N \in Nat
  <2>1. Load(b) <= N
    BY DEF TakenBounded, Load
  <2>2. Load(b) \in Nat /\ N \in Nat
    BY LoadTypes DEF Load
  <2>3. Load(b)' \in Nat
    <3>1. IsFiniteSet(taken' \cap PortsOf(b)) /\ IsFiniteSet(Pending(b)')
      <4>1. /\ taken' \cap PortsOf(b) \in SUBSET PortsOf(b) /\ Pending(b)' \in SUBSET Commands
            /\ IsFiniteSet(PortsOf(b)) /\ IsFiniteSet(Commands)
        BY PortsAreFinite, MembersAssumption DEF Pending, Unaware
      <4> QED
        BY <4>1, FS_Subset
    <3>2. Cardinality(taken' \cap PortsOf(b)) \in Nat /\ Cardinality(Pending(b)') \in Nat
      BY <3>1, FS_CardinalityType
    <3> QED
      BY <3>2 DEF Load
  <2> QED
    BY <2>1, <2>2, <2>3
<1>2. ASSUME taken' \subseteq taken, Pending(b)' \subseteq Pending(b)
      PROVE  Load(b)' <= N
  <2>1. Load(b)' <= Load(b)
    BY <1>2, LoadShrinks
  <2> QED
    BY <1>1, <2>1
<1>3. CASE UNCHANGED vars
  BY <1>2, <1>3 DEF vars, Pending, Unaware
<1>4. ASSUME NEW p \in Ports, LinkFails(p) \/ LinkRecovers(p)
      PROVE  Load(b)' <= N
  <2>1. UNCHANGED <<pc, req, taken>>
    BY <1>4 DEF LinkFails, LinkRecovers
  <2> QED
    BY <1>2, <2>1 DEF Pending, Unaware
<1>5. ASSUME NEW c \in Commands, Command(c)
      PROVE  Load(b)' <= N
  <2>1. CASE Ask(c) \/ SessionFails(c) \/ NICUpExecute(c)
    <3>1. /\ taken' \subseteq taken /\ pc'[c] # "execute"
          /\ \A d \in Commands \ {c} : pc'[d] = pc[d] /\ req'[d] = req[d]
      BY <2>1 DEF Ask, SessionFails, NICUpExecute, Over, TypeOK
    <3>2. Pending(b)' \subseteq Pending(b)
      BY <3>1 DEF Pending, Unaware
    <3> QED
      BY <1>2, <3>1, <3>2
  <2>2. CASE NICUpProbe(c)
    <3>1. /\ taken' = taken /\ req[c].op = "up" /\ req'[c].op = "up"
          /\ \A d \in Commands \ {c} : pc'[d] = pc[d] /\ req'[d] = req[d]
      BY <2>2 DEF NICUpProbe, Decide, Over, NoReq, TypeOK
    <3>2. Pending(b)' \subseteq Pending(b)
      BY <3>1 DEF Pending, Unaware
    <3> QED
      BY <1>2, <3>1, <3>2
  <2>3. CASE NICDownProbe(c)
    <3>1. taken' = taken /\ enabled' = enabled
          /\ \A d \in Commands \ {c} : pc'[d] = pc[d] /\ req'[d] = req[d]
      BY <2>3 DEF NICDownProbe, Decide, Over, TypeOK
    <3>2. CASE c \notin Pending(b)'
      <4>1. Pending(b)' \subseteq Pending(b)
        BY <3>1, <3>2 DEF Pending, Unaware
      <4> QED
        BY <1>2, <3>1, <4>1
    <3>3. CASE c \in Pending(b)'
      <4>1. pc'[c] = "execute" /\ req'[c].eth \in PortsOf(b)
        BY <3>3 DEF Pending, Unaware
      <4>2. DownAllowed(findBondForSlave(Probed, req[c].eth)) /\ req' = req
        BY <2>3, <4>1 DEF NICDownProbe, Decide, Over, TypeOK
      <4>3. PortsOf(b) \subseteq enabled
        BY <4>1, <4>2, Allowed DEF Live
      <4>4. taken' \cap PortsOf(b) = {}
        BY <3>1, <4>3 DEF TakenAreDown
      <4>5. Cardinality(taken' \cap PortsOf(b)) = 0
        BY <4>4, FS_EmptySet
      <4>6. Pending(b)' \in SUBSET Commands
        BY DEF Pending, Unaware
      <4>7. Cardinality(Pending(b)') <= N
        BY <4>6, MembersAssumption, FS_Subset
      <4>8. Cardinality(Pending(b)') \in Nat
        BY <4>6, MembersAssumption, FS_Subset, FS_CardinalityType
      <4>9. Load(b)' = Cardinality(taken' \cap PortsOf(b)) + Cardinality(Pending(b)')
        BY DEF Load
      <4> QED
        BY <4>5, <4>7, <4>8, <4>9
    <3> QED
      BY <3>2, <3>3
  <2>4. CASE NICDownExecute(c)
    <3>1. Load(b)' <= Load(b)
      BY <2>4, ExecuteKeepsLoad
    <3> QED
      BY <1>1, <3>1
  <2> QED
    BY <1>5, <2>1, <2>2, <2>3, <2>4 DEF Command
<1> QED
  BY <1>3, <1>4, <1>5 DEF Next

LEMMA TakenBoundedInit == Init => TakenAreDown /\ TakenBounded
<1> SUFFICES ASSUME Init
             PROVE  TakenAreDown /\ TakenBounded
  OBVIOUS
<1>1. TypeOK
  BY PortsTypeInit
<1>2. TakenAreDown
  BY DEF Init, TakenAreDown
<1>3. ASSUME NEW b \in Bonds
      PROVE  Cardinality(taken \cap PortsOf(b)) + Cardinality(Pending(b)) <= Cardinality(Commands)
  <2>1. taken \cap PortsOf(b) = {}
    BY DEF Init
  <2>2. Cardinality(taken \cap PortsOf(b)) = 0
    BY <2>1, FS_EmptySet
  <2> QED
    BY <1>1, <2>2, LoadTypes
<1> QED
  BY <1>2, <1>3 DEF TakenBounded

(* With n commands at once the bot never has more than n ports of a bond down, *)
(* or about to be, whatever links fail between its two sessions.               *)
THEOREM TakenIsBounded == Spec => []TakenBounded
<1>1. TypeOK /\ Placed /\ TakenAreDown /\ TakenBounded /\ [Next]_vars
        => (TypeOK /\ Placed /\ TakenAreDown /\ TakenBounded)'
  BY PortsTypeStep, TakenAreDownStep, TakenBoundedStep
<1> QED
  BY <1>1, PortsTypeInit, TakenBoundedInit, PTL DEF Spec

(* The last good link: a command that may act, and whose bond has lost no link *)
(* since it read it, still finds all ports of the bond live.                   *)

Assured ==
    \A c \in Commands \ lost, b \in Bonds :
        pc[c] = "execute" /\ req[c].op = "down" /\ req[c].eth \in PortsOf(b)
        => PortsOf(b) \subseteq Live

LEMMA BondOfPort ==
    ASSUME NEW b \in Bonds, NEW p \in PortsOf(b)
    PROVE  BondOf(p) = b
<1>1. \A c \in Bonds : p \in PortsOf(c) => c = b
  <2>1. \A c, d \in Bonds : c # d => PortsOf(c) \cap PortsOf(d) = {}
    BY MembersAssumption
  <2> QED
    BY <2>1
<1> QED
  BY <1>1 DEF BondOf

\* A port that is no longer live is noted by all others that have read its bond.
LEMMA LossIsNoted ==
    ASSUME Assured, NEW gone, NEW doer, Live \ {gone} \subseteq Live',
           gone \in Live => Unaware(BondOf(gone)) \ doer \subseteq lost'
    PROVE  \A c \in Commands \ (lost \cup lost' \cup doer), b \in Bonds :
               pc[c] = "execute" /\ req[c].op = "down" /\ req[c].eth \in PortsOf(b)
               => PortsOf(b) \subseteq Live'
<1> SUFFICES ASSUME NEW c \in Commands \ (lost \cup lost' \cup doer), NEW b \in Bonds,
                    pc[c] = "execute", req[c].op = "down", req[c].eth \in PortsOf(b)
             PROVE  PortsOf(b) \subseteq Live'
  OBVIOUS
<1>1. PortsOf(b) \subseteq Live
  BY DEF Assured
<1>2. gone \notin PortsOf(b)
  <2> SUFFICES ASSUME gone \in PortsOf(b)
               PROVE  FALSE
    OBVIOUS
  <2>1. BondOf(gone) = b /\ gone \in Live
    BY <1>1, BondOfPort
  <2>2. c \in Unaware(BondOf(gone))
    BY <2>1 DEF Unaware
  <2> QED
    BY <2>1, <2>2
<1> QED
  BY <1>1, <1>2

LEMMA AssuredStep ==
    ASSUME TypeOK, Assured, [Next]_vars
    PROVE  Assured'
<1>1. CASE UNCHANGED vars
  BY <1>1 DEF vars, Assured, Live
<1>2. ASSUME NEW p \in Ports, LinkFails(p)
      PROVE  Assured'
  <2>1. /\ Live \ {p} \subseteq Live' /\ Unaware(BondOf(p)) \ {} \subseteq lost'
        /\ lost \subseteq lost' /\ pc' = pc /\ req' = req
    BY <1>2 DEF LinkFails, Live
  <2> QED
    BY <2>1, LossIsNoted DEF Assured
<1>3. ASSUME NEW p \in Ports, LinkRecovers(p)
      PROVE  Assured'
  <2>1. Live \subseteq Live' /\ pc' = pc /\ req' = req /\ lost' = lost
    BY <1>3 DEF LinkRecovers, Live
  <2> QED
    BY <2>1 DEF Assured
<1>4. ASSUME NEW c \in Commands, Command(c)
      PROVE  Assured'
  <2>1. CASE Ask(c) \/ SessionFails(c) \/ NICUpExecute(c)
    <3>1. /\ Live \subseteq Live' /\ pc'[c] # "execute" /\ lost \ {c} \subseteq lost'
          /\ \A d \in Commands \ {c} : pc'[d] = pc[d] /\ req'[d] = req[d]
      BY <2>1 DEF Ask, SessionFails, NICUpExecute, Over, TypeOK, Live
    <3> QED
      BY <3>1 DEF Assured
  <2>2. CASE NICUpProbe(c)
    <3>1. /\ Live' = Live /\ req'[c].op = "up" /\ lost \ {c} \subseteq lost'
          /\ \A d \in Commands \ {c} : pc'[d] = pc[d] /\ req'[d] = req[d]
      BY <2>2 DEF NICUpProbe, Decide, Over, NoReq, TypeOK, Live
    <3> QED
      BY <3>1 DEF Assured
  <2>3. CASE NICDownProbe(c)
    <3>1. /\ Live' = Live /\ lost \ {c} \subseteq lost'
          /\ \A d \in Commands \ {c} : pc'[d] = pc[d] /\ req'[d] = req[d]
      BY <2>3 DEF NICDownProbe, Decide, Over, TypeOK, Live
    <3>2. pc'[c] = "execute" =>
            /\ req' = req
            /\ \A b \in Bonds : req[c].eth \in PortsOf(b) => PortsOf(b) \subseteq Live
      <4> SUFFICES ASSUME pc'[c] = "execute"
                   PROVE  /\ req' = req
                          /\ \A b \in Bonds : req[c].eth \in PortsOf(b) => PortsOf(b) \subseteq Live
        OBVIOUS
      <4>1. DownAllowed(findBondForSlave(Probed, req[c].eth)) /\ req' = req
        BY <2>3 DEF NICDownProbe, Decide, Over, TypeOK
      <4> QED
        BY <4>1, Allowed
    <3> QED
      BY <3>1, <3>2 DEF Assured
  <2>4. CASE NICDownExecute(c)
    <3> DEFINE eth == req[c].eth
    <3>1. /\ Live \ {eth} \subseteq Live' /\ pc'[c] # "execute" /\ lost \ {c} \subseteq lost'
          /\ \A d \in Commands \ {c} : pc'[d] = pc[d] /\ req'[d] = req[d]
          /\ eth \in Live => Unaware(BondOf(eth)) \ {c} \subseteq lost'
      BY <2>4 DEF NICDownExecute, TypeOK, Live
    <3> HIDE DEF eth
    <3>2. \A d \in Commands \ (lost \cup lost' \cup {c}), b \in Bonds :
             pc[d] = "execute" /\ req[d].op = "down" /\ req[d].eth \in PortsOf(b)
             => PortsOf(b) \subseteq Live'
      BY <3>1, LossIsNoted
    <3> QED
      BY <3>1, <3>2 DEF Assured
  <2> QED
    BY <1>4, <2>1, <2>2, <2>3, <2>4 DEF Command
<1> QED
  BY <1>1, <1>2, <1>3, <1>4 DEF Next

(* A command takes the last good link of a bond only if the bond has no other *)
(* port or has lost a link since the command read it, for any bonds.          *)
THEOREM LastLink == Spec => LastLinkGuarded
<1> DEFINE Guarded ==
        \A c \in Commands : \A b \in Bonds :
            /\ NICDownExecute(c) /\ req[c].eth \in PortsOf(b)
            /\ PortsOf(b) \cap Live # {} /\ PortsOf(b) \cap Live' = {}
            => Cardinality(PortsOf(b)) = 1 \/ c \in lost
<1>1. TypeOK /\ Placed /\ Assured /\ [Next]_vars => (TypeOK /\ Placed /\ Assured)'
  BY PortsTypeStep, AssuredStep
<1>2. Init => Assured
  BY DEF Init, Assured
<1>3. Assured => Guarded
  <2> SUFFICES ASSUME Assured, NEW c \in Commands \ lost, NEW b \in Bonds,
                      NICDownExecute(c), req[c].eth \in PortsOf(b), PortsOf(b) \cap Live' = {}
               PROVE  Cardinality(PortsOf(b)) = 1
    OBVIOUS
  <2>1. PortsOf(b) \subseteq Live
    BY DEF Assured, NICDownExecute
  <2>2. Live \ {req[c].eth} \subseteq Live'
    BY DEF NICDownExecute, Live
  <2>3. PortsOf(b) = {req[c].eth}
    BY <2>1, <2>2
  <2> QED
    BY <2>3, FS_Singleton
<1>4. [][Guarded]_vars => LastLinkGuarded
  BY PTL DEF LastLinkGuarded
<1> QED
  BY <1>1, <1>2, <1>3, <1>4, PortsTypeInit, PTL DEF Spec
==========================================================================
