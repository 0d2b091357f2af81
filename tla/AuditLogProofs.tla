------------------------- MODULE AuditLogProofs -------------------------
(* The ring buffer implements the audit trail, for every size of the ring,   *)
(* every set of entries and every number a reader may ask for.               *)
EXTENDS AuditLog, SequenceTheorems, TLAPS

\* An index within one turn of the ring, without the modulus: this is all the
\* proofs below use of `%' (audit.go:68,86,92).
LEMMA ModOneTurn ==
    ASSUME NEW k \in Int, 0 <= k, k < 2 * MaxSize
    PROVE  k % MaxSize = IF k < MaxSize THEN k ELSE k - MaxSize
<1>1. MaxSize \in Nat /\ MaxSize > 0
  BY SizeAssumption
<1>2. k = MaxSize * (k \div MaxSize) + (k % MaxSize) /\ 0 <= k % MaxSize /\ k % MaxSize < MaxSize
  BY <1>1
<1>3. k \div MaxSize \in Int
  BY <1>1
<1>4. k \div MaxSize < 2
  BY <1>1, <1>2, <1>3
<1>5. k \div MaxSize > -1
  BY <1>1, <1>2, <1>3
<1>6. CASE k \div MaxSize = 0
  BY <1>1, <1>2, <1>6
<1>7. CASE k \div MaxSize = 1
  BY <1>1, <1>2, <1>7
<1> QED
  BY <1>3, <1>4, <1>5, <1>6, <1>7
--------------------------------------------------------------------------
(* Type correctness. *)

Inv == TypeOK /\ RingShape

(* InOrder is a sequence of entries, read from consecutive slots.           *)
InOrderShape ==
    /\ InOrder \in Seq(Entries)
    /\ Len(InOrder) = count
    /\ \A i \in 1 .. count :
          InOrder[i] = buf[IF head + i - 1 < MaxSize THEN head + i - 1
                                                     ELSE head + i - 1 - MaxSize]

(* The slots it reads are slots in use.                                      *)
LEMMA InOrderType == Inv => InOrderShape
<1> USE SizeAssumption
<1> SUFFICES ASSUME Inv PROVE InOrderShape
  OBVIOUS
<1>1. ASSUME NEW i \in 1 .. count
      PROVE  /\ buf[(head + i - 1) % MaxSize] \in Entries
             /\ (head + i - 1) % MaxSize =
                    IF head + i - 1 < MaxSize THEN head + i - 1 ELSE head + i - 1 - MaxSize
  <2> DEFINE k == head + i - 1
  <2>1. k \in Int /\ 0 <= k /\ k < 2 * MaxSize
    BY DEF Inv, TypeOK, Slots
  <2>2. k < head + count /\ k >= head
    BY DEF Inv, TypeOK, Slots
  <2> HIDE DEF k
  <2>3. k % MaxSize = IF k < MaxSize THEN k ELSE k - MaxSize
    BY <2>1, ModOneTurn
  <2>4. k % MaxSize \in Slots /\ k % MaxSize < count
    BY <2>1, <2>2, <2>3 DEF Inv, TypeOK, RingShape, Slots
  <2>5. buf[k % MaxSize] \in Entries
    BY <2>4 DEF Inv, TypeOK, RingShape
  <2>6. head \in Int /\ i \in Int /\ MaxSize \in Int
    BY DEF Inv, TypeOK, Slots
  <2> QED
    BY <2>3, <2>5, <2>6 DEF k
<1>2. count \in Nat
  BY DEF Inv, TypeOK
<1> QED
  BY <1>1, <1>2 DEF InOrder, InOrderShape

(* The same of the next state.                                               *)
LEMMA InOrderTypeNext == Inv' => InOrderShape'
BY InOrderType, PTL

(* The m slots Recent copies hold the last m entries (audit.go:84-93).        *)
LEMMA CopiedIsTail ==
    ASSUME Inv, NEW m \in 1 .. count
    PROVE  \A i \in 1 .. m : buf[(From(m) + i - 1) % MaxSize] = InOrder[count - m + i]
<1> USE SizeAssumption
<1>1. count \in Nat /\ head \in Nat /\ count <= MaxSize /\ head < MaxSize
  BY DEF Inv, TypeOK, Slots
<1>2. PICK f \in Int : f = From(m) /\ f = (IF head + count - m < MaxSize
                                            THEN head + count - m
                                            ELSE head + count - m - MaxSize)
  <2>1. CASE count < MaxSize
    BY <1>1, <2>1 DEF From, Inv, RingShape
  <2>2. CASE count = MaxSize
    <3>1. head + count - m \in Int /\ 0 <= head + count - m /\ head + count - m < 2 * MaxSize
      BY <1>1, <2>2
    <3>2. From(m) = (head + count - m) % MaxSize
      BY <1>1, <2>2 DEF From
    <3> QED
      BY <1>1, <3>1, <3>2, ModOneTurn
  <2> QED
    BY <1>1, <2>1, <2>2
<1>3. ASSUME NEW i \in 1 .. m
      PROVE  buf[(f + i - 1) % MaxSize] = InOrder[count - m + i]
  <2>1. f + i - 1 \in Int /\ 0 <= f + i - 1 /\ f + i - 1 < 2 * MaxSize
    BY <1>1, <1>2
  <2>2. (f + i - 1) % MaxSize = IF f + i - 1 < MaxSize THEN f + i - 1 ELSE f + i - 1 - MaxSize
    BY <2>1, ModOneTurn
  <2>3. PICK j \in 1 .. count : j = count - m + i
    BY <1>1
  <2>4. InOrder[j] = buf[IF head + j - 1 < MaxSize THEN head + j - 1 ELSE head + j - 1 - MaxSize]
    BY InOrderType DEF InOrderShape
  <2>5. (IF head + j - 1 < MaxSize THEN head + j - 1 ELSE head + j - 1 - MaxSize)
           = (f + i - 1) % MaxSize
    BY <1>1, <1>2, <2>2, <2>3
  <2> QED
    BY <2>3, <2>4, <2>5
<1> QED
  BY <1>2, <1>3

(* What Recent returns is the tail of InOrder (audit.go:75-94).              *)
LEMMA RecentIsTail ==
    ASSUME Inv, NEW n \in Requests, Recent(n)
    PROVE  /\ result' = Trail!LastOf(InOrder, n)
           /\ result' \in Seq(Entries)
<1>1. n \in Int /\ count \in Nat
  BY RequestAssumption DEF Inv, TypeOK
<1>2. Clamped(n) = (IF n > count THEN count ELSE n) /\ Clamped(n) \in Int
  BY <1>1 DEF Clamped
<1>3. CASE Clamped(n) <= 0
  <2>1. result' = << >>
    BY <1>3 DEF Recent
  <2>2. n <= 0 \/ count = 0
    BY <1>1, <1>2, <1>3
  <2>3. count = 0 => InOrder = << >>
    BY InOrderType DEF InOrderShape
  <2> QED
    BY <1>1, <2>1, <2>2, <2>3, InOrderType DEF Trail!LastOf, InOrderShape
<1>4. CASE Clamped(n) > 0
  <2>1. PICK m \in 1 .. count : m = Clamped(n) /\ m = (IF n > count THEN count ELSE n)
    BY <1>1, <1>2, <1>4
  <2>2. result' = [i \in 1 .. m |-> buf[(From(m) + i - 1) % MaxSize]]
    BY <1>1, <2>1 DEF Recent
  <2>3. result' = [i \in 1 .. m |-> InOrder[count - m + i]]
    BY <2>2, CopiedIsTail
  <2>4. \A i \in 1 .. m : InOrder[count - m + i] \in Entries
    BY <1>1, InOrderType DEF InOrderShape
  <2>5. result' \in Seq(Entries) /\ Len(result') = m /\ m \in Nat
    BY <1>1, <2>3, <2>4
  <2>6. CASE n >= count
    <3>1. m = count /\ Trail!LastOf(InOrder, n) = InOrder
      BY <1>1, <2>1, <2>6, InOrderType DEF Trail!LastOf, InOrderShape
    <3>2. \A i \in 1 .. m : result'[i] = InOrder[i]
      BY <1>1, <2>3, <3>1
    <3> QED
      BY <2>5, <3>1, <3>2, InOrderType, SeqEqual DEF InOrderShape
  <2>7. CASE n < count
    <3>1. /\ m = n
          /\ Trail!LastOf(InOrder, n) = SubSeq(InOrder, count - m + 1, count)
      <4>1. m = n /\ n > 0 /\ Len(InOrder) = count
        BY <1>1, <2>1, <2>7, InOrderType DEF InOrderShape
      <4> QED
        BY <1>1, <2>7, <4>1 DEF Trail!LastOf
    <3>2. PICK first \in 1 .. count + 1 : first = count - m + 1
      BY <1>1
    <3>3. /\ SubSeq(InOrder, first, count) \in Seq(Entries)
          /\ Len(SubSeq(InOrder, first, count)) = IF first <= count THEN count - first + 1 ELSE 0
          /\ \A i \in 1 .. count - first + 1 :
                SubSeq(InOrder, first, count)[i] = InOrder[first + i - 1]
      BY <1>1, InOrderType, SubSeqProperties DEF InOrderShape
    <3>4. Len(SubSeq(InOrder, first, count)) = m
      BY <1>1, <3>2, <3>3
    <3>5. ASSUME NEW i \in 1 .. m
          PROVE  SubSeq(InOrder, first, count)[i] = result'[i]
      <4>1. i \in 1 .. count - first + 1 /\ first + i - 1 = count - m + i
        BY <1>1, <3>2
      <4> QED
        BY <2>3, <3>3, <4>1
    <3> QED
      BY <2>5, <3>1, <3>2, <3>3, <3>4, <3>5, SeqEqual
  <2> QED
    BY <1>1, <2>5, <2>6, <2>7
<1> QED
  BY <1>2, <1>3, <1>4
--------------------------------------------------------------------------
(* Record. *)

(* A record while the buffer fills (audit.go:59-63).                         *)
LEMMA RecordFills ==
    ASSUME Inv, NEW e \in Entries, Record(e), count < MaxSize
    PROVE  Inv' /\ InOrder' = Trail!LastOf(Append(InOrder, e), MaxSize)
<1> USE SizeAssumption
<1>1. /\ count \in Slots /\ count' = count + 1 /\ head' = head /\ head = 0
      /\ buf' = [buf EXCEPT ![count] = e] /\ result' = result
  BY DEF Record, Inv, TypeOK, RingShape, Slots
<1>2. TypeOK'
  BY <1>1 DEF Inv, TypeOK, Slots
<1>3. RingShape'
  <2>1. ASSUME NEW i \in Slots
        PROVE  buf'[i] # Empty <=> i < count'
    <3>1. CASE i = count
      BY <1>1, <3>1, EmptyAssumption DEF Inv, TypeOK, Slots
    <3>2. CASE i # count
      BY <1>1, <3>2 DEF Inv, TypeOK, RingShape, Slots
    <3> QED
      BY <3>1, <3>2
  <2> QED
    BY <1>1, <2>1 DEF RingShape
<1>4. Inv'
  BY <1>2, <1>3 DEF Inv
<1>5. /\ Append(InOrder, e) \in Seq(Entries)
      /\ Len(Append(InOrder, e)) = count + 1
      /\ \A i \in 1 .. count : Append(InOrder, e)[i] = InOrder[i]
      /\ Append(InOrder, e)[count + 1] = e
  BY InOrderType, AppendProperties DEF InOrderShape
<1>6. Trail!LastOf(Append(InOrder, e), MaxSize) = Append(InOrder, e)
  <2>1. MaxSize >= count + 1 /\ ~ (MaxSize <= 0)
    BY <1>1 DEF Slots
  <2> QED
    BY <1>5, <2>1 DEF Trail!LastOf
<1>7. /\ InOrder' \in Seq(Entries)
      /\ Len(InOrder') = count'
      /\ \A i \in 1 .. count' :
            InOrder'[i] = buf'[IF head' + i - 1 < MaxSize THEN head' + i - 1
                                                        ELSE head' + i - 1 - MaxSize]
  BY <1>4, InOrderTypeNext DEF InOrderShape
<1>8. ASSUME NEW i \in 1 .. count + 1
      PROVE  InOrder'[i] = Append(InOrder, e)[i]
  <2>1. InOrder'[i] = buf'[i - 1] /\ i - 1 \in Slots
    BY <1>1, <1>7 DEF Slots
  <2>2. CASE i = count + 1
    BY <1>1, <1>5, <2>1, <2>2 DEF Inv, TypeOK, Slots
  <2>3. CASE i # count + 1
    <3>1. i \in 1 .. count /\ i - 1 # count
      BY <1>1, <2>3 DEF Slots
    <3>2. InOrder[i] = buf[i - 1]
      BY <1>1, <3>1, InOrderType DEF Slots, InOrderShape
    <3> QED
      BY <1>1, <1>5, <2>1, <3>1, <3>2 DEF Inv, TypeOK
  <2> QED
    BY <2>2, <2>3
<1>9. InOrder' = Append(InOrder, e)
  BY <1>1, <1>5, <1>7, <1>8, SeqEqual
<1> QED
  BY <1>4, <1>6, <1>9

(* A record that overwrites the oldest entry (audit.go:65-68).               *)
LEMMA RecordOverwrites ==
    ASSUME Inv, NEW e \in Entries, Record(e), count = MaxSize
    PROVE  Inv' /\ InOrder' = Trail!LastOf(Append(InOrder, e), MaxSize)
<1> USE SizeAssumption
<1>1. /\ head \in Slots /\ count' = count /\ head' = (head + 1) % MaxSize
      /\ buf' = [buf EXCEPT ![head] = e] /\ result' = result
  BY DEF Record, Inv, TypeOK, Slots
<1>2. head' = (IF head + 1 < MaxSize THEN head + 1 ELSE 0) /\ head' \in Slots
  <2>1. PICK k \in Int : k = head + 1 /\ 0 <= k /\ k < 2 * MaxSize
    BY <1>1 DEF Slots
  <2>2. k % MaxSize = IF k < MaxSize THEN k ELSE k - MaxSize
    BY <2>1, ModOneTurn
  <2> QED
    BY <1>1, <2>1, <2>2 DEF Slots
<1>3. TypeOK'
  BY <1>1, <1>2 DEF Inv, TypeOK
<1>4. RingShape'
  BY <1>1, EmptyAssumption DEF Inv, TypeOK, RingShape, Slots
<1>5. Inv'
  BY <1>3, <1>4 DEF Inv
<1>6. /\ Append(InOrder, e) \in Seq(Entries)
      /\ Len(Append(InOrder, e)) = MaxSize + 1
      /\ \A i \in 1 .. MaxSize : Append(InOrder, e)[i] = InOrder[i]
      /\ Append(InOrder, e)[MaxSize + 1] = e
  BY InOrderType, AppendProperties DEF InOrderShape
<1>7. Trail!LastOf(Append(InOrder, e), MaxSize) = SubSeq(Append(InOrder, e), 2, MaxSize + 1)
  <2>1. ~ (MaxSize <= 0) /\ ~ (MaxSize >= MaxSize + 1) /\ (MaxSize + 1) - MaxSize + 1 = 2
    OBVIOUS
  <2> QED
    BY <1>6, <2>1 DEF Trail!LastOf
<1>8. /\ SubSeq(Append(InOrder, e), 2, MaxSize + 1) \in Seq(Entries)
      /\ Len(SubSeq(Append(InOrder, e), 2, MaxSize + 1)) = MaxSize
      /\ \A i \in 1 .. MaxSize :
            SubSeq(Append(InOrder, e), 2, MaxSize + 1)[i] = Append(InOrder, e)[i + 1]
  <2>1. PICK t \in Seq(Entries) : t = Append(InOrder, e)
    BY <1>6
  <2>2. PICK last \in Int : last = MaxSize + 1
    OBVIOUS
  <2>3. \A i \in 2 .. last : t[i] \in Entries
    BY <1>6, <2>1, <2>2
  <2>4. /\ SubSeq(t, 2, last) \in Seq(Entries)
        /\ Len(SubSeq(t, 2, last)) = IF 2 <= last THEN last - 2 + 1 ELSE 0
        /\ \A i \in 1 .. last - 2 + 1 : SubSeq(t, 2, last)[i] = t[2 + i - 1]
    BY <2>3, SubSeqProperties
  <2>5. ASSUME NEW i \in 1 .. MaxSize
        PROVE  SubSeq(t, 2, last)[i] = t[i + 1]
    <3>1. i \in 1 .. last - 2 + 1 /\ 2 + i - 1 = i + 1
      BY <2>2
    <3> QED
      BY <2>4, <3>1
  <2>6. Len(SubSeq(t, 2, last)) = MaxSize
    BY <2>2, <2>4
  <2> QED
    BY <2>1, <2>2, <2>4, <2>5, <2>6
<1>9. /\ InOrder' \in Seq(Entries)
      /\ Len(InOrder') = count'
      /\ \A i \in 1 .. count' :
            InOrder'[i] = buf'[IF head' + i - 1 < MaxSize THEN head' + i - 1
                                                        ELSE head' + i - 1 - MaxSize]
  BY <1>5, InOrderTypeNext DEF InOrderShape
<1>10. ASSUME NEW i \in 1 .. MaxSize
       PROVE  InOrder'[i] = Append(InOrder, e)[i + 1]
  <2>1. PICK s \in Slots : s = IF head' + i - 1 < MaxSize THEN head' + i - 1
                                                           ELSE head' + i - 1 - MaxSize
    BY <1>2 DEF Slots
  <2>4. InOrder'[i] = buf'[s]
    BY <1>1, <1>9, <2>1
  <2>2. CASE i = MaxSize
    <3>1. s = head
      BY <1>1, <1>2, <2>1, <2>2 DEF Slots
    <3> QED
      BY <1>1, <1>6, <2>2, <2>4, <3>1 DEF Inv, TypeOK
  <2>3. CASE i # MaxSize
    <3>1. s # head /\ i + 1 \in 1 .. MaxSize
      BY <1>1, <1>2, <2>1, <2>3 DEF Slots
    <3>2. s = IF head + (i + 1) - 1 < MaxSize THEN head + (i + 1) - 1
                                              ELSE head + (i + 1) - 1 - MaxSize
      BY <1>1, <1>2, <2>1, <2>3 DEF Slots
    <3>3. InOrder[i + 1] = buf[s]
      BY <3>1, <3>2, InOrderType DEF InOrderShape
    <3> QED
      BY <1>1, <1>6, <2>4, <3>1, <3>3 DEF Inv, TypeOK
  <2> QED
    BY <2>2, <2>3
<1>11. InOrder' = SubSeq(Append(InOrder, e), 2, MaxSize + 1)
  BY <1>1, <1>8, <1>9, <1>10, SeqEqual
<1> QED
  BY <1>5, <1>7, <1>11
--------------------------------------------------------------------------
(* The theorems. *)

(* The ring's own invariant: its type, and which slots are in use
   (audit.go:21-27,56-68).                                                   *)
LEMMA InvInductive == Spec => []Inv
<1>1. Init => Inv
  BY SizeAssumption, EmptySeq DEF Init, Inv, TypeOK, RingShape, Slots
<1>2. Inv /\ [Next]_vars => Inv'
  <2> SUFFICES ASSUME Inv, [Next]_vars PROVE Inv'
    OBVIOUS
  <2>1. ASSUME NEW e \in Entries, Record(e)
        PROVE  Inv'
    <3>1. count < MaxSize \/ count = MaxSize
      BY SizeAssumption DEF Inv, TypeOK
    <3> QED
      BY <2>1, <3>1, RecordFills, RecordOverwrites
  <2>2. ASSUME NEW n \in Requests, Recent(n)
        PROVE  Inv'
    BY <2>2, RecentIsTail DEF Recent, Inv, TypeOK, RingShape
  <2>3. CASE UNCHANGED vars
    BY <2>3 DEF vars, Inv, TypeOK, RingShape
  <2> QED
    BY <2>1, <2>2, <2>3 DEF Next
<1> QED
  BY <1>1, <1>2, PTL DEF Spec

(* Every slot holds an entry or nothing, head stays within the buffer, and     *)
(* Recent returns entries only, never an empty slot (audit.go:39-96).          *)
THEOREM AuditTypeCorrect == Spec => []TypeOK
BY InvInductive, PTL DEF Inv

(* The slots in use are the first count ones, none of them is empty, and head *)
(* leaves slot 0 only when the buffer is full (audit.go:56-68).              *)
THEOREM RingShapeTheorem == Spec => []RingShape
BY InvInductive, PTL DEF Inv

(* The ring keeps exactly the last MaxSize entries in order, and Recent shows *)
(* the tail of them, whatever the size and the requests (audit.go:39-96).    *)
THEOREM ImplementsTrailTheorem == Spec => ImplementsTrail
<1>1. Init => Trail!Init
  <2> SUFFICES ASSUME Init PROVE InOrder = << >> /\ result = << >>
    BY DEF Trail!Init
  <2> QED
    BY DEF Init, InOrder
<1>2. Inv /\ [Next]_vars => [Trail!Next]_<<InOrder, result>>
  <2> SUFFICES ASSUME Inv, [Next]_vars PROVE [Trail!Next]_<<InOrder, result>>
    OBVIOUS
  <2>1. ASSUME NEW e \in Entries, Record(e)
        PROVE  Trail!Record(e)
    <3>1. count < MaxSize \/ count = MaxSize
      BY SizeAssumption DEF Inv, TypeOK
    <3>2. InOrder' = Trail!LastOf(Append(InOrder, e), MaxSize)
      BY <2>1, <3>1, RecordFills, RecordOverwrites
    <3> QED
      BY <2>1, <3>2 DEF Record, Trail!Record
  <2>2. ASSUME NEW n \in Requests, Recent(n)
        PROVE  Trail!Recent(n)
    BY <2>2, RecentIsTail DEF Recent, Trail!Recent, InOrder
  <2>3. CASE UNCHANGED vars
    BY <2>3 DEF vars, InOrder
  <2> QED
    BY <2>1, <2>2, <2>3 DEF Next, Trail!Next
<1> QED
  BY <1>1, <1>2, InvInductive, PTL DEF Spec, ImplementsTrail, Trail!Spec
==========================================================================
