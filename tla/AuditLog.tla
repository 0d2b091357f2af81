---------------------------- MODULE AuditLog ----------------------------
(* security.AuditLog: the ring buffer behind the audit trail.  Record and   *)
(* Recent hold the mutex from their first access to the buffer to their     *)
(* last, so each is one step; the buffer itself is filled once and then     *)
(* overwritten at head.                                                     *)
EXTENDS Integers, Sequences

CONSTANTS
    Entries,    \* what a caller may record
    MaxSize,    \* AuditLog.maxSize, after the default of NewAuditLog
    Requests,   \* the numbers of entries a reader may ask for
    Empty       \* the zero AuditEntry of a slot never written

ASSUME SizeAssumption    == MaxSize \in Nat \ {0}
ASSUME RequestAssumption == Requests \subseteq Int
ASSUME EmptyAssumption   == Empty \notin Entries

VARIABLES
    buf,        \* a.buf, indexed from 0
    head,       \* a.head: the oldest entry once the buffer is full
    count,      \* a.count
    result      \* what the last call of Recent returned

vars == <<buf, head, count, result>>

Slots == 0 .. MaxSize - 1

\* NewAuditLog.
Init ==
    /\ buf = [i \in Slots |-> Empty]
    /\ head = 0
    /\ count = 0
    /\ result = << >>

\* Mutants of Record: the buffer fills up to one slot before its end; head stays.
RecordShort(e) ==
    /\ IF count < MaxSize - 1
       THEN /\ buf' = [buf EXCEPT ![count] = e]
            /\ count' = count + 1
            /\ UNCHANGED head
       ELSE /\ buf' = [buf EXCEPT ![head] = e]
            /\ head' = (head + 1) % MaxSize
            /\ UNCHANGED count
    /\ UNCHANGED result

RecordNoWrap(e) ==
    /\ IF count < MaxSize
       THEN /\ buf' = [buf EXCEPT ![count] = e]
            /\ count' = count + 1
            /\ UNCHANGED head
       ELSE /\ buf' = [buf EXCEPT ![head] = e]
            /\ head' = head + 1
            /\ UNCHANGED count
    /\ UNCHANGED result

Record(e) ==
    /\ IF count < MaxSize
       THEN /\ buf' = [buf EXCEPT ![count] = e]
            /\ count' = count + 1
            /\ UNCHANGED head
       ELSE /\ buf' = [buf EXCEPT ![head] = e]
            /\ head' = (head + 1) % MaxSize
            /\ UNCHANGED count
    /\ UNCHANGED result

\* Recent: n is cut down to what there is; the copy starts n entries before the
\* end, which is at count while the buffer fills and at head once it is full.
Clamped(n) == IF n > count THEN count ELSE n

\* Mutant of From: the copy starts as if the ring had never wrapped.
FromStart(n) == count - n

From(n) == IF count < MaxSize THEN count - n ELSE (head + count - n) % MaxSize

Recent(n) ==
    /\ result' = IF Clamped(n) <= 0
                 THEN << >>
                 ELSE [i \in 1 .. Clamped(n) |->
                          buf[(From(Clamped(n)) + i - 1) % MaxSize]]
    /\ UNCHANGED <<buf, head, count>>

Next == (\E e \in Entries : Record(e)) \/ (\E n \in Requests : Recent(n))

Spec == Init /\ [][Next]_vars
--------------------------------------------------------------------------
(* Properties. *)

TypeOK ==
    /\ buf \in [Slots -> Entries \cup {Empty}]
    /\ head \in Slots
    /\ count \in 0 .. MaxSize
    /\ result \in Seq(Entries)

\* The slots in use are the first `count' ones, none of them is empty, and head
\* leaves slot 0 only when the buffer is full (audit.go:56-68).
RingShape ==
    /\ \A i \in Slots : buf[i] # Empty <=> i < count
    /\ count < MaxSize => head = 0

\* The buffer read from its oldest entry round to its newest.
InOrder == [i \in 1 .. count |-> buf[(head + i - 1) % MaxSize]]

Trail == INSTANCE AuditTrail WITH kept <- InOrder, answer <- result

\* The ring keeps exactly the last MaxSize entries in order, and Recent shows
\* the tail of them, before and after the buffer wraps (audit.go:39-96).
ImplementsTrail == Trail!Spec
==========================================================================
