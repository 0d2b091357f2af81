--------------------------- MODULE AuditTrail ---------------------------
(* What the audit log promises: it keeps the last MaxSize entries in the    *)
(* order they were recorded, and shows the most recent of them, oldest      *)
(* first.                                                                   *)
EXTENDS Integers, Sequences

CONSTANTS
    Entries,    \* what a caller may record
    MaxSize,    \* the number of entries kept, at least one
    Requests    \* the numbers of entries a reader may ask for, any integers

VARIABLES
    kept,       \* the entries kept, oldest first
    answer      \* what the last reader was shown

\* The last n of s: all of s if it is shorter, nothing if n is not positive.
LastOf(s, n) ==
    IF n <= 0 THEN << >>
    ELSE IF n >= Len(s) THEN s
    ELSE SubSeq(s, Len(s) - n + 1, Len(s))

TypeOK ==
    /\ kept \in Seq(Entries) /\ Len(kept) <= MaxSize
    /\ answer \in Seq(Entries)

Init == kept = << >> /\ answer = << >>

Record(e) ==
    /\ kept' = LastOf(Append(kept, e), MaxSize)
    /\ UNCHANGED answer

Recent(n) ==
    /\ answer' = LastOf(kept, n)
    /\ UNCHANGED kept

Next == (\E e \in Entries : Record(e)) \/ (\E n \in Requests : Recent(n))

Spec == Init /\ [][Next]_<<kept, answer>>
==========================================================================
