------------------------- MODULE YanrongProofs -------------------------
(* Proofs about Yanrong, for any number of calls, any storage and any        *)
(* requests: what the paths mean, that a retry carries a new token, that a   *)
(* clear is reported as it happened and clears only what was asked for.      *)
EXTENDS Yanrong, FiniteSetTheorems, SequenceTheorems, WellFoundedInduction, TLAPS
--------------------------------------------------------------------------
(* Induction over the natural numbers, for a property given as a set.        *)

LEMMA NatSetInduction ==
    ASSUME NEW S \in SUBSET Nat, 0 \in S, \A n \in S : n + 1 \in S
    PROVE  \A n \in Nat : n \in S
<1> SUFFICES ASSUME Nat \ S # {} PROVE FALSE
  OBVIOUS
<1>1. PICK m \in Nat \ S : \A k \in Nat \ S : ~(k < m)
  <2>1. IsWellFoundedOn(OpToRel(<, Nat), Nat)
    BY NatLessThanWellFounded
  <2>2. PICK m \in Nat \ S : \A k \in Nat \ S : <<k, m>> \notin OpToRel(<, Nat)
    BY <2>1, WFMin
  <2>3. \A k \in Nat \ S : <<k, m>> \notin OpToRel(<, Nat) => ~(k < m)
    BY DEF OpToRel
  <2> QED
    BY <2>2, <2>3
<1>2. m # 0 /\ m - 1 \in Nat
  OBVIOUS
<1>3. m - 1 \in S
  BY <1>1, <1>2
<1> QED
  BY <1>2, <1>3
--------------------------------------------------------------------------
(* Paths. *)

\* A component of a clean path.
Component == Parts \ {"", ".", ".."}

LEMMA StepType ==
    ASSUME NEW clean \in Seq(Component), NEW part \in Parts
    PROVE  Step(clean, part) \in Seq(Component)
<1>1. part \notin {"", ".", ".."} => Append(clean, part) \in Seq(Component)
  BY AppendProperties DEF Component
<1>2. clean # <<>> => Front(clean) \in Seq(Component)
  BY SubSeqProperties DEF Front
<1> QED
  BY <1>1, <1>2 DEF Step

(* The first n components of a raw path can be read one after the other, and  *)
(* what they come to is clean.                                               *)
Reading(raw, n) ==
    {f \in [0 .. n -> Seq(Component)] :
        /\ f[0] = <<>>
        /\ \A i \in 1 .. n : f[i] = Step(f[i - 1], raw[i])}

LEMMA ReadingExists ==
    ASSUME NEW raw \in Texts
    PROVE  Reading(raw, Len(raw)) # {}
<1> DEFINE S == {n \in Nat : n <= Len(raw) => Reading(raw, n) # {}}
<1>1. 0 \in S
  <2>1. [i \in 0 .. 0 |-> <<>>] \in Reading(raw, 0)
    BY EmptySeq DEF Reading
  <2> QED
    BY <2>1
<1>2. ASSUME NEW n \in Nat, n + 1 <= Len(raw), NEW f \in Reading(raw, n)
      PROVE  Reading(raw, n + 1) # {}
  <2>1. /\ f \in [0 .. n -> Seq(Component)]
        /\ f[0] = <<>> /\ \A i \in 1 .. n : f[i] = Step(f[i - 1], raw[i])
    BY DEF Reading
  <2>2. Step(f[n], raw[n + 1]) \in Seq(Component)
    <3>1. n + 1 \in 1 .. Len(raw)
      BY <1>2
    <3>2. raw[n + 1] \in Parts
      BY <3>1, ElementOfSeq DEF Texts
    <3>3. f[n] \in Seq(Component)
      BY <2>1
    <3> QED
      BY <3>2, <3>3, StepType
  <2> DEFINE g == [i \in 0 .. n + 1 |-> IF i = n + 1 THEN Step(f[n], raw[n + 1]) ELSE f[i]]
  <2>3. g \in [0 .. n + 1 -> Seq(Component)]
    BY <2>1, <2>2
  <2>4. g[0] = <<>>
    BY <2>1
  <2>5. ASSUME NEW i \in 1 .. n + 1
        PROVE  g[i] = Step(g[i - 1], raw[i])
    <3>1. CASE i = n + 1
      <4>1. g[i] = Step(f[n], raw[n + 1]) /\ g[i - 1] = f[n]
        BY <3>1
      <4> QED
        BY <3>1, <4>1
    <3>2. CASE i # n + 1
      <4>1. i \in 1 .. n /\ g[i] = f[i] /\ g[i - 1] = f[i - 1]
        BY <3>2
      <4> QED
        BY <2>1, <4>1
    <3> QED
      BY <3>1, <3>2
  <2> HIDE DEF g
  <2> QED
    BY <2>3, <2>4, <2>5 DEF Reading
<1>3. Len(raw) \in S
  <2> HIDE DEF S
  <2>1. S \in SUBSET Nat
    BY DEF S
  <2>2. Len(raw) \in Nat
    BY LenProperties DEF Texts
  <2>3. \A n \in S : n + 1 \in S
    BY <1>2 DEF S
  <2> QED
    BY <1>1, <2>1, <2>2, <2>3, NatSetInduction
<1> QED
  BY <1>3

(* NormalizeQuotaPath is the end of such a reading. *)
LEMMA NormalizeReads ==
    ASSUME NEW raw \in Texts
    PROVE  \E f \in Reading(raw, Len(raw)) : NormalizeQuotaPath(raw) = f[Len(raw)]
<1> DEFINE Whole(f) == f = [i \in 0 .. Len(raw) |->
                              IF i = 0 THEN <<>> ELSE Step(f[i - 1], raw[i])]
           clean == CHOOSE f : Whole(f)
<1>0. Len(raw) \in Nat
  BY LenProperties DEF Texts
<1>1. Whole(clean)
  <2>1. PICK f : f \in Reading(raw, Len(raw))
    BY ReadingExists
  <2>2. Whole(f)
    BY <1>0, <2>1 DEF Reading
  <2> QED
    BY <2>2
<1>2. NormalizeQuotaPath(raw) = clean[Len(raw)]
  BY DEF NormalizeQuotaPath
<1> HIDE DEF clean
<1> DEFINE S == {n \in Nat : n <= Len(raw) => clean[n] \in Seq(Component)}
<1>3. 0 \in S
  BY <1>0, <1>1, EmptySeq
<1>4. ASSUME NEW n \in Nat, n + 1 <= Len(raw), clean[n] \in Seq(Component)
      PROVE  clean[n + 1] \in Seq(Component)
  <2>1. n + 1 \in 1 .. Len(raw)
    BY <1>4, <1>0
  <2>2. raw[n + 1] \in Parts
    BY <2>1, ElementOfSeq DEF Texts
  <2>3. clean[n + 1] = Step(clean[n], raw[n + 1])
    BY <1>0, <1>1, <1>4
  <2> QED
    BY <1>4, <2>2, <2>3, StepType
<1>5. \A n \in S : n + 1 \in S
  BY <1>4, <1>0
<1>6. \A n \in Nat : n \in S
  <2> HIDE DEF S
  <2>1. S \in SUBSET Nat
    BY DEF S
  <2> QED
    BY <1>3, <1>5, <2>1, NatSetInduction
<1>7. clean \in [0 .. Len(raw) -> Seq(Component)]
  BY <1>0, <1>1, <1>6
<1>8. clean[0] = <<>> /\ \A i \in 1 .. Len(raw) : clean[i] = Step(clean[i - 1], raw[i])
  BY <1>0, <1>1
<1> QED
  BY <1>2, <1>7, <1>8 DEF Reading

(* normalizeQuotaPath leaves no empty component, no "." and no "..": whatever *)
(* is typed or configured, the prefix tests compare clean paths                *)
(* (yanrong.go:543-556).                                                       *)
THEOREM NormalizeIsClean ==
    ASSUME NEW raw \in Texts
    PROVE  NormalizeQuotaPath(raw) \in Seq(Component)
<1>1. Len(raw) \in Nat
  BY LenProperties DEF Texts
<1> QED
  BY <1>1, NormalizeReads DEF Reading

LEMMA TextAfter ==
    ASSUME NEW part \in Parts, NEW text \in Texts
    PROVE  /\ <<part>> \o text \in Texts
           /\ Len(<<part>> \o text) = Len(text) + 1
           /\ (<<part>> \o text)[1] = part
           /\ \A i \in 2 .. Len(text) + 1 : (<<part>> \o text)[i] = text[i - 1]
BY DEF Texts

(* Reading a clean path again changes nothing: a path that went through       *)
(* normalizeQuotaPath once, such as the one ResolveUserPath returns, stands    *)
(* for the same directory wherever it is normalised again.                     *)
THEOREM NormalizeIsIdempotent ==
    ASSUME NEW clean \in Seq(Component)
    PROVE  NormalizeQuotaPath(<<"">> \o clean) = clean
<1> DEFINE raw == <<"">> \o clean
           k   == Len(clean)
<1>1. k \in Nat
  BY LenProperties
<1>0. clean \in Texts /\ "" \in Parts
  <2>1. Component \subseteq Parts /\ "" \in Parts
    BY DEF Parts, Component
  <2> QED
    BY ONLY clean \in Seq(Component), <2>1, SeqMonotonic DEF Texts
<1>2. raw \in Texts /\ Len(raw) = k + 1
  BY <1>0, <1>1, TextAfter
<1>3. raw[1] = "" /\ \A i \in 2 .. k + 1 : raw[i] = clean[i - 1]
  BY <1>0, <1>1, TextAfter
<1> HIDE DEF raw, k
<1>4. PICK f \in Reading(raw, k + 1) : NormalizeQuotaPath(raw) = f[k + 1]
  BY <1>2, NormalizeReads
<1>5. f[0] = <<>> /\ \A i \in 1 .. k + 1 : f[i] = Step(f[i - 1], raw[i])
  BY DEF Reading
<1> DEFINE S == {n \in Nat : n <= k => f[n + 1] = SubSeq(clean, 1, n)}
<1>6. f[1] = SubSeq(clean, 1, 0)
  <2>1. 1 \in 1 .. k + 1
    BY <1>1
  <2>2. f[1] = Step(f[0], raw[1])
    BY <1>5, <2>1
  <2>3. f[1] = <<>>
    BY <1>3, <1>5, <2>2 DEF Step
  <2> QED
    BY <2>3, SubSeqEmpty
<1>7. ASSUME NEW n \in Nat, n + 1 <= k, f[n + 1] = SubSeq(clean, 1, n)
      PROVE  f[n + 2] = SubSeq(clean, 1, n + 1)
  <2>1. n + 2 \in 1 .. k + 1 /\ n + 2 \in 2 .. k + 1 /\ n + 1 \in 1 .. k /\ 1 \in 1 .. k
    BY <1>1, <1>7
  <2>2. f[n + 2] = Step(f[n + 1], clean[n + 1])
    <3>1. (n + 2) - 1 = n + 1
      OBVIOUS
    <3> QED
      BY <1>3, <1>5, <2>1, <3>1
  <2>3. clean[n + 1] \in Component
    BY <2>1, ElementOfSeq DEF k
  <2>4. f[n + 2] = Append(SubSeq(clean, 1, n), clean[n + 1])
    BY <1>7, <2>2, <2>3 DEF Step, Component
  <2>5. SubSeq(clean, 1, n) \in Seq(Component)
    <3>1. \A i \in 1 .. n : i \in 1 .. k
      BY <1>1, <1>7
    <3>2. \A i \in 1 .. n : clean[i] \in Component
      BY <3>1, ElementOfSeq DEF k
    <3> QED
      BY <3>2, SubSeqProperties
  <2>6. SubSeq(clean, 1, n + 1) = SubSeq(clean, 1, n) \o <<clean[n + 1]>>
    <3>1. n + 1 \in 1 .. k /\ 1 \in 1 .. k /\ n + 1 \in 1 .. Len(clean) /\ (n + 1) - 1 = n
      BY <2>1 DEF k
    <3> QED
      BY <3>1, SubSeqRecursiveSecond DEF k
  <2> QED
    BY <2>3, <2>4, <2>5, <2>6, AppendIsConcat
<1>8. \A n \in Nat : n \in S
  <2>1. 0 \in S
    BY <1>6
  <2>2. ASSUME NEW n \in S
        PROVE  n + 1 \in S
    <3> SUFFICES ASSUME n + 1 <= k PROVE f[(n + 1) + 1] = SubSeq(clean, 1, n + 1)
      OBVIOUS
    <3>1. n \in Nat /\ (n <= k => f[n + 1] = SubSeq(clean, 1, n))
      OBVIOUS
    <3>2. n <= k /\ (n + 1) + 1 = n + 2
      BY <1>1, <3>1
    <3> QED
      BY <1>7, <3>1, <3>2
  <2> HIDE DEF S
  <2>3. S \in SUBSET Nat
    BY DEF S
  <2> QED
    BY <2>1, <2>2, <2>3, NatSetInduction
<1>9. f[k + 1] = SubSeq(clean, 1, k)
  <2>1. k \in S
    BY <1>1, <1>8
  <2> QED
    BY <1>1, <2>1
<1> QED
  BY <1>4, <1>9, SubSeqFull DEF raw, k

(* The prefix tests on clean paths (yanrong.go:304-309, 340-349). *)
LEMMA PrefixTransitive ==
    ASSUME NEW p \in Texts, NEW q \in Texts, NEW r \in Texts,
           IsPrefix(p, q), IsPrefix(q, r)
    PROVE  IsPrefix(p, r)
<1>1. Len(p) \in Nat /\ Len(q) \in Nat /\ Len(r) \in Nat
  BY LenProperties DEF Texts
<1>2. \A i \in 1 .. Len(p) : p[i] = q[i]
  BY <1>1, SubSeqProperties DEF IsPrefix, Texts
<1> QED
  BY <1>1, SubSeqProperties DEF IsPrefix, Texts

LEMMA PrefixIsShorter ==
    ASSUME NEW p \in Texts, NEW q \in Texts, IsPrefix(p, q), p # q
    PROVE  Len(p) < Len(q)
BY SubSeqFull, LenProperties DEF IsPrefix, Texts

LEMMA NormalizeType ==
    ASSUME NEW raw \in Texts
    PROVE  NormalizeQuotaPath(raw) \in Texts /\ Len(NormalizeQuotaPath(raw)) \in Nat
<1>1. NormalizeQuotaPath(raw) \in Texts
  BY NormalizeIsClean, SeqMonotonic DEF Texts, Component
<1> QED
  BY <1>1, LenProperties DEF Texts
--------------------------------------------------------------------------
(* The inductive invariant. *)

UnderWay(c) == pc[c] \in {"login", "send", "drop"}

(* A call has nothing in hand before and after, and its answer is there when  *)
(* it is done; while it is under way there is something it asks for.          *)
Situated ==
    \A c \in Calls :
        /\ ~UnderWay(c) => /\ local[c].page = 1 /\ local[c].got = <<>>
                           /\ local[c].target = {} /\ ~local[c].retried
        /\ UnderWay(c) => /\ req[c].kind \notin {"refused", "usage text"}
                          /\ local[c].phase = "list" => req[c].kind # "info"
        /\ pc[c] # "done" => outcome[c] = "none" /\ cleared[c] = 0
        /\ pc[c] = "idle" => backend[c] = Bot

(* After a 401, until a token expires again: the cache of the backend has a    *)
(* token that is good or none at all, and the retry carries a good one.        *)
Renewed ==
    \A c \in Calls : local[c].retried /\ ~local[c].expired =>
        /\ pc[c] = "login" => token[backend[c]] \in valid \cup {NoToken}
        /\ pc[c] = "send" => local[c].tok \in valid

(* The last request of a clear is one that was confirmed and permitted.        *)
Permitted ==
    \A c \in Calls : UnderWay(c) /\ Clears(c) =>
        /\ ~req[c].dry
        /\ CheckUserDirPath(NormalizeQuotaPath(req[c].path), req[c].prefixes)

(* Each login fills the cache of a backend that is in use and had no token;    *)
(* only a call that drops the token empties it, once for its 401.              *)
Used     == {Bot} \cup {c \in Calls : backend[c] = c}
Without  == {b \in Used : token[b] = NoToken}
Dropping == {c \in Calls : pc[c] = "drop"}
Paid ==
    /\ issued + Cardinality(Dropping) + Cardinality(Without) <= rejected + Cardinality(Used)
    /\ \A c \in Calls : backend[c] # c => token[c] = NoToken

(* Unless a bin came or went, what a call has got of them is all there is up   *)
(* to the page it asks for.                                                    *)
Got(c) == (local[c].page - 1) * PerPage
Paged ==
    /\ Len(bins) <= Len(FirstBins) + faults
    /\ \A c \in Calls :
          (/\ UnderWay(c) /\ local[c].phase = "list" /\ local[c].exact
           /\ req[c].kind \notin {"quotas", "usage"})
             => Got(c) <= Len(bins) /\ local[c].got = SubSeq(bins, 1, Got(c))

YanrongInv ==
    /\ TypeOK /\ Situated /\ Renewed /\ Permitted /\ Paid /\ Paged
    /\ ClearedAsReported /\ ClearsWereAskedFor /\ MostSpecificBin
--------------------------------------------------------------------------
(* Types. *)

Places == {"idle", "login", "send", "drop", "done"}

LEMMA RequestTypes ==
    /\ NoToken = 0 /\ NoToken \in Nat
    /\ Refused(NoPrefixes) \in Requests
    /\ Fresh \in Hands
    /\ \A c \in Calls : BotRequests[c] \subseteq Requests /\ CliRequests[c] \subseteq Requests
<1>1. Empty \in Texts /\ Root \in Texts
  <2>1. \A part \in Parts : <<part>> \in Texts /\ <<part, part>> \in Texts
    BY DEF Texts
  <2>2. "" \in Parts
    BY DEF Parts
  <2> QED
    BY <2>1, <2>2 DEF Empty, Root
<1>2. Refused(NoPrefixes) \in Requests
  BY <1>1 DEF Refused, Plain, Request, Requests, NoPrefixes
<1>3. Fresh \in Hands
  BY YanrongAssumption, EmptySeq DEF Fresh, Hands, NoToken
<1> QED
  BY <1>2, <1>3, YanrongAssumption DEF NoToken

(* What becomes of a call's hand when one thing in it changes. *)
LEMMA HandUpdates ==
    ASSUME NEW h \in Hands
    PROVE  /\ \A t \in Nat : [h EXCEPT !.tok = t] \in Hands /\ [h EXCEPT !.tok = t].tok = t
           /\ \A p \in {"list", "act"} :
                 [h EXCEPT !.phase = p] \in Hands /\ [h EXCEPT !.phase = p].tok = h.tok
           /\ [h EXCEPT !.retried = TRUE, !.expired = FALSE] \in Hands
           /\ [h EXCEPT !.retried = TRUE, !.expired = FALSE].tok = h.tok
BY DEF Hands

LEMMA HandRemembers ==
    ASSUME NEW h \in Hands, NEW x \in BOOLEAN, NEW k \in Hands,
           k = [h EXCEPT !.expired = x] \/ k = [h EXCEPT !.exact = x]
    PROVE  /\ k.tok = h.tok /\ k.phase = h.phase /\ k.page = h.page /\ k.got = h.got
           /\ k.retried = h.retried /\ k.target = h.target
BY DEF Hands

LEMMA HandTypes ==
    ASSUME TypeOK, NEW c \in Calls
    PROVE  /\ local[c] \in Hands
           /\ local[c].retried \in BOOLEAN /\ local[c].exact \in BOOLEAN
           /\ local[c].page \in 1 .. MaxPage /\ local[c].page \in Nat \ {0}
           /\ local[c].tok \in Nat /\ issued \in Nat /\ local[c].tok <= issued
           /\ local[c].got \in Seq(Entries) /\ local[c].target \in SUBSET Entries
           /\ token[backend[c]] \in Nat /\ token[backend[c]] <= issued
BY YanrongAssumption DEF TypeOK, Hands

(* The storage's own steps leave the hands of the calls as they are, but for   *)
(* what is remembered of those steps.                                          *)
LEMMA StorageHands ==
    ASSUME TypeOK, Expire \/ CreateBin \/ RemoveBin
    PROVE  /\ local' \in [Calls -> Hands]
           /\ \A c \in Calls :
                 /\ local'[c].tok = local[c].tok /\ local'[c].phase = local[c].phase
                 /\ local'[c].page = local[c].page /\ local'[c].got = local[c].got
                 /\ local'[c].retried = local[c].retried
                 /\ local'[c].target = local[c].target
<1>1. ASSUME NEW c \in Calls
      PROVE  /\ local'[c] \in Hands
             /\ local'[c].tok = local[c].tok /\ local'[c].phase = local[c].phase
             /\ local'[c].page = local[c].page /\ local'[c].got = local[c].got
             /\ local'[c].retried = local[c].retried
             /\ local'[c].target = local[c].target
  <2>1. \E x \in BOOLEAN : \/ local'[c] = [local[c] EXCEPT !.expired = x]
                           \/ local'[c] = [local[c] EXCEPT !.exact = x]
    <3>1. CASE Expire
      BY <3>1, HandTypes DEF Expire
    <3>2. CASE CreateBin \/ RemoveBin
      <4>1. local'[c] = [local[c] EXCEPT !.exact = @ /\ pc[c] \in {"idle", "done"}]
        BY <3>2 DEF CreateBin, RemoveBin, Changed
      <4> QED
        BY <4>1
    <3> QED
      BY <3>1, <3>2
  <2>2. local'[c] \in Hands
    BY <2>1, HandTypes DEF Hands
  <2> QED
    BY <2>1, <2>2, HandTypes, HandRemembers
<1>2. local' = [c \in Calls |-> local'[c]]
  BY DEF Expire, CreateBin, RemoveBin, Changed
<1> QED
  BY <1>1, <1>2

LEMMA EndType ==
    ASSUME TypeOK, NEW c \in Calls, NEW result \in Outcomes, End(c, result)
    PROVE  /\ pc' \in [Calls -> Places]
           /\ req' \in [Calls -> Requests]
           /\ local' \in [Calls -> Hands]
           /\ outcome' \in [Calls -> Outcomes \cup {"none"}]
           /\ \A d \in Calls : /\ local'[d].tok <= issued
                               /\ pc'[d] = "send" => local'[d].tok # NoToken
<1>1. Fresh.tok = 0
  BY DEF Fresh, NoToken
<1> QED
  BY <1>1, RequestTypes DEF TypeOK, End, Places

LEMMA GoType ==
    ASSUME TypeOK, NEW c \in Calls, NEW where \in Places, NEW hand \in Hands,
           Go(c, where, hand), issued' \in Nat, issued <= issued', hand.tok <= issued',
           where = "send" => hand.tok # NoToken
    PROVE  /\ pc' \in [Calls -> Places]
           /\ req' \in [Calls -> Requests]
           /\ local' \in [Calls -> Hands]
           /\ outcome' \in [Calls -> Outcomes \cup {"none"}]
           /\ \A d \in Calls : /\ local'[d].tok <= issued'
                               /\ pc'[d] = "send" => local'[d].tok # NoToken
<1>1. /\ pc' \in [Calls -> Places] /\ req' \in [Calls -> Requests]
      /\ local' \in [Calls -> Hands] /\ outcome' \in [Calls -> Outcomes \cup {"none"}]
  BY DEF TypeOK, Go, Places
<1>2. ASSUME NEW d \in Calls
      PROVE  /\ local'[d].tok <= issued'
             /\ pc'[d] = "send" => local'[d].tok # NoToken
  <2>1. local[d].tok \in Nat /\ hand.tok \in Nat /\ issued \in Nat
    BY DEF TypeOK, Hands
  <2> QED
    BY <2>1 DEF TypeOK, Go
<1> QED
  BY <1>1, <1>2

(* What the storage clears are files it holds, and the clear is the call's.  *)
LEMMA EffectType ==
    ASSUME TypeOK, NEW c \in Calls, Effect(c)
    PROVE  /\ trash' \subseteq TrashFiles
           /\ deleted' \subseteq [file : TrashFiles, req : Requests]
           /\ cleared' \in [Calls -> Nat]
BY DEF TypeOK, Effect, Doomed

LEMMA NatTimes ==
    ASSUME NEW m \in Nat, NEW n \in Nat
    PROVE  m * n \in Nat
OBVIOUS

LEMMA BatchType ==
    ASSUME TypeOK, NEW c \in Calls
    PROVE  /\ Listing(c) \in Seq(Entries)
           /\ (local[c].page - 1) * PerPage \in Nat
           /\ Batch(c) \in Seq(Entries)
           /\ local[c].got \o Batch(c) \in Seq(Entries)
<1> DEFINE list == Listing(c)
           from == (local[c].page - 1) * PerPage
           to   == IF local[c].page * PerPage < Len(list) THEN local[c].page * PerPage
                   ELSE Len(list)
<1>1. list \in Seq(Entries) /\ Len(list) \in Nat
  <2>1. list \in Seq(Entries)
    BY YanrongAssumption DEF TypeOK, Listing
  <2> QED
    BY <2>1, LenProperties
<1>2. local[c].page - 1 \in Nat /\ local[c].page \in Nat /\ local[c].got \in Seq(Entries)
  BY YanrongAssumption DEF TypeOK, Hands
<1>3. from \in Nat /\ local[c].page * PerPage \in Nat
  BY <1>2, NatTimes, YanrongAssumption
<1>4. to \in Int /\ to <= Len(list)
  BY <1>1, <1>3
<1>5. Batch(c) = SubSeq(list, from + 1, to)
  BY DEF Batch
<1> HIDE DEF list, from, to
<1>6. \A i \in from + 1 .. to : i \in 1 .. Len(list)
  BY <1>1, <1>3, <1>4
<1>7. \A i \in from + 1 .. to : list[i] \in Entries
  BY <1>1, <1>6, ElementOfSeq
<1>8. SubSeq(list, from + 1, to) \in Seq(Entries)
  BY <1>3, <1>4, <1>7, SubSeqProperties
<1> QED
  BY <1>1, <1>2, <1>3, <1>5, <1>8, ConcatProperties DEF list, from

(* What a call has in hand once it has chosen a bin from what is listed. *)
Choosing(c, all, exact) ==
    [Fresh EXCEPT !.phase = "act", !.exact = exact,
                  !.target = PickRecycle(all, NormalizeQuotaPath(req[c].path))]

LEMMA ListedCases ==
    ASSUME NEW c \in Calls, NEW all, NEW exact, Listed(c, all, exact),
           req[c].kind \in {"quotas", "recycles", "usage", "files", "clear"}
    PROVE  \/ \E result \in Outcomes \ {"cleared", "failed"} : End(c, result)
           \/ /\ Go(c, "login", Choosing(c, all, exact))
              /\ req[c].kind \in {"files", "clear"}
              /\ req[c].kind = "clear" =>
                    /\ ~req[c].dry
                    /\ CheckUserDirPath(NormalizeQuotaPath(req[c].path), req[c].prefixes)
<1>1. CASE req[c].kind \in {"quotas", "recycles"}
  BY <1>1 DEF Listed, Outcomes
<1>2. CASE req[c].kind = "usage"
  BY <1>2 DEF Listed, Outcomes
<1>3. CASE req[c].kind \in {"files", "clear"}
  BY <1>3 DEF Listed, Outcomes, Choosing
<1> QED
  BY <1>1, <1>2, <1>3

LEMMA ChoosingType ==
    ASSUME TypeOK, NEW c \in Calls, NEW all \in Seq(Entries), NEW exact \in BOOLEAN
    PROVE  /\ Choosing(c, all, exact) \in Hands
           /\ Choosing(c, all, exact).tok = 0
<1>1. ToSet(all) \subseteq Entries
  BY LenProperties, ElementOfSeq DEF ToSet
<1>2. PickRecycle(all, NormalizeQuotaPath(req[c].path)) \subseteq Entries
  BY <1>1 DEF PickRecycle
<1> QED
  BY <1>2, RequestTypes DEF Choosing, Hands, Fresh, NoToken

LEMMA ListedType ==
    ASSUME TypeOK, NEW c \in Calls, NEW all \in Seq(Entries), NEW exact \in BOOLEAN,
           Listed(c, all, exact), issued' = issued,
           req[c].kind \in {"quotas", "recycles", "usage", "files", "clear"}
    PROVE  /\ pc' \in [Calls -> Places]
           /\ req' \in [Calls -> Requests]
           /\ local' \in [Calls -> Hands]
           /\ outcome' \in [Calls -> Outcomes \cup {"none"}]
           /\ \A d \in Calls : /\ local'[d].tok <= issued'
                               /\ pc'[d] = "send" => local'[d].tok # NoToken
<1>1. CASE \E result \in Outcomes : End(c, result)
  BY <1>1, EndType
<1>2. CASE Go(c, "login", Choosing(c, all, exact))
  <2>1. /\ issued' \in Nat /\ issued <= issued' /\ "login" \in Places
        /\ Choosing(c, all, exact) \in Hands /\ Choosing(c, all, exact).tok <= issued'
    BY ChoosingType DEF TypeOK, Places
  <2> QED
    BY <1>2, <2>1, GoType
<1> QED
  BY <1>1, <1>2, ListedCases

(* What comes and goes among the bins. *)
LEMMA BinsType ==
    ASSUME TypeOK, CreateBin \/ RemoveBin
    PROVE  /\ bins' \in Seq(Entries) /\ Len(bins') <= Len(bins) + 1
           /\ trash' \subseteq TrashFiles
           /\ faults' = faults + 1 /\ faults' \in 0 .. MaxFaults
<1>1. faults' = faults + 1 /\ faults' \in 0 .. MaxFaults
  BY YanrongAssumption DEF TypeOK, CreateBin, RemoveBin, Changed
<1>2. CASE CreateBin
  <2>1. bins' = <<NewBin>> \o bins /\ trash' = trash
    BY <1>2 DEF CreateBin
  <2>2. <<NewBin>> \in Seq(Entries) /\ Len(<<NewBin>>) = 1
    BY YanrongAssumption
  <2>3. bins' \in Seq(Entries) /\ Len(bins') = Len(<<NewBin>>) + Len(bins)
    BY <2>1, <2>2, ConcatProperties DEF TypeOK
  <2> QED
    BY <1>1, <2>1, <2>2, <2>3, LenProperties DEF TypeOK
<1>3. CASE RemoveBin
  <2>1. PICK i \in DOMAIN bins :
            bins' = RemoveAt(bins, i) /\ trash' = {f \in trash : f.bin # bins[i].id}
    BY <1>3 DEF RemoveBin
  <2>2. bins \in Seq(Entries) /\ Len(bins) \in Nat /\ i \in 1 .. Len(bins)
    BY LenProperties DEF TypeOK
  <2>3. /\ SubSeq(bins, 1, i - 1) \in Seq(Entries)
        /\ Len(SubSeq(bins, 1, i - 1)) = i - 1
    <3>1. \A j \in 1 .. i - 1 : bins[j] \in Entries
      BY <2>2, ElementOfSeq
    <3>2. 1 \in Int /\ i - 1 \in Int /\ (1 <= i - 1 \/ i - 1 = 0)
      BY <2>2
    <3> QED
      BY <3>1, <3>2, SubSeqProperties
  <2>4. /\ SubSeq(bins, i + 1, Len(bins)) \in Seq(Entries)
        /\ Len(SubSeq(bins, i + 1, Len(bins))) <= Len(bins) - i
    <3>1. \A j \in i + 1 .. Len(bins) : bins[j] \in Entries
      BY <2>2, ElementOfSeq
    <3>2. i + 1 \in Int /\ Len(bins) \in Int /\ i <= Len(bins)
      BY <2>2
    <3> QED
      BY <3>1, <3>2, SubSeqProperties
  <2>5. bins' \in Seq(Entries) /\ Len(bins') <= Len(bins) - 1
    BY <2>1, <2>2, <2>3, <2>4, ConcatProperties DEF RemoveAt
  <2> QED
    BY <1>1, <2>1, <2>2, <2>5 DEF TypeOK
<1> QED
  BY <1>2, <1>3

LEMMA TypeStep ==
    ASSUME TypeOK, Situated, [Next]_vars
    PROVE  TypeOK'
<1>1. CASE Expire
  <2>1. UNCHANGED <<token, issued, bins, trash, pc, req, backend, outcome, ghost>>
    BY <1>1 DEF Expire
  <2>2. valid' \subseteq 1 .. issued
    BY <1>1 DEF TypeOK, Expire
  <2>3. faults' \in 0 .. MaxFaults
    <3>1. /\ faults \in 0 .. MaxFaults /\ faults < MaxFaults /\ faults' = faults + 1
          /\ MaxFaults \in Nat
      BY <1>1, YanrongAssumption DEF TypeOK, Expire
    <3> QED
      BY ONLY <3>1
  <2> QED
    BY <1>1, <2>1, <2>2, <2>3, StorageHands DEF TypeOK, ghost
<1>2. CASE CreateBin \/ RemoveBin
  <2>1. local' \in [Calls -> Hands] /\ \A c \in Calls : local'[c].tok = local[c].tok
    BY <1>2, StorageHands
  <2>2. UNCHANGED <<token, valid, issued, pc, req, backend, outcome, ghost>>
    BY <1>2 DEF CreateBin, RemoveBin, Changed
  <2> QED
    BY <2>1, <2>2, BinsType, <1>2 DEF TypeOK, ghost
<1>3. ASSUME NEW c \in Calls, StartAny(c)
      PROVE  TypeOK'
  <2>1. PICK r \in Requests, b \in {Bot, c} : Start(c, r, b)
    BY <1>3, RequestTypes DEF StartAny
  <2>2. backend' \in [Calls -> Backends] /\ \A d \in Calls : backend'[d] \in {Bot, d}
    BY <2>1 DEF Start, TypeOK, Backends
  <2>3. UNCHANGED <<token, server, ghost>>
    BY <2>1 DEF Start
  <2>4. /\ pc' \in [Calls -> Places]
        /\ req' \in [Calls -> Requests]
        /\ local' \in [Calls -> Hands]
        /\ outcome' \in [Calls -> Outcomes \cup {"none"}]
        /\ \A d \in Calls : /\ local'[d].tok <= issued
                            /\ pc'[d] = "send" => local'[d].tok # NoToken
    <3>1. CASE End(c, "refused")
      BY <3>1, EndType DEF Outcomes
    <3>2. CASE /\ pc' = [pc EXCEPT ![c] = "login"]
               /\ req' = [req EXCEPT ![c] = r]
               /\ local' = [local EXCEPT ![c].phase = IF Lists(r.kind) THEN "list" ELSE "act"]
               /\ UNCHANGED outcome
      <4>1. /\ local' \in [Calls -> Hands]
            /\ \A d \in Calls : local'[d].tok = local[d].tok
        <5>1. (IF Lists(r.kind) THEN "list" ELSE "act") \in {"list", "act"}
          OBVIOUS
        <5>2. local'[c] = [local[c] EXCEPT !.phase = IF Lists(r.kind) THEN "list" ELSE "act"]
          BY <3>2 DEF TypeOK
        <5>3. local'[c] \in Hands /\ local'[c].tok = local[c].tok
          <6>1. local[c] \in Hands
            BY HandTypes
          <6> QED
            BY <5>1, <5>2, <6>1, HandUpdates
        <5>4. local' = [local EXCEPT ![c] = local'[c]]
          BY <3>2 DEF TypeOK
        <5> QED
          BY <5>3, <5>4 DEF TypeOK
      <4> QED
        BY <3>2, <4>1 DEF TypeOK, Places
    <3> QED
      BY <2>1, <3>1, <3>2 DEF Start
  <2> QED
    BY <2>2, <2>3, <2>4 DEF TypeOK, server, ghost, Places
<1>4. ASSUME NEW c \in Calls, UseToken(c)
      PROVE  TypeOK'
  <2> DEFINE hand == [local[c] EXCEPT !.tok = token[backend[c]]]
  <2>1. hand \in Hands /\ hand.tok = token[backend[c]] /\ hand.tok # NoToken /\ hand.tok <= issued
    <3>1. /\ local[c] \in Hands /\ token[backend[c]] \in Nat /\ token[backend[c]] <= issued
          /\ token[backend[c]] # NoToken
      BY <1>4, HandTypes DEF UseToken
    <3> QED
      BY <3>1, HandUpdates
  <2>2. Go(c, "send", hand)
    BY <1>4 DEF UseToken, Send
  <2>3. UNCHANGED <<token, server, backend, ghost>>
    BY <1>4 DEF UseToken
  <2> HIDE DEF hand
  <2>4. issued' \in Nat /\ issued <= issued' /\ "send" \in Places
    BY <2>3 DEF server, TypeOK, Places
  <2> QED
    BY <2>1, <2>2, <2>3, <2>4, GoType DEF TypeOK, server, ghost, Places
<1>5. ASSUME NEW c \in Calls, Login(c)
      PROVE  TypeOK'
  <2> DEFINE hand == [local[c] EXCEPT !.tok = issued']
  <2>1. issued' = issued + 1 /\ issued' \in Nat /\ issued <= issued' /\ issued' # NoToken
    BY <1>5 DEF TypeOK, Login, NoToken
  <2>2. hand \in Hands /\ hand.tok = issued'
    <3>1. local[c] \in Hands
      BY HandTypes
    <3> QED
      BY <2>1, <3>1, HandUpdates
  <2>3. Go(c, "send", hand) /\ "send" \in Places
    BY <1>5 DEF Login, Send, Places
  <2>4. UNCHANGED <<bins, trash, faults, backend, ghost>>
    BY <1>5 DEF Login
  <2>5. valid' \subseteq 1 .. issued' /\ token' \in [Backends -> 0 .. issued']
    BY <1>5, <2>1 DEF Login, TypeOK
  <2> HIDE DEF hand
  <2> QED
    BY <2>1, <2>2, <2>3, <2>4, <2>5, GoType DEF TypeOK, ghost, Places
<1>6. ASSUME NEW c \in Calls, LoginFails(c)
      PROVE  TypeOK'
  BY <1>6, EndType DEF LoginFails, TypeOK, server, ghost, Places, Outcomes
<1>7. ASSUME NEW c \in Calls, Fails(c) \/ Act(c)
      PROVE  TypeOK'
  <2>1. UNCHANGED <<token, valid, issued, bins, faults, backend, rejected>>
    BY <1>7 DEF Fails, Act
  <2>2. \E result \in Outcomes : End(c, result)
    BY <1>7 DEF Fails, Act, Outcomes
  <2>3. UNCHANGED <<trash, deleted, cleared>> \/ Effect(c)
    BY <1>7 DEF Fails, Act, MayHaveWorked
  <2>4. /\ trash' \subseteq TrashFiles
        /\ deleted' \subseteq [file : TrashFiles, req : Requests]
        /\ cleared' \in [Calls -> Nat]
    BY <2>3, EffectType DEF TypeOK
  <2> QED
    BY <2>1, <2>2, <2>4, EndType DEF TypeOK, Places
<1>8. ASSUME NEW c \in Calls, Unauthorized(c) \/ DropToken(c)
      PROVE  TypeOK'
  <2> DEFINE hand == [local[c] EXCEPT !.retried = TRUE, !.expired = FALSE]
  <2>1. hand \in Hands /\ hand.tok <= issued /\ local[c] \in Hands /\ local[c].tok <= issued
    BY HandTypes, HandUpdates
  <2>2. End(c, "unauthorized") \/ Go(c, "drop", hand) \/ Go(c, "login", local[c])
    BY <1>8 DEF Unauthorized, DropToken
  <2>3. UNCHANGED <<server, backend, deleted, cleared>>
    BY <1>8 DEF Unauthorized, DropToken, ghost
  <2>4. rejected' \in Nat /\ token' \in [Backends -> 0 .. issued]
    <3>1. rejected' \in Nat
      BY <1>8 DEF Unauthorized, DropToken, ghost, TypeOK
    <3>2. token' = token \/ token' = [token EXCEPT ![backend[c]] = NoToken]
      BY <1>8 DEF Unauthorized, DropToken
    <3>3. NoToken \in 0 .. issued
      BY HandTypes DEF NoToken
    <3> QED
      BY <3>1, <3>2, <3>3 DEF TypeOK
  <2>5. issued' = issued /\ issued \in Nat /\ "drop" \in Places /\ "login" \in Places
    BY <2>3 DEF server, TypeOK, Places
  <2> HIDE DEF hand
  <2>6. /\ pc' \in [Calls -> Places]
        /\ req' \in [Calls -> Requests]
        /\ local' \in [Calls -> Hands]
        /\ outcome' \in [Calls -> Outcomes \cup {"none"}]
        /\ \A d \in Calls : /\ local'[d].tok <= issued'
                            /\ pc'[d] = "send" => local'[d].tok # NoToken
    <3>1. CASE End(c, "unauthorized")
      BY <2>5, <3>1, EndType DEF Outcomes
    <3>2. CASE Go(c, "drop", hand)
      BY <2>1, <2>5, <3>2, GoType
    <3>3. CASE Go(c, "login", local[c])
      BY <2>1, <2>5, <3>3, GoType
    <3> QED
      BY <2>2, <3>1, <3>2, <3>3
  <2> QED
    BY <2>3, <2>4, <2>5, <2>6 DEF TypeOK, server, Places
<1>9. ASSUME NEW c \in Calls, GetPage(c)
      PROVE  TypeOK'
  <2> DEFINE all == local[c].got \o Batch(c)
             hand(exact) == [Fresh EXCEPT !.page = NextPage(local[c].page),
                                          !.got = all, !.exact = exact]
  <2>1. all \in Seq(Entries)
    BY BatchType
  <2>2. PICK exact \in BOOLEAN : Listed(c, all, exact) \/ Go(c, "login", hand(exact))
    BY <1>9 DEF GetPage, TypeOK, Hands
  <2>3. UNCHANGED <<token, server, backend, ghost>>
    BY <1>9 DEF GetPage
  <2>4. issued' = issued /\ issued \in Nat /\ "login" \in Places
    BY <2>3 DEF server, TypeOK, Places
  <2>5. hand(exact) \in Hands /\ hand(exact).tok = 0
    <3>1. NextPage(local[c].page) \in 1 .. MaxPage
      BY YanrongAssumption DEF NextPage, TypeOK, Hands
    <3> HIDE DEF all
    <3> QED
      BY <2>1, <3>1, RequestTypes DEF Hands, Fresh, NoToken
  <2>6. req[c].kind \in {"quotas", "recycles", "usage", "files", "clear"}
    <3>1. pc[c] = "send" /\ local[c].phase = "list" /\ req[c] \in Requests
      BY <1>9 DEF GetPage, Accepted, TypeOK
    <3>2. req[c].kind \notin {"refused", "usage text", "info"}
      BY <3>1 DEF Situated, UnderWay
    <3> QED
      BY ONLY <3>1, <3>2 DEF Requests
  <2> HIDE DEF all, hand
  <2>7. /\ pc' \in [Calls -> Places]
        /\ req' \in [Calls -> Requests]
        /\ local' \in [Calls -> Hands]
        /\ outcome' \in [Calls -> Outcomes \cup {"none"}]
        /\ \A d \in Calls : /\ local'[d].tok <= issued'
                            /\ pc'[d] = "send" => local'[d].tok # NoToken
    <3>1. CASE Listed(c, all, exact)
      BY <2>1, <2>4, <2>6, <3>1, ListedType
    <3>2. CASE Go(c, "login", hand(exact))
      BY <2>4, <2>5, <3>2, GoType
    <3> QED
      BY <2>2, <3>1, <3>2
  <2> QED
    BY <2>3, <2>7 DEF TypeOK, server, ghost, Places
<1>10. CASE UNCHANGED vars
  BY <1>10 DEF TypeOK, vars, server, client, ghost
<1> QED
  BY <1>1, <1>2, <1>3, <1>4, <1>5, <1>6, <1>7, <1>8, <1>9, <1>10 DEF Next, CallStep
--------------------------------------------------------------------------
(* What a step of one call changes. *)

LEMMA EndHand ==
    ASSUME TypeOK, NEW c \in Calls, NEW result, End(c, result)
    PROVE  /\ pc'[c] = "done" /\ outcome'[c] = result
           /\ local'[c].page = 1 /\ local'[c].got = <<>> /\ local'[c].target = {}
           /\ local'[c].retried = FALSE
BY DEF TypeOK, End, Fresh

LEMMA GoHand ==
    ASSUME TypeOK, NEW c \in Calls, NEW where, NEW hand, Go(c, where, hand)
    PROVE  pc'[c] = where /\ local'[c] = hand /\ req' = req /\ outcome' = outcome
BY DEF TypeOK, Go

(* A call that starts is refused, or is under way with its request.          *)
LEMMA Starts ==
    ASSUME TypeOK, Situated, NEW c \in Calls, StartAny(c)
    PROVE  /\ pc[c] = "idle" /\ UNCHANGED <<token, server, ghost>>
           /\ backend'[c] \in {Bot, c} /\ backend[c] = Bot
           /\ \/ End(c, "refused")
              \/ /\ pc'[c] = "login" /\ outcome' = outcome
                 /\ local'[c].phase = IF Lists(req'[c].kind) THEN "list" ELSE "act"
                 /\ local'[c].page = 1 /\ local'[c].got = <<>> /\ local'[c].target = {}
                 /\ local'[c].retried = FALSE
                 /\ req'[c].kind \notin {"refused", "usage text"}
<1>1. PICK r \in Requests, b \in {Bot, c} : Start(c, r, b)
  BY RequestTypes DEF StartAny
<1>2. pc[c] = "idle" /\ UNCHANGED <<token, server, ghost>> /\ backend'[c] = b
  BY <1>1 DEF Start, TypeOK
<1>3. /\ backend[c] = Bot /\ local[c] \in Hands
      /\ local[c].page = 1 /\ local[c].got = <<>> /\ local[c].target = {} /\ ~local[c].retried
  BY <1>2, HandTypes DEF Situated, UnderWay
<1>4. CASE ~End(c, "refused")
  <2>1. /\ pc'[c] = "login" /\ outcome' = outcome /\ req'[c] = r
        /\ local'[c] = [local[c] EXCEPT !.phase = IF Lists(r.kind) THEN "list" ELSE "act"]
        /\ r.kind \notin {"refused", "usage text"}
    BY <1>1, <1>4 DEF Start, TypeOK
  <2> QED
    BY <1>2, <1>3, <2>1, HandTypes DEF Hands
<1> QED
  BY <1>2, <1>3, <1>4

LEMMA PageKind ==
    ASSUME TypeOK, Situated, NEW c \in Calls, GetPage(c)
    PROVE  req[c].kind \in {"quotas", "recycles", "usage", "files", "clear"}
<1>1. pc[c] = "send" /\ local[c].phase = "list"
  BY DEF GetPage, Accepted
<1>2. req[c].kind \notin {"refused", "usage text", "info"}
  BY <1>1 DEF Situated, UnderWay
<1>3. req[c] \in Requests
  BY DEF TypeOK
<1> QED
  BY ONLY <1>2, <1>3 DEF Requests

(* A step of a call is about that call, and the bins stay as they are.       *)
LEMMA OtherCalls ==
    ASSUME TypeOK, Situated, NEW c \in Calls, StartAny(c) \/ CallStep(c),
           NEW d \in Calls, d # c
    PROVE  /\ pc'[d] = pc[d] /\ req'[d] = req[d] /\ backend'[d] = backend[d]
           /\ local'[d] = local[d] /\ outcome'[d] = outcome[d] /\ cleared'[d] = cleared[d]
           /\ bins' = bins /\ faults' = faults
<1>1. CASE StartAny(c)
  <2>1. PICK r \in Requests, b \in {Bot, c} : Start(c, r, b)
    BY <1>1, RequestTypes DEF StartAny
  <2> QED
    BY <2>1 DEF Start, End, TypeOK, server, ghost
<1>2. CASE UseToken(c) \/ Login(c) \/ LoginFails(c)
  BY <1>2 DEF UseToken, Login, LoginFails, Send, Go, End, TypeOK, server, ghost
<1>3. CASE Fails(c) \/ Act(c)
  BY <1>3 DEF Fails, Act, MayHaveWorked, Effect, End, TypeOK
<1>4. CASE Unauthorized(c) \/ DropToken(c)
  BY <1>4 DEF Unauthorized, DropToken, Go, End, TypeOK, server, ghost
<1>5. CASE GetPage(c)
  <2>1. UNCHANGED <<server, backend, ghost>>
    BY <1>5 DEF GetPage
  <2>2. (\E result : End(c, result)) \/ (\E where, hand : Go(c, where, hand))
    BY <1>5, ListedCases, PageKind DEF GetPage
  <2> QED
    BY <2>1, <2>2 DEF Go, End, TypeOK, server, ghost
<1> QED
  BY <1>1, <1>2, <1>3, <1>4, <1>5 DEF CallStep

(* What a call does with a page: it returns, picks a bin from what it has got, *)
(* or asks for the next page.                                                 *)
All(c) == local[c].got \o Batch(c)
Turning(c, exact) ==
    [Fresh EXCEPT !.page = NextPage(local[c].page), !.got = All(c), !.exact = exact]

LEMMA TurningHand ==
    ASSUME NEW c \in Calls, NEW exact
    PROVE  /\ Turning(c, exact).phase = "list" /\ Turning(c, exact).got = All(c)
           /\ Turning(c, exact).page = NextPage(local[c].page)
           /\ Turning(c, exact).target = {} /\ Turning(c, exact).exact = exact
           /\ Turning(c, exact).retried = FALSE
BY DEF Turning, Fresh

LEMMA ChoosingHand ==
    ASSUME NEW c \in Calls, NEW all, NEW exact
    PROVE  /\ Choosing(c, all, exact).phase = "act"
           /\ Choosing(c, all, exact).target
                 = PickRecycle(all, NormalizeQuotaPath(req[c].path))
           /\ Choosing(c, all, exact).exact = exact
           /\ Choosing(c, all, exact).retried = FALSE
BY DEF Choosing, Fresh

LEMMA PageCases ==
    ASSUME TypeOK, Situated, NEW c \in Calls, GetPage(c)
    PROVE  \E exact \in BOOLEAN :
              /\ exact => local[c].exact
              /\ \/ \E result \in Outcomes \ {"cleared", "failed"} : End(c, result)
                 \/ /\ Go(c, "login", Choosing(c, All(c), exact))
                    /\ exact => LastPage(Len(Listing(c)), All(c), Batch(c))
                    /\ req[c].kind \in {"files", "clear"}
                    /\ req[c].kind = "clear" =>
                          /\ ~req[c].dry
                          /\ CheckUserDirPath(NormalizeQuotaPath(req[c].path), req[c].prefixes)
                 \/ /\ Go(c, "login", Turning(c, exact))
                    /\ exact => ~LastPage(Len(Listing(c)), All(c), Batch(c))
<1>1. PICK total \in {0, Len(Listing(c)), Len(Listing(c)) + 1} :
          IF LastPage(total, All(c), Batch(c))
          THEN Listed(c, All(c), local[c].exact /\ total = Len(Listing(c)))
          ELSE Go(c, "login", Turning(c, local[c].exact /\ total = Len(Listing(c))))
  BY DEF GetPage, All, Turning
<1> DEFINE exact == local[c].exact /\ total = Len(Listing(c))
<1>2. exact \in BOOLEAN /\ (exact => local[c].exact)
  BY HandTypes
<1>3. exact => total = Len(Listing(c))
  OBVIOUS
<1>4. \/ LastPage(total, All(c), Batch(c)) /\ Listed(c, All(c), exact)
      \/ ~LastPage(total, All(c), Batch(c)) /\ Go(c, "login", Turning(c, exact))
  BY <1>1
<1> HIDE DEF exact
<1>5. CASE LastPage(total, All(c), Batch(c)) /\ Listed(c, All(c), exact)
  BY <1>2, <1>3, <1>5, PageKind, ListedCases
<1>6. CASE ~LastPage(total, All(c), Batch(c)) /\ Go(c, "login", Turning(c, exact))
  BY <1>2, <1>3, <1>6
<1> QED
  BY <1>4, <1>5, <1>6
--------------------------------------------------------------------------
(* Each part of the invariant is kept by each step. *)

LEMMA SituatedStep ==
    ASSUME TypeOK, Situated, [Next]_vars
    PROVE  Situated'
<1>1. CASE Expire \/ CreateBin \/ RemoveBin
  <2>1. UNCHANGED <<pc, req, backend, outcome, cleared>>
    BY <1>1 DEF Expire, CreateBin, RemoveBin, Changed, ghost
  <2> QED
    BY <1>1, <2>1, StorageHands DEF Situated, UnderWay
<1>2. ASSUME NEW c \in Calls, StartAny(c) \/ CallStep(c),
             /\ ~UnderWay(c)' => /\ local'[c].page = 1 /\ local'[c].got = <<>>
                                 /\ local'[c].target = {} /\ ~local'[c].retried
             /\ UnderWay(c)' => /\ req'[c].kind \notin {"refused", "usage text"}
                                /\ local'[c].phase = "list" => req'[c].kind # "info"
             /\ pc'[c] # "done" => outcome'[c] = "none" /\ cleared'[c] = 0
             /\ pc'[c] # "idle"
      PROVE  Situated'
  <2>1. ASSUME NEW d \in Calls, d # c
        PROVE  /\ ~UnderWay(d)' => /\ local'[d].page = 1 /\ local'[d].got = <<>>
                                   /\ local'[d].target = {} /\ ~local'[d].retried
               /\ UnderWay(d)' => /\ req'[d].kind \notin {"refused", "usage text"}
                                  /\ local'[d].phase = "list" => req'[d].kind # "info"
               /\ pc'[d] # "done" => outcome'[d] = "none" /\ cleared'[d] = 0
               /\ pc'[d] = "idle" => backend'[d] = Bot
    <3>1. /\ pc'[d] = pc[d] /\ req'[d] = req[d] /\ backend'[d] = backend[d]
          /\ local'[d] = local[d] /\ outcome'[d] = outcome[d] /\ cleared'[d] = cleared[d]
      BY <1>2, <2>1, OtherCalls
    <3> QED
      BY <3>1 DEF Situated, UnderWay
  <2> QED
    BY <1>2, <2>1 DEF Situated
<1>3. ASSUME NEW c \in Calls, StartAny(c)
      PROVE  Situated'
  <2>1. outcome[c] = "none" /\ cleared[c] = 0 /\ cleared' = cleared
    BY <1>3, Starts DEF Situated, ghost
  <2>2. backend'[c] \in {Bot, c}
    BY <1>3, Starts
  <2>3. CASE End(c, "refused")
    BY <1>2, <1>3, <2>1, <2>2, <2>3, EndHand DEF UnderWay
  <2>4. CASE /\ pc'[c] = "login" /\ outcome' = outcome
             /\ local'[c].phase = IF Lists(req'[c].kind) THEN "list" ELSE "act"
             /\ local'[c].page = 1 /\ local'[c].got = <<>> /\ local'[c].target = {}
             /\ local'[c].retried = FALSE
             /\ req'[c].kind \notin {"refused", "usage text"}
    BY <1>2, <1>3, <2>1, <2>2, <2>4 DEF UnderWay, Lists
  <2> QED
    BY <1>3, <2>3, <2>4, Starts
<1>4. ASSUME NEW c \in Calls, CallStep(c)
      PROVE  Situated'
  <2>1. UnderWay(c) /\ outcome[c] = "none" /\ cleared[c] = 0
    BY <1>4 DEF CallStep, UseToken, Login, LoginFails, Fails, Unauthorized, DropToken, GetPage,
                Act, MayHaveWorked, Accepted, Works, Situated, UnderWay
  <2>2. CASE \E result : End(c, result)
    BY <1>2, <1>4, <2>2, EndHand DEF UnderWay
  <2>3. ASSUME NEW where \in {"login", "send", "drop"}, NEW hand, Go(c, where, hand),
               hand.phase = local[c].phase \/ hand.phase = "act" \/ req[c].kind # "info",
               cleared' = cleared
        PROVE  Situated'
    <3>1. pc'[c] = where /\ local'[c] = hand /\ req' = req /\ outcome' = outcome
      BY <2>3, GoHand
    <3>2. /\ req[c].kind \notin {"refused", "usage text"}
          /\ local[c].phase = "list" => req[c].kind # "info"
      BY <2>1 DEF Situated
    <3> QED
      BY <1>2, <1>4, <2>1, <2>3, <3>1, <3>2 DEF UnderWay
  <2>4. CASE LoginFails(c) \/ Fails(c) \/ Act(c)
    BY <2>2, <2>4 DEF LoginFails, Fails, Act
  <2>5. CASE UseToken(c) \/ Login(c)
    <3>1. PICK t : Go(c, "send", [local[c] EXCEPT !.tok = t]) /\ cleared' = cleared
      BY <2>5 DEF UseToken, Login, Send, ghost
    <3>2. [local[c] EXCEPT !.tok = t].phase = local[c].phase
      BY HandTypes DEF Hands
    <3> QED
      BY <2>3, <3>1, <3>2
  <2>6. CASE Unauthorized(c) \/ DropToken(c)
    <3>1. [local[c] EXCEPT !.retried = TRUE, !.expired = FALSE].phase = local[c].phase
      BY HandTypes DEF Hands
    <3>2. \/ \E result : End(c, result)
          \/ /\ cleared' = cleared
             /\ \/ Go(c, "drop", [local[c] EXCEPT !.retried = TRUE, !.expired = FALSE])
                \/ Go(c, "login", local[c])
      BY <2>6 DEF Unauthorized, DropToken, ghost
    <3> QED
      BY <2>2, <2>3, <3>1, <3>2
  <2>7. CASE GetPage(c)
    <3>1. req[c].kind # "info" /\ cleared' = cleared
      BY <2>7, PageKind DEF GetPage, ghost
    <3>2. (\E result : End(c, result)) \/ (\E hand : Go(c, "login", hand))
      BY <2>7, PageCases
    <3> QED
      BY <2>2, <2>3, <3>1, <3>2
  <2> QED
    BY <1>4, <2>4, <2>5, <2>6, <2>7 DEF CallStep
<1>5. CASE UNCHANGED vars
  BY <1>5 DEF vars, server, client, ghost, Situated, UnderWay
<1> QED
  BY <1>1, <1>3, <1>4, <1>5 DEF Next

(* But for a page that it gets, a call that goes on keeps its request, what it *)
(* has got and the bin it has chosen.                                          *)
LEMMA CallCases ==
    ASSUME TypeOK, Situated, NEW c \in Calls, CallStep(c)
    PROVE  /\ UnderWay(c) /\ bins' = bins
           /\ \/ \E result \in Outcomes : End(c, result)
              \/ /\ UnderWay(c)' /\ req' = req /\ UNCHANGED <<deleted, cleared>>
                 /\ \/ /\ local'[c].phase = local[c].phase
                       /\ local'[c].page = local[c].page /\ local'[c].got = local[c].got
                       /\ local'[c].target = local[c].target /\ local'[c].exact = local[c].exact
                    \/ GetPage(c)
<1>1. UnderWay(c) /\ bins' = bins
  BY DEF CallStep, UseToken, Login, LoginFails, Fails, Unauthorized, DropToken, GetPage,
         Act, MayHaveWorked, Accepted, Works, UnderWay, server
<1>2. CASE LoginFails(c) \/ Fails(c) \/ Act(c)
  BY <1>1, <1>2 DEF LoginFails, Fails, Act, Outcomes
<1>3. CASE UseToken(c) \/ Login(c)
  <2>1. PICK t : Go(c, "send", [local[c] EXCEPT !.tok = t]) /\ UNCHANGED <<deleted, cleared>>
    BY <1>3 DEF UseToken, Login, Send, ghost
  <2>2. /\ pc'[c] = "send" /\ req' = req
        /\ local'[c] = [local[c] EXCEPT !.tok = t]
    BY <2>1, GoHand
  <2> QED
    BY <1>1, <2>1, <2>2, HandTypes DEF Hands, UnderWay
<1>4. CASE Unauthorized(c) \/ DropToken(c)
  <2> DEFINE hand == [local[c] EXCEPT !.retried = TRUE, !.expired = FALSE]
  <2>1. /\ hand.phase = local[c].phase /\ hand.page = local[c].page /\ hand.got = local[c].got
        /\ hand.target = local[c].target /\ hand.exact = local[c].exact
    BY HandTypes DEF Hands
  <2>2. \/ End(c, "unauthorized")
        \/ /\ UNCHANGED <<deleted, cleared>>
           /\ Go(c, "drop", hand) \/ Go(c, "login", local[c])
    BY <1>4 DEF Unauthorized, DropToken, ghost
  <2> HIDE DEF hand
  <2>3. CASE End(c, "unauthorized")
    BY <1>1, <2>3 DEF Outcomes
  <2>4. CASE UNCHANGED <<deleted, cleared>> /\ (Go(c, "drop", hand) \/ Go(c, "login", local[c]))
    <3>1. pc'[c] \in {"drop", "login"} /\ req' = req /\ local'[c] \in {hand, local[c]}
      BY <2>4, GoHand
    <3> QED
      BY <1>1, <2>1, <2>4, <3>1 DEF UnderWay
  <2> QED
    BY <2>2, <2>3, <2>4
<1>5. CASE GetPage(c)
  <2>1. (\E result \in Outcomes : End(c, result)) \/ (\E hand : Go(c, "login", hand))
    BY <1>5, PageCases
  <2>2. ASSUME NEW hand, Go(c, "login", hand)
        PROVE  pc'[c] = "login" /\ req' = req
    BY <2>2, GoHand
  <2> QED
    BY <1>1, <1>5, <2>1, <2>2 DEF GetPage, ghost, UnderWay
<1> QED
  BY <1>2, <1>3, <1>4, <1>5 DEF CallStep

LEMMA PermittedStep ==
    ASSUME TypeOK, Situated, Permitted, [Next]_vars
    PROVE  Permitted'
<1> DEFINE Fit(c) == UnderWay(c) /\ Clears(c) =>
                /\ ~req[c].dry
                /\ CheckUserDirPath(NormalizeQuotaPath(req[c].path), req[c].prefixes)
<1>1. CASE Expire \/ CreateBin \/ RemoveBin
  <2>1. UNCHANGED <<pc, req>>
    BY <1>1 DEF Expire, CreateBin, RemoveBin, Changed
  <2> QED
    BY <1>1, <2>1, StorageHands DEF Permitted, Clears, UnderWay
<1>2. ASSUME NEW c \in Calls, StartAny(c) \/ CallStep(c), Fit(c)'
      PROVE  Permitted'
  <2>1. ASSUME NEW d \in Calls, d # c
        PROVE  Fit(d)'
    <3>1. pc'[d] = pc[d] /\ req'[d] = req[d] /\ local'[d] = local[d]
      BY <1>2, <2>1, OtherCalls
    <3> QED
      BY <3>1 DEF Permitted, Clears, UnderWay
  <2> QED
    BY <1>2, <2>1 DEF Permitted
<1>3. ASSUME NEW c \in Calls, StartAny(c)
      PROVE  Fit(c)'
  BY <1>3, Starts, EndHand DEF Clears, UnderWay, Lists
<1>4. ASSUME NEW c \in Calls, CallStep(c)
      PROVE  Fit(c)'
  <2>1. CASE \E result : End(c, result)
    BY <2>1, EndHand DEF UnderWay
  <2>2. CASE req' = req /\ UnderWay(c) /\ local'[c].phase = local[c].phase
    BY <2>2 DEF Permitted, Clears
  <2>3. CASE GetPage(c) /\ req' = req
    <3>1. PICK exact \in BOOLEAN :
              \/ \E result : End(c, result)
              \/ /\ Go(c, "login", Choosing(c, All(c), exact))
                 /\ req[c].kind = "clear" =>
                       /\ ~req[c].dry
                       /\ CheckUserDirPath(NormalizeQuotaPath(req[c].path), req[c].prefixes)
              \/ Go(c, "login", Turning(c, exact))
      BY <2>3, PageCases
    <3>2. CASE Go(c, "login", Turning(c, exact))
      <4>1. local'[c] = Turning(c, exact)
        BY <3>2, GoHand
      <4>2. Turning(c, exact).phase = "list"
        BY TurningHand
      <4>3. local'[c].phase = "list"
        BY <4>1, <4>2
      <4> QED
        BY <4>3 DEF Clears
    <3> QED
      BY <2>1, <2>3, <3>1, <3>2 DEF Clears
  <2> QED
    BY <1>4, <2>1, <2>2, <2>3, CallCases
<1>5. CASE UNCHANGED vars
  BY <1>5 DEF vars, client, Permitted, Clears, UnderWay
<1> QED
  BY <1>1, <1>2, <1>3, <1>4, <1>5 DEF Next

(* A retry carries a token obtained after its 401: until a token expires, the  *)
(* cache it looks into after dropping the token is empty or was filled since.  *)
LEMMA RenewedStep ==
    ASSUME TypeOK, Situated, Renewed, [Next]_vars
    PROVE  Renewed'
<1> DEFINE Good(c) == local[c].retried /\ ~local[c].expired =>
                /\ pc[c] = "login" => token[backend[c]] \in valid \cup {NoToken}
                /\ pc[c] = "send" => local[c].tok \in valid
<1>1. CASE Expire
  <2>1. ASSUME NEW c \in Calls
        PROVE  local'[c].expired = local[c].retried
    BY <1>1, HandTypes DEF Expire, Hands
  <2> QED
    BY <1>1, <2>1, StorageHands DEF Renewed
<1>2. CASE CreateBin \/ RemoveBin
  <2>1. ASSUME NEW c \in Calls
        PROVE  local'[c].expired = local[c].expired
    BY <1>2, HandTypes DEF CreateBin, RemoveBin, Changed, Hands
  <2>2. UNCHANGED <<token, valid, pc, backend>>
    BY <1>2 DEF CreateBin, RemoveBin, Changed
  <2> QED
    BY <1>2, <2>1, <2>2, StorageHands DEF Renewed
<1>3. ASSUME NEW c \in Calls, StartAny(c) \/ CallStep(c), Good(c)',
             valid \subseteq valid',
             \A b \in Backends : token'[b] = token[b] \/ token'[b] \in valid' \cup {NoToken}
      PROVE  Renewed'
  <2>1. ASSUME NEW d \in Calls, d # c
        PROVE  Good(d)'
    <3>1. pc'[d] = pc[d] /\ local'[d] = local[d] /\ backend'[d] = backend[d]
      BY <1>3, <2>1, OtherCalls
    <3>2. backend[d] \in Backends
      BY DEF TypeOK
    <3>3. Good(d)
      BY DEF Renewed
    <3> QED
      BY <1>3, <3>1, <3>2, <3>3
  <2> QED
    BY <1>3, <2>1 DEF Renewed
<1>4. ASSUME NEW c \in Calls, StartAny(c)
      PROVE  Renewed'
  <2>1. valid' = valid /\ token' = token /\ local'[c].retried = FALSE
    BY <1>4, Starts, EndHand DEF server
  <2> QED
    BY <1>3, <1>4, <2>1
<1>5. ASSUME NEW c \in Calls, CallStep(c)
      PROVE  Renewed'
  <2>1. CASE (\E result : End(c, result)) /\ UNCHANGED <<token, valid>>
    <3>1. local'[c].retried = FALSE
      BY <2>1, EndHand
    <3> QED
      BY <1>3, <1>5, <2>1, <3>1
  <2>2. CASE LoginFails(c) \/ Fails(c) \/ Act(c)
    BY <2>1, <2>2 DEF LoginFails, Fails, Act, server
  <2>3. CASE UseToken(c)
    <3>1. /\ pc[c] = "login" /\ token[backend[c]] # NoToken /\ UNCHANGED <<token, valid>>
          /\ Go(c, "send", [local[c] EXCEPT !.tok = token[backend[c]]])
      BY <2>3 DEF UseToken, Send, server
    <3>2. /\ pc'[c] = "send" /\ local'[c].tok = token[backend[c]]
          /\ local'[c].retried = local[c].retried /\ local'[c].expired = local[c].expired
      BY <3>1, GoHand, HandTypes DEF Hands
    <3>3. Good(c)'
      BY <3>1, <3>2 DEF Renewed
    <3> QED
      BY <1>3, <1>5, <3>1, <3>3
  <2>4. CASE Login(c)
    <3>1. /\ valid' = valid \cup {issued'} /\ token' = [token EXCEPT ![backend[c]] = issued']
          /\ Go(c, "send", [local[c] EXCEPT !.tok = issued'])
      BY <2>4 DEF Login, Send
    <3>2. pc'[c] = "send" /\ local'[c].tok = issued'
      BY <3>1, GoHand, HandTypes DEF Hands
    <3>3. \A b \in Backends : token'[b] = token[b] \/ token'[b] \in valid'
      BY <3>1 DEF TypeOK
    <3>4. Good(c)'
      BY <3>1, <3>2
    <3> QED
      BY <1>3, <1>5, <3>1, <3>3, <3>4
  <2>5. CASE Unauthorized(c)
    <3>1. UNCHANGED <<token, valid>>
      BY <2>5 DEF Unauthorized, server
    <3>2. (\E result : End(c, result)) \/ pc'[c] = "drop"
      BY <2>5, GoHand DEF Unauthorized
    <3> QED
      BY <1>3, <1>5, <2>1, <3>1, <3>2
  <2>6. CASE DropToken(c)
    <3>1. /\ token' = [token EXCEPT ![backend[c]] = NoToken] /\ valid' = valid
          /\ backend' = backend
          /\ Go(c, "login", local[c])
      BY <2>6 DEF DropToken, server
    <3>2. /\ backend[c] \in Backends /\ token'[backend[c]] = NoToken
          /\ \A b \in Backends : token'[b] = token[b] \/ token'[b] = NoToken
      BY <3>1 DEF TypeOK
    <3>3. pc'[c] = "login"
      BY <3>1, GoHand
    <3>4. Good(c)'
      BY <3>1, <3>2, <3>3
    <3> QED
      BY <1>3, <1>5, <3>1, <3>2, <3>4
  <2>7. CASE GetPage(c)
    <3>1. UNCHANGED <<token, valid>>
      BY <2>7 DEF GetPage, server
    <3>2. local'[c].retried = FALSE
      <4>1. PICK exact \in BOOLEAN :
                \/ \E result : End(c, result)
                \/ Go(c, "login", Choosing(c, All(c), exact))
                \/ Go(c, "login", Turning(c, exact))
        BY <2>7, PageCases
      <4>2. CASE \E result : End(c, result)
        BY <4>2, EndHand
      <4>3. CASE Go(c, "login", Choosing(c, All(c), exact))
        <5>1. local'[c] = Choosing(c, All(c), exact)
          BY <4>3, GoHand
        <5>2. Choosing(c, All(c), exact).retried = FALSE
          BY ChoosingHand
        <5> QED
          BY <5>1, <5>2
      <4>4. CASE Go(c, "login", Turning(c, exact))
        <5>1. local'[c] = Turning(c, exact)
          BY <4>4, GoHand
        <5>2. Turning(c, exact).retried = FALSE
          BY TurningHand
        <5> QED
          BY <5>1, <5>2
      <4> QED
        BY <4>1, <4>2, <4>3, <4>4
    <3> QED
      BY <1>3, <1>5, <3>1, <3>2
  <2> QED
    BY <1>5, <2>2, <2>3, <2>4, <2>5, <2>6, <2>7 DEF CallStep
<1>6. CASE UNCHANGED vars
  BY <1>6 DEF vars, server, client, Renewed
<1> QED
  BY <1>1, <1>2, <1>4, <1>5, <1>6 DEF Next

(* Only the last step of a call clears something, and it is permitted.        *)
LEMMA ClearedStep ==
    ASSUME TypeOK, Situated, ClearedAsReported, [Next]_vars
    PROVE  ClearedAsReported'
<1> DEFINE Told(c) == /\ cleared[c] <= 1
                      /\ outcome[c] = "cleared" => cleared[c] = 1
                      /\ outcome[c] \notin {"cleared", "failed"} => cleared[c] = 0
<1>1. CASE Expire \/ CreateBin \/ RemoveBin \/ UNCHANGED vars
  <2>1. UNCHANGED <<outcome, cleared>>
    BY <1>1 DEF Expire, CreateBin, RemoveBin, Changed, ghost, vars, client
  <2> QED
    BY <2>1 DEF ClearedAsReported
<1>2. ASSUME NEW c \in Calls, StartAny(c) \/ CallStep(c), Told(c)'
      PROVE  ClearedAsReported'
  <2>1. ASSUME NEW d \in Calls, d # c
        PROVE  Told(d)'
    BY <1>2, <2>1, OtherCalls DEF ClearedAsReported
  <2> QED
    BY <1>2, <2>1 DEF ClearedAsReported
<1>3. ASSUME NEW c \in Calls, StartAny(c)
      PROVE  Told(c)'
  <2>1. cleared[c] = 0 /\ outcome[c] = "none" /\ cleared' = cleared
    BY <1>3, Starts DEF Situated, ghost
  <2>2. CASE End(c, "refused")
    <3>1. cleared'[c] = 0 /\ outcome'[c] = "refused"
      BY <2>1, <2>2, EndHand
    <3> QED
      BY <3>1
  <2>3. CASE outcome' = outcome
    <3>1. cleared'[c] = 0 /\ outcome'[c] = "none"
      BY <2>1, <2>3
    <3> QED
      BY <3>1
  <2> QED
    BY <1>3, <2>2, <2>3, Starts
<1>4. ASSUME NEW c \in Calls, CallStep(c)
      PROVE  Told(c)'
  <2>1. cleared[c] = 0 /\ outcome[c] = "none" /\ cleared \in [Calls -> Nat]
    BY <1>4, CallCases DEF Situated, UnderWay, TypeOK
  <2>2. CASE Act(c)
    <3>1. cleared'[c] = IF Clears(c) THEN 1 ELSE 0
      BY <2>1, <2>2 DEF Act, Effect
    <3>2. outcome'[c] = IF Clears(c) THEN "cleared" ELSE "ok"
      BY <2>2, EndHand DEF Act
    <3> QED
      BY <3>1, <3>2
  <2>3. CASE Fails(c)
    <3>1. cleared'[c] \in {0, 1}
      BY <2>1, <2>3 DEF Fails, MayHaveWorked, Effect
    <3>2. outcome'[c] = "failed"
      BY <2>3, EndHand DEF Fails
    <3> QED
      BY <3>1, <3>2
  <2>4. CASE cleared' = cleared /\ outcome'[c] # "cleared"
    BY <2>1, <2>4
  <2>5. CASE UseToken(c) \/ Login(c) \/ LoginFails(c) \/ Unauthorized(c) \/ DropToken(c)
    <3>1. cleared' = cleared
      BY <2>5 DEF UseToken, Login, LoginFails, Unauthorized, DropToken, ghost
    <3>2. \/ End(c, "failed") \/ End(c, "unauthorized")
          \/ \E where, hand : Go(c, where, hand)
      BY <2>5 DEF UseToken, Login, LoginFails, Unauthorized, DropToken, Send
    <3>3. CASE End(c, "failed") \/ End(c, "unauthorized")
      <4>1. outcome'[c] \in {"failed", "unauthorized"}
        BY <3>3, EndHand
      <4> QED
        BY <2>4, <3>1, <4>1
    <3>4. CASE \E where, hand : Go(c, where, hand)
      <4>1. outcome'[c] = "none"
        BY <2>1, <3>4, GoHand
      <4> QED
        BY <2>4, <3>1, <4>1
    <3> QED
      BY <3>2, <3>3, <3>4
  <2>6. CASE GetPage(c)
    <3>1. cleared' = cleared
      BY <2>6 DEF GetPage, ghost
    <3>2. \/ \E result \in Outcomes \ {"cleared", "failed"} : End(c, result)
          \/ \E hand : Go(c, "login", hand)
      BY <2>6, PageCases
    <3>3. CASE \E result \in Outcomes \ {"cleared", "failed"} : End(c, result)
      BY <2>4, <3>1, <3>3, EndHand
    <3>4. CASE \E hand : Go(c, "login", hand)
      <4>1. outcome'[c] = "none"
        BY <2>1, <3>4, GoHand
      <4> QED
        BY <2>4, <3>1, <4>1
    <3> QED
      BY <3>2, <3>3, <3>4
  <2> QED
    BY <1>4, <2>2, <2>3, <2>5, <2>6 DEF CallStep
<1> QED
  BY <1>1, <1>2, <1>3, <1>4 DEF Next

(* What is cleared lies under a user's directory: the path of the clear lies   *)
(* strictly below a configured prefix, and the file below that path.           *)
LEMMA DoomedIsPermitted ==
    ASSUME TypeOK, Permitted, NEW c \in Calls, UnderWay(c), Clears(c), NEW f \in Doomed(c)
    PROVE  /\ req[c].kind = "clear" /\ ~req[c].dry
           /\ PathHasPrefix(f.path, NormalizeQuotaPath(req[c].path))
           /\ \E scope \in {"private", "public"} :
                 /\ req[c].prefixes[scope] # Empty
                 /\ Len(NormalizeQuotaPath(req[c].path))
                       > Len(NormalizeQuotaPath(req[c].prefixes[scope]))
                 /\ PathHasPrefix(f.path, NormalizeQuotaPath(req[c].prefixes[scope]))
<1> DEFINE clean == NormalizeQuotaPath(req[c].path)
<1>1. req[c].kind = "clear" /\ ~req[c].dry /\ PathHasPrefix(f.path, clean)
  BY DEF Permitted, Clears, Doomed
<1>2. PICK scope \in {"private", "public"} :
          /\ req[c].prefixes[scope] # Empty
          /\ PathStrictlyUnder(clean, NormalizeQuotaPath(req[c].prefixes[scope]))
  BY DEF Permitted, CheckUserDirPath
<1> DEFINE prefix == NormalizeQuotaPath(req[c].prefixes[scope])
<1>3. req[c].path \in Texts /\ req[c].prefixes[scope] \in Texts
  <2>1. req[c] \in Requests
    BY DEF TypeOK
  <2>2. req[c].prefixes.private \in Texts /\ req[c].prefixes.public \in Texts
    BY <2>1 DEF Requests
  <2> QED
    BY <2>1, <2>2 DEF Requests
<1>4. /\ clean \in Texts /\ Len(clean) \in Nat
      /\ prefix \in Texts /\ Len(prefix) \in Nat
      /\ f.path \in Texts
  BY <1>3, NormalizeType DEF Doomed, TypeOK, TrashFiles
<1>5. IsPrefix(prefix, clean) /\ prefix # clean /\ IsPrefix(clean, f.path)
  BY <1>1, <1>2 DEF PathStrictlyUnder, PathHasPrefix
<1> HIDE DEF clean, prefix
<1>6. Len(prefix) < Len(clean)
  BY <1>4, <1>5, PrefixIsShorter
<1>7. IsPrefix(prefix, f.path)
  BY <1>4, <1>5, PrefixTransitive
<1> QED
  BY <1>1, <1>2, <1>4, <1>6, <1>7 DEF PathHasPrefix, clean, prefix

LEMMA AskedForStep ==
    ASSUME TypeOK, Permitted, ClearsWereAskedFor, [Next]_vars
    PROVE  ClearsWereAskedFor'
<1>1. ASSUME deleted' = deleted
      PROVE  ClearsWereAskedFor'
  BY <1>1 DEF ClearsWereAskedFor
<1>2. ASSUME NEW c \in Calls, Effect(c), UnderWay(c)
      PROVE  ClearsWereAskedFor'
  <2>1. CASE ~Clears(c)
    BY <1>1, <1>2, <2>1 DEF Effect
  <2>2. CASE Clears(c)
    <3>1. deleted' = deleted \cup {[file |-> f, req |-> req[c]] : f \in Doomed(c)}
      BY <1>2, <2>2 DEF Effect
    <3>2. ASSUME NEW f \in Doomed(c)
          PROVE  /\ req[c].kind = "clear" /\ ~req[c].dry
                 /\ PathHasPrefix(f.path, NormalizeQuotaPath(req[c].path))
                 /\ \E scope \in {"private", "public"} :
                       /\ req[c].prefixes[scope] # Empty
                       /\ Len(NormalizeQuotaPath(req[c].path))
                             > Len(NormalizeQuotaPath(req[c].prefixes[scope]))
                       /\ PathHasPrefix(f.path, NormalizeQuotaPath(req[c].prefixes[scope]))
      BY <1>2, <2>2, DoomedIsPermitted
    <3> QED
      BY <3>1, <3>2 DEF ClearsWereAskedFor
  <2> QED
    BY <2>1, <2>2
<1>3. CASE Expire \/ CreateBin \/ RemoveBin \/ UNCHANGED vars
  BY <1>1, <1>3 DEF Expire, CreateBin, RemoveBin, Changed, vars, ghost
<1>4. ASSUME NEW c \in Calls, StartAny(c)
      PROVE  ClearsWereAskedFor'
  BY <1>1, <1>4 DEF StartAny, Start, ghost
<1>5. ASSUME NEW c \in Calls, CallStep(c)
      PROVE  ClearsWereAskedFor'
  <2>1. deleted' = deleted \/ (Effect(c) /\ UnderWay(c))
    BY <1>5 DEF CallStep, UseToken, Login, LoginFails, Fails, Unauthorized, DropToken, GetPage,
                Act, MayHaveWorked, Works, Accepted, UnderWay, ghost
  <2> QED
    BY <1>1, <1>2, <2>1
<1> QED
  BY <1>3, <1>4, <1>5 DEF Next
--------------------------------------------------------------------------
(* Logins are counted. *)

LEMMA Counting ==
    ASSUME NEW T, IsFiniteSet(T), NEW S \in SUBSET T, NEW x \in T
    PROVE  /\ Cardinality(S) \in Nat
           /\ Cardinality(S \cup {x}) = IF x \in S THEN Cardinality(S) ELSE Cardinality(S) + 1
           /\ Cardinality(S \ {x}) = IF x \in S THEN Cardinality(S) - 1 ELSE Cardinality(S)
<1>1. IsFiniteSet(S)
  BY FS_Subset
<1>2. Cardinality(S) \in Nat
  BY <1>1, FS_CardinalityType
<1>3. x \in S => S \cup {x} = S
  OBVIOUS
<1>4. x \notin S => S \ {x} = S
  OBVIOUS
<1> QED
  BY <1>1, <1>2, <1>3, <1>4, FS_AddElement, FS_RemoveElement

LEMMA BackendCount ==
    ASSUME TypeOK
    PROVE  /\ IsFiniteSet(Calls) /\ IsFiniteSet(Backends) /\ Bot \notin Calls
           /\ Used \in SUBSET Backends /\ Without \in SUBSET Backends
           /\ Dropping \in SUBSET Calls
           /\ issued \in Nat /\ rejected \in Nat
           /\ Cardinality(Used) \in Nat /\ Cardinality(Without) \in Nat
           /\ Cardinality(Dropping) \in Nat
           /\ \A c \in Calls : c \in Backends /\ backend[c] \in Used /\ backend[c] \in Backends
<1>1. IsFiniteSet(Backends)
  BY YanrongAssumption, FS_AddElement DEF Backends
<1>2. /\ Used \in SUBSET Backends /\ Without \in SUBSET Backends /\ Dropping \in SUBSET Calls
  BY DEF Used, Without, Dropping, Backends
<1>3. IsFiniteSet(Used) /\ IsFiniteSet(Without) /\ IsFiniteSet(Dropping)
  BY <1>1, <1>2, YanrongAssumption, FS_Subset
<1>4. /\ Cardinality(Used) \in Nat /\ Cardinality(Without) \in Nat
      /\ Cardinality(Dropping) \in Nat
  BY <1>3, FS_CardinalityType
<1>5. \A c \in Calls : c \in Backends /\ backend[c] \in Used /\ backend[c] \in Backends
  BY DEF TypeOK, Used, Backends
<1> QED
  BY <1>1, <1>2, <1>4, <1>5, YanrongAssumption DEF TypeOK

LEMMA PaidStep ==
    ASSUME TypeOK, Situated, Paid, [Next]_vars
    PROVE  Paid'
<1> USE BackendCount
<1>1. CASE Expire \/ CreateBin \/ RemoveBin \/ UNCHANGED vars
  <2>1. UNCHANGED <<pc, backend, token, issued, rejected>>
    BY <1>1 DEF Expire, CreateBin, RemoveBin, Changed, ghost, vars, client, server
  <2> QED
    BY <2>1 DEF Paid, Used, Without, Dropping
<1>2. ASSUME NEW c \in Calls, StartAny(c)
      PROVE  Paid'
  <2>1. UNCHANGED <<token, issued, rejected>> /\ pc[c] = "idle" /\ pc'[c] # "drop"
    BY <1>2, Starts, EndHand DEF server, ghost
  <2>2. Dropping' = Dropping
    BY <1>2, <2>1, OtherCalls DEF Dropping
  <2>3. /\ backend[c] = Bot /\ backend'[c] \in {Bot, c}
        /\ \A d \in Calls : d # c => backend'[d] = backend[d]
    BY ONLY TypeOK, Situated, c \in Calls, <1>2, Starts, OtherCalls
  <2>4. CASE backend'[c] = Bot
    <3>1. \A d \in Calls : backend'[d] = backend[d]
      BY <2>3, <2>4
    <3>2. Used' = Used /\ Without' = Without
      BY <2>1, <3>1 DEF Used, Without
    <3> QED
      BY <2>1, <2>2, <3>1, <3>2 DEF Paid
  <2>5. CASE backend'[c] = c
    <3>1. c \notin Used /\ token[c] = NoToken
      BY <2>3 DEF Used, Paid
    <3>2. Used' = Used \cup {c}
      BY <2>3, <2>5 DEF Used
    <3>3. Without' = Without \cup {c} /\ c \notin Without
      BY <2>1, <3>1, <3>2 DEF Without
    <3>4. /\ Cardinality(Used') = Cardinality(Used) + 1
          /\ Cardinality(Without') = Cardinality(Without) + 1
      BY <3>1, <3>2, <3>3, Counting
    <3>5. \A d \in Calls : backend'[d] # d => token'[d] = NoToken
      BY <2>1, <2>3, <2>5 DEF Paid
    <3>6. issued' + Cardinality(Dropping') + Cardinality(Without')
            <= rejected' + Cardinality(Used')
      BY <2>1, <2>2, <3>4 DEF Paid
    <3> QED
      BY <3>5, <3>6 DEF Paid
  <2> QED
    BY <2>3, <2>4, <2>5
<1>3. ASSUME NEW c \in Calls, CallStep(c)
      PROVE  Paid'
  <2>1. /\ backend' = backend
        /\ \A d \in Calls : d # c => pc'[d] = pc[d]
    BY <1>3, OtherCalls DEF CallStep, UseToken, Login, LoginFails, Fails, Unauthorized,
                            DropToken, GetPage, Act
  <2>2. Used' = Used
    BY <2>1 DEF Used
  <2>3. ASSUME token' = token
        PROVE  Without' = Without /\ \A d \in Calls : backend'[d] # d => token'[d] = NoToken
    BY <2>1, <2>2, <2>3 DEF Without, Paid
  <2>4. CASE UseToken(c) \/ LoginFails(c) \/ Fails(c) \/ Act(c) \/ GetPage(c)
    <3>1. UNCHANGED <<token, issued, rejected>> /\ pc[c] # "drop"
      BY <2>4 DEF UseToken, LoginFails, Fails, Act, GetPage, Accepted, Works, MayHaveWorked,
                  server, ghost
    <3>2. (\E result : End(c, result)) \/ \E where \in {"login", "send"} : \E hand : Go(c, where, hand)
      BY <2>4, PageCases DEF UseToken, LoginFails, Fails, Act, Send
    <3>3. pc'[c] # "drop"
      BY <3>2, EndHand, GoHand
    <3>4. Dropping' = Dropping
      BY <2>1, <3>1, <3>3 DEF Dropping
    <3> QED
      BY <2>2, <2>3, <3>1, <3>4 DEF Paid
  <2>5. CASE Login(c)
    <3> DEFINE b == backend[c]
    <3>1. /\ token[b] = NoToken /\ issued' = issued + 1 /\ rejected' = rejected
          /\ token' = [token EXCEPT ![b] = issued'] /\ pc[c] = "login"
          /\ \E hand : Go(c, "send", hand)
      BY <2>5 DEF Login, Send, ghost
    <3>2. Dropping' = Dropping
      BY <2>1, <3>1, GoHand DEF Dropping
    <3>3. b \in Without /\ Without' = Without \ {b}
      <4>1. issued' # NoToken
        BY <3>1 DEF NoToken
      <4> QED
        BY <2>2, <3>1, <4>1 DEF Without, TypeOK
    <3>4. Cardinality(Without') = Cardinality(Without) - 1
      BY <3>3, Counting
    <3>5. \A d \in Calls : backend'[d] # d => token'[d] = NoToken
      <4>1. ASSUME NEW d \in Calls, backend[d] # d
            PROVE  d # b
        BY <4>1 DEF TypeOK
      <4> QED
        BY <2>1, <3>1, <4>1 DEF Paid, TypeOK, Backends
    <3>6. issued' + Cardinality(Dropping') + Cardinality(Without')
            <= rejected' + Cardinality(Used')
      <4> HIDE DEF b
      <4> QED
        BY <2>2, <3>1, <3>2, <3>4 DEF Paid
    <3> QED
      BY <3>5, <3>6 DEF Paid
  <2>6. CASE Unauthorized(c)
    <3>1. /\ UNCHANGED <<token, issued>> /\ rejected' = rejected + 1
      BY <2>6 DEF Unauthorized, server
    <3>2. Dropping' \in {Dropping, Dropping \cup {c}}
      <4>1. pc[c] = "send" /\ pc'[c] \in {"done", "drop"}
        BY ONLY TypeOK, c \in Calls, <2>6, EndHand, GoHand DEF Unauthorized
      <4> QED
        BY <2>1, <4>1 DEF Dropping
    <3>3. Cardinality(Dropping') \in {Cardinality(Dropping), Cardinality(Dropping) + 1}
      <4>1. Cardinality(Dropping \cup {c})
              = IF c \in Dropping THEN Cardinality(Dropping) ELSE Cardinality(Dropping) + 1
        <5>1. IsFiniteSet(Calls) /\ Dropping \in SUBSET Calls /\ c \in Calls
          OBVIOUS
        <5> QED
          BY ONLY <5>1, Counting
      <4> QED
        BY <3>2, <4>1
    <3>4. issued' + Cardinality(Dropping') + Cardinality(Without')
            <= rejected' + Cardinality(Used')
      <4>1. Without' = Without
        BY <2>3, <3>1
      <4> QED
        BY <2>2, <3>1, <3>3, <4>1 DEF Paid
    <3> QED
      BY <2>3, <3>1, <3>4 DEF Paid
  <2>7. CASE DropToken(c)
    <3> DEFINE b == backend[c]
    <3>1. /\ UNCHANGED <<issued, rejected>> /\ pc[c] = "drop"
          /\ token' = [token EXCEPT ![b] = NoToken]
          /\ Go(c, "login", local[c])
      BY <2>7 DEF DropToken, server, ghost
    <3>2. c \in Dropping /\ Dropping' = Dropping \ {c}
      BY <2>1, <3>1, GoHand DEF Dropping
    <3>3. Without' = Without \cup {b}
      BY <2>2, <3>1 DEF Without, TypeOK
    <3>4. /\ Cardinality(Dropping') = Cardinality(Dropping) - 1
          /\ Cardinality(Without') \in {Cardinality(Without), Cardinality(Without) + 1}
      <4>1. Cardinality(Dropping \ {c}) = Cardinality(Dropping) - 1
        BY <3>2, Counting
      <4>2. Cardinality(Without \cup {b}) \in {Cardinality(Without), Cardinality(Without) + 1}
        <5>1. IsFiniteSet(Backends) /\ Without \in SUBSET Backends /\ b \in Backends
          OBVIOUS
        <5> HIDE DEF b
        <5> QED
          BY ONLY <5>1, Counting, Cardinality(Without) \in Nat
      <4> QED
        BY <3>2, <3>3, <4>1, <4>2
    <3>5. \A d \in Calls : backend'[d] # d => token'[d] = NoToken
      BY <2>1, <3>1 DEF Paid, TypeOK, Backends
    <3>6. issued' + Cardinality(Dropping') + Cardinality(Without')
            <= rejected' + Cardinality(Used')
      <4>1. issued + Cardinality(Dropping) + Cardinality(Without) <= rejected + Cardinality(Used)
        BY DEF Paid
      <4>2. /\ issued \in Nat /\ rejected \in Nat /\ Cardinality(Used) \in Nat
            /\ Cardinality(Dropping) \in Nat /\ Cardinality(Without) \in Nat
        BY Counting DEF TypeOK
      <4>3. issued' = issued /\ rejected' = rejected /\ Used' = Used
        BY <2>2, <3>1
      <4> QED
        BY ONLY <3>4, <4>1, <4>2, <4>3
    <3> QED
      BY <3>5, <3>6 DEF Paid
  <2> QED
    BY <1>3, <2>4, <2>5, <2>6, <2>7 DEF CallStep
<1> QED
  BY <1>1, <1>2, <1>3 DEF Next
--------------------------------------------------------------------------
(* Pages. *)

LEMMA PageArithmetic ==
    ASSUME NEW p \in Nat \ {0}, NEW size \in Nat \ {0}
    PROVE  /\ (p - 1) * size \in Nat /\ p * size \in Nat
           /\ p * size = (p - 1) * size + size
           /\ (p - 1) * size < p * size
           /\ \A m \in Nat : p * size < m * size => p < m
<1>1. p * size \in Nat /\ (p - 1) * size \in Nat
  BY NatTimes
<1>2. p * size = (p - 1) * size + size
  OBVIOUS
<1>3. ASSUME NEW m \in Nat, p * size < m * size
      PROVE  p < m
  <2> SUFFICES ASSUME m <= p PROVE FALSE
    OBVIOUS
  <2>1. PICK d \in Nat : p = m + d
    <3>1. p - m \in Nat /\ p = m + (p - m)
      OBVIOUS
    <3> QED
      BY <3>1
  <2>2. p * size = m * size + d * size /\ d * size \in Nat /\ m * size \in Nat
    <3>1. d * size \in Nat /\ m * size \in Nat
      BY NatTimes
    <3>2. (m + d) * size = m * size + d * size
      OBVIOUS
    <3> QED
      BY <2>1, <3>1, <3>2
  <2> QED
    BY <1>3, <2>2
<1> QED
  BY <1>1, <1>2, <1>3

(* A page continues what was got of the listing, and the last one completes it *)
(* (listPaginated, yanrong.go:462-506).                                        *)
LEMMA NextPortion ==
    ASSUME TypeOK, NEW c \in Calls,
           Got(c) <= Len(Listing(c)), local[c].got = SubSeq(Listing(c), 1, Got(c))
    PROVE  /\ LastPage(Len(Listing(c)), All(c), Batch(c)) => All(c) = Listing(c)
           /\ ~LastPage(Len(Listing(c)), All(c), Batch(c)) =>
                 /\ local[c].page * PerPage < Len(Listing(c))
                 /\ All(c) = SubSeq(Listing(c), 1, local[c].page * PerPage)
<1> DEFINE list == Listing(c)
           from == Got(c)
           next == local[c].page * PerPage
           to   == IF next < Len(list) THEN next ELSE Len(list)
<1>1. list \in Seq(Entries) /\ Len(list) \in Nat
  BY BatchType, LenProperties
<1>2. from \in Nat /\ next \in Nat /\ from < next /\ from <= Len(list)
  <2>1. local[c].page \in Nat \ {0} /\ PerPage \in Nat \ {0}
    BY HandTypes, YanrongAssumption
  <2> QED
    BY <2>1, PageArithmetic DEF Got
<1>3. Batch(c) = SubSeq(list, from + 1, to)
  BY DEF Batch, Got
<1>4. local[c].got = SubSeq(list, 1, from)
  OBVIOUS
<1> HIDE DEF list, from, next
<1>5. to \in Nat /\ from <= to /\ to <= Len(list)
  BY <1>1, <1>2
<1>6. All(c) = SubSeq(list, 1, to)
  <2>1. 1 \in 1 .. Len(list) + 1 /\ from \in 1 - 1 .. Len(list) /\ to \in from .. Len(list)
    BY <1>1, <1>2, <1>5
  <2> HIDE DEF to
  <2> QED
    BY <1>1, <1>3, <1>4, <2>1, ConcatAdjacentSubSeq DEF All
<1>7. Len(All(c)) = to
  <2>1. \A i \in 1 .. to : list[i] \in Entries
    <3>1. \A i \in 1 .. to : i \in 1 .. Len(list)
      BY <1>1, <1>5
    <3> QED
      BY <1>1, <3>1, ElementOfSeq
  <2>2. 1 \in Int /\ to \in Int
    BY <1>5
  <2>3. Len(SubSeq(list, 1, to)) = IF 1 <= to THEN to - 1 + 1 ELSE 0
    <3> HIDE DEF to
    <3> QED
      BY <2>1, <2>2, SubSeqProperties
  <2> QED
    BY <1>5, <1>6, <2>3
<1>8. Batch(c) = <<>> => to = Len(list)
  <2> SUFFICES ASSUME to = next PROVE Batch(c) # <<>>
    BY <1>1
  <2>1. \A i \in from + 1 .. to : list[i] \in Entries
    <3>1. \A i \in from + 1 .. to : i \in 1 .. Len(list)
      BY <1>1, <1>2, <1>5
    <3> QED
      BY <1>1, <3>1, ElementOfSeq
  <2>2. from + 1 \in Int /\ to \in Int /\ from + 1 <= to
    BY <1>2, <1>5
  <2>3. Len(SubSeq(list, from + 1, to)) = to - (from + 1) + 1
    <3> HIDE DEF to
    <3> QED
      BY <2>1, <2>2, SubSeqProperties
  <2>4. Len(Batch(c)) > 0
    BY <1>2, <1>3, <1>5, <2>2, <2>3
  <2> QED
    BY <2>4
<1>9. CASE LastPage(Len(list), All(c), Batch(c))
  <2>1. to = Len(list)
    BY <1>1, <1>2, <1>5, <1>7, <1>8, <1>9 DEF LastPage
  <2>2. All(c) = list
    BY <1>1, <1>6, <2>1, SubSeqFull
  <2> QED
    BY <1>9, <2>2 DEF list
<1>10. CASE ~LastPage(Len(list), All(c), Batch(c))
  <2>1. to < Len(list)
    BY <1>1, <1>2, <1>5, <1>7, <1>10 DEF LastPage
  <2>2. to = next /\ next < Len(list)
    BY <1>1, <1>2, <2>1
  <2> QED
    BY <1>6, <1>10, <2>2 DEF list, next
<1> QED
  BY <1>9, <1>10 DEF list
(* When a bin comes or goes, the calls under way have no exact listing any more. *)
LEMMA ChangedHands ==
    ASSUME TypeOK, CreateBin \/ RemoveBin
    PROVE  UNCHANGED <<pc, req>> /\ \A c \in Calls : UnderWay(c) => ~local'[c].exact
<1>1. UNCHANGED <<pc, req>>
  BY DEF CreateBin, RemoveBin, Changed
<1>2. ASSUME NEW c \in Calls, UnderWay(c)
      PROVE  ~local'[c].exact
  <2>1. local'[c] = [local[c] EXCEPT !.exact = @ /\ pc[c] \in {"idle", "done"}]
    BY DEF CreateBin, RemoveBin, Changed
  <2> QED
    BY <1>2, <2>1, HandTypes DEF UnderWay, Hands
<1> QED
  BY <1>1, <1>2

LEMMA ExpireHands ==
    ASSUME TypeOK, Expire, NEW c \in Calls
    PROVE  local'[c].exact = local[c].exact
BY HandTypes DEF Expire, Hands

LEMMA PagedStep ==
    ASSUME TypeOK, Situated, Paged, [Next]_vars
    PROVE  Paged'
<1> DEFINE Looks(c) == /\ UnderWay(c) /\ local[c].phase = "list" /\ local[c].exact
                       /\ req[c].kind \notin {"quotas", "usage"}
           Fits(c)  == Looks(c) =>
                          Got(c) <= Len(bins) /\ local[c].got = SubSeq(bins, 1, Got(c))
<1>1. CASE UNCHANGED vars
  BY <1>1 DEF vars, server, client, Paged, UnderWay, Got
<1>2. CASE Expire
  <2>1. UNCHANGED <<pc, req, bins>> /\ faults' = faults + 1
    BY <1>2 DEF Expire
  <2>2. Len(bins') <= Len(FirstBins) + faults'
    BY <2>1, LenProperties, YanrongAssumption DEF Paged, TypeOK
  <2>3. ASSUME NEW c \in Calls
        PROVE  Fits(c)'
    <3>1. /\ local'[c].phase = local[c].phase /\ local'[c].page = local[c].page
          /\ local'[c].got = local[c].got /\ local'[c].exact = local[c].exact
      BY <1>2, StorageHands, ExpireHands
    <3> QED
      BY <2>1, <3>1 DEF Paged, UnderWay, Got
  <2> QED
    BY <2>2, <2>3 DEF Paged
<1>3. CASE CreateBin \/ RemoveBin
  <2>1. Len(bins') <= Len(FirstBins) + faults'
    <3>1. Len(bins') <= Len(bins) + 1 /\ bins' \in Seq(Entries) /\ faults' = faults + 1
      BY <1>3, BinsType
    <3>2. Len(bins) \in Nat /\ Len(bins') \in Nat /\ Len(FirstBins) \in Nat /\ faults \in Nat
      BY <3>1, LenProperties, YanrongAssumption DEF TypeOK
    <3> QED
      BY <3>1, <3>2 DEF Paged
  <2>2. \A c \in Calls : ~Looks(c)'
    BY <1>3, ChangedHands DEF UnderWay
  <2> QED
    BY <2>1, <2>2 DEF Paged
<1>4. ASSUME NEW c \in Calls, StartAny(c) \/ CallStep(c), bins' = bins, faults' = faults,
             Fits(c)'
      PROVE  Paged'
  <2>1. ASSUME NEW d \in Calls, d # c
        PROVE  Fits(d)'
    <3>1. pc'[d] = pc[d] /\ req'[d] = req[d] /\ local'[d] = local[d]
      BY <1>4, <2>1, OtherCalls
    <3> QED
      BY <1>4, <3>1 DEF Paged, UnderWay, Got
  <2> QED
    BY <1>4, <2>1 DEF Paged
<1>5. ASSUME NEW c \in Calls, StartAny(c)
      PROVE  Paged'
  <2>1. bins' = bins /\ faults' = faults
    BY <1>5, Starts DEF server
  <2>2. local'[c].page = 1 /\ local'[c].got = <<>>
    BY <1>5, Starts, EndHand
  <2>3. Got(c)' = 0
    BY <2>2, YanrongAssumption DEF Got
  <2>4. SubSeq(bins, 1, 0) = <<>> /\ Len(bins) \in Nat
    BY SubSeqEmpty, LenProperties DEF TypeOK
  <2>5. Fits(c)'
    BY <2>1, <2>2, <2>3, <2>4
  <2> QED
    BY <1>4, <1>5, <2>1, <2>5
<1>6. ASSUME NEW c \in Calls, CallStep(c)
      PROVE  Paged'
  <2>1. bins' = bins /\ faults' = faults /\ UnderWay(c)
    BY <1>6, CallCases DEF CallStep, UseToken, Login, LoginFails, Fails, Unauthorized,
                           DropToken, GetPage, Act, server
  <2>2. CASE \E result : End(c, result)
    <3>1. ~Looks(c)'
      BY <2>2, EndHand DEF UnderWay
    <3> QED
      BY <1>4, <1>6, <2>1, <3>1
  <2>3. CASE /\ req' = req
             /\ local'[c].phase = local[c].phase
             /\ local'[c].page = local[c].page /\ local'[c].got = local[c].got
             /\ local'[c].exact = local[c].exact
    <3>1. Fits(c)'
      BY <2>1, <2>3 DEF Paged, Got
    <3> QED
      BY <1>4, <1>6, <2>1, <3>1
  <2>4. CASE GetPage(c)
    <3>1. PICK exact \in BOOLEAN :
              /\ exact => local[c].exact
              /\ \/ \E result : End(c, result)
                 \/ Go(c, "login", Choosing(c, All(c), exact))
                 \/ /\ Go(c, "login", Turning(c, exact))
                    /\ exact => ~LastPage(Len(Listing(c)), All(c), Batch(c))
      BY <2>4, PageCases
    <3>2. CASE Go(c, "login", Choosing(c, All(c), exact))
      <4>1. local'[c] = Choosing(c, All(c), exact)
        BY <3>2, GoHand
      <4>2. Choosing(c, All(c), exact).phase = "act"
        BY DEF Choosing, Fresh
      <4>3. ~Looks(c)'
        BY <4>1, <4>2
      <4> QED
        BY <1>4, <1>6, <2>1, <4>3
    <3>3. CASE /\ Go(c, "login", Turning(c, exact))
               /\ exact => ~LastPage(Len(Listing(c)), All(c), Batch(c))
      <4>1. local'[c] = Turning(c, exact) /\ req' = req
        BY <3>3, GoHand
      <4>2. /\ local'[c].got = All(c) /\ local'[c].page = NextPage(local[c].page)
            /\ local'[c].exact = exact
        BY <4>1 DEF Turning, Fresh
      <4>3. ASSUME Looks(c)'
            PROVE  Got(c)' <= Len(bins) /\ local'[c].got = SubSeq(bins, 1, Got(c)')
        <5>1. Looks(c) /\ Listing(c) = bins /\ exact
          BY <2>1, <2>4, <3>1, <4>1, <4>2, <4>3 DEF GetPage, Listing
        <5>2. Got(c) <= Len(bins) /\ local[c].got = SubSeq(bins, 1, Got(c))
          BY <5>1 DEF Paged
        <5>3. /\ local[c].page * PerPage < Len(bins)
              /\ All(c) = SubSeq(bins, 1, local[c].page * PerPage)
          BY <3>3, <5>1, <5>2, NextPortion
        <5>4. local[c].page * PerPage < MaxPage * PerPage
          <6>1. /\ local[c].page * PerPage \in Nat /\ MaxPage * PerPage \in Nat
                /\ Len(bins) \in Nat /\ Len(FirstBins) \in Nat
                /\ faults \in Nat /\ MaxFaults \in Nat /\ faults <= MaxFaults
            <7>1. /\ PerPage \in Nat /\ MaxPage \in Nat /\ MaxFaults \in Nat
                  /\ FirstBins \in Seq(Entries)
              BY YanrongAssumption
            <7>2. local[c].page \in Nat
              BY HandTypes
            <7>3. bins \in Seq(Entries) /\ faults \in 0 .. MaxFaults
              BY DEF TypeOK
            <7>4. Len(bins) \in Nat /\ Len(FirstBins) \in Nat
              BY ONLY <7>1, <7>3, LenProperties
            <7>5. local[c].page * PerPage \in Nat /\ MaxPage * PerPage \in Nat
              BY ONLY <7>1, <7>2, NatTimes
            <7> QED
              BY ONLY <7>1, <7>3, <7>4, <7>5
          <6>2. /\ Len(bins) <= Len(FirstBins) + faults
                /\ Len(FirstBins) + MaxFaults <= MaxPage * PerPage
            BY YanrongAssumption DEF Paged
          <6> QED
            BY <5>3, <6>1, <6>2
        <5>5. local[c].page < MaxPage /\ local[c].page \in Nat \ {0}
          BY <5>4, HandTypes, PageArithmetic, YanrongAssumption
        <5>6. local'[c].page = local[c].page + 1
          BY <4>2, <5>5 DEF NextPage
        <5>7. Got(c)' = local[c].page * PerPage
          <6>1. (local[c].page + 1) - 1 = local[c].page
            BY <5>5
          <6> QED
            BY <5>6, <6>1 DEF Got
        <5>8. local[c].page * PerPage \in Nat /\ Len(bins) \in Nat
          BY HandTypes, NatTimes, LenProperties, YanrongAssumption DEF TypeOK
        <5> QED
          BY <4>2, <5>3, <5>7, <5>8
      <4> QED
        BY <1>4, <1>6, <2>1, <4>3
    <3> QED
      BY <2>2, <3>1, <3>2, <3>3
  <2> QED
    BY <1>6, <2>2, <2>3, <2>4, CallCases
<1> QED
  BY <1>1, <1>2, <1>3, <1>5, <1>6 DEF Next
(* pickRecycleForPath (yanrong.go:314-330): what it picks covers the path, and no *)
(* other entry of the listing that covers it is deeper.                           *)
LEMMA PickedIsDeepest ==
    ASSUME NEW list \in Seq(Entries), NEW clean, NEW e \in PickRecycle(list, clean)
    PROVE  /\ e \in ToSet(list) /\ PathHasPrefix(clean, NormalizeQuotaPath(e.path))
           /\ \A other \in ToSet(list) :
                 PathHasPrefix(clean, NormalizeQuotaPath(other.path)) =>
                    Len(NormalizeQuotaPath(other.path)) <= Len(NormalizeQuotaPath(e.path))
<1>1. PICK i \in DOMAIN list : e = list[i] /\ IsBestAt(i, list, clean)
  BY DEF PickRecycle
<1>2. PathHasPrefix(clean, NormalizeQuotaPath(e.path))
  BY <1>1 DEF IsBestAt
<1>3. ASSUME NEW other \in ToSet(list), PathHasPrefix(clean, NormalizeQuotaPath(other.path))
      PROVE  Len(NormalizeQuotaPath(other.path)) <= Len(NormalizeQuotaPath(e.path))
  <2>1. PICK j \in DOMAIN list : other = list[j]
    BY DEF ToSet
  <2>2. e.path \in Texts /\ other.path \in Texts
    <3>1. i \in 1 .. Len(list) /\ j \in 1 .. Len(list)
      BY LenProperties
    <3>2. e \in Entries /\ other \in Entries
      BY <1>1, <2>1, <3>1, ElementOfSeq
    <3> QED
      BY <3>2 DEF Entries
  <2>3. Len(NormalizeQuotaPath(e.path)) \in Nat /\ Len(NormalizeQuotaPath(other.path)) \in Nat
    BY <2>2, NormalizeType
  <2>4. \/ Len(NormalizeQuotaPath(other.path)) < Len(NormalizeQuotaPath(e.path))
        \/ Len(NormalizeQuotaPath(other.path)) = Len(NormalizeQuotaPath(e.path))
    BY <1>1, <1>3, <2>1 DEF IsBestAt
  <2> QED
    BY <2>3, <2>4
<1> QED
  BY <1>2, <1>3 DEF PickRecycle

LEMMA MostSpecificStep ==
    ASSUME TypeOK, Situated, Paged, MostSpecificBin, [Next]_vars
    PROVE  MostSpecificBin'
<1> DEFINE Right(c) ==
        (local[c].target # {} /\ local[c].exact) =>
            LET clean == NormalizeQuotaPath(req[c].path)
                covering == {e \in ToSet(bins) : PathHasPrefix(clean, NormalizeQuotaPath(e.path))}
            IN  /\ local[c].target \subseteq covering
                /\ \A e \in local[c].target, other \in covering :
                      Len(NormalizeQuotaPath(other.path)) <= Len(NormalizeQuotaPath(e.path))
<1>1. CASE UNCHANGED vars
  BY <1>1 DEF vars, server, client, MostSpecificBin
<1>2. CASE Expire
  <2>1. UNCHANGED <<req, bins>>
    BY <1>2 DEF Expire
  <2>2. ASSUME NEW c \in Calls
        PROVE  Right(c)'
    <3>1. local'[c].target = local[c].target /\ local'[c].exact = local[c].exact
      BY <1>2, StorageHands, ExpireHands
    <3> QED
      BY <2>1, <3>1 DEF MostSpecificBin
  <2> QED
    BY <2>2 DEF MostSpecificBin
<1>3. CASE CreateBin \/ RemoveBin
  <2>1. ASSUME NEW c \in Calls
        PROVE  Right(c)'
    <3>1. CASE UnderWay(c)
      BY <1>3, <3>1, ChangedHands
    <3>2. CASE ~UnderWay(c)
      <4>1. local'[c].target = {}
        BY <1>3, <3>2, StorageHands DEF Situated
      <4> QED
        BY <4>1
    <3> QED
      BY <3>1, <3>2
  <2> QED
    BY <2>1 DEF MostSpecificBin
<1>4. ASSUME NEW c \in Calls, StartAny(c) \/ CallStep(c), bins' = bins, Right(c)'
      PROVE  MostSpecificBin'
  <2>1. ASSUME NEW d \in Calls, d # c
        PROVE  Right(d)'
    <3>1. req'[d] = req[d] /\ local'[d] = local[d]
      BY <1>4, <2>1, OtherCalls
    <3> QED
      BY <1>4, <3>1 DEF MostSpecificBin
  <2> QED
    BY <1>4, <2>1 DEF MostSpecificBin
<1>5. ASSUME NEW c \in Calls, StartAny(c)
      PROVE  MostSpecificBin'
  <2>1. bins' = bins /\ local'[c].target = {}
    BY <1>5, Starts, EndHand DEF server
  <2> QED
    BY <1>4, <1>5, <2>1
<1>6. ASSUME NEW c \in Calls, CallStep(c)
      PROVE  MostSpecificBin'
  <2>1. bins' = bins /\ UnderWay(c)
    BY <1>6, CallCases
  <2>2. CASE local'[c].target = {}
    BY <1>4, <1>6, <2>1, <2>2
  <2>3. CASE req' = req /\ local'[c].target = local[c].target /\ local'[c].exact = local[c].exact
    <3>1. Right(c)'
      BY <2>1, <2>3 DEF MostSpecificBin
    <3> QED
      BY <1>4, <1>6, <2>1, <3>1
  <2>4. CASE GetPage(c)
    <3>1. PICK exact \in BOOLEAN :
              /\ exact => local[c].exact
              /\ \/ \E result : End(c, result)
                 \/ /\ Go(c, "login", Choosing(c, All(c), exact))
                    /\ exact => LastPage(Len(Listing(c)), All(c), Batch(c))
                    /\ req[c].kind \in {"files", "clear"}
                 \/ Go(c, "login", Turning(c, exact))
      BY <2>4, PageCases
    <3>2. CASE \E result : End(c, result)
      BY <2>2, <3>2, EndHand
    <3>3. CASE Go(c, "login", Turning(c, exact))
      <4>1. local'[c] = Turning(c, exact)
        BY <3>3, GoHand
      <4>2. local'[c].target = {}
        BY <4>1 DEF Turning, Fresh
      <4> QED
        BY <2>2, <4>2
    <3>4. CASE /\ Go(c, "login", Choosing(c, All(c), exact))
               /\ exact => LastPage(Len(Listing(c)), All(c), Batch(c))
               /\ req[c].kind \in {"files", "clear"}
      <4>1. local'[c] = Choosing(c, All(c), exact) /\ req' = req
        BY <3>4, GoHand
      <4>2. /\ local'[c].target = PickRecycle(All(c), NormalizeQuotaPath(req[c].path))
            /\ local'[c].exact = exact
        BY <4>1 DEF Choosing, Fresh
      <4>3. ASSUME exact
            PROVE  All(c) = bins
        <5>1. local[c].phase = "list" /\ local[c].exact /\ Listing(c) = bins
          BY <2>4, <3>1, <3>4, <4>3 DEF GetPage, Listing
        <5>2. Got(c) <= Len(bins) /\ local[c].got = SubSeq(bins, 1, Got(c))
          BY <2>1, <3>4, <5>1 DEF Paged
        <5> QED
          BY <3>4, <4>3, <5>1, <5>2, NextPortion
      <4>4. Right(c)'
        <5>1. SUFFICES ASSUME exact PROVE Right(c)'
          BY <4>2
        <5>2. local'[c].target = PickRecycle(bins, NormalizeQuotaPath(req[c].path))
          BY <4>2, <4>3, <5>1
        <5>3. bins \in Seq(Entries)
          BY DEF TypeOK
        <5> QED
          BY <2>1, <4>1, <5>2, <5>3, PickedIsDeepest
      <4> QED
        BY <1>4, <1>6, <2>1, <4>4
    <3> QED
      BY <3>1, <3>2, <3>3, <3>4
  <2>5. CASE \E result \in Outcomes : End(c, result)
    BY <2>2, <2>5, EndHand
  <2> QED
    BY <1>6, <2>3, <2>4, <2>5, CallCases
<1> QED
  BY <1>1, <1>2, <1>3, <1>5, <1>6 DEF Next
--------------------------------------------------------------------------
(* The theorems. *)

LEMMA YanrongInit == Init => YanrongInv
<1> SUFFICES ASSUME Init PROVE YanrongInv
  OBVIOUS
<1> USE DEF Init
<1>1. TypeOK
  <2>1. /\ token \in [Backends -> 0 .. issued] /\ issued \in Nat /\ valid \subseteq 1 .. issued
        /\ faults \in 0 .. MaxFaults /\ rejected \in Nat
    BY YanrongAssumption DEF NoToken
  <2>2. bins \in Seq(Entries) /\ trash \subseteq TrashFiles
    BY YanrongAssumption
  <2>3. \A c \in Calls : local[c] = Fresh /\ local[c].tok <= issued /\ pc[c] = "idle"
    BY DEF Fresh, NoToken
  <2>4. req \in [Calls -> Requests] /\ local \in [Calls -> Hands]
    BY RequestTypes
  <2>5. backend \in [Calls -> Backends] /\ \A c \in Calls : backend[c] \in {Bot, c}
    BY DEF Backends
  <2> QED
    BY <2>1, <2>2, <2>3, <2>4, <2>5 DEF TypeOK
<1>2. Situated /\ Renewed /\ Permitted /\ ClearedAsReported /\ ClearsWereAskedFor
  BY DEF Situated, Renewed, Permitted, UnderWay, Fresh, ClearedAsReported, ClearsWereAskedFor
<1>3. MostSpecificBin
  BY DEF MostSpecificBin, Fresh
<1>4. Paged
  BY YanrongAssumption, LenProperties DEF Paged, UnderWay
<1>5. Paid
  <2>1. Used = {Bot} /\ Without = Used /\ Dropping = {}
    BY YanrongAssumption DEF Used, Without, Dropping, Backends
  <2>2. Cardinality(Dropping) = 0 /\ Cardinality(Without) \in Nat
    BY <1>1, <2>1, BackendCount, FS_EmptySet
  <2>3. \A c \in Calls : token[c] = NoToken
    BY DEF Backends
  <2>4. issued + Cardinality(Dropping) + Cardinality(Without) <= rejected + Cardinality(Used)
    BY <2>1, <2>2
  <2> QED
    BY <2>3, <2>4 DEF Paid
<1> QED
  BY <1>1, <1>2, <1>3, <1>4, <1>5 DEF YanrongInv

(* YanrongBackend: the inductive invariant holds for any calls, requests and   *)
(* listings, and any page size.                                                *)
THEOREM YanrongInvariant == Spec => []YanrongInv
<1>1. YanrongInv /\ [Next]_vars => YanrongInv'
  BY TypeStep, SituatedStep, RenewedStep, PermittedStep, PaidStep, PagedStep, ClearedStep,
     AskedForStep, MostSpecificStep DEF YanrongInv
<1> QED
  BY YanrongInit, <1>1, PTL DEF Spec

(* YanrongBackend: every variable keeps its type, and a request that is under   *)
(* way carries a token (ensureToken).                                          *)
THEOREM YanrongTypeCorrect == Spec => []TypeOK
<1>1. YanrongInv => TypeOK
  BY DEF YanrongInv
<1> QED
  BY YanrongInvariant, <1>1, PTL

(* ClearRecycleFiles: what a call reports of a clear is what happened, and     *)
(* nothing is cleared twice, the retry after a 401 included.                   *)
THEOREM ClearsAreReported == Spec => []ClearedAsReported
<1>1. YanrongInv => ClearedAsReported
  BY DEF YanrongInv
<1> QED
  BY YanrongInvariant, <1>1, PTL

(* ClearRecycleFiles: every file that is cleared lies below the path of a clear *)
(* that was confirmed, strictly under a configured user prefix.                *)
THEOREM ClearsAreAskedFor == Spec => []ClearsWereAskedFor
<1>1. YanrongInv => ClearsWereAskedFor
  BY DEF YanrongInv
<1> QED
  BY YanrongInvariant, <1>1, PTL

(* pickRecycleForPath on what listPaginated collects: the bin a call acts on is *)
(* the deepest of the storage's that covers the path, however many pages the   *)
(* listing has, unless a bin came or went or a total was wrong meanwhile.      *)
THEOREM BinIsMostSpecific == Spec => []MostSpecificBin
<1>1. YanrongInv => MostSpecificBin
  BY DEF YanrongInv
<1> QED
  BY YanrongInvariant, <1>1, PTL

(* authedGet and authedPost: a retry never carries a token that was bad when    *)
(* the first answer came.                                                      *)
THEOREM RetriesAreFresh == Spec => []RetryIsFresh
<1>1. YanrongInv => RetryIsFresh
  BY DEF YanrongInv, Renewed, RetryIsFresh
<1> QED
  BY YanrongInvariant, <1>1, PTL

(* ensureToken and invalidateToken: but for the first of each backend, there   *)
(* are no more logins than answers with 401.                                   *)
THEOREM LoginsArePaidFor == Spec => []LoginsArePaid
<1>1. YanrongInv => LoginsArePaid
  <2> SUFFICES ASSUME YanrongInv PROVE LoginsArePaid
    OBVIOUS
  <2> DEFINE Own == {c \in Calls : backend[c] = c}
  <2>1. TypeOK /\ Paid
    BY DEF YanrongInv
  <2>2. Own \in SUBSET Calls /\ Bot \notin Own
    BY YanrongAssumption
  <2>3. IsFiniteSet(Own) /\ Cardinality(Own) \in Nat
    BY <2>2, YanrongAssumption, FS_Subset, FS_CardinalityType
  <2>4. Used = Own \cup {Bot}
    BY DEF Used
  <2> HIDE DEF Own
  <2>5. Cardinality(Used) = Cardinality(Own) + 1
    BY <2>2, <2>3, <2>4, FS_AddElement
  <2>6. issued <= rejected + 1 + Cardinality(Own)
    BY <2>1, <2>3, <2>5, BackendCount DEF Paid
  <2> QED
    BY <2>6 DEF LoginsArePaid, Own
<1> QED
  BY YanrongInvariant, <1>1, PTL
==========================================================================
