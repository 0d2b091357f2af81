------------------------- MODULE CommandsProofs -------------------------
(* Theorems about the chat commands and web requests of Commands, for any   *)
(* clusters, messages, forms and skills, and any number of workers.         *)
EXTENDS Commands, FiniteSetTheorems, WellFoundedInduction, TLAPS

Busy == {"llm", "dispatch", "clusters", "steps"}
Running(w) == pc[w] \in {"clusters", "steps"}
RunTypes == {"skill", "health", "log analysis", "node diagnostics"}
RestartSkills == {"restart_mon", "restart_mgr"}

\* Whoever has not begun has nothing in hand.
IdleHands == \A w \in Workers : pc[w] = "idle" => task[w] = NoTask

\* A page has the form it was submitted with in hand.
Formed ==
    \A p \in Pages :
        /\ pc[p] # "llm"
        /\ pc[p] \in Busy => \E f \in Forms[p] : task[p].act = PageAction(f)

\* A chat message is one that may be written, is not overheard, and stands for what is
\* in hand by a listing of the clusters, or by an answer of the LLM.
Understood ==
    \A c \in Chats :
        /\ pc[c] # "idle" => said[c] \in Messages[c]
        /\ pc[c] \in Busy =>
              /\ ~Ignored(said[c])
              /\ \/ \E answer \in LLMAnswers : task[c].act = LLMAction(answer)
                 \/ \E list \in Configurations :
                       /\ task[c].act \in Readings[said[c]][list]
                       /\ reloads = 0 => list = configured

\* What an action may come to on a cluster.
Fits(act, op) ==
    Changes(op) =>
        /\ act.type = "skill"
        /\ op[1] \in {"delete", "port"} => act.args.yes
        /\ op[1] = "delete" <=> act.skill \in RestartSkills

Planned ==
    \A w \in Workers : pc[w] = "steps" =>
        \A i \in DOMAIN task[w].steps :
            /\ Fits(task[w].act, task[w].steps[i].op)
            /\ dryRun => w \in Pages /\ task[w].steps[i].op = <<"ask">>

Covers(act, n) ==
    IF act.target.kind = "all" THEN n \notin act.excludes
    ELSE act.target.kind # "none" /\ <<act.target.text, n>> \in Within

RightPlace(c, n) ==
    LET typed == Typed(said[c]) \cap configured IN
    reloads = 0 =>
        /\ n \in configured
        /\ (typed # {} /\ task[c].act.skill \in RestartSkills) => n \in typed

\* A skill is run where its target covers the cluster, and a restart in a cluster that
\* was typed when there is one.
AimedBy(c) ==
    (Running(c) /\ task[c].act.type = "skill") =>
        \A n \in ToSet(task[c].left) : Covers(task[c].act, n) /\ RightPlace(c, n)

Aimed == \A c \in Chats : AimedBy(c)

\* Nothing is sent before a worker is at its clusters, and what was sent is covered by
\* what is in hand.
Carried ==
    \A x \in ByChat :
        /\ pc[x.by] \in {"clusters", "steps", "done"}
        /\ (Changes(x.op) /\ pc[x.by] # "done") => 
              \/ task[x.by].act.target.kind = "all"
              \/ <<task[x.by].act.target.text, x.cluster>> \in Within

\* Who has not answered has no entry yet.
Unrecorded == \A i \in DOMAIN audit : pc[audit[i].by] = "done"

\* The slot is taken by the one page whose skill runs.
OnTheWeb == {p \in Pages : pc[p] \notin {"idle", "done"} /\ task[p].act.type = "skill"}
OneSlot ==
    \/ inFlight = 0 /\ OnTheWeb = {}
    \/ inFlight = 1 /\ \E p \in Pages : OnTheWeb = {p}

\* The steps that a message with a single flag command stands for, and the message's
\* clusters: those that it has changed, and all that it means while none came or went.
FlagOps(m) == {IF Unsets(m) THEN "unset" ELSE "set"} \X Asked(m)
Meant(c) ==
    {n \in configured : reloads = 0 /\ ForAll(said[c], n)}
        \cup {x.cluster : x \in {y \in ran : y.by = c /\ Changes(y.op)}}
Was(c, op, n)  == [by |-> c, op |-> op, cluster |-> n] \in ran
Written(c, n)  == \A op \in FlagOps(said[c]) : Was(c, op, n)
InForce(op, n) == /\ op[1] = "set" => op[2] \in flags[n]
                  /\ op[1] = "unset" => op[2] \notin flags[n]

\* No trouble so far.
Clean(c) == ~dryRun /\ Asked(said[c]) # {} /\ ~task[c].trouble /\ outcome[c] \in {"none", "ok"}

\* Only an answer is an outcome.
Ended == \A w \in Workers : pc[w] # "done" => outcome[w] = "none"

\* A message for all clusters is never the LLM's.
AllInHandBy(c) ==
    (pc[c] \in Busy /\ Asked(said[c]) # {} /\ Has(said[c], "all")) =>
        pc[c] # "llm" /\ task[c].act.type = "skill"

\* What is to be sent, and what was sent, changes the flags as it was written.
StepsAskedBy(c) ==
    (pc[c] = "steps" /\ Asked(said[c]) # {}) =>
        \A i \in DOMAIN task[c].steps :
            Changes(task[c].steps[i].op) => task[c].steps[i].op \in FlagOps(said[c])
SentAskedBy(c) ==
    \A x \in ran : (x.by = c /\ Changes(x.op) /\ Asked(said[c]) # {}) =>
        /\ x.op \in FlagOps(said[c])
        /\ pc[c] # "done" => task[c].act.type = "skill"

\* What was sent is in force where no one else has changed anything.
InForceBy(c) ==
    Clean(c) => \A x \in ran :
        (x.by = c /\ Changes(x.op) /\ Alone(c, x.cluster)) => InForce(x.op, x.cluster)

\* A cluster that is meant has had every step, or is among those left; and the one
\* under way has had every step, or has it to come.
ReachedBy(c) ==
    Clean(c) =>
        /\ Running(c) => \A n \in Meant(c) : n \in ToSet(task[c].left) \/ Written(c, n)
        /\ pc[c] = "done" => \A n \in Meant(c) : Written(c, n)
        /\ (pc[c] = "steps" /\ task[c].act.type = "skill") =>
              \A op \in FlagOps(said[c]) :
                  \/ Was(c, op, task[c].at)
                  \/ \E i \in DOMAIN task[c].steps : task[c].steps[i].op = op

FlagsBy(c) ==
    AllInHandBy(c) /\ StepsAskedBy(c) /\ SentAskedBy(c) /\ InForceBy(c) /\ ReachedBy(c)

CommandsInv ==
    /\ TypeOK /\ IdleHands /\ Formed /\ Understood /\ Planned /\ Aimed /\ Carried /\ Unrecorded /\ OneSlot
    /\ ChangesAreNamed /\ ConfirmedAsTyped /\ DryRunRunsNothing /\ ChatChangesRecorded
    /\ Ended /\ \A c \in Chats : FlagsBy(c)
--------------------------------------------------------------------------
(* Sequences and listings. *)

\* The first element that is one of these is one of them, when there is one.
LEMMA FirstInIs ==
    ASSUME NEW S, NEW seq \in Seq(S), NEW these, ToSet(seq) \cap these # {}
    PROVE  FirstIn(seq, these) \in ToSet(seq) \cap these
<1> DEFINE T == {i \in DOMAIN seq : seq[i] \in these}
<1>1. T \subseteq Nat /\ T # {}
  BY DEF ToSet
<1>2. PICK i \in T : \A j \in T : ~(j < i)
  <2>1. IsWellFoundedOn(OpToRel(<, Nat), Nat)
    BY NatLessThanWellFounded
  <2>2. PICK i \in T : \A j \in T : <<j, i>> \notin OpToRel(<, Nat)
    BY ONLY <1>1, <2>1, WFMin
  <2>3. \A j \in T : <<j, i>> \notin OpToRel(<, Nat) => ~(j < i)
    BY <1>1 DEF OpToRel
  <2> QED
    BY <2>2, <2>3
<1>3. \E k \in DOMAIN seq : seq[k] \in these /\ \A j \in DOMAIN seq : seq[j] \in these => k <= j
  BY <1>1, <1>2
<1>4. FirstIn(seq, these) =
        seq[CHOOSE k \in DOMAIN seq :
              seq[k] \in these /\ \A j \in DOMAIN seq : seq[j] \in these => k <= j]
  BY DEF FirstIn
<1> QED
  BY <1>3, <1>4 DEF ToSet

\* A listing of a finite set has every element of it.
LEMMA Listing ==
    ASSUME NEW S, IsFiniteSet(S), NEW order \in SetToSeqs(S)
    PROVE  order \in Seq(S) /\ ToSet(order) = S
<1> DEFINE D == 1 .. Cardinality(S)
<1>1. Cardinality(S) \in Nat
  BY FS_CardinalityType
<1>2. order \in [D -> S] /\ \A i, j \in D : i # j => order[i] # order[j]
  BY DEF SetToSeqs
<1>3. order \in Injection(D, S)
  BY <1>2 DEF Injection, IsInjective
<1>4. Cardinality(D) = Cardinality(S)
  BY <1>1, FS_Interval
<1>5. order \in Surjection(D, S)
  BY <1>3, <1>4, FS_Injection
<1>6. \A n \in S : \E i \in D : order[i] = n
  BY <1>5 DEF Surjection
<1> QED
  BY <1>1, <1>2, <1>6 DEF ToSet

\* A finite set of names has a longest one.
LEMMA LongestExists ==
    ASSUME NEW S \in SUBSET Names, IsFiniteSet(S), S # {}, Size \in [Names -> Nat]
    PROVE  \E n \in S : \A m \in S : Size[m] <= Size[n]
<1> DEFINE Longer(n) == {m \in S : Size[m] > Size[n]}
           T == {Longer(n) : n \in S}
<1>1. T \subseteq FiniteSubsetsOf(S) /\ T # {}
  <2>1. \A n \in S : Longer(n) \subseteq S
    OBVIOUS
  <2>2. \A n \in S : IsFiniteSet(Longer(n))
    <3> HIDE DEF Longer
    <3> QED
      BY <2>1, FS_Subset
  <2>3. T # {}
    <3>1. PICK n \in S : Longer(n) \in T
      OBVIOUS
    <3> QED
      BY ONLY <3>1
  <2>4. \A n \in S : Longer(n) \in FiniteSubsetsOf(S)
    <3> HIDE DEF Longer
    <3> QED
      BY <2>1, <2>2 DEF FiniteSubsetsOf
  <2> QED
    BY ONLY <2>3, <2>4
<1>2. IsWellFoundedOn(StrictSubsetOrdering(S), FiniteSubsetsOf(S))
  BY FS_StrictSubsetOrderingWellFounded
<1>3. PICK X \in T : \A Y \in T : <<Y, X>> \notin StrictSubsetOrdering(S)
  BY ONLY <1>1, <1>2, WFMin
<1>4. PICK n \in S : X = Longer(n)
  BY <1>3
<1>5. X = {}
  <2> SUFFICES ASSUME NEW m \in X PROVE FALSE
    OBVIOUS
  <2>1. m \in S /\ Size[m] > Size[n]
    BY <1>4
  <2>2. Longer(m) \subseteq X /\ m \notin Longer(m)
    BY <1>4, <2>1
  <2>3. <<Longer(m), X>> \in StrictSubsetOrdering(S)
    BY <1>4, <2>2 DEF StrictSubsetOrdering
  <2> QED
    BY <1>3, <2>1, <2>3
<1> QED
  BY <1>4, <1>5
--------------------------------------------------------------------------
(* What a message is read as. *)

LEMMA ListFacts ==
    ASSUME NEW list \in Configurations, NEW order \in SetToSeqs(list)
    PROVE  /\ order \in Seq(list) /\ ToSet(order) = list
           /\ list \subseteq Clusters /\ list \subseteq Names /\ IsFiniteSet(list)
<1>1. list \subseteq Clusters /\ Clusters \subseteq Names /\ IsFiniteSet(Clusters)
  BY CommandsAssumption DEF Clusters
<1>2. IsFiniteSet(list)
  BY <1>1, FS_Subset
<1> QED
  BY <1>1, <1>2, Listing

LEMMA MessageFacts ==
    ASSUME NEW c \in Chats, NEW m \in Messages[c]
    PROVE  m.words \in Seq(Names) /\ m.except \in Seq(Names) /\ m.named \in Names \cup {""}
BY CommandsAssumption

LEMMA WordsAreNames ==
    ASSUME NEW c \in Chats, NEW m \in Messages[c]
    PROVE  ToSet(m.words) \subseteq Names /\ ToSet(m.except) \subseteq Names
<1>1. m.words \in Seq(Names) /\ m.except \in Seq(Names)
  BY MessageFacts
<1> QED
  BY <1>1 DEF ToSet

LEMMA ReadingIsParsed ==
    ASSUME NEW c \in Chats, NEW m \in Messages[c], NEW list \in Configurations,
           NEW act \in Readings[m][list]
    PROVE  \E order \in SetToSeqs(list) : act = ParseWithAll(m, order, Skills, Storages)
<1>1. m \in AnyMessage
  BY DEF AnyMessage
<1> QED
  BY <1>1 DEF Readings

\* A message names a cluster, or a part of its name, by a word or a number.
Mentions(m, text) ==
    \/ \E w \in ToSet(m.words) \cup {m.named} : <<w, text>> \in Within
    \/ text \in Clusters /\ HasAny(m, Numbers[text])

\* The name that is extracted is mentioned, and typed in full when one is.
LEMMA NameRead ==
    ASSUME NEW c \in Chats, NEW m \in Messages[c],
           NEW list \in Configurations, NEW order \in SetToSeqs(list),
           NEW text, text = ExtractClusterName(m, order)
    PROVE  /\ text # "" => text \in Names /\ Mentions(m, text)
           /\ list \cap Typed(m) # {} => text \in list \cap Typed(m)
<1> DEFINE typed    == {n \in ToSet(order) : Lower[n] \in ToSet(m.words)}
           longest  == {n \in typed : \A k \in typed : Size[k] <= Size[n]}
           numbered == {n \in ToSet(order) : HasAny(m, Numbers[n])}
<1>1. /\ order \in Seq(list) /\ ToSet(order) = list
      /\ list \subseteq Clusters /\ list \subseteq Names /\ IsFiniteSet(list)
  BY ListFacts
<1>2. ToSet(m.words) \subseteq Names
  BY WordsAreNames
<1>3. text = IF longest # {} THEN FirstIn(order, longest)
             ELSE IF numbered # {} THEN FirstIn(order, numbered) ELSE m.named
  BY DEF ExtractClusterName
<1>4. typed = list \cap Typed(m)
  BY <1>1 DEF Typed
<1>5. typed # {} => longest # {}
  <2> SUFFICES ASSUME typed # {} PROVE longest # {}
    OBVIOUS
  <2>1. typed \in SUBSET Names /\ IsFiniteSet(typed)
    BY <1>1, FS_Subset
  <2> QED
    BY <2>1, LongestExists, CommandsAssumption
<1>6. ASSUME longest # {}
      PROVE  text \in list \cap Typed(m) /\ text \in Names /\ Mentions(m, text)
  <2>1. ToSet(order) \cap longest # {}
    BY <1>1, <1>6
  <2>2. text \in longest
    BY <1>1, <1>3, <1>6, <2>1, FirstInIs
  <2>3. text \in Names /\ Lower[text] \in ToSet(m.words)
    BY <1>1, <2>2
  <2>4. <<Lower[text], text>> \in Within
    BY <1>2, <2>3, NamesAssumption
  <2> QED
    BY <1>4, <2>2, <2>3, <2>4 DEF Mentions
<1>7. ASSUME longest = {}, text # ""
      PROVE  text \in Names /\ Mentions(m, text)
  <2>1. CASE numbered # {}
    <3>1. ToSet(order) \cap numbered # {}
      BY <2>1
    <3>2. text = FirstIn(order, numbered)
      BY <1>3, <1>7, <2>1
    <3>3. text \in numbered
      BY ONLY <1>1, <3>1, <3>2, FirstInIs
    <3> QED
      BY <1>1, <3>3 DEF Mentions
  <2>2. CASE numbered = {}
    <3>1. text = m.named /\ text \in Names
      BY <1>3, <1>7, <2>2, MessageFacts
    <3> QED
      BY <3>1, NamesAssumption DEF Mentions
  <2> QED
    BY <2>1, <2>2
<1> QED
  BY <1>4, <1>5, <1>6, <1>7

LEMMA TargetParts ==
    ASSUME NEW kind, NEW text
    PROVE  Target(kind, text).kind = kind /\ Target(kind, text).text = text
BY DEF Target

\* So is the target of a skill that may run on many: all of them when it says so, or
\* else by a word or a single name that is mentioned.
LEMMA TargetRead ==
    ASSUME NEW c \in Chats, NEW m \in Messages[c],
           NEW list \in Configurations, NEW order \in SetToSeqs(list),
           NEW target, target = ExtractClusterTarget(m, order)
    PROVE  /\ Has(m, "all") => target.kind = "all"
           /\ target.kind = "all" => Has(m, "all")
           /\ target.kind \in {"all", "prefix", "name", "none"}
           /\ target.kind \in {"prefix", "name"} =>
                 target.text \in Names /\ Mentions(m, target.text)
<1> DEFINE known == {w \in ToSet(m.words) : Matches(w, ToSet(order)) # {}}
           word  == FirstIn(m.words, known)
           names == Matches(word, ToSet(order))
<1>1. /\ order \in Seq(list) /\ ToSet(order) = list
      /\ list \subseteq Clusters /\ list \subseteq Names /\ IsFiniteSet(list)
  BY ListFacts
<1>2. ToSet(m.words) \subseteq Names /\ m.words \in Seq(Names)
  BY MessageFacts, WordsAreNames
<1>3. target = IF Has(m, "all") THEN Target("all", "")
               ELSE IF known = {} THEN OneCluster(ExtractClusterName(m, order))
               ELSE IF Cardinality(names) > 1 THEN Target("prefix", word)
               ELSE Target("name", CHOOSE n \in names : TRUE)
  BY DEF ExtractClusterTarget
<1>4. CASE Has(m, "all")
  <2>1. target = Target("all", "")
    BY <1>3, <1>4
  <2>2. target.kind = "all"
    BY ONLY <2>1, TargetParts
  <2> QED
    BY <1>4, <2>2
<1>5. CASE ~Has(m, "all") /\ known = {}
  <2>1. target = OneCluster(ExtractClusterName(m, order))
    BY <1>3, <1>5
  <2> DEFINE text == ExtractClusterName(m, order)
  <2>2. /\ target = OneCluster(text)
        /\ text # "" => text \in Names /\ Mentions(m, text)
    BY <2>1, NameRead
  <2> HIDE DEF text
  <2>3. CASE text = ""
    <3>1. target = Target("none", "")
      BY <2>2, <2>3 DEF OneCluster
    <3>2. target.kind = "none"
      BY ONLY <3>1, TargetParts
    <3> QED
      BY <1>5, <3>2
  <2>4. CASE text # ""
    <3>1. target = Target("name", text)
      BY <2>2, <2>4 DEF OneCluster
    <3>2. target.kind = "name" /\ target.text = text
      BY ONLY <3>1, TargetParts
    <3> QED
      BY <1>5, <2>2, <2>4, <3>2
  <2> QED
    BY <2>3, <2>4
<1>6. CASE ~Has(m, "all") /\ known # {}
  <2>1. word \in known
    <3>1. ToSet(m.words) \cap known # {}
      BY <1>6
    <3> QED
      BY <1>2, <3>1, FirstInIs
  <2>2. word \in Names /\ word \in ToSet(m.words) /\ names # {} /\ names \subseteq Names
    BY <1>1, <1>2, <2>1 DEF Matches
  <2> DEFINE one == CHOOSE n \in names : TRUE
  <2>3. one \in names
    BY <2>2
  <2>4. one \in Names /\ <<word, one>> \in Within /\ <<word, word>> \in Within
    BY <2>2, <2>3, NamesAssumption DEF Matches
  <2>5. \/ target = Target("prefix", word)
        \/ target = Target("name", one)
    BY <1>3, <1>6
  <2> HIDE DEF one, word
  <2>6. target.kind \in {"prefix", "name"} /\ target.text \in {word, one}
    BY ONLY <2>5, TargetParts
  <2>7. Mentions(m, word) /\ Mentions(m, one)
    BY <2>2, <2>4 DEF Mentions
  <2> QED
    BY <1>6, <2>2, <2>4, <2>6, <2>7
<1> QED
  BY <1>4, <1>5, <1>6

\* What is read as a skill is one that was found in the message.
LEMMA SkillIsParsed ==
    ASSUME NEW m, NEW order, ParseWithAll(m, order, Skills, Storages).type = "skill"
    PROVE  \E skill : ParseWithAll(m, order, Skills, Storages) = ParseSkill(m, order, skill)
<1> DEFINE act        == ParseWithAll(m, order, Skills, Storages)
           aliased    == AliasedSkill(m)
           registered == NamedWord(m, Skills)
           storage    == NamedWord(m, Storages)
           toggle     == [Action("toggle llm") EXCEPT !.enable = HasAny(m, {"enable", "on"})]
           rest       == [Action("rest storage") EXCEPT !.storage = storage]
<1>1. \/ act \in {ParseSkill(m, order, aliased), ParseSkill(m, order, registered)}
      \/ act \in {toggle, rest, ParseInspect(m, order), ParsePlain(m, order)}
      \/ act \in {Action("list inspect"), Action("help"), Action("list clusters"),
                  Action("list skills")}
  BY DEF ParseWithAll
<1>2. toggle.type # "skill" /\ rest.type # "skill"
  BY DEF Action
<1>3. ParseInspect(m, order).type # "skill"
  BY DEF ParseInspect, Action
<1>4. ParsePlain(m, order).type # "skill"
  BY DEF ParsePlain, Action
<1>5. /\ Action("list inspect").type # "skill" /\ Action("help").type # "skill"
      /\ Action("list clusters").type # "skill" /\ Action("list skills").type # "skill"
  BY DEF Action
<1>6. act.type = "skill"
  OBVIOUS
<1> HIDE DEF act, aliased, registered, storage, toggle, rest
<1>7. act \in {ParseSkill(m, order, aliased), ParseSkill(m, order, registered)}
  BY <1>1, <1>2, <1>3, <1>4, <1>5, <1>6
<1> QED
  BY <1>7 DEF act

\* What a skill stands for in a message, read with a listing of the clusters.
Stands(m, list, act) ==
    /\ act.target.kind \in {"all", "prefix", "name", "none"}
    /\ act.args.yes => Yes(m)
    /\ act.target.kind \in {"prefix", "name"} =>
          act.target.text \in Names /\ Mentions(m, act.target.text)
    /\ IF act.skill \in RestartSkills
       THEN /\ act.target.kind \in {"name", "none"}
            /\ list \cap Typed(m) # {} =>
                  act.target.kind = "name" /\ act.target.text \in list \cap Typed(m)
       ELSE /\ Has(m, "all") => act.target.kind = "all"
            /\ act.target.kind = "all" =>
                  /\ Has(m, "all")
                  /\ act.excludes = UNION {Matches(w, list) : w \in ToSet(m.except)}

\* A daemon is restarted in the cluster that is extracted, and with a confirmation only.
LEMMA RestartStands ==
    ASSUME NEW c \in Chats, NEW m \in Messages[c],
           NEW list \in Configurations, NEW order \in SetToSeqs(list),
           NEW skill \in RestartSkills, NEW daemon
    PROVE  Stands(m, list, Restart(m, order, skill, daemon))
<1> DEFINE act  == Restart(m, order, skill, daemon)
           text == ExtractClusterName(m, order)
<1>1. /\ act.skill = skill /\ act.target = OneCluster(text)
      /\ act.args.yes = Yes(m)
  BY DEF Restart, Action, Args
<1>2. /\ text # "" => text \in Names /\ Mentions(m, text)
      /\ list \cap Typed(m) # {} => text \in list \cap Typed(m)
  BY NameRead
<1>3. "" \notin list
  BY ListFacts, CommandsAssumption
<1> HIDE DEF act, text
<1>4. CASE text = ""
  <2>1. act.target = Target("none", "")
    BY <1>1, <1>4 DEF OneCluster
  <2>2. Target("none", "").kind = "none"
    BY DEF Target
  <2>3. act.target.kind = "none"
    BY ONLY <2>1, <2>2
  <2> QED
    BY <1>1, <1>2, <1>3, <1>4, <2>3 DEF Stands, act
<1>5. CASE text # ""
  <2>1. act.target = Target("name", text)
    BY <1>1, <1>5 DEF OneCluster
  <2>2. act.target.kind = "name" /\ act.target.text = text
    BY ONLY <2>1, TargetParts
  <2> QED
    BY <1>1, <1>2, <1>5, <2>2 DEF Stands, act
<1> QED
  BY <1>4, <1>5

\* Any other skill is run on the target that is extracted.
LEMMA OtherStands ==
    ASSUME NEW c \in Chats, NEW m \in Messages[c],
           NEW list \in Configurations, NEW order \in SetToSeqs(list),
           NEW skill, skill \notin RestartSkills
    PROVE  Stands(m, list, ParseSkill(m, order, skill))
<1> DEFINE act    == ParseSkill(m, order, skill)
           target == ExtractClusterTarget(m, order)
<1>1. /\ act.skill = skill /\ act.target = target
      /\ act.excludes = ExcludedTarget(m, order)
      /\ act.args.yes \in {FALSE, Yes(m)}
  BY DEF ParseSkill, Action, Args, RestartSkills
<1>2. /\ Has(m, "all") => target.kind = "all"
      /\ target.kind = "all" => Has(m, "all")
      /\ target.kind \in {"all", "prefix", "name", "none"}
      /\ target.kind \in {"prefix", "name"} =>
            target.text \in Names /\ Mentions(m, target.text)
  BY TargetRead
<1>3. Has(m, "all") =>
        act.excludes = UNION {Matches(w, list) : w \in ToSet(m.except)}
  BY <1>1, ListFacts DEF ExcludedTarget, Excluded
<1> QED
  BY <1>1, <1>2, <1>3 DEF Stands

LEMMA SkillStands ==
    ASSUME NEW c \in Chats, NEW m \in Messages[c], NEW list \in Configurations,
           NEW act \in Readings[m][list], act.type = "skill"
    PROVE  Stands(m, list, act)
<1>1. PICK order \in SetToSeqs(list) : act = ParseWithAll(m, order, Skills, Storages)
  BY ReadingIsParsed
<1>2. PICK skill : act = ParseSkill(m, order, skill)
  BY <1>1, SkillIsParsed
<1>3. CASE skill \notin RestartSkills
  BY <1>2, <1>3, OtherStands
<1>4. CASE skill = "restart_mon"
  <2>1. act = Restart(m, order, skill, "mon")
    BY <1>2, <1>4 DEF ParseSkill
  <2> QED
    BY <1>4, <2>1, RestartStands DEF RestartSkills
<1>5. CASE skill = "restart_mgr"
  <2>1. act = Restart(m, order, skill, "mgr")
    BY <1>2, <1>5 DEF ParseSkill
  <2> QED
    BY <1>5, <2>1, RestartStands DEF RestartSkills
<1> QED
  BY <1>3, <1>4, <1>5 DEF RestartSkills
--------------------------------------------------------------------------
(* The flags that are asked for. *)

\* The skill that a message with a single flag command stands for.
FlagSkill(m) ==
    IF HasAny(m, Backfill)
    THEN IF Unsets(m) THEN "unset_no_backfill" ELSE "set_no_backfill"
    ELSE IF Unsets(m) THEN "unset_noout" ELSE "set_noout"

\* The rows of a table are of some set.
LEMMA TwentyRows ==
    ASSUME NEW r1, NEW r2, NEW r3, NEW r4, NEW r5, NEW r6, NEW r7, NEW r8, NEW r9, NEW r10,
           NEW r11, NEW r12, NEW r13, NEW r14, NEW r15, NEW r16, NEW r17, NEW r18, NEW r19,
           NEW r20
    PROVE  \E S : <<r1, r2, r3, r4, r5, r6, r7, r8, r9, r10, r11, r12, r13, r14, r15, r16,
                   r17, r18, r19, r20>> \in Seq(S)
<1> DEFINE S == {r1, r2, r3, r4, r5, r6, r7, r8, r9, r10, r11, r12, r13, r14, r15, r16,
                 r17, r18, r19, r20}
<1>1. /\ r1 \in S /\ r2 \in S /\ r3 \in S /\ r4 \in S /\ r5 \in S
      /\ r6 \in S /\ r7 \in S /\ r8 \in S /\ r9 \in S /\ r10 \in S
      /\ r11 \in S /\ r12 \in S /\ r13 \in S /\ r14 \in S /\ r15 \in S
      /\ r16 \in S /\ r17 \in S /\ r18 \in S /\ r19 \in S /\ r20 \in S
  OBVIOUS
<1> HIDE DEF S
<1>2. <<r1, r2, r3, r4, r5, r6, r7, r8, r9, r10, r11, r12, r13, r14, r15, r16, r17, r18,
        r19, r20>> \in Seq(S)
  BY <1>1
<1> QED
  BY <1>2

\* The sequence has the elements of one and then those of another.
Joins(seq, p, q) ==
    /\ Len(seq) = Len(p) + Len(q)
    /\ \A i \in 1 .. Len(p) : seq[i] = p[i]
    /\ \A i \in 1 .. Len(q) : seq[Len(p) + i] = q[i]

LEMMA ConcatJoins ==
    ASSUME NEW S, NEW p \in Seq(S), NEW q \in Seq(S)
    PROVE  p \o q \in Seq(S) /\ Joins(p \o q, p, q)
BY DEF Joins

\* Two rows after two, and after four others.
LEMMA TwoMore ==
    ASSUME NEW seq, NEW p, NEW q, Joins(seq, p, q), Len(q) = 2
    PROVE  /\ Len(p) = 2 => /\ Len(seq) = 4 /\ seq[1] = p[1] /\ seq[2] = p[2]
                            /\ seq[3] = q[1] /\ seq[4] = q[2]
           /\ Len(p) = 4 => /\ Len(seq) = 6 /\ seq[1] = p[1] /\ seq[2] = p[2]
                            /\ seq[3] = p[3] /\ seq[4] = p[4]
                            /\ seq[5] = q[1] /\ seq[6] = q[2]
BY DEF Joins

\* The rows that come first in the table.
Leading(table, a, b, c, n) ==
    /\ table[1] = a[1] /\ table[2] = a[2] /\ table[3] = b[1] /\ table[4] = b[2]
    /\ table[5] = c[1] /\ table[6] = c[2]
    /\ n \in Nat /\ DOMAIN table = 1 .. (6 + n)

LEMMA LeadingRows ==
    ASSUME NEW S, NEW a \in Seq(S), Len(a) = 2, NEW b \in Seq(S), Len(b) = 2,
           NEW c \in Seq(S), Len(c) = 2, NEW other \in Seq(S)
    PROVE  Leading(a \o b \o c \o other, a, b, c, Len(other))
<1> DEFINE ab    == a \o b
           abc   == ab \o c
           table == abc \o other
<1>1. ab \in Seq(S) /\ Joins(ab, a, b)
  BY ConcatJoins
<1> HIDE DEF ab
<1>2. abc \in Seq(S) /\ Joins(abc, ab, c)
  BY <1>1, ConcatJoins
<1> HIDE DEF abc
<1>3. table \in Seq(S) /\ Joins(table, abc, other)
  BY <1>2, ConcatJoins
<1> HIDE DEF table
<1>4. /\ Len(ab) = 4 /\ ab[1] = a[1] /\ ab[2] = a[2] /\ ab[3] = b[1] /\ ab[4] = b[2]
  BY <1>1, TwoMore
<1>5. /\ Len(abc) = 6 /\ abc[1] = ab[1] /\ abc[2] = ab[2] /\ abc[3] = ab[3]
      /\ abc[4] = ab[4] /\ abc[5] = c[1] /\ abc[6] = c[2]
  BY <1>2, <1>4, TwoMore
<1>6. /\ Len(table) = 6 + Len(other) /\ \A i \in 1 .. 6 : table[i] = abc[i]
  BY <1>3, <1>5 DEF Joins
<1>7. Len(other) \in Nat /\ DOMAIN table = 1 .. (6 + Len(other))
  BY <1>3, <1>6
<1>8. /\ table[1] = abc[1] /\ table[2] = abc[2] /\ table[3] = abc[3]
      /\ table[4] = abc[4] /\ table[5] = abc[5] /\ table[6] = abc[6]
  BY ONLY <1>6
<1>9. Leading(table, a, b, c, Len(other))
  BY <1>4, <1>5, <1>7, <1>8, Zenon DEF Leading
<1> QED
  BY <1>9, Zenon DEF table, abc, ab

LEMMA AliasLeads ==
    Leading(AliasTable, RestartRows, UnsetRows, SetRows, Len(OtherRows))
<1>1. PICK S0 : OtherRows \in Seq(S0)
  BY TwentyRows, ZenonT(60) DEF OtherRows
<1>2. ASSUME NEW rows, \E x, y : rows = <<x, y>>
      PROVE  rows \in Seq({rows[1], rows[2]}) /\ Len(rows) = 2
  BY <1>2
<1>3. /\ \E x, y : RestartRows = <<x, y>>
      /\ \E x, y : UnsetRows = <<x, y>>
      /\ \E x, y : SetRows = <<x, y>>
  BY DEF RestartRows, UnsetRows, SetRows
<1> DEFINE S == S0 \cup {RestartRows[1], RestartRows[2], UnsetRows[1], UnsetRows[2],
                         SetRows[1], SetRows[2]}
<1>4. ASSUME NEW rows, rows \in Seq({rows[1], rows[2]}), rows[1] \in S, rows[2] \in S
      PROVE  rows \in Seq(S)
  <2> HIDE DEF S
  <2> QED
    BY <1>4
<1>5. /\ RestartRows \in Seq(S) /\ Len(RestartRows) = 2
      /\ UnsetRows \in Seq(S) /\ Len(UnsetRows) = 2
      /\ SetRows \in Seq(S) /\ Len(SetRows) = 2
  BY <1>2, <1>3, <1>4
<1>6. OtherRows \in Seq(S)
  BY <1>1
<1> HIDE DEF S
<1> QED
  BY <1>5, <1>6, LeadingRows DEF AliasTable

LEMMA AliasDomain == DOMAIN AliasTable \subseteq Nat \ {0} /\ 1 .. 6 \subseteq DOMAIN AliasTable
<1> DEFINE n == Len(OtherRows)
<1>1. n \in Nat /\ DOMAIN AliasTable = 1 .. (6 + n)
  BY AliasLeads, Zenon DEF Leading
<1> HIDE DEF n
<1> QED
  BY ONLY <1>1

LEMMA AliasRows ==
    /\ AliasTable[1][1] = "restart_mon" /\ AliasTable[1][2] = {"restart mon", "restart_mon"}
    /\ AliasTable[2][1] = "restart_mgr" /\ AliasTable[2][2] = {"restart mgr", "restart_mgr"}
    /\ AliasTable[3][1] = "unset_no_backfill" /\ AliasTable[3][2] = {"unset nobackfill", "unset_no_backfill"}
    /\ AliasTable[4][1] = "unset_noout" /\ AliasTable[4][2] = {"unset noout", "unset_noout"}
    /\ AliasTable[5][1] = "set_no_backfill" /\ AliasTable[5][2] = {"set nobackfill", "set_no_backfill"}
    /\ AliasTable[6][1] = "set_noout" /\ AliasTable[6][2] = {"set noout", "set_noout"}
<1>1. /\ AliasTable[1] = RestartRows[1] /\ AliasTable[2] = RestartRows[2]
      /\ AliasTable[3] = UnsetRows[1] /\ AliasTable[4] = UnsetRows[2]
      /\ AliasTable[5] = SetRows[1] /\ AliasTable[6] = SetRows[2]
  BY AliasLeads, Zenon DEF Leading
<1>2. /\ RestartRows[1][1] = "restart_mon" /\ RestartRows[1][2] = {"restart mon", "restart_mon"}
      /\ RestartRows[2][1] = "restart_mgr" /\ RestartRows[2][2] = {"restart mgr", "restart_mgr"}
  BY DEF RestartRows
<1>3. /\ UnsetRows[1][1] = "unset_no_backfill" /\ UnsetRows[1][2] = {"unset nobackfill", "unset_no_backfill"}
      /\ UnsetRows[2][1] = "unset_noout" /\ UnsetRows[2][2] = {"unset noout", "unset_noout"}
  BY DEF UnsetRows
<1>4. /\ SetRows[1][1] = "set_no_backfill" /\ SetRows[1][2] = {"set nobackfill", "set_no_backfill"}
      /\ SetRows[2][1] = "set_noout" /\ SetRows[2][2] = {"set noout", "set_noout"}
  BY DEF SetRows
<1> QED
  BY <1>1, <1>2, <1>3, <1>4

\* The row of the flags is the first that a message with a single flag command has.
LEMMA FlagAlias ==
    ASSUME NEW m, Asked(m) # {}
    PROVE  AliasedSkill(m) = FlagSkill(m)
<1> DEFINE Hit(i) == m.words = <<AliasTable[i][1]>> \/ HasAny(m, AliasTable[i][2])
           rows   == {i \in DOMAIN AliasTable : Hit(i)}
<1>1. ASSUME NEW word, m.words = <<word>> PROVE Has(m, word)
  <2>1. word \in ToSet(m.words)
    BY <1>1 DEF ToSet
  <2> QED
    BY <2>1 DEF Has, Text
<1>2. ASSUME NEW i, NEW skill, NEW keys,
             AliasTable[i][1] = skill, AliasTable[i][2] = keys, skill \in keys
      PROVE  Hit(i) <=> HasAny(m, keys)
  BY <1>1, <1>2 DEF HasAny
<1>3. /\ Hit(1) <=> HasAny(m, {"restart mon", "restart_mon"})
      /\ Hit(2) <=> HasAny(m, {"restart mgr", "restart_mgr"})
      /\ Hit(3) <=> HasAny(m, {"unset nobackfill", "unset_no_backfill"})
      /\ Hit(4) <=> HasAny(m, {"unset noout", "unset_noout"})
      /\ Hit(5) <=> HasAny(m, {"set nobackfill", "set_no_backfill"})
      /\ Hit(6) <=> HasAny(m, {"set noout", "set_noout"})
  <2> HIDE DEF Hit
  <2>1. Hit(1) <=> HasAny(m, {"restart mon", "restart_mon"})
    BY <1>2, AliasRows
  <2>2. Hit(2) <=> HasAny(m, {"restart mgr", "restart_mgr"})
    BY <1>2, AliasRows
  <2>3. Hit(3) <=> HasAny(m, {"unset nobackfill", "unset_no_backfill"})
    BY <1>2, AliasRows
  <2>4. Hit(4) <=> HasAny(m, {"unset noout", "unset_noout"})
    BY <1>2, AliasRows
  <2>5. Hit(5) <=> HasAny(m, {"set nobackfill", "set_no_backfill"})
    BY <1>2, AliasRows
  <2>6. Hit(6) <=> HasAny(m, {"set noout", "set_noout"})
    BY <1>2, AliasRows
  <2> QED
    BY <2>1, <2>2, <2>3, <2>4, <2>5, <2>6
<1>4. /\ ~HasAny(m, Besides)
      /\ HasAny(m, Backfill) \/ HasAny(m, Noout)
      /\ ~(HasAny(m, Backfill) /\ HasAny(m, Noout))
  BY DEF Asked
<1> HIDE DEF Hit
<1>5. /\ ~Hit(1) /\ ~Hit(2)
      /\ Hit(3) \/ Hit(5) <=> HasAny(m, Backfill)
      /\ Hit(4) \/ Hit(6) <=> HasAny(m, Noout)
      /\ Hit(3) \/ Hit(4) <=> Unsets(m)
  BY <1>3, <1>4 DEF HasAny, Besides, Backfill, Noout, Unsets
<1>6. AliasedSkill(m)
        = IF rows = {} THEN ""
          ELSE AliasTable[CHOOSE i \in rows : \A j \in rows : i <= j][1]
  BY DEF AliasedSkill, Hit
<1>7. ASSUME NEW k \in 3 .. 6, Hit(k), \A j \in 1 .. 6 : j < k => ~Hit(j)
      PROVE  AliasedSkill(m) = AliasTable[k][1]
  <2>1. k \in rows /\ rows \subseteq Nat
    BY <1>7, AliasDomain
  <2>2. \A j \in rows : k <= j
    <3> SUFFICES ASSUME NEW j \in rows, j < k PROVE FALSE
      BY <2>1
    <3>1. Hit(j) /\ j \in DOMAIN AliasTable
      OBVIOUS
    <3>2. j \in 1 .. 6
      BY <3>1, AliasDomain
    <3> QED
      BY <1>7, <3>1, <3>2
  <2> HIDE DEF rows
  <2>3. \A i \in rows : (\A j \in rows : i <= j) => i = k
    BY <2>1, <2>2
  <2>4. (CHOOSE i \in rows : \A j \in rows : i <= j) = k
    BY <2>1, <2>2, <2>3
  <2> QED
    BY <1>6, <2>1, <2>4
<1>8. CASE Hit(3)
  <2>1. AliasedSkill(m) = AliasTable[3][1]
    BY <1>5, <1>7, <1>8
  <2>2. AliasTable[3][1] = "unset_no_backfill"
    BY AliasRows
  <2> QED
    BY <1>5, <1>8, <2>1, <2>2 DEF FlagSkill
<1>9. CASE ~Hit(3) /\ Hit(4)
  <2>1. AliasedSkill(m) = AliasTable[4][1]
    BY <1>5, <1>7, <1>9
  <2>2. AliasTable[4][1] = "unset_noout"
    BY AliasRows
  <2> QED
    BY <1>4, <1>5, <1>9, <2>1, <2>2 DEF FlagSkill
<1>10. CASE ~Hit(3) /\ ~Hit(4) /\ Hit(5)
  <2>1. AliasedSkill(m) = AliasTable[5][1]
    BY <1>5, <1>7, <1>10
  <2>2. AliasTable[5][1] = "set_no_backfill"
    BY AliasRows
  <2> QED
    BY <1>5, <1>10, <2>1, <2>2 DEF FlagSkill
<1>11. CASE ~Hit(3) /\ ~Hit(4) /\ ~Hit(5) /\ Hit(6)
  <2>1. AliasedSkill(m) = AliasTable[6][1]
    BY <1>5, <1>7, <1>11
  <2>2. AliasTable[6][1] = "set_noout"
    BY AliasRows
  <2> QED
    BY <1>4, <1>5, <1>11, <2>1, <2>2 DEF FlagSkill
<1> QED
  BY <1>4, <1>5, <1>8, <1>9, <1>10, <1>11

\* It is read as that skill, whatever the clusters are.
LEMMA FlagReading ==
    ASSUME NEW c \in Chats, NEW m \in Messages[c], NEW list \in Configurations,
           NEW act \in Readings[m][list], Asked(m) # {}
    PROVE  /\ act.type = "skill" /\ act.skill = FlagSkill(m)
           /\ act.skill \in BroadcastSkills /\ act.skill \notin RestartSkills
<1>1. PICK order \in SetToSeqs(list) : act = ParseWithAll(m, order, Skills, Storages)
  BY ReadingIsParsed
<1>2. ~Has(m, "llm") /\ ~Has(m, "inspect")
  BY DEF Asked, HasAny, Besides
<1>3. FlagSkill(m) \in BroadcastSkills /\ FlagSkill(m) \notin RestartSkills /\ FlagSkill(m) # ""
  BY DEF FlagSkill, BroadcastSkills, RestartSkills
<1>4. AliasedSkill(m) = FlagSkill(m)
  BY FlagAlias
<1>5. act = ParseSkill(m, order, FlagSkill(m))
  BY <1>1, <1>2, <1>3, <1>4 DEF ParseWithAll
<1>6. act.type = "skill" /\ act.skill = FlagSkill(m)
  BY <1>3, <1>5 DEF ParseSkill, Action, RestartSkills
<1> QED
  BY <1>3, <1>6

--------------------------------------------------------------------------
(* What the plans are made of. *)

\* The steps that change nothing, and those that change the flags.
Quiet    == [op : {<<"ask">>, <<"look">>}, fails : {"line", "text", "error"}]
FlagStep == [op : {"set", "unset"} \X Flags, fails : {"line"}]

LEMMA QuietSteps ==
    /\ Quiet \subseteq Steps /\ FlagStep \subseteq Steps
    /\ \A fails \in {"line", "text", "error"} : Ask(fails) \in Quiet /\ Look(fails) \in Quiet
    /\ Step(<<"ask">>, "line") \in Quiet
    /\ \A s \in Quiet : ~Changes(s.op)
    /\ \A s \in FlagStep : Changes(s.op) /\ s.op[1] \notin {"delete", "port"}
<1>1. Quiet \subseteq Steps /\ FlagStep \subseteq Steps
  BY DEF Quiet, FlagStep, Steps, Ops
<1>2. \A fails \in {"line", "text", "error"} : Ask(fails) \in Quiet /\ Look(fails) \in Quiet
  BY DEF Quiet, Ask, Look, Step
<1>3. Step(<<"ask">>, "line") \in Quiet
  BY DEF Quiet, Step
<1>4. \A s \in Quiet : ~Changes(s.op)
  BY DEF Quiet, Changes
<1>5. \A s \in FlagStep : Changes(s.op) /\ s.op[1] \notin {"delete", "port"}
  BY DEF FlagStep, Changes
<1> QED
  BY <1>1, <1>2, <1>3, <1>4, <1>5

LEMMA QuietPlans ==
    /\ \A plan \in Seq(Quiet) : plan \in Seq(Steps) /\ \A i \in DOMAIN plan : plan[i] \in Quiet
    /\ <<>> \in Seq(Quiet) /\ \A s \in Quiet : <<s>> \in Seq(Quiet)
<1>1. ASSUME NEW plan \in Seq(Quiet)
      PROVE  plan \in Seq(Steps) /\ \A i \in DOMAIN plan : plan[i] \in Quiet
  BY QuietSteps
<1>2. <<>> \in Seq(Quiet) /\ \A s \in Quiet : <<s>> \in Seq(Quiet)
  OBVIOUS
<1> QED
  BY <1>1, <1>2

LEMMA NodePlanQuiet ==
    ASSUME NEW n \in Clusters, NEW node
    PROVE  NodePlan(n, node) \in Seq(Quiet)
<1>1. IsFiniteSet(NodesOf[n])
  BY CommandsAssumption
<1>2. IsFiniteSet(ResolveNodes(n, node))
  BY <1>1, FS_Subset DEF ResolveNodes, Matches
<1>3. Cardinality(ResolveNodes(n, node)) \in Nat
  BY <1>2, FS_CardinalityType
<1>4. Look("line") \in Quiet
  BY QuietSteps
<1> QED
  BY <1>3, <1>4 DEF NodePlan

LEMMA CephQueryQuiet ==
    /\ CephQuery \in Seq(Quiet) /\ HealthPlan = CephQuery
    /\ \A i \in DOMAIN CephQuery : CephQuery[i].op = <<"ask">>
<1>1. CephQuery = [i \in DOMAIN <<<<"ask">>>> |-> Step(<<<<"ask">>>>[i], "line")]
  BY DEF CephQuery, RunCephCommands
<1>2. DOMAIN CephQuery = 1 .. 1 /\ \A i \in 1 .. 1 : CephQuery[i] = Step(<<"ask">>, "line")
  BY <1>1
<1>3. CephQuery = [i \in 1 .. 1 |-> Step(<<"ask">>, "line")]
  BY <1>1
<1>4. CephQuery \in Seq(Quiet)
  BY <1>3, QuietSteps
<1>5. \A i \in DOMAIN CephQuery : CephQuery[i].op = <<"ask">>
  BY <1>2 DEF Step
<1> QED
  BY <1>4, <1>5 DEF HealthPlan, CephQuery

LEMMA FlagPlanSteps ==
    ASSUME NEW verb \in {"set", "unset"}, NEW names \in Seq(Flags)
    PROVE  FlagPlan(verb, names) \in Seq(Quiet \cup FlagStep)
<1> DEFINE sets == [i \in DOMAIN names |-> <<verb, names[i]>>]
           ops  == sets \o <<<<"ask">>>>
           Some == {"set", "unset"} \X Flags \cup {<<"ask">>}
<1>1. sets \in Seq(Some)
  BY DEF Some
<1>2. <<<<"ask">>>> \in Seq(Some)
  OBVIOUS
<1>3. ops \in Seq(Some)
  BY <1>1, <1>2
<1> HIDE DEF ops
<1>4. \A op \in Some : Step(op, "line") \in Quiet \cup FlagStep
  BY DEF Step, Quiet, FlagStep
<1>5. [i \in DOMAIN ops |-> Step(ops[i], "line")] \in Seq(Quiet \cup FlagStep)
  BY <1>3, <1>4
<1> QED
  BY <1>5 DEF FlagPlan, RunCephCommands, ops

\* A daemon is deleted, and a port taken down or up, only with a confirmation.
LEMMA RestartPlanSteps ==
    ASSUME NEW n \in Clusters, NEW daemon, NEW args, NEW plan \in RestartPlans(n, daemon, args)
    PROVE  /\ plan \in Seq(Steps)
           /\ \A i \in DOMAIN plan : ~Changes(plan[i].op) \/ (args.yes /\ plan[i].op[1] = "delete")
<1>1. Ask("error") \in Steps /\ ~Changes(Ask("error").op)
  BY QuietSteps
<1>2. CASE plan = <<Ask("error")>>
  BY <1>1, <1>2
<1>3. ASSUME NEW pod \in {p \in Daemons[n] : args.yes /\ p = <<daemon, args.id>>},
             plan = <<Ask("error"), Step(<<"delete">> \o pod, "error")>>
      PROVE  /\ plan \in Seq(Steps)
             /\ \A i \in DOMAIN plan :
                   ~Changes(plan[i].op) \/ (args.yes /\ plan[i].op[1] = "delete")
  <2> DEFINE op == <<"delete">> \o pod
  <2>1. args.yes /\ pod \in Daemons[n] /\ pod = <<daemon, args.id>>
    OBVIOUS
  <2>2. op[1] = "delete"
    <3>1. <<"delete">> \in Seq({"delete", daemon, args.id}) /\ pod \in Seq({"delete", daemon, args.id})
      BY <2>1
    <3> QED
      BY <3>1
  <2>3. op \in Ops
    <3>1. n \in DOMAIN Daemons
      BY CommandsAssumption
    <3>2. op \in {<<"delete">> \o q : q \in Daemons[n]}
      BY <2>1
    <3> QED
      BY <3>1, <3>2 DEF Ops
  <2> HIDE DEF op
  <2>4. Step(op, "error") \in Steps /\ Step(op, "error").op = op
    BY <2>3 DEF Step, Steps
  <2>5. plan = <<Ask("error"), Step(op, "error")>>
    BY <1>3 DEF op
  <2> QED
    BY <1>1, <2>1, <2>2, <2>4, <2>5
<1> QED
  BY <1>2, <1>3 DEF RestartPlans

LEMMA PortPlanSteps ==
    ASSUME NEW n, NEW node, NEW args, NEW plan \in PortPlans(n, node, args)
    PROVE  /\ plan \in Seq(Steps)
           /\ \A i \in DOMAIN plan : ~Changes(plan[i].op) \/ (args.yes /\ plan[i].op[1] = "port")
<1>1. Look("text") \in Steps /\ ~Changes(Look("text").op)
  BY QuietSteps
<1>2. Step(<<"port">>, "text") \in Steps /\ Step(<<"port">>, "text").op = <<"port">>
  BY DEF Step, Steps, Ops
<1>3. \/ plan = <<>> \/ plan = <<Look("text")>>
      \/ args.yes /\ plan = <<Look("text"), Step(<<"port">>, "text")>>
  BY DEF PortPlans
<1>4. CASE plan = <<>>
  BY <1>4
<1>5. CASE plan = <<Look("text")>>
  BY <1>1, <1>5
<1>6. CASE args.yes /\ plan = <<Look("text"), Step(<<"port">>, "text")>>
  BY <1>1, <1>2, <1>6
<1> QED
  BY <1>3, <1>4, <1>5, <1>6

\* The steps of a skill's plan are what the skill may come to.
LEMMA SkillPlanSteps ==
    ASSUME NEW act, act.type = "skill", NEW n \in Clusters, NEW plan \in PlansFor(act, n)
    PROVE  plan \in Seq(Steps) /\ \A i \in DOMAIN plan : Fits(act, plan[i].op)
<1> DEFINE skill == act.skill
           node  == act.node
           args  == act.args
<1>1. plan \in Plans(skill, n, node, args)
  BY DEF PlansFor
<1>2. Quiet \subseteq Steps /\ \A s \in Quiet : ~Changes(s.op)
  BY QuietSteps
<1>3. ASSUME plan \in Seq(Quiet)
      PROVE  plan \in Seq(Steps) /\ \A i \in DOMAIN plan : Fits(act, plan[i].op)
  <2>1. \A i \in DOMAIN plan : plan[i] \in Quiet
    BY <1>3
  <2>2. plan \in Seq(Steps)
    BY <1>2, <1>3
  <2> QED
    BY <1>2, <2>1, <2>2 DEF Fits
<1>4. CASE skill \in {"set_no_backfill", "unset_no_backfill", "set_noout", "unset_noout"}
  <2>1. BackfillFlags \in Seq(Flags) /\ <<"noout">> \in Seq(Flags)
    BY DEF BackfillFlags, Flags, ToSet
  <2>2. plan \in {FlagPlan("set", BackfillFlags), FlagPlan("unset", BackfillFlags),
                  FlagPlan("set", <<"noout">>), FlagPlan("unset", <<"noout">>)}
    BY <1>1, <1>4 DEF Plans
  <2>3. plan \in Seq(Quiet \cup FlagStep)
    BY <2>1, <2>2, FlagPlanSteps
  <2>4. \A i \in DOMAIN plan : plan[i] \in Quiet \/ plan[i] \in FlagStep
    BY <2>3
  <2>5. \A i \in DOMAIN plan : Fits(act, plan[i].op)
    BY <1>4, <2>4, QuietSteps DEF Fits, RestartSkills
  <2> QED
    BY <2>3, <2>5, QuietSteps
<1>5. CASE skill \in RestartSkills
  <2>1. \E daemon : plan \in RestartPlans(n, daemon, args)
    BY <1>1, <1>5 DEF Plans, RestartSkills
  <2>2. /\ plan \in Seq(Steps)
        /\ \A i \in DOMAIN plan : ~Changes(plan[i].op) \/ (args.yes /\ plan[i].op[1] = "delete")
    BY <2>1, RestartPlanSteps
  <2> QED
    BY <1>5, <2>2 DEF Fits
<1>6. CASE skill \in {"nic_down", "nic_up"}
  <2>1. plan \in PortPlans(n, node, args)
    BY <1>1, <1>6 DEF Plans
  <2>2. /\ plan \in Seq(Steps)
        /\ \A i \in DOMAIN plan : ~Changes(plan[i].op) \/ (args.yes /\ plan[i].op[1] = "port")
    BY <2>1, PortPlanSteps
  <2> QED
    BY <1>6, <2>2 DEF Fits, RestartSkills
<1>7. CASE skill = "optimize_rgw_pg"
  <2>1. plan = <<Ask("error")>> \/ plan = <<Ask("error"), Step(<<"upmap">>, "error")>>
    BY <1>1, <1>7 DEF Plans, OptimizePlans
  <2>2. Ask("error") \in Steps /\ ~Changes(Ask("error").op)
    BY QuietSteps
  <2>3. /\ Step(<<"upmap">>, "error") \in Steps
        /\ Step(<<"upmap">>, "error").op = <<"upmap">>
    BY DEF Step, Steps, Ops
  <2>4. CASE plan = <<Ask("error")>>
    BY <2>2, <2>4 DEF Fits
  <2>5. CASE plan = <<Ask("error"), Step(<<"upmap">>, "error")>>
    <3>1. Fits(act, <<"upmap">>)
      BY <1>7 DEF Fits, RestartSkills
    <3>2. Fits(act, Ask("error").op)
      BY <2>2 DEF Fits
    <3> QED
      BY <2>2, <2>3, <2>5, <3>1, <3>2
  <2> QED
    BY <2>1, <2>4, <2>5
<1>8. CASE skill \in {"list_nodes", "crash_info", "object_storage", "kernel_logs", "hw_info"}
  <2>1. plan \in {ListNodesPlan, CrashInfoPlan, NodePlan(n, node), <<>>,
                  <<Look("text"), Look("line")>>}
    BY <1>1, <1>8 DEF Plans, ObjectStoragePlans, KernelLogPlans, HWInfoPlan
  <2>2. ListNodesPlan \in Seq(Quiet) /\ CrashInfoPlan \in Seq(Quiet)
    BY QuietSteps DEF ListNodesPlan, CrashInfoPlan
  <2>3. <<>> \in Seq(Quiet) /\ <<Look("text"), Look("line")>> \in Seq(Quiet)
    BY QuietSteps
  <2> QED
    BY <1>3, <2>1, <2>2, <2>3, NodePlanQuiet
<1>9. CASE skill \notin {"set_no_backfill", "unset_no_backfill", "set_noout", "unset_noout",
                         "restart_mon", "restart_mgr", "nic_down", "nic_up", "optimize_rgw_pg",
                         "list_nodes", "crash_info", "object_storage", "kernel_logs", "hw_info"}
  <2>1. plan = NodePlan(n, node) \/ plan = CephQuery
    BY <1>1, <1>9 DEF Plans, NodeQuery
  <2> QED
    BY <1>3, <2>1, NodePlanQuiet, CephQueryQuiet
<1> QED
  BY <1>4, <1>5, <1>6, <1>7, <1>8, <1>9 DEF RestartSkills

\* The other actions change nothing, and the health page only asks.
LEMMA OtherPlanSteps ==
    ASSUME NEW act, act.type \in RunTypes \ {"skill"},
           NEW n \in Clusters, NEW plan \in PlansFor(act, n)
    PROVE  /\ plan \in Seq(Steps) /\ \A i \in DOMAIN plan : Fits(act, plan[i].op)
           /\ act.type = "health" => \A i \in DOMAIN plan : plan[i].op = <<"ask">>
<1>1. plan = HealthPlan \/ plan = LogPlan(n, act.node) \/ plan = DiagPlan(n, act.node)
  BY DEF PlansFor, RunTypes
<1>2. act.type = "health" => plan = HealthPlan
  BY DEF PlansFor
<1>3. DiagPlan(n, act.node) \in Seq(Quiet)
  <2>1. <<>> \in Seq(Quiet) /\ <<Look("line")>> \in Seq(Quiet)
    <3>1. Look("line") \in Quiet
      BY ONLY QuietSteps
    <3> QED
      BY ONLY <3>1, QuietPlans
  <2>2. DiagPlan(n, act.node) = <<>> \/ DiagPlan(n, act.node) = <<Look("line")>>
    BY DEF DiagPlan
  <2> QED
    BY <2>1, <2>2
<1>4. plan \in Seq(Quiet)
  BY <1>1, <1>3, CephQueryQuiet, NodePlanQuiet DEF LogPlan
<1>5. plan \in Seq(Steps) /\ \A i \in DOMAIN plan : plan[i] \in Quiet
  BY ONLY <1>4, QuietPlans
<1>6. \A i \in DOMAIN plan : Fits(act, plan[i].op)
  BY <1>5, QuietSteps DEF Fits
<1> QED
  BY <1>2, <1>5, <1>6, CephQueryQuiet

\* A plan changes the flags it is for, and every one of them, all in one direction.
LEMMA FlagPlanIs ==
    ASSUME NEW verb \in {"set", "unset"}, NEW names \in Seq(Flags),
           NEW plan, plan = FlagPlan(verb, names)
    PROVE  /\ \A i \in DOMAIN plan :
                 Changes(plan[i].op) => plan[i].op \in {verb} \X ToSet(names)
           /\ \A op \in {verb} \X ToSet(names) : \E i \in DOMAIN plan : plan[i].op = op
<1> DEFINE sets == [i \in DOMAIN names |-> <<verb, names[i]>>]
           last == <<<<"ask">>>>
           ops  == sets \o last
           Some == {"set", "unset"} \X Flags \cup {<<"ask">>}
<1>1. /\ sets \in Seq(Some) /\ Len(sets) = Len(names) /\ Len(names) \in Nat
      /\ \A i \in 1 .. Len(names) : sets[i] = <<verb, names[i]>>
      /\ DOMAIN names = 1 .. Len(names)
  OBVIOUS
<1>2. last \in Seq(Some) /\ Len(last) = 1 /\ last[1] = <<"ask">>
  OBVIOUS
<1> HIDE DEF sets, last, Some
<1>3. ops \in Seq(Some) /\ Joins(ops, sets, last)
  BY <1>1, <1>2, ConcatJoins
<1>4. plan = [i \in DOMAIN ops |-> Step(ops[i], "line")]
  BY DEF FlagPlan, RunCephCommands, sets, last
<1> HIDE DEF ops
<1>5. DOMAIN plan = DOMAIN ops /\ \A i \in DOMAIN ops : plan[i].op = ops[i]
  BY <1>4 DEF Step
<1>6. /\ DOMAIN ops = 1 .. (Len(names) + 1)
      /\ \A i \in 1 .. Len(names) : ops[i] = <<verb, names[i]>>
      /\ ops[Len(names) + 1] = <<"ask">>
  <2>1. /\ Len(ops) = Len(names) + 1
        /\ \A i \in 1 .. Len(names) : ops[i] = sets[i]
        /\ ops[Len(names) + 1] = last[1]
    BY <1>1, <1>2, <1>3 DEF Joins
  <2>2. DOMAIN ops = 1 .. Len(ops)
    BY <1>3
  <2> QED
    BY <1>1, <1>2, <2>1, <2>2
<1>7. ASSUME NEW i \in DOMAIN plan, Changes(plan[i].op)
      PROVE  plan[i].op \in {verb} \X ToSet(names)
  <2>1. ~Changes(<<"ask">>)
    BY DEF Changes
  <2>2. i \in 1 .. (Len(names) + 1) /\ plan[i].op = ops[i]
    BY <1>5, <1>6
  <2>3. i # Len(names) + 1
    BY <1>6, <1>7, <2>1, <2>2
  <2>4. i \in DOMAIN names /\ i \in 1 .. Len(names)
    BY <1>1, <2>2, <2>3
  <2>5. plan[i].op = <<verb, names[i]>> /\ names[i] \in ToSet(names)
    BY <1>6, <2>2, <2>4 DEF ToSet
  <2> QED
    BY <2>5
<1>8. ASSUME NEW op \in {verb} \X ToSet(names)
      PROVE  \E i \in DOMAIN plan : plan[i].op = op
  <2>1. PICK i \in DOMAIN names : op = <<verb, names[i]>>
    BY DEF ToSet
  <2>2. i \in 1 .. Len(names) /\ i \in DOMAIN ops
    BY <1>1, <1>6
  <2> QED
    BY <1>5, <1>6, <2>1, <2>2
<1> QED
  BY <1>7, <1>8

LEMMA FlagSkillPlan ==
    ASSUME NEW m, Asked(m) # {}, NEW act, act.type = "skill", act.skill = FlagSkill(m),
           NEW n, NEW plan \in PlansFor(act, n)
    PROVE  /\ \A i \in DOMAIN plan : Changes(plan[i].op) => plan[i].op \in FlagOps(m)
           /\ \A op \in FlagOps(m) : \E i \in DOMAIN plan : plan[i].op = op
<1> DEFINE verb  == IF Unsets(m) THEN "unset" ELSE "set"
           names == IF HasAny(m, Backfill) THEN BackfillFlags ELSE <<"noout">>
<1>1. plan \in Plans(act.skill, n, act.node, act.args)
  BY DEF PlansFor
<1>2. plan = FlagPlan(verb, names)
  BY <1>1 DEF Plans, FlagSkill
<1>3. verb \in {"set", "unset"} /\ names \in Seq(Flags)
  <2>1. BackfillFlags \in Seq(Flags) /\ <<"noout">> \in Seq(Flags)
    BY DEF BackfillFlags, Flags, ToSet
  <2> QED
    BY <2>1
<1>4. FlagOps(m) = {verb} \X ToSet(names)
  <2>1. ToSet(<<"noout">>) = {"noout"}
    BY DEF ToSet
  <2>2. Asked(m) = ToSet(names)
    BY <2>1 DEF Asked
  <2> QED
    BY <2>2 DEF FlagOps
<1> HIDE DEF verb, names
<1> QED
  BY <1>2, <1>3, <1>4, FlagPlanIs
--------------------------------------------------------------------------
(* The steps of a worker that is busy, by what becomes of what it has in hand. *)

Frame    == UNCHANGED <<configured, dryRun, reloads, said>>
Calm     == Frame /\ UNCHANGED <<flags, inFlight, audit, ran>>

\* Where a target leads to when it is looked up.
Leads(act, n) ==
    IF act.target.kind = "name" THEN n \in FindByPrefix(act.target.text, configured)
    ELSE n \in Many(act)

Asks(w) ==
    /\ Calm /\ w \in Chats /\ pc[w] = "llm"
    /\ \/ Go(w, "dispatch", task[w])
       \/ \E answer \in LLMAnswers :
             Go(w, "dispatch", [task[w] EXCEPT !.act = LLMAction(answer)])

Enters(w) ==
    /\ Calm /\ pc[w] = "dispatch" /\ task[w].act.type \in RunTypes
    /\ \E left \in Seq(Clusters), batch \in BOOLEAN :
          /\ Go(w, "clusters", [task[w] EXCEPT !.left = left, !.batch = batch])
          /\ (w \in Chats /\ task[w].act.type = "skill") =>
                /\ task[w].act.target.kind # "none"
                /\ \A n \in ToSet(left) : Leads(task[w].act, n)
                /\ task[w].act.target.kind = "all" => Many(task[w].act) \subseteq ToSet(left)

Skips(w) ==
    /\ Calm /\ Running(w) /\ task[w].left # <<>>
    /\ \E trouble \in BOOLEAN :
          /\ Skip(w, trouble)
          /\ trouble \/ Pretends(w) \/ (pc[w] = "steps" /\ task[w].steps = <<>>)

Starts(w) ==
    /\ Calm /\ pc[w] = "clusters" /\ task[w].left # <<>> /\ ~Pretends(w)
    /\ \E plan \in PlansFor(task[w].act, Head(task[w].left)) :
          Go(w, "steps", [task[w] EXCEPT !.at = Head(task[w].left), !.steps = plan])

MaySend(w) == ran' = ran \/ (pc[w] = "steps" /\ task[w].steps # <<>> /\ Send(w))
MayChange(w) == \/ flags' = flags
                \/ /\ pc[w] = "steps" /\ task[w].steps # <<>>
                   /\ Allowed(Head(task[w].steps).op) /\ Send(w) /\ Effect(w)

Sends(w) ==
    /\ Frame /\ UNCHANGED <<inFlight, audit>>
    /\ pc[w] = "steps" /\ task[w].steps # <<>> /\ MaySend(w) /\ MayChange(w)
    /\ \E rest \in {Tail(task[w].steps), <<>>}, trouble \in BOOLEAN :
          /\ Go(w, "steps", [task[w] EXCEPT !.steps = rest, !.trouble = trouble])
          /\ trouble \/ RunStep(w)

\* No cluster is left that an answer should have been about.
NothingLeft(w) ==
    \/ pc[w] = "clusters" /\ task[w].left = <<>>
    \/ /\ pc[w] = "dispatch"
       /\ LET act == task[w].act IN
          (act.type = "skill" /\ act.skill \in BroadcastSkills /\ act.target.kind = "all") =>
             Many(act) = {}

Ends(w) ==
    /\ Frame /\ pc[w] \in {"dispatch", "clusters", "steps"} /\ MaySend(w) /\ MayChange(w)
    /\ \E status \in {"ok", "error"} :
          Finish(w, status) /\ (status = "ok" => NothingLeft(w))

Works(w) ==
    Asks(w) \/ Enters(w) \/ Skips(w) \/ Starts(w) \/ Sends(w) \/ Ends(w)

LEMMA FoundAreClusters ==
    ASSUME configured \in Configurations, NEW text
    PROVE  /\ FindByPrefix(text, configured) \subseteq configured
           /\ configured \subseteq Clusters /\ IsFiniteSet(configured)
<1>1. configured \subseteq Clusters /\ IsFiniteSet(Clusters)
  BY CommandsAssumption DEF Clusters
<1> QED
  BY <1>1, FS_Subset DEF FindByPrefix, Matches

LEMMA NamedEnters ==
    ASSUME TypeOK, NEW w \in Workers, Calm, pc[w] = "dispatch",
           task[w].act.type \in RunTypes,
           task[w].act.target.kind = "name" \/ task[w].act.type # "skill",
           task[w].act.target.kind # "none",
           NEW name \in FindByPrefix(task[w].act.target.text, configured),
           Go(w, "clusters", [task[w] EXCEPT !.left = <<name>>])
    PROVE  Enters(w)
<1>1. task[w] \in Hands /\ configured \in Configurations
  BY DEF TypeOK
<1>2. name \in Clusters
  BY <1>1, FoundAreClusters
<1>3. <<name>> \in Seq(Clusters) /\ ToSet(<<name>>) = {name}
  BY <1>2 DEF ToSet
<1>4. task[w].batch \in BOOLEAN
  BY <1>1 DEF Hands
<1>5. [task[w] EXCEPT !.left = <<name>>]
        = [task[w] EXCEPT !.left = <<name>>, !.batch = task[w].batch]
  BY <1>1 DEF Hands
<1>6. Go(w, "clusters", [task[w] EXCEPT !.left = <<name>>, !.batch = task[w].batch])
  BY <1>5
<1>7. task[w].act.type = "skill" =>
        /\ task[w].act.target.kind = "name"
        /\ \A n \in ToSet(<<name>>) : Leads(task[w].act, n)
  BY <1>3 DEF Leads
<1> QED
  BY <1>3, <1>4, <1>6, <1>7 DEF Enters

LEMMA ManyEnter ==
    ASSUME TypeOK, NEW w \in Workers, Calm, pc[w] = "dispatch",
           task[w].act.type \in RunTypes,
           task[w].act.target.kind \notin {"name", "none"},
           NEW order \in SetToSeqs(Many(task[w].act)),
           Go(w, "clusters", [task[w] EXCEPT !.left = order, !.batch = TRUE])
    PROVE  Enters(w)
<1>1. configured \subseteq Clusters /\ IsFiniteSet(configured)
  BY FoundAreClusters DEF TypeOK
<1>2. Many(task[w].act) \subseteq configured
  BY DEF Many, Matches
<1>3. IsFiniteSet(Many(task[w].act))
  BY <1>1, <1>2, FS_Subset
<1>4. order \in Seq(Many(task[w].act)) /\ ToSet(order) = Many(task[w].act)
  BY <1>3, Listing
<1>5. order \in Seq(Clusters)
  BY <1>1, <1>2, <1>4
<1>6. \A n \in ToSet(order) : Leads(task[w].act, n)
  BY <1>4 DEF Leads
<1>7. Many(task[w].act) \subseteq ToSet(order)
  BY <1>4
<1> QED
  BY <1>5, <1>6, <1>7 DEF Enters

LEMMA NextWorks ==
    ASSUME TypeOK, Formed, Next
    PROVE  \/ Reload
           \/ \E c \in Chats : Receive(c)
           \/ \E p \in Pages : Submit(p)
           \/ \E w \in Workers : Works(w)
<1>1. ASSUME NEW c \in Chats, AskLLM(c) PROVE Works(c)
  BY <1>1 DEF AskLLM, Works, Asks, Calm, Frame, shared
<1>2. ASSUME NEW c \in Chats, Answer(c) \/ ToggleLLM(c) \/ Elsewhere(c) PROVE Works(c)
  <2>1. Frame /\ flags' = flags /\ ran' = ran /\ pc[c] = "dispatch"
    BY <1>2 DEF Answer, ToggleLLM, Elsewhere, Frame
  <2>2. \E status \in {"ok", "error"} : Finish(c, status)
    BY <1>2 DEF Answer, ToggleLLM, Elsewhere
  <2>3. task[c].act.type # "skill"
    BY <1>2 DEF Answer, ToggleLLM, Elsewhere
  <2>4. NothingLeft(c)
    BY <2>1, <2>3 DEF NothingLeft
  <2> QED
    BY <2>1, <2>2, <2>4 DEF Works, Ends, MaySend, MayChange
<1>3. ASSUME NEW c \in Chats, HandleCluster(c) PROVE Works(c)
  <2>1. /\ Frame /\ flags' = flags /\ ran' = ran /\ pc[c] = "dispatch"
        /\ task[c].act.type \in RunTypes \ {"skill"}
        /\ \/ \E status \in {"ok", "error"} : Finish(c, status)
           \/ /\ task[c].act.target.kind # "none"
              /\ UNCHANGED <<inFlight, audit>>
              /\ \E name \in FindByPrefix(task[c].act.target.text, configured) :
                    Go(c, "clusters", [task[c] EXCEPT !.left = <<name>>])
    BY <1>3 DEF HandleCluster, GoToNamed, Frame, RunTypes
  <2>2. CASE \E status \in {"ok", "error"} : Finish(c, status)
    BY <2>1, <2>2 DEF Works, Ends, NothingLeft, MaySend, MayChange
  <2>3. ASSUME task[c].act.target.kind # "none", UNCHANGED <<inFlight, audit>>,
               NEW name \in FindByPrefix(task[c].act.target.text, configured),
               Go(c, "clusters", [task[c] EXCEPT !.left = <<name>>])
        PROVE  Works(c)
    <3>1. Enters(c)
      BY <2>1, <2>3, NamedEnters DEF Calm, Workers
    <3> QED
      BY <3>1 DEF Works
  <2> QED
    BY <2>1, <2>2, <2>3
<1>4. ASSUME NEW c \in Chats, HandleSkill(c) PROVE Works(c)
  <2>1. /\ Frame /\ flags' = flags /\ ran' = ran /\ pc[c] = "dispatch"
        /\ task[c].act.type \in RunTypes
        /\ \/ \E status \in {"ok", "error"} :
                 Finish(c, status) /\ (status = "ok" => NothingLeft(c))
           \/ /\ task[c].act.target.kind = "name"
              /\ UNCHANGED <<inFlight, audit>>
              /\ \E name \in FindByPrefix(task[c].act.target.text, configured) :
                    Go(c, "clusters", [task[c] EXCEPT !.left = <<name>>])
           \/ /\ task[c].act.target.kind \notin {"name", "none"}
              /\ UNCHANGED <<inFlight, audit>>
              /\ \E order \in SetToSeqs(Many(task[c].act)) :
                    Go(c, "clusters", [task[c] EXCEPT !.left = order, !.batch = TRUE])
    <3>1. /\ Frame /\ flags' = flags /\ ran' = ran /\ pc[c] = "dispatch"
          /\ task[c].act.type \in RunTypes
      BY <1>4 DEF HandleSkill, Frame, RunTypes
    <3>2. CASE task[c].act.target.kind = "none" \/ task[c].act.skill \notin Skills
      <4>1. task[c].act.skill \in BroadcastSkills => task[c].act.target.kind = "none"
        BY <3>2, CommandsAssumption DEF BroadcastSkills
      <4>2. NothingLeft(c)
        BY <3>1, <4>1 DEF NothingLeft
      <4> QED
        BY <1>4, <3>1, <3>2, <4>2 DEF HandleSkill
    <3>3. CASE /\ ~(task[c].act.target.kind = "none" \/ task[c].act.skill \notin Skills)
               /\ task[c].act.target.kind = "name"
      BY <1>4, <3>1, <3>3 DEF HandleSkill, GoToNamed
    <3>4. CASE /\ task[c].act.target.kind \notin {"name", "none"}
               /\ task[c].act.skill \in Skills
               /\ task[c].act.skill \notin BroadcastSkills \/ Many(task[c].act) = {}
      <4>1. NothingLeft(c)
        BY <3>1, <3>4 DEF NothingLeft
      <4> QED
        BY <1>4, <3>1, <3>4, <4>1 DEF HandleSkill
    <3>5. CASE /\ task[c].act.target.kind \notin {"name", "none"}
               /\ task[c].act.skill \in Skills
               /\ ~(task[c].act.skill \notin BroadcastSkills \/ Many(task[c].act) = {})
      BY <1>4, <3>1, <3>5 DEF HandleSkill, GoToMany
    <3> QED
      BY <3>2, <3>3, <3>4, <3>5
  <2>2. CASE \E status \in {"ok", "error"} :
                Finish(c, status) /\ (status = "ok" => NothingLeft(c))
    BY <2>1, <2>2 DEF Works, Ends, MaySend, MayChange
  <2>3. ASSUME task[c].act.target.kind = "name", UNCHANGED <<inFlight, audit>>,
               NEW name \in FindByPrefix(task[c].act.target.text, configured),
               Go(c, "clusters", [task[c] EXCEPT !.left = <<name>>])
        PROVE  Works(c)
    <3>1. Enters(c)
      BY <2>1, <2>3, NamedEnters DEF Calm, Workers
    <3> QED
      BY <3>1 DEF Works
  <2>4. ASSUME task[c].act.target.kind \notin {"name", "none"}, UNCHANGED <<inFlight, audit>>,
               NEW order \in SetToSeqs(Many(task[c].act)),
               Go(c, "clusters", [task[c] EXCEPT !.left = order, !.batch = TRUE])
        PROVE  Works(c)
    <3>1. Enters(c)
      BY <2>1, <2>4, ManyEnter DEF Calm, Workers
    <3> QED
      BY <3>1 DEF Works
  <2> QED
    BY <2>1, <2>2, <2>3, <2>4
<1>5. ASSUME NEW w \in Pages, LookUp(w) PROVE Works(w)
  <2>1. /\ Frame /\ flags' = flags /\ ran' = ran /\ pc[w] = "dispatch"
        /\ \/ Finish(w, "error")
           \/ /\ task[w].act.target.text \in configured
              /\ UNCHANGED <<inFlight, audit>>
              /\ Go(w, "clusters", [task[w] EXCEPT !.left = <<task[w].act.target.text>>])
    BY <1>5 DEF LookUp, Frame
  <2>2. CASE Finish(w, "error")
    BY <2>1, <2>2 DEF Works, Ends, MaySend, MayChange
  <2>3. ASSUME task[w].act.target.text \in configured, UNCHANGED <<inFlight, audit>>,
               Go(w, "clusters", [task[w] EXCEPT !.left = <<task[w].act.target.text>>])
        PROVE  Works(w)
    <3> DEFINE left == <<task[w].act.target.text>>
    <3>1. left \in Seq(Clusters)
      <4>1. configured \subseteq Clusters
        BY FoundAreClusters DEF TypeOK
      <4>2. task[w].act.target.text \in Clusters
        BY <2>3, <4>1
      <4> QED
        BY <4>2
    <3>2. \E f \in Forms[w] : task[w].act = PageAction(f)
      BY <2>1 DEF Formed, Busy
    <3>3. task[w].act.type \in RunTypes
      BY <3>2 DEF PageAction, Action, RunTypes
    <3>4. w \notin Chats
      BY CommandsAssumption
    <3>5. task[w] \in Hands
      BY DEF TypeOK, Workers
    <3>6. [task[w] EXCEPT !.left = left] = [task[w] EXCEPT !.left = left, !.batch = task[w].batch]
      BY <3>5 DEF Hands
    <3>7. task[w].batch \in BOOLEAN
      BY <3>5 DEF Hands
    <3>8. Go(w, "clusters", [task[w] EXCEPT !.left = left, !.batch = task[w].batch])
      BY <2>3, <3>6
    <3>9. Enters(w)
      BY <2>1, <2>3, <3>1, <3>3, <3>4, <3>7, <3>8 DEF Enters, Calm
    <3> QED
      BY <3>9 DEF Works
  <2> QED
    BY <2>1, <2>2, <2>3
<1>6. ASSUME NEW w \in Workers, NextCluster(w) PROVE Works(w)
  <2>1. /\ Frame /\ flags' = flags /\ ran' = ran /\ pc[w] = "clusters" /\ task[w].left # <<>>
        /\ \/ /\ UNCHANGED <<inFlight, audit>>
              /\ \E trouble \in BOOLEAN : Skip(w, trouble) /\ (trouble \/ Pretends(w))
           \/ /\ UNCHANGED <<inFlight, audit>> /\ ~Pretends(w)
              /\ \E plan \in PlansFor(task[w].act, Head(task[w].left)) :
                    Go(w, "steps", [task[w] EXCEPT !.at = Head(task[w].left), !.steps = plan])
           \/ Finish(w, "error")
    BY <1>6 DEF NextCluster, Frame
  <2>2. CASE /\ UNCHANGED <<inFlight, audit>>
             /\ \E trouble \in BOOLEAN : Skip(w, trouble) /\ (trouble \/ Pretends(w))
    BY <2>1, <2>2 DEF Works, Skips, Calm, Running
  <2>3. CASE /\ UNCHANGED <<inFlight, audit>> /\ ~Pretends(w)
             /\ \E plan \in PlansFor(task[w].act, Head(task[w].left)) :
                   Go(w, "steps", [task[w] EXCEPT !.at = Head(task[w].left), !.steps = plan])
    BY <2>1, <2>3 DEF Works, Starts, Calm
  <2>4. CASE Finish(w, "error")
    BY <2>1, <2>4 DEF Works, Ends, MaySend, MayChange
  <2> QED
    BY <2>1, <2>2, <2>3, <2>4
<1>7. ASSUME NEW w \in Workers, AllDone(w) PROVE Works(w)
  BY <1>7 DEF AllDone, Works, Ends, NothingLeft, Frame, MaySend, MayChange
<1>8. ASSUME NEW w \in Workers, ClusterDone(w) PROVE Works(w)
  <2>1. Calm /\ pc[w] = "steps" /\ task[w].steps = <<>> /\ Skip(w, FALSE)
    BY <1>8 DEF ClusterDone, Calm, Frame, shared
  <2>2. task[w].left # <<>>
    BY <2>1 DEF TypeOK
  <2> QED
    BY <2>1, <2>2 DEF Works, Skips, Running
<1>9. ASSUME NEW w \in Workers, RunStep(w) PROVE Works(w)
  <2>1. task[w] \in Hands
    BY DEF TypeOK
  <2>2. [task[w] EXCEPT !.steps = Tail(@)]
          = [task[w] EXCEPT !.steps = Tail(task[w].steps), !.trouble = task[w].trouble]
    BY <2>1 DEF Hands
  <2>3. task[w].trouble \in BOOLEAN
    BY <2>1 DEF Hands
  <2>4. /\ Frame /\ UNCHANGED <<inFlight, audit>> /\ pc[w] = "steps" /\ task[w].steps # <<>>
        /\ MaySend(w) /\ MayChange(w)
        /\ Go(w, "steps", [task[w] EXCEPT !.steps = Tail(@)])
    BY <1>9 DEF RunStep, Frame, MaySend, MayChange
  <2>5. Go(w, "steps", [task[w] EXCEPT !.steps = Tail(task[w].steps), !.trouble = task[w].trouble])
    BY <2>2, <2>4
  <2> QED
    BY <1>9, <2>3, <2>4, <2>5 DEF Works, Sends
<1>10. ASSUME NEW w \in Workers, StepFails(w) PROVE Works(w)
  <2> DEFINE rest == IF Head(task[w].steps).fails = "line" THEN Tail(task[w].steps) ELSE <<>>
  <2>1. task[w] \in Hands
    BY DEF TypeOK
  <2>2. [task[w] EXCEPT !.trouble = TRUE,
                        !.steps = IF Head(task[w].steps).fails = "line" THEN Tail(@) ELSE <<>>]
          = [task[w] EXCEPT !.steps = rest, !.trouble = TRUE]
    BY <2>1 DEF Hands
  <2>3. /\ Frame /\ pc[w] = "steps" /\ task[w].steps # <<>> /\ MaySend(w) /\ MayChange(w)
        /\ AfterFailure(w)
    BY <1>10 DEF StepFails, Frame, MaySend, MayChange
  <2>4. \/ Finish(w, "error")
        \/ /\ UNCHANGED <<inFlight, audit>>
           /\ Go(w, "steps", [task[w] EXCEPT !.steps = rest, !.trouble = TRUE])
    BY <2>2, <2>3 DEF AfterFailure
  <2>5. CASE Finish(w, "error")
    BY <2>3, <2>5 DEF Works, Ends
  <2>6. CASE /\ UNCHANGED <<inFlight, audit>>
             /\ Go(w, "steps", [task[w] EXCEPT !.steps = rest, !.trouble = TRUE])
    BY <2>3, <2>6 DEF Works, Sends
  <2> QED
    BY <2>4, <2>5, <2>6
<1> QED
  BY <1>1, <1>2, <1>3, <1>4, <1>5, <1>6, <1>7, <1>8, <1>9, <1>10
  DEF Next, ChatStep, WorkerStep, Workers
--------------------------------------------------------------------------
(* Type correctness. *)

\* The workers' part of TypeOK.
WorkerTypes ==
    /\ pc \in [Workers -> {"idle", "llm", "dispatch", "clusters", "steps", "done"}]
    /\ task \in [Workers -> Hands]
    /\ \A w \in Workers :
          /\ pc[w] \in {"clusters", "steps"} => task[w].act.type \in RunTypes
          /\ pc[w] = "steps" => task[w].left # <<>> /\ task[w].at = Head(task[w].left)
          /\ pc[w] = "done" => task[w] = NoTask
    /\ outcome \in [Workers -> {"none", "ok", "trouble", "error", "ignored", "refused"}]

LEMMA NoTaskType == NoTask \in Hands /\ NoTask.act.type = "help"
<1>1. Action("help") \in Actions /\ Action("help").type = "help"
  BY DEF Actions, Action
<1>2. <<>> \in Seq(Clusters) /\ <<>> \in Seq(Steps)
  OBVIOUS
<1> QED
  BY <1>1, <1>2 DEF NoTask, Hands

LEMMA GoTypes ==
    ASSUME TypeOK, NEW w \in Workers, NEW where \in Busy, NEW hand \in Hands,
           Go(w, where, hand),
           where \in {"clusters", "steps"} => hand.act.type \in RunTypes,
           where = "steps" => hand.left # <<>> /\ hand.at = Head(hand.left)
    PROVE  WorkerTypes'
<1>1. WorkerTypes
  BY DEF TypeOK, WorkerTypes, RunTypes
<1>2. pc' = [pc EXCEPT ![w] = where] /\ task' = [task EXCEPT ![w] = hand] /\ outcome' = outcome
  BY DEF Go
<1>3. /\ pc' \in [Workers -> {"idle", "llm", "dispatch", "clusters", "steps", "done"}]
      /\ task' \in [Workers -> Hands]
      /\ outcome' \in [Workers -> {"none", "ok", "trouble", "error", "ignored", "refused"}]
  BY <1>1, <1>2 DEF WorkerTypes, Busy
<1>4. pc'[w] = where /\ task'[w] = hand /\ where # "done"
  BY <1>1, <1>2 DEF WorkerTypes, Busy
<1>5. ASSUME NEW v \in Workers
      PROVE  /\ pc'[v] \in {"clusters", "steps"} => task'[v].act.type \in RunTypes
             /\ pc'[v] = "steps" => task'[v].left # <<>> /\ task'[v].at = Head(task'[v].left)
             /\ pc'[v] = "done" => task'[v] = NoTask
  <2>1. CASE v = w
    BY <1>4, <2>1
  <2>2. CASE v # w
    <3>1. pc'[v] = pc[v] /\ task'[v] = task[v]
      BY <1>1, <1>2, <2>2 DEF WorkerTypes
    <3> QED
      BY <1>1, <3>1 DEF WorkerTypes
  <2> QED
    BY <2>1, <2>2
<1> QED
  BY <1>3, <1>5 DEF WorkerTypes

LEMMA FinishTypes ==
    ASSUME TypeOK, NEW w \in Workers, NEW status \in {"ok", "error"}, Finish(w, status)
    PROVE  WorkerTypes' /\ inFlight' \in {0, 1} /\ audit' \in Seq(Entries)
<1>1. WorkerTypes
  BY DEF TypeOK, WorkerTypes, RunTypes
<1>2. /\ pc' = [pc EXCEPT ![w] = "done"] /\ task' = [task EXCEPT ![w] = NoTask]
      /\ outcome' = [outcome EXCEPT ![w] = IF status = "ok" /\ task[w].trouble THEN "trouble"
                                           ELSE status]
  BY DEF Finish
<1>3. /\ pc' \in [Workers -> {"idle", "llm", "dispatch", "clusters", "steps", "done"}]
      /\ task' \in [Workers -> Hands]
  BY <1>1, <1>2, NoTaskType DEF WorkerTypes
<1>4. outcome' \in [Workers -> {"none", "ok", "trouble", "error", "ignored", "refused"}]
  BY <1>1, <1>2 DEF WorkerTypes
<1>5. pc'[w] = "done" /\ task'[w] = NoTask
  BY <1>1, <1>2 DEF WorkerTypes
<1>6. ASSUME NEW v \in Workers
      PROVE  /\ pc'[v] \in {"clusters", "steps"} => task'[v].act.type \in RunTypes
             /\ pc'[v] = "steps" => task'[v].left # <<>> /\ task'[v].at = Head(task'[v].left)
             /\ pc'[v] = "done" => task'[v] = NoTask
  <2>1. CASE v = w
    BY <1>5, <2>1
  <2>2. CASE v # w
    <3>1. pc'[v] = pc[v] /\ task'[v] = task[v]
      BY <1>1, <1>2, <2>2 DEF WorkerTypes
    <3> QED
      BY <1>1, <3>1 DEF WorkerTypes
  <2> QED
    BY <2>1, <2>2
<1>7. inFlight' \in {0, 1}
  BY DEF Finish, Release, TypeOK
<1>8. audit' \in Seq(Entries)
  <2>1. audit \in Seq(Entries)
    BY DEF TypeOK
  <2>2. CASE w \in Chats
    <3> DEFINE entry == [by |-> w, target |-> task[w].act.target, type |-> task[w].act.type,
                         status |-> status]
    <3>1. task[w].act \in Actions
      BY <1>1 DEF WorkerTypes, Hands
    <3>2. entry \in Entries
      BY <2>2, <3>1 DEF Entries
    <3>3. audit' = Append(audit, entry)
      BY <2>2 DEF Finish, Record
    <3> HIDE DEF entry
    <3> QED
      BY <2>1, <3>2, <3>3
  <2>3. CASE w \notin Chats
    BY <2>1, <2>3 DEF Finish
  <2> QED
    BY <2>2, <2>3
<1> QED
  BY <1>3, <1>4, <1>6, <1>7, <1>8 DEF WorkerTypes

\* What a worker at a cluster has in hand.
LEMMA AtCluster ==
    ASSUME TypeOK, NEW w \in Workers, pc[w] = "steps"
    PROVE  /\ task[w] \in Hands /\ task[w].act \in Actions /\ task[w].steps \in Seq(Steps)
           /\ task[w].left \in Seq(Clusters) /\ task[w].left # <<>>
           /\ task[w].at = Head(task[w].left) /\ task[w].at \in Clusters
           /\ task[w].at \in ToSet(task[w].left)
<1>1. /\ task[w] \in Hands
      /\ task[w].left # <<>> /\ task[w].at = Head(task[w].left)
  BY DEF TypeOK
<1>2. /\ task[w].act \in Actions /\ task[w].steps \in Seq(Steps) /\ task[w].left \in Seq(Clusters)
  BY <1>1 DEF Hands
<1> DEFINE left == task[w].left
<1>3. left \in Seq(Clusters) /\ left # <<>>
  BY <1>1, <1>2
<1> HIDE DEF left
<1>4. Head(left) \in Clusters /\ Head(left) \in ToSet(left)
  BY <1>3 DEF ToSet
<1> QED
  BY <1>1, <1>2, <1>4 DEF left

LEMMA HeadStep ==
    ASSUME TypeOK, NEW w \in Workers, pc[w] = "steps", task[w].steps # <<>>
    PROVE  Head(task[w].steps) \in Steps /\ Head(task[w].steps).op \in Ops
<1> DEFINE steps == task[w].steps
<1>1. steps \in Seq(Steps) /\ steps # <<>>
  BY AtCluster
<1> HIDE DEF steps
<1>2. Head(steps) \in Steps
  BY <1>1
<1> QED
  BY <1>2 DEF steps, Steps

LEMMA SendTypes ==
    ASSUME TypeOK, NEW w \in Workers, MaySend(w), pc[w] = "steps" => task[w].at \in Clusters
    PROVE  ran' \subseteq [by : Workers, op : Ops, cluster : Clusters]
<1>1. ran \subseteq [by : Workers, op : Ops, cluster : Clusters]
  BY DEF TypeOK
<1>2. CASE ran' = ran
  BY <1>1, <1>2
<1>3. CASE pc[w] = "steps" /\ task[w].steps # <<>> /\ Send(w)
  <2> DEFINE op == Head(task[w].steps).op
             x  == [by |-> w, op |-> op, cluster |-> task[w].at]
  <2>1. op \in Ops
    BY <1>3, HeadStep
  <2>2. x \in [by : Workers, op : Ops, cluster : Clusters]
    BY <1>3, <2>1
  <2>3. ran' = ran \/ ran' = ran \cup {x}
    BY <1>3 DEF Send
  <2> QED
    BY <1>1, <2>2, <2>3
<1> QED
  BY <1>2, <1>3 DEF MaySend

LEMMA EffectTypes ==
    ASSUME TypeOK, NEW w \in Workers, MayChange(w)
    PROVE  flags' \in [Clusters -> SUBSET Flags]
<1>1. flags \in [Clusters -> SUBSET Flags]
  BY DEF TypeOK
<1>2. CASE flags' = flags
  BY <1>1, <1>2
<1>3. CASE pc[w] = "steps" /\ Allowed(Head(task[w].steps).op) /\ Send(w) /\ Effect(w)
  <2> DEFINE op == Head(task[w].steps).op
             n  == task[w].at
             new == IF op[1] = "set" THEN flags[n] \cup {op[2]}
                    ELSE IF op[1] = "unset" THEN flags[n] \ {op[2]} ELSE flags[n]
  <2>1. op[1] = "set" => op[2] \in Flags
    BY <1>3 DEF Allowed
  <2>2. n \in Clusters
    BY <1>3, AtCluster
  <2>3. new \in SUBSET Flags
    BY <1>1, <2>1, <2>2
  <2>4. flags' = [flags EXCEPT ![n] = new]
    BY <1>3 DEF Effect
  <2> HIDE DEF op, n, new
  <2> QED
    BY <1>1, <2>2, <2>3, <2>4
<1> QED
  BY <1>2, <1>3 DEF MayChange

LEMMA WorksTypes ==
    ASSUME TypeOK, NEW w \in Workers, Works(w)
    PROVE  /\ WorkerTypes' /\ flags' \in [Clusters -> SUBSET Flags]
           /\ inFlight' \in {0, 1} /\ audit' \in Seq(Entries)
           /\ ran' \subseteq [by : Workers, op : Ops, cluster : Clusters]
<1>1. /\ flags \in [Clusters -> SUBSET Flags] /\ inFlight \in {0, 1} /\ audit \in Seq(Entries)
      /\ ran \subseteq [by : Workers, op : Ops, cluster : Clusters]
      /\ task[w] \in Hands
  BY DEF TypeOK
<1>2. ASSUME Calm, WorkerTypes' 
      PROVE  /\ WorkerTypes' /\ flags' \in [Clusters -> SUBSET Flags]
             /\ inFlight' \in {0, 1} /\ audit' \in Seq(Entries)
             /\ ran' \subseteq [by : Workers, op : Ops, cluster : Clusters]
  BY <1>1, <1>2 DEF Calm
<1>3. CASE Asks(w)
  <2>1. ASSUME NEW hand \in Hands, Go(w, "dispatch", hand) PROVE WorkerTypes'
    BY <2>1, GoTypes DEF Busy
  <2>2. ASSUME NEW answer \in LLMAnswers
        PROVE  [task[w] EXCEPT !.act = LLMAction(answer)] \in Hands
    <3>1. LLMAction(answer) \in Actions
      BY DEF Actions, LLMActions
    <3> QED
      BY <1>1, <3>1 DEF Hands
  <2>3. WorkerTypes'
    BY <1>1, <1>3, <2>1, <2>2 DEF Asks
  <2> QED
    BY <1>2, <1>3, <2>3 DEF Asks
<1>4. CASE Enters(w)
  <2>1. PICK left \in Seq(Clusters), batch \in BOOLEAN :
           Go(w, "clusters", [task[w] EXCEPT !.left = left, !.batch = batch])
    BY <1>4 DEF Enters
  <2> DEFINE hand == [task[w] EXCEPT !.left = left, !.batch = batch]
  <2>2. hand \in Hands /\ hand.act = task[w].act
    BY <1>1 DEF Hands
  <2>3. hand.act.type \in RunTypes
    BY <1>4, <2>2 DEF Enters
  <2> HIDE DEF hand
  <2>4. Go(w, "clusters", hand)
    BY <2>1 DEF hand
  <2>5. WorkerTypes'
    BY <2>2, <2>3, <2>4, GoTypes DEF Busy
  <2> QED
    BY <1>2, <1>4, <2>5 DEF Enters
<1>5. CASE Skips(w)
  <2>1. PICK trouble \in BOOLEAN : Skip(w, trouble)
    BY <1>5 DEF Skips
  <2> DEFINE left == Tail(task[w].left)
             some == task[w].trouble \/ trouble
             hand == [task[w] EXCEPT !.left = left, !.at = "", !.steps = <<>>,
                                     !.trouble = some]
  <2>2. left \in Seq(Clusters)
    <3> DEFINE all == task[w].left
    <3>1. all \in Seq(Clusters) /\ all # <<>>
      BY <1>1, <1>5 DEF Skips, Hands
    <3> HIDE DEF all
    <3>2. Tail(all) \in Seq(Clusters)
      BY <3>1
    <3> QED
      BY <3>2 DEF all
  <2>3. Go(w, "clusters", hand)
    BY <2>1 DEF Skip
  <2>8. some \in BOOLEAN /\ <<>> \in Seq(Steps)
    OBVIOUS
  <2> HIDE DEF left, some
  <2>4. hand \in Hands /\ hand.act = task[w].act
    BY <1>1, <2>2, <2>8 DEF Hands
  <2>5. hand.act.type \in RunTypes
    BY <1>5, <2>4 DEF Skips, Running, TypeOK, RunTypes
  <2> HIDE DEF hand
  <2>6. WorkerTypes'
    BY <2>3, <2>4, <2>5, GoTypes DEF Busy
  <2> QED
    BY <1>2, <1>5, <2>6 DEF Skips
<1>6. CASE Starts(w)
  <2>1. task[w].left \in Seq(Clusters) /\ task[w].left # <<>> /\ task[w].act.type \in RunTypes
    BY <1>1, <1>6 DEF Starts, Hands, TypeOK, RunTypes
  <2> DEFINE n == Head(task[w].left)
  <2>2. n \in Clusters
    <3> DEFINE all == task[w].left
    <3>1. all \in Seq(Clusters) /\ all # <<>>
      BY <2>1
    <3> HIDE DEF all
    <3>2. Head(all) \in Clusters
      BY <3>1
    <3> QED
      BY <3>2 DEF all
  <2>3. PICK plan \in PlansFor(task[w].act, n) :
           Go(w, "steps", [task[w] EXCEPT !.at = n, !.steps = plan])
    BY <1>6 DEF Starts
  <2> DEFINE hand == [task[w] EXCEPT !.at = n, !.steps = plan]
  <2>4. plan \in Seq(Steps)
    <3> HIDE DEF n
    <3>1. CASE task[w].act.type = "skill"
      BY <2>2, <3>1, SkillPlanSteps
    <3>2. CASE task[w].act.type \in RunTypes \ {"skill"}
      BY <2>2, <3>2, OtherPlanSteps
    <3> QED
      BY <2>1, <3>1, <3>2
  <2>5. hand \in Hands /\ hand.act = task[w].act /\ hand.at = n /\ hand.left = task[w].left
    <3> HIDE DEF n
    <3> QED
      BY <1>1, <2>2, <2>4 DEF Hands
  <2>6. Go(w, "steps", hand)
    BY <2>3
  <2> HIDE DEF hand
  <2>7. hand.act.type \in RunTypes /\ hand.left # <<>> /\ hand.at = Head(hand.left)
    BY <2>1, <2>5
  <2>8. WorkerTypes'
    BY <2>5, <2>6, <2>7, GoTypes DEF Busy
  <2> QED
    BY <1>2, <1>6, <2>8 DEF Starts
<1>7. CASE Sends(w)
  <2>1. PICK rest \in {Tail(task[w].steps), <<>>}, trouble \in BOOLEAN :
           Go(w, "steps", [task[w] EXCEPT !.steps = rest, !.trouble = trouble])
    BY <1>7 DEF Sends
  <2> DEFINE hand == [task[w] EXCEPT !.steps = rest, !.trouble = trouble]
  <2>2. /\ task[w].steps \in Seq(Steps) /\ task[w].steps # <<>> /\ task[w].left # <<>>
        /\ task[w].at = Head(task[w].left) /\ task[w].at \in Clusters
    BY <1>7, AtCluster DEF Sends
  <2>3. rest \in Seq(Steps)
    <3> DEFINE all == task[w].steps
    <3>1. all \in Seq(Steps) /\ all # <<>>
      BY <2>2
    <3>2. rest = Tail(all) \/ rest = <<>>
      OBVIOUS
    <3> HIDE DEF all
    <3>3. Tail(all) \in Seq(Steps) /\ <<>> \in Seq(Steps)
      BY <3>1
    <3> QED
      BY ONLY <3>2, <3>3
  <2>4. /\ hand \in Hands /\ hand.act = task[w].act
        /\ hand.left = task[w].left /\ hand.at = task[w].at
    BY <1>1, <2>3 DEF Hands
  <2>5. Go(w, "steps", hand)
    BY <2>1
  <2> HIDE DEF hand
  <2>6. hand.act.type \in RunTypes /\ hand.left # <<>> /\ hand.at = Head(hand.left)
    BY <1>7, <2>2, <2>4 DEF Sends, TypeOK, RunTypes
  <2>7. WorkerTypes'
    BY <2>4, <2>5, <2>6, GoTypes DEF Busy
  <2>8. ran' \subseteq [by : Workers, op : Ops, cluster : Clusters]
    BY <1>7, <2>2, SendTypes DEF Sends
  <2>9. flags' \in [Clusters -> SUBSET Flags]
    BY <1>7, EffectTypes DEF Sends
  <2> QED
    BY <1>1, <1>7, <2>7, <2>8, <2>9 DEF Sends
<1>8. CASE Ends(w)
  <2>1. PICK status \in {"ok", "error"} : Finish(w, status)
    BY <1>8 DEF Ends
  <2>2. ran' \subseteq [by : Workers, op : Ops, cluster : Clusters]
    BY <1>8, AtCluster, SendTypes DEF Ends
  <2>3. flags' \in [Clusters -> SUBSET Flags]
    BY <1>8, EffectTypes DEF Ends
  <2> QED
    BY <2>1, <2>2, <2>3, FinishTypes
<1> QED
  BY <1>3, <1>4, <1>5, <1>6, <1>7, <1>8 DEF Works

LEMMA TypeInit == Init => TypeOK
<1> SUFFICES ASSUME Init PROVE TypeOK
  OBVIOUS
<1>1. llmOff \in BOOLEAN /\ dryRun \in BOOLEAN
  <2>1. PICK dev \in Dev : llmOff = dev.disableLLM /\ dryRun = dev.dryRun
    BY DEF Init
  <2>2. dev \in [dryRun : BOOLEAN, disableLLM : BOOLEAN]
    BY CommandsAssumption
  <2> QED
    BY <2>1, <2>2
<1>2. flags \in [Clusters -> SUBSET Flags]
  <2>1. PICK f \in FirstFlags : flags = [c \in Clusters |-> f]
    BY DEF Init
  <2>2. f \in SUBSET Flags
    BY CommandsAssumption
  <2> QED
    BY ONLY <2>1, <2>2
<1>3. audit \in Seq(Entries) /\ reloads \in 0 .. MaxReloads /\ inFlight \in {0, 1}
  <2>1. audit = <<>> /\ reloads = 0 /\ inFlight = 0
    BY DEF Init
  <2>2. MaxReloads \in Nat
    BY CommandsAssumption
  <2> QED
    BY ONLY <2>1, <2>2
<1>4. /\ pc \in [Workers -> {"idle", "llm", "dispatch", "clusters", "steps", "done"}]
      /\ task \in [Workers -> Hands] /\ \A w \in Workers : pc[w] = "idle"
  BY NoTaskType DEF Init
<1>5. said \in [Workers -> {NoMessage} \cup AnyMessage]
  BY DEF Init
<1>6. outcome \in [Workers -> {"none", "ok", "trouble", "error", "ignored", "refused"}]
  BY DEF Init
<1>7. configured \in Configurations /\ ran \subseteq [by : Workers, op : Ops, cluster : Clusters]
  BY DEF Init
<1> QED
  BY <1>1, <1>2, <1>3, <1>4, <1>5, <1>6, <1>7 DEF TypeOK

\* A worker that is done at once.
LEMMA DoneTypes ==
    ASSUME TypeOK, NEW w \in Workers, pc[w] = "idle", task[w] = NoTask,
           NEW answer \in {"ignored", "refused"},
           pc' = [pc EXCEPT ![w] = "done"], outcome' = [outcome EXCEPT ![w] = answer],
           UNCHANGED task
    PROVE  WorkerTypes'
<1>1. WorkerTypes
  BY DEF TypeOK, WorkerTypes, RunTypes
<1>2. /\ pc' \in [Workers -> {"idle", "llm", "dispatch", "clusters", "steps", "done"}]
      /\ task' \in [Workers -> Hands]
      /\ outcome' \in [Workers -> {"none", "ok", "trouble", "error", "ignored", "refused"}]
  BY <1>1 DEF WorkerTypes
<1>3. \A v \in Workers : /\ v # w => pc'[v] = pc[v]
                         /\ v = w => pc'[v] = "done" /\ task'[v] = NoTask
                         /\ task'[v] = task[v]
  BY <1>1 DEF WorkerTypes
<1> QED
  BY <1>1, <1>2, <1>3 DEF WorkerTypes

LEMMA ReceiveTypes ==
    ASSUME TypeOK, IdleHands, NEW c \in Chats, Receive(c)
    PROVE  WorkerTypes' /\ said' \in [Workers -> {NoMessage} \cup AnyMessage]
<1> DEFINE Reads(m, act) ==
             /\ said' = [said EXCEPT ![c] = m]
             /\ IF Ignored(m)
                THEN /\ pc' = [pc EXCEPT ![c] = "done"]
                     /\ outcome' = [outcome EXCEPT ![c] = "ignored"]
                     /\ UNCHANGED task
                ELSE Go(c, IF NeedsFallback(act) /\ ~llmOff THEN "llm" ELSE "dispatch",
                        [NoTask EXCEPT !.act = act])
<1>0. PICK m \in Messages[c] : \E act \in Readings[m][configured] : Reads(m, act)
  BY DEF Receive
<1>1. PICK act \in Readings[m][configured] : Reads(m, act)
  BY <1>0
<1>2. c \in Workers /\ pc[c] = "idle" /\ configured \in Configurations
  BY DEF Workers, Receive, TypeOK
<1>3. said' \in [Workers -> {NoMessage} \cup AnyMessage]
  BY <1>1 DEF TypeOK, AnyMessage
<1>4. act \in Actions
  <2>1. m \in AnyMessage
    BY DEF AnyMessage
  <2>2. act \in UNION {Readings[m][list] : list \in Configurations}
    BY <1>2
  <2> QED
    BY <2>1, <2>2 DEF Actions, MessageActions
<1>5. CASE Ignored(m)
  <2>1. WorkerTypes'
    BY <1>1, <1>2, <1>5, DoneTypes DEF IdleHands
  <2> QED
    BY <1>3, <2>1
<1>6. CASE ~Ignored(m)
  <2> DEFINE hand  == [NoTask EXCEPT !.act = act]
             where == IF NeedsFallback(act) /\ ~llmOff THEN "llm" ELSE "dispatch"
  <2>1. hand \in Hands
    BY <1>4, NoTaskType DEF Hands
  <2>2. where \in {"llm", "dispatch"} /\ Go(c, where, hand)
    BY <1>1, <1>6
  <2> HIDE DEF hand, where
  <2>3. WorkerTypes'
    BY <1>2, <2>1, <2>2, GoTypes DEF Busy
  <2> QED
    BY <1>3, <2>3
<1> QED
  BY <1>5, <1>6

LEMMA SubmitTypes ==
    ASSUME TypeOK, IdleHands, NEW p \in Pages, Submit(p)
    PROVE  WorkerTypes' /\ inFlight' \in {0, 1}
<1>1. inFlight \in {0, 1} /\ p \in Workers /\ pc[p] = "idle"
  BY DEF TypeOK, Workers, Submit
<1>2. PICK f \in Forms[p] :
        \/ /\ pc' = [pc EXCEPT ![p] = "done"]
           /\ outcome' = [outcome EXCEPT ![p] = "refused"]
           /\ UNCHANGED <<inFlight, task>>
        \/ /\ inFlight' = IF f.page = "run" THEN 1 ELSE inFlight
           /\ Go(p, "dispatch", [NoTask EXCEPT !.act = PageAction(f)])
  BY DEF Submit
<1>3. CASE /\ pc' = [pc EXCEPT ![p] = "done"]
           /\ outcome' = [outcome EXCEPT ![p] = "refused"]
           /\ UNCHANGED <<inFlight, task>>
  <2>1. WorkerTypes'
    BY <1>1, <1>3, DoneTypes DEF IdleHands
  <2> QED
    BY <1>1, <1>3, <2>1
<1>4. CASE /\ inFlight' = IF f.page = "run" THEN 1 ELSE inFlight
           /\ Go(p, "dispatch", [NoTask EXCEPT !.act = PageAction(f)])
  <2> DEFINE hand == [NoTask EXCEPT !.act = PageAction(f)]
  <2>1. PageAction(f) \in Actions
    <3>1. f \in AnyForm
      BY DEF AnyForm
    <3> QED
      BY <3>1 DEF Actions, PageActions
  <2>2. hand \in Hands
    BY <2>1, NoTaskType DEF Hands
  <2>3. Go(p, "dispatch", hand)
    BY <1>4
  <2> HIDE DEF hand
  <2>4. WorkerTypes'
    BY <1>1, <2>2, <2>3, GoTypes DEF Busy
  <2> QED
    BY <1>1, <1>4, <2>4
<1> QED
  BY <1>2, <1>3, <1>4

LEMMA TypeStep ==
    ASSUME TypeOK, IdleHands, Formed, [Next]_vars
    PROVE  TypeOK'
<1>1. CASE UNCHANGED vars
  BY <1>1 DEF vars, shared, TypeOK
<1>2. llmOff' \in BOOLEAN /\ dryRun' \in BOOLEAN
  <2>1. llmOff \in BOOLEAN /\ dryRun \in BOOLEAN
    BY DEF TypeOK
  <2>2. dryRun' = dryRun /\ (llmOff' = llmOff \/ \E c \in Chats : llmOff' = ~task[c].act.enable)
    BY DEF Next, ChatStep, WorkerStep, vars, shared, Reload, Receive, AskLLM, Answer, ToggleLLM,
           Elsewhere, HandleCluster, HandleSkill, Submit, LookUp, NextCluster, AllDone,
           ClusterDone, RunStep, StepFails
  <2> QED
    BY <2>1, <2>2
<1>3. CASE Reload
  <2>1. configured' \in Configurations
    BY <1>3 DEF Reload
  <2>2. reloads' \in 0 .. MaxReloads
    <3>1. MaxReloads \in Nat
      BY CommandsAssumption
    <3>2. reloads \in 0 .. MaxReloads /\ reloads < MaxReloads /\ reloads' = reloads + 1
      BY <1>3 DEF Reload, TypeOK
    <3> QED
      BY ONLY <3>1, <3>2
  <2>3. UNCHANGED <<llmOff, dryRun, flags, inFlight, audit, pc, task, said, outcome, ran>>
    BY <1>3 DEF Reload
  <2> QED
    BY <2>1, <2>2, <2>3 DEF TypeOK
<1>4. ASSUME NEW c \in Chats, Receive(c) PROVE TypeOK'
  <2>1. /\ WorkerTypes' /\ said' \in [Workers -> {NoMessage} \cup AnyMessage]
    BY <1>4, ReceiveTypes
  <2>2. UNCHANGED <<shared, ran>>
    BY <1>4 DEF Receive
  <2> QED
    BY <2>1, <2>2 DEF TypeOK, WorkerTypes, RunTypes, shared
<1>5. ASSUME NEW p \in Pages, Submit(p) PROVE TypeOK'
  <2>1. WorkerTypes' /\ inFlight' \in {0, 1}
    BY <1>5, SubmitTypes
  <2>2. UNCHANGED <<configured, llmOff, dryRun, flags, audit, reloads, said, ran>>
    BY <1>5 DEF Submit
  <2> QED
    BY <2>1, <2>2 DEF TypeOK, WorkerTypes, RunTypes
<1>6. ASSUME NEW w \in Workers, Works(w) PROVE TypeOK'
  <2>1. /\ WorkerTypes' /\ flags' \in [Clusters -> SUBSET Flags]
        /\ inFlight' \in {0, 1} /\ audit' \in Seq(Entries)
        /\ ran' \subseteq [by : Workers, op : Ops, cluster : Clusters]
    BY <1>6, WorksTypes
  <2>2. Frame
    BY <1>6 DEF Works, Asks, Enters, Skips, Starts, Sends, Ends, Calm
  <2> QED
    BY <1>2, <2>1, <2>2 DEF TypeOK, WorkerTypes, RunTypes, Frame
<1> QED
  BY <1>1, <1>3, <1>4, <1>5, <1>6, NextWorks
--------------------------------------------------------------------------
(* What the steps of one worker leave alone, and where it gets to. *)

\* How a worker that is busy moves on.
Moves(w) ==
    \/ /\ pc'[w] = "done" /\ task'[w] = NoTask
       /\ \E status \in {"ok", "error"} : Finish(w, status)
    \/ /\ w \in Chats /\ pc[w] = "llm" /\ pc'[w] = "dispatch"
       /\ UNCHANGED <<inFlight, audit, ran>>
       /\ \/ task'[w].act = task[w].act
          \/ \E answer \in LLMAnswers : task'[w].act = LLMAction(answer)
    \/ /\ pc'[w] \in {"clusters", "steps"} /\ task'[w].act = task[w].act
       /\ pc[w] # "llm" /\ UNCHANGED <<inFlight, audit>>

LEMMA GoMoves ==
    ASSUME TypeOK, NEW w \in Workers, NEW where, NEW hand, Go(w, where, hand)
    PROVE  /\ pc'[w] = where /\ task'[w] = hand
           /\ \A v \in Workers \ {w} : pc'[v] = pc[v] /\ task'[v] = task[v]
<1>1. pc' = [pc EXCEPT ![w] = where] /\ task' = [task EXCEPT ![w] = hand]
  BY DEF Go
<1>2. DOMAIN pc = Workers /\ DOMAIN task = Workers
  BY DEF TypeOK
<1> QED
  BY <1>1, <1>2

LEMMA FinishMoves ==
    ASSUME TypeOK, NEW w \in Workers, NEW status, Finish(w, status)
    PROVE  /\ pc'[w] = "done" /\ task'[w] = NoTask
           /\ \A v \in Workers \ {w} : pc'[v] = pc[v] /\ task'[v] = task[v]
<1>1. pc' = [pc EXCEPT ![w] = "done"] /\ task' = [task EXCEPT ![w] = NoTask]
  BY DEF Finish
<1>2. DOMAIN pc = Workers /\ DOMAIN task = Workers
  BY DEF TypeOK
<1> QED
  BY <1>1, <1>2

LEMMA WorksMoves ==
    ASSUME TypeOK, NEW w \in Workers, Works(w)
    PROVE  /\ \A v \in Workers \ {w} : pc'[v] = pc[v] /\ task'[v] = task[v]
           /\ pc[w] \in Busy /\ Frame /\ Moves(w)
<1>1. task[w] \in Hands
  BY DEF TypeOK
<1>2. CASE Asks(w)
  <2>1. PICK hand : /\ Go(w, "dispatch", hand)
                    /\ hand = task[w] \/ \E answer \in LLMAnswers :
                                            hand = [task[w] EXCEPT !.act = LLMAction(answer)]
    BY <1>2 DEF Asks
  <2>2. hand.act = task[w].act \/ \E answer \in LLMAnswers : hand.act = LLMAction(answer)
    BY <1>1, <2>1 DEF Hands
  <2> QED
    BY <1>2, <2>1, <2>2, GoMoves DEF Asks, Calm, Moves, Busy
<1>3. CASE Enters(w)
  <2>1. PICK left \in Seq(Clusters), batch \in BOOLEAN :
           Go(w, "clusters", [task[w] EXCEPT !.left = left, !.batch = batch])
    BY <1>3 DEF Enters
  <2> DEFINE hand == [task[w] EXCEPT !.left = left, !.batch = batch]
  <2>2. hand.act = task[w].act /\ Go(w, "clusters", hand)
    BY <1>1, <2>1 DEF Hands
  <2> HIDE DEF hand
  <2> QED
    BY <1>3, <2>2, GoMoves DEF Enters, Calm, Moves, Busy
<1>4. CASE Skips(w)
  <2>1. PICK trouble \in BOOLEAN : Skip(w, trouble)
    BY <1>4 DEF Skips
  <2> DEFINE hand == [task[w] EXCEPT !.left = Tail(@), !.at = "", !.steps = <<>>,
                                     !.trouble = @ \/ trouble]
  <2>2. hand.act = task[w].act /\ Go(w, "clusters", hand)
    BY <1>1, <2>1 DEF Hands, Skip
  <2> HIDE DEF hand
  <2> QED
    BY <1>4, <2>2, GoMoves DEF Skips, Calm, Moves, Busy, Running
<1>5. CASE Starts(w)
  <2> DEFINE n == Head(task[w].left)
  <2>1. PICK plan \in PlansFor(task[w].act, n) :
           Go(w, "steps", [task[w] EXCEPT !.at = n, !.steps = plan])
    BY <1>5 DEF Starts
  <2> DEFINE hand == [task[w] EXCEPT !.at = n, !.steps = plan]
  <2>2. hand.act = task[w].act /\ Go(w, "steps", hand)
    BY <1>1, <2>1 DEF Hands
  <2> HIDE DEF hand
  <2> QED
    BY <1>5, <2>2, GoMoves DEF Starts, Calm, Moves, Busy
<1>6. CASE Sends(w)
  <2>1. PICK rest \in {Tail(task[w].steps), <<>>}, trouble \in BOOLEAN :
           Go(w, "steps", [task[w] EXCEPT !.steps = rest, !.trouble = trouble])
    BY <1>6 DEF Sends
  <2> DEFINE hand == [task[w] EXCEPT !.steps = rest, !.trouble = trouble]
  <2>2. hand.act = task[w].act /\ Go(w, "steps", hand)
    BY <1>1, <2>1 DEF Hands
  <2> HIDE DEF hand
  <2> QED
    BY <1>6, <2>2, GoMoves DEF Sends, Moves, Busy
<1>7. CASE Ends(w)
  BY <1>7, FinishMoves DEF Ends, Moves, Busy
<1> QED
  BY <1>2, <1>3, <1>4, <1>5, <1>6, <1>7 DEF Works

\* Only a worker that receives or submits something begins.
LEMMA ReceiveMoves ==
    ASSUME TypeOK, IdleHands, NEW c \in Chats, Receive(c)
    PROVE  /\ \A v \in Workers \ {c} : pc'[v] = pc[v] /\ task'[v] = task[v] /\ said'[v] = said[v]
           /\ UNCHANGED <<shared, ran>> /\ pc[c] = "idle" /\ c \in Workers
           /\ said'[c] \in Messages[c]
           /\ \/ Ignored(said'[c]) /\ pc'[c] = "done" /\ task'[c] = NoTask
              \/ /\ ~Ignored(said'[c]) /\ pc'[c] \in {"llm", "dispatch"}
                 /\ pc'[c] = "llm" => NeedsFallback(task'[c].act)
                 /\ task'[c].act \in Readings[said'[c]][configured]
<1> DEFINE Reads(m, act) ==
             /\ said' = [said EXCEPT ![c] = m]
             /\ IF Ignored(m)
                THEN /\ pc' = [pc EXCEPT ![c] = "done"]
                     /\ outcome' = [outcome EXCEPT ![c] = "ignored"]
                     /\ UNCHANGED task
                ELSE Go(c, IF NeedsFallback(act) /\ ~llmOff THEN "llm" ELSE "dispatch",
                        [NoTask EXCEPT !.act = act])
<1>1. PICK m \in Messages[c] : \E act \in Readings[m][configured] : Reads(m, act)
  BY DEF Receive
<1>2. PICK act \in Readings[m][configured] : Reads(m, act)
  BY <1>1
<1>3. DOMAIN said = Workers /\ DOMAIN pc = Workers /\ c \in Workers
  BY DEF TypeOK, Workers
<1>4. said'[c] = m /\ \A v \in Workers \ {c} : said'[v] = said[v]
  BY <1>2, <1>3
<1>5. CASE Ignored(m)
  BY <1>2, <1>3, <1>4, <1>5 DEF Receive, IdleHands
<1>6. CASE ~Ignored(m)
  <2> DEFINE hand  == [NoTask EXCEPT !.act = act]
             where == IF NeedsFallback(act) /\ ~llmOff THEN "llm" ELSE "dispatch"
  <2>1. /\ hand.act = act /\ where \in {"llm", "dispatch"} /\ Go(c, where, hand)
        /\ where = "llm" => NeedsFallback(act)
    BY <1>2, <1>6 DEF NoTask
  <2> HIDE DEF hand, where
  <2> QED
    BY <1>3, <1>4, <1>6, <2>1, GoMoves DEF Receive
<1> QED
  BY <1>5, <1>6

LEMMA SubmitMoves ==
    ASSUME TypeOK, IdleHands, NEW p \in Pages, Submit(p)
    PROVE  /\ \A v \in Workers \ {p} : pc'[v] = pc[v] /\ task'[v] = task[v]
           /\ UNCHANGED <<configured, llmOff, dryRun, flags, audit, reloads, said, ran>>
           /\ pc[p] = "idle" /\ p \in Workers
           /\ \/ /\ pc'[p] = "done" /\ task'[p] = NoTask /\ inFlight' = inFlight
              \/ /\ pc'[p] = "dispatch"
                 /\ \E f \in Forms[p] :
                       /\ task'[p].act = PageAction(f)
                       /\ IF f.page = "run" THEN inFlight = 0 /\ inFlight' = 1
                                            ELSE inFlight' = inFlight
<1>1. PICK f \in Forms[p] :
        \/ /\ pc' = [pc EXCEPT ![p] = "done"]
           /\ UNCHANGED <<inFlight, task>>
        \/ /\ f.page = "run" => inFlight = 0
           /\ inFlight' = IF f.page = "run" THEN 1 ELSE inFlight
           /\ Go(p, "dispatch", [NoTask EXCEPT !.act = PageAction(f)])
  BY DEF Submit, SlotFree
<1>2. DOMAIN pc = Workers /\ p \in Workers
  BY DEF TypeOK, Workers
<1>3. CASE /\ pc' = [pc EXCEPT ![p] = "done"]
           /\ UNCHANGED <<inFlight, task>>
  BY <1>2, <1>3 DEF Submit, IdleHands
<1>4. CASE /\ f.page = "run" => inFlight = 0
           /\ inFlight' = IF f.page = "run" THEN 1 ELSE inFlight
           /\ Go(p, "dispatch", [NoTask EXCEPT !.act = PageAction(f)])
  <2> DEFINE hand == [NoTask EXCEPT !.act = PageAction(f)]
  <2>1. hand.act = PageAction(f) /\ Go(p, "dispatch", hand)
    BY <1>4 DEF NoTask
  <2> HIDE DEF hand
  <2>2. /\ pc'[p] = "dispatch" /\ task'[p].act = PageAction(f)
        /\ \A v \in Workers \ {p} : pc'[v] = pc[v] /\ task'[v] = task[v]
    BY <1>2, <2>1, GoMoves
  <2>3. IF f.page = "run" THEN inFlight = 0 /\ inFlight' = 1 ELSE inFlight' = inFlight
    BY <1>4
  <2> QED
    BY <1>2, <2>2, <2>3 DEF Submit
<1> QED
  BY <1>1, <1>3, <1>4
--------------------------------------------------------------------------
(* The invariants of single workers are kept, part by part. *)

LEMMA ChatOrPage ==
    /\ \A c \in Chats : c \in Workers /\ c \notin Pages
    /\ \A p \in Pages : p \in Workers /\ p \notin Chats
    /\ \A w \in Workers : w \in Chats \/ w \in Pages
BY CommandsAssumption DEF Workers

LEMMA ReloadCounts ==
    ASSUME TypeOK, Reload PROVE reloads' # 0
<1>1. reloads \in 0 .. MaxReloads /\ MaxReloads \in Nat /\ reloads' = reloads + 1
  BY CommandsAssumption DEF TypeOK, Reload
<1> QED
  BY ONLY <1>1

LEMMA IdleHandsStep ==
    ASSUME TypeOK, IdleHands, Formed, Next PROVE IdleHands'
<1>1. CASE Reload
  BY <1>1 DEF Reload, IdleHands
<1>2. ASSUME NEW c \in Chats, Receive(c) PROVE IdleHands'
  BY <1>2, ReceiveMoves DEF IdleHands
<1>3. ASSUME NEW p \in Pages, Submit(p) PROVE IdleHands'
  BY <1>3, SubmitMoves DEF IdleHands
<1>4. ASSUME NEW w \in Workers, Works(w) PROVE IdleHands'
  BY <1>4, WorksMoves DEF IdleHands, Moves
<1> QED
  BY <1>1, <1>2, <1>3, <1>4, NextWorks

LEMMA FormedStep ==
    ASSUME TypeOK, IdleHands, Formed, Next PROVE Formed'
<1>1. CASE Reload
  BY <1>1 DEF Reload, Formed
<1>2. ASSUME NEW c \in Chats, Receive(c) PROVE Formed'
  BY <1>2, ReceiveMoves, ChatOrPage DEF Formed
<1>3. ASSUME NEW p \in Pages, Submit(p) PROVE Formed'
  <2> SUFFICES ASSUME NEW q \in Pages
               PROVE  /\ pc'[q] # "llm"
                      /\ pc'[q] \in Busy => \E f \in Forms[q] : task'[q].act = PageAction(f)
    BY DEF Formed
  <2>1. CASE q = p
    BY <1>3, <2>1, SubmitMoves DEF Busy
  <2>2. CASE q # p
    BY <1>3, <2>2, SubmitMoves, ChatOrPage DEF Formed
  <2> QED
    BY <2>1, <2>2
<1>4. ASSUME NEW w \in Workers, Works(w) PROVE Formed'
  <2> SUFFICES ASSUME NEW q \in Pages
               PROVE  /\ pc'[q] # "llm"
                      /\ pc'[q] \in Busy => \E f \in Forms[q] : task'[q].act = PageAction(f)
    BY DEF Formed
  <2>1. CASE q = w
    <3>1. Moves(w) /\ pc[w] \in Busy /\ w \notin Chats
      BY <1>4, <2>1, WorksMoves, ChatOrPage
    <3> QED
      BY <2>1, <3>1 DEF Moves, Formed, Busy
  <2>2. CASE q # w
    BY <1>4, <2>2, WorksMoves, ChatOrPage DEF Formed
  <2> QED
    BY <2>1, <2>2
<1> QED
  BY <1>1, <1>2, <1>3, <1>4, NextWorks

\* Understood, of one chat message.
UnderstoodBy(c) ==
    /\ pc[c] # "idle" => said[c] \in Messages[c]
    /\ pc[c] \in Busy =>
          /\ ~Ignored(said[c])
          /\ \/ \E answer \in LLMAnswers : task[c].act = LLMAction(answer)
             \/ \E list \in Configurations :
                   /\ task[c].act \in Readings[said[c]][list]
                   /\ reloads = 0 => list = configured

LEMMA UnderstoodStep ==
    ASSUME TypeOK, IdleHands, Formed, Understood, Next PROVE Understood'
<1>0. \A c \in Chats : UnderstoodBy(c)
  BY DEF Understood, UnderstoodBy
<1> SUFFICES ASSUME NEW c \in Chats PROVE UnderstoodBy(c)'
  BY DEF Understood, UnderstoodBy
<1>1. CASE Reload
  <2>1. UNCHANGED <<pc, task, said>> /\ reloads' # 0
    BY <1>1, ReloadCounts DEF Reload
  <2> QED
    BY <1>0, <2>1 DEF UnderstoodBy
<1>2. ASSUME NEW d \in Chats, Receive(d) PROVE UnderstoodBy(c)'
  <2>1. CASE c = d
    <3>1. configured \in Configurations /\ configured' = configured
      BY <1>2, ReceiveMoves DEF TypeOK, shared
    <3> QED
      BY <1>2, <2>1, <3>1, ReceiveMoves DEF UnderstoodBy, Busy
  <2>2. CASE c # d
    <3>1. /\ pc'[c] = pc[c] /\ task'[c] = task[c] /\ said'[c] = said[c]
          /\ configured' = configured /\ reloads' = reloads
      BY <1>2, <2>2, ReceiveMoves, ChatOrPage DEF shared
    <3> QED
      BY <1>0, <3>1 DEF UnderstoodBy
  <2> QED
    BY <2>1, <2>2
<1>3. ASSUME NEW p \in Pages, Submit(p) PROVE UnderstoodBy(c)'
  <2>1. /\ pc'[c] = pc[c] /\ task'[c] = task[c] /\ said' = said
        /\ configured' = configured /\ reloads' = reloads
    BY <1>3, SubmitMoves, ChatOrPage
  <2> QED
    BY <1>0, <2>1 DEF UnderstoodBy
<1>4. ASSUME NEW w \in Workers, Works(w) PROVE UnderstoodBy(c)'
  <2>1. said' = said /\ configured' = configured /\ reloads' = reloads
    BY <1>4, WorksMoves DEF Frame
  <2>2. CASE c # w
    <3>1. pc'[c] = pc[c] /\ task'[c] = task[c]
      BY <1>4, <2>2, WorksMoves, ChatOrPage
    <3> QED
      BY <1>0, <2>1, <3>1 DEF UnderstoodBy
  <2>3. CASE c = w
    <3>1. Moves(c) /\ pc[c] \in Busy
      BY <1>4, <2>3, WorksMoves
    <3>2. said[c] \in Messages[c] /\ ~Ignored(said[c])
      BY <1>0, <3>1 DEF UnderstoodBy, Busy
    <3>3. CASE pc'[c] = "done"
      BY <2>1, <3>2, <3>3 DEF UnderstoodBy, Busy
    <3>4. CASE \E answer \in LLMAnswers : task'[c].act = LLMAction(answer)
      BY <2>1, <3>2, <3>4 DEF UnderstoodBy
    <3>5. CASE task'[c].act = task[c].act
      BY <1>0, <2>1, <3>1, <3>2, <3>5 DEF UnderstoodBy
    <3> QED
      BY <3>1, <3>3, <3>4, <3>5 DEF Moves
  <2> QED
    BY <2>2, <2>3
<1> QED
  BY <1>1, <1>2, <1>3, <1>4, NextWorks

LEMMA OneSlotStep ==
    ASSUME TypeOK, IdleHands, Formed, OneSlot, Next PROVE OneSlot'
<1>1. CASE Reload
  BY <1>1 DEF Reload, OneSlot, OnTheWeb
<1>2. ASSUME NEW c \in Chats, Receive(c) PROVE OneSlot'
  <2>1. OnTheWeb' = OnTheWeb /\ inFlight' = inFlight
    BY <1>2, ReceiveMoves, ChatOrPage DEF OnTheWeb, shared
  <2> QED
    BY <2>1 DEF OneSlot
<1>3. ASSUME NEW p \in Pages, Submit(p) PROVE OneSlot'
  <2>1. p \notin OnTheWeb /\ OnTheWeb' \ {p} = OnTheWeb
    BY <1>3, SubmitMoves, ChatOrPage DEF OnTheWeb
  <2>2. CASE pc'[p] = "done" /\ inFlight' = inFlight
    <3>1. OnTheWeb' = OnTheWeb
      BY <2>1, <2>2 DEF OnTheWeb
    <3> QED
      BY <2>2, <3>1 DEF OneSlot
  <2>3. ASSUME NEW f \in Forms[p], pc'[p] = "dispatch", task'[p].act = PageAction(f),
               IF f.page = "run" THEN inFlight = 0 /\ inFlight' = 1 ELSE inFlight' = inFlight
        PROVE  OneSlot'
    <3>1. task'[p].act.type = "skill" <=> f.page = "run"
      BY <2>3 DEF PageAction, Action
    <3>2. CASE f.page = "run"
      <4>1. OnTheWeb = {} /\ inFlight' = 1
        BY <2>3, <3>2 DEF OneSlot
      <4>2. p \in OnTheWeb'
        BY <2>3, <3>1, <3>2 DEF OnTheWeb
      <4>3. OnTheWeb' = {p}
        BY <2>1, <4>1, <4>2
      <4> QED
        BY <4>1, <4>3 DEF OneSlot
    <3>3. CASE f.page # "run"
      <4>1. OnTheWeb' = OnTheWeb
        BY <2>1, <3>1, <3>3 DEF OnTheWeb
      <4> QED
        BY <2>3, <3>3, <4>1 DEF OneSlot
    <3> QED
      BY <3>2, <3>3
  <2> QED
    BY <1>3, <2>2, <2>3, SubmitMoves
<1>4. ASSUME NEW w \in Workers, Works(w) PROVE OneSlot'
  <2>1. Moves(w) /\ pc[w] \in Busy /\ OnTheWeb' \ {w} = OnTheWeb \ {w}
    BY <1>4, WorksMoves, ChatOrPage DEF OnTheWeb
  <2>2. CASE w \in Chats
    <3>1. OnTheWeb' = OnTheWeb
      BY <2>1, <2>2, ChatOrPage DEF OnTheWeb
    <3>2. inFlight' = inFlight
      BY <2>1, <2>2 DEF Moves, Finish
    <3> QED
      BY <3>1, <3>2 DEF OneSlot
  <2>3. CASE w \in Pages
    <3>1. w \in OnTheWeb <=> task[w].act.type = "skill"
      BY <2>1, <2>3 DEF OnTheWeb, Busy
    <3>2. CASE pc'[w] = "done" /\ \E status \in {"ok", "error"} : Finish(w, status)
      <4>1. inFlight' = IF task[w].act.type = "skill" THEN 0 ELSE inFlight
        BY <2>3, <3>2, ChatOrPage DEF Finish, Release
      <4>2. OnTheWeb' = OnTheWeb \ {w}
        BY <2>1, <3>2 DEF OnTheWeb
      <4>3. CASE task[w].act.type = "skill"
        BY <3>1, <4>1, <4>2, <4>3 DEF OneSlot
      <4>4. CASE task[w].act.type # "skill"
        BY <3>1, <4>1, <4>2, <4>4 DEF OneSlot
      <4> QED
        BY <4>3, <4>4
    <3>3. CASE /\ pc'[w] \in {"clusters", "steps"} /\ task'[w].act = task[w].act
               /\ inFlight' = inFlight
      <4>1. w \in OnTheWeb' <=> task[w].act.type = "skill"
        BY <2>3, <3>3 DEF OnTheWeb
      <4>2. OnTheWeb' = OnTheWeb
        BY <2>1, <3>1, <4>1
      <4> QED
        BY <3>3, <4>2 DEF OneSlot
    <3> QED
      BY <2>1, <2>3, <3>2, <3>3, ChatOrPage DEF Moves
  <2> QED
    BY <2>2, <2>3, ChatOrPage
<1> QED
  BY <1>1, <1>2, <1>3, <1>4, NextWorks

\* Tail and the empty sequence have no elements that the whole has not.
LEMMA TailOf ==
    ASSUME NEW S, NEW seq \in Seq(S), seq # <<>>, NEW rest \in {Tail(seq), <<>>}
    PROVE  \A i \in DOMAIN rest : \E j \in DOMAIN seq : rest[i] = seq[j]
<1>1. CASE rest = <<>>
  BY <1>1
<1>2. CASE rest = Tail(seq)
  <2>1. /\ Len(seq) \in Nat \ {0} /\ DOMAIN seq = 1 .. Len(seq)
        /\ DOMAIN rest = 1 .. (Len(seq) - 1)
        /\ \A i \in 1 .. (Len(seq) - 1) : rest[i] = seq[i + 1]
    BY <1>2
  <2> QED
    BY <2>1
<1> QED
  BY <1>1, <1>2

PlannedBy(w) ==
    pc[w] = "steps" =>
        \A i \in DOMAIN task[w].steps :
            /\ Fits(task[w].act, task[w].steps[i].op)
            /\ dryRun => w \in Pages /\ task[w].steps[i].op = <<"ask">>

LEMMA PlannedStep ==
    ASSUME TypeOK, IdleHands, Formed, Planned, Next PROVE Planned'
<1>0. \A w \in Workers : PlannedBy(w)
  BY DEF Planned, PlannedBy
<1> SUFFICES ASSUME NEW v \in Workers PROVE PlannedBy(v)'
  BY DEF Planned, PlannedBy
<1>1. CASE Reload
  BY <1>0, <1>1 DEF Reload, PlannedBy
<1>2. ASSUME NEW c \in Chats, Receive(c) PROVE PlannedBy(v)'
  BY <1>0, <1>2, ReceiveMoves DEF PlannedBy, shared
<1>3. ASSUME NEW p \in Pages, Submit(p) PROVE PlannedBy(v)'
  BY <1>0, <1>3, SubmitMoves DEF PlannedBy
<1>4. ASSUME NEW w \in Workers, Works(w) PROVE PlannedBy(v)'
  <2>0. dryRun' = dryRun
    BY <1>4, WorksMoves DEF Frame
  <2>1. CASE v # w
    <3>1. pc'[v] = pc[v] /\ task'[v] = task[v]
      BY <1>4, <2>1, WorksMoves
    <3> QED
      BY <1>0, <2>0, <3>1 DEF PlannedBy
  <2>2. ASSUME v = w, Starts(w) PROVE PlannedBy(v)'
    <3> DEFINE act == task[w].act
               n   == Head(task[w].left)
    <3>1. PICK plan \in PlansFor(act, n) :
             Go(w, "steps", [task[w] EXCEPT !.at = n, !.steps = plan])
      BY <2>2 DEF Starts
    <3>2. task[w] \in Hands /\ act.type \in RunTypes /\ ~Pretends(w)
      BY <2>2 DEF Starts, TypeOK, RunTypes
    <3>3. task'[w] = [task[w] EXCEPT !.at = n, !.steps = plan]
      BY <3>1, GoMoves
    <3>4. task'[w].act = act /\ task'[w].steps = plan
      BY <3>2, <3>3 DEF Hands
    <3>5. n \in Clusters
      <4> DEFINE all == task[w].left
      <4>1. all \in Seq(Clusters) /\ all # <<>>
        BY <2>2, <3>2 DEF Starts, Hands
      <4> HIDE DEF all
      <4>2. Head(all) \in Clusters
        BY <4>1
      <4> QED
        BY <4>2 DEF all
    <3> HIDE DEF act, n
    <3>6. \A i \in DOMAIN plan : Fits(act, plan[i].op)
      <4>1. CASE act.type = "skill"
        BY <3>5, <4>1, SkillPlanSteps
      <4>2. CASE act.type \in RunTypes \ {"skill"}
        BY <3>5, <4>2, OtherPlanSteps
      <4> QED
        BY <3>2, <4>1, <4>2
    <3>7. ASSUME dryRun
          PROVE  w \in Pages /\ \A i \in DOMAIN plan : plan[i].op = <<"ask">>
      <4>1. w \in Pages /\ act.type = "health"
        BY <3>2, <3>7 DEF Pretends, act
      <4>2. act.type \in RunTypes \ {"skill"}
        BY <4>1 DEF RunTypes
      <4> QED
        BY <3>5, <4>1, <4>2, OtherPlanSteps
    <3> QED
      BY <2>0, <2>2, <3>4, <3>6, <3>7 DEF PlannedBy
  <2>3. ASSUME v = w, Sends(w) PROVE PlannedBy(v)'
    <3>1. PICK rest \in {Tail(task[w].steps), <<>>}, trouble \in BOOLEAN :
             Go(w, "steps", [task[w] EXCEPT !.steps = rest, !.trouble = trouble])
      BY <2>3 DEF Sends
    <3>2. task'[w] = [task[w] EXCEPT !.steps = rest, !.trouble = trouble]
      BY <3>1, GoMoves
    <3>3. /\ task[w] \in Hands /\ task[w].steps \in Seq(Steps) /\ task[w].steps # <<>>
          /\ pc[w] = "steps"
      BY <2>3, AtCluster DEF Sends
    <3>4. task'[w].act = task[w].act /\ task'[w].steps = rest
      BY <3>2, <3>3 DEF Hands
    <3>5. \A i \in DOMAIN rest : \E j \in DOMAIN task[w].steps : rest[i] = task[w].steps[j]
      BY <3>3, TailOf
    <3> QED
      BY <1>0, <2>0, <2>3, <3>3, <3>4, <3>5 DEF PlannedBy
  <2>4. ASSUME v = w, Asks(w) \/ Enters(w) \/ Skips(w) \/ Ends(w) PROVE PlannedBy(v)'
    <3>1. pc'[w] # "steps"
      <4>1. ASSUME NEW where, NEW hand, Go(w, where, hand) PROVE pc'[w] = where
        BY <4>1, GoMoves
      <4>2. ASSUME NEW status, Finish(w, status) PROVE pc'[w] = "done"
        BY <4>2, FinishMoves
      <4> QED
        BY <2>4, <4>1, <4>2 DEF Asks, Enters, Skips, Skip, Ends
    <3> QED
      BY <2>4, <3>1 DEF PlannedBy
  <2> QED
    BY <1>4, <2>1, <2>2, <2>3, <2>4 DEF Works
<1> QED
  BY <1>1, <1>2, <1>3, <1>4, NextWorks

LEMMA LLMIsNoSkill == ASSUME NEW answer PROVE LLMAction(answer).type # "skill"
BY DEF LLMAction, Action

\* A skill in hand stands for what its message says.
LEMMA SkillInHand ==
    ASSUME TypeOK, NEW c \in Chats, UnderstoodBy(c), pc[c] \in Busy,
           task[c].act.type = "skill"
    PROVE  /\ said[c] \in Messages[c] /\ ~Ignored(said[c])
           /\ \E list \in Configurations :
                 Stands(said[c], list, task[c].act) /\ (reloads = 0 => list = configured)
<1>1. said[c] \in Messages[c] /\ ~Ignored(said[c])
  BY DEF UnderstoodBy, Busy
<1>2. PICK list \in Configurations :
        task[c].act \in Readings[said[c]][list] /\ (reloads = 0 => list = configured)
  BY LLMIsNoSkill DEF UnderstoodBy
<1>3. Stands(said[c], list, task[c].act)
  BY <1>1, <1>2, SkillStands
<1> QED
  BY <1>1, <1>2, <1>3

\* Where a skill leads to is what its target covers.
LEMMA LeadsRight ==
    ASSUME TypeOK, NEW c \in Chats, UnderstoodBy(c), pc[c] = "dispatch",
           task[c].act.type = "skill", task[c].act.target.kind # "none",
           NEW n, Leads(task[c].act, n)
    PROVE  Covers(task[c].act, n) /\ RightPlace(c, n)
<1> DEFINE act  == task[c].act
           m    == said[c]
           text == act.target.text
<1>1. PICK list \in Configurations : Stands(m, list, act) /\ (reloads = 0 => list = configured)
  BY SkillInHand DEF Busy
<1>2. configured \in Configurations /\ configured \subseteq Clusters /\ Clusters \subseteq Names
  BY FoundAreClusters, CommandsAssumption DEF TypeOK
<1>3. act.target.kind \in {"all", "prefix", "name"} /\ Leads(act, n)
  BY <1>1 DEF Stands
<1>4. act.target.kind \in {"prefix", "name"} => text \in Names
  BY <1>1 DEF Stands
<1>8. n \in configured
  BY <1>2, <1>3, FoundAreClusters DEF Leads, Many, Matches, TypeOK
<1> HIDE DEF act, m
<1>5. CASE act.target.kind = "all"
  <2>1. n \notin act.excludes
    BY <1>3, <1>5 DEF Leads, Many
  <2>2. act.skill \notin RestartSkills
    BY <1>1, <1>5 DEF Stands
  <2> QED
    BY <1>5, <1>8, <2>1, <2>2 DEF Covers, RightPlace, act
<1>6. CASE act.target.kind = "prefix"
  <2>1. <<text, n>> \in Within
    BY <1>3, <1>6 DEF Leads, Many, Matches
  <2>2. act.skill \notin RestartSkills
    BY <1>1, <1>6 DEF Stands
  <2> QED
    BY <1>6, <1>8, <2>1, <2>2 DEF Covers, RightPlace, act
<1>7. CASE act.target.kind = "name"
  <2>1. n \in FindByPrefix(text, configured) /\ text \in Names
    BY <1>3, <1>4, <1>7 DEF Leads
  <2>2. \/ n = Lower[text] /\ n \in configured
        \/ /\ Lower[text] \notin configured /\ n \in Matches(text, configured)
           /\ Cardinality(Matches(text, configured)) = 1
    BY <2>1 DEF FindByPrefix
  <2>3. <<text, n>> \in Within
    <3>1. CASE n = Lower[text] /\ n \in configured
      <4>1. Lower[text] \in Names
        BY <1>2, <3>1
      <4>2. text \in Names /\ NotAName \notin Names
        BY <2>1, NamesAssumption
      <4>3. \A a \in Names : Lower[a] # NotAName => <<a, Lower[a]>> \in Within
        BY NamesAssumption
      <4> QED
        BY ONLY <3>1, <4>1, <4>2, <4>3
    <3>2. CASE n \in Matches(text, configured)
      BY ONLY <3>2 DEF Matches
    <3> QED
      BY <2>2, <3>1, <3>2
  <2>4. ASSUME reloads = 0, Typed(m) \cap configured # {}, act.skill \in RestartSkills
        PROVE  n \in Typed(m) \cap configured
    <3>1. text \in Typed(m) \cap configured
      BY <1>1, <2>4 DEF Stands
    <3>2. Lower[text] \in ToSet(m.words)
      BY <3>1 DEF Typed
    <3>3. CASE n = Lower[text] /\ n \in configured
      <4>1. Lower[n] = n /\ n \in Clusters
        BY <1>2, <2>1, <3>3, NamesAssumption
      <4> QED
        BY <3>2, <3>3, <4>1 DEF Typed
    <3>4. CASE /\ n \in Matches(text, configured)
               /\ Cardinality(Matches(text, configured)) = 1
      <4>1. text \in Matches(text, configured)
        BY <2>1, <3>1, NamesAssumption DEF Matches
      <4>2. IsFiniteSet(Matches(text, configured))
        BY <1>2, FoundAreClusters, FS_Subset DEF Matches
      <4>3. n = text
        BY <3>4, <4>1, <4>2, FS_Singleton
      <4> QED
        BY <3>1, <4>3
    <3> QED
      BY <2>2, <3>3, <3>4
  <2> QED
    BY <1>7, <1>8, <2>3, <2>4 DEF Covers, RightPlace, act, m
<1> QED
  BY <1>3, <1>5, <1>6, <1>7 DEF act

LEMMA AimedStep ==
    ASSUME TypeOK, IdleHands, Formed, Understood, Aimed, Next PROVE Aimed'
<1>0. \A c \in Chats : AimedBy(c) /\ UnderstoodBy(c)
  BY DEF Aimed, Understood, UnderstoodBy
<1> SUFFICES ASSUME NEW c \in Chats PROVE AimedBy(c)'
  BY DEF Aimed
<1>1. CASE Reload
  <2>1. UNCHANGED <<pc, task, said>> /\ reloads' # 0
    BY <1>1, ReloadCounts DEF Reload
  <2> QED
    BY <1>0, <2>1 DEF AimedBy, RightPlace, Covers, Running
<1>2. ASSUME NEW d \in Chats, Receive(d) PROVE AimedBy(c)'
  <2>1. CASE c = d
    BY <1>2, <2>1, ReceiveMoves DEF AimedBy, Running
  <2>2. CASE c # d
    <3>1. /\ pc'[c] = pc[c] /\ task'[c] = task[c] /\ said'[c] = said[c]
          /\ configured' = configured /\ reloads' = reloads
      BY <1>2, <2>2, ReceiveMoves, ChatOrPage DEF shared
    <3> QED
      BY <1>0, <3>1 DEF AimedBy, RightPlace, Covers, Running
  <2> QED
    BY <2>1, <2>2
<1>3. ASSUME NEW p \in Pages, Submit(p) PROVE AimedBy(c)'
  <2>1. /\ pc'[c] = pc[c] /\ task'[c] = task[c] /\ said' = said
        /\ configured' = configured /\ reloads' = reloads
    BY <1>3, SubmitMoves, ChatOrPage
  <2> QED
    BY <1>0, <2>1 DEF AimedBy, RightPlace, Covers, Running
<1>4. ASSUME NEW w \in Workers, Works(w) PROVE AimedBy(c)'
  <2>1. said' = said /\ configured' = configured /\ reloads' = reloads
    BY <1>4, WorksMoves DEF Frame
  <2>2. CASE c # w
    <3>1. pc'[c] = pc[c] /\ task'[c] = task[c]
      BY <1>4, <2>2, WorksMoves, ChatOrPage
    <3> QED
      BY <1>0, <2>1, <3>1 DEF AimedBy, RightPlace, Covers, Running
  <2>3. ASSUME c = w, Asks(w) \/ Ends(w) PROVE AimedBy(c)'
    <3>1. pc'[w] \notin {"clusters", "steps"}
      <4>1. ASSUME NEW where, NEW hand, Go(w, where, hand) PROVE pc'[w] = where
        BY <4>1, GoMoves
      <4>2. ASSUME NEW status, Finish(w, status) PROVE pc'[w] = "done"
        BY <4>2, FinishMoves
      <4> QED
        BY <2>3, <4>1, <4>2 DEF Asks, Ends
    <3> QED
      BY <2>3, <3>1 DEF AimedBy, Running
  <2>4. ASSUME c = w, Enters(w) PROVE AimedBy(c)'
    <3>1. PICK left \in Seq(Clusters), batch \in BOOLEAN :
             /\ Go(w, "clusters", [task[w] EXCEPT !.left = left, !.batch = batch])
             /\ (w \in Chats /\ task[w].act.type = "skill") =>
                   /\ task[w].act.target.kind # "none"
                   /\ \A n \in ToSet(left) : Leads(task[w].act, n)
      BY <2>4 DEF Enters
    <3>2. task'[c] = [task[c] EXCEPT !.left = left, !.batch = batch]
      BY <2>4, <3>1, GoMoves
    <3>3. task'[c].act = task[c].act /\ task'[c].left = left
      <4>1. task[c] \in Hands
        BY DEF TypeOK, Workers
      <4> QED
        BY <3>2, <4>1 DEF Hands
    <3>4. ASSUME task[c].act.type = "skill", NEW n \in ToSet(left)
          PROVE  Covers(task[c].act, n) /\ RightPlace(c, n)
      <4>1. /\ pc[c] = "dispatch" /\ task[c].act.target.kind # "none"
            /\ Leads(task[c].act, n) /\ UnderstoodBy(c)
        BY <1>0, <2>4, <3>1, <3>4 DEF Enters
      <4> QED
        BY <3>4, <4>1, LeadsRight
    <3> QED
      BY <2>1, <3>3, <3>4 DEF AimedBy, RightPlace, Covers
  <2>5. ASSUME c = w, Skips(w) \/ Starts(w) \/ Sends(w) PROVE AimedBy(c)'
    <3>1. /\ Running(c) /\ task'[c].act = task[c].act
          /\ \A n \in ToSet(task'[c].left) : n \in ToSet(task[c].left)
      <4>1. task[c] \in Hands
        BY DEF TypeOK, Workers
      <4>2. CASE Skips(w)
        <5>1. PICK trouble \in BOOLEAN : Skip(w, trouble)
          BY <4>2 DEF Skips
        <5>2. task'[c] = [task[c] EXCEPT !.left = Tail(@), !.at = "", !.steps = <<>>,
                                         !.trouble = @ \/ trouble]
          BY <2>5, <5>1, GoMoves DEF Skip
        <5>3. task'[c].act = task[c].act /\ task'[c].left = Tail(task[c].left)
          BY <4>1, <5>2 DEF Hands
        <5>4. task[c].left \in Seq(Clusters) /\ task[c].left # <<>>
          BY <2>5, <4>1, <4>2 DEF Skips, Hands
        <5> DEFINE left == task[c].left
                   rest == Tail(left)
        <5>5. \A i \in DOMAIN rest : \E j \in DOMAIN left : rest[i] = left[j]
          BY ONLY <5>4, TailOf
        <5> QED
          BY <2>5, <4>2, <5>3, <5>5 DEF Skips, ToSet
      <4>3. CASE Starts(w)
        <5> DEFINE n == Head(task[w].left)
        <5>1. PICK plan \in PlansFor(task[w].act, n) :
                 Go(w, "steps", [task[w] EXCEPT !.at = n, !.steps = plan])
          BY <4>3 DEF Starts
        <5>2. task'[c] = [task[c] EXCEPT !.at = n, !.steps = plan]
          BY <2>5, <5>1, GoMoves
        <5> QED
          BY <2>5, <4>1, <4>3, <5>2 DEF Hands, Starts, Running
      <4>4. CASE Sends(w)
        <5>1. PICK rest \in {Tail(task[w].steps), <<>>}, trouble \in BOOLEAN :
                 Go(w, "steps", [task[w] EXCEPT !.steps = rest, !.trouble = trouble])
          BY <4>4 DEF Sends
        <5>2. task'[c] = [task[c] EXCEPT !.steps = rest, !.trouble = trouble]
          BY <2>5, <5>1, GoMoves
        <5> QED
          BY <2>5, <4>1, <4>4, <5>2 DEF Hands, Sends, Running
      <4> QED
        BY <2>5, <4>2, <4>3, <4>4
    <3> QED
      BY <1>0, <2>1, <3>1 DEF AimedBy, RightPlace, Covers
  <2> QED
    BY <1>4, <2>2, <2>3, <2>4, <2>5 DEF Works
<1> QED
  BY <1>1, <1>2, <1>3, <1>4, NextWorks
--------------------------------------------------------------------------
(* What is sent, and what it was sent for. *)

\* Whoever has begun keeps its message, and until a reload the clusters are the same.
LEMMA SaidStays ==
    ASSUME TypeOK, IdleHands, Formed, Next
    PROVE  /\ \A c \in Workers : pc[c] # "idle" => said'[c] = said[c]
           /\ reloads' = 0 => reloads = 0 /\ configured' = configured
           /\ dryRun' = dryRun
<1>1. CASE Reload
  BY <1>1, ReloadCounts DEF Reload
<1>2. ASSUME NEW c \in Chats, Receive(c)
      PROVE  /\ \A w \in Workers : pc[w] # "idle" => said'[w] = said[w]
             /\ UNCHANGED <<reloads, configured, dryRun>>
  BY <1>2, ReceiveMoves DEF shared
<1>3. ASSUME NEW p \in Pages, Submit(p) PROVE UNCHANGED <<said, reloads, configured, dryRun>>
  BY <1>3, SubmitMoves
<1>4. ASSUME NEW w \in Workers, Works(w) PROVE UNCHANGED <<said, reloads, configured, dryRun>>
  BY <1>4, WorksMoves DEF Frame
<1> QED
  BY <1>1, <1>2, <1>3, <1>4, NextWorks

\* The step that a worker sends when it does.
Sent(w) == [by |-> w, op |-> Head(task[w].steps).op, cluster |-> task[w].at]

Sending(w) == w \in Workers /\ pc[w] = "steps" /\ task[w].steps # <<>>

LEMMA RanGrows ==
    ASSUME TypeOK, IdleHands, Formed, Next, NEW x \in ran'
    PROVE  x \in ran \/ (Sending(x.by) /\ Works(x.by) /\ x = Sent(x.by))
<1>1. CASE Reload
  BY <1>1 DEF Reload
<1>2. ASSUME NEW c \in Chats, Receive(c) PROVE ran' = ran
  BY <1>2, ReceiveMoves
<1>3. ASSUME NEW p \in Pages, Submit(p) PROVE ran' = ran
  BY <1>3, SubmitMoves
<1>4. ASSUME NEW w \in Workers, Works(w)
      PROVE  x \in ran \/ (Sending(x.by) /\ Works(x.by) /\ x = Sent(x.by))
  <2>1. MaySend(w)
    BY <1>4 DEF Works, Asks, Enters, Skips, Starts, Sends, Ends, Calm, MaySend
  <2>2. CASE ran' = ran
    BY <2>2
  <2>3. CASE pc[w] = "steps" /\ task[w].steps # <<>> /\ Send(w)
    <3>1. ran' = ran \/ ran' = ran \cup {Sent(w)}
      BY <2>3 DEF Send, Sent
    <3>2. Sent(w).by = w
      BY DEF Sent
    <3> QED
      BY <1>4, <2>3, <3>1, <3>2 DEF Sending
  <2> QED
    BY <2>1, <2>2, <2>3 DEF MaySend
<1> QED
  BY <1>1, <1>2, <1>3, <1>4, NextWorks

\* What is sent is what its plan has it do.
LEMMA SentFits ==
    ASSUME TypeOK, Planned, NEW w \in Workers, Sending(w)
    PROVE  /\ Sent(w).by = w /\ Sent(w).op = Head(task[w].steps).op
           /\ Sent(w).cluster = task[w].at /\ task[w].at \in ToSet(task[w].left)
           /\ Fits(task[w].act, Sent(w).op)
           /\ dryRun => w \in Pages /\ Sent(w).op = <<"ask">>
<1> DEFINE steps == task[w].steps
<1>1. steps \in Seq(Steps) /\ steps # <<>> /\ task[w].at \in ToSet(task[w].left)
  BY AtCluster DEF Sending
<1>2. \A i \in DOMAIN steps :
        Fits(task[w].act, steps[i].op) /\ (dryRun => w \in Pages /\ steps[i].op = <<"ask">>)
  BY DEF Planned, Sending
<1>3. Sent(w).by = w /\ Sent(w).op = Head(steps).op /\ Sent(w).cluster = task[w].at
  BY DEF Sent
<1> HIDE DEF steps
<1>4. 1 \in DOMAIN steps /\ Head(steps) = steps[1]
  BY <1>1
<1> QED
  BY <1>1, <1>2, <1>3, <1>4 DEF steps

\* A change that is sent for a chat message is that of a skill the message stands for,
\* in a cluster that its target covers.
LEMMA ChangeSent ==
    ASSUME TypeOK, Understood, Planned, Aimed, NEW c \in Chats, Sending(c), Changes(Sent(c).op)
    PROVE  /\ task[c].act.type = "skill" /\ Fits(task[c].act, Sent(c).op)
           /\ Covers(task[c].act, Sent(c).cluster) /\ RightPlace(c, Sent(c).cluster)
           /\ ~Ignored(said[c])
           /\ \E list \in Configurations :
                 Stands(said[c], list, task[c].act) /\ (reloads = 0 => list = configured)
<1>1. /\ Fits(task[c].act, Sent(c).op) /\ Sent(c).cluster \in ToSet(task[c].left)
  BY ChatOrPage, SentFits
<1>2. task[c].act.type = "skill"
  BY <1>1 DEF Fits
<1>3. UnderstoodBy(c) /\ AimedBy(c)
  BY DEF Understood, UnderstoodBy, Aimed
<1>4. Covers(task[c].act, Sent(c).cluster) /\ RightPlace(c, Sent(c).cluster)
  BY <1>1, <1>2, <1>3 DEF AimedBy, Running, Sending
<1> QED
  BY <1>1, <1>2, <1>3, <1>4, SkillInHand DEF Sending, Busy

LEMMA CarriedStep ==
    ASSUME TypeOK, IdleHands, Formed, Understood, Planned, Aimed, Carried, Next PROVE Carried'
<1> SUFFICES ASSUME NEW x \in ran', x.by \in Chats
             PROVE  /\ pc'[x.by] \in {"clusters", "steps", "done"}
                    /\ (Changes(x.op) /\ pc'[x.by] # "done") =>
                          \/ task'[x.by].act.target.kind = "all"
                          \/ <<task'[x.by].act.target.text, x.cluster>> \in Within
  BY DEF Carried, ByChat
<1> DEFINE c == x.by
           Aims(act) == act.target.kind = "all" \/ <<act.target.text, x.cluster>> \in Within
<1>0. c \in Workers
  BY ChatOrPage
<1>1. /\ pc[c] \in {"clusters", "steps", "done"}
      /\ (Changes(x.op) /\ pc[c] # "done") => Aims(task[c].act)
  <2>1. CASE x \in ran
    BY <2>1 DEF Carried, ByChat
  <2>2. CASE Sending(c) /\ x = Sent(c)
    <3>1. ASSUME Changes(x.op) PROVE Aims(task[c].act)
      <4>1. Covers(task[c].act, Sent(c).cluster)
        BY <2>2, <3>1, ChangeSent
      <4> QED
        BY <2>2, <4>1 DEF Covers
    <3> QED
      BY <2>2, <3>1 DEF Sending
  <2> QED
    BY <2>1, <2>2, RanGrows
<1> HIDE DEF c
<1>2. \/ pc'[c] = pc[c] /\ task'[c] = task[c]
      \/ pc'[c] = "done"
      \/ pc[c] # "done" /\ pc'[c] \in {"clusters", "steps"} /\ task'[c].act = task[c].act
  <2>1. CASE Reload
    BY <2>1 DEF Reload
  <2>2. ASSUME NEW d \in Chats, Receive(d) PROVE pc'[c] = pc[c] /\ task'[c] = task[c]
    BY <1>0, <1>1, <2>2, ReceiveMoves
  <2>3. ASSUME NEW p \in Pages, Submit(p) PROVE pc'[c] = pc[c] /\ task'[c] = task[c]
    BY <1>0, <1>1, <2>3, SubmitMoves
  <2>4. ASSUME NEW w \in Workers, Works(w), c # w PROVE pc'[c] = pc[c] /\ task'[c] = task[c]
    BY <1>0, <2>4, WorksMoves
  <2>5. ASSUME Works(c)
        PROVE  \/ pc'[c] = "done"
               \/ pc[c] # "done" /\ pc'[c] \in {"clusters", "steps"} /\ task'[c].act = task[c].act
    BY <1>0, <1>1, <2>5, WorksMoves DEF Moves, Busy
  <2> QED
    BY <2>1, <2>2, <2>3, <2>4, <2>5, NextWorks
<1> QED
  BY <1>1, <1>2 DEF c
--------------------------------------------------------------------------
(* The audit log. *)

Recorded(w, status) == [by |-> w, target |-> task[w].act.target,
                        type |-> task[w].act.type, status |-> status]

\* Who is done stays so, and who gets there from its clusters does so in Finish.
LEMMA DoneStays ==
    ASSUME TypeOK, IdleHands, Formed, Next, NEW c \in Chats
    PROVE  /\ pc[c] = "done" => pc'[c] = "done"
           /\ (pc[c] \in Busy /\ pc'[c] = "done") =>
                 \E status \in {"ok", "error"} : audit' = Append(audit, Recorded(c, status))
<1>0. c \in Workers /\ c \notin Pages
  BY ChatOrPage
<1>1. CASE Reload
  BY <1>1 DEF Reload, Busy
<1>2. ASSUME NEW d \in Chats, Receive(d)
      PROVE  pc[c] = "idle" \/ pc'[c] = pc[c]
  BY <1>0, <1>2, ReceiveMoves
<1>3. ASSUME NEW p \in Pages, Submit(p) PROVE pc'[c] = pc[c]
  BY <1>0, <1>3, SubmitMoves
<1>4. ASSUME NEW w \in Workers, Works(w), c # w PROVE pc'[c] = pc[c]
  BY <1>0, <1>4, WorksMoves
<1>5. ASSUME Works(c)
      PROVE  /\ pc[c] \in Busy
             /\ pc'[c] = "done" =>
                   \E status \in {"ok", "error"} : audit' = Append(audit, Recorded(c, status))
  BY <1>0, <1>5, WorksMoves DEF Moves, Finish, Record, Recorded
<1> QED
  BY <1>1, <1>2, <1>3, <1>4, <1>5, NextWorks DEF Busy

\* An entry is that of a chat message that was not answered before.
LEMMA AuditGrows ==
    ASSUME TypeOK, IdleHands, Formed, Next
    PROVE  \/ audit' = audit
           \/ \E w \in Chats, status \in {"ok", "error"} :
                 /\ pc[w] \in Busy /\ pc'[w] = "done"
                 /\ audit' = Append(audit, Recorded(w, status))
<1>1. CASE Reload
  BY <1>1 DEF Reload
<1>2. ASSUME NEW c \in Chats, Receive(c) PROVE audit' = audit
  BY <1>2, ReceiveMoves DEF shared
<1>3. ASSUME NEW p \in Pages, Submit(p) PROVE audit' = audit
  BY <1>3, SubmitMoves
<1>4. ASSUME NEW w \in Workers, Works(w)
      PROVE  \/ audit' = audit
             \/ \E status \in {"ok", "error"} :
                   /\ w \in Chats /\ pc[w] \in Busy /\ pc'[w] = "done"
                   /\ audit' = Append(audit, Recorded(w, status))
  BY <1>4, WorksMoves DEF Moves, Finish, Record, Recorded
<1> QED
  BY <1>1, <1>2, <1>3, <1>4, NextWorks

\* What Append leaves and adds.
LEMMA Appended ==
    ASSUME NEW S, NEW seq \in Seq(S), NEW e \in S, NEW more, more = Append(seq, e)
    PROVE  /\ \A i \in DOMAIN seq : i \in DOMAIN more /\ more[i] = seq[i]
           /\ Len(seq) + 1 \in DOMAIN more /\ more[Len(seq) + 1] = e
           /\ \A i \in DOMAIN more : i \in DOMAIN seq \/ i = Len(seq) + 1
OBVIOUS

LEMMA RecordedIsEntry ==
    ASSUME TypeOK, NEW c \in Chats, NEW status \in {"ok", "error"}
    PROVE  /\ Recorded(c, status) \in Entries /\ audit \in Seq(Entries)
           /\ Recorded(c, status).by = c /\ Recorded(c, status).target = task[c].act.target
<1>1. task[c].act \in Actions
  BY ChatOrPage DEF TypeOK, Hands
<1> QED
  BY <1>1 DEF Entries, Recorded, TypeOK

LEMMA UnrecordedStep ==
    ASSUME TypeOK, IdleHands, Formed, Unrecorded, Next PROVE Unrecorded'
<1> SUFFICES ASSUME NEW i \in DOMAIN audit' PROVE pc'[audit'[i].by] = "done"
  BY DEF Unrecorded
<1>1. \A j \in DOMAIN audit : audit[j].by \in Chats /\ pc[audit[j].by] = "done"
  <2>1. \A j \in DOMAIN audit : audit[j] \in Entries
    <3>1. audit \in Seq(Entries)
      BY DEF TypeOK
    <3> QED
      BY ONLY <3>1
  <2>2. \A e \in Entries : e.by \in Chats
    BY DEF Entries
  <2> QED
    BY <2>1, <2>2 DEF Unrecorded
<1>2. \A j \in DOMAIN audit : pc'[audit[j].by] = "done"
  BY <1>1, DoneStays
<1>3. CASE audit' = audit
  BY <1>2, <1>3
<1>4. ASSUME NEW w \in Chats, NEW status \in {"ok", "error"}, pc'[w] = "done",
             audit' = Append(audit, Recorded(w, status))
      PROVE  pc'[audit'[i].by] = "done"
  <2>1. /\ Recorded(w, status) \in Entries /\ audit \in Seq(Entries)
        /\ Recorded(w, status).by = w
    BY RecordedIsEntry
  <2>2. \/ i \in DOMAIN audit /\ audit'[i] = audit[i]
        \/ audit'[i] = Recorded(w, status)
    BY ONLY <1>4, <2>1, Appended, i \in DOMAIN audit'
  <2> QED
    BY <1>2, <1>4, <2>1, <2>2
<1> QED
  BY <1>3, <1>4, AuditGrows

LEMMA RecordedStep ==
    ASSUME TypeOK, IdleHands, Formed, Understood, Planned, Aimed, Carried, Unrecorded,
           ChatChangesRecorded, Next
    PROVE  ChatChangesRecorded'
<1> DEFINE Aims(target, x) == target.kind = "all" \/ <<target.text, x.cluster>> \in Within
           Tells(log, i, x) == /\ log[i].by = x.by
                               /\ \A j \in DOMAIN log : log[j].by = x.by => j = i
                               /\ Aims(log[i].target, x)
<1> SUFFICES ASSUME NEW x \in ran', x.by \in Chats, Changes(x.op), pc'[x.by] = "done"
             PROVE  \E i \in DOMAIN audit' : Tells(audit', i, x)
  BY DEF ChatChangesRecorded, ByChat
<1> DEFINE c == x.by
<1>0. c \in Workers /\ c \in Chats
  BY ChatOrPage
<1>1. CASE pc[c] = "done"
  <2>1. x \in ran
    BY <1>1, RanGrows DEF Sending
  <2>2. PICK i \in DOMAIN audit : Tells(audit, i, x)
    BY <1>1, <2>1 DEF ChatChangesRecorded, ByChat
  <2>3. CASE audit' = audit
    BY <2>2, <2>3
  <2>4. ASSUME NEW w \in Chats, NEW status \in {"ok", "error"}, pc[w] \in Busy,
               audit' = Append(audit, Recorded(w, status))
        PROVE  Tells(audit', i, x) /\ i \in DOMAIN audit'
    <3>1. /\ Recorded(w, status) \in Entries /\ audit \in Seq(Entries)
          /\ Recorded(w, status).by = w
      BY RecordedIsEntry
    <3>2. w # c
      BY <1>1, <2>4 DEF Busy
    <3>3. /\ i \in DOMAIN audit' /\ audit'[i] = audit[i]
          /\ \A j \in DOMAIN audit' :
                \/ j \in DOMAIN audit /\ audit'[j] = audit[j]
                \/ audit'[j] = Recorded(w, status)
      BY ONLY <2>4, <3>1, Appended, i \in DOMAIN audit
    <3> QED
      BY <2>2, <3>1, <3>2, <3>3
  <2> QED
    BY <2>2, <2>3, <2>4, AuditGrows
<1>2. CASE pc[c] # "done"
  <2>1. pc[c] \in Busy /\ Aims(task[c].act.target, x)
    <3>1. CASE x \in ran
      BY <1>2, <3>1 DEF Carried, ByChat, Busy
    <3>2. CASE Sending(c) /\ x = Sent(c)
      <4>1. Covers(task[c].act, Sent(c).cluster)
        BY <3>2, ChangeSent
      <4> QED
        BY <3>2, <4>1 DEF Covers, Sending, Busy
    <3> QED
      BY <3>1, <3>2, RanGrows
  <2>2. PICK status \in {"ok", "error"} : audit' = Append(audit, Recorded(c, status))
    BY <1>0, <2>1, DoneStays
  <2> DEFINE k == Len(audit) + 1
             e == Recorded(c, status)
  <2>3. e \in Entries /\ audit \in Seq(Entries) /\ e.by = c /\ e.target = task[c].act.target
    BY <1>0, RecordedIsEntry
  <2> HIDE DEF e
  <2>4. /\ k \in DOMAIN audit' /\ audit'[k] = e
        /\ \A j \in DOMAIN audit' : (j \in DOMAIN audit /\ audit'[j] = audit[j]) \/ j = k
    <3>1. audit' = Append(audit, e)
      BY <2>2 DEF e
    <3> QED
      BY ONLY <2>3, <3>1, Appended
  <2>5. \A j \in DOMAIN audit : audit[j].by # c
    BY <1>2 DEF Unrecorded
  <2>6. Tells(audit', k, x)
    BY <2>1, <2>3, <2>4, <2>5
  <2> QED
    BY <2>4, <2>6
<1> QED
  BY <1>1, <1>2
--------------------------------------------------------------------------
(* What the changes are for. *)

\* A change of a cluster is named by the message that it is made for.
Named(m, x) ==
    /\ ~Ignored(m)
    /\ IF Has(m, "all") /\ x.op[1] # "delete"
       THEN reloads = 0 => ~\E w \in ToSet(m.except) : <<w, x.cluster>> \in Within
       ELSE \/ \E w \in ToSet(m.words) \cup {m.named} : <<w, x.cluster>> \in Within
            \/ \E n \in Clusters : <<n, x.cluster>> \in Within /\ HasAny(m, Numbers[n])

LEMMA SentIsNamed ==
    ASSUME TypeOK, Understood, Planned, Aimed, NEW c \in Chats, Sending(c), Changes(Sent(c).op)
    PROVE  Named(said[c], Sent(c))
<1> DEFINE m   == said[c]
           x   == Sent(c)
           act == task[c].act
           n   == x.cluster
<1>1. /\ Fits(act, x.op) /\ Covers(act, n) /\ RightPlace(c, n) /\ ~Ignored(m)
  BY ChangeSent
<1>2. PICK list \in Configurations : Stands(m, list, act) /\ (reloads = 0 => list = configured)
  BY ChangeSent
<1>3. Changes(x.op)
  OBVIOUS
<1>4. reloads = 0 => n \in configured
  BY <1>1 DEF RightPlace
<1> HIDE DEF m, x, act, n
<1>5. x.op[1] = "delete" <=> act.skill \in RestartSkills
  BY <1>1, <1>3 DEF Fits
<1>6. ASSUME act.target.kind # "all"
      PROVE  \/ \E w \in ToSet(m.words) \cup {m.named} : <<w, n>> \in Within
             \/ \E k \in Clusters : <<k, n>> \in Within /\ HasAny(m, Numbers[k])
  <2> DEFINE text == act.target.text
  <2>1. <<text, n>> \in Within /\ act.target.kind \in {"prefix", "name"}
    BY <1>1, <1>2, <1>6 DEF Covers, Stands
  <2>2. Mentions(m, text)
    BY <1>2, <2>1 DEF Stands
  <2> HIDE DEF text
  <2>3. ASSUME NEW w, <<w, text>> \in Within PROVE <<w, n>> \in Within
    <3>1. w \in Names /\ text \in Names /\ n \in Names
      BY <2>1, <2>3, NamesAssumption
    <3> QED
      BY <2>1, <2>3, <3>1, NamesAssumption
  <2> QED
    BY <2>1, <2>2, <2>3 DEF Mentions
<1>7. ASSUME Has(m, "all"), x.op[1] # "delete" PROVE Named(m, x)
  <2>1. act.target.kind = "all" /\ act.excludes = UNION {Matches(w, list) : w \in ToSet(m.except)}
    BY <1>2, <1>5, <1>7 DEF Stands
  <2>2. n \notin act.excludes
    BY <1>1, <2>1 DEF Covers
  <2>3. ASSUME reloads = 0, NEW w \in ToSet(m.except), <<w, n>> \in Within PROVE FALSE
    <3>1. n \in Matches(w, list)
      BY <1>2, <1>4, <2>3 DEF Matches
    <3> QED
      BY <2>1, <2>2, <2>3, <3>1
  <2> QED
    BY <1>1, <1>7, <2>3 DEF Named, n
<1>8. ASSUME ~(Has(m, "all") /\ x.op[1] # "delete") PROVE Named(m, x)
  <2>1. act.target.kind # "all"
    BY <1>2, <1>5, <1>8 DEF Stands
  <2> QED
    BY <1>1, <1>6, <1>8, <2>1 DEF Named, n
<1> QED
  BY <1>7, <1>8 DEF m, x

LEMMA NamedStep ==
    ASSUME TypeOK, IdleHands, Formed, Understood, Planned, Aimed, Carried, ChangesAreNamed, Next
    PROVE  ChangesAreNamed'
<1> SUFFICES ASSUME NEW x \in ran', x.by \in Chats, Changes(x.op) PROVE Named(said[x.by], x)'
  BY DEF ChangesAreNamed, ByChat, Named
<1> DEFINE c == x.by
<1>1. pc[c] # "idle" /\ Named(said[c], x)
  <2>1. CASE x \in ran
    BY <2>1 DEF Carried, ByChat, ChangesAreNamed, Named
  <2>2. CASE Sending(c) /\ x = Sent(c)
    <3>1. Named(said[c], Sent(c))
      BY <2>2, SentIsNamed
    <3> QED
      BY <2>2, <3>1 DEF Sending
  <2> QED
    BY <2>1, <2>2, RanGrows
<1>2. said'[c] = said[c] /\ (reloads' = 0 => reloads = 0)
  BY <1>1, SaidStays, ChatOrPage
<1> HIDE DEF c
<1> QED
  BY <1>1, <1>2 DEF Named, c

\* A pod or a port goes down for who confirms it.
LEMMA SentIsConfirmed ==
    ASSUME TypeOK, Formed, Understood, Planned, Aimed, NEW w \in Workers, Sending(w),
           Sent(w).op[1] \in {"delete", "port"}
    PROVE  /\ w \in Chats /\ Yes(said[w])
           /\ LET typed == Typed(said[w]) \cap configured IN
              (Sent(w).op[1] = "delete" /\ reloads = 0 /\ typed # {}) => Sent(w).cluster \in typed
<1>1. Changes(Sent(w).op)
  BY DEF Changes
<1>2. Fits(task[w].act, Sent(w).op)
  BY SentFits
<1>3. task[w].act.args.yes
  BY <1>1, <1>2 DEF Fits
<1>4. w \notin Pages
  <2> SUFFICES ASSUME w \in Pages PROVE FALSE
    OBVIOUS
  <2>1. PICK f \in Forms[w] : task[w].act = PageAction(f)
    BY DEF Formed, Sending, Busy
  <2>2. PageAction(f).args.yes = FALSE
    BY DEF PageAction, Action, Args
  <2> QED
    BY <1>3, <2>1, <2>2
<1>5. w \in Chats
  BY <1>4, ChatOrPage
<1>6. \E list \in Configurations : Stands(said[w], list, task[w].act)
  BY <1>1, <1>5, ChangeSent
<1>7. Yes(said[w])
  BY <1>3, <1>6 DEF Stands
<1>8. RightPlace(w, Sent(w).cluster)
  BY <1>1, <1>5, ChangeSent
<1>9. Sent(w).op[1] = "delete" => task[w].act.skill \in RestartSkills
  BY <1>1, <1>2 DEF Fits
<1> QED
  BY <1>5, <1>7, <1>8, <1>9 DEF RightPlace

LEMMA ConfirmedStep ==
    ASSUME TypeOK, IdleHands, Formed, Understood, Planned, Aimed, Carried, ConfirmedAsTyped, Next
    PROVE  ConfirmedAsTyped'
<1> DEFINE Right(x) ==
             LET typed == Typed(said[x.by]) \cap configured IN
             (x.op[1] = "delete" /\ reloads = 0 /\ typed # {}) => x.cluster \in typed
<1> SUFFICES ASSUME NEW x \in ran', x.op[1] \in {"delete", "port"}
             PROVE  x.by \in Chats /\ Yes(said'[x.by]) /\ Right(x)'
  BY DEF ConfirmedAsTyped
<1> DEFINE c == x.by
<1>1. pc[c] # "idle" /\ c \in Chats /\ Yes(said[c]) /\ Right(x)
  <2>1. CASE x \in ran
    BY <2>1 DEF Carried, ByChat, ConfirmedAsTyped
  <2>2. CASE Sending(c) /\ x = Sent(c)
    <3>1. /\ c \in Chats /\ Yes(said[c])
          /\ LET typed == Typed(said[c]) \cap configured IN
             (Sent(c).op[1] = "delete" /\ reloads = 0 /\ typed # {}) => Sent(c).cluster \in typed
      BY <2>2, SentIsConfirmed DEF Sending
    <3> QED
      BY <2>2, <3>1 DEF Sending
  <2> QED
    BY <2>1, <2>2, RanGrows
<1>2. said'[c] = said[c] /\ (reloads' = 0 => reloads = 0 /\ configured' = configured)
  BY <1>1, SaidStays, ChatOrPage
<1> QED
  BY <1>1, <1>2

LEMMA DryRunStep ==
    ASSUME TypeOK, IdleHands, Formed, Planned, DryRunRunsNothing, Next PROVE DryRunRunsNothing'
<1> SUFFICES ASSUME dryRun', NEW x \in ran' PROVE x.by \in Pages /\ x.op = <<"ask">>
  BY DEF DryRunRunsNothing
<1>1. dryRun
  BY SaidStays
<1>2. CASE x \in ran
  BY <1>1, <1>2 DEF DryRunRunsNothing
<1>3. CASE Sending(x.by) /\ x = Sent(x.by)
  <2>1. x.by \in Pages /\ Sent(x.by).op = <<"ask">>
    BY <1>1, <1>3, SentFits DEF Sending
  <2> QED
    BY <1>3, <2>1
<1> QED
  BY <1>2, <1>3, RanGrows
--------------------------------------------------------------------------
(* The flags are as they were written. *)

\* Only an answer changes an outcome.
LEMMA WorksOutcome ==
    ASSUME TypeOK, NEW w \in Workers, Works(w)
    PROVE  /\ \A v \in Workers \ {w} : outcome'[v] = outcome[v]
           /\ outcome' = outcome \/ pc'[w] = "done"
<1>1. ASSUME NEW status, Finish(w, status)
      PROVE  pc'[w] = "done" /\ \A v \in Workers \ {w} : outcome'[v] = outcome[v]
  <2>1. pc'[w] = "done"
    BY <1>1, FinishMoves
  <2> QED
    BY <1>1, <2>1 DEF Finish, TypeOK
<1>2. ASSUME NEW where, NEW hand, Go(w, where, hand) PROVE outcome' = outcome
  BY <1>2 DEF Go
<1>3. (\E where, hand : Go(w, where, hand)) \/ \E status : Finish(w, status)
  BY DEF Works, Asks, Enters, Skips, Skip, Starts, Sends, Ends
<1> QED
  BY <1>1, <1>2, <1>3

LEMMA ReceiveOutcome ==
    ASSUME TypeOK, IdleHands, NEW c \in Chats, Receive(c)
    PROVE  /\ \A v \in Workers \ {c} : outcome'[v] = outcome[v]
           /\ outcome' = outcome \/ pc'[c] = "done"
           /\ pc'[c] = "done" => outcome'[c] = "ignored"
<1>1. CASE /\ pc' = [pc EXCEPT ![c] = "done"]
           /\ outcome' = [outcome EXCEPT ![c] = "ignored"]
  BY <1>1, ChatOrPage DEF TypeOK
<1>2. ASSUME NEW where \in {"llm", "dispatch"}, NEW hand, Go(c, where, hand)
      PROVE  outcome' = outcome /\ pc'[c] # "done"
  <2>1. pc'[c] = where
    BY <1>2, GoMoves, ChatOrPage
  <2> QED
    BY <1>2, <2>1 DEF Go
<1> QED
  BY <1>1, <1>2 DEF Receive

LEMMA SubmitOutcome ==
    ASSUME TypeOK, IdleHands, NEW p \in Pages, Submit(p)
    PROVE  /\ \A v \in Workers \ {p} : outcome'[v] = outcome[v]
           /\ outcome' = outcome \/ pc'[p] = "done"
<1>1. \/ outcome' = outcome
      \/ /\ pc' = [pc EXCEPT ![p] = "done"]
         /\ outcome' = [outcome EXCEPT ![p] = "refused"]
  BY DEF Submit, Go
<1> QED
  BY <1>1, ChatOrPage DEF TypeOK

LEMMA EndedStep ==
    ASSUME TypeOK, IdleHands, Formed, Ended, Next PROVE Ended'
<1> SUFFICES ASSUME NEW v \in Workers, pc'[v] # "done" PROVE outcome'[v] = "none"
  BY DEF Ended
<1>1. CASE Reload
  BY <1>1 DEF Reload, Ended
<1>2. ASSUME NEW c \in Chats, Receive(c) PROVE outcome'[v] = "none"
  <2>1. outcome'[v] = outcome[v]
    BY <1>2, ReceiveOutcome
  <2>2. pc[v] # "done"
    BY <1>2, ReceiveMoves
  <2> QED
    BY <2>1, <2>2 DEF Ended
<1>3. ASSUME NEW p \in Pages, Submit(p) PROVE outcome'[v] = "none"
  <2>1. outcome'[v] = outcome[v]
    BY <1>3, SubmitOutcome
  <2>2. pc[v] # "done"
    BY <1>3, SubmitMoves
  <2> QED
    BY <2>1, <2>2 DEF Ended
<1>4. ASSUME NEW w \in Workers, Works(w) PROVE outcome'[v] = "none"
  <2>1. outcome'[v] = outcome[v]
    BY <1>4, WorksOutcome
  <2>2. pc[v] # "done"
    BY <1>4, WorksMoves DEF Busy
  <2> QED
    BY <2>1, <2>2 DEF Ended
<1> QED
  BY <1>1, <1>2, <1>3, <1>4, NextWorks

\* A chat message is left as it is by whatever is no step of its own.
Same(c) == pc'[c] = pc[c] /\ task'[c] = task[c] /\ said'[c] = said[c] /\ outcome'[c] = outcome[c]

LEMMA WhoMoves ==
    ASSUME TypeOK, IdleHands, Formed, Next, NEW c \in Chats
    PROVE  Same(c) \/ Receive(c) \/ Works(c)
<1>0. c \in Workers /\ c \notin Pages
  BY ChatOrPage
<1>1. CASE Reload
  BY <1>1 DEF Reload, Same
<1>2. ASSUME NEW d \in Chats, Receive(d), d # c PROVE Same(c)
  BY <1>0, <1>2, ReceiveMoves, ReceiveOutcome DEF Same
<1>3. ASSUME NEW p \in Pages, Submit(p) PROVE Same(c)
  BY <1>0, <1>3, SubmitMoves, SubmitOutcome DEF Same
<1>4. ASSUME NEW w \in Workers, Works(w), w # c PROVE Same(c)
  <2>1. said' = said
    BY <1>4, WorksMoves DEF Frame
  <2> QED
    BY <1>0, <1>4, <2>1, WorksMoves, WorksOutcome DEF Same
<1> QED
  BY <1>1, <1>2, <1>3, <1>4, NextWorks

\* The steps in ran are never taken back, and a chat message that has not begun has none.
LEMMA RanStays ==
    ASSUME TypeOK, IdleHands, Formed, Next
    PROVE  ran \subseteq ran'
<1>1. ASSUME NEW w \in Workers, MaySend(w) PROVE ran \subseteq ran'
  BY <1>1 DEF MaySend, Send
<1>2. ASSUME NEW w \in Workers, Works(w) PROVE MaySend(w)
  BY <1>2 DEF Works, Asks, Enters, Skips, Starts, Sends, Ends, Calm, MaySend
<1>3. ASSUME NEW c \in Chats, Receive(c) PROVE ran' = ran
  BY <1>3, ReceiveMoves
<1>4. ASSUME NEW p \in Pages, Submit(p) PROVE ran' = ran
  BY <1>4, SubmitMoves
<1> QED
  BY <1>1, <1>2, <1>3, <1>4, NextWorks DEF Reload

\* Where a flag changes, a worker has sent a step that changes something.
LEMMA FlagsMove ==
    ASSUME TypeOK, IdleHands, Formed, Next, NEW n \in Clusters
    PROVE  \/ flags'[n] = flags[n]
           \/ \E w \in Workers : /\ Works(w) /\ Sending(w) /\ Sent(w) \in ran'
                                 /\ Changes(Sent(w).op) /\ Sent(w).cluster = n
                                 /\ Sent(w).by = w
<1>1. CASE Reload
  BY <1>1 DEF Reload
<1>2. ASSUME NEW c \in Chats, Receive(c) PROVE flags' = flags
  BY <1>2, ReceiveMoves DEF shared
<1>3. ASSUME NEW p \in Pages, Submit(p) PROVE flags' = flags
  BY <1>3, SubmitMoves
<1>4. ASSUME NEW w \in Workers, Works(w), flags'[n] # flags[n]
      PROVE  /\ Sending(w) /\ Sent(w) \in ran'
             /\ Changes(Sent(w).op) /\ Sent(w).cluster = n /\ Sent(w).by = w
  <2> DEFINE op == Head(task[w].steps).op
  <2>1. MayChange(w)
    BY <1>4 DEF Works, Asks, Enters, Skips, Starts, Sends, Ends, Calm, MayChange
  <2>2. /\ pc[w] = "steps" /\ task[w].steps # <<>>
        /\ Allowed(op) /\ Send(w) /\ Effect(w)
    BY <1>4, <2>1 DEF MayChange
  <2>3. Sent(w).op = op /\ Sent(w).cluster = task[w].at /\ Sent(w).by = w
    BY DEF Sent
  <2>4. Sent(w) \in ran'
    BY <2>2 DEF Send, Sent
  <2>5. task[w].at = n /\ op[1] \in {"set", "unset"}
    <3> HIDE DEF op
    <3>1. flags' = [flags EXCEPT ![task[w].at] = IF op[1] = "set" THEN @ \cup {op[2]}
                                                 ELSE IF op[1] = "unset" THEN @ \ {op[2]} ELSE @]
      BY <2>2 DEF Effect, op
    <3>2. DOMAIN flags = Clusters
      BY DEF TypeOK
    <3> QED
      BY <1>4, <3>1, <3>2
  <2>6. Changes(op)
    BY <2>5 DEF Changes
  <2> QED
    BY <2>2, <2>3, <2>4, <2>5, <2>6 DEF Sending
<1> QED
  BY <1>1, <1>2, <1>3, <1>4, NextWorks

\* A message that asks for flags has its skill in hand, and on every cluster meant, when
\* the target is all.
LEMMA FlagInHand ==
    ASSUME TypeOK, NEW c \in Chats, UnderstoodBy(c), pc[c] \in Busy,
           task[c].act.type = "skill", Asked(said[c]) # {}
    PROVE  /\ task[c].act.skill = FlagSkill(said[c]) /\ task[c].act.skill \in BroadcastSkills
           /\ Has(said[c], "all") => task[c].act.target.kind = "all"
           /\ (Has(said[c], "all") /\ reloads = 0) =>
                 \A n \in configured : ForAll(said[c], n) => n \in Many(task[c].act)
<1> DEFINE m   == said[c]
           act == task[c].act
<1>1. m \in Messages[c]
  BY DEF UnderstoodBy, Busy
<1>2. PICK list \in Configurations :
        act \in Readings[m][list] /\ (reloads = 0 => list = configured)
  BY LLMIsNoSkill DEF UnderstoodBy
<1>3. /\ act.skill = FlagSkill(m) /\ act.skill \in BroadcastSkills
      /\ act.skill \notin RestartSkills
  BY <1>1, <1>2, FlagReading
<1>4. Stands(m, list, act)
  BY <1>1, <1>2, SkillStands
<1> HIDE DEF m, act
<1>5. Has(m, "all") => act.target.kind = "all"
  BY <1>3, <1>4 DEF Stands
<1>6. ASSUME Has(m, "all"), reloads = 0, NEW n \in configured, ForAll(m, n)
      PROVE  n \in Many(act)
  <2>1. act.target.kind = "all" /\ act.excludes = UNION {Matches(w, configured) : w \in ToSet(m.except)}
    BY <1>2, <1>3, <1>4, <1>5, <1>6 DEF Stands
  <2>2. \A w \in ToSet(m.except) : n \notin Matches(w, configured)
    BY <1>6 DEF ForAll, Matches
  <2>3. n \notin act.excludes
    BY <2>1, <2>2
  <2> QED
    BY <2>1, <2>3 DEF Many
<1> QED
  BY <1>3, <1>5, <1>6 DEF m, act

LEMMA AllInHandStep ==
    ASSUME TypeOK, IdleHands, Formed, Next, NEW c \in Chats, AllInHandBy(c)
    PROVE  AllInHandBy(c)'
<1>0. c \in Workers
  BY ChatOrPage
<1>1. CASE Same(c)
  BY <1>1 DEF Same, AllInHandBy
<1>2. CASE Receive(c)
  <2> DEFINE m   == said'[c]
             act == task'[c].act
  <2>1. CASE pc'[c] = "done"
    BY <2>1 DEF AllInHandBy, Busy
  <2>2. CASE /\ act \in Readings[m][configured]
             /\ pc'[c] = "llm" => NeedsFallback(act)
    <3> SUFFICES ASSUME Asked(m) # {}, Has(m, "all")
                 PROVE  pc'[c] # "llm" /\ act.type = "skill"
      BY DEF AllInHandBy
    <3>1. m \in Messages[c] /\ configured \in Configurations
      BY <1>2, ReceiveMoves DEF TypeOK
    <3>2. act.type = "skill" /\ act.skill \notin RestartSkills
      BY <2>2, <3>1, FlagReading
    <3>3. Stands(m, configured, act)
      BY <2>2, <3>1, <3>2, SkillStands
    <3>4. act.target.kind = "all"
      BY <3>2, <3>3 DEF Stands
    <3>5. ~NeedsFallback(act)
      BY <3>4 DEF NeedsFallback
    <3> QED
      BY <2>2, <3>2, <3>5
  <2> QED
    BY <1>2, <2>1, <2>2, ReceiveMoves
<1>3. CASE Works(c)
  <2>1. pc[c] \in Busy /\ Moves(c) /\ said' = said
    BY <1>0, <1>3, WorksMoves DEF Frame
  <2> SUFFICES ASSUME pc'[c] \in Busy, Asked(said[c]) # {}, Has(said[c], "all")
               PROVE  pc'[c] # "llm" /\ task'[c].act.type = "skill"
    BY <2>1 DEF AllInHandBy
  <2>2. pc[c] # "llm" /\ task[c].act.type = "skill"
    BY <2>1 DEF AllInHandBy
  <2> QED
    BY <2>1, <2>2 DEF Moves, Busy
<1> QED
  BY <1>1, <1>2, <1>3, WhoMoves

\* A plan that is begun, and the steps that are left of it.
LEMMA StepsMove ==
    ASSUME TypeOK, NEW w \in Workers, Works(w), pc'[w] = "steps"
    PROVE  /\ task'[w].act = task[w].act
           /\ \/ /\ Starts(w) /\ Head(task[w].left) \in Clusters
                 /\ task[w].act.type \in RunTypes
                 /\ task'[w].at = Head(task[w].left) /\ task'[w].left = task[w].left
                 /\ task'[w].steps \in PlansFor(task[w].act, Head(task[w].left))
              \/ /\ Sends(w) /\ pc[w] = "steps"
                 /\ \A i \in DOMAIN task'[w].steps :
                       \E j \in DOMAIN task[w].steps : task'[w].steps[i] = task[w].steps[j]
<1>0. task[w] \in Hands
  BY DEF TypeOK
<1>1. CASE Starts(w)
  <2> DEFINE n == Head(task[w].left)
  <2>1. PICK plan \in PlansFor(task[w].act, n) :
           Go(w, "steps", [task[w] EXCEPT !.at = n, !.steps = plan])
    BY <1>1 DEF Starts
  <2>2. task'[w] = [task[w] EXCEPT !.at = n, !.steps = plan]
    BY <2>1, GoMoves
  <2>3. /\ task'[w].act = task[w].act /\ task'[w].at = n /\ task'[w].left = task[w].left
        /\ task'[w].steps = plan
    BY <1>0, <2>2 DEF Hands
  <2>4. n \in Clusters
    <3> DEFINE all == task[w].left
    <3>1. all \in Seq(Clusters) /\ all # <<>>
      BY <1>0, <1>1 DEF Starts, Hands
    <3> HIDE DEF all
    <3>2. Head(all) \in Clusters
      BY <3>1
    <3> QED
      BY <3>2 DEF all
  <2>5. task[w].act.type \in RunTypes
    BY <1>1 DEF Starts, TypeOK, RunTypes
  <2> QED
    BY <1>1, <2>3, <2>4, <2>5
<1>2. CASE Sends(w)
  <2>1. PICK rest \in {Tail(task[w].steps), <<>>}, trouble \in BOOLEAN :
           Go(w, "steps", [task[w] EXCEPT !.steps = rest, !.trouble = trouble])
    BY <1>2 DEF Sends
  <2>2. task'[w] = [task[w] EXCEPT !.steps = rest, !.trouble = trouble]
    BY <2>1, GoMoves
  <2>3. task'[w].act = task[w].act /\ task'[w].steps = rest
    BY <1>0, <2>2 DEF Hands
  <2>4. task[w].steps \in Seq(Steps) /\ task[w].steps # <<>> /\ pc[w] = "steps"
    BY <1>2, AtCluster DEF Sends
  <2>5. \A i \in DOMAIN rest : \E j \in DOMAIN task[w].steps : rest[i] = task[w].steps[j]
    BY <2>4, TailOf
  <2> QED
    BY <1>2, <2>3, <2>4, <2>5
<1>3. CASE Asks(w) \/ Enters(w) \/ Skips(w) \/ Ends(w)
  <2>1. ASSUME NEW where, NEW hand, Go(w, where, hand) PROVE pc'[w] = where
    BY <2>1, GoMoves
  <2>2. ASSUME NEW status, Finish(w, status) PROVE pc'[w] = "done"
    BY <2>2, FinishMoves
  <2> QED
    BY <1>3, <2>1, <2>2 DEF Asks, Enters, Skips, Skip, Ends
<1> QED
  BY <1>1, <1>2, <1>3 DEF Works

LEMMA StepsAskedStep ==
    ASSUME TypeOK, IdleHands, Formed, Understood, Next, NEW c \in Chats, StepsAskedBy(c)
    PROVE  StepsAskedBy(c)'
<1>0. c \in Workers /\ UnderstoodBy(c)
  BY ChatOrPage DEF Understood, UnderstoodBy
<1>1. CASE Same(c)
  BY <1>1 DEF Same, StepsAskedBy, FlagOps
<1>2. CASE Receive(c)
  BY <1>2, ReceiveMoves DEF StepsAskedBy
<1>3. CASE Works(c)
  <2> DEFINE m == said[c]
             AskedFor(op) == Changes(op) => op \in FlagOps(m)
  <2>1. said' = said /\ FlagOps(m)' = FlagOps(m)
    BY <1>0, <1>3, WorksMoves DEF Frame, FlagOps
  <2> SUFFICES ASSUME pc'[c] = "steps", Asked(m) # {}
               PROVE  \A i \in DOMAIN task'[c].steps : AskedFor(task'[c].steps[i].op)
    BY <2>1 DEF StepsAskedBy
  <2>2. ASSUME pc[c] = "clusters", Head(task[c].left) \in Clusters, task[c].act.type \in RunTypes,
               task'[c].steps \in PlansFor(task[c].act, Head(task[c].left))
        PROVE  \A i \in DOMAIN task'[c].steps : AskedFor(task'[c].steps[i].op)
    <3>1. CASE task[c].act.type = "skill"
      <4>1. task[c].act.skill = FlagSkill(m)
        BY <1>0, <2>2, <3>1, FlagInHand DEF Busy
      <4> QED
        BY <2>2, <3>1, <4>1, FlagSkillPlan
    <3>2. CASE task[c].act.type \in RunTypes \ {"skill"}
      <4>1. \A i \in DOMAIN task'[c].steps : Fits(task[c].act, task'[c].steps[i].op)
        BY <2>2, <3>2, OtherPlanSteps
      <4> QED
        BY <3>2, <4>1 DEF Fits
    <3> QED
      BY <2>2, <3>1, <3>2
  <2>3. CASE /\ pc[c] = "steps"
             /\ \A i \in DOMAIN task'[c].steps :
                   \E j \in DOMAIN task[c].steps : task'[c].steps[i] = task[c].steps[j]
    BY <2>3 DEF StepsAskedBy
  <2> QED
    BY <1>0, <1>3, <2>2, <2>3, StepsMove DEF Starts
<1> QED
  BY <1>1, <1>2, <1>3, WhoMoves

\* A message with something sent goes on with what it has in hand.
LEMMA GoesOn ==
    ASSUME TypeOK, IdleHands, Formed, Next, NEW c \in Chats, pc[c] \in {"clusters", "steps", "done"}
    PROVE  pc'[c] # "done" => pc[c] # "done" /\ task'[c].act = task[c].act
<1>1. CASE Same(c)
  BY <1>1 DEF Same
<1>2. CASE Receive(c)
  BY <1>2, ReceiveMoves
<1>3. CASE Works(c)
  BY <1>3, WorksMoves, ChatOrPage DEF Moves, Busy
<1> QED
  BY <1>1, <1>2, <1>3, WhoMoves

\* What was sent at last is by a skill, and as it was asked for.
LEMMA SentIsAsked ==
    ASSUME TypeOK, Planned, NEW c \in Chats, StepsAskedBy(c), Sending(c),
           Changes(Sent(c).op), Asked(said[c]) # {}
    PROVE  Sent(c).op \in FlagOps(said[c]) /\ task[c].act.type = "skill"
<1> DEFINE steps == task[c].steps
<1>1. steps \in Seq(Steps) /\ steps # <<>> /\ pc[c] = "steps"
  BY AtCluster DEF Sending
<1>2. Sent(c).op = Head(steps).op /\ Fits(task[c].act, Sent(c).op)
  BY SentFits, ChatOrPage
<1>3. \A i \in DOMAIN steps : Changes(steps[i].op) => steps[i].op \in FlagOps(said[c])
  BY <1>1 DEF StepsAskedBy
<1> HIDE DEF steps
<1>4. 1 \in DOMAIN steps /\ Head(steps) = steps[1]
  BY <1>1
<1> QED
  BY <1>2, <1>3, <1>4 DEF Fits

LEMMA SentAskedStep ==
    ASSUME TypeOK, IdleHands, Formed, Planned, Carried, Next,
           NEW c \in Chats, StepsAskedBy(c), SentAskedBy(c)
    PROVE  SentAskedBy(c)'
<1> SUFFICES ASSUME NEW x \in ran', x.by = c, Changes(x.op), Asked(said'[c]) # {}
             PROVE  /\ x.op \in FlagOps(said'[c])
                    /\ pc'[c] # "done" => task'[c].act.type = "skill"
  BY DEF SentAskedBy, FlagOps
<1>1. pc[c] \in {"clusters", "steps", "done"}
  BY RanGrows DEF Carried, ByChat, Sending
<1>2. said'[c] = said[c]
  BY <1>1, SaidStays, ChatOrPage
<1>3. x.op \in FlagOps(said[c]) /\ (pc[c] # "done" => task[c].act.type = "skill")
  <2>1. CASE x \in ran
    BY <1>2, <2>1 DEF SentAskedBy
  <2>2. CASE Sending(c) /\ x = Sent(c)
    BY <1>2, <2>2, SentIsAsked
  <2> QED
    BY <2>1, <2>2, RanGrows
<1> QED
  BY <1>1, <1>2, <1>3, GoesOn

\* How a chat message goes on with no trouble: what it sends is done.
Smooth(c) ==
    \/ RunStep(c)
    \/ /\ UNCHANGED <<flags, ran>>
       /\ \/ Asks(c) \/ Enters(c) \/ Starts(c)
          \/ pc[c] = "steps" /\ task[c].steps = <<>> /\ Skip(c, FALSE)
          \/ pc'[c] = "done" /\ NothingLeft(c)

LEMMA CleanWorks ==
    ASSUME TypeOK, Ended, NEW c \in Chats, Works(c), Clean(c)'
    PROVE  Clean(c) /\ Smooth(c)
<1>0. c \in Workers /\ c \notin Pages /\ task[c] \in Hands
  BY ChatOrPage DEF TypeOK
<1>1. UNCHANGED <<configured, dryRun, reloads, said>> /\ pc[c] \in Busy
  BY <1>0, WorksMoves DEF Frame
<1>2. outcome[c] = "none"
  BY <1>0, <1>1 DEF Ended, Busy
<1>3. ~dryRun /\ Asked(said[c]) # {} /\ ~task'[c].trouble /\ outcome'[c] \in {"none", "ok"}
  BY <1>1 DEF Clean
<1>4. ASSUME ~task[c].trouble PROVE Clean(c)
  BY <1>2, <1>3, <1>4 DEF Clean
<1>5. ASSUME NEW where, NEW hand, Go(c, where, hand) PROVE task'[c] = hand
  BY <1>0, <1>5, GoMoves
<1>6. CASE Asks(c)
  <2>1. task'[c].trouble = task[c].trouble
    BY <1>0, <1>5, <1>6 DEF Asks, Hands
  <2> QED
    BY <1>3, <1>4, <1>6, <2>1 DEF Asks, Calm, Smooth
<1>7. CASE Enters(c)
  <2>1. PICK left \in Seq(Clusters), batch \in BOOLEAN :
           Go(c, "clusters", [task[c] EXCEPT !.left = left, !.batch = batch])
    BY <1>7 DEF Enters
  <2>2. task'[c] = [task[c] EXCEPT !.left = left, !.batch = batch]
    BY <1>5, <2>1
  <2>3. task'[c].trouble = task[c].trouble
    BY <1>0, <2>2 DEF Hands
  <2> QED
    BY <1>3, <1>4, <1>7, <2>3 DEF Enters, Calm, Smooth
<1>8. CASE Skips(c)
  <2>1. PICK trouble \in BOOLEAN :
           /\ Skip(c, trouble)
           /\ trouble \/ Pretends(c) \/ (pc[c] = "steps" /\ task[c].steps = <<>>)
    BY <1>8 DEF Skips
  <2>2. task'[c] = [task[c] EXCEPT !.left = Tail(@), !.at = "", !.steps = <<>>,
                                   !.trouble = @ \/ trouble]
    BY <1>5, <2>1 DEF Skip
  <2>3. task'[c].trouble = (task[c].trouble \/ trouble)
    BY <1>0, <2>2 DEF Hands
  <2>4. ~task[c].trouble /\ trouble = FALSE
    BY <1>3, <2>3
  <2>5. pc[c] = "steps" /\ task[c].steps = <<>> /\ Skip(c, FALSE)
    BY <1>3, <2>1, <2>4 DEF Pretends
  <2> QED
    BY <1>4, <1>8, <2>4, <2>5 DEF Skips, Calm, Smooth
<1>9. CASE Starts(c)
  <2>1. PICK plan \in PlansFor(task[c].act, Head(task[c].left)) :
           Go(c, "steps", [task[c] EXCEPT !.at = Head(task[c].left), !.steps = plan])
    BY <1>9 DEF Starts
  <2>2. task'[c] = [task[c] EXCEPT !.at = Head(task[c].left), !.steps = plan]
    BY <1>5, <2>1
  <2>3. task'[c].trouble = task[c].trouble
    BY <1>0, <2>2 DEF Hands
  <2> QED
    BY <1>3, <1>4, <1>9, <2>3 DEF Starts, Calm, Smooth
<1>10. CASE Sends(c)
  <2>1. PICK rest \in {Tail(task[c].steps), <<>>}, trouble \in BOOLEAN :
           /\ Go(c, "steps", [task[c] EXCEPT !.steps = rest, !.trouble = trouble])
           /\ trouble \/ RunStep(c)
    BY <1>10 DEF Sends
  <2>2. task'[c] = [task[c] EXCEPT !.steps = rest, !.trouble = trouble]
    BY <1>5, <2>1
  <2>3. task'[c].trouble = trouble
    BY <1>0, <2>2 DEF Hands
  <2>4. RunStep(c)
    BY <1>3, <2>1, <2>3
  <2>5. task'[c] = [task[c] EXCEPT !.steps = Tail(@)]
    BY <1>5, <2>4 DEF RunStep
  <2>6. task'[c].trouble = task[c].trouble
    BY <1>0, <2>5 DEF Hands
  <2> QED
    BY <1>3, <1>4, <2>4, <2>6 DEF Smooth
<1>11. CASE Ends(c)
  <2>1. PICK status \in {"ok", "error"} : Finish(c, status) /\ (status = "ok" => NothingLeft(c))
    BY <1>11 DEF Ends
  <2>2. outcome'[c] = IF status = "ok" /\ task[c].trouble THEN "trouble" ELSE status
    BY <1>0, <2>1 DEF Finish, TypeOK
  <2>3. status = "ok" /\ ~task[c].trouble
    BY <1>3, <2>2
  <2>4. NothingLeft(c) /\ pc'[c] = "done"
    BY <1>0, <2>1, <2>3, FinishMoves
  <2>5. UNCHANGED <<flags, ran>>
    BY <1>11, <2>4 DEF NothingLeft, Ends, MaySend, MayChange
  <2> QED
    BY <1>4, <2>3, <2>4, <2>5 DEF Smooth
<1> QED
  BY <1>6, <1>7, <1>8, <1>9, <1>10, <1>11 DEF Works

\* One who has sent nothing yet has nothing in force.
LEMMA NothingSent ==
    ASSUME Carried, NEW c \in Chats, pc[c] \notin {"clusters", "steps", "done"},
           NEW x \in ran
    PROVE  x.by # c
BY DEF Carried, ByChat

\* A step that is done: its flag is on or off, and the others are as before.
LEMMA StepDone ==
    ASSUME TypeOK, NEW w \in Workers, RunStep(w)
    PROVE  /\ Sending(w) /\ Sent(w).by = w /\ Sent(w).cluster = task[w].at
           /\ Sent(w).op = Head(task[w].steps).op /\ Sent(w).op \in Ops
           /\ task[w].at \in Clusters /\ ran' = ran \cup {Sent(w)}
           /\ LET op == Sent(w).op IN
              flags' = [flags EXCEPT ![task[w].at] = IF op[1] = "set" THEN @ \cup {op[2]}
                                                     ELSE IF op[1] = "unset" THEN @ \ {op[2]}
                                                     ELSE @]
           /\ task'[w].left = task[w].left /\ task'[w].at = task[w].at
           /\ task'[w].steps = Tail(task[w].steps) /\ task'[w].act = task[w].act
           /\ pc'[w] = "steps"
<1>1. /\ pc[w] = "steps" /\ task[w].steps # <<>> /\ Allowed(Head(task[w].steps).op)
      /\ Send(w) /\ Effect(w) /\ Go(w, "steps", [task[w] EXCEPT !.steps = Tail(@)])
  BY DEF RunStep
<1>2. /\ Sent(w).by = w /\ Sent(w).cluster = task[w].at
      /\ Sent(w).op = Head(task[w].steps).op
  BY DEF Sent
<1>3. Sending(w) /\ task[w].at \in Clusters /\ Head(task[w].steps).op \in Ops
  BY <1>1, AtCluster, HeadStep DEF Sending
<1>4. ran' = ran \cup {Sent(w)}
  BY <1>1 DEF Send, Sent
<1>5. pc'[w] = "steps" /\ task'[w] = [task[w] EXCEPT !.steps = Tail(@)]
  BY <1>1, GoMoves
<1>6. /\ task'[w].left = task[w].left /\ task'[w].at = task[w].at
      /\ task'[w].steps = Tail(task[w].steps) /\ task'[w].act = task[w].act
  <2>1. task[w] \in Hands
    BY DEF TypeOK
  <2> QED
    BY <1>5, <2>1 DEF Hands
<1> QED
  BY <1>1, <1>2, <1>3, <1>4, <1>5, <1>6 DEF Effect

\* Of two changes that a message asks for, the one does not undo the other.
LEMMA InForceAfter ==
    ASSUME TypeOK, NEW w \in Workers, RunStep(w), NEW m,
           Changes(Sent(w).op) => Sent(w).op \in FlagOps(m),
           NEW op \in FlagOps(m),
           op = Sent(w).op \/ InForce(op, task[w].at)
    PROVE  InForce(op, task[w].at)'
<1> DEFINE n    == task[w].at
           last == Sent(w).op
           verb == IF Unsets(m) THEN "unset" ELSE "set"
<1>1. /\ n \in Clusters /\ DOMAIN flags = Clusters
      /\ flags' = [flags EXCEPT ![n] = IF last[1] = "set" THEN @ \cup {last[2]}
                                       ELSE IF last[1] = "unset" THEN @ \ {last[2]} ELSE @]
  BY StepDone DEF TypeOK
<1>2. flags'[n] = IF last[1] = "set" THEN flags[n] \cup {last[2]}
                  ELSE IF last[1] = "unset" THEN flags[n] \ {last[2]} ELSE flags[n]
  BY <1>1
<1>3. task'[w].at = n
  BY StepDone
<1>4. op[1] = verb /\ (last \in FlagOps(m) => last[1] = verb)
  BY DEF FlagOps
<1>5. last[1] \in {"set", "unset"} => last[1] = verb
  BY <1>4 DEF Changes
<1>6. verb \in {"set", "unset"}
  OBVIOUS
<1>7. \/ op = last
      \/ /\ op[1] = "set" => op[2] \in flags[n]
         /\ op[1] = "unset" => op[2] \notin flags[n]
  BY DEF InForce
<1>8. /\ op[1] = "set" => op[2] \in flags'[n]
      /\ op[1] = "unset" => op[2] \notin flags'[n]
  <2> HIDE DEF n, last, verb
  <2> QED
    BY <1>2, <1>4, <1>5, <1>6, <1>7
<1> QED
  BY <1>3, <1>8 DEF InForce

LEMMA InForceStep ==
    ASSUME TypeOK, IdleHands, Formed, Understood, Planned, Carried, Ended, Next,
           NEW c \in Chats, StepsAskedBy(c), SentAskedBy(c), InForceBy(c)
    PROVE  InForceBy(c)'
<1> SUFFICES ASSUME Clean(c)', NEW x \in ran', x.by = c, Changes(x.op), Alone(c, x.cluster)'
             PROVE  InForce(x.op, x.cluster)'
  BY DEF InForceBy
<1> DEFINE n == x.cluster
<1>0. c \in Workers /\ n \in Clusters
  BY ChatOrPage, TypeStep DEF TypeOK
<1>1. Alone(c, n)
  BY RanStays DEF Alone
<1>2. ASSUME x \in ran, Clean(c), flags'[n] = flags[n] PROVE InForce(x.op, n)'
  <2>1. InForce(x.op, n)
    BY <1>1, <1>2 DEF InForceBy
  <2> QED
    BY <1>2, <2>1 DEF InForce
<1>3. CASE ~Works(c)
  <2>1. flags'[n] = flags[n]
    <3> SUFFICES ASSUME NEW w \in Workers, Works(w), Sent(w) \in ran', Changes(Sent(w).op),
                        Sent(w).cluster = n, Sent(w).by = w
                 PROVE  w = c
      BY <1>0, <1>3, FlagsMove
    <3> QED
      BY DEF Alone
  <2>2. x \in ran
    BY <1>3, RanGrows
  <2>3. Same(c)
    <3>1. pc[c] # "idle"
      BY <2>2 DEF Carried, ByChat
    <3> QED
      BY <1>3, <3>1, WhoMoves, ReceiveMoves
  <2>4. Clean(c)
    BY <2>3, SaidStays DEF Clean, Same
  <2> QED
    BY <1>2, <2>1, <2>2, <2>4
<1>4. CASE Works(c)
  <2>1. Clean(c) /\ Smooth(c)
    BY <1>4, CleanWorks
  <2>2. CASE UNCHANGED <<flags, ran>>
    BY <1>2, <2>1, <2>2
  <2>3. CASE RunStep(c)
    <3>1. /\ Sending(c) /\ Sent(c).cluster = task[c].at /\ task[c].at \in Clusters
          /\ ran' = ran \cup {Sent(c)} /\ task'[c].at = task[c].at
      BY <1>0, <2>3, StepDone
    <3>2. Asked(said[c]) # {}
      BY <2>1 DEF Clean
    <3>3. Changes(Sent(c).op) => Sent(c).op \in FlagOps(said[c])
      BY <3>1, <3>2, SentIsAsked
    <3>4. CASE n # task[c].at
      <4>1. flags'[n] = flags[n]
        <5>1. \E new : flags' = [flags EXCEPT ![task[c].at] = new]
          BY <2>3 DEF RunStep, Effect
        <5> QED
          BY <1>0, <3>4, <5>1 DEF TypeOK
      <4>2. x \in ran
        BY <3>1, <3>4
      <4> QED
        BY <1>2, <2>1, <4>1, <4>2
    <3>5. CASE n = task[c].at
      <4>1. x.op \in FlagOps(said[c])
        BY <3>1, <3>2, <3>3 DEF SentAskedBy
      <4>2. x.op = Sent(c).op \/ InForce(x.op, task[c].at)
        BY <1>1, <2>1, <3>1, <3>5 DEF InForceBy
      <4>3. InForce(x.op, task[c].at)'
        BY <1>0, <2>3, <3>3, <4>1, <4>2, InForceAfter
      <4> QED
        BY <3>1, <3>5, <4>3 DEF InForce
    <3> QED
      BY <3>4, <3>5
  <2> QED
    BY <2>1, <2>2, <2>3 DEF Smooth
<1> QED
  BY <1>3, <1>4

\* An element of a sequence is at its head or among those left.
LEMMA HeadOrTail ==
    ASSUME NEW S, NEW seq \in Seq(S), seq # <<>>, NEW i \in DOMAIN seq
    PROVE  seq[i] = Head(seq) \/ \E j \in DOMAIN Tail(seq) : Tail(seq)[j] = seq[i]
<1>1. /\ Len(seq) \in Nat \ {0} /\ DOMAIN seq = 1 .. Len(seq) /\ Head(seq) = seq[1]
      /\ DOMAIN Tail(seq) = 1 .. (Len(seq) - 1)
      /\ \A j \in 1 .. (Len(seq) - 1) : Tail(seq)[j] = seq[j + 1]
  OBVIOUS
<1>2. CASE i = 1
  BY <1>1, <1>2
<1>3. CASE i # 1
  <2>1. i \in 1 .. Len(seq) /\ i - 1 \in 1 .. (Len(seq) - 1) /\ (i - 1) + 1 = i
    BY <1>1, <1>3
  <2>2. Tail(seq)[i - 1] = seq[i]
    BY <1>1, <2>1
  <2> QED
    BY <1>1, <2>1, <2>2
<1> QED
  BY <1>2, <1>3

\* A message that means a cluster is handled by its skill.
LEMMA MeantBySkill ==
    ASSUME NEW c \in Chats, AllInHandBy(c), SentAskedBy(c), pc[c] \in Busy,
           Asked(said[c]) # {}, NEW n \in Meant(c)
    PROVE  task[c].act.type = "skill"
<1>1. CASE ForAll(said[c], n)
  BY <1>1 DEF AllInHandBy, ForAll
<1>2. CASE \E y \in ran : y.by = c /\ Changes(y.op)
  BY <1>2 DEF SentAskedBy, Busy
<1> QED
  BY <1>1, <1>2 DEF Meant

\* Before anything is sent, what is meant is everything, and it is gone through.
LEMMA MeantAtFirst ==
    ASSUME TypeOK, Carried, NEW c \in Chats, UnderstoodBy(c), AllInHandBy(c),
           pc[c] = "dispatch", Asked(said[c]) # {}, NEW n \in Meant(c)
    PROVE  /\ task[c].act.type = "skill" /\ task[c].act.skill \in BroadcastSkills
           /\ task[c].act.target.kind = "all" /\ n \in Many(task[c].act)
<1>1. n \in configured /\ reloads = 0 /\ ForAll(said[c], n)
  BY NothingSent DEF Meant
<1>2. Has(said[c], "all")
  BY <1>1 DEF ForAll
<1>3. task[c].act.type = "skill"
  BY <1>2 DEF AllInHandBy, Busy
<1> QED
  BY <1>1, <1>2, <1>3, FlagInHand DEF Busy

\* What is meant from now on was meant before, or is changed just now.
LEMMA MeantStays ==
    ASSUME TypeOK, IdleHands, Formed, Next, NEW c \in Chats, said'[c] = said[c], NEW n \in Meant(c)'
    PROVE  n \in Meant(c) \/ (Works(c) /\ Sending(c) /\ n = Sent(c).cluster)
<1>1. CASE n \in configured' /\ reloads' = 0 /\ ForAll(said'[c], n)
  <2>1. n \in configured /\ reloads = 0
    BY <1>1, SaidStays
  <2> QED
    BY <1>1, <2>1 DEF Meant
<1>2. CASE \E y \in ran' : y.by = c /\ Changes(y.op) /\ n = y.cluster
  <2>1. PICK y \in ran' : y.by = c /\ Changes(y.op) /\ n = y.cluster
    BY <1>2
  <2>2. CASE y \in ran
    BY <2>1, <2>2 DEF Meant
  <2>3. CASE Sending(c) /\ Works(c) /\ y = Sent(c)
    BY <2>1, <2>3
  <2> QED
    BY <2>1, <2>2, <2>3, RanGrows
<1> QED
  BY <1>1, <1>2 DEF Meant

LEMMA ReachedStep ==
    ASSUME TypeOK, IdleHands, Formed, Understood, Carried, Ended, Next,
           NEW c \in Chats, AllInHandBy(c), SentAskedBy(c), ReachedBy(c)
    PROVE  ReachedBy(c)'
<1> SUFFICES ASSUME Clean(c)' PROVE ReachedBy(c)'
  BY DEF ReachedBy
<1>0. c \in Workers /\ UnderstoodBy(c) /\ task[c] \in Hands
  BY ChatOrPage DEF Understood, UnderstoodBy, TypeOK
<1>1. ASSUME NEW op, NEW n, Was(c, op, n) PROVE Was(c, op, n)'
  BY <1>1, RanStays DEF Was
<1>2. CASE ~Works(c)
  <2>1. CASE Receive(c)
    <3>1. pc'[c] # "done"
      BY <2>1, ReceiveOutcome DEF Clean
    <3> QED
      BY <2>1, <3>1, ReceiveMoves DEF ReachedBy, Running
  <2>2. CASE Same(c)
    <3>1. Clean(c)
      BY <2>2, SaidStays DEF Clean, Same
    <3>2. FlagOps(said[c])' = FlagOps(said[c])
      BY <2>2 DEF FlagOps, Same
    <3>3. \A n \in Meant(c)' : n \in Meant(c)
      BY <1>2, <2>2, MeantStays DEF Same
    <3>4. ASSUME NEW n, Written(c, n) PROVE Written(c, n)'
      BY <1>1, <3>2, <3>4 DEF Written
    <3> QED
      BY <1>1, <2>2, <3>1, <3>2, <3>3, <3>4 DEF ReachedBy, Running, Same
  <2> QED
    BY <1>2, <2>1, <2>2, WhoMoves
<1>3. CASE Works(c)
  <2>1. Clean(c) /\ Smooth(c) /\ said' = said
    BY <1>0, <1>3, CleanWorks, WorksMoves DEF Frame
  <2>2. Asked(said[c]) # {} /\ ~dryRun
    BY <2>1 DEF Clean
  <2>3. FlagOps(said[c])' = FlagOps(said[c])
    BY <2>1 DEF FlagOps
  <2>4. ASSUME NEW n, Written(c, n) PROVE Written(c, n)'
    BY <1>1, <2>3, <2>4 DEF Written
  <2>5. ASSUME ran' = ran, NEW n \in Meant(c)' PROVE n \in Meant(c)
    <3>1. /\ reloads' = 0 => reloads = 0 /\ configured' = configured
          /\ said'[c] = said[c]
      BY <2>1, SaidStays
    <3> QED
      BY <2>5, <3>1 DEF Meant
  <2>6. CASE Asks(c)
    <3>1. pc'[c] = "dispatch"
      BY <1>0, <2>6, GoMoves DEF Asks
    <3> QED
      BY <3>1 DEF ReachedBy, Running
  <2>7. CASE Enters(c) /\ ran' = ran
    <3>1. PICK left \in Seq(Clusters), batch \in BOOLEAN :
             /\ Go(c, "clusters", [task[c] EXCEPT !.left = left, !.batch = batch])
             /\ (c \in Chats /\ task[c].act.type = "skill") =>
                   (task[c].act.target.kind = "all" => Many(task[c].act) \subseteq ToSet(left))
      BY <2>7 DEF Enters
    <3>2. pc'[c] = "clusters" /\ task'[c] = [task[c] EXCEPT !.left = left, !.batch = batch]
      BY <1>0, <3>1, GoMoves
    <3>3. task'[c].left = left
      BY <1>0, <3>2 DEF Hands
    <3>4. ASSUME NEW n \in Meant(c)' PROVE n \in ToSet(task'[c].left)
      <4>1. n \in Meant(c) /\ pc[c] = "dispatch"
        BY <2>5, <2>7, <3>4 DEF Enters
      <4>2. /\ task[c].act.type = "skill" /\ task[c].act.target.kind = "all"
            /\ n \in Many(task[c].act)
        BY <1>0, <2>2, <4>1, MeantAtFirst
      <4> QED
        BY <3>1, <3>3, <4>2
    <3> QED
      BY <3>2, <3>4 DEF ReachedBy, Running
  <2>8. CASE Starts(c) /\ ran' = ran
    <3>1. PICK plan : Go(c, "steps", [task[c] EXCEPT !.at = Head(task[c].left), !.steps = plan])
      BY <2>8 DEF Starts
    <3>2. pc'[c] = "steps" /\ pc[c] = "clusters"
      BY <1>0, <2>8, <3>1, GoMoves DEF Starts
    <3>3. /\ task'[c].act = task[c].act /\ task'[c].left = task[c].left
          /\ task'[c].steps \in PlansFor(task[c].act, Head(task[c].left))
      BY <1>0, <1>3, <3>2, StepsMove
    <3>4. \A n \in Meant(c)' : n \in ToSet(task'[c].left) \/ Written(c, n)'
      BY <2>1, <2>4, <2>5, <2>8, <3>2, <3>3 DEF ReachedBy, Running
    <3>5. ASSUME task'[c].act.type = "skill", NEW op \in FlagOps(said[c])
          PROVE  \E i \in DOMAIN task'[c].steps : task'[c].steps[i].op = op
      <4>1. task[c].act.skill = FlagSkill(said[c])
        BY <1>0, <2>2, <3>2, <3>3, <3>5, FlagInHand DEF Busy
      <4> QED
        BY <2>2, <3>3, <3>5, <4>1, FlagSkillPlan
    <3> QED
      BY <2>3, <3>2, <3>4, <3>5 DEF ReachedBy
  <2>9. CASE pc[c] = "steps" /\ task[c].steps = <<>> /\ Skip(c, FALSE) /\ ran' = ran
    <3>1. /\ pc'[c] = "clusters"
          /\ task'[c] = [task[c] EXCEPT !.left = Tail(@), !.at = "", !.steps = <<>>,
                                        !.trouble = @ \/ FALSE]
      BY <1>0, <2>9, GoMoves DEF Skip
    <3>2. task'[c].left = Tail(task[c].left)
      BY <1>0, <3>1 DEF Hands
    <3>3. ASSUME NEW n \in Meant(c)' PROVE n \in ToSet(task'[c].left) \/ Written(c, n)'
      <4> DEFINE left == task[c].left
      <4>1. n \in Meant(c) /\ (n \in ToSet(left) \/ Written(c, n))
        BY <2>1, <2>5, <2>9, <3>3 DEF ReachedBy, Running
      <4>2. left \in Seq(Clusters) /\ left # <<>> /\ task[c].at = Head(left)
        BY <1>0, <2>9, AtCluster
      <4>3. CASE n = Head(left)
        <5>1. task[c].act.type = "skill"
          BY <2>2, <2>9, <4>1, MeantBySkill DEF Busy
        <5>2. Written(c, task[c].at)
          BY <2>1, <2>9, <5>1 DEF ReachedBy, Written
        <5> QED
          BY <2>4, <4>2, <4>3, <5>2
      <4>4. CASE n \in ToSet(left) /\ n # Head(left)
        <5> HIDE DEF left
        <5>1. PICK i \in DOMAIN left : left[i] = n
          BY <4>4 DEF ToSet
        <5>2. \E j \in DOMAIN Tail(left) : Tail(left)[j] = n
          BY <4>2, <4>4, <5>1, HeadOrTail
        <5>3. n \in ToSet(Tail(left))
          BY <5>2 DEF ToSet
        <5> QED
          BY <3>2, <5>3 DEF left
      <4>5. CASE Written(c, n)
        BY <2>4, <4>5
      <4> QED
        BY <4>1, <4>3, <4>4, <4>5
    <3> QED
      BY <3>1, <3>3 DEF ReachedBy, Running
  <2>10. CASE pc'[c] = "done" /\ NothingLeft(c) /\ ran' = ran
    <3>1. ASSUME NEW n \in Meant(c)' PROVE Written(c, n)'
      <4>1. n \in Meant(c)
        BY <2>5, <2>10, <3>1
      <4>2. CASE pc[c] = "clusters" /\ task[c].left = <<>>
        <5>1. n \notin ToSet(task[c].left)
          BY <4>2 DEF ToSet
        <5> QED
          BY <2>1, <2>4, <4>1, <4>2, <5>1 DEF ReachedBy, Running
      <4>3. CASE pc[c] = "dispatch"
        <5>1. /\ task[c].act.type = "skill" /\ task[c].act.skill \in BroadcastSkills
              /\ task[c].act.target.kind = "all" /\ n \in Many(task[c].act)
          BY <1>0, <2>2, <4>1, <4>3, MeantAtFirst
        <5> QED
          BY <2>10, <4>3, <5>1 DEF NothingLeft
      <4> QED
        BY <2>10, <4>2, <4>3 DEF NothingLeft
    <3> QED
      BY <2>10, <3>1 DEF ReachedBy, Running
  <2>11. CASE RunStep(c)
    <3>1. /\ Sending(c) /\ Sent(c).cluster = task[c].at /\ Sent(c).op = Head(task[c].steps).op
          /\ ran' = ran \cup {Sent(c)} /\ task'[c].at = task[c].at /\ pc'[c] = "steps"
          /\ task'[c].left = task[c].left /\ task'[c].act = task[c].act
          /\ task'[c].steps = Tail(task[c].steps)
      BY <1>0, <2>11, StepDone
    <3>2. /\ pc[c] = "steps" /\ task[c].at \in ToSet(task[c].left)
          /\ task[c].steps \in Seq(Steps) /\ task[c].steps # <<>>
      BY <1>0, <3>1, AtCluster DEF Sending
    <3>3. ASSUME NEW n \in Meant(c)' PROVE n \in ToSet(task'[c].left) \/ Written(c, n)'
      <4>1. n \in Meant(c) \/ n = task[c].at
        BY <2>1, <3>1, <3>3, MeantStays
      <4> QED
        BY <2>1, <2>4, <3>1, <3>2, <4>1 DEF ReachedBy, Running
    <3>4. ASSUME task'[c].act.type = "skill", NEW op \in FlagOps(said[c])
          PROVE  \/ Was(c, op, task[c].at)'
                 \/ \E i \in DOMAIN task'[c].steps : task'[c].steps[i].op = op
      <4>1. CASE Was(c, op, task[c].at)
        <5>1. Was(c, op, task[c].at) => [by |-> c, op |-> op, cluster |-> task[c].at] \in ran'
          BY RanStays DEF Was
        <5> QED
          BY <3>1, <4>1, <5>1 DEF Was
      <4>2. ASSUME NEW i \in DOMAIN task[c].steps, task[c].steps[i].op = op
            PROVE  \/ Was(c, op, task[c].at)'
                   \/ \E j \in DOMAIN task'[c].steps : task'[c].steps[j].op = op
        <5>1. CASE task[c].steps[i] = Head(task[c].steps)
          <6>1. Sent(c) = [by |-> c, op |-> op, cluster |-> task[c].at]
            BY <4>2, <5>1 DEF Sent
          <6> QED
            BY <3>1, <6>1 DEF Was
        <5>2. CASE \E j \in DOMAIN Tail(task[c].steps) :
                      Tail(task[c].steps)[j] = task[c].steps[i]
          BY <3>1, <4>2, <5>2
        <5> QED
          BY <3>2, <5>1, <5>2, HeadOrTail
      <4> QED
        BY <2>1, <3>1, <3>2, <3>4, <4>1, <4>2 DEF ReachedBy
    <3> QED
      BY <2>3, <3>1, <3>3, <3>4 DEF ReachedBy, Running
  <2> QED
    BY <2>1, <2>6, <2>7, <2>8, <2>9, <2>10, <2>11 DEF Smooth
<1> QED
  BY <1>2, <1>3

LEMMA FlagsStep ==
    ASSUME TypeOK, IdleHands, Formed, Understood, Planned, Carried, Ended, Next,
           NEW c \in Chats, FlagsBy(c)
    PROVE  FlagsBy(c)'
<1>1. /\ AllInHandBy(c) /\ StepsAskedBy(c) /\ SentAskedBy(c)
      /\ InForceBy(c) /\ ReachedBy(c)
  BY DEF FlagsBy
<1>2. AllInHandBy(c)'
  BY <1>1, AllInHandStep
<1>3. StepsAskedBy(c)' /\ SentAskedBy(c)'
  BY <1>1, StepsAskedStep, SentAskedStep
<1>4. InForceBy(c)'
  BY <1>1, InForceStep
<1>5. ReachedBy(c)'
  BY <1>1, ReachedStep
<1> QED
  BY <1>2, <1>3, <1>4, <1>5 DEF FlagsBy

\* A message that was answered with no trouble has had all its steps sent where it was
\* meant, and they are in force.
LEMMA FlagsFollow ==
    ASSUME CommandsInv PROVE FlagsAsWritten
<1> SUFFICES ASSUME NEW c \in Chats, outcome[c] = "ok", ~dryRun, Asked(said[c]) # {},
                    NEW n \in Meant(c), Alone(c, n)
             PROVE  IF Unsets(said[c]) THEN Asked(said[c]) \cap flags[n] = {}
                                       ELSE Asked(said[c]) \subseteq flags[n]
  BY DEF FlagsAsWritten, Meant
<1>0. TypeOK /\ Ended /\ FlagsBy(c) /\ c \in Workers
  BY ChatOrPage DEF CommandsInv
<1>1. pc[c] = "done" /\ task[c] = NoTask
  BY <1>0 DEF Ended, TypeOK
<1>2. Clean(c)
  <2>1. NoTask.trouble = FALSE
    BY DEF NoTask
  <2> QED
    BY <1>1, <2>1 DEF Clean
<1>3. Written(c, n)
  BY <1>0, <1>1, <1>2 DEF FlagsBy, ReachedBy
<1>4. ASSUME NEW op \in FlagOps(said[c]) PROVE InForce(op, n)
  <2> DEFINE x == [by |-> c, op |-> op, cluster |-> n]
  <2>1. x \in ran /\ x.by = c /\ x.op = op /\ x.cluster = n
    BY <1>3 DEF Written, Was
  <2>2. Changes(op)
    BY DEF FlagOps, Changes
  <2> QED
    BY <1>0, <1>2, <2>1, <2>2 DEF FlagsBy, InForceBy
<1>5. ASSUME NEW flag \in Asked(said[c])
      PROVE  IF Unsets(said[c]) THEN flag \notin flags[n] ELSE flag \in flags[n]
  <2> DEFINE op == <<IF Unsets(said[c]) THEN "unset" ELSE "set", flag>>
  <2>1. op \in FlagOps(said[c])
    BY DEF FlagOps
  <2>2. InForce(op, n)
    BY <1>4, <2>1
  <2> QED
    BY <2>2 DEF InForce
<1> QED
  BY <1>5
--------------------------------------------------------------------------
(* The invariant of the specification. *)

LEMMA InvInit == Init => CommandsInv
<1> SUFFICES ASSUME Init PROVE CommandsInv
  OBVIOUS
<1>1. TypeOK
  BY TypeInit
<1>2. \A w \in Workers : pc[w] = "idle" /\ task[w] = NoTask
  BY DEF Init
<1>3. IdleHands /\ Planned
  BY <1>2 DEF IdleHands, Planned
<1>4. Formed /\ Understood /\ Aimed
  BY <1>2, ChatOrPage DEF Formed, Understood, Aimed, AimedBy, Running, Busy
<1>5. /\ Carried /\ ChangesAreNamed /\ ConfirmedAsTyped /\ DryRunRunsNothing
      /\ ChatChangesRecorded /\ Ended
  BY DEF Init, Ended, Carried, ByChat, ChangesAreNamed, ConfirmedAsTyped, DryRunRunsNothing,
         ChatChangesRecorded
<1>6. Unrecorded
  BY DEF Init, Unrecorded
<1>7. OneSlot
  <2>1. OnTheWeb = {}
    BY <1>2, ChatOrPage DEF OnTheWeb
  <2> QED
    BY <2>1 DEF OneSlot, Init
<1>8. ASSUME NEW c \in Chats PROVE FlagsBy(c)
  <2>1. pc[c] = "idle" /\ ran = {}
    BY <1>2, ChatOrPage DEF Init
  <2> QED
    BY <2>1 DEF FlagsBy, AllInHandBy, StepsAskedBy, SentAskedBy, InForceBy, ReachedBy,
                Running, Busy
<1> QED
  BY <1>1, <1>3, <1>4, <1>5, <1>6, <1>7, <1>8 DEF CommandsInv

LEMMA InvStep == CommandsInv /\ [Next]_vars => CommandsInv'
<1> SUFFICES ASSUME CommandsInv, [Next]_vars PROVE CommandsInv'
  OBVIOUS
<1> USE DEF CommandsInv
<1>1. CASE Next
  <2>1. TypeOK' /\ IdleHands' /\ Formed' /\ Understood'
    BY <1>1, TypeStep, IdleHandsStep, FormedStep, UnderstoodStep
  <2>2. Planned' /\ Aimed' /\ Carried'
    BY <1>1, PlannedStep, AimedStep, CarriedStep
  <2>3. Unrecorded' /\ OneSlot'
    BY <1>1, UnrecordedStep, OneSlotStep
  <2>4. ChangesAreNamed' /\ ConfirmedAsTyped' /\ DryRunRunsNothing' /\ ChatChangesRecorded'
    BY <1>1, NamedStep, ConfirmedStep, DryRunStep, RecordedStep
  <2>5. Ended' /\ \A c \in Chats : FlagsBy(c)'
    BY <1>1, EndedStep, FlagsStep
  <2> QED
    BY <2>1, <2>2, <2>3, <2>4, <2>5
<1>2. CASE UNCHANGED vars
  <2>1. UNCHANGED <<configured, llmOff, dryRun, flags, inFlight, audit, reloads, pc, task,
                    said, outcome, ran>>
    BY <1>2 DEF vars, shared
  <2>2. TypeOK' /\ IdleHands' /\ Formed' /\ Understood'
    BY <2>1 DEF TypeOK, IdleHands, Formed, Understood
  <2>3. Planned' /\ Aimed' /\ Carried' /\ Unrecorded'
    BY <2>1 DEF Planned, Fits, Aimed, AimedBy, RightPlace, Covers, Running, Carried, ByChat,
                Unrecorded
  <2>4. OneSlot'
    BY <2>1 DEF OneSlot, OnTheWeb
  <2>5. ChangesAreNamed' /\ ConfirmedAsTyped' /\ DryRunRunsNothing' /\ ChatChangesRecorded'
    BY <2>1 DEF ChangesAreNamed, ConfirmedAsTyped, DryRunRunsNothing, ChatChangesRecorded, ByChat
  <2>6. Ended'
    BY <2>1 DEF Ended
  <2>7. ASSUME NEW c \in Chats PROVE FlagsBy(c)'
    <3>1. AllInHandBy(c)' /\ StepsAskedBy(c)' /\ SentAskedBy(c)'
      BY <2>1 DEF FlagsBy, AllInHandBy, StepsAskedBy, SentAskedBy, FlagOps
    <3>2. /\ \A n : Alone(c, n)' <=> Alone(c, n)
          /\ \A op, n : InForce(op, n)' <=> InForce(op, n)
      BY <2>1 DEF Alone, InForce
    <3>3. InForceBy(c)'
      BY <2>1, <3>2 DEF FlagsBy, InForceBy, Clean
    <3>4. ReachedBy(c)'
      <4>1. /\ Clean(c)' <=> Clean(c)
            /\ Meant(c)' = Meant(c) /\ FlagOps(said[c])' = FlagOps(said[c])
        BY <2>1 DEF Clean, Meant, FlagOps
      <4>2. /\ \A op, n : Was(c, op, n)' <=> Was(c, op, n)
            /\ \A n : Written(c, n)' <=> Written(c, n)
        BY <2>1, <4>1 DEF Was, Written
      <4>3. ReachedBy(c)
        BY DEF FlagsBy
      <4> QED
        BY <2>1, <4>1, <4>2, <4>3 DEF ReachedBy, Running
    <3> QED
      BY <3>1, <3>3, <3>4 DEF FlagsBy
  <2> QED
    BY <2>2, <2>3, <2>4, <2>5, <2>6, <2>7
<1> QED
  BY <1>1, <1>2

\* Whatever is written, submitted, answered by the LLM and configured meanwhile, in any
\* interleaving: every worker has in hand what its message or form stands for, and
\* what it sends is what that action has it do.
THEOREM CommandsInvariant == Spec => []CommandsInv
<1>1. Init => CommandsInv
  BY InvInit
<1>2. CommandsInv /\ [Next]_vars => CommandsInv'
  BY InvStep
<1> QED
  BY <1>1, <1>2, PTL DEF Spec

\* Every variable has its type, and who is at a cluster is at the first of those left.
THEOREM CommandsTypeCorrect == Spec => []TypeOK
<1>1. CommandsInv => TypeOK
  BY DEF CommandsInv
<1> QED
  BY <1>1, CommandsInvariant, PTL

\* A chat message changes only clusters that it names, or all but those it excepts
\* (parser.go and handleSkill).
THEOREM ChangesNamed == Spec => []ChangesAreNamed
<1>1. CommandsInv => ChangesAreNamed
  BY DEF CommandsInv
<1> QED
  BY <1>1, CommandsInvariant, PTL

\* Pods and ports go down only for a message with a confirmation, and pods in a cluster
\* typed in full if there is one (ExtractClusterName and FindByPrefix).
THEOREM Confirmed == Spec => []ConfirmedAsTyped
<1>1. CommandsInv => ConfirmedAsTyped
  BY DEF CommandsInv
<1> QED
  BY <1>1, CommandsInvariant, PTL

\* A dry run sends nothing but what the health page asks for.
THEOREM DryRun == Spec => []DryRunRunsNothing
<1>1. CommandsInv => DryRunRunsNothing
  BY DEF CommandsInv
<1> QED
  BY <1>1, CommandsInvariant, PTL

\* Server.inFlight counts the web's skills that run, and never more than one.
THEOREM OneWebSkill == Spec => []OneSkillForTheWeb
<1>1. CommandsInv => OneSkillForTheWeb
  <2> SUFFICES ASSUME OneSlot PROVE inFlight = Cardinality(OnTheWeb)
    BY DEF CommandsInv, OneSkillForTheWeb, OnTheWeb
  <2> QED
    BY FS_EmptySet, FS_Singleton DEF OneSlot
<1> QED
  BY <1>1, CommandsInvariant, PTL

\* An answered message that has changed a cluster has one entry in the audit log, with
\* a target that covers the cluster, whatever failed (AuditLog.Record in HandleMessage).
THEOREM ChangesRecorded == Spec => []ChatChangesRecorded
<1>1. CommandsInv => ChatChangesRecorded
  BY DEF CommandsInv
<1> QED
  BY <1>1, CommandsInvariant, PTL

\* A message with a flag command that is answered with no trouble: the flags of every
\* cluster it was for, and that no one else has changed, are all on or all off as it was
\* written (skillAliasTable of parser.go, handleSkillOnClusters and the four flag skills).
THEOREM FlagsWritten == Spec => []FlagsAsWritten
<1>1. CommandsInv => FlagsAsWritten
  BY FlagsFollow
<1> QED
  BY <1>1, CommandsInvariant, PTL
==========================================================================
