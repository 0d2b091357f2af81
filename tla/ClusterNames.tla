-------------------------- MODULE ClusterNames --------------------------
(* How cluster.Manager finds the cluster an input stands for.  Names are     *)
(* known by what the search can tell of them: which name is the lower case   *)
(* of another, and which contains another once both are in lower case.       *)
EXTENDS FiniteSets

CONSTANTS
    Names,      \* what may be configured as a cluster, or typed
    Lower,      \* name -> its lower case, a name or NotAName
    Within,     \* pairs <<a, b>>: Lower of a occurs in Lower of b
    NotAName

ASSUME NamesAssumption ==
    /\ NotAName \notin Names
    /\ Lower \in [Names -> Names \cup {NotAName}]
    /\ Within \subseteq Names \X Names
    /\ \A a \in Names : <<a, a>> \in Within
    /\ \A a, b, c \in Names : <<a, b>> \in Within /\ <<b, c>> \in Within => <<a, c>> \in Within
    /\ \A a \in Names : Lower[a] # NotAName =>
          Lower[Lower[a]] = Lower[a] /\ {<<a, Lower[a]>>, <<Lower[a], a>>} \subseteq Within

\* ListByPrefix, and the second half of FindByPrefix.
Matches(input, list) == {n \in list : <<input, n>> \in Within}

\* Mutant of FindByPrefix: no exact match is tried.
FindByPartOnly(input, list) ==
    IF Cardinality(Matches(input, list)) = 1 THEN Matches(input, list) ELSE {}

\* FindByPrefix: the cluster found, or nothing when none or several match.  The
\* exact match compares the lower case of the input with the names as they are.
FindByPrefix(input, list) ==
    IF Lower[input] \in list THEN {Lower[input]}
    ELSE IF Cardinality(Matches(input, list)) = 1 THEN Matches(input, list)
    ELSE {}
==========================================================================
