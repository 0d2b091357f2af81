-------------------------- MODULE IntentParser --------------------------
(* How a chat message becomes an action (intent.ParseWithAll).  A message is *)
(* known by its words, the phrases of several words in it, and which words   *)
(* and phrases occur in others; an English keyword stands for its synonyms.  *)
EXTENDS ClusterNames, SequencesExt, Naturals

CONSTANTS
    Inside,    \* pairs <<k, s>>: the keyword k occurs in the word or phrase s
    Size,      \* the length of a word
    Numbers,   \* cluster -> the numbers among the parts of its name
    HostLike,  \* the words with a hyphen or underscore, or letters and digits,
               \* that are no flag and do not start like an interface
    PortLike,  \* the words with a digit but no hyphen, underscore or slash
    Short      \* the words of up to three letters and digits

\* A message: words, in order; phrases, a set; except, the words that follow
\* "except"; named, what follows "cluster": a name, and not "all" or one with a
\* star, which stand for many.  Nothing is "".
Text(msg)         == ToSet(msg.words) \cup msg.phrases
Has(msg, key)     == \E s \in Text(msg) : s = key \/ <<key, s>> \in Inside
HasAny(msg, keys) == \E key \in keys : Has(msg, key)

\* The first element of the sequence that is one of these, or nothing.
FirstIn(seq, these) ==
    IF ToSet(seq) \cap these = {} THEN ""
    ELSE seq[CHOOSE i \in DOMAIN seq :
                seq[i] \in these /\ \A j \in DOMAIN seq : seq[j] \in these => i <= j]

\* What is asked of which clusters: kind "all", "prefix", "name" or "none".
Target(kind, text) == [kind |-> kind, text |-> text]
OneCluster(name)   == IF name = "" THEN Target("none", "") ELSE Target("name", name)

Args   == [yes |-> FALSE, id |-> "", eth |-> ""]
Action(type) ==
    [type |-> type, target |-> Target("none", ""), excludes |-> {}, node |-> "",
     skill |-> "", storage |-> "", enable |-> FALSE, args |-> Args]
--------------------------------------------------------------------------
\* Mutant of ExtractClusterName: a name that is part of a word will do.
ExtractAnyPart(msg, order) ==
    FirstIn(order, {n \in ToSet(order) : \E w \in ToSet(msg.words) : <<n, w>> \in Within})

\* extractClusterName: the longest name that is a word of the message, or else the
\* first in the order of the listing with a number that occurs in it.
ExtractClusterName(msg, order) ==
    LET typed    == {n \in ToSet(order) : Lower[n] \in ToSet(msg.words)}
        longest  == {n \in typed : \A m \in typed : Size[m] <= Size[n]}
        numbered == {n \in ToSet(order) : HasAny(msg, Numbers[n])}
    IN  IF longest # {} THEN FirstIn(order, longest)
        ELSE IF numbered # {} THEN FirstIn(order, numbered) ELSE msg.named

\* Mutant of Excluded: nothing is.
ExcludedNone(msg, order) == {}

Excluded(msg, order) == UNION {Matches(w, ToSet(order)) : w \in ToSet(msg.except)}

\* extractClusterTarget: all of them, those that the first word to occur in any
\* name occurs in, or a single one.
ExtractClusterTarget(msg, order) ==
    LET known == {w \in ToSet(msg.words) : Matches(w, ToSet(order)) # {}}
        word  == FirstIn(msg.words, known)
        names == Matches(word, ToSet(order))
    IN  IF Has(msg, "all") THEN Target("all", "")
        ELSE IF known = {} THEN OneCluster(ExtractClusterName(msg, order))
        ELSE IF Cardinality(names) > 1 THEN Target("prefix", word)
        ELSE Target("name", CHOOSE n \in names : TRUE)

\* The exclusions are kept with "all" only.
ExcludedTarget(msg, order) == IF Has(msg, "all") THEN Excluded(msg, order) ELSE {}

\* extractNodeName: the first word that looks like a host and is no cluster.
ExtractNodeName(msg, order) ==
    FirstIn(msg.words, HostLike \ {Lower[n] : n \in ToSet(order)})

\* extractEthName: the first word that may be an interface.
ExtractEthName(msg, target, node) ==
    FirstIn(msg.words,
            PortLike \ {node, IF target.kind = "name" THEN Lower[target.text] ELSE ""})

\* The daemon to restart: the first short word that is left, and that may not be
\* part of a cluster's name when no cluster was found.
ExtractId(msg, order, daemon, cluster) ==
    FirstIn(msg.words,
            {w \in Short \ {"restart", daemon, cluster} :
                cluster = "" => Matches(w, ToSet(order)) = {}})

Yes(msg) == Has(msg, "--yes")
--------------------------------------------------------------------------
\* The skills and their aliases, in the order in which they are looked for.
RestartRows == <<
    <<"restart_mon", {"restart mon", "restart_mon"}>>,
    <<"restart_mgr", {"restart mgr", "restart_mgr"}>> >>
UnsetRows == <<
    <<"unset_no_backfill", {"unset nobackfill", "unset_no_backfill"}>>,
    <<"unset_noout", {"unset noout", "unset_noout"}>> >>
SetRows == <<
    <<"set_no_backfill", {"set nobackfill", "set_no_backfill"}>>,
    <<"set_noout", {"set noout", "set_noout"}>> >>
OtherRows == <<
    <<"list_nodes", {"list nodes", "list_nodes"}>>,
    <<"get_mon_ips", {"mon ip", "monitor ip"}>>, <<"get_fsid", {"fsid", "cluster id"}>>,
    <<"osd_status", {"osd"}>>, <<"pg_status", {"pg"}>>, <<"pool_status", {"pool"}>>,
    <<"capacity", {"capacity"}>>, <<"slow_ops", {"slow"}>>,
    <<"crash_info", {"crash_info", "crash info", "crash detail"}>>, <<"crash", {"crash"}>>,
    <<"mon_status", {"monitor", "mon"}>>, <<"io_stat", {"iostat", "io"}>>,
    <<"kernel_logs", {"kernel"}>>, <<"hw_info", {"hw_info", "hw info", "firmware"}>>,
    <<"nic_down", {"nic_down", "nic down", "ip link set", "link down"}>>,
    <<"nic_up", {"nic_up", "nic up"}>>,
    <<"bond_status", {"bond", "link failure"}>>, <<"nic_info", {"nic", "ip link"}>>,
    <<"optimize_rgw_pg", {"optimize rgw", "rgw pg", "upmap rgw"}>>,
    <<"object_storage", {"object storage", "object_storage"}>> >>

\* Mutant of AliasTable: the flags are set before they are unset.
AliasTableSwapped == RestartRows \o SetRows \o UnsetRows \o OtherRows

AliasTable == RestartRows \o UnsetRows \o SetRows \o OtherRows

\* The first row with an alias in the message, or that is the message.
AliasedSkill(msg) ==
    LET rows == {i \in DOMAIN AliasTable : \/ msg.words = <<AliasTable[i][1]>>
                                           \/ HasAny(msg, AliasTable[i][2])}
    IN  IF rows = {} THEN "" ELSE AliasTable[CHOOSE i \in rows : \A j \in rows : i <= j][1]

\* The longest word that is one of these names.
NamedWord(msg, names) ==
    LET typed == names \cap ToSet(msg.words) IN
    IF typed = {} THEN ""
    ELSE CHOOSE n \in typed : \A m \in typed : Size[m] <= Size[n]

Restart(msg, order, skill, daemon) ==
    LET cluster == ExtractClusterName(msg, order) IN
    [Action("skill") EXCEPT
        !.skill = skill, !.target = OneCluster(cluster),
        !.args = [Args EXCEPT !.yes = Yes(msg),
                              !.id = ExtractId(msg, order, daemon, cluster)]]

ParseSkill(msg, order, skill) ==
    LET target == ExtractClusterTarget(msg, order)
        node   == IF skill = "list_nodes" THEN "" ELSE ExtractNodeName(msg, order)
    IN  IF skill = "restart_mon" THEN Restart(msg, order, skill, "mon")
        ELSE IF skill = "restart_mgr" THEN Restart(msg, order, skill, "mgr")
        ELSE [Action("skill") EXCEPT
                !.skill = skill, !.target = target, !.node = node,
                !.excludes = ExcludedTarget(msg, order),
                !.args = IF skill \in {"nic_down", "nic_up"}
                         THEN [Args EXCEPT !.yes = Yes(msg),
                                           !.eth = ExtractEthName(msg, target, node)]
                         ELSE Args]

\* What is left when no skill, list or storage is asked for.
ParsePlain(msg, order) ==
    LET node == ExtractNodeName(msg, order)
        type == IF Has(msg, "log") THEN "log analysis"
                ELSE IF node # "" \/ Has(msg, "disk") THEN "node diagnostics"
                ELSE "health"
    IN  [Action(type) EXCEPT !.target = OneCluster(ExtractClusterName(msg, order)),
                             !.node = node]

ParseInspect(msg, order) ==
    [Action("inspect") EXCEPT
        !.target = IF Has(msg, "all") THEN Target("none", "")
                   ELSE OneCluster(ExtractClusterName(msg, order))]

\* ParseWithAll: the first of its cases that applies.
ParseWithAll(msg, order, skills, storages) ==
    LET aliased    == AliasedSkill(msg)
        registered == NamedWord(msg, skills)
        storage    == NamedWord(msg, storages)
    IN  IF Has(msg, "llm")
        THEN [Action("toggle llm") EXCEPT !.enable = HasAny(msg, {"enable", "on"})]
        ELSE IF Has(msg, "list") /\ Has(msg, "inspect") THEN Action("list inspect")
        ELSE IF Has(msg, "inspect") THEN ParseInspect(msg, order)
        ELSE IF aliased # "" THEN ParseSkill(msg, order, aliased)
        ELSE IF registered # "" THEN ParseSkill(msg, order, registered)
        ELSE IF Has(msg, "help") THEN Action("help")
        ELSE IF Has(msg, "list") /\ Has(msg, "cluster") THEN Action("list clusters")
        ELSE IF Has(msg, "list") /\ Has(msg, "skill") THEN Action("list skills")
        ELSE IF storage # "" THEN [Action("rest storage") EXCEPT !.storage = storage]
        ELSE ParsePlain(msg, order)
--------------------------------------------------------------------------
\* NeedsFallback.
NeedsFallback(action) ==
    /\ action.type \notin {"help", "list clusters", "list skills", "list inspect", "toggle llm"}
    /\ action.target.kind = "none"

\* ParseWithLLM: an answer [action, cluster, node] replaces the whole action.
LLMAction(answer) ==
    LET type == CASE answer.action = "health"    -> "health"
                  [] answer.action = "logs"      -> "log analysis"
                  [] answer.action = "node_diag" -> "node diagnostics"
                  [] answer.action = "list"      -> "list clusters"
                  [] OTHER                       -> "help"
    IN  [Action(type) EXCEPT !.target = OneCluster(answer.cluster), !.node = answer.node]

\* isBotMentioned: to = whom a message of a group mentions, "everyone" or "user".
IsBotMentioned(to) == to # <<>> /\ to[1] # "everyone" /\ "user" \in ToSet(to)
==========================================================================
