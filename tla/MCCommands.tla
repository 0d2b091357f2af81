--------------------------- MODULE MCCommands ---------------------------
(* Three clusters, the name of one part of another's; a chat message of any  *)
(* kind together with one for a broadcast and with two web requests.         *)
EXTENDS Commands

CONSTANTS a, b, p, q

\* The words.  A word occurs in itself; what else occurs in what:
MCClusters == {"cdn-01", "cdn-01-test", "hdd-01"}
MCNodes    == {"hdd-node1", "hdd-node2"}
MCNames    == MCClusters \cup MCNodes \cup
    {"all", "except", "cdn", "01", "set", "unset", "nobackfill", "noout", "restart", "mon",
     "mgr", "a", "nic", "down", "eth0", "--yes", "optimize", "rgw", "node1", "hdd", "check",
     "log", "iostat", "llm", "off", "on", "help", "inspect", "yrfs01", "list", "clusters",
     "object", "storage", "osd", "cluster", "disk"}
MCLower  == [n \in MCNames |-> n]
MCWithin == {<<n, n>> : n \in MCNames} \cup
    {<<"cdn", "cdn-01">>, <<"cdn", "cdn-01-test">>, <<"cdn-01", "cdn-01-test">>,
     <<"hdd", "hdd-01">>, <<"01", "cdn-01">>, <<"01", "cdn-01-test">>, <<"01", "hdd-01">>,
     <<"hdd", "hdd-node1">>, <<"hdd", "hdd-node2">>, <<"node1", "hdd-node1">>,
     <<"a", "all">>, <<"set", "unset">>}
MCInside == {<<"set nobackfill", "unset nobackfill">>, <<"set noout", "unset noout">>,
             <<"io", "iostat">>, <<"mon", "restart mon">>, 
             <<"cluster", "clusters">>} \cup {w \in MCWithin : w[1] # w[2]}
MCSize     == [n \in MCNames |-> CASE n = "cdn-01-test" -> 11 [] n \in MCNodes -> 9
                                   [] n \in MCClusters -> 6 [] OTHER -> 4]
MCNumbers  == [n \in MCClusters |-> {"01"}]
MCHostLike == MCClusters \cup MCNodes \cup {"node1", "yrfs01"}
MCPortLike == {"01", "eth0", "node1", "yrfs01"}
MCShort    == {"all", "cdn", "01", "set", "mon", "mgr", "a", "nic", "rgw", "hdd", "log",
               "llm", "off", "on", "osd"}

MCNodesOf == [c \in MCClusters |-> IF c = "hdd-01" THEN MCNodes ELSE {}]
MCDaemons == [c \in MCClusters |-> {<<"mon", "a">>, <<"mgr", "a">>}]

Write(words, phrases, except) ==
    [words |-> words, phrases |-> phrases, except |-> except, named |-> "",
     group |-> FALSE, to |-> <<>>]
Plainly(words) == Write(words, {}, <<>>)
InGroup(m, to) == [m EXCEPT !.group = TRUE, !.to = to]

SetPart    == Write(<<"set", "nobackfill", "cdn">>, {"set nobackfill"}, <<>>)
UnsetRest  == Write(<<"unset", "nobackfill", "all", "except", "cdn">>, {"unset nobackfill"},
                    <<"cdn">>)
UnsetOne   == Write(<<"unset", "nobackfill", "hdd-01">>, {"unset nobackfill"}, <<>>)
RestartMonIn(where, yes) ==
    Write(<<"restart", "mon", "a", where>> \o yes, {"restart mon"}, <<>>)
DownPort(node, yes) ==
    Write(<<"nic", "down", "hdd-01", node, "eth0">> \o yes, {"nic down"}, <<>>)

Changing ==
    {SetPart, UnsetRest, UnsetOne, InGroup(UnsetOne, <<"user">>),
     InGroup(UnsetOne, <<"everyone", "user">>),
     RestartMonIn("cdn-01-test", <<"--yes">>), RestartMonIn("01", <<"--yes">>),
     RestartMonIn("cdn-01", <<>>), RestartMonIn("cdn", <<"--yes">>),
     DownPort("node1", <<"--yes">>), DownPort("hdd-node2", <<>>),
     Write(<<"optimize", "rgw", "hdd-01">>, {"optimize rgw"}, <<>>)}
Asking ==
    {Plainly(<<"check", "hdd-01">>), Plainly(<<"check", "hdd">>), Plainly(<<"check">>),
     Plainly(<<"log", "hdd-01">>), Plainly(<<"node1", "hdd-01">>),
     Plainly(<<"disk", "hdd-01">>), Plainly(<<"iostat", "hdd-01">>), Plainly(<<"osd", "cdn">>), Plainly(<<"help">>),
     Write(<<"object", "storage", "hdd-01">>, {"object storage"}, <<>>),
     Plainly(<<"llm", "off">>), Plainly(<<"inspect", "all">>), Plainly(<<"yrfs01">>),
     Plainly(<<"list", "clusters">>)}

Restarts == {"restart_mon", "restart_mgr"}
MCSkills == {AliasTable[i][1] : i \in DOMAIN AliasTable}

Form(page, skill, cluster) == [page |-> page, skill |-> skill, cluster |-> cluster, node |-> ""]
MCForms == (p :> {Form("run", "set_noout", "hdd-01"), Form("run", "restart_mon", "cdn-01"),
                  Form("run", "", "hdd-01"), Form("health", "", "hdd-01"),
                  Form("run", "list_nodes", "cdn-01-test")})
        @@ (q :> {Form("run", "capacity", "hdd-01")})

MCMessages     == (a :> Changing \cup Asking) @@ (b :> {Plainly(<<"llm", "off">>), RestartMonIn("cdn-01", <<"--yes">>)})
MCConfigs      == {MCClusters, MCClusters \ {"cdn-01-test"}}
MCLLMAnswers   == {[action |-> "health", cluster |-> "hdd", node |-> ""],
                   [action |-> "other", cluster |-> "", node |-> ""]}
MCDev          == {[dryRun |-> dry, disableLLM |-> dry] : dry \in BOOLEAN}
MCFirstFlags   == {{"norebalance", "norecover"}}
==========================================================================
