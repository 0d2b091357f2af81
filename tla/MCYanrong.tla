--------------------------- MODULE MCYanrong ---------------------------
(* One backend with the user prefixes /u (private) and /p (public), bins for *)
(* the root and for /u, a bin /u/a that may appear, pages of two entries.      *)
EXTENDS Yanrong

CONSTANTS a, b

Abs(parts) == <<"">> \o parts

MCPrefixes == [private |-> Abs(<<"u">>), public |-> Abs(<<"p", "">>)]

\* The messages: recycle clear /u/a [--yes], recycle clear /u --yes, ..., the usage
\* of a user whose name holds a keyword, and of one whose path is the root.
Say(key)       == Word(<<"word">>, {key}, {key}, key)
Type(raw)      == Word(raw, {}, {}, "")
Name(raw, key) == Word(raw, {key}, {key}, "")
MCMessages ==
    {<<Say("recycle"), Say("clear"), Type(Abs(<<"u", "a">>)), Say("confirm")>>,
     <<Say("recycle"), Say("clear"), Type(Abs(<<"u", "a">>))>>,
     <<Say("recycle"), Say("clear"), Type(Abs(<<"u", "">>)), Say("confirm")>>,
     <<Say("recycle"), Say("clear")>>,
     <<Say("recycle"), Say("list"), Type(Abs(<<"u", "a">>))>>,
     <<Say("health")>>,
     <<Say("user"), Name(<<"user1">>, "user"), Say("public")>>,
     <<Say("private"), Type(<<"..">>)>>,
     <<Say("usage"), Type(Abs(<<"", "u", ".", "a", "">>))>>}

Form(post, path, user, scope, confirm) ==
    [post |-> post, path |-> path, user |-> user, scope |-> scope, confirm |-> confirm]
MCPages ==
    {<<"info", Form(FALSE, Empty, Empty, "", FALSE)>>,
     <<"recycles", Form(TRUE, Abs(<<"p", "c">>), Empty, "", TRUE)>>,
     <<"recycles", Form(TRUE, Empty, Empty, "", TRUE)>>,
     <<"recycles", Form(FALSE, Abs(<<"u", "a">>), Empty, "", FALSE)>>}

AllBotRequests ==
    {Query(m, MCPrefixes) : m \in MCMessages}
    \cup {WebRequest(p[1], p[2], known, MCPrefixes) : p \in MCPages, known \in BOOLEAN}

Given(url, user, pass) == [base_url |-> url, username |-> user, password |-> pass]
MCStorages ==
    {[name |-> "yrfs01", creds |-> Given("url", "user", ""), prefixes |-> MCPrefixes]}
MCFiles == [f \in {"config.yaml"} |-> MCStorages]

\* The password comes from the environment; once with all of it from flags.
MCCreds ==
    {ResolveCreds(flags, Given("", "", "pass"),
                  ConfigStorages("", "", TRUE, MCFiles), name) :
        flags \in {Given("", "", ""), Given("url2", "root", "")}, name \in {"", "yrfs02"}}

MCArgs ==
    {[cmd |-> "recycle-clear", path |-> Abs(<<"u", "a">>), user |-> Empty,
      scope |-> "private", yes |-> TRUE],
     [cmd |-> "quota", path |-> Empty, user |-> <<"a">>,
      scope |-> "public", yes |-> FALSE]}

AllCliRequests == {CliRequest(args, creds) : args \in MCArgs, creds \in MCCreds}

\* Any request races with the clear of /u/a.
MCBotRequests == (a :> AllBotRequests)
              @@ (b :> {Request("clear", Abs(<<"u", "a">>), FALSE, MCPrefixes)})
MCCliRequests == (a :> {r \in AllCliRequests : r.kind # "clear" \/ r.prefixes = NoPrefixes}) @@ (b :> {})

Entry(id, parts) == [id |-> id, path |-> Abs(parts)]
MCQuotas     == <<Entry(1, <<"u", "a">>)>>
MCFirstBins  == <<Entry(1, <<"">>), Entry(2, <<"u">>)>>
MCNewBin     == Entry(3, <<"u", "a", "">>)
MCFirstTrash == {[bin |-> 2, path |-> <<"u", "a", "f">>],
                 [bin |-> 1, path |-> <<"p", "c", "f">>],
                 [bin |-> 1, path |-> <<"etc">>]}
==========================================================================
