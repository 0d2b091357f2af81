------------------------- MODULE StorageCommands -------------------------
(* The three ways to ask for something of a Yanrong storage: a chat message  *)
(* (RESTSkill.Query), a page of the web interface and the yrfsctl command.   *)
(* Each comes down to one request, or to an answer that asks for nothing.    *)
EXTENDS StoragePaths

\* A request.  "refused" and "usage text" never reach the storage.
Request(kind, path, dry, prefixes) ==
    [kind |-> kind, path |-> path, dry |-> dry, prefixes |-> prefixes]

Requests ==
    [kind : {"refused", "usage text", "info", "quotas", "usage", "recycles", "files", "clear"},
     path : Texts, dry : BOOLEAN,
     prefixes : [private : Texts, public : Texts]]

Plain(kind, prefixes) == Request(kind, Root, TRUE, prefixes)
Refused(prefixes)     == Plain("refused", prefixes)

\* DirUsageForUser: the name is resolved before anything is sent.
UserUsage(user, scope, prefixes) ==
    LET path == ResolveUserPath(user, scope, prefixes) IN
    IF path = Empty THEN Refused(prefixes)
                    ELSE Request("usage", path, TRUE, prefixes)
--------------------------------------------------------------------------
(* A chat message is the sequence of its words, the storage's name and the   *)
(* mention already dropped (stripStorageName).  A word has its text, split   *)
(* at the slashes, the keywords that occur in it, those it begins with, and  *)
(* the one it is as a whole: "user1" has and begins with "user" and is none. *)

Word(text, has, begins, is) == [text |-> text, has |-> has, begins |-> begins, is |-> is]

IsPath(w) == Len(w.text) > 1 /\ w.text[1] = ""

Contain(msg, key) == \E w \in ToSet(msg) : key \in w.has
Begins(msg, key)  == msg # <<>> /\ key \in msg[1].begins

\* extractRecyclePath: the first word that starts with a slash.
ExtractRecyclePath(msg) ==
    LET paths == SelectSeq(msg, IsPath) IN
    IF paths = <<>> THEN Empty ELSE paths[1].text

\* hasConfirmToken looks for the words anywhere in the message.
HasConfirmToken(msg) == Contain(msg, "confirm")

\* parseUserScope: the last scope word counts, the first other word is the user.
\* Here a keyword is a word of its own, not one that occurs in a word.
ParseUserScope(msg) ==
    LET scopes == SelectSeq(msg, LAMBDA w : w.is \in {"public", "private"})
        others == SelectSeq(msg, LAMBDA w :
                     w.is \notin {"user", "quota", "public", "private"})
    IN  [scope |-> IF scopes = <<>> THEN "private" ELSE Last(scopes).is,
         user  |-> IF others = <<>> THEN Empty ELSE others[1].text]

\* The part of Query about the recycle bins.
QueryRecycle(msg, prefixes) ==
    LET path == ExtractRecyclePath(msg) IN
    IF Contain(msg, "clear")
    THEN IF path = Empty THEN Plain("usage text", prefixes)
         ELSE Request("clear", path, ~HasConfirmToken(msg), prefixes)
    ELSE IF path # Empty THEN Request("files", path, TRUE, prefixes)
    ELSE IF Contain(msg, "file") \/ Contain(msg, "list")
         THEN Plain("usage text", prefixes)
         ELSE Plain("recycles", prefixes)

\* Query: the first case that applies, in the order of the switch.
Query(msg, prefixes) ==
    IF (Len(msg) = 1 /\ msg[1].is = "health") \/ Contain(msg, "status")
    THEN Plain("info", prefixes)
    ELSE IF Begins(msg, "usage")
    THEN Request("usage", IF Len(msg) > 1 THEN msg[2].text ELSE Root, TRUE, prefixes)
    ELSE IF Contain(msg, "quota")   THEN Plain("quotas", prefixes)
    ELSE IF Contain(msg, "recycle") THEN QueryRecycle(msg, prefixes)
    ELSE IF \E key \in {"user", "private", "public"} : Begins(msg, key)
    THEN LET who == ParseUserScope(msg) IN UserUsage(who.user, who.scope, prefixes)
    ELSE Plain("info", prefixes)
--------------------------------------------------------------------------
(* The pages under /storages/<name>/, known = the name is configured.        *)

\* renderStorageUser: the form wins with its path over the user's name.
WebUser(form, prefixes) ==
    IF ~form.post \/ (form.user = Empty /\ form.path = Empty) THEN Refused(prefixes)
    ELSE IF form.path # Empty THEN Request("usage", form.path, TRUE, prefixes)
    ELSE UserUsage(form.user, form.scope, prefixes)

\* renderStorageRecycles: POST clears, GET lists the bins or the files of a path.
WebRecycles(form, prefixes) ==
    IF form.post
    THEN IF form.path = Empty THEN Refused(prefixes)
         ELSE Request("clear", form.path, ~form.confirm, prefixes)
    ELSE IF form.path = Empty THEN Plain("recycles", prefixes)
         ELSE Request("files", form.path, TRUE, prefixes)

\* handleStorageRoutes.
WebRequest(action, form, known, prefixes) ==
    IF ~known THEN Refused(prefixes)
    ELSE IF action \in {"info", "health"} THEN Plain("info", prefixes)
    ELSE IF action = "quotas"   THEN Plain("quotas", prefixes)
    ELSE IF action = "user"     THEN WebUser(form, prefixes)
    ELSE IF action = "recycles" THEN WebRecycles(form, prefixes)
    ELSE Refused(prefixes)
--------------------------------------------------------------------------
(* yrfsctl.  A text that is not given is "".                                 *)

FirstNonEmpty(a, b) == IF a # "" THEN a ELSE b

Fields  == {"base_url", "username", "password"}
NoPrefixes == [private |-> Empty, public |-> Empty]
NoCreds    == [ok |-> FALSE, prefixes |-> NoPrefixes]

\* pickStorage: by name, or the only one there is.
PickStorage(storages, name) ==
    IF name # "" THEN {s \in storages : s.name = name}
    ELSE IF \E s \in storages : storages = {s} THEN storages ELSE {}

\* pickConfigPath, then config.Load: the storages the file configures.
ConfigStorages(flag, env, here, files) ==
    LET path == FirstNonEmpty(flag, FirstNonEmpty(env, IF here THEN "config.yaml" ELSE ""))
    IN  IF path \in DOMAIN files THEN files[path] ELSE {}

\* resolveCreds: flag over environment over configuration, field by field.  When
\* flags and environment say it all, the configuration and its prefixes are not read.
ResolveCreds(flags, env, storages, name) ==
    LET given  == [f \in Fields |-> FirstNonEmpty(flags[f], env[f])]
        picked == PickStorage(storages, name)
    IN  IF \A f \in Fields : given[f] # "" THEN [ok |-> TRUE, prefixes |-> NoPrefixes]
        ELSE IF picked = {} THEN NoCreds
        ELSE LET s == CHOOSE s \in picked : TRUE IN
             IF \E f \in Fields : FirstNonEmpty(given[f], s.creds[f]) = "" THEN NoCreds
             ELSE [ok |-> TRUE, prefixes |-> s.prefixes]

\* The subcommands: newInfoCmd, newQuotaCmd, newRecyclesCmd, newRecycleClearCmd.
CliRequest(args, creds) ==
    LET p == creds.prefixes IN
    IF (args.cmd = "quota" /\ args.path # Empty /\ args.user # Empty)
       \/ (args.cmd = "recycle-clear" /\ args.path = Empty)
       \/ ~creds.ok
    THEN Refused(p)
    ELSE IF args.cmd = "info" THEN Plain("info", p)
    ELSE IF args.cmd = "quota"
    THEN IF args.user # Empty THEN UserUsage(args.user, args.scope, p)
         ELSE IF args.path # Empty THEN Request("usage", args.path, TRUE, p)
         ELSE Plain("quotas", p)
    ELSE IF args.cmd = "recycles"
    THEN IF args.path # Empty THEN Request("files", args.path, TRUE, p)
         ELSE Plain("recycles", p)
    ELSE Request("clear", args.path, ~args.yes, p)
==========================================================================
