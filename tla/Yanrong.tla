---------------------------- MODULE Yanrong ----------------------------
(* YanrongBackend: concurrent calls share one login token, list what the     *)
(* storage has page by page, and clear a recycle bin chosen from that list.  *)
(* The storage may meanwhile expire a token, create or remove a bin, report  *)
(* a wrong total, answer with an error, or lose the answer to what it did.   *)
EXTENDS StorageCommands, FiniteSets

CONSTANTS
    Calls,       \* calls, each made once, chat or web goroutines or a yrfsctl
    Bot,         \* the backend that chat and web share; yrfsctl has its own
    BotRequests, \* per call: the requests chat messages and pages come to
    CliRequests, \* per call: the requests yrfsctl command lines come to
    Quotas,      \* the quotas listed: a sequence of entries [id, path]
    FirstBins,   \* the recycle bins at first
    NewBin,      \* a bin that may be created
    FirstTrash,  \* the deleted files at first: records [bin, path], path clean
    PerPage,     \* entries per page
    MaxPage,     \* bounds: the pages asked for,
    MaxFaults    \* and how often a token expires or a bin comes or goes

Entries    == [id : Nat, path : Texts]
TrashFiles == [bin : Nat, path : Texts]

\* The bound on the pages is beyond the last page of the bins.
ASSUME YanrongAssumption ==
    /\ IsFiniteSet(Calls) /\ Bot \notin Calls
    /\ BotRequests \in [Calls -> SUBSET Requests]
    /\ CliRequests \in [Calls -> SUBSET Requests]
    /\ Quotas \in Seq(Entries) /\ FirstBins \in Seq(Entries) /\ NewBin \in Entries
    /\ FirstTrash \subseteq TrashFiles
    /\ PerPage \in Nat \ {0}
    /\ MaxPage \in Nat \ {0} /\ MaxFaults \in Nat
    /\ Len(FirstBins) + MaxFaults <= MaxPage * PerPage

Backends == Calls \cup {Bot}
NoToken  == 0

VARIABLES
    token,      \* per backend: the cached token
    valid,      \* the tokens the storage accepts
    issued,     \* how many it has issued: they are 1 .. issued
    bins,       \* the recycle bins, in the order they are listed, the last created first
    trash,      \* the deleted files they hold
    faults,     \* counted against the bound
    pc,         \* per call: "idle", "login", "send", "drop" or "done"
    req, backend,        \* what it asks, and through which backend
    local,      \* what it has in hand until it returns, see Fresh
    outcome,
    rejected,   \* history: how many requests were answered with 401
    deleted,    \* history: the files cleared, each with the request
    cleared     \* history, per call: how often the storage cleared for it

server == <<valid, issued, bins, trash, faults>>
client == <<pc, req, backend, local, outcome>>
ghost  == <<rejected, deleted, cleared>>
vars   == <<token, server, client, ghost>>

\* phase: "list" while it lists, "act" for its last request.  page is the page to
\* ask for, got the entries collected, tok the token its request carries, retried
\* whether it has been answered with 401, and target the bin chosen, in a set.
\* History: expired, a token expired since that 401; exact, no bin came or went
\* since the call began, and no total was wrong.
Hands == [phase : {"list", "act"}, page : 1 .. MaxPage, got : Seq(Entries), tok : Nat,
          retried : BOOLEAN, target : SUBSET Entries, expired : BOOLEAN, exact : BOOLEAN]
Fresh == [phase |-> "list", page |-> 1, got |-> <<>>, tok |-> NoToken,
          retried |-> FALSE, target |-> {}, expired |-> FALSE, exact |-> TRUE]

Outcomes == {"ok", "cleared", "refused", "not found", "dry run", "failed", "unauthorized"}

Init ==
    /\ token = [b \in Backends |-> NoToken]
    /\ valid = {} /\ issued = 0
    /\ bins = FirstBins /\ trash = FirstTrash
    /\ faults = 0
    /\ pc = [c \in Calls |-> "idle"]
    /\ req = [c \in Calls |-> Refused(NoPrefixes)]
    /\ backend = [c \in Calls |-> Bot]
    /\ local = [c \in Calls |-> Fresh]
    /\ outcome = [c \in Calls |-> "none"]
    /\ rejected = 0 /\ deleted = {}
    /\ cleared = [c \in Calls |-> 0]
--------------------------------------------------------------------------
(* The storage.  Nothing of this is in the repository.                       *)

\* A token that no one has any more may as well stay valid.
InUse == {token[b] : b \in Backends} \cup {local[c].tok : c \in Calls}

Expire ==
    /\ faults < MaxFaults
    /\ \E t \in valid \cap InUse : valid' = valid \ {t}
    /\ faults' = faults + 1
    /\ local' = [c \in Calls |-> [local[c] EXCEPT !.expired = local[c].retried]]
    /\ UNCHANGED <<token, issued, bins, trash, pc, req, backend, outcome, ghost>>

Changed ==
    /\ faults < MaxFaults
    /\ faults' = faults + 1
    /\ local' = [c \in Calls |->
                   [local[c] EXCEPT !.exact = @ /\ pc[c] \in {"idle", "done"}]]
    /\ UNCHANGED <<token, valid, issued, pc, req, backend, outcome, ghost>>

CreateBin ==
    /\ Changed
    /\ NewBin \notin ToSet(bins)
    /\ bins' = <<NewBin>> \o bins
    /\ UNCHANGED trash

RemoveBin ==
    /\ Changed
    /\ \E i \in DOMAIN bins :
          /\ bins' = RemoveAt(bins, i)
          /\ trash' = {f \in trash : f.bin # bins[i].id}

\* What the storage lists for a request, and what it clears for a call.
Listing(c)  == IF req[c].kind \in {"quotas", "usage"} THEN Quotas ELSE bins
Doomed(c)   == {f \in trash : /\ \E b \in local[c].target : f.bin = b.id
                              /\ PathHasPrefix(f.path, NormalizeQuotaPath(req[c].path))}
Clears(c)   == local[c].phase = "act" /\ req[c].kind = "clear"

\* The storage carries out the last request of a call.
Effect(c) ==
    /\ trash' = IF Clears(c) THEN trash \ Doomed(c) ELSE trash
    /\ deleted' = IF Clears(c)
                  THEN deleted \cup {[file |-> f, req |-> req[c]] : f \in Doomed(c)}
                  ELSE deleted
    /\ cleared' = IF Clears(c) THEN [cleared EXCEPT ![c] = @ + 1] ELSE cleared
--------------------------------------------------------------------------
(* The calls.                                                                *)

\* All but the overview start with a listing.
Lists(kind) == kind # "info"

\* The call returns.
End(c, result) ==
    /\ pc' = [pc EXCEPT ![c] = "done"]
    /\ outcome' = [outcome EXCEPT ![c] = result]
    /\ local' = [local EXCEPT ![c] = Fresh]
    /\ req' = [req EXCEPT ![c] = Refused(NoPrefixes)]

\* It goes on from there, with that in hand.
Go(c, where, hand) ==
    /\ pc' = [pc EXCEPT ![c] = where]
    /\ local' = [local EXCEPT ![c] = hand]
    /\ UNCHANGED <<req, outcome>>

\* A command or a page: what it cannot ask is refused before any request.
Start(c, r, b) ==
    /\ pc[c] = "idle"
    /\ backend' = [backend EXCEPT ![c] = b]
    /\ IF r.kind \in {"refused", "usage text"}
          \/ (r.kind \in {"files", "clear"} /\ r.path = Empty)
       THEN End(c, "refused")
       ELSE /\ pc' = [pc EXCEPT ![c] = "login"]
            /\ req' = [req EXCEPT ![c] = r]
            /\ local' = [local EXCEPT ![c].phase = IF Lists(r.kind) THEN "list" ELSE "act"]
            /\ UNCHANGED outcome
    /\ UNCHANGED <<token, server, ghost>>

StartAny(c) == \/ \E r \in BotRequests[c] : Start(c, r, Bot)
               \/ \E r \in CliRequests[c] : Start(c, r, c)

Send(c, t) == Go(c, "send", [local[c] EXCEPT !.tok = t])

\* Mutant of UseToken: whether there is one is not looked at.
UseTokenUnchecked(c) ==
    /\ pc[c] = "login"
    /\ Send(c, token[backend[c]])
    /\ UNCHANGED <<token, server, backend, ghost>>

\* ensureToken with a token in the cache.
UseToken(c) ==
    /\ pc[c] = "login" /\ token[backend[c]] # NoToken
    /\ Send(c, token[backend[c]])
    /\ UNCHANGED <<token, server, backend, ghost>>

\* Mutant of Login: the token is used once and not kept.
LoginUncached(c) ==
    /\ pc[c] = "login" /\ token[backend[c]] = NoToken
    /\ issued' = issued + 1
    /\ valid' = valid \cup {issued'}
    /\ Send(c, issued')
    /\ UNCHANGED <<token, bins, trash, faults, backend, ghost>>

\* ensureToken without one: the whole login is one step, the mutex is held.
Login(c) ==
    /\ pc[c] = "login" /\ token[backend[c]] = NoToken
    /\ issued' = issued + 1
    /\ valid' = valid \cup {issued'}
    /\ token' = [token EXCEPT ![backend[c]] = issued']
    /\ Send(c, issued')
    /\ UNCHANGED <<bins, trash, faults, backend, ghost>>

LoginFails(c) ==
    /\ pc[c] = "login" /\ token[backend[c]] = NoToken
    /\ End(c, "failed")
    /\ UNCHANGED <<token, server, backend, ghost>>

Accepted(c) == pc[c] = "send" /\ local[c].tok \in valid
Works(c)    == Accepted(c) /\ local[c].target \subseteq ToSet(bins)

\* The storage may have done what a request asks, whatever becomes of the answer.
MayHaveWorked(c) ==
    /\ pc[c] = "send"
    /\ UNCHANGED <<trash, deleted, cleared>> \/ (Works(c) /\ Effect(c))

\* Mutant of Fails: an answer that is lost is a reason to try again too.
FailsAndRetries(c) ==
    /\ MayHaveWorked(c)
    /\ IF local[c].retried THEN End(c, "failed")
       ELSE Go(c, "login", [local[c] EXCEPT !.retried = TRUE])
    /\ UNCHANGED <<token, valid, issued, bins, faults, backend, rejected>>

\* The request never arrives, is answered with an error or cannot be read, or
\* the storage does what it asks and the answer is lost.
Fails(c) ==
    /\ MayHaveWorked(c)
    /\ End(c, "failed")
    /\ UNCHANGED <<token, valid, issued, bins, faults, backend, rejected>>

\* authedGet and authedPost: the first 401 drops the token, the second is an error.
Unauthorized(c) ==
    /\ pc[c] = "send" /\ local[c].tok \notin valid
    /\ rejected' = rejected + 1
    /\ IF local[c].retried
       THEN End(c, "unauthorized")
       ELSE Go(c, "drop", [local[c] EXCEPT !.retried = TRUE, !.expired = FALSE])
    /\ UNCHANGED <<token, server, backend, deleted, cleared>>

\* Mutant of DropToken: the request is sent again with what is in the cache.
KeepToken(c) ==
    /\ pc[c] = "drop"
    /\ Go(c, "login", local[c])
    /\ UNCHANGED <<token, server, backend, ghost>>

\* Whatever is in the cache by now is dropped, a token just obtained included.
DropToken(c) ==
    /\ pc[c] = "drop"
    /\ token' = [token EXCEPT ![backend[c]] = NoToken]
    /\ Go(c, "login", local[c])
    /\ UNCHANGED <<server, backend, ghost>>

\* The page a call gets, and whether it asks for another.
Batch(c) == SubSeq(Listing(c), (local[c].page - 1) * PerPage + 1,
                   IF local[c].page * PerPage < Len(Listing(c))
                   THEN local[c].page * PerPage ELSE Len(Listing(c)))

\* Mutant of LastPage: the total is trusted.
LastPageTrusting(total, all, batch) == total = 0 \/ Len(all) >= total

LastPage(total, all, batch) == total = 0 \/ Len(all) >= total \/ batch = <<>>

NextPage(n) == IF n < MaxPage THEN n + 1 ELSE n

\* What a call does with the listing.  ListQuotas and ListRecycles return it,
\* DirUsage looks the path up, ListRecycleFiles and ClearRecycleFiles pick a bin;
\* only a clear that is confirmed has to be for a user's directory.
Listed(c, all, exact) ==
    LET clean  == NormalizeQuotaPath(req[c].path)
        chosen == PickRecycle(all, clean)
    IN  CASE req[c].kind \in {"quotas", "recycles"} -> End(c, "ok")
          [] req[c].kind = "usage" ->
                End(c, IF \E q \in ToSet(all) : NormalizeQuotaPath(q.path) = clean
                       THEN "ok" ELSE "not found")
          [] req[c].kind \in {"files", "clear"} ->
                IF chosen = {} THEN End(c, "not found")
                ELSE IF req[c].kind = "clear" /\ req[c].dry THEN End(c, "dry run")
                ELSE IF req[c].kind = "clear" /\ ~CheckUserDirPath(clean, req[c].prefixes)
                THEN End(c, "refused")
                ELSE Go(c, "login", [Fresh EXCEPT !.phase = "act", !.target = chosen,
                                                  !.exact = exact])

\* One turn of the loop of listPaginated; the total may be missing or wrong.
GetPage(c) ==
    /\ Accepted(c) /\ local[c].phase = "list"
    /\ \E total \in {0, Len(Listing(c)), Len(Listing(c)) + 1} :
          LET batch == Batch(c)
              all   == local[c].got \o batch
              exact == local[c].exact /\ total = Len(Listing(c))
          IN  IF LastPage(total, all, batch) THEN Listed(c, all, exact)
              ELSE Go(c, "login", [Fresh EXCEPT !.page = NextPage(local[c].page),
                                                !.got = all, !.exact = exact])
    /\ UNCHANGED <<token, server, backend, ghost>>

\* The last request succeeds: the overview, the files, or the clear.
Act(c) ==
    /\ Works(c) /\ local[c].phase = "act"
    /\ Effect(c)
    /\ End(c, IF Clears(c) THEN "cleared" ELSE "ok")
    /\ UNCHANGED <<token, valid, issued, bins, faults, backend, rejected>>
--------------------------------------------------------------------------
CallStep(c) ==
    \/ UseToken(c) \/ Login(c) \/ LoginFails(c) \/ Fails(c)
    \/ Unauthorized(c) \/ DropToken(c) \/ GetPage(c) \/ Act(c)

Next ==
    \/ Expire \/ CreateBin \/ RemoveBin
    \/ \E c \in Calls : StartAny(c) \/ CallStep(c)

Spec == Init /\ [][Next]_vars

\* Every request has a timeout and no goroutine waits for another but for the
\* mutex, so of the calls that can go on some one does.
FairSpec == Spec /\ WF_vars(\E c \in Calls : CallStep(c))
--------------------------------------------------------------------------
\* Each variable has its shape, and a request that is under way carries a
\* token the storage issued (ensureToken never returns an empty one).
TypeOK ==
    /\ issued \in Nat /\ token \in [Backends -> 0 .. issued]
    /\ valid \subseteq 1 .. issued
    /\ bins \in Seq(Entries) /\ trash \subseteq TrashFiles
    /\ faults \in 0 .. MaxFaults
    /\ pc \in [Calls -> {"idle", "login", "send", "drop", "done"}]
    /\ req \in [Calls -> Requests]
    /\ backend \in [Calls -> Backends] /\ \A c \in Calls : backend[c] \in {Bot, c}
    /\ local \in [Calls -> Hands]
    /\ \A c \in Calls :
          /\ local[c].tok <= issued
          /\ pc[c] = "send" => local[c].tok # NoToken
    /\ outcome \in [Calls -> Outcomes \cup {"none"}]
    /\ rejected \in Nat
    /\ deleted \subseteq [file : TrashFiles, req : Requests]
    /\ cleared \in [Calls -> Nat]

\* What a call reports of a clear is what happened: done once when it says so,
\* not at all when it was refused, previewed or turned away with 401 twice.  A
\* call that failed leaves it open, but even the retry never clears twice.
ClearedAsReported ==
    \A c \in Calls :
        /\ cleared[c] <= 1
        /\ outcome[c] = "cleared" => cleared[c] = 1
        /\ outcome[c] \notin {"cleared", "failed"} => cleared[c] = 0

\* No deleted file is lost for good but under a user's directory, below the path
\* of a clear that was confirmed (the safety rule of ClearRecycleFiles).
ClearsWereAskedFor ==
    \A d \in deleted :
        LET r == d.req IN
        /\ r.kind = "clear" /\ ~r.dry
        /\ PathHasPrefix(d.file.path, NormalizeQuotaPath(r.path))
        /\ \E scope \in {"private", "public"} :
              /\ r.prefixes[scope] # Empty
              /\ Len(NormalizeQuotaPath(r.path)) > Len(NormalizeQuotaPath(r.prefixes[scope]))
              /\ PathHasPrefix(d.file.path, NormalizeQuotaPath(r.prefixes[scope]))

\* While no bin comes or goes and the totals are right, the bin a call acts on
\* covers its path, and no other bin of the storage that covers it is deeper.
MostSpecificBin ==
    \A c \in Calls :
        (local[c].target # {} /\ local[c].exact) =>
            LET clean == NormalizeQuotaPath(req[c].path)
                covering == {b \in ToSet(bins) : PathHasPrefix(clean, NormalizeQuotaPath(b.path))}
            IN  /\ local[c].target \subseteq covering
                /\ \A b \in local[c].target, other \in covering :
                      Len(NormalizeQuotaPath(other.path)) <= Len(NormalizeQuotaPath(b.path))

\* A request that was answered with 401 is not answered so a second time unless a
\* token expired in between: what it carries now was obtained since, whatever the
\* other calls have dropped.
RetryIsFresh ==
    \A c \in Calls :
        (pc[c] = "send" /\ local[c].retried /\ local[c].tok \notin valid) => local[c].expired

\* Every login but the first of a backend is paid for by a request that was
\* answered with 401: calls do not log in for nothing.
LoginsArePaid ==
    issued <= rejected + 1 + Cardinality({c \in Calls : backend[c] = c})

\* Every call ends, whatever totals the storage reports: no moment is the last
\* at which none is under way.
EveryCallReturns ==
    []<>(\A c \in Calls : pc[c] \in {"idle", "done"})
==========================================================================
