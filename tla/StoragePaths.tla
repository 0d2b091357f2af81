-------------------------- MODULE StoragePaths --------------------------
(* Paths of a Yanrong file system.  A raw path is the text between the       *)
(* slashes: "/a//b" is <<"", "a", "", "b">> and the empty text <<"">>.  A    *)
(* clean path is the sequence of its components, <<>> for the root.          *)
EXTENDS SequencesExt, Naturals

\* What may stand between two slashes: any string, three of them with a meaning.
Parts == {"", ".", ".."} \cup STRING
Texts == Seq(Parts)

Empty == <<"">>
Root  == <<"", "">>

\* Joining a component to a clean path, the way path.Clean reads them.
Step(clean, part) ==
    IF part \in {"", "."} THEN clean
    ELSE IF part # ".." THEN Append(clean, part)
    ELSE IF clean = <<>> THEN clean ELSE Front(clean)

\* normalizeQuotaPath.
NormalizeQuotaPath(raw) ==
    LET clean[i \in 0 .. Len(raw)] ==
            IF i = 0 THEN <<>> ELSE Step(clean[i - 1], raw[i])
    IN  clean[Len(raw)]

\* pathHasPrefix and pathStrictlyUnder, on clean paths.
PathHasPrefix(p, prefix)     == IsPrefix(prefix, p)
PathStrictlyUnder(p, prefix) == PathHasPrefix(p, prefix) /\ p # prefix

\* Where bin is the entry of the listing for path: of those that cover it, the
\* longest, and the first listed when several are as long.
IsBestAt(i, listing, clean) ==
    LET covers(j) == PathHasPrefix(clean, NormalizeQuotaPath(listing[j].path))
        size(j)   == Len(NormalizeQuotaPath(listing[j].path))
    IN  /\ i \in DOMAIN listing /\ covers(i)
        /\ \A j \in DOMAIN listing :
              covers(j) => size(j) < size(i) \/ (size(j) = size(i) /\ i <= j)

\* Mutant of PickRecycle: the first bin listed that covers the path.
PickFirst(listing, clean) ==
    {e \in ToSet(listing) : \E i \in DOMAIN listing :
        /\ e = listing[i]
        /\ PathHasPrefix(clean, NormalizeQuotaPath(e.path))
        /\ \A j \in 1 .. i - 1 :
              ~PathHasPrefix(clean, NormalizeQuotaPath(listing[j].path))}

\* pickRecycleForPath: the entry, in a set, or the empty set when none covers.
PickRecycle(listing, clean) ==
    {e \in ToSet(listing) : \E i \in DOMAIN listing :
        e = listing[i] /\ IsBestAt(i, listing, clean)}

\* Mutant of CheckUserDirPath: the prefix itself passes for a user directory.
CheckUserDirLoose(clean, prefixes) ==
    \E scope \in {"private", "public"} :
        /\ prefixes[scope] # Empty
        /\ PathHasPrefix(clean, NormalizeQuotaPath(prefixes[scope]))

\* checkUserDirPath: strictly under one of the prefixes that are configured.
CheckUserDirPath(clean, prefixes) ==
    \E scope \in {"private", "public"} :
        /\ prefixes[scope] # Empty
        /\ PathStrictlyUnder(clean, NormalizeQuotaPath(prefixes[scope]))

\* ResolveUserPath: the quota path of a user, or the empty text for an error.  The
\* joined path may be the root, a user ".." right under it, and is then asked for.
ResolveUserPath(user, scope, prefixes) ==
    LET which == IF scope = "" THEN "private" ELSE scope IN
    IF user = Empty \/ which \notin {"private", "public"} THEN Empty
    ELSE IF prefixes[which] = Empty THEN Empty
    ELSE LET clean == NormalizeQuotaPath(prefixes[which] \o user)
         IN  IF clean = <<>> THEN Root ELSE <<"">> \o clean
==========================================================================
