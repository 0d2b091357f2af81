------------------------- MODULE ConfigWatcher -------------------------
(* The configuration file and the goroutine that watches it: a poll that     *)
(* compares hashes, a SIGHUP that reloads without comparing, and one reload  *)
(* at a time that reads the file and then calls the callback.  What the      *)
(* callback does is a chain of steps that HotReload composes with this.      *)
EXTENDS FiniteSets

CONSTANTS
    Contents,   \* what the file may hold, up to what SHA-256 tells apart
    Invalid     \* contents that Load rejects, a missing file among them

ASSUME ContentsAssumption == Invalid \subseteq Contents /\ Invalid # Contents

Valid == Contents \ Invalid

VARIABLES
    disk,       \* the file
    lastHash,   \* Watcher.lastHash: the content it stands for
    sighup,     \* a signal waits in the channel of capacity one
    stage,      \* where the watcher goroutine is
    loaded      \* what the last Load that succeeded returned

watcherVars == <<disk, lastHash, sighup, stage, loaded>>

Stages == {"boot", "idle", "load", "clusters", "kube", "storages", "scheduler", "install"}

WatcherTypeOK ==
    /\ disk \in Contents
    /\ lastHash \in Contents
    /\ sighup \in BOOLEAN
    /\ stage \in Stages
    /\ loaded \in Valid

\* main has loaded the file, and has not built the watcher.
WatcherInit ==
    /\ disk \in Valid
    /\ lastHash = disk
    /\ sighup = FALSE
    /\ stage = "boot"
    /\ loaded = disk

\* Somebody replaces the file.
Edit(c) ==
    /\ disk' = c
    /\ UNCHANGED <<lastHash, sighup, stage, loaded>>

\* Until signal.Notify has been called a SIGHUP kills the process.
Signal ==
    /\ stage # "boot"
    /\ sighup' = TRUE
    /\ UNCHANGED <<disk, lastHash, stage, loaded>>

\* NewWatcher hashes what the file holds by then.
NewWatcher ==
    /\ stage = "boot"
    /\ stage' = "idle"
    /\ lastHash' = disk
    /\ UNCHANGED <<disk, sighup, loaded>>

\* The ticker: fileChanged remembers the new hash, then reload is called.  A
\* poll that finds no change does nothing.
TakeChange ==
    /\ stage = "idle" /\ disk # lastHash
    /\ lastHash' = disk
    /\ stage' = "load"
    /\ UNCHANGED <<disk, sighup, loaded>>

\* A signal reloads whatever the hash.
TakeSignal ==
    /\ stage = "idle" /\ sighup
    /\ sighup' = FALSE
    /\ stage' = "load"
    /\ UNCHANGED <<disk, lastHash, loaded>>

\* Mutant of Load: the error is not looked at.
LoadUnchecked ==
    /\ stage = "load"
    /\ loaded' = disk
    /\ stage' = "clusters"
    /\ UNCHANGED <<disk, lastHash, sighup>>

\* Load reads the file again, which may have changed since it was hashed.
Load ==
    /\ stage = "load" /\ disk \in Valid
    /\ loaded' = disk
    /\ stage' = "clusters"
    /\ UNCHANGED <<disk, lastHash, sighup>>

\* The old configuration stays.
LoadFails ==
    /\ stage = "load" /\ disk \in Invalid
    /\ stage' = "idle"
    /\ UNCHANGED <<disk, lastHash, sighup, loaded>>

\* One step of the callback.
Callback(from, to) ==
    /\ stage = from
    /\ stage' = to
    /\ UNCHANGED <<disk, lastHash, sighup, loaded>>
==========================================================================
