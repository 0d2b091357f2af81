-------------------------- MODULE InspectCron --------------------------
(* inspect.Scheduler: its goroutine installs the cron of the configuration   *)
(* it reads when it is first scheduled, a reload installs another, and each  *)
(* installation stops the cron before it.                                    *)
EXTENDS Naturals, FiniteSets

CONSTANTS
    Settings,   \* versions of the inspect section
    Enabled,    \* those with inspect.enabled
    NoCron      \* Scheduler.cron is nil

ASSUME SettingsAssumption == Enabled \subseteq Settings /\ NoCron \notin Settings

VARIABLES
    hasScheduler,   \* main built a Scheduler: inspection was enabled at startup
    schedCfg,       \* Scheduler.cfg, written with no lock
    starter,        \* where the goroutine of Start is
    startCfg,       \* what it read
    cron,           \* Scheduler.cron, by the settings it was installed from
    live            \* the cron goroutines that run, by their settings

cronVars == <<hasScheduler, schedCfg, starter, startCfg, cron, live>>

CronTypeOK ==
    /\ hasScheduler \in BOOLEAN
    /\ schedCfg \in Settings
    /\ starter \in {"none", "read", "install", "blocked"}
    /\ startCfg \in Settings
    /\ cron \in Enabled \cup {NoCron}
    /\ live \in [Enabled -> Nat]

CronInit(c) ==
    /\ hasScheduler = (c \in Enabled)
    /\ schedCfg = c
    /\ starter = IF c \in Enabled THEN "read" ELSE "none"
    /\ startCfg = c
    /\ cron = NoCron
    /\ live = [s \in Enabled |-> 0]

\* Mutant of Stopped: the cron that is replaced goes on.
StoppedNot == live

\* The goroutines left once the present cron, if there is one, has stopped.
Stopped == IF cron = NoCron THEN live ELSE [live EXCEPT ![cron] = @ - 1]

\* install, one critical section.  Load has parsed the schedule of an enabled
\* section with the parser AddFunc uses, so AddFunc does not fail.
Install(c) ==
    IF c \in Enabled
    THEN cron' = c /\ live' = [Stopped EXCEPT ![c] = @ + 1]
    ELSE cron' = NoCron /\ live' = Stopped

\* Start runs in a goroutine of its own: it reads cfg and then installs it.
StartReads ==
    /\ starter = "read"
    /\ starter' = "install"
    /\ startCfg' = schedCfg
    /\ UNCHANGED <<hasScheduler, schedCfg, cron, live>>

StartInstalls ==
    /\ starter = "install"
    /\ starter' = "blocked"
    /\ Install(startCfg)
    /\ UNCHANGED <<hasScheduler, schedCfg, startCfg>>

\* Scheduler.Reload: the assignment, and the installation.
ReloadCfg(c) ==
    /\ schedCfg' = c
    /\ UNCHANGED <<hasScheduler, starter, startCfg, cron, live>>

ReloadInstall(c) ==
    /\ Install(c)
    /\ UNCHANGED <<hasScheduler, schedCfg, starter, startCfg>>
==========================================================================
