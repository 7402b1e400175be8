-------------------------- MODULE CompanionProcess --------------------------
(***************************************************************************)
(* The process (cmd/companion/main.go): main assembles the processors that *)
(* are configured, starts the watcher and waits for SIGTERM.  It exits or  *)
(* panics on the way when a provider's API is down or its configuration is *)
(* wrong, may crash at any time, and is started again by the container     *)
(* runtime (restart: unless-stopped), with nothing of its state left.      *)
(***************************************************************************)
EXTENDS Watcher, Sequences

CONSTANT MaxFaults   \* bound: crashes, and outages of the providers' APIs

ASSUME MaxFaultsOK == MaxFaults \in Nat

VARIABLES
    config,      \* what the environment variables say
    stage,       \* how far main has come while it is booting
    processors,  \* those assembled so far
    apis,        \* the DNS providers answer Init's request for the zones
    faults       \* how much of the bound is used up

mainVars == <<config, stage, processors, apis, faults>>
allVars  == <<vars, mainVars>>

\* A provider is not asked for, lacks a variable (New returns nil), or is set up;
\* ticks: SYNC_INTERVAL is positive.
Provider == {"internal", "external", "monitor"}
Setting  == {"none", "unset", "set"}
Config   == [internal : Setting, external : Setting, monitor : Setting, ticks : BOOLEAN]

\* The providers set up, in main's order.
Wanted(c, p) == IF c[p] = "set" THEN <<p>> ELSE << >>
SetUp(c)     == Wanted(c, "internal") \o Wanted(c, "external") \o Wanted(c, "monitor")

\* Of the configurations, those with no provider set up or as many as Watcher has.
MainInit ==
    /\ Init
    /\ config \in {c \in Config : Len(SetUp(c)) \in {0, Processors}}
    /\ stage = "internal" /\ processors = << >>
    /\ apis \in BOOLEAN
    /\ faults = 0

-----------------------------------------------------------------------------
\* The process ends, and starts again unless the user stops it.
Die ==
    /\ main' = IF main = "stopping" THEN "exited" ELSE "booting"
    /\ stage' = "internal" /\ processors' = << >>
    /\ announced' = 0 /\ stream' = "none" /\ events' = 0 /\ tick' = FALSE
    /\ w' = "list" /\ seen' = 0 /\ turn' = 1
    /\ given' = [p \in 1..Processors |-> 0]
    /\ isHealthy' = TRUE
    /\ UNCHANGED <<world, up, spent, config, apis>>

\* Where main goes on after provider p.
After(p) == CASE p = "internal" -> "external" [] p = "external" -> "monitor"
             [] OTHER -> "watcher"

\* Bug: a provider whose Init fails is left out.
BugAssemble(p) ==
    /\ main = "booting" /\ stage = p
    /\ p = "monitor" => config[p] # "unset"
    /\ processors' = IF config[p] = "set" /\ (p = "monitor" \/ apis)
                     THEN Append(processors, p) ELSE processors
    /\ stage' = After(p)
    /\ UNCHANGED <<vars, config, apis, faults>>

\* A DNS provider that is set up is assembled once its Init succeeds; the initial
\* sync of a monitor provider may fail.
Assemble(p) ==
    /\ main = "booting" /\ stage = p
    /\ p # "monitor" => config[p] # "set" \/ apis
    /\ p = "monitor" => config[p] # "unset"
    /\ processors' = IF config[p] = "set" THEN Append(processors, p) ELSE processors
    /\ stage' = After(p)
    /\ UNCHANGED <<vars, config, apis, faults>>

\* Bug: main does not ask whether New returned nil for a DNS provider either.
BugAssembleFails(p) ==
    /\ main = "booting" /\ stage = p
    /\ \/ config[p] = "unset"
       \/ p # "monitor" /\ config[p] = "set" /\ ~apis
    /\ Die
    /\ UNCHANGED faults

\* os.Exit(1) when Init fails; the nil pointer New returns for a monitor lacking a
\* variable makes an interface that is not nil, and SyncState dereferences it.
AssembleFails(p) ==
    /\ main = "booting" /\ stage = p
    /\ IF p = "monitor" THEN config[p] = "unset" ELSE config[p] = "set" /\ ~apis
    /\ Die
    /\ UNCHANGED faults

NoProcessors ==
    /\ main = "booting" /\ stage = "watcher" /\ processors = << >>
    /\ Die
    /\ UNCHANGED faults

Start ==
    /\ main = "booting" /\ stage = "watcher" /\ processors # << >>
    /\ main' = "running"
    /\ UNCHANGED <<dockerVars, tick, w, seen, turn, given, isHealthy, spent, mainVars>>

\* The watcher's steps; NewTicker panics when SYNC_INTERVAL is not positive.
WatcherRuns ==
    /\ w = "subscribe" => config.ticks
    /\ Watch
    /\ UNCHANGED mainVars

TickerPanics ==
    /\ Alive /\ w = "subscribe" /\ ~config.ticks
    /\ Die
    /\ UNCHANGED faults

Process ==
    \/ \E p \in Provider : Assemble(p) \/ AssembleFails(p)
    \/ NoProcessors \/ Start \/ WatcherRuns \/ TickerPanics

-----------------------------------------------------------------------------
Crash ==
    /\ main \in {"booting", "running"}
    /\ faults < MaxFaults
    /\ faults' = faults + 1
    /\ Die

ApiChange ==
    /\ apis' = ~apis
    /\ faults' = IF apis THEN faults + 1 ELSE faults
    /\ faults' <= MaxFaults
    /\ UNCHANGED <<vars, config, stage, processors>>

\* SIGTERM before main waits for it.
StopEarly ==
    /\ main = "booting"
    /\ main' = "exited"
    /\ UNCHANGED <<dockerVars, tick, w, seen, turn, given, isHealthy, spent, mainVars>>

MainNext ==
    \/ Process
    \/ (Tick \/ Docker \/ Shutdown \/ Exit) /\ UNCHANGED mainVars
    \/ Crash \/ ApiChange \/ StopEarly

Spec == MainInit /\ [][MainNext]_allVars

\* The process is scheduled and restarted, the watcher's calls return, the ticker
\* ticks.  The daemon, the APIs, the containers and the user owe nothing.
FairSpec ==
    /\ Spec
    /\ WF_allVars(Process)
    /\ WF_allVars(Tick /\ UNCHANGED mainVars)

-----------------------------------------------------------------------------
\* However often the APIs fail and the process is started again: when main waits
\* for a signal, every provider that is set up is there, once and in order, and
\* the watcher does not run without one.
RunsWhatIsSetUp == Alive => processors = SetUp(config) /\ processors # << >>

\* With at least one provider set up and a positive sync interval (time.NewTicker
\* panics at any other), once the APIs of the DNS providers stay up the process ends
\* up running for good, unless it is stopped.
RunsInTheEnd ==
    SetUp(config) # << >> /\ config.ticks =>
        (<>[](apis /\ main # "exited") => <>[]Alive)

\* Through API outages and crashes a configuration whose monitor is set up or not
\* asked for ends up running.  While an API is down the process exits and is started
\* again (main, os.Exit(1)): the loop ends with the outage, and no sooner.
ComesUp == config.monitor # "unset" => RunsInTheEnd

\* "LoadConfig returns nil if core requirements are missing, skipping initialization"
\* (CONTRIBUTING.md:69): a monitor lacking a variable is skipped as well, and what
\* else is set up runs without it.  It is not so: see AssembleFails.
MonitorSkipped == config.monitor = "unset" => RunsInTheEnd
=============================================================================
