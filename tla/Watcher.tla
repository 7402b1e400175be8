------------------------------ MODULE Watcher ------------------------------
(***************************************************************************)
(* The watcher goroutine (internal/watcher/docker.go) between the Docker   *)
(* daemon and the processors, with the health flag it shares with main     *)
(* (cmd/companion/main.go) and the health server.                          *)
(* How main comes to start it, and what becomes of the process, is in      *)
(* CompanionProcess.                                                       *)
(*                                                                         *)
(* The state of all containers is a version number.  A listing sees the    *)
(* version of the moment; a processor is given the version of the listing  *)
(* SyncAll made before calling it.  start, die and destroy are announced   *)
(* on the event stream; create is not, but shows in the list (All: true).  *)
(*                                                                         *)
(* The Docker client delivers the events it has read, then one error, then *)
(* closes the error channel.  From then on `case err := <-errs` receives   *)
(* nil at once and does nothing, over and over: those receives change no   *)
(* state and are the stuttering steps of this specification.               *)
(***************************************************************************)
EXTENDS Naturals

CONSTANTS
    Processors,   \* how many processors main assembled; it exits if none
    MaxChanges,   \* bound: changes of the containers
    MaxOutages,   \* bound: losses of the daemon or of the event stream
    MaxFailures   \* bound: ContainerList calls that fail while the daemon is up

ASSUME ConstantsOK ==
    /\ Processors \in Nat \ {0}
    /\ MaxChanges \in Nat /\ MaxOutages \in Nat /\ MaxFailures \in Nat

VARIABLES
    world,      \* the version of the containers
    announced,  \* the last version announced on the stream while it was open
    up,         \* the daemon answers
    stream,     \* the event stream, as errs and msgs show it
    events,     \* messages sent and not received yet
    tick,       \* a tick waits in ticker.C, which holds at most one
    w,          \* where the watcher goroutine is
    seen,       \* the version of its last listing
    turn,       \* the processor it calls next
    given,      \* given[p]: the version processor p was last called with
    isHealthy,  \* the atomic flag behind /health
    main,       \* the main goroutine
    spent       \* how much of the bounds on faults is used up

dockerVars == <<world, announced, up, stream, events>>
vars == <<world, announced, up, stream, events, tick, w, seen, turn, given,
          isHealthy, main, spent>>

TypeOK ==
    /\ world \in 0..MaxChanges /\ announced \in 0..MaxChanges
    /\ up \in BOOLEAN
    /\ stream \in {"none", "open", "broken", "closed"}
    /\ events \in 0..MaxChanges
    /\ tick \in BOOLEAN
    /\ w \in {"list", "process", "subscribe", "select", "sleep"}
    /\ seen \in 0..MaxChanges
    /\ turn \in 1..Processors
    /\ given \in [1..Processors -> 0..MaxChanges]
    /\ isHealthy \in BOOLEAN
    /\ main \in {"booting", "running", "stopping", "exited"}
    /\ spent \in [outages : 0..MaxOutages, failures : 0..MaxFailures]

\* main assumes health; the watcher's first act will be a SyncAll.
Init ==
    /\ world = 0 /\ announced = 0
    /\ up \in BOOLEAN
    /\ stream = "none" /\ events = 0 /\ tick = FALSE
    /\ w = "list"
    /\ seen = 0 /\ turn = 1 /\ given = [p \in 1..Processors |-> 0]
    /\ isHealthy = TRUE
    /\ main = "booting"
    /\ spent = [outages |-> 0, failures |-> 0]

-----------------------------------------------------------------------------
\* The watcher goroutine runs.
Alive == main \in {"running", "stopping"}

\* Where SyncAll returns to: the start of Start, or its loop.
AfterSync == IF stream = "none" THEN "subscribe" ELSE "select"

\* Bug: nothing says that the daemon is back.
BugListOK ==
    /\ up
    /\ seen' = world
    /\ w' = "process"
    /\ turn' = 1
    /\ UNCHANGED <<isHealthy, spent>>

ListOK ==
    /\ up
    /\ seen' = world
    /\ isHealthy' = TRUE
    /\ w' = "process"
    /\ turn' = 1
    /\ UNCHANGED spent

\* Bug: a failed listing is only logged.
BugListFails ==
    /\ \/ ~up /\ UNCHANGED spent
       \/ /\ spent.failures < MaxFailures
          /\ spent' = [spent EXCEPT !.failures = @ + 1]
    /\ w' = AfterSync
    /\ UNCHANGED <<seen, turn, isHealthy>>

ListFails ==
    /\ \/ ~up /\ UNCHANGED spent
       \/ /\ spent.failures < MaxFailures
          /\ spent' = [spent EXCEPT !.failures = @ + 1]
    /\ isHealthy' = FALSE
    /\ w' = AfterSync
    /\ UNCHANGED <<seen, turn>>

\* SyncAll up to the loop over the processors.
List ==
    /\ Alive /\ w = "list"
    /\ ListOK \/ ListFails
    /\ UNCHANGED <<dockerVars, tick, given, main>>

\* Bug: the loop runs one processor too far.
BugCallProcessor ==
    /\ Alive /\ w = "process"
    /\ given' = [given EXCEPT ![turn] = seen]
    /\ turn' = turn + 1
    /\ w' = IF turn = Processors THEN AfterSync ELSE "process"
    /\ UNCHANGED <<dockerVars, tick, seen, isHealthy, main, spent>>

\* SyncAll calls the processors one after the other; an error is logged.
CallProcessor ==
    /\ Alive /\ w = "process"
    /\ given' = [given EXCEPT ![turn] = seen]
    /\ IF turn = Processors
       THEN w' = AfterSync /\ UNCHANGED turn
       ELSE turn' = turn + 1 /\ UNCHANGED w
    /\ UNCHANGED <<dockerVars, tick, seen, isHealthy, main, spent>>

\* NewTicker and Events, after the first SyncAll.
Subscribe ==
    /\ Alive /\ w = "subscribe"
    /\ stream' = IF up THEN "open" ELSE "broken"
    /\ w' = "select"
    /\ UNCHANGED <<world, announced, up, events, tick, seen, turn, given, isHealthy,
                   main, spent>>

ReceiveEvent ==
    /\ Alive /\ w = "select"
    /\ events > 0
    /\ events' = events - 1
    /\ w' = "list"
    /\ UNCHANGED <<world, announced, up, stream, tick, seen, turn, given, isHealthy,
                   main, spent>>

\* Bug: the tick is received and dropped.
BugReceiveTick ==
    /\ Alive /\ w = "select"
    /\ tick
    /\ tick' = FALSE
    /\ UNCHANGED <<dockerVars, w, seen, turn, given, isHealthy, main, spent>>

ReceiveTick ==
    /\ Alive /\ w = "select"
    /\ tick
    /\ tick' = FALSE
    /\ w' = "list"
    /\ UNCHANGED <<dockerVars, seen, turn, given, isHealthy, main, spent>>

\* The one error of the stream, after its last event; nothing subscribes again.
ReceiveError ==
    /\ Alive /\ w = "select"
    /\ stream = "broken" /\ events = 0
    /\ stream' = "closed"
    /\ isHealthy' = FALSE
    /\ w' = "sleep"
    /\ UNCHANGED <<world, announced, up, events, tick, seen, turn, given, main, spent>>

WakeUp ==
    /\ Alive /\ w = "sleep"
    /\ w' = "select"
    /\ UNCHANGED <<dockerVars, tick, seen, turn, given, isHealthy, main, spent>>

Watch ==
    \/ List \/ CallProcessor \/ Subscribe
    \/ ReceiveEvent \/ ReceiveTick \/ ReceiveError \/ WakeUp

\* The runtime's ticker, from NewTicker on; a second tick is dropped.
Tick ==
    /\ Alive /\ stream # "none"
    /\ ~tick
    /\ tick' = TRUE
    /\ UNCHANGED <<dockerVars, w, seen, turn, given, isHealthy, main, spent>>

-----------------------------------------------------------------------------
\* The daemon: a container is created; one starts, dies or is destroyed.
Create ==
    /\ up /\ world < MaxChanges
    /\ world' = world + 1
    /\ UNCHANGED <<announced, up, stream, events>>

Announce ==
    /\ up /\ world < MaxChanges
    /\ world' = world + 1
    /\ IF stream = "open"
       THEN announced' = world + 1 /\ events' = events + 1
       ELSE UNCHANGED <<announced, events>>
    /\ UNCHANGED <<up, stream>>

\* The stream breaks, alone or with the daemon; what was under way may be lost.
Lose(daemon) ==
    /\ spent.outages < MaxOutages
    /\ spent' = [spent EXCEPT !.outages = @ + 1]
    /\ up' = (up /\ ~daemon)
    /\ stream' = IF stream = "open" THEN "broken" ELSE stream
    /\ events' \in 0..events
    /\ UNCHANGED <<world, announced>>

Recover ==
    /\ ~up
    /\ up' = TRUE
    /\ UNCHANGED <<world, announced, stream, events>>

Docker ==
    /\ \/ (Create \/ Announce \/ Recover) /\ UNCHANGED spent
       \/ up /\ Lose(TRUE)
       \/ stream = "open" /\ Lose(FALSE)
    /\ UNCHANGED <<tick, w, seen, turn, given, isHealthy, main>>

\* main on SIGTERM: the flag, then up to 5 s for the health server to stop.  The
\* watcher runs on: its context is context.Background().
Shutdown ==
    /\ main = "running"
    /\ main' = "stopping"
    /\ isHealthy' = FALSE
    /\ UNCHANGED <<dockerVars, tick, w, seen, turn, given, spent>>

Exit ==
    /\ main = "stopping"
    /\ main' = "exited"
    /\ UNCHANGED <<dockerVars, tick, w, seen, turn, given, isHealthy, spent>>

-----------------------------------------------------------------------------
\* An announced change is never lost silently: when the watcher waits on an open
\* stream with nothing left to receive and says it is healthy, every processor
\* has been called with that change or a later one.  (The SyncAll of an event
\* may fail; then the flag says so until a listing succeeds.)
FreshOrUnhealthy ==
    main = "running" /\ w = "select" /\ stream = "open" /\ events = 0 /\ isHealthy =>
        \A p \in 1..Processors : given[p] >= announced

\* Whatever was missed (events before the subscription, events of a stream that
\* broke and is never reopened, unannounced changes, failed listings), the ticks
\* bring every processor up to date once the daemon stays up.
CatchesUp ==
    <>[](main = "running" /\ up) => <>[](\A p \in 1..Processors : given[p] = world)

\* The flag ends up telling whether Docker answers, however listings, ticks and
\* the error of the stream are interleaved.
HealthFollowsDocker ==
    /\ <>[](main = "running" /\ ~up) => <>[]~isHealthy
    /\ <>[](main = "running" /\ up) => <>[]isHealthy
=============================================================================
