--------------------------- MODULE WatcherProofs ---------------------------
(***************************************************************************)
(* Proofs about the watcher, in a process that is assembled, crashes and   *)
(* is started again: for any configuration, number of processors, changes, *)
(* outages and failures.                                                   *)
(***************************************************************************)
EXTENDS CompanionProcess, SequenceTheorems, TLAPS

\* Only changes of the containers make events, so they never outnumber them.
EventsBounded == events <= world /\ announced <= world

\* Where the goroutine is when there is no stream, or none any more.
StreamPlaces ==
    /\ stream = "none" => w \in {"list", "process", "subscribe"} /\ announced = 0
    /\ w = "sleep" => stream = "closed"
    /\ w = "subscribe" => stream = "none"

\* Inside SyncAll, the processors called so far have the version of the listing,
\* and that is the newest one announced unless an event says otherwise.
SyncUnderWay ==
    w = "process" =>
        /\ \A p \in 1..Processors : p < turn => given[p] = seen
        /\ stream = "open" /\ events = 0 => seen >= announced

\* Before main starts it, the goroutine is where it will begin.
Unstarted == main = "booting" => w = "list"

FreshInv == TypeOK /\ EventsBounded /\ StreamPlaces /\ SyncUnderWay /\ FreshOrUnhealthy

Bounds == [outages : 0..MaxOutages, failures : 0..MaxFailures]

LEMMA InitFreshInv == Init => FreshInv
<1> SUFFICES ASSUME Init PROVE FreshInv
  OBVIOUS
<1>1. TypeOK
  <2>1. 0 \in 0..MaxChanges /\ 1 \in 1..Processors
    BY ConstantsOK DEF ConstantsOK
  <2>2. given \in [1..Processors -> 0..MaxChanges]
    BY <2>1 DEF Init
  <2>3. spent \in [outages : 0..MaxOutages, failures : 0..MaxFailures]
    BY ConstantsOK DEF Init, ConstantsOK
  <2> QED
    BY <2>1, <2>2, <2>3 DEF Init, TypeOK
<1>2. EventsBounded /\ StreamPlaces
  BY DEF Init, EventsBounded, StreamPlaces
<1>3. SyncUnderWay /\ FreshOrUnhealthy
  BY DEF Init, SyncUnderWay, FreshOrUnhealthy
<1> QED
  BY <1>1, <1>2, <1>3 DEF FreshInv

LEMMA SpentType ==
    ASSUME TypeOK,
           \/ UNCHANGED spent
           \/ spent.outages < MaxOutages /\ spent' = [spent EXCEPT !.outages = @ + 1]
           \/ spent.failures < MaxFailures /\ spent' = [spent EXCEPT !.failures = @ + 1]
    PROVE  spent' \in Bounds
<1>1. CASE UNCHANGED spent
  BY <1>1 DEF TypeOK, Bounds
<1>2. CASE spent.outages < MaxOutages /\ spent' = [spent EXCEPT !.outages = @ + 1]
  BY <1>2, ConstantsOK DEF TypeOK, Bounds, ConstantsOK
<1>3. CASE spent.failures < MaxFailures /\ spent' = [spent EXCEPT !.failures = @ + 1]
  BY <1>3, ConstantsOK DEF TypeOK, Bounds, ConstantsOK
<1> QED
  BY <1>1, <1>2, <1>3

LEMMA ListFresh == ASSUME FreshInv, List PROVE FreshInv'
<1>1. spent' \in Bounds
  <2>1. TypeOK
    BY DEF FreshInv
  <2> QED
    BY <2>1, SpentType DEF List, ListOK, ListFails
<1>2. CASE ListOK
  <2>1. TypeOK'
    BY <1>1, <1>2, ConstantsOK DEF FreshInv, TypeOK, List, ListOK, dockerVars, Bounds, ConstantsOK
  <2>2. (EventsBounded /\ StreamPlaces)'
    BY <1>2 DEF FreshInv, EventsBounded, StreamPlaces, List, ListOK, dockerVars
  <2>3. (SyncUnderWay /\ FreshOrUnhealthy)'
    BY <1>2, ConstantsOK DEF FreshInv, TypeOK, EventsBounded, SyncUnderWay,
       FreshOrUnhealthy, List, ListOK, dockerVars, ConstantsOK
  <2> QED
    BY <2>1, <2>2, <2>3 DEF FreshInv
<1>3. CASE ListFails
  <2>1. TypeOK'
    BY <1>1, <1>3 DEF FreshInv, TypeOK, List, ListFails, AfterSync, dockerVars, Bounds
  <2>2. (EventsBounded /\ StreamPlaces)'
    BY <1>3 DEF FreshInv, EventsBounded, StreamPlaces, List, ListFails, AfterSync, dockerVars
  <2>3. (SyncUnderWay /\ FreshOrUnhealthy)'
    BY <1>3 DEF SyncUnderWay, FreshOrUnhealthy, List, ListFails, AfterSync
  <2> QED
    BY <2>1, <2>2, <2>3 DEF FreshInv
<1> QED
  BY <1>2, <1>3 DEF List

LEMMA CallProcessorFresh == ASSUME FreshInv, CallProcessor PROVE FreshInv'
<1>1. TypeOK'
  BY ConstantsOK DEF FreshInv, TypeOK, CallProcessor, AfterSync, dockerVars, ConstantsOK
<1>2. (EventsBounded /\ StreamPlaces)'
  BY DEF FreshInv, EventsBounded, StreamPlaces, CallProcessor, AfterSync, dockerVars
<1>3. \A p \in 1..Processors : p <= turn => given'[p] = seen
  BY ConstantsOK DEF FreshInv, TypeOK, SyncUnderWay, CallProcessor, ConstantsOK
<1>4. SyncUnderWay'
  BY <1>3, ConstantsOK
  DEF FreshInv, TypeOK, SyncUnderWay, CallProcessor, AfterSync, dockerVars, ConstantsOK
<1>5. FreshOrUnhealthy'
  BY <1>3, ConstantsOK
  DEF FreshInv, TypeOK, SyncUnderWay, FreshOrUnhealthy, CallProcessor, dockerVars, ConstantsOK
<1> QED
  BY <1>1, <1>2, <1>4, <1>5 DEF FreshInv

LEMMA ReceiveFresh ==
    ASSUME FreshInv,
           Subscribe \/ ReceiveEvent \/ ReceiveTick \/ ReceiveError \/ WakeUp \/ Tick
    PROVE  FreshInv'
<1>1. CASE Subscribe
  BY <1>1 DEF Subscribe, FreshInv, TypeOK, EventsBounded, StreamPlaces, SyncUnderWay,
     FreshOrUnhealthy
<1>2. CASE ReceiveEvent
  <2>1. TypeOK' /\ EventsBounded'
    BY <1>2, ConstantsOK DEF ReceiveEvent, FreshInv, TypeOK, EventsBounded, ConstantsOK
  <2>2. StreamPlaces' /\ SyncUnderWay' /\ FreshOrUnhealthy'
    BY <1>2 DEF ReceiveEvent, FreshInv, StreamPlaces, SyncUnderWay, FreshOrUnhealthy
  <2> QED
    BY <2>1, <2>2 DEF FreshInv
<1>3. CASE ReceiveTick
  BY <1>3 DEF ReceiveTick, FreshInv, TypeOK, EventsBounded,
     StreamPlaces, SyncUnderWay, FreshOrUnhealthy, dockerVars
<1>6. CASE Tick
  BY <1>6 DEF Tick, FreshInv, TypeOK, EventsBounded,
     StreamPlaces, SyncUnderWay, FreshOrUnhealthy, dockerVars
<1>4. CASE ReceiveError
  BY <1>4 DEF ReceiveError, FreshInv, TypeOK, EventsBounded,
     StreamPlaces, SyncUnderWay, FreshOrUnhealthy
<1>5. CASE WakeUp
  BY <1>5 DEF WakeUp, FreshInv, TypeOK, EventsBounded,
     StreamPlaces, SyncUnderWay, FreshOrUnhealthy, dockerVars
<1> QED
  BY <1>1, <1>2, <1>3, <1>4, <1>5, <1>6

LEMMA DockerFresh == ASSUME FreshInv, Docker PROVE FreshInv'
<1>1. spent' \in Bounds
  <2>1. TypeOK
    BY DEF FreshInv
  <2> QED
    BY <2>1, SpentType DEF Docker, Lose
<1>2. CASE Create
  BY <1>1, <1>2, ConstantsOK DEF Docker, Create, FreshInv, TypeOK,
     EventsBounded, StreamPlaces, SyncUnderWay, FreshOrUnhealthy, Bounds, ConstantsOK
<1>5. CASE Announce
  <2>1. CASE stream = "open"
    BY <1>1, <1>5, <2>1, ConstantsOK DEF Docker, Announce, FreshInv, TypeOK,
       EventsBounded, StreamPlaces, SyncUnderWay, FreshOrUnhealthy, Bounds, ConstantsOK
  <2>2. CASE stream # "open"
    BY <1>1, <1>5, <2>2, ConstantsOK DEF Docker, Announce, FreshInv, TypeOK,
       EventsBounded, StreamPlaces, SyncUnderWay, FreshOrUnhealthy, Bounds, ConstantsOK
  <2> QED
    BY <2>1, <2>2
<1>3. CASE Recover
  BY <1>1, <1>3 DEF Docker, Recover, FreshInv, TypeOK, EventsBounded, StreamPlaces,
     SyncUnderWay, FreshOrUnhealthy, Bounds
<1>4. CASE \E daemon \in BOOLEAN : Lose(daemon)
  BY <1>1, <1>4, ConstantsOK DEF Docker, Lose, FreshInv, TypeOK, EventsBounded,
     StreamPlaces, SyncUnderWay, FreshOrUnhealthy, Bounds, ConstantsOK
<1> QED
  BY <1>2, <1>3, <1>4, <1>5 DEF Docker

\* A process that starts again has nothing left that could be out of date.
LEMMA DieFresh == ASSUME FreshInv, Die PROVE FreshInv'
<1>1. TypeOK'
  <2>1. 0 \in 0..MaxChanges /\ 1 \in 1..Processors
    BY ConstantsOK DEF ConstantsOK
  <2>2. given' \in [1..Processors -> 0..MaxChanges]
    BY <2>1 DEF Die
  <2> QED
    BY <2>1, <2>2 DEF Die, FreshInv, TypeOK
<1>2. EventsBounded'
  BY DEF Die, FreshInv, TypeOK, EventsBounded
<1>3. (StreamPlaces /\ SyncUnderWay /\ FreshOrUnhealthy)'
  BY DEF Die, StreamPlaces, SyncUnderWay, FreshOrUnhealthy
<1> QED
  BY <1>1, <1>2, <1>3 DEF FreshInv

LEMMA StepUnstarted == Unstarted /\ [MainNext]_allVars => Unstarted'
<1> SUFFICES ASSUME Unstarted, [MainNext]_allVars, main' = "booting" PROVE w' = "list"
  BY DEF Unstarted
<1>1. Watch => main' = main /\ main # "booting"
  BY DEF Watch, List, CallProcessor, Subscribe, ReceiveEvent, ReceiveTick, ReceiveError,
     WakeUp, Alive
<1>2. Die => w' = "list"
  BY DEF Die
<1>3. ASSUME NEW p \in Provider, Assemble(p) \/ AssembleFails(p)
      PROVE  Die \/ UNCHANGED <<main, w>>
  BY <1>3 DEF Assemble, AssembleFails, vars
<1>4. Process => Die \/ UNCHANGED <<main, w>>
  BY <1>1, <1>3 DEF Process, NoProcessors, Start, WatcherRuns, TickerPanics
<1>5. Tick \/ Docker => UNCHANGED <<main, w>>
  BY DEF Tick, Docker
<1>6. ~Shutdown /\ ~Exit /\ ~StopEarly
  BY DEF Shutdown, Exit, StopEarly
<1> QED
  BY <1>2, <1>4, <1>5, <1>6 DEF MainNext, Crash, ApiChange, allVars, vars, Unstarted

LEMMA StepFreshInv == FreshInv /\ Unstarted /\ [MainNext]_allVars => FreshInv'
<1> SUFFICES ASSUME FreshInv, Unstarted, [MainNext]_allVars PROVE FreshInv'
  OBVIOUS
<1>1. CASE Shutdown \/ Exit
  BY <1>1 DEF Shutdown, Exit, FreshInv, TypeOK, EventsBounded, StreamPlaces,
     SyncUnderWay, FreshOrUnhealthy, dockerVars
<1>2. CASE UNCHANGED vars
  BY <1>2 DEF vars, FreshInv, TypeOK, EventsBounded, StreamPlaces, SyncUnderWay,
     FreshOrUnhealthy
<1>3. CASE Start
  BY <1>3 DEF Start, Unstarted, FreshInv, TypeOK, EventsBounded, StreamPlaces, SyncUnderWay,
     FreshOrUnhealthy, dockerVars
<1>4. CASE StopEarly
  BY <1>4 DEF StopEarly, FreshInv, TypeOK, EventsBounded, StreamPlaces, SyncUnderWay,
     FreshOrUnhealthy, dockerVars
<1>5. CASE Watch
  BY <1>5, ListFresh, CallProcessorFresh, ReceiveFresh DEF Watch
<1>6. CASE Tick
  BY <1>6, ReceiveFresh
<1>7. CASE Docker
  BY <1>7, DockerFresh
<1>8. CASE Die
  BY <1>8, DieFresh
<1>9. CASE Process
  <2>1. ASSUME NEW p \in Provider, Assemble(p) PROVE UNCHANGED vars
    BY <2>1 DEF Assemble
  <2>2. ASSUME NEW p \in Provider, AssembleFails(p) PROVE Die
    BY <2>2 DEF AssembleFails
  <2> QED
    BY <1>2, <1>3, <1>5, <1>8, <1>9, <2>1, <2>2
    DEF Process, NoProcessors, WatcherRuns, TickerPanics
<1> QED
  BY <1>1, <1>2, <1>4, <1>6, <1>7, <1>8, <1>9
  DEF MainNext, Crash, ApiChange, allVars

\* Every reachable state of the watcher is well typed; no tick, event or version
\* is ever counted twice.
THEOREM WatcherTypeCorrect == Spec => []TypeOK
<1>1. FreshInv => TypeOK
  BY DEF FreshInv
<1>2. MainInit => FreshInv /\ Unstarted
  BY InitFreshInv DEF MainInit, Init, Unstarted
<1> QED
  BY <1>1, <1>2, StepFreshInv, StepUnstarted, PTL DEF Spec

\* Whatever fails and however listings, events and outages interleave: a watcher
\* that waits on an open stream and says it is healthy has told every processor
\* of every announced change.
THEOREM NoChangeLostSilently == Spec => []FreshOrUnhealthy
<1>1. FreshInv => FreshOrUnhealthy
  BY DEF FreshInv
<1>2. MainInit => FreshInv /\ Unstarted
  BY InitFreshInv DEF MainInit, Init, Unstarted
<1> QED
  BY <1>1, <1>2, StepFreshInv, StepUnstarted, PTL DEF Spec

-----------------------------------------------------------------------------
\* What main has assembled when it comes to a stage: the providers before it that
\* are set up.
Before(c, s) ==
    CASE s = "internal" -> << >>
      [] s = "external" -> Wanted(c, "internal")
      [] s = "monitor"  -> Wanted(c, "internal") \o Wanted(c, "external")
      [] OTHER          -> SetUp(c)

MainType == config \in Config /\ stage \in Provider \cup {"watcher"}

AssemblyInv ==
    /\ MainType
    /\ processors = Before(config, stage)
    /\ Alive => stage = "watcher" /\ processors # << >>

\* Appending what is wanted next is all that a stage does.
LEMMA AssembleNext ==
    ASSUME NEW c, NEW p \in Provider
    PROVE  Before(c, After(p)) =
               IF c[p] = "set" THEN Append(Before(c, p), p) ELSE Before(c, p)
<1>1. \A q \in Provider : Wanted(c, q) \in Seq(Provider)
  <2>1. ASSUME NEW q \in Provider PROVE <<q>> \in Seq(Provider)
    BY SMT
  <2> QED
    BY <2>1, EmptySeq DEF Wanted
<1>2. "internal" \in Provider /\ "external" \in Provider /\ "monitor" \in Provider
  BY DEF Provider
<1>3. Before(c, p) \in Seq(Provider)
  BY <1>1, <1>2, EmptySeq, ConcatProperties DEF Before, Provider
<1>4. Before(c, After(p)) = Before(c, p) \o Wanted(c, p)
  BY <1>1, <1>2, ConcatEmptySeq DEF Before, After, SetUp, Provider
<1>5. Before(c, p) \o Wanted(c, p) =
          IF c[p] = "set" THEN Append(Before(c, p), p) ELSE Before(c, p)
  BY <1>3, ConcatEmptySeq, AppendIsConcat DEF Wanted
<1> QED
  BY <1>4, <1>5

LEMMA InitAssembly == MainInit => AssemblyInv
BY DEF MainInit, Init, AssemblyInv, MainType, Before, Provider, Alive

LEMMA StepAssembly == AssemblyInv /\ [MainNext]_allVars => AssemblyInv'
<1> SUFFICES ASSUME AssemblyInv, [MainNext]_allVars PROVE AssemblyInv'
  OBVIOUS
<1>1. CASE Die
  BY <1>1 DEF Die, AssemblyInv, MainType, Before, Provider, Alive
<1>2. ASSUME UNCHANGED mainVars, Alive' => Alive PROVE AssemblyInv'
  BY <1>2 DEF mainVars, AssemblyInv, MainType
<1>3. ASSUME NEW p \in Provider, Assemble(p) PROVE AssemblyInv'
  <2>1. processors = Before(config, p) /\ processors' = Before(config, After(p))
    BY <1>3, AssembleNext DEF Assemble, AssemblyInv
  <2>2. After(p) \in Provider \cup {"watcher"}
    BY DEF After, Provider
  <2> QED
    BY <1>3, <2>1, <2>2 DEF Assemble, AssemblyInv, MainType, Alive, vars
<1>4. CASE Start
  BY <1>4 DEF Start, mainVars, AssemblyInv, MainType
<1>5. Watch \/ Tick \/ Docker \/ Shutdown \/ Exit \/ StopEarly \/ ApiChange \/ UNCHANGED vars
        => (Alive' => Alive)
  BY DEF Watch, List, ListOK, ListFails, CallProcessor, Subscribe, ReceiveEvent, ReceiveTick,
         ReceiveError, WakeUp, Tick, Docker, Create, Announce, Recover, Lose, Shutdown, Exit,
         StopEarly, ApiChange, Alive, vars
<1>6. CASE Process
  BY <1>1, <1>2, <1>3, <1>4, <1>5, <1>6
  DEF Process, AssembleFails, NoProcessors, WatcherRuns, TickerPanics
<1>7. CASE ApiChange
  BY <1>5, <1>7 DEF ApiChange, AssemblyInv, MainType
<1> QED
  BY <1>1, <1>2, <1>5, <1>6, <1>7 DEF MainNext, Crash, StopEarly, allVars

\* In whatever order the APIs fail and the process dies and is started again: when
\* main waits for a signal it has every provider that is set up, once and in order,
\* and at least one (main).
THEOREM CompanionRunsWhatIsSetUp == Spec => []RunsWhatIsSetUp
<1>1. AssemblyInv => RunsWhatIsSetUp
  BY DEF AssemblyInv, RunsWhatIsSetUp, Before
<1> QED
  BY <1>1, InitAssembly, StepAssembly, PTL DEF Spec
=============================================================================
