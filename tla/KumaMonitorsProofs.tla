------------------------ MODULE KumaMonitorsProofs ------------------------
(***************************************************************************)
(* Proofs about the monitors and tags: for any containers, labels and      *)
(* tags, and any number of failures, crashes, redeployments and edits.     *)
(***************************************************************************)
EXTENDS KumaMonitors, TLAPS

Bounds == [changes : 0..MaxChanges, faults : 0..MaxFaults]

\* Process only runs on a client that is in sync.
CycleInSync == jobs # Nil => connected /\ synced

\* Every id that Kuma or a cache knows was given out.
GivenOut ==
    /\ \A m \in monitors : m[2] <= made[m[1]]
    /\ \A p \in monitorTags \cup attachedCache : p[1][2] <= made[p[1][1]]

\* A client in sync knows a monitor for each key that Kuma has, but for those made
\* since its listing that it was not told of.
Known ==
    synced => \A m \in monitors : m[1] \in DOMAIN trackedURLs \cup unheard

MonitorsInv ==
    TypeOK /\ CycleInSync /\ GivenOut /\ Known /\ AttachedIsTrue

-----------------------------------------------------------------------------
LEMMA SpentType ==
    ASSUME TypeOK,
           \/ UNCHANGED spent \/ Fault
           \/ /\ spent.changes < MaxChanges
              /\ spent' = [spent EXCEPT !.changes = @ + 1]
    PROVE  spent' \in Bounds
<1>0. spent \in Bounds /\ MaxChanges \in Nat /\ MaxFaults \in Nat
  BY ConstantsOK DEF TypeOK, Bounds, ConstantsOK
<1>1. CASE UNCHANGED spent
  BY <1>0, <1>1
<1>2. CASE spent.faults < MaxFaults /\ spent' = [spent EXCEPT !.faults = @ + 1]
  BY <1>0, <1>2 DEF Bounds
<1>3. CASE spent.changes < MaxChanges /\ spent' = [spent EXCEPT !.changes = @ + 1]
  BY <1>0, <1>3 DEF Bounds
<1> QED
  BY <1>1, <1>2, <1>3 DEF Fault

LEMMA JobsType ==
    ASSUME NEW svcs \in SUBSET Containers
    PROVE  Monitored(svcs) \subseteq Jobs(Containers)
BY DEF Monitored, Jobs

LEMMA KeysType ==
    ASSUME NEW j \in Jobs(Containers)
    PROVE  /\ DedupeKeys(j[1], j[2]) \subseteq Key
           /\ j[1].tags \subseteq Tag
           /\ AllowsDuplicates(j[1], j[2]) =>
                 DedupeKeys(j[1], j[2]) \subseteq DuplicatesAllowed
<1>1. j[1] \in Containers
  BY DEF Jobs
<1> QED
  BY <1>1, ConstantsOK DEF Key, DuplicatesAllowed, ConstantsOK

LEMMA OverrideType ==
    ASSUME NEW f, NEW g, DOMAIN f \subseteq Key, Range(f) \subseteq Id,
           DOMAIN g \subseteq Key, Range(g) \subseteq Id
    PROVE  /\ DOMAIN Override(f, g) = DOMAIN f \cup DOMAIN g
           /\ Range(Override(f, g)) \subseteq Id
BY DEF Range, Override

LEMMA InitInv == Init => MonitorsInv
<1> SUFFICES ASSUME Init PROVE MonitorsInv
  OBVIOUS
<1>1. 1 \in 1..MaxCopies /\ 0 \in 0..MaxCopies /\ 1 \in 0..MaxCopies
  BY ConstantsOK DEF ConstantsOK
<1>2. monitors \subseteq Id /\ made \in [Key -> 0..MaxCopies]
  BY <1>1, FoundOK DEF Init, Id, FoundOK
<1>3. DOMAIN << >> = {} /\ Range(<< >>) = {}
  BY DEF Range
<1>4. spent \in Bounds
  BY ConstantsOK DEF Init, Bounds, ConstantsOK
<1>5. TypeOK
  BY <1>2, <1>3, <1>4 DEF Init, TypeOK, Bounds
<1>6. GivenOut
  BY <1>1, FoundOK DEF Init, GivenOut, FoundOK
<1>7. CycleInSync /\ Known /\ AttachedIsTrue
  BY DEF Init, CycleInSync, Known, AttachedIsTrue
<1> QED
  BY <1>5, <1>6, <1>7 DEF MonitorsInv

\* The steps that leave Kuma's monitors and what is known of them alone.
LEMMA CacheStep ==
    ASSUME MonitorsInv,
           UNCHANGED <<dryRun, monitors, made, tracked, trackedURLs, unheard, gone>>,
           containers' \subseteq Containers, tags' \subseteq Tag, tagsCache' \subseteq Tag,
           UNCHANGED monitorTags,
           UNCHANGED <<attachedCache, detached>> \/ (attachedCache' = {} /\ detached' = {}),
           connected' \in BOOLEAN, synced' \in BOOLEAN, synced' => synced,
           jobs' = Nil \/ jobs' \subseteq Jobs(Containers), CycleInSync',
           monitor' \in Id \cup {Nil}, desired' \subseteq Tag, ready' \in Tag \cup {Nil},
           spent' \in Bounds
    PROVE  MonitorsInv'
<1> USE DEF MonitorsInv
<1>1. TypeOK'
  BY DEF TypeOK, Bounds
<1>2. GivenOut' /\ AttachedIsTrue'
  BY DEF GivenOut, AttachedIsTrue
<1>3. Known'
  BY DEF Known
<1> QED
  BY <1>1, <1>2, <1>3

LEMMA ConnectionInv ==
    ASSUME MonitorsInv, Connect \/ SyncFails \/ BeginCycle \/ NextRouter \/ EndCycle
    PROVE  MonitorsInv'
<1> USE DEF MonitorsInv
<1>1. spent' \in Bounds
  BY SpentType DEF Connect, SyncFails, BeginCycle, NextRouter, EndCycle
<1>2. CASE Connect
  BY <1>1, <1>2, CacheStep DEF Connect, TypeOK, CycleInSync, kumaVars, cursorVars, history
<1>3. CASE SyncFails
  BY <1>1, <1>3, CacheStep DEF SyncFails, TypeOK, CycleInSync, kumaVars, cursorVars, history
<1>4. CASE BeginCycle
  <2>1. jobs' \subseteq Jobs(Containers)
    BY <1>4, JobsType DEF BeginCycle, TypeOK
  <2> QED
    BY <1>1, <1>4, <2>1, CacheStep DEF BeginCycle, TypeOK, CycleInSync, kumaVars, cacheVars, history
<1>5. CASE NextRouter
  BY <1>1, <1>5, CacheStep DEF NextRouter, TypeOK, CycleInSync, kumaVars, cacheVars, history
<1>6. CASE EndCycle
  BY <1>1, <1>6, CacheStep DEF EndCycle, TypeOK, CycleInSync, kumaVars, cacheVars, history
<1> QED
  BY <1>2, <1>3, <1>4, <1>5, <1>6

LEMMA DoSyncInv == ASSUME MonitorsInv, DoSync PROVE MonitorsInv'
<1> USE DEF MonitorsInv
<1>1. PICK listed \in [{m[1] : m \in monitors} -> monitors] :
         /\ \A k \in DOMAIN listed : listed[k][1] = k
         /\ tracked' = Override(listed, tracked)
         /\ trackedURLs' = Override(listed, trackedURLs)
         /\ unheard' = {} /\ gone' = gone \ DOMAIN listed
  BY DEF DoSync
<1>2. /\ DOMAIN listed = {m[1] : m \in monitors} /\ DOMAIN listed \subseteq Key
      /\ Range(listed) \subseteq Id
  BY DEF TypeOK, Id, Range
<1>3. /\ DOMAIN tracked' \subseteq Key /\ Range(tracked') \subseteq Id
      /\ DOMAIN trackedURLs' \subseteq Key /\ Range(trackedURLs') \subseteq Id
      /\ DOMAIN listed \subseteq DOMAIN trackedURLs'
  BY <1>1, <1>2, OverrideType DEF TypeOK
<1>4. spent' \in Bounds /\ tagsCache' \subseteq Tag
  BY SpentType DEF DoSync, TypeOK
<1>5. TypeOK'
  BY <1>1, <1>3, <1>4 DEF DoSync, TypeOK, Bounds, kumaVars, cursorVars
<1>6. GivenOut' /\ AttachedIsTrue'
  BY DEF DoSync, GivenOut, AttachedIsTrue, kumaVars
<1>7. Known'
  BY <1>2, <1>3 DEF DoSync, Known, kumaVars
<1>8. CycleInSync'
  BY DEF DoSync, CycleInSync, cursorVars
<1> QED
  BY <1>5, <1>6, <1>7, <1>8

\* A new monitor is one that nobody has heard of.
LEMMA CreateType ==
    ASSUME MonitorsInv, NEW key \in Key, Create(key)
    PROVE  /\ NewId(key) \in Id /\ NewId(key)[1] = key
           /\ monitors' \subseteq Id /\ made' \in [Key -> 0..MaxCopies]
           /\ \A k \in Key : made[k] <= made'[k]
           /\ \A m \in monitors' : m[2] <= made'[m[1]]
           /\ \A p \in attachedCache : p[1] # NewId(key)
<1> USE DEF MonitorsInv
<1>1. /\ made \in [Key -> 0..MaxCopies] /\ monitors \subseteq Id
      /\ attachedCache \subseteq Id \X Tag /\ MaxCopies \in Nat
  BY ConstantsOK DEF TypeOK, ConstantsOK
<1>2. NewId(key) = <<key, made[key] + 1>> /\ NewId(key) \in Id
  BY <1>1 DEF NewId, Create, Id
<1>3. /\ made' = [made EXCEPT ![key] = @ + 1] /\ made' \in [Key -> 0..MaxCopies]
      /\ made'[key] = made[key] + 1 /\ \A k \in Key : made[k] <= made'[k]
  BY <1>1 DEF Create
<1>4. \A m \in monitors : m[1] \in Key /\ m[2] \in Nat /\ m[2] <= made[m[1]]
  BY <1>1 DEF GivenOut, Id
<1>5. \A m \in monitors' : m[2] <= made'[m[1]]
  BY <1>1, <1>2, <1>3, <1>4 DEF Create
<1>6. \A p \in attachedCache : p[1] # NewId(key)
  BY <1>1, <1>2 DEF GivenOut
<1> QED
  BY <1>1, <1>2, <1>3, <1>5, <1>6 DEF Create

LEMMA VisitInv ==
    ASSUME MonitorsInv, jobs # Nil, NEW j \in jobs, Visit(j)
    PROVE  MonitorsInv'
<1> USE DEF MonitorsInv
<1> DEFINE known == IF AllowsDuplicates(j[1], j[2]) THEN tracked ELSE trackedURLs
<1>1. /\ connected /\ synced /\ j \in Jobs(Containers)
      /\ DOMAIN known \subseteq Key /\ Range(known) \subseteq Id
  BY DEF CycleInSync, TypeOK
<1>2. PICK key \in DedupeKeys(j[1], j[2]) :
         \/ /\ key \in DOMAIN known
            /\ monitor' = known[key] /\ desired' = j[1].tags
            /\ UNCHANGED <<monitors, made, trackedURLs, unheard, spent>>
         \/ key \notin DOMAIN known /\ (Created(j, key) \/ NotCreated(key))
  BY DEF Visit
<1>3. key \in Key /\ j[1].tags \subseteq Tag
  BY <1>1, KeysType
<1>4. /\ UNCHANGED <<dryRun, containers, monitorTags, tags, connected, synced, tracked,
                     tagsCache, attachedCache, ready, gone, detached>>
      /\ jobs' = jobs \ {j} /\ jobs' \subseteq Jobs(Containers) /\ CycleInSync'
  BY <1>1 DEF Visit, TypeOK, CycleInSync
<1>5. CASE /\ key \in DOMAIN known
           /\ monitor' = known[key] /\ desired' = j[1].tags
           /\ UNCHANGED <<monitors, made, trackedURLs, unheard, spent>>
  <2>1. known[key] \in Id
    BY <1>1, <1>5 DEF Range
  <2>2. spent' \in Bounds
    BY <1>5 DEF TypeOK, Bounds
  <2> QED
    BY <1>3, <1>4, <1>5, <2>1, <2>2, CacheStep DEF TypeOK
<1>6. CASE /\ key \notin DOMAIN known
           /\ UNCHANGED <<monitors, made, unheard, trackedURLs, monitor, desired>>
           /\ UNCHANGED spent \/ Fault
  <2>1. spent' \in Bounds
    BY <1>6, SpentType
  <2> QED
    BY <1>4, <1>6, <2>1, CacheStep DEF TypeOK
<1>7. CASE /\ key \notin DOMAIN known /\ Create(key)
           /\ \/ /\ trackedURLs' = Override([k \in {key} |-> NewId(key)], trackedURLs)
                 /\ monitor' = NewId(key) /\ desired' = j[1].tags
                 /\ UNCHANGED <<unheard, spent>>
              \/ /\ unheard' = unheard \cup {key} /\ Fault
                 /\ UNCHANGED <<trackedURLs, monitor, desired>>
  <2>1. spent' \in Bounds
    BY <1>7, SpentType
  <2>2. /\ NewId(key) \in Id /\ NewId(key)[1] = key
        /\ monitors' \subseteq Id /\ made' \in [Key -> 0..MaxCopies]
        /\ \A k \in Key : made[k] <= made'[k]
        /\ \A m \in monitors' : m[2] <= made'[m[1]]
        /\ \A p \in attachedCache : p[1] # NewId(key)
        /\ monitors' = monitors \cup {NewId(key)}
    BY <1>3, <1>7, CreateType DEF Create
  <2>3. /\ DOMAIN trackedURLs' \subseteq Key /\ Range(trackedURLs') \subseteq Id
        /\ DOMAIN trackedURLs \subseteq DOMAIN trackedURLs'
        /\ key \in DOMAIN trackedURLs' \/ key \in unheard'
        /\ unheard \subseteq unheard' /\ unheard' \subseteq Key
    <3>1. CASE trackedURLs' = Override([k \in {key} |-> NewId(key)], trackedURLs) /\ UNCHANGED unheard
      <4> DEFINE new == [k \in {key} |-> NewId(key)]
      <4>1. DOMAIN new = {key} /\ Range(new) = {NewId(key)}
        BY DEF Range
      <4>2. /\ DOMAIN new \subseteq Key /\ Range(new) \subseteq Id
            /\ DOMAIN trackedURLs \subseteq Key /\ Range(trackedURLs) \subseteq Id
            /\ unheard \subseteq Key
        BY <1>3, <2>2, <4>1 DEF TypeOK
      <4>3. trackedURLs' = Override(new, trackedURLs)
        BY <3>1
      <4> HIDE DEF new
      <4>4. /\ DOMAIN trackedURLs' = DOMAIN new \cup DOMAIN trackedURLs
            /\ Range(trackedURLs') \subseteq Id
        BY <4>2, <4>3, OverrideType
      <4> QED
        BY <3>1, <4>1, <4>2, <4>4
    <3>2. CASE UNCHANGED trackedURLs /\ unheard' = unheard \cup {key}
      BY <1>3, <3>2 DEF TypeOK
    <3> QED
      BY <1>7, <3>1, <3>2
  <2>4. TypeOK'
    BY <1>3, <1>4, <1>7, <2>1, <2>2, <2>3 DEF TypeOK, Bounds
  <2>5. GivenOut'
    <3>1. \A p \in monitorTags \cup attachedCache : p[1] \in Id /\ p[1][1] \in Key
      BY DEF TypeOK, Id
    <3>2. \A p \in monitorTags \cup attachedCache :
             p[1][2] \in Nat /\ made[p[1][1]] \in Nat /\ made'[p[1][1]] \in Nat
      BY <2>2, <3>1 DEF TypeOK, Id
    <3> QED
      BY <1>4, <2>2, <3>1, <3>2 DEF GivenOut
  <2>6. Known'
    BY <1>4, <2>2, <2>3 DEF Known
  <2>7. AttachedIsTrue'
    BY <1>4, <2>2 DEF AttachedIsTrue
  <2> QED
    BY <1>4, <2>4, <2>5, <2>6, <2>7
<1>8. CASE key \notin DOMAIN known /\ Created(j, key)
  BY <1>7, <1>8 DEF Created
<1>9. CASE key \notin DOMAIN known /\ NotCreated(key)
  BY <1>6, <1>7, <1>9 DEF NotCreated
<1> QED
  BY <1>2, <1>5, <1>8, <1>9

LEMMA EnsureTagInv ==
    ASSUME MonitorsInv, NEW t \in desired, EnsureTag(t)
    PROVE  MonitorsInv'
<1> USE DEF MonitorsInv
<1>1. spent' \in Bounds
  BY SpentType DEF EnsureTag
<1>2. t \in Tag
  BY DEF TypeOK
<1>3. tags' \subseteq Tag /\ tagsCache' \subseteq Tag /\ ready' \in Tag \cup {Nil}
  BY <1>2 DEF EnsureTag, TypeOK
<1>4. CycleInSync'
  BY DEF EnsureTag, CycleInSync
<1> QED
  BY <1>1, <1>3, <1>4, CacheStep DEF EnsureTag, TypeOK, history

LEMMA AttachTagInv == ASSUME MonitorsInv, AttachTag PROVE MonitorsInv'
<1> USE DEF MonitorsInv
<1> DEFINE pair == <<monitor, ready>>
<1>1. spent' \in Bounds
  BY SpentType DEF AttachTag
<1>2. ready \in Tag
  BY DEF AttachTag, TypeOK
<1>3. CASE UNCHANGED <<monitorTags, attachedCache>>
  <2>1. CycleInSync'
    BY DEF AttachTag, CycleInSync
  <2> QED
    BY <1>1, <1>3, <2>1, CacheStep DEF AttachTag, TypeOK, history
<1>4. CASE /\ Exists /\ monitorTags' = monitorTags \cup {pair}
           /\ attachedCache' = attachedCache \cup {pair} \/ UNCHANGED attachedCache
  <2>1. monitor \in Id /\ pair \in Id \X Tag /\ pair[1] = monitor
    BY <1>2, <1>4 DEF Exists, TypeOK
  <2>2. TypeOK'
    BY <1>1, <1>4, <2>1 DEF AttachTag, TypeOK, Bounds, history
  <2>3. GivenOut'
    BY <1>4, <2>1 DEF AttachTag, GivenOut, Exists
  <2>4. AttachedIsTrue'
    BY <1>4 DEF AttachTag, AttachedIsTrue, history
  <2>5. CycleInSync' /\ Known'
    BY DEF AttachTag, CycleInSync, Known, history
  <2> QED
    BY <2>2, <2>3, <2>4, <2>5
<1> QED
  BY <1>3, <1>4 DEF AttachTag

LEMMA OtherMonitorInv == ASSUME MonitorsInv, OtherMonitor PROVE MonitorsInv'
<1> USE DEF MonitorsInv
<1>1. spent' \in Bounds
  BY SpentType DEF OtherMonitor
<1>2. PICK key \in Key : Create(key) /\ unheard' = unheard \cup {key}
  BY DEF OtherMonitor
<1>3. /\ NewId(key)[1] = key /\ monitors' = monitors \cup {NewId(key)}
      /\ monitors' \subseteq Id /\ made' \in [Key -> 0..MaxCopies]
      /\ \A k \in Key : made[k] <= made'[k]
      /\ \A m \in monitors' : m[2] <= made'[m[1]]
      /\ \A p \in attachedCache : p[1] # NewId(key)
  BY <1>2, CreateType DEF Create
<1>4. TypeOK'
  BY <1>1, <1>2, <1>3 DEF OtherMonitor, TypeOK, Bounds, cacheVars, cursorVars
<1>5. GivenOut'
  <2>1. \A p \in monitorTags \cup attachedCache :
           /\ p[1][1] \in Key /\ p[1][2] \in Nat
           /\ made[p[1][1]] \in Nat /\ made'[p[1][1]] \in Nat
    BY <1>3 DEF TypeOK, Id
  <2> QED
    BY <1>3, <2>1 DEF OtherMonitor, GivenOut, cacheVars
<1>6. Known' /\ CycleInSync'
  BY <1>2, <1>3 DEF OtherMonitor, Known, CycleInSync, cacheVars, cursorVars
<1>7. AttachedIsTrue'
  BY <1>3 DEF OtherMonitor, AttachedIsTrue, cacheVars
<1> QED
  BY <1>4, <1>5, <1>6, <1>7

LEMMA HandInv ==
    ASSUME MonitorsInv, RemoveMonitor \/ DetachTag
    PROVE  MonitorsInv'
<1> USE DEF MonitorsInv
<1>1. spent' \in Bounds
  BY SpentType DEF RemoveMonitor, DetachTag
<1>2. CASE RemoveMonitor
  <2>1. PICK m \in monitors :
          /\ monitors' = monitors \ {m}
          /\ monitorTags' = {p \in monitorTags : p[1] # m}
          /\ gone' = gone \cup ({m[1]} \cap (DOMAIN tracked \cup DOMAIN trackedURLs))
    BY <1>2 DEF RemoveMonitor
  <2>2. TypeOK'
    BY <1>1, <1>2, <2>1 DEF RemoveMonitor, TypeOK, Bounds, cacheVars, cursorVars
  <2>3. GivenOut' /\ AttachedIsTrue'
    BY <1>2, <2>1 DEF RemoveMonitor, GivenOut, AttachedIsTrue, cacheVars
  <2>4. Known' /\ CycleInSync'
    BY <1>2, <2>1 DEF RemoveMonitor, Known, CycleInSync, cacheVars, cursorVars
  <2> QED
    BY <2>2, <2>3, <2>4
<1>3. CASE DetachTag
  <2>1. PICK pair \in monitorTags :
          /\ monitorTags' = monitorTags \ {pair}
          /\ detached' = detached \cup ({pair} \cap attachedCache)
    BY <1>3 DEF DetachTag
  <2>2. TypeOK'
    BY <1>1, <1>3, <2>1 DEF DetachTag, TypeOK, Bounds, cacheVars, cursorVars
  <2>3. GivenOut' /\ AttachedIsTrue'
    BY <1>3, <2>1 DEF DetachTag, GivenOut, AttachedIsTrue, cacheVars
  <2>4. Known' /\ CycleInSync'
    BY <1>3, <2>1 DEF DetachTag, Known, CycleInSync, cacheVars, cursorVars
  <2> QED
    BY <2>2, <2>3, <2>4
<1> QED
  BY <1>2, <1>3

LEMMA OutsideInv ==
    ASSUME MonitorsInv, OtherTag \/ Redeploy \/ Restart
    PROVE  MonitorsInv'
<1> USE DEF MonitorsInv
<1>1. spent' \in Bounds
  BY SpentType DEF OtherTag, Redeploy, Restart
<1>2. CASE OtherTag
  <2>1. CycleInSync' /\ tags' \subseteq Tag
    BY <1>2 DEF OtherTag, CycleInSync, cacheVars, cursorVars, TypeOK
  <2> QED
    BY <1>1, <1>2, <2>1, CacheStep DEF OtherTag, TypeOK, cacheVars, cursorVars, history
<1>3. CASE Redeploy
  <2>1. CycleInSync' /\ containers' \subseteq Containers
    BY <1>3 DEF Redeploy, CycleInSync, cacheVars, cursorVars, TypeOK
  <2> QED
    BY <1>1, <1>3, <2>1, CacheStep
       DEF Redeploy, TypeOK, kumaVars, cacheVars, cursorVars, history
<1>4. CASE Restart
  <2>1. DOMAIN << >> = {} /\ Range(<< >>) = {}
    BY DEF Range
  <2>2. TypeOK'
    BY <1>1, <1>4, <2>1 DEF Restart, TypeOK, Bounds, kumaVars
  <2>3. GivenOut' /\ AttachedIsTrue'
    BY <1>4 DEF Restart, GivenOut, AttachedIsTrue, kumaVars
  <2>4. Known' /\ CycleInSync'
    BY <1>4 DEF Restart, Known, CycleInSync, kumaVars
  <2> QED
    BY <2>2, <2>3, <2>4
<1> QED
  BY <1>2, <1>3, <1>4

-----------------------------------------------------------------------------
LEMMA StepInv == MonitorsInv /\ [Next]_vars => MonitorsInv'
<1> SUFFICES ASSUME MonitorsInv, [Next]_vars PROVE MonitorsInv'
  OBVIOUS
<1>1. CASE Companion
  BY <1>1, ConnectionInv, DoSyncInv, VisitInv, EnsureTagInv, AttachTagInv DEF Companion
<1>2. CASE OtherTag \/ OtherMonitor \/ DetachTag \/ RemoveMonitor \/ Redeploy \/ Restart
  BY <1>2, OtherMonitorInv, HandInv, OutsideInv
<1>3. CASE UNCHANGED vars
  <2>1. spent' \in Bounds /\ CycleInSync'
    BY <1>3, SpentType DEF vars, cacheVars, cursorVars, MonitorsInv, CycleInSync
  <2> QED
    BY <1>3, <2>1, CacheStep DEF vars, kumaVars, cacheVars, cursorVars, history, MonitorsInv, TypeOK
<1> QED
  BY <1>1, <1>2, <1>3 DEF Next

LEMMA InvHolds == Spec => []MonitorsInv
BY InitInv, StepInv, PTL DEF Spec

\* Every reachable state of the monitors is well typed, for any containers and
\* labels: Process only looks up ids that Kuma has given out.
THEOREM MonitorsTypeCorrect == Spec => []TypeOK
<1>1. MonitorsInv => TypeOK
  BY DEF MonitorsInv
<1> QED
  BY <1>1, InvHolds, PTL

\* A step of the companion makes a monitor only of a key that is not known.
LEMMA MadeUnknown ==
    ASSUME MonitorsInv, Companion, NEW m \in monitors, made'[m[1]] # made[m[1]]
    PROVE  m[1] \in unheard \cup DuplicatesAllowed
<1> USE DEF MonitorsInv
<1>1. PICK j \in jobs : jobs # Nil /\ Visit(j)
  BY DEF Companion, Connect, SyncFails, DoSync, BeginCycle, EnsureTag, AttachTag,
     NextRouter, EndCycle, kumaVars
<1>2. synced /\ j \in Jobs(Containers) /\ made \in [Key -> 0..MaxCopies] /\ m[1] \in Key
  BY <1>1 DEF CycleInSync, TypeOK, Id
<1>3. PICK key \in DedupeKeys(j[1], j[2]) :
         /\ key \notin DOMAIN (IF AllowsDuplicates(j[1], j[2]) THEN tracked ELSE trackedURLs)
         /\ Create(key)
  BY <1>1 DEF Visit, Created, NotCreated
<1>4. m[1] = key
  BY <1>2, <1>3 DEF Create
<1>5. CASE AllowsDuplicates(j[1], j[2])
  BY <1>2, <1>4, <1>5, KeysType
<1>6. CASE ~AllowsDuplicates(j[1], j[2])
  BY <1>2, <1>3, <1>4, <1>6 DEF Known
<1> QED
  BY <1>5, <1>6

\* No monitor is made whose URL and name Kuma has (client.go:198-218), for any
\* containers and labels, through lost connections, restarts and redeployments;
\* except for keys that allow duplicates, and for monitors that others, or calls
\* without an answer, made since the one listing (client.go:118-147).
THEOREM NoDuplicatesHold == Spec => NoDuplicateMonitors
<1>1. MonitorsInv /\ [Next]_vars =>
         [Companion => \A m \in monitors :
             made'[m[1]] # made[m[1]] => m[1] \in unheard \cup DuplicatesAllowed]_vars
  BY MadeUnknown
<1> QED
  BY <1>1, InvHolds, PTL DEF Spec, NoDuplicateMonitors

\* What ProcessTags passes over as attached is attached (tag_manager.go:117-143),
\* whatever fails, and whatever monitors are removed and made anew.
THEOREM AttachedHolds == Spec => []AttachedIsTrue
<1>1. MonitorsInv => AttachedIsTrue
  BY DEF MonitorsInv
<1> QED
  BY <1>1, InvHolds, PTL

-----------------------------------------------------------------------------
\* The maps stay true where they are left alone: Kuma may lose a monitor whose key is
\* gone and gain one that is unheard.
LEMMA KeptTruthful ==
    ASSUME CacheMatchesKuma, UNCHANGED <<tracked, trackedURLs>>,
           unheard \subseteq unheard', gone \subseteq gone',
           \A m \in monitors : \/ m \in monitors'
                               \/ m[1] \in gone'
                               \/ m[1] \notin DOMAIN tracked \cup DOMAIN trackedURLs,
           \A m \in monitors' : m \in monitors \/ m[1] \in unheard',
           synced' => synced
    PROVE  CacheMatchesKuma'
BY DEF CacheMatchesKuma, Truthful

LEMMA DoSyncTruthful == ASSUME CacheMatchesKuma, DoSync PROVE CacheMatchesKuma'
<1>1. PICK listed \in [{m[1] : m \in monitors} -> monitors] :
         /\ \A k \in DOMAIN listed : listed[k][1] = k
         /\ tracked' = Override(listed, tracked)
         /\ trackedURLs' = Override(listed, trackedURLs)
         /\ gone' = gone \ DOMAIN listed
  BY DEF DoSync
<1>2. UNCHANGED monitors
  BY DEF DoSync, kumaVars
<1>3. Truthful(tracked)' /\ Truthful(trackedURLs)'
  BY <1>1, <1>2 DEF CacheMatchesKuma, Truthful, Override
<1>4. \A m \in monitors' : m[1] \in DOMAIN trackedURLs'
  BY <1>1, <1>2 DEF Override
<1> QED
  BY <1>3, <1>4 DEF CacheMatchesKuma

LEMMA VisitTruthful ==
    ASSUME MonitorsInv, CacheMatchesKuma, jobs # Nil, NEW j \in jobs, Visit(j)
    PROVE  CacheMatchesKuma'
<1>1. j \in Jobs(Containers) /\ UNCHANGED <<tracked, synced, gone>>
  BY DEF MonitorsInv, TypeOK, Visit
<1>2. PICK key \in DedupeKeys(j[1], j[2]) :
         \/ UNCHANGED <<monitors, trackedURLs, unheard>>
         \/ Created(j, key) \/ NotCreated(key)
  BY DEF Visit
<1>3. key \in Key
  BY <1>1, KeysType
<1>4. CASE UNCHANGED <<monitors, trackedURLs, unheard>>
  BY <1>1, <1>4, KeptTruthful
<1>5. CASE Created(j, key)
  <2>1. /\ NewId(key)[1] = key /\ monitors' = monitors \cup {NewId(key)}
        /\ UNCHANGED unheard
        /\ trackedURLs' = Override([k \in {key} |-> NewId(key)], trackedURLs)
    BY <1>3, <1>5, CreateType DEF Created, Create
  <2>2. /\ DOMAIN trackedURLs' = DOMAIN trackedURLs \cup {key}
        /\ trackedURLs'[key] = NewId(key)
        /\ \A k \in DOMAIN trackedURLs \ {key} : trackedURLs'[k] = trackedURLs[k]
    BY <2>1 DEF Override
  <2>3. Truthful(tracked)' /\ Truthful(trackedURLs)'
    BY <1>1, <2>1, <2>2 DEF CacheMatchesKuma, Truthful
  <2> QED
    BY <1>1, <2>1, <2>2, <2>3 DEF CacheMatchesKuma
<1>6. CASE NotCreated(key)
  <2>1. UNCHANGED trackedURLs /\ unheard \subseteq unheard' /\ monitors \subseteq monitors'
    BY <1>6 DEF NotCreated, Create
  <2>2. \A m \in monitors' : m \in monitors \/ m[1] \in unheard'
    BY <1>3, <1>6, CreateType DEF NotCreated, Create
  <2> QED
    BY <1>1, <2>1, <2>2, KeptTruthful
<1> QED
  BY <1>2, <1>4, <1>5, <1>6

LEMMA TruthfulStep == MonitorsInv /\ CacheMatchesKuma /\ [Next]_vars => CacheMatchesKuma'
<1> SUFFICES ASSUME MonitorsInv, CacheMatchesKuma, [Next]_vars PROVE CacheMatchesKuma'
  OBVIOUS
<1>1. CASE \/ Connect \/ SyncFails \/ BeginCycle \/ AttachTag \/ NextRouter \/ EndCycle
           \/ \E t \in desired : EnsureTag(t)
           \/ OtherTag \/ DetachTag \/ Redeploy \/ UNCHANGED vars
  <2>1. UNCHANGED <<monitors, unheard, gone, tracked, trackedURLs>> /\ (synced' => synced)
    BY <1>1 DEF Connect, SyncFails, BeginCycle, AttachTag, NextRouter, EndCycle, EnsureTag,
       OtherTag, DetachTag, Redeploy, kumaVars, cacheVars, cursorVars, history, vars
  <2> QED
    BY <2>1, KeptTruthful
<1>2. CASE RemoveMonitor
  BY <1>2, KeptTruthful DEF RemoveMonitor, cacheVars
<1>4. CASE OtherMonitor
  <2>1. PICK key \in Key : Create(key) /\ unheard' = unheard \cup {key}
    BY <1>4 DEF OtherMonitor
  <2>2. monitors' = monitors \cup {NewId(key)} /\ NewId(key)[1] = key
    BY <2>1, CreateType DEF Create
  <2> QED
    BY <1>4, <2>1, <2>2, KeptTruthful DEF OtherMonitor, cacheVars
<1>3. CASE Restart
  BY <1>3 DEF Restart, CacheMatchesKuma, Truthful
<1> QED
  BY <1>1, <1>2, <1>3, <1>4, DoSyncTruthful, VisitTruthful DEF Next, Companion

\* What Process looks its routers up in (client.go:198-218) is what Kuma has: a
\* monitor that is known is there unless it was removed by hand, and one that is
\* there is known to a client in sync unless it was made behind its back; for any
\* containers and labels and whatever fails.
THEOREM CacheMatchesKumaHolds == Spec => []CacheMatchesKuma
<1>1. Init => CacheMatchesKuma
  BY DEF Init, CacheMatchesKuma, Truthful
<1> QED
  BY <1>1, InvHolds, TruthfulStep, PTL DEF Spec
=============================================================================
