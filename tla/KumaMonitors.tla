---------------------------- MODULE KumaMonitors ----------------------------
(***************************************************************************)
(* The monitors and tags of one Uptime Kuma client: doSync and Process     *)
(* (internal/monitor/kuma/client.go) with the labels they read (labels.go, *)
(* builder.go) and the tag manager (tag_manager.go), while people and      *)
(* other nodes use the same Kuma.                                          *)
(*                                                                         *)
(* Binding domains, and what becomes of the attach that Process requests   *)
(* for each monitor, are in StatusPages.                                   *)
(*                                                                         *)
(* A label is a record [level, key, value]; its level is the place of its  *)
(* prefix in the hierarchy of getMeshLabel: 1 and 2 name the router, 3 and *)
(* 4 the container.  A router has a name, the first host and path of its   *)
(* rule as one host (or Nil) and labels; a container has a name,           *)
(* svc.Hosts, tags and labels.                                             *)
(*                                                                         *)
(* The id of a monitor is its key and a number that no other monitor of    *)
(* that key ever has: ids are only compared.                               *)
(*                                                                         *)
(* cycleURLs is left out: it is read for keys that trackedURLs lacks, and  *)
(* each of its keys is written to trackedURLs as well.                     *)
(***************************************************************************)
EXTENDS Naturals, FiniteSets, Functions

CONSTANTS
    Containers,    \* the containers there may be
    Found,         \* the keys of the monitors that Kuma has already
    AbsoluteURLs,  \* url labels that do not start with a slash
    AutoEnable,    \* KUMA_AUTO_ENABLE
    Tag,           \* tags, the default ones included
    Nil,           \* no host, no label, no tag
    MaxCopies,     \* bound: monitors of one key
    MaxChanges,    \* bound: containers created or removed
    MaxFaults      \* bound: calls that fail, crashes, and what other people do

ASSUME ConstantsOK ==
    /\ AutoEnable \in BOOLEAN
    /\ Nil \notin Tag
    /\ \A svc \in Containers : svc.tags \subseteq Tag
    /\ MaxCopies \in Nat \ {0} /\ MaxChanges \in Nat /\ MaxFaults \in Nat

VARIABLES
    dryRun,      \* DRY_RUN
    containers,  \* the containers Docker lists
    monitors,    \* Kuma: its monitors
    monitorTags, \* Kuma: pairs <<monitor id, tag>>
    tags,        \* Kuma: its tags
    made,        \* made[k]: the monitors of key k that Kuma has ever had
    connected,   \* there is a client, with its managers
    synced,
    tracked, trackedURLs,     \* monitor ids by deduplication key
    tagsCache, attachedCache, \* the tag manager's
    jobs,        \* the routers Process has still to visit, or Nil outside
    monitor,     \* the monitor it is busy with, or Nil
    desired,     \* its tags still to process
    ready,       \* the tag that is about to be attached to it
    unheard,     \* keys of monitors made since the last listing, but not by this
                 \* process, or by a call of it whose answer was lost
    gone,        \* keys this process knows whose monitor was removed by hand
    detached,    \* pairs in attachedCache that were detached by hand
    spent        \* how much of each bound is used up

kumaVars   == <<monitors, monitorTags, tags, made>>
cacheVars  == <<connected, synced, tracked, trackedURLs, tagsCache, attachedCache>>
cursorVars == <<jobs, monitor, desired, ready>>
history    == <<unheard, gone, detached>>
vars == <<dryRun, containers, kumaVars, cacheVars, cursorVars, history, spent>>

-----------------------------------------------------------------------------
\* getMeshLabel: the router's labels come first, the container's after them.
Label(svc, r, key) ==
    LET given == {x \in svc.labels \cup r.labels : x.key = key}
    IN  IF given = {} THEN Nil
        ELSE (CHOOSE x \in given : \A y \in given : x.level <= y.level).value

\* A container without a rule has one router, which reads no labels of its own.
Routers(svc) ==
    IF svc.routers = {} THEN {[name |-> "default", host |-> Nil, labels |-> {}]}
    ELSE svc.routers

IsEnabled(svc, r) ==
    LET enable  == Label(svc, r, "enable")
        managed == Label(svc, r, "managed")
    IN  IF enable # Nil THEN enable = "true"
        ELSE IF managed # Nil THEN managed = "true" ELSE AutoEnable

\* resolveMonitorURL, as a host and a url label.  A rule without a host takes the
\* first of svc.Hosts, which come in Go's random order of the labels.
MonitorURLs(svc, r) ==
    LET label == Label(svc, r, "url")
        hosts == IF r.host # Nil THEN {r.host}
                 ELSE IF svc.hosts # {} THEN svc.hosts ELSE {Nil}
    IN  IF label \in AbsoluteURLs THEN {<<Nil, label>>}
        ELSE {<<h, label>> : h \in hosts} \ {<<Nil, Nil>>}

MonitorName(svc, r) ==
    IF Label(svc, r, "name") # Nil THEN Label(svc, r, "name") ELSE <<svc.name, r.name>>

\* The keys the monitor of a router may have: its URL and its name.
DedupeKeys(svc, r) == {<<url, MonitorName(svc, r)>> : url \in MonitorURLs(svc, r)}

AllowsDuplicates(svc, r) == Label(svc, r, "allow_duplicates") = "true"

Jobs(svcs) == UNION {{<<svc, r>> : r \in Routers(svc)} : svc \in svcs}

\* The routers that are to have a monitor.
Monitored(svcs) == {j \in Jobs(svcs) : IsEnabled(j[1], j[2]) /\ MonitorURLs(j[1], j[2]) # {}}

Key == UNION {DedupeKeys(j[1], j[2]) : j \in Jobs(Containers)}
Id == Key \X (1..MaxCopies)

ASSUME FoundOK == Found \subseteq Key

TypeOK ==
    /\ dryRun \in BOOLEAN /\ containers \subseteq Containers
    /\ monitors \subseteq Id /\ made \in [Key -> 0..MaxCopies]
    /\ monitorTags \subseteq Id \X Tag
    /\ tags \subseteq Tag
    /\ connected \in BOOLEAN /\ synced \in BOOLEAN
    /\ DOMAIN tracked \subseteq Key /\ Range(tracked) \subseteq Id
    /\ DOMAIN trackedURLs \subseteq Key /\ Range(trackedURLs) \subseteq Id
    /\ tagsCache \subseteq Tag /\ attachedCache \subseteq Id \X Tag
    /\ jobs = Nil \/ jobs \subseteq Jobs(Containers)
    /\ monitor \in Id \cup {Nil} /\ desired \subseteq Tag /\ ready \in Tag \cup {Nil}
    /\ unheard \subseteq Key /\ gone \subseteq Key /\ detached \subseteq Id \X Tag
    /\ spent \in [changes : 0..MaxChanges, faults : 0..MaxFaults]

Init ==
    /\ dryRun \in BOOLEAN
    /\ containers \in SUBSET Containers
    /\ monitors = {<<k, 1>> : k \in Found}
    /\ made = [k \in Key |-> IF k \in Found THEN 1 ELSE 0]
    /\ monitorTags = {} /\ tags = {}
    /\ connected = FALSE /\ synced = FALSE
    /\ tracked = << >> /\ trackedURLs = << >>
    /\ tagsCache = {} /\ attachedCache = {}
    /\ jobs = Nil /\ monitor = Nil /\ desired = {} /\ ready = Nil
    /\ unheard = {} /\ gone = {} /\ detached = {}
    /\ spent = [changes |-> 0, faults |-> 0]

Fault ==
    /\ spent.faults < MaxFaults
    /\ spent' = [spent EXCEPT !.faults = @ + 1]

-----------------------------------------------------------------------------
\* ensureConnected makes a client with new managers (see StatusPages).
Connect ==
    /\ ~connected
    /\ connected' = TRUE /\ synced' = FALSE
    /\ tagsCache' = {} /\ attachedCache' = {} /\ detached' = {}
    /\ UNCHANGED <<dryRun, containers, kumaVars, tracked, trackedURLs, cursorVars,
                   unheard, gone, spent>>

\* doSync, when GetMonitors fails.
SyncFails ==
    /\ connected /\ ~synced /\ jobs = Nil
    /\ Fault
    /\ connected' = FALSE
    /\ tagsCache' = {} /\ attachedCache' = {} /\ detached' = {}
    /\ UNCHANGED <<dryRun, containers, kumaVars, synced, tracked, trackedURLs,
                   cursorVars, unheard, gone>>

\* The map f after the writes in new.
Override(new, f) ==
    [k \in DOMAIN new \cup DOMAIN f |-> IF k \in DOMAIN new THEN new[k] ELSE f[k]]

\* doSync: of two monitors with one key the last one listed is remembered, and
\* nothing is forgotten.  The list of the tags may fail.
DoSync ==
    /\ connected /\ ~synced /\ jobs = Nil
    /\ \E listed \in [{m[1] : m \in monitors} -> monitors] :
          /\ \A k \in DOMAIN listed : listed[k][1] = k
          /\ tracked' = Override(listed, tracked)
          /\ trackedURLs' = Override(listed, trackedURLs)
          /\ unheard' = {} /\ gone' = gone \ DOMAIN listed
    /\ attachedCache' = attachedCache \cup monitorTags
    /\ \/ tagsCache' = tagsCache \cup tags /\ UNCHANGED spent
       \/ Fault /\ UNCHANGED tagsCache
    /\ synced' = TRUE
    /\ UNCHANGED <<dryRun, containers, kumaVars, connected, cursorVars, detached>>

\* Bug: Process does not care whether the client is in sync.
BugBeginCycle ==
    /\ connected /\ jobs = Nil
    /\ jobs' = Monitored(containers)
    /\ UNCHANGED <<dryRun, containers, kumaVars, cacheVars, monitor, desired, ready,
                   history, spent>>

\* Process visits the routers in no fixed order; those that are disabled or have
\* no URL are passed over.
BeginCycle ==
    /\ connected /\ synced /\ jobs = Nil
    /\ jobs' = Monitored(containers)
    /\ UNCHANGED <<dryRun, containers, kumaVars, cacheVars, monitor, desired, ready,
                   history, spent>>

NewId(key) == <<key, made[key] + 1>>

Create(key) ==
    /\ made[key] < MaxCopies
    /\ monitors' = monitors \cup {NewId(key)}
    /\ made' = [made EXCEPT ![key] = @ + 1]

\* Bug: the key is remembered in place of the id.
BugCreated(j, key) ==
    /\ ~dryRun /\ Create(key)
    /\ trackedURLs' = Override([k \in {key} |-> key], trackedURLs)
    /\ monitor' = NewId(key) /\ desired' = j[1].tags
    /\ UNCHANGED <<unheard, spent>>

\* The new monitor goes to trackedURLs, also when tracked was consulted.
Created(j, key) ==
    /\ ~dryRun /\ Create(key)
    /\ trackedURLs' = Override([k \in {key} |-> NewId(key)], trackedURLs)
    /\ monitor' = NewId(key) /\ desired' = j[1].tags
    /\ UNCHANGED <<unheard, spent>>

\* Bug: the key is remembered before the call.
BugNotCreated(key) ==
    /\ \/ dryRun /\ UNCHANGED <<monitors, made, unheard, spent>>
       \/ ~dryRun /\ Fault /\ UNCHANGED <<monitors, made, unheard>>
    /\ trackedURLs' = Override([k \in {key} |-> NewId(key)], trackedURLs)
    /\ UNCHANGED <<monitor, desired>>

\* Dry run; or the call fails, is carried out without an answer, or meets the bound.
NotCreated(key) ==
    /\ \/ dryRun /\ UNCHANGED <<monitors, made, unheard, spent>>
       \/ ~dryRun /\ Fault /\ UNCHANGED <<monitors, made, unheard>>
       \/ ~dryRun /\ Fault /\ Create(key) /\ unheard' = unheard \cup {key}
       \/ made[key] = MaxCopies /\ UNCHANGED <<monitors, made, unheard, spent>>
    /\ UNCHANGED <<trackedURLs, monitor, desired>>

\* Look the monitor of a router up by its key, and create it if it is not known.
Visit(j) ==
    /\ j \in jobs /\ monitor = Nil
    /\ jobs' = jobs \ {j}
    /\ \E key \in DedupeKeys(j[1], j[2]) :
          LET known == IF AllowsDuplicates(j[1], j[2]) THEN tracked ELSE trackedURLs IN
          \/ /\ key \in DOMAIN known
             /\ monitor' = known[key] /\ desired' = j[1].tags
             /\ UNCHANGED <<monitors, made, trackedURLs, unheard, spent>>
          \/ key \notin DOMAIN known /\ (Created(j, key) \/ NotCreated(key))
    /\ UNCHANGED <<dryRun, containers, monitorTags, tags, connected, synced, tracked,
                   tagsCache, attachedCache, ready, gone, detached>>

\* ensureTag; a tag that Kuma has and the cache has not cannot be created, and is
\* passed over.  The executor is not asked.
EnsureTag(t) ==
    /\ t \in desired /\ ready = Nil
    /\ desired' = desired \ {t}
    /\ \/ t \in tagsCache /\ ready' = t /\ UNCHANGED <<tags, tagsCache, spent>>
       \/ /\ t \notin tagsCache \cup tags
          /\ tags' = tags \cup {t} /\ tagsCache' = tagsCache \cup {t}
          /\ ready' = t
          /\ UNCHANGED spent
       \/ t \in tags \ tagsCache /\ UNCHANGED <<tags, tagsCache, ready, spent>>
       \/ /\ t \notin tagsCache /\ Fault
          /\ tags' \in {tags, tags \cup {t}}
          /\ UNCHANGED <<tagsCache, ready>>
    /\ UNCHANGED <<dryRun, containers, monitors, monitorTags, made, connected, synced,
                   tracked, trackedURLs, attachedCache, jobs, monitor, history>>

Exists == monitor \in monitors

\* Bug: what failed is cached as attached too.
BugAttachTag ==
    /\ ready # Nil /\ ready' = Nil
    /\ LET pair == <<monitor, ready>> IN
       /\ \/ pair \in attachedCache /\ UNCHANGED <<monitorTags, spent>>
          \/ pair \notin attachedCache /\ Exists
             /\ monitorTags' = monitorTags \cup {pair} /\ UNCHANGED spent
          \/ pair \notin attachedCache /\ Fault /\ UNCHANGED monitorTags
       /\ attachedCache' = attachedCache \cup {pair}
    /\ UNCHANGED <<dryRun, containers, monitors, tags, made, connected, synced, tracked,
                   trackedURLs, tagsCache, jobs, monitor, desired, history>>

\* AddMonitorTag, unless it is cached; "already there" is as good as done, and any
\* other error leaves it for the next cycle.
AttachTag ==
    /\ ready # Nil /\ ready' = Nil
    /\ LET pair == <<monitor, ready>> IN
       \/ /\ pair \in attachedCache \/ ~Exists
          /\ UNCHANGED <<monitorTags, attachedCache, spent>>
       \/ /\ pair \notin attachedCache /\ Exists
          /\ monitorTags' = monitorTags \cup {pair}
          /\ \/ attachedCache' = attachedCache \cup {pair} /\ UNCHANGED spent
             \/ Fault /\ UNCHANGED attachedCache
       \/ /\ pair \notin attachedCache /\ Fault
          /\ UNCHANGED <<monitorTags, attachedCache>>
    /\ UNCHANGED <<dryRun, containers, monitors, tags, made, connected, synced, tracked,
                   trackedURLs, tagsCache, jobs, monitor, desired, history>>

\* The tags are done; the attach is requested, and the next router is due.
NextRouter ==
    /\ monitor # Nil /\ desired = {} /\ ready = Nil
    /\ monitor' = Nil
    /\ UNCHANGED <<dryRun, containers, kumaVars, cacheVars, jobs, desired, ready,
                   history, spent>>

EndCycle ==
    /\ jobs = {} /\ monitor = Nil
    /\ jobs' = Nil
    /\ UNCHANGED <<dryRun, containers, kumaVars, cacheVars, monitor, desired, ready,
                   history, spent>>

Companion ==
    \/ Connect \/ SyncFails \/ DoSync \/ BeginCycle
    \/ jobs # Nil /\ \E j \in jobs : Visit(j)
    \/ \E t \in desired : EnsureTag(t)
    \/ AttachTag \/ NextRouter \/ EndCycle

-----------------------------------------------------------------------------
\* Another node makes a tag that this one uses too.
OtherTag ==
    /\ Fault
    /\ \E t \in Tag \ tags : tags' = tags \cup {t}
    /\ UNCHANGED <<dryRun, containers, monitors, monitorTags, made, cacheVars,
                   cursorVars, history>>

\* Another node, or a person, makes a monitor that this one may want as well.
OtherMonitor ==
    /\ Fault
    /\ \E key \in Key : Create(key) /\ unheard' = unheard \cup {key}
    /\ UNCHANGED <<dryRun, containers, monitorTags, tags, cacheVars, cursorVars,
                   gone, detached>>

\* Somebody detaches a tag.
DetachTag ==
    /\ Fault
    /\ \E pair \in monitorTags :
          /\ monitorTags' = monitorTags \ {pair}
          /\ detached' = detached \cup ({pair} \cap attachedCache)
    /\ UNCHANGED <<dryRun, containers, monitors, tags, made, cacheVars, cursorVars,
                   unheard, gone>>

\* Somebody deletes a monitor.
RemoveMonitor ==
    /\ Fault
    /\ \E m \in monitors :
          /\ monitors' = monitors \ {m}
          /\ monitorTags' = {p \in monitorTags : p[1] # m}
          /\ gone' = gone \cup ({m[1]} \cap (DOMAIN tracked \cup DOMAIN trackedURLs))
    /\ UNCHANGED <<dryRun, containers, tags, made, cacheVars, cursorVars, unheard,
                   detached>>

Redeploy ==
    /\ spent.changes < MaxChanges
    /\ spent' = [spent EXCEPT !.changes = @ + 1]
    /\ \E svc \in Containers :
          containers' = IF svc \in containers THEN containers \ {svc}
                        ELSE containers \cup {svc}
    /\ UNCHANGED <<dryRun, kumaVars, cacheVars, cursorVars, history>>

Restart ==
    /\ Fault
    /\ connected' = FALSE /\ synced' = FALSE
    /\ tracked' = << >> /\ trackedURLs' = << >>
    /\ tagsCache' = {} /\ attachedCache' = {}
    /\ jobs' = Nil /\ monitor' = Nil /\ desired' = {} /\ ready' = Nil
    /\ gone' = {} /\ detached' = {}
    /\ UNCHANGED <<dryRun, containers, kumaVars, unheard>>

Next ==
    \/ Companion
    \/ OtherTag \/ OtherMonitor \/ DetachTag \/ RemoveMonitor \/ Redeploy \/ Restart

Spec == Init /\ [][Next]_vars

\* The ticker calls Process again and again; Kuma answers in the end.
FairSpec == Spec /\ WF_vars(Companion)

-----------------------------------------------------------------------------
DuplicatesAllowed == UNION {DedupeKeys(j[1], j[2]) :
    j \in {i \in Jobs(Containers) : AllowsDuplicates(i[1], i[2])}}

\* This process makes no monitor whose URL and name Kuma has already: not for two
\* routers with one key, not in a later cycle, after a lost connection or a restart.
\* It does so in two cases: the other monitor was made since its one listing, by
\* somebody else or by a call whose answer was lost; or a router of that key allows
\* duplicates, which gets one more in every cycle.
NoDuplicateMonitors ==
    [][Companion => \A m \in monitors :
          made'[m[1]] # made[m[1]] => m[1] \in unheard \cup DuplicatesAllowed]_vars

\* Both maps of the client agree with Kuma, whatever fails, is redeployed, is edited
\* by others or crashes: a monitor that Process would not make again is there, under
\* its key, unless it was removed by hand; and one that a client in sync would make
\* is not there, unless it was made behind its back since the listing.
Truthful(known) ==
    \A k \in DOMAIN known :
        known[k][1] = k /\ (known[k] \in monitors \/ k \in gone)

CacheMatchesKuma ==
    /\ Truthful(tracked) /\ Truthful(trackedURLs)
    /\ synced => \A m \in monitors : m[1] \in DOMAIN trackedURLs \cup unheard

\* What the tag manager takes as attached is attached, as long as the monitor is
\* there and nobody detaches it: no tag is passed over for a call that failed.
AttachedIsTrue ==
    \A p \in attachedCache :
        p[1] \in monitors => p \in monitorTags \cup detached

MonitorsOf(j) == {m \in monitors : m[1] \in DedupeKeys(j[1], j[2])}

\* Whatever fails, once the containers stop changing every monitored router has a
\* monitor for good, unless one that the process knows was removed by hand, which
\* it never notices.
MonitorsAppear ==
    <>[](~dryRun => \A j \in Monitored(containers) :
            MonitorsOf(j) # {} \/ DedupeKeys(j[1], j[2]) \cap gone # {})

\* Each tag ends up on a monitor of the router, except a tag that was created in
\* Kuma without this node learning its id (by another node, or by a call of its
\* own whose answer was lost), and one that was detached by hand.
TagsLand ==
    <>[](~dryRun => \A j \in Monitored(containers) : \A t \in j[1].tags :
            \/ \E m \in MonitorsOf(j) : <<m, t>> \in monitorTags \cup detached
            \/ t \in tags \ tagsCache
            \/ DedupeKeys(j[1], j[2]) \cap gone # {})

\* README: "If multiple Traefik routers resolve to the exact same URL, the companion
\* groups them into a single Uptime Kuma monitor to prevent API spam."  Of the
\* monitors whose routers do not allow duplicates, two never have one URL.
OneMonitorPerURL ==
    \A m, n \in monitors :
        m[1][1] = n[1][1] /\ {m[1], n[1]} \cap DuplicatesAllowed = {} => m = n

\* Dry run, as main announces it: "No remote state will be altered."
DryRunAltersNothing ==
    [][dryRun /\ Companion => UNCHANGED kumaVars]_vars
=============================================================================
