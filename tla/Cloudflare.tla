----------------------------- MODULE Cloudflare -----------------------------
(***************************************************************************)
(* The Cloudflare DNS pipeline (internal/dns/cloudflare/client.go): one    *)
(* companion keeps the records of its zones in step with the routers that  *)
(* pass its filter, while people edit the same zones by hand.              *)
(*                                                                         *)
(* A container is the set of its routers, each a record                    *)
(*   rule    : its rule (see TraefikRule), {} when it has none             *)
(*   managed : its mesh.managed label is not "false"                       *)
(*   words   : the words of EXTERNAL_FILTER its filter label contains      *)
(*                                                                         *)
(* A call and its effect are one step: the code drops its answer, so that  *)
(* a call refused by Cloudflare is one of the failures.                    *)
(***************************************************************************)
EXTENDS Naturals, Functions, TraefikRule

CONSTANTS
    Host,          \* host names
    Zone,          \* zone ids: the values of zoneMap, fetched once by Init
    ZonesOf,       \* ZonesOf[h]: the zones whose name is h or a dot-suffix of h
    Target,        \* CLOUDFLARE_TARGET_DOMAIN
    TargetType,    \* "A" if it is an address, else "CNAME"
    OtherContent,  \* what people write into records
    FilterWords,   \* the words of EXTERNAL_FILTER; the filter label is set
    Services,      \* the containers that may exist
    InitRecords,   \* records found in the zones
    ByHand,        \* what people may put into a zone, without an id
    FirstId,       \* the first id given to a record after InitRecords
    Nil,           \* lastHosts and lastIgnored before the first Sync
    Modes,         \* the deployments: EXTERNAL_CLEANUP and DRY_RUN
    MaxChanges,    \* bound: containers created or removed
    MaxFaults      \* bound: edits by people, calls that fail, and crashes

Content    == {Target} \cup OtherContent
RecordType == {"A", "CNAME", "other"}
Router     == [rule : SUBSET Matchers(Host), managed : BOOLEAN, words : SUBSET FilterWords]
Entries    == [zone : Zone, name : Host, type : RecordType, content : Content]
Record     == [id : Nat \ {0}, zone : Zone, name : Host, type : RecordType,
               content : Content]

ASSUME ConstantsOK ==
    /\ ZonesOf \in [Host -> SUBSET Zone]
    /\ TargetType \in {"A", "CNAME"}
    /\ Services \subseteq SUBSET Router
    /\ InitRecords \subseteq Record /\ ByHand \subseteq Entries
    \* Cloudflare keeps no record whose name is outside its zone.
    /\ \A r \in InitRecords \cup ByHand : r.zone \in ZonesOf[r.name]
    /\ FirstId \in Nat \ {0}
    /\ \A r, s \in InitRecords : r.id < FirstId /\ (r.id = s.id => r = s)
    \* A nil map is not an empty one to reflect.DeepEqual.
    /\ Nil \notin [active : SUBSET Host, ignored : SUBSET Host]
    /\ Modes \subseteq [cleanup : BOOLEAN, dryRun : BOOLEAN]
    /\ MaxChanges \in Nat /\ MaxFaults \in Nat

VARIABLES
    mode,        \* the deployment
    containers,  \* the containers Docker lists
    records,     \* the records of all zones
    nextId,      \* the id of the next record
    last,        \* lastHosts and lastIgnored
    pc,          \* "idle" outside Sync, "sync" inside
    seen,        \* the services Process was called with
    place,       \* activeByZone and ignoredByZone: the zone of each host
    todo,        \* the zones of zonesToSync not reached yet
    calls,       \* the calls of the current zone to make
    stale,       \* zones edited, or whose calls failed, since they were listed
    spent        \* how much of each bound is used up

vars == <<mode, containers, records, nextId, last, pc, seen, place, todo, calls,
          stale, spent>>

Partial(S, T) == UNION {[D -> T] : D \in SUBSET S}
Call == [op : {"PUT", "POST", "DELETE"}, zone : Zone, host : Host, id : Nat]

TypeOK ==
    /\ mode \in Modes
    /\ containers \subseteq Services /\ seen \subseteq Services
    /\ records \subseteq Record /\ nextId \in Nat \ {0}
    /\ last \in [active : SUBSET Host, ignored : SUBSET Host] \cup {Nil}
    /\ pc \in {"idle", "sync"}
    /\ place \in [active : Partial(Host, Zone), ignored : Partial(Host, Zone)]
    /\ todo \subseteq Zone /\ stale \subseteq Zone
    /\ calls \subseteq Call
    /\ spent \in [changes : 0..MaxChanges, faults : 0..MaxFaults]

NoPlace == [active |-> << >>, ignored |-> << >>]

Init ==
    /\ mode \in Modes
    /\ containers \in SUBSET Services
    /\ records = InitRecords /\ nextId = FirstId
    /\ last = Nil /\ pc = "idle" /\ seen = {}
    /\ place = NoPlace /\ todo = {} /\ calls = {} /\ stale = {}
    /\ spent = [changes |-> 0, faults |-> 0]

-----------------------------------------------------------------------------
\* svc.Hosts, collected by the watcher from all rules of the container.
ServiceHosts(svc) == UNION {ParseRule(r.rule) : r \in svc}

\* Bug: a rule without Host() is skipped.
BugRouterHosts(svc, r) == ParseRule(r.rule)

\* A rule without Host() stands for all the hosts of its container.
RouterHosts(svc, r) ==
    IF ParseRule(r.rule) = {} THEN ServiceHosts(svc) ELSE ParseRule(r.rule)

\* matchFilter: the label contains one of the words.
Passes(r) == r.words # {}

HostsOf(svcs, managed) ==
    UNION {UNION {RouterHosts(svc, r) :
                    r \in {x \in svc : x.rule # {} /\ Passes(x) /\ x.managed = managed}} :
            svc \in svcs}

\* extractMeshHosts: a router that does not pass is in neither set.
MeshHosts(svcs) == [active |-> HostsOf(svcs, TRUE), ignored |-> HostsOf(svcs, FALSE)]

\* bucketHosts: each host goes to the first zone of Go's random map order that
\* matches it; a host that matches none is skipped.
Placements(hosts) ==
    LET matched == {h \in hosts : ZonesOf[h] # {}}
    IN  {f \in [matched -> Zone] : \A h \in matched : f[h] \in ZonesOf[h]}

Placed(f, z) == {h \in DOMAIN f : f[h] = z}

\* Process, up to the first zone: nothing to do unless the hosts have changed.
Process ==
    LET hosts == MeshHosts(containers) IN
    /\ pc = "idle" /\ hosts # last
    /\ place' \in [active : Placements(hosts.active), ignored : Placements(hosts.ignored)]
    /\ todo' = IF mode.cleanup THEN Zone
               ELSE Range(place'.active) \cup Range(place'.ignored)
    /\ seen' = containers
    /\ pc' = "sync"
    /\ UNCHANGED <<mode, containers, records, nextId, last, calls, stale, spent>>

Listed(z) == {r \in records : r.zone = z}
IsOurs(r) == r.content = Target /\ r.type = TargetType

\* The scan for a host stops at the first record of that name, of any type.
FirstRecords(z) ==
    LET found == {h \in Placed(place.active, z) : \E r \in Listed(z) : r.name = h}
    IN  {f \in [found -> Listed(z)] : \A h \in found : f[h].name = h}

\* Bug: the type of a record is not compared.
BugUpdates(z, first) ==
    {[op |-> "PUT", zone |-> z, host |-> h, id |-> first[h].id] :
        h \in {x \in DOMAIN first : first[x].content # Target}}

Updates(z, first) ==
    {[op |-> "PUT", zone |-> z, host |-> h, id |-> first[h].id] :
        h \in {x \in DOMAIN first : ~IsOurs(first[x])}}

Creates(z, first) ==
    {[op |-> "POST", zone |-> z, host |-> h, id |-> 0] :
        h \in Placed(place.active, z) \ DOMAIN first}

\* Bug: any record with the target's content is an orphan, a TXT record too.
BugOrphans(z) ==
    {r \in Listed(z) : /\ r.content = Target
                       /\ r.name \notin Placed(place.active, z)
                       /\ r.name \notin Placed(place.ignored, z)}

Orphans(z) ==
    {r \in Listed(z) : /\ IsOurs(r)
                       /\ r.name \notin Placed(place.active, z)
                       /\ r.name \notin Placed(place.ignored, z)}

Deletes(z) ==
    {[op |-> "DELETE", zone |-> z, host |-> r.name, id |-> r.id] :
        r \in {x \in Orphans(z) : mode.cleanup}}

Fault ==
    /\ spent.faults < MaxFaults
    /\ spent' = [spent EXCEPT !.faults = @ + 1]

\* syncZone lists the zone and computes its calls from the list; if that fails,
\* Sync logs it and goes on with the next zone.
SyncZone(z) ==
    /\ pc = "sync" /\ z \in todo /\ calls = {}
    /\ todo' = todo \ {z}
    /\ \/ /\ \E first \in FirstRecords(z) :
                calls' = Updates(z, first) \cup Creates(z, first) \cup Deletes(z)
          /\ stale' = stale \ {z}
          /\ UNCHANGED spent
       \/ Fault /\ stale' = stale \cup {z} /\ UNCHANGED calls
    /\ UNCHANGED <<mode, containers, records, nextId, last, pc, seen, place>>

OurRecord(i, call) ==
    [id |-> i, zone |-> call.zone, name |-> call.host, type |-> TargetType,
     content |-> Target]

\* Bug: a new record takes the id of the call, as an update does.
BugApply(call) ==
    /\ records' = {r \in records : r.id # call.id} \cup
           (IF call.op = "DELETE" THEN {} ELSE {OurRecord(call.id, call)})
    /\ UNCHANGED nextId

\* What a call does to the records; one whose record is gone does nothing.
Apply(call) ==
    \/ /\ call.op = "PUT"
       /\ records' = {IF r.id = call.id THEN OurRecord(r.id, call) ELSE r : r \in records}
       /\ UNCHANGED nextId
    \/ /\ call.op = "POST"
       /\ records' = records \cup {OurRecord(nextId, call)}
       /\ nextId' = nextId + 1
    \/ /\ call.op = "DELETE"
       /\ records' = {r \in records : r.id # call.id}
       /\ UNCHANGED nextId

\* One call, through the executor; deletions come last.
Make(call) ==
    /\ call.op = "DELETE" => \A d \in calls : d.op = "DELETE"
    /\ calls' = calls \ {call}
    /\ \/ mode.dryRun /\ UNCHANGED <<records, nextId, stale, spent>>
       \/ ~mode.dryRun /\ Apply(call) /\ UNCHANGED <<stale, spent>>
       \/ /\ ~mode.dryRun /\ Fault
          /\ stale' = stale \cup {call.zone}
          /\ UNCHANGED <<records, nextId>>
    /\ UNCHANGED <<mode, containers, last, pc, seen, place, todo>>

\* Bug: the containers of the moment are taken as synced.
BugFinishSync ==
    /\ pc = "sync" /\ todo = {} /\ calls = {}
    /\ last' = MeshHosts(containers)
    /\ pc' = "idle"
    /\ UNCHANGED <<mode, containers, records, nextId, seen, place, todo, calls, stale,
                   spent>>

\* Sync returns nil whatever happened: Process takes the hosts as synced.
FinishSync ==
    /\ pc = "sync" /\ todo = {} /\ calls = {}
    /\ last' = MeshHosts(seen)
    /\ pc' = "idle"
    /\ UNCHANGED <<mode, containers, records, nextId, seen, place, todo, calls, stale,
                   spent>>

\* The process dies and is started again.
Restart ==
    /\ Fault
    /\ last' = Nil /\ pc' = "idle" /\ seen' = {}
    /\ place' = NoPlace /\ todo' = {} /\ calls' = {}
    /\ UNCHANGED <<mode, containers, records, nextId, stale>>

-----------------------------------------------------------------------------
\* Containers come and go.
Change ==
    /\ spent.changes < MaxChanges
    /\ spent' = [spent EXCEPT !.changes = @ + 1]
    /\ \E svc \in Services :
          containers' = IF svc \in containers THEN containers \ {svc}
                        ELSE containers \cup {svc}
    /\ UNCHANGED <<mode, records, nextId, last, pc, seen, place, todo, calls, stale>>

WithId(i, e) == [id |-> i, zone |-> e.zone, name |-> e.name, type |-> e.type,
                 content |-> e.content]

\* Somebody adds, removes or rewrites a record.
Edit ==
    /\ Fault
    /\ \/ \E e \in ByHand :
             /\ records' = records \cup {WithId(nextId, e)}
             /\ nextId' = nextId + 1
             /\ stale' = stale \cup {e.zone}
       \/ \E r \in records :
             /\ \/ records' = records \ {r}
                \/ \E e \in ByHand :
                      /\ e.zone = r.zone
                      /\ records' = (records \ {r}) \cup {WithId(r.id, e)}
             /\ stale' = stale \cup {r.zone}
             /\ UNCHANGED nextId
    /\ UNCHANGED <<mode, containers, last, pc, seen, place, todo, calls>>

Companion ==
    \/ Process
    \/ \E z \in todo : SyncZone(z)
    \/ \E call \in calls : Make(call)
    \/ FinishSync

Next == Companion \/ Restart \/ Change \/ Edit

Spec == Init /\ [][Next]_vars

\* The ticker calls Process again and again, and the calls return.
FairSpec == Spec /\ WF_vars(Companion)

-----------------------------------------------------------------------------
\* What a call was planned for is still so when it is made, unless the zone was
\* edited or a call failed meanwhile: an update names a record of its host, and a
\* deletion names a record with the target's content and type (README, Target
\* Lock) of a host that this Sync neither publishes nor leaves alone in that zone.
\* (With one zone inside another it may do so in the other.)
LockHolds ==
    \A call \in calls, r \in records :
        r.id = call.id /\ r.zone \notin stale =>
            /\ r.name = call.host
            /\ call.op = "DELETE" =>
                  /\ IsOurs(r)
                  /\ r.name \notin Placed(place.active, r.zone) \cup Placed(place.ignored, r.zone)

Published(h) == \E r \in records : r.name = h /\ r.zone \in ZonesOf[h] /\ IsOurs(r)
SettledFor(h) == ZonesOf[h] # {} /\ ZonesOf[h] \cap stale = {}

\* What Process compares with is what the zones hold: outside Sync, each host it
\* takes as synced is published and, with cleanup, nothing else of the companion
\* is left, but for zones edited or calls failed since.
CacheIsTruth ==
    pc = "idle" /\ last # Nil /\ ~mode.dryRun =>
        /\ \A h \in last.active : SettledFor(h) => Published(h)
        /\ mode.cleanup => \A r \in records : IsOurs(r) /\ r.zone \notin stale =>
                               r.name \in last.active \cup last.ignored

\* What Traefik makes of the routers, by the meaning of the rules: the hosts of a
\* managed router that passes the filter.  (A rule that only excludes hosts means
\* all the others, which no record can say.)
Routed(svcs) ==
    UNION {UNION {IF ParseRule(r.rule) = {} THEN UNION {Means(s.rule) : s \in svc}
                  ELSE Means(r.rule) :
                    r \in {x \in svc : x.rule # {} /\ x.managed /\ Passes(x)}} :
            svc \in svcs}

\* Hosts that a router names to exclude them, which the parser takes as routed.
Excluded(svcs) == UNION {UNION {Negative(r.rule) : r \in svc} : svc \in svcs}

LeftAlone(svcs) ==
    UNION {UNION {RouterHosts(svc, r) : r \in {x \in svc : ~x.managed /\ x.rule # {}}} :
            svc \in svcs}

\* The zones are in step with the containers: the routed hosts are published and,
\* with cleanup, no host that is not: not that of a removed container, nor of a
\* router whose filter label has changed.  The exceptions are zones edited or calls
\* failed since the last listing, unmanaged hosts, and hosts a rule excludes.
InStep ==
    ~mode.dryRun =>
        /\ \A h \in Routed(containers) : SettledFor(h) => Published(h)
        /\ mode.cleanup => \A r \in records : IsOurs(r) /\ r.zone \notin stale =>
              r.name \in Routed(containers) \cup LeftAlone(containers)
                         \cup Excluded(containers)

\* Whenever Process finds nothing to do, the zones are in step with the containers, by
\* what their rules mean to Traefik and not by what was extracted from them.
IdleInStep == pc = "idle" /\ last = MeshHosts(containers) => InStep

\* Once the containers stop changing, the zones are in step with them for good.
Converges == <>[]InStep
=============================================================================
