------------------------------ MODULE NetBird ------------------------------
(***************************************************************************)
(* The NetBird DNS pipeline (internal/dns/netbird/client.go): companions   *)
(* on several nodes keep the A records of the zones of one NetBird account *)
(* in step with the Traefik routers of their own containers.               *)
(*                                                                         *)
(* Each companion runs Process from one goroutine, at every container      *)
(* event and every tick.  Between the GET that lists a zone and the        *)
(* PUT/POST/DELETE calls computed from that list, containers change, other *)
(* companions write to the same zone, calls fail and companions restart.   *)
(*                                                                         *)
(* An API call and its effect on the store are one step.  Its answer is    *)
(* not modelled: upsertRecord and deleteRecord discard it, so "applied but *)
(* answered too late" is "applied", and every other error is "not applied".*)
(***************************************************************************)
EXTENDS Naturals, FiniteSets, MeshHosts

CONSTANTS
    Node,          \* the companions that share the NetBird account
    Host,          \* host names
    Zone,          \* zone ids: the values of zoneMap, fetched once by Init
    ZonesOf,       \* ZonesOf[h]: the zones whose name is h or a dot-suffix of h
    Target,        \* Target[n]: NETBIRD_TARGET_IP of n
    OtherContent,  \* record contents that no companion writes
    Cleanup,       \* Cleanup[n]: INTERNAL_CLEANUP of n
    DryRun,        \* DryRun[n]: DRY_RUN of n
    Services,      \* Services[n]: the containers that may exist on n
    InitRecords,   \* records in the account before any companion starts
    FirstId,       \* the first id NetBird gives to a record after that
    Nil,           \* lastHosts and lastIgnored before the first Sync
    MaxChanges,    \* bound: containers created or removed
    MaxFailures,   \* bound: API calls that fail
    MaxRestarts    \* bound: companion crashes

Content    == {Target[n] : n \in Node} \cup OtherContent
RecordType == {"A", "other"}
Record     == [id : Nat \ {0}, zone : Zone, name : Host, type : RecordType,
               content : Content]
Container  == UNION {Services[n] : n \in Node}
Router     == [rule : BOOLEAN, hosts : SUBSET Host, managed : BOOLEAN]

ASSUME ConstantsOK ==
    /\ ZonesOf \in [Host -> SUBSET Zone]
    /\ Cleanup \in [Node -> BOOLEAN]
    /\ DryRun \in [Node -> BOOLEAN]
    /\ Services \in [Node -> SUBSET SUBSET Router]
    /\ InitRecords \subseteq Record
    /\ IsFiniteSet(Node) /\ IsFiniteSet(InitRecords)
    /\ \A r, s \in InitRecords : r.id = s.id => r = s
    /\ FirstId \in Nat \ {0}
    /\ \A r \in InitRecords : r.id < FirstId
    /\ MaxChanges \in Nat /\ MaxFailures \in Nat /\ MaxRestarts \in Nat

VARIABLES
    containers,  \* containers[n]: the containers Docker lists on n
    records,     \* the records of the account, over all its zones
    nextId,      \* the id NetBird gives to the next record
    last,        \* last[n]: lastHosts and lastIgnored of n, or Nil
    pc,          \* pc[n]: "idle" outside Sync, "sync" inside
    want,        \* want[n]: activeHosts and ignoredHosts of the Sync under way
    bucket,      \* bucket[n]: activeByZone and ignoredByZone of that Sync
    todo,        \* todo[n]: the zones of zonesToSync not reached yet
    upserts,     \* upserts[n]: PUT and POST calls of the current zone to make
    deletes,     \* deletes[n]: ids whose DELETE in the current zone is to come
    spent        \* how much of each bound is used up

storeVars == <<records, nextId>>
jobVars   == <<want, bucket, todo, upserts, deletes>>
vars      == <<containers, records, nextId, last, pc, want, bucket, todo,
               upserts, deletes, spent>>

HostSets == [active : SUBSET Host, ignored : SUBSET Host]
NoHosts  == [active |-> {}, ignored |-> {}]
Buckets  == [active : [Zone -> SUBSET Host], ignored : [Zone -> SUBSET Host]]
NoBucket == [active |-> [z \in Zone |-> {}], ignored |-> [z \in Zone |-> {}]]

\* A PUT names the record it replaces; the id of a POST is empty.
NoId == 0
Call == [op : {"PUT", "POST"}, zone : Zone, host : Host, id : Nat]

TypeOK ==
    /\ containers \in [Node -> SUBSET Container]
    /\ \A n \in Node : containers[n] \subseteq Services[n]
    /\ records \subseteq Record
    /\ nextId \in Nat \ {0}
    /\ last \in [Node -> HostSets \cup {Nil}]
    /\ pc \in [Node -> {"idle", "sync"}]
    /\ want \in [Node -> HostSets]
    /\ bucket \in [Node -> Buckets]
    /\ todo \in [Node -> SUBSET Zone]
    /\ upserts \in [Node -> SUBSET Call]
    /\ deletes \in [Node -> SUBSET (Nat \ {0})]
    /\ spent \in [changes : 0..MaxChanges, failures : 0..MaxFailures,
                  restarts : 0..MaxRestarts]

\* Companions boot with nil maps; Docker and the account are as found.
Init ==
    /\ containers \in [Node -> SUBSET Container]
    /\ \A n \in Node : containers[n] \subseteq Services[n]
    /\ records = InitRecords
    /\ nextId = FirstId
    /\ last = [n \in Node |-> Nil]
    /\ pc = [n \in Node |-> "idle"]
    /\ want = [n \in Node |-> NoHosts]
    /\ bucket = [n \in Node |-> NoBucket]
    /\ todo = [n \in Node |-> {}]
    /\ upserts = [n \in Node |-> {}]
    /\ deletes = [n \in Node |-> {}]
    /\ spent = [changes |-> 0, failures |-> 0, restarts |-> 0]

-----------------------------------------------------------------------------
\* The calls of the current zone are all made: syncZone has returned.
ZoneDone(n) == upserts[n] = {} /\ deletes[n] = {}

\* Definitions named Bug... are plausible mistakes in the definition that follows
\* them; the properties below are tried against each.  Here: any zone matches.
BugBucketings(hosts) ==
    {[z \in Zone |-> {h \in hosts : f[h] = z}] : f \in [hosts -> Zone]}

\* bucketHosts: a host goes to the first zone of the map that matches it, in
\* Go's random iteration order; a host that matches none is skipped.
Bucketings(hosts) ==
    LET matched == {h \in hosts : ZonesOf[h] # {}}
        choices == {f \in [matched -> Zone] : \A h \in matched : f[h] \in ZonesOf[h]}
    IN  {[z \in Zone |-> {h \in matched : f[h] = z}] : f \in choices}

ZonesToSync(n, b) ==
    IF Cleanup[n] THEN Zone
    ELSE {z \in Zone : b.active[z] # {} \/ b.ignored[z] # {}}

\* Process, up to the first zone: nothing to do unless the hosts have changed.
Process(n) ==
    LET hosts == MeshHosts(containers[n]) IN
    /\ pc[n] = "idle"
    /\ hosts # last[n]
    /\ \E a \in Bucketings(hosts.active), i \in Bucketings(hosts.ignored) :
          LET b == [active |-> a, ignored |-> i] IN
          /\ bucket' = [bucket EXCEPT ![n] = b]
          /\ todo' = [todo EXCEPT ![n] = ZonesToSync(n, b)]
    /\ want' = [want EXCEPT ![n] = hosts]
    /\ pc' = [pc EXCEPT ![n] = "sync"]
    /\ UNCHANGED <<containers, records, nextId, last, upserts, deletes, spent>>

Listed(z)        == {r \in records : r.zone = z}
RecordsOf(z, h)  == {r \in Listed(z) : r.name = h}

\* Bug: only A records count as existing.
BugFirstRecords(z, hosts) ==
    LET found == {h \in hosts : \E r \in RecordsOf(z, h) : r.type = "A"}
    IN  {f \in [found -> Listed(z)] :
            \A h \in found : f[h].name = h /\ f[h].type = "A"}

\* The scan for a host stops at the first record of that name, whatever its
\* type; the order of the list is the API's.
FirstRecords(z, hosts) ==
    LET found == {h \in hosts : RecordsOf(z, h) # {}}
    IN  {f \in [found -> Listed(z)] : \A h \in found : f[h].name = h}

\* Bug: every active host is created.
BugUpsertsAll(n, z, first) ==
    {[op |-> "POST", zone |-> z, host |-> h, id |-> NoId] : h \in bucket[n].active[z]}

\* Bug: a record that exists is taken to be right.
BugUpsertsNoPut(n, z, first) ==
    {[op |-> "POST", zone |-> z, host |-> h, id |-> NoId] :
        h \in bucket[n].active[z] \ DOMAIN first}

UpsertsFor(n, z, first) ==
    {[op |-> "PUT", zone |-> z, host |-> h, id |-> first[h].id] :
        h \in {x \in DOMAIN first : first[x].content # Target[n]}}
    \cup {[op |-> "POST", zone |-> z, host |-> h, id |-> NoId] :
        h \in bucket[n].active[z] \ DOMAIN first}

\* Bug: no Target Lock.
BugOrphansAnyContent(n, z) ==
    {r \in Listed(z) : /\ r.name \notin bucket[n].active[z]
                       /\ r.name \notin bucket[n].ignored[z]
                       /\ r.type = "A"}

\* Bug: unmanaged hosts are not spared.
BugOrphansIgnored(n, z) ==
    {r \in Listed(z) : /\ r.name \notin bucket[n].active[z]
                       /\ r.content = Target[n]
                       /\ r.type = "A"}

\* The "Target Lock": only A records that point at this node are orphans.
Orphans(n, z) ==
    {r \in Listed(z) : /\ r.name \notin bucket[n].active[z]
                       /\ r.name \notin bucket[n].ignored[z]
                       /\ r.content = Target[n]
                       /\ r.type = "A"}

DeletesFor(n, z) == IF Cleanup[n] THEN {r.id : r \in Orphans(n, z)} ELSE {}

\* A request that comes to nothing: refused, timed out, or an error status.
RequestFails ==
    /\ spent.failures < MaxFailures
    /\ spent' = [spent EXCEPT !.failures = @ + 1]

\* syncZone lists the zone and computes its calls from that list; when the GET
\* fails, Sync logs the error and goes on with the next zone.
SyncZone(n, z) ==
    /\ pc[n] = "sync"
    /\ z \in todo[n]
    /\ ZoneDone(n)
    /\ todo' = [todo EXCEPT ![n] = @ \ {z}]
    /\ \/ /\ \E first \in FirstRecords(z, bucket[n].active[z]) :
               upserts' = [upserts EXCEPT ![n] = UpsertsFor(n, z, first)]
          /\ deletes' = [deletes EXCEPT ![n] = DeletesFor(n, z)]
          /\ UNCHANGED spent
       \/ RequestFails /\ UNCHANGED <<upserts, deletes>>
    /\ UNCHANGED <<containers, records, nextId, last, pc, want, bucket>>

\* Bug: the type of the record is left as it is.
BugUpdated(n, c, r) ==
    IF r.id = c.id THEN [r EXCEPT !.name = c.host, !.content = Target[n]] ELSE r

\* What NetBird does with a PUT (404 if the record is gone) and with a POST.
Updated(n, c, r) ==
    IF r.id = c.id
    THEN [r EXCEPT !.name = c.host, !.type = "A", !.content = Target[n]]
    ELSE r

ApplyPut(n, c) ==
    /\ records' = {Updated(n, c, r) : r \in records}
    /\ UNCHANGED nextId

\* Bug: host and address, both strings, change places.
BugApplyPost(n, c) ==
    /\ records' = records \cup
          {[id |-> nextId, zone |-> c.zone, name |-> Target[n], type |-> "A",
            content |-> c.host]}
    /\ nextId' = nextId + 1

ApplyPost(n, c) ==
    /\ records' = records \cup
          {[id |-> nextId, zone |-> c.zone, name |-> c.host, type |-> "A",
            content |-> Target[n]]}
    /\ nextId' = nextId + 1

\* upsertRecord: the executor skips it in dry-run mode; its result is dropped.
Upsert(n, c) ==
    /\ c \in upserts[n]
    /\ upserts' = [upserts EXCEPT ![n] = @ \ {c}]
    /\ \/ DryRun[n] /\ UNCHANGED <<records, nextId, spent>>
       \/ ~DryRun[n] /\ c.op = "PUT" /\ ApplyPut(n, c) /\ UNCHANGED spent
       \/ ~DryRun[n] /\ c.op = "POST" /\ ApplyPost(n, c) /\ UNCHANGED spent
       \/ ~DryRun[n] /\ RequestFails /\ UNCHANGED <<records, nextId>>
    /\ UNCHANGED <<containers, last, pc, want, bucket, todo, deletes>>

\* deleteRecord, after every upsert of the zone; its result is dropped as well.
Delete(n, id) ==
    /\ upserts[n] = {}
    /\ id \in deletes[n]
    /\ deletes' = [deletes EXCEPT ![n] = @ \ {id}]
    /\ \/ DryRun[n] /\ UNCHANGED <<records, spent>>
       \/ /\ ~DryRun[n]
          /\ records' = {r \in records : r.id # id}
          /\ UNCHANGED spent
       \/ ~DryRun[n] /\ RequestFails /\ UNCHANGED records
    /\ UNCHANGED <<containers, nextId, last, pc, want, bucket, todo, upserts>>

\* Bug: the hosts are read again after the calls.
BugFinishSync(n) ==
    /\ pc[n] = "sync"
    /\ todo[n] = {}
    /\ ZoneDone(n)
    /\ last' = [last EXCEPT ![n] = MeshHosts(containers[n])]
    /\ pc' = [pc EXCEPT ![n] = "idle"]
    /\ UNCHANGED <<containers, records, nextId, want, bucket, todo, upserts,
                   deletes, spent>>

\* Sync returns nil whatever happened, so Process takes the hosts as synced.
FinishSync(n) ==
    /\ pc[n] = "sync"
    /\ todo[n] = {}
    /\ ZoneDone(n)
    /\ last' = [last EXCEPT ![n] = want[n]]
    /\ pc' = [pc EXCEPT ![n] = "idle"]
    /\ UNCHANGED <<containers, records, nextId, want, bucket, todo, upserts,
                   deletes, spent>>

\* The process dies and the container runtime starts it again.
Restart(n) ==
    /\ spent.restarts < MaxRestarts
    /\ spent' = [spent EXCEPT !.restarts = @ + 1]
    /\ last' = [last EXCEPT ![n] = Nil]
    /\ pc' = [pc EXCEPT ![n] = "idle"]
    /\ want' = [want EXCEPT ![n] = NoHosts]
    /\ bucket' = [bucket EXCEPT ![n] = NoBucket]
    /\ todo' = [todo EXCEPT ![n] = {}]
    /\ upserts' = [upserts EXCEPT ![n] = {}]
    /\ deletes' = [deletes EXCEPT ![n] = {}]
    /\ UNCHANGED <<containers, records, nextId>>

-----------------------------------------------------------------------------
\* ContainerList(All: true) shows a container from its creation to its removal.
Change(n, svcs) ==
    /\ spent.changes < MaxChanges
    /\ spent' = [spent EXCEPT !.changes = @ + 1]
    /\ containers' = [containers EXCEPT ![n] = svcs]
    /\ UNCHANGED <<records, nextId, last, pc, want, bucket, todo, upserts, deletes>>

CreateContainer(n) ==
    \E svc \in Services[n] \ containers[n] : Change(n, containers[n] \cup {svc})

RemoveContainer(n) ==
    \E svc \in containers[n] : Change(n, containers[n] \ {svc})

\* The steps of the goroutine that runs Process on n.
Companion(n) ==
    \/ Process(n)
    \/ \E z \in Zone : SyncZone(n, z)
    \/ \E c \in upserts[n] : Upsert(n, c)
    \/ \E id \in deletes[n] : Delete(n, id)
    \/ FinishSync(n)

Environment(n) == Restart(n) \/ CreateContainer(n) \/ RemoveContainer(n)

Next == \E n \in Node : Companion(n) \/ Environment(n)

Spec == Init /\ [][Next]_vars

\* The ticker calls Process again and again, and every request has a timeout.
Fairness == \A n \in Node : WF_vars(Companion(n))

FairSpec == Spec /\ Fairness

-----------------------------------------------------------------------------
\* Every host name the containers of n may ever carry.
HostsOf(n) == UNION {ServiceHosts(svc) : svc \in Services[n]}

\* The names that more than one node may route.  Of these each node makes its own
\* entry out of what it finds, and nobody can tell who is right.
Shared == {h \in Host : \E m, n \in Node : m # n /\ h \in HostsOf(m) \cap HostsOf(n)}

\* The nodes that may route h.
Claimants(h) == {n \in Node : h \in HostsOf(n)}

\* Each node has its own target, and no record left over from before points a host
\* that only one node routes at another node.
OwnTargets ==
    /\ \A m, n \in Node : m # n => Target[m] # Target[n]
    /\ \A m, n \in Node, r \in InitRecords :
          m # n /\ r.content = Target[n] => r.name \notin HostsOf(m) \ Shared

\* No zone of the account is inside another one, and every record found there
\* is in the zone its name belongs to.
FlatZones ==
    /\ \A h \in Host : \A y, z \in ZonesOf[h] : y = z
    /\ \A r \in InitRecords : r.zone \in ZonesOf[r.name]

\* A zone holds at most one record of a name.
OnePerName(rs) == \A r, s \in rs : r.zone = s.zone /\ r.name = s.name => r = s

\* The Target Lock still holds when a DELETE is made, not only when it was
\* planned: a record that is about to be deleted is an A record that points at
\* the node deleting it, whatever others did to the zone since it was listed;
\* unless another node routes the name too, and has written to it in between.
OwnDeletesOnly ==
    \A n \in Node : \A id \in deletes[n] : \A r \in records :
        r.id = id /\ r.name \notin Shared => r.content = Target[n] /\ r.type = "A"

\* No node deletes a record that it or another node wants: the name of a record
\* about to be deleted is neither active nor ignored on any node's last word;
\* unless another node routes the name too.
WantedNeverDeleted ==
    \A m, n \in Node : \A id \in deletes[n] : \A r \in records :
        r.id = id /\ r.name \notin Shared => r.name \notin want[m].active \cup want[m].ignored

\* The list that says a name is free is old when the POST is made, and POSTs are
\* repeated after failures and restarts: yet a name gets at most one record from
\* each node that may route it.  Only nodes that list the zone before either has
\* written make copies; a node never adds to what it made itself.
CopiesBounded ==
    \A z \in Zone, h \in Host :
        LET copies == Cardinality(RecordsOf(z, h)) IN
        copies <= 1 \/ copies <= Cardinality(Claimants(h))

\* h has a record that points at n, in a zone h belongs to.
Served(n, h) ==
    \E r \in records : /\ r.zone \in ZonesOf[h]
                       /\ r.name = h
                       /\ r.content = Target[n]

\* A record the next cleanup of n would have to remove.
Orphan(n, hosts, r) ==
    /\ r.content = Target[n]
    /\ r.type = "A"
    /\ r.name \notin hosts.active \cup hosts.ignored

\* What Process compares with is what the account holds: outside Sync, each
\* host of lastHosts that has a zone and that no other node routes is served, and
\* with cleanup on no orphan is left.  Process never looks again until the hosts
\* change.  (A failed request breaks this: see Converges.)
CacheIsTruth ==
    spent.failures = 0 => \A n \in Node : pc[n] = "idle" /\ last[n] # Nil /\ ~DryRun[n] =>
        /\ \A h \in last[n].active \ Shared : ZonesOf[h] # {} => Served(n, h)
        /\ Cleanup[n] => \A r \in records : ~Orphan(n, last[n], r)

\* A node in dry-run mode leaves no mark on the account: whatever it plans and
\* whatever the others write, the records that point at it stay as they are, but
\* for names that others route as well.
DryRunWritesNothing ==
    [][\A n \in Node : DryRun[n] =>
          {r \in records' : r.content = Target[n] /\ r.name \notin Shared}
        = {r \in records : r.content = Target[n] /\ r.name \notin Shared}]_records

\* The README's promise on orphan cleanup: a record somebody else made, with
\* a content of their own, is never deleted.
ManualRecordsStay ==
    \A r \in InitRecords : r.content \in OtherContent =>
        \E s \in records : s.id = r.id

\* The part of that promise that is kept: a record of a name no node ever routes,
\* with a content no node writes, is never touched by any cleanup or update.
ForeignRecordsStay ==
    [][\A r \in records :
          (\A n \in Node : r.name \notin HostsOf(n) /\ r.content # Target[n])
             => r \in records']_records

\* n is in step: the account serves its routed hosts, those that others route as well
\* excepted, and with cleanup on holds none of its orphans.
InStep(n) ==
    LET hosts == MeshHosts(containers[n]) IN
    /\ \A h \in hosts.active \ Shared : ZonesOf[h] # {} => Served(n, h)
    /\ Cleanup[n] => \A r \in records : ~Orphan(n, hosts, r)

\* Once the containers stop changing every node ends up in step, for good.
Converges == \A n \in Node : ~DryRun[n] => <>[]InStep(n)

\* So it does if no request has failed: through changes, crashes, and the calls that
\* the others plan on the same zones.
ConvergesUnlessLost ==
    \A n \in Node : ~DryRun[n] => <>[](spent.failures = 0 => InStep(n))

-----------------------------------------------------------------------------
\* The inductive invariant behind the safety properties above.  The
\* first parts hold in any deployment.
IdlePlansNothing ==
    \A n \in Node : pc[n] = "idle" => todo[n] = {} /\ ZoneDone(n)

\* A companion only ever plans to write hosts of its own containers.
PlansOwnHosts ==
    \A n \in Node :
        /\ want[n].active \cup want[n].ignored \subseteq HostsOf(n)
        /\ \A z \in Zone : bucket[n].active[z] \subseteq HostsOf(n)
        /\ \A call \in upserts[n] : call.host \in HostsOf(n)
        /\ \A call \in upserts[n] : call.op = "POST" => call.id = NoId

\* Ids name one record, and a planned call never names a record yet to come.
IdsFresh ==
    /\ \A r, s \in records : r.id = s.id => r = s
    /\ \A r \in records : r.id < nextId
    /\ \A n \in Node : \A id \in deletes[n] : id < nextId
    /\ \A n \in Node : \A call \in upserts[n] : call.id < nextId

\* No record points a host that only one node routes at another node.
TargetsApart ==
    \A m, n \in Node : m # n =>
        \A r \in records : r.content = Target[n] => r.name \notin HostsOf(m) \ Shared

\* What the list said of a name is still so when the call it led to is made; of a
\* shared name only that a PUT keeps it.
PutsKeepNames ==
    \A n \in Node : \A call \in upserts[n] : \A r \in records :
        call.op = "PUT" /\ r.id = call.id => r.name = call.host

PostsFillGaps ==
    \A n \in Node : \A call \in upserts[n] : \A r \in records :
        call.op = "POST" /\ call.host \notin Shared =>
            ~(r.zone = call.zone /\ r.name = call.host)

\* The records that OwnedRecords knows of.
Unshared(rs) == {r \in rs : r.name \notin Shared}

NoDuplicateRecords == OnePerName(Unshared(records))

\* The parts that hold in any deployment.
PlanInv == IdlePlansNothing /\ PlansOwnHosts /\ IdsFresh /\ PutsKeepNames

\* The nodes about to POST h, and how many records of h they may come to make.
Planned(z, h) ==
    {n \in Node : \E call \in upserts[n] :
        call.op = "POST" /\ call.zone = z /\ call.host = h}

Room(h) == IF Claimants(h) = {} THEN 1 ELSE Cardinality(Claimants(h))

CopiesInv ==
    /\ IsFiniteSet(records)
    /\ \A z \in Zone, h \in Host :
          Cardinality(RecordsOf(z, h)) + Cardinality(Planned(z, h)) <= Room(h)

SafetyInv ==
    /\ IdlePlansNothing
    /\ PlansOwnHosts
    /\ IdsFresh
    /\ TargetsApart
    /\ PutsKeepNames
    /\ PostsFillGaps
    /\ OwnDeletesOnly
    /\ NoDuplicateRecords

\* With flat zones, also: records and calls stay in the zone of their name, and
\* a host that is wanted is in the bucket of that zone.
ZonesRespected ==
    /\ \A r \in records : r.zone \in ZonesOf[r.name]
    /\ \A n \in Node : \A call \in upserts[n] : call.zone \in ZonesOf[call.host]

BucketsComplete ==
    \A n \in Node : pc[n] = "sync" =>
        \A z \in Zone, h \in Host : z \in ZonesOf[h] =>
            /\ h \in want[n].active => h \in bucket[n].active[z]
            /\ h \in want[n].ignored => h \in bucket[n].ignored[z]

BucketsSound ==
    \A n \in Node : \A z \in Zone : \A h \in bucket[n].active[z] : z \in ZonesOf[h]

FlatInv == ZonesRespected /\ BucketsComplete /\ BucketsSound /\ WantedNeverDeleted

\* What a Sync writes it still wants: its hosts do not change under it.
PlansWanted ==
    \A n \in Node :
        /\ \A z \in Zone : bucket[n].active[z] \subseteq want[n].active
        /\ \A call \in upserts[n] : call.host \in want[n].active

-----------------------------------------------------------------------------
\* The account as OwnedRecords sees it: without ids, and without shared names.
Entry(r) == [zone |-> r.zone, name |-> r.name, type |-> r.type, content |-> r.content]

Entries(rs) == {Entry(r) : r \in Unshared(rs)}

Owned == INSTANCE OwnedRecords WITH
    Owner     <- Node,
    Names     <- [n \in Node |-> HostsOf(n) \ Shared],
    ContentOf <- Target,
    TypeOf    <- [n \in Node |-> "A"],
    entries   <- Entries(records),
    want      <- [n \in Node |-> [active  |-> want[n].active \ Shared,
                                  ignored |-> want[n].ignored \ Shared]]

\* NetBird's pipelines implement OwnedRecords: although every PUT, POST and DELETE
\* is planned on a list that is old by then, and restarts forget the plans, each
\* is made when its name is still wanted, missing, or unwanted by every node.
ImplementsOwnedRecords == Owned!Spec
=============================================================================
