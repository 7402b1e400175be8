# Traefik Mesh Companion in TLA+

Traefik Mesh Companion runs beside Traefik on each node of a mesh. It watches
the Docker daemon of its node and, from the Traefik labels of the containers,
keeps DNS records (NetBird, Cloudflare) and monitors (Uptime Kuma, Gatus) up to
date. Each node runs one companion; the companions of a mesh share the accounts
they write to and, apart from Kuma's coordinator, do not talk to each other.

This directory holds models of that program, the TLC runs that check them on
small instances, and proofs about them. `PROJECT.json` lists the runs, what each
definition models (file and lines), the hazards of the code, and the theorems.

    tlc -config nb_pipelines.cfg MCNetBird.tla     # a run
    tlapm NetBirdProofs.tla                        # the proofs

## 1. The system

| component | state it keeps | operations | what makes it hard |
| --- | --- | --- | --- |
| Docker watcher, `internal/watcher` | none but the ticker and the event stream; it shares `isHealthy` | `Start` (select over errors, events, ticks), `SyncAll` (list the containers, call each processor in turn) | events missed before the subscription and after the stream breaks; failed listings; one goroutine for everything |
| main, `cmd/companion`, and the health server, `internal/server` | `isHealthy` | assembly of the processors, SIGTERM, `/health` | two writers of one flag; the watcher is never told to stop |
| NetBird pipeline, `internal/dns/netbird` | `zoneMap`, `lastHosts`, `lastIgnored` | `Process`, `Sync`, `syncZone`, `upsertRecord`, `deleteRecord` | several nodes write to one zone from lists that are old by then; failed calls; crashes between calls |
| Cloudflare pipeline, `internal/dns/cloudflare` | the same | the same, with a record type and a label filter | the same |
| Kuma connection, `monitor/kuma/client.go` | `client`, `connecting`, `synced`, the managers | `ensureConnected`, `resetClient`, `doSync` | objects made by a goroutine and dropped while their own goroutines go on |
| Kuma monitors, `client.go`, `labels.go`, `builder.go` | `tracked`, `trackedURLs` | the loop of `Process` | keys that change, caches that never forget |
| Kuma coordinator, `coordinator.go` | `attachQueue` (100) | `RequestAttach`, the HTTP handler, `processQueue` | a bounded queue between goroutines and between nodes |
| Kuma status pages, `status_page.go` | `pageGroupsCache` | `SyncState`, `BindDomain`, `attachToGroup` | pages saved as a whole, from a cache, by two goroutines without a lock |
| Kuma tags, `tag_manager.go` | `tagsCache`, `attachedCache` | `ProcessTags`, `ensureTag` | tags shared by the nodes |
| Gatus bridge, `monitor/gatus` | `tracked` | `SyncState`, `Process` with orphan cleanup | endpoints of other nodes are adopted and deleted |
| Rule parser, `internal/traefik` | none | `ParseRule` | regular expressions in place of a grammar |
| Executor, `internal/core` | `DryRun` | `Run` | calls that go around it |
| Configuration | none | environment variables | |

How they interact. The watcher's goroutine calls `Process(services)` of each
processor in turn, so that no processor ever runs twice at a time on a node and
a slow one delays the rest. The DNS pipelines make HTTP calls; nodes meet only in
the records of the account. Kuma's `Process` hands attach requests to
`attachQueue`; the worker (`processQueue`) takes them out, and other nodes put
theirs in by HTTP. `isHealthy` is written by the watcher and main and read by
the health server.

What makes each part correct: the watcher misses no change for good and its flag
says whether Docker answers; a DNS pipeline brings the account in step with the
containers, deletes only its own records and never one somebody wants; a
coordinator lands every attach that is asked for, keeps a monitor in one group
per page, and never stops the watcher.

## 2. The modules

| module | models | checked by |
| --- | --- | --- |
| `MeshHosts` | `extractMeshHosts` of NetBird: from routers to active and ignored hosts | (used by `NetBird`) |
| `NetBird` | the NetBird pipelines of several nodes and their account | `MCNetBird`, runs `nb_*` |
| `OwnedRecords` | the abstract specification of a DNS pipeline: owners that change one entry at a time, each its own | property `ImplementsOwnedRecords` of `nb_pipelines` |
| `NetBirdProofs`, `NetBirdRefinement`, `NetBirdTruth` | theorems about `NetBird`; that it implements `OwnedRecords`; that what it remembers is true | `tlapm` |
| `TraefikRule` | what `ParseRule` takes from a rule and what the rule means | (used by `Cloudflare`) |
| `Cloudflare` | the Cloudflare pipeline, its filter, its zones and the people who edit them | `MCCloudflare`, run `cloudflare` |
| `CloudflareProofs` | theorems about `Cloudflare` | `tlapm` |
| `Watcher` | watcher, Docker, health flag, shutdown | (composed by `CompanionProcess`) |
| `CompanionProcess` | the process around the watcher: configuration, assembly of the processors, exits, panics, crashes, restarts | runs `watcher`, `watcher_skips` |
| `WatcherProofs` | theorems about both | `tlapm` |
| `KumaMonitors` | Kuma's monitors and tags: `doSync`, `Process`, the labels, `TagManager` | `MCKumaMonitors`, runs `monitors`, `kuma_url`, `kuma_dry_run` |
| `KumaMonitorsProofs` | theorems about `KumaMonitors` | `tlapm` |
| `StatusPages` | Kuma's connection, coordinator and status pages on the server node | `MCStatusPages`, runs `pages_live`, `pages_wipe_out` |
| `StatusPagesFaults` | `StatusPages` with a record of the saves that left a page wrong | `MCStatusPagesFaults`, run `pages_live` |
| `StatusPagesProofs` | theorems about `StatusPages` and `StatusPagesFaults` | `tlapm` |
| `Gatus` | the Gatus client and its bridge, which others use too | `MCGatus`, run `gatus` |
| `GatusProofs` | theorems about `Gatus` | `tlapm` |

But for `Watcher` and `CompanionProcess`, which is one process, the modules do not
share variables. They meet at `Process`: `Watcher` shows that each processor is
called again with the newest containers as long as the daemon answers, and the
others take from that their fairness and the free choice of when `Process` starts.

Definitions named `Bug...` are not part of the models. Each is a plausible
mistake in the definition that follows it; the properties have been tried against
models with that mistake in them.

### NetBird

One action per step of `Process(n)` that another actor can see: `Process` (hosts
compared with `lastHosts`, `lastIgnored`, and put into buckets), `SyncZone` (the
GET and the calls computed from it), `Upsert` and `Delete` (a call each),
`FinishSync` (`Sync` returns nil, the hosts are cached). Between any two of them
other nodes make theirs, containers are created and removed, and the process may
crash (`Restart`), which loses `lastHosts` and the calls not made.

`records` is a set of records with ids that are never used twice. A PUT on an id
that is gone does nothing (404). A call that fails is not applied; a call that is
applied and answered too late is the same as a call that is applied, since
`upsertRecord` and `deleteRecord` have no reader for their result. A request that
the server applies only after the client has given up and made its next call is
not modelled. The order of the records in a list and Go's map order are left
open. A service is a set of routers, a router (has a rule, its hosts, managed).
The NetBird pipeline reads neither `INTERNAL_FILTER` nor `mesh.dns.internal`, nor
does the model. `want` is a history variable: the hosts of the `Process` under way,
or those cached as synced; it is what the refinement maps to what an owner wants.

Nodes may route the same names. `Shared` are those that more than one may route, which
the documents neither forbid nor explain: each node then turns what it finds into an
entry of its own. Two nodes that list the zone before either has written each POST one,
so that the name has two records (README.md:23 of the companion speaks of "no ... duplicate
configurations during sync intervals"); or one deletes what the other has just PUT,
after which nobody serves the name, as neither looks again. `CopiesBounded` is about
all names and says that this is the worst of it: a record for each node that may
route the name, and never a second one of a node. The other properties speak of the names
that one node routes, in an account where other nodes fight over theirs.

### OwnedRecords

What a DNS pipeline promises, without lists, calls, ids or caches: owners share the
entries of some zones, decide which of their names they want served or left alone,
turn an entry of a wanted name into their own (`Claim`), add a missing one (`Add`),
and remove one of their own that nobody wants (`Remove`). `NetBird` maps `Process`
and `Restart` to `Decide`, a PUT to `Claim`, a POST to `Add`, a DELETE to `Remove`
and everything else to stuttering, and leaves shared names out; the guards of the abstract actions must hold when
the call is *made*, although it was planned on a list that is old by then.

### Cloudflare

As `NetBird`, for one companion, with what is different there: a record has a type,
and the update compares it (`Updates`); deletions come after all updates; a router
passes a filter or drops out of both host sets (`HostsOf`); zones may lie inside
zones, and a host goes to whichever of its zones Go's map order brings first
(`Placements`); with cleanup off only the zones of some host are synced. The
other actor is a person who adds, removes and rewrites records (`Edit`). `stale`
records the zones edited, or with failed calls, since they were listed.

A rule is a set of matchers (`TraefikRule`): the parser takes the hosts of every
`Host()`, negated or not, and `Means` is what Traefik makes of it. `Converges` compares
the zones with `Means`, not with the parser.

README.md:172 of the companion says that `mesh.routers.<name>.managed=false` makes all
pipelines ignore a router completely. The code reads another label,
`traefik.http.routers.<name>.mesh.managed` (client.go:232), which is what `managed` is here;
and with that label a router is not ignored completely either: its hosts are spared by
cleanup, unless the filter drops it first (client.go:250) or, with one zone inside another,
the host is put into the other zone (client.go:126). `LockHolds` therefore speaks of the
hosts placed in the zone, and no property says that unmanaged hosts are always spared.

### Watcher and CompanionProcess

The state of the containers is a version number. A listing reads it and the
processors are given what was read. Events are counted, as each leads to a full
`SyncAll`. `create` is not announced but shows in the list (`All: true`). The
error channel follows the Docker client: one error after the events that were
read, then closed; the select loop spins on the closed channel, which changes no
state. `Process` itself is a step that returns.

`CompanionProcess` is `main`: the environment (`config`) says which providers are
asked for, lack a variable, or are set up, and whether `SYNC_INTERVAL` is positive.
`Assemble` and `AssembleFails` are `main`'s blocks per provider in order: a DNS
provider whose `Init` fails ends the process, a monitor provider without its
variables panics (the nil pointer in a non-nil interface), no provider at all ends it,
and a ticker with a period that is not positive panics after the first `SyncAll`. What dies
is started again (`restart: unless-stopped`) with nothing of its state left.

While the API of a DNS provider is down this is a crash-loop, although README.md:29 of the
companion has a "liveness probe to prevent crash-loops during temporary API outages": main
calls `os.Exit(1)` when `Init` fails. `ComesUp` says that the loop ends with the outage. A
monitor provider without its variables makes one that does not end; the documents say
that the provider is skipped (`MonitorSkipped`, run `watcher_skips`).

### KumaMonitors

`Visit` is the body of `Process`'s loop up to `ProcessTags`: the label hierarchy
(`Label`), the URL with Go's random order of the hosts (`MonitorURLs`), the key, the
lookup in `trackedURLs` or `tracked`, `CreateMonitor` with its three outcomes. `EnsureTag`
and `AttachTag` are one tag each. `DoSync` fills four caches and forgets
nothing. Others make and remove monitors, make tags and detach them, before and after
the one listing. Label values are given, not parsed; that the string of URL and name
says which URL and which name it was made of is taken for granted.

Three history variables say what the process cannot know: `unheard`, the keys of monitors made
since its last listing by others, or by a call of its own without an answer; `gone`, the
keys it knows whose monitor was removed by hand; `detached`, the pairs of its cache that
were detached by hand.

### StatusPages

A *generation* is what one successful connection creates: client, page manager
with cache, coordinator with queue, worker and HTTP server. `resetClient` drops
the references and stops nothing, so the workers of old generations take part.
The port stays with the first generation that bound it. Pages are read and saved
in separate steps; a copy read earlier is saved whole. `Aliased` is what
`attachToGroup` leaves in the cached slice it edits in place before the save.
When `ensurePage` fails, the page may or may not have been created. Weights,
titles and the order of groups are left out; a data race on the cache map, which
Go answers by stopping the process, is a `Restart`. A payload posted over HTTP
whose sender gave up is put into the queue when there is room, which the repeated
posts of the model include.

`StatusPagesFaults` adds the history variable `spoilt`: the pages that one of three
saves has left wrong since the process started. A binding saved over a newer list
(`WipedOut`), a failed save of a list that had been edited in the cache
(`SaveFailed`), a worker's save over what another generation's worker had attached
(`Overwritten`). In each a cache then believes in what Kuma does not have.

### Gatus

One action per request: `SyncState` adopts all endpoints of the bridge, `Visit`
marks a router as active and adds its endpoint unless its key is tracked,
`DeleteEndpoint` removes an orphan. Groups and names are sequences of the segments
between slashes, so that the ambiguity of `group + "/" + name` and the split at the
first slash are the program's. A request may be done and not be answered in time,
which here, unlike in NetBird, matters: the result of a call decides what is
tracked. A POST of an endpoint that exists may be accepted or refused. `Others`
is another companion or a person at the same bridge. Two history variables say what
the process cannot know: `unheard`, the endpoints it has not heard of, and `gone`,
the tracked keys whose endpoint has left the bridge.

`DeleteEndpoint` puts name and group into the query of the URL without escaping them.
`ReadAs` says which endpoint the bridge takes a DELETE to name: after a `&` the rest of
the name is other parameters, after a `#` nothing arrives, `+` and `%` stand for other
characters, and a space makes a request it cannot read (`Refused`). Such a DELETE takes
another endpoint off the bridge, which may be tracked, routed or somebody else's, or none; and since
404 counts as done (client.go:273), the key of the orphan is forgotten. A URL with a control
character, on which `http.NewRequest` returns nil and the program panics, is not modelled. URL,
conditions and headers of an endpoint are left out, since nothing compares them.

## 3. The runs

| run | instance | shows |
| --- | --- | --- |
| `nb_pipelines` | 2 nodes with a container each, 2 zones, 6 hosts (one that both nodes route, one without a zone, one nobody routes), 4 leftover records, 2 changes, 1 failure, 1 crash | a zone never has more records of a name than nodes that may route it (`CopiesBounded`; two of the shared name do occur); and for the names of one node: a planned DELETE still hits the node's own A record when it is made (`OwnDeletesOnly`), and never the record of a host that is active or unmanaged on any node (`WantedNeverDeleted`); records of others' names stay (`ForeignRecordsStay`); the pipelines implement `OwnedRecords`; as long as no request fails, the cached hosts are the truth (`CacheIsTruth`) and the account converges (`ConvergesUnlessLost`); the inductive invariants of the proofs |
| `nb_lost_write` | 1 container, 1 failure | **violated** `Converges`: a failed call is never repeated |
| `nb_manual_record` | a record with foreign content | **violated** `ManualRecordsStay`: taken over by a PUT, then deleted |
| `cloudflare` | 2 zones, one inside the other, 4 hosts, 3 containers (a rule that excludes a host, a path-only router beside a filtered one, unmanaged routers, one of them without a rule), an MX and a TXT record and a leftover, with and without cleanup and dry run, 1 change, 2 faults | the Target Lock holds when the call is made (`LockHolds`), what is cached as synced is so (`CacheIsTruth`), whenever there is nothing to do the zones are in step with what the rules mean (`IdleInStep`), and they end up so (`Converges`), each with the exceptions its comment names |
| `watcher` | 2 processors, all configurations, 2 container changes, 1 outage, 1 failed listing, 1 crash or API outage | an announced change is never lost silently (`FreshOrUnhealthy`), ticks make up for the rest (`CatchesUp`), the flag ends up right (`HealthFollowsDocker`), main runs what is set up (`RunsWhatIsSetUp`), and comes up in the end if its monitor is set up or not asked for (`ComesUp`) |
| `watcher_skips` | the same without changes and faults | **violated** `MonitorSkipped`: a monitor provider without its variables makes the process panic at every start |
| `monitors` | 3 containers (two routers with one key, one whose URL changes, one that allows duplicates), a monitor that is there before, 1 tag, 1 change, 1 fault, dry run and not | this process makes no second monitor of a key (`NoDuplicateMonitors`), the client's maps agree with Kuma (`CacheMatchesKuma`), what is cached as attached is (`AttachedIsTrue`), monitors and tags appear (`MonitorsAppear`, `TagsLand`) |
| `kuma_url` | the same without faults, changes and an earlier monitor | **violated** `OneMonitorPerURL`: two routers of one URL and different names get two monitors |
| `kuma_dry_run` | the same without faults | **violated** `DryRunAltersNothing`: tags are written in dry run |
| `pages_live` | 1 page, 2 monitors, 2 groups, the global domain, queue of 1, 1 reset, 1 failure, 1 redeployment, 1 crash | a monitor is in one group per page (`OneGroupPerPage`), `Process` never runs without its managers (`NoNilManager`); the watcher always gets its goroutine back (`CyclesEnd`); attaches land for good on pages that are not spoilt, and on all of them after a restart (`AttachesLand`); on such pages a cache that says an attach is done tells the truth (`CachesHonest`) |
| `pages_wipe_out` | a router that binds a domain, no faults at all | **violated** `NoWipeOut`: binding a domain removes a monitor just attached |
| `gatus` | 3 routers, two of them with one key, three endpoints whose DELETE is misread as another's, as nobody's, or refused, leftovers, 1 change, 1 failure, 1 unanswered POST and DELETE, 1 act of others, 1 crash | cleanup spares the routers of the cycle (`WantedSpared`) and what others add after the start (`OthersSpared`), but for misread DELETEs; the tracked keys agree with the bridge (`CacheMatchesBridge`); routers get their endpoints unless they are `gone` (`EndpointsAppear`); orphans go unless they are `unheard` or the DELETE of their key does not name them (`OrphansGo`) |

The exceptions in the properties of `gatus`, `pages_live` and `monitors`, and those for
failed and edited zones in `cloudflare`, are needed: with one of them
taken out TLC finds a counterexample.

The violated properties state what the README or a comment of the code says; the
entries under `findings` quote it. Some behaviours are documented nowhere, or only in words
too loose to be a property of their own, so that no run states their contrary: a name that two
nodes route may get two records or none (see NetBird above), as may that of a container
that moves to another node, since the DELETE planned by the old node hits the record the new
node has just PUT; the label and the promise of README.md:172 (see Cloudflare); the crash-loop
of an outage (see CompanionProcess); and during the shutdown a listing may set the
health flag to true again, as nothing stops the watcher.

Bounds. Every bound is a constant named `Max...`; the actions carry it in their
guards and `spent` (`faults` in `CompanionProcess`) counts it. One change, one failure
and one crash suffice for the hazards above because each needs one fault at the wrong
moment, and TLC puts it at every moment. Two nodes suffice for the races on the account,
each being between a list and one foreign call; the proofs cover any number. `Cap = 1`
makes the queue of 100 full at once. Two generations make one old and one current. A router that binds
a domain is in `pages_wipe_out` only, and the global domain in `pages_live`; the invariants of that
run are proved for any routers. Two
copies of a monitor (`MaxCopies`) are one duplicate.

Fairness. `NetBird`, `Cloudflare`, `KumaMonitors` and `Gatus`: the goroutine of each node
goes on, because the ticker calls `Process` again and every request ends (the DNS and
Gatus clients have a timeout; Kuma's calls run on `context.Background()`, so there
it is an assumption); nothing is assumed of Docker, failures, people or crashes.
`CompanionProcess`: the process is scheduled and restarted and the ticker ticks; the
daemon and the APIs owe nothing (the liveness properties are conditional on their
staying up or down). `StatusPages`: the watcher, the connecting goroutine and the
workers go on; the senders on the queue are served in turn (strong fairness of
`RequestAttach` and `RemotePost`), which is how Go's channels wake blocked
senders. Deadlock is checked in the runs of `Gatus` and `StatusPages`, whose goroutines
never stop. The others may stop: a DNS pipeline when all is in sync, a Kuma client
in dry run with nothing to do, the process after `Exit`.

## 4. The proofs

`NetBirdProofs` proves for every set of nodes, hosts, zones, containers and
records, and every value of the bounds:

- `TypeCorrect`: `Spec => []TypeOK`.
- `PlanInvHolds`: `Spec => []PlanInv`, what holds of planned calls in any deployment.
- `CopiesBoundedHolds`: `OnePerName(InitRecords) /\ Spec => []CopiesBounded`, also in any.
- `TargetLockHolds`: `Deployment /\ Spec => []OwnDeletesOnly`.
- `CleanupSparesWanted`: `Deployment /\ FlatZones /\ Spec => []WantedNeverDeleted`.
- `SafetyInvHolds`, `FlatInvHolds`: the strengthenings themselves.

`NetBirdRefinement`: `NetBirdImplementsOwnedRecords` (the refinement, under `Deployment`
and `FlatZones`), `ForeignRecordsSafe` and `DryRunHolds` (two action properties, under
`Deployment`).

`NetBirdTruth`: `NetBirdCacheIsTruth`, `Deployment /\ Spec => []CacheIsTruth`.
The hypothesis `spent.failures = 0` of `CacheIsTruth` is needed: `nb_lost_write` shows what one failed call does.

`CloudflareProofs`: `CloudflareTypeCorrect`, `CloudflareLockHolds`,
`CloudflareCacheIsTruth`, and `CloudflareIdleInStep` (whenever `Process` would find nothing to do,
the zones are in step with what the rules mean), from the assumptions on the constants
alone: zones may be nested, hosts shared, people edit at any moment.

`WatcherProofs`: `WatcherTypeCorrect`, `NoChangeLostSilently`
(`Spec => []FreshOrUnhealthy`) and `CompanionRunsWhatIsSetUp`, for the whole process with its
crashes and restarts.

`KumaMonitorsProofs`: `MonitorsTypeCorrect`, `NoDuplicatesHold`, `CacheMatchesKumaHolds`,
`AttachedHolds`.

`StatusPagesProofs`: `StatusPagesTypeCorrect`, `NoNilManagerHolds`, `OneGroupHolds`
(`SoundPages /\ Spec => []OneGroupPerPage`) and `CachesHonestHolds`
(`FaultsSpec => []CachesHonest`).

`GatusProofs`: `GatusTypeCorrect`, `CleanupSparesRouters`, `CleanupSparesOthers`,
`GatusCacheMatches`.

Assumptions. `ConstantsOK` types the constants (in `KumaMonitors` also `FoundOK`); most
theorems need no other. In `Cloudflare` it also says that a record lies in a zone that its name
belongs to, since Cloudflare keeps no other, and that a nil map is not an empty one, as
`reflect.DeepEqual` has it. `Deployment` is what a mesh looks like that was set up as the README
of the companion describes: targets differ, no record left from before points a host that one node
routes at another node (`OwnTargets`), and at the start no name has two records in a zone. Names
may be shared. `FlatZones`: no zone inside another. `SoundPages`: no monitor is in two groups of
a page at the start.

The argument for NetBird. `CopiesBounded` is not inductive, as a POST that is planned adds a record
later whatever others do first. `CopiesInv` counts both: the records of a name and the nodes about
to POST it together are no more than the nodes that may route it (`Room`). A node plans a POST
only when its list shows no record, so that the others' plans leave room for it; making it turns a
plan into a record; a crash only forgets plans. It rests on `PlanInv`: nodes plan calls
for names of their own hosts only (`PlansOwnHosts`), ids are not used twice (`IdsFresh`), a PUT
keeps the name of its record (`PutsKeepNames`) and an idle node plans nothing
(`IdlePlansNothing`), which hold in any deployment.

Nor is `OwnDeletesOnly`: it could be broken by another node's PUT that takes over the record of a
planned DELETE, so one needs besides `PlanInv` that no record points a host of one node at another
node (`TargetsApart`). A POST of a name of one node makes no duplicate because the name is still free
when it is made (`PostsFillGaps`), which no other node can change as it does not route that host.
`SafetyInv` is their conjunction. For `WantedNeverDeleted` one also needs that a wanted host is in
the bucket of the one zone that can hold its record (`BucketsComplete`, `ZonesRespected`):
that is `FlatInv`. TLC checks both in `nb_pipelines`.

The argument for the refinement. `SafetyInv`, `FlatInv` and `PlansWanted` (what is
planned is still wanted) hold before each step. A PUT claims an entry whose name the node wants
(`PutsKeepNames`); a POST adds one that is missing (`PostsFillGaps`); a DELETE removes the
node's own (`OwnDeletesOnly`) that nobody wants (`WantedNeverDeleted`). `EntryInjective`
(no two records of a zone have one unshared name) lets a step on records be read as a step on entries.

The argument for Cloudflare. `LockInv` adds to `LockHolds` that ids are never given again and name
one record (`Ids`), and that no two calls under way are about one record (`CallsApart`),
so that making one leaves alone what the others were planned for. `CallsApart` holds when
a zone is planned since the update of a host and the deletion of an orphan never meet: the
orphan's name is not placed in the zone.

For the rest, `SeenInv` ties a Sync to what it was called with: every host is placed in a zone of
its own (`PlaceAsSeen`), `last` is what the last Sync saw (`LastAsSeen`), and each call is about
a host placed, or a name not placed, in its zone (`CallsFit`). `SyncedInv` then says of
every zone listed and not changed since that a host placed there is published or the call that
will publish it is still to be made (`HostsKept`), and that what is left of the companion belongs to
a host of this Sync or is about to be deleted (`OrphansDoomed`). Outside Sync no call is left, which
is `CacheIsTruth`; with the lemma `RoutedHosts` (what `ParseRule` takes is what a rule means and
what it excludes) it is `CloudflareIdleInStep`, the safety half of `Converges`.

The argument for NetBird's `CacheIsTruth` is the same one (`MemoryInv`, `TruthInv`), with two
differences: what one node relies on must survive the calls of the others, which only touch
names of their own or shared ones (`Deployment`, with the facts behind the refinement), and a failed call
loses its promise for good, hence `spent.failures = 0`. Zones may lie inside one another here.

The argument for the watcher. `FreshInv`: inside `SyncAll` the processors called so far
have the version of the listing, and that is the last one announced unless an event is
waiting (`SyncUnderWay`); without a stream nothing has been announced (`StreamPlaces`).
`Unstarted` carries it over the restarts of the process. For `RunsWhatIsSetUp`, `AssemblyInv`: at
each stage of `main` the processors are the providers of the earlier stages that are set up.

The argument for Kuma's monitors. `Known`: a client in sync knows a monitor for every key
Kuma has, but for keys that are `unheard`; so `Process` creates one only for keys that have none, or
none it could know of.
`CycleInSync` keeps `Process` to such clients, `GivenOut` makes every new id new to the caches.
`CacheMatchesKuma` is inductive next to it: an id enters a map only from Kuma's list or with the
monitor it names, a monitor that the client knows leaves Kuma only with its key `gone`, and one comes
to Kuma behind its back only with its key `unheard`. `OneMonitorPerURL` does not follow, as the key
has the name in it.

The argument for the status pages. `TypeInv` says what each goroutine holds where it is
(`WorkerPlaces`, `WatcherPlaces`) and that a connection is only made when the last one has been
given up (`GensBounded`), which is why the generations never run out. For `OneGroupPerPage`
every list, in Kuma, in a cache of any generation, or in a copy a goroutine is about to save,
has each monitor in one group at most; `Attached` and `Aliased` preserve that.

`CachesHonest` is what lets a worker skip an attach. It speaks of pages that are not spoilt,
of monitors that everybody asks for in one group of the page (`Agreed`), and not of the one
whose list is being saved (`Saving`), since the cached slice is edited before the save. Four facts
make it inductive. What a sync is about to store in the cache is still so in Kuma
(`StoreHonest`), though workers save in between. While only one generation exists and has not
stored the page, what its worker has copied differs from Kuma in the worker's own monitor
alone (`AloneInStep`), so that its save takes nothing away; of several generations a save that
does spoils the page. A list being saved has the worker's monitor where it is asked for
(`SaveWants`). And every payload is one that somebody asks for (`JobsAsked`).

The argument for Gatus. `ActiveComplete` strengthens `WantedSpared`: during the
loop every router visited is active, during the cleanup all of them are and no
active key is to be deleted. The lemma `JoinSplit` does the rest: joining what was
split gives the key back, so an endpoint that a DELETE would hit has the deleted
key, which is not active; all of this is about a DELETE that is not misread, and the theorems say
for any function `ReadAs` that the cases they name are the only others. For `OthersSpared`, `TrackedHeard`: a tracked key splits into an endpoint
the process has heard of, or into the namesake of one of its own.

For `CacheMatchesBridge`, each request either does to `tracked` what it did to the bridge, or its key
goes to `gone` or its endpoint to `unheard`; a DELETE that is misread puts the tracked keys it hits
(`KeysHit`) into `gone`.

Only model-checked: the liveness properties (`ConvergesUnlessLost`, `Converges` of Cloudflare, `CatchesUp`,
`HealthFollowsDocker`, `ComesUp`, `CyclesEnd`, `AttachesLand`, `MonitorsAppear`, `TagsLand`,
`EndpointsAppear`, `OrphansGo`), which are out of the prover's reach as they need fairness and
ENABLED. Every invariant and every action property of the runs that pass is proved. Only proved, and
not in a run: that a node in dry run writes nothing (`DryRunHolds`). For the
liveness of a cache that makes later work be skipped, the proofs give the safety half: what is
skipped is done (`CacheIsTruth`, `CachesHonest`, `CacheMatchesKuma`, `CacheMatchesBridge`).

## 5. What is not modelled

- The text of things: the regular expressions of the rule parser (a rule is given as its
  matchers), the splitting of labels into keys, tags and names, the colours of tags, log lines,
  JSON, URLs of requests.
- Fields that are written once and never compared: TTL and proxied flag of records; interval,
  retries and so on of monitors; URL, conditions and headers of Gatus endpoints; weights and
  titles of status pages.
- The HTTP plumbing of the health server and of `-health`, which keeps no state, and a
  Docker client that cannot be made.
- The coordinator's client mode, but for the payloads it posts.
- Calls that never return: the models assume that each one ends.
- Several nodes with models of their own on one Gatus bridge or one Cloudflare account: the others
  appear as the actions `Others` and `Edit`.
- Configuration: environment variables are the constants, and `config` of `CompanionProcess`.

## 6. Plan

Done: everything in section 2. What could follow, in this order:

1. `Cloudflare` as an implementation of `OwnedRecords` extended by an action for people. With
   nested zones a host may move from one to the other, which `Remove` does not allow: either the
   abstract specification speaks of zones that change, or the theorem assumes flat ones.
2. `ParseRule` on sequences of tokens, to say which rules the expressions misread.
3. The label maps of Gatus (`extractRouters`, `buildPayload`) as operators, so that
   `EndpointOf` is computed and not given.
