---------------------------- MODULE StatusPages ----------------------------
(***************************************************************************)
(* The status pages of Uptime Kuma as the companion in "server" mode keeps *)
(* them (internal/monitor/kuma: client.go, coordinator.go, status_page.go).*)
(*                                                                         *)
(* Every connection to Kuma makes a generation of objects: a client, a     *)
(* StatusPageManager with its cache of the page groups, and a Coordinator  *)
(* with its queue, its processQueue goroutine and an HTTP server for the   *)
(* other nodes.  resetClient forgets the generation but stops none of its  *)
(* goroutines.  Two kinds of goroutine update pages, without a lock: the   *)
(* worker of each generation attaches monitors to groups, and the watcher's*)
(* goroutine, in doSync and Process, fills the cache and binds domains.    *)
(*                                                                         *)
(* A group list is the set of group names and the groups each monitor is   *)
(* in.  A page that Kuma returns holds the groups it stores, as doSync and *)
(* attachToGroup assume.  Go's map race on the cache may kill the process: *)
(* that is a Restart.                                                      *)
(***************************************************************************)
EXTENDS Naturals, Sequences, FiniteSets

CONSTANTS
    Page, Monitor, Group, Domain,
    None,          \* no page, no group, no domain, no object
    GlobalPage,    \* KUMA_GLOBAL_STATUS_PAGE, or None
    GlobalDomain,  \* KUMA_GLOBAL_STATUS_PAGE_DOMAIN, or None
    LocalRouters,  \* the routers the containers of this node may have
    Remote,        \* the payloads the client nodes post, every cycle
    InitPages,     \* the pages Kuma may hold at the start
    Cap,           \* the length of attachQueue (100 in the code)
    MaxResets,     \* bound: resetClient calls
    MaxFailures,   \* bound: page calls that fail
    MaxChanges,    \* bound: changes of the routers of this node
    MaxRestarts    \* bound: crashes of the companion

Groups   == [names : SUBSET Group, in : [Monitor -> SUBSET Group]]
PageData == [groups : Groups, domains : SUBSET Domain]
Gen      == 1..(MaxResets + 1)

\* What getPagesFromLabels makes of a container's labels, for one monitor; a
\* router may also bind the domain of its rule to a page.
Payload == [monitor : Monitor, pages : [Page -> Group \cup {None}]]
Router  == [slug : Page \cup {None}, domain : Domain \cup {None},
            attach : Payload \cup {None}]

ASSUME ConstantsOK ==
    /\ None \notin Page \cup Group \cup Domain /\ None \notin PageData
    /\ GlobalPage \in Page \cup {None} /\ GlobalDomain \in Domain \cup {None}
    /\ \A r \in LocalRouters :
          /\ r \in Router
          /\ r.slug # None => r.domain # None
    /\ Remote \subseteq Payload
    /\ InitPages \subseteq [Page -> PageData \cup {None}]
    /\ Cap \in Nat \ {0}
    /\ MaxResets \in Nat /\ MaxFailures \in Nat
    /\ MaxChanges \in Nat /\ MaxRestarts \in Nat

VARIABLES
    kuma,        \* kuma[p]: what Kuma stores for page p, None if p is missing
    gens,        \* generations made since the process started
    client,      \* the generation in c.client and its companions, 0 if nil
    connecting,  \* a connection attempt is under way
    synced,      \* c.synced
    port,        \* the generation whose HTTP server holds the port, 0 if none
    cache,       \* cache[g]: pageGroupsCache of generation g
    queue,       \* queue[g]: attachQueue of generation g
    worker,      \* worker[g]: the processQueue goroutine of generation g
    watcher,     \* the goroutine that runs Process
    routers,     \* the routers of the containers now
    spent        \* how much of each bound is used up

clientVars == <<gens, client, connecting, synced, port>>
vars == <<kuma, gens, client, connecting, synced, port, cache, queue, worker,
          watcher, routers, spent>>

NoGroups == [names |-> {}, in |-> [m \in Monitor |-> {}]]
NewPage  == [groups |-> NoGroups, domains |-> {}]
NoCache  == [p \in Page |-> None]

\* `page` and `copy` are the page a goroutine is updating and its *StatusPage.
Idle == [at |-> "idle", job |-> None, todo |-> {}, page |-> None, copy |-> NewPage]

Worker  == [at : {"idle", "ensure", "attach", "save"}, job : Payload \cup {None},
            todo : SUBSET Page, page : Page \cup {None}, copy : PageData]
Watcher == [at : {"idle", "sync", "store", "cycle", "ensure", "bind", "save", "request"},
            job : Router \cup {None}, todo : SUBSET (Page \cup LocalRouters),
            page : Page \cup {None}, copy : PageData]

TypeOK ==
    /\ kuma \in [Page -> PageData \cup {None}]
    /\ gens \in 0..(MaxResets + 1) /\ client \in 0..gens /\ port \in 0..gens
    /\ connecting \in BOOLEAN /\ synced \in BOOLEAN
    /\ cache \in [Gen -> [Page -> Groups \cup {None}]]
    /\ queue \in [Gen -> Seq(Payload)]
    /\ \A g \in Gen : Len(queue[g]) <= Cap
    /\ worker \in [Gen -> Worker]
    /\ watcher \in Watcher
    /\ routers \subseteq LocalRouters
    /\ spent \in [resets : 0..MaxResets, failures : 0..MaxFailures,
                  changes : 0..MaxChanges, restarts : 0..MaxRestarts]

Init ==
    /\ kuma \in InitPages
    /\ gens = 0 /\ client = 0 /\ port = 0
    /\ connecting = FALSE /\ synced = FALSE
    /\ cache = [g \in Gen |-> NoCache]
    /\ queue = [g \in Gen |-> <<>>]
    /\ worker = [g \in Gen |-> Idle]
    /\ watcher = Idle
    /\ routers \in SUBSET LocalRouters
    /\ spent = [resets |-> 0, failures |-> 0, changes |-> 0, restarts |-> 0]

-----------------------------------------------------------------------------
Use(bound, max) ==
    /\ spent[bound] < max
    /\ spent' = [spent EXCEPT ![bound] = @ + 1]

CallFails == Use("failures", MaxFailures)

\* ensureConnected: Process gives up for this cycle, and starts one attempt.
StartConnecting ==
    /\ watcher.at = "idle"
    /\ client = 0 /\ ~connecting
    /\ connecting' = TRUE
    /\ UNCHANGED <<kuma, gens, client, synced, port, cache, queue, worker, watcher,
                   routers, spent>>

\* The attempt succeeds: a new generation.  Its HTTP server takes the port if it
\* is free; the server of a generation that was reset never gives it back.
Connected ==
    /\ connecting /\ connecting' = FALSE
    /\ gens' = gens + 1 /\ client' = gens + 1
    /\ port' = IF port = 0 THEN gens + 1 ELSE port
    /\ synced' = FALSE
    /\ UNCHANGED <<kuma, cache, queue, worker, watcher, routers, spent>>

ConnectionFails ==
    /\ connecting /\ connecting' = FALSE
    /\ CallFails
    /\ UNCHANGED <<kuma, gens, client, synced, port, cache, queue, worker, watcher,
                   routers>>

\* The watcher is through with the page it was updating.
Leave(at) == watcher' = [watcher EXCEPT !.at = at, !.page = None, !.copy = NewPage]

\* doSync: GetMonitors, then the pages that GetStatusPages returns.
BeginSync ==
    /\ watcher.at = "idle"
    /\ client # 0 /\ ~synced
    /\ \/ /\ watcher' = [watcher EXCEPT !.at = "sync",
                            !.todo = {p \in Page : kuma[p] # None}]
          /\ UNCHANGED spent
       \/ CallFails /\ watcher' = [watcher EXCEPT !.at = "sync", !.todo = {}]
    /\ UNCHANGED <<kuma, clientVars, cache, queue, worker, routers>>

\* Bug: Process goes on after a doSync that failed.
BugResetClient ==
    /\ watcher.at = "idle"
    /\ client # 0 /\ ~synced
    /\ Use("resets", MaxResets)
    /\ client' = 0 /\ synced' = FALSE
    /\ watcher' = [watcher EXCEPT !.at = "cycle", !.todo = routers]
    /\ UNCHANGED <<kuma, gens, connecting, port, cache, queue, worker, routers>>

\* GetMonitors fails: the objects of the generation are dropped, not stopped.
ResetClient ==
    /\ watcher.at = "idle"
    /\ client # 0 /\ ~synced
    /\ Use("resets", MaxResets)
    /\ client' = 0 /\ synced' = FALSE
    /\ UNCHANGED <<kuma, gens, connecting, port, cache, queue, worker, watcher, routers>>

\* StatusPageManager.SyncState reads a page; one it cannot read is left out.
SyncPage ==
    /\ watcher.at = "sync"
    /\ \E p \in watcher.todo :
          \/ /\ watcher' = [watcher EXCEPT !.at = "store", !.todo = @ \ {p}, !.page = p,
                               !.copy = kuma[p]]
             /\ UNCHANGED spent
          \/ CallFails /\ watcher' = [watcher EXCEPT !.todo = @ \ {p}]
    /\ UNCHANGED <<kuma, clientVars, cache, queue, worker, routers>>

\* ... and hydrates the cache with it; the global page gets its domain.
StorePage ==
    /\ watcher.at = "store"
    /\ cache' = [cache EXCEPT ![client][watcher.page] = watcher.copy.groups]
    /\ IF /\ watcher.page = GlobalPage /\ GlobalDomain # None
          /\ GlobalDomain \notin watcher.copy.domains
       THEN watcher' = [watcher EXCEPT !.at = "save",
                           !.copy.domains = @ \cup {GlobalDomain}]
       ELSE Leave("sync")
    /\ UNCHANGED <<kuma, clientVars, queue, worker, routers, spent>>

EndSync ==
    /\ watcher.at = "sync" /\ watcher.todo = {}
    /\ synced' = TRUE
    /\ watcher' = [watcher EXCEPT !.at = "cycle", !.todo = routers]
    /\ UNCHANGED <<kuma, gens, client, connecting, port, cache, queue, worker, routers,
                   spent>>

\* Process of a synced client: the routers one after the other.
BeginCycle ==
    /\ watcher.at = "idle"
    /\ client # 0 /\ synced
    /\ watcher' = [watcher EXCEPT !.at = "cycle", !.todo = routers]
    /\ UNCHANGED <<kuma, clientVars, cache, queue, worker, routers, spent>>

NextRouter ==
    /\ watcher.at = "cycle"
    /\ \E r \in watcher.todo :
          watcher' = [watcher EXCEPT !.at = IF r.slug = None THEN "request" ELSE "ensure",
                         !.job = r, !.todo = @ \ {r}]
    /\ UNCHANGED <<kuma, clientVars, cache, queue, worker, routers, spent>>

EndCycle ==
    /\ watcher.at = "cycle" /\ watcher.todo = {}
    /\ watcher' = Idle
    /\ UNCHANGED <<kuma, clientVars, cache, queue, worker, routers, spent>>

\* ensurePage: a page that cannot be read is created, then read.  It may fail
\* before or after the page was created.
EnsuredPage(p) == IF kuma[p] = None THEN NewPage ELSE kuma[p]

\* BindDomain.
BindEnsure ==
    /\ watcher.at = "ensure"
    /\ LET p == watcher.job.slug IN
       \/ /\ kuma' = [kuma EXCEPT ![p] = EnsuredPage(p)]
          /\ watcher' = [watcher EXCEPT !.at = "bind", !.page = p, !.copy = EnsuredPage(p)]
          /\ UNCHANGED spent
       \/ /\ CallFails
          /\ kuma' \in {kuma, [kuma EXCEPT ![p] = EnsuredPage(p)]}
          /\ Leave("request")
    /\ UNCHANGED <<clientVars, cache, queue, worker, routers>>

\* The group list to save for page p: the cached one, if there is one.
Base(g, p, copy) == IF cache[g][p] # None THEN cache[g][p] ELSE copy.groups

\* ensureDomainMapping, up to the request it sends.
BindPrepare ==
    /\ watcher.at = "bind"
    /\ IF watcher.job.domain \in watcher.copy.domains
       THEN Leave("request")
       ELSE watcher' = [watcher EXCEPT !.at = "save",
                           !.copy.domains = @ \cup {watcher.job.domain},
                           !.copy.groups = Base(client, watcher.page, watcher.copy)]
    /\ UNCHANGED <<kuma, clientVars, cache, queue, worker, routers, spent>>

\* SaveStatusPage replaces the page in Kuma; the cache is not brought up to date.
BindSave ==
    /\ watcher.at = "save"
    /\ \/ kuma' = [kuma EXCEPT ![watcher.page] = watcher.copy] /\ UNCHANGED spent
       \/ CallFails /\ UNCHANGED kuma
    /\ Leave(IF synced THEN "request" ELSE "sync")
    /\ UNCHANGED <<clientVars, cache, queue, worker, routers>>

\* Bug: the queue has no limit.
BugRequestAttach ==
    /\ watcher.at = "request"
    /\ queue' = IF watcher.job.attach = None THEN queue
                ELSE [queue EXCEPT ![client] = Append(@, watcher.job.attach)]
    /\ watcher' = [watcher EXCEPT !.at = "cycle", !.job = None]
    /\ UNCHANGED <<kuma, clientVars, cache, worker, routers, spent>>

\* RequestAttach on the server: blocks while the queue is full.
RequestAttach ==
    /\ watcher.at = "request"
    /\ IF watcher.job.attach = None
       THEN UNCHANGED queue
       ELSE /\ Len(queue[client]) < Cap
            /\ queue' = [queue EXCEPT ![client] = Append(@, watcher.job.attach)]
    /\ watcher' = [watcher EXCEPT !.at = "cycle", !.job = None]
    /\ UNCHANGED <<kuma, clientVars, cache, worker, routers, spent>>

Process ==
    \/ StartConnecting \/ BeginSync \/ ResetClient \/ SyncPage \/ StorePage \/ EndSync
    \/ BeginCycle \/ NextRouter \/ EndCycle
    \/ BindEnsure \/ BindPrepare \/ BindSave \/ RequestAttach

\* A client node posts a payload to whichever server has the port.
RemotePost(payload) ==
    /\ port # 0
    /\ Len(queue[port]) < Cap
    /\ queue' = [queue EXCEPT ![port] = Append(@, payload)]
    /\ UNCHANGED <<kuma, clientVars, cache, worker, watcher, routers, spent>>

-----------------------------------------------------------------------------
\* Bug: a lock that Process holds for a whole cycle keeps the worker out.
BugTakeJob(g) ==
    /\ g <= gens /\ watcher.at = "idle"
    /\ worker[g].at = "idle"
    /\ queue[g] # <<>>
    /\ queue' = [queue EXCEPT ![g] = Tail(@)]
    /\ LET job == Head(queue[g]) IN
       worker' = [worker EXCEPT ![g].at = "ensure", ![g].job = job,
                     ![g].todo = {p \in Page : job.pages[p] # None}]
    /\ UNCHANGED <<kuma, clientVars, cache, watcher, routers, spent>>

\* processQueue takes the next payload; ProcessStatusPages goes over its pages.
TakeJob(g) ==
    /\ g <= gens
    /\ worker[g].at = "idle"
    /\ queue[g] # <<>>
    /\ queue' = [queue EXCEPT ![g] = Tail(@)]
    /\ LET job == Head(queue[g]) IN
       worker' = [worker EXCEPT ![g].at = "ensure", ![g].job = job,
                     ![g].todo = {p \in Page : job.pages[p] # None}]
    /\ UNCHANGED <<kuma, clientVars, cache, watcher, routers, spent>>

\* The worker is through with the page it was updating.
NextPage(g) ==
    worker' = [worker EXCEPT ![g].at = "ensure", ![g].page = None, ![g].copy = NewPage]

AttachEnsure(g) ==
    /\ worker[g].at = "ensure"
    /\ \E p \in worker[g].todo :
          \/ /\ kuma' = [kuma EXCEPT ![p] = EnsuredPage(p)]
             /\ worker' = [worker EXCEPT ![g].at = "attach", ![g].todo = @ \ {p},
                              ![g].page = p, ![g].copy = EnsuredPage(p)]
             /\ UNCHANGED spent
          \/ /\ CallFails
             /\ kuma' \in {kuma, [kuma EXCEPT ![p] = EnsuredPage(p)]}
             /\ worker' = [worker EXCEPT ![g].todo = @ \ {p}]
    /\ UNCHANGED <<clientVars, cache, queue, watcher, routers>>

JobDone(g) ==
    /\ worker[g].at = "ensure" /\ worker[g].todo = {}
    /\ worker' = [worker EXCEPT ![g] = Idle]
    /\ UNCHANGED <<kuma, clientVars, cache, queue, watcher, routers, spent>>

\* Bug: the monitor is not pruned from its other groups.
BugAttached(groups, m, grp) ==
    [names |-> groups.names \cup {grp}, in |-> [groups.in EXCEPT ![m] = @ \cup {grp}]]

\* The list attachToGroup wants: m in grp and in no other group.
Attached(groups, m, grp) ==
    [names |-> groups.names \cup {grp}, in |-> [groups.in EXCEPT ![m] = {grp}]]

\* What attachToGroup leaves in the cached slice, whose elements it edits in
\* place: m is pruned, and added if its group is there; a new group goes to the
\* end of another slice.
Aliased(groups, m, grp) ==
    [groups EXCEPT !.in[m] = IF grp \in groups.names THEN {grp} ELSE {}]

\* Bug: attaches that the cache says are there already are saved nowhere, and the
\* cache is taken from the edited slice before Kuma has it.
BugAttach(g) ==
    /\ worker[g].at = "attach"
    /\ LET p    == worker[g].page
           m    == worker[g].job.monitor
           grp  == worker[g].job.pages[p]
           base == Base(g, p, worker[g].copy)
       IN  /\ cache' = [cache EXCEPT ![g][p] = Attached(base, m, grp)]
           /\ NextPage(g)
    /\ UNCHANGED <<kuma, clientVars, queue, watcher, routers, spent>>

\* attachToGroup, up to the request it sends, if anything changed.
Attach(g) ==
    /\ worker[g].at = "attach"
    /\ LET p    == worker[g].page
           m    == worker[g].job.monitor
           grp  == worker[g].job.pages[p]
           base == Base(g, p, worker[g].copy)
       IN  /\ cache' = IF cache[g][p] = None THEN cache
                       ELSE [cache EXCEPT ![g][p] = Aliased(base, m, grp)]
           /\ IF Attached(base, m, grp) = base
              THEN NextPage(g)
              ELSE worker' = [worker EXCEPT ![g].at = "save",
                                 ![g].copy.groups = Attached(base, m, grp)]
    /\ UNCHANGED <<kuma, clientVars, queue, watcher, routers, spent>>

\* ... and its answer, the list as Kuma now has it.
AttachSave(g) ==
    /\ worker[g].at = "save"
    /\ LET p == worker[g].page IN
       \/ /\ kuma' = [kuma EXCEPT ![p] = worker[g].copy]
          /\ cache' = [cache EXCEPT ![g][p] = worker[g].copy.groups]
          /\ UNCHANGED spent
       \/ CallFails /\ UNCHANGED <<kuma, cache>>
    /\ NextPage(g)
    /\ UNCHANGED <<clientVars, queue, watcher, routers>>

ProcessQueue(g) ==
    TakeJob(g) \/ AttachEnsure(g) \/ JobDone(g) \/ Attach(g) \/ AttachSave(g)

-----------------------------------------------------------------------------
\* The containers of the node, hence its routers, change.
Redeploy ==
    /\ Use("changes", MaxChanges)
    /\ routers' \in (SUBSET LocalRouters) \ {routers}
    /\ UNCHANGED <<kuma, clientVars, cache, queue, worker, watcher>>

\* The process dies, its goroutines and queues with it, and starts again.
Restart ==
    /\ Use("restarts", MaxRestarts)
    /\ gens' = 0 /\ client' = 0 /\ port' = 0
    /\ connecting' = FALSE /\ synced' = FALSE
    /\ cache' = [g \in Gen |-> NoCache]
    /\ queue' = [g \in Gen |-> <<>>]
    /\ worker' = [g \in Gen |-> Idle]
    /\ watcher' = Idle
    /\ UNCHANGED <<kuma, routers>>

Next ==
    \/ Process \/ Connected \/ ConnectionFails
    \/ \E payload \in Remote : RemotePost(payload)
    \/ \E g \in Gen : ProcessQueue(g)
    \/ Redeploy \/ Restart

Spec == Init /\ [][Next]_vars

\* The watcher calls Process at every tick; calls to Kuma return; every client
\* node posts again each cycle, and Go serves blocked senders in order.
Fairness ==
    /\ WF_vars(Process)
    /\ WF_vars(Connected)
    /\ SF_vars(RequestAttach)
    /\ \A payload \in Remote : SF_vars(RemotePost(payload))
    /\ \A g \in Gen : WF_vars(ProcessQueue(g))

FairSpec == Spec /\ Fairness

-----------------------------------------------------------------------------
\* A monitor is in at most one group of a page, although lists are copied,
\* cached, edited in place, saved late and written by several goroutines.
OneGroup(groups) == \A m \in Monitor : \A a, b \in groups.in[m] : a = b
OneGroupPerPage == \A p \in Page : kuma[p] # None => OneGroup(kuma[p].groups)

\* Outside ensureConnected, Process only runs with the objects of the newest
\* generation: no step uses a manager or a coordinator that resetClient cleared.
NoNilManager ==
    /\ watcher.at # "idle" => client # 0
    /\ client # 0 => client = gens /\ ~connecting

\* Process never blocks for good on a full attachQueue: the watcher, and with it
\* the DNS pipelines, gets its goroutine back.
CyclesEnd == []<>(watcher.at = "idle")

\* The comment in ensureDomainMapping: saving a page never wipes out a monitor
\* that was on it.
NoWipeOut ==
    [][\A p \in Page : kuma[p] # None =>
          \A m \in Monitor : kuma[p].groups.in[m] # {} => kuma'[p].groups.in[m] # {}]_kuma
=============================================================================
