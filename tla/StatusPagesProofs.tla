------------------------- MODULE StatusPagesProofs -------------------------
(***************************************************************************)
(* Proofs about the status pages: for any pages, monitors, groups, domains *)
(* and routers, any length of the queue, and any number of connections,    *)
(* failures, redeployments and crashes.                                    *)
(***************************************************************************)
EXTENDS StatusPagesFaults, TLAPS

Bounds == [resets : 0..MaxResets, failures : 0..MaxFailures,
           changes : 0..MaxChanges, restarts : 0..MaxRestarts]

\* Every generation but the one in use was given up by a reset.
GensBounded == gens <= spent.resets + (IF client = 0 THEN 0 ELSE 1)

\* What a worker holds where it is: a payload that asks for the page at hand.
Placed(w) ==
    /\ w.at # "idle" => w.job \in Payload /\ \A p \in w.todo : w.job.pages[p] # None
    /\ w.at \in {"attach", "save"} => w.page \in Page
    /\ w.at = "attach" => w.job.pages[w.page] # None

WorkerPlaces == \A g \in Gen : Placed(worker[g])

\* What the watcher holds where it is: pages during the sync, routers after it.
WatcherPlaces ==
    /\ watcher.at \in {"sync", "store"} => ~synced
    /\ watcher.at \in {"cycle", "ensure", "bind", "request"} => synced
    /\ watcher.at \in {"store", "bind", "save"} => watcher.page \in Page
    /\ watcher.at # "idle" =>
          watcher.todo \subseteq IF synced THEN LocalRouters ELSE Page
    /\ watcher.at \in {"ensure", "bind", "request", "save"} /\ synced =>
          watcher.job \in Router
    /\ watcher.at # "idle" /\ ~synced => \A p \in watcher.todo : kuma[p] # None
    /\ watcher.at \in {"ensure", "bind"} =>
          watcher.job.slug \in Page /\ watcher.job.domain \in Domain

TypeInv == TypeOK /\ GensBounded /\ WorkerPlaces /\ WatcherPlaces /\ NoNilManager

-----------------------------------------------------------------------------
LEMMA SpentType ==
    ASSUME TypeOK,
           \/ UNCHANGED spent
           \/ CallFails \/ Use("resets", MaxResets)
           \/ Use("changes", MaxChanges) \/ Use("restarts", MaxRestarts)
    PROVE  spent' \in Bounds /\ spent'.resets \in Nat /\ spent'.resets >= spent.resets
<1>0. /\ spent \in Bounds
      /\ MaxResets \in Nat /\ MaxFailures \in Nat /\ MaxChanges \in Nat
      /\ MaxRestarts \in Nat
  BY ConstantsOK DEF TypeOK, Bounds, ConstantsOK
<1>1. CASE UNCHANGED spent
  BY <1>0, <1>1 DEF Bounds
<1>2. CASE CallFails
  <2>1. spent.failures < MaxFailures /\ spent' = [spent EXCEPT !.failures = @ + 1]
    BY <1>2 DEF CallFails, Use
  <2> QED
    BY <1>0, <2>1 DEF Bounds
<1>3. CASE Use("resets", MaxResets)
  <2>1. spent.resets < MaxResets /\ spent' = [spent EXCEPT !.resets = @ + 1]
    BY <1>3 DEF Use
  <2> QED
    BY <1>0, <2>1 DEF Bounds
<1>4. CASE Use("changes", MaxChanges)
  <2>1. spent.changes < MaxChanges /\ spent' = [spent EXCEPT !.changes = @ + 1]
    BY <1>4 DEF Use
  <2> QED
    BY <1>0, <2>1 DEF Bounds
<1>5. CASE Use("restarts", MaxRestarts)
  <2>1. spent.restarts < MaxRestarts /\ spent' = [spent EXCEPT !.restarts = @ + 1]
    BY <1>5 DEF Use
  <2> QED
    BY <1>0, <2>1 DEF Bounds
<1> QED
  BY <1>1, <1>2, <1>3, <1>4, <1>5

LEMMA NewPageType == NewPage \in PageData /\ NoGroups \in Groups
BY DEF NewPage, NoGroups, PageData, Groups

LEMMA IdleType == Idle \in Worker /\ Idle \in Watcher
BY NewPageType DEF Idle, Worker, Watcher

LEMMA EnsuredPageType ==
    ASSUME TypeOK, NEW p \in Page
    PROVE  EnsuredPage(p) \in PageData
BY NewPageType DEF TypeOK, EnsuredPage

LEMMA BaseType ==
    ASSUME TypeOK, NEW g \in Gen, NEW p \in Page, NEW copy \in PageData
    PROVE  Base(g, p, copy) \in Groups
<1>1. copy.groups \in Groups
  BY DEF PageData
<1>2. cache[g][p] \in Groups \cup {None}
  BY DEF TypeOK
<1> QED
  BY <1>1, <1>2 DEF Base

LEMMA AttachedType ==
    ASSUME NEW groups \in Groups, NEW m \in Monitor, NEW grp \in Group
    PROVE  Attached(groups, m, grp) \in Groups /\ Aliased(groups, m, grp) \in Groups
BY DEF Groups, Attached, Aliased

\* The steps of the watcher that leave the pages alone.
LEMMA InitTypeInv == Init => TypeInv
<1> SUFFICES ASSUME Init PROVE TypeInv
  OBVIOUS
<1>1. spent \in Bounds
  BY ConstantsOK DEF Init, Bounds, ConstantsOK
<1>2. kuma \in [Page -> PageData \cup {None}]
  BY ConstantsOK DEF Init, ConstantsOK
<1>3. queue \in [Gen -> Seq(Payload)] /\ \A g \in Gen : Len(queue[g]) <= Cap
  BY ConstantsOK DEF Init, ConstantsOK
<1>4. cache \in [Gen -> [Page -> Groups \cup {None}]]
  BY DEF Init, NoCache
<1>5. TypeOK
  <2>1. gens \in 0..(MaxResets + 1) /\ client \in 0..gens /\ port \in 0..gens
    BY ConstantsOK DEF Init, ConstantsOK
  <2>2. worker \in [Gen -> Worker] /\ watcher \in Watcher
    BY IdleType DEF Init
  <2>3. routers \subseteq LocalRouters /\ connecting \in BOOLEAN /\ synced \in BOOLEAN
    BY DEF Init
  <2> QED
    BY <1>1, <1>2, <1>3, <1>4, <2>1, <2>2, <2>3 DEF TypeOK, Bounds
<1>6. GensBounded /\ WorkerPlaces /\ WatcherPlaces /\ NoNilManager
  BY DEF Init, GensBounded, WorkerPlaces, Placed, WatcherPlaces, NoNilManager, Idle
<1> QED
  BY <1>5, <1>6 DEF TypeInv

LEMMA ConnectionType ==
    ASSUME TypeInv,
           StartConnecting \/ Connected \/ ConnectionFails \/ ResetClient \/ Restart
    PROVE  TypeInv'
<1> USE DEF TypeInv
<1>1. CASE StartConnecting
  <2>1. TypeOK'
    BY <1>1 DEF TypeOK, StartConnecting
  <2> QED
    BY <1>1, <2>1 DEF StartConnecting, GensBounded, WorkerPlaces, WatcherPlaces, NoNilManager
<1>2. CASE Connected
  <2>1. client = 0 /\ watcher.at = "idle" /\ gens \in Nat /\ gens <= MaxResets
    BY <1>2, ConstantsOK DEF Connected, TypeOK, GensBounded, NoNilManager, ConstantsOK
  <2>2. TypeOK'
    <3>1. /\ gens' \in 0..(MaxResets + 1)
          /\ client' \in 0..gens' /\ port' \in 0..gens'
      BY <1>2, <2>1, ConstantsOK DEF Connected, TypeOK, ConstantsOK
    <3> QED
      BY <1>2, <3>1 DEF Connected, TypeOK
  <2>3. GensBounded'
    BY <1>2, <2>1, ConstantsOK DEF Connected, TypeOK, GensBounded, ConstantsOK
  <2> QED
    BY <1>2, <2>1, <2>2, <2>3 DEF Connected, WorkerPlaces, WatcherPlaces, NoNilManager
<1>3. CASE ConnectionFails
  <2>1. spent' \in Bounds /\ spent'.resets \in Nat /\ spent'.resets >= spent.resets
    BY <1>3, SpentType DEF ConnectionFails
  <2>2. TypeOK'
    BY <1>3, <2>1 DEF ConnectionFails, TypeOK, Bounds
  <2>3. GensBounded'
    BY <1>3, <2>1 DEF ConnectionFails, TypeOK, GensBounded
  <2> QED
    BY <1>3, <2>2, <2>3 DEF ConnectionFails, WorkerPlaces, WatcherPlaces, NoNilManager
<1>4. CASE ResetClient
  <2>1. spent' \in Bounds /\ spent'.resets = spent.resets + 1
    BY <1>4, SpentType DEF ResetClient, Use, TypeOK
  <2>2. TypeOK'
    <3>1. client' \in 0..gens'
      BY <1>4, ConstantsOK DEF ResetClient, TypeOK, ConstantsOK
    <3> QED
      BY <1>4, <2>1, <3>1 DEF ResetClient, TypeOK, Bounds
  <2>3. GensBounded'
    BY <1>4, <2>1 DEF ResetClient, TypeOK, GensBounded
  <2> QED
    BY <1>4, <2>2, <2>3 DEF ResetClient, WorkerPlaces, WatcherPlaces, NoNilManager
<1>5. CASE Restart
  <2>1. spent' \in Bounds /\ spent'.resets \in Nat
    BY <1>5, SpentType DEF Restart
  <2>2. queue' \in [Gen -> Seq(Payload)] /\ \A g \in Gen : Len(queue'[g]) <= Cap
    BY <1>5, ConstantsOK DEF Restart, ConstantsOK
  <2>3. cache' \in [Gen -> [Page -> Groups \cup {None}]]
    BY <1>5 DEF Restart, NoCache
  <2>4. worker' \in [Gen -> Worker] /\ watcher' \in Watcher
    BY <1>5, IdleType DEF Restart
  <2>5. TypeOK'
    <3>1. /\ gens' \in 0..(MaxResets + 1)
          /\ client' \in 0..gens' /\ port' \in 0..gens'
      BY <1>5, ConstantsOK DEF Restart, ConstantsOK
    <3>2. /\ kuma' \in [Page -> PageData \cup {None}]
          /\ routers' \subseteq LocalRouters
          /\ connecting' \in BOOLEAN /\ synced' \in BOOLEAN
      BY <1>5 DEF Restart, TypeOK
    <3> QED
      BY <2>1, <2>2, <2>3, <2>4, <3>1, <3>2 DEF TypeOK, Bounds
  <2>6. GensBounded'
    BY <1>5, <2>1 DEF Restart, GensBounded
  <2> QED
    BY <1>5, <2>5, <2>6 DEF Restart, WorkerPlaces, Placed, WatcherPlaces, NoNilManager, Idle
<1> QED
  BY <1>1, <1>2, <1>3, <1>4, <1>5

\* The steps of the watcher that touch neither connections nor workers.
LEMMA WatcherStep ==
    ASSUME TypeInv,
           UNCHANGED <<gens, client, connecting, port, worker, routers>>,
           synced' \in BOOLEAN,
           kuma' \in [Page -> PageData \cup {None}],
           cache' \in [Gen -> [Page -> Groups \cup {None}]],
           queue' \in [Gen -> Seq(Payload)], \A g \in Gen : Len(queue'[g]) <= Cap,
           UNCHANGED spent \/ CallFails,
           watcher' \in Watcher, WatcherPlaces', client # 0
    PROVE  TypeInv'
<1> USE DEF TypeInv
<1>1. spent' \in Bounds /\ spent'.resets \in Nat /\ spent'.resets >= spent.resets
  BY SpentType
<1>2. TypeOK'
  BY <1>1 DEF TypeOK, Bounds
<1>3. GensBounded'
  BY <1>1 DEF TypeOK, GensBounded
<1> QED
  BY <1>2, <1>3 DEF WorkerPlaces, NoNilManager

LEMMA Leaving ==
    ASSUME watcher \in Watcher,
           NEW at \in {"sync", "cycle", "request"}, Leave(at)
    PROVE  /\ watcher' \in Watcher
           /\ watcher'.at = at /\ watcher'.todo = watcher.todo /\ watcher'.job = watcher.job
BY NewPageType DEF Watcher, Leave

LEMMA SyncType ==
    ASSUME TypeInv, BeginSync \/ SyncPage \/ StorePage \/ EndSync
    PROVE  TypeInv'
<1> USE DEF TypeInv
<1> watcher \in Watcher /\ synced \in BOOLEAN
  BY DEF TypeOK
<1>1. CASE BeginSync
  <2>1. /\ watcher'.at = "sync" /\ watcher'.todo \in SUBSET Page
        /\ watcher' \in Watcher /\ \A p \in watcher'.todo : kuma[p] # None
    <3>1. CASE watcher' = [watcher EXCEPT !.at = "sync", !.todo = {q \in Page : kuma[q] # None}]
      BY <3>1 DEF Watcher
    <3>2. CASE watcher' = [watcher EXCEPT !.at = "sync", !.todo = {}]
      BY <3>2 DEF Watcher
    <3> QED
      BY <1>1, <3>1, <3>2 DEF BeginSync
  <2>2. WatcherPlaces'
    BY <1>1, <2>1 DEF BeginSync, clientVars, WatcherPlaces
  <2> QED
    BY <1>1, <2>1, <2>2, WatcherStep DEF BeginSync, clientVars, TypeOK
<1>2. CASE SyncPage
  <2>1. client # 0 /\ ~synced /\ watcher.todo \subseteq Page
    BY <1>2 DEF SyncPage, NoNilManager, WatcherPlaces
  <2>2. PICK p \in watcher.todo :
          \/ /\ watcher' = [watcher EXCEPT !.at = "store", !.todo = @ \ {p}, !.page = p,
                               !.copy = kuma[p]]
             /\ UNCHANGED spent
          \/ CallFails /\ watcher' = [watcher EXCEPT !.todo = @ \ {p}]
    BY <1>2 DEF SyncPage
  <2>. p \in Page
    BY <2>1
  <2>3. kuma[p] \in PageData
    BY <1>2, <2>1 DEF SyncPage, TypeOK, WatcherPlaces
  <2>4. /\ watcher' \in Watcher /\ watcher'.todo = watcher.todo \ {p}
        /\ watcher'.at = "sync" \/ (watcher'.at = "store" /\ watcher'.page = p)
    <3>1. CASE watcher' = [watcher EXCEPT !.at = "store", !.todo = @ \ {p}, !.page = p,
                             !.copy = kuma[p]]
      BY <2>3, <3>1 DEF Watcher
    <3>2. CASE watcher' = [watcher EXCEPT !.todo = @ \ {p}]
      <4>1. watcher.at = "sync"
        BY <1>2 DEF SyncPage
      <4>2. watcher.todo \ {p} \in SUBSET (Page \cup LocalRouters)
        BY DEF Watcher
      <4>3. watcher' \in Watcher
        BY <3>2, <4>2 DEF Watcher
      <4>4. watcher'.todo = watcher.todo \ {p} /\ watcher'.at = watcher.at
        BY <3>2 DEF Watcher
      <4> QED
        BY <4>1, <4>3, <4>4
    <3> QED
      BY <2>2, <3>1, <3>2
  <2>5. WatcherPlaces'
    BY <1>2, <2>1, <2>4 DEF SyncPage, clientVars, WatcherPlaces
  <2>6. UNCHANGED spent \/ CallFails
    BY <2>2
  <2> QED
    BY <1>2, <2>1, <2>4, <2>5, <2>6, WatcherStep DEF SyncPage, clientVars, TypeOK
<1>3. CASE StorePage
  <2>1. client # 0 /\ ~synced /\ watcher.page \in Page /\ watcher.todo \subseteq Page
    BY <1>3 DEF StorePage, NoNilManager, WatcherPlaces
  <2>2. watcher.copy \in PageData /\ watcher.copy.groups \in Groups
    BY DEF Watcher, PageData
  <2>3. cache' \in [Gen -> [Page -> Groups \cup {None}]]
    BY <1>3, <2>2 DEF StorePage, TypeOK
  <2>4. CASE Leave("sync")
    <3>1. watcher' \in Watcher /\ watcher'.at = "sync" /\ watcher'.todo = watcher.todo
      BY <2>4, Leaving
    <3>2. WatcherPlaces'
      BY <1>3, <2>1, <3>1 DEF StorePage, clientVars, WatcherPlaces
    <3> QED
      BY <1>3, <2>1, <2>3, <3>1, <3>2, WatcherStep DEF StorePage, clientVars, TypeOK
  <2>5. CASE /\ GlobalDomain # None
             /\ watcher' = [watcher EXCEPT !.at = "save", !.copy.domains = @ \cup {GlobalDomain}]
    <3>1. GlobalDomain \in Domain
      BY <2>5, ConstantsOK DEF ConstantsOK
    <3>2. [watcher.copy EXCEPT !.domains = @ \cup {GlobalDomain}] \in PageData
      BY <2>2, <3>1 DEF PageData
    <3>3. /\ watcher' \in Watcher /\ watcher'.at = "save"
          /\ watcher'.todo = watcher.todo /\ watcher'.page = watcher.page
      BY <2>5, <3>2 DEF Watcher
    <3>4. WatcherPlaces'
      BY <1>3, <2>1, <3>3 DEF StorePage, clientVars, WatcherPlaces
    <3> QED
      BY <1>3, <2>1, <2>3, <3>3, <3>4, WatcherStep DEF StorePage, clientVars, TypeOK
  <2> QED
    BY <1>3, <2>4, <2>5 DEF StorePage
<1>4. CASE EndSync
  <2>1. client # 0 /\ ~synced /\ routers \subseteq LocalRouters
    BY <1>4 DEF EndSync, NoNilManager, WatcherPlaces, TypeOK
  <2>2. /\ watcher' \in Watcher
        /\ watcher'.at = "cycle" /\ watcher'.todo = routers
    BY <1>4, <2>1 DEF EndSync, Watcher
  <2>3. WatcherPlaces'
    BY <1>4, <2>1, <2>2 DEF EndSync, WatcherPlaces
  <2> QED
    BY <1>4, <2>1, <2>2, <2>3, WatcherStep DEF EndSync, TypeOK
<1> QED
  BY <1>1, <1>2, <1>3, <1>4

LEMMA QueueType ==
    ASSUME TypeOK, NEW g, NEW job \in Payload, Len(queue[g]) < Cap,
           queue' = [queue EXCEPT ![g] = Append(@, job)]
    PROVE  queue' \in [Gen -> Seq(Payload)] /\ \A h \in Gen : Len(queue'[h]) <= Cap
<1>1. queue \in [Gen -> Seq(Payload)] /\ \A h \in Gen : Len(queue[h]) <= Cap
  BY DEF TypeOK
<1>2. Cap \in Nat
  BY ConstantsOK DEF ConstantsOK
<1>3. CASE g \in Gen
  <2>1. /\ Append(queue[g], job) \in Seq(Payload)
        /\ Len(Append(queue[g], job)) = Len(queue[g]) + 1 /\ Len(queue[g]) \in Nat
    BY <1>1, <1>3
  <2> QED
    BY <1>1, <1>2, <1>3, <2>1
<1>4. CASE g \notin Gen
  BY <1>1, <1>4
<1> QED
  BY <1>3, <1>4

LEMMA CycleType ==
    ASSUME TypeInv, BeginCycle \/ NextRouter \/ EndCycle \/ RequestAttach
    PROVE  TypeInv'
<1> USE DEF TypeInv
<1> watcher \in Watcher /\ synced \in BOOLEAN
  BY DEF TypeOK
<1>1. CASE BeginCycle
  <2>1. routers \subseteq LocalRouters
    BY DEF TypeOK
  <2>2. /\ watcher' \in Watcher
        /\ watcher'.at = "cycle" /\ watcher'.todo = routers
    BY <1>1, <2>1 DEF BeginCycle, Watcher
  <2>3. WatcherPlaces'
    BY <1>1, <2>1, <2>2 DEF BeginCycle, clientVars, WatcherPlaces
  <2> QED
    BY <1>1, <2>2, <2>3, WatcherStep DEF BeginCycle, clientVars, TypeOK
<1>2. CASE NextRouter
  <2>1. client # 0 /\ synced /\ watcher.todo \subseteq LocalRouters
    BY <1>2 DEF NextRouter, NoNilManager, WatcherPlaces
  <2>2. PICK r \in watcher.todo :
          watcher' = [watcher EXCEPT !.at = IF r.slug = None THEN "request" ELSE "ensure",
                         !.job = r, !.todo = @ \ {r}]
    BY <1>2 DEF NextRouter
  <2>3. r \in Router /\ (r.slug # None => r.slug \in Page /\ r.domain \in Domain)
    BY <2>1, ConstantsOK DEF ConstantsOK, Router
  <2>4. watcher.todo \ {r} \in SUBSET (Page \cup LocalRouters)
    BY DEF Watcher
  <2>5. watcher' \in Watcher
    BY <2>2, <2>3, <2>4 DEF Watcher
  <2>6. /\ watcher'.todo = watcher.todo \ {r} /\ watcher'.job = r
        /\ watcher'.at = IF r.slug = None THEN "request" ELSE "ensure"
    BY <2>2 DEF Watcher
  <2>7. WatcherPlaces'
    BY <1>2, <2>1, <2>3, <2>6 DEF NextRouter, clientVars, WatcherPlaces
  <2> QED
    BY <1>2, <2>1, <2>5, <2>7, WatcherStep DEF NextRouter, clientVars, TypeOK
<1>3. CASE EndCycle
  <2>1. client # 0
    BY <1>3 DEF EndCycle, NoNilManager
  <2>2. watcher' \in Watcher /\ WatcherPlaces'
    BY <1>3, IdleType DEF EndCycle, Idle, WatcherPlaces
  <2> QED
    BY <1>3, <2>1, <2>2, WatcherStep DEF EndCycle, clientVars, TypeOK
<1>4. CASE RequestAttach
  <2>1. /\ client # 0 /\ synced /\ watcher.todo \subseteq LocalRouters
        /\ watcher.job \in Router
    BY <1>4 DEF RequestAttach, NoNilManager, WatcherPlaces
  <2>2. /\ watcher' \in Watcher
        /\ watcher'.at = "cycle" /\ watcher'.todo = watcher.todo
    BY <1>4 DEF RequestAttach, Watcher
  <2>3. WatcherPlaces'
    BY <1>4, <2>1, <2>2 DEF RequestAttach, clientVars, WatcherPlaces
  <2>4. queue' \in [Gen -> Seq(Payload)] /\ \A g \in Gen : Len(queue'[g]) <= Cap
    <3>1. CASE UNCHANGED queue
      BY <3>1 DEF TypeOK
    <3>2. CASE /\ watcher.job.attach # None /\ Len(queue[client]) < Cap
               /\ queue' = [queue EXCEPT ![client] = Append(@, watcher.job.attach)]
      <4>1. watcher.job.attach \in Payload
        BY <2>1, <3>2 DEF Router
      <4> QED
        BY <3>2, <4>1, QueueType
    <3> QED
      BY <1>4, <3>1, <3>2 DEF RequestAttach
  <2> QED
    BY <1>4, <2>1, <2>2, <2>3, <2>4, WatcherStep DEF RequestAttach, clientVars, TypeOK
<1> QED
  BY <1>1, <1>2, <1>3, <1>4

LEMMA BindType ==
    ASSUME TypeInv, BindEnsure \/ BindPrepare \/ BindSave
    PROVE  TypeInv'
<1> USE DEF TypeInv
<1> watcher \in Watcher /\ synced \in BOOLEAN
  BY DEF TypeOK
<1> client # 0 /\ client \in Gen
  <2>1. client # 0
    BY DEF BindEnsure, BindPrepare, BindSave, NoNilManager
  <2> QED
    BY <2>1, ConstantsOK DEF TypeOK, Gen, ConstantsOK
<1>1. CASE BindEnsure
  <2> DEFINE p == watcher.job.slug
  <2>1. /\ synced /\ watcher.todo \subseteq LocalRouters
        /\ watcher.job \in Router /\ p \in Page /\ watcher.job.domain \in Domain
    BY <1>1 DEF BindEnsure, WatcherPlaces
  <2>2. EnsuredPage(p) \in PageData
    BY <2>1, EnsuredPageType
  <2>3. kuma' \in [Page -> PageData \cup {None}]
    BY <1>1, <2>2 DEF BindEnsure, TypeOK
  <2>4. CASE /\ UNCHANGED spent
             /\ watcher' = [watcher EXCEPT !.at = "bind", !.page = p, !.copy = EnsuredPage(p)]
    <3>1. /\ watcher' \in Watcher /\ watcher'.at = "bind" /\ watcher'.page = p
          /\ watcher'.todo = watcher.todo /\ watcher'.job = watcher.job
      BY <2>1, <2>2, <2>4 DEF Watcher
    <3>2. WatcherPlaces'
      BY <1>1, <2>1, <3>1 DEF BindEnsure, clientVars, WatcherPlaces
    <3> QED
      BY <1>1, <2>3, <2>4, <3>1, <3>2, WatcherStep DEF BindEnsure, clientVars, TypeOK
  <2>5. CASE CallFails /\ Leave("request")
    <3>1. /\ watcher' \in Watcher /\ watcher'.at = "request"
          /\ watcher'.todo = watcher.todo /\ watcher'.job = watcher.job
      BY <2>5, Leaving
    <3>2. WatcherPlaces'
      BY <1>1, <2>1, <3>1 DEF BindEnsure, clientVars, WatcherPlaces
    <3> QED
      BY <1>1, <2>3, <2>5, <3>1, <3>2, WatcherStep DEF BindEnsure, clientVars, TypeOK
  <2> QED
    BY <1>1, <2>4, <2>5 DEF BindEnsure
<1>2. CASE BindPrepare
  <2>1. /\ synced /\ watcher.todo \subseteq LocalRouters /\ watcher.page \in Page
        /\ watcher.job \in Router /\ watcher.job.domain \in Domain
    BY <1>2 DEF BindPrepare, WatcherPlaces
  <2>2. CASE Leave("request")
    <3>1. /\ watcher' \in Watcher /\ watcher'.at = "request"
          /\ watcher'.todo = watcher.todo /\ watcher'.job = watcher.job
      BY <2>2, Leaving
    <3>2. WatcherPlaces'
      BY <1>2, <2>1, <3>1 DEF BindPrepare, clientVars, WatcherPlaces
    <3> QED
      BY <1>2, <3>1, <3>2, WatcherStep DEF BindPrepare, clientVars, TypeOK
  <2>3. CASE watcher' = [watcher EXCEPT !.at = "save",
                            !.copy.domains = @ \cup {watcher.job.domain},
                            !.copy.groups = Base(client, watcher.page, watcher.copy)]
    <3>1. watcher.copy \in PageData
      BY DEF Watcher
    <3>2. [watcher.copy EXCEPT !.domains = @ \cup {watcher.job.domain},
             !.groups = Base(client, watcher.page, watcher.copy)] \in PageData
      BY <2>1, <3>1, BaseType DEF PageData
    <3>3. /\ watcher' \in Watcher /\ watcher'.at = "save" /\ watcher'.page = watcher.page
          /\ watcher'.todo = watcher.todo /\ watcher'.job = watcher.job
      BY <2>3, <3>2 DEF Watcher
    <3>4. WatcherPlaces'
      BY <1>2, <2>1, <3>3 DEF BindPrepare, clientVars, WatcherPlaces
    <3> QED
      BY <1>2, <3>3, <3>4, WatcherStep DEF BindPrepare, clientVars, TypeOK
  <2> QED
    BY <1>2, <2>2, <2>3 DEF BindPrepare
<1>3. CASE BindSave
  <2>1. watcher.page \in Page /\ watcher.copy \in PageData
    BY <1>3 DEF BindSave, WatcherPlaces, Watcher
  <2>2. kuma' \in [Page -> PageData \cup {None}] /\ \A q \in Page : kuma[q] # None => kuma'[q] # None
    BY <1>3, <2>1, ConstantsOK DEF BindSave, TypeOK, ConstantsOK
  <2>3. /\ watcher' \in Watcher /\ watcher'.at = IF synced THEN "request" ELSE "sync"
        /\ watcher'.todo = watcher.todo /\ watcher'.job = watcher.job
    BY <1>3, Leaving DEF BindSave
  <2>4. WatcherPlaces'
    BY <1>3, <2>2, <2>3 DEF BindSave, clientVars, WatcherPlaces
  <2> QED
    BY <1>3, <2>2, <2>3, <2>4, WatcherStep DEF BindSave, clientVars, TypeOK
<1> QED
  BY <1>1, <1>2, <1>3

\* The steps of a worker, and those that only add to a queue or change routers.
LEMMA WorkerStep ==
    ASSUME TypeInv, NEW g \in Gen,
           UNCHANGED <<clientVars, watcher>>, routers' \subseteq LocalRouters,
           kuma' \in [Page -> PageData \cup {None}],
           \A p \in Page : kuma[p] # None => kuma'[p] # None,
           cache' \in [Gen -> [Page -> Groups \cup {None}]],
           queue' \in [Gen -> Seq(Payload)], \A h \in Gen : Len(queue'[h]) <= Cap,
           UNCHANGED spent \/ CallFails \/ Use("changes", MaxChanges),
           NEW w \in Worker, Placed(w),
           worker' = [worker EXCEPT ![g] = w]
    PROVE  TypeInv'
<1> USE DEF TypeInv
<1>1. spent' \in Bounds /\ spent'.resets \in Nat /\ spent'.resets >= spent.resets
  BY SpentType
<1>2. worker' \in [Gen -> Worker] /\ \A h \in Gen : worker'[h] = IF h = g THEN w ELSE worker[h]
  BY DEF TypeOK
<1>3. TypeOK'
  BY <1>1, <1>2 DEF TypeOK, Bounds, clientVars
<1>4. GensBounded'
  BY <1>1 DEF TypeOK, GensBounded, clientVars
<1>5. WorkerPlaces'
  BY <1>2 DEF WorkerPlaces
<1>6. WatcherPlaces'
  BY DEF TypeOK, WatcherPlaces, clientVars
<1>7. NoNilManager'
  BY DEF NoNilManager, clientVars
<1> QED
  BY <1>3, <1>4, <1>5, <1>6, <1>7

LEMMA NextPagePlaced ==
    ASSUME TypeInv, NEW g \in Gen, NextPage(g), worker[g].at # "idle"
    PROVE  \E w \in Worker : Placed(w) /\ worker' = [worker EXCEPT ![g] = w]
<1> DEFINE w == [worker[g] EXCEPT !.at = "ensure", !.page = None, !.copy = NewPage]
<1>1. worker \in [Gen -> Worker] /\ worker[g] \in Worker /\ Placed(worker[g])
  BY DEF TypeInv, TypeOK, WorkerPlaces
<1>2. w \in Worker /\ Placed(w)
  BY <1>1, NewPageType DEF Worker, Placed
<1>3. worker' = [worker EXCEPT ![g] = w]
  BY <1>1 DEF NextPage
<1> QED
  BY <1>2, <1>3

LEMMA RemotePostType ==
    ASSUME TypeInv, NEW payload \in Remote, RemotePost(payload)
    PROVE  TypeInv'
<1>1. port \in Gen
  BY ConstantsOK DEF TypeInv, TypeOK, RemotePost, Gen, ConstantsOK
<1>2. payload \in Payload
  BY ConstantsOK DEF ConstantsOK
<1>3. queue' \in [Gen -> Seq(Payload)] /\ \A h \in Gen : Len(queue'[h]) <= Cap
  BY <1>2, QueueType DEF TypeInv, RemotePost
<1>4. /\ worker[port] \in Worker /\ Placed(worker[port])
      /\ worker = [worker EXCEPT ![port] = worker[port]]
  BY <1>1 DEF TypeInv, TypeOK, WorkerPlaces
<1> QED
  BY <1>1, <1>3, <1>4, WorkerStep DEF RemotePost, TypeInv, TypeOK

LEMMA RedeployType ==
    ASSUME TypeInv, Redeploy
    PROVE  TypeInv'
<1>1. 1 \in Gen
  BY ConstantsOK DEF Gen, ConstantsOK
<1>2. /\ worker[1] \in Worker /\ Placed(worker[1])
      /\ worker = [worker EXCEPT ![1] = worker[1]]
  BY <1>1 DEF TypeInv, TypeOK, WorkerPlaces
<1>3. routers' \subseteq LocalRouters
  BY DEF Redeploy
<1> QED
  BY <1>1, <1>2, <1>3, WorkerStep DEF Redeploy, TypeInv, TypeOK

LEMMA ProcessQueueType ==
    ASSUME TypeInv, NEW g \in Gen, ProcessQueue(g)
    PROVE  TypeInv'
<1> USE DEF TypeInv
<1>0. /\ worker \in [Gen -> Worker] /\ worker[g] \in Worker /\ Placed(worker[g])
      /\ routers \subseteq LocalRouters
  BY DEF TypeOK, WorkerPlaces
<1>1. CASE TakeJob(g)
  <2> DEFINE job == Head(queue[g])
             next == [worker[g] EXCEPT !.at = "ensure", !.job = job,
                        !.todo = {p \in Page : job.pages[p] # None}]
  <2>1. /\ job \in Payload /\ Tail(queue[g]) \in Seq(Payload)
        /\ Len(Tail(queue[g])) <= Cap
    BY <1>1, ConstantsOK DEF TakeJob, TypeOK, ConstantsOK
  <2>2. next \in Worker /\ Placed(next)
    BY <1>0, <2>1 DEF Worker, Placed
  <2>3. worker' = [worker EXCEPT ![g] = next]
    BY <1>0, <1>1 DEF TakeJob
  <2>4. queue' \in [Gen -> Seq(Payload)] /\ \A h \in Gen : Len(queue'[h]) <= Cap
    BY <1>1, <2>1 DEF TakeJob, TypeOK
  <2> QED
    BY <1>0, <1>1, <2>2, <2>3, <2>4, WorkerStep DEF TakeJob, TypeOK
<1>2. CASE AttachEnsure(g)
  <2>1. worker[g].at = "ensure" /\ worker[g].job \in Payload
    BY <1>0, <1>2 DEF AttachEnsure, Placed
  <2>2. PICK p \in worker[g].todo :
          \/ /\ kuma' = [kuma EXCEPT ![p] = EnsuredPage(p)]
             /\ worker' = [worker EXCEPT ![g].at = "attach", ![g].todo = @ \ {p},
                              ![g].page = p, ![g].copy = EnsuredPage(p)]
             /\ UNCHANGED spent
          \/ /\ CallFails
             /\ kuma' \in {kuma, [kuma EXCEPT ![p] = EnsuredPage(p)]}
             /\ worker' = [worker EXCEPT ![g].todo = @ \ {p}]
    BY <1>2 DEF AttachEnsure
  <2>3. p \in Page /\ worker[g].job.pages[p] # None /\ worker[g].todo \subseteq Page
    BY <1>0, <2>1 DEF Worker, Placed
  <2>4. EnsuredPage(p) \in PageData /\ EnsuredPage(p) # None
    BY <2>3, EnsuredPageType, ConstantsOK DEF ConstantsOK
  <2>5. /\ kuma' \in [Page -> PageData \cup {None}]
        /\ \A q \in Page : kuma[q] # None => kuma'[q] # None
    <3>1. kuma' = kuma \/ kuma' = [kuma EXCEPT ![p] = EnsuredPage(p)]
      BY <2>2
    <3> QED
      BY <2>4, <3>1 DEF TypeOK
  <2>6. \E next \in Worker : Placed(next) /\ worker' = [worker EXCEPT ![g] = next]
    <3>1. CASE worker' = [worker EXCEPT ![g].at = "attach", ![g].todo = @ \ {p},
                             ![g].page = p, ![g].copy = EnsuredPage(p)]
      <4> DEFINE next == [worker[g] EXCEPT !.at = "attach", !.todo = @ \ {p},
                             !.page = p, !.copy = EnsuredPage(p)]
      <4>1. next \in Worker /\ Placed(next)
        BY <1>0, <2>1, <2>3, <2>4 DEF Worker, Placed
      <4>2. worker' = [worker EXCEPT ![g] = next]
        BY <1>0, <3>1
      <4> QED
        BY <4>1, <4>2
    <3>2. CASE worker' = [worker EXCEPT ![g].todo = @ \ {p}]
      <4> DEFINE next == [worker[g] EXCEPT !.todo = @ \ {p}]
      <4>1. next \in Worker /\ Placed(next)
        BY <1>0, <2>1, <2>3 DEF Worker, Placed
      <4>2. worker' = [worker EXCEPT ![g] = next]
        BY <1>0, <3>2
      <4> QED
        BY <4>1, <4>2
    <3> QED
      BY <2>2, <3>1, <3>2
  <2>7. UNCHANGED spent \/ CallFails
    BY <2>2
  <2> QED
    BY <1>0, <1>2, <2>5, <2>6, <2>7, WorkerStep DEF AttachEnsure, TypeOK
<1>3. CASE JobDone(g)
  <2>1. Placed(Idle)
    BY DEF Placed, Idle
  <2> QED
    BY <1>0, <1>3, <2>1, IdleType, WorkerStep DEF JobDone, TypeOK
<1>4. CASE Attach(g)
  <2> DEFINE p    == worker[g].page
             m    == worker[g].job.monitor
             grp  == worker[g].job.pages[p]
             base == Base(g, p, worker[g].copy)
  <2>1. /\ worker[g].at = "attach" /\ p \in Page /\ worker[g].copy \in PageData
        /\ worker[g].job \in Payload /\ m \in Monitor /\ grp \in Group
    BY <1>0, <1>4 DEF Attach, Placed, Worker, Payload
  <2>2. /\ base \in Groups
        /\ Attached(base, m, grp) \in Groups /\ Aliased(base, m, grp) \in Groups
    BY <2>1, BaseType, AttachedType
  <2>3. cache' \in [Gen -> [Page -> Groups \cup {None}]]
    BY <1>4, <2>1, <2>2 DEF Attach, TypeOK
  <2>4. CASE NextPage(g)
    <3>1. \E w \in Worker : Placed(w) /\ worker' = [worker EXCEPT ![g] = w]
      BY <2>1, <2>4, NextPagePlaced
    <3> QED
      BY <1>0, <1>4, <2>3, <3>1, WorkerStep DEF Attach, TypeOK
  <2>5. CASE worker' = [worker EXCEPT ![g].at = "save", ![g].copy.groups = Attached(base, m, grp)]
    <3> DEFINE next == [worker[g] EXCEPT !.at = "save", !.copy.groups = Attached(base, m, grp)]
    <3>1. [worker[g].copy EXCEPT !.groups = Attached(base, m, grp)] \in PageData
      BY <2>1, <2>2 DEF PageData
    <3>2. next \in Worker /\ Placed(next)
      BY <1>0, <2>1, <3>1 DEF Worker, Placed
    <3>3. worker' = [worker EXCEPT ![g] = next]
      BY <1>0, <2>5
    <3> QED
      BY <1>0, <1>4, <2>3, <3>2, <3>3, WorkerStep DEF Attach, TypeOK
  <2> QED
    BY <1>4, <2>4, <2>5 DEF Attach
<1>5. CASE AttachSave(g)
  <2> DEFINE p == worker[g].page
  <2>1. /\ worker[g].at = "save" /\ p \in Page
        /\ worker[g].copy \in PageData /\ worker[g].copy.groups \in Groups
    BY <1>0, <1>5 DEF AttachSave, Placed, Worker, PageData
  <2>2. /\ kuma' \in [Page -> PageData \cup {None}]
        /\ \A q \in Page : kuma[q] # None => kuma'[q] # None
    BY <1>5, <2>1, ConstantsOK DEF AttachSave, TypeOK, ConstantsOK
  <2>3. cache' \in [Gen -> [Page -> Groups \cup {None}]]
    <3>1. CASE cache' = [cache EXCEPT ![g][p] = worker[g].copy.groups]
      BY <2>1, <3>1 DEF TypeOK
    <3>2. CASE UNCHANGED cache
      BY <3>2 DEF TypeOK
    <3> QED
      BY <1>5, <3>1, <3>2 DEF AttachSave
  <2>4. \E w \in Worker : Placed(w) /\ worker' = [worker EXCEPT ![g] = w]
    BY <1>5, <2>1, NextPagePlaced DEF AttachSave
  <2>5. UNCHANGED spent \/ CallFails
    BY <1>5 DEF AttachSave
  <2> QED
    BY <1>0, <1>5, <2>2, <2>3, <2>4, <2>5, WorkerStep DEF AttachSave, TypeOK
<1> QED
  BY <1>1, <1>2, <1>3, <1>4, <1>5 DEF ProcessQueue

-----------------------------------------------------------------------------
LEMMA TypeInvStep == TypeInv /\ [Next]_vars => TypeInv'
<1> SUFFICES ASSUME TypeInv, [Next]_vars PROVE TypeInv'
  OBVIOUS
<1>1. CASE Process
  BY <1>1, ConnectionType, SyncType, CycleType, BindType DEF Process
<1>2. CASE Connected \/ ConnectionFails \/ Restart
  BY <1>2, ConnectionType
<1>3. CASE \E payload \in Remote : RemotePost(payload)
  BY <1>3, RemotePostType
<1>4. CASE \E g \in Gen : ProcessQueue(g)
  BY <1>4, ProcessQueueType
<1>5. CASE Redeploy
  BY <1>5, RedeployType
<1>6. CASE UNCHANGED vars
  BY <1>6 DEF vars, TypeInv, TypeOK, GensBounded, WorkerPlaces, Placed, WatcherPlaces, NoNilManager
<1> QED
  BY <1>1, <1>2, <1>3, <1>4, <1>5, <1>6 DEF Next

THEOREM TypeInvHolds == Spec => []TypeInv
<1> QED
  BY InitTypeInv, TypeInvStep, PTL DEF Spec

\* Type correctness, for any pages, monitors, groups and bounds: what the watcher
\* and the workers hold between two calls is what their next step needs, and the
\* queues keep their length.
THEOREM StatusPagesTypeCorrect == Spec => []TypeOK
<1>1. TypeInv => TypeOK
  BY DEF TypeInv
<1> QED
  BY <1>1, TypeInvHolds, PTL

\* Process never runs on the objects that resetClient cleared (client.go:154 reads
\* the flags under the lock and uses the managers after it), however connections,
\* resets and crashes are interleaved.
THEOREM NoNilManagerHolds == Spec => []NoNilManager
<1>1. TypeInv => NoNilManager
  BY DEF TypeInv
<1> QED
  BY <1>1, TypeInvHolds, PTL

-----------------------------------------------------------------------------
\* Every group list, wherever it is kept, has a monitor in one group at most.
OneGroupInv ==
    /\ OneGroupPerPage
    /\ \A g \in Gen, p \in Page : cache[g][p] # None => OneGroup(cache[g][p])
    /\ \A g \in Gen : OneGroup(worker[g].copy.groups)
    /\ OneGroup(watcher.copy.groups)

\* The pages that Kuma may hold at the start are sound.
SoundPages == \A pages \in InitPages, p \in Page :
                 pages[p] # None => OneGroup(pages[p].groups)

LEMMA NewPageOneGroup == OneGroup(NewPage.groups)
BY DEF OneGroup, NewPage, NoGroups

LEMMA EnsuredOneGroup ==
    ASSUME OneGroupInv, NEW p \in Page
    PROVE  OneGroup(EnsuredPage(p).groups)
BY NewPageOneGroup DEF OneGroupInv, OneGroupPerPage, EnsuredPage

LEMMA BaseOneGroup ==
    ASSUME OneGroupInv, NEW g \in Gen, NEW p \in Page, NEW copy, OneGroup(copy.groups)
    PROVE  OneGroup(Base(g, p, copy))
BY DEF OneGroupInv, Base

LEMMA AttachedOneGroup ==
    ASSUME NEW groups \in Groups, NEW m \in Monitor, NEW grp \in Group, OneGroup(groups)
    PROVE  OneGroup(Attached(groups, m, grp)) /\ OneGroup(Aliased(groups, m, grp))
BY DEF Groups, Attached, Aliased, OneGroup

LEMMA InitOneGroup == SoundPages /\ Init => OneGroupInv
<1> SUFFICES ASSUME SoundPages, Init PROVE OneGroupInv
  OBVIOUS
<1>1. OneGroupPerPage
  BY DEF Init, SoundPages, OneGroupPerPage
<1>2. \A g \in Gen, p \in Page : cache[g][p] = None
  BY DEF Init, NoCache
<1>3. \A g \in Gen : worker[g].copy = NewPage /\ watcher.copy = NewPage
  BY DEF Init, Idle
<1>4. watcher.copy = NewPage
  BY DEF Init, Idle
<1> QED
  BY <1>1, <1>2, <1>3, <1>4, NewPageOneGroup DEF OneGroupInv

LEMMA WatcherOneGroup ==
    ASSUME TypeInv, OneGroupInv, Process
    PROVE  OneGroupInv'
<1> watcher \in Watcher /\ synced \in BOOLEAN /\ watcher.copy \in PageData
  BY DEF TypeInv, TypeOK, Watcher
<1>1. CASE \/ StartConnecting \/ BeginSync \/ ResetClient \/ EndSync \/ BeginCycle
           \/ NextRouter \/ RequestAttach
  <2>1. UNCHANGED <<kuma, cache, worker>> /\ watcher'.copy = watcher.copy
    BY <1>1 DEF StartConnecting, BeginSync, ResetClient, EndSync, BeginCycle, NextRouter,
       RequestAttach, Watcher
  <2> QED
    BY <2>1 DEF OneGroupInv, OneGroupPerPage
<1>2. CASE EndCycle
  BY <1>2, NewPageOneGroup DEF EndCycle, Idle, OneGroupInv, OneGroupPerPage
<1>3. CASE SyncPage
  <2>1. PICK p \in watcher.todo :
          watcher'.copy = kuma[p] \/ watcher'.copy = watcher.copy
    BY <1>3 DEF SyncPage, Watcher
  <2>2. p \in Page /\ kuma[p] # None
    BY <1>3 DEF SyncPage, TypeInv, WatcherPlaces
  <2> QED
    BY <1>3, <2>1, <2>2 DEF SyncPage, OneGroupInv, OneGroupPerPage
<1>4. CASE StorePage
  <2>1. watcher.page \in Page /\ cache \in [Gen -> [Page -> Groups \cup {None}]]
    BY <1>4 DEF StorePage, TypeInv, TypeOK, WatcherPlaces
  <2>2. \A g \in Gen, p \in Page :
           cache'[g][p] = watcher.copy.groups \/ cache'[g][p] = cache[g][p]
    BY <1>4, <2>1 DEF StorePage
  <2>3. watcher'.copy.groups = watcher.copy.groups \/ watcher'.copy = NewPage
    <3>1. CASE Leave("sync")
      BY <3>1 DEF Leave, Watcher
    <3>2. CASE watcher' = [watcher EXCEPT !.at = "save", !.copy.domains = @ \cup {GlobalDomain}]
      <4>1. watcher'.copy = [watcher.copy EXCEPT !.domains = @ \cup {GlobalDomain}]
        BY <3>2 DEF Watcher
      <4> QED
        BY <4>1 DEF PageData
    <3> QED
      BY <1>4, <3>1, <3>2 DEF StorePage
  <2> QED
    BY <1>4, <2>2, <2>3, NewPageOneGroup DEF StorePage, OneGroupInv, OneGroupPerPage
<1>5. CASE BindEnsure
  <2> DEFINE p == watcher.job.slug
  <2>1. p \in Page /\ kuma \in [Page -> PageData \cup {None}]
    BY <1>5 DEF BindEnsure, TypeInv, TypeOK, WatcherPlaces
  <2>2. OneGroup(EnsuredPage(p).groups)
    BY <2>1, EnsuredOneGroup
  <2>3. \A q \in Page : kuma'[q] = EnsuredPage(p) \/ kuma'[q] = kuma[q]
    BY <1>5, <2>1 DEF BindEnsure
  <2>4. watcher'.copy = EnsuredPage(p) \/ watcher'.copy = NewPage
    BY <1>5 DEF BindEnsure, Leave, Watcher
  <2> QED
    BY <1>5, <2>2, <2>3, <2>4, NewPageOneGroup DEF BindEnsure, OneGroupInv, OneGroupPerPage
<1>6. CASE BindPrepare
  <2>1. watcher.page \in Page /\ client \in Gen
    BY <1>6, ConstantsOK DEF BindPrepare, TypeInv, TypeOK, WatcherPlaces, NoNilManager, Gen,
       ConstantsOK
  <2>2. OneGroup(Base(client, watcher.page, watcher.copy))
    BY <2>1, BaseOneGroup DEF OneGroupInv
  <2>3. \/ watcher'.copy = NewPage
        \/ watcher'.copy.groups = Base(client, watcher.page, watcher.copy)
    <3>1. CASE Leave("request")
      BY <3>1 DEF Leave, Watcher
    <3>2. CASE watcher' = [watcher EXCEPT !.at = "save",
                             !.copy.domains = @ \cup {watcher.job.domain},
                             !.copy.groups = Base(client, watcher.page, watcher.copy)]
      <4>1. watcher'.copy = [watcher.copy EXCEPT !.domains = @ \cup {watcher.job.domain},
                               !.groups = Base(client, watcher.page, watcher.copy)]
        BY <3>2 DEF Watcher
      <4> QED
        BY <4>1 DEF PageData
    <3> QED
      BY <1>6, <3>1, <3>2 DEF BindPrepare
  <2> QED
    BY <1>6, <2>2, <2>3, NewPageOneGroup DEF BindPrepare, OneGroupInv, OneGroupPerPage
<1>7. CASE BindSave
  <2>1. watcher.page \in Page /\ kuma \in [Page -> PageData \cup {None}]
    BY <1>7 DEF BindSave, TypeInv, TypeOK, WatcherPlaces
  <2>2. \A q \in Page : kuma'[q] = watcher.copy \/ kuma'[q] = kuma[q]
    BY <1>7, <2>1 DEF BindSave
  <2>3. watcher'.copy = NewPage
    BY <1>7 DEF BindSave, Leave, Watcher
  <2> QED
    BY <1>7, <2>2, <2>3, NewPageOneGroup DEF BindSave, OneGroupInv, OneGroupPerPage
<1> QED
  BY <1>1, <1>2, <1>3, <1>4, <1>5, <1>6, <1>7 DEF Process

LEMMA WorkerOneGroup ==
    ASSUME TypeInv, OneGroupInv, NEW g \in Gen, ProcessQueue(g)
    PROVE  OneGroupInv'
<1>0. /\ worker \in [Gen -> Worker] /\ worker[g] \in Worker /\ Placed(worker[g])
      /\ kuma \in [Page -> PageData \cup {None}]
      /\ cache \in [Gen -> [Page -> Groups \cup {None}]]
  BY DEF TypeInv, TypeOK, WorkerPlaces
<1>1. CASE TakeJob(g)
  <2>1. \A h \in Gen : worker'[h].copy = worker[h].copy
    BY <1>0, <1>1 DEF TakeJob, Worker
  <2> QED
    BY <1>1, <2>1 DEF TakeJob, OneGroupInv, OneGroupPerPage
<1>2. CASE AttachEnsure(g)
  <2>1. PICK p \in worker[g].todo :
          /\ kuma' \in {kuma, [kuma EXCEPT ![p] = EnsuredPage(p)]}
          /\ \/ worker' = [worker EXCEPT ![g].at = "attach", ![g].todo = @ \ {p},
                             ![g].page = p, ![g].copy = EnsuredPage(p)]
             \/ worker' = [worker EXCEPT ![g].todo = @ \ {p}]
    BY <1>2 DEF AttachEnsure
  <2>2. p \in Page
    BY <1>0, <1>2 DEF AttachEnsure, Placed, Worker
  <2>3. OneGroup(EnsuredPage(p).groups)
    BY <2>2, EnsuredOneGroup
  <2>4. \A q \in Page : kuma'[q] = EnsuredPage(p) \/ kuma'[q] = kuma[q]
    BY <1>0, <2>1
  <2>5. \A h \in Gen : worker'[h].copy = EnsuredPage(p) \/ worker'[h].copy = worker[h].copy
    BY <1>0, <2>1 DEF Worker
  <2> QED
    BY <1>2, <2>3, <2>4, <2>5 DEF AttachEnsure, OneGroupInv, OneGroupPerPage
<1>3. CASE JobDone(g)
  <2>1. \A h \in Gen : worker'[h].copy = NewPage \/ worker'[h].copy = worker[h].copy
    BY <1>0, <1>3 DEF JobDone, Idle
  <2> QED
    BY <1>3, <2>1, NewPageOneGroup DEF JobDone, OneGroupInv, OneGroupPerPage
<1>4. CASE Attach(g)
  <2> DEFINE p    == worker[g].page
             m    == worker[g].job.monitor
             grp  == worker[g].job.pages[p]
             base == Base(g, p, worker[g].copy)
  <2>1. /\ p \in Page /\ worker[g].copy \in PageData
        /\ worker[g].job \in Payload /\ m \in Monitor /\ grp \in Group
    BY <1>0, <1>4 DEF Attach, Placed, Worker, Payload
  <2>2. base \in Groups /\ OneGroup(base)
    BY <2>1, BaseType, BaseOneGroup DEF TypeInv, OneGroupInv
  <2>3. OneGroup(Attached(base, m, grp)) /\ OneGroup(Aliased(base, m, grp))
    BY <2>1, <2>2, AttachedOneGroup
  <2>4. \A h \in Gen, q \in Page :
           cache'[h][q] = Aliased(base, m, grp) \/ cache'[h][q] = cache[h][q]
    BY <1>0, <1>4, <2>1 DEF Attach
  <2>5. \A h \in Gen : \/ worker'[h].copy = NewPage \/ worker'[h].copy = worker[h].copy
                       \/ worker'[h].copy.groups = Attached(base, m, grp)
    <3>1. CASE NextPage(g)
      BY <1>0, <3>1 DEF NextPage, Worker
    <3>2. CASE worker' = [worker EXCEPT ![g].at = "save",
                            ![g].copy.groups = Attached(base, m, grp)]
      <4>1. worker'[g].copy = [worker[g].copy EXCEPT !.groups = Attached(base, m, grp)]
        BY <1>0, <3>2 DEF Worker
      <4>2. \A h \in Gen \ {g} : worker'[h] = worker[h]
        BY <1>0, <3>2
      <4> QED
        BY <2>1, <4>1, <4>2 DEF PageData
    <3> QED
      BY <1>4, <3>1, <3>2 DEF Attach
  <2> QED
    BY <1>4, <2>3, <2>4, <2>5, NewPageOneGroup DEF Attach, OneGroupInv, OneGroupPerPage
<1>5. CASE AttachSave(g)
  <2> DEFINE p == worker[g].page
  <2>1. p \in Page
    BY <1>0, <1>5 DEF AttachSave, Placed
  <2>2. \A q \in Page : kuma'[q] = worker[g].copy \/ kuma'[q] = kuma[q]
    BY <1>0, <1>5, <2>1 DEF AttachSave
  <2>3. \A h \in Gen, q \in Page :
           cache'[h][q] = worker[g].copy.groups \/ cache'[h][q] = cache[h][q]
    BY <1>0, <1>5, <2>1 DEF AttachSave
  <2>4. \A h \in Gen : worker'[h].copy = NewPage \/ worker'[h].copy = worker[h].copy
    BY <1>0, <1>5 DEF AttachSave, NextPage, Worker
  <2> QED
    BY <1>5, <2>2, <2>3, <2>4, NewPageOneGroup DEF AttachSave, OneGroupInv, OneGroupPerPage
<1> QED
  BY <1>1, <1>2, <1>3, <1>4, <1>5 DEF ProcessQueue

LEMMA OneGroupStep == TypeInv /\ OneGroupInv /\ [Next]_vars => OneGroupInv'
<1> SUFFICES ASSUME TypeInv, OneGroupInv, [Next]_vars PROVE OneGroupInv'
  OBVIOUS
<1>1. CASE Process
  BY <1>1, WatcherOneGroup
<1>2. CASE \E g \in Gen : ProcessQueue(g)
  BY <1>2, WorkerOneGroup
<1>3. CASE \/ Connected \/ ConnectionFails \/ Redeploy \/ UNCHANGED vars
           \/ \E payload \in Remote : RemotePost(payload)
  <2>1. UNCHANGED <<kuma, cache, worker, watcher>>
    BY <1>3 DEF Connected, ConnectionFails, Redeploy, RemotePost, vars
  <2> QED
    BY <2>1 DEF OneGroupInv, OneGroupPerPage
<1>4. CASE Restart
  <2>1. \A g \in Gen, p \in Page : cache'[g][p] = None
    BY <1>4 DEF Restart, NoCache
  <2>2. \A g \in Gen : worker'[g].copy = NewPage
    BY <1>4 DEF Restart, Idle
  <2>3. watcher'.copy = NewPage /\ UNCHANGED kuma
    BY <1>4 DEF Restart, Idle
  <2> QED
    BY <2>1, <2>2, <2>3, NewPageOneGroup DEF OneGroupInv, OneGroupPerPage
<1> QED
  BY <1>1, <1>2, <1>3, <1>4 DEF Next

\* If it was so at the start, no page ever shows a monitor in two groups, although
\* the group lists are copied, cached, edited in place and saved late by several
\* goroutines (attachToGroup, ensureDomainMapping), with any failures and crashes.
THEOREM OneGroupHolds == ASSUME SoundPages PROVE Spec => []OneGroupPerPage
<1>1. Init => OneGroupInv
  BY InitOneGroup
<1>2. OneGroupInv => OneGroupPerPage
  BY DEF OneGroupInv
<1> QED
  BY <1>1, <1>2, OneGroupStep, TypeInvHolds, PTL DEF Spec
-----------------------------------------------------------------------------
\* Every payload, queued or in hand, is one that somebody asks for.
JobsAsked ==
    /\ \A g \in Gen : /\ queue[g] \in Seq(Payloads)
                      /\ worker[g].at # "idle" => worker[g].job \in Payloads
    /\ watcher.at \in {"ensure", "bind", "request", "save"} /\ synced =>
          watcher.job \in LocalRouters

\* A generation yet to come has no cache and no work.
Unborn == \A g \in Gen : g > gens => cache[g] = NoCache /\ worker[g].at = "idle"

\* What a worker is about to save has its monitor where it is asked for.
SaveWants ==
    \A g \in Gen : worker[g].at = "save" =>
        LET job == worker[g].job IN
        worker[g].copy.groups.in[job.monitor] = {job.pages[worker[g].page]}

\* A sync stores each page once.
SyncOnce == watcher.at \in {"store", "save"} /\ ~synced => watcher.page \notin watcher.todo

PlaceInv == JobsAsked /\ Unborn /\ SaveWants /\ SyncOnce

\* The first generation has not stored page p yet.
Unstored(p) ==
    /\ gens = 1 /\ ~synced
    /\ \/ watcher.at = "idle" \/ p \in watcher.todo
       \/ watcher.at = "store" /\ watcher.page = p

Landing(p, m, grp) == kuma[p] # None /\ kuma[p].groups.in[m] = {grp}

\* What the watcher is about to put into a cache is still so in Kuma.
StoreHonest ==
    watcher.at = "store" =>
        \A p \in Page \ spoilt, m \in Monitor, grp \in Group :
            /\ p = watcher.page /\ watcher.copy.groups.in[m] = {grp} /\ Agreed(m, p, grp)
            => Landing(p, m, grp)

\* While it is alone, the first generation has nothing but what Kuma has.
AloneInStep ==
    \A p \in Page \ spoilt, m \in Monitor : Unstored(p) /\ ~Saving(1, p, m) =>
        /\ cache[1][p] # None => kuma[p] # None /\ cache[1][p].in[m] = kuma[p].groups.in[m]
        /\ worker[1].at \in {"attach", "save"} /\ worker[1].page = p =>
              /\ kuma[p] # None
              /\ worker[1].copy.groups.in[m] = kuma[p].groups.in[m]

HonestInv == CachesHonest /\ StoreHonest /\ AloneInStep

faultVars == <<vars, spoilt>>

\* But for a restart, generations are only added, and pages stay spoilt.
LEMMA SpoiltGrows ==
    ASSUME TypeInv, FaultsNext, ~Restart
    PROVE  /\ gens' \in Nat /\ gens' >= gens /\ spoilt \subseteq spoilt'
           /\ \A p \in Page : WipedOut(p) \/ SaveFailed(p) \/ Overwritten(p) => p \in spoilt'
<1>1. gens \in Nat
  BY ConstantsOK DEF TypeInv, TypeOK, ConstantsOK
<1>2. gens' = gens \/ gens' = gens + 1
  BY DEF FaultsNext, Next, Process, StartConnecting, BeginSync, ResetClient, SyncPage,
     StorePage, EndSync, BeginCycle, NextRouter, EndCycle, BindEnsure, BindPrepare, BindSave,
     RequestAttach, Connected, ConnectionFails, RemotePost, ProcessQueue, TakeJob,
     AttachEnsure, JobDone, Attach, AttachSave, Redeploy, clientVars
<1> QED
  BY <1>1, <1>2 DEF FaultsNext

LEMMA InitHonest == Init => PlaceInv /\ HonestInv
<1> SUFFICES ASSUME Init PROVE PlaceInv /\ HonestInv
  OBVIOUS
<1>1. /\ gens = 0 /\ watcher.at = "idle"
      /\ \A g \in Gen : cache[g] = NoCache /\ queue[g] = <<>> /\ worker[g].at = "idle"
  BY DEF Init, Idle
<1>2. PlaceInv
  <2>1. <<>> \in Seq(Payloads)
    OBVIOUS
  <2>2. JobsAsked
    BY <1>1, <2>1 DEF JobsAsked
  <2>3. Unborn /\ SaveWants /\ SyncOnce
    BY <1>1 DEF Unborn, SaveWants, SyncOnce
  <2> QED
    BY <2>2, <2>3 DEF PlaceInv
<1>3. CachesHonest
  BY <1>1 DEF CachesHonest, NoCache
<1> QED
  BY <1>1, <1>2, <1>3 DEF HonestInv, StoreHonest, AloneInStep, Unstored

-----------------------------------------------------------------------------
LEMMA CycleAt ==
    ASSUME watcher \in Watcher, BeginCycle \/ NextRouter \/ EndCycle \/ RequestAttach
    PROVE  watcher'.at \in {"idle", "cycle", "request", "ensure"}
<1>1. CASE BeginCycle
  BY <1>1 DEF BeginCycle, Watcher
<1>2. CASE NextRouter
  BY <1>2 DEF NextRouter, Watcher
<1>3. CASE EndCycle
  BY <1>3 DEF EndCycle, Idle
<1>4. CASE RequestAttach
  <2>1. watcher' = [watcher EXCEPT !.at = "cycle", !.job = None]
    BY <1>4 DEF RequestAttach
  <2> QED
    BY <2>1 DEF Watcher
<1> QED
  BY <1>1, <1>2, <1>3, <1>4

\* The steps of the watcher keep to their places.
LEMMA WatcherPlace ==
    ASSUME TypeInv, PlaceInv, Process PROVE PlaceInv'
<1> USE DEF PlaceInv
<1>0. /\ watcher \in Watcher /\ synced \in BOOLEAN /\ routers \subseteq LocalRouters
      /\ watcher.at # "idle" /\ ~synced => watcher.todo \subseteq Page
      /\ watcher.at # "idle" /\ synced => watcher.todo \subseteq LocalRouters
      /\ watcher.at # "idle" => client \in Gen /\ client <= gens
  BY ConstantsOK DEF TypeInv, TypeOK, WatcherPlaces, NoNilManager, Gen, ConstantsOK
<1>1. UNCHANGED <<worker, gens>>
  BY DEF Process, StartConnecting, BeginSync, ResetClient, SyncPage,
     StorePage, EndSync, BeginCycle, NextRouter, EndCycle, BindEnsure, BindPrepare, BindSave,
     RequestAttach, clientVars
<1>2. Unborn'
  <2>1. CASE UNCHANGED cache
    BY <1>1, <2>1 DEF Unborn
  <2>2. CASE StorePage
    <3>1. \A g \in Gen : g # client => cache'[g] = cache[g]
      BY <2>2 DEF StorePage, TypeInv, TypeOK
    <3>2. client <= gens /\ gens \in Nat
      BY <1>0, <2>2, ConstantsOK DEF StorePage, TypeInv, TypeOK, ConstantsOK
    <3> QED
      BY <1>1, <3>1, <3>2 DEF Unborn, Gen
  <2> QED
    BY <2>1, <2>2 DEF Process, StartConnecting, BeginSync, ResetClient, SyncPage,
       EndSync, BeginCycle, NextRouter, EndCycle, BindEnsure, BindPrepare, BindSave,
       RequestAttach
<1>3. SaveWants'
  BY <1>1 DEF SaveWants
<1>4. \A g \in Gen : queue'[g] \in Seq(Payloads)
  <2>1. CASE UNCHANGED queue
    BY <2>1 DEF JobsAsked
  <2>2. CASE RequestAttach /\ queue' # queue
    <3>1. synced /\ watcher.job \in LocalRouters /\ watcher.job.attach # None
      BY <2>2 DEF RequestAttach, JobsAsked, TypeInv, WatcherPlaces
    <3>2. watcher.job.attach \in Payloads
      BY <3>1 DEF Payloads
    <3>3. queue' = [queue EXCEPT ![client] = Append(@, watcher.job.attach)]
      BY <2>2 DEF RequestAttach
    <3>4. queue \in [Gen -> Seq(Payload)]
      BY DEF TypeInv, TypeOK
    <3> QED
      BY <3>2, <3>3, <3>4 DEF JobsAsked
  <2> QED
    BY <2>1, <2>2 DEF Process, StartConnecting, BeginSync, ResetClient, SyncPage,
       StorePage, EndSync, BeginCycle, NextRouter, EndCycle, BindEnsure, BindPrepare, BindSave
<1>5. watcher'.at \in {"ensure", "bind", "request", "save"} /\ synced' =>
          watcher'.job \in LocalRouters
  <2>1. CASE StartConnecting \/ ResetClient
    BY <2>1 DEF StartConnecting, ResetClient, JobsAsked
  <2>2. CASE BeginSync \/ EndSync \/ BeginCycle \/ EndCycle \/ RequestAttach
    <3>1. CASE BeginSync \/ EndSync
      BY <1>0, <3>1 DEF BeginSync, EndSync, Watcher
    <3>2. CASE BeginCycle
      BY <1>0, <3>2 DEF BeginCycle, Watcher
    <3>3. CASE EndCycle
      BY <3>3 DEF EndCycle, Idle
    <3>4. CASE RequestAttach
      <4>1. watcher' = [watcher EXCEPT !.at = "cycle", !.job = None]
        BY <3>4 DEF RequestAttach
      <4> QED
        BY <1>0, <4>1 DEF Watcher
    <3> QED
      BY <2>2, <3>1, <3>2, <3>3, <3>4
  <2>3. CASE SyncPage \/ StorePage
    BY <2>3 DEF SyncPage, StorePage, clientVars, TypeInv, WatcherPlaces
  <2>4. CASE NextRouter
    <3>1. synced /\ watcher.todo \subseteq LocalRouters
      BY <1>0, <2>4 DEF NextRouter, TypeInv, WatcherPlaces
    <3> QED
      BY <1>0, <2>4, <3>1 DEF NextRouter, Watcher
  <2>5. CASE BindEnsure \/ BindPrepare \/ BindSave
    <3>1. watcher'.job = watcher.job /\ synced' = synced
      BY <1>0, <2>5 DEF BindEnsure, BindPrepare, BindSave, Leave, Watcher, clientVars
    <3> QED
      BY <2>5, <3>1 DEF BindEnsure, BindPrepare, BindSave, JobsAsked
  <2> QED
    BY <2>1, <2>2, <2>3, <2>4, <2>5 DEF Process
<1>6. SyncOnce'
  <2>1. CASE StartConnecting \/ ResetClient
    BY <2>1 DEF StartConnecting, ResetClient, SyncOnce
  <2>2. CASE BeginSync \/ EndSync \/ BeginCycle \/ EndCycle \/ RequestAttach \/ NextRouter
    <3>1. watcher'.at \in {"sync", "cycle", "idle", "request", "ensure"}
      <4>1. CASE BeginSync \/ EndSync
        BY <1>0, <4>1 DEF BeginSync, EndSync, Watcher
      <4> QED
        BY <1>0, <2>2, <4>1, CycleAt
    <3> QED
      BY <3>1 DEF SyncOnce
  <2>3. CASE SyncPage
    BY <1>0, <2>3 DEF SyncPage, Watcher, SyncOnce
  <2>4. CASE StorePage
    BY <1>0, <2>4 DEF StorePage, Leave, Watcher, SyncOnce, clientVars
  <2>5. CASE BindEnsure \/ BindPrepare
    BY <2>5 DEF BindEnsure, BindPrepare, clientVars, TypeInv, WatcherPlaces, SyncOnce
  <2>6. CASE BindSave
    BY <1>0, <2>6 DEF BindSave, Leave, Watcher, SyncOnce
  <2> QED
    BY <2>1, <2>2, <2>3, <2>4, <2>5, <2>6 DEF Process
<1> QED
  BY <1>1, <1>2, <1>3, <1>4, <1>5, <1>6 DEF JobsAsked

\* So do those of a worker.
LEMMA WorkerPlace ==
    ASSUME TypeInv, PlaceInv, NEW g \in Gen, ProcessQueue(g) PROVE PlaceInv'
<1> USE DEF PlaceInv
<1>0. /\ worker \in [Gen -> Worker] /\ worker[g] \in Worker /\ Placed(worker[g])
      /\ queue \in [Gen -> Seq(Payload)] /\ cache \in [Gen -> [Page -> Groups \cup {None}]]
      /\ gens \in Nat
  BY ConstantsOK DEF TypeInv, TypeOK, WorkerPlaces, ConstantsOK
<1>1. UNCHANGED <<watcher, synced, gens>>
  BY DEF ProcessQueue, TakeJob, AttachEnsure, JobDone, Attach, AttachSave, clientVars
<1>2. \A h \in Gen : h # g => worker'[h] = worker[h] /\ cache'[h] = cache[h]
  BY <1>0 DEF ProcessQueue, TakeJob, AttachEnsure, JobDone, Attach, AttachSave, NextPage
<1>3. g <= gens
  <2>1. CASE TakeJob(g)
    BY <2>1 DEF TakeJob
  <2>2. CASE worker[g].at # "idle"
    <3>1. g \in Nat
      BY ConstantsOK DEF Gen, ConstantsOK
    <3> QED
      BY <1>0, <2>2, <3>1 DEF Unborn
  <2> QED
    BY <2>1, <2>2 DEF ProcessQueue, AttachEnsure, JobDone, Attach, AttachSave
<1>4. Unborn'
  BY <1>0, <1>1, <1>2, <1>3 DEF Unborn, Gen
<1>5. SyncOnce'
  BY <1>1 DEF SyncOnce
<1>6. CASE TakeJob(g)
  <2>1. Head(queue[g]) \in Payloads /\ Tail(queue[g]) \in Seq(Payloads)
    BY <1>6 DEF TakeJob, JobsAsked
  <2>2. worker'[g].job = Head(queue[g]) /\ worker'[g].at = "ensure"
    BY <1>0, <1>6 DEF TakeJob, Worker
  <2>3. JobsAsked'
    BY <1>0, <1>1, <1>2, <1>6, <2>1, <2>2 DEF TakeJob, JobsAsked
  <2> QED
    BY <1>2, <1>4, <1>5, <2>2, <2>3 DEF SaveWants
<1>7. CASE AttachEnsure(g) \/ JobDone(g) \/ AttachSave(g)
  <2>1. /\ worker'[g].at \in {"idle", "ensure", "attach"}
        /\ worker'[g].at # "idle" => worker'[g].job = worker[g].job
    <3>1. CASE AttachEnsure(g)
      BY <1>0, <3>1 DEF AttachEnsure, Worker
    <3>2. CASE JobDone(g)
      BY <1>0, <3>2 DEF JobDone, Idle
    <3>3. CASE AttachSave(g)
      BY <1>0, <3>3 DEF AttachSave, NextPage, Worker
    <3> QED
      BY <1>7, <3>1, <3>2, <3>3
  <2>2. worker[g].at # "idle" /\ UNCHANGED queue
    BY <1>7 DEF AttachEnsure, JobDone, AttachSave
  <2> QED
    BY <1>1, <1>2, <1>4, <1>5, <2>1, <2>2 DEF JobsAsked, SaveWants
<1>8. CASE Attach(g)
  <2> DEFINE p    == worker[g].page
             m    == worker[g].job.monitor
             grp  == worker[g].job.pages[p]
             base == Base(g, p, worker[g].copy)
  <2>1. /\ worker[g].at = "attach" /\ p \in Page /\ worker[g].copy \in PageData
        /\ m \in Monitor /\ grp \in Group /\ base \in Groups
    BY <1>0, <1>8, BaseType DEF Attach, Placed, Worker, Payload, TypeInv
  <2>2. CASE NextPage(g)
    <3>1. worker'[g].at = "ensure" /\ worker'[g].job = worker[g].job
      BY <1>0, <2>2 DEF NextPage, Worker
    <3> QED
      BY <1>1, <1>2, <1>4, <1>5, <1>8, <2>1, <3>1 DEF Attach, JobsAsked, SaveWants
  <2>3. CASE worker' = [worker EXCEPT ![g].at = "save", ![g].copy.groups = Attached(base, m, grp)]
    <3>1. /\ worker'[g].job = worker[g].job /\ worker'[g].page = p /\ worker'[g].at = "save"
          /\ worker'[g].copy.groups = Attached(base, m, grp)
      BY <1>0, <2>1, <2>3 DEF Worker, PageData
    <3>2. Attached(base, m, grp).in[m] = {grp}
      BY <2>1 DEF Attached, Groups
    <3>3. SaveWants'
      BY <1>2, <3>1, <3>2 DEF SaveWants
    <3> QED
      BY <1>1, <1>2, <1>4, <1>5, <1>8, <2>1, <3>1, <3>3 DEF Attach, JobsAsked
  <2> QED
    BY <1>8, <2>2, <2>3 DEF Attach
<1> QED
  BY <1>6, <1>7, <1>8 DEF ProcessQueue

LEMMA PlaceStep == TypeInv /\ PlaceInv /\ [Next]_vars => PlaceInv'
<1> SUFFICES ASSUME TypeInv, PlaceInv, [Next]_vars PROVE PlaceInv'
  OBVIOUS
<1> USE DEF PlaceInv
<1>1. CASE Connected
  <2>1. gens' >= gens /\ gens \in Nat /\ gens' = gens + 1 /\ watcher.at = "idle"
    BY <1>1, ConstantsOK DEF Connected, TypeInv, TypeOK, NoNilManager, ConstantsOK
  <2> QED
    BY <1>1, <2>1 DEF Connected, JobsAsked, Unborn, SaveWants, SyncOnce, Gen
<1>2. CASE ConnectionFails \/ Redeploy \/ UNCHANGED vars
  <2>1. UNCHANGED <<cache, queue, worker, watcher, gens, synced>>
    BY <1>2 DEF ConnectionFails, Redeploy, vars, clientVars
  <2> QED
    BY <2>1 DEF JobsAsked, Unborn, SaveWants, SyncOnce
<1>3. ASSUME NEW payload \in Remote, RemotePost(payload) PROVE PlaceInv'
  <2>1. payload \in Payloads /\ queue \in [Gen -> Seq(Payload)]
    BY DEF Payloads, TypeInv, TypeOK
  <2>2. \A h \in Gen : queue'[h] \in Seq(Payloads)
    BY <1>3, <2>1 DEF RemotePost, JobsAsked
  <2> QED
    BY <1>3, <2>2 DEF RemotePost, clientVars, JobsAsked, Unborn, SaveWants, SyncOnce
<1>4. CASE Restart
  <2>1. /\ watcher'.at = "idle"
        /\ \A g \in Gen : /\ cache'[g] = NoCache /\ queue'[g] = <<>>
                          /\ worker'[g].at = "idle"
    BY <1>4 DEF Restart, Idle
  <2>2. <<>> \in Seq(Payloads)
    OBVIOUS
  <2>3. JobsAsked'
    BY <2>1, <2>2 DEF JobsAsked
  <2> QED
    BY <2>1, <2>3 DEF Unborn, SaveWants, SyncOnce
<1> QED
  BY <1>1, <1>2, <1>3, <1>4, WatcherPlace, WorkerPlace DEF Next
-----------------------------------------------------------------------------
\* Caches stay honest where the lists of pages that are not spoilt stay the same.
LEMMA KeptHonest ==
    ASSUME CachesHonest, spoilt \subseteq spoilt', UNCHANGED <<cache, worker>>,
           \A p \in Page \ spoilt' : kuma[p] # None =>
               kuma'[p] # None /\ kuma'[p].groups = kuma[p].groups
    PROVE  CachesHonest'
BY DEF CachesHonest, Saving, Agreed

LEMMA KeptInStep ==
    ASSUME AloneInStep, spoilt \subseteq spoilt', UNCHANGED <<kuma, cache, worker>>,
           \A p \in Page : Unstored(p)' => Unstored(p)
    PROVE  AloneInStep'
BY DEF AloneInStep, Saving

LEMMA QuietHonest ==
    ASSUME HonestInv, spoilt \subseteq spoilt', UNCHANGED <<kuma, cache, worker>>,
           \A p \in Page : Unstored(p)' => Unstored(p),
           watcher'.at = "store" => UNCHANGED watcher
    PROVE  HonestInv'
<1>1. CachesHonest' /\ AloneInStep'
  BY KeptHonest, KeptInStep DEF HonestInv
<1>2. StoreHonest'
  BY DEF HonestInv, StoreHonest, Landing, Agreed
<1> QED
  BY <1>1, <1>2 DEF HonestInv

\* A sync reads pages and puts what it has read into the cache.
LEMMA SyncHonest ==
    ASSUME TypeInv, PlaceInv, HonestInv, spoilt \subseteq spoilt', SyncPage \/ StorePage
    PROVE  HonestInv'
<1> watcher \in Watcher /\ UNCHANGED <<kuma, worker, gens, synced>>
  BY DEF TypeInv, TypeOK, SyncPage, StorePage, clientVars
<1>1. CASE SyncPage
  <2>1. PICK p \in watcher.todo :
          \/ watcher' = [watcher EXCEPT !.at = "store", !.todo = @ \ {p}, !.page = p,
                            !.copy = kuma[p]]
          \/ watcher' = [watcher EXCEPT !.todo = @ \ {p}]
    BY <1>1 DEF SyncPage
  <2>2. watcher.at = "sync" /\ ~synced /\ UNCHANGED cache /\ kuma[p] # None
    BY <1>1 DEF SyncPage, TypeInv, WatcherPlaces
  <2>3. /\ watcher'.todo = watcher.todo \ {p}
        /\ \/ watcher'.at = "store" /\ watcher'.page = p /\ watcher'.copy = kuma[p]
           \/ watcher'.at = "sync"
    BY <2>1, <2>2 DEF Watcher
  <2>4. \A q \in Page : Unstored(q)' => Unstored(q)
    BY <2>2, <2>3 DEF Unstored
  <2>5. StoreHonest'
    BY <2>2, <2>3 DEF StoreHonest, Landing
  <2> QED
    BY <2>2, <2>4, <2>5, KeptHonest, KeptInStep DEF HonestInv
<1>2. CASE StorePage
  <2> DEFINE p == watcher.page
  <2>1. /\ watcher.at = "store" /\ ~synced /\ p \in Page /\ p \notin watcher.todo
        /\ cache \in [Gen -> [Page -> Groups \cup {None}]]
    BY <1>2 DEF StorePage, TypeInv, TypeOK, WatcherPlaces, PlaceInv, SyncOnce
  <2>2. watcher'.todo = watcher.todo /\ watcher'.at \in {"sync", "save"}
    BY <1>2 DEF StorePage, Leave, Watcher
  <2>3. \A g \in Gen, q \in Page :
            \/ cache'[g][q] = cache[g][q]
            \/ q = p /\ cache'[g][q] = watcher.copy.groups
    BY <1>2, <2>1 DEF StorePage
  <2>4. CachesHonest'
    <3> SUFFICES ASSUME NEW g \in Gen, NEW q \in Page \ spoilt', NEW m \in Monitor,
                        NEW grp \in Group,
                        cache'[g][q] # None, cache'[g][q].in[m] = {grp},
                        Agreed(m, q, grp), ~Saving(g, q, m)
                 PROVE  kuma[q] # None /\ kuma[q].groups.in[m] = {grp}
      BY DEF CachesHonest, Saving, Agreed
    <3> QED
      BY <2>1, <2>3 DEF HonestInv, CachesHonest, StoreHonest, Landing
  <2>5. \A q \in Page : Unstored(q)' => Unstored(q) /\ cache'[1][q] = cache[1][q]
    <3>1. \A q \in Page : Unstored(q)' => q \in watcher.todo /\ Unstored(q)
      BY <2>2 DEF Unstored
    <3>2. 1 \in Gen
      BY ConstantsOK DEF Gen, ConstantsOK
    <3> QED
      BY <2>1, <2>3, <3>1, <3>2
  <2>6. AloneInStep'
    BY <2>5 DEF HonestInv, AloneInStep, Saving
  <2> QED
    BY <2>2, <2>4, <2>6 DEF HonestInv, StoreHonest
<1> QED
  BY <1>1, <1>2

\* A binding that changes a list spoils its page.
LEMMA BindHonest ==
    ASSUME TypeInv, PlaceInv, HonestInv, spoilt \subseteq spoilt',
           \A p \in Page : WipedOut(p) => p \in spoilt',
           BindEnsure \/ BindSave
    PROVE  HonestInv'
<1> watcher \in Watcher /\ synced \in BOOLEAN /\ UNCHANGED <<cache, worker, gens, synced>>
  BY DEF TypeInv, TypeOK, BindEnsure, BindSave, clientVars
<1>1. CASE BindEnsure
  <2> DEFINE p == watcher.job.slug
  <2>1. synced /\ p \in Page /\ kuma \in [Page -> PageData \cup {None}]
    BY <1>1 DEF BindEnsure, TypeInv, TypeOK, WatcherPlaces
  <2>2. kuma' \in {kuma, [kuma EXCEPT ![p] = EnsuredPage(p)]}
    BY <1>1 DEF BindEnsure
  <2>3. \A q \in Page : kuma[q] # None => kuma'[q] = kuma[q]
    BY <2>1, <2>2 DEF EnsuredPage
  <2>4. watcher'.at \in {"bind", "request"}
    BY <1>1 DEF BindEnsure, Leave, Watcher
  <2> QED
    BY <2>1, <2>3, <2>4, KeptHonest DEF HonestInv, StoreHonest, AloneInStep, Unstored
<1>2. CASE BindSave
  <2> DEFINE p == watcher.page
  <2>1. /\ p \in Page /\ watcher.at = "save" /\ watcher.copy \in PageData
        /\ kuma \in [Page -> PageData \cup {None}] /\ None \notin PageData
        /\ ~synced => p \notin watcher.todo
    BY <1>2, ConstantsOK DEF BindSave, TypeInv, TypeOK, WatcherPlaces, Watcher, PlaceInv, SyncOnce,
       ConstantsOK
  <2>2. /\ \A q \in Page : q # p => kuma'[q] = kuma[q]
        /\ kuma'[p] = kuma[p] \/ kuma'[p] = watcher.copy
    BY <1>2, <2>1 DEF BindSave
  <2>3. watcher'.at = (IF synced THEN "request" ELSE "sync") /\ watcher'.todo = watcher.todo
    BY <1>2 DEF BindSave, Leave, Watcher
  <2>4. \/ p \in spoilt' \/ kuma'[p] = kuma[p]
        \/ kuma'[p] # None /\ kuma'[p].groups = kuma[p].groups
    <3>1. CASE kuma'[p] # kuma[p] /\ watcher.copy.groups # kuma[p].groups
      <4>1. watcher'.at # "save"
        BY <2>3
      <4>2. WipedOut(p)
        BY <2>1, <3>1, <4>1 DEF WipedOut
      <4> QED
        BY <2>1, <4>2
    <3>2. CASE kuma'[p] = kuma[p] \/ watcher.copy.groups = kuma[p].groups
      BY <2>1, <2>2, <3>2
    <3> QED
      BY <3>1, <3>2
  <2>5. CachesHonest'
    BY <2>2, <2>4, KeptHonest DEF HonestInv
  <2>6. \A q \in Page : Unstored(q)' => Unstored(q) /\ kuma'[q] = kuma[q]
    BY <2>1, <2>2, <2>3 DEF Unstored
  <2>7. AloneInStep'
    BY <2>6 DEF HonestInv, AloneInStep, Saving
  <2> QED
    BY <2>3, <2>5, <2>7 DEF HonestInv, StoreHonest
<1> QED
  BY <1>1, <1>2

LEMMA WatcherHonest ==
    ASSUME TypeInv, PlaceInv, HonestInv, spoilt \subseteq spoilt',
           \A p \in Page : WipedOut(p) => p \in spoilt',
           Process
    PROVE  HonestInv'
<1> watcher \in Watcher /\ synced \in BOOLEAN
  BY DEF TypeInv, TypeOK
<1>1. CASE StartConnecting \/ ResetClient
  BY <1>1, QuietHonest DEF StartConnecting, ResetClient, Unstored
<1>2. CASE BeginSync
  <2>1. watcher'.at = "sync"
    BY <1>2 DEF BeginSync, Watcher
  <2> QED
    BY <1>2, <2>1, QuietHonest DEF BeginSync, clientVars, Unstored
<1>3. CASE EndSync
  <2>1. watcher'.at = "cycle"
    BY <1>3 DEF EndSync, Watcher
  <2> QED
    BY <1>3, <2>1, QuietHonest DEF EndSync, Unstored
<1>4. CASE BeginCycle \/ NextRouter \/ EndCycle \/ RequestAttach
  <2>1. watcher'.at \in {"idle", "cycle", "request", "ensure"}
    BY <1>4, CycleAt
  <2>2. synced /\ UNCHANGED <<kuma, cache, worker, synced>>
    BY <1>4 DEF BeginCycle, NextRouter, EndCycle, RequestAttach, clientVars, TypeInv, WatcherPlaces
  <2> QED
    BY <2>1, <2>2, QuietHonest DEF Unstored
<1>5. CASE BindPrepare
  <2>1. synced /\ UNCHANGED <<kuma, cache, worker, synced>>
    BY <1>5 DEF BindPrepare, clientVars, TypeInv, WatcherPlaces
  <2>2. watcher'.at \in {"request", "save"}
    BY <1>5 DEF BindPrepare, Leave, Watcher
  <2> QED
    BY <2>1, <2>2, QuietHonest DEF Unstored
<1> QED
  BY <1>1, <1>2, <1>3, <1>4, <1>5, SyncHonest, BindHonest DEF Process

-----------------------------------------------------------------------------
\* A save leaves the monitors that others have attached where they are, or spoils
\* the page; the first generation, while alone, always does the former.
LEMMA SaveKeeps ==
    ASSUME TypeInv, PlaceInv, HonestInv, NEW g \in Gen, worker[g].at = "save",
           NEW p \in Page \ spoilt, p = worker[g].page, kuma'[p] = worker[g].copy,
           \/ gens > 1 /\ \A o \in Monitor \ {worker[g].job.monitor} :
                  kuma'[p] = kuma[p] \/ kuma'[p].groups.in[o] = kuma[p].groups.in[o]
           \/ g = 1 /\ Unstored(p)
    PROVE  \A m \in Monitor, grp \in Group : Agreed(m, p, grp) /\ Landing(p, m, grp) =>
               kuma'[p] # None /\ kuma'[p].groups.in[m] = {grp}
<1> SUFFICES ASSUME NEW m \in Monitor, NEW grp \in Group, Agreed(m, p, grp), Landing(p, m, grp)
             PROVE  kuma'[p] # None /\ kuma'[p].groups.in[m] = {grp}
  OBVIOUS
<1>1. /\ worker[g] \in Worker /\ worker[g].copy \in PageData /\ worker[g].job \in Payload
      /\ worker[g].job \in Payloads /\ None \notin PageData \cup Group
  BY ConstantsOK DEF TypeInv, TypeOK, Worker, WorkerPlaces, Placed, PlaceInv, JobsAsked,
     ConstantsOK
<1>2. CASE m = worker[g].job.monitor
  <2>1. worker[g].copy.groups.in[m] = {worker[g].job.pages[p]}
    BY <1>2 DEF PlaceInv, SaveWants
  <2>2. worker[g].copy.groups.in[m] \in SUBSET Group
    BY <1>1 DEF PageData, Groups
  <2>3. worker[g].job.pages[p] \in Group
    BY <2>1, <2>2
  <2>4. worker[g].job.pages[p] = grp
    BY <1>1, <1>2, <2>3 DEF Agreed
  <2> QED
    BY <1>1, <2>1, <2>4
<1>3. CASE m # worker[g].job.monitor /\ ~(g = 1 /\ Unstored(p))
  BY <1>1, <1>3 DEF Landing
<1>4. CASE m # worker[g].job.monitor /\ g = 1 /\ Unstored(p)
  BY <1>1, <1>4 DEF HonestInv, AloneInStep, Saving, Landing
<1> QED
  BY <1>2, <1>3, <1>4

LEMMA SaveHonest ==
    ASSUME TypeInv, PlaceInv, HonestInv, NEW g \in Gen, AttachSave(g),
           spoilt \subseteq spoilt',
           \A p \in Page : SaveFailed(p) \/ Overwritten(p) => p \in spoilt'
    PROVE  HonestInv'
<1> DEFINE p == worker[g].page
<1>0. /\ worker \in [Gen -> Worker] /\ worker[g] \in Worker /\ p \in Page
      /\ kuma \in [Page -> PageData \cup {None}] /\ None \notin PageData
      /\ cache \in [Gen -> [Page -> Groups \cup {None}]]
      /\ worker[g].copy \in PageData /\ worker[g].at = "save"
      /\ UNCHANGED <<watcher, gens, synced>> /\ gens \in Nat
  BY ConstantsOK DEF TypeInv, TypeOK, WorkerPlaces, Placed, AttachSave, Worker, ConstantsOK,
     clientVars
<1>1. /\ worker'[g].at = "ensure" /\ \A h \in Gen : h # g => worker'[h] = worker[h]
  BY <1>0 DEF AttachSave, NextPage, Worker
<1>2. \A h \in Gen, q \in Page, m \in Monitor :
          h # g \/ q # p => (Saving(h, q, m)' <=> Saving(h, q, m))
  BY <1>0, <1>1 DEF Saving
<1>3. \A q : Unstored(q)' <=> Unstored(q)
  BY <1>0 DEF Unstored
<1>4. g \in Nat /\ g >= 1 /\ g <= gens
  BY <1>0, ConstantsOK DEF PlaceInv, Unborn, Gen, ConstantsOK
<1>5. CASE UNCHANGED <<kuma, cache>> /\ CallFails
  <2>1. cache[g][p] = None \/ p \in spoilt'
    <3>1. spent'.failures # spent.failures
      BY <1>5 DEF CallFails, Use, TypeInv, TypeOK
    <3> QED
      BY <1>0, <1>1, <3>1 DEF SaveFailed
  <2>2. CachesHonest'
    <3> SUFFICES ASSUME NEW h \in Gen, NEW q \in Page \ spoilt', NEW m \in Monitor,
                        NEW grp \in Group, cache[h][q] # None, cache[h][q].in[m] = {grp},
                        Agreed(m, q, grp), ~Saving(h, q, m)'
                 PROVE  kuma[q] # None /\ kuma[q].groups.in[m] = {grp}
      BY <1>5 DEF CachesHonest, Agreed
    <3> QED
      BY <1>2, <2>1 DEF HonestInv, CachesHonest
  <2>3. StoreHonest'
    BY <1>0, <1>5 DEF HonestInv, StoreHonest, Landing, Agreed
  <2>4. AloneInStep'
    <3> SUFFICES ASSUME NEW q \in Page \ spoilt', NEW m \in Monitor, Unstored(q),
                        ~Saving(1, q, m)'
                 PROVE  /\ cache[1][q] # None =>
                              kuma[q] # None /\ cache[1][q].in[m] = kuma[q].groups.in[m]
                        /\ worker'[1].at \notin {"attach", "save"}
      BY <1>3, <1>5 DEF AloneInStep
    <3>1. g = 1
      BY <1>4 DEF Unstored
    <3> QED
      BY <1>1, <1>2, <2>1, <3>1 DEF HonestInv, AloneInStep
  <2> QED
    BY <2>2, <2>3, <2>4 DEF HonestInv
<1>6. CASE /\ kuma' = [kuma EXCEPT ![p] = worker[g].copy]
           /\ cache' = [cache EXCEPT ![g][p] = worker[g].copy.groups]
  <2>1. /\ kuma'[p] = worker[g].copy /\ \A q \in Page : q # p => kuma'[q] = kuma[q]
        /\ cache'[g][p] = worker[g].copy.groups
        /\ \A h \in Gen, q \in Page : h # g \/ q # p => cache'[h][q] = cache[h][q]
    BY <1>0, <1>6
  <2>5. \A m \in Monitor, grp \in Group :
            /\ p \notin spoilt' /\ Agreed(m, p, grp) /\ Landing(p, m, grp)
            /\ gens > 1 \/ (g = 1 /\ Unstored(p))
            => kuma'[p] # None /\ kuma'[p].groups.in[m] = {grp}
    <3>1. gens > 1 /\ p \notin spoilt' => \A o \in Monitor \ {worker[g].job.monitor} :
              kuma'[p] = kuma[p] \/ kuma'[p].groups.in[o] = kuma[p].groups.in[o]
      BY <1>0, <1>1 DEF Overwritten
    <3> SUFFICES ASSUME p \notin spoilt', gens > 1 \/ (g = 1 /\ Unstored(p))
                 PROVE  \A m \in Monitor, grp \in Group :
                            Agreed(m, p, grp) /\ Landing(p, m, grp) =>
                                kuma'[p] # None /\ kuma'[p].groups.in[m] = {grp}
      OBVIOUS
    <3>2. p \in Page \ spoilt
      BY <1>0
    <3>3. \/ gens > 1 /\ \A o \in Monitor \ {worker[g].job.monitor} :
                  kuma'[p] = kuma[p] \/ kuma'[p].groups.in[o] = kuma[p].groups.in[o]
          \/ g = 1 /\ Unstored(p)
      BY <3>1
    <3> HIDE DEF p
    <3> QED
      BY <1>0, <2>1, <3>2, <3>3, SaveKeeps DEF p
  <2>2. CachesHonest'
    <3> SUFFICES ASSUME NEW h \in Gen, NEW q \in Page \ spoilt', NEW m \in Monitor,
                        NEW grp \in Group, cache'[h][q] # None, cache'[h][q].in[m] = {grp},
                        Agreed(m, q, grp), ~Saving(h, q, m)'
                 PROVE  kuma'[q] # None /\ kuma'[q].groups.in[m] = {grp}
      BY DEF CachesHonest, Agreed
    <3>1. CASE h = g /\ q = p
      BY <1>0, <2>1, <3>1
    <3>2. CASE q # p
      BY <1>2, <2>1, <3>2 DEF HonestInv, CachesHonest
    <3>3. CASE h # g /\ q = p
      <4>1. Landing(p, m, grp)
        BY <1>2, <2>1, <3>3 DEF HonestInv, CachesHonest, Landing
      <4>2. cache[h] # NoCache /\ h \in Nat /\ h >= 1
        BY <2>1, <3>3, ConstantsOK DEF NoCache, Gen, ConstantsOK
      <4>3. gens > 1
        BY <1>0, <1>4, <3>3, <4>2 DEF PlaceInv, Unborn
      <4> QED
        BY <2>5, <3>3, <4>1, <4>3
    <3> QED
      BY <3>1, <3>2, <3>3
  <2>3. StoreHonest'
    <3> SUFFICES ASSUME watcher.at = "store", NEW q \in Page \ spoilt', NEW m \in Monitor,
                        NEW grp \in Group, q = watcher.page,
                        watcher.copy.groups.in[m] = {grp}, Agreed(m, q, grp)
                 PROVE  kuma'[q] # None /\ kuma'[q].groups.in[m] = {grp}
      BY <1>0 DEF StoreHonest, Landing, Agreed
    <3>1. Landing(q, m, grp)
      BY DEF HonestInv, StoreHonest
    <3>2. CASE q = p
      <4>1. gens > 1 \/ (g = 1 /\ gens = 1)
        BY <1>0, <1>4
      <4>2. ~synced
        BY DEF TypeInv, WatcherPlaces
      <4>3. gens > 1 \/ (g = 1 /\ Unstored(p))
        BY <3>2, <4>1, <4>2 DEF Unstored
      <4> QED
        BY <2>5, <3>1, <3>2, <4>3
    <3> QED
      BY <2>1, <3>1, <3>2 DEF Landing
  <2>4. AloneInStep'
    <3> SUFFICES ASSUME NEW q \in Page \ spoilt', NEW m \in Monitor, Unstored(q),
                        ~Saving(1, q, m)'
                 PROVE  /\ cache'[1][q] # None =>
                              kuma'[q] # None /\ cache'[1][q].in[m] = kuma'[q].groups.in[m]
                        /\ worker'[1].at \notin {"attach", "save"}
      BY <1>3 DEF AloneInStep
    <3>1. g = 1
      BY <1>4 DEF Unstored
    <3>2. CASE q = p
      BY <1>0, <1>1, <2>1, <3>1, <3>2
    <3>3. CASE q # p
      BY <1>1, <1>2, <2>1, <3>1, <3>3 DEF HonestInv, AloneInStep
    <3> QED
      BY <3>2, <3>3
  <2> QED
    BY <2>2, <2>3, <2>4 DEF HonestInv
<1> QED
  BY <1>5, <1>6 DEF AttachSave

\* A step of a worker that neither saves nor starts to.
LEMMA StepHonest ==
    ASSUME TypeInv, PlaceInv, HonestInv, spoilt \subseteq spoilt', NEW g \in Gen,
           UNCHANGED <<cache, watcher, gens, synced>>,
           \A p \in Page : kuma[p] # None => kuma'[p] = kuma[p],
           \A h \in Gen : h # g => worker'[h] = worker[h],
           worker[g].at \in {"idle", "ensure"},
           worker'[g].at \in {"idle", "ensure", "attach"},
           worker'[g].at = "attach" =>
               /\ kuma'[worker'[g].page] # None
               /\ worker'[g].copy = kuma'[worker'[g].page]
    PROVE  HonestInv'
<1>1. \A h \in Gen : \A p, m : Saving(h, p, m)' <=> Saving(h, p, m)
  BY DEF Saving
<1>2. \A p : Unstored(p)' <=> Unstored(p)
  BY DEF Unstored
<1>3. CachesHonest'
  <2> SUFFICES ASSUME NEW h \in Gen, NEW p \in Page \ spoilt', NEW m \in Monitor,
                      NEW grp \in Group, cache[h][p] # None, cache[h][p].in[m] = {grp},
                      Agreed(m, p, grp), ~Saving(h, p, m)'
               PROVE  kuma'[p] # None /\ kuma'[p].groups.in[m] = {grp}
    BY DEF CachesHonest, Agreed
  <2> QED
    BY <1>1 DEF HonestInv, CachesHonest
<1>4. StoreHonest'
  BY DEF HonestInv, StoreHonest, Landing, Agreed
<1>5. AloneInStep'
  <2> SUFFICES ASSUME NEW p \in Page \ spoilt', NEW m \in Monitor, Unstored(p),
                      ~Saving(1, p, m)'
               PROVE  /\ cache[1][p] # None =>
                            kuma'[p] # None /\ cache[1][p].in[m] = kuma'[p].groups.in[m]
                      /\ worker'[1].at \in {"attach", "save"} /\ worker'[1].page = p =>
                            /\ kuma'[p] # None
                            /\ worker'[1].copy.groups.in[m] = kuma'[p].groups.in[m]
    BY <1>2 DEF AloneInStep
  <2>1. 1 \in Gen
    BY ConstantsOK DEF Gen, ConstantsOK
  <2>2. CASE g = 1
    BY <1>1, <2>1, <2>2 DEF HonestInv, AloneInStep
  <2>3. CASE g # 1
    BY <1>1, <2>1, <2>3 DEF HonestInv, AloneInStep
  <2> QED
    BY <2>2, <2>3
<1> QED
  BY <1>3, <1>4, <1>5 DEF HonestInv

\* The cached list, edited in place, still says of every monitor but the worker's own
\* what it said before; of that one it says so as soon as the list is saved.
LEMMA AttachHonest ==
    ASSUME TypeInv, PlaceInv, HonestInv, NEW g \in Gen, Attach(g), spoilt \subseteq spoilt'
    PROVE  HonestInv'
<1> DEFINE p    == worker[g].page
           m0   == worker[g].job.monitor
           grp0 == worker[g].job.pages[p]
           base == Base(g, p, worker[g].copy)
<1>0. /\ worker \in [Gen -> Worker] /\ worker[g] \in Worker /\ worker[g].at = "attach"
      /\ cache \in [Gen -> [Page -> Groups \cup {None}]]
      /\ UNCHANGED <<kuma, watcher, gens, synced>>
  BY DEF TypeInv, TypeOK, Attach, clientVars
<1>1. /\ p \in Page /\ worker[g].copy \in PageData
      /\ m0 \in Monitor /\ grp0 \in Group /\ base \in Groups
  BY <1>0, BaseType DEF TypeInv, WorkerPlaces, Attach, Placed, Worker, Payload
<1>2. \A h \in Gen : h # g => worker'[h] = worker[h]
  BY <1>0 DEF Attach, NextPage
<1>3. \/ worker'[g].at = "ensure" /\ Attached(base, m0, grp0) = base
      \/ /\ worker'[g].at = "save" /\ worker'[g].page = p /\ worker'[g].job.monitor = m0
         /\ worker'[g].copy.groups = Attached(base, m0, grp0)
  <2>1. CASE NextPage(g) /\ Attached(base, m0, grp0) = base
    BY <1>0, <2>1 DEF NextPage, Worker
  <2>2. CASE worker' = [worker EXCEPT ![g].at = "save",
                                      ![g].copy.groups = Attached(base, m0, grp0)]
    BY <1>0, <1>1, <2>2 DEF Worker, PageData
  <2> QED
    BY <2>1, <2>2 DEF Attach
<1>4. /\ \A h \in Gen, q \in Page : h # g \/ q # p => cache'[h][q] = cache[h][q]
      /\ cache[g][p] = None => cache'[g][p] = None
      /\ cache[g][p] # None =>
            base = cache[g][p] /\ cache'[g][p] = Aliased(base, m0, grp0)
  BY <1>0, <1>1 DEF Attach, Base
<1>5. \A m \in Monitor :
          m # m0 \/ Attached(base, m0, grp0) = base =>
              /\ Aliased(base, m0, grp0).in[m] = base.in[m]
              /\ Attached(base, m0, grp0).in[m] = base.in[m]
  <2>1. base.in \in [Monitor -> SUBSET Group]
    BY <1>1 DEF Groups
  <2>2. /\ Attached(base, m0, grp0).names = base.names \cup {grp0}
        /\ Attached(base, m0, grp0).in = [base.in EXCEPT ![m0] = {grp0}]
    BY DEF Attached
  <2>3. Aliased(base, m0, grp0).in =
            [base.in EXCEPT ![m0] = IF grp0 \in base.names THEN {grp0} ELSE {}]
    BY <1>1 DEF Aliased, Groups
  <2> HIDE DEF base, m0, grp0
  <2> QED
    BY <2>1, <2>2, <2>3
<1>6. \A h \in Gen, q \in Page, m \in Monitor :
          /\ h # g \/ q # p => (Saving(h, q, m)' <=> Saving(h, q, m))
          /\ ~Saving(g, p, m)
          /\ q = p /\ ~Saving(g, q, m)' => m # m0 \/ Attached(base, m0, grp0) = base
  BY <1>0, <1>2, <1>3 DEF Saving
<1>7. \A q : Unstored(q)' <=> Unstored(q)
  BY <1>0 DEF Unstored
<1>8. CachesHonest'
  <2> SUFFICES ASSUME NEW h \in Gen, NEW q \in Page \ spoilt', NEW m \in Monitor,
                      NEW grp \in Group, cache'[h][q] # None, cache'[h][q].in[m] = {grp},
                      Agreed(m, q, grp), ~Saving(h, q, m)'
               PROVE  kuma[q] # None /\ kuma[q].groups.in[m] = {grp}
    BY <1>0 DEF CachesHonest, Agreed
  <2>1. /\ cache[h][q] # None /\ cache[h][q].in[m] = {grp} /\ ~Saving(h, q, m)
    <3>1. CASE h = g /\ q = p
      <4>1. m # m0 \/ Attached(base, m0, grp0) = base
        BY <1>6, <3>1
      <4>2. Aliased(base, m0, grp0).in[m] = base.in[m] /\ ~Saving(g, p, m)
        BY <1>5, <1>6, <4>1
      <4>3. cache'[g][p] # None /\ cache'[g][p].in[m] = {grp}
        BY <3>1
      <4>4. cache[g][p] # None /\ cache[g][p].in[m] = {grp}
        <5> HIDE DEF base, m0, grp0
        <5> QED
          BY <1>4, <4>2, <4>3
      <4> QED
        BY <3>1, <4>2, <4>4 DEF Saving
    <3>2. CASE h # g \/ q # p
      BY <1>4, <1>6, <3>2
    <3> QED
      BY <3>1, <3>2
  <2> QED
    BY <2>1 DEF HonestInv, CachesHonest
<1>9. StoreHonest'
  BY <1>0 DEF HonestInv, StoreHonest, Landing, Agreed
<1>10. AloneInStep'
  <2> SUFFICES ASSUME NEW q \in Page \ spoilt', NEW m \in Monitor, Unstored(q),
                      ~Saving(1, q, m)'
               PROVE  /\ cache'[1][q] # None =>
                            kuma[q] # None /\ cache'[1][q].in[m] = kuma[q].groups.in[m]
                      /\ worker'[1].at \in {"attach", "save"} /\ worker'[1].page = q =>
                            /\ kuma[q] # None
                            /\ worker'[1].copy.groups.in[m] = kuma[q].groups.in[m]
    BY <1>0, <1>7 DEF AloneInStep
  <2>1. 1 \in Gen
    BY ConstantsOK DEF Gen, ConstantsOK
  <2>2. CASE g # 1
    BY <1>2, <1>4, <1>6, <2>1, <2>2 DEF HonestInv, AloneInStep
  <2>3. CASE g = 1 /\ q # p
    BY <1>3, <1>4, <1>6, <2>1, <2>3 DEF HonestInv, AloneInStep
  <2>4. CASE g = 1 /\ q = p
    <3>1. /\ kuma[p] # None /\ worker[1].copy.groups.in[m] = kuma[p].groups.in[m]
          /\ cache[1][p] # None => cache[1][p].in[m] = kuma[p].groups.in[m]
      BY <1>0, <1>6, <2>4 DEF HonestInv, AloneInStep
    <3>2. m # m0 \/ Attached(base, m0, grp0) = base
      BY <1>6, <2>4
    <3>3. base.in[m] = kuma[p].groups.in[m]
      BY <2>4, <3>1 DEF Base
    <3>4. /\ Aliased(base, m0, grp0).in[m] = base.in[m]
          /\ Attached(base, m0, grp0).in[m] = base.in[m]
      BY <1>5, <3>2
    <3> HIDE DEF base, m0, grp0
    <3> QED
      BY <1>3, <1>4, <2>4, <3>1, <3>3, <3>4
  <2> QED
    BY <2>2, <2>3, <2>4
<1> QED
  BY <1>8, <1>9, <1>10 DEF HonestInv

LEMMA WorkerHonest ==
    ASSUME TypeInv, PlaceInv, HonestInv, spoilt \subseteq spoilt', NEW g \in Gen,
           \A p \in Page : SaveFailed(p) \/ Overwritten(p) => p \in spoilt',
           ProcessQueue(g)
    PROVE  HonestInv'
<1>0. /\ worker \in [Gen -> Worker] /\ worker[g] \in Worker /\ Placed(worker[g])
      /\ kuma \in [Page -> PageData \cup {None}] /\ None \notin PageData
      /\ NewPage \in PageData
  BY ConstantsOK, NewPageType DEF TypeInv, TypeOK, WorkerPlaces, ConstantsOK
<1>1. CASE TakeJob(g)
  <2>1. worker'[g].at = "ensure" /\ \A h \in Gen : h # g => worker'[h] = worker[h]
    BY <1>0, <1>1 DEF TakeJob, Worker
  <2> QED
    BY <1>1, <2>1, StepHonest DEF TakeJob, clientVars
<1>2. CASE JobDone(g)
  <2>1. worker'[g].at = "idle" /\ \A h \in Gen : h # g => worker'[h] = worker[h]
    BY <1>0, <1>2 DEF JobDone, Idle
  <2> QED
    BY <1>2, <2>1, StepHonest DEF JobDone, clientVars
<1>3. CASE AttachEnsure(g)
  <2>1. PICK p \in worker[g].todo :
          \/ /\ kuma' = [kuma EXCEPT ![p] = EnsuredPage(p)]
             /\ worker' = [worker EXCEPT ![g].at = "attach", ![g].todo = @ \ {p},
                              ![g].page = p, ![g].copy = EnsuredPage(p)]
          \/ /\ kuma' \in {kuma, [kuma EXCEPT ![p] = EnsuredPage(p)]}
             /\ worker' = [worker EXCEPT ![g].todo = @ \ {p}]
    BY <1>3 DEF AttachEnsure
  <2>2. /\ worker[g].at = "ensure" /\ p \in Page
        /\ UNCHANGED <<cache, watcher, gens, synced>>
    BY <1>0, <1>3 DEF AttachEnsure, Worker, clientVars
  <2>3. \A q \in Page : kuma[q] # None => kuma'[q] = kuma[q]
    BY <1>0, <2>1, <2>2 DEF EnsuredPage
  <2>4. EnsuredPage(p) # None
    BY <1>0, <2>2 DEF EnsuredPage
  <2>5. /\ \A h \in Gen : h # g => worker'[h] = worker[h]
        /\ \/ worker'[g].at = "ensure"
           \/ /\ worker'[g].at = "attach" /\ worker'[g].page = p
              /\ worker'[g].copy = EnsuredPage(p) /\ kuma'[p] = EnsuredPage(p)
    BY <1>0, <2>1, <2>2 DEF Worker
  <2> QED
    BY <2>2, <2>3, <2>4, <2>5, StepHonest
<1> QED
  BY <1>1, <1>2, <1>3, AttachHonest, SaveHonest DEF ProcessQueue

-----------------------------------------------------------------------------
LEMMA HonestStep == TypeInv /\ PlaceInv /\ HonestInv /\ [FaultsNext]_faultVars => HonestInv'
<1> SUFFICES ASSUME TypeInv, PlaceInv, HonestInv, [FaultsNext]_faultVars PROVE HonestInv'
  OBVIOUS
<1>1. CASE UNCHANGED faultVars
  BY <1>1, QuietHonest DEF faultVars, vars, Unstored
<1>2. CASE FaultsNext /\ Restart
  <2>1. /\ gens' = 0 /\ watcher'.at = "idle"
        /\ \A g \in Gen : cache'[g] = NoCache
    BY <1>2 DEF Restart, Idle
  <2>2. CachesHonest'
    BY <2>1 DEF CachesHonest, NoCache
  <2> QED
    BY <2>1, <2>2 DEF HonestInv, StoreHonest, AloneInStep, Unstored
<1>3. CASE FaultsNext /\ ~Restart
  <2>1. /\ spoilt \subseteq spoilt'
        /\ \A p \in Page : WipedOut(p) \/ SaveFailed(p) \/ Overwritten(p) => p \in spoilt'
    BY <1>3, SpoiltGrows
  <2>2. CASE Process
    BY <2>1, <2>2, WatcherHonest
  <2>3. CASE \E g \in Gen : ProcessQueue(g)
    BY <2>1, <2>3, WorkerHonest
  <2>4. CASE Connected
    <3>1. /\ UNCHANGED <<kuma, cache, worker, watcher>> /\ gens' = gens + 1 /\ gens \in Nat
          /\ watcher.at = "idle"
      BY <2>4, ConstantsOK DEF Connected, TypeInv, TypeOK, NoNilManager, ConstantsOK
    <3>2. CachesHonest' /\ StoreHonest'
      BY <2>1, <3>1, KeptHonest DEF HonestInv, StoreHonest
    <3>3. AloneInStep'
      <4>1. CASE gens = 0
        <5>1. 1 \in Gen /\ 1 > gens
          BY <4>1, ConstantsOK DEF Gen, ConstantsOK
        <5>2. cache'[1] = NoCache /\ worker'[1].at = "idle"
          BY <3>1, <5>1 DEF PlaceInv, Unborn
        <5> QED
          BY <5>2 DEF AloneInStep, NoCache
      <4>2. CASE gens # 0
        BY <3>1, <4>2 DEF AloneInStep, Unstored
      <4> QED
        BY <4>1, <4>2
    <3> QED
      BY <3>2, <3>3 DEF HonestInv
  <2>5. CASE ConnectionFails \/ Redeploy \/ \E payload \in Remote : RemotePost(payload)
    <3>1. UNCHANGED <<kuma, cache, worker, watcher, gens, synced>>
      BY <2>5 DEF ConnectionFails, Redeploy, RemotePost, clientVars
    <3> QED
      BY <2>1, <3>1, QuietHonest DEF Unstored
  <2> QED
    BY <1>3, <2>2, <2>3, <2>4, <2>5 DEF FaultsNext, Next
<1> QED
  BY <1>1, <1>2, <1>3 DEF faultVars

\* An attach is only skipped (attachToGroup returns early) if it has landed: a cache,
\* of whatever generation, filled late by doSync or edited in place by attachToGroup,
\* that says a monitor is in the group everyone asks for it in, says what Kuma has,
\* but on a page that a binding, a failed save or two generations have spoilt.
THEOREM CachesHonestHolds == FaultsSpec => []CachesHonest
<1>1. FaultsInit => TypeInv /\ PlaceInv /\ HonestInv
  BY InitTypeInv, InitHonest DEF FaultsInit
<1>2. TypeInv /\ PlaceInv /\ HonestInv /\ [FaultsNext]_faultVars =>
          TypeInv' /\ PlaceInv' /\ HonestInv'
  <2>1. [FaultsNext]_faultVars => [Next]_vars
    BY DEF FaultsNext, faultVars, vars
  <2> QED
    BY <2>1, TypeInvStep, PlaceStep, HonestStep
<1>3. HonestInv => CachesHonest
  BY DEF HonestInv
<1> QED
  BY <1>1, <1>2, <1>3, PTL DEF FaultsSpec, faultVars
=============================================================================
