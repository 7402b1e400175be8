------------------------- MODULE StatusPagesFaults -------------------------
(***************************************************************************)
(* StatusPages with a record of what has gone wrong on a page since the    *)
(* companion was started, to say which attaches may be lost, and for how   *)
(* long.                                                                   *)
(***************************************************************************)
EXTENDS StatusPages

VARIABLE spoilt   \* pages that a save of this process may have left wrong

\* The watcher saves a page for its domain: what a worker has attached since the
\* watcher read it, or its cache, is gone.
WipedOut(p) ==
    /\ watcher.at = "save" /\ watcher.page = p /\ watcher'.at # "save"
    /\ kuma'[p] # kuma[p] /\ watcher.copy.groups # kuma[p].groups

\* A worker fails to save a page that it has a cached list of, edited already.
SaveFailed(p) ==
    \E g \in Gen :
        /\ worker[g].at = "save" /\ worker[g].page = p /\ worker'[g].at # "save"
        /\ spent'.failures # spent.failures
        /\ cache[g][p] # None

\* A worker saves a page from its cache, over what the worker of another
\* generation, with another cache, has attached.
Overwritten(p) ==
    \E g \in Gen, m \in Monitor :
        /\ worker[g].at = "save" /\ worker[g].page = p /\ worker'[g].at # "save"
        /\ gens > 1 /\ kuma'[p] # kuma[p]
        /\ kuma'[p].groups.in[m] # kuma[p].groups.in[m] /\ m # worker[g].job.monitor

\* A new process starts with no cache.
FaultsNext ==
    /\ Next
    /\ spoilt' = IF gens' < gens THEN {}
                 ELSE spoilt \cup
                      {p \in Page : WipedOut(p) \/ SaveFailed(p) \/ Overwritten(p)}

FaultsInit == Init /\ spoilt = {}

FaultsSpec ==
    /\ FaultsInit
    /\ [][FaultsNext]_<<vars, spoilt>>
    /\ Fairness

-----------------------------------------------------------------------------
Payloads == Remote \cup ({r.attach : r \in LocalRouters} \ {None})

\* Whoever asks for m on page p asks for group grp.
Agreed(m, p, grp) == \A a \in Payloads : a.monitor = m => a.pages[p] \in {grp, None}

Saving(g, p, m) == worker[g].at = "save" /\ worker[g].page = p /\ worker[g].job.monitor = m

\* An attach is only skipped if it has landed: on a page that is not spoilt, where a
\* cache of any generation, filled late or edited in place, says that a monitor is in
\* the group it is asked for in, and that is not just being saved, Kuma has it there.
CachesHonest ==
    \A g \in Gen, p \in Page \ spoilt, m \in Monitor, grp \in Group :
        /\ cache[g][p] # None /\ cache[g][p].in[m] = {grp}
        /\ Agreed(m, p, grp) /\ ~Saving(g, p, m)
        => kuma[p] # None /\ kuma[p].groups.in[m] = {grp}

Landed(payload) ==
    \A p \in Page \ spoilt : payload.pages[p] # None =>
        kuma[p] # None /\ kuma[p].groups.in[payload.monitor] = {payload.pages[p]}

\* A monitor that is requested again and again, here or on a client node, ends up
\* in its group on its page for good: through failed calls of every other kind,
\* resets, redeployments, and the races of the first sync with the queue.  A cache
\* believes in what one of the three steps above has undone, so that it is never
\* repeated; but a restart heals that too, and with it the coordinator makes good
\* what it answered 202 for and lost with its queue (attachToGroup, SyncState).
AttachesLand ==
    /\ \A payload \in Remote : <>[]Landed(payload)
    /\ <>[](\A r \in routers : r.attach # None => Landed(r.attach))
=============================================================================
