------------------------------- MODULE Gatus -------------------------------
(***************************************************************************)
(* The Gatus bridge client (internal/monitor/gatus/client.go): a companion *)
(* keeps one HTTP endpoint in Gatus for each router of its containers, and *)
(* takes every endpoint it finds when it starts to be its own.  Other      *)
(* companions, and people, may use the same bridge.                        *)
(*                                                                         *)
(* An endpoint is its group and its name; its URL, conditions and so on    *)
(* are written once and never compared.  The key of the cache joins group  *)
(* and name with a slash and is split at the first slash to delete: groups *)
(* and names are sequences of the segments between their slashes.          *)
(***************************************************************************)
EXTENDS Naturals, Sequences

CONSTANTS
    Router,         \* the routers that may exist, enabled and with a URL
    Segment,        \* the parts of groups and names between slashes
    Endpoint,       \* the endpoints that may exist
    EndpointOf,     \* EndpointOf[r]: what buildPayload makes of router r
    ReadAs,         \* ReadAs[e]: what the bridge takes the DELETE of e to name
    Refused,        \* ... when it cannot read the request at all
    InitEndpoints,  \* the endpoints of the bridge at the start
    MaxChanges,     \* bound: changes of the routers
    MaxFailures,    \* bound: requests that come to nothing
    MaxLost,        \* bound: POSTs, and DELETEs, done but not answered in time
    MaxOthers,      \* bound: what others do to the bridge
    MaxRestarts     \* bound: crashes of the companion

\* cacheKey, and parts[0], parts[1] of strings.SplitN(trackedKey, "/", 2).
CacheKey(e) == e.group \o e.name
SplitKey(k) == [group |-> <<Head(k)>>, name |-> Tail(k)]
Keys        == {CacheKey(e) : e \in Endpoint}

ASSUME ConstantsOK ==
    /\ Endpoint \subseteq [group : Seq(Segment) \ {<<>>}, name : Seq(Segment) \ {<<>>}]
    /\ EndpointOf \in [Router -> Endpoint]
    /\ InitEndpoints \subseteq Endpoint
    /\ Refused \notin Endpoint
    /\ MaxChanges \in Nat /\ MaxFailures \in Nat
    /\ MaxLost \in Nat /\ MaxOthers \in Nat /\ MaxRestarts \in Nat

VARIABLES
    endpoints,  \* what the bridge holds
    routers,    \* the routers of the containers now
    dryRun,     \* DRY_RUN, for good
    pc,         \* where the goroutine is: SyncState, between, or in Process
    tracked,    \* the keys of c.tracked
    listed,     \* the routers Process was called with
    todo,       \* those of them, or the tracked keys, it has still to visit
    active,     \* activeKeys
    unheard,    \* endpoints on the bridge that this process has not heard of
    gone,       \* tracked keys whose endpoint left the bridge behind its back
    spent       \* how much of each bound is used up

vars == <<endpoints, routers, dryRun, pc, tracked, listed, todo, active, unheard, gone,
          spent>>

TypeOK ==
    /\ endpoints \subseteq Endpoint
    /\ routers \subseteq Router
    /\ dryRun \in BOOLEAN
    /\ pc \in {"boot", "idle", "add", "clean"}
    /\ tracked \subseteq Keys
    /\ listed \subseteq Router
    /\ IF pc = "clean" THEN todo \subseteq tracked ELSE todo \subseteq listed
    /\ active \subseteq Keys
    /\ unheard \subseteq endpoints /\ gone \subseteq tracked
    /\ spent \in [changes : 0..MaxChanges, failures : 0..MaxFailures,
                  posts : 0..MaxLost, deletes : 0..MaxLost, others : 0..MaxOthers,
                  restarts : 0..MaxRestarts]

Init ==
    /\ endpoints = InitEndpoints
    /\ routers \in SUBSET Router
    /\ dryRun \in BOOLEAN
    /\ pc = "boot"
    /\ tracked = {} /\ listed = {} /\ todo = {} /\ active = {}
    /\ unheard = InitEndpoints /\ gone = {}
    /\ spent = [changes |-> 0, failures |-> 0, posts |-> 0, deletes |-> 0, others |-> 0,
                restarts |-> 0]

-----------------------------------------------------------------------------
Use(bound, max) ==
    /\ spent[bound] < max
    /\ spent' = [spent EXCEPT ![bound] = @ + 1]

RequestFails == Use("failures", MaxFailures)

\* SyncState adopts every endpoint; main goes on when it fails.
SyncState ==
    /\ pc = "boot" /\ pc' = "idle"
    /\ \/ /\ tracked' = tracked \cup {CacheKey(e) : e \in endpoints}
          /\ unheard' = {}
          /\ UNCHANGED spent
       \/ RequestFails /\ UNCHANGED <<tracked, unheard>>
    /\ UNCHANGED <<endpoints, routers, dryRun, listed, todo, active, gone>>

\* Bug: the endpoints are adopted again in every cycle.
BugBeginProcess ==
    /\ pc = "idle" /\ pc' = "add"
    /\ listed' = routers /\ todo' = routers
    /\ active' = {}
    /\ tracked' = tracked \cup {CacheKey(e) : e \in endpoints}
    /\ UNCHANGED <<endpoints, routers, dryRun, unheard, gone, spent>>

\* Process, called with the routers of the listing.
BeginProcess ==
    /\ pc = "idle" /\ pc' = "add"
    /\ listed' = routers /\ todo' = routers
    /\ active' = {}
    /\ UNCHANGED <<endpoints, routers, dryRun, tracked, unheard, gone, spent>>

\* Bug: an endpoint counts as tracked whatever the POST came to.
BugAddEndpoint(e) ==
    /\ tracked' = tracked \cup {CacheKey(e)}
    /\ unheard' = unheard \ {e}
    /\ \/ dryRun /\ UNCHANGED <<endpoints, spent>>
       \/ ~dryRun /\ endpoints' = endpoints \cup {e} /\ UNCHANGED spent
       \/ ~dryRun /\ RequestFails /\ UNCHANGED endpoints

\* The POST of an endpoint.  An endpoint that exists is overwritten or refused,
\* as the bridge likes; an error leaves it untracked.
AddEndpoint(e) ==
    \/ /\ dryRun
       /\ tracked' = tracked \cup {CacheKey(e)}
       /\ unheard' = unheard \ {e}
       /\ UNCHANGED <<endpoints, spent>>
    \/ /\ ~dryRun
       /\ endpoints' = endpoints \cup {e}
       /\ \/ /\ tracked' = tracked \cup {CacheKey(e)} /\ unheard' = unheard \ {e}
             /\ UNCHANGED spent
          \/ /\ Use("posts", MaxLost)
             /\ unheard' = unheard \cup {e} /\ UNCHANGED tracked
    \/ ~dryRun /\ e \in endpoints /\ UNCHANGED <<endpoints, tracked, unheard, spent>>
    \/ ~dryRun /\ RequestFails /\ UNCHANGED <<endpoints, tracked, unheard>>

\* Bug: a router whose endpoint is tracked already is not marked as active.
BugVisit(r) ==
    /\ pc = "add" /\ r \in todo
    /\ todo' = todo \ {r}
    /\ IF CacheKey(EndpointOf[r]) \in tracked
       THEN UNCHANGED <<active, endpoints, tracked, unheard, spent>>
       ELSE /\ active' = active \cup {CacheKey(EndpointOf[r])}
            /\ AddEndpoint(EndpointOf[r])
    /\ UNCHANGED <<routers, dryRun, pc, listed, gone>>

\* The loop over the routers: active in any case, added unless tracked.
Visit(r) ==
    /\ pc = "add" /\ r \in todo
    /\ todo' = todo \ {r}
    /\ active' = active \cup {CacheKey(EndpointOf[r])}
    /\ IF CacheKey(EndpointOf[r]) \in tracked
       THEN UNCHANGED <<endpoints, tracked, unheard, spent>>
       ELSE AddEndpoint(EndpointOf[r])
    /\ UNCHANGED <<routers, dryRun, pc, listed, gone>>

\* Bug: the cleanup goes over what the bridge holds.
BugBeginCleanup ==
    /\ pc = "add" /\ todo = {}
    /\ pc' = "clean"
    /\ todo' = {CacheKey(e) : e \in endpoints} \ active
    /\ UNCHANGED <<endpoints, routers, dryRun, tracked, listed, active, unheard, gone,
                   spent>>

\* The orphans are the tracked keys that no router of this cycle has.
BeginCleanup ==
    /\ pc = "add" /\ todo = {}
    /\ pc' = "clean"
    /\ todo' = tracked \ active
    /\ UNCHANGED <<endpoints, routers, dryRun, tracked, listed, active, unheard, gone,
                   spent>>

\* Group and name go into the query of the URL as they are, ?name=...&group=...: a
\* space makes a request that cannot be read; after a & the rest of the name is
\* other parameters, after a # nothing arrives, not even the group; + and % stand
\* for other characters.  The DELETE of a key then names another endpoint, or none.
Hit(k) == ReadAs[SplitKey(k)]

\* The tracked keys whose endpoint a DELETE of k takes off the bridge.
KeysHit(k) == {CacheKey(e) : e \in endpoints \cap {Hit(k)}} \cap tracked

\* Bug: the key is forgotten whatever the DELETE came to.
BugDeleteEndpoint(k) ==
    /\ pc = "clean" /\ k \in todo
    /\ todo' = todo \ {k}
    /\ tracked' = tracked \ {k}
    /\ \/ /\ ~dryRun /\ Hit(k) # Refused
          /\ endpoints' = endpoints \ {Hit(k)} /\ unheard' = unheard \ {Hit(k)}
          /\ gone' = (gone \cup KeysHit(k)) \ {k}
          /\ UNCHANGED spent
       \/ /\ \/ dryRun /\ UNCHANGED spent
             \/ ~dryRun /\ Hit(k) = Refused /\ UNCHANGED spent
             \/ ~dryRun /\ RequestFails
          /\ gone' = gone \ {k}
          /\ UNCHANGED <<endpoints, unheard>>
    /\ UNCHANGED <<routers, dryRun, pc, listed, active>>

\* The DELETE of an orphan.  404 counts as done, so that the key is forgotten
\* whatever endpoint was hit, or none; on an error it is kept.
DeleteEndpoint(k) ==
    /\ pc = "clean" /\ k \in todo
    /\ todo' = todo \ {k}
    /\ \/ /\ dryRun
          /\ tracked' = tracked \ {k} /\ gone' = gone \ {k}
          /\ UNCHANGED <<endpoints, unheard, spent>>
       \/ /\ ~dryRun /\ Hit(k) # Refused
          /\ endpoints' = endpoints \ {Hit(k)} /\ unheard' = unheard \ {Hit(k)}
          /\ \/ tracked' = tracked \ {k} /\ gone' = (gone \cup KeysHit(k)) \ {k}
                /\ UNCHANGED spent
             \/ /\ Use("deletes", MaxLost)
                /\ gone' = gone \cup KeysHit(k) /\ UNCHANGED tracked
       \/ /\ ~dryRun /\ Hit(k) = Refused
          /\ UNCHANGED <<endpoints, tracked, unheard, gone, spent>>
       \/ ~dryRun /\ RequestFails /\ UNCHANGED <<endpoints, tracked, unheard, gone>>
    /\ UNCHANGED <<routers, dryRun, pc, listed, active>>

EndProcess ==
    /\ pc = "clean" /\ todo = {}
    /\ pc' = "idle"
    /\ listed' = {} /\ active' = {}
    /\ UNCHANGED <<endpoints, routers, dryRun, tracked, todo, unheard, gone, spent>>

Companion ==
    \/ SyncState \/ BeginProcess
    \/ \E r \in Router : Visit(r)
    \/ BeginCleanup
    \/ \E k \in Keys : DeleteEndpoint(k)
    \/ EndProcess

\* Another companion, or a person, adds an endpoint or removes one.
Others ==
    /\ Use("others", MaxOthers)
    /\ \/ \E e \in Endpoint \ endpoints :
             /\ endpoints' = endpoints \cup {e}
             /\ unheard' = IF CacheKey(e) \in tracked THEN unheard ELSE unheard \cup {e}
             /\ UNCHANGED gone
       \/ \E e \in endpoints :
             /\ endpoints' = endpoints \ {e}
             /\ unheard' = unheard \ {e}
             /\ gone' = gone \cup ({CacheKey(e)} \cap tracked)
    /\ UNCHANGED <<routers, dryRun, pc, tracked, listed, todo, active>>

\* The containers of the node, hence its routers, change.
Redeploy ==
    /\ Use("changes", MaxChanges)
    /\ routers' \in (SUBSET Router) \ {routers}
    /\ UNCHANGED <<endpoints, dryRun, pc, tracked, listed, todo, active, unheard, gone>>

\* The process dies and is started again with an empty cache.
Restart ==
    /\ Use("restarts", MaxRestarts)
    /\ pc' = "boot"
    /\ tracked' = {} /\ listed' = {} /\ todo' = {} /\ active' = {}
    /\ unheard' = endpoints /\ gone' = {}
    /\ UNCHANGED <<endpoints, routers, dryRun>>

Next == Companion \/ Others \/ Redeploy \/ Restart

Spec == Init /\ [][Next]_vars

\* The ticker calls Process again and again, and every request has a timeout.
FairSpec == Spec /\ WF_vars(Companion)

-----------------------------------------------------------------------------
Wanted == {CacheKey(EndpointOf[r]) : r \in routers}

\* The bridge reads the DELETE of k otherwise than it was meant.
Misread(k) == Hit(k) # SplitKey(k)

\* The cleanup, and nothing else, can take e off the bridge: its key splits into
\* what it was made of, and the bridge reads the DELETE as it was meant.
Deletable(e) == Hit(CacheKey(e)) = e

\* Cleanup deletes the endpoint of a router that Process was called with by a DELETE
\* that the bridge misreads, and by no other: not because keys are ambiguous, and not
\* because a failed POST left a wanted endpoint untracked.
WantedSpared ==
    pc = "clean" => \A k \in todo : \A r \in listed :
        Hit(k) = EndpointOf[r] => Misread(k)

\* What others add to the bridge after the companion has adopted its endpoints is
\* not deleted, however often Process runs and requests fail, unless the DELETE is
\* misread, or a router of this node may have another endpoint with the same key.
OthersSpared ==
    pc = "clean" /\ ~dryRun => \A k \in todo : Hit(k) \in unheard =>
        \/ Misread(k)
        \/ \E r \in Router : CacheKey(EndpointOf[r]) = k /\ EndpointOf[r] # Hit(k)

\* The cache agrees with the bridge, however requests fail or go unanswered: what
\* AddEndpoint would skip is there, unless it is gone (others deleted it, a DELETE
\* that was not answered did, or one of another key that was misread), and what the
\* cleanup would miss is not there, but for endpoints not heard of and those that
\* their own key does not delete.
CacheMatchesBridge ==
    ~dryRun =>
        /\ \A k \in tracked \ gone : \E e \in endpoints : CacheKey(e) = k
        /\ \A e \in endpoints \ unheard : Deletable(e) => CacheKey(e) \in tracked

\* Failed requests are made up for: every router ends up with an endpoint under
\* its key, for good, whether or not SyncState succeeded and POSTs were answered.
\* Excepted are the keys that are gone: until the process restarts, their endpoints
\* are not created again.
EndpointsAppear ==
    <>[](~dryRun => \A k \in Wanted \ gone : \E e \in endpoints : CacheKey(e) = k)

\* Orphans go, however requests fail, if the DELETE of their key names them.  Excepted
\* is what this process has not heard of: endpoints found while SyncState failed,
\* added by others, or by a POST that was not answered.
OrphansGo ==
    <>[](~dryRun =>
            \A e \in endpoints \ unheard : Deletable(e) => CacheKey(e) \in Wanted)
=============================================================================
