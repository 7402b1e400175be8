---------------------------- MODULE GatusProofs ----------------------------
(***************************************************************************)
(* Proofs about Gatus, for every set of routers and endpoints and whatever *)
(* the bridge makes of their names: the types, what the cleanup spares,    *)
(* and what the cache says of the bridge.                                  *)
(***************************************************************************)
EXTENDS Gatus, SequenceTheorems, TLAPS

\* A key is a sequence that is not empty.
LEMMA KeyType ==
    ASSUME NEW e \in Endpoint
    PROVE  CacheKey(e) \in Keys /\ CacheKey(e) \in Seq(Segment) /\ CacheKey(e) # <<>>
<1>1. e.group \in Seq(Segment) /\ e.name \in Seq(Segment) /\ e.group # <<>>
  BY ConstantsOK DEF ConstantsOK
<1>2. e.group \o e.name \in Seq(Segment)
  BY <1>1
<1>3. Len(e.group) > 0 /\ Len(e.group \o e.name) = Len(e.group) + Len(e.name)
  BY <1>1, EmptySeq
<1>4. e.group \o e.name # <<>>
  BY <1>1, <1>2, <1>3
<1> QED BY <1>2, <1>4 DEF CacheKey, Keys

\* Joining what was split gives the key back, wherever its slashes came from.
LEMMA JoinSplit ==
    ASSUME NEW k \in Keys
    PROVE  CacheKey(SplitKey(k)) = k
<1>1. k \in Seq(Segment) /\ k # <<>>
  BY KeyType DEF Keys
<1>2. <<Head(k)>> \o Tail(k) = k
  BY <1>1
<1> QED BY <1>2 DEF CacheKey, SplitKey

LEMMA EndpointKeys == ASSUME NEW r \in Router
                      PROVE  EndpointOf[r] \in Endpoint /\ CacheKey(EndpointOf[r]) \in Keys
BY ConstantsOK, KeyType DEF ConstantsOK

-----------------------------------------------------------------------------
Spent == [changes : 0..MaxChanges, failures : 0..MaxFailures,
          posts : 0..MaxLost, deletes : 0..MaxLost, others : 0..MaxOthers,
          restarts : 0..MaxRestarts]

LEMMA InitTypeOK == Init => TypeOK
<1> SUFFICES ASSUME Init PROVE TypeOK
  OBVIOUS
<1>1. spent \in Spent
  BY ConstantsOK DEF ConstantsOK, Init, Spent
<1>2. endpoints \subseteq Endpoint
  BY ConstantsOK DEF ConstantsOK, Init
<1> QED BY <1>1, <1>2 DEF Init, TypeOK, Spent

\* What is spent stays within its bounds.
LEMMA UseType ==
    spent \in Spent =>
        /\ Use("changes", MaxChanges) => spent' \in Spent
        /\ Use("failures", MaxFailures) => spent' \in Spent
        /\ Use("posts", MaxLost) => spent' \in Spent
        /\ Use("deletes", MaxLost) => spent' \in Spent
        /\ Use("others", MaxOthers) => spent' \in Spent
        /\ Use("restarts", MaxRestarts) => spent' \in Spent
<1>1. ASSUME spent \in Spent, Use("changes", MaxChanges) PROVE spent' \in Spent
  <2>1. spent["changes"] + 1 \in 0..MaxChanges
    BY <1>1, ConstantsOK DEF ConstantsOK, Spent, Use
  <2>2. spent' = [spent EXCEPT !["changes"] = spent["changes"] + 1]
    BY <1>1 DEF Use
  <2> QED BY <1>1, <2>1, <2>2 DEF Spent
<1>2. ASSUME spent \in Spent, Use("failures", MaxFailures) PROVE spent' \in Spent
  <2>1. spent["failures"] + 1 \in 0..MaxFailures
    BY <1>2, ConstantsOK DEF ConstantsOK, Spent, Use
  <2>2. spent' = [spent EXCEPT !["failures"] = spent["failures"] + 1]
    BY <1>2 DEF Use
  <2> QED BY <1>2, <2>1, <2>2 DEF Spent
<1>3. ASSUME spent \in Spent, Use("posts", MaxLost) PROVE spent' \in Spent
  <2>1. spent["posts"] + 1 \in 0..MaxLost
    BY <1>3, ConstantsOK DEF ConstantsOK, Spent, Use
  <2>2. spent' = [spent EXCEPT !["posts"] = spent["posts"] + 1]
    BY <1>3 DEF Use
  <2> QED BY <1>3, <2>1, <2>2 DEF Spent
<1>4. ASSUME spent \in Spent, Use("deletes", MaxLost) PROVE spent' \in Spent
  <2>1. spent["deletes"] + 1 \in 0..MaxLost
    BY <1>4, ConstantsOK DEF ConstantsOK, Spent, Use
  <2>2. spent' = [spent EXCEPT !["deletes"] = spent["deletes"] + 1]
    BY <1>4 DEF Use
  <2> QED BY <1>4, <2>1, <2>2 DEF Spent
<1>5. ASSUME spent \in Spent, Use("restarts", MaxRestarts) PROVE spent' \in Spent
  <2>1. spent["restarts"] + 1 \in 0..MaxRestarts
    BY <1>5, ConstantsOK DEF ConstantsOK, Spent, Use
  <2>2. spent' = [spent EXCEPT !["restarts"] = spent["restarts"] + 1]
    BY <1>5 DEF Use
  <2> QED BY <1>5, <2>1, <2>2 DEF Spent
<1>6. ASSUME spent \in Spent, Use("others", MaxOthers) PROVE spent' \in Spent
  <2>1. spent["others"] + 1 \in 0..MaxOthers
    BY <1>6, ConstantsOK DEF ConstantsOK, Spent, Use
  <2>2. spent' = [spent EXCEPT !["others"] = spent["others"] + 1]
    BY <1>6 DEF Use
  <2> QED BY <1>6, <2>1, <2>2 DEF Spent
<1> QED BY <1>1, <1>2, <1>3, <1>4, <1>5, <1>6

\* AddEndpoint adds a key, and an endpoint, at most.
LEMMA AddEndpointType ==
    ASSUME TypeOK, NEW e \in Endpoint, AddEndpoint(e)
    PROVE  /\ endpoints' \subseteq Endpoint
           /\ tracked \subseteq tracked' /\ tracked' \subseteq Keys
           /\ unheard' \subseteq endpoints'
           /\ spent' \in Spent
<1>1. spent \in Spent
  BY DEF TypeOK, Spent
<1>2. spent' \in Spent
  BY <1>1, UseType DEF AddEndpoint, RequestFails
<1>3. endpoints' \subseteq Endpoint
  BY DEF AddEndpoint, TypeOK
<1>4. tracked \subseteq tracked' /\ tracked' \subseteq Keys
  BY KeyType DEF AddEndpoint, TypeOK
<1>5. unheard' \subseteq endpoints'
  BY DEF AddEndpoint, TypeOK
<1> QED BY <1>2, <1>3, <1>4, <1>5

LEMMA StepTypeOK == TypeOK /\ [Next]_vars => TypeOK'
<1> SUFFICES ASSUME TypeOK, [Next]_vars
             PROVE  TypeOK'
  OBVIOUS
<1>0. spent \in Spent
  BY DEF TypeOK, Spent
<1>1. CASE SyncState
  <2>1. {CacheKey(e) : e \in endpoints} \subseteq Keys
    BY KeyType DEF TypeOK
  <2>2. spent' \in Spent
    BY <1>0, <1>1, UseType DEF SyncState, RequestFails
  <2>3. tracked' \subseteq Keys
    BY <1>1, <2>1 DEF SyncState, TypeOK
  <2> QED BY <1>1, <2>2, <2>3 DEF SyncState, TypeOK, Spent
<1>2. CASE BeginProcess
  BY <1>2 DEF BeginProcess, TypeOK
<1>3. ASSUME NEW r \in Router, Visit(r) PROVE TypeOK'
  <2>1. CacheKey(EndpointOf[r]) \in Keys /\ EndpointOf[r] \in Endpoint
    BY EndpointKeys
  <2>2. CASE CacheKey(EndpointOf[r]) \in tracked
    BY <1>3, <2>1, <2>2 DEF Visit, TypeOK
  <2>3. CASE CacheKey(EndpointOf[r]) \notin tracked
    <3>1. AddEndpoint(EndpointOf[r])
      BY <1>3, <2>3 DEF Visit
    <3>2. /\ endpoints' \subseteq Endpoint /\ unheard' \subseteq endpoints'
          /\ tracked \subseteq tracked' /\ tracked' \subseteq Keys
          /\ spent' \in Spent
      BY <2>1, <3>1, AddEndpointType
    <3> QED BY <1>3, <2>1, <3>2 DEF Visit, TypeOK, Spent
  <2> QED BY <2>2, <2>3
<1>4. CASE BeginCleanup
  BY <1>4 DEF BeginCleanup, TypeOK
<1>5. ASSUME NEW k \in Keys, DeleteEndpoint(k) PROVE TypeOK'
  <2>1. spent' \in Spent
    BY <1>0, <1>5, UseType DEF DeleteEndpoint, RequestFails
  <2>2. endpoints' \subseteq Endpoint /\ tracked' \subseteq tracked
    BY <1>5 DEF DeleteEndpoint, TypeOK
  <2>3. todo' \subseteq tracked'
    BY <1>5 DEF DeleteEndpoint, TypeOK
  <2>4. unheard' \subseteq endpoints' /\ gone' \subseteq tracked'
    BY <1>5 DEF DeleteEndpoint, KeysHit, TypeOK
  <2> QED BY <1>5, <2>1, <2>2, <2>3, <2>4 DEF DeleteEndpoint, TypeOK, Spent
<1>6. CASE EndProcess
  BY <1>6 DEF EndProcess, TypeOK
<1>7. CASE Redeploy
  <2>1. spent' \in Spent
    BY <1>0, <1>7, UseType DEF Redeploy
  <2> QED BY <1>7, <2>1 DEF Redeploy, TypeOK, Spent
<1>8. CASE Restart
  <2>1. spent' \in Spent
    BY <1>0, <1>8, UseType DEF Restart
  <2> QED BY <1>8, <2>1 DEF Restart, TypeOK, Spent
<1>9. CASE Others
  <2>1. spent' \in Spent
    BY <1>0, <1>9, UseType DEF Others
  <2>2. /\ endpoints' \subseteq Endpoint /\ unheard' \subseteq endpoints'
        /\ gone' \subseteq tracked
    BY <1>9 DEF Others, TypeOK
  <2> QED BY <1>9, <2>1, <2>2 DEF Others, TypeOK, Spent
<1>10. CASE UNCHANGED vars
  BY <1>10 DEF vars, TypeOK
<1> QED BY <1>1, <1>2, <1>3, <1>4, <1>5, <1>6, <1>7, <1>8, <1>9, <1>10 DEF Next, Companion

\* Every reachable state is well typed: in particular, the keys the cleanup of
\* Process has still to delete are all in the cache.
THEOREM GatusTypeCorrect == Spec => []TypeOK
BY InitTypeOK, StepTypeOK, PTL DEF Spec

-----------------------------------------------------------------------------
\* What the cleanup relies on: a router that was visited is active, tracked or
\* not, and no active key is to be deleted.
ActiveComplete ==
    /\ pc = "add" => \A r \in listed \ todo : CacheKey(EndpointOf[r]) \in active
    /\ pc = "clean" =>
          /\ \A r \in listed : CacheKey(EndpointOf[r]) \in active
          /\ todo \cap active = {}

LEMMA StepActiveComplete == TypeOK /\ ActiveComplete /\ [Next]_vars => ActiveComplete'
<1> SUFFICES ASSUME TypeOK, ActiveComplete, [Next]_vars
             PROVE  ActiveComplete'
  OBVIOUS
<1>1. CASE SyncState \/ BeginProcess \/ EndProcess
  BY <1>1 DEF SyncState, BeginProcess, EndProcess, ActiveComplete
<1>2. ASSUME NEW r \in Router, Visit(r) PROVE ActiveComplete'
  BY <1>2 DEF Visit, ActiveComplete, TypeOK
<1>3. CASE BeginCleanup
  BY <1>3 DEF BeginCleanup, ActiveComplete
<1>4. ASSUME NEW k \in Keys, DeleteEndpoint(k) PROVE ActiveComplete'
  BY <1>4 DEF DeleteEndpoint, ActiveComplete
<1>5. CASE Others \/ Redeploy \/ Restart \/ UNCHANGED vars
  BY <1>5 DEF Others, Redeploy, Restart, vars, ActiveComplete
<1> QED BY <1>1, <1>2, <1>3, <1>4, <1>5 DEF Next, Companion

\* Two endpoints of one key are kept or deleted alike, so that splitting a key
\* in the wrong place never makes a DELETE name a wanted endpoint.
LEMMA CompleteSpares == TypeOK /\ ActiveComplete => WantedSpared
<1> SUFFICES ASSUME TypeOK, ActiveComplete, pc = "clean",
                    NEW k \in todo, NEW r \in listed, SplitKey(k) = EndpointOf[r]
             PROVE  FALSE
  BY DEF WantedSpared, Misread
<1>1. k \in Keys
  BY DEF TypeOK
<1>2. CacheKey(EndpointOf[r]) = k
  BY <1>1, JoinSplit
<1> QED BY <1>2 DEF ActiveComplete

\* Whatever the bridge makes of names that the code does not escape (ReadAs), and
\* whatever requests fail: a DELETE that is not misread never removes the endpoint of
\* a router Process was called with, for any routers and endpoints.
THEOREM CleanupSparesRouters == Spec => []WantedSpared
<1>1. Init => ActiveComplete
  BY DEF Init, ActiveComplete
<1> QED BY <1>1, InitTypeOK, StepTypeOK, StepActiveComplete, CompleteSpares, PTL DEF Spec

-----------------------------------------------------------------------------
\* The DELETE of a tracked key hits an endpoint the process has heard of, or it is
\* misread, or there is a router with another endpoint of that key.
TrackedHeard ==
    ~dryRun => \A k \in tracked : Hit(k) \in unheard =>
        \/ Misread(k)
        \/ \E r \in Router : CacheKey(EndpointOf[r]) = k /\ EndpointOf[r] # Hit(k)

\* An endpoint whose key is not tracked is not hit by the DELETE of a tracked key,
\* unless that is misread.
LEMMA UntrackedSplit ==
    ASSUME TypeOK, NEW e \in Endpoint, CacheKey(e) \notin tracked, NEW k \in tracked
    PROVE  Hit(k) # e \/ Misread(k)
BY JoinSplit DEF TypeOK, Misread

LEMMA StepTrackedHeard == TypeOK /\ TrackedHeard /\ [Next]_vars => TrackedHeard'
<1> SUFFICES ASSUME TypeOK, TrackedHeard, [Next]_vars
             PROVE  TrackedHeard'
  OBVIOUS
<1>1. CASE SyncState
  BY <1>1 DEF SyncState, TrackedHeard, Hit, Misread
<1>2. CASE BeginProcess \/ BeginCleanup \/ EndProcess \/ Redeploy \/ UNCHANGED vars
  BY <1>2 DEF BeginProcess, BeginCleanup, EndProcess, Redeploy, vars, TrackedHeard, Hit, Misread
<1>3. ASSUME NEW r \in Router, Visit(r) PROVE TrackedHeard'
  <2> DEFINE e == EndpointOf[r]
  <2>0. e \in Endpoint
    BY EndpointKeys
  <2>1. CASE UNCHANGED <<tracked, unheard>>
    BY <1>3, <2>1 DEF Visit, TrackedHeard, Hit, Misread
  <2>2. CASE CacheKey(e) \notin tracked /\ AddEndpoint(e) /\ ~dryRun
    <3>1. CASE tracked' = tracked \cup {CacheKey(e)} /\ unheard' = unheard \ {e}
      BY <1>3, <2>2, <3>1 DEF Visit, TrackedHeard, Hit, Misread
    <3>2. CASE unheard' = unheard \cup {e} /\ UNCHANGED tracked
      BY <1>3, <2>0, <2>2, <3>2, UntrackedSplit DEF Visit, TrackedHeard, Hit, Misread
    <3> QED BY <2>1, <2>2, <3>1, <3>2 DEF AddEndpoint
  <2>3. CASE dryRun
    BY <1>3, <2>3 DEF Visit, TrackedHeard, Hit, Misread
  <2> QED BY <1>3, <2>1, <2>2, <2>3 DEF Visit
<1>4. ASSUME NEW k \in Keys, DeleteEndpoint(k) PROVE TrackedHeard'
  <2>1. tracked' \subseteq tracked /\ unheard' \subseteq unheard /\ UNCHANGED dryRun
    BY <1>4 DEF DeleteEndpoint
  <2> QED BY <2>1 DEF TrackedHeard, Hit, Misread
<1>5. CASE Others
  <2>1. ASSUME NEW e \in Endpoint, unheard' = unheard \cup {e}, CacheKey(e) \notin tracked
        PROVE  TrackedHeard'
    BY <1>5, <2>1, UntrackedSplit DEF Others, TrackedHeard, Hit, Misread
  <2>2. CASE unheard' \subseteq unheard
    BY <1>5, <2>2 DEF Others, TrackedHeard, Hit, Misread
  <2> QED BY <1>5, <2>1, <2>2 DEF Others
<1>6. CASE Restart
  BY <1>6 DEF Restart, TrackedHeard, Hit, Misread
<1> QED BY <1>1, <1>2, <1>3, <1>4, <1>5, <1>6 DEF Next, Companion

\* Cleanup never deletes what others have added since the companion adopted the
\* bridge's endpoints (SyncState runs once, Process only adds its own keys to
\* tracked), for any routers and endpoints, unless a router has its ambiguous key
\* or the bridge reads the DELETE of another key as that of this endpoint.
THEOREM CleanupSparesOthers == Spec => []OthersSpared
<1>1. Init => TrackedHeard
  BY DEF Init, TrackedHeard
<1>2. TypeOK /\ TrackedHeard => OthersSpared
  BY DEF TypeOK, TrackedHeard, OthersSpared
<1> QED BY <1>1, <1>2, InitTypeOK, StepTypeOK, StepTrackedHeard, PTL DEF Spec

-----------------------------------------------------------------------------
\* What a POST that is accepted, refused or lost does to the agreement.
LEMMA AddEndpointMatches ==
    ASSUME TypeOK, CacheMatchesBridge, ~dryRun, UNCHANGED <<dryRun, gone>>,
           NEW e \in Endpoint, AddEndpoint(e)
    PROVE  CacheMatchesBridge'
<1>1. CASE endpoints' = endpoints \cup {e} /\ tracked' = tracked \cup {CacheKey(e)}
           /\ unheard' = unheard \ {e}
  BY <1>1 DEF CacheMatchesBridge, Deletable, Hit
<1>2. CASE endpoints' = endpoints \cup {e} /\ unheard' = unheard \cup {e}
           /\ UNCHANGED tracked
  BY <1>2 DEF CacheMatchesBridge, Deletable, Hit
<1>3. CASE UNCHANGED <<endpoints, tracked, unheard>>
  BY <1>3 DEF CacheMatchesBridge, Deletable, Hit
<1> QED
  BY <1>1, <1>2, <1>3 DEF AddEndpoint

LEMMA StepCacheMatches ==
    TypeOK /\ CacheMatchesBridge /\ [Next]_vars => CacheMatchesBridge'
<1> SUFFICES ASSUME TypeOK, CacheMatchesBridge, [Next]_vars, ~dryRun
             PROVE  CacheMatchesBridge'
  <2>1. [Next]_vars => UNCHANGED dryRun
    BY DEF Next, Companion, SyncState, BeginProcess, Visit, BeginCleanup, DeleteEndpoint,
           EndProcess, Others, Redeploy, Restart, vars
  <2> QED
    BY <2>1 DEF CacheMatchesBridge
<1>1. CASE SyncState
  BY <1>1 DEF SyncState, CacheMatchesBridge, Deletable, Hit
<1>2. CASE BeginProcess \/ BeginCleanup \/ EndProcess \/ Redeploy \/ UNCHANGED vars
  BY <1>2 DEF BeginProcess, BeginCleanup, EndProcess, Redeploy, vars, CacheMatchesBridge, Deletable, Hit
<1>3. ASSUME NEW r \in Router, Visit(r) PROVE CacheMatchesBridge'
  <2>1. CASE UNCHANGED <<endpoints, tracked, unheard>>
    BY <1>3, <2>1 DEF Visit, CacheMatchesBridge, Deletable, Hit
  <2>2. CASE AddEndpoint(EndpointOf[r])
    BY <1>3, <2>2, EndpointKeys, AddEndpointMatches DEF Visit
  <2> QED
    BY <1>3, <2>1, <2>2 DEF Visit
<1>4. ASSUME NEW k \in Keys, DeleteEndpoint(k) PROVE CacheMatchesBridge'
  <2>1. CASE UNCHANGED <<endpoints, tracked, unheard, gone>>
    BY <1>4, <2>1 DEF DeleteEndpoint, CacheMatchesBridge, Deletable, Hit
  <2>2. CASE /\ endpoints' = endpoints \ {Hit(k)} /\ unheard' = unheard \ {Hit(k)}
             /\ \/ tracked' = tracked \ {k} /\ gone' = (gone \cup KeysHit(k)) \ {k}
                \/ gone' = gone \cup KeysHit(k) /\ UNCHANGED tracked
    <3>1. \A j \in tracked' \ gone' : j \in tracked \ gone /\ j \notin KeysHit(k)
      BY <2>2 DEF TypeOK
    <3>2. ASSUME NEW j \in tracked' \ gone'
          PROVE  \E e \in endpoints' : CacheKey(e) = j
      <4>1. PICK e \in endpoints : CacheKey(e) = j
        BY <3>1 DEF CacheMatchesBridge
      <4>2. e # Hit(k)
        BY <3>1, <4>1 DEF KeysHit
      <4> QED
        BY <2>2, <4>1, <4>2
    <3>3. ASSUME NEW e \in endpoints' \ unheard', Deletable(e)
          PROVE  CacheKey(e) \in tracked'
      <4>1. e \in endpoints \ unheard /\ e # Hit(k)
        BY <2>2
      <4>2. CacheKey(e) \in tracked /\ CacheKey(e) # k
        BY <3>3, <4>1 DEF CacheMatchesBridge, Deletable
      <4> QED
        BY <2>2, <4>2
    <3>4. \A e : Deletable(e)' = Deletable(e)
      BY DEF Deletable, Hit
    <3> QED
      BY <3>2, <3>3, <3>4 DEF CacheMatchesBridge
  <2> QED
    BY <1>4, <2>1, <2>2 DEF DeleteEndpoint
<1>5. CASE Others
  BY <1>5 DEF Others, CacheMatchesBridge, Deletable, Hit
<1>6. CASE Restart
  BY <1>6 DEF Restart, CacheMatchesBridge, Deletable, Hit
<1> QED
  BY <1>1, <1>2, <1>3, <1>4, <1>5, <1>6 DEF Next, Companion

\* Neither lost answers nor ambiguous keys nor misread DELETEs set the cache and the
\* bridge apart (SyncState, AddEndpoint, DeleteEndpoint): a router whose endpoint is
\* skipped has one unless it is gone, and an endpoint the companion has heard of, and
\* that the DELETE of its key names, is one the cleanup goes over.
THEOREM GatusCacheMatches == Spec => []CacheMatchesBridge
<1>1. Init => CacheMatchesBridge
  BY DEF Init, CacheMatchesBridge
<1> QED
  BY <1>1, InitTypeOK, StepTypeOK, StepCacheMatches, PTL DEF Spec
=============================================================================
