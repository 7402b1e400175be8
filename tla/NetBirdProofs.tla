--------------------------- MODULE NetBirdProofs ---------------------------
(***************************************************************************)
(* Proofs about NetBird, for any nodes, hosts, zones, containers, bounds   *)
(* and initial records that satisfy ConstantsOK.                           *)
(***************************************************************************)
EXTENDS NetBird, FiniteSetTheorems, TLAPS

\* What extractMeshHosts returns for containers of n are hosts of n.
LEMMA MeshHostsBound ==
    ASSUME NEW n \in Node, NEW services \in SUBSET Services[n]
    PROVE  /\ MeshHosts(services).active \subseteq HostsOf(n)
           /\ MeshHosts(services).ignored \subseteq HostsOf(n)
<1>1. ASSUME NEW svc \in services, NEW m \in BOOLEAN
      PROVE  HostsManaged(svc, m) \subseteq HostsOf(n)
  <2>1. ServiceHosts(svc) \subseteq HostsOf(n)
    BY DEF HostsOf
  <2>2. \A r \in svc : RouterHosts(svc, r) \subseteq ServiceHosts(svc)
    BY DEF RouterHosts, ServiceHosts
  <2> QED
    BY <2>1, <2>2 DEF HostsManaged
<1>2. ActiveHosts(services) \subseteq HostsOf(n)
  BY <1>1 DEF ActiveHosts
<1>3. IgnoredHosts(services) \subseteq HostsOf(n)
  BY <1>1 DEF IgnoredHosts
<1> QED
  BY <1>2, <1>3 DEF MeshHosts

LEMMA HostsOfType == ASSUME NEW n \in Node PROVE HostsOf(n) \subseteq Host
BY ConstantsOK DEF ConstantsOK, HostsOf, ServiceHosts, Router

\* A host that is not shared is routed by one node only.
LEMMA OneClaimant ==
    ASSUME NEW m \in Node, NEW n \in Node, NEW h \in HostsOf(m), h \in HostsOf(n),
           h \notin Shared
    PROVE  m = n
BY HostsOfType DEF Shared

LEMMA MeshHostsType ==
    ASSUME NEW n \in Node, NEW services \in SUBSET Services[n]
    PROVE  MeshHosts(services) \in HostSets
<1>1. /\ MeshHosts(services).active \subseteq Host
      /\ MeshHosts(services).ignored \subseteq Host
  BY MeshHostsBound, HostsOfType
<1> QED
  BY <1>1 DEF MeshHosts, HostSets

\* bucketHosts puts hosts only into zones they belong to.
LEMMA BucketingsType ==
    ASSUME NEW hosts \in SUBSET Host, NEW b \in Bucketings(hosts)
    PROVE  /\ b \in [Zone -> SUBSET Host]
           /\ \A z \in Zone : \A h \in b[z] : h \in hosts /\ z \in ZonesOf[h]
<1> DEFINE matched == {h \in hosts : ZonesOf[h] # {}}
<1>1. PICK f \in [matched -> Zone] :
        /\ \A h \in matched : f[h] \in ZonesOf[h]
        /\ b = [z \in Zone |-> {h \in matched : f[h] = z}]
  BY DEF Bucketings
<1>2. \A z \in Zone : b[z] = {h \in matched : f[h] = z}
  BY <1>1
<1>3. \A z \in Zone : b[z] \in SUBSET Host
  BY <1>2
<1>4. b = [z \in Zone |-> b[z]]
  BY <1>1
<1>5. b \in [Zone -> SUBSET Host]
  BY <1>3, <1>4
<1> QED
  BY <1>1, <1>2, <1>5

LEMMA UpsertsForType ==
    ASSUME TypeOK, NEW n \in Node, NEW z \in Zone,
           NEW first \in FirstRecords(z, bucket[n].active[z])
    PROVE  UpsertsFor(n, z, first) \subseteq Call
<1>1. bucket[n].active[z] \subseteq Host
  BY DEF TypeOK, Buckets
<1>2. DOMAIN first \subseteq bucket[n].active[z]
  BY DEF FirstRecords
<1>3. \A h \in DOMAIN first : first[h] \in records /\ first[h].id \in Nat
  BY DEF FirstRecords, Listed, TypeOK, Record
<1> QED
  BY <1>1, <1>2, <1>3 DEF UpsertsFor, Call, NoId

-----------------------------------------------------------------------------
LEMMA InitTypeOK == Init => TypeOK
<1> SUFFICES ASSUME Init PROVE TypeOK
  OBVIOUS
<1>1. spent \in [changes : 0..MaxChanges, failures : 0..MaxFailures,
                 restarts : 0..MaxRestarts]
  BY ConstantsOK DEF Init, ConstantsOK
<1>2. /\ want \in [Node -> HostSets]
      /\ bucket \in [Node -> Buckets]
  BY DEF Init, NoHosts, HostSets, NoBucket, Buckets
<1> QED
  BY <1>1, <1>2, ConstantsOK DEF Init, TypeOK, ConstantsOK

LEMMA StepTypeOK == TypeOK /\ [Next]_vars => TypeOK'
<1> SUFFICES ASSUME TypeOK, [Next]_vars PROVE TypeOK'
  OBVIOUS
<1>a. ASSUME RequestFails
      PROVE  spent' \in [changes : 0..MaxChanges, failures : 0..MaxFailures,
                         restarts : 0..MaxRestarts]
  BY <1>a, ConstantsOK DEF RequestFails, TypeOK, ConstantsOK
<1>1. ASSUME NEW n \in Node, Process(n) PROVE TypeOK'
  <2>1. MeshHosts(containers[n]) \in HostSets
    BY MeshHostsType DEF TypeOK
  <2>2. PICK a \in Bucketings(MeshHosts(containers[n]).active),
             i \in Bucketings(MeshHosts(containers[n]).ignored) :
          /\ bucket' = [bucket EXCEPT ![n] = [active |-> a, ignored |-> i]]
          /\ todo' = [todo EXCEPT ![n] = ZonesToSync(n, [active |-> a, ignored |-> i])]
    BY <1>1 DEF Process
  <2>3. a \in [Zone -> SUBSET Host] /\ i \in [Zone -> SUBSET Host]
    BY <2>1, BucketingsType DEF HostSets
  <2>4. bucket' \in [Node -> Buckets]
    BY <2>2, <2>3 DEF TypeOK, Buckets
  <2>5. todo' \in [Node -> SUBSET Zone]
    BY <2>2 DEF TypeOK, ZonesToSync
  <2>6. want' \in [Node -> HostSets] /\ pc' \in [Node -> {"idle", "sync"}]
    BY <1>1, <2>1 DEF Process, TypeOK
  <2> QED
    BY <1>1, <2>4, <2>5, <2>6 DEF Process, TypeOK
<1>2. ASSUME NEW n \in Node, NEW z \in Zone, SyncZone(n, z) PROVE TypeOK'
  <2>1. todo' \in [Node -> SUBSET Zone]
    BY <1>2 DEF SyncZone, TypeOK
  <2>2. upserts' \in [Node -> SUBSET Call]
    BY <1>2, UpsertsForType DEF SyncZone, TypeOK
  <2>3. DeletesFor(n, z) \subseteq Nat \ {0}
    BY DEF DeletesFor, Orphans, Listed, TypeOK, Record
  <2>4. deletes' \in [Node -> SUBSET (Nat \ {0})]
    BY <1>2, <2>3 DEF SyncZone, TypeOK
  <2>5. spent' \in [changes : 0..MaxChanges, failures : 0..MaxFailures,
                    restarts : 0..MaxRestarts]
    BY <1>2, <1>a DEF SyncZone, TypeOK
  <2> QED
    BY <1>2, <2>1, <2>2, <2>4, <2>5 DEF SyncZone, TypeOK
<1>3. ASSUME NEW n \in Node, NEW c \in upserts[n], Upsert(n, c) PROVE TypeOK'
  <2>1. c \in Call
    BY DEF TypeOK
  <2>2. ASSUME ApplyPut(n, c)
        PROVE  records' \subseteq Record /\ nextId' \in Nat \ {0}
    <3>1. Target[n] \in Content /\ c.host \in Host /\ "A" \in RecordType
      BY <2>1 DEF Content, Call, RecordType
    <3>2. \A r \in Record : Updated(n, c, r) \in Record
      BY <3>1 DEF Record, Updated
    <3> QED
      BY <2>2, <3>2 DEF ApplyPut, TypeOK
  <2>3. ASSUME ApplyPost(n, c)
        PROVE  records' \subseteq Record /\ nextId' \in Nat \ {0}
    BY <2>1, <2>3 DEF ApplyPost, TypeOK, Record, Content, RecordType, Call
  <2>4. records' \subseteq Record /\ nextId' \in Nat \ {0}
    BY <1>3, <2>2, <2>3 DEF Upsert, TypeOK
  <2>5. spent' \in [changes : 0..MaxChanges, failures : 0..MaxFailures,
                    restarts : 0..MaxRestarts]
    BY <1>3, <1>a DEF Upsert, TypeOK
  <2>6. upserts' \in [Node -> SUBSET Call]
    BY <1>3 DEF Upsert, TypeOK
  <2> QED
    BY <1>3, <2>4, <2>5, <2>6 DEF Upsert, TypeOK
<1>4. ASSUME NEW n \in Node, NEW id \in deletes[n], Delete(n, id) PROVE TypeOK'
  <2>1. records' \subseteq Record
    BY <1>4 DEF Delete, TypeOK
  <2>2. spent' \in [changes : 0..MaxChanges, failures : 0..MaxFailures,
                    restarts : 0..MaxRestarts]
    BY <1>4, <1>a DEF Delete, TypeOK
  <2>3. deletes' \in [Node -> SUBSET (Nat \ {0})]
    BY <1>4 DEF Delete, TypeOK
  <2> QED
    BY <1>4, <2>1, <2>2, <2>3 DEF Delete, TypeOK
<1>5. ASSUME NEW n \in Node, FinishSync(n) PROVE TypeOK'
  BY <1>5 DEF FinishSync, TypeOK
<1>6. ASSUME NEW n \in Node, Restart(n) PROVE TypeOK'
  <2>1. NoHosts \in HostSets /\ NoBucket \in Buckets
    BY DEF NoHosts, HostSets, NoBucket, Buckets
  <2>2. spent' \in [changes : 0..MaxChanges, failures : 0..MaxFailures,
                    restarts : 0..MaxRestarts]
    BY <1>6, ConstantsOK DEF Restart, TypeOK, ConstantsOK
  <2> QED
    BY <1>6, <2>1, <2>2 DEF Restart, TypeOK
<1>7. ASSUME NEW n \in Node, NEW svcs, svcs \subseteq Services[n], Change(n, svcs)
      PROVE  TypeOK'
  <2>1. /\ containers' \in [Node -> SUBSET Container]
        /\ \A m \in Node : containers'[m] \subseteq Services[m]
    BY <1>7 DEF Change, TypeOK, Container
  <2>2. spent' \in [changes : 0..MaxChanges, failures : 0..MaxFailures,
                    restarts : 0..MaxRestarts]
    BY <1>7, ConstantsOK DEF Change, TypeOK, ConstantsOK
  <2> QED
    BY <1>7, <2>1, <2>2 DEF Change, TypeOK
<1>8. ASSUME NEW n \in Node, CreateContainer(n) \/ RemoveContainer(n) PROVE TypeOK'
  BY <1>7, <1>8 DEF CreateContainer, RemoveContainer, TypeOK
<1>9. CASE UNCHANGED vars
  BY <1>9 DEF vars, TypeOK
<1> QED
  BY <1>1, <1>2, <1>3, <1>4, <1>5, <1>6, <1>8, <1>9
  DEF Next, Companion, Environment

\* Every reachable state is well typed; in particular no bound is exceeded and
\* only containers that may exist on a node are listed there.
THEOREM TypeCorrect == Spec => []TypeOK
BY InitTypeOK, StepTypeOK, PTL DEF Spec

-----------------------------------------------------------------------------
\* What holds of the plans in any deployment.
LEMMA InitPlanInv == Init => PlanInv
<1> SUFFICES ASSUME Init PROVE PlanInv
  OBVIOUS
<1>1. IdlePlansNothing /\ PutsKeepNames
  BY DEF Init, IdlePlansNothing, ZoneDone, PutsKeepNames
<1>2. PlansOwnHosts
  BY DEF Init, PlansOwnHosts, NoHosts, NoBucket
<1>3. IdsFresh
  BY ConstantsOK DEF Init, IdsFresh, ConstantsOK
<1> QED
  BY <1>1, <1>2, <1>3 DEF PlanInv

LEMMA ProcessPlanInv ==
    ASSUME TypeOK, PlanInv, NEW n \in Node, Process(n)
    PROVE  PlanInv'
<1>1. PICK a \in Bucketings(MeshHosts(containers[n]).active),
           i \in Bucketings(MeshHosts(containers[n]).ignored) :
        bucket' = [bucket EXCEPT ![n] = [active |-> a, ignored |-> i]]
  BY DEF Process
<1>2. /\ MeshHosts(containers[n]).active \subseteq HostsOf(n)
      /\ MeshHosts(containers[n]).ignored \subseteq HostsOf(n)
  BY MeshHostsBound DEF TypeOK
<1>3. \A z \in Zone : a[z] \subseteq HostsOf(n)
  BY <1>2, BucketingsType, HostsOfType
<1>4. PlansOwnHosts'
  <2>1. /\ want' = [want EXCEPT ![n] = MeshHosts(containers[n])]
        /\ upserts' = upserts
    BY DEF Process
  <2>2. want \in [Node -> HostSets] /\ bucket \in [Node -> Buckets]
    BY DEF TypeOK
  <2> SUFFICES ASSUME NEW m \in Node
               PROVE  /\ want'[m].active \cup want'[m].ignored \subseteq HostsOf(m)
                      /\ \A z \in Zone : bucket'[m].active[z] \subseteq HostsOf(m)
                      /\ \A call \in upserts[m] : call.host \in HostsOf(m)
                      /\ \A call \in upserts[m] : call.op = "POST" => call.id = NoId
    BY <2>1 DEF PlansOwnHosts, HostsOf, ServiceHosts
  <2>3. CASE m = n
    BY <1>1, <1>2, <1>3, <2>1, <2>2, <2>3 DEF PlanInv, PlansOwnHosts
  <2>4. CASE m # n
    BY <1>1, <2>1, <2>2, <2>4 DEF PlanInv, PlansOwnHosts
  <2> QED
    BY <2>3, <2>4
<1>5. IdlePlansNothing'
  BY DEF Process, TypeOK, PlanInv, IdlePlansNothing, ZoneDone
<1>6. UNCHANGED <<records, nextId, upserts, deletes>>
  BY DEF Process
<1> QED
  BY <1>4, <1>5, <1>6 DEF PlanInv, IdsFresh, PutsKeepNames

\* The calls computed from a list agree with the account at that moment.
LEMMA UpsertsForMatch ==
    ASSUME TypeOK, IdsFresh, NEW n \in Node, NEW z \in Zone,
           NEW first \in FirstRecords(z, bucket[n].active[z]),
           NEW call \in UpsertsFor(n, z, first)
    PROVE  /\ call.host \in bucket[n].active[z] /\ call.zone = z
           /\ call.op = "POST" => call.id = NoId
           /\ call.id < nextId
           /\ \A r \in records :
                 /\ call.op = "PUT" /\ r.id = call.id => r.name = call.host
                 /\ call.op = "POST" => ~(r.zone = call.zone /\ r.name = call.host)
<1> DEFINE found == {h \in bucket[n].active[z] : RecordsOf(z, h) # {}}
<1>1. /\ first \in [found -> Listed(z)]
      /\ \A h \in found : first[h].name = h
  BY DEF FirstRecords
<1>2. \A h \in found : first[h] \in records /\ first[h].id < nextId
  BY <1>1 DEF Listed, IdsFresh
<1>3. NoId < nextId
  BY DEF NoId, TypeOK
<1>4. CASE call \in {[op |-> "PUT", zone |-> z, host |-> h, id |-> first[h].id] :
                       h \in {x \in DOMAIN first : first[x].content # Target[n]}}
  BY <1>1, <1>2, <1>4 DEF IdsFresh
<1>5. CASE call \in {[op |-> "POST", zone |-> z, host |-> h, id |-> NoId] :
                       h \in bucket[n].active[z] \ DOMAIN first}
  BY <1>1, <1>3, <1>5 DEF RecordsOf, Listed
<1> QED
  BY <1>4, <1>5 DEF UpsertsFor

LEMMA SyncZonePlanInv ==
    ASSUME TypeOK, PlanInv, NEW n \in Node, NEW z \in Zone, SyncZone(n, z)
    PROVE  PlanInv'
<1>1. UNCHANGED <<records, nextId, want, bucket, pc>>
  BY DEF SyncZone
<1>2. \A m \in Node : \A call \in upserts'[m] :
        \/ call \in upserts[m]
        \/ m = n /\ \E first \in FirstRecords(z, bucket[n].active[z]) :
                       call \in UpsertsFor(n, z, first)
  BY DEF SyncZone, TypeOK
<1>3. \A m \in Node : \A id \in deletes'[m] :
        id \in deletes[m] \/ (m = n /\ id \in DeletesFor(n, z))
  BY DEF SyncZone, TypeOK
<1>4. \A id \in DeletesFor(n, z) : \E r \in records : r.id = id
  BY DEF DeletesFor, Orphans, Listed
<1>5. IdlePlansNothing'
  BY DEF SyncZone, TypeOK, PlanInv, IdlePlansNothing, ZoneDone
<1>6. ASSUME NEW m \in Node, NEW call \in upserts'[m]
      PROVE  /\ call.host \in HostsOf(m)
             /\ call.op = "POST" => call.id = NoId
             /\ call.id < nextId
             /\ \A r \in records :
                   call.op = "PUT" /\ r.id = call.id => r.name = call.host
  <2>1. CASE call \in upserts[m]
    BY <2>1 DEF PlanInv, PlansOwnHosts, IdsFresh, PutsKeepNames
  <2>2. ASSUME m = n,
               NEW first \in FirstRecords(z, bucket[n].active[z]),
               call \in UpsertsFor(n, z, first)
        PROVE  /\ call.host \in HostsOf(m)
               /\ call.op = "POST" => call.id = NoId
               /\ call.id < nextId
               /\ \A r \in records :
                     call.op = "PUT" /\ r.id = call.id => r.name = call.host
    <3>1. bucket[n].active[z] \subseteq HostsOf(n) /\ IdsFresh
      BY DEF PlanInv, PlansOwnHosts
    <3> QED
      BY <2>2, <3>1, UpsertsForMatch
  <2> QED
    BY <1>2, <2>1, <2>2
<1>7. PlansOwnHosts' /\ PutsKeepNames'
  BY <1>1, <1>6 DEF PlanInv, PlansOwnHosts, PutsKeepNames, HostsOf, ServiceHosts
<1>8. IdsFresh'
  BY <1>1, <1>3, <1>4, <1>6 DEF PlanInv, IdsFresh
<1> QED
  BY <1>5, <1>7, <1>8 DEF PlanInv

\* A PUT changes neither the name nor the zone of a record, and only touches hosts
\* of the node that makes it.
LEMMA PutUpdates ==
    ASSUME TypeOK, PlanInv, NEW n \in Node, NEW c \in upserts[n],
           c.op = "PUT", NEW r \in records
    PROVE  /\ Updated(n, c, r).id = r.id
           /\ Updated(n, c, r).zone = r.zone
           /\ Updated(n, c, r).name = r.name
           /\ \/ Updated(n, c, r) = r
              \/ /\ r.name \in HostsOf(n)
                 /\ Updated(n, c, r).content = Target[n]
                 /\ Updated(n, c, r).type = "A"
<1> SUFFICES ASSUME r.id = c.id
             PROVE  /\ Updated(n, c, r).id = r.id
                    /\ Updated(n, c, r).zone = r.zone
                    /\ Updated(n, c, r).name = r.name
                    /\ r.name \in HostsOf(n)
                    /\ Updated(n, c, r).content = Target[n]
                    /\ Updated(n, c, r).type = "A"
  BY DEF Updated
<1>1. r.name = c.host /\ c.host \in HostsOf(n)
  BY DEF PlanInv, PutsKeepNames, PlansOwnHosts
<1>2. r \in Record
  BY DEF TypeOK
<1> QED
  BY <1>1, <1>2 DEF Updated, Record

LEMMA UpsertPlanInv ==
    ASSUME TypeOK, PlanInv, NEW n \in Node, NEW c \in upserts[n], Upsert(n, c)
    PROVE  PlanInv'
<1>1. /\ UNCHANGED <<want, bucket, deletes, pc, todo>>
      /\ \A m \in Node : upserts'[m] \subseteq upserts[m] /\ upserts[m] \subseteq Call
  BY DEF Upsert, TypeOK
<1>2. IdlePlansNothing' /\ PlansOwnHosts'
  BY <1>1 DEF PlanInv, IdlePlansNothing, ZoneDone, PlansOwnHosts
<1>3. CASE UNCHANGED <<records, nextId>>
  BY <1>1, <1>2, <1>3 DEF PlanInv, IdsFresh, PutsKeepNames
<1>4. CASE c.op = "PUT" /\ ApplyPut(n, c)
  <2>1. /\ \A s \in records' : \E r \in records : s = Updated(n, c, r)
        /\ nextId' = nextId
    BY <1>4 DEF ApplyPut
  <2> QED
    BY <1>1, <1>2, <1>4, <2>1, PutUpdates DEF PlanInv, IdsFresh, PutsKeepNames
<1>5. CASE c.op = "POST" /\ ApplyPost(n, c)
  <2> DEFINE new == [id |-> nextId, zone |-> c.zone, name |-> c.host, type |-> "A",
                     content |-> Target[n]]
  <2>1. records' = records \cup {new} /\ nextId' = nextId + 1 /\ nextId \in Nat
    BY <1>5 DEF ApplyPost, TypeOK
  <2>2. \A r \in records : r.id \in Nat
    BY DEF TypeOK, Record
  <2>3. \A r, s \in records' : r.id = s.id => r = s
    BY <2>1, <2>2 DEF PlanInv, IdsFresh
  <2>4. \A r \in records' : r.id < nextId'
    BY <2>1, <2>2 DEF PlanInv, IdsFresh
  <2>5. \A m \in Node : \A id \in deletes[m] : id \in Nat /\ id < nextId
    BY DEF TypeOK, PlanInv, IdsFresh
  <2>6. \A m \in Node : \A call \in upserts'[m] :
           call.id \in Nat /\ call.id < nextId /\ call.id # nextId
    BY <1>1, <2>1 DEF Call, PlanInv, IdsFresh
  <2>7. IdsFresh'
    BY <1>1, <2>1, <2>3, <2>4, <2>5, <2>6 DEF IdsFresh
  <2>8. PutsKeepNames'
    BY <1>1, <2>1, <2>6 DEF PlanInv, PutsKeepNames
  <2> QED
    BY <1>2, <2>7, <2>8 DEF PlanInv
<1> QED
  BY <1>3, <1>4, <1>5 DEF Upsert

LEMMA DeletePlanInv ==
    ASSUME TypeOK, PlanInv, NEW n \in Node, NEW id \in deletes[n], Delete(n, id)
    PROVE  PlanInv'
<1>1. /\ UNCHANGED <<nextId, want, bucket, pc, todo, upserts>>
      /\ \A m \in Node : deletes'[m] \subseteq deletes[m]
      /\ records' \subseteq records
  BY DEF Delete, TypeOK
<1>2. IdlePlansNothing'
  BY <1>1 DEF PlanInv, IdlePlansNothing, ZoneDone
<1> QED
  BY <1>1, <1>2 DEF PlanInv, PlansOwnHosts, IdsFresh, PutsKeepNames

LEMMA RestartPlanInv ==
    ASSUME TypeOK, PlanInv, NEW n \in Node, Restart(n)
    PROVE  PlanInv'
<1>1. /\ UNCHANGED <<records, nextId>>
      /\ want' = [want EXCEPT ![n] = NoHosts]
      /\ bucket' = [bucket EXCEPT ![n] = NoBucket]
      /\ upserts' = [upserts EXCEPT ![n] = {}]
      /\ deletes' = [deletes EXCEPT ![n] = {}]
  BY DEF Restart
<1>2. IdlePlansNothing'
  BY DEF Restart, TypeOK, PlanInv, IdlePlansNothing, ZoneDone
<1>3. PlansOwnHosts'
  <2> SUFFICES ASSUME NEW m \in Node
               PROVE  /\ want'[m].active \cup want'[m].ignored \subseteq HostsOf(m)
                      /\ \A z \in Zone : bucket'[m].active[z] \subseteq HostsOf(m)
                      /\ \A call \in upserts'[m] : call.host \in HostsOf(m)
                      /\ \A call \in upserts'[m] : call.op = "POST" => call.id = NoId
    BY DEF PlansOwnHosts
  <2>1. CASE m = n
    BY <1>1, <2>1 DEF NoHosts, NoBucket, TypeOK
  <2>2. CASE m # n
    BY <1>1, <2>2 DEF PlanInv, PlansOwnHosts, TypeOK
  <2> QED
    BY <2>1, <2>2
<1>4. /\ \A m \in Node : upserts'[m] \subseteq upserts[m]
      /\ \A m \in Node : deletes'[m] \subseteq deletes[m]
  BY <1>1 DEF TypeOK
<1> QED
  BY <1>1, <1>2, <1>3, <1>4 DEF PlanInv, IdsFresh, PutsKeepNames

LEMMA StepPlanInv == TypeOK /\ PlanInv /\ [Next]_vars => PlanInv'
<1> SUFFICES ASSUME TypeOK, PlanInv, [Next]_vars PROVE PlanInv'
  OBVIOUS
<1>1. ASSUME NEW n \in Node, FinishSync(n) PROVE PlanInv'
  <2>1. IdlePlansNothing'
    BY <1>1 DEF FinishSync, TypeOK, PlanInv, IdlePlansNothing, ZoneDone
  <2> QED
    BY <1>1, <2>1 DEF FinishSync, PlanInv, PlansOwnHosts, IdsFresh, PutsKeepNames
<1>2. ASSUME UNCHANGED <<records, nextId, pc, want, bucket, todo, upserts, deletes>>
      PROVE  PlanInv'
  BY <1>2 DEF PlanInv, IdlePlansNothing, ZoneDone, PlansOwnHosts, IdsFresh, PutsKeepNames
<1>3. ASSUME NEW n \in Node, CreateContainer(n) \/ RemoveContainer(n) PROVE PlanInv'
  BY <1>2, <1>3 DEF CreateContainer, RemoveContainer, Change
<1>4. CASE UNCHANGED vars
  BY <1>2, <1>4 DEF vars
<1> QED
  BY <1>1, <1>3, <1>4, ProcessPlanInv, SyncZonePlanInv, UpsertPlanInv, DeletePlanInv,
     RestartPlanInv
  DEF Next, Companion, Environment

THEOREM PlanInvHolds == Spec => []PlanInv
BY InitPlanInv, StepPlanInv, TypeCorrect, PTL DEF Spec

-----------------------------------------------------------------------------
\* How many copies of a record the nodes can make, in any deployment.
LEMMA ClaimantsBound ==
    ASSUME NEW h \in Host
    PROVE  /\ IsFiniteSet(Claimants(h)) /\ Cardinality(Claimants(h)) \in Nat
           /\ Room(h) \in Nat \ {0}
           /\ Cardinality(Claimants(h)) <= Room(h)
<1>1. IsFiniteSet(Node) /\ Claimants(h) \in SUBSET Node
  BY ConstantsOK DEF ConstantsOK, Claimants
<1>2. IsFiniteSet(Claimants(h))
  BY <1>1, FS_Subset
<1>3. Cardinality(Claimants(h)) \in Nat
  BY <1>2, FS_CardinalityType
<1>4. Cardinality(Claimants(h)) = 0 <=> Claimants(h) = {}
  BY <1>2, FS_EmptySet
<1> QED
  BY <1>2, <1>3, <1>4 DEF Room

\* Only nodes that may route a host plan to POST it.
LEMMA PlannedClaim ==
    ASSUME PlanInv, NEW z \in Zone, NEW h \in Host
    PROVE  /\ Planned(z, h) \subseteq Claimants(h)
           /\ IsFiniteSet(Planned(z, h)) /\ Cardinality(Planned(z, h)) \in Nat
           /\ Cardinality(Planned(z, h)) <= Room(h)
<1>1. Planned(z, h) \subseteq Claimants(h)
  BY DEF PlanInv, PlansOwnHosts, Planned, Claimants
<1>2. IsFiniteSet(Planned(z, h)) /\ Cardinality(Planned(z, h)) <= Cardinality(Claimants(h))
  BY <1>1, ClaimantsBound, FS_Subset
<1>3. Cardinality(Planned(z, h)) \in Nat
  BY <1>2, FS_CardinalityType
<1> QED
  BY <1>1, <1>2, <1>3, ClaimantsBound

LEMMA CopiesFinite ==
    ASSUME CopiesInv, NEW z \in Zone, NEW h \in Host
    PROVE  IsFiniteSet(RecordsOf(z, h)) /\ Cardinality(RecordsOf(z, h)) \in Nat
<1>1. IsFiniteSet(RecordsOf(z, h))
  BY FS_Subset DEF CopiesInv, RecordsOf, Listed
<1> QED
  BY <1>1, FS_CardinalityType

LEMMA InitCopiesInv == OnePerName(InitRecords) /\ Init => CopiesInv
<1> SUFFICES ASSUME OnePerName(InitRecords), Init PROVE CopiesInv
  OBVIOUS
<1>1. IsFiniteSet(records)
  BY ConstantsOK DEF Init, ConstantsOK
<1>2. ASSUME NEW z \in Zone, NEW h \in Host
      PROVE  Cardinality(RecordsOf(z, h)) + Cardinality(Planned(z, h)) <= Room(h)
  <2>1. Planned(z, h) = {}
    BY DEF Init, Planned
  <2>2. RecordsOf(z, h) = {} \/ \E r : RecordsOf(z, h) = {r}
    BY DEF Init, OnePerName, RecordsOf, Listed
  <2>3. Cardinality(RecordsOf(z, h)) \in {0, 1} /\ Cardinality(Planned(z, h)) = 0
    BY <2>1, <2>2, FS_EmptySet, FS_Singleton
  <2> QED
    BY <2>3, ClaimantsBound
<1> QED
  BY <1>1, <1>2 DEF CopiesInv

\* Neither more records nor more plans: nothing to show.
LEMMA FewerCopies ==
    ASSUME PlanInv, PlanInv', CopiesInv, NEW z \in Zone, NEW h \in Host,
           IsFiniteSet(RecordsOf(z, h)'),
           Cardinality(RecordsOf(z, h)') <= Cardinality(RecordsOf(z, h)),
           Planned(z, h)' \subseteq Planned(z, h)
    PROVE  Cardinality(RecordsOf(z, h)') + Cardinality(Planned(z, h)') <= Room(h)
<1>1. /\ IsFiniteSet(Planned(z, h)')
      /\ Cardinality(Planned(z, h)') <= Cardinality(Planned(z, h))
  BY PlannedClaim, FS_Subset
<1>2. /\ Cardinality(RecordsOf(z, h)') \in Nat
      /\ Cardinality(Planned(z, h)') \in Nat
  BY <1>1, FS_CardinalityType
<1>3. Cardinality(RecordsOf(z, h)) + Cardinality(Planned(z, h)) <= Room(h)
  BY DEF CopiesInv
<1> QED
  BY <1>1, <1>2, <1>3, PlannedClaim, CopiesFinite, ClaimantsBound

\* The steps that neither add a record nor plan a call.
LEMMA OtherCopiesInv ==
    ASSUME PlanInv, PlanInv', CopiesInv, records' \subseteq records,
           \A m \in Node : upserts'[m] \subseteq upserts[m]
    PROVE  CopiesInv'
<1>1. IsFiniteSet(records')
  BY FS_Subset DEF CopiesInv
<1>2. ASSUME NEW z \in Zone, NEW h \in Host
      PROVE  Cardinality(RecordsOf(z, h)') + Cardinality(Planned(z, h)') <= Room(h)
  <2>1. RecordsOf(z, h)' \subseteq RecordsOf(z, h)
    BY DEF RecordsOf, Listed
  <2>2. /\ IsFiniteSet(RecordsOf(z, h)')
        /\ Cardinality(RecordsOf(z, h)') <= Cardinality(RecordsOf(z, h))
    BY <2>1, CopiesFinite, FS_Subset
  <2>3. Planned(z, h)' \subseteq Planned(z, h)
    BY DEF Planned
  <2> QED
    BY <2>2, <2>3, FewerCopies
<1> QED
  BY <1>1, <1>2 DEF CopiesInv, Room, Claimants, HostsOf

\* A listing makes n plan a POST only of a name that has no record there.
LEMMA SyncZoneCopiesInv ==
    ASSUME TypeOK, PlanInv, PlanInv', CopiesInv, NEW n \in Node, NEW y \in Zone,
           SyncZone(n, y)
    PROVE  CopiesInv'
<1>1. UNCHANGED records
  BY DEF SyncZone
<1>2. ASSUME NEW z \in Zone, NEW h \in Host
      PROVE  Cardinality(RecordsOf(z, h)') + Cardinality(Planned(z, h)') <= Room(h)
  <2>1. RecordsOf(z, h)' = RecordsOf(z, h)
    BY <1>1 DEF RecordsOf, Listed
  <2>2. CASE Planned(z, h)' \subseteq Planned(z, h)
    BY <2>1, <2>2, CopiesFinite, FewerCopies
  <2>3. ASSUME NEW m \in Node, m \in Planned(z, h)', m \notin Planned(z, h)
        PROVE  RecordsOf(z, h) = {}
    <3>1. PICK call \in upserts'[m] :
            call.op = "POST" /\ call.zone = z /\ call.host = h
      BY <2>3 DEF Planned
    <3>2. call \notin upserts[m]
      BY <2>3, <3>1 DEF Planned
    <3>3. PICK first \in FirstRecords(y, bucket[n].active[y]) :
            call \in UpsertsFor(n, y, first)
      BY <3>2 DEF SyncZone, TypeOK
    <3>4. \A r \in records : ~(r.zone = z /\ r.name = h)
      BY <3>1, <3>3, UpsertsForMatch DEF PlanInv
    <3> QED
      BY <3>4 DEF RecordsOf, Listed
  <2>4. CASE RecordsOf(z, h) = {}
    <3>1. Cardinality(RecordsOf(z, h)') = 0
      BY <2>1, <2>4, FS_EmptySet
    <3>2. Planned(z, h)' \subseteq Claimants(h)
      BY DEF PlanInv, PlansOwnHosts, Planned, Claimants, HostsOf
    <3>3. /\ IsFiniteSet(Planned(z, h)')
          /\ Cardinality(Planned(z, h)') <= Cardinality(Claimants(h))
      BY <3>2, ClaimantsBound, FS_Subset
    <3>4. Cardinality(Planned(z, h)') \in Nat
      BY <3>3, FS_CardinalityType
    <3> QED
      BY <3>1, <3>3, <3>4, ClaimantsBound
  <2> QED
    BY <2>2, <2>3, <2>4 DEF Planned
<1> QED
  BY <1>1, <1>2 DEF CopiesInv, Room, Claimants, HostsOf

\* A PUT makes no copy.
LEMMA PutCopiesInv ==
    ASSUME TypeOK, PlanInv, PlanInv', CopiesInv, NEW n \in Node, NEW c \in upserts[n],
           c.op = "PUT", ApplyPut(n, c),
           \A m \in Node : upserts'[m] \subseteq upserts[m]
    PROVE  CopiesInv'
<1> DEFINE Put(S) == {Updated(n, c, r) : r \in S}
           f(S) == [r \in S |-> Updated(n, c, r)]
<1>1. ASSUME NEW S, IsFiniteSet(S)
      PROVE  IsFiniteSet(Put(S)) /\ Cardinality(Put(S)) <= Cardinality(S)
  <2>1. f(S) \in Surjection(S, Put(S))
    BY DEF Surjection
  <2> HIDE DEF f, Put
  <2> QED
    BY <1>1, <2>1, FS_Surjection
<1>2. records' = Put(records) /\ IsFiniteSet(records')
  BY <1>1 DEF ApplyPut, CopiesInv
<1>3. ASSUME NEW z \in Zone, NEW h \in Host
      PROVE  Cardinality(RecordsOf(z, h)') + Cardinality(Planned(z, h)') <= Room(h)
  <2>1. RecordsOf(z, h)' = Put(RecordsOf(z, h))
    <3>1. \A r \in records : /\ Updated(n, c, r).zone = r.zone
                             /\ Updated(n, c, r).name = r.name
      BY PutUpdates
    <3> QED
      BY <1>2, <3>1 DEF RecordsOf, Listed
  <2> HIDE DEF Put
  <2>2. /\ IsFiniteSet(RecordsOf(z, h)')
        /\ Cardinality(RecordsOf(z, h)') <= Cardinality(RecordsOf(z, h))
    BY <1>1, <2>1, CopiesFinite
  <2>3. Planned(z, h)' \subseteq Planned(z, h)
    BY DEF Planned
  <2> QED
    BY <2>2, <2>3, FewerCopies
<1> QED
  BY <1>2, <1>3 DEF CopiesInv, Room, Claimants, HostsOf

\* A POST makes a copy, and the node that made it is done with that name.
LEMMA PostCopiesInv ==
    ASSUME TypeOK, PlanInv, PlanInv', CopiesInv, NEW n \in Node, NEW c \in upserts[n],
           c.op = "POST", ApplyPost(n, c), upserts' = [upserts EXCEPT ![n] = @ \ {c}]
    PROVE  CopiesInv'
<1> DEFINE new == [id |-> nextId, zone |-> c.zone, name |-> c.host, type |-> "A",
                   content |-> Target[n]]
<1>1. records' = records \cup {new} /\ c \in Call
  BY DEF ApplyPost, TypeOK
<1>2. IsFiniteSet(records')
  BY <1>1, FS_AddElement DEF CopiesInv
<1>3. ASSUME NEW z \in Zone, NEW h \in Host
      PROVE  Cardinality(RecordsOf(z, h)') + Cardinality(Planned(z, h)') <= Room(h)
  <2>1. Planned(z, h)' \subseteq Planned(z, h)
    BY DEF Planned, TypeOK
  <2>2. CASE c.zone = z /\ c.host = h
    <3>1. RecordsOf(z, h)' = RecordsOf(z, h) \cup {new}
      BY <1>1, <2>2 DEF RecordsOf, Listed
    <3>2. n \in Planned(z, h)
      BY <2>2 DEF Planned
    <3>3. n \notin Planned(z, h)'
      <4>1. \A call \in upserts[n] :
              call.op = "POST" /\ call.zone = z /\ call.host = h => call = c
        <5>1. \A call \in upserts[n] : call \in Call
                /\ (call.op = "POST" => call.id = NoId)
          BY DEF TypeOK, PlanInv, PlansOwnHosts
        <5> QED
          BY <1>1, <2>2, <5>1 DEF Call
      <4>2. upserts'[n] = upserts[n] \ {c}
        BY DEF TypeOK
      <4> QED
        BY <4>1, <4>2 DEF Planned
    <3>4. Planned(z, h)' \subseteq Planned(z, h) \ {n}
      BY <2>1, <3>3
    <3>5. /\ IsFiniteSet(Planned(z, h) \ {n})
          /\ Cardinality(Planned(z, h) \ {n}) = Cardinality(Planned(z, h)) - 1
      BY <3>2, PlannedClaim, FS_RemoveElement
    <3>6. /\ IsFiniteSet(Planned(z, h)')
          /\ Cardinality(Planned(z, h)') <= Cardinality(Planned(z, h)) - 1
      BY <3>4, <3>5, FS_Subset
    <3>7. /\ IsFiniteSet(RecordsOf(z, h)')
          /\ Cardinality(RecordsOf(z, h)') <= Cardinality(RecordsOf(z, h)) + 1
      <4> HIDE DEF new
      <4>1. IsFiniteSet(RecordsOf(z, h)) /\ Cardinality(RecordsOf(z, h)) \in Nat
        BY CopiesFinite
      <4>2. /\ IsFiniteSet(RecordsOf(z, h) \cup {new})
            /\ Cardinality(RecordsOf(z, h) \cup {new}) =
                 IF new \in RecordsOf(z, h) THEN Cardinality(RecordsOf(z, h))
                                            ELSE Cardinality(RecordsOf(z, h)) + 1
        BY <4>1, FS_AddElement
      <4> QED
        BY <3>1, <4>1, <4>2
    <3>8. Cardinality(RecordsOf(z, h)') \in Nat /\ Cardinality(Planned(z, h)') \in Nat
      BY <3>6, <3>7, FS_CardinalityType
    <3>9. Cardinality(RecordsOf(z, h)) + Cardinality(Planned(z, h)) <= Room(h)
      BY DEF CopiesInv
    <3> QED
      BY <3>6, <3>7, <3>8, <3>9, CopiesFinite, PlannedClaim, ClaimantsBound
  <2>3. CASE ~(c.zone = z /\ c.host = h)
    <3>1. RecordsOf(z, h)' = RecordsOf(z, h)
      BY <1>1, <2>3 DEF RecordsOf, Listed
    <3> QED
      BY <2>1, <3>1, CopiesFinite, FewerCopies
  <2> QED
    BY <2>2, <2>3
<1> QED
  BY <1>2, <1>3 DEF CopiesInv, Room, Claimants, HostsOf

LEMMA StepCopiesInv == TypeOK /\ PlanInv /\ CopiesInv /\ [Next]_vars => CopiesInv'
<1> SUFFICES ASSUME TypeOK, PlanInv, CopiesInv, [Next]_vars PROVE CopiesInv'
  OBVIOUS
<1>1. PlanInv'
  BY StepPlanInv
<1>2. ASSUME NEW n \in Node, NEW c \in upserts[n], Upsert(n, c) PROVE CopiesInv'
  <2>1. /\ upserts' = [upserts EXCEPT ![n] = @ \ {c}]
        /\ \A m \in Node : upserts'[m] \subseteq upserts[m]
    BY <1>2 DEF Upsert, TypeOK
  <2>2. CASE UNCHANGED records
    BY <1>1, <2>1, <2>2, OtherCopiesInv
  <2>3. CASE c.op = "PUT" /\ ApplyPut(n, c)
    BY <1>1, <2>1, <2>3, PutCopiesInv
  <2>4. CASE c.op = "POST" /\ ApplyPost(n, c)
    BY <1>1, <2>1, <2>4, PostCopiesInv
  <2> QED
    BY <1>2, <2>2, <2>3, <2>4 DEF Upsert
<1>3. ASSUME NEW n \in Node,
             \/ Process(n) \/ FinishSync(n) \/ Restart(n)
             \/ CreateContainer(n) \/ RemoveContainer(n)
             \/ \E id \in deletes[n] : Delete(n, id)
      PROVE  CopiesInv'
  <2>1. records' \subseteq records /\ \A m \in Node : upserts'[m] \subseteq upserts[m]
    BY <1>3 DEF Process, FinishSync, Restart, CreateContainer, RemoveContainer, Change,
       Delete, TypeOK
  <2> QED
    BY <1>1, <2>1, OtherCopiesInv
<1>4. CASE UNCHANGED vars
  BY <1>1, <1>4, OtherCopiesInv DEF vars
<1> QED
  BY <1>1, <1>2, <1>3, <1>4, SyncZoneCopiesInv DEF Next, Companion, Environment

\* The GET that says a name is free is old when the POST is made, other nodes may have
\* POSTed the name in between, and crashes and failures make a node plan again: yet in
\* any deployment a zone never holds more records of a name than there are nodes that
\* may route it, one if there is none.  For a name of one node: no duplicates.
THEOREM CopiesBoundedHolds == OnePerName(InitRecords) /\ Spec => []CopiesBounded
<1> SUFFICES ASSUME OnePerName(InitRecords) PROVE Spec => []CopiesBounded
  OBVIOUS
<1>1. Init => CopiesInv
  BY InitCopiesInv
<1>2. TypeOK /\ PlanInv /\ CopiesInv /\ [Next]_vars => CopiesInv'
  BY StepCopiesInv
<1>3. ASSUME PlanInv, CopiesInv PROVE CopiesBounded
  <2> SUFFICES ASSUME NEW z \in Zone, NEW h \in Host
               PROVE  \/ Cardinality(RecordsOf(z, h)) <= 1
                      \/ Cardinality(RecordsOf(z, h)) <= Cardinality(Claimants(h))
    BY DEF CopiesBounded
  <2>1. Cardinality(RecordsOf(z, h)) + Cardinality(Planned(z, h)) <= Room(h)
    BY <1>3 DEF CopiesInv
  <2>2. Cardinality(RecordsOf(z, h)) <= Room(h)
    BY <1>3, <2>1, PlannedClaim, CopiesFinite, ClaimantsBound
  <2> QED
    BY <2>2 DEF Room
<1>4. PlanInv /\ CopiesInv => CopiesBounded
  BY <1>3
<1> QED
  BY <1>1, <1>2, <1>4, TypeCorrect, PlanInvHolds, PTL DEF Spec

-----------------------------------------------------------------------------
\* The hypotheses on the deployment and the account it starts from.
Deployment == OwnTargets /\ OnePerName(InitRecords)

LEMMA InitSafetyInv == Deployment /\ Init => SafetyInv
<1> SUFFICES ASSUME Deployment, Init PROVE SafetyInv
  OBVIOUS
<1>1. PostsFillGaps /\ OwnDeletesOnly
  BY DEF Init, PostsFillGaps, OwnDeletesOnly
<1>2. TargetsApart /\ NoDuplicateRecords
  BY DEF Init, TargetsApart, NoDuplicateRecords, OnePerName, Unshared, Deployment,
     OwnTargets
<1> QED
  BY <1>1, <1>2, InitPlanInv DEF SafetyInv, PlanInv

\* What survives when no record is changed and plans only shrink.
LEMMA FewerPlansSafetyInv ==
    ASSUME TypeOK, SafetyInv, PlanInv', records' \subseteq records,
           \A m \in Node : upserts'[m] \subseteq upserts[m],
           \A m \in Node : deletes'[m] \subseteq deletes[m]
    PROVE  SafetyInv'
<1>1. PostsFillGaps' /\ TargetsApart'
  BY DEF SafetyInv, PostsFillGaps, TargetsApart, HostsOf
<1>2. OwnDeletesOnly' /\ NoDuplicateRecords'
  BY DEF SafetyInv, OwnDeletesOnly, NoDuplicateRecords, Unshared, OnePerName
<1> QED
  BY <1>1, <1>2 DEF SafetyInv, PlanInv

LEMMA SyncZoneSafetyInv ==
    ASSUME TypeOK, SafetyInv, PlanInv', NEW n \in Node, NEW z \in Zone, SyncZone(n, z)
    PROVE  SafetyInv'
<1>1. UNCHANGED records
  BY DEF SyncZone
<1>2. PostsFillGaps'
  <2> SUFFICES ASSUME NEW m \in Node, NEW call \in upserts'[m], NEW r \in records,
                      call.op = "POST", call.host \notin Shared
               PROVE  ~(r.zone = call.zone /\ r.name = call.host)
    BY <1>1 DEF PostsFillGaps
  <2>1. CASE call \in upserts[m]
    BY <2>1 DEF SafetyInv, PostsFillGaps
  <2>2. ASSUME NEW first \in FirstRecords(z, bucket[n].active[z]),
               call \in UpsertsFor(n, z, first)
        PROVE  ~(r.zone = call.zone /\ r.name = call.host)
    BY <2>2, UpsertsForMatch DEF SafetyInv
  <2> QED
    BY <2>1, <2>2 DEF SyncZone, TypeOK
<1>3. OwnDeletesOnly'
  <2>1. \A m \in Node : \A id \in deletes'[m] :
          id \in deletes[m] \/ (m = n /\ id \in DeletesFor(n, z))
    BY DEF SyncZone, TypeOK
  <2>2. \A id \in DeletesFor(n, z) :
          \E r \in records : r.id = id /\ r.content = Target[n] /\ r.type = "A"
    BY DEF DeletesFor, Orphans, Listed
  <2> QED
    BY <1>1, <2>1, <2>2 DEF SafetyInv, IdsFresh, OwnDeletesOnly
<1>4. TargetsApart' /\ NoDuplicateRecords'
  BY <1>1 DEF SafetyInv, TargetsApart, NoDuplicateRecords, Unshared, OnePerName, HostsOf
<1> QED
  BY <1>2, <1>3, <1>4 DEF SafetyInv, PlanInv

\* Of the unshared names a PUT cannot reach a record another node is about to
\* delete.
LEMMA PutSafetyInv ==
    ASSUME Deployment, TypeOK, SafetyInv, PlanInv', NEW n \in Node,
           NEW c \in upserts[n], c.op = "PUT", ApplyPut(n, c), UNCHANGED deletes,
           \A m \in Node : upserts'[m] \subseteq upserts[m]
    PROVE  SafetyInv'
<1>1. \A r \in records :
        /\ Updated(n, c, r).id = r.id
        /\ Updated(n, c, r).zone = r.zone
        /\ Updated(n, c, r).name = r.name
        /\ \/ Updated(n, c, r) = r
           \/ /\ r.name \in HostsOf(n)
              /\ Updated(n, c, r).content = Target[n]
              /\ Updated(n, c, r).type = "A"
  BY PutUpdates DEF SafetyInv, PlanInv
<1>2. \A s \in records' : \E r \in records : s = Updated(n, c, r)
  BY DEF ApplyPut
<1>3. PostsFillGaps'
  BY <1>1, <1>2 DEF SafetyInv, PostsFillGaps
<1>4. NoDuplicateRecords'
  BY <1>1, <1>2 DEF SafetyInv, NoDuplicateRecords, Unshared, OnePerName
<1>5. TargetsApart'
  <2> SUFFICES ASSUME NEW l \in Node, NEW m \in Node, l # m,
                      NEW s \in records', s.content = Target[m]
               PROVE  s.name \notin HostsOf(l) \ Shared
    BY DEF TargetsApart
  <2>1. PICK r \in records : s = Updated(n, c, r)
    BY <1>2
  <2>2. CASE s = r
    BY <2>2 DEF SafetyInv, TargetsApart
  <2>3. CASE r.name \in HostsOf(n) /\ s.content = Target[n]
    <3>1. m = n
      BY <2>3 DEF Deployment, OwnTargets
    <3> QED
      BY <1>1, <2>1, <2>3, <3>1, OneClaimant
  <2> QED
    BY <1>1, <2>1, <2>2, <2>3
<1>6. OwnDeletesOnly'
  <2> SUFFICES ASSUME NEW m \in Node, NEW id \in deletes[m],
                      NEW s \in records', s.id = id, s.name \notin Shared
               PROVE  s.content = Target[m] /\ s.type = "A"
    BY DEF OwnDeletesOnly
  <2>1. PICK r \in records : s = Updated(n, c, r)
    BY <1>2
  <2>2. r.content = Target[m] /\ r.type = "A"
    BY <1>1, <2>1 DEF SafetyInv, OwnDeletesOnly
  <2>3. s # r => m = n
    BY <1>1, <2>1, <2>2 DEF SafetyInv, TargetsApart
  <2> QED
    BY <1>1, <2>1, <2>2, <2>3
<1> QED
  BY <1>3, <1>4, <1>5, <1>6 DEF SafetyInv, PlanInv

\* A POST of an unshared name fills a gap that only the node making it could have
\* filled.
LEMMA PostSafetyInv ==
    ASSUME Deployment, TypeOK, SafetyInv, PlanInv', NEW n \in Node,
           NEW c \in upserts[n], c.op = "POST", ApplyPost(n, c), UNCHANGED deletes,
           upserts' = [upserts EXCEPT ![n] = @ \ {c}]
    PROVE  SafetyInv'
<1> DEFINE new == [id |-> nextId, zone |-> c.zone, name |-> c.host, type |-> "A",
                   content |-> Target[n]]
<1>1. records' = records \cup {new} /\ nextId \in Nat
  BY DEF ApplyPost, TypeOK
<1>2. c.host \in HostsOf(n) /\ c.id = NoId /\ c \in Call
  BY DEF SafetyInv, PlansOwnHosts, TypeOK
<1>3. \A m \in Node : upserts'[m] \subseteq upserts[m] /\ upserts[m] \subseteq Call
  BY DEF TypeOK
<1>4. PostsFillGaps'
  <2> SUFFICES ASSUME NEW m \in Node, NEW call \in upserts'[m], call.op = "POST",
                      call.host \notin Shared,
                      NEW r \in records', r.zone = call.zone, r.name = call.host
               PROVE  FALSE
    BY DEF PostsFillGaps
  <2>1. r = new
    BY <1>1, <1>3 DEF SafetyInv, PostsFillGaps
  <2>2. call.zone = c.zone /\ call.host = c.host /\ call.id = NoId /\ call \in Call
    BY <1>3, <2>1 DEF SafetyInv, PlansOwnHosts
  <2>3. call.host \in HostsOf(m)
    BY <1>3 DEF SafetyInv, PlansOwnHosts
  <2>4. m = n
    BY <1>2, <2>2, <2>3, OneClaimant
  <2>5. call = c
    BY <1>2, <2>2 DEF Call
  <2> QED
    BY <2>4, <2>5 DEF TypeOK
<1>5. NoDuplicateRecords'
  <2>1. new.name \notin Shared =>
           \A r \in records : ~(r.zone = new.zone /\ r.name = new.name)
    BY DEF SafetyInv, PostsFillGaps
  <2> QED
    BY <1>1, <2>1 DEF SafetyInv, NoDuplicateRecords, Unshared, OnePerName
<1>6. TargetsApart'
  <2>1. \A l, m \in Node : l # m /\ new.content = Target[m]
                             => new.name \notin HostsOf(l) \ Shared
    BY <1>2, OneClaimant DEF Deployment, OwnTargets
  <2> QED
    BY <1>1, <2>1 DEF SafetyInv, TargetsApart
<1>7. OwnDeletesOnly'
  <2>1. \A m \in Node : \A id \in deletes[m] : id # nextId
    BY <1>1 DEF SafetyInv, IdsFresh, TypeOK
  <2> QED
    BY <1>1, <2>1 DEF SafetyInv, OwnDeletesOnly
<1> QED
  BY <1>4, <1>5, <1>6, <1>7 DEF SafetyInv, PlanInv

LEMMA StepSafetyInv ==
    Deployment /\ TypeOK /\ SafetyInv /\ [Next]_vars => SafetyInv'
<1> SUFFICES ASSUME Deployment, TypeOK, SafetyInv, [Next]_vars PROVE SafetyInv'
  OBVIOUS
<1>1. PlanInv'
  BY StepPlanInv DEF SafetyInv, PlanInv
<1>2. ASSUME records' = records, UNCHANGED <<upserts, deletes>> PROVE SafetyInv'
  BY <1>1, <1>2, FewerPlansSafetyInv
<1>3. ASSUME NEW n \in Node, Process(n) \/ FinishSync(n) \/ CreateContainer(n)
                               \/ RemoveContainer(n)
      PROVE  SafetyInv'
  BY <1>2, <1>3 DEF Process, FinishSync, CreateContainer, RemoveContainer, Change
<1>4. ASSUME NEW n \in Node, NEW c \in upserts[n], Upsert(n, c) PROVE SafetyInv'
  <2>1. /\ UNCHANGED deletes
        /\ upserts' = [upserts EXCEPT ![n] = @ \ {c}]
        /\ \A m \in Node : upserts'[m] \subseteq upserts[m]
    BY <1>4 DEF Upsert, TypeOK
  <2>2. CASE UNCHANGED records
    BY <1>1, <2>1, <2>2, FewerPlansSafetyInv
  <2>3. CASE c.op = "PUT" /\ ApplyPut(n, c)
    BY <1>1, <2>1, <2>3, PutSafetyInv
  <2>4. CASE c.op = "POST" /\ ApplyPost(n, c)
    BY <1>1, <2>1, <2>4, PostSafetyInv
  <2> QED
    BY <1>4, <2>2, <2>3, <2>4 DEF Upsert
<1>5. ASSUME NEW n \in Node, NEW id \in deletes[n], Delete(n, id) PROVE SafetyInv'
  <2>1. /\ UNCHANGED upserts /\ records' \subseteq records
        /\ \A m \in Node : deletes'[m] \subseteq deletes[m]
    BY <1>5 DEF Delete, TypeOK
  <2> QED
    BY <1>1, <2>1, FewerPlansSafetyInv
<1>6. ASSUME NEW n \in Node, Restart(n) PROVE SafetyInv'
  <2>1. /\ UNCHANGED records
        /\ \A m \in Node : upserts'[m] \subseteq upserts[m]
        /\ \A m \in Node : deletes'[m] \subseteq deletes[m]
    BY <1>6 DEF Restart, TypeOK
  <2> QED
    BY <1>1, <2>1, FewerPlansSafetyInv
<1>7. CASE UNCHANGED vars
  BY <1>2, <1>7 DEF vars
<1> QED
  BY <1>1, <1>3, <1>4, <1>5, <1>6, <1>7, SyncZoneSafetyInv
  DEF Next, Companion, Environment

\* The inductive invariant behind the safety of every PUT, POST and DELETE: what a
\* Sync has planned on an old list is still in keeping with the account.
THEOREM SafetyInvHolds == Deployment /\ Spec => []SafetyInv
<1> SUFFICES ASSUME Deployment PROVE Spec => []SafetyInv
  OBVIOUS
<1>1. Init => SafetyInv
  BY InitSafetyInv
<1>2. TypeOK /\ SafetyInv /\ [Next]_vars => SafetyInv'
  BY StepSafetyInv
<1> QED
  BY <1>1, <1>2, TypeCorrect, PTL DEF Spec

\* The Target Lock holds at the moment of the DELETE: a record about to be deleted
\* whose name no other node routes is an A record pointing at the node deleting it,
\* however old its list is.
THEOREM TargetLockHolds == Deployment /\ Spec => []OwnDeletesOnly
<1>1. SafetyInv => OwnDeletesOnly
  BY DEF SafetyInv
<1> QED
  BY <1>1, SafetyInvHolds, PTL

-----------------------------------------------------------------------------
\* With flat zones every host that has a zone is in the bucket of that zone.
LEMMA BucketingsComplete ==
    ASSUME FlatZones, NEW hosts \in SUBSET Host, NEW b \in Bucketings(hosts),
           NEW h \in hosts, NEW z \in Zone, z \in ZonesOf[h]
    PROVE  h \in b[z]
<1> DEFINE matched == {x \in hosts : ZonesOf[x] # {}}
<1>1. PICK f \in [matched -> Zone] :
        /\ \A x \in matched : f[x] \in ZonesOf[x]
        /\ b = [y \in Zone |-> {x \in matched : f[x] = y}]
  BY DEF Bucketings
<1>2. h \in matched
  OBVIOUS
<1>3. f[h] = z
  BY <1>1, <1>2 DEF FlatZones
<1> QED
  BY <1>1, <1>2, <1>3

LEMMA InitFlatInv == FlatZones /\ Init => FlatInv
<1> SUFFICES ASSUME FlatZones, Init PROVE FlatInv
  OBVIOUS
<1>1. ZonesRespected
  BY DEF Init, ZonesRespected, FlatZones
<1>2. BucketsComplete /\ BucketsSound
  BY DEF Init, BucketsComplete, BucketsSound, NoBucket
<1>3. WantedNeverDeleted
  BY DEF Init, WantedNeverDeleted
<1> QED
  BY <1>1, <1>2, <1>3 DEF FlatInv

LEMMA ProcessFlatInv ==
    ASSUME FlatZones, TypeOK, SafetyInv, FlatInv, NEW n \in Node, Process(n)
    PROVE  FlatInv'
<1> DEFINE hosts == MeshHosts(containers[n])
<1>1. PICK a \in Bucketings(hosts.active), i \in Bucketings(hosts.ignored) :
        bucket' = [bucket EXCEPT ![n] = [active |-> a, ignored |-> i]]
  BY DEF Process
<1>2. hosts.active \in SUBSET Host /\ hosts.ignored \in SUBSET Host
  BY MeshHostsType DEF HostSets, TypeOK
<1>3. /\ UNCHANGED <<records, upserts, deletes>>
      /\ want' = [want EXCEPT ![n] = hosts]
      /\ pc' = [pc EXCEPT ![n] = "sync"]
  BY DEF Process
<1>4. ZonesRespected'
  BY <1>3 DEF FlatInv, ZonesRespected
<1>5. BucketsSound'
  <2>1. \A z \in Zone : \A h \in a[z] : z \in ZonesOf[h]
    BY <1>2, BucketingsType
  <2> QED
    BY <1>1, <2>1 DEF FlatInv, BucketsSound, TypeOK
<1>6. BucketsComplete'
  <2> SUFFICES ASSUME NEW m \in Node, pc'[m] = "sync", NEW z \in Zone, NEW h \in Host,
                      z \in ZonesOf[h]
               PROVE  /\ h \in want'[m].active => h \in bucket'[m].active[z]
                      /\ h \in want'[m].ignored => h \in bucket'[m].ignored[z]
    BY DEF BucketsComplete
  <2>1. CASE m = n
    <3>1. h \in hosts.active => h \in a[z]
      BY <1>2, BucketingsComplete
    <3>2. h \in hosts.ignored => h \in i[z]
      BY <1>2, BucketingsComplete
    <3>3. want'[m] = hosts /\ bucket'[m] = [active |-> a, ignored |-> i]
      BY <1>1, <1>3, <2>1 DEF TypeOK
    <3> QED
      BY <3>1, <3>2, <3>3
  <2>2. CASE m # n
    BY <1>1, <1>3, <2>2 DEF FlatInv, BucketsComplete, TypeOK
  <2> QED
    BY <2>1, <2>2
<1>7. WantedNeverDeleted'
  <2> SUFFICES ASSUME NEW l \in Node, NEW m \in Node, NEW id \in deletes[m],
                      NEW r \in records, r.id = id, r.name \notin Shared
               PROVE  r.name \notin want'[l].active \cup want'[l].ignored
    BY <1>3 DEF WantedNeverDeleted
  <2>1. CASE l # n
    BY <1>3, <2>1 DEF FlatInv, WantedNeverDeleted, TypeOK
  <2>2. CASE l = n /\ m # n
    <3>1. r.name \notin HostsOf(n)
      BY <2>2 DEF SafetyInv, OwnDeletesOnly, TargetsApart
    <3>2. hosts.active \subseteq HostsOf(n) /\ hosts.ignored \subseteq HostsOf(n)
      BY MeshHostsBound DEF TypeOK
    <3>3. want'[l] = hosts
      BY <1>3, <2>2 DEF TypeOK
    <3> QED
      BY <3>1, <3>2, <3>3
  <2>3. CASE m = n
    BY <2>3 DEF Process, SafetyInv, IdlePlansNothing, ZoneDone
  <2> QED
    BY <2>1, <2>2, <2>3
<1> QED
  BY <1>4, <1>5, <1>6, <1>7 DEF FlatInv

LEMMA SyncZoneFlatInv ==
    ASSUME TypeOK, SafetyInv, FlatInv, NEW n \in Node, NEW z \in Zone, SyncZone(n, z)
    PROVE  FlatInv'
<1>1. UNCHANGED <<records, want, bucket, pc>> /\ pc[n] = "sync"
  BY DEF SyncZone
<1>2. BucketsComplete' /\ BucketsSound'
  BY <1>1 DEF FlatInv, BucketsComplete, BucketsSound
<1>3. ZonesRespected'
  <2> SUFFICES ASSUME NEW m \in Node, NEW call \in upserts'[m]
               PROVE  call.zone \in ZonesOf[call.host]
    BY <1>1 DEF FlatInv, ZonesRespected
  <2>1. CASE call \in upserts[m]
    BY <2>1 DEF FlatInv, ZonesRespected
  <2>2. ASSUME NEW first \in FirstRecords(z, bucket[n].active[z]),
               call \in UpsertsFor(n, z, first)
        PROVE  call.zone \in ZonesOf[call.host]
    BY <2>2, UpsertsForMatch DEF FlatInv, BucketsSound, SafetyInv
  <2> QED
    BY <2>1, <2>2 DEF SyncZone, TypeOK
<1>4. WantedNeverDeleted'
  <2> SUFFICES ASSUME NEW l \in Node, NEW m \in Node, NEW id \in deletes'[m],
                      NEW r \in records, r.id = id, r.name \notin Shared
               PROVE  r.name \notin want[l].active \cup want[l].ignored
    BY <1>1 DEF WantedNeverDeleted
  <2>1. CASE id \in deletes[m]
    BY <2>1 DEF FlatInv, WantedNeverDeleted
  <2>2. CASE m = n /\ id \in DeletesFor(n, z)
    <3>1. r \in Orphans(n, z)
      BY <2>2 DEF DeletesFor, Orphans, Listed, SafetyInv, IdsFresh
    <3>2. r.zone = z /\ r.name \in Host /\ z \in ZonesOf[r.name]
      BY <3>1 DEF Orphans, Listed, TypeOK, Record, FlatInv, ZonesRespected
    <3>3. CASE l = n
      BY <1>1, <3>1, <3>2, <3>3 DEF Orphans, FlatInv, BucketsComplete
    <3>4. CASE l # n
      BY <3>1, <3>4 DEF Orphans, SafetyInv, TargetsApart, PlansOwnHosts
    <3> QED
      BY <3>3, <3>4
  <2> QED
    BY <2>1, <2>2 DEF SyncZone, TypeOK
<1> QED
  BY <1>2, <1>3, <1>4 DEF FlatInv

LEMMA UpsertFlatInv ==
    ASSUME TypeOK, SafetyInv, FlatInv, NEW n \in Node, NEW c \in upserts[n],
           Upsert(n, c)
    PROVE  FlatInv'
<1>1. /\ UNCHANGED <<want, bucket, deletes, pc>>
      /\ \A m \in Node : upserts'[m] \subseteq upserts[m]
  BY DEF Upsert, TypeOK
<1>2. BucketsComplete' /\ BucketsSound'
  BY <1>1 DEF FlatInv, BucketsComplete, BucketsSound
<1>3. ASSUME NEW s \in records'
      PROVE  \/ \E r \in records : s.id = r.id /\ s.zone = r.zone /\ s.name = r.name
             \/ s.id = nextId /\ s.zone = c.zone /\ s.name = c.host
  <2>1. CASE UNCHANGED records
    BY <2>1, <1>3
  <2>2. CASE c.op = "PUT" /\ ApplyPut(n, c)
    <3>1. PICK r \in records : s = Updated(n, c, r)
      BY <1>3, <2>2 DEF ApplyPut
    <3>2. r.id = c.id => r.name = c.host
      BY <2>2 DEF SafetyInv, PutsKeepNames
    <3>3. r \in Record
      BY DEF TypeOK
    <3> QED
      BY <3>1, <3>2, <3>3 DEF Updated, Record
  <2>3. CASE c.op = "POST" /\ ApplyPost(n, c)
    BY <1>3, <2>3 DEF ApplyPost
  <2> QED
    BY <2>1, <2>2, <2>3 DEF Upsert
<1>4. ZonesRespected'
  BY <1>1, <1>3 DEF FlatInv, ZonesRespected
<1>5. WantedNeverDeleted'
  <2>1. \A m \in Node : \A id \in deletes[m] : id # nextId
    BY DEF TypeOK, SafetyInv, IdsFresh
  <2> QED
    BY <1>1, <1>3, <2>1 DEF FlatInv, WantedNeverDeleted
<1> QED
  BY <1>2, <1>4, <1>5 DEF FlatInv

LEMMA StepFlatInv ==
    FlatZones /\ TypeOK /\ SafetyInv /\ FlatInv /\ [Next]_vars => FlatInv'
<1> SUFFICES ASSUME FlatZones, TypeOK, SafetyInv, FlatInv, [Next]_vars PROVE FlatInv'
  OBVIOUS
<1>1. ASSUME UNCHANGED <<want, bucket, upserts>>,
             records' \subseteq records,
             \A m \in Node : deletes'[m] \subseteq deletes[m],
             \A m \in Node : pc'[m] = "sync" => pc[m] = "sync"
      PROVE  FlatInv'
  <2>1. ZonesRespected' /\ BucketsSound'
    BY <1>1 DEF FlatInv, ZonesRespected, BucketsSound
  <2>2. BucketsComplete'
    BY <1>1 DEF FlatInv, BucketsComplete
  <2>3. WantedNeverDeleted'
    BY <1>1 DEF FlatInv, WantedNeverDeleted
  <2> QED
    BY <2>1, <2>2, <2>3 DEF FlatInv
<1>2. ASSUME NEW n \in Node, NEW id \in deletes[n], Delete(n, id) PROVE FlatInv'
  <2>1. /\ records' \subseteq records
        /\ \A m \in Node : deletes'[m] \subseteq deletes[m]
    BY <1>2 DEF Delete, TypeOK
  <2> QED
    BY <1>1, <1>2, <2>1 DEF Delete
<1>3. ASSUME NEW n \in Node, FinishSync(n) PROVE FlatInv'
  BY <1>1, <1>3 DEF FinishSync, TypeOK
<1>4. ASSUME NEW n \in Node, Restart(n) PROVE FlatInv'
  <2>1. /\ UNCHANGED records
        /\ want' = [want EXCEPT ![n] = NoHosts]
        /\ bucket' = [bucket EXCEPT ![n] = NoBucket]
        /\ pc' = [pc EXCEPT ![n] = "idle"]
        /\ \A m \in Node : upserts'[m] \subseteq upserts[m]
        /\ \A m \in Node : deletes'[m] \subseteq deletes[m]
    BY <1>4 DEF Restart, TypeOK
  <2>2. ZonesRespected' /\ BucketsSound'
    BY <2>1 DEF FlatInv, ZonesRespected, BucketsSound, NoBucket, TypeOK
  <2>3. BucketsComplete'
    BY <2>1 DEF FlatInv, BucketsComplete, TypeOK
  <2>4. WantedNeverDeleted'
    BY <2>1 DEF FlatInv, WantedNeverDeleted, NoHosts, TypeOK
  <2> QED
    BY <2>2, <2>3, <2>4 DEF FlatInv
<1>5. ASSUME NEW n \in Node, CreateContainer(n) \/ RemoveContainer(n) PROVE FlatInv'
  BY <1>1, <1>5 DEF CreateContainer, RemoveContainer, Change
<1>6. CASE UNCHANGED vars
  BY <1>1, <1>6 DEF vars
<1> QED
  BY <1>2, <1>3, <1>4, <1>5, <1>6, ProcessFlatInv, SyncZoneFlatInv, UpsertFlatInv
  DEF Next, Companion, Environment

\* With flat zones a record that a wanted host could have is in the zone, and the
\* host in the bucket, that cleanup compares.
THEOREM FlatInvHolds == Deployment /\ FlatZones /\ Spec => []FlatInv
<1> SUFFICES ASSUME Deployment, FlatZones PROVE Spec => []FlatInv
  OBVIOUS
<1>1. Init => FlatInv
  BY InitFlatInv
<1>2. TypeOK /\ SafetyInv /\ FlatInv /\ [Next]_vars => FlatInv'
  BY StepFlatInv
<1> QED
  BY <1>1, <1>2, TypeCorrect, SafetyInvHolds, PTL DEF Spec

\* If moreover no zone lies inside another, cleanup never reaches a name that
\* any node wants: what is about to be deleted, if no two nodes route its name, is
\* neither active nor ignored on the last word of any node, even of one that changed
\* its mind meanwhile.
THEOREM CleanupSparesWanted == Deployment /\ FlatZones /\ Spec => []WantedNeverDeleted
<1>1. FlatInv => WantedNeverDeleted
  BY DEF FlatInv
<1> QED
  BY <1>1, FlatInvHolds, PTL
=============================================================================
