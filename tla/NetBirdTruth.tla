---------------------------- MODULE NetBirdTruth ----------------------------
(***************************************************************************)
(* What a NetBird companion remembers is what the account holds, for the   *)
(* hosts only one node routes and until an API call fails: Process may     *)
(* skip a Sync whose hosts are those of the last one.                      *)
(***************************************************************************)
EXTENDS NetBirdRefinement

\* Each host wanted is in the bucket of one of its zones, if it has any, and no
\* bucket holds a host that is not wanted.
Bucketed ==
    \A n \in Node :
        /\ \A z \in Zone : \A h \in bucket[n].active[z] : z \in ZonesOf[h]
        /\ \A z \in Zone : bucket[n].ignored[z] \subseteq want[n].ignored
        /\ \A h \in want[n].active : ZonesOf[h] # {} =>
              \E z \in Zone : h \in bucket[n].active[z]

\* Outside Sync, what is remembered is what the last Sync wanted.
LastWanted == \A n \in Node : pc[n] = "idle" /\ last[n] # Nil => last[n] = want[n]

\* A deletion is never of a name that the same Sync writes to the same zone.
DeletesSpareOwn ==
    \A n \in Node : \A id \in deletes[n] : \A r \in records :
        r.id = id => r.name \notin bucket[n].active[r.zone]

MemoryInv == Bucketed /\ LastWanted /\ DeletesSpareOwn

Written(n, h, z) == \E r \in records : r.zone = z /\ r.name = h /\ r.content = Target[n]
ToWrite(n, h, z) ==
    \E c \in upserts[n] : /\ c.zone = z /\ c.host = h
                          /\ \/ c.op = "POST"
                             \/ c.op = "PUT" /\ \E r \in records : r.id = c.id /\ r.zone = z

\* In the zones that a Sync has reached, each host of their buckets that no other
\* node routes has its record, or the call that will write it is still to be made.
HostsKept(n) ==
    \A z \in Zone \ todo[n] : \A h \in bucket[n].active[z] \ Shared :
        Written(n, h, z) \/ ToWrite(n, h, z)

\* And each orphan there is about to be deleted.
OrphansDoomed(n) ==
    Cleanup[n] /\ (pc[n] = "sync" \/ last[n] # Nil) =>
        \A r \in records : Orphan(n, want[n], r) /\ r.zone \notin todo[n] => r.id \in deletes[n]

TruthInv ==
    spent.failures = 0 =>
        \A n \in Node : ~DryRun[n] => HostsKept(n) /\ OrphansDoomed(n)

-----------------------------------------------------------------------------
LEMMA InitMemory == Init => MemoryInv
BY DEF Init, MemoryInv, Bucketed, LastWanted, DeletesSpareOwn, NoBucket, NoHosts

\* bucketHosts loses no host that has a zone.
LEMMA BucketingsLoseNone ==
    ASSUME NEW hosts \in SUBSET Host, NEW b \in Bucketings(hosts),
           NEW h \in hosts, ZonesOf[h] # {}
    PROVE  \E z \in Zone : h \in b[z]
<1> DEFINE matched == {x \in hosts : ZonesOf[x] # {}}
<1>1. PICK f \in [matched -> Zone] : b = [y \in Zone |-> {x \in matched : f[x] = y}]
  BY DEF Bucketings
<1>2. h \in matched /\ f[h] \in Zone
  BY <1>1
<1> QED
  BY <1>1, <1>2

LEMMA ProcessMemory ==
    ASSUME TypeOK, SafetyInv, MemoryInv, NEW n \in Node, Process(n) PROVE MemoryInv'
<1> DEFINE hosts == MeshHosts(containers[n])
<1>1. PICK a \in Bucketings(hosts.active), i \in Bucketings(hosts.ignored) :
        bucket' = [bucket EXCEPT ![n] = [active |-> a, ignored |-> i]]
  BY DEF Process
<1>2. hosts.active \in SUBSET Host /\ hosts.ignored \in SUBSET Host
  BY MeshHostsType DEF HostSets, TypeOK
<1>3. /\ want' = [want EXCEPT ![n] = hosts] /\ pc' = [pc EXCEPT ![n] = "sync"]
      /\ UNCHANGED <<records, last, deletes>> /\ deletes[n] = {}
  BY DEF Process, SafetyInv, IdlePlansNothing, ZoneDone
<1>4. Bucketed'
  <2> SUFFICES ASSUME NEW m \in Node
               PROVE  /\ \A z \in Zone : \A h \in bucket'[m].active[z] : z \in ZonesOf[h]
                      /\ \A z \in Zone : bucket'[m].ignored[z] \subseteq want'[m].ignored
                      /\ \A h \in want'[m].active : ZonesOf[h] # {} =>
                            \E z \in Zone : h \in bucket'[m].active[z]
    BY DEF Bucketed
  <2>1. CASE m = n
    <3>1. want'[m] = hosts /\ bucket'[m] = [active |-> a, ignored |-> i]
      BY <1>1, <1>3, <2>1 DEF TypeOK
    <3>2. /\ \A z \in Zone : \A h \in a[z] : z \in ZonesOf[h]
          /\ \A z \in Zone : i[z] \subseteq hosts.ignored
      BY <1>2, BucketingsType
    <3>3. \A h \in hosts.active : ZonesOf[h] # {} => \E z \in Zone : h \in a[z]
      BY <1>2, BucketingsLoseNone
    <3> HIDE DEF hosts
    <3> QED
      BY <3>1, <3>2, <3>3
  <2>2. CASE m # n
    <3>1. want'[m] = want[m] /\ bucket'[m] = bucket[m]
      BY <1>1, <1>3, <2>2 DEF TypeOK
    <3> QED
      BY <3>1 DEF MemoryInv, Bucketed
  <2> QED
    BY <2>1, <2>2
<1>5. LastWanted'
  BY <1>3 DEF MemoryInv, LastWanted, TypeOK
<1>6. DeletesSpareOwn'
  <2>1. \A m \in Node : m # n => bucket'[m] = bucket[m]
    BY <1>1 DEF TypeOK
  <2> QED
    BY <1>3, <2>1 DEF MemoryInv, DeletesSpareOwn
<1> QED
  BY <1>4, <1>5, <1>6 DEF MemoryInv

LEMMA SyncZoneMemory ==
    ASSUME TypeOK, SafetyInv, MemoryInv, NEW n \in Node, NEW z \in Zone, SyncZone(n, z)
    PROVE  MemoryInv'
<1>1. UNCHANGED <<records, last, pc, want, bucket>>
  BY DEF SyncZone
<1>2. Bucketed' /\ LastWanted'
  BY <1>1 DEF MemoryInv, Bucketed, LastWanted
<1>3. DeletesSpareOwn'
  <2> SUFFICES ASSUME NEW m \in Node, NEW id \in deletes'[m], NEW r \in records, r.id = id
               PROVE  r.name \notin bucket[m].active[r.zone]
    BY <1>1 DEF DeletesSpareOwn
  <2>1. CASE id \in deletes[m]
    BY <2>1 DEF MemoryInv, DeletesSpareOwn
  <2>2. CASE m = n /\ id \in DeletesFor(n, z)
    BY <2>2 DEF DeletesFor, Orphans, Listed, SafetyInv, IdsFresh
  <2> QED
    BY <2>1, <2>2 DEF SyncZone, TypeOK
<1> QED
  BY <1>2, <1>3 DEF MemoryInv

\* What a PUT or a POST leaves of the records, and what it makes.
LEMMA UpsertFate ==
    ASSUME TypeOK, SafetyInv, NEW n \in Node, NEW c \in upserts[n], Upsert(n, c)
    PROVE  /\ \A s \in records' :
                 \/ s \in records
                 \/ /\ s.name = c.host /\ s.content = Target[n]
                    /\ \/ s.id = nextId
                       \/ \E r \in records : r.id = s.id /\ r.zone = s.zone /\ r.name = s.name
           /\ \A r \in records : \E s \in records' :
                 /\ s.id = r.id /\ s.zone = r.zone /\ s.name = r.name
                 /\ s = r \/ (r.name = c.host /\ s.content = Target[n])
           /\ /\ ~DryRun[n] /\ spent'.failures = 0
              /\ c.op = "PUT" => \E r \in records : r.id = c.id /\ r.zone = c.zone
              => \E s \in records' :
                    s.zone = c.zone /\ s.name = c.host /\ s.content = Target[n]
<1>1. CASE UNCHANGED records /\ (DryRun[n] \/ RequestFails)
  <2>1. RequestFails => spent'.failures # 0
    BY DEF RequestFails, TypeOK
  <2> QED
    BY <1>1, <2>1
<1>2. CASE c.op = "PUT" /\ ApplyPut(n, c)
  <2>1. \A r \in records :
          /\ r.id # c.id => Updated(n, c, r) = r
          /\ r.id = c.id =>
                /\ r.name = c.host
                /\ Updated(n, c, r).id = r.id /\ Updated(n, c, r).zone = r.zone
                /\ Updated(n, c, r).name = r.name /\ Updated(n, c, r).content = Target[n]
    <3> SUFFICES ASSUME NEW r \in records, r.id = c.id
                 PROVE  /\ r.name = c.host
                        /\ Updated(n, c, r).id = r.id /\ Updated(n, c, r).zone = r.zone
                        /\ Updated(n, c, r).name = r.name
                        /\ Updated(n, c, r).content = Target[n]
      BY DEF Updated
    <3>1. r.name = c.host
      BY <1>2 DEF SafetyInv, PutsKeepNames
    <3>2. r \in Record
      BY DEF TypeOK
    <3> QED
      BY <3>1, <3>2 DEF Updated, Record
  <2>2. /\ \A r \in records : Updated(n, c, r) \in records'
        /\ \A s \in records' : \E r \in records : s = Updated(n, c, r)
    BY <1>2 DEF ApplyPut
  <2> QED
    BY <1>2, <2>1, <2>2
<1>3. CASE c.op = "POST" /\ ApplyPost(n, c)
  <2> DEFINE new == [id |-> nextId, zone |-> c.zone, name |-> c.host, type |-> "A",
                     content |-> Target[n]]
  <2>1. /\ new.id = nextId /\ new.zone = c.zone /\ new.name = c.host
        /\ new.content = Target[n]
    OBVIOUS
  <2>2. records' = records \cup {new}
    BY <1>3 DEF ApplyPost
  <2> HIDE DEF new
  <2> QED
    BY <2>1, <2>2
<1> QED
  BY <1>1, <1>2, <1>3 DEF Upsert

LEMMA UpsertMemory ==
    ASSUME TypeOK, SafetyInv, MemoryInv, NEW n \in Node, NEW c \in upserts[n], Upsert(n, c)
    PROVE  MemoryInv'
<1>1. UNCHANGED <<last, pc, want, bucket, deletes>>
  BY DEF Upsert
<1>2. Bucketed' /\ LastWanted'
  BY <1>1 DEF MemoryInv, Bucketed, LastWanted
<1>3. \A m \in Node : \A id \in deletes[m] : id # nextId
  BY DEF TypeOK, SafetyInv, IdsFresh
<1>4. \A s \in records' :
        \/ s.id = nextId
        \/ \E r \in records : r.id = s.id /\ r.zone = s.zone /\ r.name = s.name
  BY UpsertFate
<1>5. DeletesSpareOwn'
  BY <1>1, <1>3, <1>4 DEF MemoryInv, DeletesSpareOwn
<1> QED
  BY <1>2, <1>5 DEF MemoryInv

LEMMA RestartMemory ==
    ASSUME TypeOK, MemoryInv, NEW n \in Node, Restart(n) PROVE MemoryInv'
<1>1. /\ want'[n] = NoHosts /\ bucket'[n] = NoBucket /\ last'[n] = Nil /\ deletes'[n] = {}
      /\ \A m \in Node : m # n => /\ want'[m] = want[m] /\ bucket'[m] = bucket[m]
                                 /\ last'[m] = last[m] /\ deletes'[m] = deletes[m]
                                 /\ pc'[m] = pc[m]
      /\ UNCHANGED records
  BY DEF Restart, TypeOK
<1>2. Bucketed'
  BY <1>1 DEF MemoryInv, Bucketed, NoHosts, NoBucket
<1>3. LastWanted' /\ DeletesSpareOwn'
  BY <1>1 DEF MemoryInv, LastWanted, DeletesSpareOwn
<1> QED
  BY <1>2, <1>3 DEF MemoryInv

LEMMA StepMemory == TypeOK /\ SafetyInv /\ MemoryInv /\ [Next]_vars => MemoryInv'
<1> SUFFICES ASSUME TypeOK, SafetyInv, MemoryInv, [Next]_vars PROVE MemoryInv'
  OBVIOUS
<1>1. ASSUME UNCHANGED <<last, pc, want, bucket>>, records' \subseteq records,
             \A m \in Node : deletes'[m] \subseteq deletes[m]
      PROVE  MemoryInv'
  BY <1>1 DEF MemoryInv, Bucketed, LastWanted, DeletesSpareOwn
<1>2. ASSUME NEW n \in Node, NEW id \in deletes[n], Delete(n, id) PROVE MemoryInv'
  BY <1>1, <1>2 DEF Delete, TypeOK
<1>3. ASSUME NEW n \in Node, FinishSync(n) PROVE MemoryInv'
  BY <1>3 DEF FinishSync, TypeOK, MemoryInv, Bucketed, LastWanted, DeletesSpareOwn
<1>4. ASSUME NEW n \in Node, CreateContainer(n) \/ RemoveContainer(n) PROVE MemoryInv'
  BY <1>1, <1>4 DEF CreateContainer, RemoveContainer, Change
<1>5. CASE UNCHANGED vars
  BY <1>1, <1>5 DEF vars
<1> QED
  BY <1>2, <1>3, <1>4, <1>5, ProcessMemory, SyncZoneMemory, UpsertMemory, RestartMemory
  DEF Next, Companion, Environment

-----------------------------------------------------------------------------
LEMMA InitTruth == Init => TruthInv
BY DEF Init, TruthInv, HostsKept, OrphansDoomed, NoBucket

\* A Sync begins with all the zones before it where it has anything to do.
LEMMA ProcessTruth ==
    ASSUME TypeOK, SafetyInv, TruthInv, NEW n \in Node, Process(n) PROVE TruthInv'
<1>1. PICK a, i :
          /\ bucket' = [bucket EXCEPT ![n] = [active |-> a, ignored |-> i]]
          /\ todo' = [todo EXCEPT ![n] = ZonesToSync(n, [active |-> a, ignored |-> i])]
  BY DEF Process
<1>2. /\ UNCHANGED <<records, last, upserts, deletes, spent>>
      /\ \A m \in Node : m # n => /\ bucket'[m] = bucket[m] /\ todo'[m] = todo[m]
                                 /\ want'[m] = want[m] /\ pc'[m] = pc[m]
  BY <1>1 DEF Process, TypeOK
<1>3. HostsKept(n)'
  <2>1. /\ bucket'[n].active = a
        /\ todo'[n] = IF Cleanup[n] THEN Zone
                      ELSE {z \in Zone : a[z] # {} \/ i[z] # {}}
    BY <1>1 DEF TypeOK, ZonesToSync
  <2> QED
    BY <2>1 DEF HostsKept
<1>4. OrphansDoomed(n)'
  <2>1. Cleanup[n] => todo'[n] = Zone
    BY <1>1 DEF TypeOK, ZonesToSync
  <2>2. \A r \in records : r.zone \in Zone
    BY DEF TypeOK, Record
  <2> QED
    BY <1>2, <2>1, <2>2 DEF OrphansDoomed
<1>5. ASSUME NEW m \in Node, m # n
      PROVE  (HostsKept(m) => HostsKept(m)') /\ (OrphansDoomed(m) => OrphansDoomed(m)')
  BY <1>2, <1>5 DEF HostsKept, Written, ToWrite, OrphansDoomed, Orphan
<1> QED
  BY <1>2, <1>3, <1>4, <1>5 DEF TruthInv

\* A zone that is listed gets a call for all that is not as it should be.
LEMMA SyncZoneTruth ==
    ASSUME TypeOK, SafetyInv, PlansWanted, MemoryInv, TruthInv,
           NEW n \in Node, NEW z \in Zone, SyncZone(n, z)
    PROVE  TruthInv'
<1>1. /\ UNCHANGED <<records, last, pc, want, bucket>>
      /\ todo'[n] = todo[n] \ {z} /\ upserts[n] = {} /\ deletes[n] = {} /\ pc[n] = "sync"
      /\ \A m \in Node : m # n => /\ upserts'[m] = upserts[m] /\ deletes'[m] = deletes[m]
                                 /\ todo'[m] = todo[m]
  BY DEF SyncZone, TypeOK, ZoneDone
<1>2. ASSUME NEW m \in Node, m # n
      PROVE  (HostsKept(m) => HostsKept(m)') /\ (OrphansDoomed(m) => OrphansDoomed(m)')
  BY <1>1, <1>2 DEF HostsKept, Written, ToWrite, OrphansDoomed, Orphan
<1>3. CASE RequestFails
  BY <1>3 DEF RequestFails, TypeOK, TruthInv
<1>4. ASSUME NEW first \in FirstRecords(z, bucket[n].active[z]),
             upserts' = [upserts EXCEPT ![n] = UpsertsFor(n, z, first)],
             deletes' = [deletes EXCEPT ![n] = DeletesFor(n, z)],
             UNCHANGED spent
      PROVE  TruthInv'
  <2>1. upserts'[n] = UpsertsFor(n, z, first) /\ deletes'[n] = DeletesFor(n, z)
    BY <1>4 DEF TypeOK
  <2>2. ASSUME HostsKept(n) PROVE HostsKept(n)'
    <3> SUFFICES ASSUME NEW y \in Zone, y \notin todo'[n],
                        NEW h \in bucket[n].active[y] \ Shared
                 PROVE  Written(n, h, y)' \/ ToWrite(n, h, y)'
      BY <1>1 DEF HostsKept
    <3>1. CASE y # z
      BY <1>1, <2>2, <3>1 DEF HostsKept, Written, ToWrite
    <3>2. CASE y = z /\ h \in DOMAIN first
      <4>1. first[h] \in records /\ first[h].zone = z /\ first[h].name = h
        BY <3>2 DEF FirstRecords, Listed
      <4>2. CASE first[h].content = Target[n]
        BY <1>1, <3>2, <4>1, <4>2 DEF Written
      <4>3. CASE first[h].content # Target[n]
        <5>1. [op |-> "PUT", zone |-> z, host |-> h, id |-> first[h].id] \in upserts'[n]
          BY <2>1, <3>2, <4>3 DEF UpsertsFor
        <5> QED
          BY <1>1, <3>2, <4>1, <5>1 DEF ToWrite
      <4> QED
        BY <4>2, <4>3
    <3>3. CASE y = z /\ h \notin DOMAIN first
      <4>1. [op |-> "POST", zone |-> z, host |-> h, id |-> NoId] \in upserts'[n]
        BY <2>1, <3>3 DEF UpsertsFor
      <4> QED
        BY <3>3, <4>1 DEF ToWrite
    <3> QED
      BY <3>1, <3>2, <3>3
  <2>3. ASSUME OrphansDoomed(n) PROVE OrphansDoomed(n)'
    <3> SUFFICES ASSUME Cleanup[n], NEW r \in records, Orphan(n, want[n], r),
                        r.zone \notin todo'[n]
                 PROVE  r.id \in deletes'[n]
      BY <1>1 DEF OrphansDoomed, Orphan
    <3>1. r.zone = z
      BY <1>1, <2>3 DEF OrphansDoomed
    <3>2. r \in Orphans(n, z)
      BY <3>1 DEF Orphans, Listed, Orphan, PlansWanted, MemoryInv, Bucketed
    <3> QED
      BY <2>1, <3>2 DEF DeletesFor
  <2> QED
    BY <1>2, <1>4, <2>2, <2>3 DEF TruthInv
<1> QED
  BY <1>3, <1>4 DEF SyncZone

\* A call of n does what it was planned for and undoes nothing; what another node
\* relies on are records of names that n never touches.
LEMMA UpsertTruth ==
    ASSUME Deployment, TypeOK, SafetyInv, PlansWanted, MemoryInv, TruthInv,
           NEW n \in Node, NEW c \in upserts[n], Upsert(n, c)
    PROVE  TruthInv'
<1>1. /\ UNCHANGED <<last, pc, want, bucket, todo, deletes>>
      /\ upserts'[n] = upserts[n] \ {c}
      /\ \A m \in Node : m # n => upserts'[m] = upserts[m]
  BY DEF Upsert, TypeOK
<1>2. c.host \in HostsOf(n) /\ c.host \in want[n].active
  BY DEF SafetyInv, PlansOwnHosts, PlansWanted
<1>3. spent'.failures = 0 => spent.failures = 0
  BY DEF Upsert, RequestFails, TypeOK
<1>4. \A r \in records : \E s \in records' :
          /\ s.id = r.id /\ s.zone = r.zone /\ s.name = r.name
          /\ s = r \/ (r.name = c.host /\ s.content = Target[n])
  BY UpsertFate
<1>5. \A s \in records' : s \in records \/ (s.name = c.host /\ s.content = Target[n])
  BY UpsertFate
<1>6. ASSUME NEW m \in Node, NEW h, NEW z, Written(m, h, z), h \in HostsOf(m) \ Shared
      PROVE  Written(m, h, z)'
  <2>1. PICK r \in records : r.zone = z /\ r.name = h /\ r.content = Target[m]
    BY <1>6 DEF Written
  <2>2. PICK s \in records' :
            /\ s.zone = r.zone /\ s.name = r.name
            /\ s = r \/ (r.name = c.host /\ s.content = Target[n])
    BY <1>4
  <2>3. r.name = c.host => m = n
    BY <1>2, <1>6, <2>1, OneClaimant
  <2> QED
    BY <2>1, <2>2, <2>3 DEF Written
<1>7. ASSUME NEW m \in Node, NEW h, NEW z, ToWrite(m, h, z), m # n \/ h # c.host \/ z # c.zone
      PROVE  ToWrite(m, h, z)'
  <2>1. PICK d \in upserts[m] :
            /\ d.zone = z /\ d.host = h
            /\ \/ d.op = "POST"
               \/ d.op = "PUT" /\ \E r \in records : r.id = d.id /\ r.zone = z
    BY <1>7 DEF ToWrite
  <2>2. d \in upserts'[m]
    BY <1>1, <1>7, <2>1
  <2> QED
    BY <1>4, <2>1, <2>2 DEF ToWrite
<1>8. ASSUME ~DryRun[n], spent'.failures = 0, ToWrite(n, c.host, c.zone)
      PROVE  Written(n, c.host, c.zone)' \/ ToWrite(n, c.host, c.zone)'
  <2>1. PICK d \in upserts[n] :
            /\ d.zone = c.zone /\ d.host = c.host
            /\ \/ d.op = "POST"
               \/ d.op = "PUT" /\ \E r \in records : r.id = d.id /\ r.zone = c.zone
    BY <1>8 DEF ToWrite
  <2>2. CASE d = c
    <3>1. \E s \in records' : s.zone = c.zone /\ s.name = c.host /\ s.content = Target[n]
      BY <1>8, <2>1, <2>2, UpsertFate
    <3> QED
      BY <3>1 DEF Written
  <2>3. CASE d # c
    <3>1. d \in upserts'[n]
      BY <1>1, <2>3
    <3> QED
      BY <1>4, <2>1, <3>1 DEF ToWrite
  <2> QED
    BY <2>2, <2>3
<1>9. ASSUME NEW m \in Node, ~DryRun[m], spent'.failures = 0, HostsKept(m)
      PROVE  HostsKept(m)'
  <2> SUFFICES ASSUME NEW z \in Zone, z \notin todo[m],
                      NEW h \in bucket[m].active[z] \ Shared
               PROVE  Written(m, h, z)' \/ ToWrite(m, h, z)'
    BY <1>1 DEF HostsKept
  <2>1. h \in HostsOf(m) \ Shared
    BY DEF SafetyInv, PlansOwnHosts
  <2>2. Written(m, h, z) \/ ToWrite(m, h, z)
    BY <1>9 DEF HostsKept
  <2>3. CASE m = n /\ h = c.host /\ z = c.zone
    BY <1>6, <1>8, <1>9, <2>1, <2>2, <2>3
  <2> QED
    BY <1>6, <1>7, <2>1, <2>2, <2>3
<1>10. ASSUME NEW m \in Node, OrphansDoomed(m) PROVE OrphansDoomed(m)'
  <2> SUFFICES ASSUME Cleanup[m], pc[m] = "sync" \/ last[m] # Nil, NEW s \in records',
                      Orphan(m, want[m], s), s.zone \notin todo[m]
               PROVE  s.id \in deletes[m]
    BY <1>1 DEF OrphansDoomed, Orphan
  <2>1. CASE s \in records
    BY <1>10, <2>1 DEF OrphansDoomed
  <2>2. CASE s.name = c.host /\ s.content = Target[n]
    <3>1. m = n
      BY <2>2 DEF Orphan, Deployment, OwnTargets
    <3> QED
      BY <1>2, <2>2, <3>1 DEF Orphan
  <2> QED
    BY <1>5, <2>1, <2>2
<1> QED
  BY <1>3, <1>9, <1>10 DEF TruthInv

\* A deletion hits neither what n has just written nor what another node relies on.
LEMMA DeleteTruth ==
    ASSUME Deployment, TypeOK, SafetyInv, MemoryInv, TruthInv,
           NEW n \in Node, NEW id \in deletes[n], Delete(n, id)
    PROVE  TruthInv'
<1>1. /\ UNCHANGED <<last, pc, want, bucket, todo, upserts>> /\ upserts[n] = {}
      /\ deletes'[n] = deletes[n] \ {id}
      /\ \A m \in Node : m # n => deletes'[m] = deletes[m]
  BY DEF Delete, TypeOK
<1>2. CASE UNCHANGED records /\ (DryRun[n] \/ RequestFails)
  <2>1. ASSUME NEW m \in Node, m # n \/ ~DryRun[n], spent'.failures = 0
        PROVE  /\ spent.failures = 0
               /\ HostsKept(m) => HostsKept(m)'
               /\ m # n /\ OrphansDoomed(m) => OrphansDoomed(m)'
               /\ DryRun[n]
    BY <1>1, <1>2, <2>1
    DEF Delete, RequestFails, TypeOK, HostsKept, Written, ToWrite, OrphansDoomed, Orphan
  <2> QED
    BY <1>2, <2>1 DEF TruthInv
<1>3. CASE records' = {r \in records : r.id # id} /\ UNCHANGED spent
  <2>1. ASSUME NEW m \in Node, NEW r \in records, r.name \in HostsOf(m) \ Shared, m # n
        PROVE  r \in records'
    <3>1. r.id = id => r.content = Target[n]
      BY <2>1 DEF SafetyInv, OwnDeletesOnly
    <3>2. r.content # Target[n]
      BY <2>1 DEF SafetyInv, TargetsApart
    <3> QED
      BY <1>3, <3>1, <3>2
  <2>2. ASSUME NEW m \in Node, HostsKept(m) PROVE HostsKept(m)'
    <3> SUFFICES ASSUME NEW z \in Zone, z \notin todo[m],
                        NEW h \in bucket[m].active[z] \ Shared
                 PROVE  Written(m, h, z)' \/ ToWrite(m, h, z)'
      BY <1>1 DEF HostsKept
    <3>1. h \in HostsOf(m) \ Shared
      BY DEF SafetyInv, PlansOwnHosts
    <3>2. Written(m, h, z) \/ ToWrite(m, h, z)
      BY <2>2 DEF HostsKept
    <3>3. CASE Written(m, h, z)
      <4>1. PICK r \in records : r.zone = z /\ r.name = h /\ r.content = Target[m]
        BY <3>3 DEF Written
      <4>2. m = n => r.id # id
        BY <4>1 DEF MemoryInv, DeletesSpareOwn
      <4>3. r \in records'
        BY <1>3, <2>1, <3>1, <4>1, <4>2
      <4> QED
        BY <4>1, <4>3 DEF Written
    <3>4. CASE m # n /\ ToWrite(m, h, z)
      <4>1. PICK d \in upserts[m] :
                /\ d.zone = z /\ d.host = h
                /\ \/ d.op = "POST"
                   \/ d.op = "PUT" /\ \E r \in records : r.id = d.id /\ r.zone = z
        BY <3>4 DEF ToWrite
      <4>2. \A r \in records : d.op = "PUT" /\ r.id = d.id => r.name = h
        BY <4>1 DEF SafetyInv, PutsKeepNames
      <4> QED
        BY <1>1, <2>1, <3>1, <3>4, <4>1, <4>2 DEF ToWrite
    <3> QED
      BY <1>1, <3>2, <3>3, <3>4 DEF ToWrite
  <2>3. ASSUME NEW m \in Node, OrphansDoomed(m) PROVE OrphansDoomed(m)'
    BY <1>1, <1>3, <2>3 DEF OrphansDoomed, Orphan
  <2> QED
    BY <1>3, <2>2, <2>3 DEF TruthInv
<1> QED
  BY <1>2, <1>3 DEF Delete

LEMMA StepTruth ==
    Deployment /\ TypeOK /\ SafetyInv /\ PlansWanted /\ MemoryInv /\ TruthInv /\ [Next]_vars
        => TruthInv'
<1> SUFFICES ASSUME Deployment, TypeOK, SafetyInv, PlansWanted, MemoryInv, TruthInv,
                    [Next]_vars
             PROVE  TruthInv'
  OBVIOUS
<1>1. ASSUME NEW n \in Node, FinishSync(n) PROVE TruthInv'
  <2>1. /\ UNCHANGED <<records, want, bucket, todo, upserts, deletes, spent>>
        /\ \A m \in Node : pc'[m] = "sync" \/ last'[m] # Nil =>
                              pc[m] = "sync" \/ last[m] # Nil
    BY <1>1 DEF FinishSync, TypeOK
  <2> QED
    BY <2>1 DEF TruthInv, HostsKept, Written, ToWrite, OrphansDoomed, Orphan
<1>2. ASSUME NEW n \in Node, Restart(n) PROVE TruthInv'
  <2>1. /\ bucket'[n] = NoBucket /\ pc'[n] = "idle" /\ last'[n] = Nil
        /\ UNCHANGED records /\ spent'.failures = spent.failures
        /\ \A m \in Node : m # n => /\ bucket'[m] = bucket[m] /\ todo'[m] = todo[m]
                                   /\ want'[m] = want[m] /\ pc'[m] = pc[m]
                                   /\ last'[m] = last[m] /\ upserts'[m] = upserts[m]
                                   /\ deletes'[m] = deletes[m]
    BY <1>2 DEF Restart, TypeOK
  <2>2. HostsKept(n)' /\ OrphansDoomed(n)'
    BY <2>1 DEF HostsKept, OrphansDoomed, NoBucket
  <2>3. ASSUME NEW m \in Node, m # n
        PROVE  (HostsKept(m) => HostsKept(m)') /\ (OrphansDoomed(m) => OrphansDoomed(m)')
    BY <2>1, <2>3 DEF HostsKept, Written, ToWrite, OrphansDoomed, Orphan
  <2> QED
    BY <2>1, <2>2, <2>3 DEF TruthInv
<1>3. ASSUME UNCHANGED <<records, last, pc, want, bucket, todo, upserts, deletes>>,
             spent'.failures = spent.failures
      PROVE  TruthInv'
  BY <1>3 DEF TruthInv, HostsKept, Written, ToWrite, OrphansDoomed, Orphan
<1>4. ASSUME NEW n \in Node, CreateContainer(n) \/ RemoveContainer(n) PROVE TruthInv'
  BY <1>3, <1>4 DEF CreateContainer, RemoveContainer, Change, TypeOK
<1>5. CASE UNCHANGED vars
  BY <1>3, <1>5 DEF vars
<1> QED
  BY <1>1, <1>2, <1>4, <1>5, ProcessTruth, SyncZoneTruth, UpsertTruth, DeleteTruth
  DEF Next, Companion, Environment

\* As long as no API call has failed, and however many nodes, changes and restarts
\* there are: the hosts that Process compares with are served, but for those another
\* node routes as well, and with cleanup no orphan of the node is left (Process, Sync
\* and syncZone).
THEOREM NetBirdCacheIsTruth == Deployment /\ Spec => []CacheIsTruth
<1> SUFFICES ASSUME Deployment PROVE Spec => []CacheIsTruth
  OBVIOUS
<1>1. ASSUME SafetyInv, MemoryInv, TruthInv PROVE CacheIsTruth
  <2> SUFFICES ASSUME spent.failures = 0,
                      NEW n \in Node, pc[n] = "idle", last[n] # Nil, ~DryRun[n]
               PROVE  /\ \A h \in last[n].active \ Shared : ZonesOf[h] # {} => Served(n, h)
                      /\ Cleanup[n] => \A r \in records : ~Orphan(n, last[n], r)
    BY DEF CacheIsTruth
  <2>1. /\ todo[n] = {} /\ upserts[n] = {} /\ deletes[n] = {} /\ last[n] = want[n]
        /\ HostsKept(n) /\ OrphansDoomed(n)
    BY <1>1 DEF SafetyInv, IdlePlansNothing, ZoneDone, MemoryInv, LastWanted, TruthInv
  <2>2. ASSUME NEW h \in want[n].active \ Shared, ZonesOf[h] # {} PROVE Served(n, h)
    <3>1. PICK z \in Zone : h \in bucket[n].active[z] /\ z \in ZonesOf[h]
      BY <1>1, <2>2 DEF MemoryInv, Bucketed
    <3>2. Written(n, h, z)
      BY <2>1, <3>1 DEF HostsKept, ToWrite
    <3> QED
      BY <3>1, <3>2 DEF Written, Served
  <2>3. Cleanup[n] => \A r \in records : ~Orphan(n, want[n], r)
    BY <2>1 DEF OrphansDoomed
  <2> QED
    BY <2>1, <2>2, <2>3
<1>2. TypeOK /\ SafetyInv /\ MemoryInv /\ [Next]_vars => MemoryInv'
  BY StepMemory
<1>3. TypeOK /\ SafetyInv /\ PlansWanted /\ [Next]_vars => PlansWanted'
  BY StepPlansWanted
<1>4. TypeOK /\ SafetyInv /\ PlansWanted /\ MemoryInv /\ TruthInv /\ [Next]_vars => TruthInv'
  BY StepTruth
<1>5. SafetyInv /\ MemoryInv /\ TruthInv => CacheIsTruth
  BY <1>1
<1> QED
  BY <1>2, <1>3, <1>4, <1>5, InitMemory, InitPlansWanted, InitTruth, TypeCorrect,
     SafetyInvHolds, PTL DEF Spec
=============================================================================
