-------------------------- MODULE CloudflareProofs --------------------------
(***************************************************************************)
(* Proofs about the Cloudflare pipeline: for any zones, hosts, containers  *)
(* and deployments, and any number of edits, failures and crashes.         *)
(***************************************************************************)
EXTENDS Cloudflare, TLAPS

Bounds == [changes : 0..MaxChanges, faults : 0..MaxFaults]

\* An id names one record and is never given again.
Ids ==
    /\ \A r \in records : r.id < nextId
    /\ \A r, s \in records : r.id = s.id => r = s
    /\ \A c \in calls : c.id < nextId

\* No two calls of one zone are about one record.
CallsApart ==
    /\ pc = "idle" => calls = {}
    /\ \A c \in calls : c.op = "POST" <=> c.id = 0
    /\ \A c, d \in calls : c.id = d.id /\ c.id # 0 => c = d

LockInv == TypeOK /\ Ids /\ CallsApart /\ LockHolds

\* Every host of the Sync under way, or of the last one, that has a zone is placed in
\* one of its zones, and only those are.
PlaceAsSeen ==
    place \in [active  : Placements(MeshHosts(seen).active),
              ignored : Placements(MeshHosts(seen).ignored)]

\* What Process compares with is what the last Sync was called with.
LastAsSeen == pc = "idle" /\ last # Nil => last = MeshHosts(seen) /\ todo = {}

\* Records stay in the zones of their names.
InZones == \A r \in records : r.zone \in ZonesOf[r.name]

\* A call is about its own zone; an update or a creation is for a host placed there,
\* and a deletion for a name that is not, unless the zone has changed.
CallsFit ==
    \A c \in calls :
        /\ c.op # "DELETE" => c.host \in Placed(place.active, c.zone)
        /\ \A r \in records : r.id = c.id =>
              /\ r.zone = c.zone
              /\ c.op = "DELETE" /\ r.zone \notin stale =>
                    r.name \notin Placed(place.ignored, r.zone)

SeenInv == PlaceAsSeen /\ LastAsSeen /\ InZones /\ CallsFit

\* In a zone that has been listed and not changed since, a host placed there is
\* published, or a call that will publish it is still to be made.
Stands(h, z) == \E r \in records : r.name = h /\ r.zone = z /\ IsOurs(r)
Underway(h, z) ==
    \E c \in calls : /\ c.zone = z /\ c.host = h
                     /\ \/ c.op = "POST"
                        \/ c.op = "PUT" /\ \E r \in records : r.id = c.id
HostsKept ==
    ~mode.dryRun => \A z \in Zone : z \notin todo \cup stale =>
        \A h \in Placed(place.active, z) : Stands(h, z) \/ Underway(h, z)

\* And what the companion has left there belongs to a host of this Sync, or a call
\* that will delete it is still to be made.
OrphansDoomed ==
    mode.cleanup /\ ~mode.dryRun /\ (pc = "sync" \/ last # Nil) =>
        \A r \in records : IsOurs(r) /\ r.zone \notin todo \cup stale =>
            \/ r.name \in MeshHosts(seen).active \cup MeshHosts(seen).ignored
            \/ \E c \in calls : c.op = "DELETE" /\ c.id = r.id

SyncedInv == HostsKept /\ OrphansDoomed

-----------------------------------------------------------------------------
LEMMA SpentType ==
    ASSUME TypeOK,
           \/ UNCHANGED spent \/ Fault
           \/ /\ spent.changes < MaxChanges
              /\ spent' = [spent EXCEPT !.changes = @ + 1]
    PROVE  spent' \in Bounds
<1>0. spent \in Bounds /\ MaxChanges \in Nat /\ MaxFaults \in Nat
  BY ConstantsOK DEF TypeOK, Bounds, ConstantsOK
<1>1. CASE UNCHANGED spent
  BY <1>0, <1>1
<1>2. CASE spent.faults < MaxFaults /\ spent' = [spent EXCEPT !.faults = @ + 1]
  BY <1>0, <1>2 DEF Bounds
<1>3. CASE spent.changes < MaxChanges /\ spent' = [spent EXCEPT !.changes = @ + 1]
  BY <1>0, <1>3 DEF Bounds
<1> QED
  BY <1>1, <1>2, <1>3 DEF Fault

\* The hosts of routers are host names.
LEMMA HostsOfType ==
    ASSUME NEW svcs \in SUBSET Services, NEW b PROVE HostsOf(svcs, b) \in SUBSET Host
<1>1. \A svc \in svcs : \A r \in svc : ParseRule(r.rule) \in SUBSET Host
  <2> TAKE svc \in svcs
  <2> TAKE r \in svc
  <2>1. r \in Router
    BY ConstantsOK DEF ConstantsOK
  <2>2. \A y \in r.rule : y.hosts \in SUBSET Host
    BY <2>1 DEF Router, Matchers
  <2> QED
    BY <2>2 DEF ParseRule
<1>2. \A svc \in svcs : ServiceHosts(svc) \in SUBSET Host
  BY <1>1 DEF ServiceHosts
<1>3. \A svc \in svcs : \A r \in svc : RouterHosts(svc, r) \in SUBSET Host
  BY <1>1, <1>2 DEF RouterHosts
<1> QED
  BY <1>3 DEF HostsOf

LEMMA MeshHostsType ==
    ASSUME NEW svcs \in SUBSET Services
    PROVE  MeshHosts(svcs) \in [active : SUBSET Host, ignored : SUBSET Host]
<1>1. HostsOf(svcs, TRUE) \in SUBSET Host /\ HostsOf(svcs, FALSE) \in SUBSET Host
  BY HostsOfType
<1> QED
  BY <1>1 DEF MeshHosts

LEMMA PlacementsType ==
    ASSUME NEW hosts \in SUBSET Host PROVE Placements(hosts) \subseteq Partial(Host, Zone)
<1> DEFINE matched == {h \in hosts : ZonesOf[h] # {}}
<1>1. matched \in SUBSET Host
  OBVIOUS
<1>2. Placements(hosts) \subseteq [matched -> Zone]
  BY DEF Placements
<1>3. [matched -> Zone] \subseteq Partial(Host, Zone)
  BY <1>1 DEF Partial
<1> QED
  BY <1>2, <1>3

LEMMA InitLock == Init => LockInv
<1> SUFFICES ASSUME Init PROVE LockInv
  OBVIOUS
<1>1. spent \in Bounds
  BY ConstantsOK DEF Init, Bounds, ConstantsOK
<1>2. place \in [active : Partial(Host, Zone), ignored : Partial(Host, Zone)]
  <2>1. << >> \in [{} -> Zone]
    OBVIOUS
  <2> QED
    BY <2>1 DEF Init, NoPlace, Partial
<1>3. TypeOK
  BY <1>1, <1>2, ConstantsOK DEF Init, TypeOK, Bounds, ConstantsOK
<1>4. Ids
  BY ConstantsOK DEF Init, Ids, ConstantsOK
<1>5. CallsApart /\ LockHolds
  BY DEF Init, CallsApart, LockHolds
<1> QED
  BY <1>3, <1>4, <1>5 DEF LockInv

\* The steps that leave the records and the calls alone.
LEMMA QuietStep ==
    ASSUME LockInv, UNCHANGED <<mode, records, nextId>>,
           containers' \subseteq Services, seen' \subseteq Services,
           last' \in [active : SUBSET Host, ignored : SUBSET Host] \cup {Nil},
           pc' \in {"idle", "sync"}, pc' = "idle" => calls' = {},
           place' \in [active : Partial(Host, Zone), ignored : Partial(Host, Zone)],
           UNCHANGED <<calls, place>> \/ calls' = {},
           todo' \subseteq Zone, stale' \subseteq Zone, stale \subseteq stale',
           spent' \in Bounds
    PROVE  LockInv'
<1> USE DEF LockInv
<1>1. TypeOK'
  BY DEF TypeOK, Bounds
<1>2. Ids' /\ CallsApart'
  BY DEF Ids, CallsApart
<1>3. LockHolds'
  BY DEF LockHolds, IsOurs
<1> QED
  BY <1>1, <1>2, <1>3

\* The records a call or a person leaves behind are records.
LEMMA RecordTypes ==
    /\ \A i \in Nat \ {0}, call \in Call : OurRecord(i, call) \in Record
    /\ \A i \in Nat \ {0}, e \in ByHand : WithId(i, e) \in Record
<1>1. TargetType \in RecordType /\ Target \in Content
  BY ConstantsOK DEF ConstantsOK, RecordType, Content
<1>2. ASSUME NEW i \in Nat \ {0}, NEW call \in Call PROVE OurRecord(i, call) \in Record
  BY <1>1 DEF OurRecord, Record, Call
<1>3. ASSUME NEW i \in Nat \ {0}, NEW e \in ByHand PROVE WithId(i, e) \in Record
  <2>1. e \in Entries
    BY ConstantsOK DEF ConstantsOK
  <2> QED
    BY <2>1 DEF WithId, Record, Entries
<1> QED
  BY <1>2, <1>3

LEMMA ProcessLock == LockInv /\ Process => LockInv'
<1> SUFFICES ASSUME LockInv, Process PROVE LockInv'
  OBVIOUS
<1> DEFINE hosts == MeshHosts(containers)
<1>0. TypeOK /\ CallsApart
  BY DEF LockInv
<1>1. hosts \in [active : SUBSET Host, ignored : SUBSET Host]
  BY <1>0, MeshHostsType DEF TypeOK
<1>2. place' \in [active : Placements(hosts.active), ignored : Placements(hosts.ignored)]
  BY DEF Process
<1>3. /\ Placements(hosts.active) \subseteq Partial(Host, Zone)
      /\ Placements(hosts.ignored) \subseteq Partial(Host, Zone)
  BY <1>1, PlacementsType
<1>4. place' \in [active : Partial(Host, Zone), ignored : Partial(Host, Zone)]
  <2> HIDE DEF hosts
  <2> QED
    BY <1>2, <1>3
<1>5. \A f \in Partial(Host, Zone) : Range(f) \subseteq Zone
  BY DEF Partial, Range
<1>6. todo' \subseteq Zone
  BY <1>4, <1>5 DEF Process
<1>7. calls' = {} /\ pc' = "sync" /\ seen' = containers
  BY <1>0 DEF Process, CallsApart
<1> QED
  BY <1>0, <1>4, <1>6, <1>7, QuietStep, SpentType DEF Process, TypeOK

\* Where the calls of a zone come from.
LEMMA NewCalls ==
    ASSUME TypeOK, NEW z \in Zone, NEW first \in FirstRecords(z),
           NEW c \in Updates(z, first) \cup Creates(z, first) \cup Deletes(z)
    PROVE  /\ c \in Call
           /\ c.op = "POST" <=> c.id = 0
           /\ c.op # "POST" => \E r \in records :
                 /\ r.id = c.id /\ r.name = c.host /\ r.zone = z
                 /\ c.op = "PUT" => r.name \in Placed(place.active, z)
                 /\ c.op = "DELETE" => /\ IsOurs(r)
                                      /\ r.name \notin Placed(place.active, z)
                                      /\ r.name \notin Placed(place.ignored, z)
           /\ c.zone = z
<1> DEFINE found == {h \in Placed(place.active, z) : \E r \in Listed(z) : r.name = h}
<1>1. /\ first \in [found -> Listed(z)]
      /\ \A h \in found : first[h].name = h
  BY DEF FirstRecords
<1>2. \A r \in Listed(z) : r \in records /\ r.zone = z /\ r.id \in Nat \ {0} /\ r.name \in Host
  BY DEF Listed, TypeOK, Record
<1>3. Placed(place.active, z) \subseteq Host
  BY DEF TypeOK, Placed, Partial
<1>4. CASE c \in Updates(z, first)
  <2>1. PICK h \in found : c = [op |-> "PUT", zone |-> z, host |-> h, id |-> first[h].id]
    BY <1>1, <1>4 DEF Updates
  <2>2. first[h] \in Listed(z) /\ first[h].name = h
    BY <1>1
  <2> QED
    BY <1>2, <1>3, <2>1, <2>2 DEF Call
<1>5. CASE c \in Creates(z, first)
  <2>1. PICK h \in Placed(place.active, z) :
            c = [op |-> "POST", zone |-> z, host |-> h, id |-> 0]
    BY <1>5 DEF Creates
  <2> QED
    BY <1>3, <2>1 DEF Call
<1>6. CASE c \in Deletes(z)
  <2>1. PICK r \in Orphans(z) :
            c = [op |-> "DELETE", zone |-> z, host |-> r.name, id |-> r.id]
    BY <1>6 DEF Deletes
  <2>2. r \in Listed(z) /\ IsOurs(r) /\ r.name \notin Placed(place.active, z)
        /\ r.name \notin Placed(place.ignored, z)
    BY DEF Orphans
  <2> QED
    BY <1>2, <2>1, <2>2 DEF Call
<1> QED
  BY <1>4, <1>5, <1>6

LEMMA SyncZoneLock == ASSUME LockInv, NEW z \in todo, SyncZone(z) PROVE LockInv'
<1>0. TypeOK /\ Ids /\ CallsApart /\ LockHolds /\ z \in Zone
  BY DEF LockInv, TypeOK
<1>1. CASE Fault /\ stale' = stale \cup {z} /\ UNCHANGED calls
  BY <1>0, <1>1, QuietStep, SpentType DEF SyncZone, TypeOK
<1>2. ASSUME NEW first \in FirstRecords(z),
             calls' = Updates(z, first) \cup Creates(z, first) \cup Deletes(z),
             stale' = stale \ {z}, UNCHANGED spent
      PROVE  LockInv'
  <2>1. /\ calls' \subseteq Call
        /\ \A c \in calls' : c.op = "POST" <=> c.id = 0
        /\ \A c \in calls' : c.zone = z
    BY <1>0, <1>2, NewCalls
  <2>2. \A c \in calls' : c.op # "POST" => \E r \in records :
                 /\ r.id = c.id /\ r.name = c.host /\ r.zone = z
                 /\ c.op = "PUT" => r.name \in Placed(place.active, z)
                 /\ c.op = "DELETE" => /\ IsOurs(r)
                                      /\ r.name \notin Placed(place.active, z)
                                      /\ r.name \notin Placed(place.ignored, z)
    BY <1>0, <1>2, NewCalls
  <2>3. UNCHANGED <<mode, containers, records, nextId, last, pc, seen, place>>
        /\ todo' = todo \ {z} /\ pc = "sync"
    BY DEF SyncZone
  <2>4. TypeOK'
    BY <1>0, <1>2, <2>1, <2>3 DEF TypeOK
  <2>5. Ids'
    <3>1. nextId \in Nat \ {0} /\ \A c \in calls' : c.op # "POST" => c.id < nextId
      BY <1>0, <2>2 DEF Ids, TypeOK
    <3>2. \A c \in calls' : c.id < nextId
      BY <2>1, <3>1
    <3> QED
      BY <1>0, <2>3, <3>2 DEF Ids
  <2>6. \A c, d \in calls' : c.id = d.id /\ c.id # 0 => c = d
    <3> SUFFICES ASSUME NEW c \in calls', NEW d \in calls', c.id = d.id, c.id # 0
                 PROVE  c = d
      OBVIOUS
    <3>1. c.op # "POST" /\ d.op # "POST"
      BY <2>1
    <3>2. PICK r \in records :
                 /\ r.id = c.id /\ r.name = c.host
                 /\ c.op = "PUT" => r.name \in Placed(place.active, z)
                 /\ c.op = "DELETE" => r.name \notin Placed(place.active, z)
      BY <2>2, <3>1
    <3>3. PICK s \in records :
                 /\ s.id = d.id /\ s.name = d.host
                 /\ d.op = "PUT" => s.name \in Placed(place.active, z)
                 /\ d.op = "DELETE" => s.name \notin Placed(place.active, z)
      BY <2>2, <3>1
    <3>4. r = s
      BY <1>0, <3>2, <3>3 DEF Ids
    <3>5. c.host = d.host /\ c.op = d.op /\ c.zone = d.zone
      BY <2>1, <3>1, <3>2, <3>3, <3>4 DEF Call
    <3> QED
      BY <2>1, <3>5 DEF Call
  <2>7. CallsApart'
    BY <2>1, <2>3, <2>6 DEF CallsApart
  <2>8. LockHolds'
    <3> SUFFICES ASSUME NEW c \in calls', NEW r \in records, r.id = c.id
                 PROVE  /\ r.name = c.host
                        /\ c.op = "DELETE" =>
                              /\ IsOurs(r)
                              /\ r.name \notin Placed(place.active, r.zone)
                              /\ r.name \notin Placed(place.ignored, r.zone)
      BY <2>3 DEF LockHolds, IsOurs
    <3>1. c.op # "POST"
      BY <1>0, <2>1 DEF TypeOK, Record
    <3>2. PICK s \in records :
                 /\ s.id = c.id /\ s.name = c.host /\ s.zone = z
                 /\ c.op = "DELETE" => /\ IsOurs(s)
                                      /\ s.name \notin Placed(place.active, z)
                                      /\ s.name \notin Placed(place.ignored, z)
      BY <2>2, <3>1
    <3> QED
      BY <1>0, <3>2 DEF Ids
  <2> QED
    BY <2>4, <2>5, <2>7, <2>8 DEF LockInv
<1> QED
  BY <1>1, <1>2 DEF SyncZone

\* A call that is made, dropped by the dry run, or refused.
LEMMA MakeLock == ASSUME LockInv, NEW call \in calls, Make(call) PROVE LockInv'
<1>0. TypeOK /\ Ids /\ CallsApart /\ LockHolds /\ call \in Call /\ call.zone \in Zone
  BY DEF LockInv, TypeOK, Call
<1>1. /\ calls' = calls \ {call}
      /\ UNCHANGED <<mode, containers, last, pc, seen, place, todo>>
      /\ stale' \in SUBSET Zone /\ stale \subseteq stale'
      /\ spent' \in Bounds
  BY <1>0, SpentType DEF Make, TypeOK
<1>2. ASSUME records' \subseteq Record, nextId' \in Nat, nextId' >= nextId, Ids'
      PROVE  TypeOK' /\ CallsApart'
  BY <1>0, <1>1, <1>2 DEF TypeOK, CallsApart, Bounds
<1>3. \A d \in calls' : d.id # 0 => d.id # call.id
  BY <1>0, <1>1 DEF CallsApart
<1>4. CASE UNCHANGED <<records, nextId>>
  <2>1. Ids' /\ LockHolds'
    BY <1>0, <1>1, <1>4 DEF Ids, LockHolds, IsOurs
  <2> QED
    BY <1>0, <1>2, <1>4, <2>1 DEF LockInv, TypeOK
<1>5. CASE Apply(call)
  <2>1. ASSUME NEW d \in calls', NEW r \in records', r \in records, r.id = d.id,
               r.zone \notin stale'
        PROVE  /\ r.name = d.host
               /\ d.op = "DELETE" => /\ IsOurs(r)
                                    /\ r.name \notin Placed(place.active, r.zone)
                                    /\ r.name \notin Placed(place.ignored, r.zone)
    BY <1>0, <1>1, <2>1 DEF LockHolds
  <2>2. CASE /\ call.op = "PUT"
             /\ records' = {IF r.id = call.id THEN OurRecord(r.id, call) ELSE r : r \in records}
             /\ UNCHANGED nextId
    <3>1. \A r \in records : OurRecord(r.id, call) \in Record /\ OurRecord(r.id, call).id = r.id
      BY <1>0, RecordTypes DEF TypeOK, Record, OurRecord
    <3>2. records' \subseteq Record
      BY <1>0, <2>2, <3>1 DEF TypeOK
    <3>3. \A r \in records' : \E s \in records :
              r = IF s.id = call.id THEN OurRecord(s.id, call) ELSE s
      BY <2>2
    <3>4. \A r \in records' : r \in records \/ r.id = call.id
      BY <3>1, <3>3
    <3>5. Ids'
      <4>1. \A r \in records' : r.id < nextId
        BY <1>0, <3>1, <3>3 DEF Ids
      <4>2. ASSUME NEW r \in records', NEW s \in records', r.id = s.id PROVE r = s
        <5>1. PICK u \in records : r = IF u.id = call.id THEN OurRecord(u.id, call) ELSE u
          BY <3>3
        <5>2. PICK v \in records : s = IF v.id = call.id THEN OurRecord(v.id, call) ELSE v
          BY <3>3
        <5>3. r.id = u.id /\ s.id = v.id
          BY <3>1, <5>1, <5>2
        <5>4. u = v
          BY <1>0, <4>2, <5>3 DEF Ids
        <5> QED
          BY <5>1, <5>2, <5>4
      <4>3. \A c \in calls' : c.id < nextId
        BY <1>0, <1>1 DEF Ids
      <4> QED
        BY <2>2, <4>1, <4>2, <4>3 DEF Ids
    <3>6. LockHolds'
      <4>1. \A r \in records' : r.id # 0
        BY <3>2 DEF Record
      <4> QED
        BY <1>1, <1>3, <2>1, <3>4, <4>1 DEF LockHolds, IsOurs
    <3> QED
      BY <1>0, <1>2, <2>2, <3>2, <3>5, <3>6 DEF LockInv, TypeOK
  <2>3. CASE /\ call.op = "POST"
             /\ records' = records \cup {OurRecord(nextId, call)}
             /\ nextId' = nextId + 1
    <3>1. OurRecord(nextId, call) \in Record /\ OurRecord(nextId, call).id = nextId
      BY <1>0, RecordTypes DEF TypeOK, OurRecord
    <3>2. records' \subseteq Record /\ nextId' \in Nat /\ nextId' >= nextId
      BY <1>0, <2>3, <3>1 DEF TypeOK
    <3>3. nextId \in Nat /\ \A r \in records : r.id \in Nat
      BY <1>0 DEF TypeOK, Record
    <3>4. \A c \in calls : c.id \in Nat
      BY <1>0 DEF TypeOK, Call
    <3>5. Ids'
      BY <1>0, <1>1, <2>3, <3>1, <3>3, <3>4 DEF Ids
    <3>6. \A d \in calls' : d.id # nextId
      BY <1>0, <1>1, <3>3, <3>4 DEF Ids
    <3>7. LockHolds'
      BY <1>1, <2>1, <2>3, <3>1, <3>6 DEF LockHolds, IsOurs
    <3> QED
      BY <1>2, <3>2, <3>5, <3>7 DEF LockInv
  <2>4. CASE /\ call.op = "DELETE"
             /\ records' = {r \in records : r.id # call.id}
             /\ UNCHANGED nextId
    <3>1. Ids' /\ LockHolds'
      BY <1>0, <1>1, <2>1, <2>4 DEF Ids, LockHolds, IsOurs
    <3> QED
      BY <1>0, <1>2, <2>4, <3>1 DEF LockInv, TypeOK
  <2> QED
    BY <1>5, <2>2, <2>3, <2>4 DEF Apply
<1> QED
  BY <1>4, <1>5 DEF Make

LEMMA EditLock == LockInv /\ Edit => LockInv'
<1> SUFFICES ASSUME LockInv, Edit PROVE LockInv'
  OBVIOUS
<1>0. TypeOK /\ Ids /\ CallsApart /\ LockHolds
  BY DEF LockInv
<1>1. /\ UNCHANGED <<mode, containers, last, pc, seen, place, todo, calls>>
      /\ spent' \in Bounds
  BY <1>0, SpentType DEF Edit
<1>2. nextId \in Nat \ {0} /\ \A c \in calls : c.id \in Nat
  BY <1>0 DEF TypeOK, Call
<1>3. \A r \in records : r \in Record /\ r.id \in Nat \ {0} /\ r.zone \in Zone
  BY <1>0 DEF TypeOK, Record
<1>4. \A e \in ByHand : e.zone \in Zone
  BY ConstantsOK DEF ConstantsOK, Entries
<1>5. ASSUME NEW e \in ByHand, records' = records \cup {WithId(nextId, e)},
             nextId' = nextId + 1, stale' = stale \cup {e.zone}
      PROVE  LockInv'
  <2>1. WithId(nextId, e) \in Record /\ WithId(nextId, e).id = nextId
    BY <1>2, RecordTypes DEF WithId
  <2>2. TypeOK'
    BY <1>0, <1>1, <1>2, <1>4, <1>5, <2>1 DEF TypeOK, Bounds
  <2>3. Ids'
    BY <1>0, <1>1, <1>2, <1>3, <1>5, <2>1 DEF Ids
  <2>4. CallsApart' /\ LockHolds'
    BY <1>0, <1>1, <1>2, <1>5, <2>1 DEF CallsApart, LockHolds, IsOurs, Ids
  <2> QED
    BY <2>2, <2>3, <2>4 DEF LockInv
<1>6. ASSUME NEW r \in records, records' = records \ {r}, stale' = stale \cup {r.zone},
             UNCHANGED nextId
      PROVE  LockInv'
  <2>1. TypeOK'
    BY <1>0, <1>1, <1>3, <1>6 DEF TypeOK, Bounds
  <2>2. Ids' /\ CallsApart' /\ LockHolds'
    BY <1>0, <1>1, <1>6 DEF Ids, CallsApart, LockHolds, IsOurs
  <2> QED
    BY <2>1, <2>2 DEF LockInv
<1>7. ASSUME NEW r \in records, NEW e \in ByHand, e.zone = r.zone,
             records' = (records \ {r}) \cup {WithId(r.id, e)},
             stale' = stale \cup {r.zone}, UNCHANGED nextId
      PROVE  LockInv'
  <2>1. /\ WithId(r.id, e) \in Record /\ WithId(r.id, e).id = r.id
        /\ WithId(r.id, e).zone = r.zone
    BY <1>3, <1>7, RecordTypes DEF WithId
  <2>2. TypeOK'
    BY <1>0, <1>1, <1>3, <1>7, <2>1 DEF TypeOK, Bounds
  <2>3. Ids'
    BY <1>0, <1>1, <1>7, <2>1 DEF Ids
  <2>4. CallsApart' /\ LockHolds'
    BY <1>0, <1>1, <1>7, <2>1 DEF CallsApart, LockHolds, IsOurs
  <2> QED
    BY <2>2, <2>3, <2>4 DEF LockInv
<1> QED
  BY <1>5, <1>6, <1>7 DEF Edit

LEMMA LockStep == LockInv /\ [Next]_vars => LockInv'
<1> SUFFICES ASSUME LockInv, [Next]_vars PROVE LockInv'
  OBVIOUS
<1>0. TypeOK /\ CallsApart
  BY DEF LockInv
<1>1. CASE Process
  BY <1>1, ProcessLock
<1>2. ASSUME NEW z \in todo, SyncZone(z) PROVE LockInv'
  BY <1>2, SyncZoneLock
<1>3. ASSUME NEW call \in calls, Make(call) PROVE LockInv'
  BY <1>3, MakeLock
<1>4. CASE FinishSync
  <2>1. MeshHosts(seen) \in [active : SUBSET Host, ignored : SUBSET Host]
    BY <1>0, MeshHostsType DEF TypeOK
  <2>2. /\ pc' = "idle" /\ calls' = {} /\ last' = MeshHosts(seen) /\ spent' \in Bounds
        /\ UNCHANGED <<mode, containers, records, nextId, seen, place, todo, calls, stale>>
    BY <1>0, <1>4, SpentType DEF FinishSync
  <2> QED
    BY <1>0, <2>1, <2>2, QuietStep DEF TypeOK
<1>5. CASE Restart
  <2>1. NoPlace \in [active : Partial(Host, Zone), ignored : Partial(Host, Zone)]
    <3>1. << >> \in [{} -> Zone]
      OBVIOUS
    <3> QED
      BY <3>1 DEF NoPlace, Partial
  <2>2. spent' \in Bounds
    BY <1>0, <1>5, SpentType DEF Restart
  <2> QED
    BY <1>0, <1>5, <2>1, <2>2, QuietStep DEF Restart, TypeOK
<1>6. CASE Change
  <2>1. containers' \subseteq Services
    BY <1>0, <1>6 DEF Change, TypeOK
  <2>2. spent' \in Bounds
    BY <1>0, <1>6, SpentType DEF Change
  <2>3. pc' = "idle" => calls' = {}
    BY <1>0, <1>6 DEF Change, CallsApart
  <2> QED
    BY <1>0, <1>6, <2>1, <2>2, <2>3, QuietStep DEF Change, TypeOK
<1>7. CASE Edit
  BY <1>7, EditLock
<1>8. CASE UNCHANGED vars
  BY <1>8 DEF LockInv, TypeOK, Ids, CallsApart, LockHolds, IsOurs, vars
<1> QED
  BY <1>1, <1>2, <1>3, <1>4, <1>5, <1>6, <1>7, <1>8 DEF Next, Companion

\* Every reachable state of the pipeline is well typed.
THEOREM CloudflareTypeCorrect == Spec => []TypeOK
<1>1. LockInv => TypeOK
  BY DEF LockInv
<1> QED
  BY <1>1, InitLock, LockStep, PTL DEF Spec

\* However long ago the zone was listed, an update still names a record of its
\* host when it is made, and a deletion one of the companion's that no router of
\* this Sync asks for (syncZone, upsertRecord and deleteRecord), in every zone
\* that nobody has edited and where no call has failed since.
THEOREM CloudflareLockHolds == Spec => []LockHolds
<1>1. LockInv => LockHolds
  BY DEF LockInv
<1> QED
  BY <1>1, InitLock, LockStep, PTL DEF Spec

-----------------------------------------------------------------------------
\* A placed host is a host of this Sync and in a zone of its own; and every host of
\* this Sync that has a zone is placed.
LEMMA PlacedFits ==
    ASSUME TypeOK, PlaceAsSeen, NEW z \in Zone
    PROVE  /\ \A h \in Placed(place.active, z) :
                 h \in MeshHosts(seen).active /\ z \in ZonesOf[h]
           /\ \A h \in Placed(place.ignored, z) : h \in MeshHosts(seen).ignored
BY DEF PlaceAsSeen, Placements, Placed

LEMMA AllPlaced ==
    ASSUME PlaceAsSeen, NEW h, ZonesOf[h] # {}
    PROVE  /\ h \in MeshHosts(seen).active =>
                 \E z \in ZonesOf[h] : z \in Zone /\ h \in Placed(place.active, z)
           /\ h \in MeshHosts(seen).ignored =>
                 \E z \in ZonesOf[h] : z \in Zone /\ h \in Placed(place.ignored, z)
BY DEF PlaceAsSeen, Placements, Placed

\* No process has looked at the containers yet.
LEMMA NothingPlaced ==
    ASSUME seen = {}, place = NoPlace
    PROVE  PlaceAsSeen /\ \A z : Placed(place.active, z) = {}
<1>1. MeshHosts(seen) = [active |-> {}, ignored |-> {}]
  BY DEF MeshHosts, HostsOf
<1>2. << >> \in Placements({})
  BY DEF Placements
<1>3. PlaceAsSeen
  <2>1. MeshHosts(seen).active = {} /\ MeshHosts(seen).ignored = {}
    BY <1>1
  <2> QED
    BY <1>2, <2>1 DEF PlaceAsSeen, NoPlace
<1>4. place.active = << >> /\ DOMAIN << >> = {}
  BY DEF NoPlace
<1> QED
  BY <1>3, <1>4 DEF Placed

LEMMA InitSynced == Init => SeenInv /\ SyncedInv
<1> SUFFICES ASSUME Init PROVE SeenInv /\ SyncedInv
  OBVIOUS
<1>1. PlaceAsSeen /\ \A z : Placed(place.active, z) = {}
  BY NothingPlaced DEF Init
<1>2. LastAsSeen /\ InZones /\ CallsFit
  BY ConstantsOK DEF Init, LastAsSeen, InZones, CallsFit, ConstantsOK
<1>3. HostsKept /\ OrphansDoomed
  BY <1>1 DEF Init, HostsKept, OrphansDoomed
<1> QED
  BY <1>1, <1>2, <1>3 DEF SeenInv, SyncedInv

\* A Sync that begins has its zones, with cleanup all of them, still to go.
LEMMA ProcessSynced ==
    ASSUME TypeOK, CallsApart, SeenInv, Process PROVE SeenInv' /\ SyncedInv'
<1>1. /\ calls = {} /\ seen' = containers /\ pc' = "sync"
      /\ UNCHANGED <<mode, records, calls, stale>>
  BY DEF Process, CallsApart
<1>2. PlaceAsSeen'
  BY <1>1 DEF Process, PlaceAsSeen
<1>3. LastAsSeen' /\ InZones' /\ CallsFit'
  BY <1>1 DEF LastAsSeen, SeenInv, InZones, CallsFit
<1>4. HostsKept'
  <2> SUFFICES ASSUME NEW z \in Zone, z \notin todo', NEW h \in Placed(place'.active, z)
               PROVE  FALSE
    BY DEF HostsKept, Placed
  <2>1. z \in Range(place'.active)
    BY DEF Placed, Range
  <2> QED
    BY <2>1 DEF Process
<1>5. OrphansDoomed'
  <2>1. \A r \in records : r.zone \in Zone
    BY DEF TypeOK, Record
  <2> QED
    BY <1>1, <2>1 DEF Process, OrphansDoomed
<1> QED
  BY <1>2, <1>3, <1>4, <1>5 DEF SeenInv, SyncedInv

\* The calls planned for a zone are about the hosts and names placed as they need be.
LEMMA NewCallsFit ==
    ASSUME TypeOK, Ids, NEW z \in Zone, NEW first \in FirstRecords(z),
           NEW c \in Updates(z, first) \cup Creates(z, first) \cup Deletes(z)
    PROVE  /\ c.zone = z
           /\ c.op # "DELETE" => c.host \in Placed(place.active, z)
           /\ \A r \in records : r.id = c.id =>
                 /\ r.zone = z
                 /\ c.op = "DELETE" => r.name \notin Placed(place.ignored, z)
<1>1. /\ DOMAIN first \subseteq Placed(place.active, z)
      /\ \A h \in DOMAIN first : first[h] \in records /\ first[h].zone = z
  BY DEF FirstRecords, Listed
<1>2. \A r \in records : r.id # 0
  BY DEF TypeOK, Record
<1>3. CASE c \in Updates(z, first)
  BY <1>1, <1>3 DEF Updates, Ids
<1>4. CASE c \in Creates(z, first)
  BY <1>2, <1>4 DEF Creates
<1>5. CASE c \in Deletes(z)
  BY <1>5 DEF Deletes, Orphans, Listed, Ids
<1> QED
  BY <1>3, <1>4, <1>5

\* A zone that is listed gets a call for all that is not as it should be.
LEMMA SyncZoneSynced ==
    ASSUME TypeOK, Ids, CallsApart, SeenInv, SyncedInv, NEW z \in todo, SyncZone(z)
    PROVE  SeenInv' /\ SyncedInv'
<1>1. /\ pc = "sync" /\ calls = {} /\ todo' = todo \ {z} /\ z \in Zone
      /\ UNCHANGED <<mode, records, last, pc, seen, place>>
  BY DEF SyncZone, TypeOK
<1>2. PlaceAsSeen' /\ LastAsSeen' /\ InZones'
  BY <1>1 DEF SeenInv, PlaceAsSeen, LastAsSeen, InZones
<1>3. CASE stale' = stale \cup {z} /\ UNCHANGED calls
  <2>1. CallsFit' /\ HostsKept' /\ OrphansDoomed'
    BY <1>1, <1>3
    DEF CallsFit, SyncedInv, HostsKept, Stands, Underway, IsOurs, OrphansDoomed
  <2> QED
    BY <1>2, <2>1 DEF SeenInv, SyncedInv
<1>4. ASSUME NEW first \in FirstRecords(z),
             calls' = Updates(z, first) \cup Creates(z, first) \cup Deletes(z),
             stale' = stale \ {z}
      PROVE  CallsFit' /\ HostsKept' /\ OrphansDoomed'
  <2>1. CallsFit'
    BY <1>1, <1>4, NewCallsFit DEF CallsFit
  <2>2. ASSUME NEW y \in Zone, y \notin todo' \cup stale', ~mode.dryRun,
               NEW h \in Placed(place.active, y)
        PROVE  Stands(h, y)' \/ Underway(h, y)'
    <3>1. CASE y # z
      BY <1>1, <1>4, <2>2, <3>1
      DEF SyncedInv, HostsKept, Stands, Underway, IsOurs
    <3>2. CASE y = z /\ h \in DOMAIN first
      <4>1. first[h] \in records /\ first[h].zone = z /\ first[h].name = h
        BY <3>2 DEF FirstRecords, Listed
      <4>2. CASE IsOurs(first[h])
        BY <1>1, <3>2, <4>1, <4>2 DEF Stands, IsOurs
      <4>3. CASE ~IsOurs(first[h])
        <5>1. [op |-> "PUT", zone |-> z, host |-> h, id |-> first[h].id] \in calls'
          BY <1>4, <3>2, <4>3 DEF Updates
        <5> QED
          BY <1>1, <3>2, <4>1, <5>1 DEF Underway
      <4> QED
        BY <4>2, <4>3
    <3>3. CASE y = z /\ h \notin DOMAIN first
      <4>1. [op |-> "POST", zone |-> z, host |-> h, id |-> 0] \in calls'
        BY <1>4, <2>2, <3>3 DEF Creates
      <4> QED
        BY <3>3, <4>1 DEF Underway
    <3> QED
      BY <3>1, <3>2, <3>3
  <2>3. HostsKept'
    BY <1>1, <2>2 DEF HostsKept
  <2>4. ASSUME mode.cleanup, ~mode.dryRun, NEW r \in records, IsOurs(r),
               r.zone \notin todo' \cup stale'
        PROVE  \/ r.name \in MeshHosts(seen).active \cup MeshHosts(seen).ignored
               \/ \E c \in calls' : c.op = "DELETE" /\ c.id = r.id
    <3>1. CASE r.zone # z
      BY <1>1, <1>4, <2>4, <3>1 DEF SyncedInv, OrphansDoomed
    <3>2. CASE r \in Orphans(z)
      <4>1. [op |-> "DELETE", zone |-> z, host |-> r.name, id |-> r.id] \in calls'
        BY <1>4, <2>4, <3>2 DEF Deletes
      <4> QED
        BY <4>1
    <3>3. CASE r.zone = z /\ r \notin Orphans(z)
      BY <1>1, <2>4, <3>3, PlacedFits DEF Orphans, Listed, SeenInv
    <3> QED
      BY <3>1, <3>2, <3>3 DEF Orphans, Listed
  <2>5. OrphansDoomed'
    BY <1>1, <2>4 DEF OrphansDoomed, IsOurs
  <2> QED
    BY <2>1, <2>3, <2>5
<1> QED
  BY <1>2, <1>3, <1>4 DEF SyncZone, SeenInv, SyncedInv

\* What a call leaves of the records, and what it makes.
LEMMA ApplyFate ==
    ASSUME TypeOK, Ids, CallsApart, NEW call \in calls, Apply(call)
    PROVE  /\ \A s \in records' :
                 \/ s \in records /\ s.id # call.id
                 \/ /\ call.op # "DELETE"
                    /\ s.name = call.host /\ s.zone = call.zone /\ IsOurs(s)
                    /\ s.id = nextId \/ (s.id = call.id /\ call.id # 0)
           /\ \A r \in records : r.id # call.id => r \in records'
           /\ call.op = "POST" \/ (call.op = "PUT" /\ \E r \in records : r.id = call.id)
                 => \E s \in records' :
                       s.name = call.host /\ s.zone = call.zone /\ IsOurs(s)
<1>1. \A r \in records : r.id # 0
  BY DEF TypeOK, Record
<1>2. \A i : /\ OurRecord(i, call).id = i /\ OurRecord(i, call).name = call.host
             /\ OurRecord(i, call).zone = call.zone /\ IsOurs(OurRecord(i, call))
  BY DEF OurRecord, IsOurs
<1>3. CASE /\ call.op = "PUT"
           /\ records' = {IF r.id = call.id THEN OurRecord(r.id, call) ELSE r : r \in records}
  BY <1>1, <1>2, <1>3
<1>4. CASE call.op = "POST" /\ records' = records \cup {OurRecord(nextId, call)}
  BY <1>1, <1>2, <1>4 DEF CallsApart
<1>5. CASE call.op = "DELETE" /\ records' = {r \in records : r.id # call.id}
  BY <1>5
<1> QED
  BY <1>3, <1>4, <1>5 DEF Apply

\* A call does what it was planned for, or spoils its zone, and no other call's work.
LEMMA MakeSynced ==
    ASSUME LockInv, SeenInv, SyncedInv, NEW call \in calls, Make(call)
    PROVE  SeenInv' /\ SyncedInv'
<1>0. TypeOK /\ Ids /\ CallsApart /\ LockHolds /\ call \in Call
  BY DEF LockInv, TypeOK
<1>1. /\ UNCHANGED <<mode, last, pc, seen, place, todo>>
      /\ calls' = calls \ {call} /\ stale \subseteq stale'
  BY DEF Make
<1>2. PlaceAsSeen' /\ LastAsSeen'
  BY <1>1 DEF SeenInv, PlaceAsSeen, LastAsSeen
<1>3. \A r \in records : r.id # 0 /\ r.id < nextId /\ r.zone \in Zone
  BY <1>0 DEF TypeOK, Record, Ids
<1>4. CASE UNCHANGED records /\ (mode.dryRun \/ call.zone \in stale')
  <2>1. InZones' /\ CallsFit'
    BY <1>1, <1>4 DEF SeenInv, InZones, CallsFit
  <2>2. HostsKept'
    <3> SUFFICES ASSUME ~mode.dryRun, NEW z \in Zone, z \notin todo \cup stale',
                        NEW h \in Placed(place.active, z)
                 PROVE  Stands(h, z)' \/ Underway(h, z)'
      BY <1>1 DEF HostsKept
    <3>1. Stands(h, z) \/ Underway(h, z)
      BY <1>1 DEF SyncedInv, HostsKept
    <3>2. \A c \in calls : c.zone = z => c \in calls'
      BY <1>1, <1>4
    <3> QED
      BY <1>4, <3>1, <3>2 DEF Stands, Underway, IsOurs
  <2>3. OrphansDoomed'
    BY <1>1, <1>4 DEF SyncedInv, OrphansDoomed, IsOurs, SeenInv, CallsFit
  <2> QED
    BY <1>2, <2>1, <2>2, <2>3 DEF SeenInv, SyncedInv
<1>5. CASE Apply(call) /\ UNCHANGED stale
  <2>1. \A c \in calls' : c.id # call.id \/ c.id = 0
    BY <1>0, <1>1 DEF CallsApart
  <2>2. \A c \in calls' : c.id # nextId
    BY <1>0, <1>1 DEF Ids, TypeOK, Call
  <2>3. call.op # "DELETE" =>
            call.host \in MeshHosts(seen).active /\ call.zone \in ZonesOf[call.host]
    BY <1>0, PlacedFits DEF SeenInv, CallsFit, Call
  <2>4. InZones'
    BY <1>0, <1>5, <2>3, ApplyFate DEF SeenInv, InZones
  <2>5. CallsFit'
    <3> SUFFICES ASSUME NEW c \in calls', NEW s \in records', s.id = c.id
                 PROVE  /\ s.zone = c.zone
                        /\ c.op = "DELETE" /\ s.zone \notin stale =>
                              s.name \notin Placed(place.ignored, s.zone)
      BY <1>1, <1>5 DEF SeenInv, CallsFit
    <3>1. s \in records
      BY <1>0, <1>3, <1>5, <2>1, <2>2, ApplyFate
    <3> QED
      BY <1>1, <3>1 DEF SeenInv, CallsFit
  <2>6. HostsKept'
    <3> SUFFICES ASSUME ~mode.dryRun, NEW z \in Zone, z \notin todo \cup stale,
                        NEW h \in Placed(place.active, z)
                 PROVE  Stands(h, z)' \/ Underway(h, z)'
      BY <1>1, <1>5 DEF HostsKept
    <3>a. \A s : IsOurs(s)' <=> IsOurs(s)
      BY DEF IsOurs
    <3>1. CASE \E r \in records : r.id # call.id /\ r.name = h /\ r.zone = z /\ IsOurs(r)
      BY <1>0, <1>5, <3>1, <3>a, ApplyFate DEF Stands
    <3>2. ASSUME NEW r \in records, r.id = call.id, r.name = h, r.zone = z
          PROVE  Stands(h, z)'
      <4>1. r.name = call.host /\ r.zone = call.zone /\ call.op # "DELETE"
        BY <1>0, <3>2 DEF LockHolds, SeenInv, CallsFit
      <4>2. call.op = "PUT"
        BY <1>0, <1>3, <3>2, <4>1 DEF CallsApart, Call
      <4> QED
        BY <1>0, <1>5, <3>2, <3>a, <4>1, <4>2, ApplyFate DEF Stands
    <3>3. CASE Underway(h, z)
      <4>1. PICK c \in calls : /\ c.zone = z /\ c.host = h
                              /\ \/ c.op = "POST"
                                 \/ c.op = "PUT" /\ \E r \in records : r.id = c.id
        BY <3>3 DEF Underway
      <4>2. CASE c = call
        BY <1>0, <1>5, <3>a, <4>1, <4>2, ApplyFate DEF Stands
      <4>3. CASE c # call
        <5>1. c \in calls'
          BY <1>1, <4>3
        <5>2. \A r \in records : r.id = c.id => r \in records'
          BY <1>0, <1>3, <1>5, <2>1, <5>1, ApplyFate
        <5> QED
          BY <4>1, <5>1, <5>2 DEF Underway
      <4> QED
        BY <4>2, <4>3
    <3>4. Stands(h, z) \/ Underway(h, z)
      BY DEF SyncedInv, HostsKept
    <3> QED
      BY <3>1, <3>2, <3>3, <3>4 DEF Stands
  <2>7. OrphansDoomed'
    <3> SUFFICES ASSUME mode.cleanup, ~mode.dryRun, pc = "sync" \/ last # Nil,
                        NEW s \in records', IsOurs(s), s.zone \notin todo \cup stale
                 PROVE  \/ s.name \in MeshHosts(seen).active \cup MeshHosts(seen).ignored
                        \/ \E c \in calls' : c.op = "DELETE" /\ c.id = s.id
      BY <1>1, <1>5 DEF OrphansDoomed, IsOurs
    <3>1. CASE s \in records /\ s.id # call.id
      BY <1>1, <3>1 DEF SyncedInv, OrphansDoomed
    <3>2. CASE call.op # "DELETE" /\ s.name = call.host
      BY <2>3, <3>2
    <3> QED
      BY <1>0, <1>5, <3>1, <3>2, ApplyFate
  <2> QED
    BY <1>2, <2>4, <2>5, <2>6, <2>7 DEF SeenInv, SyncedInv
<1>6. call.zone \in stale' \/ mode.dryRun \/ (Apply(call) /\ UNCHANGED stale)
  BY DEF Make
<1> QED
  BY <1>4, <1>5 DEF Make

\* Whoever edits a zone leaves the others as they are, and an id with its zone.
LEMMA EditFate ==
    ASSUME TypeOK, Edit
    PROVE  /\ \A s \in records' :
                 \/ s \in records
                 \/ /\ s.zone \in stale' /\ s.zone \in ZonesOf[s.name]
                    /\ s.id = nextId \/ \E r \in records : r.id = s.id /\ r.zone = s.zone
           /\ \A r \in records : r \in records' \/ r.zone \in stale'
           /\ stale \subseteq stale'
<1>1. \A i, e : /\ WithId(i, e).id = i /\ WithId(i, e).zone = e.zone
                /\ WithId(i, e).name = e.name
  BY DEF WithId
<1>2. \A e \in ByHand : e.zone \in ZonesOf[e.name]
  BY ConstantsOK DEF ConstantsOK
<1>3. ASSUME NEW e \in ByHand, records' = records \cup {WithId(nextId, e)},
             stale' = stale \cup {e.zone}
      PROVE  /\ \A s \in records' :
                   \/ s \in records
                   \/ s.zone \in stale' /\ s.zone \in ZonesOf[s.name] /\ s.id = nextId
             /\ \A r \in records : r \in records'
  BY <1>1, <1>2, <1>3
<1>4. ASSUME NEW r \in records, records' = records \ {r}, stale' = stale \cup {r.zone}
      PROVE  /\ \A s \in records' : s \in records
             /\ \A s \in records : s \in records' \/ s.zone \in stale'
  BY <1>4
<1>5. ASSUME NEW r \in records, NEW e \in ByHand, e.zone = r.zone,
             records' = (records \ {r}) \cup {WithId(r.id, e)},
             stale' = stale \cup {r.zone}
      PROVE  /\ \A s \in records' :
                   \/ s \in records
                   \/ /\ s.zone \in stale' /\ s.zone \in ZonesOf[s.name]
                      /\ s.id = r.id /\ s.zone = r.zone
             /\ \A s \in records : s \in records' \/ s.zone \in stale'
  BY <1>1, <1>2, <1>5
<1>6. stale \subseteq stale'
  BY DEF Edit
<1> QED
  BY <1>3, <1>4, <1>5, <1>6 DEF Edit

LEMMA EditSynced ==
    ASSUME LockInv, SeenInv, SyncedInv, Edit PROVE SeenInv' /\ SyncedInv'
<1>0. TypeOK /\ Ids
  BY DEF LockInv
<1>1. UNCHANGED <<mode, last, pc, seen, place, todo, calls>>
  BY DEF Edit
<1>2. PlaceAsSeen' /\ LastAsSeen'
  BY <1>1 DEF SeenInv, PlaceAsSeen, LastAsSeen
<1>3. InZones'
  BY <1>0, EditFate DEF SeenInv, InZones
<1>4. CallsFit'
  <2> SUFFICES ASSUME NEW c \in calls, NEW s \in records', s.id = c.id
               PROVE  /\ s.zone = c.zone
                      /\ c.op = "DELETE" /\ s.zone \notin stale' =>
                            s.name \notin Placed(place.ignored, s.zone)
    BY <1>1 DEF SeenInv, CallsFit
  <2>1. c.id # nextId
    BY <1>0 DEF Ids, TypeOK, Call
  <2>2. CASE s \in records
    BY <1>0, <2>2, EditFate DEF SeenInv, CallsFit
  <2>3. CASE s.zone \in stale' /\ \E r \in records : r.id = s.id /\ r.zone = s.zone
    BY <2>3 DEF SeenInv, CallsFit
  <2> QED
    BY <1>0, <2>1, <2>2, <2>3, EditFate
<1>5. HostsKept'
  <2> SUFFICES ASSUME ~mode.dryRun, NEW z \in Zone, z \notin todo \cup stale',
                      NEW h \in Placed(place.active, z)
               PROVE  Stands(h, z)' \/ Underway(h, z)'
    BY <1>1 DEF HostsKept
  <2>1. Stands(h, z) \/ Underway(h, z)
    BY <1>0, EditFate DEF SyncedInv, HostsKept
  <2>2. \A r \in records : r.zone = z => r \in records'
    BY <1>0, EditFate
  <2>3. \A c \in calls, r \in records : r.id = c.id /\ c.zone = z => r \in records'
    BY <2>2 DEF SeenInv, CallsFit
  <2> QED
    BY <1>1, <2>1, <2>2, <2>3 DEF Stands, Underway, IsOurs
<1>6. OrphansDoomed'
  BY <1>0, <1>1, EditFate DEF SyncedInv, OrphansDoomed, IsOurs
<1> QED
  BY <1>2, <1>3, <1>4, <1>5, <1>6 DEF SeenInv, SyncedInv

\* Every step keeps to what was seen, and leaves no zone half done without a trace.
LEMMA SyncedStep ==
    LockInv /\ SeenInv /\ SyncedInv /\ [Next]_vars => SeenInv' /\ SyncedInv'
<1> SUFFICES ASSUME LockInv, SeenInv, SyncedInv, [Next]_vars PROVE SeenInv' /\ SyncedInv'
  OBVIOUS
<1>0. TypeOK /\ Ids /\ CallsApart
  BY DEF LockInv
<1>1. CASE Process
  BY <1>0, <1>1, ProcessSynced
<1>2. ASSUME NEW z \in todo, SyncZone(z) PROVE SeenInv' /\ SyncedInv'
  BY <1>0, <1>2, SyncZoneSynced
<1>3. ASSUME NEW call \in calls, Make(call) PROVE SeenInv' /\ SyncedInv'
  BY <1>3, MakeSynced
<1>4. CASE FinishSync
  <2>1. /\ last' = MeshHosts(seen) /\ todo' = {} /\ pc = "sync"
        /\ UNCHANGED <<mode, records, seen, place, todo, calls, stale>>
    BY <1>4 DEF FinishSync
  <2>2. PlaceAsSeen' /\ LastAsSeen' /\ InZones' /\ CallsFit'
    BY <2>1 DEF SeenInv, PlaceAsSeen, LastAsSeen, InZones, CallsFit
  <2>3. HostsKept' /\ OrphansDoomed'
    BY <2>1 DEF SyncedInv, HostsKept, Stands, Underway, OrphansDoomed, IsOurs
  <2> QED
    BY <2>2, <2>3 DEF SeenInv, SyncedInv
<1>5. CASE Restart
  <2>1. /\ last' = Nil /\ pc' = "idle" /\ seen' = {} /\ place' = NoPlace /\ calls' = {}
        /\ UNCHANGED records
    BY <1>5 DEF Restart
  <2>2. PlaceAsSeen' /\ \A z : Placed(place'.active, z) = {}
    <3>1. (seen = {} /\ place = NoPlace => PlaceAsSeen)'
      BY NothingPlaced, PTL
    <3>2. \A z : Placed(NoPlace.active, z) = {}
      BY DEF NoPlace, Placed
    <3> QED
      BY <2>1, <3>1, <3>2
  <2>3. LastAsSeen' /\ InZones' /\ CallsFit'
    BY <2>1 DEF SeenInv, LastAsSeen, InZones, CallsFit
  <2>4. HostsKept' /\ OrphansDoomed'
    BY <2>1, <2>2 DEF HostsKept, OrphansDoomed, Placed
  <2> QED
    BY <2>2, <2>3, <2>4 DEF SeenInv, SyncedInv
<1>6. CASE Change
  BY <1>6 DEF Change, SeenInv, PlaceAsSeen, LastAsSeen, InZones, CallsFit, SyncedInv,
              HostsKept, Stands, Underway, OrphansDoomed, IsOurs
<1>7. CASE Edit
  BY <1>7, EditSynced
<1>8. CASE UNCHANGED vars
  BY <1>8 DEF vars, SeenInv, PlaceAsSeen, LastAsSeen, InZones, CallsFit, SyncedInv,
              HostsKept, Stands, Underway, OrphansDoomed, IsOurs
<1> QED
  BY <1>1, <1>2, <1>3, <1>4, <1>5, <1>6, <1>7, <1>8 DEF Next, Companion

LEMMA CloudflareInvariant == Spec => [](LockInv /\ SeenInv /\ SyncedInv)
BY InitLock, InitSynced, LockStep, SyncedStep, PTL DEF Spec

\* The hosts that Process compares with are published, and with cleanup nothing else
\* of the companion is left in the zones, outside of Sync and but for zones edited or
\* calls failed since (Process, Sync and syncZone).
THEOREM CloudflareCacheIsTruth == Spec => []CacheIsTruth
<1>1. ASSUME LockInv, SeenInv, SyncedInv PROVE CacheIsTruth
  <2> SUFFICES ASSUME pc = "idle", last # Nil, ~mode.dryRun
               PROVE  /\ \A h \in last.active : SettledFor(h) => Published(h)
                      /\ mode.cleanup => \A r \in records : IsOurs(r) /\ r.zone \notin stale =>
                             r.name \in last.active \cup last.ignored
    BY DEF CacheIsTruth
  <2>1. calls = {} /\ todo = {} /\ last = MeshHosts(seen)
    BY <1>1 DEF LockInv, CallsApart, SeenInv, LastAsSeen
  <2>2. ASSUME NEW h \in last.active, SettledFor(h) PROVE Published(h)
    <3>1. PICK z \in ZonesOf[h] : z \in Zone /\ h \in Placed(place.active, z)
      BY <1>1, <2>1, <2>2, AllPlaced DEF SeenInv, SettledFor
    <3>2. z \notin todo \cup stale
      BY <2>1, <2>2, <3>1 DEF SettledFor
    <3>3. Stands(h, z)
      BY <1>1, <2>1, <3>1, <3>2 DEF SyncedInv, HostsKept, Underway
    <3> QED
      BY <3>1, <3>3 DEF Published, Stands
  <2>3. ASSUME mode.cleanup, NEW r \in records, IsOurs(r), r.zone \notin stale
        PROVE  r.name \in last.active \cup last.ignored
    BY <1>1, <2>1, <2>3 DEF SyncedInv, OrphansDoomed
  <2> QED
    BY <2>2, <2>3
<1> QED
  BY <1>1, CloudflareInvariant, PTL

-----------------------------------------------------------------------------
\* What the parser takes from the rules is what they mean, and what they exclude.
LEMMA RoutedHosts ==
    ASSUME NEW svcs \in SUBSET Services
    PROVE  /\ Routed(svcs) \subseteq MeshHosts(svcs).active
           /\ MeshHosts(svcs).active \subseteq Routed(svcs) \cup Excluded(svcs)
           /\ MeshHosts(svcs).ignored \subseteq LeftAlone(svcs)
<1>1. \A svc \in svcs : \A r \in svc : r.managed \in BOOLEAN
  BY ConstantsOK DEF ConstantsOK, Router
<1>2. \A rule : /\ Means(rule) \subseteq ParseRule(rule)
                /\ ParseRule(rule) \subseteq Means(rule) \cup Negative(rule)
  BY DEF Means, Positive, Negative, ParseRule
<1> DEFINE Meant(svc, r) == IF ParseRule(r.rule) = {} THEN UNION {Means(s.rule) : s \in svc}
                            ELSE Means(r.rule)
           Barred(svc)   == UNION {Negative(r.rule) : r \in svc}
<1>3. ASSUME NEW svc \in svcs, NEW r \in svc
      PROVE  /\ Meant(svc, r) \subseteq RouterHosts(svc, r)
             /\ RouterHosts(svc, r) \subseteq Meant(svc, r) \cup Barred(svc)
  <2>1. CASE ParseRule(r.rule) = {}
    BY <1>2, <2>1 DEF RouterHosts, ServiceHosts
  <2>2. CASE ParseRule(r.rule) # {}
    BY <1>2, <2>2 DEF RouterHosts
  <2> QED
    BY <2>1, <2>2
<1> HIDE DEF Meant, Barred
<1>4. Routed(svcs) = UNION {UNION {Meant(svc, r) :
          r \in {x \in svc : x.rule # {} /\ x.managed /\ Passes(x)}} : svc \in svcs}
  BY DEF Routed, Meant
<1>5. Excluded(svcs) = UNION {Barred(svc) : svc \in svcs}
  BY DEF Excluded, Barred
<1>6. MeshHosts(svcs).active = HostsOf(svcs, TRUE) /\ MeshHosts(svcs).ignored = HostsOf(svcs, FALSE)
  BY DEF MeshHosts
<1>7. ASSUME NEW h \in Routed(svcs) PROVE h \in HostsOf(svcs, TRUE)
  <2>1. PICK svc \in svcs : h \in UNION {Meant(svc, r) :
                r \in {x \in svc : x.rule # {} /\ x.managed /\ Passes(x)}}
    BY <1>4, <1>7
  <2>2. PICK r \in svc : r.rule # {} /\ r.managed = TRUE /\ Passes(r) /\ h \in Meant(svc, r)
    BY <1>1, <2>1
  <2> QED
    BY <1>3, <2>2 DEF HostsOf
<1>8. ASSUME NEW h \in HostsOf(svcs, TRUE) PROVE h \in Routed(svcs) \cup Excluded(svcs)
  <2>1. PICK svc \in svcs : h \in UNION {RouterHosts(svc, r) :
                r \in {x \in svc : x.rule # {} /\ Passes(x) /\ x.managed = TRUE}}
    BY <1>8 DEF HostsOf
  <2>2. PICK r \in svc : /\ r.rule # {} /\ r.managed /\ Passes(r)
                         /\ h \in RouterHosts(svc, r)
    BY <2>1
  <2> QED
    BY <1>3, <1>4, <1>5, <2>2
<1>9. ASSUME NEW h \in HostsOf(svcs, FALSE) PROVE h \in LeftAlone(svcs)
  <2>1. PICK svc \in svcs : h \in UNION {RouterHosts(svc, r) :
                r \in {x \in svc : x.rule # {} /\ Passes(x) /\ x.managed = FALSE}}
    BY <1>9 DEF HostsOf
  <2>2. PICK r \in svc : r.rule # {} /\ ~r.managed /\ h \in RouterHosts(svc, r)
    BY <2>1
  <2> QED
    BY <2>2 DEF LeftAlone
<1> QED
  BY <1>6, <1>7, <1>8, <1>9

\* Whenever Process finds nothing to do, the zones are in step with the containers,
\* by what their rules mean to Traefik (Process, extractMeshHosts and parser.go): the
\* safety half of Converges.
THEOREM CloudflareIdleInStep == Spec => []IdleInStep
<1>1. ASSUME TypeOK, CacheIsTruth, pc = "idle", last = MeshHosts(containers)
      PROVE  InStep
  <2>1. containers \in SUBSET Services
    BY <1>1 DEF TypeOK
  <2>2. last # Nil
    <3>1. MeshHosts(containers) \in [active : SUBSET Host, ignored : SUBSET Host]
      BY <2>1, MeshHostsType
    <3> QED
      BY <1>1, <3>1, ConstantsOK DEF ConstantsOK
  <2> QED
    BY <1>1, <2>1, <2>2, RoutedHosts DEF InStep, CacheIsTruth
<1>2. TypeOK /\ CacheIsTruth => IdleInStep
  BY <1>1 DEF IdleInStep
<1> QED
  BY <1>2, CloudflareTypeCorrect, CloudflareCacheIsTruth, PTL
=============================================================================
