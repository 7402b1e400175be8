------------------------- MODULE NetBirdRefinement -------------------------
(***************************************************************************)
(* NetBird implements OwnedRecords, on the names only one node routes, in  *)
(* every deployment where no zone is inside another.  The steps of a       *)
(* pipeline map to: Process and Restart to Decide, a PUT to Claim, a POST  *)
(* to Add, a DELETE to Remove; everything else, and every call for a name  *)
(* that several nodes route, to a stuttering step.                         *)
(***************************************************************************)
EXTENDS NetBirdProofs

\* What is planned for a Sync was wanted when it began, and still is.
LEMMA InitPlansWanted == Init => PlansWanted
BY DEF Init, PlansWanted, NoBucket

LEMMA ProcessPlansWanted ==
    ASSUME TypeOK, SafetyInv, PlansWanted, NEW n \in Node, Process(n)
    PROVE  PlansWanted'
<1> DEFINE hosts == MeshHosts(containers[n])
<1>1. PICK a \in Bucketings(hosts.active), i \in Bucketings(hosts.ignored) :
        bucket' = [bucket EXCEPT ![n] = [active |-> a, ignored |-> i]]
  BY DEF Process
<1>2. /\ want' = [want EXCEPT ![n] = hosts]
      /\ upserts' = upserts
      /\ upserts[n] = {}
  BY DEF Process, SafetyInv, IdlePlansNothing, ZoneDone
<1>3. hosts.active \in SUBSET Host
  BY MeshHostsType DEF HostSets, TypeOK
<1>4. \A z \in Zone : a[z] \subseteq hosts.active
  BY <1>3, BucketingsType
<1> SUFFICES ASSUME NEW m \in Node
             PROVE  /\ \A z \in Zone : bucket'[m].active[z] \subseteq want'[m].active
                    /\ \A call \in upserts'[m] : call.host \in want'[m].active
  BY DEF PlansWanted
<1>5. CASE m = n
  BY <1>1, <1>2, <1>4, <1>5 DEF TypeOK
<1>6. CASE m # n
  BY <1>1, <1>2, <1>6 DEF TypeOK, PlansWanted
<1> QED
  BY <1>5, <1>6

LEMMA SyncZonePlansWanted ==
    ASSUME TypeOK, SafetyInv, PlansWanted, NEW n \in Node, NEW z \in Zone, SyncZone(n, z)
    PROVE  PlansWanted'
<1>1. UNCHANGED <<want, bucket>>
  BY DEF SyncZone
<1> SUFFICES ASSUME NEW m \in Node, NEW call \in upserts'[m]
             PROVE  call.host \in want[m].active
  BY <1>1 DEF PlansWanted
<1>2. CASE call \in upserts[m]
  BY <1>2 DEF PlansWanted
<1>3. ASSUME m = n, NEW first \in FirstRecords(z, bucket[n].active[z]),
             call \in UpsertsFor(n, z, first)
      PROVE  call.host \in want[m].active
  BY <1>3, UpsertsForMatch DEF PlansWanted, SafetyInv
<1> QED
  BY <1>2, <1>3 DEF SyncZone, TypeOK

LEMMA StepPlansWanted ==
    TypeOK /\ SafetyInv /\ PlansWanted /\ [Next]_vars => PlansWanted'
<1> SUFFICES ASSUME TypeOK, SafetyInv, PlansWanted, [Next]_vars PROVE PlansWanted'
  OBVIOUS
<1>1. ASSUME UNCHANGED <<want, bucket>>, \A m \in Node : upserts'[m] \subseteq upserts[m]
      PROVE  PlansWanted'
  BY <1>1 DEF PlansWanted
<1>2. ASSUME NEW n \in Node, NEW c \in upserts[n], Upsert(n, c) PROVE PlansWanted'
  BY <1>1, <1>2 DEF Upsert, TypeOK
<1>3. ASSUME NEW n \in Node, Restart(n) PROVE PlansWanted'
  <2> SUFFICES ASSUME NEW m \in Node
               PROVE  /\ \A z \in Zone : bucket'[m].active[z] \subseteq want'[m].active
                      /\ \A call \in upserts'[m] : call.host \in want'[m].active
    BY DEF PlansWanted
  <2>1. CASE m = n
    BY <1>3, <2>1 DEF Restart, TypeOK, NoHosts, NoBucket
  <2>2. CASE m # n
    BY <1>3, <2>2 DEF Restart, TypeOK, PlansWanted
  <2> QED
    BY <2>1, <2>2
<1>4. ASSUME UNCHANGED <<want, bucket, upserts>> PROVE PlansWanted'
  BY <1>1, <1>4
<1>5. ASSUME NEW n \in Node, \/ \E id \in deletes[n] : Delete(n, id)
                             \/ FinishSync(n)
                             \/ CreateContainer(n)
                             \/ RemoveContainer(n)
      PROVE  PlansWanted'
  BY <1>4, <1>5 DEF Delete, FinishSync, CreateContainer, RemoveContainer, Change
<1>6. CASE UNCHANGED vars
  BY <1>4, <1>6 DEF vars
<1> QED
  BY <1>2, <1>3, <1>5, <1>6, ProcessPlansWanted, SyncZonePlansWanted
  DEF Next, Companion, Environment
-----------------------------------------------------------------------------
\* The state of OwnedRecords: what is wanted of the unshared names.
Wanted(hosts) == [active |-> hosts.active \ Shared, ignored |-> hosts.ignored \ Shared]

Unheeded == <<Entries(records), [n \in Node |-> Wanted(want[n])]>>

\* Forgetting the ids loses no record, as no unshared name has two in a zone.
LEMMA EntryInjective ==
    ASSUME SafetyInv, NEW r \in Unshared(records), NEW s \in Unshared(records),
           Entry(r) = Entry(s)
    PROVE  r = s
BY DEF Entry, SafetyInv, NoDuplicateRecords, OnePerName

LEMMA PutClaims ==
    ASSUME TypeOK, SafetyInv, PlansWanted, NEW n \in Node, NEW c \in upserts[n],
           c.op = "PUT", ApplyPut(n, c), UNCHANGED want
    PROVE  Owned!Claim(n) \/ UNCHANGED Unheeded
<1>1. \A s \in records : /\ Updated(n, c, s).name = s.name
                         /\ s.id # c.id => Updated(n, c, s) = s
  <2>1. \A s \in records : Updated(n, c, s).name = s.name
    BY PutUpdates DEF SafetyInv, PlanInv
  <2>2. \A s \in records : s.id # c.id => Updated(n, c, s) = s
    BY DEF Updated
  <2> QED
    BY <2>1, <2>2
<1>2. CASE \A r \in Unshared(records) : r.id # c.id
  <2>1. Unshared(records') = Unshared(records)
    BY <1>1, <1>2 DEF ApplyPut, Unshared
  <2> QED
    BY <2>1 DEF Unheeded, Entries, Wanted
<1>3. CASE \E r \in Unshared(records) : r.id = c.id
  <2>1. PICK r \in Unshared(records) : r.id = c.id
    BY <1>3
  <2>2. /\ r.name = c.host
        /\ c.host \in want[n].active \ Shared
        /\ r \in Record
    BY <2>1 DEF SafetyInv, PutsKeepNames, PlansWanted, TypeOK, Unshared
  <2> DEFINE d == [zone |-> r.zone, name |-> r.name, type |-> "A", content |-> Target[n]]
  <2>3. Entry(Updated(n, c, r)) = d
    <3> DEFINE u == Updated(n, c, r)
    <3>1. u.zone = r.zone /\ u.name = r.name /\ u.type = "A" /\ u.content = Target[n]
      BY <2>1, <2>2 DEF Updated, Record
    <3> QED
      BY <3>1 DEF Entry
  <2>4. \A s \in Unshared(records) :
           s # r => Updated(n, c, s) = s /\ Entry(s) # Entry(r)
    BY <1>1, <2>1, EntryInjective DEF SafetyInv, IdsFresh, Unshared
  <2>5. \A s \in Unshared(records') :
           s = Updated(n, c, r) \/ (s \in Unshared(records) /\ s # r)
    BY <1>1, <2>4 DEF ApplyPut, Unshared
  <2>6. /\ Updated(n, c, r) \in Unshared(records')
        /\ \A s \in Unshared(records) : s # r => s \in Unshared(records')
    BY <1>1, <2>1, <2>4 DEF ApplyPut, Unshared
  <2>7. Entries(records') = (Entries(records) \ {Entry(r)}) \cup {d}
    BY <2>1, <2>3, <2>4, <2>5, <2>6 DEF Entries
  <2>8. /\ Entry(r) \in Entries(records)
        /\ Entry(r).name \in want[n].active \ Shared
    BY <2>1, <2>2 DEF Entry, Entries
  <2>9. d = Owned!EntryOf(n, Entry(r).zone, Entry(r).name)
    BY DEF Entry, Owned!EntryOf
  <2> HIDE DEF d
  <2> QED
    BY <2>7, <2>8, <2>9 DEF Owned!Claim
<1> QED
  BY <1>2, <1>3

LEMMA PostAdds ==
    ASSUME TypeOK, SafetyInv, PlansWanted, NEW n \in Node, NEW c \in upserts[n],
           c.op = "POST", ApplyPost(n, c), UNCHANGED want
    PROVE  Owned!Add(n) \/ UNCHANGED Unheeded
<1> DEFINE new == [id |-> nextId, zone |-> c.zone, name |-> c.host, type |-> "A",
                   content |-> Target[n]]
           entry == [zone |-> c.zone, name |-> c.host, type |-> "A",
                     content |-> Target[n]]
<1>1. records' = records \cup {new} /\ Entry(new) = entry
  BY DEF ApplyPost, Entry
<1>2. CASE c.host \in Shared
  <2>1. Unshared(records') = Unshared(records)
    BY <1>1, <1>2 DEF Unshared
  <2> QED
    BY <2>1 DEF Unheeded, Entries, Wanted
<1>3. CASE c.host \notin Shared
  <2>1. c.zone \in Zone /\ c.host \in want[n].active \ Shared
    BY <1>3 DEF TypeOK, Call, PlansWanted
  <2>2. \A e \in Entries(records) : ~(e.zone = c.zone /\ e.name = c.host)
    BY <1>3 DEF SafetyInv, PostsFillGaps, Entry, Entries, Unshared
  <2>3. Unshared(records') = Unshared(records) \cup {new}
    BY <1>1, <1>3 DEF Unshared
  <2>4. Entries(records') = Entries(records) \cup {entry}
    <3> HIDE DEF new, entry
    <3> QED
      BY <1>1, <2>3 DEF Entries
  <2> QED
    BY <2>1, <2>2, <2>4 DEF Owned!Add, Owned!EntryOf
<1> QED
  BY <1>2, <1>3

LEMMA DeleteRemoves ==
    ASSUME TypeOK, SafetyInv, FlatInv, NEW n \in Node, NEW id \in deletes[n],
           records' = {r \in records : r.id # id}, UNCHANGED want
    PROVE  Owned!Remove(n) \/ UNCHANGED Unheeded
<1>1. CASE \A r \in Unshared(records) : r.id # id
  <2>1. Unshared(records') = Unshared(records)
    BY <1>1 DEF Unshared
  <2> QED
    BY <2>1 DEF Unheeded, Entries, Wanted
<1>2. CASE \E r \in Unshared(records) : r.id = id
  <2>1. PICK r \in Unshared(records) : r.id = id
    BY <1>2
  <2>2. r.content = Target[n] /\ r.type = "A"
    BY <2>1 DEF SafetyInv, OwnDeletesOnly, Unshared
  <2>3. \A m \in Node : r.name \notin want[m].active \cup want[m].ignored
    BY <2>1 DEF FlatInv, WantedNeverDeleted, Unshared
  <2>4. \A s \in Unshared(records) :
           s # r => s \in Unshared(records') /\ Entry(s) # Entry(r)
    BY <2>1, EntryInjective DEF SafetyInv, IdsFresh, Unshared
  <2>5. Unshared(records') \subseteq Unshared(records) \ {r}
    BY <2>1 DEF Unshared
  <2>6. Entries(records') = Entries(records) \ {Entry(r)}
    BY <2>1, <2>4, <2>5 DEF Entries
  <2>7. Owned!Mine(n, Entry(r)) /\ Owned!Free(Entry(r).name)
    BY <2>2, <2>3 DEF Owned!Mine, Owned!EntryOf, Owned!Free, Entry
  <2>8. Entry(r) \in Entries(records)
    BY <2>1 DEF Entries
  <2> QED
    BY <2>6, <2>7, <2>8 DEF Owned!Remove
<1> QED
  BY <1>1, <1>2

LEMMA StepOwned ==
    ASSUME TypeOK, SafetyInv, FlatInv, PlansWanted, [Next]_vars
    PROVE  [Owned!Next]_Unheeded
<1>1. ASSUME NEW n \in Node, NEW hosts \in HostSets,
             hosts.active \subseteq HostsOf(n), hosts.ignored \subseteq HostsOf(n),
             want' = [want EXCEPT ![n] = hosts], UNCHANGED records
      PROVE  Owned!Decide(n)
  <2>1. Wanted(hosts) \in [active : SUBSET (HostsOf(n) \ Shared),
                           ignored : SUBSET (HostsOf(n) \ Shared)]
    BY <1>1 DEF HostSets, Wanted
  <2>2. [m \in Node |-> Wanted(want'[m])]
          = [[m \in Node |-> Wanted(want[m])] EXCEPT ![n] = Wanted(hosts)]
    BY <1>1 DEF TypeOK
  <2> QED
    BY <1>1, <2>1, <2>2 DEF Owned!Decide, Wanted
<1>2. ASSUME NEW n \in Node, Process(n) PROVE Owned!Decide(n)
  BY <1>1, <1>2, MeshHostsBound, MeshHostsType DEF Process, TypeOK
<1>3. ASSUME NEW n \in Node, Restart(n) PROVE Owned!Decide(n)
  BY <1>1, <1>3 DEF Restart, NoHosts, HostSets
<1>a. ASSUME UNCHANGED <<records, want>> PROVE UNCHANGED Unheeded
  BY <1>a DEF Unheeded, Entries, Unshared, Wanted
<1>4. ASSUME NEW n \in Node, NEW c \in upserts[n], Upsert(n, c)
      PROVE  Owned!Claim(n) \/ Owned!Add(n) \/ UNCHANGED Unheeded
  <2>1. UNCHANGED want
    BY <1>4 DEF Upsert
  <2> QED
    BY <1>4, <1>a, <2>1, PutClaims, PostAdds DEF Upsert
<1>5. ASSUME NEW n \in Node, NEW id \in deletes[n], Delete(n, id)
      PROVE  Owned!Remove(n) \/ UNCHANGED Unheeded
  <2>1. UNCHANGED want
    BY <1>5 DEF Delete
  <2> QED
    BY <1>5, <1>a, <2>1, DeleteRemoves DEF Delete
<1>6. ASSUME NEW n \in Node, \/ \E z \in Zone : SyncZone(n, z)
                             \/ FinishSync(n)
                             \/ CreateContainer(n)
                             \/ RemoveContainer(n)
      PROVE  UNCHANGED Unheeded
  BY <1>6, <1>a DEF SyncZone, FinishSync, CreateContainer, RemoveContainer, Change
<1>7. CASE UNCHANGED vars
  BY <1>7, <1>a DEF vars
<1>8. CASE Next
  BY <1>2, <1>3, <1>4, <1>5, <1>6, <1>8
  DEF Next, Companion, Environment, Owned!Next
<1> QED
  BY <1>7, <1>8

LEMMA InitOwned == Deployment /\ Init => Owned!Init
<1> SUFFICES ASSUME Deployment, Init PROVE Owned!Init
  OBVIOUS
<1>1. \A r, s \in records : r.zone = s.zone /\ r.name = s.name => r = s
  BY DEF Init, Deployment, OnePerName
<1>2. \A d, e \in Entries(records) : d.zone = e.zone /\ d.name = e.name => d = e
  BY <1>1 DEF Entry, Entries, Unshared
<1> QED
  BY <1>2 DEF Init, NoHosts, Owned!Init

\* The pipelines of any number of nodes, with their lists, plans, lost calls and
\* restarts, do nothing to the account that OwnedRecords does not allow.
THEOREM NetBirdImplementsOwnedRecords ==
    Deployment /\ FlatZones /\ Spec => ImplementsOwnedRecords
<1> SUFFICES ASSUME Deployment, FlatZones PROVE Spec => ImplementsOwnedRecords
  OBVIOUS
<1>1. Init => Owned!Init
  BY InitOwned
<1>2. TypeOK /\ SafetyInv /\ FlatInv /\ PlansWanted /\ [Next]_vars
        => [Owned!Next]_Unheeded
  BY StepOwned
<1>3. Init => PlansWanted
  BY InitPlansWanted
<1>4. TypeOK /\ SafetyInv /\ PlansWanted /\ [Next]_vars => PlansWanted'
  BY StepPlansWanted
<1> QED
  BY <1>1, <1>2, <1>3, <1>4, TypeCorrect, SafetyInvHolds, FlatInvHolds, PTL
  DEF Spec, ImplementsOwnedRecords, Owned!Spec, Unheeded, Wanted

-----------------------------------------------------------------------------
\* What a step may do to a record: nothing, or make it the record of a node that
\* routes its name, or remove one that is the node's own; and what it may create.
\* A shared name may also change under a DELETE that was planned.
LEMMA RecordSteps ==
    ASSUME TypeOK, SafetyInv, [Next]_vars
    PROVE  \/ UNCHANGED records
           \/ \E n \in Node :
                 /\ ~DryRun[n]
                 /\ \A r \in records : \/ r \in records'
                                       \/ r.name \in HostsOf(n) \cup Shared
                                       \/ r.content = Target[n]
                 /\ \A s \in records' : \/ s \in records
                                        \/ s.content = Target[n]
<1>1. ASSUME NEW n \in Node, NEW c \in upserts[n], ApplyPut(n, c), c.op = "PUT"
      PROVE  /\ \A r \in records : r \in records' \/ r.name \in HostsOf(n)
             /\ \A s \in records' : s \in records \/ s.content = Target[n]
  <2>1. \A r \in records : r.id = c.id => r.name \in HostsOf(n)
    BY <1>1 DEF SafetyInv, PutsKeepNames, PlansOwnHosts
  <2>2. \A r \in records : /\ r.id # c.id => Updated(n, c, r) = r
                           /\ r.id = c.id => Updated(n, c, r).content = Target[n]
    BY DEF Updated, TypeOK, Record
  <2> QED
    BY <1>1, <2>1, <2>2 DEF ApplyPut
<1>2. ASSUME NEW n \in Node, NEW c \in upserts[n], ApplyPost(n, c)
      PROVE  /\ \A r \in records : r \in records'
             /\ \A s \in records' : s \in records \/ s.content = Target[n]
  BY <1>2 DEF ApplyPost
<1>3. ASSUME NEW n \in Node, NEW id \in deletes[n], records' = {r \in records : r.id # id}
      PROVE  /\ \A r \in records : \/ r \in records' \/ r.content = Target[n]
                                   \/ r.name \in Shared
             /\ \A s \in records' : s \in records
  BY <1>3 DEF SafetyInv, OwnDeletesOnly
<1>4. ASSUME NEW n \in Node, \/ Process(n)
                             \/ \E z \in Zone : SyncZone(n, z)
                             \/ FinishSync(n)
                             \/ Environment(n)
      PROVE  UNCHANGED records
  BY <1>4 DEF Process, SyncZone, FinishSync, Environment, Restart,
     CreateContainer, RemoveContainer, Change
<1>5. CASE UNCHANGED vars
  BY <1>5 DEF vars
<1>6. ASSUME NEW n \in Node, NEW c \in upserts[n], Upsert(n, c)
      PROVE  \/ UNCHANGED records
             \/ ~DryRun[n] /\ c.op = "PUT" /\ ApplyPut(n, c)
             \/ ~DryRun[n] /\ ApplyPost(n, c)
  BY <1>6 DEF Upsert
<1>7. ASSUME NEW n \in Node, NEW id \in deletes[n], Delete(n, id)
      PROVE  \/ UNCHANGED records
             \/ ~DryRun[n] /\ records' = {r \in records : r.id # id}
  BY <1>7 DEF Delete
<1>8. ASSUME NEW n \in Node, NEW c \in upserts[n], Upsert(n, c), records' # records
      PROVE  /\ ~DryRun[n]
             /\ \A r \in records : r \in records' \/ r.name \in HostsOf(n)
             /\ \A s \in records' : s \in records \/ s.content = Target[n]
  BY <1>1, <1>2, <1>6, <1>8
<1>9. ASSUME NEW n \in Node, NEW id \in deletes[n], Delete(n, id), records' # records
      PROVE  /\ ~DryRun[n]
             /\ \A r \in records : \/ r \in records' \/ r.content = Target[n]
                                   \/ r.name \in Shared
             /\ \A s \in records' : s \in records
  BY <1>3, <1>7, <1>9
<1> QED
  BY <1>4, <1>5, <1>8, <1>9 DEF Next, Companion

\* A record of a name that no node routes and with a content that no node writes
\* is out of the pipelines' reach for ever.
THEOREM ForeignRecordsSafe == Deployment /\ Spec => ForeignRecordsStay
<1>1. TypeOK /\ SafetyInv /\ [Next]_vars =>
        [\A r \in records :
            (\A n \in Node : r.name \notin HostsOf(n) /\ r.content # Target[n])
               => r \in records']_records
  <2>1. \A h \in Shared : \E n \in Node : h \in HostsOf(n)
    BY DEF Shared
  <2> QED
    BY <2>1, RecordSteps
<1> QED
  BY <1>1, TypeCorrect, SafetyInvHolds, PTL DEF Spec, ForeignRecordsStay

\* In dry-run mode a node leaves the records that point at it as they are, and so do
\* the other nodes, but for the names they share.
THEOREM DryRunHolds == Deployment /\ Spec => DryRunWritesNothing
<1> SUFFICES ASSUME Deployment PROVE Spec => DryRunWritesNothing
  OBVIOUS
<1>1. ASSUME TypeOK, SafetyInv, [Next]_vars
      PROVE  [\A n \in Node : DryRun[n] =>
                {r \in records' : r.content = Target[n] /\ r.name \notin Shared}
              = {r \in records : r.content = Target[n] /\ r.name \notin Shared}]_records
  <2> SUFFICES ASSUME NEW n \in Node, DryRun[n], NEW m \in Node, ~DryRun[m],
                      \A r \in records : \/ r \in records'
                                         \/ r.name \in HostsOf(m) \cup Shared
                                         \/ r.content = Target[m],
                      \A s \in records' : s \in records \/ s.content = Target[m]
               PROVE  {r \in records' : r.content = Target[n] /\ r.name \notin Shared}
                    = {r \in records : r.content = Target[n] /\ r.name \notin Shared}
    BY <1>1, RecordSteps
  <2>1. Target[m] # Target[n]
    BY DEF Deployment, OwnTargets
  <2>2. \A r \in records : r.content = Target[n] => r.name \notin HostsOf(m) \ Shared
    BY <1>1 DEF SafetyInv, TargetsApart
  <2> QED
    BY <2>1, <2>2
<1> QED
  BY <1>1, TypeCorrect, SafetyInvHolds, PTL DEF Spec, DryRunWritesNothing
=============================================================================
