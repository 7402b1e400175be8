---------------------------- MODULE OwnedRecords ----------------------------
(***************************************************************************)
(* What a DNS pipeline promises, whatever the provider: the owners share   *)
(* the entries of some zones, and each brings those of its own names in    *)
(* step with what it wants, one entry at a time, in no given order.        *)
(*                                                                         *)
(* Nothing is said here of lists, calls, ids, caches, failures or crashes; *)
(* an implementation that plans its changes on an old list must make each  *)
(* of them at a moment at which this specification still allows it.        *)
(***************************************************************************)
CONSTANTS
    Owner,      \* the companions
    Zone,       \* the zones they share
    Names,      \* Names[o]: the names o may ever want
    ContentOf,  \* ContentOf[o]: what the entries of o say
    TypeOf      \* TypeOf[o]: and their type

VARIABLES
    entries,    \* records [zone, name, type, content]
    want        \* want[o]: the names o wants served, and those to leave alone

EntryOf(o, z, h) ==
    [zone |-> z, name |-> h, type |-> TypeOf[o], content |-> ContentOf[o]]

Mine(o, e) == e = EntryOf(o, e.zone, e.name)

\* Nobody wants this name changed or removed.
Free(name) == \A o \in Owner : name \notin want[o].active \cup want[o].ignored

Init ==
    /\ \A d, e \in entries : d.zone = e.zone /\ d.name = e.name => d = e
    /\ want = [o \in Owner |-> [active |-> {}, ignored |-> {}]]

\* An owner changes its mind, or forgets what it wanted.
Decide(o) ==
    /\ \E hosts \in [active : SUBSET Names[o], ignored : SUBSET Names[o]] :
          want' = [want EXCEPT ![o] = hosts]
    /\ UNCHANGED entries

\* The entry of a wanted name becomes the owner's, in place.
Claim(o) ==
    /\ \E e \in entries :
          /\ e.name \in want[o].active
          /\ entries' = (entries \ {e}) \cup {EntryOf(o, e.zone, e.name)}
    /\ UNCHANGED want

\* A wanted name that has no entry in a zone gets one.
Add(o) ==
    /\ \E z \in Zone, h \in want[o].active :
          /\ \A e \in entries : ~(e.zone = z /\ e.name = h)
          /\ entries' = entries \cup {EntryOf(o, z, h)}
    /\ UNCHANGED want

\* Only an entry of the owner goes, and only if no owner at all wants its name.
Remove(o) ==
    /\ \E e \in entries : Mine(o, e) /\ Free(e.name) /\ entries' = entries \ {e}
    /\ UNCHANGED want

Next == \E o \in Owner : Decide(o) \/ Claim(o) \/ Add(o) \/ Remove(o)

Spec == Init /\ [][Next]_<<entries, want>>
=============================================================================
