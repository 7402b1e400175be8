----------------------------- MODULE MCNetBird -----------------------------
(***************************************************************************)
(* Instances of NetBird for TLC.  A service is a set of routers (see       *)
(* MeshHosts); t1 and t2 are the targets of n1 and n2, c is what somebody  *)
(* else wrote; x is a host that belongs to no zone, y one nobody routes, s *)
(* one that both nodes route.                                              *)
(***************************************************************************)
EXTENDS NetBird, TLC

CONSTANTS n1, n2,          \* nodes
          h1, h2, k1, s, x, y, \* hosts
          z1, z2,          \* zones
          t1, t2, c        \* record contents

Managed(hosts)   == [rule |-> TRUE, hosts |-> hosts, managed |-> TRUE]
Unmanaged(hosts) == [rule |-> TRUE, hosts |-> hosts, managed |-> FALSE]
NoRule           == [rule |-> FALSE, hosts |-> {}, managed |-> FALSE]
A(i, z, h, v)    == [id |-> i, zone |-> z, name |-> h, type |-> "A", content |-> v]

TwoTargets == n1 :> t1 @@ n2 :> t2
On         == [n \in Node |-> TRUE]
Off        == [n \in Node |-> FALSE]

\* Two zones side by side.
FlatZonesOf   == h1 :> {z1} @@ h2 :> {z2} @@ k1 :> {z1} @@ s :> {z2} @@ x :> {} @@ y :> {z1}

\* Both nodes may route s.  n1 leaves h2 alone while its container is there, and x
\* is in no zone.  A path-only rule takes all the hosts of its container.
Routed ==
    n1 :> {{Managed({h1, s}), Unmanaged({h2}), NoRule}}
    @@ n2 :> {{Managed({k1, x}), Managed({s}), Managed({})}}

Single == n1 :> {{Managed({h1})}} @@ n2 :> {}

\* A stale record, one n1 left behind, one of another type, one of nobody's.
Leftovers ==
    {A(1, z1, h1, c), A(2, z2, h2, t1),
     [id |-> 3, zone |-> z1, name |-> k1, type |-> "other", content |-> c],
     A(4, z1, y, c)}
Manual == {A(1, z1, h1, c)}
Nothing == {}
=============================================================================
