----------------------------- MODULE MeshHosts -----------------------------
(***************************************************************************)
(* What a DNS pipeline reads off the containers: the pure function         *)
(* extractMeshHosts of internal/dns/netbird/client.go.                     *)
(*                                                                         *)
(* A service is one container carrying traefik.enable=true, abstracted to  *)
(* the set of its Traefik routers.  A router is a record                   *)
(*   rule    : the label ...routers.<name>.rule is present and not empty   *)
(*   hosts   : the hosts ParseRule finds in that rule ({} if it has none)  *)
(*   managed : the label ...routers.<name>.mesh.managed is not "false"     *)
(* A router known only from its mesh.managed label has rule = FALSE.       *)
(***************************************************************************)

\* svc.Hosts: the watcher collects the hosts of every rule of the container.
ServiceHosts(svc) == UNION {r.hosts : r \in svc}

\* A rule with no Host() matcher stands for all the hosts of its container.
RouterHosts(svc, r) == IF r.hosts = {} THEN ServiceHosts(svc) ELSE r.hosts

\* The hosts of the routers of svc that carry a rule and are (un)managed.
HostsManaged(svc, m) ==
    UNION {RouterHosts(svc, r) : r \in {x \in svc : x.rule /\ x.managed = m}}

ActiveHosts(services)  == UNION {HostsManaged(svc, TRUE)  : svc \in services}
IgnoredHosts(services) == UNION {HostsManaged(svc, FALSE) : svc \in services}

\* The two maps extractMeshHosts returns; a host may well be in both.
MeshHosts(services) ==
    [active |-> ActiveHosts(services), ignored |-> IgnoredHosts(services)]
=============================================================================
