---------------------------- MODULE MCCloudflare ----------------------------
(***************************************************************************)
(* An instance of Cloudflare for TLC: zone zi lies inside zone zo.  h1 is  *)
(* in both, h2 and m in zo alone, x in neither.                            *)
(***************************************************************************)
EXTENDS Cloudflare, TLC

CONSTANTS h1, h2, m, x, zi, zo, t, c, https

Hosts(hs)     == [hosts |-> hs, negated |-> FALSE]
Not(hs)       == [hosts |-> hs, negated |-> TRUE]
Path          == Hosts({})
R(rule, words) == [rule |-> rule, managed |-> TRUE, words |-> words]
Unmanaged(rule, words) == [rule |-> rule, managed |-> FALSE, words |-> words]
Rec(z, h, ty, v) == [zone |-> z, name |-> h, type |-> ty, content |-> v]

Deployments == {[cleanup |-> TRUE, dryRun |-> FALSE],
                [cleanup |-> FALSE, dryRun |-> FALSE],
                [cleanup |-> TRUE, dryRun |-> TRUE]}

InnerAndOuter == h1 :> {zi, zo} @@ h2 :> {zo} @@ m :> {zo} @@ x :> {}

\* A filtered router for h1 and x but not m; a path-only router beside one that the
\* filter hides; unmanaged routers, one of which has a filter label and no rule.
Containers ==
    {{R({Hosts({h1, x}), Not({m})}, {https})},
     {R({Path}, {https}), R({Hosts({h2})}, {})},
     {Unmanaged({Hosts({h2})}, {https}), Unmanaged({Hosts({m})}, {}),
      Unmanaged({}, {https})}}

\* An MX record of h1, a TXT record that names the target, and a leftover.
Found ==
    {WithId(1, Rec(zo, h1, "other", c)), WithId(2, Rec(zo, m, "other", t)),
     WithId(3, Rec(zo, h2, "CNAME", t))}
Hand == {Rec(zo, h2, "A", c), Rec(zi, h1, "CNAME", t)}
=============================================================================
