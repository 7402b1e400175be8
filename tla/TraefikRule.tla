---------------------------- MODULE TraefikRule ----------------------------
(***************************************************************************)
(* Router rules: what internal/traefik/parser.go finds in them, and what   *)
(* Traefik means by them.                                                  *)
(*                                                                         *)
(* A rule is the set of its matchers, as records                           *)
(*   hosts   : the arguments, when it is a Host() matcher; {} for a path   *)
(*   negated : it stands under a "!"                                       *)
(* Host() matchers are joined by ||, everything else by &&.  A router with *)
(* no rule has the rule {}.                                                *)
(***************************************************************************)
Matchers(Host) == [hosts : SUBSET Host, negated : BOOLEAN]

\* The regular expression finds every Host( ), whatever stands around it.
ParseRule(rule) == UNION {m.hosts : m \in rule}

Positive(rule) == UNION {m.hosts : m \in {x \in rule : ~x.negated}}
Negative(rule) == UNION {m.hosts : m \in {x \in rule : x.negated}}

\* What the rule says: the hosts it names and does not exclude.
Means(rule) == Positive(rule) \ Negative(rule)
=============================================================================
