--------------------------- MODULE MCKumaMonitors ---------------------------
(***************************************************************************)
(* An instance of KumaMonitors for TLC.                                    *)
(***************************************************************************)
EXTENDS KumaMonitors

CONSTANTS a, b, url, t

L(level, key, value) == [level |-> level, key |-> key, value |-> value]

\* A router for a and one for a path on any host; the container is managed.
Web == [name |-> "web", hosts |-> {a, b}, tags |-> {t},
        labels |-> {L(3, "managed", "true"), L(4, "name", "site")},
        routers |-> {[name |-> "r", host |-> a, labels |-> {}],
                     [name |-> "p", host |-> Nil, labels |-> {L(1, "name", "any")}]}]

\* A copy of its first router, which overrides what its container says.
Copy == [name |-> "copy", hosts |-> {a}, tags |-> {t},
         labels |-> {L(4, "name", "copy"), L(3, "enable", "false")},
         routers |-> {[name |-> "r", host |-> a,
                       labels |-> {L(1, "enable", "true"), L(2, "name", "site")}]}]

\* A worker without rules that wants a monitor of its own.
Worker == [name |-> "worker", hosts |-> {}, tags |-> {},
           labels |-> {L(3, "enable", "true"), L(3, "url", url),
                       L(4, "allow_duplicates", "true")},
           routers |-> {}]

All == {Web, Copy, Worker}
SiteKey == {<<<<a, Nil>>, "site">>}
=============================================================================
