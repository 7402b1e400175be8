--------------------------- MODULE MCStatusPages ---------------------------
(***************************************************************************)
(* Instances of StatusPages for TLC: one page p1, monitor m1 of this node  *)
(* and m2 of a client node, groups g1 and g2.                              *)
(***************************************************************************)
EXTENDS StatusPages

CONSTANTS p1, m1, m2, g1, g2, d

Attaching(m, g) == [monitor |-> m, pages |-> [q \in Page |-> g]]

OneAttach  == {[slug |-> None, domain |-> None, attach |-> Attaching(m1, g1)]}
WithBinding == OneAttach \cup {[slug |-> p1, domain |-> d, attach |-> None]}
FromClient == {Attaching(m2, g2)}

\* The page is missing, or m1 is in the wrong group and m2 in none.
MissingOrOld ==
    {[q \in Page |-> None],
     [q \in Page |-> [groups |-> [names |-> {g2},
                                  in |-> [m \in Monitor |-> IF m = m1 THEN {g2} ELSE {}]],
                      domains |-> {}]]}
=============================================================================
