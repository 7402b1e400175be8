------------------------------ MODULE MCGatus ------------------------------
(***************************************************************************)
(* An instance of Gatus for TLC: the endpoints a/x, (a/b)/x and a/(b/x),   *)
(* of which the last two have one key, and three whose name the bridge     *)
(* misreads.  The segment and is "x&1", so that the DELETE of a/and names  *)
(* a/x; cut is "x#1", whose DELETE has no group and names nothing; s has a *)
(* space, and its DELETE is refused.                                       *)
(***************************************************************************)
EXTENDS Gatus, TLC

CONSTANTS r1, r2, r3, a, b, x, s, and, cut

EP(g, n) == [group |-> g, name |-> n]
Plain    == EP(<<a>>, <<x>>)
InGroup  == EP(<<a, b>>, <<x>>)
InName   == EP(<<a>>, <<b, x>>)
Unsafe   == EP(<<a>>, <<s>>)
WithAnd  == EP(<<a>>, <<and>>)
WithHash == EP(<<a>>, <<cut>>)

AllEndpoints == {Plain, InGroup, InName, Unsafe, WithAnd, WithHash}
Made         == r1 :> Plain @@ r2 :> InGroup @@ r3 :> InName
Leftovers    == {InName, Unsafe, WithAnd}

Readings == [e \in {SplitKey(k) : k \in Keys} |->
                CASE e = Unsafe   -> Refused
                  [] e = WithAnd  -> Plain
                  [] e = WithHash -> EP(<<>>, <<x>>)
                  [] OTHER        -> e]
=============================================================================
