--------------------------- MODULE MCReftableStack ---------------------------
(* ReftableStack for TLC: two names and one beneath the first, two object ids, *)
(* small menus of transactions, and stacks of up to two tables to start from.  *)
EXTENDS ReftableStack, TLC

CONSTANTS a, b, ax, v1, v2, p1, p2, s1, s2

Update(v, e) == [val |-> v, exp |-> e]

(* A swap with a second ref, a deletion, and a creation that needs its gone.   *)
MCPlans ==
  { a :> Update(v2, v1) @@ b :> Update(v2, Always),
    a :> Update(None, Always),
    ax :> Update(v1, None) }

MCClashing == {<<a, ax>>}

Table(f) == f @@ [r \in Refs |-> NoRecord]

MCStacks == { <<Table(a :> v1), Table(b :> v1)>>, <<Table(a :> v1 @@ b :> v1), Table(a :> None)>> }

(* Two calls at a time in one session, and two processes one of which may fail  *)
(* or die once.                                                                *)
MCUses ==
  { [session |-> p1 :> s1 @@ p2 :> s1, ops |-> p1 :> {"update", "pack"} @@ p2 :> {"update", "read"},
     faults |-> 0, tables |-> 6],
    [session |-> p1 :> s1 @@ p2 :> s2, ops |-> p1 :> {"update", "pack"} @@ p2 :> {"pack"},
     faults |-> 1, tables |-> 5] }
=============================================================================
