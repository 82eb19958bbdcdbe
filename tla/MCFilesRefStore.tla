--------------------------- MODULE MCFilesRefStore ---------------------------
(* FilesRefStore for TLC: two refs, two object ids and small menus of calls.   *)
EXTENDS FilesRefStore, TLC

CONSTANTS a, b, c, v1, v2, p1, p2

Put(r, v) == [name |-> r, val |-> v, exp |-> Always]
Cas(r, e, v) == [name |-> r, val |-> v, exp |-> e]
Del(r) == Put(r, None)
Tx(runs) == [kind |-> "update", runs |-> runs]
Read(r) == [kind |-> "read", name |-> r]
PackAll == [kind |-> "pack"]

Use(ops, crashes, coarse, vals, stamps) ==
  [ops |-> ops, crashes |-> crashes, coarseClock |-> coarse, vals |-> vals, maxStamp |-> stamps]

(* One process deletes and sets, the other creates, sets and reads.            *)
DeleterAndSetter ==
  p1 :> {Tx(<<{Del(a), Del(b)}>>), Tx(<<{Put(a, v1)}>>)}
  @@ p2 :> {Tx(<<{Cas(a, None, v2)}, {Put(b, v2)}>>), Read(a)}

(* A process on its own, packing between its transactions.                     *)
LonePacker ==
  p1 :> {PackAll, Tx(<<{Del(a)}>>), Tx(<<{Put(a, v1)}, {Put(b, v2)}>>), Tx(<<{Cas(b, v2, v1)}>>)}
  @@ p2 :> {}

(* Everybody in everybody's way: packing, setting and deleting, with no lock    *)
(* between packRefs and the rest.                                              *)
Contenders ==
  p1 :> {PackAll, Tx(<<{Del(a)}>>)} @@ p2 :> {Tx(<<{Put(a, v1)}>>), Tx(<<{Del(b)}>>)}

AllMenus ==
  {Use(DeleterAndSetter, TRUE, TRUE, {v1, v2}, 3), Use(LonePacker, FALSE, TRUE, {v1, v2}, 3),
   Use(Contenders, FALSE, FALSE, {v1}, 1)}

(* Two processes that delete different refs, again and again.                  *)
TwoDeleters ==
  {Use(p1 :> {Tx(<<{Del(a)}>>), Tx(<<{Del(c)}>>)} @@ p2 :> {Tx(<<{Del(b)}>>)}, FALSE, FALSE, {v1, v2}, 3)}
=============================================================================
