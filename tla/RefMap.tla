------------------------------- MODULE RefMap -------------------------------
(* What a ref store promises: a map from names to values.  A caller asks for a *)
(* set of writes (a value of None is a deletion); each is made at one instant, *)
(* at most once, on its own ref, or is given up: refused, failed, or overtaken *)
(* by another write.  Nothing else ever moves a ref.                           *)
EXTENDS Naturals

CONSTANTS Procs, Refs, Vals, None

VARIABLES
  refs,  \* the value of every name, None when it does not exist
  want   \* the writes each caller has asked for and that are still open

mapVars == <<refs, want>>

Writes == Refs \X (Vals \cup {None})

MapInit ==
  /\ refs \in [Refs -> Vals \cup {None}]
  /\ want = [p \in Procs |-> {}]

Ask(p) ==
  /\ want[p] = {}
  /\ \E W \in SUBSET Writes : want' = [want EXCEPT ![p] = W]
  /\ UNCHANGED refs

(* Made is done now, Dropped will never be done.                               *)
Settle(p) ==
  \E Made, Dropped \in SUBSET want[p] :
    /\ want' = [want EXCEPT ![p] = @ \ (Made \cup Dropped)]
    /\ \A r \in Refs :
         \/ <<r, refs'[r]>> \in Made
         \/ refs'[r] = refs[r] /\ ~\E v \in Vals \cup {None} : <<r, v>> \in Made
    /\ refs' \in [Refs -> Vals \cup {None}]

MapNext == \E p \in Procs : Ask(p) \/ Settle(p)

MapSpec == MapInit /\ [][MapNext]_mapVars
=============================================================================
