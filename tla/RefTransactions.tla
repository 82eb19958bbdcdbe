--------------------------- MODULE RefTransactions ---------------------------
(* What the reftable backend promises beyond RefMap: a transaction is a set of *)
(* updates that is made whole, at one instant at which every value it requires *)
(* is the current one, or not at all; and no name is ever a directory of       *)
(* another name.                                                               *)
EXTENDS Naturals

CONSTANTS
  Procs, Refs, None,
  Always,    \* an update without a required value
  NoPlan,    \* no transaction is open
  Plans,     \* transactions: functions from some refs to [val, exp]
  Clashing   \* pairs <<r, s>> where r is a directory of s

VARIABLES
  refs,  \* the value of every name, None when it does not exist
  want   \* the transaction each caller has asked for and that is still open

transVars == <<refs, want>>

(* No existing name is a directory of another.                                 *)
Coherent(m) == \A c \in Clashing : m[c[1]] = None \/ m[c[2]] = None

Expected(P, m) == \A r \in DOMAIN P : P[r].exp \in {Always, m[r]}

Applied(P, m) == [r \in Refs |-> IF r \in DOMAIN P THEN P[r].val ELSE m[r]]

Ask(p) ==
  /\ want[p] = NoPlan
  /\ \E P \in Plans : want' = [want EXCEPT ![p] = P]
  /\ UNCHANGED refs

Commit(p) ==
  /\ want[p] # NoPlan
  /\ Expected(want[p], refs)
  /\ refs' = Applied(want[p], refs)
  /\ Coherent(refs')
  /\ want' = [want EXCEPT ![p] = NoPlan]

Drop(p) ==
  /\ want' = [want EXCEPT ![p] = NoPlan]
  /\ UNCHANGED refs

TransInit ==
  /\ Coherent(refs)
  /\ want = [p \in Procs |-> NoPlan]

TransNext == \E p \in Procs : Ask(p) \/ Commit(p) \/ Drop(p)

(* A crash takes every caller of its process with it.                          *)
Abandon(S) ==
  /\ want' = [p \in Procs |-> IF p \in S THEN NoPlan ELSE want[p]]
  /\ UNCHANGED refs

TransSpec == TransInit /\ [][TransNext \/ \E S \in SUBSET Procs : Abandon(S)]_transVars
=============================================================================
