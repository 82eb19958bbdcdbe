----------------------------- MODULE MCIndexLock -----------------------------
(* IndexLock for TLC: two values are enough to tell an edit from its absence.  *)
EXTENDS IndexLock
MCVals == {0, 1}
=============================================================================
