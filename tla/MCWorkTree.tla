------------------------------ MODULE MCWorkTree ------------------------------
(* WorkTree for TLC: contents a and b of one length, and the empty one, which    *)
(* every other begins with.                                                     *)
EXTENDS WorkTree, TLC

MCSize == [c \in Contents |-> IF c = "empty" THEN 0 ELSE 1]
MCCut(c, n) == IF Size[c] = n THEN c ELSE "empty"
MCTrees == {[p \in Paths |-> "a"], [p \in Paths |-> "b"]}
MCFirst == [p \in Paths |-> "a"]
MCSymmetry == Permutations(Paths) \cup Permutations(Procs)
=============================================================================
