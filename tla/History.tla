------------------------------ MODULE History ------------------------------
(* The revision walks together: one call at a time over any history, with    *)
(* dates that need not follow the order of the commits and with generation   *)
(* numbers for all, some or none of them.                                    *)
EXTENDS MergeBase, LimitList, TopologicalSort, Bisection

CONSTANTS
  Dags,     \* Dags[n]: the lists of parents of the commits of a history of n
  Dates,    \* the dates of commits
  Queries   \* [call, size, files]: a call, on histories of that size, with
            \* commit-graph files of these kinds that end at these commits

History(parents, date, kind, last) ==
  [parents |-> parents, date |-> date, kind |-> kind,
   generation |-> ComputeGenerations(parents, date, kind, last)]

Init ==
  /\ \E q \in Queries :
       /\ call = q.call
       /\ \E parents \in Dags[q.size], date \in [1..q.size -> Dates], file \in q.files :
            graph = History(parents, date, file[1], file[2])
  /\ pc = "start"
  /\ walk = [queue |-> {}]
  /\ frame = NoFrame
  /\ answer = <<>>

(* A call that has answered; a call in any other state must have a step.     *)
Finished == pc = "done" /\ UNCHANGED vars

Next == MergeBaseNext \/ LimitListNext \/ TopologicalSortNext \/ BisectionNext \/ Finished

Spec == Init /\ [][Next]_vars

-----------------------------------------------------------------------------
(* Properties *)

Returned(op) == pc = "done" /\ call.op = op

(* The answer of mergeBase with all, or the best of it without, is one of    *)
(* the commits that every side reaches and that no other such commit         *)
(* reaches, whatever the dates say and wherever the generations end.         *)
BestCommonAncestors ==
  /\ Returned("mergeBase") =>
       LET one == Head(call.commits)
           common == IF Len(call.commits) = 1
                       THEN {one}
                       ELSE Tips(Ancestors(one) \cap Reachable(Range(Tail(call.commits))))
       IN  IF call.all
             THEN Range(answer) = common /\ Len(answer) = Cardinality(common)
             ELSE Range(answer) \subseteq common /\ Len(answer) = Min({1, Cardinality(common)})
  /\ Returned("octopus") =>
       LET common == Tips({c \in Commits : \A d \in Range(call.commits) : c \in Ancestors(d)})
       IN  IF call.all THEN Range(answer) = common ELSE Range(answer) \subseteq common

(* reduceHeads keeps the heads that no other head reaches, each once and in  *)
(* the order given.                                                          *)
HeadsReduced ==
  Returned("reduceHeads") =>
    answer = SelectSeq(Unique(call.commits), LAMBDA c : c \in Tips(Range(call.commits)))

(* inMergeBases tells ancestors from other commits, by the depth-first walk  *)
(* and by the painting one.                                                  *)
AncestryExact == Returned("inMergeBases") =>
  answer = <<call.target \in Ancestors(call.from)>>

(* The counters that end the painting walk are what is in its queue.         *)
CountsExact ==
  pc = "paint" =>
    \A b \in {"parent1", "parent2", "candidates"} :
      walk.counts[b] = Cardinality({e \in walk.queue : Bucket(walk.flags[e.id]) = b})

(* The painting walk and the depth-first one answer what the graph says:     *)
(* merge bases, reduced heads and ancestry, with exact counters on the way.  *)
MergeBasesExact == BestCommonAncestors /\ HeadsReduced /\ AncestryExact /\ CountsExact

DatesFollow == \A c \in Commits : \A p \in Parents(c) : Date(p) <= Date(c)

(* A limited walk shows every commit that the seeds reach and until does     *)
(* not, and, when dates follow the history or generations settle it, nothing *)
(* else.  minAge leaves out the commits that are too new.                    *)
LimitExact ==
  Returned("limitList") /\ ~call.firstParent /\ call.takeAtMost = 0 =>
    LET wanted == {c \in Reachable(Range(call.from)) \ Reachable(Range(call.until)) :
                     Date(c) <= call.minAge}
    IN  /\ wanted \subseteq Range(answer)
        /\ DatesFollow \/ call.settle = "generation" => Range(answer) = wanted
        /\ IsInjective(answer)

(* The sorted commits are the ones given, and none follows its parent.       *)
ParentsLast ==
  Returned("topologicalSort") =>
    /\ Len(answer) = Len(call.commits) /\ Range(answer) = Range(call.commits)
    /\ \A i, j \in DOMAIN answer : answer[j] \in Parents(answer[i]) => i < j

(* The lists that log, rev-list and bisect walk: of exactly the commits      *)
(* wanted, and in an order that puts no parent first where that is asked.    *)
ListsExact == LimitExact /\ ParentsLast

(* The commit to test next is as near to the middle as any candidate: no     *)
(* other one leaves fewer commits in the worse of the two cases.             *)
MidpointBest ==
  Returned("bisect") =>
    LET candidates == Ancestors(call.bad) \ Reachable(Range(call.good))
        weight(c) == Cardinality(Ancestors(c) \cap candidates)
        worst(n) == Min({n, Cardinality(candidates) - n})
    IN  /\ answer.all = Cardinality(candidates)
        /\ candidates # {} =>
             /\ answer.next \in candidates
             /\ answer.reaches = weight(answer.next)
             /\ \A c \in candidates : worst(weight(c)) <= worst(answer.reaches)
=============================================================================
