----------------------------- MODULE Bisection -----------------------------
(* bisect-midpoint.ts and find-bisection.ts: the commit to test next, which  *)
(* halves the commits that the bad one reaches and no good one does.         *)
EXTENDS CommitHistory

(* walkCandidatesNewestFirst, up to its loop, unless the bad commit is good. *)
BisectStart ==
  /\ pc = "start"
  /\ call.op = "bisect"
  /\ LET good == Reachable(Range(call.good))
     IN  IF call.bad \in good
           THEN Answer([next |-> 0, all |-> 0, reaches |-> 0])
           ELSE Loop("candidates", [good |-> good, queue |-> {[id |-> call.bad, ins |-> 0]}, ins |-> 1,
                                    visited |-> {}, newestFirst |-> <<>>])

(* A commit is pushed once for every child and taken once.                   *)
CandidateStep ==
  /\ pc = "candidates"
  /\ walk.queue # {}
  /\ LET e == FirstByDate(walk.queue)
         popped == [walk EXCEPT !.queue = @ \ {e}]
         visited == walk.visited \cup {e.id}
         push == SelectSeq(graph.parents[e.id], LAMBDA p : p \notin visited \cup walk.good)
     IN  \/ e.id \in walk.visited /\ Loop("candidates", popped)
         \/ /\ e.id \notin walk.visited
            /\ Loop("candidates", [popped EXCEPT !.visited = visited, !.newestFirst = Append(@, e.id),
                                                 !.queue = @ \cup Pushed(push, walk.ins),
                                                 !.ins = @ + Len(push)])

(* projectOldestFirst, and seedWeights: a root of the candidates weighs 1.   *)
Inside(candidates, c) == SelectSeq(graph.parents[c], LAMBDA p : p \in Range(candidates))

WeightsStart ==
  /\ pc = "candidates"
  /\ walk.queue = {}
  /\ LET candidates == Reverse(walk.newestFirst)
         inside == [c \in Range(candidates) |-> Inside(candidates, c)]
     IN  Loop("merges", [candidates |-> candidates, inside |-> inside, at |-> 1, changed |-> FALSE,
                         weights |-> [c \in Range(candidates) |-> IF inside[c] = <<>> THEN 1 ELSE 0]])

All == Len(walk.candidates)

(* Mutation: two commits off the middle are taken for the middle.            *)
ApproxHalfwayLoose(weight) == 2 * weight - All \in -2..2

ApproxHalfway(weight) == 2 * weight - All \in -1..1

Bisected(c, weight) == Answer([next |-> c, all |-> All, reaches |-> weight])

(* countDistance: how many candidates c reaches.                             *)
CountDistance(c) == Cardinality(Ancestors(c) \cap Range(walk.candidates))

(* mergeWeights, for one candidate: a merge is counted, and may be halfway.  *)
MergeWeight ==
  /\ pc = "merges"
  /\ walk.at <= All
  /\ LET c == walk.candidates[walk.at]
         weight == CountDistance(c)
         next == [walk EXCEPT !.at = @ + 1]
     IN  \/ Len(walk.inside[c]) < 2 /\ Loop("merges", next)
         \/ /\ Len(walk.inside[c]) >= 2
            /\ ~ApproxHalfway(weight)
            /\ Loop("merges", [next EXCEPT !.weights[c] = weight])
         \/ /\ Len(walk.inside[c]) >= 2
            /\ ApproxHalfway(weight)
            /\ Bisected(c, weight)

MergesEnd ==
  /\ pc = "merges"
  /\ walk.at > All
  /\ Loop("fill", [walk EXCEPT !.at = 1, !.changed = FALSE])

(* fillWeights, for one candidate: one more than its only parent.            *)
FillOne ==
  /\ pc = "fill"
  /\ walk.at <= All
  /\ LET c == walk.candidates[walk.at]
         weight == walk.weights[Head(walk.inside[c])] + 1
         isOpen == /\ walk.weights[c] = 0
                   /\ Len(walk.inside[c]) = 1
                   /\ walk.weights[Head(walk.inside[c])] # 0
         next == [walk EXCEPT !.at = @ + 1]
     IN  \/ ~isOpen /\ Loop("fill", next)
         \/ isOpen /\ ~ApproxHalfway(weight) /\ Loop("fill", [next EXCEPT !.weights[c] = weight, !.changed = TRUE])
         \/ isOpen /\ ApproxHalfway(weight) /\ Bisected(c, weight)

Distance(c) == Min({walk.weights[c], All - walk.weights[c]})

(* The end of a pass: another one if it changed a weight, otherwise the      *)
(* first candidate of the greatest distance.                                 *)
FillEnd ==
  /\ pc = "fill"
  /\ walk.at > All
  /\ \/ walk.changed /\ Loop("fill", [walk EXCEPT !.at = 1, !.changed = FALSE])
     \/ /\ ~walk.changed
        /\ LET isBest(i) == \A j \in 1..All :
                              LET d == Distance(walk.candidates[i])
                                  o == Distance(walk.candidates[j])
                              IN  d > o \/ (d = o /\ i <= j)
               best == walk.candidates[CHOOSE i \in 1..All : isBest(i)]
           IN  Bisected(best, walk.weights[best])

BisectionNext ==
  \/ BisectStart \/ CandidateStep \/ WeightsStart \/ MergeWeight \/ MergesEnd \/ FillOne \/ FillEnd
=============================================================================
