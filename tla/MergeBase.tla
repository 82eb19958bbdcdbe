----------------------------- MODULE MergeBase -----------------------------
(* merge-base.ts: the painting walk down from two sides, the best common     *)
(* ancestors of commits, the heads that no other head reaches, and whether   *)
(* one commit is an ancestor of another.                                     *)
EXTENDS CommitHistory

Both == {"PARENT1", "PARENT2"}

(* Commits of higher generation first; those outside the commit-graph file   *)
(* have no generation and come first of all, by date.                        *)
ByGenerationThenDate(e, f) ==
  \/ Generation(e.id) > Generation(f.id)
  \/ Generation(e.id) = Generation(f.id) /\ ByDate(e, f)

FirstPainted(queue) == CHOOSE e \in queue : \A f \in queue \ {e} : ByGenerationThenDate(e, f)

(* topoCeilingFor: below it a commit's generation is above its parents'.     *)
TopoCeiling == IF graph.kind = "dates" THEN Infinity ELSE MaxLevel

(* The bucket that a queued commit with these flags is counted in.           *)
Bucket(flags) ==
  LET bits == flags \ {"RESULT"}
  IN  CASE bits = {"PARENT1"} -> "parent1"
        [] bits = {"PARENT2"} -> "parent2"
        [] bits = Both -> "candidates"
        [] OTHER -> "none"

Buckets == {"parent1", "parent2", "candidates"}

InBucket(S, flags, b) == Cardinality({c \in S : Bucket(flags[c]) = b})

QueuedIds(w) == {e.id : e \in w.queue}

(* markPainted, enqueuePainted, for commits that get the same bits one after *)
(* the other: one that is queued moves to another bucket, one that is not is *)
(* pushed, again if it has been popped before.                               *)
MarkPainted(w, ids, bits) ==
  LET S == Range(ids)
      flags == [c \in Commits |-> IF c \in S THEN w.flags[c] \cup bits ELSE w.flags[c]]
      new == SelectSeq(ids, LAMBDA c : c \notin QueuedIds(w))
  IN  [w EXCEPT
        !.flags = flags,
        !.queue = @ \cup Pushed(new, w.ins),
        !.ins = @ + Len(new),
        !.counts = [b \in Buckets |-> @[b] + InBucket(S, flags, b)
                                            - InBucket(S \cap QueuedIds(w), w.flags, b)]]

(* paint, up to its loop.  Against nothing, the commit itself is the result. *)
Painted(one, twos, minGeneration, findAll) ==
  LET empty == [flags |-> [c \in Commits |-> {}], queue |-> {}, ins |-> 0,
                counts |-> [b \in Buckets |-> 0], results |-> <<>>, one |-> one, twos |-> twos,
                minGeneration |-> minGeneration, findAll |-> findAll]
  IN  IF twos = <<>>
        THEN [empty EXCEPT !.flags[one] = {"PARENT1"}, !.results = <<one>>]
        ELSE MarkPainted(MarkPainted(empty, <<one>>, {"PARENT1"}), twos, {"PARENT2"})

(* walkIsOver: no candidate is queued, and a side is exhausted.  One side is *)
(* enough once generations order the commits.                                *)
WalkIsOver(counts, generation) ==
  /\ counts.candidates = 0
  /\ \/ counts.parent1 = 0 /\ counts.parent2 = 0
     \/ (counts.parent1 = 0 \/ counts.parent2 = 0) /\ generation < TopoCeiling

PopPainted(w, e) ==
  [w EXCEPT !.queue = @ \ {e},
            !.counts = [b \in Buckets |-> @[b] - InBucket({e.id}, w.flags, b)]]

(* visit: a commit painted from both sides and not stale is a result once.   *)
Carried(w, c) == w.flags[c] \ {"RESULT"}
IsCandidate(w, c) == Carried(w, c) = Both
NewResult(w, c) == IsCandidate(w, c) /\ "RESULT" \notin w.flags[c]

Visit(w, c) ==
  IF NewResult(w, c)
    THEN [w EXCEPT !.flags[c] = @ \cup {"RESULT"}, !.results = Append(@, c)]
    ELSE w

Inherited(w, c) == Carried(w, c) \cup (IF IsCandidate(w, c) THEN {"STALE"} ELSE {})

MarkParents(w, c, bits) ==
  MarkPainted(w, SelectSeq(graph.parents[c], LAMBDA p : ~(bits \subseteq w.flags[p])), bits)

(* One iteration of paint's loop: the walk is over, or below the generations *)
(* asked about; the first result is enough; or the parents are painted.      *)
PaintStep ==
  /\ pc = "paint"
  /\ walk.queue # {}
  /\ LET e == FirstPainted(walk.queue)
         visited == Visit(PopPainted(walk, e), e.id)
         isOver == \/ WalkIsOver(walk.counts, Generation(e.id))
                   \/ Generation(e.id) < walk.minGeneration
         isDone == NewResult(walk, e.id) /\ ~walk.findAll /\ Generation(e.id) < TopoCeiling
     IN  \/ isOver /\ Loop("painted", walk)
         \/ ~isOver /\ isDone /\ Loop("painted", visited)
         \/ ~isOver /\ ~isDone /\ Loop("paint", MarkParents(visited, e.id, Inherited(walk, e.id)))

PaintEnd ==
  /\ pc = "paint"
  /\ walk.queue = {}
  /\ Loop("painted", walk)

-----------------------------------------------------------------------------
(* mergeBasesMany *)

(* The commits that one and some of twos both reach.                         *)
BasesMany ==
  /\ pc = "many"
  /\ \/ /\ frame.one \in Range(frame.twos)
        /\ Outer("returned", [frame EXCEPT !.list = <<frame.one>>])
     \/ /\ frame.one \notin Range(frame.twos)
        /\ pc' = "paint"
        /\ walk' = Painted(frame.one, frame.twos, 0, frame.findAll)
        /\ frame' = [frame EXCEPT !.then = "bases"]
        /\ UNCHANGED <<graph, call, answer>>

(* Mutation: results are not looked at again for one that reaches another.   *)
CollectUnpruned ==
  /\ pc = "painted"
  /\ frame.then = "bases"
  /\ LET alive == SelectSeq(walk.results, LAMBDA c : "STALE" \notin walk.flags[c])
     IN  Outer("returned", [frame EXCEPT !.list = ByDateDescending(alive)])

(* The results that were not painted stale later; two or more may still      *)
(* reach one another, as the walk stops before the stale paint gets there.   *)
CollectBases ==
  /\ pc = "painted"
  /\ frame.then = "bases"
  /\ LET alive == SelectSeq(walk.results, LAMBDA c : "STALE" \notin walk.flags[c])
         sorted == ByDateDescending(alive)
     IN  \/ /\ Len(sorted) <= 1
            /\ Outer("returned", [frame EXCEPT !.list = sorted])
         \/ /\ Len(sorted) > 1
            /\ Outer("prune", [frame EXCEPT !.heads = sorted, !.redundant = {}, !.at = 1])

-----------------------------------------------------------------------------
(* removeRedundant *)

Live(f) == SelectSeq(f.heads, LAMBDA c : c \notin f.redundant)

LowestGeneration(ids) == Min({Generation(c) : c \in Range(ids)} \cup {Infinity})

(* The next candidate is painted against the others that are left.           *)
PruneStep ==
  /\ pc = "prune"
  /\ frame.at <= Len(frame.heads)
  /\ LET candidate == frame.heads[frame.at]
         others == SelectSeq(Live(frame), LAMBDA c : c # candidate)
     IN  \/ /\ candidate \in frame.redundant
            /\ Outer("prune", [frame EXCEPT !.at = @ + 1])
         \/ /\ candidate \notin frame.redundant
            /\ pc' = "paint"
            /\ walk' = Painted(candidate, others, LowestGeneration(Live(frame)), TRUE)
            /\ frame' = [frame EXCEPT !.then = "prune"]
            /\ UNCHANGED <<graph, call, answer>>

PruneJudge ==
  /\ pc = "painted"
  /\ frame.then = "prune"
  /\ LET reached == {c \in {walk.one} : "PARENT2" \in walk.flags[c]}
                      \cup {c \in Range(walk.twos) : "PARENT1" \in walk.flags[c]}
     IN  Outer("prune", [frame EXCEPT !.redundant = @ \cup reached, !.at = @ + 1])

(* Its callers: mergeBasesMany sorts once more, the others answer.           *)
PruneEnd ==
  /\ pc = "prune"
  /\ frame.at > Len(frame.heads)
  /\ IF frame.many
       THEN Outer("returned", [frame EXCEPT !.list = ByDateDescending(Live(frame))])
       ELSE Answer(IF call.op = "reduceHeads" \/ call.all
                     THEN Live(frame) ELSE SubSeq(Live(frame), 1, Min({1, Len(Live(frame))})))

-----------------------------------------------------------------------------
(* mergeBasesOf, reduceHeads *)

NoFrame == [one |-> 0, twos |-> <<>>, findAll |-> TRUE, then |-> "none", list |-> <<>>,
            heads |-> <<>>, redundant |-> {}, at |-> 1, many |-> FALSE,
            rest |-> <<>>, bases |-> <<>>, next |-> <<>>, base |-> 1]

MergeBaseStart ==
  /\ pc = "start"
  /\ call.op = "mergeBase"
  /\ Outer("many", [NoFrame EXCEPT !.one = Head(call.commits), !.twos = Tail(call.commits),
                                   !.findAll = call.all, !.many = TRUE])

MergeBaseReturn ==
  /\ pc = "returned"
  /\ call.op = "mergeBase"
  /\ Answer(IF call.all THEN frame.list ELSE SubSeq(frame.list, 1, Min({1, Len(frame.list)})))

ReduceHeadsStart ==
  /\ pc = "start"
  /\ call.op = "reduceHeads"
  /\ Outer("prune", [NoFrame EXCEPT !.heads = Unique(call.commits)])

(* octopusMergeBases: each further commit is folded into every base so far.  *)
OctopusStart ==
  /\ pc = "start"
  /\ call.op = "octopus"
  /\ Outer("octopus", [NoFrame EXCEPT !.bases = <<Head(call.commits)>>, !.rest = Tail(call.commits)])

OctopusStep ==
  /\ pc = "octopus"
  /\ \/ /\ frame.rest = <<>>
        /\ Outer("prune", [frame EXCEPT !.heads = Unique(frame.bases), !.redundant = {},
                                        !.at = 1, !.many = FALSE])
     \/ /\ frame.rest # <<>>
        /\ frame.base > Len(frame.bases)
        /\ Outer("octopus", [frame EXCEPT !.rest = Tail(@), !.bases = frame.next,
                                          !.next = <<>>, !.base = 1])
     \/ /\ frame.rest # <<>>
        /\ frame.base <= Len(frame.bases)
        /\ Outer("many", [frame EXCEPT !.one = Head(frame.rest), !.twos = <<frame.bases[frame.base]>>,
                                       !.findAll = TRUE, !.many = TRUE])

OctopusReturn ==
  /\ pc = "returned"
  /\ call.op = "octopus"
  /\ Outer("octopus", [frame EXCEPT !.next = @ \o frame.list, !.base = @ + 1])

-----------------------------------------------------------------------------
(* inMergeBases *)

(* Without generation numbers the target is painted against the reference.   *)
InMergeBasesStart ==
  /\ pc = "start"
  /\ call.op = "inMergeBases"
  /\ LET minGeneration == Generation(call.target)
     IN  \/ minGeneration > Generation(call.from) /\ Answer(<<FALSE>>)
         \/ /\ minGeneration <= Generation(call.from)
            /\ graph.kind = "none"
            /\ Loop("paint", Painted(call.target, <<call.from>>, minGeneration, TRUE))
         \/ /\ minGeneration <= Generation(call.from)
            /\ graph.kind # "none"
            /\ Loop("depth", [stack |-> <<call.from>>, assigned |-> {}, reached |-> {}])

ReachesByPaint ==
  /\ pc = "painted"
  /\ call.op = "inMergeBases"
  /\ Answer(<<"PARENT2" \in walk.flags[call.target]>>)

Reaches(w, c) == c = call.target \/ c \in w.reached

IsDeepEnough(c) == Generation(c) >= Generation(call.target)

(* step, nextParent: parents are looked at up to the first to go down into.  *)
DepthStep ==
  /\ pc = "depth"
  /\ walk.stack # <<>>
  /\ LET top == Last(walk.stack)
         below == Front(walk.stack)
         parents == graph.parents[top]
         open == {i \in DOMAIN parents : parents[i] \notin walk.assigned /\ IsDeepEnough(parents[i])}
         upTo == IF open = {} THEN Len(parents) ELSE Min(open)
         looked == {parents[i] : i \in 1..upTo}
         reached == walk.reached \cup {c \in {top} : \E p \in looked : Reaches(walk, p)}
     IN  IF Reaches(walk, top)
           THEN Loop("depth", [walk EXCEPT !.stack = below,
                                           !.reached = @ \cup (IF below = <<>> THEN {} ELSE {Last(below)})])
           ELSE Loop("depth", [walk EXCEPT !.stack = IF open = {} THEN below ELSE Append(@, parents[upTo]),
                                           !.assigned = @ \cup looked,
                                           !.reached = reached])

DepthEnd ==
  /\ pc = "depth"
  /\ walk.stack = <<>>
  /\ Answer(<<Reaches(walk, call.from)>>)

MergeBaseNext ==
  \/ PaintStep \/ PaintEnd \/ BasesMany \/ CollectBases
  \/ PruneStep \/ PruneJudge \/ PruneEnd
  \/ MergeBaseStart \/ MergeBaseReturn \/ ReduceHeadsStart
  \/ OctopusStart \/ OctopusStep \/ OctopusReturn
  \/ InMergeBasesStart \/ ReachesByPaint \/ DepthStep \/ DepthEnd
=============================================================================
