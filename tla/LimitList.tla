----------------------------- MODULE LimitList -----------------------------
(* limit-list.ts: the commits that the seeds reach and the commits of until  *)
(* do not, newest first, and when the walk may stop looking for more of the  *)
(* uninteresting ones.                                                       *)
EXTENDS CommitHistory

CONSTANT Slop   \* how many settled commits in a row end a walk by dates (SLOP)

ASSUME SlopAssumption == Slop \in Nat \ {0}

Follows(c) == IF call.firstParent THEN SubSeq(graph.parents[c], 1, Min({1, Len(graph.parents[c])}))
              ELSE graph.parents[c]

(* enqueue, for the commits that were not seen before.                       *)
Enqueue(w, ids) ==
  LET new == SelectSeq(ids, LAMBDA c : c \notin w.seen)
  IN  [w EXCEPT !.seen = @ \cup Range(ids), !.parsed = @ \cup Range(ids),
                !.queue = @ \cup Pushed(new, w.ins), !.ins = @ + Len(new)]

(* markParentsUninteresting: down from c, through commits that were parsed   *)
(* and were not marked before.                                               *)
Downward(c, parsed, marked) ==
  LET down[d \in Commits] ==
        IF d \in marked THEN {}
        ELSE {d} \cup (IF d \in parsed THEN UNION {down[p] : p \in Parents(d)} ELSE {})
  IN  UNION {down[p] : p \in Parents(c)}

(* enqueueSeeds: the seeds, then the commits of until, which mark what they  *)
(* reach through the seeds that were parsed before them.                     *)
Seeded ==
  LET seeds == Unique(call.from \o call.until)
      below(i) == {seeds[i]} \cup Downward(seeds[i], Range(SubSeq(seeds, 1, i)), {})
      empty == [queue |-> {}, ins |-> 0, seen |-> {}, parsed |-> {},
                uninteresting |-> UNION {below(i) : i \in {k \in DOMAIN seeds : seeds[k] \in Range(call.until)}},
                taken |-> <<>>, slop |-> Slop, date |-> Infinity, lowest |-> Infinity, cache |-> 0]
  IN  Enqueue(empty, seeds)

LimitStart ==
  /\ pc = "start"
  /\ call.op = "limitList"
  /\ Loop("drain", Seeded)

(* processUninterestingParents, and processParents.                          *)
UninterestingParents(w, c) ==
  LET marked == w.uninteresting \cup Parents(c)
      below == UNION {Downward(p, w.parsed \cup Parents(c), marked) : p \in Parents(c)}
  IN  Enqueue([w EXCEPT !.uninteresting = marked \cup below], graph.parents[c])

ProcessParents(w, c) ==
  IF c \in w.uninteresting THEN UninterestingParents(w, c) ELSE Enqueue(w, Follows(c))

Interesting(w) == {e \in w.queue : e.id \notin w.uninteresting}

(* everybodyUninteresting, with the commit it found interesting last time.   *)
CacheHolds(w) == w.cache # 0 /\ w.cache \notin w.uninteresting

(* Mutation: the queue is settled as soon as everything in it is marked.     *)
GenerationSettledMarked(w) == ~CacheHolds(w) /\ Interesting(w) = {}

GenerationSettled(w) ==
  /\ ~CacheHolds(w)
  /\ Interesting(w) = {}
  /\ \A e \in w.queue : Generation(e.id) < w.lowest

(* stillInteresting: the slop that is left.                                  *)
StillInteresting(w) ==
  CASE w.queue = {} -> 0
    [] w.queue # {} /\ w.date <= Date(FirstByDate(w.queue).id) -> Slop
    [] w.queue # {} /\ w.date > Date(FirstByDate(w.queue).id)
         /\ (CacheHolds(w) \/ Interesting(w) # {}) -> Slop
    [] OTHER -> w.slop - 1

KeepWalking(w) ==
  IF call.settle = "slop" THEN StillInteresting(w) ELSE IF GenerationSettled(w) THEN 0 ELSE Slop

(* The cache after keepWalking: any interesting commit of the queue, if the  *)
(* question was asked and the cached one does not answer it.                 *)
Asked(w) == \/ call.settle = "generation"
            \/ w.queue # {} /\ w.date > Date(FirstByDate(w.queue).id)

Caches(w) ==
  IF ~Asked(w) \/ CacheHolds(w) THEN {w.cache}
  ELSE IF Interesting(w) = {} THEN {0} ELSE {e.id : e \in Interesting(w)}

(* One iteration of drain.                                                   *)
DrainStep ==
  /\ pc = "drain"
  /\ walk.queue # {}
  /\ LET e == FirstByDate(walk.queue)
         popped == [walk EXCEPT !.queue = @ \ {e}, !.cache = IF @ = e.id THEN 0 ELSE @]
         w == ProcessParents(popped, e.id)
         lower == [w EXCEPT !.lowest = Min({@, Generation(e.id)})]
         taken == [lower EXCEPT !.date = Date(e.id), !.taken = Append(@, e.id)]
     IN  \/ /\ e.id \in w.uninteresting
            /\ \E c \in Caches(w) :
                 Loop(IF KeepWalking(w) = 0 THEN "drained" ELSE "drain",
                      [w EXCEPT !.slop = KeepWalking(w), !.cache = c])
         \/ /\ e.id \notin w.uninteresting
            /\ Date(e.id) > call.minAge
            /\ Loop("drain", lower)
         \/ /\ e.id \notin w.uninteresting
            /\ Date(e.id) <= call.minAge
            /\ Loop(IF Len(taken.taken) = call.takeAtMost THEN "drained" ELSE "drain", taken)

DrainEnd ==
  /\ \/ pc = "drain" /\ walk.queue = {}
     \/ pc = "drained"
  /\ call.op = "limitList"
  /\ Answer(SelectSeq(walk.taken, LAMBDA c : c \notin walk.uninteresting))

LimitListNext == LimitStart \/ DrainStep \/ DrainEnd
=============================================================================
