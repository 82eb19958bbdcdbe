-------------------------- MODULE TopologicalSort --------------------------
(* topological-sort.ts: the commits given, no parent before its child.       *)
EXTENDS CommitHistory

(* pendingChildrenOf.                                                        *)
Children(ids) ==
  [c \in Range(ids) |-> Cardinality({d \in Range(ids) : c \in Parents(d)})]

Put(w, ids) == [w EXCEPT !.queue = @ \cup Pushed(ids, w.ins), !.ins = @ + Len(ids)]

(* queueFor: a stack takes the latest arrival, a date queue the newest date. *)
ByStack(e, f) == e.ins > f.ins

Next1(w) ==
  IF call.order = "graph" THEN CHOOSE e \in w.queue : \A f \in w.queue \ {e} : ByStack(e, f)
  ELSE FirstByDate(w.queue)

SortStart ==
  /\ pc = "start"
  /\ call.op = "topologicalSort"
  /\ LET children == Children(call.commits)
         tips == SelectSeq(call.commits, LAMBDA c : children[c] = 0)
         put == IF call.order = "graph" THEN Reverse(tips) ELSE tips
         empty == [queue |-> {}, ins |-> 0, children |-> children, sorted |-> <<>>]
     IN  Loop("sort", Put(empty, put))

(* releaseParents: the last child lets its parent go.                        *)
ReleaseParents(w, parents) ==
  LET children == [c \in DOMAIN w.children |-> w.children[c] - (IF c \in Range(parents) THEN 1 ELSE 0)]
      freed == SelectSeq(parents, LAMBDA p : p \in DOMAIN children /\ children[p] = 0)
  IN  Put([w EXCEPT !.children = children], freed)

SortStep ==
  /\ pc = "sort"
  /\ walk.queue # {}
  /\ LET e == Next1(walk)
         popped == [walk EXCEPT !.queue = @ \ {e}, !.sorted = Append(@, e.id)]
     IN  Loop("sort", ReleaseParents(popped, graph.parents[e.id]))

SortEnd ==
  /\ pc = "sort"
  /\ walk.queue = {}
  /\ Answer(walk.sorted)

TopologicalSortNext == SortStart \/ SortStep \/ SortEnd
=============================================================================
