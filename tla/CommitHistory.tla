--------------------------- MODULE CommitHistory ---------------------------
(* A history of commits as the revision walks read it, and the state of the  *)
(* one walk that is running over it.  The walks are in MergeBase, LimitList, *)
(* TopologicalSort and Bisection; History puts them together.                *)
EXTENDS Integers, FiniteSets, SequencesExt

CONSTANTS
  MaxLevel,   \* MAX_TOPOLOGICAL_LEVEL, where the levels of a commit-graph file end
  Infinity    \* GENERATION_INFINITY: above every date and generation

ASSUME HistoryAssumption == MaxLevel \in Nat \ {0} /\ Infinity \in Nat /\ Infinity > MaxLevel

VARIABLES
  graph,   \* what readCommitMeta answers for every commit, and of which kind
           \* the generations are: [parents, date, generation, kind]
  call,    \* the call being answered: its operation and its arguments
  pc,      \* the loop that the call is in
  walk,    \* the local variables of that loop
  frame,   \* those of the loops around it
  answer   \* what the call returned

vars == <<graph, call, pc, walk, frame, answer>>

Commits == DOMAIN graph.parents
Parents(c) == Range(graph.parents[c])
Date(c) == graph.date[c]
Generation(c) == graph.generation[c]

(* deriveLevel: one more than the parents, up to the level that the file      *)
(* has room for.                                                              *)
DeriveLevel(date, maxParent) == Min({maxParent, MaxLevel - 1}) + 1

(* deriveCorrectedDate: the commit's own date, if it is above the parents.    *)
DeriveCorrectedDate(date, maxParent) == Max({date, maxParent + 1})

(* The generations of a commit-graph file that was written when the commits   *)
(* up to last were there; the others have none.                               *)
ComputeGenerations(parents, date, kind, last) ==
  LET gen[c \in DOMAIN parents] ==
        LET maxParent == Max({0} \cup {gen[p] : p \in Range(parents[c])})
        IN  IF kind = "levels" THEN DeriveLevel(date[c], maxParent)
                               ELSE DeriveCorrectedDate(date[c], maxParent)
  IN  [c \in DOMAIN parents |-> IF c <= last THEN gen[c] ELSE Infinity]

(* The commits that c reaches, itself included.  Commits are numbered so that *)
(* parents come before their children.                                        *)
Ancestors(c) ==
  LET anc[d \in Commits] == {d} \cup UNION {anc[p] : p \in Parents(d)}
  IN  anc[c]

Reachable(S) == UNION {Ancestors(c) : c \in S}

(* The members of S that no other member reaches.                             *)
Tips(S) == {c \in S : \A d \in S \ {c} : c \notin Ancestors(d)}

(* The queue entries of commits that are pushed one after the other.          *)
Pushed(ids, ins) == {[id |-> ids[i], ins |-> ins + i - 1] : i \in DOMAIN ids}

(* precedesByArrival: newest first, and in the order of arrival.              *)
ByDate(e, f) ==
  \/ Date(e.id) > Date(f.id)
  \/ Date(e.id) = Date(f.id) /\ e.ins < f.ins

(* BinaryHeap.pop: the entry that comes before every other.                   *)
FirstByDate(queue) == CHOOSE e \in queue : \A f \in queue \ {e} : ByDate(e, f)

(* Array.prototype.sort by date, newest first, is stable.                     *)
ByDateDescending(ids) ==
  LET before(i, j) == ByDate([id |-> ids[i], ins |-> i], [id |-> ids[j], ins |-> j])
      at == SetToSortSeq(DOMAIN ids, before)
  IN  [k \in DOMAIN ids |-> ids[at[k]]]

(* [...new Set(ids)]: the first of every value.                               *)
Unique(ids) == FoldLeft(LAMBDA acc, c : IF c \in Range(acc) THEN acc ELSE Append(acc, c), <<>>, ids)

Answer(a) ==
  /\ answer' = a
  /\ pc' = "done"
  /\ UNCHANGED <<graph, call, walk, frame>>

Loop(next, w) ==
  /\ pc' = next
  /\ walk' = w
  /\ UNCHANGED <<graph, call, frame, answer>>

Outer(next, f) ==
  /\ pc' = next
  /\ frame' = f
  /\ UNCHANGED <<graph, call, walk, answer>>
=============================================================================
