----------------------------- MODULE MCHistory -----------------------------
(* Histories of up to five commits, numbered so that parents come first, in  *)
(* which a commit has up to two parents.                                     *)
EXTENDS History

ParentLists(n) ==
  {<<>>} \cup {<<p>> : p \in 1..n - 1} \cup {l \in (1..n - 1) \X (1..n - 1) : l[1] > l[2]}

AnyDags[n \in 0..4] ==
  IF n = 0 THEN {<<>>} ELSE {Append(d, l) : d \in AnyDags[n - 1], l \in ParentLists(n)}

(* Two tips above three connected commits: the smallest histories in which   *)
(* the walk finds a base before it finds the base that reaches it.           *)
TwoTips ==
  {d \in {Append(d4, l) : d4 \in AnyDags[4], l \in ParentLists(5)} :
     /\ 4 \notin Range(d[5])
     /\ \A c \in 1..3 : \E e \in c + 1..5 : c \in Range(d[e])}

MCDags == [n \in {4, 5} |-> IF n = 4 THEN AnyDags[4] ELSE TwoTips]

AllFiles == {<<"none", 0>>, <<"levels", 2>>, <<"levels", 4>>, <<"dates", 4>>}

Ask(size, files, calls) == [call : calls, size : {size}, files : {files}]

MCQueries ==
  Ask(5, {<<"none", 0>>, <<"levels", 3>>, <<"dates", 5>>},
      {[op |-> "mergeBase", commits |-> <<5, 4>>, all |-> TRUE],
       [op |-> "reduceHeads", commits |-> <<3, 5, 4>>],
       [op |-> "limitList", from |-> <<5>>, until |-> <<4>>, firstParent |-> FALSE, takeAtMost |-> 0,
        minAge |-> Infinity, settle |-> "slop"],
       [op |-> "limitList", from |-> <<5>>, until |-> <<4>>, firstParent |-> FALSE, takeAtMost |-> 0,
        minAge |-> Infinity, settle |-> "generation"]})
  \cup Ask(4, AllFiles,
       {[op |-> "mergeBase", commits |-> cs, all |-> all] :
          cs \in {<<4>>, <<3, 4>>, <<4, 3, 2>>}, all \in BOOLEAN}
       \cup {[op |-> "octopus", commits |-> <<4, 3, 2>>, all |-> all] : all \in BOOLEAN}
       \cup {[op |-> "reduceHeads", commits |-> cs] : cs \in {<<2, 4, 3>>, <<4, 2, 4>>}}
       \cup {[op |-> "inMergeBases", target |-> t, from |-> f] : t \in {2, 3}, f \in {3, 4}}
       \cup {[op |-> "limitList", from |-> <<4>>, until |-> u, firstParent |-> FALSE, takeAtMost |-> 0,
              minAge |-> age, settle |-> s] : age \in {1, Infinity},
               u \in {<<>>, <<3>>, <<2, 3>>}, s \in {"slop", "generation"}})
  \cup Ask(4, {<<"none", 0>>},
       {[op |-> "limitList", from |-> <<4, 3>>, until |-> <<2>>, firstParent |-> TRUE, takeAtMost |-> 1,
         minAge |-> 1, settle |-> "slop"]}
       \cup {[op |-> "topologicalSort", commits |-> cs, order |-> o] :
               cs \in {<<4, 3, 2, 1>>, <<1, 3, 4>>}, o \in {"graph", "commit-date"}}
       \cup {[op |-> "bisect", bad |-> 4, good |-> g] : g \in {<<>>, <<1>>, <<2, 1>>}})
  \cup Ask(5, {<<"none", 0>>}, {[op |-> "bisect", bad |-> 5, good |-> g] : g \in {<<>>, <<1>>}})
=============================================================================
