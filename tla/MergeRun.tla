------------------------------- MODULE MergeRun -------------------------------
(* merge of Upstream into HEAD (two heads, no squash), merge --abort, and the   *)
(* autostash a merge takes. `merge --continue` is a commit while MERGE_HEAD is   *)
(* there.                                                                        *)
EXTENDS RepoState

Merged == \E i \in DOMAIN Tip : Tip[i].op = "merge"
UpToDate == IsPrefix(Upstream, Tip) \/ Merged
FastForwards == IsStrictPrefix(Tip, Upstream)

MergedTree == Tree(Tip) \cup Tree(Upstream)
MergeConflicts == Meets(Tree(Tip), Tree(Upstream), {})

\* MERGE_AUTOSTASH as it stands once the merge's own stash, if any, is written.
HeldStash(autostash) == IF autostash /\ Local # {} THEN <<Local>> ELSE repo.mergeStash
StashForMerge(autostash) ==
  IF autostash /\ Local # {}
  THEN CreateAutostash \o <<W("mergeStash", <<Local>>)>>
  ELSE <<>>
Taken(autostash) == IF autostash THEN Local ELSE {}

\* ORIG_HEAD is written before anything else is decided.
OpenMerge(autostash) == <<W("orig", <<Tip>>)>> \o StashForMerge(autostash)

\* The end of mergeRun once there is nothing left to resolve.
ConcludeMerge(autostash, outcome, t) ==
  ApplyMergeAutostash(HeldStash(autostash), outcome, t) \o RemoveMergeBranchState(None)

\* A staged change refuses a merge that does not stash it.
MergeGuard(autostash) ==
  /\ NoPendingOperation
  /\ repo.index.unmerged = "no"
  /\ autostash \/ IndexClean

BeginMerge(kind, autostash, ws) ==
  Start(ws, Begun(kind, <<>>, Taken(autostash)), Lasting)

MergeUpToDate ==
  /\ MergeGuard(FALSE)
  /\ UpToDate
  /\ BeginMerge("uptodate", FALSE,
                <<W("orig", <<Tip>>)>> \o RemoveMergeBranchState(repo.mergeStash))

MergeFastForward(autostash, outcome) ==
  /\ MergeGuard(autostash)
  /\ FastForwards
  /\ BeginMerge("merged", autostash,
                OpenMerge(autostash) \o <<W("index", Clean(Tree(Upstream))), MoveHead(Upstream)>>
                \o ConcludeMerge(autostash, outcome, Tree(Upstream)))

\* commitCleanMerge, and with commit: false stopBeforeCommit.
MergeClean(autostash, commit, outcome) ==
  /\ MergeGuard(autostash)
  /\ ~UpToDate /\ ~FastForwards /\ ~MergeConflicts
  /\ BeginMerge(IF commit THEN "merged" ELSE "merge", autostash,
                OpenMerge(autostash) \o <<W("index", Clean(MergedTree))>>
                \o (IF commit
                    THEN <<MoveHead(Append(Tip, Commit("merge", "merge", Tip, MergedTree)))>>
                         \o ConcludeMerge(autostash, outcome, MergedTree)
                    ELSE <<W("merge", <<Upstream>>), W("message", <<"merge">>)>>))

\* Mutant: the index is committed first.
WriteConflictIndexFirst ==
  <<W("index", Unmerged(Tree(Tip), MergedTree, "merge")),
    W("merge", <<Upstream>>), W("message", <<"merge">>)>>

\* writeConflictState: MERGE_HEAD and MERGE_MSG under the index lock, whose commit
\* of the unmerged index comes last.
WriteConflictState ==
  <<W("merge", <<Upstream>>), W("message", <<"merge">>),
    W("index", Unmerged(Tree(Tip), MergedTree, "merge"))>>

MergeConflict(autostash) ==
  /\ MergeGuard(autostash)
  /\ ~UpToDate /\ ~FastForwards /\ MergeConflicts
  /\ BeginMerge("merge", autostash, OpenMerge(autostash) \o WriteConflictState)

\* The merge throws after the stash was made: it is re-applied, except for the
\* one error git dies on inside the strategy.
MergeRefused(autostash, dies, outcome) ==
  /\ MergeGuard(autostash)
  /\ ~UpToDate
  /\ Start(OpenMerge(autostash)
           \o (IF dies THEN <<>> ELSE ApplyMergeAutostash(HeldStash(autostash), outcome, Tree(Tip))),
           Begun("refused", <<>>, Taken(autostash)),
           Lasting \cup (IF dies THEN {"refused"} ELSE {}))

\* merge --abort takes the autostash first so that the reset cannot file it away.
MergeAbort(outcome) ==
  LET t == Tree(repo.orig[1])
  IN /\ repo.merge # None
     /\ repo.orig # None
     /\ repo.head = None
     /\ Start((IF repo.mergeStash = None THEN <<>> ELSE <<W("mergeStash", None)>>)
              \o <<W("index", Clean(t)), MoveHead(repo.orig[1])>>
              \o RemoveBranchState(None)
              \o (IF repo.mergeStash = None THEN <<>>
                  ELSE ApplyAutostash(repo.mergeStash[1], outcome, t)),
              [plan EXCEPT !.kind = "aborted"], odd)
=============================================================================
