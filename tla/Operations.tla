------------------------------ MODULE Operations ------------------------------
(* The operations that stop half way, run against one repository in any order:  *)
(* cherry-pick, revert, rebase and merge, with the commit, reset and editing the *)
(* user does in between, each command killed at any of its writes.               *)
EXTENDS Replay, Rebase, MergeRun

CONSTANTS
  PickLists,   \* the commit lists given to cherry-pick
  RevertLists  \* the commit lists given to revert

ASSUME ListsAssumption == PickLists \subseteq Seq(Sources) /\ RevertLists \subseteq Seq(Sources)

Lists(op) == IF op = "pick" THEN PickLists ELSE RevertLists

\* Which line of a rebase meets an untracked file: none, or the first it replays.
Blocked == {0, 1}

NextReplay ==
  \E op \in {"pick", "revert"} :
    \/ \E todo \in Lists(op), allowEmpty \in BOOLEAN : ReplayRun(op, todo, allowEmpty)
    \/ \E given \in BOOLEAN :
         \/ ContinueResolved(op, given)
         \/ ContinueMarkerless(op, given)
         \/ ReplaySkip(op, given)
    \/ ReplayAbort(op)

NextRebase ==
  \E autostash \in BOOLEAN, outcome \in ApplyOutcomes, blocked \in Blocked :
    \/ RebaseUpToDate(autostash, outcome)
    \/ RebaseRun(autostash, blocked, outcome)
    \/ \E checkout \in BOOLEAN : RebaseRefused(autostash, checkout)
    \/ RebaseContinue(blocked, outcome)
    \/ RebaseSkip(blocked, outcome)
    \/ RebaseAbort(outcome)

NextMerge ==
  \E autostash \in BOOLEAN, outcome \in ApplyOutcomes :
    \/ MergeUpToDate
    \/ MergeFastForward(autostash, outcome)
    \/ \E commit \in BOOLEAN : MergeClean(autostash, commit, outcome)
    \/ MergeConflict(autostash)
    \/ \E dies \in BOOLEAN : MergeRefused(autostash, dies, outcome)
    \/ MergeAbort(outcome)

NextUser ==
  \/ \E t \in {repo.index.tree, repo.index.both} : Resolve(t)
  \/ Stage
  \/ \E outcome \in ApplyOutcomes : CommitRun(outcome)
  \/ \E n \in {1, Len(Tip)} : Reset(SubSeq(Tip, 1, n))

Next == NextReplay \/ NextRebase \/ NextMerge \/ NextUser \/ WriteNext \/ Crash

Spec == Init /\ [][Next]_vars

-----------------------------------------------------------------------------
(* Properties. *)

Idle == queue = <<>>
SourcesOf(h) == [i \in DOMAIN h |-> h[i].src]
Beyond(h, n) == SourcesOf(SubSeq(h, n + 1, Len(h)))
\* The first i lines of the list, for each i, less those that were dropped.
Kept ==
  LET kept[i \in 0 .. Len(plan.todo)] ==
        IF i = 0 THEN <<>>
        ELSE IF Len(plan.todo) - i \in plan.dropped THEN kept[i - 1]
        ELSE Append(kept[i - 1], plan.todo[i])
  IN kept
Wanted == Kept[Len(plan.todo)]
Undisturbed(by) == odd \cap by = {}

\* Every field holds a value of its kind.
TypeOK ==
  /\ repo.branch \in Histories
  /\ \A f \in {"head", "orig", "seqHead", "seqSafety", "rbOrig", "rbOnto"} :
       repo[f] = None \/ repo[f][1] \in Histories
  /\ \A f \in {"pick", "revert"} : repo[f] = None \/ repo[f][1] \in Sources
  /\ repo.seqTodo = None \/ repo.seqTodo[1] \in Seq(Sources)
  /\ repo.rbTodo = None \/ repo.rbTodo[1] \in Seq(CommitType)
  /\ repo.index.tree \subseteq Patches
  /\ repo.index.unmerged \in {"no", "pick", "revert", "rebase", "merge", "stash"}
  /\ repo.index.tree \subseteq repo.index.both \/ repo.index.unmerged \in {"revert", "rebase"}
  /\ commands \in 0 .. MaxCommands /\ crashes \in 0 .. MaxCrashes

\* A cherry-pick or revert of a list loses no commit and replays none twice, over
\* any number of stops, --continue and --skip: what the branch gained since the
\* list began, then what .git/sequencer/todo (or the lone marker) still holds, is
\* the list less what was skipped.
SequenceExact ==
  LET lone == IF plan.kind \in {"pick", "revert"} THEN repo[plan.kind] ELSE None
      pending == IF repo.seqTodo # None THEN repo.seqTodo[1] ELSE lone
  IN /\ Idle
     /\ plan.kind \in {"pick", "revert"}
     /\ Undisturbed({"crash", "stale", "commit", "reset", "crossed"})
     => Beyond(repo.branch, Len(plan.start)) \o pending = Wanted

\* The same for a rebase: HEAD's commits on top of the new base, the stopped
\* commit and git-rebase-todo make up the branch's own commits, less those skipped
\* or already upstream; and at the end the branch holds exactly them.
RebaseExact ==
  LET stopped == IF repo.rbMessage = None THEN <<>> ELSE <<repo.rbMessage[1].src>>
      left == IF repo.rbTodo = None THEN <<>> ELSE SourcesOf(repo.rbTodo[1])
  IN /\ Idle
     /\ plan.kind = "rebase"
     /\ Undisturbed({"crash", "stale", "commit", "reset"})
     => Beyond(Tip, Len(Upstream)) \o stopped \o left = Wanted

\* Neither a list of picks or reverts nor a rebase loses a commit or makes one twice.
ReplaysExact == SequenceExact /\ RebaseExact

\* A rebase moves the branch once: from where it began to the commit HEAD has
\* reached, whatever command ends it and wherever an earlier one was killed. Not so
\* once --continue or --skip went on with HEAD already attached (BranchStillInReplay).
BranchMovesOnce ==
  [][ plan.kind = "rebase" /\ repo'.branch # repo.branch
      /\ Undisturbed({"stale", "commit", "reset", "attached"})
      => repo.branch = plan.start /\ repo.head = <<repo'.branch>> ]_vars

\* "Create a replayed commit and advance the detached HEAD to it" (rebase.ts:1366):
\* while the rebase's files are there only finishRebase moves the branch, and it
\* does so while HEAD is detached. TLC refutes it (README, section 3).
BranchStillInReplay ==
  [][ plan.kind = "rebase" /\ repo.rbOrig # None /\ repo'.branch # repo.branch
      /\ Undisturbed({"stale", "commit", "reset"})
      => repo.head # None ]_vars

StateFiles == {"merge", "pick", "revert", "rebase", "message",
               "seqHead", "seqTodo", "seqSafety", "seqOpts",
               "rbOrig", "rbOnto", "rbTodo", "rbDone", "rbMessage", "rbStash", "mergeStash"}

\* --abort of any of the four brings the branch, HEAD and the index back to where
\* the operation began and leaves none of its files.
AbortRestores ==
  /\ Idle
  /\ plan.kind = "aborted"
  /\ Undisturbed({"crash", "stale", "crossed", "reset", "refused"})
  => /\ repo.branch = plan.start
     /\ repo.head = None
     /\ repo.index.tree = Tree(plan.start)
     /\ repo.index.unmerged \in {"no", "stash"}
     /\ \A f \in StateFiles : repo[f] = None

\* While MERGE_HEAD is on disk, even after a kill, ORIG_HEAD is the commit the
\* merge began at: that is where merge --abort goes.
MergeReturnable ==
  repo.merge # None /\ Undisturbed({"stale", "reset"}) => repo.orig = <<plan.start>>

\* An index with a merge's conflict in it is never without MERGE_HEAD (ADR-027).
UnmergedIsMarked == repo.index.unmerged = "merge" => repo.merge # None

\* What every command may rely on when it finds a repository another one left, was
\* killed in or refused to go on with: the state files are well formed, and a merge
\* in progress is marked and can be taken back.
RepoInv == TypeOK /\ MergeReturnable /\ UnmergedIsMarked

InFlight == UNION {queue[i].v : i \in {j \in DOMAIN queue : queue[j].f \in {"push", "restore"}}}
StillToWrite(f) ==
  UNION {queue[i].v[1] : i \in {j \in DOMAIN queue : queue[j].f = f /\ queue[j].v # None}}

\* Local edits an autostash took are never lost: they are in the working tree, in
\* the stash list, in an autostash file, or in the hands of the running command.
AutostashKept ==
  Undisturbed({"crash", "refused"}) =>
    plan.local \subseteq repo.dirty \cup repo.stash \cup InFlight
                         \cup HeldIn("mergeStash") \cup HeldIn("rbStash")
                         \cup StillToWrite("mergeStash") \cup StillToWrite("rbStash")

=============================================================================
