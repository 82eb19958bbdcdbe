------------------------------ MODULE RepoState ------------------------------
(* The persistent state the history-editing commands share: the branch and     *)
(* HEAD, the index, the working tree, and every file under the git directory    *)
(* that records a command stopped half way (MERGE_HEAD, CHERRY_PICK_HEAD,       *)
(* REVERT_HEAD, REBASE_HEAD, MERGE_MSG, ORIG_HEAD, MERGE_AUTOSTASH, sequencer/, *)
(* rebase-merge/).                                                              *)
(*                                                                              *)
(* One process runs at a time, so a command knows, when it starts, every value  *)
(* it is going to write. A command is therefore one action that chooses its     *)
(* outcome and leaves in `queue` the writes it makes, in the order the code     *)
(* awaits them; WriteNext performs one; Crash ends the process between two.     *)
(*                                                                              *)
(* A commit is what was replayed (op, src) and the tree it records; a history   *)
(* is the sequence of commits from the root; a tree is the set of patches it    *)
(* holds. A file that may be missing is None or <<contents>>.                   *)
EXTENDS Naturals, FiniteSets, Sequences, SequencesExt

CONSTANTS
  Adds,       \* [source commit -> the set of patches it adds to its parent]
  Merges,     \* the source commits with two parents
  Clash,      \* the pairs {p, q} of patches that touch the same lines
  Builds,     \* the pairs <<q, p>> where q edits the lines p added
  Starts,     \* the histories the branch may have at first
  Upstream,   \* the history of the other branch
  Edits,      \* the user's local edits, on paths no commit touches
  MaxCommands,\* how many commands the user runs
  MaxCrashes  \* how often a command is killed

Sources == DOMAIN Adds
Patches == UNION {Adds[s] : s \in Sources}
None == <<>>

\* A commit, and a history, which has at least a root.
CommitType ==
  [op : {"pick", "revert", "merge", "user"}, src : Sources \cup {"merge"},
   tree : SUBSET Patches, add : SUBSET Patches, del : SUBSET Patches]
Histories == Seq(CommitType) \ {<<>>}

ASSUME SourcesAssumption == "user" \in Sources
ASSUME HistoriesAssumption == Starts \subseteq Histories /\ Upstream \in Histories
ASSUME BoundsAssumption == MaxCommands \in Nat \ {0} /\ MaxCrashes \in Nat

VARIABLES
  repo,     \* what is on disk
  queue,    \* the writes the running command still has to make
  plan,     \* what the user asked for: the operation begun last (a history variable)
  odd,      \* what else happened since it began (a history variable)
  commands, \* commands run so far
  crashes   \* commands killed so far

vars == <<repo, queue, plan, odd, commands, crashes>>

-----------------------------------------------------------------------------
(* Histories and trees. *)

Tree(h) == Last(h).tree

\* The commit HEAD names: the branch's, or its own when it is detached.
Tip == IF repo.head = None THEN repo.branch ELSE repo.head[1]

\* The tree t with one change (add, del) made to it, and whether the three-way
\* merge that makes it meets lines it cannot combine.
Changed(t, add, del) == (t \ del) \cup add
Meets(t, add, del) ==
  \/ \E p \in add \ t, q \in t : {p, q} \in Clash
  \/ \E p \in del \cap t, q \in t : <<q, p>> \in Builds

\* Replaying the source commit s: its change, or for a revert the reverse.
AddOf(op, s) == IF op = "revert" THEN {} ELSE Adds[s]
DelOf(op, s) == IF op = "revert" THEN Adds[s] ELSE {}
Replayed(op, s, t) == Changed(t, AddOf(op, s), DelOf(op, s))
Conflicts(op, s, t) == Meets(t, AddOf(op, s), DelOf(op, s))

\* The commit recording tree t on top of history h: what it replays, its tree,
\* and its change against its parent.
Commit(op, s, h, t) ==
  [op |-> op, src |-> s, tree |-> t, add |-> t \ Tree(h), del |-> Tree(h) \ t]

\* The index holding tree t with no conflict, or the conflict a command left
\* between tree t and the tree that has the other side's change too.
Clean(t) == [tree |-> t, unmerged |-> "no", both |-> t]
Unmerged(t, both, by) == [tree |-> t, unmerged |-> by, both |-> both]

IndexClean == repo.index = Clean(Tree(Tip))

-----------------------------------------------------------------------------
(* Writes. *)

W(file, value) == [f |-> file, v |-> value]

\* clearSequencer and clearRebaseState remove a whole directory.
SequencerDir == {"seqHead", "seqTodo", "seqSafety", "seqOpts"}
RebaseDir == {"rbOrig", "rbOnto", "rbTodo", "rbDone", "rbMessage", "rbStash"}

Files(dir) == CASE dir = "sequencer" -> SequencerDir
                [] dir = "rebase-merge" -> RebaseDir
                [] OTHER -> {dir}

\* One write to disk. "push" adds to the stash list (pushStashRef), "restore" to
\* the edited files.
Apply(r, w) ==
  CASE w.f = "push"    -> [r EXCEPT !.stash = @ \cup w.v]
    [] w.f = "restore" -> [r EXCEPT !.dirty = @ \cup w.v]
    [] OTHER           -> [f \in DOMAIN r |-> IF f \in Files(w.f) THEN w.v ELSE r[f]]

\* updateRef("HEAD", h): through a symbolic HEAD it is the branch that moves.
MoveHead(h) == IF repo.head = None THEN W("branch", h) ELSE W("head", <<h>>)

\* Removing a state file, or the sequencer directory, that may not be there.
RemoveFile(f) == IF repo[f] = None THEN <<>> ELSE <<W(f, None)>>
ClearSequencer ==
  IF \A f \in SequencerDir : repo[f] = None THEN <<>> ELSE <<W("sequencer", None)>>

\* git's sequencer_post_commit_cleanup: the sequencer goes only with its last pick.
SequencerPostCommitCleanup ==
  RemoveFile("pick") \o RemoveFile("revert")
  \o (IF /\ repo.pick # None \/ repo.revert # None
         /\ repo.seqTodo # None
         /\ Len(repo.seqTodo[1]) <= 1
      THEN ClearSequencer ELSE <<>>)

\* Mutant: the autostash file is only removed.
DropMergeAutostash(held) == IF held = None THEN <<>> ELSE <<W("mergeStash", None)>>

\* The autostash goes to the stash list when the merge's state is dropped.
SaveMergeAutostash(held) ==
  IF held = None THEN <<>>
  ELSE <<W("mergeStash", None), W("push", held[1])>>

RemoveMergeBranchState(held) ==
  RemoveFile("merge") \o RemoveFile("message") \o SaveMergeAutostash(held)

RemoveBranchState(held) == SequencerPostCommitCleanup \o RemoveMergeBranchState(held)

RemoveCommittedState ==
  SequencerPostCommitCleanup \o RemoveFile("merge") \o RemoveFile("message")

\* applyAutostash: the edits come back to the working tree, or are kept in the
\* stash list when they conflict (leaving the conflict) or are refused.
ApplyOutcomes == {"applied", "conflict", "refused"}
ApplyAutostash(edits, outcome, t) ==
  CASE outcome = "applied"  -> <<W("restore", edits)>>
    [] outcome = "conflict" -> <<W("index", Unmerged(t, t, "stash")), W("push", edits)>>
    [] outcome = "refused"  -> <<W("push", edits)>>

ApplyMergeAutostash(held, outcome, t) ==
  IF held = None THEN <<>>
  ELSE <<W("mergeStash", None)>> \o ApplyAutostash(held[1], outcome, t)

\* The edits an autostash file holds.
HeldIn(f) == IF repo[f] = None THEN {} ELSE repo[f][1]

\* The local changes an autostash takes: edited files, and what is staged.
Local == repo.dirty \cup (IF IndexClean THEN {} ELSE {"staged"})

\* createAutostash: stash create, then reset --hard. Nothing on disk names the
\* stash yet: the caller writes the file that does.
CreateAutostash == IF Local = {} THEN <<>> ELSE <<W("index", Clean(Tree(Tip))), W("dirty", {})>>

\* A replay that begins at history h: the commits made so far, the writes that make
\* them, the lines dropped, and whether it has stopped.
Fresh(h) == [h |-> h, ws |-> <<>>, dropped |-> {}, stopped |-> FALSE]

-----------------------------------------------------------------------------
(* The frame every command shares. *)

\* plan.local: every edit an autostash has taken that the user has not since
\* thrown away; plan.dropped: the lines that were skipped or changed nothing, each
\* named by how many lines follow it.
NoPlan == [kind |-> "none", start |-> <<>>, todo |-> <<>>, dropped |-> {}, local |-> {}]

Begun(kind, todo, local) ==
  [kind |-> kind, start |-> Tip, todo |-> todo, dropped |-> {}, local |-> plan.local \cup local]

\* What the user does after an operation ended is no part of it.
Closed == [plan EXCEPT !.kind = IF @ \in {"aborted", "refused"} THEN "none" ELSE @]
Dropping(lines) == [plan EXCEPT !.dropped = @ \cup lines]
Discarding(edits) == [Closed EXCEPT !.local = @ \ edits]

\* What outlives the operation it happened in; and an operation may begin over
\* the files of an older one, which only the four markers would have refused.
Lasting ==
  (odd \cap {"crash", "refused"})
  \cup (IF repo.seqHead # None \/ repo.seqTodo # None \/ repo.rbOrig # None THEN {"stale"} ELSE {})

\* A command is started: it will make the writes ws.
Start(ws, newPlan, newOdd) ==
  /\ queue = <<>>
  /\ commands < MaxCommands
  /\ queue' = ws
  /\ plan' = newPlan
  /\ odd' = newOdd
  /\ commands' = commands + 1
  /\ UNCHANGED <<repo, crashes>>

\* assertNoPendingOperation looks at the four markers and at nothing else.
NoPendingOperation ==
  /\ repo.merge = None
  /\ repo.pick = None
  /\ repo.revert = None
  /\ repo.rebase = None

InitRepo(start, edits) ==
  [branch |-> start, head |-> None, orig |-> None,
   index |-> Clean(Tree(start)), dirty |-> edits, stash |-> {},
   merge |-> None, pick |-> None, revert |-> None, rebase |-> None, message |-> None,
   mergeStash |-> None,
   seqHead |-> None, seqTodo |-> None, seqSafety |-> None, seqOpts |-> None,
   rbOrig |-> None, rbOnto |-> None, rbTodo |-> None, rbDone |-> None,
   rbMessage |-> None, rbStash |-> None]

Init ==
  /\ repo \in {InitRepo(start, edits) : start \in Starts, edits \in SUBSET Edits}
  /\ queue = <<>>
  /\ plan = NoPlan
  /\ odd = {}
  /\ \/ commands = 0 /\ crashes = MaxCrashes \* no crash, and one command more
     \/ commands = 1 /\ crashes = 0

\* The running command makes its next write.
WriteNext ==
  /\ queue # <<>>
  /\ repo' = Apply(repo, Head(queue))
  /\ queue' = Tail(queue)
  /\ UNCHANGED <<plan, odd, commands, crashes>>

\* The process is killed: the writes it had not made are lost.
Crash ==
  /\ queue # <<>>
  /\ crashes < MaxCrashes
  /\ queue' = <<>>
  /\ odd' = odd \cup {"crash"}
  /\ crashes' = crashes + 1
  /\ UNCHANGED <<repo, plan, commands>>

-----------------------------------------------------------------------------
(* What the user does besides running the four operations. *)

\* The user edits the conflicted files and stages the result, keeping the other
\* side's change or dropping it.
Resolve(t) ==
  /\ queue = <<>>
  /\ repo.index.unmerged # "no"
  /\ repo' = [repo EXCEPT !.index = Clean(t)]
  /\ UNCHANGED <<queue, plan, odd, commands, crashes>>

\* The user stages a change of their own.
Stage ==
  /\ queue = <<>>
  /\ repo.index.unmerged = "no"
  /\ ~(Adds["user"] \subseteq repo.index.tree)
  /\ commands < MaxCommands
  /\ repo' = [repo EXCEPT !.index = Clean(@.tree \cup Adds["user"])]
  /\ plan' = Closed
  /\ commands' = commands + 1
  /\ UNCHANGED <<queue, odd, crashes>>

\* commit: allowed while an operation is stopped, which it then concludes.
CommitRun(outcome) ==
  LET t == repo.index.tree
      op == CASE repo.merge # None -> "merge"
              [] repo.pick # None -> "pick"
              [] repo.revert # None -> "revert"
              [] OTHER -> "user"
      src == CASE op = "pick" -> repo.pick[1]
               [] op = "revert" -> repo.revert[1]
               [] OTHER -> op
      h == Append(Tip, Commit(op, src, Tip, t))
  IN /\ Cardinality({f \in {"merge", "pick", "revert"} : repo[f] # None}) <= 1
     /\ repo.index.unmerged = "no"
     /\ repo.merge # None \/ t # Tree(Tip)
     /\ Start(<<MoveHead(h)>> \o RemoveCommittedState \o ApplyMergeAutostash(repo.mergeStash, outcome, t),
              Closed, odd \cup {"commit"})

\* reset --hard <rev>: local edits are dropped on request, the state of a stopped
\* merge, pick or revert goes, .git/sequencer with more to do and rebase-merge stay.
Reset(h) ==
  Start(<<W("dirty", {}), W("index", Clean(Tree(h))), W("orig", <<Tip>>), MoveHead(h)>>
        \o RemoveBranchState(repo.mergeStash),
        Discarding(repo.dirty), odd \cup {"reset"})
=============================================================================
