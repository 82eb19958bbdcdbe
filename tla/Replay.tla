-------------------------------- MODULE Replay --------------------------------
(* cherry-pick and revert: run, --continue, --skip and --abort, of one commit  *)
(* or of a list. op is "pick" or "revert"; the two differ in the merge they     *)
(* make (Replayed), in allowEmpty, and in what an empty result leaves behind.   *)
EXTENDS RepoState

Marker(op) == IF op = "pick" THEN "pick" ELSE "revert"

-----------------------------------------------------------------------------
(* writeSequencerStop: head, todo, abort-safety, then opts when not default. *)
SequencerStop(run, rest, h) ==
  IF ~run.multi THEN <<>>
  ELSE <<W("seqHead", <<run.head>>), W("seqTodo", <<rest>>), W("seqSafety", <<h>>)>>
       \o (IF run.allowEmpty THEN <<W("seqOpts", <<"allow-empty">>)>> ELSE <<>>)

\* persistStop: the marker, then the message draft.
PersistStop(op, s) == <<W(Marker(op), <<s>>), W("message", <<s>>)>>

\* What replaying s onto the history acc.h does; rest is s and what follows it.
ReplayOne(run, acc, s, rest, first) ==
  LET op == run.op
      t == Tree(acc.h)
      new == Replayed(op, s, t)
      stop == SequencerStop(run, rest, acc.h)
      stopAt(ws) == [acc EXCEPT !.stopped = TRUE, !.ws = @ \o ws \o stop]
  IN CASE acc.stopped -> acc
       [] ~acc.stopped /\ s \in Merges -> stopAt(<<>>)
       [] ~acc.stopped /\ s \notin Merges /\ Conflicts(op, s, t) ->
            stopAt(<<W("index", Unmerged(t, new, op))>> \o PersistStop(op, s))
       [] ~acc.stopped /\ s \notin Merges /\ ~Conflicts(op, s, t) /\ new = t /\ ~run.allowEmpty ->
            IF op = "pick" THEN stopAt(PersistStop(op, s))
            ELSE IF run.onEmpty = "drop" /\ first
                 THEN [acc EXCEPT !.dropped = @ \cup {Len(rest) - 1}]
                 ELSE stopAt(<<>>)
       [] OTHER ->
            LET h == Append(acc.h, Commit(op, s, acc.h, new))
            IN [acc EXCEPT !.h = h, !.ws = @ \o <<W("index", Clean(new)), MoveHead(h)>>]

\* Where the replay of a list onto history h is after i of its commits: it goes on
\* up to the first that stops it.
Replays(run, todo, h) ==
  LET acc[i \in 0 .. Len(todo)] ==
        IF i = 0 THEN Fresh(h)
        ELSE ReplayOne(run, acc[i - 1], todo[i], SubSeq(todo, i, Len(todo)), i = 1)
  IN acc

\* runSequence: every commit of todo in turn; the sequencer directory is removed
\* once the list is done.
RunSequence(run, todo, h) ==
  LET end == Replays(run, todo, h)[Len(todo)]
  IN IF end.stopped THEN end ELSE [end EXCEPT !.ws = @ \o ClearSequencer]

-----------------------------------------------------------------------------
(* run *)

\* openReplayRun: no marker of another operation, HEAD on a branch, a clean index.
OpenReplayRun == NoPendingOperation /\ repo.head = None /\ IndexClean

ReplayRun(op, todo, allowEmpty) ==
  LET run == [op |-> op, multi |-> Len(todo) > 1, head |-> Tip,
              allowEmpty |-> allowEmpty, onEmpty |-> "stop"]
      end == RunSequence(run, todo, Tip)
      \* A lone commit that is refused or reverts nothing leaves nothing to resume.
      gone == IF end.stopped /\ ~run.multi /\ end.ws = <<>> THEN {0} ELSE {}
  IN /\ op = "revert" => ~allowEmpty
     /\ OpenReplayRun
     /\ Start(end.ws,
              [Begun(op, todo, {}) EXCEPT !.dropped = gone],
              Lasting)

-----------------------------------------------------------------------------
(* --continue and --skip *)

\* openReplayResume: a stopped commit of this command, or lines left in todo,
\* whichever command wrote them.
OpenReplayResume(op) ==
  repo[Marker(op)] # None \/ (repo.seqTodo # None /\ repo.seqTodo[1] # <<>>)

Todo == IF repo.seqTodo = None THEN <<>> ELSE repo.seqTodo[1]
\* Mutant: the resolved line stays in the list.
WholeTodo == Todo
Rest == IF Todo = <<>> THEN <<>> ELSE Tail(Todo)

\* resolveResumeOpts (cherry-pick); a revert never allows an empty result.
ResumeAllowsEmpty(op, given) ==
  /\ op = "pick"
  /\ IF repo.seqHead # None THEN repo.seqOpts # None ELSE given

\* A list is resumed by the other command: nothing compares the lines' own verb.
Crossing(op) == IF plan.kind = op THEN odd ELSE odd \cup {"crossed"}

Resumed(op, h, allowEmpty, onEmpty) ==
  [op |-> op, multi |-> TRUE, allowEmpty |-> allowEmpty, onEmpty |-> onEmpty,
   head |-> IF repo.seqHead # None THEN repo.seqHead[1] ELSE h]

\* The stopped commit was resolved: it is committed, then the rest is replayed.
ContinueResolved(op, given) ==
  LET marker == repo[Marker(op)]
      allowEmpty == ResumeAllowsEmpty(op, given)
      h == Append(Tip, Commit(op, marker[1], Tip, repo.index.tree))
      end == RunSequence(Resumed(op, h, allowEmpty, "stop"), Rest, h)
  IN /\ marker # None
     /\ repo.head = None
     /\ repo.index.unmerged = "no"
     /\ repo.index.tree # Tree(Tip) \/ allowEmpty
     /\ repo.message # None
     /\ Start(<<MoveHead(h), W(Marker(op), None), W("message", None)>> \o end.ws,
              plan, Crossing(op))

\* No commit is stopped but todo has lines: all of them are replayed. The model's
\* user resumes such a stop from a clean index.
ContinueMarkerless(op, given) ==
  LET end == RunSequence(Resumed(op, Tip, ResumeAllowsEmpty(op, given), "drop"), Todo, Tip)
  IN /\ repo[Marker(op)] = None
     /\ OpenReplayResume(op)
     /\ repo.head = None
     /\ IndexClean
     /\ Start(end.ws, Dropping(end.dropped), Crossing(op))

\* --skip: the stopped commit is dropped (reset --merge HEAD), the rest replayed.
ReplaySkip(op, given) ==
  LET end == RunSequence(Resumed(op, Tip, ResumeAllowsEmpty(op, given), "stop"), Rest, Tip)
  IN /\ OpenReplayResume(op)
     /\ repo.head = None
     /\ Start(<<W("index", Clean(Tree(Tip))), W("orig", <<Tip>>)>>
              \o RemoveBranchState(repo.mergeStash) \o end.ws,
              Dropping({Len(Rest)}), Crossing(op))

\* --abort: back to the sequencer's head, or to HEAD when there is none; nothing
\* compares HEAD with abort-safety first.
\* Mutant: the sequencer's head is not read back.
AbortWhereItStands == repo.branch
AbortTarget == IF repo.seqHead # None THEN repo.seqHead[1] ELSE repo.branch

ReplayAbort(op) ==
  /\ repo[Marker(op)] # None \/ repo.seqHead # None
  /\ repo.head = None
  /\ Start(<<W("index", Clean(Tree(AbortTarget))), W("orig", <<Tip>>), MoveHead(AbortTarget)>>
           \o RemoveBranchState(repo.mergeStash) \o ClearSequencer,
           [plan EXCEPT !.kind = "aborted"], odd)
=============================================================================
