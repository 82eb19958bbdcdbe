-------------------------------- MODULE Rebase --------------------------------
(* A flat rebase of the checked-out branch onto Upstream: run, --continue,      *)
(* --skip and --abort. HEAD is detached and walks from the new base; the branch  *)
(* itself moves at the end (and before, if a killed command had reattached HEAD). *)
EXTENDS RepoState

CommonPrefix(g, h) ==
  CHOOSE n \in 0 .. Len(g) :
    /\ n <= Len(h) /\ SubSeq(g, 1, n) = SubSeq(h, 1, n)
    /\ n < Len(g) /\ n < Len(h) => g[n + 1] # h[n + 1]

\* resolveRebaseReplay: the branch's own commits, merges left out.
OwnCommits(h) ==
  LET own[n \in 0 .. Len(h)] ==
        IF n <= CommonPrefix(h, Upstream) THEN <<>>
        ELSE IF h[n].op = "merge" THEN own[n - 1]
        ELSE Append(own[n - 1], h[n])
  IN own[Len(h)]

\* canFastForward: the branch already sits on top of Upstream.
OnTopOfUpstream(h) == IsPrefix(Upstream, h)

-----------------------------------------------------------------------------
(* writeRebaseStop and writeRescheduledPick, file by file up to the marker.     *)
(* Files nothing here reads back (backup, end, msgnum, patch) are left out.     *)

RebaseStop(run, i, stopped) ==
  <<W("rbOrig", <<run.orig>>), W("rbOnto", <<Upstream>>),
    W("rbTodo", <<SubSeq(run.todo, i + 1, Len(run.todo))>>),
    W("rbDone", <<run.done \o SubSeq(run.todo, 1, i)>>),
    W("rbMessage", <<stopped>>), W("message", <<stopped>>), W("rebase", <<stopped>>)>>

RescheduledPick(run, i, refused) ==
  <<W("rbOrig", <<run.orig>>), W("rbOnto", <<Upstream>>),
    W("rbTodo", <<SubSeq(run.todo, i, Len(run.todo))>>),
    W("rbDone", <<run.done \o SubSeq(run.todo, 1, i)>>),
    W("rbMessage", None), W("rebase", <<refused>>)>>

-----------------------------------------------------------------------------
(* replayFrom: each line in turn. A commit whose parent is HEAD is              *)
(* fast-forwarded to; an empty result is dropped; a conflict stops; an untracked *)
(* file in the way (blocked, the line's number or 0) reschedules the line.       *)

ReplayLine(run, acc, i, blocked) ==
  LET c == run.todo[i]
      t == Tree(acc.h)
      new == Changed(t, c.add, c.del)
      ff == IsPrefix(Append(acc.h, c), run.orig)
      conflict == ~ff /\ Meets(t, c.add, c.del)
      advance(h) == [acc EXCEPT !.h = h,
                                !.ws = @ \o <<W("index", Clean(Tree(h))), W("head", <<h>>)>>]
  IN CASE acc.stopped -> acc
       [] ~acc.stopped /\ i = blocked ->
            [acc EXCEPT !.stopped = TRUE, !.ws = @ \o RescheduledPick(run, i, c)]
       [] ~acc.stopped /\ i # blocked /\ ff -> advance(Append(acc.h, c))
       [] ~acc.stopped /\ i # blocked /\ conflict ->
            [acc EXCEPT !.stopped = TRUE,
                        !.ws = @ \o <<W("index", Unmerged(t, new, "rebase"))>>
                                 \o RebaseStop(run, i, c)]
       [] ~acc.stopped /\ i # blocked /\ ~ff /\ ~conflict /\ new = t /\ c.add \cup c.del # {} ->
            [acc EXCEPT !.dropped = @ \cup {Len(run.todo) - i}]
       [] OTHER -> advance(Append(acc.h, Commit(c.op, c.src, acc.h, new)))

\* Mutant: HEAD is reattached before the branch has moved.
ReattachFirst(h, stash, outcome) ==
  <<W("head", None), W("branch", h)>>
  \o <<W("rebase-merge", None), W("rebase", None)>>
  \o (IF stash = None THEN <<>> ELSE ApplyAutostash(stash[1], outcome, Tree(h)))

\* finishRebase moves the branch (the update throws unless it still is at orig) and
\* reattaches HEAD; endRebaseState removes the directory and re-applies the
\* autostash.
FinishRebase(h, stash, outcome) ==
  <<W("branch", h), W("head", None)>>
  \o <<W("rebase-merge", None), W("rebase", None)>>
  \o (IF stash = None THEN <<>> ELSE ApplyAutostash(stash[1], outcome, Tree(h)))

\* Where the rebase is after i lines.
Lines(run, h, blocked) ==
  LET acc[i \in 0 .. Len(run.todo)] ==
        IF i = 0 THEN Fresh(h) ELSE ReplayLine(run, acc[i - 1], i, blocked)
  IN acc

ReplayFrom(run, h, blocked, stash, outcome) ==
  LET end == Lines(run, h, blocked)[Len(run.todo)]
  IN IF end.stopped \/ repo.branch # run.orig THEN end
     ELSE [end EXCEPT !.ws = @ \o FinishRebase(end.h, stash, outcome)]

\* With HEAD attached (the kill fell after it was, before the files went) a commit
\* made moves the branch, until fastForwardOnto sets HEAD itself and so detaches it.
OnBranch(ws, orig) ==
  LET forwards == {i \in DOMAIN ws : ws[i].f = "head" /\ IsPrefix(ws[i].v[1], orig)}
  IN [i \in DOMAIN ws |->
        IF ws[i].f = "head" /\ \A j \in forwards : i < j THEN W("branch", ws[i].v[1]) ELSE ws[i]]

\* The branch is where finishRebase expects it only if nothing has moved it.
ReplayAttached(run, h, blocked, stash, outcome) ==
  LET end == Lines(run, h, blocked)[Len(run.todo)]
  IN [end EXCEPT !.ws = OnBranch(@, run.orig)
        \o (IF end.stopped \/ h # run.orig \/ end.h # h THEN <<>>
            ELSE FinishRebase(end.h, stash, outcome))]

-----------------------------------------------------------------------------
(* run *)

RebaseGuard(autostash) ==
  /\ NoPendingOperation
  /\ repo.head = None
  /\ repo.index.unmerged = "no"
  /\ autostash \/ Local = {}

RebaseUpToDate(autostash, outcome) ==
  /\ RebaseGuard(autostash)
  /\ OnTopOfUpstream(Tip)
  /\ Local # {} \* otherwise it writes nothing
  /\ Start(CreateAutostash \o ApplyAutostash(Local, outcome, Tree(Tip)),
           Begun("uptodate", <<>>, Local), Lasting)

\* The autostash file exists once a dirty tree was stashed; one left there by an
\* earlier rebase is what a rebase of a clean tree finds.
StashKept == IF Local = {} THEN repo.rbStash ELSE <<Local>>
WriteAutostash == IF Local = {} THEN <<>> ELSE <<W("rbStash", <<Local>>)>>

PlannedSources == [i \in 1 .. Len(OwnCommits(Tip)) |-> OwnCommits(Tip)[i].src]

RebaseRun(autostash, blocked, outcome) ==
  LET run == [orig |-> Tip, todo |-> OwnCommits(Tip), done |-> <<>>]
      end == ReplayFrom(run, Upstream, blocked, StashKept, outcome)
  IN /\ RebaseGuard(autostash)
     /\ ~OnTopOfUpstream(Tip)
     /\ Start(CreateAutostash \o WriteAutostash
              \o <<W("orig", <<Tip>>), W("index", Clean(Tree(Upstream))), W("head", <<Upstream>>)>>
              \o end.ws,
              [Begun("rebase", PlannedSources, Local) EXCEPT !.dropped = end.dropped],
              Lasting)

\* The pre-rebase hook, or an untracked file in the way of the checkout, refuses
\* the start: the autostash has been made and its file written by then.
RebaseRefused(autostash, checkout) ==
  /\ RebaseGuard(autostash)
  /\ ~OnTopOfUpstream(Tip)
  /\ Start(CreateAutostash \o WriteAutostash
           \o (IF checkout THEN <<W("orig", <<Tip>>)>> ELSE <<>>),
           Begun("refused", <<>>, Local), Lasting \cup {"refused"})

-----------------------------------------------------------------------------
(* --continue, --skip, --abort *)

\* readRebaseProgress throws unless these files are there.
RebaseReadable == \A f \in {"rbOrig", "rbOnto", "rbTodo", "rbDone"} : repo[f] # None
Rescheduled == repo.rbMessage = None
OnDisk == [orig |-> repo.rbOrig[1], todo |-> repo.rbTodo[1], done |-> repo.rbDone[1]]
ReplayOn(h, blocked, outcome) ==
  IF repo.head = None THEN ReplayAttached(OnDisk, h, blocked, repo.rbStash, outcome)
  ELSE ReplayFrom(OnDisk, h, blocked, repo.rbStash, outcome)
Attached == IF repo.head = None THEN {"attached"} ELSE {}

RebaseContinue(blocked, outcome) ==
  LET t == repo.index.tree
      h == IF Rescheduled \/ t = Tree(Tip) THEN Tip
           ELSE Append(Tip, Commit(repo.rbMessage[1].op, repo.rbMessage[1].src, Tip, t))
      end == ReplayOn(h, blocked, outcome)
      resolved == IF ~Rescheduled /\ t = Tree(Tip) THEN {Len(repo.rbTodo[1])} ELSE {}
  IN /\ RebaseReadable
     /\ repo.index.unmerged = "no"
     /\ repo.dirty = {}
     /\ Rescheduled => t = Tree(Tip)
     /\ Start((IF h = Tip THEN <<>> ELSE <<MoveHead(h), W("message", None)>>) \o end.ws,
              Dropping(resolved \cup end.dropped), odd \cup Attached)

RebaseSkip(blocked, outcome) ==
  LET end == ReplayOn(Tip, blocked, outcome)
      gone == IF Rescheduled THEN {} ELSE {Len(repo.rbTodo[1])}
  IN /\ RebaseReadable
     /\ Start(<<W("dirty", {}), W("index", Clean(Tree(Tip)))>>
              \o (IF Rescheduled THEN <<>> ELSE RemoveBranchState(repo.mergeStash)) \o end.ws,
              [Discarding(repo.dirty) EXCEPT !.dropped = @ \cup gone \cup end.dropped],
              odd \cup Attached)

RebaseAbort(outcome) ==
  LET t == Tree(repo.rbOrig[1])
  IN /\ RebaseReadable
     /\ Start(<<W("dirty", {}), W("index", Clean(t)), W("head", None)>>
              \o RemoveBranchState(repo.mergeStash)
              \o <<W("rebase-merge", None), W("rebase", None)>>
              \o (IF repo.rbStash = None THEN <<>>
                  ELSE ApplyAutostash(repo.rbStash[1], outcome, t)),
              [Discarding(repo.dirty) EXCEPT !.kind = "aborted"], odd)
=============================================================================
