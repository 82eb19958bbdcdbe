-------------------------------- MODULE Remote --------------------------------
(* What a push and a fetch find around them: the remote repository, which answers *)
(* and which others push to, and the local one, whose user commits, resets and    *)
(* tags meanwhile. A commit is a number, larger than its parents, and stands for  *)
(* the objects it brings; 0 is the null id. The remote's fetch refspec is         *)
(* refs/heads/*:refs/remotes/<remote>/*, with or without its `+`: a branch has a  *)
(* tracking ref and a tag has none.                                               *)
EXTENDS Integers, FiniteSets, Sequences

CONSTANTS
  Commits, Parents,      \* the history anyone may come to have
  Branches, Tags,        \* refs/heads/ and refs/tags/ on both sides
  MadeHere, MadeThere,   \* which commits the local user and the others can make
  Capabilities,          \* what the remote may advertise: atomic, delete-refs
  Budgets                \* how often each may act: work, others, pushes, fetches

ASSUME HistoryAssumption ==
  /\ Branches \cap Tags = {}
  /\ Commits \subseteq Nat \ {0} /\ Commits # {}
  /\ Parents \in [Commits -> SUBSET Commits]
  /\ \A c \in Commits : \A p \in Parents[c] : p < c
  /\ MadeHere \cup MadeThere \subseteq Commits

VARIABLES
  remote,   \* [refs, objects, caps] of the remote
  local,    \* [refs, tracking, objects, unindexed, fetchHead] of the repository
  log,      \* [branch -> the values its reflog lists, oldest first]
  since,    \* [branch -> how long that reflog was when the tracking ref last moved]
  had,      \* history: [ref -> the values it has had at the remote]
  shown,    \* history: [branch -> the values its tracking ref has had]
  quiet,    \* history: nobody else moved a ref since the push asked for them
  left      \* how often each may still act

worldVars == <<remote, local, log, since, had, shown, quiet, left>>

Refs == Branches \cup Tags
Null == 0
Ids == Commits \cup {Null}

Ancestors[c \in Commits] == {c} \cup UNION {Ancestors[p] : p \in Parents[c]}
Closure(cs) == UNION {Ancestors[c] : c \in cs \ {Null}}

WorldInit ==
  LET first == CHOOSE c \in Commits : Parents[c] = {} IN
  /\ \E caps \in Capabilities :
       remote = [refs |-> [r \in Refs |-> IF r \in Branches THEN first ELSE Null],
                 objects |-> {first}, caps |-> caps]
  /\ local = [refs |-> [r \in Refs |-> IF r \in Branches THEN first ELSE Null],
              tracking |-> [b \in Branches |-> first],
              objects |-> {first}, unindexed |-> {}, fetchHead |-> {}]
  /\ log = [b \in Branches |-> <<first>>]
  /\ since = [b \in Branches |-> 0]
  /\ had = [r \in Refs |-> {remote.refs[r]}]
  /\ shown = [b \in Branches |-> {first}]
  /\ quiet = FALSE
  /\ left \in Budgets

-----------------------------------------------------------------------------
(* Ref updates of the repository. *)

\* updateRef: the target is there, a reflog line only when the value changes. It expects
\* nothing of the value it replaces.
TargetValid(c) == c \in local.objects

Track(b, c) ==
  /\ TargetValid(c)
  /\ local' = [local EXCEPT !.tracking[b] = c]
  /\ since' = [since EXCEPT ![b] = IF local.tracking[b] = c THEN @ ELSE Len(log[b])]
  /\ shown' = [shown EXCEPT ![b] = @ \cup {c}]

\* deleteRefs: the refs go in one transaction, and their reflogs with them.
Untrack(bs) ==
  /\ local' = [local EXCEPT !.tracking = [b \in Branches |-> IF b \in bs THEN Null ELSE @[b]]]
  /\ since' = [b \in Branches |-> IF b \in bs THEN 0 ELSE since[b]]
  /\ UNCHANGED shown

-----------------------------------------------------------------------------
(* The local user and the others. *)

\* A commit, an amend, a merge or a reset on a branch.
Work(b, c) ==
  /\ left.work > 0
  /\ c # local.refs[b] /\ c \in MadeHere \cup local.objects /\ Parents[c] \subseteq local.objects
  /\ local' = [local EXCEPT !.refs[b] = c, !.objects = @ \cup {c}]
  /\ log' = [log EXCEPT ![b] = Append(@, c)]
  /\ left' = [left EXCEPT !.work = @ - 1]
  /\ UNCHANGED <<remote, since, had, shown, quiet>>

TagHere(t, c) ==
  /\ left.work > 0
  /\ local.refs[t] = Null /\ c \in local.objects
  /\ local' = [local EXCEPT !.refs[t] = c]
  /\ left' = [left EXCEPT !.work = @ - 1]
  /\ UNCHANGED <<remote, log, since, had, shown, quiet>>

\* Somebody else's push, whatever it moves and however.
Others(r, c) ==
  /\ left.others > 0
  /\ c # remote.refs[r]
  /\ c # Null => c \in MadeThere \cup remote.objects /\ Parents[c] \subseteq remote.objects
  /\ remote' = [remote EXCEPT !.refs[r] = c, !.objects = @ \cup ({c} \ {Null})]
  /\ had' = [had EXCEPT ![r] = @ \cup {c}]
  /\ quiet' = FALSE
  /\ left' = [left EXCEPT !.others = @ - 1]
  /\ UNCHANGED <<local, log, since, shown>>

\* The remote's gc. Its grace period outlasts a push that has seen the refs.
RemoteGc ==
  /\ remote.objects # Closure({remote.refs[r] : r \in Refs})
  /\ remote' = [remote EXCEPT !.objects = Closure({remote.refs[r] : r \in Refs})]
  /\ UNCHANGED <<local, log, since, had, shown, quiet, left>>
=============================================================================
