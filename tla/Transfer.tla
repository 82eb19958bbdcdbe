------------------------------- MODULE Transfer -------------------------------
(* A push and a fetch of one repository, side by side and interleaved with the    *)
(* local user, with others pushing to the same remote, and with the remote's gc.  *)
EXTENDS Push, Fetch

vars == <<worldVars, pushVars, fetchVars>>

Init == WorldInit /\ PushInit /\ FetchInit

World ==
  \/ \E b \in Branches, c \in Commits : Work(b, c)
  \/ \E t \in Tags, c \in Commits : TagHere(t, c)
  \/ \E r \in Refs, c \in Ids : Others(r, c)
  \/ push.at \in {"idle", "done"} /\ wire = {} /\ RemoteGc

Next ==
  \/ World /\ UNCHANGED <<pushVars, fetchVars>>
  \/ PushStep /\ UNCHANGED fetchVars
  \/ FetchStep /\ UNCHANGED pushVars

Spec == Init /\ [][Next]_vars

-----------------------------------------------------------------------------
(* Properties. *)

\* Every variable has its type.
TypeOK ==
  /\ remote.refs \in [Refs -> Ids] /\ remote.objects \subseteq Commits
  /\ local.refs \in [Refs -> Ids] /\ local.tracking \in [Branches -> Ids]
  /\ local.objects \subseteq Commits /\ local.fetchHead \subseteq Commits
  /\ log \in [Branches -> Seq(Commits)] /\ since \in [Branches -> Nat]
  /\ push.at \in {"idle", "adv", "located", "leased", "judged", "sent", "report", "refresh", "done"}
  /\ fetch.at \in {"idle", "begun", "adv", "want", "index", "prune", "apply", "store"}
  /\ \A q \in wire : q.pack \subseteq Commits /\ DOMAIN q.updates \subseteq Refs

\* No ref of the repository and no line of FETCH_HEAD names a commit whose history is not
\* all here, at whatever step a fetch dies and whatever pack it leaves behind.
LocalConnected ==
  Closure({local.refs[r] : r \in Refs} \cup {local.tracking[b] : b \in Branches}
            \cup local.fetchHead) \subseteq local.objects

\* The pack of a push holds all that the remote lacks of what it is asked to point at, even
\* when the tracking refs are out of date and the remote has dropped what they name.
PackSuffices ==
  \A q \in wire : \A r \in DOMAIN q.updates :
    Closure({q.updates[r].new}) \subseteq remote.objects \cup q.pack

\* A tracking ref names a value the remote's ref really had, whichever of a push, its lost
\* or negative answer, and a fetch wrote it last.
TrackingReal == \A b \in Branches : local.tracking[b] \in had[b] \cup {Null}

\* The repository at every step of a push or a fetch, and after one that died there: well
\* typed, its refs lead to no missing commit, and its tracking refs are not made up.
TransferInv == TypeOK /\ LocalConnected /\ TrackingReal

\* What push returns is true: a ref is reported ok only if this push moved it at the remote,
\* and rejected only if it did not.
ReportTrue ==
  push.no > 0 => \A r \in Refs :
    /\ push.result[r] = "ok" => r \in sent[push.no].moved
    /\ push.result[r] = "rejected" => r \notin sent[push.no].moved

\* An atomic push moves all of its refs or none, whoever rejects one of them: the local
\* verdict, a lease, the remote's hook or another push that came first.
AtomicWhole ==
  \A n \in 1 .. MaxPushes : sent[n].atomic => sent[n].moved \in {{}, sent[n].movers}

\* A push tells what it did: the report of every ref is true, and one that was to be atomic
\* was.
OutcomeTrue == ReportTrue /\ AtomicWhole

\* A push that returns, while nobody else moved a ref, leaves the tracking ref of every
\* branch it pushed or found up to date where the remote's branch is, also when an earlier
\* push moved it and lost the answer.
InStep ==
  push.at = "done" /\ quiet =>
    \A b \in Plan \cap Branches :
      push.verdict[b] = "up-to-date" \/ push.result[b] = "ok" => local.tracking[b] = remote.refs[b]

\* The refs a request moves in this step.
MovedBy(q) == {r \in DOMAIN q.updates : remote'.refs[r] # remote.refs[r]}
Drops(r) == remote.refs[r] # Null /\ (remote'.refs[r] = Null \/ remote.refs[r] \notin Ancestors[remote'.refs[r]])

\* Without force or a lease, a push only adds to a branch and never moves a tag, though the
\* remote may have moved between its advertisement and the request.
OnlyForward ==
  \A q \in wire \ wire' : q.opts.lease = "none" /\ ~q.opts.force =>
    \A r \in MovedBy(q) : q.opts.specs[r] = "" =>
      ~Drops(r) /\ (r \in Tags => remote.refs[r] = Null)

\* Under an automatic lease, what a push drops from the remote without force or `+` is a value
\* the tracking ref has shown.
LeaseSeen ==
  \A q \in wire \ wire' : q.opts.lease = "auto" /\ ~q.opts.force =>
    \A r \in MovedBy(q) : q.opts.specs[r] # "+" /\ Drops(r) =>
      r \in Branches /\ remote.refs[r] \in shown[r]

\* With forceIfIncludes, what it drops was part of the local branch at some time: a fetch
\* that ran behind the user's back does not license the overwrite. Except where a fetch pruned
\* the tracking ref between the reading of the lease and the check, which is then skipped.
IncludesKept ==
  \A q \in wire \ wire' : q.opts.lease = "auto" /\ q.opts.includes /\ ~q.opts.force =>
    \A r \in MovedBy(q) \ q.pruned : q.opts.specs[r] # "+" /\ Drops(r) =>
      \E i \in 1 .. Len(log[r]) : remote.refs[r] \in Ancestors[log[r][i]]

\* What a push may drop from the remote when its request arrives, by its mode: nothing, what
\* its lease has shown, or what the local branch has included.
DropsAllowed == [][OnlyForward /\ LeaseSeen /\ IncludesKept]_vars

\* Without `+`, a fetch only adds to a tracking ref, and it never moves a tag, unless the ref
\* was moved between its judgement and its update.
FetchForward ==
  [][fetch.at = "store" /\ fetch'.at = "apply" /\ judged' =>
       LET r == fetch.ref IN
       /\ r \in Tags => local.refs[r] = Null
       /\ r \in Branches /\ local.tracking[r] # Null /\ ~fetch.opts.plus /\ fetch.opts.showForced =>
            local.tracking[r] \in Ancestors[local'.tracking[r]]]_vars
=============================================================================
