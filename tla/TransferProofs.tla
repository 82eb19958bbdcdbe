---------------------------- MODULE TransferProofs ----------------------------
(* Proofs about Transfer, for every history, every set of refs and menus. *)
EXTENDS Transfer, WellFoundedInduction, TLAPS

------------------------------
(* History. *)

\* A set of commits that lacks no parent of its commits.
Closed(S) == \A c \in S : Parents[c] \subseteq S

\* What is in every closed set with c: the same as Ancestors[c], without recursion.
Below == [c \in Commits |-> {x \in Commits : \A S \in SUBSET Commits : c \in S /\ Closed(S) => x \in S}]

\* The commits below a commit are itself and those below its parents.
LEMMA BelowEquation ==
  Below = [c \in Commits |-> {c} \cup UNION {Below[p] : p \in Parents[c]}]
<1>0. \A c \in Commits : Parents[c] \subseteq Commits BY HistoryAssumption
<1>1. ASSUME NEW c \in Commits PROVE c \in Below[c] /\ Below[c] \subseteq Commits BY DEF Below
<1>2. ASSUME NEW c \in Commits PROVE Closed(Below[c]) BY <1>0 DEF Below, Closed
<1>3. ASSUME NEW c \in Commits PROVE Below[c] = {c} \cup UNION {Below[p] : p \in Parents[c]}
  <2> DEFINE S == {c} \cup UNION {Below[p] : p \in Parents[c]}
  <2>1. S \subseteq Commits BY <1>0, <1>1
  <2>2. Closed(S)
    <3>1. Parents[c] \subseteq S BY <1>0, <1>1
    <3>2. \A p \in Parents[c] : Closed(Below[p]) BY <1>0, <1>2
    <3> QED BY <3>1, <3>2 DEF Closed
  <2>3. Below[c] \subseteq S BY <2>1, <2>2 DEF Below
  <2>4. ASSUME NEW p \in Parents[c], NEW x \in Below[p] PROVE x \in Below[c] BY <1>0, <2>4 DEF Below, Closed
  <2> QED BY <1>1, <2>3, <2>4
<1> QED BY <1>3 DEF Below

\* The recursive definition of Ancestors has a solution, so it is one.
LEMMA AncestorsEquation ==
  \A c \in Commits : Ancestors[c] = {c} \cup UNION {Ancestors[p] : p \in Parents[c]}
<1> DEFINE Solves(f) == f = [c \in Commits |-> {c} \cup UNION {f[p] : p \in Parents[c]}]
<1>1. \E f : Solves(f) BY BelowEquation
<1>2. Ancestors = CHOOSE f : Solves(f) BY DEF Ancestors
<1>3. Solves(Ancestors)
  <2> HIDE DEF Solves
  <2> QED BY <1>1, <1>2, Zenon
<1> QED BY <1>3

\* Every set of numbers has a least one.
LEMMA LeastNumber ==
  ASSUME NEW T, T \subseteq Nat, T # {}
  PROVE  \E x \in T : \A y \in T : ~(y < x)
<1>1. \E x \in T : \A y \in T : ~(<<y, x>> \in OpToRel(<, Nat)) BY NatLessThanWellFounded, WFMin
<1> QED BY <1>1 DEF OpToRel

\* The ancestors of a commit are in every closed set that has it.
LEMMA AncestorsInClosed ==
  ASSUME NEW S, S \subseteq Commits, Closed(S), NEW c \in S
  PROVE  Ancestors[c] \subseteq S
<1> DEFINE T == {x \in S : ~(Ancestors[x] \subseteq S)}
<1> SUFFICES ASSUME T # {} PROVE FALSE OBVIOUS
<1>1. T \subseteq Nat BY HistoryAssumption
<1>2. PICK x \in T : \A y \in T : ~(y < x) BY <1>1, LeastNumber
<1>3. \A p \in Parents[x] : p \in S /\ p < x BY HistoryAssumption DEF Closed
<1>4. \A p \in Parents[x] : Ancestors[p] \subseteq S BY <1>2, <1>3
<1> QED BY <1>4, AncestorsEquation

\* A commit is among its ancestors, which are commits and a closed set.
LEMMA AncestorsClosed ==
  \A c \in Commits : c \in Ancestors[c] /\ Ancestors[c] \subseteq Commits /\ Closed(Ancestors[c])
<1>0. \A c \in Commits : Parents[c] \subseteq Commits BY HistoryAssumption
<1>1. \A c \in Commits : c \in Ancestors[c] BY AncestorsEquation
<1>2. \A c \in Commits : Ancestors[c] \subseteq Commits BY <1>0, AncestorsInClosed DEF Closed
<1> DEFINE T == {x \in Commits : ~Closed(Ancestors[x])}
<1> SUFFICES ASSUME T # {} PROVE FALSE BY <1>1, <1>2
<1>3. T \subseteq Nat BY HistoryAssumption
<1>4. PICK x \in T : \A y \in T : ~(y < x) BY <1>3, LeastNumber
<1>5. \A p \in Parents[x] : p \in Commits /\ p < x BY HistoryAssumption
<1>6. \A p \in Parents[x] : Closed(Ancestors[p]) BY <1>4, <1>5
<1>7. Ancestors[x] = {x} \cup UNION {Ancestors[p] : p \in Parents[x]} BY AncestorsEquation
<1>8. \A p \in Parents[x] : p \in Ancestors[p] BY <1>1, <1>5
<1> QED BY <1>6, <1>7, <1>8 DEF Closed

\* What a closed set reaches is in it; what is reached is closed.
LEMMA ClosureInClosed ==
  ASSUME NEW S, S \subseteq Commits, Closed(S), NEW cs, cs \ {Null} \subseteq S
  PROVE  Closure(cs) \subseteq S
  BY AncestorsInClosed DEF Closure

\* The closure of some commits is closed and has them.
LEMMA ClosureClosed ==
  ASSUME NEW cs, cs \subseteq Ids
  PROVE  Closure(cs) \subseteq Commits /\ Closed(Closure(cs)) /\ cs \ {Null} \subseteq Closure(cs)
<1>1. cs \ {Null} \subseteq Commits BY DEF Ids
<1>2. \A c \in cs \ {Null} : c \in Ancestors[c] /\ Ancestors[c] \subseteq Commits /\ Closed(Ancestors[c])
  BY <1>1, AncestorsClosed
<1> QED BY <1>2 DEF Closure, Closed

------------------------------
(* The inductive invariant. *)

\* Both stores are closed under Parents, and what is named is in them. The remote is
\* closed because gc keeps off while a push is under way.
RemoteOK ==
  /\ DOMAIN remote = {"refs", "objects", "caps"}
  /\ remote.refs \in [Refs -> Ids] /\ remote.objects \subseteq Commits
  /\ Closed(remote.objects)
  /\ \A r \in Refs : remote.refs[r] \in remote.objects \cup {Null}

LocalOK ==
  /\ DOMAIN local = {"refs", "tracking", "objects", "unindexed", "fetchHead"}
  /\ local.refs \in [Refs -> Ids] /\ local.tracking \in [Branches -> Ids]
  /\ local.objects \subseteq Commits
  /\ Closed(local.objects)
  /\ \A r \in Refs : local.refs[r] \in local.objects \cup {Null}
  /\ \A b \in Branches : local.tracking[b] \in local.objects \cup {Null}
  /\ local.fetchHead \subseteq local.objects

Lefts == [work : Int, others : Int, pushes : Int, fetches : Int]

\* The histories: the refs have had their values, and the tracking refs have shown theirs.
LogsOK ==
  /\ log \in [Branches -> Seq(Commits)] /\ since \in [Branches -> Nat]
  /\ had \in [Refs -> SUBSET Ids] /\ shown \in [Branches -> SUBSET Ids]
  /\ \A r \in Refs : remote.refs[r] \in had[r]
  /\ \A b \in Branches : local.tracking[b] \in (had[b] \cap shown[b]) \cup {Null}
  /\ left \in Lefts

PushAts == {"idle", "adv", "located", "leased", "judged", "sent", "report", "refresh", "done"}
PushFields == {"at", "no", "opts", "adv", "id", "lease", "pruned", "verdict", "todo", "failed", "result"}
Located == {"located", "leased", "judged", "sent", "report", "refresh", "done"}

\* What the mode of a push lets it replace `old` by `new`.
Licensed(opts, pruned, r, old, new) ==
  /\ opts.lease = "none" /\ ~opts.force /\ opts.specs[r] = "" /\ old # Null =>
       r \notin Tags /\ new # Null /\ old \in Ancestors[new]
  /\ opts.lease = "auto" /\ ~opts.force /\ opts.specs[r] # "+" /\ old # Null =>
       r \in Branches /\ old \in shown[r]
  /\ opts.lease = "auto" /\ opts.includes /\ ~opts.force /\ opts.specs[r] # "+" /\ old # Null =>
       \/ r \in pruned
       \/ r \in Branches /\ \E i \in 1 .. Len(log[r]) : old \in Ancestors[log[r][i]]

\* A push has its number and its types.
PushTypes ==
  /\ DOMAIN push = PushFields
  /\ push.at \in PushAts /\ push.opts \in PushMenu
  /\ push.no \in Nat /\ left.pushes \in Nat /\ push.no + left.pushes <= MaxPushes
  /\ push.at # "idle" => push.no > 0
  /\ push.adv \in [Refs -> Ids] /\ push.id \in [Refs -> Ids]
  /\ push.verdict \in [Refs -> {"none", "up-to-date", "ok", "forced", "rejected"}]
  /\ push.result \in [Refs -> {"none", "ok", "rejected"}]
  /\ push.todo \subseteq Refs

\* It knows what the remote advertised and, until it ends, the remote keeps it; it sends
\* what is here; its lease is what a tracking ref has shown, and its verdicts are licensed.
PushOK ==
  /\ PushTypes
  /\ push.at \notin {"idle", "done"} => \A r \in Refs : push.adv[r] \in remote.objects \cup {Null}
  /\ \A r \in Refs : push.id[r] \in local.objects \cup {Null}
  /\ push.at \in Located => \A r \in Plan : Deletes(r) <=> (push.id[r] = Null)
  /\ push.at \in {"idle", "adv", "located", "leased"} => \A r \in Refs : push.verdict[r] = "none"
  /\ push.at = "leased" /\ push.opts.lease = "auto" =>
       \A r \in Refs : push.lease[r] # Null => r \in Branches /\ push.lease[r] \in shown[r]
  /\ \A r \in Refs : push.verdict[r] = "up-to-date" => push.id[r] = push.adv[r]
  /\ push.at = "judged" => \A r \in Plan : push.verdict[r] \in {"ok", "forced"} =>
       Licensed(push.opts, push.pruned, r, push.adv[r], push.id[r])

\* A request on its way: its push is the only one of its number, has no answer, and what
\* it carries completes the remote's objects.
RequestOK(q) ==
  /\ q.no \in 1 .. push.no /\ ~answers[q.no].come
  /\ q.no = push.no => push.at \in {"sent", "idle"}
  /\ q.opts \in PushMenu /\ q.atomic \in BOOLEAN
  /\ q.pack \subseteq Commits /\ DOMAIN q.updates \subseteq Refs
  /\ \A c \in q.pack : Parents[c] \subseteq remote.objects \cup q.pack
  /\ \A r \in DOMAIN q.updates :
       /\ q.updates[r].new \in remote.objects \cup q.pack \cup {Null}
       /\ q.no = push.no /\ push.at = "sent" => q.updates[r].new = push.id[r]
       /\ Licensed(q.opts, q.pruned, r, q.updates[r].old, q.updates[r].new)
  /\ sent[q.no].atomic = q.atomic /\ sent[q.no].moved = {}
  /\ q.atomic => DOMAIN q.updates = sent[q.no].movers

WireOK ==
  /\ \A q \in wire : RequestOK(q)
  /\ \A q1, q2 \in wire : q1.no = q2.no => q1 = q2

\* What a push has been told is what the remote did.
AnswersOK ==
  /\ answers \in [1 .. MaxPushes -> [come : BOOLEAN, unpack : BOOLEAN, ok : SUBSET Refs]]
  /\ sent \in [1 .. MaxPushes -> [atomic : BOOLEAN, movers : SUBSET Refs, moved : SUBSET Refs]]
  /\ \A n \in 1 .. MaxPushes :
       /\ IF answers[n].come THEN answers[n].ok = sent[n].moved /\ n <= push.no ELSE answers[n].ok = {}
       /\ sent[n].atomic => sent[n].moved \in {{}, sent[n].movers}
  /\ push.at \in {"adv", "located", "leased", "judged"} => ~answers[push.no].come
  /\ push.at = "report" => answers[push.no].come
  /\ push.at \in {"sent", "report"} => \A r \in answers[push.no].ok : push.id[r] \in had[r]
  /\ push.at # "idle" => \A r \in Refs : push.adv[r] \in had[r]
  /\ \A r \in Refs : push.result[r] # "none" =>
       /\ push.no > 0 /\ answers[push.no].come
       /\ (push.result[r] = "ok") <=> (r \in answers[push.no].ok)

\* While nobody else moves a ref, the remote is where the push left it, and the tracking
\* refs are where the push has put them.
QuietOK ==
  quiet /\ push.at # "idle" =>
    /\ \A r \in Refs : remote.refs[r] = IF r \in answers[push.no].ok THEN push.id[r] ELSE push.adv[r]
    /\ \A b \in Branches : push.result[b] = "ok" => local.tracking[b] = push.id[b]
    /\ push.at \in {"refresh", "done"} => \A b \in Plan \cap Branches :
         push.verdict[b] = "up-to-date" => b \in push.todo \/ local.tracking[b] = push.id[b]
    /\ push.at = "done" => push.todo = {}

FetchAts == {"idle", "begun", "adv", "want", "index", "prune", "apply", "store"}
FetchFields == {"at", "opts", "adv", "map", "pack", "todo", "ref", "old", "backfilled"}

\* A fetch maps refs the remote has advertised; once it applies them, what they name is
\* here; what it is about to store is what it judged.
FetchOK ==
  /\ DOMAIN fetch = FetchFields
  /\ fetch.at \in FetchAts
  /\ fetch.adv \in [Refs -> Ids] /\ \A r \in Refs : fetch.adv[r] \in had[r] \cup {Null}
  /\ fetch.map \subseteq Refs /\ \A r \in fetch.map : fetch.adv[r] # Null
  /\ fetch.todo \subseteq fetch.map
  /\ fetch.at \in {"idle", "begun", "adv"} => fetch.map = {}
  /\ fetch.at = "store" =>
       /\ fetch.ref \in fetch.map
       /\ fetch.old # Null => fetch.ref \notin Tags
       /\ fetch.old # Null /\ ~fetch.opts.plus /\ fetch.opts.showForced =>
            fetch.old \in Ancestors[fetch.adv[fetch.ref]]
  /\ fetch.pack \subseteq Commits
  /\ \A c \in fetch.pack : Parents[c] \subseteq local.objects \cup fetch.pack
  /\ fetch.at = "index" => Wants(fetch.map) \subseteq local.objects \cup fetch.pack
  /\ fetch.at \in {"prune", "apply", "store"} => Wants(fetch.map) \subseteq local.objects

TransferIndInv ==
  RemoteOK /\ LocalOK /\ LogsOK /\ PushOK /\ WireOK /\ AnswersOK /\ QuietOK /\ FetchOK

------------------------------
(* The steps, by what they touch. *)

\* The steps of a push that touch nothing but the call.
PushInner ==
  \/ Locate \/ ReadLease \/ Judge \/ NothingMoves \/ PushRefused \/ ReadAnswer
  \/ Reported \/ EndPush \/ ForgetPush \/ LosePush

\* The steps of a fetch that touch nothing but the call.
FetchInner ==
  \/ NegotiateDiscovery \/ PlanFetch \/ WantRefused \/ BackfillTags \/ LoseFetch
  \/ \E r \in Refs : ReadRef(r)

GcMay == push.at \in {"idle", "done"} /\ wire = {} /\ RemoteGc

\* A step is one of these, and leaves the rest alone.
LEMMA Steps ==
  Next =>
    \/ (\E b \in Branches, c \in Commits : Work(b, c)) /\ UNCHANGED <<pushVars, fetchVars>>
    \/ (\E t \in Tags, c \in Commits : TagHere(t, c)) /\ UNCHANGED <<pushVars, fetchVars>>
    \/ (\E r \in Refs, c \in Ids : Others(r, c)) /\ UNCHANGED <<pushVars, fetchVars>>
    \/ GcMay /\ UNCHANGED <<pushVars, fetchVars>>
    \/ PushInner /\ UNCHANGED <<worldVars, wire, answers, sent, fetchVars>>
    \/ (\E o \in PushMenu : Discover(o)) /\ UNCHANGED fetchVars
    \/ Send /\ UNCHANGED fetchVars
    \/ (\E q \in wire : Receive(q)) /\ UNCHANGED fetchVars
    \/ (\E r \in Refs : ReportRef(r)) /\ UNCHANGED fetchVars
    \/ (\E r \in Refs : RefreshRef(r)) /\ UNCHANGED fetchVars
    \/ FetchInner /\ UNCHANGED <<worldVars, pushVars, judged>>
    \/ (\E o \in FetchMenu : StartFetch(o)) /\ UNCHANGED pushVars
    \/ Download /\ UNCHANGED pushVars
    \/ IndexPack /\ UNCHANGED pushVars
    \/ Prune /\ UNCHANGED pushVars
    \/ StoreRef /\ UNCHANGED pushVars
    \/ WriteFetchHead /\ UNCHANGED pushVars
<1>1. ASSUME PushInner PROVE UNCHANGED <<worldVars, wire, answers, sent>>
  BY <1>1 DEF PushInner, Locate, ReadLease, Judge, NothingMoves, PushRefused, ReadAnswer,
    Reported, EndPush, ForgetPush, LosePush
<1>2. ASSUME FetchInner PROVE UNCHANGED <<worldVars, judged>>
  BY <1>2 DEF FetchInner, NegotiateDiscovery, PlanFetch, WantRefused, BackfillTags, LoseFetch, ReadRef
<1>3. ASSUME World, UNCHANGED <<pushVars, fetchVars>>
      PROVE  \/ (\E b \in Branches, c \in Commits : Work(b, c)) /\ UNCHANGED <<pushVars, fetchVars>>
             \/ (\E t \in Tags, c \in Commits : TagHere(t, c)) /\ UNCHANGED <<pushVars, fetchVars>>
             \/ (\E r \in Refs, c \in Ids : Others(r, c)) /\ UNCHANGED <<pushVars, fetchVars>>
             \/ GcMay /\ UNCHANGED <<pushVars, fetchVars>>
  BY <1>3, Zenon DEF World, GcMay
<1>4. ASSUME PushStep, UNCHANGED fetchVars
      PROVE  \/ PushInner /\ UNCHANGED <<worldVars, wire, answers, sent, fetchVars>>
             \/ (\E o \in PushMenu : Discover(o)) /\ UNCHANGED fetchVars
             \/ Send /\ UNCHANGED fetchVars
             \/ (\E q \in wire : Receive(q)) /\ UNCHANGED fetchVars
             \/ (\E r \in Refs : ReportRef(r)) /\ UNCHANGED fetchVars
             \/ (\E r \in Refs : RefreshRef(r)) /\ UNCHANGED fetchVars
  <2>1. CASE PushInner BY <1>1, <1>4, <2>1
  <2> QED BY <1>4, <2>1, Zenon DEF PushStep, PushInner
<1>5. ASSUME FetchStep, UNCHANGED pushVars
      PROVE  \/ FetchInner /\ UNCHANGED <<worldVars, pushVars, judged>>
             \/ (\E o \in FetchMenu : StartFetch(o)) /\ UNCHANGED pushVars
             \/ Download /\ UNCHANGED pushVars
             \/ IndexPack /\ UNCHANGED pushVars
             \/ Prune /\ UNCHANGED pushVars
             \/ StoreRef /\ UNCHANGED pushVars
             \/ WriteFetchHead /\ UNCHANGED pushVars
  <2>1. CASE FetchInner BY <1>2, <1>5, <2>1
  <2> QED BY <1>5, <2>1, Zenon DEF FetchStep, FetchInner
<1> QED BY <1>3, <1>4, <1>5, Zenon DEF Next

\* What becomes of the repository when the tracking refs in bs take the values f gives them.
Retracked(bs, f) ==
  /\ DOMAIN local' = {"refs", "tracking", "objects", "unindexed", "fetchHead"}
  /\ local'.refs = local.refs /\ local'.objects = local.objects
  /\ local'.fetchHead = local.fetchHead
  /\ local'.tracking = [b \in Branches |-> IF b \in bs THEN f ELSE local.tracking[b]]
  /\ since' \in [Branches -> Nat]
  /\ shown' = [b \in Branches |-> IF b \in bs /\ f # Null THEN shown[b] \cup {f} ELSE shown[b]]

\* What writing a tracking ref changes.
LEMMA TrackEffect ==
  ASSUME LocalOK, LogsOK, NEW b \in Branches, NEW c \in Ids \ {Null}, Track(b, c)
  PROVE  Retracked({b}, c) /\ c \in local.objects
<1>1. c \in local.objects BY DEF Track, TargetValid
<1>2. Len(log[b]) \in Nat BY DEF LogsOK
<1>3. since' \in [Branches -> Nat] BY <1>2 DEF Track, LogsOK
<1>4. shown' = [d \in Branches |-> IF d \in {b} /\ c # Null THEN shown[d] \cup {c} ELSE shown[d]]
  BY DEF Track, LogsOK
<1>5. local' = [local EXCEPT !.tracking[b] = c] BY DEF Track
<1>6. local'.tracking = [d \in Branches |-> IF d \in {b} THEN c ELSE local.tracking[d]] BY <1>5 DEF LocalOK
<1> QED BY <1>1, <1>3, <1>4, <1>5, <1>6 DEF Retracked, LocalOK

\* What pruning tracking refs changes.
LEMMA UntrackEffect ==
  ASSUME LocalOK, LogsOK, NEW bs, Untrack(bs)
  PROVE  Retracked(bs, Null)
<1>1. local'.tracking = [d \in Branches |-> IF d \in bs THEN Null ELSE local.tracking[d]]
  BY DEF Untrack, LocalOK
<1>2. shown' = [d \in Branches |-> IF d \in bs /\ Null # Null THEN shown[d] \cup {Null} ELSE shown[d]]
  BY DEF Untrack, LogsOK
<1>3. since' \in [Branches -> Nat] BY DEF Untrack, LogsOK
<1> QED BY <1>1, <1>2, <1>3 DEF Untrack, Retracked, LocalOK

\* updateTrackingRef moves the tracking ref of a branch and nothing else.
LEMMA FollowEffect ==
  ASSUME LocalOK, LogsOK, NEW r \in Refs, NEW c \in Ids, Follow(r, c)
  PROVE  Retracked({r} \cap Branches, c) /\ (c = Null \/ r \notin Branches \/ c \in local.objects)
<1>1. CASE r \notin Branches
  <2>1. UNCHANGED <<local, since, shown>> BY <1>1 DEF Follow
  <2>2. {r} \cap Branches = {} BY <1>1
  <2>3. Retracked({}, c) BY <2>1 DEF Retracked, LocalOK, LogsOK
  <2> QED BY <1>1, <2>2, <2>3
<1>2. CASE r \in Branches
  <2>1. {r} \cap Branches = {r} BY <1>2
  <2>2. CASE c = Null BY <1>2, <2>1, <2>2, UntrackEffect DEF Follow
  <2>3. CASE c # Null BY <1>2, <2>1, <2>3, TrackEffect DEF Follow
  <2> QED BY <2>2, <2>3
<1> QED BY <1>1, <1>2

\* The repository stays sound when its tracking refs take values the remote has had.
LEMMA RetrackedOK ==
  ASSUME LocalOK, LogsOK, NEW bs, NEW f \in Ids, Retracked(bs, f),
         bs \subseteq Branches, f \in local.objects \cup {Null} \/ bs = {},
         \A b \in bs : f \in had[b] \cup {Null},
         UNCHANGED <<remote, had, log, left>>
  PROVE  LocalOK' /\ LogsOK'
<1>1. local'.tracking \in [Branches -> Ids] /\ \A b \in Branches :
        local'.tracking[b] = IF b \in bs THEN f ELSE local.tracking[b]
  BY DEF Retracked, LocalOK
<1>2. LocalOK' BY <1>1 DEF Retracked, LocalOK, Closed
<1>3. shown' \in [Branches -> SUBSET Ids] /\ \A b \in Branches :
        shown'[b] = IF b \in bs /\ f # Null THEN shown[b] \cup {f} ELSE shown[b]
  BY DEF Retracked, LogsOK
<1>4. \A b \in Branches : local'.tracking[b] \in (had'[b] \cap shown'[b]) \cup {Null} BY <1>1, <1>3 DEF LogsOK
<1> QED BY <1>2, <1>3, <1>4 DEF LogsOK, Retracked

------------------------------
(* The repositories. *)

WorldOK == RemoteOK /\ LocalOK /\ LogsOK

\* What is here stays here, the histories only grow, and the remote keeps its objects while
\* a push needs them.
Grows ==
  /\ local.objects \subseteq local'.objects
  /\ \A r \in Refs : had[r] \subseteq had'[r]
  /\ \A b \in Branches :
       /\ shown[b] \subseteq shown'[b]
       /\ Len(log[b]) \in Nat /\ Len(log'[b]) \in Nat /\ Len(log[b]) <= Len(log'[b])
       /\ \A i \in 1 .. Len(log[b]) : log'[b][i] = log[b][i]
  /\ wire # {} \/ push.at \notin {"idle", "done"} => remote.objects \subseteq remote'.objects

\* Acting once leaves one time less.
LEMMA Spends ==
  ASSUME NEW l \in Lefts
  PROVE  /\ [l EXCEPT !.work = @ - 1] \in Lefts /\ [l EXCEPT !.others = @ - 1] \in Lefts
         /\ [l EXCEPT !.pushes = @ - 1] \in Lefts /\ [l EXCEPT !.fetches = @ - 1] \in Lefts
<1>1. l.work - 1 \in Int /\ l.others - 1 \in Int /\ l.pushes - 1 \in Int /\ l.fetches - 1 \in Int BY DEF Lefts
<1> QED BY <1>1 DEF Lefts

\* A reflog that is left alone has grown by nothing.
LEMMA SameLog ==
  ASSUME LogsOK, log' = log
  PROVE  \A b \in Branches :
           /\ Len(log[b]) \in Nat /\ Len(log'[b]) \in Nat /\ Len(log[b]) <= Len(log'[b])
           /\ \A i \in 1 .. Len(log[b]) : log'[b][i] = log[b][i]
  BY DEF LogsOK

\* A step that leaves both repositories alone.
LEMMA SameWorld ==
  ASSUME WorldOK, UNCHANGED <<remote, local, log, since, had, shown>>,
         left' \in Lefts
  PROVE  WorldOK' /\ Grows
<1>1. RemoteOK' /\ LocalOK' BY DEF WorldOK, RemoteOK, LocalOK, Closed
<1>2. LogsOK' BY DEF WorldOK, LogsOK
<1>3. Grows BY DEF WorldOK, LogsOK, Grows
<1> QED BY <1>1, <1>2, <1>3 DEF WorldOK

\* A step that moves tracking refs only.
LEMMA RetrackedWorld ==
  ASSUME WorldOK, NEW bs, NEW f \in Ids, Retracked(bs, f),
         bs \subseteq Branches, f \in local.objects \cup {Null} \/ bs = {},
         \A b \in bs : f \in had[b] \cup {Null},
         UNCHANGED <<remote, had, log, left>>
  PROVE  WorldOK' /\ Grows
<1>1. LocalOK' /\ LogsOK' BY RetrackedOK DEF WorldOK
<1>2. RemoteOK' BY DEF WorldOK, RemoteOK, Closed
<1>3. \A b \in Branches : shown[b] \subseteq shown'[b] BY DEF Retracked
<1>4. Grows BY <1>3 DEF WorldOK, LogsOK, Grows, Retracked
<1> QED BY <1>1, <1>2, <1>4 DEF WorldOK

\* A local commit leaves both repositories in order.
LEMMA WorkWorld ==
  ASSUME WorldOK, NEW b \in Branches, NEW c \in Commits, Work(b, c)
  PROVE  WorldOK' /\ Grows
<1> USE DEF Work, WorldOK
<1>1. /\ DOMAIN local' = {"refs", "tracking", "objects", "unindexed", "fetchHead"}
      /\ local'.refs = [local.refs EXCEPT ![b] = c] /\ local'.objects = local.objects \cup {c}
      /\ local'.tracking = local.tracking /\ local'.fetchHead = local.fetchHead
  BY DEF LocalOK
<1>2. local'.refs \in [Refs -> Ids] /\ \A r \in Refs : local'.refs[r] \in local'.objects \cup {Null}
  BY <1>1 DEF LocalOK, Refs, Ids
<1>3. Closed(local'.objects) BY <1>1 DEF LocalOK, Closed
<1>4. LocalOK' BY <1>1, <1>2, <1>3 DEF LocalOK, Closed
<1>5. RemoteOK' BY DEF RemoteOK, Closed
<1>6. log' = [log EXCEPT ![b] = Append(@, c)] /\ log \in [Branches -> Seq(Commits)] BY DEF LogsOK
<1>7. \A d \in Branches : log[d] \in Seq(Commits) /\ Len(log[d]) \in Nat BY <1>6
<1>8. \A d \in Branches : log'[d] = IF d = b THEN Append(log[d], c) ELSE log[d] BY <1>6
<1>9. \A d \in Branches : /\ log'[d] \in Seq(Commits) /\ Len(log'[d]) \in Nat
                          /\ Len(log[d]) <= Len(log'[d])
                          /\ \A i \in 1 .. Len(log[d]) : log'[d][i] = log[d][i]
  <2> TAKE d \in Branches
  <2>1. log[d] \in Seq(Commits) /\ Len(log[d]) \in Nat BY <1>7
  <2>2. CASE d = b
    <3>1. log'[d] = Append(log[d], c) BY <1>8, <2>2
    <3> QED BY <2>1, <3>1
  <2>3. CASE d # b BY <1>8, <2>1, <2>3
  <2> QED BY <2>2, <2>3
<1>10. log' \in [Branches -> Seq(Commits)] BY <1>6, <1>9
<1>11. left' \in Lefts BY Spends DEF LogsOK
<1>12. LogsOK' BY <1>1, <1>10, <1>11 DEF LogsOK
<1>13. Grows BY <1>1, <1>7, <1>9 DEF Grows
<1> QED BY <1>4, <1>5, <1>12, <1>13

\* So does a local tag.
LEMMA TagHereWorld ==
  ASSUME WorldOK, NEW t \in Tags, NEW c \in Commits, TagHere(t, c)
  PROVE  WorldOK' /\ Grows
<1> USE DEF TagHere, WorldOK
<1>1. /\ DOMAIN local' = {"refs", "tracking", "objects", "unindexed", "fetchHead"}
      /\ local'.refs = [local.refs EXCEPT ![t] = c] /\ local'.objects = local.objects
      /\ local'.tracking = local.tracking /\ local'.fetchHead = local.fetchHead
  BY DEF LocalOK
<1>2. local'.refs \in [Refs -> Ids] /\ \A r \in Refs : local'.refs[r] \in local'.objects \cup {Null}
  BY <1>1 DEF LocalOK, Refs, Ids
<1>3. LocalOK' BY <1>1, <1>2 DEF LocalOK, Closed
<1>4. RemoteOK' BY DEF RemoteOK, Closed
<1>5. LogsOK' BY <1>1, Spends DEF LogsOK
<1>6. Grows BY <1>1, SameLog DEF Grows
<1> QED BY <1>3, <1>4, <1>5, <1>6

\* So does a push by somebody else.
LEMMA OthersWorld ==
  ASSUME WorldOK, NEW r \in Refs, NEW c \in Ids, Others(r, c)
  PROVE  WorldOK' /\ Grows
<1> USE DEF Others, WorldOK
<1>1. /\ DOMAIN remote' = {"refs", "objects", "caps"}
      /\ remote'.refs = [remote.refs EXCEPT ![r] = c]
      /\ remote'.objects = remote.objects \cup ({c} \ {Null})
  BY DEF RemoteOK
<1>2. /\ remote'.refs \in [Refs -> Ids]
      /\ \A s \in Refs : remote'.refs[s] = IF s = r THEN c ELSE remote.refs[s]
  BY <1>1 DEF RemoteOK
<1>3. remote'.objects \subseteq Commits /\ Closed(remote'.objects) BY <1>1 DEF RemoteOK, Closed, Ids
<1>4. RemoteOK' BY <1>1, <1>2, <1>3 DEF RemoteOK, Closed
<1>5. LocalOK' BY DEF LocalOK, Closed
<1>6. \A s \in Refs : had'[s] = IF s = r THEN had[s] \cup {c} ELSE had[s] BY DEF LogsOK
<1>7. had' \in [Refs -> SUBSET Ids] BY DEF LogsOK
<1>8. LogsOK'
  <2>1. left' \in Lefts BY Spends DEF LogsOK
  <2>2. \A b \in Branches : had[b] \subseteq had'[b] BY <1>6 DEF Refs
  <2>3. \A s \in Refs : remote'.refs[s] \in had'[s] BY <1>2, <1>6 DEF LogsOK
  <2> QED BY <1>7, <2>1, <2>2, <2>3 DEF LogsOK
<1>9. Grows BY <1>1, <1>6, SameLog DEF Grows
<1> QED BY <1>4, <1>5, <1>8, <1>9

\* So does a gc of the remote: it keeps what a ref reaches.
LEMMA GcWorld ==
  ASSUME WorldOK, GcMay
  PROVE  WorldOK' /\ Grows
<1> USE DEF GcMay, RemoteGc, WorldOK
<1> DEFINE C == Closure({remote.refs[r] : r \in Refs})
<1>1. /\ DOMAIN remote' = {"refs", "objects", "caps"}
      /\ remote'.refs = remote.refs /\ remote'.objects = C
  BY DEF RemoteOK
<1>2. {remote.refs[r] : r \in Refs} \subseteq Ids BY DEF RemoteOK
<1>3. Closed(C) /\ C \subseteq Commits /\ ({remote.refs[r] : r \in Refs} \ {Null}) \subseteq C
  BY <1>2, ClosureClosed
<1>4. \A r \in Refs : remote'.refs[r] \in remote'.objects \cup {Null} BY <1>1, <1>3
<1>5. RemoteOK' BY <1>1, <1>3, <1>4 DEF RemoteOK, Closed
<1>6. LocalOK' BY DEF LocalOK, Closed
<1>7. LogsOK' BY <1>1 DEF LogsOK
<1>8. Grows BY SameLog DEF Grows
<1> QED BY <1>5, <1>6, <1>7, <1>8

\* What becomes of the remote when it handles q and moves the refs in ok.
Received(q, unpack, ok) ==
  /\ ok \subseteq DOMAIN q.updates /\ (ok # {} => unpack)
  /\ \A r \in ok : remote.refs[r] = q.updates[r].old
  /\ q.atomic => ok \in {{}, DOMAIN q.updates}
  /\ DOMAIN remote' = {"refs", "objects", "caps"}
  /\ remote'.refs = [r \in Refs |-> IF r \in ok THEN q.updates[r].new ELSE remote.refs[r]]
  /\ remote'.objects = IF unpack THEN remote.objects \cup q.pack ELSE remote.objects
  /\ had' = [r \in Refs |-> had[r] \cup {remote'.refs[r]}]
  /\ answers' = [answers EXCEPT ![q.no] = [come |-> TRUE, unpack |-> unpack, ok |-> ok]]
  /\ sent' = [sent EXCEPT ![q.no].moved = ok]

\* What the remote makes of a request: unpacked or not, and the updates it
\* accepts.
LEMMA ReceiveEffect ==
  ASSUME RemoteOK, NEW q \in wire, Receive(q)
  PROVE  \E unpack \in BOOLEAN, ok \in SUBSET DOMAIN q.updates : Received(q, unpack, ok)
<1> DEFINE Can(unpack, willing) == {r \in willing : unpack /\ remote.refs[r] = q.updates[r].old}
           Ok(unpack, willing) == IF q.atomic /\ Can(unpack, willing) # DOMAIN q.updates
                                    THEN {} ELSE Can(unpack, willing)
           At(unpack, willing, r) == IF r \in Ok(unpack, willing) THEN q.updates[r].new
                                                                  ELSE remote.refs[r]
<1>1. PICK unpack \in BOOLEAN, willing \in SUBSET DOMAIN q.updates :
        /\ remote' = [remote EXCEPT !.refs = [r \in Refs |-> At(unpack, willing, r)],
                                    !.objects = IF unpack THEN @ \cup q.pack ELSE @]
        /\ had' = [r \in Refs |-> had[r] \cup {At(unpack, willing, r)}]
        /\ answers' = [answers EXCEPT ![q.no] = [come |-> TRUE, unpack |-> unpack,
                                                 ok |-> Ok(unpack, willing)]]
        /\ sent' = [sent EXCEPT ![q.no].moved = Ok(unpack, willing)]
  BY Zenon DEF Receive
<1> DEFINE ok == Ok(unpack, willing)
<1>2. /\ ok \subseteq DOMAIN q.updates /\ (ok # {} => unpack)
      /\ \A r \in ok : remote.refs[r] = q.updates[r].old
      /\ q.atomic => ok \in {{}, DOMAIN q.updates}
  OBVIOUS
<1>3. \A r \in Refs : At(unpack, willing, r) = IF r \in ok THEN q.updates[r].new ELSE remote.refs[r] OBVIOUS
<1>4. /\ answers' = [answers EXCEPT ![q.no] = [come |-> TRUE, unpack |-> unpack, ok |-> ok]]
      /\ sent' = [sent EXCEPT ![q.no].moved = ok]
  BY <1>1
<1> HIDE DEF ok
<1>5. remote' = [remote EXCEPT
        !.refs = [r \in Refs |-> IF r \in ok THEN q.updates[r].new ELSE remote.refs[r]],
        !.objects = IF unpack THEN remote.objects \cup q.pack ELSE remote.objects]
  BY <1>1, <1>3
<1>6. /\ DOMAIN remote' = {"refs", "objects", "caps"}
      /\ remote'.refs = [r \in Refs |-> IF r \in ok THEN q.updates[r].new ELSE remote.refs[r]]
      /\ remote'.objects = IF unpack THEN remote.objects \cup q.pack ELSE remote.objects
  BY <1>5 DEF RemoteOK
<1>7. \A r \in Refs : At(unpack, willing, r) = remote'.refs[r] BY <1>3, <1>6
<1>8. had' = [r \in Refs |-> had[r] \cup {remote'.refs[r]}] BY <1>1, <1>7
<1>9. Received(q, unpack, ok) BY <1>2, <1>4, <1>6, <1>8, Zenon DEF Received
<1> QED BY <1>2, <1>9, Zenon

\* A request leaves both repositories in order.
LEMMA ReceiveWorld ==
  ASSUME WorldOK, NEW q \in wire, RequestOK(q), Receive(q)
  PROVE  WorldOK' /\ Grows
<1>1. PICK unpack \in BOOLEAN, ok \in SUBSET DOMAIN q.updates : Received(q, unpack, ok)
  BY ReceiveEffect DEF WorldOK
<1>2. /\ DOMAIN remote' = {"refs", "objects", "caps"}
      /\ \A r \in Refs : remote'.refs[r] = IF r \in ok THEN q.updates[r].new ELSE remote.refs[r]
      /\ remote'.objects = IF unpack THEN remote.objects \cup q.pack ELSE remote.objects
      /\ ok # {} => unpack
  BY <1>1 DEF Received
<1>3. /\ q.pack \subseteq Commits
      /\ \A c \in q.pack : Parents[c] \subseteq remote.objects \cup q.pack
      /\ \A r \in ok : q.updates[r].new \in remote.objects \cup q.pack \cup {Null}
  BY DEF RequestOK
<1>4. remote'.objects \subseteq Commits /\ Closed(remote'.objects) /\ remote.objects \subseteq remote'.objects
  BY <1>2, <1>3 DEF WorldOK, RemoteOK, Closed
<1>5. \A r \in Refs : remote'.refs[r] \in remote'.objects \cup {Null}
  BY <1>2, <1>3, <1>4 DEF WorldOK, RemoteOK
<1>6. remote'.refs \in [Refs -> Ids] BY <1>1, <1>4, <1>5 DEF Received, Ids
<1>7. RemoteOK' BY <1>2, <1>4, <1>5, <1>6 DEF RemoteOK, Closed
<1>8. LocalOK' BY DEF Receive, WorldOK, LocalOK, Closed
<1>9. \A r \in Refs : had'[r] = had[r] \cup {remote'.refs[r]} BY <1>1 DEF Received
<1>10. had' \in [Refs -> SUBSET Ids] BY <1>1, <1>6 DEF Received, WorldOK, LogsOK
<1>11. UNCHANGED <<local, log, since, shown, left>> BY DEF Receive
<1>12. LogsOK' BY <1>9, <1>10, <1>11 DEF WorldOK, LogsOK, Refs
<1>13. Grows BY <1>4, <1>9, <1>11, SameLog DEF Grows, WorldOK
<1> QED BY <1>7, <1>8, <1>12, <1>13 DEF WorldOK

\* So does the report of one ref.
LEMMA ReportRefWorld ==
  ASSUME WorldOK, PushOK, AnswersOK, NEW r \in Refs, ReportRef(r)
  PROVE  WorldOK' /\ Grows
<1>1. UNCHANGED <<remote, log, had, left>> BY DEF ReportRef
<1>2. push.id[r] \in Ids BY DEF PushOK, PushTypes
<1>3. CASE SaysOk(r)
  <2>1. Follow(r, push.id[r]) BY <1>3 DEF ReportRef
  <2>2. push.id[r] \in had[r] BY <1>3 DEF AnswersOK, ReportRef, SaysOk
  <2>3. /\ Retracked({r} \cap Branches, push.id[r])
        /\ push.id[r] = Null \/ r \notin Branches \/ push.id[r] \in local.objects
    BY <1>2, <2>1, FollowEffect DEF WorldOK
  <2> QED BY <1>1, <1>2, <2>2, <2>3, RetrackedWorld
<1>4. CASE ~SaysOk(r) BY <1>1, <1>4, SameWorld DEF ReportRef, WorldOK, LogsOK
<1> QED BY <1>3, <1>4

\* So does the refresh of one tracking ref after a push.
LEMMA RefreshRefWorld ==
  ASSUME WorldOK, PushOK, AnswersOK, NEW r \in Refs, RefreshRef(r)
  PROVE  WorldOK' /\ Grows
<1>1. UNCHANGED <<remote, log, had, left>> BY DEF RefreshRef
<1>2. push.id[r] \in Ids BY DEF PushOK, PushTypes
<1>3. CASE Refreshes(r)
  <2>1. Follow(r, push.id[r]) BY <1>3 DEF RefreshRef
  <2>2. push.id[r] \in had[r] BY <1>3 DEF AnswersOK, PushOK, RefreshRef, Refreshes
  <2>3. /\ Retracked({r} \cap Branches, push.id[r])
        /\ push.id[r] = Null \/ r \notin Branches \/ push.id[r] \in local.objects
    BY <1>2, <2>1, FollowEffect DEF WorldOK
  <2> QED BY <1>1, <1>2, <2>2, <2>3, RetrackedWorld
<1>4. CASE ~Refreshes(r) BY <1>1, <1>4, SameWorld DEF RefreshRef, WorldOK, LogsOK
<1> QED BY <1>3, <1>4

\* A step that brings objects or writes FETCH_HEAD, and moves no ref.
LEMMA FetchedWorld ==
  ASSUME WorldOK, UNCHANGED <<remote, log, since, had, shown>>, left' \in Lefts,
         DOMAIN local' = {"refs", "tracking", "objects", "unindexed", "fetchHead"},
         local'.refs = local.refs, local'.tracking = local.tracking,
         local.objects \subseteq local'.objects, local'.objects \subseteq Commits,
         Closed(local'.objects), local'.fetchHead \subseteq local'.objects
  PROVE  WorldOK' /\ Grows
<1>1. LocalOK' BY DEF WorldOK, LocalOK, Closed
<1>2. RemoteOK' BY DEF WorldOK, RemoteOK, Closed
<1>3. LogsOK' BY DEF WorldOK, LogsOK
<1>4. Grows BY SameLog DEF WorldOK, Grows
<1> QED BY <1>1, <1>2, <1>3, <1>4 DEF WorldOK

\* So does the start of a fetch.
LEMMA StartFetchWorld ==
  ASSUME WorldOK, NEW o \in FetchMenu, StartFetch(o)
  PROVE  WorldOK' /\ Grows
<1>1. /\ DOMAIN local' = {"refs", "tracking", "objects", "unindexed", "fetchHead"}
      /\ local'.refs = local.refs /\ local'.tracking = local.tracking
      /\ local'.objects = local.objects /\ local'.fetchHead = {}
  BY DEF StartFetch, WorldOK, LocalOK
<1>2. left' \in Lefts BY Spends DEF StartFetch, WorldOK, LogsOK
<1>3. Closed(local'.objects) /\ local'.objects \subseteq Commits BY <1>1 DEF WorldOK, LocalOK, Closed
<1> QED BY <1>1, <1>2, <1>3, FetchedWorld DEF StartFetch

\* So does the download of its pack.
LEMMA DownloadWorld ==
  ASSUME WorldOK, Download
  PROVE  WorldOK' /\ Grows
<1>1. PICK u : local' = [local EXCEPT !.unindexed = u] BY DEF Download
<1>2. /\ DOMAIN local' = {"refs", "tracking", "objects", "unindexed", "fetchHead"}
      /\ local'.refs = local.refs /\ local'.tracking = local.tracking
      /\ local'.objects = local.objects /\ local'.fetchHead = local.fetchHead
  BY <1>1 DEF WorldOK, LocalOK
<1>3. Closed(local'.objects) /\ local'.objects \subseteq Commits /\ local'.fetchHead \subseteq local'.objects
  BY <1>2 DEF WorldOK, LocalOK, Closed
<1>4. UNCHANGED <<remote, log, since, had, shown, left>> /\ left \in Lefts BY DEF Download, WorldOK, LogsOK
<1> QED BY <1>2, <1>3, <1>4, FetchedWorld

\* So does its indexing, which adds objects.
LEMMA IndexPackWorld ==
  ASSUME WorldOK, FetchOK, IndexPack
  PROVE  WorldOK' /\ Grows
<1>1. /\ DOMAIN local' = {"refs", "tracking", "objects", "unindexed", "fetchHead"}
      /\ local'.refs = local.refs /\ local'.tracking = local.tracking
      /\ local'.objects = local.objects \cup fetch.pack /\ local'.fetchHead = local.fetchHead
  BY DEF IndexPack, WorldOK, LocalOK
<1>2. Closed(local'.objects) /\ local'.objects \subseteq Commits /\ local'.fetchHead \subseteq local'.objects
  BY <1>1 DEF WorldOK, LocalOK, Closed, FetchOK
<1>3. UNCHANGED <<remote, log, since, had, shown, left>> /\ left \in Lefts BY DEF IndexPack, WorldOK, LogsOK
<1> QED BY <1>1, <1>2, <1>3, FetchedWorld

\* So does FETCH_HEAD.
LEMMA WriteFetchHeadWorld ==
  ASSUME WorldOK, FetchOK, WriteFetchHead
  PROVE  WorldOK' /\ Grows
<1>1. /\ DOMAIN local' = {"refs", "tracking", "objects", "unindexed", "fetchHead"}
      /\ local'.refs = local.refs /\ local'.tracking = local.tracking
      /\ local'.objects = local.objects /\ local'.fetchHead = Wants(fetch.map)
  BY DEF WriteFetchHead, FetchHeadEntries, WorldOK, LocalOK
<1>2. Wants(fetch.map) \subseteq local.objects BY DEF FetchOK, WriteFetchHead
<1>3. Closed(local'.objects) /\ local'.objects \subseteq Commits /\ local'.fetchHead \subseteq local'.objects
  BY <1>1, <1>2 DEF WorldOK, LocalOK, Closed
<1>4. UNCHANGED <<remote, log, since, had, shown, left>> /\ left \in Lefts
  BY DEF WriteFetchHead, WorldOK, LogsOK
<1> QED BY <1>1, <1>3, <1>4, FetchedWorld

\* So does pruning.
LEMMA PruneWorld ==
  ASSUME WorldOK, Prune
  PROVE  WorldOK' /\ Grows
<1>1. UNCHANGED <<remote, log, had, left>> /\ Stale \subseteq Branches /\ Null \in Ids
  BY DEF Prune, Stale, Ids
<1>2. CASE fetch.opts.prune
  <2>1. Retracked(Stale, Null) BY <1>2, UntrackEffect DEF Prune, WorldOK
  <2> QED BY <1>1, <2>1, RetrackedWorld
<1>3. CASE ~fetch.opts.prune BY <1>1, <1>3, SameWorld DEF Prune, WorldOK, LogsOK
<1> QED BY <1>2, <1>3

\* So does storing a fetched ref: its objects have come with the pack.
LEMMA StoreRefWorld ==
  ASSUME WorldOK, FetchOK, StoreRef
  PROVE  WorldOK' /\ Grows
<1> DEFINE r == fetch.ref
           c == fetch.adv[fetch.ref]
<1>1. UNCHANGED <<remote, log, had, left>> /\ left \in Lefts BY DEF StoreRef, WorldOK, LogsOK
<1>2. r \in Refs /\ c \in Ids \ {Null} /\ c \in had[r] BY DEF StoreRef, FetchOK
<1>3. CASE ~TargetValid(c)
  <2>1. UNCHANGED <<local, since, shown>> BY <1>3 DEF StoreRef
  <2> QED BY <1>1, <2>1, SameWorld
<1>4. CASE TargetValid(c) /\ r \in Branches
  <2>1. Track(r, c) BY <1>4 DEF StoreRef
  <2>2. Retracked({r}, c) /\ c \in local.objects BY <1>2, <1>4, <2>1, TrackEffect DEF WorldOK
  <2> QED BY <1>1, <1>2, <1>4, <2>2, RetrackedWorld
<1>5. CASE TargetValid(c) /\ r \notin Branches
  <2>1. local' = [local EXCEPT !.refs[r] = c] /\ UNCHANGED <<since, shown>> BY <1>5 DEF StoreRef
  <2>2. c \in local.objects BY <1>5 DEF TargetValid
  <2> HIDE DEF r, c
  <2>3. /\ DOMAIN local' = {"refs", "tracking", "objects", "unindexed", "fetchHead"}
        /\ local'.refs = [local.refs EXCEPT ![r] = c] /\ local'.objects = local.objects
        /\ local'.tracking = local.tracking /\ local'.fetchHead = local.fetchHead
    BY <2>1 DEF WorldOK, LocalOK
  <2>4. local'.refs \in [Refs -> Ids] /\ \A s \in Refs : local'.refs[s] \in local'.objects \cup {Null}
    BY <1>2, <2>2, <2>3 DEF WorldOK, LocalOK
  <2>5. LocalOK' BY <2>3, <2>4 DEF WorldOK, LocalOK, Closed
  <2>6. RemoteOK' BY <1>1 DEF WorldOK, RemoteOK, Closed
  <2>7. LogsOK' BY <1>1, <2>1, <2>3 DEF WorldOK, LogsOK
  <2>8. Grows BY <1>1, <2>1, <2>3, SameLog DEF WorldOK, Grows
  <2> QED BY <2>5, <2>6, <2>7, <2>8 DEF WorldOK
<1> QED BY <1>3, <1>4, <1>5

\* Every step keeps both repositories sound and what they hold.
LEMMA WorldStep ==
  ASSUME TransferIndInv, Next
  PROVE  WorldOK' /\ Grows
<1>1. WorldOK /\ PushOK /\ AnswersOK /\ FetchOK /\ \A q \in wire : RequestOK(q)
  BY DEF TransferIndInv, WorldOK, WireOK
<1>2. ASSUME UNCHANGED worldVars PROVE WorldOK' /\ Grows
  BY <1>1, <1>2, SameWorld DEF worldVars, WorldOK, LogsOK
<1>3. ASSUME NEW o \in PushMenu, Discover(o) PROVE WorldOK' /\ Grows
  <2>1. left' \in Lefts BY <1>1, <1>3, Spends DEF Discover, WorldOK, LogsOK
  <2> QED BY <1>1, <1>3, <2>1, SameWorld DEF Discover
<1>4. ASSUME Send PROVE UNCHANGED worldVars BY <1>4 DEF Send
<1>5. ASSUME FetchInner, UNCHANGED <<worldVars, pushVars, judged>> PROVE UNCHANGED worldVars BY <1>5
<1>6. ASSUME PushInner, UNCHANGED <<worldVars, wire, answers, sent, fetchVars>> PROVE UNCHANGED worldVars
  BY <1>6
<1> QED BY Steps, <1>1, <1>2, <1>3, <1>4, <1>5, <1>6, WorkWorld, TagHereWorld, OthersWorld, GcWorld,
     ReceiveWorld, ReportRefWorld, RefreshRefWorld, StartFetchWorld, DownloadWorld, IndexPackWorld,
     WriteFetchHeadWorld, PruneWorld, StoreRefWorld, Zenon

------------------------------
(* The push. *)

\* What a push is licensed to replace stays so: the histories only grow.
LEMMA LicensedKept ==
  ASSUME Grows
  PROVE  \A opts, pruned, r, old, new :
           Licensed(opts, pruned, r, old, new) => Licensed(opts, pruned, r, old, new)'
<1> TAKE opts, pruned, r, old, new
<1> HAVE Licensed(opts, pruned, r, old, new)
<1>1. opts.lease = "none" /\ ~opts.force /\ opts.specs[r] = "" /\ old # Null =>
        r \notin Tags /\ new # Null /\ old \in Ancestors[new]
  BY DEF Licensed
<1>2. opts.lease = "auto" /\ ~opts.force /\ opts.specs[r] # "+" /\ old # Null =>
        r \in Branches /\ old \in shown'[r]
  BY DEF Licensed, Grows
<1>3. ASSUME r \in Branches, NEW i \in 1 .. Len(log[r]), old \in Ancestors[log[r][i]]
      PROVE  \E j \in 1 .. Len(log'[r]) : old \in Ancestors[log'[r][j]]
  <2>1. i \in 1 .. Len(log'[r]) /\ log'[r][i] = log[r][i] BY <1>3 DEF Grows
  <2> QED BY <1>3, <2>1
<1>4. opts.lease = "auto" /\ opts.includes /\ ~opts.force /\ opts.specs[r] # "+" /\ old # Null =>
        \/ r \in pruned
        \/ r \in Branches /\ \E i \in 1 .. Len(log'[r]) : old \in Ancestors[log'[r][i]]
  BY <1>3 DEF Licensed
<1> QED BY <1>1, <1>2, <1>4 DEF Licensed

\* A push that does nothing in a step is as well off after it.
LEMMA PushWaits ==
  ASSUME PushOK, Grows, push' = push, left'.pushes = left.pushes
  PROVE  PushOK'
<1>1. PushTypes' BY DEF PushOK, PushTypes
<1>2. Plan' = Plan /\ \A r : Deletes(r)' <=> Deletes(r) BY DEF Plan, Deletes
<1>3. push.at = "judged" => \A r \in Plan : push.verdict[r] \in {"ok", "forced"} =>
        Licensed(push.opts, push.pruned, r, push.adv[r], push.id[r])'
  BY LicensedKept DEF PushOK
<1>4. push.at \notin {"idle", "done"} => \A r \in Refs : push.adv[r] \in remote'.objects \cup {Null}
  BY DEF PushOK, Grows
<1>5. \A r \in Refs : push.id[r] \in local'.objects \cup {Null} BY DEF PushOK, Grows
<1>6. push.at = "leased" /\ push.opts.lease = "auto" =>
        \A r \in Refs : push.lease[r] # Null => r \in Branches /\ push.lease[r] \in shown'[r]
  BY DEF PushOK, Grows
<1> QED BY <1>1, <1>2, <1>3, <1>4, <1>5, <1>6 DEF PushOK

\* A push that ends keeps only its number, its options and its results.
LEMMA OverPush ==
  ASSUME PushOK, push' = Over, left' = left
  PROVE  /\ PushOK' /\ push'.at = "idle" /\ push'.no = push.no /\ push'.result = push.result
<1>1. /\ DOMAIN push' = PushFields /\ push'.at = "idle" /\ push'.no = push.no
      /\ push'.opts = push.opts /\ push'.adv = [r \in Refs |-> Null]
      /\ push'.id = [r \in Refs |-> Null] /\ push'.verdict = [r \in Refs |-> "none"]
      /\ push'.todo = {} /\ push'.result = push.result
  BY DEF PushOK, PushTypes, Over, PushFields
<1>2. PushTypes' BY <1>1 DEF PushOK, PushTypes, PushAts, Ids
<1> QED BY <1>1, <1>2 DEF PushOK, Located

\* A push starts well formed.
LEMMA DiscoverPush ==
  ASSUME PushOK, WorldOK, NEW o \in PushMenu, Discover(o)
  PROVE  PushOK'
<1>1. /\ DOMAIN push' = PushFields /\ push'.at = "adv" /\ push'.no = push.no + 1
      /\ push'.opts = o /\ push'.adv = remote.refs /\ push'.id = push.id
      /\ push'.verdict = push.verdict /\ push'.todo = push.todo
      /\ push'.result = [r \in Refs |-> "none"]
  BY DEF PushOK, PushTypes, Discover, PushFields
<1>2. left.pushes \in Nat /\ left.pushes > 0 /\ left'.pushes = left.pushes - 1
  BY DEF PushOK, PushTypes, Discover, WorldOK, LogsOK, Lefts
<1>3. remote.refs \in [Refs -> Ids] BY DEF WorldOK, RemoteOK
<1>4. MaxPushes \in Nat BY PushAssumption
<1>5. PushTypes' BY <1>1, <1>2, <1>3, <1>4 DEF PushOK, PushTypes, PushAts
<1>6. UNCHANGED <<remote, local>> BY DEF Discover
<1>7. \A r \in Refs : push'.adv[r] \in remote'.objects \cup {Null} BY <1>1, <1>6 DEF WorldOK, RemoteOK
<1>8. \A r \in Refs : push'.verdict[r] = "none" BY <1>1 DEF PushOK, Discover
<1> QED BY <1>1, <1>5, <1>6, <1>7, <1>8 DEF PushOK, Located

\* It locates sources it has.
LEMMA LocatePush ==
  ASSUME PushOK, WorldOK, Locate
  PROVE  PushOK'
<1>1. UNCHANGED <<remote, local, left>> BY DEF Locate, worldVars
<1>2. CASE push' = Over BY <1>1, <1>2, OverPush
<1>3. CASE push' # Over
  <2> DEFINE f == [r \in Refs |-> IF r \in Plan /\ ~Deletes(r) THEN local.refs[r] ELSE Null]
  <2>1. ~\E r \in Plan : ~Deletes(r) /\ local.refs[r] = Null BY <1>3 DEF Locate
  <2>2. push' = [push EXCEPT !.at = "located", !.id = f] /\ push.at = "adv" BY <2>1 DEF Locate
  <2> HIDE DEF f
  <2>3. /\ DOMAIN push' = PushFields /\ push'.at = "located" /\ push'.no = push.no
        /\ push'.opts = push.opts /\ push'.adv = push.adv /\ push'.id = f
        /\ push'.verdict = push.verdict /\ push'.todo = push.todo /\ push'.result = push.result
    BY <2>2 DEF PushOK, PushTypes, PushFields
  <2>4. Plan' = Plan /\ \A r : Deletes(r)' <=> Deletes(r) BY <2>3 DEF Plan, Deletes
  <2>5. Plan \subseteq Refs BY PushAssumption DEF Plan, PushOK, PushTypes
  <2>6. f \in [Refs -> Ids] /\ \A r \in Refs : f[r] \in local.objects \cup {Null}
    BY DEF f, WorldOK, LocalOK, Ids
  <2>7. \A r \in Plan : Deletes(r) <=> (f[r] = Null) BY <2>1, <2>5 DEF f
  <2>8. PushTypes' BY <1>1, <2>2, <2>3, <2>6 DEF PushOK, PushTypes, PushAts
  <2>9. \A r \in Refs : push'.verdict[r] = "none" BY <2>2, <2>3 DEF PushOK
  <2> QED BY <1>1, <2>2, <2>3, <2>4, <2>6, <2>7, <2>8, <2>9 DEF PushOK
<1> QED BY <1>2, <1>3

\* It reads the lease off its own tracking refs.
LEMMA ReadLeasePush ==
  ASSUME PushOK, WorldOK, ReadLease
  PROVE  PushOK'
<1> DEFINE f == [r \in Refs |-> IF push.opts.lease = "auto" THEN TrackedValue(r) ELSE push.opts.expect]
<1>1. UNCHANGED <<remote, local, left, shown>> BY DEF ReadLease, worldVars
<1>2. push' = [push EXCEPT !.at = "leased", !.lease = f] /\ push.at = "located" BY DEF ReadLease
<1> HIDE DEF f
<1>3. /\ DOMAIN push' = PushFields /\ push'.at = "leased" /\ push'.no = push.no
      /\ push'.opts = push.opts /\ push'.adv = push.adv /\ push'.id = push.id /\ push'.lease = f
      /\ push'.verdict = push.verdict /\ push'.todo = push.todo /\ push'.result = push.result
  BY <1>2 DEF PushOK, PushTypes, PushFields
<1>4. Plan' = Plan /\ \A r : Deletes(r)' <=> Deletes(r) BY <1>3 DEF Plan, Deletes
<1>5. push.opts.lease = "auto" => \A r \in Refs : f[r] # Null => r \in Branches /\ f[r] \in shown[r]
  BY DEF f, TrackedValue, WorldOK, LogsOK
<1>6. PushTypes' BY <1>1, <1>2, <1>3 DEF PushOK, PushTypes, PushAts
<1> QED BY <1>1, <1>2, <1>3, <1>4, <1>5, <1>6 DEF PushOK, Located

\* What is not rejected is licensed.
LEMMA VerdictLicensed ==
  ASSUME PushOK, WorldOK, push.at = "leased", NEW r \in Plan, Verdict(r) \in {"ok", "forced"}
  PROVE  Licensed(push.opts, {s \in Refs : push.lease[s] # TrackedValue(s) /\ TrackedValue(s) = Null},
                  r, push.adv[r], push.id[r])
<1> DEFINE pruned == {s \in Refs : push.lease[s] # TrackedValue(s) /\ TrackedValue(s) = Null}
<1>1. r \in Refs BY PushAssumption DEF Plan, PushOK, PushTypes
<1>2. Deletes(r) <=> (push.id[r] = Null) BY DEF PushOK, Located
<1>3. Rejection(r) = "none" \/ Forced(r) BY DEF Verdict
<1>4. ASSUME push.opts.lease = "none", ~push.opts.force, push.opts.specs[r] = "", push.adv[r] # Null
      PROVE  r \notin Tags /\ push.id[r] # Null /\ push.adv[r] \in Ancestors[push.id[r]]
  <2>1. ~Deletes(r) /\ ~Forced(r) /\ JudgeLease(r) = "none"
    BY <1>4 DEF Deletes, Forced, Forces, Leased, JudgeLease
  <2>2. MeasureUpdate(r) = "none" BY <1>3, <2>1 DEF Rejection
  <2> QED BY <1>2, <1>4, <2>1, <2>2 DEF MeasureUpdate
<1>5. ASSUME push.opts.lease = "auto", ~push.opts.force, push.opts.specs[r] # "+"
      PROVE  JudgeLease(r) = "none" /\ push.lease[r] = push.adv[r] /\ ~UpdatedSinceCheckout(r)
  <2>1. JudgeLease(r) = "none" BY <1>3, <1>5 DEF Rejection, Forced, Forces, Leased
  <2> QED BY <1>5, <2>1 DEF JudgeLease, Leased
<1>6. push.opts.lease = "auto" /\ ~push.opts.force /\ push.opts.specs[r] # "+" /\ push.adv[r] # Null =>
        r \in Branches /\ push.adv[r] \in shown[r]
  BY <1>1, <1>5 DEF PushOK
<1>7. ASSUME push.opts.lease = "auto", push.opts.includes, ~push.opts.force, push.opts.specs[r] # "+",
             push.adv[r] # Null, r \notin pruned
      PROVE  r \in Branches /\ \E i \in 1 .. Len(log[r]) : push.adv[r] \in Ancestors[log[r][i]]
  <2>1. push.lease[r] = push.adv[r] /\ ~UpdatedSinceCheckout(r) /\ r \in Branches BY <1>5, <1>6, <1>7
  <2>2. TrackedValue(r) # Null BY <1>1, <1>7, <2>1
  <2>3. ReachableInReflog(r, push.adv[r]) BY <1>7, <2>1, <2>2 DEF UpdatedSinceCheckout
  <2> QED BY <2>1, <2>3 DEF ReachableInReflog
<1> QED BY <1>4, <1>6, <1>7 DEF Licensed

\* It judges every update by what was advertised and by the lease.
LEMMA JudgePush ==
  ASSUME PushOK, WorldOK, Judge
  PROVE  PushOK'
<1> DEFINE f == [r \in Refs |-> IF r \in Plan THEN Verdict(r) ELSE "none"]
           pruned == {r \in Refs : push.lease[r] # TrackedValue(r) /\ TrackedValue(r) = Null}
<1>1. UNCHANGED <<remote, local, left, shown, log>> BY DEF Judge, worldVars
<1>2. push' = [push EXCEPT !.at = "judged", !.verdict = f, !.pruned = pruned] /\ push.at = "leased"
  BY DEF Judge
<1>3. \A r \in Plan : f[r] \in {"ok", "forced"} => Licensed(push.opts, pruned, r, push.adv[r], push.id[r])
  <2>1. Plan \subseteq Refs BY PushAssumption DEF Plan, PushOK, PushTypes
  <2> QED BY <1>2, <2>1, VerdictLicensed
<1>4. f \in [Refs -> {"none", "up-to-date", "ok", "forced", "rejected"}] BY DEF Verdict
<1>5. \A r \in Refs : f[r] = "up-to-date" => push.id[r] = push.adv[r] BY DEF Verdict, UpToDate
<1> HIDE DEF f, pruned
<1>6. /\ DOMAIN push' = PushFields /\ push'.at = "judged" /\ push'.no = push.no
      /\ push'.opts = push.opts /\ push'.adv = push.adv /\ push'.id = push.id /\ push'.pruned = pruned
      /\ push'.verdict = f /\ push'.todo = push.todo /\ push'.result = push.result
  BY <1>2 DEF PushOK, PushTypes, PushFields
<1>7. Plan' = Plan /\ \A r : Deletes(r)' <=> Deletes(r) BY <1>6 DEF Plan, Deletes
<1>8. PushTypes' BY <1>1, <1>2, <1>4, <1>6 DEF PushOK, PushTypes, PushAts
<1>9. ASSUME NEW r \in Plan, push'.verdict[r] \in {"ok", "forced"}
      PROVE  Licensed(push.opts, push.pruned, r, push.adv[r], push.id[r])'
  <2>1. Licensed(push.opts, pruned, r, push.adv[r], push.id[r]) BY <1>3, <1>6, <1>9
  <2> QED BY <1>1, <1>6, <2>1 DEF Licensed
<1> QED BY <1>1, <1>2, <1>5, <1>6, <1>7, <1>8, <1>9 DEF PushOK, Located

\* From then on only its place, what is left to do and its results change.
LEMMA PushGoesOn ==
  ASSUME PushOK, NEW at \in {"sent", "report", "refresh", "done"}, NEW todo \in SUBSET Refs,
         push.at \in {"judged", "sent", "report", "refresh"},
         DOMAIN push' = PushFields, push'.at = at, push'.todo = todo,
         push'.no = push.no, push'.opts = push.opts, push'.adv = push.adv, push'.id = push.id,
         push'.verdict = push.verdict, push'.result \in [Refs -> {"none", "ok", "rejected"}],
         Grows, left' = left
  PROVE  PushOK'
<1>1. Plan' = Plan /\ \A r : Deletes(r)' <=> Deletes(r) BY DEF Plan, Deletes
<1>2. PushTypes' BY DEF PushOK, PushTypes, PushAts
<1>3. \A r \in Refs : push.adv[r] \in remote'.objects \cup {Null} BY DEF PushOK, Grows
<1>4. \A r \in Refs : push.id[r] \in local'.objects \cup {Null} BY DEF PushOK, Grows
<1>5. \A r \in Plan : Deletes(r) <=> (push.id[r] = Null) BY DEF PushOK, Located
<1> QED BY <1>1, <1>2, <1>3, <1>4, <1>5 DEF PushOK

\* Every step of a push, and of everyone else, keeps the push sound.
LEMMA PushStepOK ==
  ASSUME TransferIndInv, Next
  PROVE  PushOK'
<1>1. WorldOK /\ PushOK /\ Grows /\ push.result \in [Refs -> {"none", "ok", "rejected"}]
      /\ push.todo \subseteq Refs /\ Plan \subseteq Refs /\ DOMAIN push = PushFields
  BY WorldStep, PushAssumption DEF TransferIndInv, WorldOK, PushOK, PushTypes, Plan
<1> USE DEF PushFields
<1>2. ASSUME NothingMoves, left' = left PROVE PushOK' BY <1>1, <1>2, PushGoesOn DEF NothingMoves
<1>3. ASSUME ReadAnswer, left' = left PROVE PushOK' BY <1>1, <1>3, PushGoesOn DEF ReadAnswer
<1>4. ASSUME Reported, left' = left PROVE PushOK' BY <1>1, <1>4, PushGoesOn DEF Reported
<1>5. ASSUME EndPush, left' = left PROVE PushOK' BY <1>1, <1>5, PushGoesOn, OverPush DEF EndPush
<1>6. ASSUME PushInner, UNCHANGED worldVars PROVE PushOK'
  <2>1. left' = left BY <1>6 DEF worldVars
  <2> QED BY <1>1, <1>2, <1>3, <1>4, <1>5, <1>6, <2>1, LocatePush, ReadLeasePush, JudgePush, OverPush, Zenon
      DEF PushInner, PushRefused, ForgetPush, LosePush
<1>7. ASSUME Send PROVE PushOK'
  <2>1. left' = left /\ Movers \subseteq Refs /\ push.at = "judged" BY <1>1, <1>7 DEF Send, worldVars, Movers
  <2>2. PICK at \in {"sent", "report"} : push' = [push EXCEPT !.at = at, !.todo = Movers] BY <1>7 DEF Send
  <2> QED BY <1>1, <2>1, <2>2, PushGoesOn
<1>8. ASSUME NEW r \in Refs, ReportRef(r) PROVE PushOK'
  <2>1. left' = left /\ push.at = "report" BY <1>8 DEF ReportRef
  <2>2. PICK s \in {"ok", "rejected"} : push' = [push EXCEPT !.todo = @ \ {r}, !.result[r] = s]
    BY <1>8 DEF ReportRef
  <2>3. /\ DOMAIN push' = PushFields /\ push'.at = "report" /\ push'.todo = push.todo \ {r}
        /\ push'.no = push.no /\ push'.opts = push.opts /\ push'.adv = push.adv /\ push'.id = push.id
        /\ push'.verdict = push.verdict /\ push'.result = [push.result EXCEPT ![r] = s]
    BY <1>1, <2>1, <2>2
  <2>4. push'.result \in [Refs -> {"none", "ok", "rejected"}] /\ push'.todo \subseteq Refs BY <1>1, <2>3
  <2> QED BY <1>1, <2>1, <2>3, <2>4, PushGoesOn
<1>9. ASSUME NEW r \in Refs, RefreshRef(r) PROVE PushOK'
  <2>1. left' = left /\ push.at = "refresh" /\ push' = [push EXCEPT !.todo = @ \ {r}] BY <1>9 DEF RefreshRef
  <2> QED BY <1>1, <2>1, PushGoesOn
<1>10. ASSUME push' = push, left'.pushes = left.pushes PROVE PushOK' BY <1>1, <1>10, PushWaits
<1>11. ASSUME NEW o \in PushMenu, Discover(o) PROVE PushOK' BY <1>1, <1>11, DiscoverPush
<1>12. left \in Lefts BY <1>1 DEF WorldOK, LogsOK
<1>13. ASSUME UNCHANGED pushVars PROVE push' = push BY <1>13 DEF pushVars
<1>14. ASSUME NEW b \in Branches, NEW c \in Commits, Work(b, c) PROVE left'.pushes = left.pushes
  BY <1>12, <1>14 DEF Work, Lefts
<1>15. ASSUME NEW t \in Tags, NEW c \in Commits, TagHere(t, c) PROVE left'.pushes = left.pushes
  BY <1>12, <1>15 DEF TagHere, Lefts
<1>16. ASSUME NEW r \in Refs, NEW c \in Ids, Others(r, c) PROVE left'.pushes = left.pushes
  BY <1>12, <1>16 DEF Others, Lefts
<1>17. ASSUME NEW o \in FetchMenu, StartFetch(o) PROVE left'.pushes = left.pushes
  BY <1>12, <1>17 DEF StartFetch, Lefts
<1>18. ASSUME GcMay \/ Download \/ IndexPack \/ Prune \/ StoreRef \/ WriteFetchHead \/ UNCHANGED worldVars
       PROVE  left'.pushes = left.pushes
  BY <1>18 DEF GcMay, RemoteGc, Download, IndexPack, Prune, StoreRef, WriteFetchHead, worldVars
<1>19. ASSUME NEW q \in wire, Receive(q) PROVE left'.pushes = left.pushes /\ push' = push BY <1>19 DEF Receive
<1>20. ASSUME UNCHANGED <<worldVars, wire, answers, sent, fetchVars>> PROVE UNCHANGED worldVars BY <1>20
<1>21. ASSUME UNCHANGED <<worldVars, pushVars, judged>> PROVE UNCHANGED worldVars /\ UNCHANGED pushVars
  BY <1>21
<1>22. ASSUME UNCHANGED <<pushVars, fetchVars>> PROVE UNCHANGED pushVars BY <1>22
<1> QED BY Steps, <1>6, <1>7, <1>8, <1>9, <1>10, <1>11, <1>13, <1>14, <1>15, <1>16, <1>17, <1>18, <1>19,
     <1>20, <1>21, <1>22, Zenon

------------------------------
(* Requests and answers. *)

\* How a push moves without sending.
PushMoves ==
  \/ push' = push
  \/ push'.at = "idle" /\ push'.no = push.no /\ push'.result = push.result
  \/ /\ push.at = "idle" /\ push'.at = "adv" /\ push'.no = push.no + 1
     /\ push'.adv = remote.refs /\ push'.result = [r \in Refs |-> "none"]
  \/ /\ push.at \in {"adv", "located", "leased"} /\ push'.at \in {"located", "leased", "judged"}
     /\ push'.no = push.no /\ push'.adv = push.adv /\ push'.result = push.result
  \/ /\ push.at \in {"judged", "sent", "report", "refresh"}
     /\ push'.at \in {"report", "refresh", "done"}
     /\ push.at = "sent" \/ push'.at = "report" => answers[push.no].come
     /\ push'.at = "report" => push.at \in {"sent", "report"}
     /\ push'.no = push.no /\ push'.adv = push.adv /\ push'.id = push.id
     /\ \/ push'.result = push.result
        \/ \E r \in Refs : /\ push.at = "report" /\ push'.at = "report"
                           /\ push'.result = [push.result EXCEPT ![r] =
                                IF r \in answers[push.no].ok THEN "ok" ELSE "rejected"]

\* The steps of a push between its request and its answer keep its number
\* and end it only after the report.
LEMMA MovesOfInner ==
  ASSUME PushOK, AnswersOK, PushInner
  PROVE  PushMoves
<1>0. DOMAIN push = PushFields BY DEF PushOK, PushTypes
<1>1. ASSUME push' = Over PROVE PushMoves
  <2>1. push'.at = "idle" /\ push'.no = push.no /\ push'.result = push.result
    BY <1>0, <1>1 DEF Over, PushFields
  <2> QED BY <2>1 DEF PushMoves
<1>2. ASSUME Locate PROVE PushMoves
  <2>1. CASE push' = Over BY <1>1, <2>1
  <2>2. CASE push' # Over
    <3>1. PICK f : push' = [push EXCEPT !.at = "located", !.id = f] /\ push.at = "adv"
      BY <1>2, <2>2 DEF Locate
    <3>2. push'.at = "located" /\ push'.no = push.no /\ push'.adv = push.adv /\ push'.result = push.result
      BY <1>0, <3>1 DEF PushFields
    <3> QED BY <3>1, <3>2 DEF PushMoves
  <2> QED BY <2>1, <2>2
<1>3. ASSUME ReadLease PROVE PushMoves
  <2>1. PICK f : push' = [push EXCEPT !.at = "leased", !.lease = f] /\ push.at = "located"
    BY <1>3 DEF ReadLease
  <2>2. push'.at = "leased" /\ push'.no = push.no /\ push'.adv = push.adv /\ push'.result = push.result
    BY <1>0, <2>1 DEF PushFields
  <2> QED BY <2>1, <2>2 DEF PushMoves
<1>4. ASSUME Judge PROVE PushMoves
  <2>1. PICK f, g : push' = [push EXCEPT !.at = "judged", !.verdict = f, !.pruned = g] /\ push.at = "leased"
    BY <1>4 DEF Judge
  <2>2. push'.at = "judged" /\ push'.no = push.no /\ push'.adv = push.adv /\ push'.result = push.result
    BY <1>0, <2>1 DEF PushFields
  <2> QED BY <2>1, <2>2 DEF PushMoves
<1>5. ASSUME NothingMoves \/ Reported PROVE PushMoves
  <2>1. push' = [push EXCEPT !.at = "refresh", !.todo = Plan] /\ push.at \in {"judged", "report"}
    BY <1>5 DEF NothingMoves, Reported
  <2>2. /\ push'.at = "refresh" /\ push'.no = push.no /\ push'.adv = push.adv
        /\ push'.id = push.id /\ push'.result = push.result
    BY <1>0, <2>1 DEF PushFields
  <2> QED BY <2>1, <2>2 DEF PushMoves
<1>6. ASSUME ReadAnswer PROVE PushMoves
  <2>1. PICK at \in {"report", "refresh"} :
          \E todo, failed : push' = [push EXCEPT !.at = at, !.todo = todo, !.failed = failed]
    BY <1>6 DEF ReadAnswer
  <2>2. /\ push'.at = at /\ push'.no = push.no /\ push'.adv = push.adv
        /\ push'.id = push.id /\ push'.result = push.result
    BY <1>0, <2>1 DEF PushFields
  <2>3. push.at = "sent" /\ answers[push.no].come BY <1>6 DEF ReadAnswer
  <2> QED BY <2>2, <2>3 DEF PushMoves
<1>7. ASSUME EndPush PROVE PushMoves
  <2>1. CASE push.failed BY <1>1, <1>7, <2>1 DEF EndPush
  <2>2. CASE ~push.failed
    <3>1. push' = [push EXCEPT !.at = "done"] /\ push.at = "refresh" BY <1>7, <2>2 DEF EndPush
    <3>2. /\ push'.at = "done" /\ push'.no = push.no /\ push'.adv = push.adv
          /\ push'.id = push.id /\ push'.result = push.result
      BY <1>0, <3>1 DEF PushFields
    <3> QED BY <3>1, <3>2 DEF PushMoves
  <2> QED BY <2>1, <2>2
<1> QED BY <1>1, <1>2, <1>3, <1>4, <1>5, <1>6, <1>7, Zenon DEF PushInner, PushRefused, ForgetPush, LosePush

\* So do the report and the refresh of a ref.
LEMMA MovesOfRef ==
  ASSUME PushOK, AnswersOK, NEW r \in Refs, ReportRef(r) \/ RefreshRef(r)
  PROVE  PushMoves
<1>0. DOMAIN push = PushFields BY DEF PushOK, PushTypes
<1>1. CASE ReportRef(r)
  <2> DEFINE s == IF r \in answers[push.no].ok THEN "ok" ELSE "rejected"
  <2>1. push' = [push EXCEPT !.todo = @ \ {r}, !.result[r] = s] /\ push.at = "report"
    BY <1>1 DEF ReportRef, SaysOk
  <2> HIDE DEF s
  <2>2. /\ push'.at = "report" /\ push'.no = push.no /\ push'.adv = push.adv
        /\ push'.id = push.id /\ push'.result = [push.result EXCEPT ![r] = s]
    BY <1>0, <2>1 DEF PushFields
  <2>3. answers[push.no].come BY <2>1 DEF AnswersOK
  <2> QED BY <2>1, <2>2, <2>3 DEF PushMoves, s
<1>2. CASE RefreshRef(r)
  <2>1. push' = [push EXCEPT !.todo = @ \ {r}] /\ push.at = "refresh" BY <1>2 DEF RefreshRef
  <2>2. /\ push'.at = "refresh" /\ push'.no = push.no /\ push'.adv = push.adv
        /\ push'.id = push.id /\ push'.result = push.result
    BY <1>0, <2>1 DEF PushFields
  <2> QED BY <2>1, <2>2 DEF PushMoves
<1> QED BY <1>1, <1>2

\* A new push has a new number.
LEMMA MovesOfDiscover ==
  ASSUME PushOK, NEW o \in PushMenu, Discover(o)
  PROVE  PushMoves
<1>1. /\ push'.at = "adv" /\ push'.no = push.no + 1 /\ push'.adv = remote.refs
      /\ push'.result = [r \in Refs |-> "none"] /\ push.at = "idle"
  BY DEF PushOK, PushTypes, Discover, PushFields
<1> QED BY <1>1 DEF PushMoves

\* Only a sending push and a receiving remote touch requests and answers.
LEMMA MovesOfNext ==
  ASSUME TransferIndInv, Next
  PROVE  \/ PushMoves /\ UNCHANGED <<wire, answers, sent>>
         \/ Send \/ \E q \in wire : Receive(q)
<1>1. PushOK /\ AnswersOK BY DEF TransferIndInv
<1>2. ASSUME PushInner, UNCHANGED <<worldVars, wire, answers, sent, fetchVars>>
      PROVE  PushMoves /\ UNCHANGED <<wire, answers, sent>>
  <2>1. PushMoves BY <1>1, <1>2, MovesOfInner, ZenonT(40)
  <2> QED BY <1>2, <2>1
<1>3. ASSUME NEW r \in Refs, ReportRef(r) \/ RefreshRef(r)
      PROVE  PushMoves /\ UNCHANGED <<wire, answers, sent>>
  BY <1>1, <1>3, MovesOfRef DEF ReportRef, RefreshRef
<1>4. ASSUME NEW o \in PushMenu, Discover(o)
      PROVE  PushMoves /\ UNCHANGED <<wire, answers, sent>>
  BY <1>1, <1>4, MovesOfDiscover DEF Discover
<1>5. ASSUME UNCHANGED pushVars PROVE PushMoves /\ UNCHANGED <<wire, answers, sent>>
  BY <1>5 DEF pushVars, PushMoves
<1>6. ASSUME UNCHANGED <<pushVars, fetchVars>> \/ UNCHANGED <<worldVars, pushVars, judged>>
      PROVE  UNCHANGED pushVars
  BY <1>6
<1> QED BY Steps, <1>2, <1>3, <1>4, <1>5, <1>6, Zenon

\* A request stays sound while its answer has not come and the remote keeps its objects.
LEMMA RequestKept ==
  ASSUME Grows, NEW q \in wire, RequestOK(q), answers'[q.no] = answers[q.no], sent'[q.no] = sent[q.no],
         push.no \in Nat, push'.no \in Nat, push.no <= push'.no,
         q.no = push'.no => push'.at \in {"sent", "idle"},
         q.no = push'.no /\ push'.at = "sent" => push'.no = push.no /\ push.at = "sent" /\ push'.id = push.id
  PROVE  RequestOK(q)'
<1>1. remote.objects \subseteq remote'.objects BY DEF Grows
<1>2. q.no \in 1 .. push'.no /\ ~answers'[q.no].come BY DEF RequestOK
<1>3. ASSUME NEW r \in DOMAIN q.updates
      PROVE  /\ q.updates[r].new \in remote'.objects \cup q.pack \cup {Null}
             /\ q.no = push'.no /\ push'.at = "sent" => q.updates[r].new = push'.id[r]
             /\ Licensed(q.opts, q.pruned, r, q.updates[r].old, q.updates[r].new)'
  BY <1>1, LicensedKept DEF RequestOK
<1>4. \A c \in q.pack : Parents[c] \subseteq remote'.objects \cup q.pack BY <1>1 DEF RequestOK
<1>5. /\ q.opts \in PushMenu /\ q.atomic \in BOOLEAN
      /\ q.pack \subseteq Commits /\ DOMAIN q.updates \subseteq Refs
      /\ sent'[q.no].atomic = q.atomic /\ sent'[q.no].moved = {}
      /\ q.atomic => DOMAIN q.updates = sent'[q.no].movers
  BY DEF RequestOK
<1> QED BY <1>2, <1>3, <1>4, <1>5 DEF RequestOK

\* A step that sends nothing keeps the requests under way in order.
LEMMA WireKept ==
  ASSUME WireOK, PushOK, PushOK', Grows, PushMoves, UNCHANGED <<wire, answers, sent>>
  PROVE  WireOK'
<1>1. push.no \in Nat /\ push'.no \in Nat /\ push.no <= push'.no BY DEF PushOK, PushTypes, PushMoves
<1>2. ASSUME NEW q \in wire PROVE RequestOK(q)'
  <2>1. RequestOK(q) BY DEF WireOK
  <2>2. q.no \in 1 .. push.no /\ ~answers[q.no].come /\ (q.no = push.no => push.at \in {"sent", "idle"})
    BY <2>1 DEF RequestOK
  <2>3. q.no = push'.no => push'.at \in {"sent", "idle"} BY <1>1, <2>2 DEF PushMoves
  <2>4. q.no = push'.no /\ push'.at = "sent" => push'.no = push.no /\ push.at = "sent" /\ push'.id = push.id
    BY <1>1, <2>2 DEF PushMoves
  <2> QED BY <1>1, <2>1, <2>3, <2>4, RequestKept
<1> QED BY <1>2 DEF WireOK

\* And the answers.
LEMMA AnswersKept ==
  ASSUME AnswersOK, PushOK, PushOK', WorldOK, Grows, PushMoves, UNCHANGED <<wire, answers, sent>>
  PROVE  AnswersOK'
<1>1. /\ push.no \in Nat /\ push'.no \in Nat /\ push.no <= push'.no
      /\ push'.at # "idle" => push'.no \in 1 .. MaxPushes
  BY PushAssumption DEF PushOK, PushTypes, PushMoves
<1>2. \A n \in 1 .. MaxPushes :
        /\ IF answers[n].come THEN answers[n].ok = sent[n].moved /\ n <= push'.no ELSE answers[n].ok = {}
        /\ sent[n].atomic => sent[n].moved \in {{}, sent[n].movers}
  BY <1>1 DEF AnswersOK
<1>3. push'.at \in {"adv", "located", "leased", "judged"} => ~answers[push'.no].come
  BY <1>1 DEF AnswersOK, PushMoves
<1>4. push'.at = "report" => answers[push'.no].come BY DEF AnswersOK, PushMoves
<1>5. push'.at \in {"sent", "report"} => \A r \in answers[push'.no].ok : push'.id[r] \in had'[r]
  <2>1. ASSUME push'.at \in {"sent", "report"}
        PROVE  push.at \in {"sent", "report"} /\ push'.id = push.id /\ push'.no = push.no
    BY <2>1 DEF PushMoves
  <2>2. ASSUME push'.at \in {"sent", "report"} PROVE answers[push.no].ok \subseteq Refs
    BY <1>1, <2>1, <2>2 DEF AnswersOK
  <2> QED BY <2>1, <2>2 DEF AnswersOK, Grows
<1>6. push'.at # "idle" => \A r \in Refs : push'.adv[r] \in had'[r]
  <2>1. push'.at # "idle" => (push.at # "idle" /\ push'.adv = push.adv) \/ push'.adv = remote.refs
    BY DEF PushMoves
  <2>2. \A r \in Refs : remote.refs[r] \in had[r] BY DEF WorldOK, LogsOK
  <2> QED BY <2>1, <2>2 DEF AnswersOK, Grows
<1>7. ASSUME NEW r \in Refs, push'.result[r] # "none"
      PROVE  /\ push'.no > 0 /\ answers[push'.no].come
             /\ (push'.result[r] = "ok") <=> (r \in answers[push'.no].ok)
  <2>1. CASE push'.result = push.result /\ push'.no = push.no BY <1>7, <2>1 DEF AnswersOK
  <2>2. CASE push'.result = [s \in Refs |-> "none"] BY <1>7, <2>2
  <2>3. CASE /\ push'.no = push.no /\ push'.at = "report" /\ answers[push.no].come
             /\ \E s \in Refs : push'.result = [push.result EXCEPT ![s] =
                                  IF s \in answers[push.no].ok THEN "ok" ELSE "rejected"]
    <3>1. push.result \in [Refs -> {"none", "ok", "rejected"}] BY DEF PushOK, PushTypes
    <3> QED BY <1>1, <1>7, <2>3, <3>1 DEF AnswersOK
  <2> QED BY <2>1, <2>2, <2>3 DEF PushMoves
<1> QED BY <1>2, <1>3, <1>4, <1>5, <1>6, <1>7 DEF AnswersOK

\* The pack completes the remote's objects, and brings what the accepted commands name.
LEMMA PackCompletes ==
  ASSUME PushOK, WorldOK, push.at = "judged"
  PROVE  /\ Pack \subseteq Commits
         /\ \A c \in Pack : Parents[c] \subseteq remote.objects \cup Pack
         /\ \A r \in Accepted : push.id[r] \in remote.objects \cup Pack \cup {Null}
         /\ Accepted \subseteq Movers /\ Movers \subseteq Refs
<1> DEFINE ids == {push.id[r] : r \in Movers}
           known == {push.adv[r] : r \in Refs} \cap local.objects
<1>1. Movers \subseteq Plan /\ Plan \subseteq Refs BY PushAssumption DEF Movers, Plan, PushOK, PushTypes
<1>2. Accepted \subseteq Movers BY DEF Accepted
<1>3. ids \subseteq Ids /\ known \subseteq remote.objects /\ known \subseteq Ids
  <2>1. \A r \in Refs : push.id[r] \in Ids /\ push.adv[r] \in remote.objects \cup {Null}
    BY DEF PushOK, PushTypes
  <2>2. Null \notin local.objects BY HistoryAssumption DEF WorldOK, LocalOK, Null
  <2> QED BY <1>1, <2>1, <2>2 DEF WorldOK, RemoteOK, Ids
<1>4. Closure(known) \subseteq remote.objects BY <1>3, ClosureInClosed DEF WorldOK, RemoteOK
<1>5. Closure(ids) \subseteq Commits /\ Closed(Closure(ids)) /\ ids \ {Null} \subseteq Closure(ids)
  BY <1>3, ClosureClosed
<1>6. CASE \A r \in Accepted : Deletes(r)
  <2>1. Pack = {} BY <1>6 DEF Pack
  <2>2. \A r \in Accepted : push.id[r] = Null BY <1>1, <1>2, <1>6 DEF PushOK, Located
  <2> QED BY <1>1, <1>2, <2>1, <2>2
<1>7. CASE ~\A r \in Accepted : Deletes(r)
  <2>1. Pack = Closure(ids) \ Closure(known) BY <1>7 DEF Pack
  <2> HIDE DEF ids, known
  <2>2. \A c \in Pack : Parents[c] \subseteq remote.objects \cup Pack BY <1>4, <1>5, <2>1 DEF Closed
  <2>3. \A r \in Accepted : push.id[r] \in ids BY <1>2 DEF ids
  <2> QED BY <1>1, <1>2, <1>4, <1>5, <2>1, <2>2, <2>3
<1> QED BY <1>6, <1>7

\* A request that is sent carries a pack that suffices for what it asks.
LEMMA SendWire ==
  ASSUME PushOK, WorldOK, WireOK, AnswersOK, Grows, Send
  PROVE  WireOK' /\ AnswersOK'
<1> DEFINE m == [atomic |-> push.opts.atomic, movers |-> Movers, moved |-> {}]
           n == [no |-> push.no, pack |-> Pack, atomic |-> CapabilityOptIns,
                 opts |-> push.opts, pruned |-> push.pruned,
                 updates |-> [r \in Accepted |-> ToRefUpdate(r)]]
           a == [come |-> TRUE, unpack |-> TRUE, ok |-> {}]
<1>1. push.at = "judged" /\ sent' = [sent EXCEPT ![push.no] = m] /\ UNCHANGED worldVars BY DEF Send
<1>2. /\ push.no \in 1 .. MaxPushes /\ MaxPushes \in Nat
      /\ push.opts \in PushMenu /\ push.opts.atomic \in BOOLEAN
  BY <1>1, PushAssumption DEF PushOK, PushTypes
<1>3. /\ Pack \subseteq Commits /\ \A c \in Pack : Parents[c] \subseteq remote.objects \cup Pack
      /\ \A r \in Accepted : push.id[r] \in remote.objects \cup Pack \cup {Null}
      /\ Accepted \subseteq Movers /\ Movers \subseteq Refs
  BY <1>1, PackCompletes
<1>4. /\ push'.no = push.no /\ push'.id = push.id /\ push'.adv = push.adv /\ push'.result = push.result
      /\ push'.at \in {"sent", "report"}
      /\ (push'.at = "report") <=> (Accepted = {})
      /\ Accepted = {} => wire' = wire /\ answers' = [answers EXCEPT ![push.no] = a]
      /\ Accepted # {} => wire' = wire \cup {n} /\ answers' = answers
  <2>0. DOMAIN push = PushFields BY DEF PushOK, PushTypes
  <2>1. CASE Accepted = {}
    <3>1. /\ push' = [push EXCEPT !.at = "report", !.todo = Movers]
          /\ wire' = wire /\ answers' = [answers EXCEPT ![push.no] = a]
      BY <2>1 DEF Send
    <3> QED BY <2>0, <2>1, <3>1 DEF PushFields
  <2>2. CASE Accepted # {}
    <3>1. /\ push' = [push EXCEPT !.at = "sent", !.todo = Movers]
          /\ wire' = wire \cup {n} /\ answers' = answers
      BY <2>2 DEF Send
    <3> QED BY <2>0, <2>2, <3>1 DEF PushFields
  <2> QED BY <2>1, <2>2
<1>5. ~answers[push.no].come /\ answers[push.no].ok = {} BY <1>1, <1>2 DEF AnswersOK
<1>6. \A k \in 1 .. MaxPushes : sent'[k] = IF k = push.no THEN m ELSE sent[k] BY <1>1 DEF AnswersOK
<1>7. \A k \in 1 .. MaxPushes : k # push.no => answers'[k] = answers[k] BY <1>4 DEF AnswersOK
<1>8. ASSUME NEW q \in wire PROVE RequestOK(q)' /\ q.no # push.no
  <2>1. RequestOK(q) BY DEF WireOK
  <2>2. q.no # push.no /\ q.no \in 1 .. push.no BY <1>1, <2>1 DEF RequestOK
  <2>3. q.no \in 1 .. MaxPushes BY <1>2, <2>2
  <2> QED BY <1>2, <1>4, <1>6, <1>7, <2>1, <2>2, <2>3, RequestKept
<1>9. ASSUME Accepted # {}, NEW q, q = n PROVE RequestOK(q)'
  <2>1. /\ q.no = push.no /\ q.pack = Pack /\ q.atomic = push.opts.atomic /\ q.opts = push.opts
        /\ q.pruned = push.pruned /\ DOMAIN q.updates = Accepted
        /\ \A r \in Accepted : q.updates[r].old = push.adv[r] /\ q.updates[r].new = push.id[r]
    BY <1>9 DEF CapabilityOptIns, ToRefUpdate
  <2>2. push'.at = "sent" /\ answers' = answers BY <1>4, <1>9
  <2> HIDE DEF n
  <2>3. UNCHANGED <<remote, log, shown>> BY <1>1 DEF worldVars
  <2>4. ASSUME NEW r \in Accepted PROVE Licensed(push.opts, push.pruned, r, push.adv[r], push.id[r])
    <3>1. r \in Plan /\ push.verdict[r] \in {"ok", "forced"} BY DEF Accepted, Movers, Going
    <3> QED BY <1>1, <3>1 DEF PushOK
  <2>5. push.opts.atomic => Accepted = Movers BY <1>9 DEF Accepted
  <2>6. /\ sent'[push.no].atomic = push.opts.atomic /\ sent'[push.no].moved = {}
        /\ sent'[push.no].movers = Movers
    BY <1>2, <1>6
  <2>7. q.no \in 1 .. push'.no /\ ~answers'[q.no].come BY <1>2, <1>4, <1>5, <2>1, <2>2
  <2>8. ASSUME NEW r \in DOMAIN q.updates
        PROVE  /\ q.updates[r].new \in remote'.objects \cup q.pack \cup {Null}
               /\ q.updates[r].new = push'.id[r]
               /\ Licensed(q.opts, q.pruned, r, q.updates[r].old, q.updates[r].new)'
    <3>1. r \in Accepted /\ q.updates[r].old = push.adv[r] /\ q.updates[r].new = push.id[r] BY <2>1
    <3>2. Licensed(q.opts, q.pruned, r, q.updates[r].old, q.updates[r].new) BY <2>1, <2>4, <3>1
    <3>3. Licensed(q.opts, q.pruned, r, q.updates[r].old, q.updates[r].new)' BY <3>2, LicensedKept
    <3> QED BY <1>3, <1>4, <2>1, <2>3, <3>1, <3>3
  <2>9. \A c \in q.pack : Parents[c] \subseteq remote'.objects \cup q.pack BY <1>3, <2>1, <2>3
  <2>10. /\ q.opts \in PushMenu /\ q.atomic \in BOOLEAN
         /\ q.pack \subseteq Commits /\ DOMAIN q.updates \subseteq Refs
         /\ sent'[q.no].atomic = q.atomic /\ sent'[q.no].moved = {}
         /\ q.atomic => DOMAIN q.updates = sent'[q.no].movers
    BY <1>2, <1>3, <2>1, <2>5, <2>6
  <2> QED BY <2>2, <2>7, <2>8, <2>9, <2>10 DEF RequestOK
<1>10. WireOK'
  <2>1. ASSUME NEW q \in wire' PROVE RequestOK(q)' BY <1>4, <1>8, <1>9
  <2>2. ASSUME NEW p \in wire', NEW q \in wire', p.no = q.no PROVE p = q
    <3>1. n.no = push.no OBVIOUS
    <3> QED BY <1>4, <1>8, <2>2, <3>1 DEF WireOK
  <2> QED BY <2>1, <2>2 DEF WireOK
<1>11. AnswersOK'
  <2>1. m \in [atomic : BOOLEAN, movers : SUBSET Refs, moved : SUBSET Refs] /\ m.moved = {} BY <1>2, <1>3
  <2>2. a \in [come : BOOLEAN, unpack : BOOLEAN, ok : SUBSET Refs] /\ a.ok = {} /\ a.come OBVIOUS
  <2> HIDE DEF m, n, a
  <2>3. sent' \in [1 .. MaxPushes -> [atomic : BOOLEAN, movers : SUBSET Refs, moved : SUBSET Refs]]
    BY <1>1, <2>1 DEF AnswersOK
  <2>4. answers' \in [1 .. MaxPushes -> [come : BOOLEAN, unpack : BOOLEAN, ok : SUBSET Refs]]
    BY <1>4, <2>2 DEF AnswersOK
  <2>5. /\ answers'[push.no].ok = {}
        /\ answers'[push.no].come <=> (Accepted = {})
    BY <1>2, <1>4, <1>5, <2>2 DEF AnswersOK
  <2>6. ASSUME NEW k \in 1 .. MaxPushes
        PROVE  /\ IF answers'[k].come THEN answers'[k].ok = sent'[k].moved /\ k <= push'.no
                                      ELSE answers'[k].ok = {}
               /\ sent'[k].atomic => sent'[k].moved \in {{}, sent'[k].movers}
    <3>1. CASE k = push.no
      <4>1. sent'[k].moved = {} /\ answers'[k].ok = {} /\ k <= push'.no BY <1>2, <1>4, <1>6, <2>1, <2>5, <3>1
      <4> QED BY <4>1
    <3>2. CASE k # push.no
      <4>1. answers'[k] = answers[k] /\ sent'[k] = sent[k] /\ push'.no = push.no BY <1>4, <1>6, <1>7, <3>2
      <4> QED BY <4>1 DEF AnswersOK
    <3> QED BY <3>1, <3>2
  <2>7. \A r \in Refs : push'.result[r] = "none" BY <1>1, <1>4, <1>5 DEF AnswersOK
  <2>8. \A r \in Refs : push'.adv[r] \in had'[r] BY <1>1, <1>4 DEF AnswersOK, Grows
  <2> QED BY <1>4, <2>3, <2>4, <2>5, <2>6, <2>7, <2>8 DEF AnswersOK
<1> QED BY <1>10, <1>11

\* An answer says what the remote did.
LEMMA ReceiveWire ==
  ASSUME PushOK, WorldOK, WorldOK', WireOK, AnswersOK, Grows, NEW q \in wire, Receive(q)
  PROVE  WireOK' /\ AnswersOK'
<1>1. PICK unpack \in BOOLEAN, ok \in SUBSET DOMAIN q.updates : Received(q, unpack, ok)
  BY ReceiveEffect DEF WorldOK
<1> DEFINE a == [come |-> TRUE, unpack |-> unpack, ok |-> ok]
<1>2. /\ answers' = [answers EXCEPT ![q.no] = a] /\ sent' = [sent EXCEPT ![q.no].moved = ok]
      /\ q.atomic => ok \in {{}, DOMAIN q.updates}
      /\ \A r \in ok : had'[r] = had[r] \cup {remote'.refs[r]} /\ remote'.refs[r] = q.updates[r].new
  BY <1>1 DEF Received, WorldOK, RequestOK, WireOK
<1>3. RequestOK(q) BY DEF WireOK
<1>4. /\ push.no \in Nat /\ push.no <= MaxPushes /\ MaxPushes \in Nat
      /\ push.at # "idle" => push.no > 0
      /\ push.result \in [Refs -> {"none", "ok", "rejected"}]
  BY PushAssumption, SMTT(20) DEF PushOK, PushTypes
<1>5. /\ q.no \in 1 .. MaxPushes /\ ~answers[q.no].come /\ ok \subseteq Refs
      /\ sent[q.no].atomic = q.atomic
      /\ q.atomic => DOMAIN q.updates = sent[q.no].movers
      /\ q.no = push.no => push.at \in {"sent", "idle"}
      /\ q.no = push.no /\ push.at = "sent" => \A r \in ok : q.updates[r].new = push.id[r]
  BY <1>3, <1>4 DEF RequestOK
<1>6. a \in [come : BOOLEAN, unpack : BOOLEAN, ok : SUBSET Refs] /\ a.come /\ a.ok = ok BY <1>5
<1> HIDE DEF a
<1>7. push' = push /\ wire' = wire \ {q} BY DEF Receive
<1>8. /\ answers' \in [1 .. MaxPushes -> [come : BOOLEAN, unpack : BOOLEAN, ok : SUBSET Refs]]
      /\ \A k \in 1 .. MaxPushes : answers'[k] = IF k = q.no THEN a ELSE answers[k]
  BY <1>2, <1>5, <1>6 DEF AnswersOK
<1>9. sent' \in [1 .. MaxPushes -> [atomic : BOOLEAN, movers : SUBSET Refs, moved : SUBSET Refs]]
  BY <1>2, <1>5 DEF AnswersOK
<1>10. \A k \in 1 .. MaxPushes : k # q.no => sent'[k] = sent[k] BY <1>2 DEF AnswersOK
<1>11. /\ sent'[q.no].moved = ok /\ sent'[q.no].atomic = q.atomic
       /\ sent'[q.no].movers = sent[q.no].movers
  <2>1. sent[q.no] \in [atomic : BOOLEAN, movers : SUBSET Refs, moved : SUBSET Refs] BY <1>5 DEF AnswersOK
  <2>2. sent'[q.no] = [sent[q.no] EXCEPT !.moved = ok] BY <1>2, <1>5 DEF AnswersOK
  <2> QED BY <1>5, <2>1, <2>2
<1>12. ASSUME NEW p \in wire' PROVE RequestOK(p)'
  <2>1. p \in wire /\ p # q /\ RequestOK(p) /\ p.no # q.no BY <1>7 DEF WireOK
  <2>2. p.no \in 1 .. MaxPushes /\ (p.no = push.no => push.at \in {"sent", "idle"})
    BY <1>4, <2>1 DEF RequestOK
  <2>3. answers'[p.no] = answers[p.no] /\ sent'[p.no] = sent[p.no] BY <1>8, <1>10, <2>1, <2>2
  <2> QED BY <1>4, <1>7, <2>1, <2>2, <2>3, RequestKept
<1>13. WireOK' BY <1>7, <1>12 DEF WireOK
<1>14. ASSUME NEW k \in 1 .. MaxPushes
       PROVE  /\ IF answers'[k].come THEN answers'[k].ok = sent'[k].moved /\ k <= push'.no
                                     ELSE answers'[k].ok = {}
              /\ sent'[k].atomic => sent'[k].moved \in {{}, sent'[k].movers}
  <2>1. CASE k = q.no
    <3>1. answers'[k].come /\ answers'[k].ok = ok /\ k <= push'.no
      BY <1>3, <1>6, <1>7, <1>8, <2>1 DEF RequestOK
    <3>2. sent'[k].atomic => ok \in {{}, sent'[k].movers} BY <1>2, <1>5, <1>11, <2>1
    <3> QED BY <1>11, <2>1, <3>1, <3>2
  <2>2. CASE k # q.no BY <1>7, <1>8, <1>10, <2>2 DEF AnswersOK
  <2> QED BY <2>1, <2>2
<1>15. push.no # q.no /\ push.no > 0 => answers'[push.no] = answers[push.no] BY <1>4, <1>8
<1>16. push.at \in {"adv", "located", "leased", "judged"} => ~answers'[push.no].come
  BY <1>4, <1>5, <1>15 DEF AnswersOK
<1>17. push.at = "report" => answers'[push.no].come BY <1>4, <1>5, <1>15 DEF AnswersOK
<1>18. push.at \in {"sent", "report"} => \A r \in answers'[push.no].ok : push.id[r] \in had'[r]
  <2>1. CASE push.no = q.no
    <3>1. answers'[push.no].ok = ok BY <1>5, <1>6, <1>8, <2>1
    <3> QED BY <1>2, <1>5, <2>1, <3>1
  <2>2. CASE push.no # q.no
    <3>1. ASSUME push.at \in {"sent", "report"} PROVE answers[push.no].ok \subseteq Refs
      BY <1>4, <3>1 DEF AnswersOK
    <3> QED BY <1>4, <1>15, <2>2, <3>1 DEF AnswersOK, Grows
  <2> QED BY <2>1, <2>2
<1>19. push.at # "idle" => \A r \in Refs : push.adv[r] \in had'[r] BY DEF AnswersOK, Grows
<1>20. ASSUME NEW r \in Refs, push.result[r] # "none"
       PROVE  /\ push.no > 0 /\ answers'[push.no].come
              /\ (push.result[r] = "ok") <=> (r \in answers'[push.no].ok)
  BY <1>5, <1>15, <1>20 DEF AnswersOK
<1>21. AnswersOK' BY <1>7, <1>8, <1>9, <1>14, <1>16, <1>17, <1>18, <1>19, <1>20 DEF AnswersOK
<1> QED BY <1>13, <1>21

\* Every step keeps the requests and the answers sound.
LEMMA WireStep ==
  ASSUME TransferIndInv, Next
  PROVE  WireOK' /\ AnswersOK'
<1>1. PushOK /\ WorldOK /\ WireOK /\ AnswersOK BY DEF TransferIndInv, WorldOK
<1>2. PushOK' /\ WorldOK' /\ Grows BY PushStepOK, WorldStep
<1> QED BY <1>1, <1>2, MovesOfNext, WireKept, AnswersKept, SendWire, ReceiveWire

------------------------------
(* The tracking refs, while nobody else moves a ref. *)

\* A step that moves no ref, on either side, and not the push.
LEMMA QuietKept ==
  ASSUME QuietOK, quiet' => quiet, remote'.refs = remote.refs, local'.tracking = local.tracking,
         push' = push, answers' = answers
  PROVE  QuietOK'
<1>1. Plan' = Plan BY DEF Plan
<1> QED BY <1>1 DEF QuietOK

\* A step of the push that goes on, with the remote and the repository as they were.
LEMMA QuietGoesOn ==
  ASSUME QuietOK, PushOK, AnswersOK, push.at # "idle", push'.at \notin {"idle"},
         quiet' = quiet, remote'.refs = remote.refs, local'.tracking = local.tracking, answers' = answers,
         push'.no = push.no, push'.adv = push.adv, push'.result = push.result, push'.opts = push.opts,
         push'.id = push.id \/ ~answers[push.no].come,
         push'.at = "refresh" => push'.todo = Plan,
         push'.at = "done" => push.at = "refresh" /\ push'.todo = {} /\ push.todo = {}
                              /\ push'.verdict = push.verdict /\ push'.id = push.id
  PROVE  QuietOK'
<1>1. Plan' = Plan BY DEF Plan
<1>2. push.no \in 1 .. MaxPushes BY PushAssumption DEF PushOK, PushTypes
<1>3. ~answers[push.no].come => answers[push.no].ok = {} /\ \A r \in Refs : push.result[r] = "none"
  BY <1>2 DEF AnswersOK
<1>4. Branches \subseteq Refs BY DEF Refs
<1> SUFFICES ASSUME quiet
             PROVE  QuietOK'
  BY DEF QuietOK
<1>5. \A r \in Refs : remote.refs[r] = IF r \in answers[push.no].ok THEN push'.id[r] ELSE push.adv[r]
  BY <1>3 DEF QuietOK
<1>6. \A b \in Branches : push.result[b] = "ok" => local.tracking[b] = push'.id[b] BY <1>3, <1>4 DEF QuietOK
<1>7. push'.at \in {"refresh", "done"} => \A b \in Plan \cap Branches :
         push'.verdict[b] = "up-to-date" => b \in push'.todo \/ local.tracking[b] = push'.id[b]
  <2>1. CASE push'.at = "refresh" BY <2>1
  <2>2. CASE push'.at = "done" BY <2>2 DEF QuietOK
  <2> QED BY <2>1, <2>2
<1> QED BY <1>1, <1>5, <1>6, <1>7 DEF QuietOK

\* The steps of a push keep what it knows while nobody else moves the
\* remote.
LEMMA QuietInner ==
  ASSUME QuietOK, PushOK, AnswersOK, PushInner, UNCHANGED <<worldVars, answers>>
  PROVE  QuietOK'
<1>0. DOMAIN push = PushFields /\ quiet' = quiet /\ remote' = remote /\ local' = local /\ answers' = answers
  BY DEF PushOK, PushTypes, worldVars
<1> USE DEF PushFields
<1>1. ASSUME push' = Over PROVE QuietOK' BY <1>0, <1>1 DEF Over, QuietOK
<1>2. ASSUME Locate PROVE QuietOK'
  <2>1. CASE push' # Over
    <3>1. PICK f : push' = [push EXCEPT !.at = "located", !.id = f] /\ push.at = "adv"
      BY <1>2, <2>1 DEF Locate
    <3>2. /\ push'.at = "located" /\ push'.no = push.no /\ push'.adv = push.adv
          /\ push'.result = push.result /\ push'.opts = push.opts
      BY <1>0, <3>1
    <3>3. ~answers[push.no].come BY <3>1 DEF AnswersOK
    <3> QED BY <1>0, <3>1, <3>2, <3>3, QuietGoesOn
  <2> QED BY <1>1, <2>1
<1>3. ASSUME ReadLease PROVE QuietOK'
  <2>1. PICK f : push' = [push EXCEPT !.at = "leased", !.lease = f] /\ push.at = "located"
    BY <1>3 DEF ReadLease
  <2>2. /\ push'.at = "leased" /\ push'.no = push.no /\ push'.adv = push.adv /\ push'.id = push.id
        /\ push'.result = push.result /\ push'.opts = push.opts
    BY <1>0, <2>1
  <2> QED BY <1>0, <2>1, <2>2, QuietGoesOn
<1>4. ASSUME Judge PROVE QuietOK'
  <2>1. PICK f, g : push' = [push EXCEPT !.at = "judged", !.verdict = f, !.pruned = g] /\ push.at = "leased"
    BY <1>4 DEF Judge
  <2>2. /\ push'.at = "judged" /\ push'.no = push.no /\ push'.adv = push.adv /\ push'.id = push.id
        /\ push'.result = push.result /\ push'.opts = push.opts
    BY <1>0, <2>1
  <2> QED BY <1>0, <2>1, <2>2, QuietGoesOn
<1>5. ASSUME NothingMoves \/ Reported PROVE QuietOK'
  <2>1. push' = [push EXCEPT !.at = "refresh", !.todo = Plan] /\ push.at \in {"judged", "report"}
    BY <1>5 DEF NothingMoves, Reported
  <2>2. /\ push'.at = "refresh" /\ push'.no = push.no /\ push'.adv = push.adv /\ push'.id = push.id
        /\ push'.result = push.result /\ push'.opts = push.opts /\ push'.todo = Plan
    BY <1>0, <2>1
  <2> QED BY <1>0, <2>1, <2>2, QuietGoesOn
<1>6. ASSUME ReadAnswer PROVE QuietOK'
  <2>0. PICK at \in {"report", "refresh"} : \E todo, failed :
          /\ push' = [push EXCEPT !.at = at, !.todo = todo, !.failed = failed]
          /\ at = "refresh" => todo = Plan
          /\ push.at = "sent"
    BY <1>6 DEF ReadAnswer
  <2>1. PICK todo, failed :
          /\ push' = [push EXCEPT !.at = at, !.todo = todo, !.failed = failed]
          /\ at = "refresh" => todo = Plan
          /\ push.at = "sent"
    BY <2>0
  <2>2. /\ push'.at = at /\ push'.no = push.no /\ push'.adv = push.adv /\ push'.id = push.id
        /\ push'.result = push.result /\ push'.opts = push.opts /\ push'.todo = todo
    BY <1>0, <2>1
  <2> QED BY <1>0, <2>1, <2>2, QuietGoesOn
<1>7. ASSUME EndPush PROVE QuietOK'
  <2>1. CASE ~push.failed
    <3>1. push' = [push EXCEPT !.at = "done"] /\ push.at = "refresh" /\ push.todo = {}
      BY <1>7, <2>1 DEF EndPush
    <3>2. /\ push'.at = "done" /\ push'.no = push.no /\ push'.adv = push.adv /\ push'.id = push.id
          /\ push'.result = push.result /\ push'.opts = push.opts /\ push'.todo = push.todo
          /\ push'.verdict = push.verdict
      BY <1>0, <3>1
    <3> QED BY <1>0, <3>1, <3>2, QuietGoesOn
  <2> QED BY <1>1, <1>7, <2>1 DEF EndPush
<1> QED BY <1>1, <1>2, <1>3, <1>4, <1>5, <1>6, <1>7, Zenon DEF PushInner, PushRefused, ForgetPush, LosePush

\* So does sending the request.
LEMMA QuietSend ==
  ASSUME QuietOK, PushOK, AnswersOK, Send
  PROVE  QuietOK'
<1>0. DOMAIN push = PushFields /\ quiet' = quiet /\ remote' = remote /\ local' = local
  BY DEF PushOK, PushTypes, worldVars, Send
<1>1. push.no \in 1 .. MaxPushes /\ push.at = "judged" BY PushAssumption DEF PushOK, PushTypes, Send
<1>2. answers[push.no].ok = {} /\ \A r \in Refs : push.result[r] = "none" BY <1>1 DEF AnswersOK
<1>3. answers'[push.no].ok = {}
  <2> DEFINE a == [come |-> TRUE, unpack |-> TRUE, ok |-> {}]
  <2>1. answers' = answers \/ answers' = [answers EXCEPT ![push.no] = a] BY DEF Send
  <2>2. a.ok = {} OBVIOUS
  <2> HIDE DEF a
  <2>3. push.no \in DOMAIN answers BY <1>1 DEF AnswersOK
  <2>4. answers'[push.no] \in {answers[push.no], a} BY <2>1, <2>3
  <2> QED BY <1>2, <2>2, <2>4
<1>4. PICK at \in {"sent", "report"} : push' = [push EXCEPT !.at = at, !.todo = Movers] BY DEF Send
<1>5. /\ push'.at = at /\ push'.no = push.no /\ push'.adv = push.adv /\ push'.id = push.id
      /\ push'.result = push.result
  BY <1>0, <1>4 DEF PushFields
<1>6. Branches \subseteq Refs BY DEF Refs
<1> QED BY <1>0, <1>1, <1>2, <1>3, <1>5, <1>6 DEF QuietOK

\* A discovery reads the remote as it is.
LEMMA QuietDiscover ==
  ASSUME PushOK, AnswersOK, WorldOK, NEW o \in PushMenu, Discover(o)
  PROVE  QuietOK'
<1>1. /\ push'.at = "adv" /\ push'.no = push.no + 1 /\ push'.adv = remote.refs
      /\ push'.result = [r \in Refs |-> "none"] /\ UNCHANGED <<remote, answers>>
  BY DEF PushOK, PushTypes, Discover, PushFields
<1>2. push.no \in Nat /\ push.no + 1 \in 1 .. MaxPushes BY PushAssumption DEF PushOK, PushTypes, Discover
<1>3. answers[push.no + 1].ok = {} BY <1>2 DEF AnswersOK
<1>4. Branches \subseteq Refs BY DEF Refs
<1> QED BY <1>1, <1>3, <1>4 DEF QuietOK

\* While nobody else moves the remote, an accepted update is where its ref
\* is.
LEMMA QuietReceive ==
  ASSUME QuietOK, PushOK, AnswersOK, WorldOK, WireOK, NEW q \in wire, Receive(q)
  PROVE  QuietOK'
<1>1. quiet' = (quiet /\ q.no = push.no) /\ push' = push /\ local' = local BY DEF Receive
<1> SUFFICES ASSUME quiet, q.no = push.no, push.at # "idle"
             PROVE  QuietOK'
  BY <1>1 DEF QuietOK
<1>2. PICK unpack \in BOOLEAN, ok \in SUBSET DOMAIN q.updates : Received(q, unpack, ok)
  BY ReceiveEffect DEF WorldOK
<1>3. RequestOK(q) BY DEF WireOK
<1>4. push.at = "sent" /\ \A r \in ok : q.updates[r].new = push.id[r] BY <1>3 DEF RequestOK
<1>5. push.no \in 1 .. MaxPushes /\ ~answers[push.no].come
  BY <1>3, PushAssumption DEF RequestOK, PushOK, PushTypes
<1>6. answers[push.no].ok = {} /\ \A r \in Refs : push.result[r] = "none" BY <1>5 DEF AnswersOK
<1>7. answers'[push.no].ok = ok BY <1>2, <1>5 DEF Received, AnswersOK
<1>8. \A r \in Refs : remote'.refs[r] = IF r \in ok THEN push.id[r] ELSE push.adv[r]
  BY <1>2, <1>4, <1>6 DEF Received, QuietOK
<1>9. Branches \subseteq Refs BY DEF Refs
<1> QED BY <1>1, <1>4, <1>6, <1>7, <1>8, <1>9 DEF QuietOK

\* What Retracked says of each tracking ref.
LEMMA RetrackedValues ==
  ASSUME NEW bs, NEW f, Retracked(bs, f)
  PROVE  \A b \in Branches : local'.tracking[b] = IF b \in bs THEN f ELSE local.tracking[b]
  BY DEF Retracked

\* Reporting a ref keeps that.
LEMMA QuietReport ==
  ASSUME QuietOK, PushOK, AnswersOK, WorldOK, NEW r \in Refs, ReportRef(r)
  PROVE  QuietOK'
<1>1. push.at = "report" /\ UNCHANGED <<remote, quiet, answers>> BY DEF ReportRef
<1> SUFFICES ASSUME quiet
             PROVE  QuietOK'
  BY <1>1 DEF QuietOK
<1>2. /\ DOMAIN push = PushFields /\ push.id \in [Refs -> Ids]
      /\ push.result \in [Refs -> {"none", "ok", "rejected"}] /\ Branches \subseteq Refs
  BY DEF PushOK, PushTypes, Refs
<1>3. PICK s \in {"ok", "rejected"} :
        /\ push' = [push EXCEPT !.todo = @ \ {r}, !.result[r] = s]
        /\ s = "ok" => Follow(r, push.id[r])
        /\ s = "rejected" => UNCHANGED <<local, since, shown>>
  BY DEF ReportRef
<1>4. /\ push'.at = "report" /\ push'.no = push.no /\ push'.adv = push.adv /\ push'.id = push.id
      /\ push'.result = [push.result EXCEPT ![r] = s]
  BY <1>1, <1>2, <1>3 DEF PushFields
<1>5. \A b \in Branches : push'.result[b] = IF b = r THEN s ELSE push.result[b] BY <1>2, <1>4
<1>6. \A b \in Branches : local'.tracking[b] = IF b = r /\ s = "ok" THEN push.id[r] ELSE local.tracking[b]
  <2>1. CASE s = "ok"
    <3>1. Retracked({r} \cap Branches, push.id[r]) BY <1>2, <1>3, <2>1, FollowEffect DEF WorldOK
    <3> QED BY <2>1, <3>1, RetrackedValues
  <2>2. CASE s = "rejected" BY <1>3, <2>2
  <2> QED BY <2>1, <2>2
<1>7. \A b \in Branches : push'.result[b] = "ok" => local'.tracking[b] = push.id[b]
  BY <1>1, <1>5, <1>6 DEF QuietOK
<1>8. \A t \in Refs : remote'.refs[t] = IF t \in answers'[push.no].ok THEN push.id[t] ELSE push.adv[t]
  BY <1>1 DEF QuietOK
<1> QED BY <1>4, <1>7, <1>8 DEF QuietOK

\* Refreshing its tracking ref puts that in step.
LEMMA QuietRefresh ==
  ASSUME QuietOK, PushOK, AnswersOK, WorldOK, NEW r \in Refs, RefreshRef(r)
  PROVE  QuietOK'
<1>1. push.at = "refresh" /\ UNCHANGED <<remote, quiet, answers>> BY DEF RefreshRef
<1> SUFFICES ASSUME quiet
             PROVE  QuietOK'
  BY <1>1 DEF QuietOK
<1>2. DOMAIN push = PushFields /\ push.id \in [Refs -> Ids] /\ Branches \subseteq Refs
  BY DEF PushOK, PushTypes, Refs
<1>3. push' = [push EXCEPT !.todo = @ \ {r}] BY DEF RefreshRef
<1>4. /\ push'.at = "refresh" /\ push'.no = push.no /\ push'.adv = push.adv /\ push'.id = push.id
      /\ push'.result = push.result /\ push'.verdict = push.verdict /\ push'.opts = push.opts
      /\ push'.todo = push.todo \ {r}
  BY <1>1, <1>2, <1>3 DEF PushFields
<1>5. \A b \in Branches :
        local'.tracking[b] = IF b = r /\ push.verdict[r] = "up-to-date" THEN push.id[r] ELSE local.tracking[b]
  <2>1. CASE push.verdict[r] = "up-to-date"
    <3>1. Follow(r, push.id[r]) BY <2>1 DEF RefreshRef, Refreshes
    <3>2. Retracked({r} \cap Branches, push.id[r]) BY <1>2, <3>1, FollowEffect DEF WorldOK
    <3> QED BY <2>1, <3>2, RetrackedValues
  <2>2. CASE push.verdict[r] # "up-to-date" BY <2>2 DEF RefreshRef, Refreshes
  <2> QED BY <2>1, <2>2
<1>6. Plan' = Plan BY <1>4 DEF Plan
<1>7. \A b \in Branches : push'.result[b] = "ok" => local'.tracking[b] = push.id[b]
  BY <1>1, <1>4, <1>5 DEF QuietOK
<1>8. \A b \in Plan \cap Branches :
        push'.verdict[b] = "up-to-date" => b \in push'.todo \/ local'.tracking[b] = push.id[b]
  BY <1>1, <1>4, <1>5 DEF QuietOK
<1>9. \A t \in Refs : remote'.refs[t] = IF t \in answers'[push.no].ok THEN push.id[t] ELSE push.adv[t]
  BY <1>1 DEF QuietOK
<1> QED BY <1>4, <1>6, <1>7, <1>8, <1>9 DEF QuietOK

\* A fetch that moves or prunes a tracking ref ends the quiet.
LEMMA QuietFetch ==
  ASSUME QuietOK, WorldOK, UNCHANGED pushVars,
         (\E o \in FetchMenu : StartFetch(o)) \/ Download \/ IndexPack \/ Prune \/ StoreRef \/ WriteFetchHead
  PROVE  QuietOK'
<1>0. push' = push /\ answers' = answers BY DEF pushVars
<1>1. DOMAIN local = {"refs", "tracking", "objects", "unindexed", "fetchHead"} BY DEF WorldOK, LocalOK
<1>2. ASSUME NEW o \in FetchMenu, StartFetch(o) PROVE QuietOK' BY <1>0, <1>1, <1>2, QuietKept DEF StartFetch
<1>3. ASSUME Download PROVE QuietOK'
  <2>1. PICK u : local' = [local EXCEPT !.unindexed = u] /\ UNCHANGED <<remote, quiet>> BY <1>3 DEF Download
  <2> QED BY <1>0, <1>1, <2>1, QuietKept
<1>4. ASSUME IndexPack PROVE QuietOK' BY <1>0, <1>1, <1>4, QuietKept DEF IndexPack
<1>5. ASSUME WriteFetchHead PROVE QuietOK' BY <1>0, <1>1, <1>5, QuietKept DEF WriteFetchHead
<1>6. ASSUME StoreRef PROVE QuietOK'
  <2>1. quiet' = FALSE \/ UNCHANGED <<local, quiet>> BY <1>6 DEF StoreRef
  <2>2. remote' = remote BY <1>6 DEF StoreRef
  <2> QED BY <1>0, <2>1, <2>2, QuietKept DEF QuietOK
<1>7. ASSUME Prune PROVE QuietOK'
  <2>1. remote' = remote /\ quiet' = (quiet /\ ~(fetch.opts.prune /\ Stale # {})) BY <1>7 DEF Prune
  <2>2. CASE fetch.opts.prune /\ Stale = {}
    <3>1. Retracked(Stale, Null) BY <1>7, <2>2, UntrackEffect DEF Prune, WorldOK
    <3>2. local'.tracking = local.tracking BY <2>2, <3>1 DEF Retracked, WorldOK, LocalOK
    <3> QED BY <1>0, <2>1, <3>2, QuietKept
  <2>3. CASE fetch.opts.prune /\ Stale # {} BY <2>1, <2>3 DEF QuietOK
  <2>4. CASE ~fetch.opts.prune BY <1>0, <1>7, <2>1, <2>4, QuietKept DEF Prune
  <2> QED BY <2>2, <2>3, <2>4
<1> QED BY <1>2, <1>3, <1>4, <1>5, <1>6, <1>7

\* Every step keeps the tracking refs where the push has put them, or ends the quiet.
LEMMA QuietStep ==
  ASSUME TransferIndInv, Next
  PROVE  QuietOK'
<1>1. PushOK /\ WorldOK /\ WireOK /\ AnswersOK /\ QuietOK BY DEF TransferIndInv, WorldOK
<1>2. /\ DOMAIN local = {"refs", "tracking", "objects", "unindexed", "fetchHead"}
      /\ DOMAIN remote = {"refs", "objects", "caps"}
  BY <1>1 DEF WorldOK, LocalOK, RemoteOK
<1>3. ASSUME UNCHANGED pushVars, NEW b \in Branches, NEW c \in Commits, Work(b, c) PROVE QuietOK'
  BY <1>1, <1>2, <1>3, QuietKept DEF Work, pushVars
<1>4. ASSUME UNCHANGED pushVars, NEW t \in Tags, NEW c \in Commits, TagHere(t, c) PROVE QuietOK'
  BY <1>1, <1>2, <1>4, QuietKept DEF TagHere, pushVars
<1>5. ASSUME NEW r \in Refs, NEW c \in Ids, Others(r, c) PROVE QuietOK' BY <1>5 DEF Others, QuietOK
<1>6. ASSUME UNCHANGED pushVars, GcMay PROVE QuietOK'
  BY <1>1, <1>2, <1>6, QuietKept DEF GcMay, RemoteGc, pushVars
<1>7. ASSUME UNCHANGED <<worldVars, pushVars, judged>> PROVE QuietOK'
  BY <1>1, <1>7, QuietKept DEF worldVars, pushVars
<1>8. ASSUME PushInner, UNCHANGED <<worldVars, wire, answers, sent, fetchVars>> PROVE QuietOK'
  BY <1>1, <1>8, QuietInner
<1>9. ASSUME UNCHANGED <<pushVars, fetchVars>> PROVE UNCHANGED pushVars BY <1>9
<1> QED BY Steps, <1>1, <1>3, <1>4, <1>5, <1>6, <1>7, <1>8, <1>9, QuietSend, QuietDiscover, QuietReceive,
     QuietReport, QuietRefresh, QuietFetch, Zenon

------------------------------
(* The fetch. *)

\* A fetch that does nothing in a step is as well off after it.
LEMMA FetchWaits ==
  ASSUME FetchOK, Grows, fetch' = fetch
  PROVE  FetchOK'
<1>1. Wants(fetch.map)' = Wants(fetch.map) BY DEF Wants
<1>2. \A r \in Refs : fetch.adv[r] \in had'[r] \cup {Null} BY DEF FetchOK, Grows
<1>3. \A c \in fetch.pack : Parents[c] \subseteq local'.objects \cup fetch.pack BY DEF FetchOK, Grows
<1>4. /\ fetch.at = "index" => Wants(fetch.map) \subseteq local'.objects \cup fetch.pack
      /\ fetch.at \in {"prune", "apply", "store"} => Wants(fetch.map) \subseteq local'.objects
  BY DEF FetchOK, Grows
<1> QED BY <1>1, <1>2, <1>3, <1>4 DEF FetchOK

\* A fetch that ends maps nothing and holds no pack.
LEMMA OverFetch ==
  ASSUME FetchOK, fetch' = FetchOver
  PROVE  FetchOK'
<1>1. /\ DOMAIN fetch' = FetchFields /\ fetch'.at = "idle" /\ fetch'.adv = [r \in Refs |-> Null]
      /\ fetch'.map = {} /\ fetch'.pack = {} /\ fetch'.todo = {}
  BY DEF FetchOK, FetchOver, FetchFields
<1> QED BY <1>1 DEF FetchOK, FetchAts, Ids

\* While it applies, a fetch takes refs of its map off its list, and adds tags that are here.
LEMMA FetchApplies ==
  ASSUME FetchOK, Grows, DOMAIN fetch' = FetchFields, fetch'.at \in {"prune", "apply"},
         fetch'.adv = fetch.adv, fetch'.map \subseteq Refs, fetch'.todo \subseteq fetch'.map,
         \A r \in fetch'.map : fetch.adv[r] # Null /\ fetch.adv[r] \in local'.objects,
         fetch'.pack \in {{}, fetch.pack}
  PROVE  FetchOK'
<1>1. Wants(fetch.map)' \subseteq local'.objects BY DEF Wants
<1>2. \A r \in Refs : fetch.adv[r] \in had'[r] \cup {Null} BY DEF FetchOK, Grows
<1>3. \A c \in fetch'.pack : Parents[c] \subseteq local'.objects \cup fetch'.pack BY DEF FetchOK, Grows
<1>4. fetch'.pack \subseteq Commits /\ fetch'.at \in FetchAts BY DEF FetchOK, FetchAts
<1> QED BY <1>1, <1>2, <1>3, <1>4 DEF FetchOK

\* A fetch starts from what is advertised.
LEMMA FetchStarts ==
  ASSUME FetchOK, WorldOK, Grows, (\E o \in FetchMenu : StartFetch(o)) \/ NegotiateDiscovery
  PROVE  FetchOK'
<1>0. DOMAIN fetch = FetchFields /\ remote.refs \in [Refs -> Ids] /\ \A r \in Refs : remote.refs[r] \in had[r]
  BY DEF FetchOK, WorldOK, RemoteOK, LogsOK
<1>1. ASSUME NEW o \in FetchMenu, StartFetch(o) PROVE FetchOK'
  <2>1. /\ DOMAIN fetch' = FetchFields /\ fetch'.at = "begun" /\ fetch'.adv = fetch.adv
        /\ fetch'.map = fetch.map /\ fetch'.pack = fetch.pack /\ fetch'.todo = fetch.todo
    BY <1>0, <1>1 DEF StartFetch, FetchFields
  <2>2. fetch.map = {} BY <1>1 DEF FetchOK, StartFetch
  <2> QED BY <2>1, <2>2 DEF FetchOK, FetchAts, Grows
<1>2. ASSUME NegotiateDiscovery PROVE FetchOK'
  <2>1. /\ DOMAIN fetch' = FetchFields /\ fetch'.at = "adv" /\ fetch'.adv = remote.refs
        /\ fetch'.map = fetch.map /\ fetch'.pack = fetch.pack /\ fetch'.todo = fetch.todo
    BY <1>0, <1>2 DEF NegotiateDiscovery, FetchFields
  <2>2. fetch.map = {} BY <1>2 DEF FetchOK, NegotiateDiscovery
  <2>3. \A r \in Refs : fetch'.adv[r] \in had'[r] \cup {Null} BY <1>0, <2>1 DEF Grows
  <2>4. \A c \in fetch'.pack : Parents[c] \subseteq local'.objects \cup fetch'.pack BY <2>1 DEF FetchOK, Grows
  <2> QED BY <1>0, <2>1, <2>2, <2>3, <2>4 DEF FetchOK, FetchAts
<1> QED BY <1>1, <1>2

\* It wants what it lacks.
LEMMA FetchPlans ==
  ASSUME FetchOK, WorldOK, Grows, PlanFetch
  PROVE  FetchOK'
<1> DEFINE map == Heads \cup NonLocalTags(local.objects \cup Wants(Heads))
<1>0. DOMAIN fetch = FetchFields /\ fetch.at = "adv" BY DEF FetchOK, PlanFetch
<1>1. fetch' = [fetch EXCEPT !.map = map,
                             !.at = IF Wants(map) \subseteq local.objects THEN "prune" ELSE "want"]
  BY DEF PlanFetch
<1>2. map \subseteq Refs /\ \A r \in map : fetch.adv[r] # Null BY DEF Heads, NonLocalTags, Refs
<1> HIDE DEF map
<1>3. /\ DOMAIN fetch' = FetchFields /\ fetch'.map = map /\ fetch'.adv = fetch.adv
      /\ fetch'.at = (IF Wants(map) \subseteq local.objects THEN "prune" ELSE "want")
      /\ fetch'.pack = fetch.pack /\ fetch'.todo = fetch.todo
  BY <1>0, <1>1 DEF FetchFields
<1>4. fetch.todo = {} BY <1>0 DEF FetchOK
<1>5. CASE Wants(map) \subseteq local.objects
  <2>1. \A r \in map : fetch.adv[r] \in local'.objects BY <1>5 DEF Wants, Grows
  <2> QED BY <1>2, <1>3, <1>4, <1>5, <2>1, FetchApplies
<1>6. CASE ~(Wants(map) \subseteq local.objects)
  <2>1. \A r \in Refs : fetch'.adv[r] \in had'[r] \cup {Null} BY <1>3 DEF FetchOK, Grows
  <2>2. \A c \in fetch'.pack : Parents[c] \subseteq local'.objects \cup fetch'.pack BY <1>3 DEF FetchOK, Grows
  <2> QED BY <1>2, <1>3, <1>4, <1>6, <2>1, <2>2 DEF FetchOK, FetchAts
<1> QED BY <1>5, <1>6

\* The pack completes what it wants.
LEMMA FetchDownloads ==
  ASSUME FetchOK, WorldOK, Grows, Download
  PROVE  FetchOK'
<1> DEFINE pack == Closure(Wants(fetch.map)) \ Closure(DeriveHaves \cap remote.objects)
<1>0. DOMAIN fetch = FetchFields /\ fetch.at = "want" BY DEF FetchOK, Download
<1>1. fetch' = [fetch EXCEPT !.at = "index", !.pack = pack] BY DEF Download
<1>2. Wants(fetch.map) \subseteq Ids /\ Null \notin Wants(fetch.map) BY DEF Wants, FetchOK
<1>3. /\ Closure(Wants(fetch.map)) \subseteq Commits /\ Closed(Closure(Wants(fetch.map)))
      /\ Wants(fetch.map) \subseteq Closure(Wants(fetch.map))
  BY <1>2, ClosureClosed
<1>4. DeriveHaves \subseteq local.objects
  <2>1. ({local.refs[r] : r \in Refs} \cup {local.tracking[b] : b \in Branches}) \ {Null} \subseteq local.objects
    BY DEF WorldOK, LocalOK
  <2> QED BY <2>1, ClosureInClosed DEF DeriveHaves, WorldOK, LocalOK
<1>5. Closure(DeriveHaves \cap remote.objects) \subseteq local.objects
  BY <1>4, ClosureInClosed DEF WorldOK, LocalOK
<1>6. /\ pack \subseteq Commits /\ Wants(fetch.map) \subseteq local.objects \cup pack
      /\ \A c \in pack : Parents[c] \subseteq local.objects \cup pack
  BY <1>3, <1>5 DEF Closed
<1> HIDE DEF pack
<1>7. /\ DOMAIN fetch' = FetchFields /\ fetch'.map = fetch.map /\ fetch'.adv = fetch.adv
      /\ fetch'.at = "index" /\ fetch'.pack = pack /\ fetch'.todo = fetch.todo
  BY <1>0, <1>1 DEF FetchFields
<1>8. Wants(fetch.map)' = Wants(fetch.map) BY <1>7 DEF Wants
<1>9. \A r \in Refs : fetch.adv[r] \in had'[r] \cup {Null} BY DEF FetchOK, Grows
<1>10. \A c \in pack : Parents[c] \subseteq local'.objects \cup pack BY <1>6 DEF Grows
<1>11. Wants(fetch.map) \subseteq local'.objects \cup pack BY <1>6 DEF Grows
<1> QED BY <1>6, <1>7, <1>8, <1>9, <1>10, <1>11 DEF FetchOK, FetchAts

\* Indexing brings the objects in.
LEMMA FetchIndexes ==
  ASSUME FetchOK, WorldOK, Grows, IndexPack
  PROVE  FetchOK'
<1>0. DOMAIN fetch = FetchFields /\ fetch.at = "index" BY DEF FetchOK, IndexPack
<1>1. /\ DOMAIN fetch' = FetchFields /\ fetch'.map = fetch.map /\ fetch'.adv = fetch.adv
      /\ fetch'.at = "prune" /\ fetch'.pack = {} /\ fetch'.todo = fetch.todo
  BY <1>0 DEF IndexPack, FetchFields
<1>2. local'.objects = local.objects \cup fetch.pack BY DEF IndexPack, WorldOK, LocalOK
<1>3. \A r \in fetch.map : fetch.adv[r] # Null /\ fetch.adv[r] \in local'.objects
  BY <1>0, <1>2 DEF FetchOK, Wants
<1> QED BY <1>1, <1>3, FetchApplies DEF FetchOK

\* Everything a fetch that applies has mapped is here.
LEMMA MapHere ==
  ASSUME FetchOK, Grows, fetch.at \in {"prune", "apply", "store"}
  PROVE  \A r \in fetch.map : fetch.adv[r] # Null /\ fetch.adv[r] \in local'.objects
  BY DEF FetchOK, Wants, Grows

\* Each ref is read before it is stored.
LEMMA FetchReads ==
  ASSUME FetchOK, WorldOK, Grows, NEW r \in Refs, ReadRef(r)
  PROVE  FetchOK'
<1>0. DOMAIN fetch = FetchFields /\ fetch.at = "apply" /\ r \in fetch.todo /\ r \in fetch.map
  BY DEF FetchOK, ReadRef
<1>1. \A s \in fetch.map : fetch.adv[s] # Null /\ fetch.adv[s] \in local'.objects BY <1>0, MapHere
<1> DEFINE old == ValueOf(r)
<1>2. CASE ~(old # fetch.adv[r] /\ (old = Null \/ MayUpdate(r, old)))
  <2>1. fetch' = [fetch EXCEPT !.todo = @ \ {r}] BY <1>2 DEF ReadRef
  <2>2. /\ DOMAIN fetch' = FetchFields /\ fetch'.map = fetch.map /\ fetch'.adv = fetch.adv
        /\ fetch'.at = "apply" /\ fetch'.pack = fetch.pack /\ fetch'.todo = fetch.todo \ {r}
    BY <1>0, <2>1 DEF FetchFields
  <2> QED BY <1>1, <2>2, FetchApplies DEF FetchOK
<1>3. CASE old # fetch.adv[r] /\ (old = Null \/ MayUpdate(r, old))
  <2>1. fetch' = [fetch EXCEPT !.at = "store", !.ref = r, !.old = old, !.todo = @ \ {r}] BY <1>3 DEF ReadRef
  <2>2. /\ old # Null => r \notin Tags
        /\ old # Null /\ ~fetch.opts.plus /\ fetch.opts.showForced => old \in Ancestors[fetch.adv[r]]
    BY <1>3 DEF MayUpdate
  <2> HIDE DEF old
  <2>3. /\ DOMAIN fetch' = FetchFields /\ fetch'.map = fetch.map /\ fetch'.adv = fetch.adv
        /\ fetch'.at = "store" /\ fetch'.pack = fetch.pack /\ fetch'.todo = fetch.todo \ {r}
        /\ fetch'.ref = r /\ fetch'.old = old /\ fetch'.opts = fetch.opts
    BY <1>0, <2>1 DEF FetchFields
  <2>4. Wants(fetch.map)' \subseteq local'.objects BY <1>1, <2>3 DEF Wants
  <2>5. \A s \in Refs : fetch.adv[s] \in had'[s] \cup {Null} BY DEF FetchOK, Grows
  <2>6. \A c \in fetch.pack : Parents[c] \subseteq local'.objects \cup fetch.pack BY DEF FetchOK, Grows
  <2> QED BY <1>0, <2>2, <2>3, <2>4, <2>5, <2>6 DEF FetchOK, FetchAts
<1> QED BY <1>2, <1>3

\* Storing, pruning and the backfill of tags go by the same plan.
LEMMA FetchRest ==
  ASSUME FetchOK, WorldOK, Grows, Prune \/ StoreRef \/ BackfillTags
  PROVE  FetchOK'
<1>0. DOMAIN fetch = FetchFields BY DEF FetchOK
<1>1. ASSUME Prune PROVE FetchOK'
  <2>1. /\ DOMAIN fetch' = FetchFields /\ fetch'.map = fetch.map /\ fetch'.adv = fetch.adv
        /\ fetch'.at = "apply" /\ fetch'.pack = fetch.pack /\ fetch'.todo = fetch.map
    BY <1>0, <1>1 DEF Prune, FetchFields
  <2>2. fetch.at = "prune" BY <1>1 DEF Prune
  <2> QED BY <2>1, <2>2, MapHere, FetchApplies DEF FetchOK
<1>2. ASSUME StoreRef PROVE FetchOK'
  <2>1. CASE fetch' = FetchOver BY <2>1, OverFetch
  <2>2. CASE fetch' = [fetch EXCEPT !.at = "apply", !.old = Null]
    <3>1. /\ DOMAIN fetch' = FetchFields /\ fetch'.map = fetch.map /\ fetch'.adv = fetch.adv
          /\ fetch'.at = "apply" /\ fetch'.pack = fetch.pack /\ fetch'.todo = fetch.todo
      BY <1>0, <2>2 DEF FetchFields
    <3>2. fetch.at = "store" BY <1>2 DEF StoreRef
    <3> QED BY <3>1, <3>2, MapHere, FetchApplies DEF FetchOK
  <2> QED BY <1>2, <2>1, <2>2 DEF StoreRef
<1>3. ASSUME BackfillTags PROVE FetchOK'
  <2> DEFINE tags == NonLocalTags(local.objects)
  <2>1. fetch' = [fetch EXCEPT !.backfilled = TRUE, !.todo = tags, !.map = @ \cup tags] /\ fetch.at = "apply"
    BY <1>3 DEF BackfillTags
  <2>2. tags \subseteq Refs /\ \A r \in tags : fetch.adv[r] # Null /\ fetch.adv[r] \in local.objects
    BY DEF NonLocalTags, Refs
  <2> HIDE DEF tags
  <2>3. /\ DOMAIN fetch' = FetchFields /\ fetch'.map = fetch.map \cup tags /\ fetch'.adv = fetch.adv
        /\ fetch'.at = "apply" /\ fetch'.pack = fetch.pack /\ fetch'.todo = tags
    BY <1>0, <2>1 DEF FetchFields
  <2>4. \A r \in fetch'.map : fetch.adv[r] # Null /\ fetch.adv[r] \in local'.objects
    BY <2>1, <2>2, <2>3, MapHere DEF Grows
  <2> QED BY <2>2, <2>3, <2>4, FetchApplies DEF FetchOK
<1> QED BY <1>1, <1>2, <1>3

\* Every step keeps the fetch sound.
LEMMA FetchStepOK ==
  ASSUME TransferIndInv, Next
  PROVE  FetchOK'
<1>1. FetchOK /\ WorldOK /\ Grows BY WorldStep DEF TransferIndInv, WorldOK
<1>2. ASSUME UNCHANGED fetchVars PROVE FetchOK' BY <1>1, <1>2, FetchWaits DEF fetchVars
<1>3. ASSUME UNCHANGED <<pushVars, fetchVars>> \/ UNCHANGED <<worldVars, wire, answers, sent, fetchVars>>
      PROVE  UNCHANGED fetchVars
  BY <1>3
<1>4. ASSUME FetchInner PROVE FetchOK'
  BY <1>1, <1>4, FetchStarts, FetchPlans, FetchReads, FetchRest, OverFetch, Zenon
    DEF FetchInner, WantRefused, LoseFetch
<1>5. ASSUME WriteFetchHead PROVE FetchOK' BY <1>1, <1>5, OverFetch DEF WriteFetchHead
<1> QED BY Steps, <1>1, <1>2, <1>3, <1>4, <1>5, FetchStarts, FetchDownloads, FetchIndexes, FetchRest, Zenon

------------------------------
(* The invariant holds. *)

\* A history has a first commit.
LEMMA FirstCommit ==
  \E c \in Commits : Parents[c] = {}
<1>1. PICK c \in Commits : \A d \in Commits : ~(d < c)
  <2>1. Commits \subseteq Nat /\ Commits # {} BY HistoryAssumption
  <2> QED BY <2>1, LeastNumber
<1>2. \A p \in Parents[c] : p \in Commits /\ p < c BY HistoryAssumption
<1>3. Parents[c] = {} BY <1>1, <1>2
<1> QED BY <1>3

\* Both repositories start in order.
LEMMA WorldStarts ==
  ASSUME Init
  PROVE  WorldOK /\ quiet = FALSE /\ left.pushes \in Nat /\ left.pushes <= MaxPushes
<1> DEFINE first == CHOOSE c \in Commits : Parents[c] = {}
<1>1. first \in Commits /\ Parents[first] = {} BY FirstCommit
<1>2. WorldInit BY DEF Init
<1>3. PICK caps \in Capabilities :
        remote = [refs |-> [r \in Refs |-> IF r \in Branches THEN first ELSE Null],
                  objects |-> {first}, caps |-> caps]
  BY <1>2 DEF WorldInit
<1>4. local = [refs |-> [r \in Refs |-> IF r \in Branches THEN first ELSE Null],
               tracking |-> [b \in Branches |-> first],
               objects |-> {first}, unindexed |-> {}, fetchHead |-> {}]
  BY <1>2 DEF WorldInit
<1>5. /\ log = [b \in Branches |-> <<first>>] /\ since = [b \in Branches |-> 0]
      /\ had = [r \in Refs |-> {remote.refs[r]}] /\ shown = [b \in Branches |-> {first}]
      /\ quiet = FALSE /\ left \in Budgets
  BY <1>2 DEF WorldInit
<1> HIDE DEF first
<1>6. RemoteOK BY <1>1, <1>3 DEF RemoteOK, Closed, Ids
<1>7. LocalOK BY <1>1, <1>4 DEF LocalOK, Closed, Ids
<1>8. log \in [Branches -> Seq(Commits)] /\ since \in [Branches -> Nat] BY <1>1, <1>5
<1>9. had \in [Refs -> SUBSET Ids] /\ \A r \in Refs : remote.refs[r] \in had[r] BY <1>5, <1>6 DEF RemoteOK
<1>10. shown \in [Branches -> SUBSET Ids] BY <1>1, <1>5 DEF Ids
<1>11. \A b \in Branches : local.tracking[b] = first /\ first \in had[b] /\ first \in shown[b]
  BY <1>3, <1>4, <1>5 DEF Refs
<1>12. left \in [work : Nat, others : Nat, pushes : 0 .. MaxPushes, fetches : Nat] /\ MaxPushes \in Nat
  BY <1>5, PushAssumption
<1>13. left \in Lefts BY <1>12 DEF Lefts
<1>14. LogsOK BY <1>8, <1>9, <1>10, <1>11, <1>13 DEF LogsOK
<1> QED BY <1>5, <1>6, <1>7, <1>12, <1>14 DEF WorldOK

\* The inductive invariant holds at the start.
LEMMA TransferInit ==
  Init => TransferIndInv
<1> SUFFICES ASSUME Init
             PROVE  TransferIndInv
  OBVIOUS
<1>1. WorldOK /\ quiet = FALSE /\ left.pushes \in Nat /\ left.pushes <= MaxPushes BY WorldStarts
<1> DEFINE o == CHOOSE o \in PushMenu : TRUE
<1>2. o \in PushMenu BY PushAssumption
<1>3. push = [at |-> "idle", no |-> 0, opts |-> o,
              adv |-> [r \in Refs |-> Null], id |-> [r \in Refs |-> Null],
              lease |-> [r \in Refs |-> Null], pruned |-> {}, verdict |-> [r \in Refs |-> "none"],
              todo |-> {}, failed |-> FALSE, result |-> [r \in Refs |-> "none"]]
  BY DEF Init, PushInit
<1> HIDE DEF o
<1>4. /\ DOMAIN push = PushFields /\ push.at = "idle" /\ push.no = 0 /\ push.opts \in PushMenu
      /\ push.adv = [r \in Refs |-> Null] /\ push.id = [r \in Refs |-> Null] /\ push.todo = {}
      /\ push.verdict = [r \in Refs |-> "none"] /\ push.result = [r \in Refs |-> "none"]
  BY <1>2, <1>3 DEF PushFields
<1>5. PushTypes BY <1>1, <1>4, PushAssumption DEF PushTypes, PushAts, Ids
<1>6. PushOK BY <1>4, <1>5 DEF PushOK, Located
<1>7. WireOK BY DEF Init, PushInit, WireOK
<1>8. AnswersOK
  <2>1. /\ NoAnswer \in [come : BOOLEAN, unpack : BOOLEAN, ok : SUBSET Refs]
        /\ ~NoAnswer.come /\ NoAnswer.ok = {}
    BY DEF NoAnswer
  <2>2. /\ NotSent \in [atomic : BOOLEAN, movers : SUBSET Refs, moved : SUBSET Refs]
        /\ ~NotSent.atomic
    BY DEF NotSent
  <2>3. /\ answers = [n \in 1 .. MaxPushes |-> NoAnswer]
        /\ sent = [n \in 1 .. MaxPushes |-> NotSent]
    BY DEF Init, PushInit
  <2> QED BY <1>4, <2>1, <2>2, <2>3 DEF AnswersOK
<1>9. QuietOK BY <1>1 DEF QuietOK
<1>10. FetchOK
  <2> DEFINE p == CHOOSE p \in FetchMenu : TRUE
             s == CHOOSE r \in Refs : TRUE
  <2>1. fetch = [at |-> "idle", opts |-> p, adv |-> [r \in Refs |-> Null], map |-> {}, pack |-> {},
                 todo |-> {}, ref |-> s, old |-> Null, backfilled |-> FALSE]
    BY DEF Init, FetchInit
  <2> HIDE DEF p, s
  <2>2. /\ DOMAIN fetch = FetchFields /\ fetch.at = "idle" /\ fetch.adv = [r \in Refs |-> Null]
        /\ fetch.map = {} /\ fetch.pack = {} /\ fetch.todo = {}
    BY <2>1 DEF FetchFields
  <2> QED BY <2>2 DEF FetchOK, FetchAts, Ids
<1> QED BY <1>1, <1>6, <1>7, <1>8, <1>9, <1>10 DEF TransferIndInv, WorldOK

\* Every step keeps it.
LEMMA TransferStep ==
  TransferIndInv /\ [Next]_vars => TransferIndInv'
<1> SUFFICES ASSUME TransferIndInv, [Next]_vars
             PROVE  TransferIndInv'
  OBVIOUS
<1>1. CASE Next BY <1>1, WorldStep, PushStepOK, WireStep, QuietStep, FetchStepOK DEF TransferIndInv, WorldOK
<1>2. CASE UNCHANGED vars
  <2>1. UNCHANGED worldVars /\ UNCHANGED pushVars /\ UNCHANGED fetchVars BY <1>2 DEF vars
  <2>2. /\ PushOK /\ WorldOK /\ WireOK /\ AnswersOK /\ QuietOK /\ FetchOK /\ left' \in Lefts
        /\ push' = push /\ UNCHANGED <<wire, answers, sent>> /\ fetch' = fetch /\ left' = left
        /\ UNCHANGED <<remote, local, log, since, had, shown, quiet>>
    BY <2>1 DEF TransferIndInv, WorldOK, LogsOK, worldVars, pushVars, fetchVars
  <2>3. WorldOK' /\ Grows BY <2>2, SameWorld
  <2>4. PushOK' /\ PushMoves BY <2>2, <2>3, PushWaits DEF PushMoves
  <2>5. WireOK' /\ AnswersOK' BY <2>2, <2>3, <2>4, WireKept, AnswersKept
  <2>6. QuietOK' BY <2>2, QuietKept
  <2>7. FetchOK' BY <2>2, <2>3, FetchWaits
  <2> QED BY <2>3, <2>4, <2>5, <2>6, <2>7 DEF TransferIndInv, WorldOK
<1> QED BY <1>1, <1>2

\* The inductive invariant holds in every state.
THEOREM TransferSound == Spec => []TransferIndInv
  BY TransferInit, TransferStep, PTL DEF Spec

------------------------------
(* What follows. *)

\* The repository at every step of a push or a fetch, and after one that died there, is well
\* typed, its refs lead to no missing commit, and its tracking refs are not made up.
THEOREM NothingMissing == Spec => []TransferInv
<1>1. ASSUME TransferIndInv PROVE TransferInv
  <2>1. RemoteOK /\ LocalOK /\ LogsOK /\ PushOK /\ WireOK /\ FetchOK BY <1>1 DEF TransferIndInv
  <2>2. TypeOK BY <2>1 DEF TypeOK, RemoteOK, LocalOK, LogsOK, PushOK, PushTypes, PushAts, WireOK, RequestOK,
      FetchOK, FetchAts
  <2>3. LocalConnected
    <3>1. ({local.refs[r] : r \in Refs} \cup {local.tracking[b] : b \in Branches} \cup local.fetchHead)
            \ {Null} \subseteq local.objects
      BY <2>1 DEF LocalOK
    <3> QED BY <2>1, <3>1, ClosureInClosed DEF LocalOK, LocalConnected
  <2>4. TrackingReal BY <2>1 DEF LogsOK, TrackingReal
  <2> QED BY <2>2, <2>3, <2>4 DEF TransferInv
<1> QED BY <1>1, TransferSound, PTL

\* A pack holds all that the remote lacks of what it is asked to point at.
THEOREM PacksComplete == Spec => []PackSuffices
<1>1. ASSUME TransferIndInv PROVE PackSuffices
  <2> SUFFICES ASSUME NEW q \in wire, NEW r \in DOMAIN q.updates
               PROVE  Closure({q.updates[r].new}) \subseteq remote.objects \cup q.pack
    BY DEF PackSuffices
  <2>1. RequestOK(q) /\ RemoteOK BY <1>1 DEF TransferIndInv, WireOK
  <2> DEFINE S == remote.objects \cup q.pack
  <2>2. S \subseteq Commits /\ Closed(S) BY <2>1 DEF RequestOK, RemoteOK, Closed
  <2>3. {q.updates[r].new} \ {Null} \subseteq S BY <2>1 DEF RequestOK
  <2> HIDE DEF S
  <2>4. Closure({q.updates[r].new}) \subseteq S BY <2>2, <2>3, ClosureInClosed
  <2> QED BY <2>4 DEF S
<1> QED BY <1>1, TransferSound, PTL

\* A push tells what it did, and one that was to be atomic was.
THEOREM ReportsAreTrue == Spec => []OutcomeTrue
<1>1. ASSUME TransferIndInv PROVE OutcomeTrue
  <2>1. PushOK /\ AnswersOK BY <1>1 DEF TransferIndInv
  <2>2. AtomicWhole BY <2>1 DEF AnswersOK, AtomicWhole
  <2>3. ASSUME push.no > 0, NEW r \in Refs
        PROVE  /\ push.result[r] = "ok" => r \in sent[push.no].moved
               /\ push.result[r] = "rejected" => r \notin sent[push.no].moved
    <3>1. push.no \in 1 .. MaxPushes BY <2>1, <2>3, PushAssumption DEF PushOK, PushTypes
    <3>2. answers[push.no].come => answers[push.no].ok = sent[push.no].moved BY <2>1, <3>1 DEF AnswersOK
    <3> QED BY <2>1, <3>2 DEF AnswersOK
  <2> QED BY <2>2, <2>3 DEF OutcomeTrue, ReportTrue
<1> QED BY <1>1, TransferSound, PTL

\* A push that returns while nobody else moved a ref leaves the tracking refs where the
\* remote is.
THEOREM TrackingFollows == Spec => []InStep
<1>1. ASSUME TransferIndInv PROVE InStep
  <2> SUFFICES ASSUME push.at = "done", quiet, NEW b \in Plan \cap Branches,
                      push.verdict[b] = "up-to-date" \/ push.result[b] = "ok"
               PROVE  local.tracking[b] = remote.refs[b]
    BY DEF InStep
  <2>1. PushOK /\ AnswersOK /\ QuietOK /\ b \in Refs BY <1>1 DEF TransferIndInv, Refs
  <2>2. remote.refs[b] = IF b \in answers[push.no].ok THEN push.id[b] ELSE push.adv[b] BY <2>1 DEF QuietOK
  <2>3. CASE push.verdict[b] = "up-to-date"
    <3>1. push.id[b] = push.adv[b] BY <2>1, <2>3 DEF PushOK
    <3>2. local.tracking[b] = push.id[b] BY <2>1, <2>3 DEF QuietOK
    <3> QED BY <2>2, <3>1, <3>2
  <2>4. CASE push.result[b] = "ok"
    <3>1. b \in answers[push.no].ok BY <2>1, <2>4 DEF AnswersOK
    <3>2. local.tracking[b] = push.id[b] BY <2>1, <2>4 DEF QuietOK
    <3> QED BY <2>2, <3>1, <3>2
  <2> QED BY <2>3, <2>4
<1> QED BY <1>1, TransferSound, PTL

\* Only Receive takes a request off the wire.
LEMMA TakenOff ==
  ASSUME TransferIndInv, [Next]_vars, NEW q \in wire \ wire'
  PROVE  Receive(q)
<1>1. CASE UNCHANGED vars BY <1>1 DEF vars, pushVars
<1>2. ASSUME NEW p \in wire, Receive(p) PROVE Receive(q)
  <2>1. q = p BY <1>2 DEF Receive
  <2> QED BY <1>2, <2>1
<1>3. ASSUME Send PROVE wire \subseteq wire' BY <1>3 DEF Send
<1> QED BY <1>1, <1>2, <1>3, MovesOfNext

\* What a push drops from the remote when its request arrives is what its mode allows.
THEOREM OnlyAllowedDrops == Spec => DropsAllowed
<1>1. ASSUME TransferIndInv, [Next]_vars PROVE [OnlyForward /\ LeaseSeen /\ IncludesKept]_vars
  <2>1. ASSUME NEW q \in wire \ wire', NEW r \in MovedBy(q)
        PROVE  /\ r \in Refs /\ Licensed(q.opts, q.pruned, r, remote.refs[r], remote'.refs[r])
               /\ UNCHANGED <<log, shown>>
    <3>1. Receive(q) /\ RemoteOK /\ RequestOK(q) BY <1>1, <2>1, TakenOff DEF TransferIndInv, WireOK
    <3>2. PICK unpack \in BOOLEAN, ok \in SUBSET DOMAIN q.updates : Received(q, unpack, ok)
      BY <3>1, ReceiveEffect
    <3>3. r \in DOMAIN q.updates /\ r \in Refs /\ remote'.refs[r] # remote.refs[r]
      BY <2>1, <3>1 DEF MovedBy, RequestOK
    <3>4. r \in ok /\ remote.refs[r] = q.updates[r].old /\ remote'.refs[r] = q.updates[r].new
      BY <3>2, <3>3 DEF Received
    <3>5. Licensed(q.opts, q.pruned, r, q.updates[r].old, q.updates[r].new) BY <3>1, <3>3 DEF RequestOK
    <3> QED BY <3>1, <3>3, <3>4, <3>5 DEF Receive
  <2>2. OnlyForward BY <2>1 DEF OnlyForward, Licensed, Drops
  <2>3. LeaseSeen BY <2>1 DEF LeaseSeen, Licensed, Drops
  <2>4. IncludesKept
    <3> SUFFICES ASSUME NEW q \in wire \ wire', NEW r \in MovedBy(q) \ q.pruned,
                        q.opts.lease = "auto", q.opts.includes, ~q.opts.force,
                        q.opts.specs[r] # "+", Drops(r)
                 PROVE  \E i \in 1 .. Len(log[r]) : remote.refs[r] \in Ancestors[log[r][i]]
      BY DEF IncludesKept
    <3> QED BY <2>1 DEF Licensed, Drops
  <2> QED BY <2>2, <2>3, <2>4
<1> QED BY <1>1, TransferSound, PTL DEF Spec, DropsAllowed

\* A fetch without `+` only adds to a tracking ref and never moves a tag, unless the ref was
\* moved between its judgement and its update.
THEOREM FetchOnlyAdds == Spec => FetchForward
<1> DEFINE A == fetch.at = "store" /\ fetch'.at = "apply" /\ judged' =>
                  LET r == fetch.ref IN
                  /\ r \in Tags => local.refs[r] = Null
                  /\ r \in Branches /\ local.tracking[r] # Null /\ ~fetch.opts.plus /\ fetch.opts.showForced =>
                       local.tracking[r] \in Ancestors[local'.tracking[r]]
<1>1. ASSUME TransferIndInv, [Next]_vars PROVE [A]_vars
  <2> SUFFICES ASSUME Next, fetch.at = "store", fetch'.at = "apply", judged'
               PROVE  LET r == fetch.ref IN
                      /\ r \in Tags => local.refs[r] = Null
                      /\ r \in Branches /\ local.tracking[r] # Null /\ ~fetch.opts.plus /\ fetch.opts.showForced =>
                           local.tracking[r] \in Ancestors[local'.tracking[r]]
    BY <1>1
  <2>0. FetchOK /\ WorldOK BY <1>1 DEF TransferIndInv, WorldOK
  <2>1. StoreRef
    <3>1. fetch' # fetch OBVIOUS
    <3>2. ~UNCHANGED fetchVars /\ ~UNCHANGED <<pushVars, fetchVars>>
          /\ ~UNCHANGED <<worldVars, wire, answers, sent, fetchVars>>
      BY <3>1 DEF fetchVars
    <3>3. ASSUME fetch' = FetchOver PROVE FALSE
      <4>1. fetch'.at = "idle" BY <2>0, <3>3 DEF FetchOver, FetchOK, FetchFields
      <4> QED BY <4>1
    <3>4. ~FetchInner
      BY <3>3 DEF FetchInner, NegotiateDiscovery, PlanFetch, WantRefused, BackfillTags, LoseFetch, ReadRef
    <3>5. /\ ~(\E o \in FetchMenu : StartFetch(o)) /\ ~Download /\ ~IndexPack /\ ~Prune /\ ~WriteFetchHead
      BY DEF StartFetch, Download, IndexPack, Prune, WriteFetchHead
    <3> QED BY Steps, <3>2, <3>4, <3>5, Zenon
  <2> DEFINE r == fetch.ref
             c == fetch.adv[fetch.ref]
  <2>2. TargetValid(c) /\ judged' = (ValueOf(r) = fetch.old)
    <3>1. fetch' # FetchOver
      <4>1. DOMAIN fetch = FetchFields BY <2>0 DEF FetchOK
      <4>2. FetchOver.at = "idle" BY <4>1 DEF FetchOver, FetchFields
      <4> QED BY <4>2
    <3> QED BY <2>1, <3>1 DEF StoreRef
  <2>3. ValueOf(r) = fetch.old BY <2>2
  <2>4. /\ r \in Refs /\ c \in Ids \ {Null} /\ (fetch.old # Null => r \notin Tags)
        /\ fetch.old # Null /\ ~fetch.opts.plus /\ fetch.opts.showForced => fetch.old \in Ancestors[c]
    BY <2>0 DEF FetchOK
  <2>5. r \in Tags => local.refs[r] = Null BY <2>3, <2>4, HistoryAssumption DEF ValueOf
  <2>6. ASSUME r \in Branches PROVE local.tracking[r] = fetch.old /\ local'.tracking[r] = c
    <3>1. Track(r, c) BY <2>1, <2>2, <2>6 DEF StoreRef
    <3>2. Retracked({r}, c) BY <2>0, <2>4, <2>6, <3>1, TrackEffect DEF WorldOK
    <3> QED BY <2>3, <2>6, <3>2, RetrackedValues DEF ValueOf
  <2> QED BY <2>4, <2>5, <2>6
<1> QED BY <1>1, TransferSound, PTL DEF Spec, FetchForward

=============================================================================
