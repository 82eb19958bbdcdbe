--------------------------------- MODULE Push ---------------------------------
(* push: ask the remote for its refs, look up what each refspec would send, judge *)
(* it against the lease and the local history, run the pre-push hook, send the    *)
(* commands with a pack, and let the tracking refs follow what the remote says it *)
(* accepted. Between any two of these the remote, the user and a fetch may act;   *)
(* the request and the answer may be lost, and a request outlives its sender.     *)
(*                                                                                *)
(* Left out: signing, `.have` lines, and a receiver that rewrites what it was     *)
(* sent (report-status-v2 option lines).                                          *)
EXTENDS Remote

CONSTANTS
  PushMenu,    \* the option sets a push is called with
  MaxPushes    \* as many as any budget allows

ASSUME PushAssumption ==
  /\ PushMenu # {} /\ \A o \in PushMenu : DOMAIN o.specs \subseteq Refs /\ o.atomic \in BOOLEAN
  /\ MaxPushes \in Nat
  /\ Budgets \subseteq [work : Nat, others : Nat, pushes : 0 .. MaxPushes, fetches : Nat]

VARIABLES
  push,      \* the call under way
  wire,      \* requests the remote has not handled
  answers,   \* [push number -> the remote's report, or none yet]
  sent       \* history: [push number -> what it asked for and what the remote moved]

pushVars == <<push, wire, answers, sent>>

NoAnswer == [come |-> FALSE, unpack |-> FALSE, ok |-> {}]
NotSent == [atomic |-> FALSE, movers |-> {}, moved |-> {}]

PushInit ==
  /\ push = [at |-> "idle", no |-> 0, opts |-> CHOOSE o \in PushMenu : TRUE,
             adv |-> [r \in Refs |-> Null], id |-> [r \in Refs |-> Null],
             lease |-> [r \in Refs |-> Null], pruned |-> {}, verdict |-> [r \in Refs |-> "none"],
             todo |-> {}, failed |-> FALSE, result |-> [r \in Refs |-> "none"]]
  /\ wire = {}
  /\ answers = [n \in 1 .. MaxPushes |-> NoAnswer]
  /\ sent = [n \in 1 .. MaxPushes |-> NotSent]

\* The refspecs: which refs, and which of them are deletes.
Plan == DOMAIN push.opts.specs
Deletes(r) == push.opts.specs[r] = "delete"
Forces(r) == push.opts.force \/ push.opts.specs[r] = "+"

Over == [push EXCEPT !.at = "idle", !.adv = [r \in Refs |-> Null], !.id = [r \in Refs |-> Null],
                     !.lease = [r \in Refs |-> Null], !.verdict = [r \in Refs |-> "none"],
                     !.pruned = {}, !.todo = {}, !.failed = FALSE]

\* discoverReceivePackRefs.
Discover(o) ==
  /\ push.at = "idle" /\ left.pushes > 0
  /\ push' = [push EXCEPT !.at = "adv", !.no = @ + 1, !.opts = o, !.adv = remote.refs,
                          !.result = [r \in Refs |-> "none"]]
  /\ quiet' = TRUE
  /\ left' = [left EXCEPT !.pushes = @ - 1]
  /\ UNCHANGED <<remote, local, log, since, had, shown, wire, answers, sent>>

\* locateRefspec: a source that does not resolve ends the push.
Locate ==
  /\ push.at = "adv"
  /\ IF \E r \in Plan : ~Deletes(r) /\ local.refs[r] = Null
       THEN push' = Over
       ELSE push' = [push EXCEPT !.at = "located",
                                 !.id = [r \in Refs |-> IF r \in Plan /\ ~Deletes(r)
                                                          THEN local.refs[r] ELSE Null]]
  /\ UNCHANGED <<worldVars, wire, answers, sent>>

-----------------------------------------------------------------------------
(* Judging. *)

UpToDate(r) == ~Deletes(r) /\ push.id[r] = push.adv[r]

\* resolveLease and trackedValue: an automatic lease on a ref nothing tracks expects it absent.
TrackedValue(r) == IF r \in Branches THEN local.tracking[r] ELSE Null

ReadLease ==
  /\ push.at = "located"
  /\ push' = [push EXCEPT !.at = "leased",
                          !.lease = [r \in Refs |-> IF push.opts.lease = "auto"
                                                      THEN TrackedValue(r) ELSE push.opts.expect]]
  /\ UNCHANGED <<worldVars, wire, answers, sent>>

Leased == push.opts.lease # "none"

\* reachableInReflog: the entries since the tracking ref moved, and the last one before.
ReachableInReflog(r, tip) ==
  \E i \in 1 .. Len(log[r]) : i >= since[r] /\ tip \in Ancestors[log[r][i]]

UpdatedSinceCheckout(r) ==
  /\ push.opts.lease = "auto" /\ push.opts.includes
  /\ TrackedValue(r) # Null
  /\ ~(push.adv[r] \in local.objects /\ ReachableInReflog(r, push.adv[r]))

JudgeLease(r) ==
  IF ~Leased THEN "none"
  ELSE IF push.lease[r] # push.adv[r] THEN "stale-info"
  ELSE IF UpdatedSinceCheckout(r) THEN "remote-ref-updated" ELSE "none"

\* measureUpdate and rejectionOf.
MeasureUpdate(r) ==
  IF Deletes(r) \/ push.adv[r] = Null THEN "none"
  ELSE IF r \in Tags THEN "already-exists"
  ELSE IF push.adv[r] \notin local.objects THEN "fetch-first"
  ELSE IF push.adv[r] \in Ancestors[push.id[r]] THEN "none" ELSE "non-fast-forward"

Rejection(r) == IF JudgeLease(r) # "none" THEN JudgeLease(r) ELSE MeasureUpdate(r)
Forced(r) == (Leased /\ JudgeLease(r) = "none") \/ Forces(r)

Verdict(r) ==
  IF UpToDate(r) THEN "up-to-date"
  ELSE IF Rejection(r) = "none" THEN "ok"
  ELSE IF Forced(r) THEN "forced" ELSE "rejected"

Judge ==
  /\ push.at = "leased"
  /\ push' = [push EXCEPT !.at = "judged",
                          !.verdict = [r \in Refs |-> IF r \in Plan THEN Verdict(r) ELSE "none"],
                          !.pruned = {r \in Refs : push.lease[r] # TrackedValue(r) /\ TrackedValue(r) = Null}]
  /\ UNCHANGED <<worldVars, wire, answers, sent>>

-----------------------------------------------------------------------------
(* Sending. *)

Movers == {r \in Plan : push.verdict[r] # "up-to-date"}
Going(r) == push.verdict[r] \in {"ok", "forced"} /\ (Deletes(r) => remote.caps.deletes)

\* settleBeforeSending: one rejected ref fails an atomic push as a whole.
AcceptedAnyway == {r \in Movers : Going(r)}
Accepted ==
  IF push.opts.atomic /\ \E r \in Movers : ~Going(r) THEN {} ELSE {r \in Movers : Going(r)}

\* Mutant: the remote is taken to have what the tracking refs name.
PackSinceTracking ==
  Closure({push.id[r] : r \in Movers}) \ Closure({local.tracking[b] : b \in Branches})

\* sendPackFeed and collectObjects: what the movers bring, without what the remote
\* advertised and the repository holds.
Pack ==
  IF \A r \in Accepted : Deletes(r) THEN {}
  ELSE Closure({push.id[r] : r \in Movers})
         \ Closure({push.adv[r] : r \in Refs} \cap local.objects)

\* Mutant: the remote is asked to move the ref from wherever it is.
ToRefUpdateNow(r) == [old |-> remote.refs[r], new |-> push.id[r]]

\* toRefUpdate: the remote is asked to move the ref from the value it advertised.
ToRefUpdate(r) == [old |-> push.adv[r], new |-> push.id[r]]

CapabilityOptIns == push.opts.atomic

\* Nothing to move; a hook or an atomic push the remote cannot take ends it.
NothingMoves ==
  /\ push.at = "judged" /\ Movers = {}
  /\ push' = [push EXCEPT !.at = "refresh", !.todo = Plan]
  /\ UNCHANGED <<worldVars, wire, answers, sent>>

PushRefused ==
  /\ push.at = "judged" /\ Movers # {}
  /\ push.opts.hook \/ (push.opts.atomic /\ ~remote.caps.atomic)
  /\ push' = Over
  /\ UNCHANGED <<worldVars, wire, answers, sent>>

Send ==
  /\ push.at = "judged" /\ Movers # {}
  /\ push.opts.atomic => remote.caps.atomic
  /\ sent' = [sent EXCEPT ![push.no] = [atomic |-> push.opts.atomic, movers |-> Movers, moved |-> {}]]
  /\ IF Accepted = {}
       THEN /\ push' = [push EXCEPT !.at = "report", !.todo = Movers]
            /\ answers' = [answers EXCEPT ![push.no] = [come |-> TRUE, unpack |-> TRUE, ok |-> {}]]
            /\ UNCHANGED wire
       ELSE /\ push' = [push EXCEPT !.at = "sent", !.todo = Movers]
            /\ wire' = wire \cup {[no |-> push.no, pack |-> Pack, atomic |-> CapabilityOptIns,
                                   opts |-> push.opts, pruned |-> push.pruned,
                                   updates |-> [r \in Accepted |-> ToRefUpdate(r)]]}
            /\ UNCHANGED answers
  /\ UNCHANGED worldVars

\* receive-pack at the remote: the pack is unpacked or not; then each ref moves if it still
\* has the value the command names and no hook declines it, all or none when asked.
Receive(q) ==
  /\ q \in wire
  /\ \E unpack \in BOOLEAN, willing \in SUBSET DOMAIN q.updates :
       LET can == {r \in willing : unpack /\ remote.refs[r] = q.updates[r].old}
           ok == IF q.atomic /\ can # DOMAIN q.updates THEN {} ELSE can
           at(r) == IF r \in ok THEN q.updates[r].new ELSE remote.refs[r]
       IN /\ ~unpack => willing = {}
          /\ remote' = [remote EXCEPT !.refs = [r \in Refs |-> at(r)],
                                      !.objects = IF unpack THEN @ \cup q.pack ELSE @]
          /\ had' = [r \in Refs |-> had[r] \cup {at(r)}]
          /\ answers' = [answers EXCEPT ![q.no] = [come |-> TRUE, unpack |-> unpack, ok |-> ok]]
          /\ sent' = [sent EXCEPT ![q.no].moved = ok]
  /\ wire' = wire \ {q}
  /\ quiet' = (quiet /\ q.no = push.no)
  /\ UNCHANGED <<local, log, since, shown, left, push>>

-----------------------------------------------------------------------------
(* The answer. *)

\* parseReceiveResponse: a pack the remote could not unpack rejects the push, once the
\* up-to-date tracking refs are refreshed.
ReadAnswer ==
  /\ push.at = "sent" /\ answers[push.no].come
  /\ push' = [push EXCEPT !.at = IF answers[push.no].unpack THEN "report" ELSE "refresh",
                          !.todo = IF answers[push.no].unpack THEN @ ELSE Plan,
                          !.failed = ~answers[push.no].unpack]
  /\ UNCHANGED <<worldVars, wire, answers, sent>>

\* updateTrackingRef.
Follow(r, c) ==
  IF r \notin Branches THEN UNCHANGED <<local, since, shown>>
  ELSE IF c = Null THEN Untrack({r}) ELSE Track(r, c)

\* Mutant: what was not refused here is reported ok.
SaysOkUnlessRefused(r) == push.verdict[r] \in {"ok", "forced"}

\* reportRef: the local verdict, else the remote's last word on the ref.
SaysOk(r) == r \in answers[push.no].ok

ReportRef(r) ==
  /\ push.at = "report" /\ r \in push.todo
  /\ IF SaysOk(r)
       THEN /\ Follow(r, push.id[r])
            /\ push' = [push EXCEPT !.todo = @ \ {r}, !.result[r] = "ok"]
       ELSE /\ push' = [push EXCEPT !.todo = @ \ {r}, !.result[r] = "rejected"]
            /\ UNCHANGED <<local, since, shown>>
  /\ UNCHANGED <<remote, log, had, quiet, left, wire, answers, sent>>

Reported ==
  /\ push.at = "report" /\ push.todo = {}
  /\ push' = [push EXCEPT !.at = "refresh", !.todo = Plan]
  /\ UNCHANGED <<worldVars, wire, answers, sent>>

\* Mutant: an up-to-date ref does not refresh its tracking ref.
RefreshesNever(r) == FALSE

\* updateUpToDateTracking.
Refreshes(r) == push.verdict[r] = "up-to-date"

RefreshRef(r) ==
  /\ push.at = "refresh" /\ r \in push.todo
  /\ IF Refreshes(r) THEN Follow(r, push.id[r]) ELSE UNCHANGED <<local, since, shown>>
  /\ push' = [push EXCEPT !.todo = @ \ {r}]
  /\ UNCHANGED <<remote, log, had, quiet, left, wire, answers, sent>>

EndPush ==
  /\ push.at = "refresh" /\ push.todo = {}
  /\ push' = IF push.failed THEN Over ELSE [push EXCEPT !.at = "done"]
  /\ UNCHANGED <<worldVars, wire, answers, sent>>

\* The caller has its result.
ForgetPush ==
  /\ push.at = "done"
  /\ push' = Over
  /\ UNCHANGED <<worldVars, wire, answers, sent>>

\* The process dies, or the connection does; what it sent stays sent.
LosePush ==
  /\ push.at \notin {"idle", "done"}
  /\ push' = Over
  /\ UNCHANGED <<worldVars, wire, answers, sent>>

PushStep ==
  \/ \E o \in PushMenu : Discover(o)
  \/ Locate \/ ReadLease \/ Judge \/ NothingMoves \/ PushRefused \/ Send
  \/ \E q \in wire : Receive(q)
  \/ ReadAnswer
  \/ \E r \in Refs : ReportRef(r) \/ RefreshRef(r)
  \/ Reported \/ EndPush \/ ForgetPush \/ LosePush
=============================================================================
