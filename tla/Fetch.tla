-------------------------------- MODULE Fetch ---------------------------------
(* fetch: empty FETCH_HEAD, ask the remote for its refs, map them, download what  *)
(* is not here, and only then prune, move the tracking refs, follow the tags and  *)
(* write FETCH_HEAD. The pack is renamed into place before its index is written,  *)
(* so a crash leaves one that nothing can read; a ref is read, judged and then    *)
(* stored by an update that expects nothing.                                      *)
(*                                                                                *)
(* The refspec is the remote's own, without refspecs of the caller. Left out:     *)
(* shallow and filtered fetches, the remote's HEAD, and the merge marks of        *)
(* FETCH_HEAD.                                                                    *)
EXTENDS Remote

CONSTANTS
  FetchMenu    \* prune, the refspec's `+`, fetch.showForcedUpdates

VARIABLES
  fetch,    \* the call under way
  judged    \* history: the ref stored has the value it was judged by

fetchVars == <<fetch, judged>>

FetchInit ==
  /\ fetch = [at |-> "idle", opts |-> CHOOSE o \in FetchMenu : TRUE,
              adv |-> [r \in Refs |-> Null], map |-> {}, pack |-> {}, todo |-> {},
              ref |-> CHOOSE r \in Refs : TRUE, old |-> Null, backfilled |-> FALSE]
  /\ judged = TRUE

FetchOver == [fetch EXCEPT !.at = "idle", !.adv = [r \in Refs |-> Null], !.map = {}, !.pack = {},
                           !.todo = {}, !.old = Null, !.backfilled = FALSE]

\* writeFetchHead('') comes before anything else.
StartFetch(o) ==
  /\ fetch.at = "idle" /\ left.fetches > 0
  /\ fetch' = [fetch EXCEPT !.at = "begun", !.opts = o]
  /\ local' = [local EXCEPT !.fetchHead = {}]
  /\ left' = [left EXCEPT !.fetches = @ - 1]
  /\ UNCHANGED <<remote, log, since, had, shown, quiet, judged>>

NegotiateDiscovery ==
  /\ fetch.at = "begun"
  /\ fetch' = [fetch EXCEPT !.at = "adv", !.adv = remote.refs]
  /\ UNCHANGED <<worldVars, judged>>

\* getRefMap: every branch, and the tags missing here whose object is fetched or here.
Heads == {b \in Branches : fetch.adv[b] # Null}
NonLocalTags(objects) ==
  {t \in Tags : fetch.adv[t] # Null /\ local.refs[t] = Null /\ fetch.adv[t] \in objects}
Wants(map) == {fetch.adv[r] : r \in map}

\* planFetch, and skipsUploadPack when everything is here.
PlanFetch ==
  /\ fetch.at = "adv"
  /\ LET map == Heads \cup NonLocalTags(local.objects \cup Wants(Heads)) IN
     fetch' = [fetch EXCEPT !.map = map,
                            !.at = IF Wants(map) \subseteq local.objects THEN "prune" ELSE "want"]
  /\ UNCHANGED <<worldVars, judged>>

\* Mutant: packs that have no index yet count as had.
DeriveHavesUnindexed ==
  Closure({local.refs[r] : r \in Refs} \cup {local.tracking[b] : b \in Branches})
    \cup UNION local.unindexed

\* deriveHaves: the tips of every ref and what they reach.
DeriveHaves == Closure({local.refs[r] : r \in Refs} \cup {local.tracking[b] : b \in Branches})

\* upload-pack at the remote: what is wanted, without what both have; an object it has lost
\* ends the fetch. The pack is received aside and renamed into place.
Download ==
  /\ fetch.at = "want" /\ Wants(fetch.map) \subseteq remote.objects
  /\ LET pack == Closure(Wants(fetch.map)) \ Closure(DeriveHaves \cap remote.objects) IN
     /\ fetch' = [fetch EXCEPT !.at = "index", !.pack = pack]
     /\ local' = [local EXCEPT !.unindexed = IF pack = {} THEN @ ELSE @ \cup {pack}]
  /\ UNCHANGED <<remote, log, since, had, shown, quiet, left, judged>>

WantRefused ==
  /\ fetch.at = "want" /\ ~(Wants(fetch.map) \subseteq remote.objects)
  /\ fetch' = FetchOver
  /\ UNCHANGED <<worldVars, judged>>

\* writePackSiblingArtifacts, for a pack that an earlier fetch left in place too.
IndexPack ==
  /\ fetch.at = "index"
  /\ local' = [local EXCEPT !.objects = @ \cup fetch.pack, !.unindexed = @ \ {fetch.pack}]
  /\ fetch' = [fetch EXCEPT !.at = "prune", !.pack = {}]
  /\ UNCHANGED <<remote, log, since, had, shown, quiet, left, judged>>

-----------------------------------------------------------------------------
(* Applying. *)

\* prune: the tracking refs no fetched ref maps to, as they are listed now.
Stale == {b \in Branches : local.tracking[b] # Null /\ b \notin fetch.map}

Prune ==
  /\ fetch.at = "prune"
  /\ IF fetch.opts.prune THEN Untrack(Stale) ELSE UNCHANGED <<local, since, shown>>
  /\ fetch' = [fetch EXCEPT !.at = "apply", !.todo = fetch.map]
  /\ quiet' = (quiet /\ ~(fetch.opts.prune /\ Stale # {}))
  /\ UNCHANGED <<remote, log, had, left, judged>>

ValueOf(r) == IF r \in Branches THEN local.tracking[r] ELSE local.refs[r]

\* Mutant: every update is taken.
JudgeAnyUpdate(r, old) == TRUE

\* judgeUpdate, for a ref that has another value; an auto-followed tag carries no `+`.
MayUpdate(r, old) ==
  IF r \in Tags THEN FALSE
  ELSE \/ ~fetch.opts.showForced
       \/ old \in Ancestors[fetch.adv[r]]
       \/ fetch.opts.plus

\* applyRemoteRef up to its update.
ReadRef(r) ==
  /\ fetch.at = "apply" /\ r \in fetch.todo
  /\ LET old == ValueOf(r) IN
     fetch' = IF old # fetch.adv[r] /\ (old = Null \/ MayUpdate(r, old))
                THEN [fetch EXCEPT !.at = "store", !.ref = r, !.old = old, !.todo = @ \ {r}]
                ELSE [fetch EXCEPT !.todo = @ \ {r}]
  /\ UNCHANGED <<worldVars, judged>>

\* storeUpdate; an object that is not here ends the fetch.
StoreRef ==
  /\ fetch.at = "store"
  /\ IF TargetValid(fetch.adv[fetch.ref])
       THEN /\ IF fetch.ref \in Branches
                 THEN Track(fetch.ref, fetch.adv[fetch.ref])
                 ELSE /\ local' = [local EXCEPT !.refs[fetch.ref] = fetch.adv[fetch.ref]]
                      /\ UNCHANGED <<since, shown>>
            /\ fetch' = [fetch EXCEPT !.at = "apply", !.old = Null]
            /\ judged' = (ValueOf(fetch.ref) = fetch.old)
            /\ quiet' = FALSE
       ELSE /\ fetch' = FetchOver
            /\ UNCHANGED <<local, since, shown, judged, quiet>>
  /\ UNCHANGED <<remote, log, had, left>>

\* backfillTags: once the refs are stored, the tags still missing whose object is here.
BackfillTags ==
  /\ fetch.at = "apply" /\ fetch.todo = {} /\ ~fetch.backfilled
  /\ LET tags == NonLocalTags(local.objects) IN
     fetch' = [fetch EXCEPT !.backfilled = TRUE, !.todo = tags, !.map = @ \cup tags]
  /\ UNCHANGED <<worldVars, judged>>

FetchHeadEntries == Wants(fetch.map)

WriteFetchHead ==
  /\ fetch.at = "apply" /\ fetch.todo = {} /\ fetch.backfilled
  /\ local' = [local EXCEPT !.fetchHead = FetchHeadEntries]
  /\ fetch' = FetchOver
  /\ UNCHANGED <<remote, log, since, had, shown, quiet, left, judged>>

\* The process dies, or the connection does.
LoseFetch ==
  /\ fetch.at # "idle"
  /\ fetch' = FetchOver
  /\ UNCHANGED <<worldVars, judged>>

FetchStep ==
  \/ \E o \in FetchMenu : StartFetch(o)
  \/ NegotiateDiscovery \/ PlanFetch \/ Download \/ WantRefused \/ IndexPack \/ Prune
  \/ \E r \in Refs : ReadRef(r)
  \/ StoreRef \/ BackfillTags \/ WriteFetchHead \/ LoseFetch
=============================================================================
