----------------------------- MODULE ObjectLookup -----------------------------
(* Reading objects in one session while another process writes objects and runs *)
(* gc. A session remembers much of the store: one listing of the pack directory *)
(* (the generation), the index and the header of every pack it has used, an     *)
(* open handle on it, and the listing of a loose fan-out directory. A read that *)
(* finds nothing re-lists the pack directory, drops the loose listing and tries *)
(* once more; reads that miss at the same time share one re-listing.            *)
(*                                                                              *)
(* Every object has the same fan-out prefix. Each await is a step of its own.   *)
(* Left out: alternates, the multi-pack index, delta chains and the delta cache.*)
EXTENDS GcPipeline

CONSTANTS
  Readers,   \* the concurrent reads of the session
  Wanted,    \* the objects they read
  MaxReads   \* how many reads start

ASSUME WantedAssumption == Wanted \subseteq Objects

VARIABLES
  scan,      \* the generation memo: where its listing stands, and what it lists
  known,     \* the pack instances' memos: index read, header read, instance retired
  fan,       \* the loose listing: None or <<the ids it has>>
  wave,      \* the re-listing in flight: None or <<the reads that wait for it>>
  reader,    \* [read -> where it is, and its locals; `there` and `late` are history
  reads      \* how many reads have started

lookupVars == <<scan, known, fan, wave, reader, reads>>
None == <<>>

NoRead == [pc |-> "idle", id |-> {}, left |-> {}, hit |-> {}, dir |-> {}, again |-> FALSE, there |-> FALSE, late |-> FALSE]

-----------------------------------------------------------------------------
(* The pack registry. *)

\* createPromiseMemo: the first caller starts the scan, the others wait for it.
\* Its readdir sees the directory at one moment and is delivered at a later one.
SeeDirectory ==
  /\ scan.state = "asked"
  /\ scan' = [scan EXCEPT !.state = "seen", !.seen = {p \in Names : Present(p)}]
  /\ UNCHANGED <<known, fan, wave, reader, reads>>

\* A mutant of DeliverScan: the reads that joined after the re-listing was asked
\* for are not woken.
DeliverToFirst ==
  /\ scan.state = "seen"
  /\ scan' = [state |-> "ready", listed |-> scan.seen, seen |-> {}]
  /\ wave' = None /\ fan' = None
  /\ reader' = [r \in Readers |-> IF wave # None /\ wave[1] = {r} THEN [reader[r] EXCEPT !.pc = "generation"]
                                  ELSE reader[r]]
  /\ UNCHANGED <<known, reads>>

\* scanPacks, and when the scan belongs to a re-listing the rest of reprepare
\* and of rescanOnFullMiss: an instance is reused by name, the vanished ones are
\* closed, the loose listing is forgotten and every read that joined goes on.
DeliverScan ==
  /\ scan.state = "seen"
  /\ scan' = [state |-> "ready", listed |-> scan.seen, seen |-> {}]
  /\ LET reused == scan.listed \cap scan.seen
     IN known' = [index |-> known.index \cap reused, header |-> known.header \cap reused,
                  retired |-> (known.retired \ scan.seen) \cup (scan.listed \ scan.seen)]
  /\ wave' = None
  /\ fan' = IF wave = None THEN fan ELSE None
  /\ reader' = [r \in Readers |->
                  IF wave # None /\ r \in wave[1] THEN [reader[r] EXCEPT !.pc = "generation"]
                  ELSE [reader[r] EXCEPT !.late = @ \/ (reader[r].pc \in {"header", "chain"}
                                                       /\ reader[r].hit \in scan.listed \ scan.seen)]]
  /\ UNCHANGED reads

-----------------------------------------------------------------------------
(* One read. *)

StartRead(r, o) ==
  /\ reader[r].pc = "idle" /\ reads < MaxReads
  /\ reader' = [reader EXCEPT ![r] = [NoRead EXCEPT !.pc = "generation", !.id = {o}, !.there = Readable(o)]]
  /\ scan' = IF scan.state = "none" THEN [scan EXCEPT !.state = "asked"] ELSE scan
  /\ reads' = reads + 1
  /\ UNCHANGED <<known, fan, wave>>

\* lookup: the packs of the current generation, as soon as there is one.
TakeGeneration(r) ==
  /\ reader[r].pc = "generation" /\ scan.state = "ready"
  /\ reader' = [reader EXCEPT ![r].pc = "index", ![r].left = scan.listed]
  /\ UNCHANGED <<scan, known, fan, wave, reads>>

\* unclaimedIndexOrSkip: a pack whose index cannot be read any more is skipped.
ReadIndex(r, p) ==
  /\ reader[r].pc = "index" /\ p \in reader[r].left
  /\ LET readable == p \in known.index \/ packs[p].idx
     IN /\ known' = IF readable THEN [known EXCEPT !.index = @ \cup {p}] ELSE known
        /\ reader' = [reader EXCEPT ![r].left = @ \ {p},
                                    ![r].pc = IF readable /\ reader[r].id \subseteq p THEN "header" ELSE "index",
                                    ![r].hit = IF readable /\ reader[r].id \subseteq p THEN p ELSE {}]
  /\ UNCHANGED <<scan, fan, wave, reads>>

\* probeHeader: the pack is opened and its header read, once; a pack that is
\* gone is skipped.
ProbeHeader(r) ==
  /\ reader[r].pc = "header"
  /\ LET p == reader[r].hit
         usable == p \in known.header \/ packs[p].pack # 0
     IN /\ known' = IF usable THEN [known EXCEPT !.header = @ \cup {p}] ELSE known
        /\ reader' = [reader EXCEPT ![r].pc = IF usable THEN "chain" ELSE "index"]
  /\ UNCHANGED <<scan, fan, wave, reads>>

\* resolveFromPackHit: by the open handle, which outlives the file; once the
\* instance has been retired by its path, which does not.
ReadPacked(r) ==
  /\ reader[r].pc = "chain"
  /\ reader' = [reader EXCEPT ![r].pc = IF reader[r].hit \in known.retired /\ packs[reader[r].hit].pack = 0
                                        THEN "failed" ELSE "found"]
  /\ UNCHANGED <<scan, known, fan, wave, reads>>

\* A mutant of Miss: the second look is left out.
MissAtOnce(r, others) ==
  /\ reader' = [others EXCEPT ![r].pc = "missing"]
  /\ UNCHANGED <<scan, wave>>

\* retryOnceAfterRescan and rescanOnFullMiss: the first miss starts a re-listing
\* or joins the one in flight, which may have seen the directory already; the
\* second is final. `others` is what becomes of the other reads.
Miss(r, others) ==
  IF reader[r].again
  THEN reader' = [others EXCEPT ![r].pc = "missing"] /\ UNCHANGED <<scan, wave>>
  ELSE /\ reader' = [others EXCEPT ![r].pc = "waiting", ![r].again = TRUE,
                                   ![r].late = wave # None /\ scan.state = "seen"]
       /\ wave' = IF wave = None THEN <<{r}>> ELSE <<wave[1] \cup {r}>>
       /\ scan' = IF wave = None THEN [scan EXCEPT !.state = "asked"] ELSE scan

\* loadFanoutSet: the cached listing, or a readdir.
ProbeLoose(r) ==
  /\ reader[r].pc = "index" /\ reader[r].left = {}
  /\ IF fan = None
     THEN /\ reader' = [reader EXCEPT ![r].pc = "fill", ![r].dir = {o \in Objects : loose[o] # 0}]
          /\ UNCHANGED <<scan, wave>>
     ELSE IF reader[r].id \subseteq fan[1]
     THEN reader' = [reader EXCEPT ![r].pc = "loose"] /\ UNCHANGED <<scan, wave>>
     ELSE Miss(r, reader)
  /\ UNCHANGED <<known, fan, reads>>

\* loadFanoutSet after its readdir: the listing is cached, however old it is. A
\* read that had it dropped to look again then meets the old one.
FillFanout(r) ==
  /\ reader[r].pc = "fill"
  /\ fan' = <<reader[r].dir>>
  /\ LET stale == {s \in Readers \ {r} : /\ reader[s].again /\ reader[s].pc # "waiting"
                                         /\ ~(reader[s].id \subseteq reader[r].dir)}
         others == [s \in Readers |-> [reader[s] EXCEPT !.late = @ \/ s \in stale]]
     IN IF reader[r].id \subseteq reader[r].dir
        THEN reader' = [others EXCEPT ![r].pc = "loose"] /\ UNCHANGED <<scan, wave>>
        ELSE Miss(r, others)
  /\ UNCHANGED <<known, reads>>

\* readLooseCompressed: a file that is gone takes the cached listing with it.
ReadLoose(r) ==
  /\ reader[r].pc = "loose"
  /\ IF \E o \in reader[r].id : loose[o] # 0
     THEN reader' = [reader EXCEPT ![r].pc = "found"] /\ UNCHANGED <<scan, wave, fan>>
     ELSE fan' = None /\ Miss(r, reader)
  /\ UNCHANGED <<known, reads>>

EndRead(r) ==
  /\ reader[r].pc \in {"found", "missing", "failed"}
  /\ reader' = [reader EXCEPT ![r] = NoRead]
  /\ UNCHANGED <<scan, known, fan, wave, reads>>

-----------------------------------------------------------------------------
(* The session beside gc and a writer of another process. *)

LookupInit ==
  /\ Init /\ refs \in {{}, {o \in Objects : Readable(o)}}
  /\ scan = [state |-> "none", listed |-> {}, seen |-> {}]
  /\ known = [index |-> {}, header |-> {}, retired |-> {}]
  /\ fan = None /\ wave = None /\ reads = 0
  /\ reader = [r \in Readers |-> NoRead]

ReadStep(r) ==
  \/ \E o \in Wanted : StartRead(r, o)
  \/ \E p \in Names : ReadIndex(r, p)
  \/ TakeGeneration(r) \/ ProbeHeader(r) \/ ReadPacked(r)
  \/ ProbeLoose(r) \/ FillFanout(r) \/ ReadLoose(r) \/ EndRead(r)

SessionStep == SeeDirectory \/ DeliverScan \/ \E r \in Readers : ReadStep(r)

OthersStep == GcStep \/ \E o \in Objects : WriteObject(o)

LookupNext == (OthersStep /\ UNCHANGED lookupVars) \/ (SessionStep /\ UNCHANGED vars)

LookupSpec == LookupInit /\ [][LookupNext]_<<vars, lookupVars>>

-----------------------------------------------------------------------------
(* Properties. *)

ReadPcs == {"idle", "generation", "index", "header", "chain", "fill", "loose", "waiting", "found", "missing", "failed"}

\* Every variable of the session has its type.
LookupTypeOK ==
  /\ scan \in [state : {"none", "asked", "seen", "ready"}, listed : SUBSET Names, seen : SUBSET Names]
  /\ known \in [index : SUBSET Names, header : SUBSET Names, retired : SUBSET Names]
  /\ fan = None \/ fan[1] \subseteq Objects
  /\ reader \in [Readers -> [pc : ReadPcs, id : SUBSET Objects, left : SUBSET Names, hit : SUBSET Objects,
                             dir : SUBSET Objects, again : BOOLEAN, there : BOOLEAN, late : BOOLEAN]]

\* A read of an object that is in the store the whole time finds it, however one
\* gc moves it between its loose file and packs meanwhile (resolveObjectContent).
\* It looks again once, so a second gc may replace what the second look listed:
\* the property is about MaxEvents = 1.
\* Excepted is a read that joined a re-listing which had seen the directory
\* before the read missed, whose pack another read's re-listing retired, or that
\* another read gave its own old loose listing.
ReadFinds == \A r \in Readers : (reader[r].there /\ reader[r].pc \in {"missing", "failed"}) => reader[r].late

\* No read is stranded: one that waits for a generation or a re-listing waits for
\* a scan that is under way, and is among those it will wake (createPromiseMemo,
\* rescanOnFullMiss). Every other step of a read needs nobody else.
NobodyStranded ==
  /\ {r \in Readers : reader[r].pc = "waiting"} = IF wave = None THEN {} ELSE wave[1]
  /\ wave # None => scan.state \in {"asked", "seen"}
  /\ (\E r \in Readers : reader[r].pc = "generation") => scan.state # "none"

\* The session's caches and waiting reads at every moment: well typed, and nobody
\* waits for what will not come.
LookupInv == LookupTypeOK /\ NobodyStranded
=============================================================================
