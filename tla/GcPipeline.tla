------------------------------ MODULE GcPipeline ------------------------------
(* The gc task of `maintenance` beside the writers it shares the object store   *)
(* with. gc copies every reachable object into one normal pack, puts the        *)
(* unreachable ones that are younger than its cutoff into one cruft pack whose  *)
(* .mtimes sidecar carries their ages (or writes them loose when                *)
(* gc.cruftPacks is off), removes the packs these replace, and unlinks the      *)
(* loose files that are packed now or too old. There is no lock: a writer may   *)
(* act between any two of its file operations, and the process may die there.   *)
(*                                                                              *)
(* Packs are built deterministically and named by their checksum, so a pack is  *)
(* named by the set of objects in it. A file that is missing has mtime 0. Each  *)
(* object is kept alive by a reference of its own.                              *)
(*                                                                              *)
(* Left out: promisor packs, alternates, the multi-pack index, .rev and .bitmap *)
(* siblings, and the sweep of temporary files.                                  *)
EXTENDS Naturals, FiniteSets, FiniteSetsExt

CONSTANTS
  Objects,     \* the object ids
  Horizon,     \* the last value of the clock
  Grace,       \* gc.pruneExpire: how long an unreachable object is kept
  CruftModes,  \* the values gc.cruftPacks takes
  Keeps,       \* the sets of packs that may have a .keep file
  MaxEvents    \* how many runs start, writers act and runs are killed, together

ASSUME GraceAssumption == Grace \in Nat \ {0} /\ Horizon \in Nat
ASSUME ModesAssumption == CruftModes \subseteq BOOLEAN

Times == 0 .. Horizon
Names == (SUBSET Objects) \ {{}}

ASSUME StoreAssumption == IsFiniteSet(Objects) /\ Keeps \subseteq SUBSET Names /\ Horizon >= 2

VARIABLES
  loose,    \* [object -> mtime of its loose file]
  packs,    \* [name -> its .idx, .pack and .mtimes files]
  keep,     \* the packs with a .keep file
  refs,     \* the objects references, reflogs and the index reach
  clock,    \* the wall clock, in the granularity of the cutoff
  gc,       \* the running gc: where it is, and its locals
  hot,      \* the packs gc's own session has indexed since the registry was last refreshed
  writer,   \* what the writers' session remembers of the pack directory
  seen,     \* [object -> when it was last written] (a history variable)
  lapsed,   \* objects whose last write gc was never shown (a history variable)
  litter,   \* objects of a sidecar some crash left without its pack (a history variable)
  misled,   \* objects gc meant to leave loose and unlinked for a retired pack (a history variable)
  events    \* how many of the bounded events happened

outside == <<keep, refs, clock, writer>>
history == <<seen, lapsed, litter, misled>>
vars == <<loose, packs, gc, hot, outside, history, events>>

-----------------------------------------------------------------------------
(* The object store. *)

NoAges == [o \in Objects |-> 0]
NoFiles == [idx |-> FALSE, pack |-> 0, ages |-> NoAges]

\* A candidate of the registry's scan: an .idx whose .pack is there.
Present(p) == packs[p].idx /\ packs[p].pack # 0
IsCruft(p) == packs[p].ages # NoAges
Packed(o) == \E p \in Names : o \in p /\ Present(p)
Readable(o) == loose[o] # 0 \/ Packed(o)
KeptObjects == UNION {p \in keep : Present(p)}

\* classifyPackFiles: .keep wins over .mtimes, and the rest are normal packs.
CruftPacks == {p \in Names : Present(p) /\ p \notin keep /\ IsCruft(p)}
NormalPacks == {p \in Names : Present(p) /\ p \notin keep /\ ~IsCruft(p)}

Newest(times) == Max(times \cup {0})

\* What the sidecars of the cruft packs say of an object's age, and the mtimes of
\* the normal packs that hold it.
CarriedAge(o) == Newest({packs[p].ages[o] : p \in {q \in CruftPacks : o \in q}})
NormalAge(o) == Newest({packs[p].pack : p \in {q \in NormalPacks : o \in q}})

\* A mutant of PackedAge: the age a normal pack gives its objects is left out.
PackedAgeOfCruft(o) == CarriedAge(o)

PackedAge(o) == Newest({CarriedAge(o), NormalAge(o)})
RecordedAge(o) == Newest({loose[o], PackedAge(o)})

\* gc's locals; `calm` says that no writer acted since it started, `before` what
\* the store said of each object's age when it did (history variables).
Idle == [pc |-> "idle", cruftPacks |-> FALSE, cutoff |-> 0, loose |-> {}, normal |-> {}, cruft |-> {},
         kept |-> {}, ages |-> NoAges, target |-> {}, candidates |-> {}, survivors |-> {},
         staged |-> [kind |-> "settled", out |-> {}], retiring |-> {}, current |-> {},
         before |-> NoAges, calm |-> TRUE]
Running == gc.pc # "idle"

-----------------------------------------------------------------------------
(* One run of gc. *)

\* takeStoreCensus, the loose half: the registry is refreshed and the loose
\* objects are listed. The cutoff was computed when the settings were read.
StartGc(cruftPacks) ==
  /\ ~Running /\ events < MaxEvents
  /\ gc' = [Idle EXCEPT !.pc = "census", !.cruftPacks = cruftPacks,
                        !.cutoff = IF clock > Grace THEN clock - Grace ELSE 0,
                        !.loose = {o \in Objects : loose[o] # 0},
                        !.before = [o \in Objects |-> RecordedAge(o)]]
  /\ hot' = {} /\ events' = events + 1
  /\ UNCHANGED <<loose, packs, outside, history>>

\* takeStoreCensus, the pack half, and readExistingPacks: the packs are listed
\* and classified, their mtimes and the sidecars' ages read.
ReadExistingPacks ==
  /\ gc.pc = "census"
  /\ gc' = [gc EXCEPT !.pc = "reach", !.normal = NormalPacks, !.cruft = CruftPacks,
                      !.kept = KeptObjects, !.ages = [o \in Objects |-> PackedAge(o)]]
  /\ UNCHANGED <<loose, packs, hot, outside, history, events>>

Owned == gc.loose \cup (UNION gc.normal) \cup (UNION gc.cruft)

\* partitionRepack: what is reachable goes to the normal pack, the rest may be
\* cruft. An object of a kept pack is neither.
PartitionRepack ==
  /\ gc.pc = "reach"
  /\ gc' = [gc EXCEPT !.pc = "age", !.target = (Owned \cap refs) \ gc.kept,
                      !.candidates = (Owned \ refs) \ gc.kept]
  /\ UNCHANGED <<loose, packs, hot, outside, history, events>>

\* computeCruftMtimes: the newest of the loose file, the sidecar and the pack.
CruftMtimes == [o \in Objects |-> Newest({gc.ages[o], IF o \in gc.loose THEN loose[o] ELSE 0})]

\* decideCruftFate, stageCruft and buildFreshCruft: what becomes of the cruft
\* pack, and the pack that is there afterwards ({} for none).
StageCruft(survivors) ==
  IF ~gc.cruftPacks THEN [kind |-> "loosen", out |-> {}]
  ELSE IF \/ Cardinality(gc.cruft) = 1 /\ survivors = UNION gc.cruft
          \/ survivors = {}
          \/ survivors \in gc.cruft
       THEN [kind |-> "settled", out |-> survivors]
       ELSE [kind |-> "fresh", out |-> survivors]

\* The age the staged outcome leaves a survivor with: a settled cruft pack keeps
\* its sidecar, a loosened object the loose file it has.
AgeLeft(staged, o, mtimes) ==
  CASE staged.kind = "settled" -> packs[staged.out].ages[o]
    [] staged.kind = "loosen" /\ o \in gc.loose -> loose[o]
    [] OTHER -> mtimes[o]

\* ageCruftCandidates and buildRepack. A survivor that is going to be left with
\* an age older than the plan's lapses.
AgeCandidates ==
  /\ gc.pc = "age"
  /\ LET mtimes == CruftMtimes
         survivors == {o \in gc.candidates : mtimes[o] > gc.cutoff}
         staged == StageCruft(survivors)
     IN /\ gc' = [gc EXCEPT !.pc = "pack", !.ages = mtimes,
                           !.survivors = survivors, !.staged = staged]
        /\ lapsed' = lapsed \cup {o \in survivors : AgeLeft(staged, o, mtimes) < mtimes[o]}
  /\ UNCHANGED <<loose, packs, hot, seen, litter, misled, outside, events>>

Doomed == gc.candidates \ gc.survivors

\* writePackArtifactsViaQuarantine: the finished files are renamed into place,
\* the .pack and then the .idx, over a pack of the same name if there is one.
AfterNormal == IF gc.staged.kind = "settled" THEN "verify" ELSE gc.staged.kind

InstallPack ==
  /\ gc.pc = "pack"
  /\ IF gc.target = {}
     THEN gc' = [gc EXCEPT !.pc = AfterNormal] /\ UNCHANGED packs
     ELSE /\ gc' = [gc EXCEPT !.pc = "idx"]
          /\ packs' = [packs EXCEPT ![gc.target].pack = clock]
  /\ UNCHANGED <<loose, hot, outside, history, events>>

InstallIdx ==
  /\ gc.pc = "idx"
  /\ packs' = [packs EXCEPT ![gc.target].idx = TRUE]
  /\ gc' = [gc EXCEPT !.pc = AfterNormal]
  /\ UNCHANGED <<loose, hot, outside, history, events>>

\* writeCruftPack: the .pack and the .idx are created, or kept when a pack of
\* the same bytes is there; the sidecar must not exist, or gc fails.
CruftPack ==
  /\ gc.pc = "fresh"
  /\ packs' = [packs EXCEPT ![gc.survivors].pack = IF @ = 0 THEN clock ELSE @]
  /\ gc' = [gc EXCEPT !.pc = "cruftIdx"]
  /\ UNCHANGED <<loose, hot, outside, history, events>>

CruftIdx ==
  /\ gc.pc = "cruftIdx"
  /\ packs' = [packs EXCEPT ![gc.survivors].idx = TRUE]
  /\ gc' = [gc EXCEPT !.pc = "sidecar"]
  /\ UNCHANGED <<loose, hot, outside, history, events>>

Sidecar ==
  /\ gc.pc = "sidecar"
  /\ IF IsCruft(gc.survivors)
     THEN gc' = Idle /\ UNCHANGED packs
     ELSE /\ packs' = [packs EXCEPT ![gc.survivors].ages =
                         [o \in Objects |-> IF o \in gc.survivors THEN gc.ages[o] ELSE 0]]
          /\ gc' = [gc EXCEPT !.pc = "verify"]
  /\ UNCHANGED <<loose, hot, outside, history, events>>

\* loosenIfNotLoose for every survivor: one that had no loose file gets one,
\* stamped with the present.
Loosen ==
  /\ gc.pc = "loosen"
  /\ loose' = [o \in Objects |-> IF o \in gc.survivors \ gc.loose THEN clock ELSE loose[o]]
  /\ gc' = [gc EXCEPT !.pc = "verify"]
  /\ UNCHANGED <<packs, hot, outside, history, events>>

\* verifyPacked: the registry is refreshed and everything that was packed is
\* read back; gc fails, before it has removed anything, when one is missing.
VerifyPacked ==
  /\ gc.pc = "verify"
  /\ hot' = {}
  /\ gc' = IF \A o \in gc.target \cup (IF gc.staged.kind = "fresh" THEN gc.survivors ELSE {}) : Readable(o)
           THEN [gc EXCEPT !.pc = "declassify"] ELSE Idle
  /\ UNCHANGED <<loose, packs, outside, history, events>>

\* A mutant of Superseded: an output that was there before is retired as well.
SupersededAll == gc.normal \cup gc.cruft

\* supersededPacks: every pack of the census that is not an output of this run.
Superseded == (gc.normal \cup gc.cruft) \ {gc.target, gc.staged.out}

\* retireSuperseded: a cruft pack that became the normal pack loses its sidecar,
\* and the superseded packs are to be retired. The registry is refreshed once
\* more when there is any.
Declassify ==
  /\ gc.pc = "declassify"
  /\ packs' = IF gc.target \in gc.cruft THEN [packs EXCEPT ![gc.target].ages = NoAges] ELSE packs
  /\ gc' = [gc EXCEPT !.pc = IF Superseded = {} THEN "prune" ELSE "retireIdx", !.retiring = Superseded]
  /\ hot' = {}
  /\ UNCHANGED <<loose, outside, history, events>>

\* retireSupersededPacks: normal packs before cruft packs, each .idx first.
RetireIdx(p) ==
  /\ gc.pc = "retireIdx" /\ p \in gc.retiring
  /\ p \in gc.cruft => gc.retiring \subseteq gc.cruft
  /\ packs' = [packs EXCEPT ![p].idx = FALSE]
  /\ gc' = [gc EXCEPT !.pc = "retirePack", !.current = p]
  /\ UNCHANGED <<loose, hot, outside, history, events>>

AfterRetiring(p) ==
  [gc EXCEPT !.pc = IF gc.retiring = {p} THEN "prune" ELSE "retireIdx", !.retiring = @ \ {p}, !.current = {}]

RetirePack ==
  /\ gc.pc = "retirePack"
  /\ packs' = [packs EXCEPT ![gc.current].pack = 0]
  /\ gc' = IF gc.current \in gc.cruft THEN [gc EXCEPT !.pc = "retireAges"] ELSE AfterRetiring(gc.current)
  /\ UNCHANGED <<loose, hot, outside, history, events>>

RetireAges ==
  /\ gc.pc = "retireAges"
  /\ packs' = [packs EXCEPT ![gc.current].ages = NoAges]
  /\ gc' = AfterRetiring(gc.current)
  /\ UNCHANGED <<loose, hot, outside, history, events>>

\* Another operation of gc's own session reads a packed object while packs are
\* being retired: the registry lists the directory again and remembers the
\* index and the header of the pack it read from.
ReadInSession(p) ==
  /\ Running /\ gc.pc \in {"retireIdx", "retirePack", "retireAges"}
  /\ Present(p) /\ hot = {}
  /\ hot' = {p}
  /\ UNCHANGED <<loose, packs, gc, outside, history, events>>

\* A mutant of Unlinked: only what expired is unlinked.
UnlinkedExpired == gc.loose \cap Doomed

\* pruneLooseAfterRepack: the loose files of the census that a pack holds, as
\* the registry sees it, and those past the cutoff.
Unlinked == {o \in gc.loose : o \in Doomed \/ Packed(o) \/ \E p \in hot : o \in p}

\* Survivors that were to stay loose, and that the registry takes for packed because it
\* remembers a pack this run has retired (see LooseTwinStays).
Misled ==
  {o \in gc.loose \cap gc.survivors :
     gc.staged.kind = "loosen" /\ ~Packed(o) /\ \E p \in hot : o \in p}

PruneLoose ==
  /\ gc.pc = "prune"
  /\ loose' = [o \in Objects |-> IF o \in Unlinked THEN 0 ELSE loose[o]]
  /\ gc' = [gc EXCEPT !.pc = "done"]
  /\ misled' = misled \cup Misled
  /\ UNCHANGED <<packs, hot, seen, lapsed, litter, outside, events>>

Finish ==
  /\ gc.pc = "done"
  /\ gc' = Idle /\ hot' = {}
  /\ UNCHANGED <<loose, packs, outside, history, events>>

\* The process dies. The objects of a sidecar left without its pack are not
\* aged rightly by whatever pack takes the name next.
Crash ==
  /\ Running /\ gc.pc # "done" /\ events < MaxEvents
  /\ gc' = Idle /\ hot' = {} /\ events' = events + 1
  /\ litter' = litter \cup UNION {p \in Names : IsCruft(p) /\ ~Present(p)}
  /\ UNCHANGED <<loose, packs, seen, lapsed, misled, outside>>

-----------------------------------------------------------------------------
(* The writers. *)

Disturbed == IF Running THEN [gc EXCEPT !.calm = FALSE] ELSE gc

\* gc has read the ages of the packs, and of the loose files.
PacksAged == Running /\ gc.pc # "census"
LooseAged == PacksAged /\ gc.pc \notin {"reach", "age"}
MayBeCruft(o) == IF gc.pc = "reach" THEN o \notin gc.kept ELSE o \in gc.candidates
\* gc has put the object into its normal pack, and stamped that with an earlier time.
Outlived(o) ==
  Running /\ o \in gc.target /\ gc.pc \notin {"age", "pack"} /\ packs[gc.target].pack # clock

\* A session lists the pack directory when it first looks for an object, and
\* keeps the listing.
Listed == [listed |-> {p \in Names : Present(p)}, cruft |-> {p \in Names : IsCruft(p)}, touched |-> {}]

\* freshenPacked: the pack the session's registry finds the object in. A cruft
\* pack is left alone; a normal pack is touched, once per session, and then the
\* object counts as written.
Freshened(w, p) == p \notin w.cruft /\ (p \in w.touched \/ packs[p].pack # 0)

TouchPack(w, o, p) ==
  /\ Freshened(w, p)
  /\ packs' = IF p \in w.touched THEN packs ELSE [packs EXCEPT ![p].pack = clock]
  /\ writer' = [w EXCEPT !.touched = @ \cup {p}]
  /\ lapsed' = IF p \in w.touched \/ ~Present(p) \/ IsCruft(p) \/ (PacksAged /\ MayBeCruft(o)) \/ (p # gc.target /\ Outlived(o))
               THEN lapsed \cup {o} ELSE lapsed \ {o}
  /\ UNCHANGED loose

\* freshenLoose and storeLoose: no pack counts, so the loose file is touched or
\* created.
TouchLoose(w, o) ==
  /\ \A p \in w.listed : o \in p => \E q \in w.listed : o \in q /\ ~Freshened(w, q)
  /\ loose' = [loose EXCEPT ![o] = clock]
  /\ writer' = w
  /\ lapsed' = IF o \in gc.loose /\ (Outlived(o) \/ (LooseAged /\ o \in gc.candidates)) THEN lapsed \cup {o} ELSE lapsed \ {o}
  /\ UNCHANGED packs

\* writeObject, in the session that wrote last or in a new one.
WriteObject(o) ==
  /\ events < MaxEvents /\ events' = events + 1
  /\ \E w \in {writer, Listed} : \/ \E p \in w.listed : o \in p /\ TouchPack(w, o, p)
                                \/ TouchLoose(w, o)
  /\ seen' = [seen EXCEPT ![o] = clock]
  /\ misled' = misled \ {o}
  /\ gc' = Disturbed
  /\ UNCHANGED <<keep, refs, clock, hot, litter>>

\* A reference is moved to an object while the write of it is still young.
UpdateRef(o) ==
  /\ events < MaxEvents /\ events' = events + 1
  /\ o \notin refs /\ seen[o] # 0 /\ clock - seen[o] < Grace
  /\ refs' = refs \cup {o}
  /\ gc' = Disturbed
  /\ UNCHANGED <<loose, packs, keep, clock, hot, writer, history>>

DeleteRef(o) ==
  /\ events < MaxEvents /\ events' = events + 1
  /\ o \in refs /\ refs' = refs \ {o}
  /\ gc' = Disturbed
  /\ UNCHANGED <<loose, packs, keep, clock, hot, writer, history>>

\* Time passes between any two steps.
Tick ==
  /\ clock < Horizon /\ clock' = clock + 1
  /\ UNCHANGED <<loose, packs, keep, refs, gc, hot, writer, history, events>>

-----------------------------------------------------------------------------
(* A store whose last gc, if it ever had one, is long past: some loose objects, *)
(* at most one pack, and the packs somebody keeps. With a kept pack there are    *)
(* two events only.                                                              *)
Init ==
  /\ keep \in Keeps
  /\ \E there \in SUBSET Objects, pack \in Names \cup {{}}, cruft \in BOOLEAN :
       /\ loose = [o \in Objects |-> IF o \in there THEN 1 ELSE 0]
       /\ packs = [p \in Names |->
                    IF p # pack /\ p \notin keep THEN NoFiles
                    ELSE [idx |-> TRUE, pack |-> 1,
                          ages |-> [o \in Objects |-> IF cruft /\ p = pack /\ o \in p THEN 1 ELSE 0]]]
  /\ refs \in SUBSET {o \in Objects : Readable(o)}
  /\ clock = 2 /\ gc = Idle /\ hot = {}
  /\ writer = Listed
  /\ seen = NoAges /\ lapsed = {} /\ litter = {} /\ misled = {}
  /\ events = IF keep = {} THEN 0 ELSE MaxEvents - 2

GcStep ==
  \/ \E c \in CruftModes : StartGc(c)
  \/ ReadExistingPacks \/ PartitionRepack \/ AgeCandidates
  \/ InstallPack \/ InstallIdx \/ CruftPack \/ CruftIdx \/ Sidecar \/ Loosen
  \/ VerifyPacked \/ Declassify
  \/ \E p \in Names : RetireIdx(p)
  \/ RetirePack \/ RetireAges \/ PruneLoose \/ Finish

Next ==
  \/ GcStep \/ Crash \/ Tick
  \/ \E p \in Names : ReadInSession(p)
  \/ \E o \in Objects : WriteObject(o) \/ UpdateRef(o) \/ DeleteRef(o)

Spec == Init /\ [][Next]_vars

-----------------------------------------------------------------------------
(* Properties. *)

Pcs == {"idle", "census", "reach", "age", "pack", "idx", "fresh", "cruftIdx", "sidecar", "loosen",
        "verify", "declassify", "retireIdx", "retirePack", "retireAges", "prune", "done"}

\* Every variable has its type; gc's plan is made of objects and packs it found.
TypeOK ==
  /\ loose \in [Objects -> Times]
  /\ packs \in [Names -> [idx : BOOLEAN, pack : Times, ages : [Objects -> Times]]]
  /\ keep \subseteq Names /\ refs \subseteq Objects /\ clock \in Times
  /\ gc \in [pc : Pcs, cruftPacks : BOOLEAN, cutoff : Times, loose : SUBSET Objects,
             normal : SUBSET Names, cruft : SUBSET Names, kept : SUBSET Objects, ages : [Objects -> Times],
             target : SUBSET Objects, candidates : SUBSET Objects, survivors : SUBSET Objects,
             staged : [kind : {"loosen", "settled", "fresh"}, out : SUBSET Objects],
             retiring : SUBSET Names, current : SUBSET Objects, before : [Objects -> Times], calm : BOOLEAN]
  /\ hot \subseteq Names
  /\ writer \in [listed : SUBSET Names, cruft : SUBSET Names, touched : SUBSET Names]
  /\ seen \in [Objects -> Times] /\ lapsed \subseteq Objects
  /\ litter \subseteq Objects /\ misled \subseteq Objects

\* Something a reference reaches is readable at every moment: while packs are
\* being replaced, and whenever gc is killed (writeRepack, retireSuperseded).
\* Excepted are the objects gc was never shown a write of, those of a leftover
\* sidecar, and those of LooseTwinStays.
ReachableKept == \A o \in refs \ (lapsed \cup litter \cup misled) : Readable(o)

\* The object store at every step of a gc and after a kill at any of them: well
\* typed, with everything that is referenced in it.
GcInv == TypeOK /\ ReachableKept

\* An object written less than the grace period ago is readable, referenced or
\* not, so the writer can still refer to it (partitionByCutoff and the ages
\* computeCruftMtimes derives for it over any number of runs). The exceptions are
\* those of ReachableKept.
YoungKept == \A o \in Objects \ (lapsed \cup litter \cup misled) :
               (seen[o] # 0 /\ clock - seen[o] < Grace) => Readable(o)

\* What a run no writer disturbed leaves behind (runGcTask): of what there was,
\* exactly the reachable, the kept and the young; one normal and one cruft pack
\* at most besides the kept ones; nothing both packed and loose; and in cruft
\* mode no garbage younger than it was, so that it does leave in the end. A run
\* counts as undisturbed only when no other operation of its session read a pack
\* that was being retired (hot).
GcExact ==
  (gc.pc = "done" /\ gc.calm /\ litter = {} /\ hot = {}) =>
    /\ \A o \in Objects \ refs : Readable(o) <=> o \in gc.kept \/ gc.before[o] > gc.cutoff
    /\ Cardinality(NormalPacks) <= 1 /\ Cardinality(CruftPacks) <= 1
    /\ \A o \in Objects : loose[o] = 0 \/ ~Packed(o)
    /\ gc.cruftPacks => \A o \in gc.survivors : RecordedAge(o) <= gc.before[o]

\* "a loose copy whose only packed twin was just retired stays" (pruneLooseAfterRepack):
\* what a run without cruft packs decides to leave loose is still there at its end.
\* TLC refutes it (README, section 3).
LooseTwinStays ==
  gc.pc = "done" /\ gc.staged.kind = "loosen" => \A o \in gc.survivors \ lapsed : Readable(o)
=============================================================================
