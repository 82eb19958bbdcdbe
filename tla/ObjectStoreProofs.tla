-------------------------- MODULE ObjectStoreProofs ---------------------------
(* No gc loses what is referenced or young, an undisturbed one leaves exactly that, *)
(* and no read of a session beside it is stranded, for any number of objects, runs, *)
(* writers, kills and reads; beside one gc or one write a read finds what is there. *)
EXTENDS ObjectLookup, FiniteSetTheorems, NaturalsInduction, WellFoundedInduction, TLAPS

------------------------------
(* The inductive invariant. *)

Lost == lapsed \cup litter \cup misled
\* What is young when gc computes its cutoff stays so for the run, however long that takes.
Young(o) == seen[o] # 0 /\ (clock - seen[o] < Grace \/ (Running /\ seen[o] > gc.cutoff))
Needed(o) == o \in refs \/ Young(o)

\* The store says of a young object that it is as young as its last write.
Backed(o) ==
  \/ o \in KeptObjects
  \/ loose[o] >= seen[o]
  \/ \E p \in NormalPacks : o \in p /\ packs[p].pack >= seen[o]
  \/ \E p \in CruftPacks : o \in p /\ packs[p].ages[o] >= seen[o]

Held(o) == (o \in refs => Readable(o)) /\ (Young(o) => Backed(o))
AllHeld == \A o \in Objects \ Lost : Held(o)

\* The files, whatever gc is doing.
StoreOK ==
  /\ clock # 0 /\ \A o \in Objects : seen[o] <= clock
  /\ \A p \in keep : Present(p)
  /\ \A p \in Names : IsCruft(p) /\ ~Present(p) =>
       p \subseteq litter \/ (gc.pc \in {"retirePack", "retireAges"} /\ p = gc.current)

RunOK ==
  /\ gc.cutoff = 0 \/ gc.cutoff + Grace <= clock
  /\ gc.pc # "done" => \A o \in gc.loose : loose[o] # 0

Planning == {"reach", "age"}
Removing == {"retireIdx", "retirePack", "retireAges", "prune", "done"}
Verified == {"verify", "declassify"} \cup Removing
Carrying == {"pack", "idx", "fresh", "cruftIdx", "sidecar", "loosen"} \cup Verified

\* What gc found of the packs, and read of the ages.
CensusOK ==
  gc.pc \in Planning =>
    /\ gc.normal = NormalPacks /\ gc.cruft = CruftPacks /\ gc.kept = KeptObjects
    /\ \A o \in Objects \ Lost : Young(o) =>
         \/ o \in gc.kept \/ (gc.pc = "age" /\ o \in gc.target)
         \/ gc.ages[o] >= seen[o] \/ loose[o] >= seen[o]

\* What is reachable and not kept is to be packed; the other objects gc owns may be cruft.
PartitionOK ==
  gc.pc \in {"age"} \cup Carrying =>
    /\ gc.target \cup gc.candidates = Owned \ gc.kept
    /\ gc.target \cap gc.candidates = {}
    /\ gc.pc = "age" => \A o \in (refs \ Lost) \cap gc.candidates : Young(o)

\* What a survivor has, or is going to have, to show its age.
Left(o) ==
  CASE gc.staged.kind = "fresh" -> Young(o) => gc.ages[o] >= seen[o]
    [] gc.staged.kind = "settled" -> Young(o) => packs[gc.survivors].ages[o] >= seen[o]
    [] OTHER -> IF o \in gc.loose THEN loose[o] # 0 /\ (Young(o) => loose[o] >= seen[o])
                ELSE gc.pc \in {"pack", "idx", "loosen"}

\* Where a needed object is once gc has removed what it is going to remove.
Targeted(o) ==
  o \in gc.target /\ (gc.pc # "pack" /\ Young(o) => packs[gc.target].pack >= seen[o])
Planned(o) ==
  \/ o \in gc.kept \/ Targeted(o)
  \/ o \notin gc.loose /\ loose[o] # 0 /\ (Young(o) => loose[o] >= seen[o])
  \/ o \in gc.survivors /\ Left(o)

TargetOK ==
  gc.target # {} =>
    /\ gc.pc # "pack" => packs[gc.target].pack # 0
    /\ gc.pc \notin {"pack", "idx"} => packs[gc.target].idx
    /\ IsCruft(gc.target) => gc.target \subseteq litter \/ (gc.target \in gc.cruft /\ gc.pc \notin Removing)

StagedOK ==
  /\ gc.survivors \subseteq gc.candidates /\ \A o \in gc.survivors : gc.ages[o] # 0
  /\ gc.staged.out = IF gc.staged.kind = "loosen" THEN {} ELSE gc.survivors
  /\ gc.pc \in {"fresh", "cruftIdx", "sidecar"} => gc.staged.kind = "fresh"
  /\ gc.pc = "loosen" => gc.staged.kind = "loosen"
  /\ gc.staged.kind = "fresh" =>
       /\ gc.survivors # {}
       /\ gc.pc \in {"cruftIdx", "sidecar"} \cup Verified => packs[gc.survivors].pack # 0
       /\ gc.pc \in {"sidecar"} \cup Verified => packs[gc.survivors].idx
       /\ gc.pc \in Verified => \A o \in gc.survivors : packs[gc.survivors].ages[o] = gc.ages[o]
  /\ gc.staged.kind = "settled" /\ gc.survivors # {} => Present(gc.survivors) /\ IsCruft(gc.survivors)

Retiring == {"retireIdx", "retirePack", "retireAges"}

\* The packs of the census that are not removed yet.
Remaining ==
  CASE gc.pc \in Retiring -> gc.retiring
    [] gc.pc = "prune" -> {}
    [] OTHER -> gc.normal \cup gc.cruft

RetiringOK ==
  /\ gc.pc \in {"retireIdx", "retirePack", "retireAges"} =>
       gc.retiring \subseteq (gc.normal \cup gc.cruft) \ {gc.target, gc.staged.out}
  /\ gc.pc \in {"retirePack", "retireAges"} => gc.current \in gc.retiring /\ ~packs[gc.current].idx

\* The plan, while it is carried out.
PlanOK ==
  gc.pc \in Carrying =>
    /\ gc.kept = KeptObjects /\ (gc.normal \cup gc.cruft) \cap keep = {}
    /\ \A p \in gc.normal : IsCruft(p) => p = gc.survivors /\ gc.staged.kind = "fresh"
    /\ \A p \in Names \ keep : Present(p) => p \in Remaining \cup {gc.target, gc.staged.out}
    /\ TargetOK /\ StagedOK /\ RetiringOK
    /\ \A o \in Objects \ Lost : Needed(o) => Planned(o)

\* What is needed is held before anything is removed; RemovalHolds shows that it is from then on.
HeldOK == gc.pc \notin Removing => AllHeld

GcIndInv == TypeOK /\ HeldOK /\ StoreOK /\ RunOK /\ CensusOK /\ PartitionOK /\ PlanOK

------------------------------
(* Facts about the operators. *)

GcType ==
  [pc : Pcs, cruftPacks : BOOLEAN, cutoff : Times, loose : SUBSET Objects,
   normal : SUBSET Names, cruft : SUBSET Names, kept : SUBSET Objects, ages : [Objects -> Times],
   target : SUBSET Objects, candidates : SUBSET Objects, survivors : SUBSET Objects,
   staged : [kind : {"loosen", "settled", "fresh"}, out : SUBSET Objects],
   retiring : SUBSET Names, current : SUBSET Objects, before : [Objects -> Times], calm : BOOLEAN]

\* Every set of times has a latest one.
LEMMA LatestOf ==
  ASSUME NEW S, S \subseteq Times, S # {}
  PROVE  \E x \in S : \A y \in S : x >= y
<1> DEFINE T == {Horizon - x : x \in S}
<1>1. Horizon \in Nat /\ \A x \in S : x \in Nat /\ x <= Horizon BY GraceAssumption DEF Times
<1>2. T \subseteq Nat /\ T # {} BY <1>1
<1>3. \E n \in T : \A m \in T : ~(<<m, n>> \in OpToRel(<, Nat)) BY <1>2, NatLessThanWellFounded, WFMin
<1>4. PICK n \in T : \A m \in T : ~(m < n) BY <1>2, <1>3 DEF OpToRel
<1>5. PICK x \in S : n = Horizon - x BY <1>4
<1>6. ASSUME NEW y \in S PROVE x >= y
  <2>1. ~(Horizon - y < Horizon - x) BY <1>4, <1>5
  <2> QED BY <1>1, <2>1
<1> QED BY <1>6

\* Newest: a time that none of the given ones is later than.
LEMMA NewestIs ==
  ASSUME NEW S, S \subseteq Times
  PROVE  Newest(S) \in Times /\ \A x \in S : Newest(S) >= x
<1> DEFINE T == S \cup {0}
<1>1. T \subseteq Times /\ T # {} BY GraceAssumption DEF Times
<1>2. \E x \in T : \A y \in T : x >= y BY <1>1, LatestOf
<1>3. Newest(S) \in T /\ \A y \in T : Newest(S) >= y BY <1>2 DEF Newest, Max
<1> QED BY <1>1, <1>3

\* The type of what gc remembers, and of the files.
LEMMA Typed ==
  ASSUME TypeOK
  PROVE  /\ gc \in GcType /\ gc.pc \in Pcs
         /\ gc.loose \subseteq Objects /\ gc.kept \subseteq Objects /\ gc.ages \in [Objects -> Times]
         /\ gc.normal \subseteq Names /\ gc.cruft \subseteq Names /\ gc.retiring \subseteq Names
         /\ gc.target \subseteq Objects /\ gc.candidates \subseteq Objects /\ gc.survivors \subseteq Objects
         /\ gc.staged.kind \in {"loosen", "settled", "fresh"} /\ gc.staged.out \subseteq Objects
         /\ gc.cutoff \in Nat /\ clock \in Nat /\ Grace \in Nat /\ Grace # 0
         /\ \A o \in Objects : loose[o] \in Nat /\ seen[o] \in Nat /\ gc.ages[o] \in Nat
         /\ \A p \in Names : /\ packs[p] \in [idx : BOOLEAN, pack : Times, ages : [Objects -> Times]]
                             /\ packs[p].idx \in BOOLEAN /\ packs[p].pack \in Nat
                             /\ \A o \in Objects : packs[p].ages[o] \in Nat
<1>1. gc \in GcType BY DEF TypeOK, GcType
<1>2. Times \subseteq Nat /\ Grace \in Nat /\ Grace # 0 BY GraceAssumption DEF Times
<1>3. \A p \in Names : packs[p] \in [idx : BOOLEAN, pack : Times, ages : [Objects -> Times]] BY DEF TypeOK
<1>4. \A p \in Names : packs[p].idx \in BOOLEAN /\ packs[p].pack \in Nat /\ packs[p].ages \in [Objects -> Times]
  BY <1>2, <1>3
<1>5. /\ gc.pc \in Pcs
      /\ gc.loose \subseteq Objects /\ gc.kept \subseteq Objects /\ gc.ages \in [Objects -> Times]
      /\ gc.normal \subseteq Names /\ gc.cruft \subseteq Names /\ gc.retiring \subseteq Names
      /\ gc.target \subseteq Objects /\ gc.candidates \subseteq Objects /\ gc.survivors \subseteq Objects
      /\ gc.staged.kind \in {"loosen", "settled", "fresh"} /\ gc.staged.out \subseteq Objects
      /\ gc.cutoff \in Times
  BY <1>1 DEF GcType
<1>6. \A o \in Objects : loose[o] \in Times /\ seen[o] \in Times BY DEF TypeOK
<1>7. \A o \in Objects : gc.ages[o] \in Nat BY <1>2, <1>5
<1>8. clock \in Nat BY <1>2 DEF TypeOK
<1>9. \A p \in Names : \A o \in Objects : packs[p].ages[o] \in Nat BY <1>2, <1>4
<1> QED BY <1>1, <1>2, <1>3, <1>4, <1>5, <1>6, <1>7, <1>8, <1>9

\* A set of objects that is not empty names a pack.
LEMMA NameOf ==
  ASSUME NEW S, S \subseteq Objects, S # {}
  PROVE  S \in Names
BY DEF Names

\* What is young was written after the cutoff of the run under way.
LEMMA YoungSurvives ==
  ASSUME TypeOK, RunOK, NEW o \in Objects, Young(o)
  PROVE  seen[o] > gc.cutoff
<1>1. gc.cutoff \in Nat /\ clock \in Nat /\ Grace \in Nat /\ seen[o] \in Nat BY Typed
<1> QED BY <1>1 DEF RunOK, Young

\* A kept pack shares no object with what gc packs.
LEMMA KeptApart ==
  ASSUME TypeOK, StoreOK, NEW S, S # {}, S \cap KeptObjects = {}
  PROVE  S \notin keep
<1> SUFFICES ASSUME S \in keep PROVE FALSE OBVIOUS
<1>1. S \subseteq KeptObjects BY DEF StoreOK, KeptObjects
<1> QED BY <1>1

\* Where a readable object is.
LEMMA ReadableIs ==
  ASSUME NEW o \in Objects
  PROVE  Readable(o) <=> loose[o] # 0 \/ \E p \in Names : o \in p /\ Present(p)
BY DEF Readable, Packed

\* What is backed is readable.
LEMMA BackedReadable ==
  ASSUME TypeOK, NEW o \in Objects, Backed(o), seen[o] # 0
  PROVE  Readable(o)
<1>1. seen[o] \in Nat /\ loose[o] \in Nat BY Typed
<1>2. CASE o \in KeptObjects
  <2>1. PICK p \in keep : Present(p) /\ o \in p BY <1>2 DEF KeptObjects
  <2>2. p \in Names BY DEF TypeOK
  <2> QED BY <2>1, <2>2, ReadableIs
<1>3. CASE loose[o] >= seen[o] BY <1>1, <1>3, ReadableIs
<1>4. CASE \E p \in NormalPacks \cup CruftPacks : o \in p BY <1>4, ReadableIs DEF NormalPacks, CruftPacks
<1> QED BY <1>2, <1>3, <1>4 DEF Backed

------------------------------
(* What is needed is held. *)

\* While the replaced packs are being removed, everything needed is where the plan put it.
LEMMA RemovalHolds ==
  ASSUME TypeOK, StoreOK, PartitionOK, PlanOK, gc.pc \in Removing
  PROVE  AllHeld
<1>1. gc.pc \in Carrying /\ gc.pc \in Verified /\ gc.pc \notin {"pack", "idx", "loosen"}
  BY DEF Carrying, Verified, Removing
<1>2. gc.kept = KeptObjects /\ TargetOK /\ StagedOK /\ \A o \in Objects \ Lost : Needed(o) => Planned(o)
  BY <1>1 DEF PlanOK
<1>3. (gc.target \cup gc.candidates) \cap KeptObjects = {} BY <1>1, <1>2 DEF PartitionOK
<1> SUFFICES ASSUME NEW o \in Objects \ Lost, Needed(o)
             PROVE  Readable(o) /\ (Young(o) => Backed(o))
  BY DEF AllHeld, Held, Needed
<1>4. Planned(o) BY <1>2
<1>5. /\ loose[o] \in Nat /\ seen[o] \in Nat /\ clock \in Nat /\ seen[o] <= clock
      /\ gc.target \subseteq Objects /\ gc.survivors \subseteq Objects /\ gc.survivors \subseteq gc.candidates
  BY <1>2, Typed DEF StoreOK, StagedOK
<1>6. CASE o \in gc.kept
  <2>1. PICK p \in keep : Present(p) /\ o \in p BY <1>2, <1>6 DEF KeptObjects
  <2>2. p \in Names BY DEF TypeOK
  <2> QED BY <1>2, <1>6, <2>1, <2>2, ReadableIs DEF Backed
<1>7. CASE Targeted(o)
  <2>1. gc.target \in Names /\ gc.target \notin keep BY <1>3, <1>5, <1>7, NameOf, KeptApart DEF Targeted
  <2>2. packs[gc.target].idx /\ packs[gc.target].pack # 0 /\ ~IsCruft(gc.target)
    BY <1>1, <1>2, <1>7 DEF TargetOK, Lost, Targeted
  <2>3. Present(gc.target) /\ gc.target \in NormalPacks BY <2>1, <2>2 DEF Present, NormalPacks, StoreOK
  <2> QED BY <1>1, <1>7, <2>1, <2>3, ReadableIs DEF Backed, Targeted
<1>8. CASE o \notin gc.loose /\ loose[o] # 0 /\ (Young(o) => loose[o] >= seen[o])
  BY <1>8, ReadableIs DEF Backed
<1>9. CASE o \in gc.survivors /\ Left(o)
  <2>1. gc.survivors \in Names /\ gc.survivors \notin keep
    <3>1. gc.survivors \cap KeptObjects = {} BY <1>3, <1>5
    <3> QED BY <1>5, <1>9, <3>1, NameOf, KeptApart
  <2>2. CASE gc.staged.kind \in {"fresh", "settled"}
    <3>1. Present(gc.survivors) /\ IsCruft(gc.survivors) /\ (Young(o) => packs[gc.survivors].ages[o] >= seen[o])
      <4>1. CASE gc.staged.kind = "settled" BY <1>2, <1>9, <4>1 DEF StagedOK, Left
      <4>2. CASE gc.staged.kind = "fresh"
        <5>1. packs[gc.survivors].ages[o] = gc.ages[o] /\ gc.ages[o] # 0
          BY <1>1, <1>2, <1>9, <4>2 DEF StagedOK
        <5>2. IsCruft(gc.survivors) BY <5>1 DEF IsCruft, NoAges
        <5>3. Present(gc.survivors) BY <1>1, <1>2, <4>2 DEF StagedOK, Present
        <5> QED BY <1>9, <4>2, <5>1, <5>2, <5>3 DEF Left
      <4> QED BY <2>2, <4>1, <4>2
    <3>2. gc.survivors \in CruftPacks BY <2>1, <3>1 DEF CruftPacks
    <3> QED BY <1>9, <2>1, <3>1, <3>2, ReadableIs DEF Backed
  <2>3. CASE gc.staged.kind = "loosen"
    <3>1. loose[o] # 0 /\ (Young(o) => loose[o] >= seen[o]) BY <1>1, <1>9, <2>3 DEF Left
    <3> QED BY <3>1, ReadableIs DEF Backed
  <2>4. gc.staged.kind \in {"fresh", "settled", "loosen"} BY Typed
  <2> QED BY <2>2, <2>3, <2>4
<1> QED BY <1>4, <1>6, <1>7, <1>8, <1>9 DEF Planned

\* So it is at every moment.
LEMMA HeldNow ==
  ASSUME GcIndInv
  PROVE  AllHeld
BY RemovalHolds DEF GcIndInv, HeldOK

\* A step that takes nothing away from the store.
Adds ==
  /\ keep' = keep
  /\ \A o \in Objects : loose'[o] = loose[o] \/ loose'[o] = clock
  /\ \A p \in Names : Present(p) =>
       /\ Present(p)' /\ packs'[p].ages = packs[p].ages
       /\ packs'[p].pack = packs[p].pack \/ packs'[p].pack = clock

\* Such a step keeps an object that was not written just now readable and backed.
LEMMA AddsHolds ==
  ASSUME TypeOK, StoreOK, Adds, NEW o \in Objects, seen'[o] = seen[o]
  PROVE  (Readable(o) => Readable(o)') /\ (Backed(o) => Backed(o)')
<1>1. clock # 0 /\ clock >= seen[o] BY Typed DEF StoreOK
<1>2. ASSUME Readable(o) PROVE Readable(o)'
  <2>1. CASE loose[o] # 0
    <3>1. loose'[o] # 0 BY <1>1, <2>1 DEF Adds
    <3> QED BY <3>1 DEF Readable
  <2>2. CASE \E p \in Names : o \in p /\ Present(p)
    <3>1. PICK p \in Names : o \in p /\ Present(p) BY <2>2
    <3>2. Present(p)' BY <3>1 DEF Adds
    <3> QED BY <3>1, <3>2 DEF Readable, Packed
  <2> QED BY <1>2, <2>1, <2>2, ReadableIs
<1>3. ASSUME Backed(o) PROVE Backed(o)'
  <2>1. CASE o \in KeptObjects
    <3>1. PICK p \in keep : Present(p) /\ o \in p BY <2>1 DEF KeptObjects
    <3>2. p \in keep' /\ Present(p)' BY <3>1 DEF Adds, TypeOK
    <3>3. o \in KeptObjects' BY <3>1, <3>2 DEF KeptObjects
    <3> QED BY <3>3 DEF Backed
  <2>2. CASE loose[o] >= seen[o]
    <3>1. loose'[o] >= seen[o] BY <1>1, <2>2 DEF Adds
    <3> QED BY <3>1 DEF Backed
  <2>3. CASE \E p \in NormalPacks : o \in p /\ packs[p].pack >= seen[o]
    <3>1. PICK p \in NormalPacks : o \in p /\ packs[p].pack >= seen[o] BY <2>3
    <3>2. p \in Names /\ Present(p) /\ p \notin keep /\ ~IsCruft(p) BY <3>1 DEF NormalPacks
    <3>3. Present(p)' /\ packs'[p].ages = packs[p].ages /\ keep' = keep BY <3>2 DEF Adds
    <3>4. packs'[p].pack >= seen[o] BY <1>1, <3>1, <3>2 DEF Adds
    <3>5. p \in NormalPacks' BY <3>2, <3>3 DEF NormalPacks, IsCruft
    <3> QED BY <3>1, <3>4, <3>5 DEF Backed
  <2>4. CASE \E p \in CruftPacks : o \in p /\ packs[p].ages[o] >= seen[o]
    <3>1. PICK p \in CruftPacks : o \in p /\ packs[p].ages[o] >= seen[o] BY <2>4
    <3>2. p \in Names /\ Present(p) /\ p \notin keep /\ IsCruft(p) BY <3>1 DEF CruftPacks
    <3>3. Present(p)' /\ packs'[p].ages = packs[p].ages /\ keep' = keep BY <3>2 DEF Adds
    <3>4. p \in CruftPacks' BY <3>2, <3>3 DEF CruftPacks, IsCruft
    <3> QED BY <3>1, <3>3, <3>4 DEF Backed
  <2> QED BY <1>3, <2>1, <2>2, <2>3, <2>4 DEF Backed
<1> QED BY <1>2, <1>3

------------------------------
(* Types. *)

\* What the ages read off the files are.
LEMMA AgesTyped ==
  ASSUME TypeOK, NEW o \in Objects
  PROVE  /\ PackedAge(o) \in Times /\ RecordedAge(o) \in Times
         /\ CarriedAge(o) \in Times /\ NormalAge(o) \in Times /\ PackedAge(o) >= CarriedAge(o)
         /\ PackedAge(o) >= NormalAge(o)
         /\ \A p \in NormalPacks : o \in p => NormalAge(o) >= packs[p].pack
         /\ \A p \in CruftPacks : o \in p => CarriedAge(o) >= packs[p].ages[o]
<1>1. \A p \in Names : packs[p].pack \in Times /\ packs[p].ages \in [Objects -> Times] BY DEF TypeOK
<1>2. NormalPacks \subseteq Names /\ CruftPacks \subseteq Names BY DEF NormalPacks, CruftPacks
<1> DEFINE A == {packs[p].ages[o] : p \in {q \in CruftPacks : o \in q}}
           B == {packs[p].pack : p \in {q \in NormalPacks : o \in q}}
<1>3. A \subseteq Times /\ B \subseteq Times BY <1>1, <1>2
<1>4. CarriedAge(o) \in Times /\ \A x \in A : CarriedAge(o) >= x BY <1>3, NewestIs DEF CarriedAge
<1>5. NormalAge(o) \in Times /\ \A x \in B : NormalAge(o) >= x BY <1>3, NewestIs DEF NormalAge
<1>6. {CarriedAge(o), NormalAge(o)} \subseteq Times BY <1>4, <1>5
<1>7. PackedAge(o) \in Times /\ PackedAge(o) >= CarriedAge(o) /\ PackedAge(o) >= NormalAge(o)
  BY <1>6, NewestIs DEF PackedAge
<1>8. {loose[o], PackedAge(o)} \subseteq Times BY <1>7 DEF TypeOK
<1>9. RecordedAge(o) \in Times BY <1>8, NewestIs DEF RecordedAge
<1> QED BY <1>4, <1>5, <1>7, <1>9

\* The ages gc gives its candidates.
LEMMA MtimesTyped ==
  ASSUME TypeOK
  PROVE  /\ CruftMtimes \in [Objects -> Times]
         /\ \A o \in Objects : /\ CruftMtimes[o] >= gc.ages[o]
                               /\ o \in gc.loose => CruftMtimes[o] >= loose[o]
<1>1. ASSUME NEW o \in Objects
      PROVE  LET S == {gc.ages[o], IF o \in gc.loose THEN loose[o] ELSE 0} IN
             Newest(S) \in Times /\ Newest(S) >= gc.ages[o] /\ (o \in gc.loose => Newest(S) >= loose[o])
  <2> DEFINE S == {gc.ages[o], IF o \in gc.loose THEN loose[o] ELSE 0}
  <2>1. gc.ages[o] \in Times /\ loose[o] \in Times /\ 0 \in Times BY Typed, GraceAssumption DEF TypeOK, Times
  <2>2. S \subseteq Times BY <2>1
  <2> QED BY <2>2, NewestIs
<1> QED BY <1>1 DEF CruftMtimes

\* Every step keeps the types.
LEMMA TypeStep ==
  ASSUME TypeOK, [Next]_vars
  PROVE  TypeOK'
<1> USE DEF outside, history
<1> DEFINE FilesType == [idx : BOOLEAN, pack : Times, ages : [Objects -> Times]]
<1>1. gc \in GcType /\ packs \in [Names -> FilesType] /\ clock \in Times /\ 0 \in Times
  BY Typed, GraceAssumption DEF TypeOK, Times
<1>2. NoAges \in [Objects -> Times] /\ Idle \in GcType
  <2>1. NoAges \in [Objects -> Times] BY <1>1 DEF NoAges
  <2> QED BY <1>1, <2>1 DEF Idle, GcType, Pcs
<1>3. ASSUME gc' \in GcType, packs' = packs, loose' = loose, UNCHANGED <<outside, history>>, hot' \subseteq Names
      PROVE  TypeOK'
  BY <1>3 DEF TypeOK, GcType
<1>4. ASSUME NEW p, NEW x \in Times, packs' = [packs EXCEPT ![p].pack = x] \/ packs' = [packs EXCEPT ![p].idx = TRUE]
             \/ packs' = [packs EXCEPT ![p].idx = FALSE] \/ packs' = [packs EXCEPT ![p].ages = NoAges]
      PROVE  packs' \in [Names -> FilesType]
  <2>1. p \in Names => packs[p] \in FilesType BY <1>1
  <2> QED BY <1>1, <1>2, <1>4, <2>1
<1>5. ASSUME gc' \in GcType, packs' \in [Names -> FilesType], loose' = loose, hot' \subseteq Names, UNCHANGED <<outside, history>>
      PROVE  TypeOK'
  BY <1>5 DEF TypeOK, GcType
<1>h. hot \subseteq Names BY DEF TypeOK
<1>6. CASE \E c \in CruftModes : StartGc(c)
  <2>1. PICK c \in CruftModes : StartGc(c) BY <1>6
  <2>2. [o \in Objects |-> RecordedAge(o)] \in [Objects -> Times] BY AgesTyped
  <2>3. c \in BOOLEAN /\ (IF clock > Grace THEN clock - Grace ELSE 0) \in Times
    BY <1>1, ModesAssumption, GraceAssumption, SMTT(30) DEF Times
  <2>4. gc' \in GcType BY <1>2, <2>1, <2>2, <2>3, ZenonT(60) DEF StartGc, GcType, Pcs
  <2> QED BY <1>3, <2>1, <2>4 DEF StartGc
<1>7. CASE ReadExistingPacks
  <2>1. [o \in Objects |-> PackedAge(o)] \in [Objects -> Times] BY AgesTyped
  <2>2. NormalPacks \subseteq Names /\ CruftPacks \subseteq Names /\ KeptObjects \subseteq Objects
    BY DEF NormalPacks, CruftPacks, KeptObjects, TypeOK, Names
  <2>3. gc' \in GcType BY <1>1, <1>7, <2>1, <2>2 DEF ReadExistingPacks, GcType, Pcs
  <2> QED BY <1>3, <1>7, <1>h, <2>3 DEF ReadExistingPacks
<1>8. CASE PartitionRepack
  <2>a. gc.loose \subseteq Objects /\ gc.normal \subseteq SUBSET Objects /\ gc.cruft \subseteq SUBSET Objects
    BY Typed DEF Names
  <2>b. UNION gc.normal \subseteq Objects /\ UNION gc.cruft \subseteq Objects BY <2>a
  <2>1. Owned \subseteq Objects BY <2>a, <2>b DEF Owned
  <2>2. gc' \in GcType BY <1>1, <1>8, <2>1 DEF PartitionRepack, GcType, Pcs
  <2> QED BY <1>3, <1>8, <1>h, <2>2 DEF PartitionRepack
<1>9. CASE AgeCandidates
  <2> DEFINE S == {o \in gc.candidates : CruftMtimes[o] > gc.cutoff}
  <2>1. S \subseteq Objects /\ CruftMtimes \in [Objects -> Times] BY Typed, MtimesTyped
  <2>2. StageCruft(S) \in [kind : {"loosen", "settled", "fresh"}, out : SUBSET Objects] BY <2>1 DEF StageCruft
  <2>3. gc' = [gc EXCEPT !.pc = "pack", !.ages = CruftMtimes, !.survivors = S, !.staged = StageCruft(S)]
    BY <1>9, SMTT(30) DEF AgeCandidates
  <2>4. gc' \in GcType BY <1>1, <2>1, <2>2, <2>3, ZenonT(60) DEF GcType, Pcs
  <2>5. lapsed' \subseteq Objects BY <1>9, <2>1 DEF AgeCandidates, TypeOK
  <2>6. UNCHANGED <<loose, packs, hot, seen, litter, misled, outside>> BY <1>9 DEF AgeCandidates
  <2> QED BY <2>4, <2>5, <2>6 DEF TypeOK, GcType
<1>10. CASE InstallPack
  <2>1. AfterNormal \in Pcs BY Typed DEF AfterNormal, Pcs
  <2>2. gc' \in GcType BY <1>1, <1>10, <2>1 DEF InstallPack, GcType, Pcs
  <2>3. packs' \in [Names -> FilesType] BY <1>1, <1>4, <1>10 DEF InstallPack
  <2> QED BY <1>5, <1>10, <1>h, <2>2, <2>3 DEF InstallPack
<1>11. CASE InstallIdx
  <2>1. AfterNormal \in Pcs BY Typed DEF AfterNormal, Pcs
  <2>2. gc' \in GcType BY <1>1, <1>11, <2>1 DEF InstallIdx, GcType
  <2>3. packs' \in [Names -> FilesType] BY <1>1, <1>4, <1>11 DEF InstallIdx
  <2> QED BY <1>5, <1>11, <1>h, <2>2, <2>3 DEF InstallIdx
<1>12. CASE CruftPack
  <2>1. gc' \in GcType BY <1>1, <1>12 DEF CruftPack, GcType, Pcs
  <2>2. packs' \in [Names -> FilesType] BY <1>1, <1>12 DEF CruftPack
  <2> QED BY <1>5, <1>12, <1>h, <2>1, <2>2 DEF CruftPack
<1>13. CASE CruftIdx
  <2>1. gc' \in GcType BY <1>1, <1>13 DEF CruftIdx, GcType, Pcs
  <2>2. packs' \in [Names -> FilesType] BY <1>1, <1>4, <1>13 DEF CruftIdx
  <2> QED BY <1>5, <1>13, <1>h, <2>1, <2>2 DEF CruftIdx
<1>14. CASE Sidecar
  <2>a. [gc EXCEPT !.pc = "verify"] \in GcType BY <1>1 DEF GcType, Pcs
  <2>1. gc' \in GcType BY <1>2, <1>14, <2>a DEF Sidecar
  <2> DEFINE f == [o \in Objects |-> IF o \in gc.survivors THEN gc.ages[o] ELSE 0]
  <2>2. f \in [Objects -> Times] BY <1>1, Typed
  <2>3. packs' = packs \/ packs' = [packs EXCEPT ![gc.survivors].ages = f] BY <1>14 DEF Sidecar
  <2>4. packs' \in [Names -> FilesType] BY <1>1, <2>2, <2>3
  <2> QED BY <1>5, <1>14, <1>h, <2>1, <2>4 DEF Sidecar
<1>15. CASE Loosen
  <2>1. gc' \in GcType BY <1>1, <1>15 DEF Loosen, GcType, Pcs
  <2>2. loose' \in [Objects -> Times] BY <1>1, <1>15 DEF Loosen, TypeOK
  <2> QED BY <1>15, <2>1, <2>2 DEF Loosen, TypeOK, GcType
<1>16. CASE VerifyPacked
  <2>a. [gc EXCEPT !.pc = "declassify"] \in GcType BY <1>1, ZenonT(60) DEF GcType, Pcs
  <2>1. gc' \in GcType BY <1>2, <1>16, <2>a DEF VerifyPacked
  <2> QED BY <1>3, <1>16, <2>1 DEF VerifyPacked
<1>17. CASE Declassify
  <2>1. Superseded \subseteq Names BY Typed, SMTT(30) DEF Superseded
  <2>2. gc' \in GcType BY <1>1, <1>17, <2>1 DEF Declassify, GcType, Pcs
  <2>3. packs' \in [Names -> FilesType] BY <1>1, <1>4, <1>17 DEF Declassify
  <2> QED BY <1>5, <1>17, <2>2, <2>3 DEF Declassify
<1>18. CASE \E p \in Names : RetireIdx(p)
  <2>1. PICK p \in Names : RetireIdx(p) BY <1>18
  <2>2. gc' \in GcType BY <1>1, <2>1 DEF RetireIdx, GcType, Pcs, Names
  <2>3. packs' \in [Names -> FilesType] BY <1>1, <1>4, <2>1 DEF RetireIdx
  <2> QED BY <1>5, <1>h, <2>1, <2>2, <2>3 DEF RetireIdx
<1>19. CASE RetirePack
  <2>a. [gc EXCEPT !.pc = "retireAges"] \in GcType BY <1>1, ZenonT(60) DEF GcType, Pcs
  <2>b. AfterRetiring(gc.current) \in GcType BY <1>1, ZenonT(60) DEF AfterRetiring, GcType, Pcs
  <2>1. gc' \in GcType BY <1>19, <2>a, <2>b DEF RetirePack
  <2>2. packs' \in [Names -> FilesType] BY <1>1, <1>4, <1>19 DEF RetirePack
  <2> QED BY <1>5, <1>19, <1>h, <2>1, <2>2 DEF RetirePack
<1>20. CASE RetireAges
  <2>1. gc' \in GcType BY <1>1, <1>20 DEF RetireAges, AfterRetiring, GcType, Pcs
  <2>2. packs' \in [Names -> FilesType] BY <1>1, <1>4, <1>20 DEF RetireAges
  <2> QED BY <1>5, <1>20, <1>h, <2>1, <2>2 DEF RetireAges
<1>21. CASE PruneLoose
  <2>1. gc' \in GcType BY <1>1, <1>21 DEF PruneLoose, GcType, Pcs
  <2>2. loose' \in [Objects -> Times] BY <1>1, <1>21 DEF PruneLoose, TypeOK
  <2>3. misled' \subseteq Objects BY <1>21, Typed DEF PruneLoose, Misled, TypeOK
  <2> QED BY <1>21, <2>1, <2>2, <2>3 DEF PruneLoose, TypeOK, GcType
<1>22. CASE Finish BY <1>2, <1>3, <1>22 DEF Finish
<1>23. CASE Crash
  <2>1. litter' \subseteq Objects BY <1>23 DEF Crash, TypeOK, Names
  <2> QED BY <1>2, <1>23, <2>1 DEF Crash, TypeOK, GcType
<1>24. CASE Tick
  <2>1. clock' \in Times BY <1>24, <1>1, GraceAssumption DEF Tick, Times
  <2> QED BY <1>24, <2>1 DEF Tick, TypeOK
<1>25. CASE \E p \in Names : ReadInSession(p) BY <1>1, <1>3, <1>25 DEF ReadInSession
<1>d. Disturbed \in GcType BY <1>1 DEF Disturbed, GcType
<1>26. CASE \E o \in Objects : WriteObject(o)
  <2>1. PICK o \in Objects : WriteObject(o) BY <1>26
  <2>2. PICK w \in {writer, Listed} : (\E p \in w.listed : o \in p /\ TouchPack(w, o, p)) \/ TouchLoose(w, o)
    BY <2>1 DEF WriteObject
  <2>3. w \in [listed : SUBSET Names, cruft : SUBSET Names, touched : SUBSET Names] BY <2>2 DEF Listed, TypeOK
  <2>4. gc' \in GcType /\ keep' = keep /\ refs' = refs /\ clock' = clock /\ hot' = hot /\ litter' = litter
        /\ misled' \subseteq Objects
    BY <1>d, <2>1 DEF WriteObject, TypeOK
  <2>5. seen' \in [Objects -> Times] BY <1>1, <2>1 DEF WriteObject, TypeOK
  <2>6. CASE TouchLoose(w, o)
    <3>1. writer' = w /\ packs' = packs BY <2>6 DEF TouchLoose
    <3>2. loose' \in [Objects -> Times] BY <1>1, <2>6 DEF TouchLoose, TypeOK
    <3>3. lapsed' \subseteq Objects BY <2>6 DEF TouchLoose, TypeOK
    <3> QED BY <2>3, <2>4, <2>5, <3>1, <3>2, <3>3 DEF TypeOK, GcType
  <2>7. CASE \E p \in w.listed : o \in p /\ TouchPack(w, o, p)
    <3>1. PICK p \in w.listed : TouchPack(w, o, p) BY <2>7
    <3>2. packs' \in [Names -> FilesType] BY <1>1, <1>4, <3>1 DEF TouchPack
    <3>3. writer' \in [listed : SUBSET Names, cruft : SUBSET Names, touched : SUBSET Names]
      BY <2>3, <3>1 DEF TouchPack
    <3>4. lapsed' \subseteq Objects /\ loose' = loose BY <3>1 DEF TouchPack, TypeOK
    <3> QED BY <2>4, <2>5, <3>2, <3>3, <3>4 DEF TypeOK, GcType
  <2> QED BY <2>2, <2>6, <2>7
<1>27. CASE \E o \in Objects : UpdateRef(o)
  <2>1. PICK o \in Objects : UpdateRef(o) BY <1>27
  <2>2. refs' \subseteq Objects /\ lapsed' \subseteq Objects /\ gc' \in GcType BY <1>d, <2>1 DEF UpdateRef, TypeOK
  <2> QED BY <2>1, <2>2 DEF UpdateRef, TypeOK, GcType
<1>28. CASE \E o \in Objects : DeleteRef(o)
  <2>1. PICK o \in Objects : DeleteRef(o) BY <1>28
  <2>2. refs' \subseteq Objects /\ gc' \in GcType BY <1>d, <2>1 DEF DeleteRef, TypeOK
  <2> QED BY <2>1, <2>2 DEF DeleteRef, TypeOK, GcType
<1>29. CASE UNCHANGED vars BY <1>29 DEF vars, TypeOK
<1> QED BY <1>6, <1>7, <1>8, <1>9, <1>10, <1>11, <1>12, <1>13, <1>14, <1>15, <1>16, <1>17, <1>18, <1>19,
     <1>20, <1>21, <1>22, <1>23, <1>24, <1>25, <1>26, <1>27, <1>28, <1>29 DEF Next, GcStep

------------------------------
(* The steps that leave the files alone. *)

\* The files, the references and the clock are as they were; objects may be lost track of.
Rests ==
  /\ loose' = loose /\ packs' = packs /\ keep' = keep /\ refs' = refs /\ clock' = clock /\ seen' = seen
  /\ lapsed \subseteq lapsed' /\ litter \subseteq litter' /\ misled' = misled

NoYounger == \A o \in Objects : Young(o)' => Young(o)

\* In a run, and at its end, no object becomes young by itself.
LEMMA YoungStays ==
  ASSUME Rests, gc'.pc = "idle" \/ (Running /\ gc'.cutoff = gc.cutoff)
  PROVE  NoYounger /\ (Running' => \A o : Young(o)' <=> Young(o))
BY DEF Rests, NoYounger, Young, Running

\* Nothing is said of the files but what was.
LEMMA RestIs ==
  ASSUME Rests
  PROVE  /\ \A p : (Present(p)' <=> Present(p)) /\ (IsCruft(p)' <=> IsCruft(p))
         /\ NormalPacks' = NormalPacks /\ CruftPacks' = CruftPacks /\ KeptObjects' = KeptObjects
         /\ \A o : (Readable(o)' <=> Readable(o)) /\ (Backed(o)' <=> Backed(o))
         /\ Lost \subseteq Lost'
<1>1. \A p : (Present(p)' <=> Present(p)) /\ (IsCruft(p)' <=> IsCruft(p)) BY DEF Rests, Present, IsCruft
<1>2. NormalPacks' = NormalPacks /\ CruftPacks' = CruftPacks /\ KeptObjects' = KeptObjects
  BY <1>1 DEF Rests, NormalPacks, CruftPacks, KeptObjects
<1>3. \A o : Readable(o)' <=> Readable(o) BY <1>1 DEF Rests, Readable, Packed
<1>4. \A o : Backed(o)' <=> Backed(o) BY <1>2 DEF Rests, Backed
<1>6. Lost \subseteq Lost' BY DEF Rests, Lost
<1> QED BY <1>1, <1>2, <1>3, <1>4, <1>6

\* What is needed is still held.
LEMMA RestHolds ==
  ASSUME GcIndInv, Rests, NoYounger
  PROVE  AllHeld'
<1> SUFFICES ASSUME NEW o \in Objects, o \notin Lost' PROVE Held(o)' BY DEF AllHeld
<1>1. o \notin Lost /\ refs' = refs BY RestIs DEF Rests
<1>2. Held(o) BY <1>1, HeldNow DEF AllHeld
<1> QED BY <1>1, <1>2, RestIs DEF Held, NoYounger

\* And the files are still in order, as long as a pack that is being retired is not forgotten.
LEMMA RestStore ==
  ASSUME GcIndInv, Rests,
         \/ gc.pc \notin {"retirePack", "retireAges"}
         \/ gc'.pc = gc.pc /\ gc'.current = gc.current
  PROVE  StoreOK'
<1>1. StoreOK BY DEF GcIndInv
<1>2. clock' # 0 /\ (\A o \in Objects : seen'[o] <= clock') /\ \A p \in keep' : Present(p)'
  BY <1>1, RestIs DEF StoreOK, Rests
<1>3. ASSUME NEW p \in Names, IsCruft(p)', ~Present(p)'
      PROVE  p \subseteq litter' \/ (gc'.pc \in {"retirePack", "retireAges"} /\ p = gc'.current)
  <2>1. IsCruft(p) /\ ~Present(p) BY <1>3, RestIs
  <2>2. p \subseteq litter \/ (gc.pc \in {"retirePack", "retireAges"} /\ p = gc.current)
    BY <1>1, <2>1 DEF StoreOK
  <2> QED BY <2>2 DEF Rests
<1> QED BY <1>2, <1>3 DEF StoreOK

\* gc stops, wherever it was.
LEMMA IdleKept ==
  ASSUME TypeOK', AllHeld', StoreOK', gc' = Idle
  PROVE  GcIndInv'
<1>1. gc'.pc = "idle" /\ gc'.cutoff = 0 /\ gc'.loose = {} BY DEF Idle
<1> QED BY <1>1 DEF GcIndInv, HeldOK, RunOK, CensusOK, PartitionOK, PlanOK, Planning, Carrying, Verified, Removing

\* takeStoreCensus: gc starts with a cutoff no young object is older than.
LEMMA StartGcKept ==
  ASSUME GcIndInv, TypeOK', NEW c \in CruftModes, StartGc(c)
  PROVE  GcIndInv'
<1>1. Rests BY DEF StartGc, Rests, outside, history
<1>2. gc.pc = "idle" BY DEF StartGc, Running
<1>4. /\ gc'.pc = "census" /\ gc'.cutoff = (IF clock > Grace THEN clock - Grace ELSE 0)
      /\ gc'.loose = {o \in Objects : loose[o] # 0}
  BY DEF StartGc, Idle
<1>y. NoYounger
  <2>1. clock \in Nat /\ Grace \in Nat /\ \A o \in Objects : seen[o] \in Nat BY Typed DEF GcIndInv
  <2>2. ASSUME NEW o \in Objects, seen[o] # 0, seen[o] > gc'.cutoff PROVE clock - seen[o] < Grace
    BY <1>4, <2>1, <2>2
  <2> QED BY <1>1, <2>2 DEF NoYounger, Young, Rests
<1>3. AllHeld' /\ StoreOK' BY <1>1, <1>2, <1>y, RestHolds, RestStore
<1>5. RunOK'
  <2>1. clock \in Nat /\ Grace \in Nat BY Typed DEF GcIndInv
  <2>2. gc'.cutoff = 0 \/ gc'.cutoff + Grace <= clock BY <1>4, <2>1
  <2> QED BY <1>1, <1>4, <2>2 DEF RunOK, Rests
<1> QED BY <1>3, <1>4, <1>5 DEF GcIndInv, HeldOK, CensusOK, PartitionOK, PlanOK, Planning, Carrying, Verified, Removing

\* readExistingPacks: the ages gc reads are as new as the last write gc was shown.
LEMMA CensusKept ==
  ASSUME GcIndInv, TypeOK', ReadExistingPacks
  PROVE  GcIndInv'
<1>1. Rests BY DEF ReadExistingPacks, Rests, outside, history
<1>2. gc.pc = "census" /\ TypeOK /\ gc \in GcType BY Typed DEF ReadExistingPacks, GcIndInv
<1>4. /\ gc'.pc = "reach" /\ gc'.cutoff = gc.cutoff /\ gc'.loose = gc.loose
      /\ gc'.normal = NormalPacks /\ gc'.cruft = CruftPacks /\ gc'.kept = KeptObjects
      /\ \A o \in Objects : gc'.ages[o] = PackedAge(o)
  BY <1>2 DEF ReadExistingPacks, GcType
<1>3. NoYounger /\ AllHeld' /\ StoreOK'
  <2>1. NoYounger BY <1>1, <1>2, <1>4, YoungStays DEF Running
  <2> QED BY <1>1, <1>2, <2>1, RestHolds, RestStore
<1>5. RunOK' BY <1>1, <1>2, <1>4 DEF GcIndInv, RunOK, Rests
<1>6. CensusOK'
  <2>1. ASSUME NEW o \in Objects, o \notin Lost', Young(o)'
        PROVE  o \in gc'.kept \/ gc'.ages[o] >= seen'[o] \/ loose'[o] >= seen'[o]
    <3>1. o \notin Lost /\ Young(o) BY <1>1, <1>3, <2>1, RestIs DEF NoYounger
    <3>2. Backed(o) BY <3>1, HeldNow DEF AllHeld, Held
    <3>3. PackedAge(o) \in Nat /\ NormalAge(o) \in Nat /\ CarriedAge(o) \in Nat /\ seen[o] \in Nat
      <4>1. PackedAge(o) \in Times BY <1>2, AgesTyped
      <4>2. CarriedAge(o) \in Times /\ NormalAge(o) \in Times BY <1>2, AgesTyped
      <4> QED BY <1>2, <4>1, <4>2, Typed, GraceAssumption DEF Times
    <3>4. CASE \E p \in NormalPacks : o \in p /\ packs[p].pack >= seen[o]
      <4>1. PICK p \in NormalPacks : o \in p /\ packs[p].pack >= seen[o] BY <3>4
      <4>2. p \in Names /\ packs[p].pack \in Nat BY <1>2, Typed DEF NormalPacks
      <4>3. NormalAge(o) >= packs[p].pack /\ PackedAge(o) >= NormalAge(o) BY <1>2, <4>1, AgesTyped
      <4>4. PackedAge(o) >= seen[o] BY <3>3, <4>1, <4>2, <4>3
      <4> QED BY <1>1, <1>4, <4>4 DEF Rests
    <3>5. CASE \E p \in CruftPacks : o \in p /\ packs[p].ages[o] >= seen[o]
      <4>1. PICK p \in CruftPacks : o \in p /\ packs[p].ages[o] >= seen[o] BY <3>5
      <4>2. p \in Names /\ packs[p].ages[o] \in Nat BY <1>2, Typed DEF CruftPacks
      <4>3. CarriedAge(o) >= packs[p].ages[o] /\ PackedAge(o) >= CarriedAge(o) BY <1>2, <4>1, AgesTyped
      <4>4. PackedAge(o) >= seen[o] BY <3>3, <4>1, <4>2, <4>3
      <4> QED BY <1>1, <1>4, <4>4 DEF Rests
    <3> QED BY <1>1, <1>4, <3>2, <3>4, <3>5 DEF Backed, Rests
  <2> QED BY <1>1, <1>4, <2>1, RestIs DEF CensusOK
<1> QED BY <1>3, <1>4, <1>5, <1>6 DEF GcIndInv, HeldOK, PartitionOK, PlanOK, Carrying, Verified, Removing

\* partitionRepack: what is needed is kept, to be packed, or may be cruft and young.
LEMMA PartitionKept ==
  ASSUME GcIndInv, TypeOK', PartitionRepack
  PROVE  GcIndInv'
<1>1. Rests BY DEF PartitionRepack, Rests, outside, history
<1>2. gc.pc = "reach" /\ TypeOK /\ gc \in GcType BY Typed DEF PartitionRepack, GcIndInv
<1>4. /\ gc'.pc = "age" /\ gc'.cutoff = gc.cutoff /\ gc'.loose = gc.loose
      /\ gc'.normal = gc.normal /\ gc'.cruft = gc.cruft /\ gc'.kept = gc.kept /\ gc'.ages = gc.ages
      /\ gc'.target = (Owned \cap refs) \ gc.kept /\ gc'.candidates = (Owned \ refs) \ gc.kept
  BY <1>2 DEF PartitionRepack, GcType
<1>3. NoYounger /\ AllHeld' /\ StoreOK'
  <2>1. NoYounger BY <1>1, <1>2, <1>4, YoungStays DEF Running
  <2> QED BY <1>1, <1>2, <2>1, RestHolds, RestStore
<1>5. RunOK' BY <1>1, <1>2, <1>4 DEF GcIndInv, RunOK, Rests
<1>6. CensusOK'
  <2>1. CensusOK /\ gc.pc \in Planning BY <1>2 DEF GcIndInv, Planning
  <2>2. ASSUME NEW o \in Objects, o \notin Lost', Young(o)'
        PROVE  o \in gc'.kept \cup gc'.target \/ gc'.ages[o] >= seen'[o] \/ loose'[o] >= seen'[o]
    <3>1. o \notin Lost /\ Young(o) BY <1>1, <1>3, <2>2, RestIs DEF NoYounger
    <3>2. o \in gc.kept \/ gc.ages[o] >= seen[o] \/ loose[o] >= seen[o] BY <1>2, <2>1, <3>1 DEF CensusOK
    <3> QED BY <1>1, <1>4, <3>2 DEF Rests
  <2> QED BY <1>1, <1>4, <2>1, <2>2, RestIs DEF CensusOK
<1>7. PartitionOK'
  <2>1. Owned' = Owned BY <1>4 DEF Owned
  <2>2. refs' = refs BY <1>1 DEF Rests
  <2> QED BY <1>4, <2>1, <2>2 DEF PartitionOK
<1> QED BY <1>3, <1>4, <1>5, <1>6, <1>7 DEF GcIndInv, HeldOK, PlanOK, Carrying, Verified, Removing

\* StageCruft: the outcome's kind, and the pack that carries the survivors.
LEMMA StageIs ==
  ASSUME TypeOK, NEW S, S \subseteq Objects
  PROVE  LET staged == StageCruft(S) IN
         /\ staged.out = IF staged.kind = "loosen" THEN {} ELSE S
         /\ staged.kind \in {"loosen", "settled", "fresh"}
         /\ staged.kind = "fresh" => S # {}
         /\ staged.kind = "settled" => S = {} \/ S \in gc.cruft
<1>1. CASE Cardinality(gc.cruft) = 1 /\ S = UNION gc.cruft
  <2>1. IsFiniteSet(SUBSET Objects) BY StoreAssumption, FS_SUBSET
  <2>2. IsFiniteSet(gc.cruft)
    <3>1. gc.cruft \subseteq SUBSET Objects BY Typed DEF Names
    <3> QED BY <2>1, <3>1, FS_Subset
  <2>3. PICK x : gc.cruft = {x} BY <1>1, <2>2, FS_Singleton
  <2>4. S = x /\ x \in gc.cruft BY <1>1, <2>3
  <2> QED BY <2>4 DEF StageCruft
<1>2. CASE ~(Cardinality(gc.cruft) = 1 /\ S = UNION gc.cruft) BY <1>2 DEF StageCruft
<1> QED BY <1>1, <1>2

\* ageCruftCandidates: the plan gc makes has a place for everything that is needed.
LEMMA AgeKept ==
  ASSUME GcIndInv, TypeOK', AgeCandidates
  PROVE  GcIndInv'
<1> DEFINE mt == CruftMtimes
           S == {o \in gc.candidates : mt[o] > gc.cutoff}
           staged == StageCruft(S)
<1>1. Rests BY DEF AgeCandidates, Rests, outside, history
<1>2. gc.pc = "age" /\ TypeOK /\ gc \in GcType /\ StoreOK /\ gc.pc \in Planning
  BY Typed DEF AgeCandidates, GcIndInv, Planning
<1>4. /\ gc'.pc = "pack" /\ gc'.cutoff = gc.cutoff /\ gc'.loose = gc.loose
      /\ gc'.normal = gc.normal /\ gc'.cruft = gc.cruft /\ gc'.kept = gc.kept /\ gc'.ages = mt
      /\ gc'.target = gc.target /\ gc'.candidates = gc.candidates
      /\ gc'.survivors = S /\ gc'.staged = staged
  BY <1>2 DEF AgeCandidates, GcType
<1>3. NoYounger /\ AllHeld' /\ StoreOK' /\ Running
  <2>1. NoYounger /\ Running BY <1>1, <1>2, <1>4, YoungStays DEF Running
  <2> QED BY <1>1, <1>2, <2>1, RestHolds, RestStore
<1>5. lapsed' = lapsed \cup {o \in S : AgeLeft(staged, o, mt) < mt[o]} BY DEF AgeCandidates
<1>6. RunOK' BY <1>1, <1>2, <1>4 DEF GcIndInv, RunOK, Rests
<1>7. CensusOK' BY <1>4 DEF CensusOK, Planning
<1>8. /\ gc.target \cup gc.candidates = Owned \ gc.kept /\ gc.target \cap gc.candidates = {}
      /\ \A o \in (refs \ Lost) \cap gc.candidates : Young(o)
  BY <1>2 DEF GcIndInv, PartitionOK
<1>9. PartitionOK'
  <2>1. Owned' = Owned BY <1>4 DEF Owned
  <2> QED BY <1>4, <1>8, <2>1 DEF PartitionOK
<1>10. gc.normal = NormalPacks /\ gc.cruft = CruftPacks /\ gc.kept = KeptObjects
  BY <1>2 DEF GcIndInv, CensusOK
<1>11. S \subseteq Objects /\ S \subseteq gc.candidates /\ gc.target \subseteq Objects BY <1>2, Typed
<1>12. /\ staged.out = IF staged.kind = "loosen" THEN {} ELSE S
       /\ staged.kind \in {"loosen", "settled", "fresh"}
       /\ staged.kind = "fresh" => S # {}
       /\ staged.kind = "settled" => S = {} \/ S \in gc.cruft
  BY <1>2, <1>11, StageIs
<1>13. \A o \in Objects : mt[o] \in Nat /\ mt[o] >= gc.ages[o] /\ (o \in gc.loose => mt[o] >= loose[o])
  BY <1>2, MtimesTyped, GraceAssumption DEF Times
<1>14. TargetOK'
  <2> SUFFICES ASSUME gc.target # {}, IsCruft(gc.target)
               PROVE  gc.target \subseteq litter' \/ gc.target \in gc.cruft
    BY <1>1, <1>4, RestIs DEF TargetOK, Removing
  <2>1. gc.target \in Names /\ gc.target \notin keep BY <1>2, <1>8, <1>10, <1>11, NameOf, KeptApart
  <2>2. CASE Present(gc.target) BY <1>10, <2>1, <2>2 DEF CruftPacks
  <2>3. CASE ~Present(gc.target) BY <1>1, <1>2, <2>1, <2>3 DEF StoreOK, Rests
  <2> QED BY <2>2, <2>3
<1>15. StagedOK'
  <2>1. \A o \in S : mt[o] # 0 BY <1>2, <1>11, <1>13, Typed
  <2>2. staged.kind = "settled" /\ S # {} => Present(S) /\ IsCruft(S) BY <1>10, <1>12 DEF CruftPacks
  <2>3. staged.kind = "settled" /\ S # {} => packs'[S].idx /\ packs'[S].pack # 0 /\ packs'[S].ages # NoAges
    BY <1>1, <2>2 DEF Rests, Present, IsCruft
  <2> QED BY <1>4, <1>11, <1>12, <2>1, <2>3 DEF StagedOK, Verified, Removing, Present, IsCruft, NoAges
<1>16. ASSUME NEW o \in Objects, o \notin Lost', Needed(o)'
       PROVE  Planned(o)'
  <2>1. o \notin Lost /\ Needed(o) /\ (Young(o)' => Young(o)) /\ loose' = loose /\ seen' = seen /\ packs' = packs
    BY <1>1, <1>3, <1>16, RestIs DEF Rests, NoYounger, Needed
  <2>2. CASE o \in gc.kept \cup gc.target BY <1>4, <2>2 DEF Planned, Targeted
  <2>3. loose[o] \in Nat /\ seen[o] \in Nat /\ gc.ages[o] \in Nat /\ gc.cutoff \in Nat BY <1>2, Typed
  <2>4. CASE o \in gc.candidates
    <3>1. Young(o) BY <1>8, <2>1, <2>4 DEF Needed
    <3>2. o \notin gc.kept /\ o \notin gc.target BY <1>8, <2>4
    <3>3. gc.ages[o] >= seen[o] \/ loose[o] >= seen[o] BY <1>2, <2>1, <3>1, <3>2 DEF GcIndInv, CensusOK
    <3>4. seen[o] # 0 /\ seen[o] > gc.cutoff BY <1>2, <3>1, YoungSurvives DEF GcIndInv, Young
    <3>5. CASE o \notin gc.loose /\ loose[o] >= seen[o] BY <1>4, <2>1, <2>3, <3>4, <3>5 DEF Planned
    <3>6. CASE ~(o \notin gc.loose /\ loose[o] >= seen[o])
      <4>1. mt[o] >= seen[o] BY <1>13, <2>3, <3>3, <3>6
      <4>2. o \in S BY <1>13, <2>3, <2>4, <3>4, <4>1
      <4>3. ~(AgeLeft(staged, o, mt) < mt[o]) BY <1>5, <1>16, <4>2 DEF Lost
      <4>4. Left(o)'
        <5>1. CASE staged.kind = "fresh" BY <1>4, <2>1, <4>1, <5>1 DEF Left
        <5>2. CASE staged.kind = "settled"
          <6>1. S \in Names BY <1>10, <1>12, <4>2, <5>2 DEF CruftPacks
          <6>2. AgeLeft(staged, o, mt) = packs[S].ages[o] /\ packs[S].ages[o] \in Nat
            BY <1>2, <1>12, <5>2, <6>1, Typed DEF AgeLeft
          <6>3. packs[S].ages[o] >= seen[o] BY <1>13, <2>3, <4>1, <4>3, <6>2
          <6> QED BY <1>4, <2>1, <5>2, <6>3 DEF Left
        <5>3. CASE staged.kind = "loosen"
          <6>1. CASE o \in gc.loose
            <7>1. AgeLeft(staged, o, mt) = loose[o] BY <5>3, <6>1 DEF AgeLeft
            <7>2. loose[o] >= seen[o] /\ loose[o] # 0 BY <1>13, <2>3, <3>4, <4>1, <4>3, <7>1
            <7> QED BY <1>4, <2>1, <5>3, <6>1, <7>2 DEF Left
          <6>2. CASE o \notin gc.loose BY <1>4, <2>1, <5>3, <6>2 DEF Left
          <6> QED BY <6>1, <6>2
        <5> QED BY <1>12, <5>1, <5>2, <5>3
      <4> QED BY <1>4, <4>2, <4>4 DEF Planned
    <3> QED BY <3>5, <3>6
  <2>5. CASE o \notin gc.kept /\ o \notin Owned
    <3>1. o \notin gc.loose /\ \A p \in gc.normal \cup gc.cruft : o \notin p BY <2>5 DEF Owned
    <3>2. \A p \in Names : Present(p) => o \notin p
      <4> SUFFICES ASSUME NEW p \in Names, Present(p), o \in p PROVE FALSE OBVIOUS
      <4>1. CASE p \in keep BY <1>10, <2>5, <4>1 DEF KeptObjects
      <4>2. CASE p \notin keep BY <1>10, <3>1, <4>2 DEF NormalPacks, CruftPacks
      <4> QED BY <4>1, <4>2
    <3>3. Held(o) BY <2>1, HeldNow DEF AllHeld
    <3>4. Young(o) => loose[o] >= seen[o] BY <1>10, <2>5, <3>1, <3>3 DEF Held, Backed
    <3>5. loose[o] # 0
      <4>1. CASE Young(o) BY <2>3, <3>4, <4>1 DEF Young
      <4>2. CASE o \in refs BY <3>2, <3>3, <4>2, ReadableIs DEF Held
      <4> QED BY <2>1, <4>1, <4>2 DEF Needed
    <3> QED BY <1>4, <2>1, <3>1, <3>4, <3>5 DEF Planned
  <2> QED BY <1>8, <2>2, <2>4, <2>5
<1>17. PlanOK'
  <2>1. gc'.kept = KeptObjects' /\ (gc'.normal \cup gc'.cruft) \cap keep' = {}
    BY <1>1, <1>4, <1>10, RestIs DEF NormalPacks, CruftPacks, Rests
  <2>2. \A p \in gc'.normal : ~IsCruft(p)' BY <1>1, <1>4, <1>10, RestIs DEF NormalPacks
  <2>3. \A p \in Names \ keep' : Present(p)' => p \in Remaining'
    BY <1>1, <1>4, <1>10, RestIs DEF NormalPacks, CruftPacks, Rests, Remaining, Retiring
  <2>4. RetiringOK' BY <1>4 DEF RetiringOK
  <2> QED BY <1>14, <1>15, <1>16, <2>1, <2>2, <2>3, <2>4 DEF PlanOK
<1> QED BY <1>3, <1>6, <1>7, <1>9, <1>17 DEF GcIndInv, HeldOK

------------------------------
(* The steps that carry the plan out. *)

\* gc goes by the plan it made.
SamePlan ==
  /\ gc'.cutoff = gc.cutoff /\ gc'.loose = gc.loose /\ gc'.normal = gc.normal /\ gc'.cruft = gc.cruft
  /\ gc'.kept = gc.kept /\ gc'.ages = gc.ages /\ gc'.target = gc.target
  /\ gc'.candidates = gc.candidates /\ gc'.survivors = gc.survivors /\ gc'.staged = gc.staged

\* Nobody else acts.
Frame ==
  /\ keep' = keep /\ refs' = refs /\ clock' = clock /\ seen' = seen
  /\ lapsed \subseteq lapsed' /\ litter \subseteq litter' /\ misled \subseteq misled'

\* No object becomes young by that.
LEMMA FrameYoung ==
  ASSUME Frame, SamePlan, gc.pc \in Carrying, gc'.pc \in Carrying
  PROVE  \A o : Young(o)' <=> Young(o)
<1>1. Running /\ Running' BY DEF Running, Carrying, Verified, Removing
<1> QED BY <1>1 DEF Frame, SamePlan, Young

\* As long as a survivor's loose file and sidecar stay, what is planned for the objects is, too.
LEMMA FramePlanned ==
  ASSUME GcIndInv, SamePlan, Frame, gc.pc \in Carrying, gc'.pc \in Carrying,
         \A o \in Objects : loose'[o] = loose[o] \/ (o \in gc.survivors \ gc.loose /\ loose'[o] = clock),
         gc.staged.kind = "settled" /\ gc.survivors # {} => packs'[gc.survivors].ages = packs[gc.survivors].ages,
         gc.staged.kind = "loosen" =>
           \/ gc'.pc \in {"pack", "idx", "loosen"} \/ gc.pc \notin {"pack", "idx", "loosen"}
           \/ \A o \in gc.survivors \ gc.loose : loose'[o] = clock,
         gc.target # {} /\ gc'.pc # "pack" =>
           IF gc.pc = "pack" THEN packs'[gc.target].pack = clock
                             ELSE packs'[gc.target].pack = packs[gc.target].pack
  PROVE  PartitionOK' /\ \A o \in Objects : o \notin Lost' /\ Needed(o)' => Planned(o)'
<1>1. Owned' = Owned /\ gc'.pc # "age" BY DEF Owned, SamePlan, Carrying, Verified, Removing
<1>2. PartitionOK' BY <1>1 DEF GcIndInv, PartitionOK, SamePlan
<1>3. TypeOK /\ StoreOK /\ gc.survivors \subseteq Objects BY Typed DEF GcIndInv
<1>4. ASSUME NEW o \in Objects, o \notin Lost', Needed(o)' PROVE Planned(o)'
  <2>1. o \notin Lost /\ Needed(o) /\ (Young(o)' <=> Young(o)) BY <1>4, FrameYoung DEF Frame, Lost, Needed
  <2>2. Planned(o) BY <2>1 DEF GcIndInv, PlanOK
  <2>3. clock # 0 /\ clock >= seen[o] /\ seen' = seen BY <1>3, Typed DEF StoreOK, Frame
  <2>4. CASE o \in gc.kept \/ Targeted(o)
    <3>1. CASE o \in gc.kept BY <3>1 DEF Planned, SamePlan
    <3>2. CASE Targeted(o) /\ gc'.pc # "pack"
      <4>1. packs'[gc.target].pack = clock \/ (gc.pc # "pack" /\ packs'[gc.target].pack = packs[gc.target].pack)
        BY <3>2 DEF Targeted
      <4> QED BY <2>1, <2>3, <3>2, <4>1 DEF Planned, Targeted, SamePlan
    <3>3. CASE Targeted(o) /\ gc'.pc = "pack" BY <3>3 DEF Planned, Targeted, SamePlan
    <3> QED BY <2>4, <3>1, <3>2, <3>3
  <2>5. CASE o \notin gc.loose /\ loose[o] # 0 /\ (Young(o) => loose[o] >= seen[o])
    <3>1. loose'[o] # 0 /\ (Young(o)' => loose'[o] >= seen'[o]) BY <2>1, <2>3, <2>5
    <3> QED BY <2>5, <3>1 DEF Planned, SamePlan
  <2>6. CASE o \in gc.survivors /\ Left(o)
    <3>1. gc.staged.kind \in {"fresh", "settled", "loosen"} BY <1>3, Typed
    <3>2. CASE gc.staged.kind = "fresh" BY <2>1, <2>3, <2>6, <3>2 DEF Planned, Left, SamePlan
    <3>3. CASE gc.staged.kind = "settled" BY <2>1, <2>3, <2>6, <3>3 DEF Planned, Left, SamePlan
    <3>4. CASE gc.staged.kind = "loosen" /\ o \in gc.loose
      <4>1. loose'[o] = loose[o] BY <3>4
      <4> QED BY <2>1, <2>3, <2>6, <3>4, <4>1 DEF Planned, Left, SamePlan
    <3>5. CASE gc.staged.kind = "loosen" /\ o \notin gc.loose
      <4>1. CASE gc'.pc \in {"pack", "idx", "loosen"} BY <2>6, <3>5, <4>1 DEF Planned, Left, SamePlan
      <4>2. CASE gc.pc \notin {"pack", "idx", "loosen"} BY <2>6, <3>5, <4>2 DEF Left
      <4>3. CASE loose'[o] = clock BY <2>3, <3>5, <4>3 DEF Planned, SamePlan
      <4> QED BY <2>6, <3>5, <4>1, <4>2, <4>3
    <3> QED BY <3>1, <3>2, <3>3, <3>4, <3>5
  <2> QED BY <2>2, <2>4, <2>5, <2>6 DEF Planned
<1> QED BY <1>2, <1>4

\* verifyPacked: gc fails, or goes on with everything in place.
LEMMA VerifyKept ==
  ASSUME GcIndInv, TypeOK', VerifyPacked
  PROVE  GcIndInv'
<1>1. Rests BY DEF VerifyPacked, Rests, outside, history
<1>2. gc.pc = "verify" /\ TypeOK /\ gc \in GcType BY Typed DEF VerifyPacked, GcIndInv
<1>3. AllHeld' /\ StoreOK'
  <2>1. gc'.pc = "idle" \/ gc'.cutoff = gc.cutoff BY <1>2 DEF VerifyPacked, Idle, GcType
  <2>2. NoYounger BY <1>1, <1>2, <2>1, YoungStays DEF Running
  <2> QED BY <1>1, <1>2, <2>2, RestHolds, RestStore
<1>4. CASE gc' = Idle BY <1>3, <1>4, IdleKept
<1>5. CASE gc' = [gc EXCEPT !.pc = "declassify"]
  <2>1. gc'.pc = "declassify" /\ SamePlan BY <1>2, <1>5 DEF GcType, SamePlan
  <2>2. gc.pc \in Carrying /\ gc'.pc \in Carrying /\ gc'.pc \notin Planning
    BY <1>2, <2>1 DEF Carrying, Verified, Planning
  <2>3. Frame BY <1>1 DEF Rests, Frame
  <2>4. PartitionOK' /\ \A o \in Objects : o \notin Lost' /\ Needed(o)' => Planned(o)'
    BY <1>1, <1>2, <2>1, <2>2, <2>3, FramePlanned DEF Rests
  <2>5. RunOK' /\ CensusOK' BY <1>1, <1>2, <2>1, <2>2 DEF GcIndInv, RunOK, Rests, SamePlan, CensusOK
  <2>6. TargetOK' /\ StagedOK' /\ RetiringOK' BY <1>1, <1>2, <2>1, <2>2, RestIs
    DEF GcIndInv, PlanOK, SamePlan, Rests, TargetOK, StagedOK, RetiringOK, Verified, Removing
  <2>7. PlanOK' BY <1>1, <1>2, <2>1, <2>2, <2>4, <2>6, RestIs
    DEF GcIndInv, PlanOK, SamePlan, Rests, Remaining, Retiring
  <2> QED BY <1>3, <2>4, <2>5, <2>7 DEF GcIndInv, HeldOK
<1> QED BY <1>4, <1>5 DEF VerifyPacked

\* A file of the pack that is being put in place is added.
LEMMA AddKept ==
  ASSUME GcIndInv, TypeOK', SamePlan, Frame, Adds, gc.pc \in Carrying \ Removing, gc'.pc \in Carrying \ Removing,
         NEW x \in {gc.target, gc.staged.out},
         \A p \in Names : packs'[p].ages = packs[p].ages /\ (p # x => packs'[p] = packs[p]),
         \A o \in Objects : loose'[o] = loose[o] \/ (o \in gc.survivors \ gc.loose /\ loose'[o] = clock),
         gc.staged.kind = "loosen" =>
           \/ gc'.pc \in {"pack", "idx", "loosen"} \/ gc.pc \notin {"pack", "idx", "loosen"}
           \/ \A o \in gc.survivors \ gc.loose : loose'[o] = clock,
         gc.target # {} /\ gc'.pc # "pack" =>
           IF gc.pc = "pack" THEN packs'[gc.target].pack = clock
                             ELSE packs'[gc.target].pack = packs[gc.target].pack,
         TargetOK', StagedOK'
  PROVE  GcIndInv'
<1>1. TypeOK /\ StoreOK /\ gc.survivors \subseteq Objects /\ keep \subseteq Names /\ clock # 0
  BY Typed DEF GcIndInv, TypeOK, StoreOK
<1>2. gc.staged.kind = "settled" /\ gc.survivors # {} => packs'[gc.survivors].ages = packs[gc.survivors].ages
  BY <1>1, NameOf
<1>3. PartitionOK' /\ \A o \in Objects : o \notin Lost' /\ Needed(o)' => Planned(o)' BY <1>2, FramePlanned
<1>4. AllHeld'
  <2> SUFFICES ASSUME NEW o \in Objects, o \notin Lost' PROVE Held(o)' BY DEF AllHeld
  <2>1. o \notin Lost /\ refs' = refs /\ seen' = seen /\ (Young(o)' <=> Young(o)) BY FrameYoung DEF Frame, Lost
  <2>2. Held(o) BY <2>1, HeldNow DEF AllHeld
  <2> QED BY <1>1, <2>1, <2>2, AddsHolds DEF Held
<1>5. \A p \in Names : (IsCruft(p)' <=> IsCruft(p)) /\ (Present(p) => Present(p)') BY DEF IsCruft, Adds
<1>6. StoreOK'
  <2>1. \A p \in Names : IsCruft(p)' /\ ~Present(p)' => p \subseteq litter'
    <3> SUFFICES ASSUME NEW p \in Names, IsCruft(p)', ~Present(p)' PROVE p \subseteq litter' OBVIOUS
    <3>1. IsCruft(p) /\ ~Present(p) BY <1>5
    <3> QED BY <1>1, <3>1 DEF StoreOK, Frame, Removing
  <2>2. \A p \in keep' : Present(p)' BY <1>1, <1>5 DEF StoreOK, Frame
  <2> QED BY <1>1, <2>1, <2>2 DEF StoreOK, Frame
<1>7. RunOK'
  <2>1. \A o \in gc.loose : loose[o] # 0 /\ loose'[o] # 0 BY <1>1, Typed DEF GcIndInv, RunOK, Removing
  <2> QED BY <2>1 DEF GcIndInv, RunOK, SamePlan, Frame
<1>8. CensusOK' BY DEF CensusOK, Planning, Carrying, Verified, Removing
<1>9. PlanOK'
  <2>1. PlanOK /\ gc.pc \in Carrying BY DEF GcIndInv
  <2>2. KeptObjects' = KeptObjects
    <3>1. \A p \in keep : Present(p) /\ Present(p)' BY <1>1, <1>5 DEF StoreOK
    <3> QED BY <3>1 DEF KeptObjects, Frame
  <2>3. gc'.kept = KeptObjects' /\ (gc'.normal \cup gc'.cruft) \cap keep' = {}
    BY <2>1, <2>2 DEF PlanOK, SamePlan, Frame
  <2>4. \A p \in gc'.normal : IsCruft(p)' => p = gc'.survivors /\ gc'.staged.kind = "fresh"
    BY <1>1, <1>5, <2>1, Typed DEF PlanOK, SamePlan
  <2>5. \A p \in Names \ keep' : Present(p)' => p \in Remaining' \cup {gc'.target, gc'.staged.out}
    <3>2. Remaining' = Remaining BY DEF Remaining, Retiring, Removing, SamePlan
    <3> SUFFICES ASSUME NEW p \in Names, p \notin keep, Present(p)', p # x
                 PROVE  p \in Remaining \cup {gc.target, gc.staged.out}
      BY <3>2 DEF SamePlan, Frame
    <3>1. Present(p) BY DEF Present
    <3> QED BY <2>1, <3>1 DEF PlanOK
  <2>6. RetiringOK' BY DEF RetiringOK, Removing
  <2> QED BY <1>3, <2>3, <2>4, <2>5, <2>6 DEF PlanOK
<1> QED BY <1>3, <1>4, <1>6, <1>7, <1>8, <1>9 DEF GcIndInv, HeldOK

\* Where gc goes on once the normal pack is in place.
LEMMA AfterNormalIs ==
  ASSUME TypeOK
  PROVE  /\ AfterNormal \in {"verify", "fresh", "loosen"}
         /\ AfterNormal = "verify" <=> gc.staged.kind = "settled"
         /\ AfterNormal = "fresh" <=> gc.staged.kind = "fresh"
         /\ AfterNormal = "loosen" <=> gc.staged.kind = "loosen"
BY Typed DEF AfterNormal

\* The .pack of the reachable objects is renamed into place.
LEMMA InstallPackKept ==
  ASSUME GcIndInv, TypeOK', InstallPack
  PROVE  GcIndInv'
<1>1. gc.pc = "pack" /\ TypeOK /\ StoreOK /\ gc \in GcType /\ PlanOK /\ gc.target \subseteq Objects
  BY Typed DEF InstallPack, GcIndInv
<1>2. SamePlan /\ gc'.pc = IF gc.target = {} THEN AfterNormal ELSE "idx" BY <1>1 DEF InstallPack, GcType, SamePlan
<1>3. Frame /\ loose' = loose BY DEF InstallPack, Frame, outside, history
<1>4. gc'.pc \in {"idx", "verify", "fresh", "loosen"} BY <1>1, <1>2, AfterNormalIs
<1>5. gc.pc \in Carrying \ Removing /\ gc'.pc \in Carrying \ Removing BY <1>1, <1>4 DEF Carrying, Verified, Removing
<1>6. /\ TargetOK /\ StagedOK /\ gc.target \cap gc.survivors = {}
  BY <1>1, <1>5 DEF GcIndInv, PlanOK, PartitionOK, StagedOK
<1>7. \A p \in Names : packs[p] \in [idx : BOOLEAN, pack : Times, ages : [Objects -> Times]] BY <1>1, Typed
<1>8. \A p \in Names : /\ packs'[p].ages = packs[p].ages /\ packs'[p].idx = packs[p].idx
                       /\ p # gc.target => packs'[p] = packs[p]
                       /\ p = gc.target => packs'[p].pack = clock
  <2>1. packs \in [Names -> [idx : BOOLEAN, pack : Times, ages : [Objects -> Times]]] BY <1>1 DEF TypeOK
  <2>2. CASE gc.target = {} BY <2>2 DEF InstallPack, Names
  <2>3. CASE gc.target # {}
    <3>1. packs' = [packs EXCEPT ![gc.target].pack = clock] BY <2>3 DEF InstallPack
    <3> QED BY <1>7, <2>1, <3>1
  <2> QED BY <2>2, <2>3
<1>9. Adds BY <1>1, <1>3, <1>8 DEF Adds, Frame, Present, StoreOK
<1>10. TargetOK'
  <2> SUFFICES ASSUME gc.target # {} PROVE TargetOK' BY <1>2 DEF TargetOK, SamePlan
  <2>1. gc.target \in Names /\ gc'.pc = "idx" BY <1>1, <1>2, NameOf
  <2>2. packs'[gc.target].pack = clock /\ packs'[gc.target].ages = packs[gc.target].ages BY <1>8, <2>1
  <2>3. clock # 0 BY <1>1 DEF StoreOK
  <2> QED BY <2>3, <1>2, <1>3, <1>6, <2>1, <2>2 DEF TargetOK, SamePlan, Frame, IsCruft, Removing
<1>11. StagedOK'
  <2>1. gc.survivors # {} => gc.survivors \in Names /\ packs'[gc.survivors] = packs[gc.survivors]
    <3> SUFFICES ASSUME gc.survivors # {} PROVE gc.survivors \in Names /\ packs'[gc.survivors] = packs[gc.survivors]
      OBVIOUS
    <3>1. gc.survivors \in Names /\ gc.survivors # gc.target BY <1>1, <1>6, NameOf, Typed
    <3> QED BY <1>8, <3>1
  <2>2. gc'.pc = "fresh" => gc.staged.kind = "fresh" BY <1>1, <1>2, AfterNormalIs
  <2>3. gc'.pc = "loosen" => gc.staged.kind = "loosen" BY <1>1, <1>2, AfterNormalIs
  <2>4. gc'.pc = "verify" => gc.staged.kind = "settled" BY <1>1, <1>2, AfterNormalIs
  <2> QED BY <1>1, <1>2, <1>4, <1>6, <2>1, <2>2, <2>3, <2>4
          DEF StagedOK, SamePlan, Present, IsCruft, Verified, Removing
<1>12. gc.staged.kind = "loosen" => gc'.pc \in {"idx", "loosen"} BY <1>1, <1>2, AfterNormalIs
<1>13. gc.target # {} => packs'[gc.target].pack = clock BY <1>1, <1>8, NameOf
<1> QED BY <1>1, <1>13, <1>2, <1>3, <1>5, <1>8, <1>9, <1>10, <1>11, <1>12, AddKept

\* Its .idx is.
LEMMA InstallIdxKept ==
  ASSUME GcIndInv, TypeOK', InstallIdx
  PROVE  GcIndInv'
<1>1. gc.pc = "idx" /\ TypeOK /\ StoreOK /\ gc \in GcType /\ PlanOK /\ gc.target \subseteq Objects
  BY Typed DEF InstallIdx, GcIndInv
<1>2. SamePlan /\ gc'.pc = AfterNormal BY <1>1 DEF InstallIdx, GcType, SamePlan
<1>3. Frame /\ loose' = loose BY DEF InstallIdx, Frame, outside, history
<1>4. gc'.pc \in {"verify", "fresh", "loosen"} BY <1>1, <1>2, AfterNormalIs
<1>5. gc.pc \in Carrying \ Removing /\ gc'.pc \in Carrying \ Removing BY <1>1, <1>4 DEF Carrying, Verified, Removing
<1>6. /\ TargetOK /\ StagedOK /\ gc.target \cap gc.survivors = {}
  BY <1>1, <1>5 DEF GcIndInv, PlanOK, PartitionOK, StagedOK
<1>7. \A p \in Names : packs[p] \in [idx : BOOLEAN, pack : Times, ages : [Objects -> Times]] BY <1>1, Typed
<1>8. \A p \in Names : /\ packs'[p].ages = packs[p].ages /\ packs'[p].pack = packs[p].pack
                       /\ p # gc.target => packs'[p] = packs[p]
                       /\ p = gc.target => packs'[p].idx
                       /\ packs[p].idx => packs'[p].idx
  <2>1. packs \in [Names -> [idx : BOOLEAN, pack : Times, ages : [Objects -> Times]]] BY <1>1 DEF TypeOK
  <2>2. packs' = [packs EXCEPT ![gc.target].idx = TRUE] BY DEF InstallIdx
  <2> QED BY <1>7, <2>1, <2>2
<1>9. Adds BY <1>1, <1>3, <1>8 DEF Adds, Frame, Present, StoreOK
<1>10. TargetOK'
  <2> SUFFICES ASSUME gc.target # {} PROVE TargetOK' BY <1>2 DEF TargetOK, SamePlan
  <2>1. gc.target \in Names BY <1>1, NameOf
  <2>2. /\ packs'[gc.target].pack = packs[gc.target].pack /\ packs'[gc.target].ages = packs[gc.target].ages
        /\ packs'[gc.target].idx
    BY <1>8, <2>1
  <2> QED BY <1>1, <1>2, <1>3, <1>4, <1>6, <2>1, <2>2 DEF TargetOK, SamePlan, Frame, IsCruft, Removing
<1>11. StagedOK'
  <2>1. gc.survivors # {} => gc.survivors \in Names /\ packs'[gc.survivors] = packs[gc.survivors]
    <3> SUFFICES ASSUME gc.survivors # {} PROVE gc.survivors \in Names /\ packs'[gc.survivors] = packs[gc.survivors]
      OBVIOUS
    <3>1. gc.survivors \in Names /\ gc.survivors # gc.target BY <1>1, <1>6, NameOf, Typed
    <3> QED BY <1>8, <3>1
  <2>2. gc'.pc = "fresh" => gc.staged.kind = "fresh" BY <1>1, <1>2, AfterNormalIs
  <2>3. gc'.pc = "loosen" => gc.staged.kind = "loosen" BY <1>1, <1>2, AfterNormalIs
  <2>4. gc'.pc = "verify" => gc.staged.kind = "settled" BY <1>1, <1>2, AfterNormalIs
  <2> QED BY <1>1, <1>2, <1>4, <1>6, <2>1, <2>2, <2>3, <2>4
          DEF StagedOK, SamePlan, Present, IsCruft, Verified, Removing
<1>12. gc.staged.kind = "loosen" => gc'.pc \in {"idx", "loosen"} BY <1>1, <1>2, AfterNormalIs
<1>13. gc.target # {} => packs'[gc.target].pack = packs[gc.target].pack BY <1>1, <1>8, NameOf
<1> QED BY <1>1, <1>13, <1>2, <1>3, <1>5, <1>8, <1>9, <1>10, <1>11, <1>12, AddKept

\* The cruft pack's .pack and .idx.
LEMMA CruftFilesKept ==
  ASSUME GcIndInv, TypeOK', CruftPack \/ CruftIdx
  PROVE  GcIndInv'
<1>1. /\ (gc.pc = "fresh" /\ CruftPack) \/ (gc.pc = "cruftIdx" /\ CruftIdx)
      /\ TypeOK /\ StoreOK /\ gc \in GcType /\ PlanOK /\ gc.survivors \subseteq Objects
  BY Typed DEF CruftPack, CruftIdx, GcIndInv
<1>2. SamePlan /\ gc'.pc = IF gc.pc = "fresh" THEN "cruftIdx" ELSE "sidecar"
  BY <1>1 DEF CruftPack, CruftIdx, GcType, SamePlan
<1>3. Frame /\ loose' = loose BY DEF CruftPack, CruftIdx, Frame, outside, history
<1>5. gc.pc \in Carrying \ Removing /\ gc'.pc \in Carrying \ Removing BY <1>1, <1>2 DEF Carrying, Verified, Removing
<1>6. /\ TargetOK /\ StagedOK /\ gc.target \cap gc.survivors = {} /\ gc.staged.kind = "fresh" /\ gc.survivors # {}
  BY <1>1, <1>5 DEF GcIndInv, PlanOK, PartitionOK, StagedOK
<1>7. \A p \in Names : packs[p] \in [idx : BOOLEAN, pack : Times, ages : [Objects -> Times]] BY <1>1, Typed
<1>s. gc.survivors \in Names BY <1>1, <1>6, NameOf
<1>8. /\ \A p \in Names : /\ packs'[p].ages = packs[p].ages
                          /\ p # gc.survivors => packs'[p] = packs[p]
                          /\ packs[p].idx => packs'[p].idx
                          /\ packs[p].pack # 0 => packs'[p].pack = packs[p].pack
      /\ gc.pc = "fresh" => packs'[gc.survivors].pack # 0
      /\ gc.pc = "cruftIdx" => packs'[gc.survivors].idx
  <2>1. packs \in [Names -> [idx : BOOLEAN, pack : Times, ages : [Objects -> Times]]] /\ clock # 0
    BY <1>1 DEF TypeOK, StoreOK
  <2>2. CASE CruftPack /\ gc.pc = "fresh"
    <3>1. packs' = [packs EXCEPT ![gc.survivors].pack = IF @ = 0 THEN clock ELSE @] BY <2>2 DEF CruftPack
    <3> QED BY <1>7, <1>s, <2>1, <2>2, <3>1
  <2>3. CASE CruftIdx /\ gc.pc = "cruftIdx"
    <3>1. packs' = [packs EXCEPT ![gc.survivors].idx = TRUE] BY <2>3 DEF CruftIdx
    <3> QED BY <1>7, <1>s, <2>1, <2>3, <3>1
  <2> QED BY <1>1, <2>2, <2>3
<1>9. Adds BY <1>1, <1>3, <1>8 DEF Adds, Frame, Present, StoreOK
<1>10. TargetOK'
  <2> SUFFICES ASSUME gc.target # {} PROVE TargetOK' BY <1>2 DEF TargetOK, SamePlan
  <2>1. gc.target \in Names /\ gc.target # gc.survivors BY <1>1, <1>6, NameOf, Typed
  <2>2. packs'[gc.target] = packs[gc.target] BY <1>8, <2>1
  <2> QED BY <1>1, <1>2, <1>3, <1>6, <2>2 DEF TargetOK, SamePlan, Frame, IsCruft, Removing
<1>11. StagedOK'
  <2>1. gc.pc = "cruftIdx" => packs'[gc.survivors].pack # 0 BY <1>6, <1>8, <1>s DEF StagedOK
  <2> QED BY <1>1, <1>2, <1>6, <1>8, <2>1 DEF StagedOK, SamePlan, Verified, Removing
<1>12. gc.target # {} => packs'[gc.target].pack = packs[gc.target].pack
  <2> SUFFICES ASSUME gc.target # {} PROVE packs'[gc.target] = packs[gc.target] OBVIOUS
  <2>1. gc.target \in Names /\ gc.target # gc.survivors BY <1>1, <1>6, NameOf, Typed
  <2> QED BY <1>8, <2>1
<1>13. gc.staged.out = gc.survivors /\ gc.pc # "pack" BY <1>1, <1>6 DEF StagedOK
<1> QED BY <1>2, <1>3, <1>5, <1>6, <1>8, <1>9, <1>10, <1>11, <1>12, <1>13, AddKept

\* loosenIfNotLoose: every survivor has a loose file now.
LEMMA LoosenKept ==
  ASSUME GcIndInv, TypeOK', Loosen
  PROVE  GcIndInv'
<1>1. gc.pc = "loosen" /\ TypeOK /\ StoreOK /\ gc \in GcType /\ PlanOK BY Typed DEF Loosen, GcIndInv
<1>2. SamePlan /\ gc'.pc = "verify" BY <1>1 DEF Loosen, GcType, SamePlan
<1>3. Frame /\ packs' = packs BY DEF Loosen, Frame, outside, history
<1>4. \A o \in Objects : loose'[o] = IF o \in gc.survivors \ gc.loose THEN clock ELSE loose[o] BY DEF Loosen
<1>5. gc.pc \in Carrying \ Removing /\ gc'.pc \in Carrying \ Removing BY <1>1, <1>2 DEF Carrying, Verified, Removing
<1>6. TargetOK /\ StagedOK /\ gc.staged.kind = "loosen" /\ gc.survivors \subseteq Objects
  BY <1>1, <1>5, Typed DEF PlanOK, StagedOK
<1>9. Adds BY <1>3, <1>4 DEF Adds, Frame, Present
<1>10. TargetOK' BY <1>1, <1>2, <1>3, <1>6 DEF TargetOK, SamePlan, Frame, IsCruft, Removing
<1>11. StagedOK' BY <1>2, <1>3, <1>6 DEF StagedOK, SamePlan
<1>12. \A o \in gc.survivors \ gc.loose : loose'[o] = clock BY <1>4, <1>6
<1> QED BY <1>1, <1>2, <1>3, <1>4, <1>5, <1>9, <1>10, <1>11, <1>12, AddKept

\* The sidecar that makes the new pack a cruft pack: it says of every survivor what the pack's mtime said.
LEMMA SidecarKept ==
  ASSUME GcIndInv, TypeOK', Sidecar
  PROVE  GcIndInv'
<1>1. gc.pc = "sidecar" /\ TypeOK /\ StoreOK /\ gc \in GcType /\ PlanOK /\ gc.survivors \subseteq Objects
  BY Typed DEF Sidecar, GcIndInv
<1>2. Frame /\ loose' = loose BY DEF Sidecar, Frame, outside, history
<1>3. CASE IsCruft(gc.survivors)
  <2>1. gc' = Idle /\ packs' = packs BY <1>3 DEF Sidecar
  <2>2. Rests BY <1>2, <2>1 DEF Rests, Frame, Sidecar, history
  <2>4. NoYounger BY <2>1, <2>2, YoungStays DEF Idle
  <2>3. AllHeld' /\ StoreOK' BY <1>1, <2>2, <2>4, RestHolds, RestStore
  <2> QED BY <2>1, <2>3, IdleKept
<1>4. CASE ~IsCruft(gc.survivors)
  <2> DEFINE f == [o \in Objects |-> IF o \in gc.survivors THEN gc.ages[o] ELSE 0]
  <2>1. gc' = [gc EXCEPT !.pc = "verify"] /\ packs' = [packs EXCEPT ![gc.survivors].ages = f] BY <1>4 DEF Sidecar
  <2>2. SamePlan /\ gc'.pc = "verify" BY <1>1, <2>1 DEF GcType, SamePlan
  <2>3. gc.pc \in Carrying /\ gc'.pc \in Carrying BY <1>1, <2>2 DEF Carrying, Verified
  <2>4. /\ TargetOK /\ StagedOK /\ gc.target \cap gc.survivors = {} /\ gc.staged.kind = "fresh" /\ gc.survivors # {}
        /\ gc.survivors \cap gc.kept = {} /\ gc.kept = KeptObjects
    BY <1>1, <2>3 DEF GcIndInv, PlanOK, PartitionOK, StagedOK
  <2>5. gc.survivors \in Names /\ Present(gc.survivors) BY <1>1, <2>4, NameOf DEF StagedOK, Present, Verified
  <2>6. \A p \in Names : packs[p] \in [idx : BOOLEAN, pack : Times, ages : [Objects -> Times]] BY <1>1, Typed
  <2>7. /\ \A p \in Names : /\ packs'[p].idx = packs[p].idx /\ packs'[p].pack = packs[p].pack
                            /\ p # gc.survivors => packs'[p] = packs[p]
        /\ packs'[gc.survivors].ages = f
    <3>1. packs \in [Names -> [idx : BOOLEAN, pack : Times, ages : [Objects -> Times]]] BY <1>1 DEF TypeOK
    <3> QED BY <2>1, <2>5, <2>6, <3>1
  <2>8. \A p \in Names : Present(p)' <=> Present(p) BY <2>7 DEF Present
  <2>9. \A p \in Names : p # gc.survivors => (IsCruft(p)' <=> IsCruft(p)) BY <2>7 DEF IsCruft
  <2>10. PartitionOK' /\ \A o \in Objects : o \notin Lost' /\ Needed(o)' => Planned(o)'
    <3>1. gc.target # {} => packs'[gc.target].pack = packs[gc.target].pack
      <4> SUFFICES ASSUME gc.target # {} PROVE packs'[gc.target].pack = packs[gc.target].pack OBVIOUS
      <4>1. gc.target \in Names BY <1>1, NameOf, Typed
      <4> QED BY <2>7, <4>1
    <3> QED BY <1>1, <1>2, <2>2, <2>3, <2>4, <3>1, FramePlanned
  <2>11. keep' = keep /\ keep \subseteq Names BY <1>1, <1>2 DEF TypeOK, Frame
  <2>12. KeptObjects' = KeptObjects BY <2>8, <2>11 DEF KeptObjects
  <2>13. gc.survivors \notin keep BY <1>1, <2>4, KeptApart
  <2>14. \A o \in gc.survivors : packs'[gc.survivors].ages[o] = gc.ages[o] /\ gc.ages[o] # 0
    BY <1>1, <2>4, <2>7 DEF StagedOK
  <2>15. IsCruft(gc.survivors)'
    <3>1. PICK o \in gc.survivors : TRUE BY <2>4
    <3>2. packs'[gc.survivors].ages[o] # 0 /\ o \in Objects BY <1>1, <2>14, <3>1
    <3>3. gc'.survivors = gc.survivors BY <2>2 DEF SamePlan
    <3> QED BY <3>2, <3>3 DEF IsCruft, NoAges
  <2>16. gc.survivors \in CruftPacks'
    <3>1. gc'.survivors = gc.survivors BY <2>2 DEF SamePlan
    <3>2. Present(gc.survivors)' BY <2>5, <2>8, <3>1
    <3> QED BY <2>5, <2>11, <2>13, <2>15, <3>1, <3>2 DEF CruftPacks
  <2>17. AllHeld'
    <3> SUFFICES ASSUME NEW o \in Objects, o \notin Lost' PROVE Held(o)' BY DEF AllHeld
    <3>1. o \notin Lost /\ refs' = refs /\ seen' = seen /\ (Young(o)' <=> Young(o))
      BY <1>2, <2>2, <2>3, FrameYoung DEF Frame, Lost
    <3>2. Held(o) BY <3>1, HeldNow DEF AllHeld
    <3>3. Readable(o)' <=> Readable(o) BY <1>2, <2>8 DEF Readable, Packed
    <3>4. ASSUME Young(o) PROVE Backed(o)'
      <4>1. Backed(o) BY <3>2, <3>4 DEF Held
      <4>2. CASE o \in KeptObjects BY <2>12, <4>2 DEF Backed
      <4>3. CASE loose[o] >= seen[o] BY <1>2, <3>1, <4>3 DEF Backed
      <4>4. CASE \E p \in NormalPacks : p # gc.survivors /\ o \in p /\ packs[p].pack >= seen[o]
        <5>1. PICK p \in NormalPacks : p # gc.survivors /\ o \in p /\ packs[p].pack >= seen[o] BY <4>4
        <5>2. p \in NormalPacks' /\ packs'[p].pack = packs[p].pack BY <2>7, <2>8, <2>9, <2>11, <5>1 DEF NormalPacks
        <5> QED BY <3>1, <5>1, <5>2 DEF Backed
      <4>5. CASE \E p \in CruftPacks : o \in p /\ packs[p].ages[o] >= seen[o]
        <5>1. PICK p \in CruftPacks : o \in p /\ packs[p].ages[o] >= seen[o] BY <4>5
        <5>2. p # gc.survivors BY <1>4, <5>1 DEF CruftPacks
        <5>3. p \in CruftPacks' /\ packs'[p] = packs[p] BY <2>7, <2>8, <2>9, <2>11, <5>1, <5>2 DEF CruftPacks
        <5> QED BY <3>1, <5>1, <5>3 DEF Backed
      <4>6. CASE o \in gc.survivors
        <5>1. o \notin gc.kept \cup gc.target BY <2>4, <4>6
        <5>2. Planned(o) BY <1>1, <2>3, <3>1, <3>4 DEF PlanOK, Needed
        <5>3. loose[o] >= seen[o] \/ gc.ages[o] >= seen[o] BY <2>4, <3>4, <5>1, <5>2 DEF Planned, Targeted, Left
        <5>4. CASE gc.ages[o] >= seen[o] BY <2>14, <2>16, <3>1, <4>6, <5>4 DEF Backed
        <5> QED BY <4>3, <5>3, <5>4
      <4> QED BY <4>1, <4>2, <4>3, <4>4, <4>5, <4>6 DEF Backed
    <3> QED BY <3>1, <3>2, <3>3, <3>4 DEF Held
  <2>18. StoreOK'
    <3>1. \A p \in Names : IsCruft(p)' /\ ~Present(p)' => p \subseteq litter'
      <4> SUFFICES ASSUME NEW p \in Names, IsCruft(p)', ~Present(p)' PROVE p \subseteq litter' OBVIOUS
      <4>1. ~Present(p) /\ p # gc.survivors BY <2>5, <2>8
      <4>2. IsCruft(p) BY <2>9, <4>1
      <4> QED BY <1>1, <1>2, <4>1, <4>2 DEF StoreOK, Frame
    <3>2. \A p \in keep' : Present(p)' BY <1>1, <2>8, <2>11 DEF StoreOK
    <3> QED BY <1>1, <1>2, <3>1, <3>2 DEF StoreOK, Frame
  <2>19. RunOK' BY <1>1, <1>2, <2>2 DEF GcIndInv, RunOK, SamePlan, Frame
  <2>20. CensusOK' BY <2>2 DEF CensusOK, Planning
  <2>21. TargetOK'
    <3> SUFFICES ASSUME gc.target # {} PROVE TargetOK' BY <2>2 DEF TargetOK, SamePlan
    <3>1. gc.target \in Names /\ gc.target # gc.survivors BY <1>1, <2>4, NameOf, Typed
    <3>2. packs'[gc.target] = packs[gc.target] BY <2>7, <3>1
    <3> QED BY <1>1, <1>2, <2>2, <2>4, <3>2 DEF TargetOK, SamePlan, Frame, IsCruft, Removing
  <2>22. StagedOK' BY <1>1, <2>2, <2>4, <2>5, <2>7, <2>14 DEF StagedOK, SamePlan, Verified, Removing
  <2>23. PlanOK'
    <3>1. gc'.kept = KeptObjects' /\ (gc'.normal \cup gc'.cruft) \cap keep' = {}
      BY <1>1, <2>2, <2>3, <2>11, <2>12 DEF PlanOK, SamePlan
    <3>2. \A p \in gc'.normal : IsCruft(p)' => p = gc'.survivors /\ gc'.staged.kind = "fresh"
      BY <1>1, <2>2, <2>3, <2>4, <2>9, Typed DEF PlanOK, SamePlan
    <3>3. \A p \in Names \ keep' : Present(p)' => p \in Remaining' \cup {gc'.target, gc'.staged.out}
      BY <1>1, <2>2, <2>3, <2>8, <2>11 DEF PlanOK, SamePlan, Remaining, Retiring
    <3>4. RetiringOK' BY <2>2 DEF RetiringOK
    <3> QED BY <2>10, <2>21, <2>22, <3>1, <3>2, <3>3, <3>4 DEF PlanOK
  <2> QED BY <2>10, <2>17, <2>18, <2>19, <2>20, <2>23 DEF GcIndInv, HeldOK
<1> QED BY <1>3, <1>4

\* A file of a pack that is no output of the run is removed, or the sidecar of the one that is.
LEMMA RemoveKept ==
  ASSUME GcIndInv, TypeOK', SamePlan, Frame, loose' = loose,
         gc.pc \in {"declassify"} \cup (Removing \ {"done"}), gc'.pc \in Removing \ {"done"},
         NEW x, x = {} \/ x \in gc.normal \cup gc.cruft,
         \A p \in Names : p # x => packs'[p] = packs[p],
         x # {} => (Present(x)' => Present(x)) /\ (IsCruft(x)' => IsCruft(x)),
         x # {} /\ x = gc.survivors => gc.staged.kind = "loosen",
         gc.pc = "declassify" /\ gc.target \in gc.cruft => x = gc.target,
         x = gc.target /\ x # {} =>
           packs'[x].idx = packs[x].idx /\ packs'[x].pack = packs[x].pack /\ ~IsCruft(x)',
         IsCruft(x)' /\ ~Present(x)' =>
           x \subseteq litter' \/ (gc'.pc \in {"retirePack", "retireAges"} /\ x = gc'.current),
         gc.pc \in {"retirePack", "retireAges"} => x = gc.current,
         Remaining \subseteq Remaining' \cup {gc.target, gc.staged.out} \cup (IF Present(x)' THEN {} ELSE {x}),
         RetiringOK'
  PROVE  GcIndInv'
<1>1. TypeOK /\ StoreOK /\ keep \subseteq Names /\ gc.pc \in Carrying /\ gc'.pc \in Carrying
  BY DEF GcIndInv, TypeOK, Carrying, Verified
<1>2. PlanOK /\ TargetOK /\ StagedOK BY <1>1 DEF GcIndInv, PlanOK
<1>3. /\ gc.normal \subseteq Names /\ gc.cruft \subseteq Names /\ gc.survivors \subseteq Objects
      /\ gc.target \subseteq Objects /\ {} \notin Names
  BY <1>1, Typed DEF Names
<1>4. gc.staged.kind # "loosen" /\ gc.survivors # {} =>
        gc.survivors \in Names /\ packs'[gc.survivors] = packs[gc.survivors]
  BY <1>3, NameOf
<1>5. PartitionOK' /\ \A o \in Objects : o \notin Lost' /\ Needed(o)' => Planned(o)'
  <2>1. gc.pc \notin {"pack", "idx", "loosen"} BY DEF Removing
  <2>2. gc.target # {} => packs'[gc.target].pack = packs[gc.target].pack
    <3> SUFFICES ASSUME gc.target # {} PROVE packs'[gc.target].pack = packs[gc.target].pack OBVIOUS
    <3>1. gc.target \in Names BY <1>3, NameOf
    <3> QED BY <3>1
  <2> QED BY <1>1, <1>4, <2>1, <2>2, FramePlanned
<1>6. \A p \in Names : (Present(p)' => Present(p)) /\ (IsCruft(p)' => IsCruft(p))
  <2> SUFFICES ASSUME NEW p \in Names PROVE (Present(p)' => Present(p)) /\ (IsCruft(p)' => IsCruft(p)) OBVIOUS
  <2>1. CASE p = x BY <1>3, <2>1
  <2>2. CASE p # x BY <2>2 DEF Present, IsCruft
  <2> QED BY <2>1, <2>2
<1>7. x \notin keep BY <1>1, <1>2, <1>3 DEF PlanOK
<1>8. \A p \in keep : packs'[p] = packs[p] BY <1>1, <1>7
<1>9. \A p \in keep : Present(p) /\ Present(p)' BY <1>1, <1>8 DEF StoreOK, Present
<1>10. keep' = keep /\ KeptObjects' = KeptObjects BY <1>9 DEF KeptObjects, Frame
<1>11. StoreOK'
  <2>1. ASSUME NEW p \in Names, IsCruft(p)', ~Present(p)'
        PROVE  p \subseteq litter' \/ (gc'.pc \in {"retirePack", "retireAges"} /\ p = gc'.current)
    <3>1. CASE p = x BY <2>1, <3>1
    <3>2. CASE p # x
      <4>1. IsCruft(p) /\ ~Present(p) BY <2>1, <3>2 DEF IsCruft, Present
      <4>2. p \subseteq litter BY <1>1, <3>2, <4>1 DEF StoreOK
      <4> QED BY <4>2 DEF Frame
    <3> QED BY <3>1, <3>2
  <2> QED BY <1>1, <1>9, <1>10, <2>1 DEF StoreOK, Frame
<1>12. RunOK' BY DEF GcIndInv, RunOK, SamePlan, Frame, Removing
<1>13. CensusOK' BY DEF CensusOK, Planning, Removing
<1>14. TargetOK'
  <2> SUFFICES ASSUME gc.target # {} PROVE TargetOK' BY DEF TargetOK, SamePlan
  <2>1. gc.target \in Names BY <1>3, NameOf
  <2>2. gc.pc \notin {"pack", "idx"} /\ gc'.pc \notin {"pack", "idx"} BY DEF Removing
  <2>3. packs[gc.target].pack # 0 /\ packs[gc.target].idx BY <1>2, <2>2 DEF TargetOK
  <2>4. CASE gc.target = x
    <3>1. packs'[gc.target].pack # 0 /\ packs'[gc.target].idx /\ packs'[gc.target].ages = NoAges
      BY <2>3, <2>4 DEF IsCruft
    <3> QED BY <3>1 DEF TargetOK, SamePlan, Frame, IsCruft
  <2>5. CASE gc.target # x
    <3>1. packs'[gc.target] = packs[gc.target] BY <2>1, <2>5
    <3>2. packs[gc.target].ages # NoAges => gc.target \subseteq litter BY <1>2, <2>5 DEF TargetOK, IsCruft
    <3> QED BY <2>3, <3>1, <3>2 DEF TargetOK, SamePlan, Frame, IsCruft
  <2> QED BY <2>4, <2>5
<1>15. StagedOK'
  <2>1. gc.pc \in Verified /\ gc'.pc \notin {"fresh", "cruftIdx", "sidecar", "loosen"} BY DEF Verified, Removing
  <2> QED BY <1>1, <1>2, <1>4, <2>1, Typed DEF StagedOK, SamePlan, Present, IsCruft
<1>16. PlanOK'
  <2>1. gc'.kept = KeptObjects' /\ (gc'.normal \cup gc'.cruft) \cap keep' = {}
    BY <1>1, <1>2, <1>10 DEF PlanOK, SamePlan
  <2>2. \A p \in gc'.normal : IsCruft(p)' => p = gc'.survivors /\ gc'.staged.kind = "fresh"
    BY <1>1, <1>2, <1>3, <1>6 DEF PlanOK, SamePlan
  <2>3. \A p \in Names \ keep' : Present(p)' => p \in Remaining' \cup {gc'.target, gc'.staged.out}
    <3> SUFFICES ASSUME NEW p \in Names \ keep, Present(p)' PROVE p \in Remaining' \cup {gc.target, gc.staged.out}
      BY <1>10 DEF SamePlan
    <3>1. Present(p) /\ p \in Remaining \cup {gc.target, gc.staged.out} BY <1>1, <1>2, <1>6 DEF PlanOK
    <3>2. p # {} BY <1>3
    <3> QED BY <3>1, <3>2
  <2> QED BY <1>5, <1>14, <1>15, <2>1, <2>2, <2>3 DEF PlanOK
<1> QED BY <1>5, <1>11, <1>12, <1>13, <1>16 DEF GcIndInv, HeldOK

\* retireSuperseded: the sidecar of a pack that is a normal pack now goes, and the rest is to be retired.
LEMMA DeclassifyKept ==
  ASSUME GcIndInv, TypeOK', Declassify
  PROVE  GcIndInv'
<1>1. gc.pc = "declassify" /\ TypeOK /\ StoreOK /\ gc \in GcType /\ gc.cruft \subseteq Names
  BY Typed DEF Declassify, GcIndInv
<1>2. Frame /\ loose' = loose BY DEF Declassify, Frame, outside, history
<1>3. SamePlan /\ gc'.pc \in {"prune", "retireIdx"} /\ gc'.retiring = Superseded
  BY <1>1 DEF Declassify, GcType, SamePlan
<1>4. gc.pc \in {"declassify"} \cup (Removing \ {"done"}) /\ gc'.pc \in Removing \ {"done"} BY <1>1, <1>3 DEF Removing
<1>5. RetiringOK' BY <1>3 DEF RetiringOK, SamePlan, Superseded
<1>6. StagedOK /\ gc.target \cap gc.survivors = {}
  BY <1>1 DEF GcIndInv, PlanOK, PartitionOK, StagedOK, Carrying, Verified
<1>9. Remaining \subseteq Remaining' \cup {gc.target, gc.staged.out}
  <2>1. gc'.pc = IF Superseded = {} THEN "prune" ELSE "retireIdx" BY <1>1 DEF Declassify, GcType
  <2>2. Superseded = {} \/ Remaining' = Superseded BY <1>3, <2>1 DEF Remaining, Retiring
  <2> QED BY <1>1, <2>2 DEF Remaining, Superseded, Retiring
<1>7. CASE gc.target \in gc.cruft
  <2>1. gc.target \in Names /\ gc.target # {} BY <1>1, <1>7 DEF Names
  <2>2. packs' = [packs EXCEPT ![gc.target].ages = NoAges] BY <1>7 DEF Declassify
  <2>3. /\ \A p \in Names : p # gc.target => packs'[p] = packs[p]
        /\ packs'[gc.target].idx = packs[gc.target].idx /\ packs'[gc.target].pack = packs[gc.target].pack
        /\ packs'[gc.target].ages = NoAges
    <3>1. packs \in [Names -> [idx : BOOLEAN, pack : Times, ages : [Objects -> Times]]] BY <1>1 DEF TypeOK
    <3>2. packs[gc.target] \in [idx : BOOLEAN, pack : Times, ages : [Objects -> Times]] BY <2>1, <3>1
    <3> QED BY <2>1, <2>2, <3>1, <3>2
  <2>4. gc.target # gc.survivors BY <1>6, <2>1
  <2>5. PICK x : x = gc.target OBVIOUS
  <2>6. ~IsCruft(x)' BY <2>3, <2>5 DEF IsCruft
  <2>7. Present(x)' => Present(x) BY <2>3, <2>5 DEF Present
  <2>8. gc.pc \notin {"retirePack", "retireAges"} BY <1>1
  <2> QED BY <1>2, <1>3, <1>4, <1>5, <1>7, <1>9, <2>1, <2>3, <2>4, <2>5, <2>6, <2>7, <2>8, RemoveKept
<1>8. CASE gc.target \notin gc.cruft
  <2>1. packs' = packs BY <1>8 DEF Declassify
  <2>2. gc.pc \notin {"retirePack", "retireAges"} BY <1>1
  <2>3. PICK x : x = {} OBVIOUS
  <2> QED BY <1>2, <1>3, <1>4, <1>5, <1>8, <1>9, <2>1, <2>2, <2>3, RemoveKept
<1> QED BY <1>7, <1>8

\* retireSupersededPacks: the .idx, the .pack and the .mtimes of a pack that is no output of the run.
LEMMA RetireKept ==
  ASSUME GcIndInv, TypeOK', (\E p \in Names : RetireIdx(p)) \/ RetirePack \/ RetireAges
  PROVE  GcIndInv'
<1>1. TypeOK /\ StoreOK /\ gc \in GcType /\ gc.retiring \subseteq Names BY Typed DEF GcIndInv
<1>2. gc.pc \in {"retireIdx", "retirePack", "retireAges"} BY DEF RetireIdx, RetirePack, RetireAges
<1>3. /\ RetiringOK /\ StagedOK /\ gc.retiring \subseteq (gc.normal \cup gc.cruft) \ {gc.target, gc.staged.out}
      /\ \A p \in gc.normal : IsCruft(p) => p = gc.survivors /\ gc.staged.kind = "fresh"
  BY <1>2 DEF GcIndInv, PlanOK, RetiringOK, Carrying, Verified, Removing
<1>4. PICK x \in gc.retiring :
        \/ RetireIdx(x) \/ (gc.pc = "retirePack" /\ RetirePack /\ x = gc.current)
        \/ (gc.pc = "retireAges" /\ RetireAges /\ x = gc.current)
  BY <1>3 DEF RetireIdx, RetirePack, RetireAges, RetiringOK
<1>5. x \in Names /\ x \in gc.normal \cup gc.cruft /\ x # {} /\ x # gc.target /\ x # gc.staged.out
  BY <1>1, <1>3, <1>4 DEF Names
<1>6. x = gc.survivors => gc.staged.kind = "loosen" BY <1>3, <1>5 DEF StagedOK
<1>7. Frame /\ loose' = loose BY <1>4 DEF RetireIdx, RetirePack, RetireAges, Frame, outside, history
<1>8. SamePlan /\ gc'.pc \in {"prune", "retireIdx", "retirePack", "retireAges"}
  <2>1. gc' = [gc EXCEPT !.pc = "retirePack", !.current = x] \/ gc' = [gc EXCEPT !.pc = "retireAges"] \/ gc' = AfterRetiring(x)
    BY <1>4 DEF RetireIdx, RetirePack, RetireAges
  <2>2. CASE gc' = [gc EXCEPT !.pc = "retirePack", !.current = x] BY <1>1, <2>2 DEF GcType, SamePlan
  <2>3. CASE gc' = [gc EXCEPT !.pc = "retireAges"] BY <1>1, <2>3 DEF GcType, SamePlan
  <2>4. CASE gc' = AfterRetiring(x) BY <1>1, <2>4 DEF AfterRetiring, GcType, SamePlan
  <2> QED BY <2>1, <2>2, <2>3, <2>4
<1>9. gc.pc \in {"declassify"} \cup (Removing \ {"done"}) /\ gc'.pc \in Removing \ {"done"} BY <1>2, <1>8 DEF Removing
<1>10. /\ \A p \in Names : p # x => packs'[p] = packs[p]
       /\ packs'[x].idx => packs[x].idx
       /\ packs'[x].pack # 0 => packs'[x].pack = packs[x].pack
       /\ packs'[x].ages = packs[x].ages \/ (RetireAges /\ packs'[x].ages = NoAges)
  <2>1. packs \in [Names -> [idx : BOOLEAN, pack : Times, ages : [Objects -> Times]]] BY <1>1 DEF TypeOK
  <2>2. packs[x] \in [idx : BOOLEAN, pack : Times, ages : [Objects -> Times]] BY <1>5, <2>1
  <2>3. CASE RetireIdx(x)
    <3>1. packs' = [packs EXCEPT ![x].idx = FALSE] BY <2>3 DEF RetireIdx
    <3> QED BY <1>5, <2>1, <2>2, <3>1
  <2>4. CASE RetirePack /\ x = gc.current
    <3>1. packs' = [packs EXCEPT ![x].pack = 0] BY <2>4 DEF RetirePack
    <3> QED BY <1>5, <2>1, <2>2, <3>1
  <2>5. CASE RetireAges /\ x = gc.current
    <3>1. packs' = [packs EXCEPT ![x].ages = NoAges] BY <2>5 DEF RetireAges
    <3> QED BY <1>5, <2>1, <2>2, <2>5, <3>1
  <2> QED BY <1>4, <2>3, <2>4, <2>5
<1>11. (Present(x)' => Present(x)) /\ (IsCruft(x)' => IsCruft(x)) BY <1>10 DEF Present, IsCruft
<1>12. IsCruft(x)' => gc'.pc \in {"retirePack", "retireAges"} /\ x = gc'.current
  <2>1. CASE RetireIdx(x) BY <1>1, <2>1 DEF RetireIdx, GcType
  <2>2. CASE RetirePack /\ x = gc.current
    <3>1. CASE x \in gc.cruft BY <1>1, <2>2, <3>1 DEF RetirePack, GcType
    <3>2. CASE x \notin gc.cruft
      <4>1. x \in gc.normal /\ ~IsCruft(x) BY <1>3, <1>5, <1>6, <3>2
      <4> QED BY <1>11, <4>1
    <3> QED BY <3>1, <3>2
  <2>3. CASE RetireAges /\ x = gc.current
    <3>1. packs' = [packs EXCEPT ![x].ages = NoAges] BY <2>3 DEF RetireAges
    <3>2. packs \in [Names -> [idx : BOOLEAN, pack : Times, ages : [Objects -> Times]]] BY <1>1 DEF TypeOK
    <3>3. packs'[x].ages = NoAges BY <1>5, <3>1, <3>2
    <3> QED BY <3>3 DEF IsCruft
  <2> QED BY <1>4, <2>1, <2>2, <2>3
<1>16. ~packs'[x].idx
  <2>1. CASE RetireIdx(x)
    <3>1. packs' = [packs EXCEPT ![x].idx = FALSE] BY <2>1 DEF RetireIdx
    <3>2. packs \in [Names -> [idx : BOOLEAN, pack : Times, ages : [Objects -> Times]]] BY <1>1 DEF TypeOK
    <3> QED BY <1>5, <3>1, <3>2
  <2>2. CASE gc.pc \in {"retirePack", "retireAges"} /\ x = gc.current BY <1>3, <1>10, <2>2 DEF RetiringOK
  <2> QED BY <1>4, <2>1, <2>2
<1>17. Remaining \subseteq Remaining' \cup {x} /\ ~Present(x)'
  <2>1. Remaining = gc.retiring BY <1>2 DEF Remaining, Retiring
  <2>2. gc' = [gc EXCEPT !.pc = "retirePack", !.current = x] \/ gc' = [gc EXCEPT !.pc = "retireAges"] \/ gc' = AfterRetiring(x)
    BY <1>4 DEF RetireIdx, RetirePack, RetireAges
  <2>6. ~Present(x)' BY <1>16 DEF Present
  <2>3. CASE gc' = [gc EXCEPT !.pc = "retirePack", !.current = x] BY <1>1, <2>1, <2>3, <2>6 DEF GcType, Remaining, Retiring
  <2>4. CASE gc' = [gc EXCEPT !.pc = "retireAges"] BY <1>1, <2>1, <2>4, <2>6 DEF GcType, Remaining, Retiring
  <2>5. CASE gc' = AfterRetiring(x) BY <1>1, <2>1, <2>5, <2>6 DEF AfterRetiring, GcType, Remaining, Retiring
  <2> QED BY <2>2, <2>3, <2>4, <2>5
<1>13. RetiringOK'
  <2>1. /\ gc'.retiring \subseteq gc.retiring
        /\ gc'.pc \in {"retirePack", "retireAges"} => gc'.current \in gc'.retiring /\ gc'.current = x
    <3>1. gc' = [gc EXCEPT !.pc = "retirePack", !.current = x] \/ gc' = AfterRetiring(x)
          \/ (gc' = [gc EXCEPT !.pc = "retireAges"] /\ x = gc.current)
      BY <1>4 DEF RetireIdx, RetirePack, RetireAges
    <3>2. CASE gc' = [gc EXCEPT !.pc = "retirePack", !.current = x] BY <1>1, <1>4, <3>2 DEF GcType
    <3>3. CASE gc' = [gc EXCEPT !.pc = "retireAges"] /\ x = gc.current BY <1>1, <1>4, <3>3 DEF GcType
    <3>4. CASE gc' = AfterRetiring(x) BY <1>1, <3>4 DEF AfterRetiring, GcType
    <3> QED BY <3>1, <3>2, <3>3, <3>4
  <2> QED BY <1>3, <1>8, <1>16, <2>1 DEF RetiringOK, SamePlan
<1>14. gc.pc \in {"retirePack", "retireAges"} => x = gc.current BY <1>4 DEF RetireIdx
<1>15. gc.pc # "declassify" BY <1>2
<1> QED BY <1>5, <1>6, <1>7, <1>8, <1>9, <1>10, <1>11, <1>12, <1>13, <1>14, <1>15, <1>17, RemoveKept

\* gc ends.
LEMMA FinishKept ==
  ASSUME GcIndInv, TypeOK', Finish
  PROVE  GcIndInv'
<1>1. Rests /\ gc.pc = "done" /\ gc' = Idle BY DEF Finish, Rests, outside, history
<1>2. NoYounger BY <1>1, YoungStays DEF Idle
<1> QED BY <1>1, <1>2, RestHolds, RestStore, IdleKept

\* gc is killed: the sidecar whose pack is half removed is litter from then on.
LEMMA CrashKept ==
  ASSUME GcIndInv, TypeOK', Crash
  PROVE  GcIndInv'
<1>1. Rests /\ gc' = Idle BY DEF Crash, Rests, outside
<1>2. StoreOK'
  <2>1. ASSUME NEW p \in Names, IsCruft(p)', ~Present(p)' PROVE p \subseteq litter'
    <3>1. IsCruft(p) /\ ~Present(p) BY <1>1, <2>1, RestIs
    <3> QED BY <3>1 DEF Crash
  <2> QED BY <1>1, <2>1, RestIs DEF GcIndInv, StoreOK, Rests
<1>3. NoYounger BY <1>1, YoungStays DEF Idle
<1> QED BY <1>1, <1>2, <1>3, RestHolds, IdleKept

\* A read in gc's own session changes nothing the invariant speaks of.
LEMMA ReadKept ==
  ASSUME GcIndInv, TypeOK', (\E p \in Names : ReadInSession(p)) \/ UNCHANGED vars
  PROVE  GcIndInv'
<1>1. /\ loose' = loose /\ packs' = packs /\ keep' = keep /\ refs' = refs /\ clock' = clock /\ seen' = seen
      /\ gc' = gc /\ lapsed' = lapsed /\ litter' = litter /\ misled' = misled
  BY DEF ReadInSession, vars, outside, history
<1>2. Rests /\ Lost' = Lost /\ Owned' = Owned BY <1>1 DEF Rests, Lost, Owned
<1>y. \A o : (Young(o)' <=> Young(o)) /\ (Needed(o)' <=> Needed(o)) BY <1>1 DEF Young, Running, Needed
<1>3. \A o : (Left(o)' <=> Left(o)) /\ (Planned(o)' <=> Planned(o))
  <2>1. \A o : Left(o)' <=> Left(o) BY <1>1, <1>2, <1>y DEF Left
  <2> QED BY <1>1, <1>2, <1>y, <2>1 DEF Planned, Targeted
<1>4. AllHeld' BY <1>2, <1>y, RestHolds DEF NoYounger
<1>5. StoreOK' BY <1>1, <1>2, RestStore
<1>6. RunOK' /\ CensusOK' /\ PartitionOK' BY <1>1, <1>2, <1>y, RestIs DEF GcIndInv, RunOK, CensusOK, PartitionOK
<1>7. TargetOK' <=> TargetOK BY <1>1 DEF TargetOK, IsCruft
<1>8. StagedOK' <=> StagedOK BY <1>1 DEF StagedOK, IsCruft, Present
<1>9. RetiringOK' <=> RetiringOK BY <1>1 DEF RetiringOK
<1>10. PlanOK' BY <1>1, <1>2, <1>y, <1>3, <1>7, <1>8, <1>9, RestIs DEF GcIndInv, PlanOK, Remaining
<1> QED BY <1>4, <1>5, <1>6, <1>10 DEF GcIndInv, HeldOK

\* pruneLooseAfterRepack: what it unlinks is packed, or past the cutoff, or was not loosened.
LEMMA PruneKept ==
  ASSUME GcIndInv, TypeOK', PruneLoose
  PROVE  GcIndInv'
<1>1. gc.pc = "prune" /\ TypeOK /\ StoreOK /\ gc \in GcType BY Typed DEF PruneLoose, GcIndInv
<1>2. Frame /\ packs' = packs BY DEF PruneLoose, Frame, outside
<1>3. SamePlan /\ gc'.pc = "done" BY <1>1 DEF PruneLoose, GcType, SamePlan
<1>4. gc.pc \in Carrying /\ gc'.pc \in Carrying /\ gc'.pc \in Removing /\ gc'.pc \notin Planning
  BY <1>1, <1>3 DEF Carrying, Verified, Removing, Planning
<1>5. PlanOK /\ TargetOK /\ StagedOK BY <1>4 DEF GcIndInv, PlanOK
<1>6. \A p : (Present(p)' <=> Present(p)) /\ (IsCruft(p)' <=> IsCruft(p)) BY <1>2 DEF Present, IsCruft
<1>7. KeptObjects' = KeptObjects /\ keep' = keep BY <1>2, <1>6 DEF KeptObjects, Frame
<1>8. StoreOK' BY <1>1, <1>2, <1>6 DEF StoreOK, Frame
<1>9. RunOK' BY <1>2, <1>3 DEF GcIndInv, RunOK, SamePlan, Frame
<1>10. PartitionOK'
  <2>1. Owned' = Owned BY <1>3 DEF Owned, SamePlan
  <2> QED BY <1>3, <1>4, <2>1 DEF GcIndInv, PartitionOK, SamePlan
<1>11. TargetOK' BY <1>1, <1>2, <1>3, <1>5, <1>6 DEF TargetOK, SamePlan, Frame, Removing, IsCruft
<1>12. StagedOK' BY <1>1, <1>2, <1>3, <1>5 DEF StagedOK, SamePlan, Verified, Removing, Present, IsCruft
<1>13. ASSUME NEW o \in Objects, o \notin Lost', Needed(o)' PROVE Planned(o)'
  <2>1. o \notin Lost /\ Needed(o) /\ (Young(o)' <=> Young(o)) /\ seen' = seen
    BY <1>2, <1>3, <1>4, <1>13, FrameYoung DEF Frame, Lost, Needed
  <2>2. Planned(o) BY <1>4, <1>5, <2>1 DEF PlanOK
  <2>3. o \notin Unlinked => loose'[o] = loose[o] BY DEF PruneLoose
  <2>4. CASE o \in gc.kept \/ Targeted(o)
    BY <1>1, <1>2, <1>3, <2>1, <2>4 DEF Planned, Targeted, SamePlan
  <2>5. CASE o \notin gc.loose /\ loose[o] # 0 /\ (Young(o) => loose[o] >= seen[o])
    <3>1. loose'[o] = loose[o] BY <2>3, <2>5 DEF Unlinked
    <3> QED BY <1>3, <2>1, <2>5, <3>1 DEF Planned, SamePlan
  <2>6. CASE o \in gc.survivors /\ Left(o)
    <3>1. gc.staged.kind \in {"fresh", "settled", "loosen"} BY <1>1, Typed
    <3>2. CASE gc.staged.kind = "fresh" BY <1>3, <2>1, <2>6, <3>2 DEF Planned, Left, SamePlan
    <3>3. CASE gc.staged.kind = "settled" BY <1>2, <1>3, <2>1, <2>6, <3>3 DEF Planned, Left, SamePlan
    <3>4. CASE gc.staged.kind = "loosen"
      <4>0. o \notin Unlinked \/ Packed(o)
        <5>1. o \notin Misled BY <1>13 DEF PruneLoose, Lost
        <5> QED BY <2>6, <3>4, <5>1 DEF Misled, Unlinked, Doomed
      <4>1. o \notin Unlinked
        <5> SUFFICES ASSUME Packed(o) PROVE FALSE BY <4>0
        <5>1. PICK p \in Names : o \in p /\ Present(p) BY DEF Packed
        <5>2. o \in gc.candidates /\ o \notin gc.target /\ o \notin gc.kept
          BY <1>4, <1>5, <2>6 DEF GcIndInv, PartitionOK, StagedOK
        <5>3. p \notin keep BY <1>4, <1>5, <5>1, <5>2 DEF PlanOK, KeptObjects
        <5>4. p \in {gc.target, gc.staged.out} BY <1>1, <1>4, <1>5, <5>1, <5>3 DEF PlanOK, Remaining, Retiring
        <5> QED BY <1>5, <3>4, <5>1, <5>2, <5>4 DEF StagedOK
      <4>2. o \in gc.loose /\ loose'[o] = loose[o] BY <1>1, <2>3, <2>6, <3>4, <4>1 DEF Left
      <4> QED BY <1>3, <2>1, <2>6, <3>4, <4>2 DEF Planned, Left, SamePlan
    <3> QED BY <3>1, <3>2, <3>3, <3>4
  <2> QED BY <2>2, <2>4, <2>5, <2>6 DEF Planned
<1>14. PlanOK'
  <2>1. RetiringOK' BY <1>3 DEF RetiringOK
  <2>2. \A p \in Names \ keep' : Present(p)' => p \in {gc'.target, gc'.staged.out}
    BY <1>1, <1>3, <1>4, <1>5, <1>6, <1>7 DEF PlanOK, SamePlan, Remaining, Retiring
  <2> QED BY <1>3, <1>4, <1>5, <1>6, <1>7, <1>11, <1>12, <1>13, <2>1, <2>2 DEF PlanOK, SamePlan
<1> QED BY <1>4, <1>8, <1>9, <1>10, <1>14 DEF GcIndInv, HeldOK, CensusOK

------------------------------
(* The steps of the others. *)

\* Time makes no object younger.
LEMMA TickKept ==
  ASSUME GcIndInv, TypeOK', Tick
  PROVE  GcIndInv'
<1>1. /\ loose' = loose /\ packs' = packs /\ keep' = keep /\ refs' = refs /\ seen' = seen
      /\ gc' = gc /\ lapsed' = lapsed /\ litter' = litter /\ misled' = misled /\ clock' = clock + 1
  BY DEF Tick, history
<1>2. /\ TypeOK /\ StoreOK /\ RunOK /\ clock \in Nat /\ Grace \in Nat /\ gc.cutoff \in Nat
      /\ \A o \in Objects : seen[o] \in Nat
  BY Typed DEF GcIndInv
<1>3. /\ \A o \in Objects : (Young(o)' => Young(o)) /\ (Needed(o)' => Needed(o))
      /\ Running => \A o \in Objects : Young(o)' <=> Young(o)
  <2>1. ASSUME NEW o \in Objects, Young(o)' PROVE Young(o) BY <1>1, <1>2, <2>1 DEF Young, Running
  <2>2. ASSUME NEW o \in Objects, Running, Young(o) PROVE Young(o)'
    <3>1. seen[o] > gc.cutoff /\ seen[o] # 0 BY <1>2, <2>2, YoungSurvives DEF Young
    <3> QED BY <1>1, <2>2, <3>1 DEF Young, Running
  <2> QED BY <1>1, <2>1, <2>2 DEF Needed
<1>4. /\ \A p : (Present(p)' <=> Present(p)) /\ (IsCruft(p)' <=> IsCruft(p))
      /\ Lost' = Lost /\ Owned' = Owned /\ Remaining' = Remaining
  BY <1>1 DEF Present, IsCruft, Lost, Owned, Remaining
<1>5. NormalPacks' = NormalPacks /\ CruftPacks' = CruftPacks /\ KeptObjects' = KeptObjects
  BY <1>1, <1>4 DEF NormalPacks, CruftPacks, KeptObjects
<1>6. AllHeld'
  <2> SUFFICES ASSUME NEW o \in Objects, o \notin Lost PROVE Held(o)' BY <1>4 DEF AllHeld
  <2>1. Held(o) BY HeldNow DEF AllHeld
  <2>2. Readable(o)' <=> Readable(o) BY <1>1, <1>4 DEF Readable, Packed
  <2>3. Backed(o)' <=> Backed(o) BY <1>1, <1>5 DEF Backed
  <2> QED BY <1>1, <1>3, <2>1, <2>2, <2>3 DEF Held
<1>7. StoreOK' BY <1>1, <1>2, <1>4 DEF StoreOK
<1>8. RunOK' BY <1>1, <1>2 DEF GcIndInv, RunOK
<1>9. CensusOK' /\ PartitionOK'
  <2>1. gc.pc \in Planning => Running BY DEF Planning, Running
  <2>2. CensusOK' BY <1>1, <1>3, <1>4, <1>5 DEF GcIndInv, CensusOK
  <2>3. refs \subseteq Objects BY <1>2 DEF TypeOK
  <2> QED BY <1>1, <1>3, <1>4, <2>1, <2>2, <2>3 DEF GcIndInv, PartitionOK, Planning
<1>10. ASSUME NEW o \in Objects, Planned(o) PROVE Planned(o)'
  <2>1. Left(o) => Left(o)' BY <1>1, <1>3 DEF Left
  <2> QED BY <1>1, <1>3, <1>10, <2>1 DEF Planned, Targeted
<1>11. PlanOK'
  <2> SUFFICES ASSUME gc.pc \in Carrying PROVE PlanOK' BY <1>1 DEF PlanOK
  <2>2. PlanOK /\ TargetOK /\ StagedOK /\ RetiringOK BY DEF GcIndInv, PlanOK
  <2>3. TargetOK' BY <1>1, <1>4, <2>2 DEF TargetOK
  <2>4. StagedOK' BY <1>1, <1>4, <2>2 DEF StagedOK, Present, IsCruft
  <2>5. RetiringOK' BY <1>1, <2>2 DEF RetiringOK
  <2>6. \A o \in Objects \ Lost : Needed(o)' => Planned(o)' BY <1>3, <1>10, <2>2 DEF PlanOK
  <2> QED BY <1>1, <1>4, <1>5, <2>2, <2>3, <2>4, <2>5, <2>6 DEF PlanOK
<1> QED BY <1>6, <1>7, <1>8, <1>9, <1>11 DEF GcIndInv, HeldOK

\* A writer's step: files are touched or added, and gc's plan is as it was.
Disturbs ==
  /\ SamePlan /\ gc'.pc = gc.pc /\ gc'.retiring = gc.retiring /\ gc'.current = gc.current
  /\ keep' = keep /\ clock' = clock /\ litter' = litter
  /\ \A o \in Objects : seen'[o] <= clock /\ (loose'[o] = loose[o] \/ loose'[o] = clock)
  /\ \A p \in Names : /\ packs'[p].idx = packs[p].idx /\ packs'[p].ages = packs[p].ages
                      /\ packs'[p].pack = packs[p].pack \/ (packs[p].pack # 0 /\ packs'[p].pack = clock)

\* What the invariant says of one object.
ObjectOK(o) ==
  /\ Held(o)
  /\ gc.pc \in Planning /\ Young(o) =>
       \/ o \in gc.kept \/ (gc.pc = "age" /\ o \in gc.target)
       \/ gc.ages[o] >= seen[o] \/ loose[o] >= seen[o]
  /\ gc.pc = "age" /\ o \in refs \cap gc.candidates => Young(o)
  /\ gc.pc \in Carrying /\ Needed(o) => Planned(o)

\* It says so of every object gc was shown the writes of.
LEMMA ObjectNow ==
  ASSUME GcIndInv, NEW o \in Objects, o \notin Lost
  PROVE  ObjectOK(o)
<1>1. Held(o) BY HeldNow DEF AllHeld
<1> QED BY <1>1 DEF ObjectOK, GcIndInv, CensusOK, PartitionOK, PlanOK

\* The packs are classified as before.
LEMMA DisturbIs ==
  ASSUME GcIndInv, Disturbs
  PROVE  /\ \A p \in Names : (Present(p)' <=> Present(p)) /\ (IsCruft(p)' <=> IsCruft(p))
         /\ NormalPacks' = NormalPacks /\ CruftPacks' = CruftPacks /\ KeptObjects' = KeptObjects
         /\ Adds /\ TypeOK /\ StoreOK /\ clock # 0
<1>1. TypeOK /\ StoreOK /\ clock # 0 /\ keep \subseteq Names BY DEF GcIndInv, StoreOK, TypeOK
<1>2. \A p \in Names : (Present(p)' <=> Present(p)) /\ (IsCruft(p)' <=> IsCruft(p))
  BY <1>1 DEF Disturbs, Present, IsCruft
<1>3. NormalPacks' = NormalPacks /\ CruftPacks' = CruftPacks BY <1>2 DEF Disturbs, NormalPacks, CruftPacks
<1>4. KeptObjects' = KeptObjects BY <1>1, <1>2 DEF Disturbs, KeptObjects
<1>5. Adds BY <1>2 DEF Disturbs, Adds
<1> QED BY <1>1, <1>2, <1>3, <1>4, <1>5

\* So the invariant is kept when it is for every object.
LEMMA DisturbKept ==
  ASSUME GcIndInv, TypeOK', Disturbs, \A o \in Objects : o \notin Lost' => ObjectOK(o)'
  PROVE  GcIndInv'
<1>1. /\ \A p \in Names : (Present(p)' <=> Present(p)) /\ (IsCruft(p)' <=> IsCruft(p))
      /\ NormalPacks' = NormalPacks /\ CruftPacks' = CruftPacks /\ KeptObjects' = KeptObjects
      /\ TypeOK /\ StoreOK /\ clock # 0 /\ keep \subseteq Names
  BY DisturbIs DEF TypeOK
<1>2. AllHeld' BY DEF AllHeld, ObjectOK
<1>3. StoreOK' BY <1>1 DEF Disturbs, StoreOK
<1>4. RunOK'
  <2>1. gc.loose \subseteq Objects BY <1>1, Typed
  <2> QED BY <1>1, <2>1 DEF GcIndInv, RunOK, Disturbs, SamePlan
<1>5. CensusOK' BY <1>1 DEF GcIndInv, CensusOK, Disturbs, SamePlan, ObjectOK
<1>6. PartitionOK'
  <2>1. Owned' = Owned BY DEF Owned, Disturbs, SamePlan
  <2>2. refs' \subseteq Objects BY DEF TypeOK
  <2> QED BY <2>1, <2>2 DEF GcIndInv, PartitionOK, Disturbs, SamePlan, ObjectOK
<1>7. PlanOK'
  <2> SUFFICES ASSUME gc.pc \in Carrying PROVE PlanOK' BY DEF PlanOK, Disturbs
  <2>1. PlanOK /\ TargetOK /\ StagedOK /\ RetiringOK BY DEF GcIndInv, PlanOK
  <2>2. gc.survivors \subseteq Objects /\ gc.target \subseteq Objects /\ gc.normal \subseteq Names BY <1>1, Typed
  <2>3. TargetOK'
    <3> SUFFICES ASSUME gc.target # {} PROVE TargetOK' BY DEF TargetOK, Disturbs, SamePlan
    <3>1. gc.target \in Names BY <2>2, NameOf
    <3> QED BY <1>1, <2>1, <3>1 DEF TargetOK, Disturbs, SamePlan, IsCruft
  <2>4. StagedOK'
    <3>1. gc.survivors # {} => gc.survivors \in Names BY <2>2, NameOf
    <3> QED BY <1>1, <2>1, <3>1 DEF StagedOK, Disturbs, SamePlan, Present, IsCruft
  <2>5. RetiringOK'
    <3>1. gc.pc \in {"retirePack", "retireAges"} => gc.current \in gc.normal \cup gc.cruft
      BY <2>1 DEF RetiringOK
    <3>2. gc.pc \in {"retirePack", "retireAges"} => packs'[gc.current].idx = packs[gc.current].idx
      BY <1>1, <3>1, Typed DEF Disturbs
    <3> QED BY <2>1, <3>2 DEF RetiringOK, Disturbs, SamePlan
  <2>6. gc'.kept = KeptObjects' /\ (gc'.normal \cup gc'.cruft) \cap keep' = {}
    BY <1>1, <2>1 DEF PlanOK, SamePlan, Disturbs
  <2>7. \A p \in gc'.normal : IsCruft(p)' => p = gc'.survivors /\ gc'.staged.kind = "fresh"
    BY <1>1, <2>1, <2>2 DEF PlanOK, SamePlan, Disturbs
  <2>8. \A p \in Names \ keep' : Present(p)' => p \in Remaining' \cup {gc'.target, gc'.staged.out}
    BY <1>1, <2>1 DEF PlanOK, SamePlan, Disturbs, Remaining
  <2>9. \A o \in Objects : o \notin Lost' => (Needed(o)' => Planned(o)') BY DEF ObjectOK, Disturbs
  <2> QED BY <2>3, <2>4, <2>5, <2>6, <2>7, <2>8, <2>9 DEF PlanOK
<1> QED BY <1>2, <1>3, <1>4, <1>5, <1>6, <1>7 DEF GcIndInv, HeldOK

\* An object a writer leaves alone is as well off as before.
LEMMA OtherObject ==
  ASSUME GcIndInv, Disturbs, NEW o \in Objects, o \notin Lost,
         loose'[o] = loose[o], seen'[o] = seen[o], o \in refs' => o \in refs \/ Young(o)
  PROVE  ObjectOK(o)'
<1>1. ObjectOK(o) /\ Adds /\ TypeOK /\ StoreOK BY ObjectNow, DisturbIs
<1>2. Young(o)' <=> Young(o) BY DEF Young, Running, Disturbs, SamePlan
<1>3. Needed(o)' => Needed(o) BY <1>2 DEF Needed
<1>4. (Readable(o) => Readable(o)') /\ (Backed(o) => Backed(o)') BY <1>1, AddsHolds
<1>5. Held(o)'
  <2>1. o \in refs \/ Young(o) => Readable(o) BY <1>1, BackedReadable DEF ObjectOK, Held, Young
  <2> QED BY <1>1, <1>2, <1>4, <2>1 DEF ObjectOK, Held
<1>6. gc.pc \in Carrying /\ Needed(o) => Planned(o)'
  <2> SUFFICES ASSUME Planned(o), gc.pc \in Carrying PROVE Planned(o)' BY <1>1 DEF ObjectOK
  <2>1. StagedOK /\ gc.survivors \subseteq Objects BY <1>1, Typed DEF GcIndInv, PlanOK
  <2>2. o \in gc.survivors => packs'[gc.survivors].ages = packs[gc.survivors].ages
    <3> SUFFICES ASSUME o \in gc.survivors PROVE packs'[gc.survivors].ages = packs[gc.survivors].ages OBVIOUS
    <3>1. gc.survivors \in Names BY <2>1, NameOf
    <3> QED BY <3>1 DEF Disturbs
  <2>3. o \in gc.survivors /\ Left(o) => Left(o)' BY <1>2, <2>2 DEF Left, Disturbs, SamePlan
  <2>4. Targeted(o) => Targeted(o)'
    <3> SUFFICES ASSUME o \in gc.target PROVE Targeted(o) => Targeted(o)' BY DEF Targeted
    <3>1. gc.target \in Names /\ clock >= seen[o] BY <1>1, NameOf, Typed DEF StoreOK
    <3> QED BY <1>2, <3>1 DEF Targeted, Disturbs, SamePlan
  <2> QED BY <1>2, <2>3, <2>4 DEF Planned, Disturbs, SamePlan
<1>7. /\ (gc.pc \in Planning /\ Young(o) =>
            \/ o \in gc.kept \/ (gc.pc = "age" /\ o \in gc.target)
            \/ gc.ages[o] >= seen[o] \/ loose[o] >= seen[o])'
      /\ (gc.pc = "age" /\ o \in refs \cap gc.candidates => Young(o))'
  BY <1>1, <1>2 DEF ObjectOK, Disturbs, SamePlan
<1> QED BY <1>3, <1>5, <1>6, <1>7 DEF ObjectOK, Disturbs

\* While the plan is carried out, gc is past the ages.
LEMMA CarryingIs ==
  ASSUME gc.pc \in Carrying
  PROVE  Running /\ gc.pc # "age"
BY DEF Running, Carrying, Verified, Removing

\* What a writer's step leaves of gc.
LEMMA DisturbedIs ==
  ASSUME TypeOK, gc' = Disturbed
  PROVE  SamePlan /\ gc'.pc = gc.pc /\ gc'.retiring = gc.retiring /\ gc'.current = gc.current
<1>1. gc \in GcType BY Typed
<1> QED BY <1>1 DEF Disturbed, GcType, SamePlan

\* A reference moves to an object that is young, or goes.
LEMMA RefsKept ==
  ASSUME GcIndInv, TypeOK', \E o \in Objects : UpdateRef(o) \/ DeleteRef(o)
  PROVE  GcIndInv'
<1>1. TypeOK /\ StoreOK BY DEF GcIndInv
<1>2. PICK x \in Objects : UpdateRef(x) \/ DeleteRef(x) OBVIOUS
<1>3. /\ gc' = Disturbed /\ loose' = loose /\ packs' = packs /\ keep' = keep /\ clock' = clock
      /\ seen' = seen /\ lapsed' = lapsed /\ litter' = litter /\ misled' = misled
  BY <1>2 DEF UpdateRef, DeleteRef, history
<1>4. Disturbs BY <1>1, <1>3, DisturbedIs DEF Disturbs, StoreOK
<1>5. ASSUME NEW o \in Objects, o \notin Lost' PROVE ObjectOK(o)'
  <2>1. o \notin Lost BY <1>3, <1>5 DEF Lost
  <2>2. o \in refs' => o \in refs \/ Young(o) BY <1>2 DEF UpdateRef, DeleteRef, Young
  <2> QED BY <1>3, <1>4, <2>1, <2>2, OtherObject
<1> QED BY <1>4, <1>5, DisturbKept

\* An object is written, and gc is shown the write: it has not read the age of the file yet, or is
\* not going to remove the file.
LEMMA WriteKept ==
  ASSUME GcIndInv, TypeOK', NEW x \in Objects, WriteObject(x)
  PROVE  GcIndInv'
<1>1. TypeOK /\ StoreOK /\ clock # 0 /\ clock \in Nat /\ Grace \in Nat /\ Grace # 0 /\ gc \in GcType
  BY Typed DEF GcIndInv, StoreOK
<1>2. PICK w \in {writer, Listed} : (\E p \in w.listed : x \in p /\ TouchPack(w, x, p)) \/ TouchLoose(w, x)
  BY DEF WriteObject
<1>3. w.listed \subseteq Names BY <1>1, <1>2 DEF Listed, TypeOK
<1>4. /\ gc' = Disturbed /\ keep' = keep /\ clock' = clock /\ refs' = refs /\ litter' = litter
      /\ misled' = misled \ {x} /\ \A o \in Objects : seen'[o] = IF o = x THEN clock ELSE seen[o]
  BY <1>1 DEF WriteObject, TypeOK
<1>5. SamePlan /\ gc'.pc = gc.pc /\ gc'.retiring = gc.retiring /\ gc'.current = gc.current
  BY <1>1, <1>4, DisturbedIs
<1>6. /\ \A o \in Objects : loose'[o] = loose[o] \/ (o = x /\ loose'[o] = clock)
      /\ \A p \in Names : /\ packs'[p].idx = packs[p].idx /\ packs'[p].ages = packs[p].ages
                          /\ packs'[p].pack = packs[p].pack \/ (packs[p].pack # 0 /\ packs'[p].pack = clock)
  <2>1. packs \in [Names -> [idx : BOOLEAN, pack : Times, ages : [Objects -> Times]]] /\ loose \in [Objects -> Times]
    BY <1>1 DEF TypeOK
  <2>2. CASE TouchLoose(w, x) BY <2>1, <2>2 DEF TouchLoose
  <2>3. CASE \E p \in w.listed : x \in p /\ TouchPack(w, x, p)
    <3>1. PICK q \in w.listed : TouchPack(w, x, q) BY <2>3
    <3>2. q \in Names /\ loose' = loose BY <1>3, <3>1 DEF TouchPack
    <3>3. CASE packs' = packs BY <3>2, <3>3
    <3>4. CASE packs' = [packs EXCEPT ![q].pack = clock] /\ packs[q].pack # 0
      <4>1. packs[q] \in [idx : BOOLEAN, pack : Times, ages : [Objects -> Times]] BY <2>1, <3>2
      <4> QED BY <2>1, <3>2, <3>4, <4>1
    <3> QED BY <3>1, <3>3, <3>4 DEF TouchPack, Freshened
  <2> QED BY <1>2, <2>2, <2>3
<1>7. Disturbs BY <1>1, <1>4, <1>5, <1>6, Typed DEF Disturbs, StoreOK
<1>8. /\ \A p \in Names : (Present(p)' <=> Present(p)) /\ (IsCruft(p)' <=> IsCruft(p))
      /\ NormalPacks' = NormalPacks /\ CruftPacks' = CruftPacks /\ KeptObjects' = KeptObjects
  BY <1>7, DisturbIs
<1>9. ASSUME NEW o \in Objects, o \notin Lost', o # x PROVE ObjectOK(o)'
  <2>1. o \notin Lost BY <1>2, <1>4, <1>9 DEF TouchPack, TouchLoose, Lost
  <2> QED BY <1>4, <1>6, <1>7, <1>9, <2>1, OtherObject
<1>10. ASSUME x \notin Lost' PROVE ObjectOK(x)'
  <2>1. Young(x)' /\ seen'[x] = clock BY <1>1, <1>4 DEF Young
  <2>2. gc.pc \in Planning \cup Carrying => PacksAged
    BY DEF PacksAged, Running, Planning, Carrying, Verified, Removing
  <2>3. gc.pc \in Carrying => LooseAged /\ gc.pc # "reach" BY <2>2 DEF LooseAged, Carrying, Verified, Removing
  <2>4. CASE TouchLoose(w, x)
    <3>1. loose'[x] = clock BY <1>1, <2>4 DEF TouchLoose, TypeOK
    <3>2. x \in gc.loose => ~(LooseAged /\ x \in gc.candidates) /\ ~Outlived(x) BY <1>10, <2>4 DEF TouchLoose, Lost
    <3>3. Held(x)'
      <4>1. Backed(x)' BY <1>1, <2>1, <3>1 DEF Backed
      <4>2. Readable(x)' BY <1>1, <3>1 DEF Readable
      <4> QED BY <4>1, <4>2 DEF Held
    <3>4. gc.pc \in Carrying => Planned(x)'
      <4> SUFFICES ASSUME gc.pc \in Carrying PROVE Planned(x)' OBVIOUS
      <4>1. CASE x \notin gc.loose
        <5>1. loose'[x] # 0 /\ loose'[x] >= seen'[x] /\ x \notin gc'.loose BY <1>1, <1>5, <2>1, <3>1, <4>1 DEF SamePlan
        <5> QED BY <5>1 DEF Planned
      <4>2. CASE x \in gc.loose
        <5>1. x \notin gc.candidates BY <2>3, <3>2, <4>2
        <5>2. x \in gc.target \cup gc.kept BY <4>2, <5>1 DEF GcIndInv, PartitionOK, Owned
        <5>3. x \in gc.target => Targeted(x)'
          <6> SUFFICES ASSUME x \in gc.target, gc.pc # "pack" PROVE packs'[gc.target].pack >= clock
            BY <1>5, <2>1 DEF Targeted, SamePlan
          <6>1. packs[gc.target].pack = clock BY <3>2, <4>2, CarryingIs DEF Outlived
          <6>2. packs' = packs BY <2>4 DEF TouchLoose
          <6> QED BY <1>1, <6>1, <6>2
        <5> QED BY <1>5, <5>2, <5>3 DEF Planned, SamePlan
      <4> QED BY <4>1, <4>2
    <3> QED BY <1>1, <1>5, <2>1, <3>1, <3>3, <3>4 DEF ObjectOK
  <2>5. CASE \E p \in w.listed : x \in p /\ TouchPack(w, x, p)
    <3>1. PICK q \in w.listed : x \in q /\ TouchPack(w, x, q) BY <2>5
    <3>2. q \notin w.touched /\ Present(q) /\ ~IsCruft(q) /\ ~(PacksAged /\ MayBeCruft(x)) /\ q \in Names
          /\ (q = gc.target \/ ~Outlived(x))
      BY <1>3, <1>10, <3>1 DEF TouchPack, Lost
    <3>3. packs'[q].pack = clock
      <4>1. packs' = [packs EXCEPT ![q].pack = clock] BY <3>1, <3>2 DEF TouchPack
      <4>2. packs \in [Names -> [idx : BOOLEAN, pack : Times, ages : [Objects -> Times]]] BY <1>1 DEF TypeOK
      <4>3. packs[q] \in [idx : BOOLEAN, pack : Times, ages : [Objects -> Times]] BY <3>2, <4>2
      <4> QED BY <3>2, <4>1, <4>2, <4>3
    <3>4. Present(q)' BY <1>8, <3>2
    <3>5. Held(x)'
      <4>1. Readable(x)' BY <3>1, <3>2, <3>4 DEF Readable, Packed
      <4>2. CASE q \in keep
        <5>1. x \in KeptObjects' BY <1>4, <3>1, <3>4, <4>2 DEF KeptObjects
        <5> QED BY <4>1, <5>1 DEF Held, Backed
      <4>3. CASE q \notin keep
        <5>1. q \in NormalPacks' BY <1>8, <3>2, <4>3 DEF NormalPacks
        <5>2. packs'[q].pack >= seen'[x] BY <1>1, <2>1, <3>3
        <5> QED BY <3>1, <4>1, <5>1, <5>2 DEF Held, Backed
      <4> QED BY <4>2, <4>3
    <3>6. CASE gc.pc \in Planning
      <4>1. /\ gc.normal = NormalPacks /\ gc.kept = KeptObjects BY <3>6 DEF GcIndInv, CensusOK
      <4>2. x \in gc.kept \/ (gc.pc = "age" /\ x \in gc.target)
        <5>1. CASE gc.pc = "reach" BY <2>2, <3>2, <3>6, <5>1 DEF MayBeCruft
        <5>2. CASE gc.pc = "age"
          <6>1. x \notin gc.candidates BY <2>2, <3>2, <3>6, <5>2 DEF MayBeCruft
          <6>2. CASE q \in keep BY <3>1, <3>2, <4>1, <6>2 DEF KeptObjects
          <6>3. CASE q \notin keep
            <7>1. q \in gc.normal BY <3>2, <4>1, <6>3 DEF NormalPacks
            <7>2. x \in Owned BY <3>1, <7>1 DEF Owned
            <7> QED BY <5>2, <6>1, <7>2 DEF GcIndInv, PartitionOK
          <6> QED BY <6>2, <6>3
        <5> QED BY <3>6, <5>1, <5>2 DEF Planning
      <4>3. gc'.pc \notin Carrying BY <1>5, <3>6 DEF Planning, Carrying, Verified, Removing
      <4> QED BY <1>5, <2>1, <3>5, <4>2, <4>3 DEF ObjectOK, SamePlan
    <3>7. CASE gc.pc \in Carrying
      <4>1. /\ gc.kept = KeptObjects /\ gc.survivors \subseteq gc.candidates
            /\ \A p \in Names \ keep : Present(p) => p \in gc.normal \cup gc.cruft \cup {gc.target, gc.staged.out}
            /\ gc.staged.out \in {{}, gc.survivors}
        BY <3>7 DEF GcIndInv, PlanOK, StagedOK, Remaining, RetiringOK, Retiring
      <4>2. x \notin gc.candidates BY <2>2, <2>3, <3>2, <3>7 DEF MayBeCruft
      <4>3. x \in gc.kept \cup gc.target
        <5>1. CASE q \in keep BY <3>1, <3>2, <4>1, <5>1 DEF KeptObjects
        <5>2. CASE q \in gc.normal \cup gc.cruft
          <6>1. x \in Owned BY <3>1, <5>2 DEF Owned
          <6> QED BY <3>7, <4>2, <6>1 DEF GcIndInv, PartitionOK
        <5>3. CASE q = gc.target \/ q = gc.staged.out BY <3>1, <4>1, <4>2, <5>3
        <5> QED BY <3>2, <4>1, <5>1, <5>2, <5>3
      <4>6. ASSUME x \in gc.target, gc.pc # "pack" PROVE packs'[gc.target].pack >= clock
        <5>1. CASE q = gc.target BY <1>1, <3>3, <5>1
        <5>2. CASE q # gc.target
          <6>1. packs[gc.target].pack = clock BY <3>2, <3>7, <4>6, <5>2, CarryingIs DEF Outlived
          <6>2. packs' = [packs EXCEPT ![q].pack = clock] BY <3>1, <3>2 DEF TouchPack
          <6>3. gc.target \in Names BY <1>1, <4>6, NameOf, Typed
          <6>4. packs \in [Names -> [idx : BOOLEAN, pack : Times, ages : [Objects -> Times]]] BY <1>1 DEF TypeOK
          <6>5. packs'[gc.target] = packs[gc.target] BY <5>2, <6>2, <6>3, <6>4
          <6> QED BY <1>1, <6>1, <6>5
        <5> QED BY <5>1, <5>2
      <4>4. Planned(x)' BY <1>5, <2>1, <4>3, <4>6 DEF Planned, Targeted, SamePlan
      <4>5. gc'.pc \notin Planning /\ gc'.pc # "age" BY <1>5, <3>7 DEF Planning, Carrying, Verified, Removing
      <4> QED BY <3>5, <4>4, <4>5 DEF ObjectOK
    <3>8. CASE gc.pc \notin Planning \cup Carrying BY <1>5, <3>5, <3>8 DEF ObjectOK, Planning
    <3> QED BY <3>6, <3>7, <3>8
  <2> QED BY <1>2, <2>4, <2>5
<1> QED BY <1>7, <1>9, <1>10, DisturbKept

------------------------------
(* The theorems. *)

\* The store gc starts from.
LEMMA GcInit ==
  ASSUME Init
  PROVE  GcIndInv
<1>1. {0, 1, 2} \subseteq Times BY GraceAssumption, StoreAssumption DEF Times
<1>2. keep \subseteq Names BY StoreAssumption DEF Init
<1>3. PICK there \in SUBSET Objects, pack \in Names \cup {{}}, cruft \in BOOLEAN :
        /\ loose = [o \in Objects |-> IF o \in there THEN 1 ELSE 0]
        /\ packs = [p \in Names |->
                     IF p # pack /\ p \notin keep THEN NoFiles
                     ELSE [idx |-> TRUE, pack |-> 1,
                           ages |-> [o \in Objects |-> IF cruft /\ p = pack /\ o \in p THEN 1 ELSE 0]]]
  BY DEF Init
<1>4. NoAges \in [Objects -> Times] /\ NoFiles \in [idx : BOOLEAN, pack : Times, ages : [Objects -> Times]]
  BY <1>1 DEF NoAges, NoFiles
<1>5. loose \in [Objects -> Times] BY <1>1, <1>3
<1>6. packs \in [Names -> [idx : BOOLEAN, pack : Times, ages : [Objects -> Times]]]
  <2>1. ASSUME NEW p \in Names PROVE [o \in Objects |-> IF cruft /\ p = pack /\ o \in p THEN 1 ELSE 0] \in [Objects -> Times]
    BY <1>1
  <2> QED BY <1>1, <1>3, <1>4, <2>1
<1>7. /\ gc = Idle /\ clock = 2 /\ hot = {} /\ writer = Listed /\ seen = NoAges /\ lapsed = {} /\ litter = {} /\ misled = {}
      /\ refs \in SUBSET {o \in Objects : Readable(o)}
  BY DEF Init
<1>8. TypeOK
  <2>1. gc \in GcType BY <1>1, <1>4, <1>7 DEF Idle, GcType, Pcs
  <2>2. writer \in [listed : SUBSET Names, cruft : SUBSET Names, touched : SUBSET Names] BY <1>7 DEF Listed
  <2>3. clock \in Times /\ refs \subseteq Objects BY <1>1, <1>7
  <2> QED BY <1>2, <1>4, <1>5, <1>6, <1>7, <2>1, <2>2, <2>3 DEF TypeOK, GcType
<1>9. \A o \in Objects : seen[o] = 0 BY <1>7 DEF NoAges
<1>10. AllHeld BY <1>7, <1>9 DEF AllHeld, Held, Young
<1>11. \A p \in Names : p = pack \/ p \in keep => Present(p) BY <1>3 DEF Present
<1>12. StoreOK
  <2>1. \A p \in Names : IsCruft(p) => Present(p)
    <3> SUFFICES ASSUME NEW p \in Names, p # pack, p \notin keep PROVE ~IsCruft(p) BY <1>11
    <3>1. packs[p] = NoFiles BY <1>3
    <3> QED BY <3>1 DEF IsCruft, NoFiles
  <2>2. \A p \in keep : Present(p) BY <1>2, <1>11
  <2> QED BY <1>7, <1>9, <2>1, <2>2 DEF StoreOK
<1>13. gc.pc = "idle" /\ gc.cutoff = 0 /\ gc.loose = {} BY <1>7 DEF Idle
<1> QED BY <1>8, <1>10, <1>12, <1>13
        DEF GcIndInv, HeldOK, RunOK, CensusOK, PartitionOK, PlanOK, Planning, Carrying, Verified, Removing

\* Every step keeps the invariant.
LEMMA GcKept ==
  ASSUME GcIndInv, [Next]_vars
  PROVE  GcIndInv'
<1>1. TypeOK' BY TypeStep DEF GcIndInv
<1>2. CASE GcStep
  BY <1>1, <1>2, StartGcKept, CensusKept, PartitionKept, AgeKept, InstallPackKept, InstallIdxKept, CruftFilesKept,
     SidecarKept, LoosenKept, VerifyKept, DeclassifyKept, RetireKept, PruneKept, FinishKept DEF GcStep
<1>3. CASE Crash \/ Tick BY <1>1, <1>3, CrashKept, TickKept
<1>4. CASE (\E p \in Names : ReadInSession(p)) \/ UNCHANGED vars BY <1>1, <1>4, ReadKept
<1>5. CASE \E o \in Objects : WriteObject(o) \/ UpdateRef(o) \/ DeleteRef(o) BY <1>1, <1>5, WriteKept, RefsKept
<1> QED BY <1>2, <1>3, <1>4, <1>5 DEF Next

\* What the plan of a run promises holds at every step of it (writeRepack, retireSuperseded).
THEOREM GcSound == Spec => []GcIndInv
<1>1. Init => GcIndInv BY GcInit
<1>2. GcIndInv /\ [Next]_vars => GcIndInv' BY GcKept
<1> QED BY <1>1, <1>2, PTL DEF Spec

\* Whatever a reference reaches can be read at every step of gc, and after a kill at any of them
\* (writeRepack, retireSuperseded, pruneLooseAfterRepack), but for the exceptions of ReachableKept.
THEOREM ReachableStay == Spec => []GcInv
<1>1. GcIndInv => GcInv
  <2> SUFFICES ASSUME GcIndInv PROVE GcInv OBVIOUS
  <2>1. TypeOK /\ AllHeld BY HeldNow DEF GcIndInv
  <2>2. refs \subseteq Objects BY <2>1 DEF TypeOK
  <2> QED BY <2>1, <2>2 DEF GcInv, ReachableKept, AllHeld, Held, Lost
<1> QED BY <1>1, GcSound, PTL

\* What was written less than the grace period ago can be read, referenced or not (partitionByCutoff,
\* computeCruftMtimes), but for the same exceptions.
THEOREM YoungStay == Spec => []YoungKept
<1>1. GcIndInv => YoungKept
  <2> SUFFICES ASSUME GcIndInv, NEW o \in Objects \ Lost, Young(o) PROVE Readable(o) BY DEF YoungKept, Lost, Young
  <2>1. Backed(o) /\ TypeOK BY HeldNow DEF GcIndInv, AllHeld, Held
  <2> QED BY <2>1, BackedReadable DEF Young
<1> QED BY <1>1, GcSound, PTL

\* Where gc leaves no survivor loose, the registry cannot mislead it about one.
CruftOnly == misled = {} /\ gc.staged.kind # "loosen" /\ (Running => gc.cruftPacks)

\* With gc.cruftPacks set, as it is by default, what a reference reaches and what is young stays without
\* the exception of LooseTwinStays (stageCruft, pruneLooseAfterRepack).
THEOREM CruftModeLosesNothing ==
  ASSUME CruftModes = {TRUE}
  PROVE  Spec => [](\A o \in Objects \ (lapsed \cup litter) :
                      o \in refs \/ (seen[o] # 0 /\ clock - seen[o] < Grace) => Readable(o))
<1>1. Init => CruftOnly BY DEF Init, CruftOnly, Idle, Running
<1>2. GcIndInv /\ CruftOnly /\ [Next]_vars => CruftOnly'
  <2> SUFFICES ASSUME GcIndInv, CruftOnly, [Next]_vars PROVE CruftOnly' OBVIOUS
  <2>1. gc \in GcType BY Typed DEF GcIndInv
  <2>2. CASE UNCHANGED vars BY <2>2 DEF CruftOnly, vars, history, Running
  <2>3. CASE gc'.staged = gc.staged /\ gc'.cruftPacks = gc.cruftPacks /\ (Running' => Running) /\ misled' \subseteq misled
    BY <2>3 DEF CruftOnly
  <2>4. CASE gc' = Idle /\ misled' = misled BY <2>4 DEF CruftOnly, Idle, Running
  <2>5. CASE \E c \in CruftModes : StartGc(c) BY <2>5 DEF StartGc, CruftOnly, Idle, Running, history
  <2>6. CASE AgeCandidates
    <3>1. gc'.cruftPacks = gc.cruftPacks /\ misled' = misled /\ Running
      BY <2>1, <2>6 DEF AgeCandidates, GcType, Running
    <3>2. \E S : gc'.staged = StageCruft(S) BY <2>1, <2>6 DEF AgeCandidates, GcType
    <3> QED BY <3>1, <3>2 DEF CruftOnly, StageCruft
  <2>7. CASE ReadExistingPacks \/ PartitionRepack BY <2>1, <2>3, <2>7 DEF ReadExistingPacks, PartitionRepack, GcType, Running, history
  <2>8. CASE InstallPack \/ InstallIdx \/ CruftPack \/ CruftIdx
    BY <2>1, <2>3, <2>8 DEF InstallPack, InstallIdx, CruftPack, CruftIdx, GcType, Running, history
  <2>9. CASE Sidecar \/ Loosen \/ VerifyPacked
    BY <2>1, <2>3, <2>4, <2>9 DEF Sidecar, Loosen, VerifyPacked, GcType, Running, history
  <2>10. CASE Declassify \/ (\E p \in Names : RetireIdx(p)) \/ RetirePack \/ RetireAges
    BY <2>1, <2>3, <2>10 DEF Declassify, RetireIdx, RetirePack, RetireAges, AfterRetiring, GcType, Running, history
  <2>11. CASE PruneLoose
    <3>1. Misled = {} BY DEF CruftOnly, Misled
    <3> QED BY <2>1, <2>3, <2>11, <3>1 DEF PruneLoose, GcType, Running
  <2>12. CASE Finish \/ Crash BY <2>4, <2>12 DEF Finish, Crash, history
  <2>13. CASE Tick \/ \E p \in Names : ReadInSession(p) BY <2>3, <2>13 DEF Tick, ReadInSession, Running, history
  <2>14. CASE \E o \in Objects : WriteObject(o) \/ UpdateRef(o) \/ DeleteRef(o)
    <3>1. misled' \subseteq misled /\ gc' = Disturbed BY <2>14 DEF WriteObject, UpdateRef, DeleteRef, history
    <3> QED BY <2>1, <2>3, <3>1 DEF Disturbed, GcType, Running
  <2> QED BY <2>2, <2>5, <2>6, <2>7, <2>8, <2>9, <2>10, <2>11, <2>12, <2>13, <2>14 DEF Next, GcStep
<1>3. ReachableKept /\ YoungKept /\ CruftOnly /\ TypeOK =>
        \A o \in Objects \ (lapsed \cup litter) : o \in refs \/ (seen[o] # 0 /\ clock - seen[o] < Grace) => Readable(o)
  BY DEF ReachableKept, YoungKept, CruftOnly
<1>4. Spec => []GcIndInv BY GcSound
<1> QED BY <1>1, <1>2, <1>3, <1>4, ReachableStay, YoungStay, PTL DEF Spec, GcInv

------------------------------
(* What a run that nobody disturbed leaves. *)

Underway == Carrying \ {"done"}
Calm == gc.calm /\ litter = {}

\* The store is still what the census found.
CalmCensus ==
  gc.pc \in {"census"} \cup Planning =>
    /\ gc.loose = {o \in Objects : loose[o] # 0}
    /\ \A o \in Objects : gc.before[o] = RecordedAge(o)
    /\ gc.pc # "census" => \A o \in Objects : gc.ages[o] = PackedAge(o)

\* What is packed is what is reachable, whatever the references did before the run.
CalmSplit ==
  gc.pc \in {"age"} \cup Underway => gc.target \subseteq refs /\ gc.candidates \cap refs = {}

\* The survivors are what the store itself says is young enough.
CalmPlan ==
  gc.pc \in Underway =>
    /\ gc.cruftPacks <=> gc.staged.kind # "loosen"
    /\ gc.survivors = {o \in gc.candidates : gc.before[o] > gc.cutoff}
    /\ \A o \in Objects : gc.ages[o] = gc.before[o]
    /\ \A o \in Objects \ (Owned \cup gc.kept) : gc.before[o] = 0

\* No loose file is there that the run did not find or make, and a sidecar that is left in place makes
\* nothing younger.
CalmFiles ==
  gc.pc \in Underway =>
    /\ \A o \in Objects : loose[o] # 0 => o \in gc.loose \/ (o \in gc.survivors /\ gc.staged.kind = "loosen")
    /\ gc.staged.kind = "loosen" /\ gc.pc \in Verified => \A o \in gc.survivors : loose[o] # 0
    /\ gc.staged.kind = "settled" => \A o \in gc.survivors : packs[gc.survivors].ages[o] <= gc.before[o]

Exact == Calm => CalmCensus /\ CalmSplit /\ CalmPlan /\ CalmFiles

\* Newest: one of the given times, or 0.
LEMMA NewestIn ==
  ASSUME NEW S, S \subseteq Times
  PROVE  Newest(S) \in S \cup {0}
<1> DEFINE T == S \cup {0}
<1>1. T \subseteq Times /\ T # {} BY GraceAssumption DEF Times
<1>2. \E x \in T : \A y \in T : x >= y BY <1>1, LatestOf
<1> QED BY <1>2 DEF Newest, Max

\* A pack that gives an object its age holds it.
LEMMA AgesFrom ==
  ASSUME TypeOK, NEW o \in Objects
  PROVE  /\ CarriedAge(o) # 0 => \E p \in CruftPacks : o \in p /\ CarriedAge(o) = packs[p].ages[o]
         /\ NormalAge(o) # 0 => \E p \in NormalPacks : o \in p
         /\ PackedAge(o) \in {CarriedAge(o), NormalAge(o), 0}
         /\ RecordedAge(o) \in {loose[o], PackedAge(o), 0}
<1>1. \A p \in Names : packs[p].pack \in Times /\ packs[p].ages \in [Objects -> Times] BY DEF TypeOK
<1>2. NormalPacks \subseteq Names /\ CruftPacks \subseteq Names BY DEF NormalPacks, CruftPacks
<1> DEFINE A == {packs[p].ages[o] : p \in {q \in CruftPacks : o \in q}}
           B == {packs[p].pack : p \in {q \in NormalPacks : o \in q}}
<1>3. A \subseteq Times /\ B \subseteq Times BY <1>1, <1>2
<1>4. CarriedAge(o) \in A \cup {0} BY <1>3, NewestIn DEF CarriedAge
<1>5. NormalAge(o) \in B \cup {0} BY <1>3, NewestIn DEF NormalAge
<1>6. /\ CarriedAge(o) \in Times /\ NormalAge(o) \in Times /\ PackedAge(o) \in Times /\ loose[o] \in Times
  BY AgesTyped DEF TypeOK
<1>7. PackedAge(o) \in {CarriedAge(o), NormalAge(o), 0}
  <2>1. {CarriedAge(o), NormalAge(o)} \subseteq Times BY <1>6
  <2> QED BY <2>1, NewestIn DEF PackedAge
<1>8. RecordedAge(o) \in {loose[o], PackedAge(o), 0}
  <2>1. {loose[o], PackedAge(o)} \subseteq Times BY <1>6
  <2> QED BY <2>1, NewestIn DEF RecordedAge
<1> QED BY <1>4, <1>5, <1>7, <1>8

\* The ages are read off the files.
LEMMA PackAges ==
  ASSUME packs' = packs, keep' = keep
  PROVE  /\ NormalPacks' = NormalPacks /\ CruftPacks' = CruftPacks
         /\ \A o : CarriedAge(o)' = CarriedAge(o) /\ NormalAge(o)' = NormalAge(o) /\ PackedAge(o)' = PackedAge(o)
<1>1. NormalPacks' = NormalPacks /\ CruftPacks' = CruftPacks BY DEF NormalPacks, CruftPacks, Present, IsCruft
<1>2. \A o : CarriedAge(o)' = CarriedAge(o) BY <1>1 DEF CarriedAge
<1>3. \A o : NormalAge(o)' = NormalAge(o) BY <1>1 DEF NormalAge
<1>4. \A o : PackedAge(o)' = PackedAge(o) BY <1>2, <1>3 DEF PackedAge
<1> QED BY <1>1, <1>2, <1>3, <1>4

LEMMA RestAges ==
  ASSUME loose' = loose, packs' = packs, keep' = keep
  PROVE  \A o : PackedAge(o)' = PackedAge(o) /\ RecordedAge(o)' = RecordedAge(o)
<1>1. \A o : PackedAge(o)' = PackedAge(o) BY PackAges
<1> QED BY <1>1 DEF RecordedAge

\* The run goes on undisturbed.
SameRun ==
  /\ SamePlan /\ gc'.before = gc.before /\ gc'.cruftPacks = gc.cruftPacks /\ gc'.calm = gc.calm
  /\ keep' = keep /\ refs' = refs /\ litter' = litter

\* Its plan stays what it was, so only the files matter.
LEMMA ExactStep ==
  ASSUME Exact, SameRun, gc.pc \in Underway, gc'.pc \in Underway, Calm => CalmFiles'
  PROVE  Exact' /\ GcExact'
<1>1. Calm' <=> Calm BY DEF Calm, SameRun
<1>2. gc'.pc \notin {"census", "done"} \cup Planning BY DEF Underway, Carrying, Verified, Removing, Planning
<1>3. GcExact' /\ CalmCensus' BY <1>2 DEF GcExact, CalmCensus
<1>4. Calm => CalmSplit' BY DEF Exact, CalmSplit, SameRun, SamePlan
<1>5. Owned' = Owned BY DEF Owned, SameRun, SamePlan
<1>6. Calm => CalmPlan' BY <1>5 DEF Exact, CalmPlan, SameRun, SamePlan
<1> QED BY <1>1, <1>3, <1>4, <1>6 DEF Exact

\* Nothing is claimed of a gc that is over, or that somebody disturbed.
LEMMA ExactIdle ==
  ASSUME gc'.pc = "idle" \/ ~gc'.calm
  PROVE  Exact' /\ GcExact'
<1>1. "idle" \notin {"census", "age"} \cup Planning \cup Underway BY DEF Underway, Carrying, Verified, Removing, Planning
<1> QED BY <1>1 DEF Exact, Calm, GcExact, CalmCensus, CalmSplit, CalmPlan, CalmFiles

\* A step that leaves the loose files and a settled pack's ages alone.
LEMMA OutputExact ==
  ASSUME GcIndInv, Exact, SameRun, gc.pc \in Underway, gc'.pc \in Underway, loose' = loose,
         gc.staged.kind = "settled" /\ gc.survivors # {} => packs'[gc.survivors].ages = packs[gc.survivors].ages,
         gc.staged.kind = "loosen" /\ gc'.pc \in Verified => gc.pc \in Verified
  PROVE  Exact' /\ GcExact'
<1> SUFFICES ASSUME Calm PROVE CalmFiles' BY ExactStep
<1>1. CalmFiles BY DEF Exact
<1> QED BY <1>1 DEF CalmFiles, SameRun, SamePlan

\* gc starts: it notes what the store says.
LEMMA StartExact ==
  ASSUME GcIndInv, NEW c \in CruftModes, StartGc(c)
  PROVE  Exact' /\ GcExact'
<1>1. Rests BY DEF StartGc, Rests, outside, history
<1>2. gc'.pc = "census" /\ gc'.loose = {o \in Objects : loose[o] # 0} /\ \A o \in Objects : gc'.before[o] = RecordedAge(o)
  BY DEF StartGc, Idle
<1>3. CalmCensus' BY <1>1, <1>2, RestAges DEF CalmCensus, Rests
<1> QED BY <1>2, <1>3 DEF Exact, GcExact, CalmSplit, CalmPlan, CalmFiles, Underway, Carrying, Verified, Removing

\* readExistingPacks: the ages it reads are those of the store.
LEMMA CensusExact ==
  ASSUME GcIndInv, Exact, ReadExistingPacks
  PROVE  Exact' /\ GcExact'
<1>1. Rests /\ litter' = litter BY DEF ReadExistingPacks, Rests, outside, history
<1>2. gc.pc = "census" /\ gc \in GcType BY Typed DEF ReadExistingPacks, GcIndInv
<1>3. /\ gc'.pc = "reach" /\ gc'.loose = gc.loose /\ gc'.before = gc.before /\ gc'.calm = gc.calm
      /\ \A o \in Objects : gc'.ages[o] = PackedAge(o)
  BY <1>2 DEF ReadExistingPacks, GcType
<1>4. Calm' => CalmCensus'
  <2>1. Calm' => CalmCensus BY <1>1, <1>3 DEF Exact, Calm
  <2> QED BY <1>1, <1>2, <1>3, <2>1, RestAges DEF CalmCensus, Rests, Planning
<1> QED BY <1>3, <1>4 DEF Exact, GcExact, CalmSplit, CalmPlan, CalmFiles, Underway, Carrying, Verified, Removing

\* partitionRepack: what is reachable is to be packed, and nothing else.
LEMMA PartitionExact ==
  ASSUME GcIndInv, Exact, PartitionRepack
  PROVE  Exact' /\ GcExact'
<1>1. Rests /\ litter' = litter BY DEF PartitionRepack, Rests, outside, history
<1>2. gc.pc = "reach" /\ gc \in GcType BY Typed DEF PartitionRepack, GcIndInv
<1>3. /\ gc'.pc = "age" /\ gc'.loose = gc.loose /\ gc'.before = gc.before /\ gc'.calm = gc.calm /\ gc'.ages = gc.ages
      /\ gc'.target = (Owned \cap refs) \ gc.kept /\ gc'.candidates = (Owned \ refs) \ gc.kept
  BY <1>2 DEF PartitionRepack, GcType
<1>4. Calm' => CalmCensus'
  <2>1. Calm' => CalmCensus BY <1>1, <1>3 DEF Exact, Calm
  <2> QED BY <1>1, <1>2, <1>3, <2>1, RestAges DEF CalmCensus, Rests, Planning
<1>5. CalmSplit' BY <1>1, <1>3 DEF CalmSplit, Rests
<1> QED BY <1>3, <1>4, <1>5 DEF Exact, GcExact, CalmPlan, CalmFiles, Underway, Carrying, Verified, Removing

\* ageCruftCandidates: the age gc gives an object is the one the store had for it when gc started.
LEMMA AgeExact ==
  ASSUME GcIndInv, Exact, AgeCandidates
  PROVE  Exact' /\ GcExact'
<1> DEFINE mt == CruftMtimes
           S == {o \in gc.candidates : mt[o] > gc.cutoff}
           staged == StageCruft(S)
<1>1. Rests /\ litter' = litter BY DEF AgeCandidates, Rests, outside, history
<1>2. gc.pc = "age" /\ gc.pc \in Planning /\ gc \in GcType /\ TypeOK
  BY Typed DEF AgeCandidates, GcIndInv, Planning
<1>3. /\ gc'.pc = "pack" /\ gc'.cutoff = gc.cutoff /\ gc'.loose = gc.loose
      /\ gc'.normal = gc.normal /\ gc'.cruft = gc.cruft /\ gc'.kept = gc.kept /\ gc'.ages = mt
      /\ gc'.target = gc.target /\ gc'.candidates = gc.candidates
      /\ gc'.survivors = S /\ gc'.staged = staged
      /\ gc'.before = gc.before /\ gc'.calm = gc.calm /\ gc'.cruftPacks = gc.cruftPacks
  BY <1>2 DEF AgeCandidates, GcType
<1>4. gc'.pc \notin {"census", "done", "prune", "retirePack", "retireAges"} \cup Planning \cup Verified \cup Retiring
  BY <1>3 DEF Planning, Verified, Removing, Retiring
<1> SUFFICES ASSUME Calm' PROVE CalmSplit' /\ CalmPlan' /\ CalmFiles' BY <1>4 DEF Exact, GcExact, CalmCensus
<1>5. CalmCensus /\ CalmSplit BY <1>1, <1>3 DEF Exact, Calm
<1>6. /\ gc.loose = {o \in Objects : loose[o] # 0}
      /\ \A o \in Objects : gc.before[o] = RecordedAge(o) /\ gc.ages[o] = PackedAge(o)
  BY <1>2, <1>5 DEF CalmCensus
<1>7. gc.normal = NormalPacks /\ gc.cruft = CruftPacks /\ gc.kept = KeptObjects BY <1>2 DEF GcIndInv, CensusOK
<1>8. gc.candidates \subseteq Objects /\ \A o \in Objects : loose[o] \in Nat BY <1>2, Typed
<1>9. \A o \in Objects : mt[o] = gc.before[o]
  <2> SUFFICES ASSUME NEW o \in Objects PROVE mt[o] = gc.before[o] OBVIOUS
  <2>1. (IF o \in gc.loose THEN loose[o] ELSE 0) = loose[o] BY <1>6
  <2>2. {gc.ages[o], IF o \in gc.loose THEN loose[o] ELSE 0} = {loose[o], PackedAge(o)} BY <1>6, <2>1
  <2>3. mt[o] = Newest({gc.ages[o], IF o \in gc.loose THEN loose[o] ELSE 0}) BY DEF CruftMtimes
  <2> QED BY <1>6, <2>2, <2>3 DEF RecordedAge
<1>10. CalmSplit' BY <1>1, <1>2, <1>3, <1>5 DEF CalmSplit, Rests
<1>11. CalmPlan'
  <2>1. gc.cruftPacks <=> staged.kind # "loosen" BY <1>2 DEF StageCruft, GcType
  <2>2. S = {o \in gc.candidates : gc.before[o] > gc.cutoff} BY <1>8, <1>9
  <2>3. ASSUME NEW o \in Objects, o \notin Owned, o \notin gc.kept PROVE gc.before[o] = 0
    <3>1. loose[o] = 0 /\ \A p \in NormalPacks \cup CruftPacks : o \notin p BY <1>6, <1>7, <2>3 DEF Owned
    <3>2. CarriedAge(o) = 0 /\ NormalAge(o) = 0 BY <1>2, <3>1, AgesFrom
    <3> QED BY <1>2, <1>6, <3>1, <3>2, AgesFrom
  <2>4. Owned' = Owned BY <1>3 DEF Owned
  <2> QED BY <1>3, <1>9, <2>1, <2>2, <2>3, <2>4 DEF CalmPlan
<1>12. CalmFiles'
  <2>1. \A o \in Objects : loose[o] # 0 => o \in gc.loose BY <1>6
  <2>4. ASSUME staged.kind = "settled", NEW o \in S PROVE packs[S].ages[o] <= gc.before[o]
    <3>1. S \in gc.cruft /\ S \in Names BY <1>2, <1>8, <2>4, StageIs, NameOf
    <3>2. o \in Objects /\ CarriedAge(o) >= packs[S].ages[o] /\ PackedAge(o) >= CarriedAge(o)
      BY <1>2, <1>7, <1>8, <2>4, <3>1, AgesTyped
    <3>3. mt[o] >= gc.ages[o] BY <1>2, <3>2, MtimesTyped
    <3>4. packs[S].ages[o] \in Nat BY <1>2, <3>1, <3>2, Typed
    <3>5. CarriedAge(o) \in Nat /\ PackedAge(o) \in Nat /\ gc.before[o] \in Nat
      BY <1>2, <1>6, <3>2, AgesTyped, GraceAssumption DEF Times
    <3> QED BY <1>6, <1>9, <3>2, <3>3, <3>4, <3>5
  <2> QED BY <1>1, <1>3, <1>4, <2>1, <2>4 DEF CalmFiles, Rests
<1> QED BY <1>10, <1>11, <1>12

\* Where the run stands among the steps that carry its plan out.
LEMMA UnderwayIs ==
  ASSUME GcIndInv, gc.pc \in Underway
  PROVE  /\ gc.pc \in Carrying /\ TypeOK /\ StoreOK /\ PlanOK /\ TargetOK /\ StagedOK /\ RetiringOK
         /\ gc.target \cup gc.candidates = Owned \ gc.kept /\ gc.target \cap gc.candidates = {}
         /\ gc.survivors \subseteq gc.candidates /\ gc.target \cap gc.survivors = {}
         /\ gc.staged.out \in {{}, gc.survivors} /\ (gc.staged.kind # "loosen" => gc.staged.out = gc.survivors)
         /\ gc \in GcType /\ gc.target \subseteq Objects /\ gc.survivors \subseteq Objects
         /\ gc.staged.kind \in {"loosen", "settled", "fresh"} /\ {} \notin Names
         /\ packs \in [Names -> [idx : BOOLEAN, pack : Times, ages : [Objects -> Times]]]
         /\ \A p \in Names : packs[p] \in [idx : BOOLEAN, pack : Times, ages : [Objects -> Times]]
<1>1. gc.pc \in Carrying BY DEF Underway
<1>2. TypeOK /\ StoreOK /\ PlanOK /\ TargetOK /\ StagedOK /\ RetiringOK /\ PartitionOK
  BY <1>1 DEF GcIndInv, PlanOK
<1>3. gc.target \cup gc.candidates = Owned \ gc.kept /\ gc.target \cap gc.candidates = {}
  BY <1>1, <1>2 DEF PartitionOK
<1>4. gc.survivors \subseteq gc.candidates /\ gc.staged.out = IF gc.staged.kind = "loosen" THEN {} ELSE gc.survivors
  BY <1>2 DEF StagedOK
<1>5. packs \in [Names -> [idx : BOOLEAN, pack : Times, ages : [Objects -> Times]]] /\ {} \notin Names
  BY <1>2 DEF TypeOK, Names
<1> QED BY <1>1, <1>2, <1>3, <1>4, <1>5, Typed

\* The steps that put packs in place, or only look at them.
LEMMA InstallExact ==
  ASSUME GcIndInv, Exact, InstallPack \/ InstallIdx
  PROVE  Exact' /\ GcExact'
<1>1. gc.pc \in {"pack", "idx"} /\ gc.pc \in Underway BY DEF InstallPack, InstallIdx, Underway, Carrying
<1>2. gc \in GcType /\ TypeOK /\ gc.target \cap gc.survivors = {} BY <1>1, UnderwayIs
<1>3. SameRun /\ loose' = loose /\ gc'.pc \in {AfterNormal, "idx"}
  BY <1>2 DEF InstallPack, InstallIdx, SameRun, SamePlan, GcType, outside, history
<1>4. gc'.pc \in Underway /\ (gc.staged.kind = "loosen" => gc'.pc \notin Verified)
  BY <1>1, <1>2, <1>3, AfterNormalIs DEF Underway, Carrying, Verified, Removing
<1>5. packs' = packs \/ packs' = [packs EXCEPT ![gc.target].pack = clock] \/ packs' = [packs EXCEPT ![gc.target].idx = TRUE]
  BY DEF InstallPack, InstallIdx
<1>6. \A p \in Names : p # gc.target => packs'[p] = packs[p] BY <1>1, <1>5, UnderwayIs
<1>7. gc.survivors # {} => packs'[gc.survivors] = packs[gc.survivors]
  <2> SUFFICES ASSUME gc.survivors # {} PROVE packs'[gc.survivors] = packs[gc.survivors] OBVIOUS
  <2>1. gc.survivors \in Names /\ gc.survivors # gc.target BY <1>1, <1>2, UnderwayIs, NameOf
  <2> QED BY <1>6, <2>1
<1> QED BY <1>1, <1>3, <1>4, <1>7, OutputExact

\* The cruft pack's files; gc fails when there is a sidecar already.
LEMMA CruftExact ==
  ASSUME GcIndInv, Exact, CruftPack \/ CruftIdx \/ Sidecar
  PROVE  Exact' /\ GcExact'
<1>1. gc.pc \in {"fresh", "cruftIdx", "sidecar"} /\ gc.pc \in Underway
  BY DEF CruftPack, CruftIdx, Sidecar, Underway, Carrying
<1>2. CASE gc' = Idle BY <1>2, ExactIdle DEF Idle
<1>3. CASE gc' # Idle
  <2>1. gc \in GcType /\ gc.staged.kind = "fresh" /\ gc.staged.out = gc.survivors
    BY <1>1, UnderwayIs DEF StagedOK
  <2>2. gc' = [gc EXCEPT !.pc = "cruftIdx"] \/ gc' = [gc EXCEPT !.pc = "sidecar"] \/ gc' = [gc EXCEPT !.pc = "verify"]
    BY <1>3 DEF CruftPack, CruftIdx, Sidecar
  <2>3. SameRun /\ loose' = loose /\ gc'.pc \in {"cruftIdx", "sidecar", "verify"}
    <3>1. UNCHANGED <<loose, outside, history>> BY DEF CruftPack, CruftIdx, Sidecar
    <3>2. SamePlan /\ gc'.before = gc.before /\ gc'.cruftPacks = gc.cruftPacks /\ gc'.calm = gc.calm
          /\ gc'.pc \in {"cruftIdx", "sidecar", "verify"}
      BY <2>1, <2>2 DEF SamePlan, GcType
    <3> QED BY <3>1, <3>2 DEF SameRun, outside, history
  <2>4. gc'.pc \in Underway BY <2>3 DEF Underway, Carrying, Verified
  <2> QED BY <1>1, <2>1, <2>3, <2>4, OutputExact
<1> QED BY <1>2, <1>3

\* loosenIfNotLoose: every survivor has a loose file then.
LEMMA LoosenExact ==
  ASSUME GcIndInv, Exact, Loosen
  PROVE  Exact' /\ GcExact'
<1>1. gc.pc = "loosen" /\ gc.pc \in Underway BY DEF Loosen, Underway, Carrying
<1>2. gc \in GcType /\ TypeOK /\ StoreOK /\ gc.staged.kind = "loosen" /\ gc.survivors \subseteq Objects
  BY <1>1, UnderwayIs DEF StagedOK
<1>3. gc'.pc = "verify" /\ SameRun /\ packs' = packs
  BY <1>2 DEF Loosen, SameRun, SamePlan, GcType, outside, history
<1>4. gc'.pc \in Underway BY <1>3 DEF Underway, Carrying, Verified
<1> SUFFICES ASSUME Calm PROVE CalmFiles' BY <1>1, <1>3, <1>4, ExactStep
<1>5. CalmFiles BY DEF Exact
<1>6. \A o \in Objects : loose'[o] = IF o \in gc.survivors \ gc.loose THEN clock ELSE loose[o] BY DEF Loosen
<1>7. \A o \in Objects : loose'[o] # 0 => o \in gc.loose \/ o \in gc.survivors BY <1>1, <1>5, <1>6 DEF CalmFiles
<1>8. \A o \in gc.survivors : loose'[o] # 0
  <2>1. clock # 0 /\ \A o \in gc.loose : loose[o] # 0 BY <1>1, <1>2 DEF StoreOK, GcIndInv, RunOK
  <2> QED BY <1>2, <1>6, <2>1
<1> QED BY <1>1, <1>2, <1>3, <1>5, <1>7, <1>8 DEF CalmFiles, SameRun, SamePlan

\* verifyPacked, a read in gc's session, and time change no file.
LEMMA LookExact ==
  ASSUME GcIndInv, Exact, GcExact, VerifyPacked \/ (\E p \in Names : ReadInSession(p)) \/ Tick \/ UNCHANGED vars
  PROVE  Exact' /\ GcExact'
<1>1. loose' = loose /\ packs' = packs /\ keep' = keep /\ refs' = refs /\ litter' = litter
  BY DEF VerifyPacked, ReadInSession, Tick, vars, outside, history
<1>2. CASE gc'.pc = "idle" BY <1>2, ExactIdle
<1>3. CASE gc' # gc /\ gc'.pc # "idle"
  <2>1. VerifyPacked /\ gc.pc = "verify" /\ gc' = [gc EXCEPT !.pc = "declassify"] /\ gc.pc \in Underway
    BY <1>3 DEF VerifyPacked, ReadInSession, Tick, vars, Idle, Underway, Carrying, Verified
  <2>2. gc \in GcType BY <2>1, UnderwayIs
  <2>3. SameRun /\ gc'.pc = "declassify" BY <1>1, <2>1, <2>2 DEF SameRun, SamePlan, GcType
  <2>4. gc'.pc \in Underway /\ gc.pc \in Verified BY <2>1, <2>3 DEF Underway, Carrying, Verified
  <2> QED BY <1>1, <2>1, <2>3, <2>4, OutputExact
<1>4. CASE gc' = gc /\ gc.pc \in Underway
  <2>1. SameRun BY <1>1, <1>4 DEF SameRun, SamePlan
  <2> QED BY <1>1, <1>4, <2>1, OutputExact
<1>5. CASE gc' = gc /\ gc.pc \notin Underway /\ gc.pc # "idle"
  <2>1. /\ gc.pc = "done" => hot' = hot
        /\ \A o : PackedAge(o)' = PackedAge(o) /\ RecordedAge(o)' = RecordedAge(o)
    <3>2. gc.pc = "done" => hot' = hot BY <1>5 DEF VerifyPacked, ReadInSession, Tick, vars, Underway, Carrying, Verified, Removing
    <3> QED BY <1>1, <3>2, RestAges
  <2>2. Exact' BY <1>1, <1>5, <2>1 DEF Exact, Calm, CalmCensus, CalmSplit, CalmPlan, CalmFiles
  <2>3. GcExact'
    <3>1. \A p : (Present(p)' <=> Present(p)) /\ (IsCruft(p)' <=> IsCruft(p)) BY <1>1 DEF Present, IsCruft
    <3>2. NormalPacks' = NormalPacks /\ CruftPacks' = CruftPacks BY <1>1, <3>1 DEF NormalPacks, CruftPacks
    <3>3. \A o : (Packed(o)' <=> Packed(o)) /\ (Readable(o)' <=> Readable(o)) BY <1>1, <3>1 DEF Packed, Readable
    <3> QED BY <1>1, <1>5, <2>1, <3>1, <3>2, <3>3 DEF GcExact
  <2> QED BY <2>2, <2>3
<1> QED BY <1>2, <1>3, <1>4, <1>5

\* retireSuperseded: every pack of the census is to go that is no output.
LEMMA DeclassifyExact ==
  ASSUME GcIndInv, Exact, Declassify
  PROVE  Exact' /\ GcExact'
<1>1. gc.pc = "declassify" /\ gc.pc \in Underway BY DEF Declassify, Underway, Carrying, Verified
<1>2. gc \in GcType /\ gc.target \cap gc.survivors = {} BY <1>1, UnderwayIs
<1>3. SameRun /\ loose' = loose BY <1>2 DEF Declassify, SameRun, SamePlan, GcType, outside, history
<1>4. gc'.pc = IF Superseded = {} THEN "prune" ELSE "retireIdx" BY <1>2 DEF Declassify, GcType
<1>5. gc'.pc \in Underway /\ gc.pc \in Verified BY <1>1, <1>4 DEF Underway, Carrying, Verified, Removing
<1>6. packs' = packs \/ packs' = [packs EXCEPT ![gc.target].ages = NoAges] BY DEF Declassify
<1>7. \A p \in Names : p # gc.target => packs'[p] = packs[p] BY <1>1, <1>6, UnderwayIs
<1>8. gc.survivors # {} => packs'[gc.survivors] = packs[gc.survivors]
  <2> SUFFICES ASSUME gc.survivors # {} PROVE packs'[gc.survivors] = packs[gc.survivors] OBVIOUS
  <2>1. gc.survivors \in Names /\ gc.survivors # gc.target BY <1>1, <1>2, UnderwayIs, NameOf
  <2> QED BY <1>7, <2>1
<1> QED BY <1>1, <1>3, <1>5, <1>8, OutputExact

\* retireSupersededPacks: a pack is gone with its .idx, and is off the list when the rest of it is gone.
LEMMA RetireExact ==
  ASSUME GcIndInv, Exact, (\E p \in Names : RetireIdx(p)) \/ RetirePack \/ RetireAges
  PROVE  Exact' /\ GcExact'
<1>1. gc.pc \in Retiring /\ gc.pc \in Underway
  BY DEF RetireIdx, RetirePack, RetireAges, Retiring, Underway, Carrying, Verified, Removing
<1>2. /\ gc \in GcType /\ RetiringOK /\ gc.retiring \subseteq Names
      /\ gc.retiring \subseteq (gc.normal \cup gc.cruft) \ {gc.target, gc.staged.out}
      /\ gc.staged.kind = "settled" => gc.staged.out = gc.survivors
  BY <1>1, UnderwayIs, Typed DEF RetiringOK, Retiring
<1>3. PICK x \in gc.retiring :
        \/ RetireIdx(x) \/ (gc.pc \in {"retirePack", "retireAges"} /\ (RetirePack \/ RetireAges) /\ x = gc.current)
  BY <1>2 DEF RetireIdx, RetirePack, RetireAges, RetiringOK
<1>4. \/ gc' = [gc EXCEPT !.pc = "retirePack", !.current = x] /\ RetireIdx(x)
      \/ gc' = [gc EXCEPT !.pc = "retireAges"] /\ x = gc.current /\ gc.pc = "retirePack"
      \/ gc' = AfterRetiring(x) /\ x = gc.current /\ gc.pc \in {"retirePack", "retireAges"}
  BY <1>3 DEF RetireIdx, RetirePack, RetireAges
<1>5. SameRun /\ loose' = loose
  <2>1. UNCHANGED <<loose, outside, history>> BY <1>3 DEF RetireIdx, RetirePack, RetireAges
  <2>2. SamePlan /\ gc'.before = gc.before /\ gc'.cruftPacks = gc.cruftPacks /\ gc'.calm = gc.calm
    <3>1. CASE gc' = [gc EXCEPT !.pc = "retirePack", !.current = x] BY <1>2, <3>1 DEF SamePlan, GcType
    <3>2. CASE gc' = [gc EXCEPT !.pc = "retireAges"] BY <1>2, <3>2 DEF SamePlan, GcType
    <3>3. CASE gc' = AfterRetiring(x) BY <1>2, <3>3 DEF SamePlan, AfterRetiring, GcType
    <3> QED BY <1>4, <3>1, <3>2, <3>3
  <2> QED BY <2>1, <2>2 DEF SameRun, outside, history
<1>6. gc'.pc \in {"retirePack", "retireAges", "prune", "retireIdx"} BY <1>2, <1>4 DEF AfterRetiring, GcType
<1>7. gc'.pc \in Underway /\ gc.pc \in Verified BY <1>1, <1>6 DEF Underway, Carrying, Verified, Removing, Retiring
<1>8. x \in Names /\ packs \in [Names -> [idx : BOOLEAN, pack : Times, ages : [Objects -> Times]]]
  BY <1>1, <1>2, <1>3, UnderwayIs
<1>9. \A p \in Names : p # x => packs'[p] = packs[p]
  <2>1. \/ packs' = [packs EXCEPT ![x].idx = FALSE] \/ packs' = [packs EXCEPT ![x].pack = 0]
        \/ packs' = [packs EXCEPT ![x].ages = NoAges]
    BY <1>3 DEF RetireIdx, RetirePack, RetireAges
  <2> QED BY <1>8, <2>1
<1>10. gc.staged.kind = "settled" /\ gc.survivors # {} => packs'[gc.survivors].ages = packs[gc.survivors].ages
  <2> SUFFICES ASSUME gc.staged.kind = "settled", gc.survivors # {} PROVE packs'[gc.survivors] = packs[gc.survivors]
    OBVIOUS
  <2>1. gc.survivors \in Names /\ gc.survivors # x BY <1>1, <1>2, <1>3, UnderwayIs, NameOf
  <2> QED BY <1>9, <2>1
<1> QED BY <1>1, <1>5, <1>7, <1>10, OutputExact

\* pruneLooseAfterRepack: what is packed and what is past the cutoff goes, and nothing else does.
LEMMA PruneExact ==
  ASSUME GcIndInv, Exact, PruneLoose
  PROVE  Exact' /\ GcExact'
<1>1. gc.pc = "prune" /\ gc.pc \in Underway /\ gc.pc \in Verified /\ gc.pc \in Removing /\ gc.pc \in Carrying
  BY DEF PruneLoose, Underway, Carrying, Verified, Removing
<1>2. /\ gc \in GcType /\ TypeOK /\ StoreOK /\ PlanOK /\ TargetOK /\ StagedOK /\ keep \subseteq Names
      /\ gc.target \cup gc.candidates = Owned \ gc.kept /\ gc.target \cap gc.candidates = {}
      /\ gc.survivors \subseteq gc.candidates /\ gc.target \subseteq Objects /\ gc.survivors \subseteq Objects
      /\ gc.kept = KeptObjects
      /\ gc.staged.out = IF gc.staged.kind = "loosen" THEN {} ELSE gc.survivors
      /\ gc.staged.kind \in {"loosen", "settled", "fresh"} /\ {} \notin Names
  BY <1>1, UnderwayIs DEF PlanOK, StagedOK, TypeOK
<1>3. SamePlan /\ gc'.pc = "done" /\ gc'.before = gc.before /\ gc'.cruftPacks = gc.cruftPacks /\ gc'.calm = gc.calm
  BY <1>2 DEF PruneLoose, GcType, SamePlan
<1>4. packs' = packs /\ keep' = keep /\ refs' = refs /\ litter' = litter /\ hot' = hot BY DEF PruneLoose, outside
<1>5. Exact'
  <2>1. gc'.pc \notin {"census", "age"} \cup Planning \cup Underway BY <1>3 DEF Underway, Planning
  <2> QED BY <2>1 DEF Exact, CalmCensus, CalmSplit, CalmPlan, CalmFiles
<1> SUFFICES ASSUME Calm', hot' = {} PROVE GcExact' BY <1>5 DEF GcExact, Calm
<1>6. /\ CalmSplit /\ CalmPlan /\ CalmFiles /\ litter = {} /\ hot = {} BY <1>3, <1>4 DEF Exact, Calm
<1>7. /\ gc.target \subseteq refs /\ gc.candidates \cap refs = {}
      /\ gc.cruftPacks <=> gc.staged.kind # "loosen"
      /\ gc.survivors = {o \in gc.candidates : gc.before[o] > gc.cutoff}
      /\ \A o \in Objects : gc.ages[o] = gc.before[o]
      /\ \A o \in Objects \ (Owned \cup gc.kept) : gc.before[o] = 0
      /\ \A o \in Objects : loose[o] # 0 => o \in gc.loose \/ (o \in gc.survivors /\ gc.staged.kind = "loosen")
      /\ gc.staged.kind = "loosen" => \A o \in gc.survivors : loose[o] # 0
      /\ \A p \in Names \ keep : Present(p) => p \in {gc.target, gc.staged.out}
      /\ gc.staged.kind = "settled" => \A o \in gc.survivors : packs[gc.survivors].ages[o] <= gc.before[o]
  BY <1>1, <1>2, <1>6 DEF CalmSplit, CalmPlan, CalmFiles, PlanOK, Remaining, Retiring
<1>8. \A o : /\ Packed(o) => o \in gc.kept \cup gc.target \cup gc.staged.out
             /\ o \in gc.kept => Packed(o)
  <2>1. ASSUME NEW o, Packed(o) PROVE o \in gc.kept \cup gc.target \cup gc.staged.out
    <3>1. PICK p \in Names : o \in p /\ Present(p) BY <2>1 DEF Packed
    <3>2. CASE p \in keep BY <1>2, <3>1, <3>2 DEF KeptObjects
    <3>3. CASE p \notin keep BY <1>7, <3>1, <3>3
    <3> QED BY <3>2, <3>3
  <2>2. ASSUME NEW o, o \in gc.kept PROVE Packed(o)
    <3>1. PICK p \in keep : Present(p) /\ o \in p BY <1>2, <2>2 DEF KeptObjects
    <3> QED BY <1>2, <3>1 DEF Packed
  <2> QED BY <2>1, <2>2
<1>9. gc.target \notin keep /\ gc.target # {} => ~IsCruft(gc.target) BY <1>1, <1>2, <1>6 DEF TargetOK
<1>10. gc.staged.out # {} => /\ gc.staged.out = gc.survivors /\ gc.survivors \in Names
                             /\ Present(gc.survivors) /\ IsCruft(gc.survivors)
                             /\ \A o \in gc.survivors : packs[gc.survivors].ages[o] <= gc.before[o]
  <2> SUFFICES ASSUME gc.staged.out # {}
               PROVE  /\ gc.staged.out = gc.survivors /\ gc.survivors \in Names
                      /\ Present(gc.survivors) /\ IsCruft(gc.survivors)
                      /\ \A o \in gc.survivors : packs[gc.survivors].ages[o] <= gc.before[o]
    OBVIOUS
  <2>1. gc.staged.out = gc.survivors /\ gc.survivors \in Names /\ gc.staged.kind \in {"settled", "fresh"}
    BY <1>2, NameOf
  <2>2. CASE gc.staged.kind = "settled" BY <1>2, <1>7, <2>1, <2>2 DEF StagedOK
  <2>3. CASE gc.staged.kind = "fresh"
    <3>1. /\ Present(gc.survivors) /\ \A o \in gc.survivors : gc.ages[o] # 0 /\ packs[gc.survivors].ages[o] = gc.ages[o]
      BY <1>1, <1>2, <2>3 DEF StagedOK, Present
    <3>2. PICK o \in gc.survivors : packs[gc.survivors].ages[o] # 0 BY <2>1, <3>1
    <3>3. IsCruft(gc.survivors) BY <1>2, <3>2 DEF IsCruft, NoAges
    <3>4. \A u \in gc.survivors : packs[gc.survivors].ages[u] = gc.before[u] /\ gc.ages[u] \in Nat
      BY <1>2, <1>7, <3>1, Typed
    <3>5. \A u \in gc.survivors : packs[gc.survivors].ages[u] <= gc.before[u] BY <1>2, <1>7, <3>4
    <3> QED BY <2>1, <3>1, <3>3, <3>5
  <2> QED BY <2>1, <2>2, <2>3
<1>11. \A o \in Objects : loose'[o] = IF o \in gc.loose /\ (o \in Doomed \/ Packed(o)) THEN 0 ELSE loose[o]
  BY <1>6 DEF PruneLoose, Unlinked
<1>12. \A p : (Present(p)' <=> Present(p)) /\ (IsCruft(p)' <=> IsCruft(p)) BY <1>4 DEF Present, IsCruft
<1>13. \A o : (Packed(o)' <=> Packed(o)) /\ (Readable(o)' <=> loose'[o] # 0 \/ Packed(o))
  BY <1>12 DEF Packed, Readable
<1>14. gc.loose \subseteq Objects /\ gc.loose \subseteq Owned /\ \A o \in gc.loose : loose[o] # 0
  BY <1>1, <1>2, Typed DEF Owned, GcIndInv, RunOK
<1>15. NormalPacks' \subseteq {gc.target} /\ CruftPacks' \subseteq {gc.staged.out}
  <2>1. \A p \in NormalPacks' \cup CruftPacks' : p \in Names \ keep /\ Present(p) /\ p \in {gc.target, gc.staged.out} \ {{}}
    BY <1>2, <1>4, <1>7, <1>12 DEF NormalPacks, CruftPacks
  <2>2. \A p \in NormalPacks' : ~IsCruft(p) BY <1>12 DEF NormalPacks
  <2>3. \A p \in CruftPacks' : IsCruft(p) BY <1>12 DEF CruftPacks
  <2> QED BY <1>9, <1>10, <2>1, <2>2, <2>3
<1>16. ASSUME NEW o \in Objects, o \notin refs
       PROVE  Readable(o)' <=> o \in gc.kept \/ gc.before[o] > gc.cutoff
  <2>1. o \notin gc.target BY <1>7, <1>16
  <2>2. gc.cutoff \in Nat BY <1>2, Typed
  <2>3. ASSUME Readable(o)' PROVE o \in gc.kept \/ gc.before[o] > gc.cutoff
    <3>1. CASE Packed(o) BY <1>2, <1>7, <1>8, <2>1, <3>1
    <3>2. CASE loose'[o] # 0
      <4>1. loose[o] # 0 /\ (o \in gc.loose => o \notin Doomed) BY <1>11, <3>2
      <4>2. CASE o \in gc.survivors BY <1>7, <4>2
      <4>3. CASE o \notin gc.survivors
        <5>1. o \in gc.loose /\ o \notin gc.candidates BY <1>7, <4>1, <4>3 DEF Doomed
        <5> QED BY <1>2, <1>14, <2>1, <5>1
      <4> QED BY <4>2, <4>3
    <3> QED BY <1>13, <2>3, <3>1, <3>2
  <2>4. ASSUME o \notin gc.kept, gc.before[o] > gc.cutoff PROVE Readable(o)'
    <3>1. o \in Owned BY <1>7, <2>2, <2>4
    <3>2. o \in gc.survivors BY <1>2, <1>7, <2>1, <2>4, <3>1
    <3>3. CASE gc.staged.kind # "loosen"
      <4>1. Present(gc.survivors) /\ gc.survivors \in Names BY <1>2, <1>10, <3>2, <3>3
      <4> QED BY <1>13, <3>2, <4>1 DEF Packed
    <3>4. CASE gc.staged.kind = "loosen"
      <4>1. loose[o] # 0 /\ ~Packed(o) /\ o \notin Doomed BY <1>2, <1>7, <1>8, <2>1, <2>4, <3>2, <3>4 DEF Doomed
      <4> QED BY <1>11, <1>13, <4>1
    <3> QED BY <3>3, <3>4
  <2> QED BY <1>8, <1>13, <2>3, <2>4
<1>17. Cardinality(NormalPacks') <= 1 /\ Cardinality(CruftPacks') <= 1
  <2>1. \A x : IsFiniteSet({x}) /\ Cardinality({x}) = 1 BY FS_Singleton
  <2>2. Cardinality(NormalPacks') <= Cardinality({gc.target}) BY <1>15, <2>1, FS_Subset
  <2>3. Cardinality(CruftPacks') <= Cardinality({gc.staged.out}) BY <1>15, <2>1, FS_Subset
  <2>4. Cardinality({gc.target}) = 1 /\ Cardinality({gc.staged.out}) = 1 BY <2>1
  <2> QED BY <2>2, <2>3, <2>4
<1>18. ASSUME NEW o \in Objects PROVE loose'[o] = 0 \/ ~Packed(o)'
  <2> SUFFICES ASSUME loose'[o] # 0, Packed(o) PROVE FALSE BY <1>13
  <2>1. o \notin gc.loose /\ loose[o] # 0 BY <1>11
  <2>2. o \in gc.survivors /\ gc.staged.kind = "loosen" BY <1>7, <2>1
  <2> QED BY <1>2, <1>8, <2>2
<1>19. ASSUME gc.cruftPacks, NEW o \in gc.survivors PROVE RecordedAge(o)' <= gc.before[o]
  <2>1. o \in Objects /\ gc.staged.out = gc.survivors BY <1>2, <1>7, <1>19
  <2>2. Present(gc.survivors) /\ gc.survivors \in Names /\ packs[gc.survivors].ages[o] <= gc.before[o]
    BY <1>10, <1>19, <2>1
  <2>3. loose'[o] = 0
    <3>1. Packed(o)' BY <1>13, <1>19, <2>2 DEF Packed
    <3> QED BY <1>18, <2>1, <3>1
  <2>4. gc.before[o] \in Nat /\ 0 <= gc.before[o]
    <3>1. gc.before[o] \in Times BY <1>2, <2>1 DEF GcType
    <3> QED BY <3>1, GraceAssumption DEF Times
  <2>5. NormalAge(o) = 0 /\ CarriedAge(o) \in {0, packs[gc.survivors].ages[o]}
    <3>1. \A p \in NormalPacks : o \notin p BY <1>2, <1>4, <1>15, <1>19, PackAges
    <3>2. \A p \in CruftPacks : p = gc.survivors BY <1>4, <1>15, <2>1, PackAges
    <3> QED BY <1>2, <2>1, <3>1, <3>2, AgesFrom
  <2>6. PackedAge(o) \in {0, packs[gc.survivors].ages[o]} /\ PackedAge(o) \in Times
    BY <1>2, <2>1, <2>5, AgesFrom, AgesTyped
  <2>7. RecordedAge(o)' = Newest({0, PackedAge(o)}) BY <1>4, <2>3, PackAges DEF RecordedAge
  <2>8. {0, PackedAge(o)} \subseteq Times BY <2>6, GraceAssumption DEF Times
  <2>9. RecordedAge(o)' \in {0, PackedAge(o)} BY <2>7, <2>8, NewestIn
  <2> QED BY <2>2, <2>4, <2>6, <2>9
<1> QED BY <1>3, <1>4, <1>16, <1>17, <1>18, <1>19 DEF GcExact, SamePlan

\* Every step keeps it.
LEMMA ExactKept ==
  ASSUME GcIndInv, Exact, GcExact, [Next]_vars
  PROVE  Exact' /\ GcExact'
<1>1. CASE GcStep
  <2>1. CASE Finish BY <2>1, ExactIdle DEF Finish, Idle
  <2> QED BY <1>1, <2>1, StartExact, CensusExact, PartitionExact, AgeExact, InstallExact, CruftExact, LoosenExact,
             LookExact, DeclassifyExact, RetireExact, PruneExact DEF GcStep
<1>2. CASE Crash BY <1>2, ExactIdle DEF Crash, Idle
<1>3. CASE Tick \/ (\E p \in Names : ReadInSession(p)) \/ UNCHANGED vars BY <1>3, LookExact
<1>4. CASE \E o \in Objects : WriteObject(o) \/ UpdateRef(o) \/ DeleteRef(o)
  <2>1. gc' = Disturbed BY <1>4 DEF WriteObject, UpdateRef, DeleteRef
  <2>2. gc \in GcType BY Typed DEF GcIndInv
  <2>3. gc'.pc = "idle" \/ ~gc'.calm BY <2>1, <2>2 DEF Disturbed, Running, GcType
  <2> QED BY <2>3, ExactIdle
<1> QED BY <1>1, <1>2, <1>3, <1>4 DEF Next

\* It holds at the start.
LEMMA ExactInit ==
  ASSUME Init
  PROVE  Exact /\ GcExact
<1>1. gc.pc = "idle" BY DEF Init, Idle
<1> QED BY <1>1 DEF Exact, GcExact, CalmCensus, CalmSplit, CalmPlan, CalmFiles, Underway, Carrying, Verified, Removing, Planning

\* A run that no writer disturbed leaves, of what there was, exactly the reachable, the kept and the
\* young, each in one place, and makes no garbage younger than it was (runGcTask).
THEOREM CalmRunsExact == Spec => []GcExact
<1>1. Init => Exact /\ GcExact BY ExactInit
<1>2. GcIndInv /\ Exact /\ GcExact /\ [Next]_vars => Exact' /\ GcExact' BY ExactKept
<1> QED BY <1>1, <1>2, GcSound, PTL DEF Spec

------------------------------
(* A session's reads. *)

\* A read that misses waits for a re-listing, or is over.
LEMMA MissKept ==
  ASSUME NobodyStranded, NEW r \in Readers, NEW others, Miss(r, others),
         scan \in [state : {"none", "asked", "seen", "ready"}, listed : SUBSET Names, seen : SUBSET Names],
         others \in [Readers -> [pc : ReadPcs, id : SUBSET Objects, left : SUBSET Names, hit : SUBSET Objects,
                                 dir : SUBSET Objects, again : BOOLEAN, there : BOOLEAN, late : BOOLEAN]],
         \A s \in Readers : others[s].pc = reader[s].pc,
         reader[r].pc \notin {"waiting", "generation"}
  PROVE  /\ NobodyStranded'
         /\ scan' \in [state : {"none", "asked", "seen", "ready"}, listed : SUBSET Names, seen : SUBSET Names]
         /\ reader' \in [Readers -> [pc : ReadPcs, id : SUBSET Objects, left : SUBSET Names, hit : SUBSET Objects,
                                     dir : SUBSET Objects, again : BOOLEAN, there : BOOLEAN, late : BOOLEAN]]
<1>1. CASE reader[r].again
  <2>1. reader' = [others EXCEPT ![r].pc = "missing"] /\ scan' = scan /\ wave' = wave BY <1>1 DEF Miss
  <2>2. reader' \in [Readers -> [pc : ReadPcs, id : SUBSET Objects, left : SUBSET Names, hit : SUBSET Objects,
                                 dir : SUBSET Objects, again : BOOLEAN, there : BOOLEAN, late : BOOLEAN]]
    BY <2>1 DEF ReadPcs
  <2>3. \A s \in Readers : reader'[s].pc = IF s = r THEN "missing" ELSE reader[s].pc BY <2>1
  <2>4. {s \in Readers : reader'[s].pc = "waiting"} = {s \in Readers : reader[s].pc = "waiting"} BY <2>3
  <2> QED BY <2>1, <2>2, <2>3, <2>4 DEF NobodyStranded
<1>2. CASE ~reader[r].again
  <2>1. /\ reader' = [others EXCEPT ![r].pc = "waiting", ![r].again = TRUE,
                                    ![r].late = wave # None /\ scan.state = "seen"]
        /\ wave' = IF wave = None THEN <<{r}>> ELSE <<wave[1] \cup {r}>>
        /\ scan' = IF wave = None THEN [scan EXCEPT !.state = "asked"] ELSE scan
    BY <1>2 DEF Miss
  <2>2. reader' \in [Readers -> [pc : ReadPcs, id : SUBSET Objects, left : SUBSET Names, hit : SUBSET Objects,
                                 dir : SUBSET Objects, again : BOOLEAN, there : BOOLEAN, late : BOOLEAN]]
    <3>1. PICK b \in BOOLEAN :
            reader' = [others EXCEPT ![r].pc = "waiting", ![r].again = TRUE, ![r].late = b]
      BY <2>1
    <3>2. others[r] \in [pc : ReadPcs, id : SUBSET Objects, left : SUBSET Names, hit : SUBSET Objects,
                         dir : SUBSET Objects, again : BOOLEAN, there : BOOLEAN, late : BOOLEAN]
      OBVIOUS
    <3>3. reader'[r] = [others[r] EXCEPT !.pc = "waiting", !.again = TRUE, !.late = b] BY <3>1, <3>2
    <3>4. reader'[r] \in [pc : ReadPcs, id : SUBSET Objects, left : SUBSET Names, hit : SUBSET Objects,
                          dir : SUBSET Objects, again : BOOLEAN, there : BOOLEAN, late : BOOLEAN]
      BY <3>2, <3>3, ZenonT(60) DEF ReadPcs
    <3>5. DOMAIN reader' = Readers /\ \A s \in Readers : s # r => reader'[s] = others[s] BY <3>1
    <3>6. reader' = [s \in Readers |-> reader'[s]] BY <3>1
    <3> QED BY <3>4, <3>5, <3>6
  <2>3. \A s \in Readers : reader'[s].pc = IF s = r THEN "waiting" ELSE reader[s].pc BY <2>1
  <2>4. scan' \in [state : {"none", "asked", "seen", "ready"}, listed : SUBSET Names, seen : SUBSET Names] BY <2>1
  <2>5. wave' # None /\ wave'[1] = (IF wave = None THEN {} ELSE wave[1]) \cup {r} BY <2>1 DEF None
  <2>6. {s \in Readers : reader'[s].pc = "waiting"} = wave'[1] BY <2>3, <2>5 DEF NobodyStranded
  <2>7. scan'.state \in {"asked", "seen"} BY <2>1 DEF NobodyStranded
  <2> QED BY <2>2, <2>4, <2>5, <2>6, <2>7 DEF NobodyStranded
<1> QED BY <1>1, <1>2

\* A pack that a read goes into is one it found the object in.
HitsNamed == \A r \in Readers : reader[r].pc \in {"header", "chain"} => reader[r].hit \in Names

\* It stays so.
LEMMA HitsKept ==
  ASSUME LookupInv, HitsNamed, [LookupNext]_<<vars, lookupVars>>
  PROVE  HitsNamed'
<1> DEFINE RT == [pc : ReadPcs, id : SUBSET Objects, left : SUBSET Names, hit : SUBSET Objects,
                  dir : SUBSET Objects, again : BOOLEAN, there : BOOLEAN, late : BOOLEAN]
<1>1. reader \in [Readers -> RT] BY DEF LookupInv, LookupTypeOK
<1> SUFFICES ASSUME NEW s \in Readers, reader'[s].pc \in {"header", "chain"}
             PROVE  reader'[s].hit \in Names
  BY DEF HitsNamed
<1>2. reader[s] \in RT BY <1>1
<1>3. CASE reader'[s].pc = reader[s].pc /\ reader'[s].hit = reader[s].hit BY <1>3 DEF HitsNamed
<1>4. CASE UNCHANGED lookupVars BY <1>3, <1>4 DEF lookupVars
<1>5. CASE SeeDirectory BY <1>3, <1>5 DEF SeeDirectory
<1>6. CASE DeliverScan
  <2>1. reader'[s] = IF wave # None /\ s \in wave[1] THEN [reader[s] EXCEPT !.pc = "generation"]
                     ELSE [reader[s] EXCEPT !.late = @ \/ (reader[s].pc \in {"header", "chain"}
                                                          /\ reader[s].hit \in scan.listed \ scan.seen)]
    BY <1>6 DEF DeliverScan
  <2> QED BY <1>2, <1>3, <2>1
<1>7. ASSUME NEW r \in Readers, NEW others, Miss(r, others), others \in [Readers -> RT],
             \A q \in Readers : others[q].pc = reader[q].pc /\ others[q].hit = reader[q].hit
      PROVE  reader'[s].pc = reader[s].pc /\ reader'[s].hit = reader[s].hit
  <2>1. CASE reader[r].again
    <3>1. reader' = [others EXCEPT ![r].pc = "missing"] BY <1>7, <2>1 DEF Miss
    <3> QED BY <1>7, <3>1
  <2>2. CASE ~reader[r].again
    <3>1. PICK b \in BOOLEAN :
            reader' = [others EXCEPT ![r].pc = "waiting", ![r].again = TRUE, ![r].late = b]
      BY <1>7, <2>2 DEF Miss
    <3> QED BY <1>7, <3>1
  <2> QED BY <2>1, <2>2
<1>8. CASE \E r \in Readers : ReadStep(r)
  <2>1. PICK r \in Readers : ReadStep(r) BY <1>8
  <2>2. CASE \E o \in Wanted : StartRead(r, o)
    <3>1. PICK b, o : reader' = [reader EXCEPT ![r] = [NoRead EXCEPT !.pc = "generation", !.id = {o}, !.there = b]]
      BY <2>2 DEF StartRead
    <3> QED BY <1>1, <1>3, <3>1 DEF NoRead
  <2>3. CASE \E p \in Names : ReadIndex(r, p)
    <3>1. PICK p \in Names : ReadIndex(r, p) BY <2>3
    <3>2. PICK c, h : /\ reader' = [reader EXCEPT ![r].left = @ \ {p}, ![r].pc = c, ![r].hit = h]
                      /\ (c = "header" /\ h = p) \/ c = "index"
      BY <3>1 DEF ReadIndex
    <3>3. CASE s = r BY <1>1, <3>2, <3>3
    <3>4. CASE s # r BY <1>1, <1>3, <3>2, <3>4
    <3> QED BY <3>3, <3>4
  <2>4. CASE TakeGeneration(r) BY <1>1, <1>3, <2>4 DEF TakeGeneration
  <2>5. CASE ProbeHeader(r)
    <3>1. PICK c : reader' = [reader EXCEPT ![r].pc = c] BY <2>5 DEF ProbeHeader
    <3>2. reader'[s].hit = reader[s].hit /\ (s # r => reader'[s].pc = reader[s].pc) BY <1>1, <3>1
    <3>3. reader[r].pc = "header" BY <2>5 DEF ProbeHeader
    <3> QED BY <3>2, <3>3 DEF HitsNamed
  <2>6. CASE ReadPacked(r) \/ EndRead(r)
    <3>1. PICK c \in {"failed", "found"} : reader' = [reader EXCEPT ![r].pc = c] \/ reader' = [reader EXCEPT ![r] = NoRead]
      BY <2>6 DEF ReadPacked, EndRead
    <3> QED BY <1>1, <1>3, <3>1 DEF NoRead
  <2>7. CASE ProbeLoose(r)
    <3>1. CASE Miss(r, reader) BY <1>1, <1>3, <1>7, <3>1
    <3>2. CASE reader' = [reader EXCEPT ![r].pc = "loose"] BY <1>1, <1>3, <3>2
    <3>3. CASE \E d : reader' = [reader EXCEPT ![r].pc = "fill", ![r].dir = d] BY <1>1, <1>3, <3>3
    <3> QED BY <2>7, <3>1, <3>2, <3>3 DEF ProbeLoose
  <2>8. CASE FillFanout(r)
    <3> DEFINE stale == {q \in Readers \ {r} : /\ reader[q].again /\ reader[q].pc # "waiting"
                                               /\ ~(reader[q].id \subseteq reader[r].dir)}
               others == [q \in Readers |-> [reader[q] EXCEPT !.late = @ \/ q \in stale]]
    <3>1. \A q \in Readers : others[q] \in RT /\ others[q].pc = reader[q].pc /\ others[q].hit = reader[q].hit
      <4> SUFFICES ASSUME NEW q \in Readers
                   PROVE  others[q] \in RT /\ others[q].pc = reader[q].pc /\ others[q].hit = reader[q].hit
        OBVIOUS
      <4>1. reader[q] \in RT BY <1>1
      <4>2. PICK b \in BOOLEAN : others[q] = [reader[q] EXCEPT !.late = b] BY <4>1
      <4> QED BY <4>1, <4>2
    <3>2. others \in [Readers -> RT] BY <3>1
    <3>3. Miss(r, others) \/ reader' = [others EXCEPT ![r].pc = "loose"] BY <2>8 DEF FillFanout
    <3> HIDE DEF others
    <3>4. CASE Miss(r, others) BY <1>3, <1>7, <3>1, <3>2, <3>4
    <3>5. CASE reader' = [others EXCEPT ![r].pc = "loose"] BY <1>3, <3>1, <3>2, <3>5
    <3> QED BY <3>3, <3>4, <3>5
  <2>9. CASE ReadLoose(r)
    <3>1. CASE Miss(r, reader) BY <1>1, <1>3, <1>7, <3>1
    <3>2. CASE reader' = [reader EXCEPT ![r].pc = "found"] BY <1>1, <1>3, <3>2
    <3> QED BY <2>9, <3>1, <3>2 DEF ReadLoose
  <2> QED BY <2>1, <2>2, <2>3, <2>4, <2>5, <2>6, <2>7, <2>8, <2>9 DEF ReadStep
<1> QED BY <1>4, <1>5, <1>6, <1>8 DEF LookupNext, SessionStep, lookupVars

\* Every step of the session keeps its caches typed and its waiting reads awaited.
LEMMA LookupKept ==
  ASSUME LookupInv, HitsNamed, [LookupNext]_<<vars, lookupVars>>
  PROVE  LookupInv'
<1> DEFINE RT == [pc : ReadPcs, id : SUBSET Objects, left : SUBSET Names, hit : SUBSET Objects,
                  dir : SUBSET Objects, again : BOOLEAN, there : BOOLEAN, late : BOOLEAN]
           ST == [state : {"none", "asked", "seen", "ready"}, listed : SUBSET Names, seen : SUBSET Names]
           KT == [index : SUBSET Names, header : SUBSET Names, retired : SUBSET Names]
<1>1. scan \in ST /\ known \in KT /\ reader \in [Readers -> RT] /\ (fan = None \/ fan[1] \subseteq Objects)
  BY DEF LookupInv, LookupTypeOK
<1>2. NobodyStranded BY DEF LookupInv
<1>3. CASE UNCHANGED lookupVars BY <1>3 DEF LookupInv, LookupTypeOK, NobodyStranded, lookupVars
<1>4. ASSUME scan' = scan, wave' = wave, fan' = fan, known' \in KT, reader' \in [Readers -> RT],
             \A s \in Readers : reader'[s].pc # reader[s].pc =>
               {reader[s].pc, reader'[s].pc} \cap {"waiting"} = {} /\ reader'[s].pc # "generation"
      PROVE  LookupInv'
  <2>1. {s \in Readers : reader'[s].pc = "waiting"} = {s \in Readers : reader[s].pc = "waiting"} BY <1>4
  <2>2. NobodyStranded' BY <1>2, <1>4, <2>1 DEF NobodyStranded
  <2> QED BY <1>1, <1>4, <2>2 DEF LookupInv, LookupTypeOK
<1>5. CASE SeeDirectory
  <2>1. scan.state = "asked" /\ scan' = [scan EXCEPT !.state = "seen", !.seen = {p \in Names : Present(p)}]
        /\ UNCHANGED <<known, fan, wave, reader, reads>>
    BY <1>5 DEF SeeDirectory
  <2>2. scan' \in ST /\ scan'.state = "seen" BY <1>1, <2>1
  <2> QED BY <1>1, <1>2, <2>1, <2>2 DEF LookupInv, LookupTypeOK, NobodyStranded
<1>6. CASE DeliverScan
  <2>1. scan' \in ST /\ scan'.state = "ready" /\ wave' = None /\ (fan' = fan \/ fan' = None)
    BY <1>1, <1>6 DEF DeliverScan
  <2>2. known' \in KT BY <1>1, <1>6 DEF DeliverScan
  <2>3. reader' = [r \in Readers |->
                  IF wave # None /\ r \in wave[1] THEN [reader[r] EXCEPT !.pc = "generation"]
                  ELSE [reader[r] EXCEPT !.late = @ \/ (reader[r].pc \in {"header", "chain"}
                                                       /\ reader[r].hit \in scan.listed \ scan.seen)]]
    BY <1>6 DEF DeliverScan
  <2>4. ASSUME NEW r \in Readers
        PROVE  /\ reader'[r] \in RT
               /\ reader'[r].pc = IF wave # None /\ r \in wave[1] THEN "generation" ELSE reader[r].pc
    <3>1. reader[r] \in RT BY <1>1
    <3>2. CASE wave # None /\ r \in wave[1]
      <4>1. reader'[r] = [reader[r] EXCEPT !.pc = "generation"] BY <2>3, <3>2
      <4> QED BY <3>1, <3>2, <4>1 DEF ReadPcs
    <3>3. CASE ~(wave # None /\ r \in wave[1])
      <4>1. PICK b \in BOOLEAN : reader'[r] = [reader[r] EXCEPT !.late = b] BY <2>3, <3>1, <3>3
      <4> QED BY <3>1, <3>3, <4>1
    <3> QED BY <3>2, <3>3
  <2>5. reader' \in [Readers -> RT] BY <2>3, <2>4
  <2>6. \A r \in Readers : reader'[r].pc # "waiting" BY <1>2, <2>4 DEF NobodyStranded
  <2> QED BY <1>1, <2>1, <2>2, <2>5, <2>6 DEF LookupInv, LookupTypeOK, NobodyStranded
<1>7. CASE \E r \in Readers : ReadStep(r)
  <2>1. PICK r \in Readers : ReadStep(r) BY <1>7
  <2>2. reader[r] \in RT BY <1>1
  <2>3. CASE \E o \in Wanted : StartRead(r, o)
    <3>1. PICK o \in Wanted : StartRead(r, o) BY <2>3
    <3>2. PICK b \in BOOLEAN : reader' = [reader EXCEPT ![r] = [NoRead EXCEPT !.pc = "generation", !.id = {o}, !.there = b]]
      BY <3>1 DEF StartRead, Readable
    <3>3. o \in Objects BY <3>1, WantedAssumption
    <3>4. reader' \in [Readers -> RT] BY <1>1, <3>2, <3>3 DEF NoRead, ReadPcs
    <3>5. \A s \in Readers : reader'[s].pc = IF s = r THEN "generation" ELSE reader[s].pc BY <1>1, <3>2 DEF NoRead
    <3>6. scan' \in ST /\ scan'.state # "none" /\ (scan'.state = scan.state \/ scan.state = "none")
      BY <1>1, <3>1 DEF StartRead
    <3>7. reader[r].pc = "idle" /\ UNCHANGED <<known, fan, wave>> BY <3>1 DEF StartRead
    <3>8. {s \in Readers : reader'[s].pc = "waiting"} = {s \in Readers : reader[s].pc = "waiting"} BY <3>5, <3>7
    <3>9. NobodyStranded' BY <1>2, <3>6, <3>7, <3>8 DEF NobodyStranded
    <3> QED BY <1>1, <3>4, <3>6, <3>7, <3>9 DEF LookupInv, LookupTypeOK
  <2>4. CASE \E p \in Names : ReadIndex(r, p)
    <3>1. PICK p \in Names : ReadIndex(r, p) BY <2>4
    <3>2. known' \in KT BY <1>1, <3>1 DEF ReadIndex
    <3>3. PICK c \in {"header", "index"}, h \in {p, {}} :
            reader' = [reader EXCEPT ![r].left = @ \ {p}, ![r].pc = c, ![r].hit = h]
      BY <3>1 DEF ReadIndex
    <3>x. reader'[r] = [reader[r] EXCEPT !.left = @ \ {p}, !.pc = c, !.hit = h] BY <1>1, <2>2, <3>3
    <3>y. h \subseteq Objects /\ c \in ReadPcs BY DEF ReadPcs, Names
    <3>z. reader'[r] \in RT BY <2>2, <3>x, <3>y
    <3>4. reader' \in [Readers -> RT]
      <4>1. \A s \in Readers : s # r => reader'[s] = reader[s] BY <1>1, <3>3
      <4>2. reader' = [s \in Readers |-> reader'[s]] BY <1>1, <3>3
      <4> QED BY <1>1, <3>z, <4>1, <4>2
    <3>5. \A s \in Readers : reader'[s].pc = IF s = r THEN c ELSE reader[s].pc BY <1>1, <3>3
    <3>6. scan' = scan /\ wave' = wave /\ fan' = fan /\ reader[r].pc = "index" BY <3>1 DEF ReadIndex
    <3>7. \A s \in Readers : reader'[s].pc # reader[s].pc =>
            {reader[s].pc, reader'[s].pc} \cap {"waiting"} = {} /\ reader'[s].pc # "generation"
      BY <3>3, <3>5, <3>6
    <3> QED BY <1>4, <3>2, <3>4, <3>6, <3>7
  <2>5. CASE TakeGeneration(r)
    <3>a. reader' = [reader EXCEPT ![r].pc = "index", ![r].left = scan.listed] BY <2>5 DEF TakeGeneration
    <3>b. reader'[r] = [reader[r] EXCEPT !.pc = "index", !.left = scan.listed] BY <1>1, <2>2, <3>a
    <3>c. scan.listed \in SUBSET Names /\ "index" \in ReadPcs BY <1>1 DEF ReadPcs
    <3>d. reader'[r] \in RT BY <2>2, <3>b, <3>c
    <3>1. reader' \in [Readers -> RT]
      <4>1. \A s \in Readers : s # r => reader'[s] = reader[s] BY <1>1, <3>a
      <4>2. reader' = [s \in Readers |-> reader'[s]] BY <1>1, <3>a
      <4> QED BY <1>1, <3>d, <4>1, <4>2
    <3>2. \A s \in Readers : reader'[s].pc = IF s = r THEN "index" ELSE reader[s].pc BY <1>1, <3>a
    <3> QED BY <1>1, <1>4, <2>5, <3>1, <3>2 DEF TakeGeneration
  <2>6. CASE ProbeHeader(r)
    <3>1. known' \in KT
      <4>1. reader[r].hit \in Names BY <2>6 DEF HitsNamed, ProbeHeader
      <4> QED BY <1>1, <2>6, <4>1 DEF ProbeHeader
    <3>2. PICK c \in {"chain", "index"} : reader' = [reader EXCEPT ![r].pc = c] BY <2>6 DEF ProbeHeader
    <3>3. reader' \in [Readers -> RT] BY <1>1, <3>2 DEF ReadPcs
    <3>4. \A s \in Readers : reader'[s].pc = IF s = r THEN c ELSE reader[s].pc BY <1>1, <3>2
    <3> QED BY <1>4, <2>6, <3>1, <3>3, <3>4 DEF ProbeHeader
  <2>7. CASE ReadPacked(r) \/ EndRead(r)
    <3>1. PICK c \in {"failed", "found", "idle"} :
            reader' = [reader EXCEPT ![r].pc = c] \/ (c = "idle" /\ reader' = [reader EXCEPT ![r] = NoRead])
      BY <2>7 DEF ReadPacked, EndRead
    <3>2. NoRead \in RT /\ NoRead.pc = "idle" BY DEF NoRead, ReadPcs
    <3>3. reader' \in [Readers -> RT] BY <1>1, <3>1, <3>2 DEF ReadPcs
    <3>4. \A s \in Readers : reader'[s].pc = IF s = r THEN c ELSE reader[s].pc BY <1>1, <3>1, <3>2
    <3> QED BY <1>1, <1>4, <2>7, <3>3, <3>4 DEF ReadPacked, EndRead
  <2>8. ASSUME NEW others \in [Readers -> RT], Miss(r, others), \A s \in Readers : others[s].pc = reader[s].pc,
               known' = known, fan' = None \/ fan'[1] \subseteq Objects, reader[r].pc \notin {"waiting", "generation"}
        PROVE  LookupInv'
    <3>1. NobodyStranded' /\ scan' \in ST /\ reader' \in [Readers -> RT] BY <1>1, <1>2, <2>8, MissKept
    <3> QED BY <1>1, <2>8, <3>1 DEF LookupInv, LookupTypeOK
  <2>9. ASSUME NEW others \in [Readers -> RT], \A s \in Readers : others[s].pc = reader[s].pc,
               NEW c \in ReadPcs \ {"waiting", "generation"}, NEW d \in SUBSET Objects,
               reader' = [others EXCEPT ![r].pc = c] \/ reader' = [others EXCEPT ![r].pc = c, ![r].dir = d],
               scan' = scan, wave' = wave, known' = known, fan' = None \/ fan'[1] \subseteq Objects,
               reader[r].pc \notin {"waiting", "generation"}
        PROVE  LookupInv'
    <3>1. reader' \in [Readers -> RT] BY <2>9
    <3>2. \A s \in Readers : reader'[s].pc = IF s = r THEN c ELSE reader[s].pc BY <2>9
    <3>3. {s \in Readers : reader'[s].pc = "waiting"} = {s \in Readers : reader[s].pc = "waiting"} BY <2>9, <3>2
    <3>4. NobodyStranded' BY <1>2, <2>9, <3>2, <3>3 DEF NobodyStranded
    <3> QED BY <1>1, <2>9, <3>1, <3>4 DEF LookupInv, LookupTypeOK
  <2>10. CASE ProbeLoose(r)
    <3>1. reader[r].pc = "index" /\ known' = known /\ fan' = fan /\ {o \in Objects : loose[o] # 0} \in SUBSET Objects
      BY <2>10 DEF ProbeLoose
    <3>2. CASE Miss(r, reader) BY <1>1, <2>8, <3>1, <3>2
    <3>3. CASE ~Miss(r, reader)
      <4>1. scan' = scan /\ wave' = wave BY <2>10, <3>3 DEF ProbeLoose
      <4>2. \/ reader' = [reader EXCEPT ![r].pc = "fill", ![r].dir = {o \in Objects : loose[o] # 0}]
            \/ reader' = [reader EXCEPT ![r].pc = "loose"]
        BY <2>10, <3>3 DEF ProbeLoose
      <4>3. "fill" \in ReadPcs \ {"waiting", "generation"} /\ "loose" \in ReadPcs \ {"waiting", "generation"}
        BY DEF ReadPcs
      <4> QED BY <1>1, <2>9, <3>1, <4>1, <4>2, <4>3
    <3> QED BY <3>2, <3>3
  <2>11. CASE FillFanout(r)
    <3> DEFINE stale == {s \in Readers \ {r} : /\ reader[s].again /\ reader[s].pc # "waiting"
                                               /\ ~(reader[s].id \subseteq reader[r].dir)}
               others == [s \in Readers |-> [reader[s] EXCEPT !.late = @ \/ s \in stale]]
    <3>1. reader[r].pc = "fill" /\ known' = known /\ fan' = <<reader[r].dir>> BY <2>11 DEF FillFanout
    <3>2. fan'[1] \subseteq Objects BY <2>2, <3>1
    <3>3. \A s \in Readers : others[s] \in RT /\ others[s].pc = reader[s].pc
      <4> SUFFICES ASSUME NEW s \in Readers PROVE others[s] \in RT /\ others[s].pc = reader[s].pc OBVIOUS
      <4>1. reader[s] \in RT BY <1>1
      <4>2. PICK b \in BOOLEAN : others[s] = [reader[s] EXCEPT !.late = b] BY <4>1
      <4> QED BY <4>1, <4>2
    <3>4. others \in [Readers -> RT] BY <3>3
    <3>5. Miss(r, others) \/ (reader' = [others EXCEPT ![r].pc = "loose"] /\ scan' = scan /\ wave' = wave)
      BY <2>11 DEF FillFanout
    <3>6. "loose" \in ReadPcs \ {"waiting", "generation"} /\ {} \in SUBSET Objects BY DEF ReadPcs
    <3> HIDE DEF others
    <3>7. CASE Miss(r, others) BY <2>8, <3>1, <3>2, <3>3, <3>4, <3>7
    <3>8. CASE reader' = [others EXCEPT ![r].pc = "loose"] /\ scan' = scan /\ wave' = wave
      BY <2>9, <3>1, <3>2, <3>3, <3>4, <3>6, <3>8
    <3> QED BY <3>5, <3>7, <3>8
  <2>12. CASE ReadLoose(r)
    <3>1. reader[r].pc = "loose" /\ known' = known BY <2>12 DEF ReadLoose
    <3>2. \/ fan' = fan /\ scan' = scan /\ wave' = wave /\ reader' = [reader EXCEPT ![r].pc = "found"]
          \/ fan' = None /\ Miss(r, reader)
      BY <2>12 DEF ReadLoose
    <3>3. "found" \in ReadPcs \ {"waiting", "generation"} /\ {} \in SUBSET Objects BY DEF ReadPcs
    <3>4. CASE Miss(r, reader) /\ fan' = None BY <1>1, <2>8, <3>1, <3>4
    <3>5. CASE fan' = fan /\ scan' = scan /\ wave' = wave /\ reader' = [reader EXCEPT ![r].pc = "found"]
      BY <1>1, <2>9, <3>1, <3>3, <3>5
    <3> QED BY <3>2, <3>4, <3>5
  <2> QED BY <2>1, <2>3, <2>4, <2>5, <2>6, <2>7, <2>10, <2>11, <2>12 DEF ReadStep
<1> QED BY <1>3, <1>5, <1>6, <1>7 DEF LookupNext, SessionStep, lookupVars

\* At the start nobody reads.
LEMMA LookupStarts ==
  ASSUME LookupInit
  PROVE  LookupInv /\ HitsNamed
<1>1. NoRead \in [pc : ReadPcs, id : SUBSET Objects, left : SUBSET Names, hit : SUBSET Objects,
                  dir : SUBSET Objects, again : BOOLEAN, there : BOOLEAN, late : BOOLEAN] /\ NoRead.pc = "idle"
  BY DEF NoRead, ReadPcs
<1>2. \A r \in Readers : reader[r] = NoRead BY DEF LookupInit
<1>3. LookupTypeOK BY <1>1 DEF LookupInit, LookupTypeOK
<1>4. NobodyStranded BY <1>1, <1>2 DEF LookupInit, NobodyStranded
<1>5. HitsNamed BY <1>1, <1>2 DEF HitsNamed
<1> QED BY <1>3, <1>4, <1>5 DEF LookupInv

\* No read waits for a listing that nobody makes, whatever gc and the writers do to the directory
\* (createPromiseMemo, rescanOnFullMiss).
THEOREM NoReadStranded == LookupSpec => []LookupInv
<1>1. LookupInit => LookupInv /\ HitsNamed BY LookupStarts
<1>2. LookupInv /\ HitsNamed /\ [LookupNext]_<<vars, lookupVars>> => LookupInv' /\ HitsNamed' BY LookupKept, HitsKept
<1> QED BY <1>1, <1>2, PTL DEF LookupSpec

------------------------------
(* Reads beside one event. *)

\* One gc or one write happens, no pack is kept, and nothing expires.
OneEvent == MaxEvents = 1 /\ Keeps = {{}} /\ Grace >= 2

\* The store loses nothing any more but what is superseded.
Clearing == Removing \ {"done"}
Final == gc.pc \in Removing \/ (gc.pc = "idle" /\ events # 0)

\* Until then everything is where it was found.
OrigPacks == IF gc.pc \in {"idle", "census"} THEN {p \in Names : Present(p)} ELSE gc.normal \cup gc.cruft
OrigLoose == IF gc.pc = "idle" THEN {o \in Objects : loose[o] # 0} ELSE gc.loose
Original(o) == o \in OrigLoose \/ \E p \in OrigPacks : o \in p

\* From then on it is also where it is going to stay.
Stays(p) == Present(p) /\ (gc.pc \in Clearing => p \in {gc.target, gc.staged.out})
LooseStays(o) == loose[o] # 0 /\ (gc.pc \in Clearing => o \in gc.survivors /\ gc.staged.kind = "loosen")
Anchored(o) == LooseStays(o) \/ \E p \in Names : o \in p /\ Stays(p)

\* The store beside one event: every object survives, and nothing original is gone before it is final.
OneOK ==
  /\ keep = {} /\ clock = 2 /\ litter = {} /\ gc.calm /\ hot = {} /\ gc.cutoff = 0
  /\ events \in {0, 1} /\ (gc.pc # "idle" => events = 1)
  /\ \A p \in Names : packs[p].idx => packs[p].pack # 0
  /\ ~Final /\ gc.pc \notin Underway => \A p \in Names : IsCruft(p) => \A o \in p : packs[p].ages[o] # 0
  /\ gc.pc \in Underway => gc.survivors = gc.candidates
  /\ ~Final => \A p \in OrigPacks : Present(p)

\* What a step does to where things are.
StoreStep ==
  /\ Final => /\ Final'
              /\ \A p \in Names : (Stays(p) => Stays(p)') /\ (packs'[p].idx => packs[p].idx)
              /\ \A o \in Objects : LooseStays(o) <=> LooseStays(o)'
  /\ ~Final /\ Final' => \A o \in Objects : Original(o) => Anchored(o)'
  /\ ~Final /\ ~Final' => /\ OrigPacks' = OrigPacks /\ OrigLoose' = OrigLoose
                          /\ \A p \in Names : Present(p) => Present(p)'

\* gc goes on, and nobody else acts.
SameEvent ==
  /\ keep' = keep /\ clock' = clock /\ litter' = litter /\ hot' = {} /\ events' = events
  /\ gc'.calm = gc.calm /\ gc'.cutoff = gc.cutoff

\* The packs that are there without a kept one.
LEMMA PacksAre ==
  ASSUME keep = {}
  PROVE  /\ NormalPacks \cup CruftPacks = {p \in Names : Present(p)} /\ KeptObjects = {}
         /\ CruftPacks = {p \in Names : Present(p) /\ IsCruft(p)}
BY DEF NormalPacks, CruftPacks, KeptObjects

\* Everything that can be read before the store is final is original.
LEMMA ReadableOriginal ==
  ASSUME GcIndInv, Exact, OneOK, ~Final, NEW o \in Objects, Readable(o)
  PROVE  Original(o)
<1>1. Calm /\ NormalPacks \cup CruftPacks = {p \in Names : Present(p)} /\ KeptObjects = {} BY PacksAre DEF OneOK, Calm
<1>2. CASE gc.pc = "idle" BY <1>2, ReadableIs DEF Original, OrigPacks, OrigLoose
<1>3. CASE gc.pc \in {"census"} \cup Planning
  <2>1. gc.loose = {u \in Objects : loose[u] # 0} BY <1>1, <1>3 DEF Exact, CalmCensus
  <2>2. gc.pc \in Planning => gc.normal \cup gc.cruft = {p \in Names : Present(p)} BY <1>1 DEF GcIndInv, CensusOK
  <2> QED BY <1>3, <2>1, <2>2, ReadableIs DEF Original, OrigPacks, OrigLoose, Planning
<1>4. CASE gc.pc \in Underway
  <2>1. CalmFiles BY <1>1 DEF Exact
  <2>2. gc.target \cup gc.candidates = Owned \ gc.kept /\ gc.survivors \subseteq gc.candidates
        /\ gc.staged.out \in {{}, gc.survivors} /\ PlanOK /\ gc.pc \in Carrying
    BY <1>4, UnderwayIs
  <2>3. gc.pc \notin {"idle", "census", "prune"} \cup Retiring
    BY <1>4 DEF Final, Underway, Carrying, Verified, Removing, Retiring
  <2>4. loose[o] # 0 => o \in Owned BY <1>4, <2>1, <2>2 DEF CalmFiles, Owned
  <2>5. \A p \in Names : Present(p) /\ o \in p => o \in Owned
    BY <2>2, <2>3 DEF PlanOK, OneOK, Remaining, Owned
  <2>6. o \in Owned BY <2>4, <2>5, ReadableIs
  <2> QED BY <2>3, <2>6 DEF Owned, Original, OrigPacks, OrigLoose
<1> QED
  <2>1. gc.pc \in Pcs BY Typed DEF GcIndInv
  <2> QED BY <1>2, <1>3, <1>4, <2>1 DEF Pcs, Final, Underway, Carrying, Verified, Removing, Planning

\* What gc owns is where it is going to stay, once everything is in place.
LEMMA OwnedAnchored ==
  ASSUME GcIndInv, Exact, OneOK, gc.pc \in {"declassify"} \cup Clearing, NEW o \in Owned
  PROVE  \/ loose[o] # 0 /\ o \in gc.survivors /\ gc.staged.kind = "loosen"
         \/ \E p \in {gc.target, gc.staged.out} : p \in Names /\ o \in p /\ Present(p)
<1>1. gc.pc \in Underway /\ gc.pc \in Verified /\ gc.pc \notin {"pack", "idx"}
  BY DEF Underway, Carrying, Verified, Clearing, Removing
<1>2. Calm /\ CalmFiles /\ KeptObjects = {} BY PacksAre DEF OneOK, Calm, Exact
<1>3. /\ TargetOK /\ StagedOK /\ gc.kept = {} /\ gc.target \cup gc.candidates = Owned \ gc.kept
      /\ gc.target \subseteq Objects /\ gc.survivors \subseteq Objects /\ gc.staged.kind \in {"loosen", "settled", "fresh"}
      /\ (gc.staged.kind # "loosen" => gc.staged.out = gc.survivors)
  BY <1>1, <1>2, UnderwayIs DEF PlanOK
<1>4. CASE o \in gc.target
  <2>1. gc.target \in Names /\ packs[gc.target].idx /\ packs[gc.target].pack # 0
    BY <1>1, <1>3, <1>4, NameOf DEF TargetOK, OneOK
  <2> QED BY <1>4, <2>1 DEF Present
<1>5. CASE o \in gc.survivors /\ gc.staged.kind = "loosen" BY <1>1, <1>2, <1>5 DEF CalmFiles
<1>6. CASE o \in gc.survivors /\ gc.staged.kind # "loosen"
  <2>1. gc.survivors \in Names /\ Present(gc.survivors) BY <1>1, <1>3, <1>6, NameOf DEF StagedOK, Present
  <2> QED BY <1>3, <1>6, <2>1
<1> QED BY <1>1, <1>3, <1>4, <1>5, <1>6 DEF OneOK

\* And everything that can be read when the store is final.
LEMMA ReadableAnchored ==
  ASSUME GcIndInv, Exact, OneOK, Final, NEW o \in Objects, Readable(o)
  PROVE  Anchored(o)
<1>1. CASE gc.pc \notin Clearing BY <1>1, ReadableIs DEF Anchored, Stays, LooseStays
<1>2. CASE gc.pc \in Clearing
  <2>1. gc.pc \in Underway BY <1>2 DEF Underway, Carrying, Verified, Clearing
  <2>2. Calm /\ CalmFiles BY DEF OneOK, Calm, Exact
  <2>3. /\ gc.target \cup gc.candidates = Owned \ gc.kept /\ gc.survivors \subseteq gc.candidates
        /\ gc.staged.out \in {{}, gc.survivors} /\ RetiringOK /\ PlanOK /\ gc.pc \in Carrying
    BY <2>1, UnderwayIs
  <2>4. gc.retiring \subseteq gc.normal \cup gc.cruft \/ gc.pc = "prune"
    BY <1>2, <2>3 DEF RetiringOK, Clearing, Removing
  <2>5. Remaining \subseteq gc.normal \cup gc.cruft BY <2>4 DEF Remaining, Retiring
  <2>6. loose[o] # 0 => o \in Owned BY <2>1, <2>2, <2>3 DEF CalmFiles, Owned
  <2>7. \A p \in Names : Present(p) /\ o \in p => o \in Owned
    BY <2>3, <2>5 DEF PlanOK, OneOK, Owned
  <2>8. o \in Owned BY <2>6, <2>7, ReadableIs
  <2> QED BY <1>2, <2>8, OwnedAnchored DEF Anchored, Stays, LooseStays
<1> QED BY <1>1, <1>2

\* gc starts, finds what is there, and plans: nothing is too old to survive.
LEMMA PlanOne ==
  ASSUME OneEvent, GcIndInv, Exact, OneOK,
         (\E c \in CruftModes : StartGc(c)) \/ ReadExistingPacks \/ PartitionRepack \/ AgeCandidates
  PROVE  OneOK' /\ StoreStep
<1>1. packs' = packs /\ loose' = loose /\ keep' = keep /\ clock' = clock /\ litter' = litter
  BY DEF StartGc, ReadExistingPacks, PartitionRepack, AgeCandidates, outside, history
<1>2. gc \in GcType /\ TypeOK /\ keep = {} /\ clock = 2 /\ Calm /\ gc.cutoff = 0 /\ hot = {}
  BY Typed DEF GcIndInv, OneOK, Calm
<1>3. NormalPacks \cup CruftPacks = {p \in Names : Present(p)} /\ CruftPacks = {p \in Names : Present(p) /\ IsCruft(p)}
  BY <1>2, PacksAre
<1>4. \A p : (Present(p)' <=> Present(p)) /\ (IsCruft(p)' <=> IsCruft(p)) BY <1>1 DEF Present, IsCruft
<1>5. CASE \E c \in CruftModes : StartGc(c)
  <2>1. PICK c \in CruftModes : StartGc(c) BY <1>5
  <2>2. gc.pc = "idle" /\ events < 1 /\ events' = events + 1 /\ hot' = {} BY <2>1 DEF StartGc, Running, OneEvent
  <2>3. /\ gc'.pc = "census" /\ gc'.loose = {o \in Objects : loose[o] # 0} /\ gc'.calm
        /\ gc'.cutoff = IF clock > Grace THEN clock - Grace ELSE 0
    BY <2>1 DEF StartGc, Idle
  <2>4. gc'.cutoff = 0 BY <1>2, <2>3, Typed DEF OneEvent
  <2>5. events = 0 /\ events' = 1 BY <2>2 DEF OneOK
  <2>6. ~Final /\ ~Final' BY <2>2, <2>3, <2>5 DEF Final, Removing
  <2>7. OrigPacks' = OrigPacks /\ OrigLoose' = OrigLoose BY <1>1, <1>4, <2>2, <2>3 DEF OrigPacks, OrigLoose
  <2>8. gc.pc \notin Underway /\ gc'.pc \notin Underway
    BY <2>2, <2>3 DEF Underway, Carrying, Verified, Removing
  <2>9. StoreStep BY <1>4, <2>6, <2>7 DEF StoreStep
  <2> QED BY <1>1, <1>2, <1>4, <2>2, <2>3, <2>4, <2>5, <2>6, <2>7, <2>8, <2>9 DEF OneOK, Calm
<1>6. CASE ReadExistingPacks
  <2>1. gc.pc = "census" /\ hot' = hot /\ events' = events BY <1>6 DEF ReadExistingPacks
  <2>2. /\ gc'.pc = "reach" /\ gc'.loose = gc.loose /\ gc'.calm = gc.calm /\ gc'.cutoff = gc.cutoff
        /\ gc'.normal = NormalPacks /\ gc'.cruft = CruftPacks
    BY <1>2, <1>6 DEF ReadExistingPacks, GcType
  <2>3. ~Final /\ ~Final' /\ gc.pc \notin Underway /\ gc'.pc \notin Underway
    BY <2>1, <2>2 DEF Final, Underway, Carrying, Verified, Removing
  <2>4. OrigPacks' = OrigPacks /\ OrigLoose' = OrigLoose BY <1>1, <1>3, <2>1, <2>2 DEF OrigPacks, OrigLoose
  <2>5. StoreStep BY <1>4, <2>3, <2>4 DEF StoreStep
  <2> QED BY <1>1, <1>2, <1>4, <2>1, <2>2, <2>3, <2>4, <2>5 DEF OneOK, Calm
<1>7. CASE PartitionRepack
  <2>1. gc.pc = "reach" /\ hot' = hot /\ events' = events BY <1>7 DEF PartitionRepack
  <2>2. /\ gc'.pc = "age" /\ gc'.loose = gc.loose /\ gc'.calm = gc.calm /\ gc'.cutoff = gc.cutoff
        /\ gc'.normal = gc.normal /\ gc'.cruft = gc.cruft
    BY <1>2, <1>7 DEF PartitionRepack, GcType
  <2>3. ~Final /\ ~Final' /\ gc.pc \notin Underway /\ gc'.pc \notin Underway
    BY <2>1, <2>2 DEF Final, Underway, Carrying, Verified, Removing
  <2>4. OrigPacks' = OrigPacks /\ OrigLoose' = OrigLoose BY <2>1, <2>2 DEF OrigPacks, OrigLoose
  <2>5. StoreStep BY <1>4, <2>3, <2>4 DEF StoreStep
  <2> QED BY <1>1, <1>2, <1>4, <2>1, <2>2, <2>3, <2>4, <2>5 DEF OneOK, Calm
<1>8. CASE AgeCandidates
  <2>1. gc.pc = "age" /\ hot' = hot /\ events' = events BY <1>8 DEF AgeCandidates
  <2>2. /\ gc'.pc = "pack" /\ gc'.loose = gc.loose /\ gc'.calm = gc.calm /\ gc'.cutoff = gc.cutoff
        /\ gc'.normal = gc.normal /\ gc'.cruft = gc.cruft /\ gc'.candidates = gc.candidates
        /\ gc'.survivors = {o \in gc.candidates : CruftMtimes[o] > gc.cutoff}
    BY <1>2, <1>8 DEF AgeCandidates, GcType
  <2>3. ~Final /\ ~Final' /\ gc.pc \notin Underway
    BY <2>1, <2>2 DEF Final, Underway, Carrying, Verified, Removing
  <2>4. OrigPacks' = OrigPacks /\ OrigLoose' = OrigLoose BY <2>1, <2>2 DEF OrigPacks, OrigLoose
  <2>5. StoreStep BY <1>4, <2>3, <2>4 DEF StoreStep
  <2>6. ASSUME NEW o \in gc.candidates PROVE CruftMtimes[o] > 0
    <3>1. /\ o \in Owned /\ o \in Objects /\ gc.normal = NormalPacks /\ gc.cruft = CruftPacks
          /\ gc.ages[o] = PackedAge(o) /\ gc.loose = {u \in Objects : loose[u] # 0}
      BY <1>2, <2>1, Typed DEF GcIndInv, CensusOK, PartitionOK, Planning, Exact, CalmCensus
    <3>2. /\ CruftMtimes[o] \in Nat /\ CruftMtimes[o] >= PackedAge(o) /\ (o \in gc.loose => CruftMtimes[o] >= loose[o])
          /\ PackedAge(o) \in Nat /\ CarriedAge(o) \in Nat /\ NormalAge(o) \in Nat /\ loose[o] \in Nat
      BY <1>2, <3>1, MtimesTyped, AgesTyped, Typed, GraceAssumption DEF Times
    <3>3. CASE o \in gc.loose BY <3>1, <3>2, <3>3
    <3>4. CASE \E p \in NormalPacks : o \in p
      <4>1. PICK p \in NormalPacks : o \in p BY <3>4
      <4>2. packs[p].pack \in Nat /\ packs[p].pack # 0 BY <1>2, <4>1, Typed DEF NormalPacks, Present
      <4>3. NormalAge(o) >= packs[p].pack /\ PackedAge(o) >= NormalAge(o) BY <1>2, <3>1, <4>1, AgesTyped
      <4> QED BY <3>2, <4>2, <4>3
    <3>5. CASE \E p \in CruftPacks : o \in p
      <4>1. PICK p \in CruftPacks : o \in p BY <3>5
      <4>2. packs[p].ages[o] \in Nat /\ packs[p].ages[o] # 0
        BY <1>2, <2>3, <3>1, <4>1, Typed DEF CruftPacks, OneOK
      <4>3. CarriedAge(o) >= packs[p].ages[o] /\ PackedAge(o) >= CarriedAge(o) BY <1>2, <3>1, <4>1, AgesTyped
      <4> QED BY <3>2, <4>2, <4>3
    <3> QED BY <3>1, <3>3, <3>4, <3>5 DEF Owned
  <2>7. gc'.survivors = gc'.candidates BY <1>2, <2>2, <2>6
  <2>8. gc'.pc \in Underway BY <2>2 DEF Underway, Carrying
  <2> QED BY <1>1, <1>2, <1>4, <2>1, <2>2, <2>3, <2>4, <2>5, <2>7, <2>8 DEF OneOK, Calm
<1> QED BY <1>5, <1>6, <1>7, <1>8

\* Until something is removed, files are only added.
LEMMA AddOne ==
  ASSUME GcIndInv, OneOK, SamePlan, SameEvent, gc.pc \in Underway \ Clearing, gc'.pc \in Underway \ Clearing,
         \A p \in Names : /\ packs[p].idx => packs'[p].idx
                          /\ packs[p].pack # 0 => packs'[p].pack # 0
                          /\ packs'[p].idx => packs[p].idx \/ packs'[p].pack # 0
  PROVE  OneOK' /\ StoreStep
<1>1. ~Final /\ ~Final' /\ gc.pc \notin {"idle", "census"} /\ gc'.pc \notin {"idle", "census"}
  BY DEF Final, Clearing, Underway, Carrying, Verified, Removing
<1>2. OrigPacks' = OrigPacks /\ OrigLoose' = OrigLoose BY <1>1 DEF OrigPacks, OrigLoose, SamePlan
<1>3. \A p \in Names : Present(p) => Present(p)' BY DEF Present
<1>4. OrigPacks \subseteq Names BY <1>1, Typed DEF OrigPacks, GcIndInv
<1>5. StoreStep BY <1>1, <1>2, <1>3 DEF StoreStep
<1> QED BY <1>1, <1>2, <1>3, <1>4, <1>5 DEF OneOK, SamePlan, SameEvent

\* gc gives up before it has removed anything.
LEMMA GiveUpOne ==
  ASSUME GcIndInv, Exact, OneOK, gc.pc \in Underway \ Clearing, gc' = Idle, packs' = packs, loose' = loose,
         keep' = keep, clock' = clock, litter' = litter, hot' = {}, events' = events
  PROVE  OneOK' /\ StoreStep
<1>1. ~Final /\ gc.pc \notin {"idle", "census"} /\ gc.pc # "idle"
  BY DEF Final, Clearing, Underway, Carrying, Verified, Removing
<1>2. gc'.pc = "idle" /\ gc'.calm /\ gc'.cutoff = 0 BY DEF Idle
<1>3. events = 1 /\ Final' /\ gc'.pc \notin Underway \cup Clearing
  BY <1>1, <1>2 DEF OneOK, Final, Underway, Carrying, Verified, Removing, Clearing
<1>4. \A p : Present(p)' <=> Present(p) BY DEF Present
<1>5. ASSUME NEW o \in Objects, Original(o) PROVE Anchored(o)'
  <2>1. CASE o \in OrigLoose
    <3>1. loose[o] # 0 BY <1>1, <2>1 DEF OrigLoose, GcIndInv, RunOK, Underway
    <3> QED BY <1>3, <3>1 DEF Anchored, LooseStays
  <2>2. CASE \E p \in OrigPacks : o \in p
    <3>1. PICK p \in OrigPacks : o \in p BY <2>2
    <3>2. p \in Names /\ Present(p) BY <1>1, <3>1, Typed DEF OneOK, OrigPacks, GcIndInv
    <3> QED BY <1>3, <1>4, <3>1, <3>2 DEF Anchored, Stays
  <2> QED BY <1>5, <2>1, <2>2 DEF Original
<1>6. StoreStep BY <1>1, <1>3, <1>5 DEF StoreStep
<1> QED BY <1>2, <1>3, <1>6 DEF OneOK

\* gc carries its plan out, or gives up.
LEMMA CarryOne ==
  ASSUME GcIndInv, Exact, OneOK,
         InstallPack \/ InstallIdx \/ CruftPack \/ CruftIdx \/ Sidecar \/ Loosen \/ VerifyPacked
  PROVE  OneOK' /\ StoreStep
<1>1. gc.pc \in Underway \ Clearing
  BY DEF InstallPack, InstallIdx, CruftPack, CruftIdx, Sidecar, Loosen, VerifyPacked,
         Underway, Carrying, Verified, Removing, Clearing
<1>2. /\ keep' = keep /\ clock' = clock /\ litter' = litter /\ events' = events /\ (hot' = hot \/ hot' = {}) /\ hot = {}
  BY DEF InstallPack, InstallIdx, CruftPack, CruftIdx, Sidecar, Loosen, VerifyPacked, outside, history, OneOK
<1>3. CASE gc' = Idle
  <2>1. packs' = packs /\ loose' = loose
    <3>1. gc \in GcType /\ Idle.pc = "idle" BY <1>1, UnderwayIs DEF Idle
    <3>2. \A c \in Pcs \ {"idle"} : gc' # [gc EXCEPT !.pc = c] BY <1>3, <3>1 DEF GcType
    <3>3. AfterNormal \in Pcs \ {"idle"} BY <3>1 DEF AfterNormal, GcType, Pcs
    <3>4. {"idx", "cruftIdx", "sidecar", "verify"} \subseteq Pcs \ {"idle"} BY DEF Pcs
    <3>5. Sidecar \/ VerifyPacked BY <3>2, <3>3, <3>4 DEF InstallPack, InstallIdx, CruftPack, CruftIdx, Loosen
    <3> QED BY <3>2, <3>4, <3>5 DEF Sidecar, VerifyPacked
  <2> QED BY <1>1, <1>2, <1>3, <2>1, GiveUpOne
<1>4. CASE gc' # Idle
  <2>1. gc \in GcType /\ TargetOK /\ StagedOK /\ clock = 2 /\ {} \notin Names
        /\ packs \in [Names -> [idx : BOOLEAN, pack : Times, ages : [Objects -> Times]]]
    BY <1>1, UnderwayIs DEF OneOK
  <2>2. PICK c \in {"idx", "cruftIdx", "sidecar", "verify", "declassify", AfterNormal} : gc' = [gc EXCEPT !.pc = c]
    BY <1>4 DEF InstallPack, InstallIdx, CruftPack, CruftIdx, Sidecar, Loosen, VerifyPacked
  <2>3. AfterNormal \in {"verify", "loosen", "fresh"} BY <2>1 DEF AfterNormal, GcType
  <2>4. gc'.pc \in Underway \ Clearing
    BY <2>1, <2>2, <2>3 DEF GcType, Underway, Carrying, Verified, Removing, Clearing
  <2>5. SamePlan /\ gc'.calm = gc.calm BY <2>1, <2>2 DEF SamePlan, GcType
  <2>6. \/ packs' = packs
        \/ gc.pc = "pack" /\ packs' = [packs EXCEPT ![gc.target].pack = clock]
        \/ gc.pc = "idx" /\ packs' = [packs EXCEPT ![gc.target].idx = TRUE]
        \/ packs' = [packs EXCEPT ![gc.survivors].pack = IF @ = 0 THEN clock ELSE @]
        \/ gc.pc = "cruftIdx" /\ packs' = [packs EXCEPT ![gc.survivors].idx = TRUE]
        \/ \E f : packs' = [packs EXCEPT ![gc.survivors].ages = f]
    BY DEF InstallPack, InstallIdx, CruftPack, CruftIdx, Sidecar, Loosen, VerifyPacked
  <2>7. /\ gc.pc = "idx" /\ gc.target # {} => packs[gc.target].pack # 0
        /\ gc.pc = "cruftIdx" => packs[gc.survivors].pack # 0
    BY <2>1 DEF TargetOK, StagedOK
  <2>8. ASSUME NEW p \in Names
        PROVE  /\ packs[p].idx => packs'[p].idx
               /\ packs[p].pack # 0 => packs'[p].pack # 0
               /\ packs'[p].idx => packs[p].idx \/ packs'[p].pack # 0
    <3>1. packs[p] \in [idx : BOOLEAN, pack : Times, ages : [Objects -> Times]] /\ p # {} BY <2>1
    <3>2. CASE gc.pc = "pack" /\ packs' = [packs EXCEPT ![gc.target].pack = clock] BY <2>1, <3>1, <3>2
    <3>3. CASE gc.pc = "idx" /\ packs' = [packs EXCEPT ![gc.target].idx = TRUE] BY <2>1, <2>7, <3>1, <3>3
    <3>4. CASE packs' = [packs EXCEPT ![gc.survivors].pack = IF @ = 0 THEN clock ELSE @] BY <2>1, <3>1, <3>4
    <3>5. CASE gc.pc = "cruftIdx" /\ packs' = [packs EXCEPT ![gc.survivors].idx = TRUE] BY <2>1, <2>7, <3>1, <3>5
    <3>6. CASE \E f : packs' = [packs EXCEPT ![gc.survivors].ages = f] BY <2>1, <3>1, <3>6
    <3> QED BY <2>6, <3>2, <3>3, <3>4, <3>5, <3>6
  <2>9. SameEvent BY <1>2, <2>5 DEF SameEvent, SamePlan
  <2> QED BY <1>1, <2>4, <2>5, <2>8, <2>9, AddOne
<1> QED BY <1>3, <1>4

\* Everything is in place, and what is superseded is going to be removed.
LEMMA DeclassifyOne ==
  ASSUME GcIndInv, Exact, OneOK, Declassify
  PROVE  OneOK' /\ StoreStep
<1>1. gc.pc = "declassify" /\ gc.pc \in Underway BY DEF Declassify, Underway, Carrying, Verified
<1>2. gc \in GcType /\ packs \in [Names -> [idx : BOOLEAN, pack : Times, ages : [Objects -> Times]]]
      /\ \A p \in Names : packs[p] \in [idx : BOOLEAN, pack : Times, ages : [Objects -> Times]]
  BY <1>1, UnderwayIs
<1>3. SamePlan /\ gc'.calm = gc.calm /\ gc'.pc \in {"prune", "retireIdx"}
  BY <1>2 DEF Declassify, SamePlan, GcType
<1>4. loose' = loose /\ keep' = keep /\ clock' = clock /\ litter' = litter /\ events' = events /\ hot' = {}
  BY DEF Declassify, outside, history
<1>5. ASSUME NEW p \in Names PROVE packs'[p].idx = packs[p].idx /\ packs'[p].pack = packs[p].pack
  <2>1. packs' = packs \/ packs' = [packs EXCEPT ![gc.target].ages = NoAges] BY DEF Declassify
  <2>2. packs[p] \in [idx : BOOLEAN, pack : Times, ages : [Objects -> Times]] BY <1>2
  <2> QED BY <1>2, <2>1, <2>2
<1>6. ~Final /\ Final' /\ gc'.pc \in Clearing /\ gc'.pc \in Underway
  BY <1>1, <1>3 DEF Final, Removing, Clearing, Underway, Carrying, Verified
<1>7. ASSUME NEW o \in Objects, Original(o) PROVE Anchored(o)'
  <2>1. o \in Owned BY <1>1, <1>7 DEF Original, OrigPacks, OrigLoose, Owned
  <2>2. CASE loose[o] # 0 /\ o \in gc.survivors /\ gc.staged.kind = "loosen"
    BY <1>3, <1>4, <2>2 DEF Anchored, LooseStays, SamePlan
  <2>3. CASE \E p \in {gc.target, gc.staged.out} : p \in Names /\ o \in p /\ Present(p)
    <3>1. PICK p \in {gc.target, gc.staged.out} : p \in Names /\ o \in p /\ Present(p) BY <2>3
    <3>2. Stays(p)' BY <1>3, <1>5, <3>1 DEF Stays, Present, SamePlan
    <3> QED BY <3>1, <3>2 DEF Anchored
  <2> QED BY <1>1, <2>1, <2>2, <2>3, OwnedAnchored
<1>8. StoreStep BY <1>6, <1>7 DEF StoreStep
<1>9. \A p \in Names : packs'[p].idx => packs'[p].pack # 0 BY <1>5 DEF OneOK
<1>10. /\ keep = {} /\ clock = 2 /\ litter = {} /\ gc.calm /\ gc.cutoff = 0 /\ events = 1 /\ gc.survivors = gc.candidates
  BY <1>1 DEF OneOK
<1> QED BY <1>3, <1>4, <1>6, <1>8, <1>9, <1>10 DEF OneOK, SamePlan

\* What is superseded is removed, and nothing that stays.
LEMMA RetireOne ==
  ASSUME GcIndInv, Exact, OneOK, (\E p \in Names : RetireIdx(p)) \/ RetirePack \/ RetireAges
  PROVE  OneOK' /\ StoreStep
<1>1. gc.pc \in Retiring /\ gc.pc \in Underway /\ gc.pc \in Clearing
  BY DEF RetireIdx, RetirePack, RetireAges, Retiring, Underway, Carrying, Verified, Removing, Clearing
<1>2. /\ gc \in GcType /\ gc.retiring \subseteq Names
      /\ gc.retiring \cap {gc.target, gc.staged.out} = {}
      /\ gc.pc \in {"retirePack", "retireAges"} => gc.current \in gc.retiring /\ ~packs[gc.current].idx
      /\ packs \in [Names -> [idx : BOOLEAN, pack : Times, ages : [Objects -> Times]]]
  BY <1>1, UnderwayIs, Typed DEF RetiringOK, Retiring
<1>3. /\ loose' = loose /\ keep' = keep /\ clock' = clock /\ litter' = litter /\ events' = events /\ hot' = {}
  BY DEF RetireIdx, RetirePack, RetireAges, outside, history, OneOK
<1>4. PICK x \in gc.retiring :
        \/ packs' = [packs EXCEPT ![x].idx = FALSE]
        \/ ~packs[x].idx /\ (packs' = [packs EXCEPT ![x].pack = 0] \/ packs' = [packs EXCEPT ![x].ages = NoAges])
  BY <1>2 DEF RetireIdx, RetirePack, RetireAges
<1>5. ASSUME NEW p \in Names
      PROVE  /\ p # x => packs'[p] = packs[p]
             /\ packs'[p].idx => packs[p].idx /\ packs'[p].pack = packs[p].pack
  <2>1. packs[p] \in [idx : BOOLEAN, pack : Times, ages : [Objects -> Times]] BY <1>2
  <2> QED BY <1>2, <1>4, <2>1
<1>6. \/ \E p \in Names : gc' = [gc EXCEPT !.pc = "retirePack", !.current = p]
      \/ gc' = [gc EXCEPT !.pc = "retireAges"] \/ gc' = AfterRetiring(gc.current)
  BY DEF RetireIdx, RetirePack, RetireAges
<1>7. SamePlan /\ gc'.calm = gc.calm /\ gc'.pc \in Clearing /\ gc'.pc \in Underway
  <2>1. CASE \E p \in Names : gc' = [gc EXCEPT !.pc = "retirePack", !.current = p]
    BY <1>2, <2>1 DEF SamePlan, GcType, Clearing, Removing, Underway, Carrying, Verified
  <2>2. CASE gc' = [gc EXCEPT !.pc = "retireAges"]
    BY <1>2, <2>2 DEF SamePlan, GcType, Clearing, Removing, Underway, Carrying, Verified
  <2>3. CASE gc' = AfterRetiring(gc.current)
    BY <1>2, <2>3 DEF AfterRetiring, SamePlan, GcType, Clearing, Removing, Underway, Carrying, Verified
  <2> QED BY <1>6, <2>1, <2>2, <2>3
<1>8. Final /\ Final' BY <1>1, <1>7 DEF Final, Clearing
<1>9. ASSUME NEW p \in Names, Stays(p) PROVE Stays(p)'
  <2>1. Present(p) /\ p \in {gc.target, gc.staged.out} /\ p # x BY <1>1, <1>2, <1>9 DEF Stays
  <2> QED BY <1>5, <1>7, <2>1 DEF Stays, Present, SamePlan
<1>10. \A o \in Objects : LooseStays(o) <=> LooseStays(o)' BY <1>1, <1>3, <1>7 DEF LooseStays, SamePlan
<1>11. StoreStep BY <1>5, <1>8, <1>9, <1>10 DEF StoreStep
<1>12. \A p \in Names : packs'[p].idx => packs'[p].pack # 0 BY <1>5 DEF OneOK
<1>13. events = 1 BY <1>1 DEF OneOK, Clearing, Removing
<1> QED BY <1>1, <1>3, <1>7, <1>8, <1>11, <1>12, <1>13 DEF OneOK, SamePlan

\* The loose files that are packed go, and gc is over.
LEMMA PruneOne ==
  ASSUME GcIndInv, Exact, OneOK, PruneLoose \/ Finish
  PROVE  OneOK' /\ StoreStep
<1>1. /\ packs' = packs /\ keep' = keep /\ clock' = clock /\ litter' = litter /\ events' = events /\ hot' = {}
      /\ gc \in GcType
  BY Typed DEF PruneLoose, Finish, outside, history, OneOK, GcIndInv
<1>2. gc.pc \in {"prune", "done"} /\ events = 1 BY DEF PruneLoose, Finish, OneOK
<1>3. gc'.pc \in {"done", "idle"} /\ gc'.calm /\ gc'.cutoff = 0
  <2>1. CASE PruneLoose BY <1>1, <2>1 DEF PruneLoose, GcType, OneOK
  <2>2. CASE Finish BY <2>2 DEF Finish, Idle
  <2> QED BY <2>1, <2>2
<1>4. Final /\ Final' /\ gc'.pc \notin Underway \cup Clearing
  BY <1>1, <1>2, <1>3 DEF Final, Removing, Underway, Carrying, Verified, Clearing
<1>5. \A p : Present(p)' <=> Present(p) BY <1>1 DEF Present
<1>6. ASSUME NEW o \in Objects, LooseStays(o) PROVE LooseStays(o)'
  <2>1. CASE Finish BY <1>4, <1>6, <2>1 DEF LooseStays, Finish
  <2>2. CASE PruneLoose
    <3>1. gc.pc = "prune" /\ gc.pc \in Underway /\ gc.pc \in Clearing
      BY <2>2 DEF PruneLoose, Underway, Carrying, Verified, Removing, Clearing
    <3>2. loose[o] # 0 /\ o \in gc.survivors /\ gc.staged.kind = "loosen" BY <1>6, <3>1 DEF LooseStays
    <3>3. hot = {} /\ keep = {} BY DEF OneOK
    <3>4. gc.target \cap gc.survivors = {} /\ gc.staged.out = {} /\ {} \notin Names
      BY <3>1, <3>2, UnderwayIs DEF StagedOK
    <3>5. ASSUME NEW p \in Names, o \in p, Present(p) PROVE FALSE
      <4>1. p \in Remaining \cup {gc.target, gc.staged.out} BY <3>1, <3>3, <3>5, UnderwayIs DEF PlanOK
      <4>2. Remaining = {} BY <3>1 DEF Remaining, Retiring
      <4> QED BY <3>2, <3>4, <3>5, <4>1, <4>2
    <3>6. o \notin Unlinked BY <3>2, <3>3, <3>5 DEF Unlinked, Doomed, Packed
    <3>7. loose'[o] = loose[o] BY <2>2, <3>6 DEF PruneLoose
    <3> QED BY <1>4, <3>2, <3>7 DEF LooseStays
  <2> QED BY <2>1, <2>2
<1>7. ASSUME NEW o \in Objects, LooseStays(o)' PROVE LooseStays(o)
  <2>1. loose'[o] # 0 BY <1>7 DEF LooseStays
  <2>2. CASE Finish BY <2>1, <2>2 DEF LooseStays, Finish, Clearing, Removing
  <2>3. CASE PruneLoose
    <3>1. loose[o] # 0 /\ o \notin Unlinked BY <2>1, <2>3 DEF PruneLoose
    <3>2. Anchored(o) BY <1>4, <3>1, ReadableIs, ReadableAnchored
    <3>3. CASE o \in gc.loose BY <3>1, <3>2, <3>3 DEF Unlinked, Packed, Anchored, Stays
    <3>4. CASE o \notin gc.loose
      <4>1. CalmFiles /\ gc.pc \in Underway
        BY <2>3 DEF Exact, Calm, OneOK, PruneLoose, Underway, Carrying, Verified, Removing
      <4>2. o \in gc.survivors /\ gc.staged.kind = "loosen" BY <3>1, <3>4, <4>1 DEF CalmFiles
      <4> QED BY <3>1, <4>2 DEF LooseStays
    <3> QED BY <3>3, <3>4
  <2> QED BY <2>2, <2>3
<1>8. StoreStep BY <1>1, <1>4, <1>5, <1>6, <1>7 DEF StoreStep, Stays
<1> QED BY <1>1, <1>2, <1>3, <1>4, <1>8 DEF OneOK

\* A writer adds a loose file, or touches one.
LEMMA WriteOne ==
  ASSUME OneEvent, GcIndInv, OneOK, \E o \in Objects : WriteObject(o)
  PROVE  OneOK' /\ StoreStep
<1>1. PICK u \in Objects : WriteObject(u) OBVIOUS
<1>2. events < 1 /\ events' = events + 1 /\ gc' = Disturbed /\ keep' = keep /\ clock' = clock /\ hot' = hot /\ litter' = litter
  BY <1>1 DEF WriteObject, OneEvent
<1>3. events = 0 /\ events' = 1 /\ gc.pc = "idle" /\ gc' = gc BY <1>2 DEF OneOK, Disturbed, Running
<1>4. ~Final /\ Final' /\ gc'.pc \notin Underway \cup Clearing
  BY <1>3 DEF Final, Removing, Underway, Carrying, Verified, Clearing
<1>5. clock = 2 /\ TypeOK /\ packs \in [Names -> [idx : BOOLEAN, pack : Times, ages : [Objects -> Times]]]
  BY DEF OneOK, GcIndInv, TypeOK
<1>6. \/ packs' = packs \/ \E p : packs' = [packs EXCEPT ![p].pack = clock]
  BY <1>1 DEF WriteObject, TouchPack, TouchLoose
<1>7. loose' = loose \/ loose' = [loose EXCEPT ![u] = clock] BY <1>1 DEF WriteObject, TouchPack, TouchLoose
<1>8. ASSUME NEW p \in Names PROVE packs'[p].idx = packs[p].idx /\ (packs[p].pack # 0 => packs'[p].pack # 0)
  <2>1. packs[p] \in [idx : BOOLEAN, pack : Times, ages : [Objects -> Times]] BY <1>5
  <2> QED BY <1>5, <1>6, <2>1
<1>9. \A o \in Objects : loose[o] # 0 => loose'[o] # 0 BY <1>5, <1>7 DEF TypeOK
<1>10. ASSUME NEW o \in Objects, Original(o) PROVE Anchored(o)'
  <2>1. CASE loose[o] # 0 BY <1>4, <1>9, <2>1 DEF Anchored, LooseStays
  <2>2. CASE \E p \in Names : Present(p) /\ o \in p
    <3>1. PICK p \in Names : Present(p) /\ o \in p BY <2>2
    <3>2. Stays(p)' BY <1>4, <1>8, <3>1 DEF Stays, Present
    <3> QED BY <3>1, <3>2 DEF Anchored
  <2> QED BY <1>3, <1>10, <2>1, <2>2 DEF Original, OrigPacks, OrigLoose
<1>11. StoreStep BY <1>4, <1>10 DEF StoreStep
<1>12. \A p \in Names : packs'[p].idx => packs'[p].pack # 0 BY <1>8 DEF OneOK
<1> QED BY <1>2, <1>3, <1>4, <1>11, <1>12 DEF OneOK

\* gc and the writers, one of which acts.
LEMMA OthersOne ==
  ASSUME OneEvent, GcIndInv, Exact, OneOK, OthersStep
  PROVE  OneOK' /\ StoreStep
BY PlanOne, CarryOne, DeclassifyOne, RetireOne, PruneOne, WriteOne DEF OthersStep, GcStep

------------------------------
(* A session's caches and reads beside one event. *)

\* What is retired is gone, and nobody has its index.
RetiredGone ==
  /\ \A p \in known.retired : ~packs[p].idx /\ p \notin known.index
  /\ scan.state = "seen" => \A p \in scan.listed \ scan.seen : ~packs[p].idx

\* Before the store is final, every cache has everything original.
CachesFull ==
  /\ \A p \in scan.listed \cup scan.seen : Present(p)
  /\ scan.state = "ready" => OrigPacks \subseteq scan.listed
  /\ scan.state = "seen" => OrigPacks \cup scan.listed \subseteq scan.seen
  /\ known.retired = {}
  /\ fan # None => OrigLoose \subseteq fan[1]

CachesOK == RetiredGone /\ (~Final => CachesFull)

\* A read is of one object, goes into a pack that it sees retired, and does not give up at once.
\* (Here and below, v is what a read remembers.)
OpenOK(v) ==
  /\ v.pc # "idle" => \E o \in Objects : v.id = {o}
  /\ v.pc \in {"header", "chain"} /\ ~v.late => v.hit \notin known.retired
  /\ v.pc = "failed" => v.late
  /\ v.pc \in {"waiting", "missing"} => v.again

\* Before the store is final, the first look cannot miss.
FirstLook(v) ==
  /\ v.pc = "fill" => OrigLoose \subseteq v.dir
  /\ v.pc \in {"header", "chain"} => Present(v.hit)
  /\ v.pc \in {"index", "header"} => \A p \in v.left : Present(p)
  /\ v.there =>
       /\ ~v.again /\ v.pc \notin {"missing", "failed", "waiting"}
       /\ \A o \in v.id : Original(o)
       /\ v.pc = "index" => v.id \subseteq OrigLoose \/ \E p \in v.left \cap OrigPacks : v.id \subseteq p
       /\ v.pc \in {"fill", "loose"} => v.id \subseteq OrigLoose

\* Some of the packs a read has still to look in, or its loose file, is going to stay.
Way(v, S) == (\E o \in v.id : LooseStays(o)) \/ \E p \in S : v.id \subseteq p /\ Stays(p)

\* When the store is final, a second look that is no exception has a way to its object.
SecondLook(v) ==
  /\ v.pc \in {"waiting", "generation"} /\ scan.state = "ready" => Way(v, scan.listed)
  /\ v.pc \in {"waiting", "generation"} /\ scan.state = "seen" => Way(v, scan.seen)
  /\ v.pc = "waiting" => scan.state # "ready"
  /\ v.pc = "index" => Way(v, v.left)
  /\ v.pc = "header" => Stays(v.hit) \/ Way(v, v.left)
  /\ v.pc \in {"generation", "index", "header"} =>
       fan = None \/ v.id \subseteq fan[1] \/ \A o \in v.id : ~LooseStays(o)
  /\ v.pc \in {"fill", "loose"} => \E o \in v.id : LooseStays(o)
  /\ v.pc = "fill" => v.id \subseteq v.dir
  /\ v.pc # "missing"

LateLook(v) == v.there => (\A o \in v.id : Anchored(o)) /\ (v.again /\ ~v.late => SecondLook(v))

ReadOK(r) == OpenOK(reader[r]) /\ (~Final => FirstLook(reader[r])) /\ (Final => LateLook(reader[r]))
FindsInv == OneOK /\ CachesOK /\ \A r \in Readers : ReadOK(r)

\* It says what ReadFinds says.
LEMMA FindsFound ==
  ASSUME FindsInv
  PROVE  ReadFinds
<1> SUFFICES ASSUME NEW r \in Readers, reader[r].there, reader[r].pc \in {"missing", "failed"}
             PROVE  reader[r].late
  BY DEF ReadFinds
<1>1. ReadOK(r) BY DEF FindsInv
<1>2. CASE reader[r].pc = "failed" BY <1>1, <1>2 DEF ReadOK, OpenOK
<1>3. CASE reader[r].pc = "missing" /\ ~Final BY <1>1, <1>3 DEF ReadOK, FirstLook
<1>4. CASE reader[r].pc = "missing" /\ Final BY <1>1, <1>4 DEF ReadOK, OpenOK, LateLook, SecondLook
<1> QED BY <1>2, <1>3, <1>4

RT == [pc : ReadPcs, id : SUBSET Objects, left : SUBSET Names, hit : SUBSET Objects,
       dir : SUBSET Objects, again : BOOLEAN, there : BOOLEAN, late : BOOLEAN]

\* The type of a session's caches and reads.
LEMMA SessionTyped ==
  ASSUME LookupInv
  PROVE  /\ reader \in [Readers -> RT] /\ (\A r \in Readers : reader[r] \in RT)
         /\ scan \in [state : {"none", "asked", "seen", "ready"}, listed : SUBSET Names, seen : SUBSET Names]
         /\ known \in [index : SUBSET Names, header : SUBSET Names, retired : SUBSET Names]
         /\ scan.listed \subseteq Names /\ scan.seen \subseteq Names /\ known.retired \subseteq Names
         /\ \A r \in Readers : reader[r].left \subseteq Names /\ reader[r].id \subseteq Objects
<1>1. /\ reader \in [Readers -> RT]
      /\ scan \in [state : {"none", "asked", "seen", "ready"}, listed : SUBSET Names, seen : SUBSET Names]
      /\ known \in [index : SUBSET Names, header : SUBSET Names, retired : SUBSET Names]
  BY DEF LookupInv, LookupTypeOK, RT
<1>2. \A r \in Readers : reader[r] \in RT BY <1>1
<1>3. \A v \in RT : v.left \subseteq Names /\ v.id \subseteq Objects BY DEF RT
<1> QED BY <1>1, <1>2, <1>3

\* What gc and the writers do to the store leaves it true.
LEMMA StoreFinds ==
  ASSUME LookupInv, HitsNamed, CachesOK, \A r \in Readers : ReadOK(r), StoreStep, UNCHANGED lookupVars
  PROVE  CachesOK' /\ \A r \in Readers : ReadOK(r)'
<1>1. scan' = scan /\ known' = known /\ fan' = fan /\ reader' = reader BY DEF lookupVars
<1>2. scan.listed \subseteq Names /\ scan.seen \subseteq Names /\ known.retired \subseteq Names
      /\ \A r \in Readers : reader[r].left \subseteq Names /\ reader[r].id \subseteq Objects
  BY SessionTyped
<1>3. CASE Final
  <2>1. /\ Final' /\ \A p \in Names : (Stays(p) => Stays(p)') /\ (packs'[p].idx => packs[p].idx)
        /\ \A o \in Objects : LooseStays(o) <=> LooseStays(o)'
    BY <1>3 DEF StoreStep
  <2>2. CachesOK' BY <1>1, <1>2, <1>3, <2>1 DEF CachesOK, RetiredGone
  <2>3. ASSUME NEW r \in Readers PROVE ReadOK(r)'
    <3> DEFINE v == reader[r]
    <3>1. ReadOK(r) /\ v.left \subseteq Names /\ v.id \subseteq Objects /\ (v.pc \in {"header", "chain"} => v.hit \in Names)
      BY <1>2 DEF HitsNamed
    <3>2. OpenOK(reader[r])' BY <1>1, <3>1 DEF ReadOK, OpenOK
    <3>3. ASSUME v.there PROVE \A o \in v.id : Anchored(o)'
      BY <1>3, <2>1, <3>1, <3>3 DEF ReadOK, LateLook, Anchored
    <3>4. ASSUME v.there, v.again, ~v.late PROVE SecondLook(reader[r])'
      <4>1. SecondLook(v) BY <1>3, <3>1, <3>4 DEF ReadOK, LateLook
      <4>2. ASSUME NEW S \in SUBSET Names, Way(v, S)
            PROVE  (\E o \in v.id : LooseStays(o)') \/ \E p \in S : v.id \subseteq p /\ Stays(p)'
        BY <2>1, <3>1, <4>2 DEF Way
      <4>3. v.pc \in {"fill", "loose"} => \E o \in v.id : LooseStays(o)' BY <2>1, <3>1, <4>1 DEF SecondLook
      <4>4. (\A o \in v.id : ~LooseStays(o)) => \A o \in v.id : ~LooseStays(o)' BY <2>1, <3>1
      <4>5. v.pc = "header" => Stays(v.hit)' \/ Way(v, v.left)
        <5>1. v.pc = "header" => v.hit \in Names /\ (Stays(v.hit) \/ Way(v, v.left)) BY <3>1, <4>1 DEF SecondLook
        <5>2. ASSUME NEW h \in Names, h = v.hit, Stays(h) PROVE Stays(v.hit)' BY <1>1, <2>1, <5>2 DEF Stays, Present
        <5> QED BY <5>1, <5>2
      <4> QED BY <1>1, <1>2, <3>1, <4>1, <4>2, <4>3, <4>4, <4>5 DEF SecondLook, Way
    <3>5. LateLook(reader[r])' BY <1>1, <3>3, <3>4 DEF LateLook
    <3> QED BY <2>1, <3>2, <3>5 DEF ReadOK
  <2> QED BY <2>2, <2>3
<1>4. CASE ~Final /\ Final'
  <2>1. \A o \in Objects : Original(o) => Anchored(o)' BY <1>4 DEF StoreStep
  <2>2. CachesOK' BY <1>1, <1>4 DEF CachesOK, RetiredGone, CachesFull
  <2>3. ASSUME NEW r \in Readers PROVE ReadOK(r)'
    <3>1. ReadOK(r) /\ FirstLook(reader[r]) /\ reader[r].id \subseteq Objects BY <1>2, <1>4 DEF ReadOK
    <3>2. OpenOK(reader[r])' BY <1>1, <3>1 DEF ReadOK, OpenOK
    <3>3. LateLook(reader[r])' BY <1>1, <2>1, <3>1 DEF FirstLook, LateLook
    <3> QED BY <1>4, <3>2, <3>3 DEF ReadOK
  <2> QED BY <2>2, <2>3
<1>5. CASE ~Final /\ ~Final'
  <2>1. OrigPacks' = OrigPacks /\ OrigLoose' = OrigLoose /\ \A p \in Names : Present(p) => Present(p)'
    BY <1>5 DEF StoreStep
  <2>2. CachesOK' BY <1>1, <1>2, <1>5, <2>1 DEF CachesOK, RetiredGone, CachesFull
  <2>3. ASSUME NEW r \in Readers PROVE ReadOK(r)'
    <3> DEFINE v == reader[r]
    <3>1. ReadOK(r) /\ FirstLook(v) /\ v.left \subseteq Names /\ v.id \subseteq Objects
          /\ (v.pc \in {"header", "chain"} => v.hit \in Names)
      BY <1>2, <1>5 DEF ReadOK, HitsNamed
    <3>2. OpenOK(reader[r])' BY <1>1, <3>1 DEF ReadOK, OpenOK
    <3>3. v.pc \in {"header", "chain"} => Present(v.hit)'
      <4>1. ASSUME NEW h \in Names, h = v.hit, Present(h) PROVE Present(v.hit)' BY <1>1, <2>1, <4>1 DEF Present
      <4> QED BY <3>1, <4>1 DEF FirstLook
    <3>4. \A o : Original(o) => Original(o)' BY <2>1 DEF Original
    <3>5. FirstLook(reader[r])' BY <1>1, <2>1, <3>1, <3>3, <3>4 DEF FirstLook
    <3> QED BY <1>5, <3>2, <3>5 DEF ReadOK
  <2> QED BY <2>2, <2>3
<1> QED BY <1>3, <1>4, <1>5

\* The store while the session acts.
LEMMA StoreRests ==
  ASSUME UNCHANGED vars
  PROVE  /\ (Final' <=> Final) /\ OrigPacks' = OrigPacks /\ OrigLoose' = OrigLoose /\ packs' = packs /\ loose' = loose
         /\ \A p : (Present(p)' <=> Present(p)) /\ (Stays(p)' <=> Stays(p))
         /\ \A o : (LooseStays(o)' <=> LooseStays(o)) /\ (Original(o)' <=> Original(o)) /\ (Anchored(o)' <=> Anchored(o))
<1>1. packs' = packs /\ loose' = loose /\ gc' = gc /\ events' = events BY DEF vars
<1>2. \A p : (Present(p)' <=> Present(p)) /\ (Stays(p)' <=> Stays(p)) BY <1>1 DEF Present, Stays
<1>3. \A o : LooseStays(o)' <=> LooseStays(o) BY <1>1 DEF LooseStays
<1>4. OrigPacks' = OrigPacks /\ OrigLoose' = OrigLoose BY <1>1, <1>2 DEF OrigPacks, OrigLoose
<1>5. \A o : (Original(o)' <=> Original(o)) /\ (Anchored(o)' <=> Anchored(o))
  BY <1>2, <1>3, <1>4 DEF Original, Anchored
<1> QED BY <1>1, <1>2, <1>3, <1>4, <1>5 DEF Final

\* The listing is as it was, or is asked for.
ScanStays == scan'.listed = scan.listed /\ scan'.seen = scan.seen /\ scan'.state \in {scan.state, "asked"}

\* A read does not change the caches for the worse.
LEMMA CachesRest ==
  ASSUME UNCHANGED vars, CachesOK, ScanStays, known'.retired = known.retired,
         \A p \in known'.index : p \in known.index \/ packs[p].idx,
         fan' = fan \/ fan' = None \/ (~Final => OrigLoose \subseteq fan'[1])
  PROVE  CachesOK'
<1>1. RetiredGone' BY StoreRests DEF ScanStays, CachesOK, RetiredGone
<1>2. ~Final => CachesFull' BY StoreRests DEF ScanStays, CachesOK, CachesFull
<1> QED BY <1>1, <1>2, StoreRests DEF CachesOK

\* Nor for another read; one it gave its old loose listing is an exception.
LEMMA BystanderKept ==
  ASSUME UNCHANGED vars, ScanStays, known'.retired = known.retired, NEW s \in Readers, ReadOK(s), reader[s] \in RT,
         reader'[s] = reader[s] \/ reader'[s] = [reader[s] EXCEPT !.late = TRUE],
         \/ fan' = fan \/ fan' = None \/ reader[s].id \subseteq fan'[1]
         \/ ~reader[s].again \/ reader[s].pc = "waiting" \/ reader'[s].late
  PROVE  ReadOK(s)'
<1> DEFINE v == reader[s]
           w == reader'[s]
<1>1. /\ w.pc = v.pc /\ w.id = v.id /\ w.left = v.left /\ w.hit = v.hit /\ w.dir = v.dir
      /\ w.again = v.again /\ w.there = v.there /\ (v.late => w.late)
  BY DEF RT
<1> HIDE DEF w
<1>2. OpenOK(reader[s])' BY <1>1 DEF ReadOK, OpenOK, w
<1>3. ~Final => FirstLook(reader[s])' BY <1>1, StoreRests DEF ReadOK, FirstLook, w
<1>4. Final => LateLook(reader[s])'
  <2> SUFFICES ASSUME Final, w.there
               PROVE  (\A o \in w.id : Anchored(o)') /\ (w.again /\ ~w.late => SecondLook(reader[s])')
    BY DEF LateLook, w
  <2>1. LateLook(v) BY DEF ReadOK
  <2>2. \A o \in w.id : Anchored(o)' BY <1>1, <2>1, StoreRests DEF LateLook
  <2>3. ASSUME w.again, ~w.late PROVE SecondLook(reader[s])'
    <3>1. SecondLook(v) BY <1>1, <2>1, <2>3 DEF LateLook
    <3>2. fan' = fan \/ fan' = None \/ v.id \subseteq fan'[1] \/ v.pc = "waiting" BY <1>1, <2>3 DEF w
    <3> QED BY <1>1, <3>1, <3>2, StoreRests DEF SecondLook, Way, ScanStays, w
  <2> QED BY <2>2, <2>3
<1> QED BY <1>2, <1>3, <1>4, StoreRests DEF ReadOK

\* A read that misses: an object that is there is missed in the second look of an exception only.
LEMMA MissFinds ==
  ASSUME UNCHANGED vars, LookupInv, NEW r \in Readers, NEW others \in [Readers -> RT], Miss(r, others),
         others[r] = reader[r], reader[r].pc # "idle", ReadOK(r), known'.retired = known.retired,
         ~Final => ~reader[r].there,
         Final /\ reader[r].there /\ reader[r].again => reader[r].late
  PROVE  ReadOK(r)' /\ ScanStays /\ \A s \in Readers : s # r => reader'[s] = others[s]
<1> DEFINE v == reader[r]
           w == reader'[r]
<1>1. v \in RT /\ scan \in [state : {"none", "asked", "seen", "ready"}, listed : SUBSET Names, seen : SUBSET Names]
  BY SessionTyped
<1>2. CASE v.again
  <2>1. reader' = [others EXCEPT ![r].pc = "missing"] /\ scan' = scan BY <1>2 DEF Miss
  <2>2. w = [v EXCEPT !.pc = "missing"] /\ \A s \in Readers : s # r => reader'[s] = others[s] BY <2>1
  <2>3. w.pc = "missing" /\ w.id = v.id /\ w.there = v.there /\ w.again = v.again /\ w.late = v.late
    BY <1>1, <2>2 DEF RT
  <2> HIDE DEF w
  <2>4. OpenOK(reader[r])' BY <1>2, <2>3 DEF OpenOK, ReadOK, w
  <2>5. ~Final => FirstLook(reader[r])' BY <2>3 DEF FirstLook, w
  <2>6. Final => LateLook(reader[r])' BY <1>2, <2>3, StoreRests DEF ReadOK, LateLook, w
  <2> QED BY <2>1, <2>2, <2>4, <2>5, <2>6, StoreRests DEF ReadOK, ScanStays
<1>3. CASE ~v.again
  <2>1. PICK b \in BOOLEAN : b = (wave # None /\ scan.state = "seen") OBVIOUS
  <2>2. /\ reader' = [others EXCEPT ![r].pc = "waiting", ![r].again = TRUE, ![r].late = b]
        /\ scan' = IF wave = None THEN [scan EXCEPT !.state = "asked"] ELSE scan
    BY <1>3, <2>1 DEF Miss
  <2>3. w = [v EXCEPT !.pc = "waiting", !.again = TRUE, !.late = b] /\ \A s \in Readers : s # r => reader'[s] = others[s]
    BY <2>2
  <2>4. w.pc = "waiting" /\ w.id = v.id /\ w.there = v.there /\ w.again /\ w.late = b BY <1>1, <2>3 DEF RT
  <2>5. ScanStays /\ (~b => scan'.state = "asked") BY <1>1, <2>1, <2>2 DEF ScanStays, LookupInv, NobodyStranded
  <2> HIDE DEF w
  <2>6. OpenOK(reader[r])' BY <2>4 DEF OpenOK, ReadOK, w
  <2>7. ~Final => FirstLook(reader[r])' BY <2>4 DEF FirstLook, w
  <2>8. Final => LateLook(reader[r])' BY <2>4, <2>5, StoreRests DEF ReadOK, LateLook, SecondLook, w
  <2> QED BY <2>3, <2>5, <2>6, <2>7, <2>8, StoreRests DEF ReadOK
<1> QED BY <1>2, <1>3

\* A read starts.
LEMMA StartFinds ==
  ASSUME UNCHANGED vars, LookupInv, GcIndInv, Exact, OneOK, CachesOK, \A s \in Readers : ReadOK(s),
         NEW r \in Readers, NEW o \in Wanted, StartRead(r, o)
  PROVE  CachesOK' /\ \A s \in Readers : ReadOK(s)'
<1>1. /\ known' = known /\ fan' = fan
      /\ reader' = [reader EXCEPT ![r] = [NoRead EXCEPT !.pc = "generation", !.id = {o}, !.there = Readable(o)]]
  BY DEF StartRead
<1>2. ScanStays BY SessionTyped DEF StartRead, ScanStays
<1>3. CachesOK' BY <1>1, <1>2, CachesRest
<1>4. ASSUME NEW s \in Readers, s # r PROVE ReadOK(s)' BY <1>1, <1>2, <1>4, SessionTyped, BystanderKept
<1>5. ReadOK(r)'
  <2> DEFINE w == reader'[r]
  <2>1. w = [NoRead EXCEPT !.pc = "generation", !.id = {o}, !.there = Readable(o)] BY <1>1, SessionTyped
  <2>2. w.pc = "generation" /\ w.id = {o} /\ (w.there <=> Readable(o)) /\ ~w.again BY <2>1 DEF NoRead
  <2> HIDE DEF w
  <2>3. o \in Objects BY WantedAssumption
  <2>4. OpenOK(reader[r])' BY <2>2, <2>3 DEF OpenOK, w
  <2>5. ~Final => FirstLook(reader[r])' BY <2>2, <2>3, ReadableOriginal, StoreRests DEF FirstLook, w
  <2>6. Final => LateLook(reader[r])' BY <2>2, <2>3, ReadableAnchored, StoreRests DEF LateLook, w
  <2> QED BY <2>4, <2>5, <2>6, StoreRests DEF ReadOK
<1> QED BY <1>3, <1>4, <1>5

\* lookup: the packs of the current generation.
LEMMA TakeFinds ==
  ASSUME UNCHANGED vars, LookupInv, CachesOK, \A s \in Readers : ReadOK(s), NEW r \in Readers, TakeGeneration(r)
  PROVE  CachesOK' /\ \A s \in Readers : ReadOK(s)'
<1>1. /\ known' = known /\ fan' = fan /\ scan' = scan
      /\ reader' = [reader EXCEPT ![r].pc = "index", ![r].left = scan.listed]
      /\ reader[r].pc = "generation" /\ scan.state = "ready"
  BY DEF TakeGeneration
<1>2. ScanStays BY <1>1 DEF ScanStays
<1>3. CachesOK' BY <1>1, <1>2, CachesRest
<1>4. ASSUME NEW s \in Readers, s # r PROVE ReadOK(s)' BY <1>1, <1>2, <1>4, SessionTyped, BystanderKept
<1>5. ReadOK(r)'
  <2> DEFINE v == reader[r]
             w == reader'[r]
  <2>1. v \in RT /\ w = [v EXCEPT !.pc = "index", !.left = scan.listed] BY <1>1, SessionTyped
  <2>2. /\ w.pc = "index" /\ w.left = scan.listed /\ w.id = v.id /\ w.there = v.there /\ w.again = v.again /\ w.late = v.late
        /\ OpenOK(v) /\ (~Final => FirstLook(v) /\ CachesFull) /\ (Final => LateLook(v))
    BY <2>1 DEF RT, ReadOK, CachesOK
  <2>3. PICK o \in Objects : v.id = {o} BY <1>1, <2>2 DEF OpenOK
  <2> HIDE DEF w
  <2>4. OpenOK(reader[r])' BY <2>2, <2>3 DEF OpenOK, w
  <2>5. ~Final => FirstLook(reader[r])'
    <3> SUFFICES ASSUME ~Final PROVE FirstLook(reader[r])' OBVIOUS
    <3>1. /\ v.there => ~v.again /\ \A u \in v.id : Original(u)
          /\ OrigPacks \subseteq scan.listed /\ \A p \in scan.listed : Present(p)
      BY <1>1, <2>2 DEF FirstLook, CachesFull
    <3>2. v.there => v.id \subseteq OrigLoose \/ \E p \in scan.listed \cap OrigPacks : v.id \subseteq p
      BY <2>3, <3>1 DEF Original
    <3> QED BY <2>2, <3>1, <3>2, StoreRests DEF FirstLook, w
  <2>6. Final => LateLook(reader[r])'
    <3> SUFFICES ASSUME Final, w.there
                 PROVE  (\A u \in w.id : Anchored(u)') /\ (w.again /\ ~w.late => SecondLook(reader[r])')
      BY DEF LateLook, w
    <3>1. \A u \in w.id : Anchored(u)' BY <2>2, StoreRests DEF LateLook
    <3>2. ASSUME w.again, ~w.late PROVE SecondLook(reader[r])'
      <4>1. Way(v, scan.listed) /\ (fan = None \/ v.id \subseteq fan[1] \/ \A u \in v.id : ~LooseStays(u))
        BY <1>1, <2>2, <3>2 DEF LateLook, SecondLook
      <4>2. fan' = fan BY <1>1
      <4> QED BY <2>2, <4>1, <4>2, StoreRests DEF SecondLook, Way, w
    <3> QED BY <3>1, <3>2
  <2> QED BY <2>4, <2>5, <2>6, StoreRests DEF ReadOK
<1> QED BY <1>3, <1>4, <1>5

\* unclaimedIndexOrSkip: an index is read, or skipped.
LEMMA IndexFinds ==
  ASSUME UNCHANGED vars, LookupInv, CachesOK, \A s \in Readers : ReadOK(s),
         NEW r \in Readers, NEW p \in Names, ReadIndex(r, p)
  PROVE  CachesOK' /\ \A s \in Readers : ReadOK(s)'
<1> DEFINE readable == p \in known.index \/ packs[p].idx
           goes == readable /\ reader[r].id \subseteq p
<1>1. /\ fan' = fan /\ scan' = scan
      /\ known' = IF readable THEN [known EXCEPT !.index = @ \cup {p}] ELSE known
      /\ reader' = [reader EXCEPT ![r].left = @ \ {p}, ![r].pc = IF goes THEN "header" ELSE "index",
                                  ![r].hit = IF goes THEN p ELSE {}]
      /\ reader[r].pc = "index" /\ p \in reader[r].left
  BY DEF ReadIndex
<1>2. ScanStays BY <1>1 DEF ScanStays
<1>3. known'.retired = known.retired /\ \A q \in known'.index : q \in known.index \/ packs[q].idx
  BY <1>1, SessionTyped
<1>4. CachesOK' BY <1>1, <1>2, <1>3, CachesRest
<1>5. ASSUME NEW s \in Readers, s # r PROVE ReadOK(s)' BY <1>1, <1>2, <1>3, <1>5, SessionTyped, BystanderKept
<1>6. ReadOK(r)'
  <2> DEFINE v == reader[r]
             w == reader'[r]
  <2>1. v \in RT /\ w = [v EXCEPT !.left = v.left \ {p}, !.pc = IF goes THEN "header" ELSE "index",
                                  !.hit = IF goes THEN p ELSE {}]
    BY <1>1, SessionTyped
  <2>2. /\ v.pc = "index" /\ p \in v.left /\ fan' = fan
        /\ OpenOK(v) /\ (~Final => FirstLook(v)) /\ (Final => LateLook(v)) /\ RetiredGone
    BY <1>1 DEF ReadOK, CachesOK
  <2>3. /\ w.left = v.left \ {p} /\ w.id = v.id /\ w.there = v.there /\ w.again = v.again /\ w.late = v.late
        /\ goes => w.pc = "header" /\ w.hit = p
        /\ ~goes => w.pc = "index"
    BY <2>1 DEF RT
  <2>4. goes => p \notin known.retired BY <2>2 DEF RetiredGone
  <2>5. v.id \subseteq p /\ Present(p) => goes BY DEF Present
  <2> HIDE DEF w, goes
  <2>6. OpenOK(reader[r])' BY <1>3, <2>2, <2>3, <2>4 DEF OpenOK, w
  <2>7. ~Final => FirstLook(reader[r])'
    <3> SUFFICES ASSUME ~Final PROVE FirstLook(reader[r])' OBVIOUS
    <3>1. /\ \A q \in v.left : Present(q)
          /\ v.there => /\ ~v.again /\ (\A o \in v.id : Original(o))
                        /\ v.id \subseteq OrigLoose \/ \E q \in v.left \cap OrigPacks : v.id \subseteq q
      BY <2>2 DEF FirstLook
    <3>2. v.there /\ ~goes => v.id \subseteq OrigLoose \/ \E q \in w.left \cap OrigPacks : v.id \subseteq q
      BY <2>2, <2>3, <2>5, <3>1
    <3>3. CASE goes BY <2>2, <2>3, <3>1, <3>3, StoreRests DEF FirstLook, w
    <3>4. CASE ~goes BY <2>3, <3>1, <3>2, <3>4, StoreRests DEF FirstLook, w
    <3> QED BY <3>3, <3>4
  <2>8. Final => LateLook(reader[r])'
    <3> SUFFICES ASSUME Final, w.there
                 PROVE  (\A o \in w.id : Anchored(o)') /\ (w.again /\ ~w.late => SecondLook(reader[r])')
      BY DEF LateLook, w
    <3>1. \A o \in w.id : Anchored(o)' BY <2>2, <2>3, StoreRests DEF LateLook
    <3>2. ASSUME w.again, ~w.late PROVE SecondLook(reader[r])'
      <4>1. Way(v, v.left) /\ (fan = None \/ v.id \subseteq fan[1] \/ \A o \in v.id : ~LooseStays(o))
        BY <2>2, <2>3, <3>2 DEF LateLook, SecondLook
      <4>2. (Stays(p) /\ v.id \subseteq p) \/ Way(v, w.left) BY <2>3, <4>1 DEF Way
      <4>3. ~goes => Way(v, w.left) BY <2>5, <4>2 DEF Stays
      <4>4. CASE goes BY <2>2, <2>3, <4>1, <4>2, <4>4, StoreRests DEF SecondLook, Way, w
      <4>5. CASE ~goes BY <2>2, <2>3, <4>1, <4>3, <4>5, StoreRests DEF SecondLook, Way, w
      <4> QED BY <4>4, <4>5
    <3> QED BY <3>1, <3>2
  <2> QED BY <2>6, <2>7, <2>8, StoreRests DEF ReadOK
<1> QED BY <1>4, <1>5, <1>6

\* probeHeader: a pack is opened, or skipped because it is gone.
LEMMA HeaderFinds ==
  ASSUME UNCHANGED vars, LookupInv, HitsNamed, CachesOK, \A s \in Readers : ReadOK(s), NEW r \in Readers, ProbeHeader(r)
  PROVE  CachesOK' /\ \A s \in Readers : ReadOK(s)'
<1> DEFINE p == reader[r].hit
           usable == p \in known.header \/ packs[p].pack # 0
<1>1. /\ fan' = fan /\ scan' = scan
      /\ known' = IF usable THEN [known EXCEPT !.header = @ \cup {p}] ELSE known
      /\ reader' = [reader EXCEPT ![r].pc = IF usable THEN "chain" ELSE "index"]
      /\ reader[r].pc = "header"
  BY DEF ProbeHeader
<1>2. ScanStays BY <1>1 DEF ScanStays
<1>3. known'.retired = known.retired /\ known'.index = known.index BY <1>1, SessionTyped
<1>4. CachesOK' BY <1>1, <1>2, <1>3, CachesRest
<1>5. ASSUME NEW s \in Readers, s # r PROVE ReadOK(s)' BY <1>1, <1>2, <1>3, <1>5, SessionTyped, BystanderKept
<1>6. ReadOK(r)'
  <2> DEFINE v == reader[r]
             w == reader'[r]
  <2>1. v \in RT /\ w = [v EXCEPT !.pc = IF usable THEN "chain" ELSE "index"] BY <1>1, SessionTyped
  <2>2. /\ w.pc = (IF usable THEN "chain" ELSE "index") /\ w.hit = v.hit /\ w.left = v.left
        /\ w.id = v.id /\ w.there = v.there /\ w.again = v.again /\ w.late = v.late
        /\ OpenOK(v) /\ (~Final => FirstLook(v)) /\ (Final => LateLook(v))
    BY <2>1 DEF RT, ReadOK
  <2> HIDE DEF w
  <2>3. Present(p) => usable BY DEF Present
  <2>4. OpenOK(reader[r])' BY <1>1, <1>3, <2>2 DEF OpenOK, w
  <2>5. ~Final => FirstLook(reader[r])' BY <1>1, <2>2, <2>3, StoreRests DEF FirstLook, w
  <2>6. Final => LateLook(reader[r])'
    <3> SUFFICES ASSUME Final, w.there
                 PROVE  (\A o \in w.id : Anchored(o)') /\ (w.again /\ ~w.late => SecondLook(reader[r])')
      BY DEF LateLook, w
    <3>1. \A o \in w.id : Anchored(o)' BY <2>2, StoreRests DEF LateLook
    <3>2. ASSUME w.again, ~w.late PROVE SecondLook(reader[r])'
      <4>1. /\ Stays(p) \/ Way(v, v.left)
            /\ fan = None \/ v.id \subseteq fan[1] \/ \A o \in v.id : ~LooseStays(o)
        BY <1>1, <2>2, <3>2 DEF LateLook, SecondLook
      <4>2. ~usable => Way(v, v.left) BY <2>3, <4>1 DEF Stays
      <4> QED BY <1>1, <2>2, <4>1, <4>2, StoreRests DEF SecondLook, Way, w
    <3> QED BY <3>1, <3>2
  <2> QED BY <2>4, <2>5, <2>6, StoreRests DEF ReadOK
<1> QED BY <1>4, <1>5, <1>6

\* resolveFromPackHit; a read that is over makes room.
LEMMA PackedFinds ==
  ASSUME UNCHANGED vars, LookupInv, CachesOK, \A s \in Readers : ReadOK(s), NEW r \in Readers,
         ReadPacked(r) \/ EndRead(r)
  PROVE  CachesOK' /\ \A s \in Readers : ReadOK(s)'
<1>1. /\ fan' = fan /\ scan' = scan /\ known' = known
      /\ \A s \in Readers : s # r => reader'[s] = reader[s]
  BY SessionTyped DEF ReadPacked, EndRead
<1>2. ScanStays BY <1>1 DEF ScanStays
<1>3. CachesOK' BY <1>1, <1>2, CachesRest
<1>4. ASSUME NEW s \in Readers, s # r PROVE ReadOK(s)' BY <1>1, <1>2, <1>4, SessionTyped, BystanderKept
<1>5. ReadOK(r)'
  <2> DEFINE v == reader[r]
             w == reader'[r]
  <2>1. CASE EndRead(r)
    <3>1. w = NoRead BY <2>1, SessionTyped DEF EndRead
    <3>2. w.pc = "idle" /\ ~w.there BY <3>1 DEF NoRead
    <3> HIDE DEF w
    <3>3. OpenOK(reader[r])' BY <3>2 DEF OpenOK, w
    <3>4. FirstLook(reader[r])' BY <3>2 DEF FirstLook, w
    <3>5. LateLook(reader[r])' BY <3>2 DEF LateLook, w
    <3> QED BY <3>3, <3>4, <3>5 DEF ReadOK
  <2>2. CASE ReadPacked(r)
    <3>1. /\ v \in RT /\ v.pc = "chain"
          /\ w = [v EXCEPT !.pc = IF v.hit \in known.retired /\ packs[v.hit].pack = 0 THEN "failed" ELSE "found"]
      BY <2>2, SessionTyped DEF ReadPacked
    <3>2. PICK c \in {"failed", "found"} : w = [v EXCEPT !.pc = c] /\ (c = "failed" => v.hit \in known.retired)
      BY <3>1
    <3>3. /\ w.pc = c /\ w.id = v.id /\ w.there = v.there /\ w.again = v.again /\ w.late = v.late
          /\ OpenOK(v) /\ (~Final => FirstLook(v) /\ CachesFull) /\ (Final => LateLook(v))
      BY <3>1, <3>2 DEF RT, ReadOK, CachesOK
    <3> HIDE DEF w
    <3>4. OpenOK(reader[r])' BY <3>1, <3>2, <3>3 DEF OpenOK, w
    <3>5. ~Final => FirstLook(reader[r])' BY <3>2, <3>3, StoreRests DEF FirstLook, CachesFull, w
    <3>6. Final => LateLook(reader[r])' BY <3>2, <3>3, StoreRests DEF LateLook, SecondLook, w
    <3> QED BY <3>4, <3>5, <3>6, StoreRests DEF ReadOK
  <2> QED BY <2>1, <2>2
<1> QED BY <1>3, <1>4, <1>5

\* A read that misses waits or is over.
LEMMA MissPc ==
  ASSUME NEW r \in Readers, NEW others \in [Readers -> RT], Miss(r, others)
  PROVE  reader'[r].pc \in {"waiting", "missing"}
<1>1. PICK b \in BOOLEAN : b = (wave # None /\ scan.state = "seen") OBVIOUS
<1>2. \/ reader' = [others EXCEPT ![r].pc = "missing"]
      \/ reader' = [others EXCEPT ![r].pc = "waiting", ![r].again = TRUE, ![r].late = b]
  BY <1>1 DEF Miss
<1> QED BY <1>2 DEF RT

\* What is original has a loose file, until gc removes it.
LEMMA OriginalLoose ==
  ASSUME GcIndInv, ~Final
  PROVE  OrigLoose \subseteq {o \in Objects : loose[o] # 0}
<1>1. gc.pc # "done" BY DEF Final, Removing
<1> QED BY <1>1, Typed DEF OrigLoose, GcIndInv, RunOK

\* loadFanoutSet: no pack has the object; the cached listing has it, a new one is made, or the read misses.
LEMMA ProbeFinds ==
  ASSUME UNCHANGED vars, LookupInv, GcIndInv, CachesOK, \A s \in Readers : ReadOK(s), NEW r \in Readers, ProbeLoose(r)
  PROVE  CachesOK' /\ \A s \in Readers : ReadOK(s)'
<1> DEFINE v == reader[r]
           w == reader'[r]
           there == {o \in Objects : loose[o] # 0}
<1>1. /\ v.pc = "index" /\ v.left = {} /\ known' = known /\ fan' = fan /\ v \in RT
      /\ OpenOK(v) /\ (~Final => FirstLook(v) /\ CachesFull) /\ (Final => LateLook(v))
  BY SessionTyped DEF ProbeLoose, ReadOK, CachesOK
<1>2. ~Final /\ v.there => v.id \subseteq OrigLoose BY <1>1 DEF FirstLook
<1>3. Final /\ v.there /\ v.again /\ ~v.late =>
        (\E o \in v.id : LooseStays(o)) /\ (fan = None \/ v.id \subseteq fan[1] \/ \A o \in v.id : ~LooseStays(o))
  BY <1>1 DEF LateLook, SecondLook, Way
<1>4. PICK o \in Objects : v.id = {o} BY <1>1 DEF OpenOK
<1>5. CASE ~Miss(r, reader)
  <2>1. ScanStays BY <1>5 DEF ProbeLoose, ScanStays
  <2>2. /\ \A s \in Readers : s # r => reader'[s] = reader[s]
        /\ w = [v EXCEPT !.pc = "fill", !.dir = there] \/ w = [v EXCEPT !.pc = "loose"]
    <3>1. \/ reader' = [reader EXCEPT ![r].pc = "fill", ![r].dir = there] \/ reader' = [reader EXCEPT ![r].pc = "loose"]
      BY <1>5 DEF ProbeLoose
    <3> HIDE DEF there
    <3> QED BY <3>1, SessionTyped
  <2>3. /\ w.id = v.id /\ w.there = v.there /\ w.again = v.again /\ w.late = v.late
        /\ w.pc = "loose" \/ (w.pc = "fill" /\ w.dir = there)
    BY <1>1, <2>2 DEF RT
  <2>4. CachesOK' BY <1>1, <2>1, CachesRest
  <2>5. ASSUME NEW s \in Readers, s # r PROVE ReadOK(s)' BY <1>1, <2>1, <2>2, <2>5, SessionTyped, BystanderKept
  <2> HIDE DEF w
  <2>6. OpenOK(reader[r])' BY <1>4, <2>3 DEF OpenOK, w
  <2>7. ~Final => FirstLook(reader[r])' BY <1>1, <1>2, <2>3, OriginalLoose, StoreRests DEF FirstLook, w
  <2>8. Final => LateLook(reader[r])'
    <3> SUFFICES ASSUME Final, w.there
                 PROVE  (\A u \in w.id : Anchored(u)') /\ (w.again /\ ~w.late => SecondLook(reader[r])')
      BY DEF LateLook, w
    <3>1. \A u \in w.id : Anchored(u)' BY <1>1, <2>3, StoreRests DEF LateLook
    <3>2. ASSUME w.again, ~w.late PROVE SecondLook(reader[r])'
      <4>1. LooseStays(o) BY <1>3, <1>4, <2>3, <3>2
      <4>2. o \in there BY <4>1 DEF LooseStays
      <4> QED BY <1>4, <2>3, <4>1, <4>2, StoreRests DEF SecondLook, w
    <3> QED BY <3>1, <3>2
  <2>9. ReadOK(r)' BY <2>6, <2>7, <2>8, StoreRests DEF ReadOK
  <2> QED BY <2>4, <2>5, <2>9
<1>6. CASE Miss(r, reader)
  <2>1. fan # None /\ ~(v.id \subseteq fan[1])
    <3>1. CASE fan = None
      <4>1. reader' = [reader EXCEPT ![r].pc = "fill", ![r].dir = there] BY <3>1 DEF ProbeLoose
      <4>2. w = [v EXCEPT !.pc = "fill", !.dir = there] BY <4>1, SessionTyped
      <4>3. w.pc = "fill" BY <1>1, <4>2 DEF RT
      <4> QED BY <1>6, <4>3, MissPc, SessionTyped
    <3>2. CASE fan # None /\ v.id \subseteq fan[1]
      <4>1. reader' = [reader EXCEPT ![r].pc = "loose"] BY <3>2 DEF ProbeLoose
      <4>2. w = [v EXCEPT !.pc = "loose"] BY <4>1, SessionTyped
      <4>3. w.pc = "loose" BY <1>1, <4>2 DEF RT
      <4> QED BY <1>6, <4>3, MissPc, SessionTyped
    <3> QED BY <3>1, <3>2
  <2>2. ~Final => ~v.there BY <1>1, <1>2, <1>4, <2>1 DEF CachesFull
  <2>3. Final /\ v.there /\ v.again => v.late BY <1>3, <1>4, <2>1
  <2>4. ReadOK(r)' /\ ScanStays /\ \A s \in Readers : s # r => reader'[s] = reader[s]
    BY <1>1, <1>6, <2>2, <2>3, SessionTyped, MissFinds
  <2>5. CachesOK' BY <1>1, <2>4, CachesRest
  <2>6. ASSUME NEW s \in Readers, s # r PROVE ReadOK(s)' BY <1>1, <2>4, <2>6, SessionTyped, BystanderKept
  <2> QED BY <2>4, <2>5, <2>6
<1> QED BY <1>5, <1>6

\* loadFanoutSet after its readdir: the listing is cached, whatever the others make of it.
LEMMA FillFinds ==
  ASSUME UNCHANGED vars, LookupInv, CachesOK, \A s \in Readers : ReadOK(s), NEW r \in Readers, FillFanout(r)
  PROVE  CachesOK' /\ \A s \in Readers : ReadOK(s)'
<1> DEFINE v == reader[r]
           w == reader'[r]
           stale == {s \in Readers \ {r} : /\ reader[s].again /\ reader[s].pc # "waiting"
                                           /\ ~(reader[s].id \subseteq reader[r].dir)}
           others == [s \in Readers |-> [reader[s] EXCEPT !.late = @ \/ s \in stale]]
<1>1. /\ v.pc = "fill" /\ known' = known /\ fan' = <<v.dir>> /\ v \in RT
      /\ OpenOK(v) /\ (~Final => FirstLook(v)) /\ (Final => LateLook(v))
  BY SessionTyped DEF FillFanout, ReadOK
<1>2. ASSUME NEW s \in Readers
      PROVE  /\ others[s] \in RT
             /\ s \notin stale => others[s] = reader[s]
             /\ s \in stale => others[s] = [reader[s] EXCEPT !.late = TRUE]
  <2>1. reader[s] \in RT BY SessionTyped
  <2>2. CASE s \in stale
    <3>1. others[s] = [reader[s] EXCEPT !.late = TRUE] BY <2>2
    <3>2. [reader[s] EXCEPT !.late = TRUE] \in RT BY <2>1 DEF RT
    <3> QED BY <2>2, <3>1, <3>2
  <2>3. CASE s \notin stale
    <3>1. others[s] = [reader[s] EXCEPT !.late = reader[s].late] BY <2>1, <2>3 DEF RT
    <3>2. [reader[s] EXCEPT !.late = reader[s].late] = reader[s] BY <2>1 DEF RT
    <3> QED BY <2>1, <2>3, <3>1, <3>2
  <2> QED BY <2>2, <2>3
<1>3. others \in [Readers -> RT] /\ others[r] = v BY <1>2
<1>4. \/ v.id \subseteq v.dir /\ reader' = [others EXCEPT ![r].pc = "loose"] /\ scan' = scan
      \/ ~(v.id \subseteq v.dir) /\ Miss(r, others)
  BY DEF FillFanout
<1>5. PICK o \in Objects : v.id = {o} BY <1>1 DEF OpenOK
<1>6. \A s \in stale : s \in Readers \ {r} OBVIOUS
<1>7. \A s \in Readers \ {r} : s \notin stale =>
        ~reader[s].again \/ reader[s].pc = "waiting" \/ reader[s].id \subseteq fan'[1]
  BY <1>1
<1> HIDE DEF others, stale
<1>8. ScanStays /\ ReadOK(r)' /\ \A s \in Readers : s # r => reader'[s] = others[s]
  <2>1. CASE v.id \subseteq v.dir /\ reader' = [others EXCEPT ![r].pc = "loose"] /\ scan' = scan
    <3>1. ScanStays BY <2>1 DEF ScanStays
    <3>2. w = [v EXCEPT !.pc = "loose"] /\ \A s \in Readers : s # r => reader'[s] = others[s] BY <1>3, <2>1
    <3>3. w.pc = "loose" /\ w.id = v.id /\ w.there = v.there /\ w.again = v.again /\ w.late = v.late
      BY <1>1, <3>2 DEF RT
    <3> HIDE DEF w
    <3>4. OpenOK(reader[r])' BY <1>5, <3>3 DEF OpenOK, w
    <3>5. ~Final => FirstLook(reader[r])' BY <1>1, <3>3, StoreRests DEF FirstLook, w
    <3>6. Final => LateLook(reader[r])' BY <1>1, <3>3, StoreRests DEF LateLook, SecondLook, w
    <3> QED BY <3>1, <3>2, <3>4, <3>5, <3>6, StoreRests DEF ReadOK
  <2>2. CASE ~(v.id \subseteq v.dir) /\ Miss(r, others)
    <3>1. ~Final => ~v.there BY <1>1, <2>2 DEF FirstLook
    <3>2. Final /\ v.there /\ v.again => v.late BY <1>1, <2>2 DEF LateLook, SecondLook
    <3> QED BY <1>1, <1>3, <2>2, <3>1, <3>2, MissFinds
  <2> QED BY <1>4, <2>1, <2>2
<1>9. CachesOK'
  <2>1. ~Final => OrigLoose \subseteq fan'[1] BY <1>1 DEF FirstLook
  <2> QED BY <1>1, <1>8, <2>1, CachesRest
<1>10. ASSUME NEW s \in Readers, s # r PROVE ReadOK(s)'
  <2>1. reader'[s] = others[s] /\ reader[s] \in RT BY <1>8, <1>10, SessionTyped
  <2>2. CASE s \in stale
    <3>1. reader'[s] = [reader[s] EXCEPT !.late = TRUE] BY <1>2, <2>1, <2>2
    <3>2. reader'[s].late BY <2>1, <3>1 DEF RT
    <3> QED BY <1>1, <1>8, <2>1, <3>1, <3>2, BystanderKept
  <2>3. CASE s \notin stale
    <3>1. reader'[s] = reader[s] BY <1>2, <2>1, <2>3
    <3>2. ~reader[s].again \/ reader[s].pc = "waiting" \/ reader[s].id \subseteq fan'[1] BY <1>7, <1>10, <2>3
    <3> QED BY <1>1, <1>8, <2>1, <3>1, <3>2, BystanderKept
  <2> QED BY <2>2, <2>3
<1> QED BY <1>8, <1>9, <1>10

\* readLooseCompressed: the file is there, or the read misses.
LEMMA LooseFinds ==
  ASSUME UNCHANGED vars, LookupInv, GcIndInv, CachesOK, \A s \in Readers : ReadOK(s), NEW r \in Readers, ReadLoose(r)
  PROVE  CachesOK' /\ \A s \in Readers : ReadOK(s)'
<1> DEFINE v == reader[r]
           w == reader'[r]
<1>1. /\ v.pc = "loose" /\ known' = known /\ v \in RT
      /\ OpenOK(v) /\ (~Final => FirstLook(v)) /\ (Final => LateLook(v))
  BY SessionTyped DEF ReadLoose, ReadOK
<1>2. PICK o \in Objects : v.id = {o} BY <1>1 DEF OpenOK
<1>3. CASE \E u \in v.id : loose[u] # 0
  <2>1. reader' = [reader EXCEPT ![r].pc = "found"] /\ scan' = scan /\ fan' = fan BY <1>3 DEF ReadLoose
  <2>2. ScanStays BY <2>1 DEF ScanStays
  <2>3. w = [v EXCEPT !.pc = "found"] /\ \A s \in Readers : s # r => reader'[s] = reader[s] BY <2>1, SessionTyped
  <2>4. w.pc = "found" /\ w.id = v.id /\ w.there = v.there /\ w.again = v.again /\ w.late = v.late
    BY <1>1, <2>3 DEF RT
  <2>5. CachesOK' BY <1>1, <2>1, <2>2, CachesRest
  <2>6. ASSUME NEW s \in Readers, s # r PROVE ReadOK(s)'
    BY <1>1, <2>1, <2>2, <2>3, <2>6, SessionTyped, BystanderKept
  <2> HIDE DEF w
  <2>7. OpenOK(reader[r])' BY <1>2, <2>4 DEF OpenOK, w
  <2>8. ~Final => FirstLook(reader[r])' BY <1>1, <2>4, StoreRests DEF FirstLook, w
  <2>9. Final => LateLook(reader[r])' BY <1>1, <2>4, StoreRests DEF LateLook, SecondLook, w
  <2>10. ReadOK(r)' BY <2>7, <2>8, <2>9, StoreRests DEF ReadOK
  <2> QED BY <2>5, <2>6, <2>10
<1>4. CASE ~\E u \in v.id : loose[u] # 0
  <2>1. fan' = None /\ Miss(r, reader) BY <1>4 DEF ReadLoose
  <2>2. ~Final => ~v.there BY <1>1, <1>2, <1>4, OriginalLoose DEF FirstLook
  <2>3. Final /\ v.there /\ v.again => v.late BY <1>1, <1>4 DEF LateLook, SecondLook, LooseStays
  <2>4. ReadOK(r)' /\ ScanStays /\ \A s \in Readers : s # r => reader'[s] = reader[s]
    BY <1>1, <2>1, <2>2, <2>3, SessionTyped, MissFinds
  <2>5. CachesOK' BY <1>1, <2>1, <2>4, CachesRest
  <2>6. ASSUME NEW s \in Readers, s # r PROVE ReadOK(s)' BY <1>1, <2>1, <2>4, <2>6, SessionTyped, BystanderKept
  <2> QED BY <2>4, <2>5, <2>6
<1> QED BY <1>3, <1>4

\* The re-listing's readdir sees the directory.
LEMMA SeeFinds ==
  ASSUME UNCHANGED vars, LookupInv, GcIndInv, OneOK, CachesOK, \A s \in Readers : ReadOK(s), SeeDirectory
  PROVE  CachesOK' /\ \A s \in Readers : ReadOK(s)'
<1>1. /\ scan.state = "asked" /\ known' = known /\ fan' = fan /\ reader' = reader
      /\ scan'.state = "seen" /\ scan'.listed = scan.listed /\ scan'.seen = {p \in Names : Present(p)}
  BY SessionTyped DEF SeeDirectory
<1>2. \A p \in Names : ~Present(p) => ~packs[p].idx BY DEF OneOK, Present
<1>3. RetiredGone'
  <2>1. \A p \in scan.listed \ scan'.seen : ~packs[p].idx BY <1>1, <1>2, SessionTyped
  <2> QED BY <1>1, <2>1, StoreRests DEF CachesOK, RetiredGone
<1>4. ~Final => CachesFull'
  <2> SUFFICES ASSUME ~Final PROVE CachesFull' OBVIOUS
  <2>1. OrigPacks \subseteq {p \in Names : Present(p)}
    <3>1. OrigPacks \subseteq Names BY Typed DEF OrigPacks, GcIndInv
    <3> QED BY <3>1 DEF OneOK
  <2>2. CachesFull /\ scan.listed \subseteq {p \in Names : Present(p)} BY SessionTyped DEF CachesOK, CachesFull
  <2> QED BY <1>1, <2>1, <2>2, StoreRests DEF CachesFull
<1>5. CachesOK' BY <1>3, <1>4, StoreRests DEF CachesOK
<1>6. ASSUME NEW s \in Readers PROVE ReadOK(s)'
  <2> DEFINE v == reader[s]
  <2>1. OpenOK(v) /\ (~Final => FirstLook(v)) /\ (Final => LateLook(v)) BY DEF ReadOK
  <2>2. OpenOK(reader[s])' BY <1>1, <2>1 DEF OpenOK
  <2>3. ~Final => FirstLook(reader[s])' BY <1>1, <2>1, StoreRests DEF FirstLook
  <2>4. Final => LateLook(reader[s])'
    <3> SUFFICES ASSUME Final, v.there
                 PROVE  (\A o \in v.id : Anchored(o)') /\ (v.again /\ ~v.late => SecondLook(reader[s])')
      BY <1>1 DEF LateLook
    <3>1. \A o \in v.id : Anchored(o) BY <2>1 DEF LateLook
    <3>2. ASSUME v.again, ~v.late PROVE SecondLook(reader[s])'
      <4>1. SecondLook(v) BY <2>1, <3>2 DEF LateLook
      <4>2. v.pc \in {"waiting", "generation"} => Way(v, scan'.seen)
        <5> SUFFICES ASSUME v.pc \in {"waiting", "generation"} PROVE Way(v, scan'.seen) OBVIOUS
        <5>1. PICK o \in Objects : v.id = {o} BY <2>1 DEF OpenOK
        <5>2. Anchored(o) BY <3>1, <5>1
        <5>3. \A p \in Names : Stays(p) => p \in scan'.seen BY <1>1 DEF Stays
        <5> QED BY <5>1, <5>2, <5>3 DEF Anchored, Way
      <4> QED BY <1>1, <4>1, <4>2, StoreRests DEF SecondLook, Way
    <3> QED BY <3>1, <3>2, StoreRests
  <2> QED BY <2>2, <2>3, <2>4, StoreRests DEF ReadOK
<1> QED BY <1>5, <1>6

\* scanPacks and reprepare: the listing is taken up, and the reads that joined look again.
LEMMA DeliverFinds ==
  ASSUME UNCHANGED vars, LookupInv, CachesOK, \A s \in Readers : ReadOK(s), DeliverScan
  PROVE  CachesOK' /\ \A s \in Readers : ReadOK(s)'
<1>1. /\ scan.state = "seen" /\ scan'.state = "ready" /\ scan'.listed = scan.seen /\ scan'.seen = {}
      /\ fan' = IF wave = None THEN fan ELSE None
  BY DEF DeliverScan
<1>2. /\ known'.index = known.index \cap (scan.listed \cap scan.seen)
      /\ known'.retired = (known.retired \ scan.seen) \cup (scan.listed \ scan.seen)
  BY DEF DeliverScan
<1>3. RetiredGone' BY <1>1, <1>2, StoreRests DEF CachesOK, RetiredGone
<1>4. ~Final => CachesFull' BY <1>1, <1>2, StoreRests DEF CachesOK, CachesFull
<1>5. CachesOK' BY <1>3, <1>4, StoreRests DEF CachesOK
<1>6. ASSUME NEW s \in Readers PROVE ReadOK(s)'
  <2> DEFINE v == reader[s]
             w == reader'[s]
             woken == wave # None /\ s \in wave[1]
  <2>1. v \in RT /\ OpenOK(v) /\ (~Final => FirstLook(v)) /\ (Final => LateLook(v)) BY SessionTyped DEF ReadOK
  <2>2. woken <=> v.pc = "waiting" BY DEF LookupInv, NobodyStranded
  <2>3. CASE woken
    <3>1. w = [v EXCEPT !.pc = "generation"] BY <2>3 DEF DeliverScan
    <3>2. w.pc = "generation" /\ w.id = v.id /\ w.there = v.there /\ w.again = v.again /\ w.late = v.late
      BY <2>1, <3>1 DEF RT
    <3>3. fan' = None BY <1>1, <2>3
    <3> HIDE DEF w
    <3>4. OpenOK(reader[s])' BY <2>1, <2>2, <2>3, <3>2 DEF OpenOK, w
    <3>5. ~Final => FirstLook(reader[s])' BY <2>1, <2>2, <2>3, <3>2 DEF FirstLook, w
    <3>6. Final => LateLook(reader[s])'
      <4> SUFFICES ASSUME Final, v.there
                   PROVE  (\A o \in v.id : Anchored(o)') /\ (v.again /\ ~v.late => SecondLook(reader[s])')
        BY <3>2 DEF LateLook, w
      <4>1. (\A o \in v.id : Anchored(o)) /\ (v.again /\ ~v.late => Way(v, scan.seen))
        BY <1>1, <2>1, <2>2, <2>3 DEF LateLook, SecondLook
      <4> QED BY <1>1, <3>2, <3>3, <4>1, StoreRests DEF SecondLook, Way, w
    <3> QED BY <3>4, <3>5, <3>6, StoreRests DEF ReadOK
  <2>4. CASE ~woken
    <3>1. PICK b \in BOOLEAN : b = (v.late \/ (v.pc \in {"header", "chain"} /\ v.hit \in scan.listed \ scan.seen))
      BY <2>1 DEF RT
    <3>2. w = [v EXCEPT !.late = b] BY <2>4, <3>1 DEF DeliverScan
    <3>3. /\ w.pc = v.pc /\ w.id = v.id /\ w.left = v.left /\ w.hit = v.hit /\ w.dir = v.dir
          /\ w.again = v.again /\ w.there = v.there /\ w.late = b
      BY <2>1, <3>2 DEF RT
    <3>4. fan' = fan \/ fan' = None BY <1>1
    <3> HIDE DEF w, woken
    <3>5. OpenOK(reader[s])' BY <1>2, <2>1, <3>1, <3>3 DEF OpenOK, w
    <3>6. ~Final => FirstLook(reader[s])' BY <2>1, <3>3, StoreRests DEF FirstLook, w
    <3>7. Final => LateLook(reader[s])'
      <4> SUFFICES ASSUME Final, v.there
                   PROVE  (\A o \in v.id : Anchored(o)') /\ (v.again /\ ~b => SecondLook(reader[s])')
        BY <3>3 DEF LateLook, w
      <4>1. \A o \in v.id : Anchored(o)' BY <2>1, StoreRests DEF LateLook
      <4>2. ASSUME v.again, ~b PROVE SecondLook(reader[s])'
        <5>1. SecondLook(v) BY <2>1, <3>1, <4>2 DEF LateLook
        <5>2. v.pc # "waiting" /\ (v.pc = "generation" => Way(v, scan.seen)) BY <1>1, <2>2, <2>4, <5>1 DEF SecondLook
        <5> QED BY <1>1, <3>3, <3>4, <5>1, <5>2, StoreRests DEF SecondLook, Way, w
      <4> QED BY <4>1, <4>2
    <3> QED BY <3>5, <3>6, <3>7, StoreRests DEF ReadOK
  <2> QED BY <2>3, <2>4
<1> QED BY <1>5, <1>6

\* Every step of the session beside one event.
LEMMA FindsKept ==
  ASSUME OneEvent, GcIndInv, Exact, LookupInv, HitsNamed, FindsInv, [LookupNext]_<<vars, lookupVars>>
  PROVE  FindsInv'
<1>1. OneOK /\ CachesOK /\ \A s \in Readers : ReadOK(s) BY DEF FindsInv
<1>2. CASE OthersStep /\ UNCHANGED lookupVars
  <2>1. OneOK' /\ StoreStep BY <1>1, <1>2, OthersOne
  <2> QED BY <1>1, <1>2, <2>1, StoreFinds DEF FindsInv
<1>3. UNCHANGED vars => OneOK'
  <2> SUFFICES ASSUME UNCHANGED vars PROVE OneOK' OBVIOUS
  <2>1. /\ keep' = keep /\ clock' = clock /\ litter' = litter /\ gc' = gc /\ hot' = hot /\ events' = events /\ packs' = packs
    BY DEF vars, outside, history
  <2>2. \A p : IsCruft(p)' <=> IsCruft(p) BY <2>1 DEF IsCruft
  <2> QED BY <1>1, <2>1, <2>2, StoreRests DEF OneOK
<1>4. CASE SessionStep /\ UNCHANGED vars
  <2>1. CASE SeeDirectory BY <1>1, <1>3, <1>4, <2>1, SeeFinds DEF FindsInv
  <2>2. CASE DeliverScan BY <1>1, <1>3, <1>4, <2>2, DeliverFinds DEF FindsInv
  <2>3. CASE \E r \in Readers : ReadStep(r)
    <3>1. PICK r \in Readers : ReadStep(r) BY <2>3
    <3>2. CachesOK' /\ \A s \in Readers : ReadOK(s)'
      <4>1. CASE \E o \in Wanted : StartRead(r, o) BY <1>1, <1>4, <4>1, StartFinds
      <4>2. CASE \E p \in Names : ReadIndex(r, p) BY <1>1, <1>4, <4>2, IndexFinds
      <4>3. CASE TakeGeneration(r) BY <1>1, <1>4, <4>3, TakeFinds
      <4>4. CASE ProbeHeader(r) BY <1>1, <1>4, <4>4, HeaderFinds
      <4>5. CASE ReadPacked(r) \/ EndRead(r) BY <1>1, <1>4, <4>5, PackedFinds
      <4>6. CASE ProbeLoose(r) BY <1>1, <1>4, <4>6, ProbeFinds
      <4>7. CASE FillFanout(r) BY <1>1, <1>4, <4>7, FillFinds
      <4>8. CASE ReadLoose(r) BY <1>1, <1>4, <4>8, LooseFinds
      <4> QED BY <3>1, <4>1, <4>2, <4>3, <4>4, <4>5, <4>6, <4>7, <4>8 DEF ReadStep
    <3> QED BY <1>3, <1>4, <3>2 DEF FindsInv
  <2> QED BY <1>4, <2>1, <2>2, <2>3 DEF SessionStep
<1>5. CASE UNCHANGED <<vars, lookupVars>>
  <2>1. UNCHANGED vars /\ scan' = scan /\ known' = known /\ fan' = fan /\ reader' = reader BY <1>5 DEF lookupVars
  <2>2. ScanStays BY <2>1 DEF ScanStays
  <2>3. CachesOK' BY <1>1, <2>1, <2>2, CachesRest
  <2>4. ASSUME NEW s \in Readers PROVE ReadOK(s)' BY <1>1, <2>1, <2>2, SessionTyped, BystanderKept
  <2> QED BY <1>3, <2>1, <2>3, <2>4 DEF FindsInv
<1> QED BY <1>2, <1>4, <1>5 DEF LookupNext

\* It holds at the start.
LEMMA FindsInit ==
  ASSUME OneEvent, LookupInit
  PROVE  FindsInv
<1>1. Init BY DEF LookupInit
<1>2. keep = {} /\ clock = 2 /\ gc = Idle /\ hot = {} /\ litter = {} /\ events = 0 BY <1>1 DEF Init, OneEvent
<1>3. gc.pc = "idle" /\ gc.calm /\ gc.cutoff = 0 /\ ~Final /\ gc.pc \notin Underway
  BY <1>2 DEF Idle, Final, Removing, Underway, Carrying, Verified
<1>4. PICK pack \in Names \cup {{}}, cruft \in BOOLEAN :
        packs = [p \in Names |->
                  IF p # pack /\ p \notin keep THEN NoFiles
                  ELSE [idx |-> TRUE, pack |-> 1,
                        ages |-> [o \in Objects |-> IF cruft /\ p = pack /\ o \in p THEN 1 ELSE 0]]]
  BY <1>1 DEF Init
<1>5. ASSUME NEW p \in Names
      PROVE  /\ packs[p].idx => packs[p].pack # 0
             /\ IsCruft(p) => \A o \in p : packs[p].ages[o] # 0
  <2>1. CASE p # pack
    <3>1. packs[p] = NoFiles BY <1>2, <1>4, <2>1
    <3> QED BY <3>1 DEF NoFiles, IsCruft
  <2>2. CASE p = pack
    <3>1. packs[p] = [idx |-> TRUE, pack |-> 1, ages |-> [o \in Objects |-> IF cruft /\ o \in p THEN 1 ELSE 0]]
      BY <1>4, <2>2
    <3>2. cruft => \A o \in p : packs[p].ages[o] # 0 BY <3>1 DEF Names
    <3>3. ~cruft => packs[p].ages = NoAges BY <3>1 DEF NoAges
    <3> QED BY <3>1, <3>2, <3>3 DEF IsCruft
  <2> QED BY <2>1, <2>2
<1>6. OneOK
  <2>1. \A p \in OrigPacks : Present(p) BY <1>3 DEF OrigPacks
  <2> QED BY <1>2, <1>3, <1>5, <2>1 DEF OneOK
<1>7. /\ scan.state = "none" /\ scan.listed = {} /\ scan.seen = {} /\ known.retired = {} /\ fan = None
      /\ \A r \in Readers : reader[r] = NoRead
  BY DEF LookupInit
<1>8. CachesOK BY <1>7 DEF CachesOK, RetiredGone, CachesFull
<1>9. ASSUME NEW r \in Readers PROVE ReadOK(r)
  <2>1. reader[r].pc = "idle" /\ ~reader[r].there BY <1>7 DEF NoRead
  <2> QED BY <1>3, <2>1 DEF ReadOK, OpenOK, FirstLook
<1> QED BY <1>6, <1>8, <1>9 DEF FindsInv

\* A read of an object that is in the store finds it, however one gc or one write moves things
\* meanwhile, with any number of objects and of reads beside it (resolveObjectContent). No pack is
\* kept, and nothing is older than the grace period; with a second gc the second look may miss.
THEOREM ReadsFind ==
  ASSUME OneEvent
  PROVE  LookupSpec => []ReadFinds
<1> DEFINE Inv == GcIndInv /\ Exact /\ GcExact /\ LookupInv /\ HitsNamed /\ FindsInv
<1>1. LookupInit => Inv
  <2> SUFFICES ASSUME LookupInit PROVE Inv OBVIOUS
  <2>1. Init /\ GcIndInv BY GcInit DEF LookupInit
  <2>2. Exact /\ GcExact BY <2>1, ExactInit
  <2> QED BY <2>1, <2>2, LookupStarts, FindsInit
<1>2. Inv /\ [LookupNext]_<<vars, lookupVars>> => Inv'
  <2> SUFFICES ASSUME Inv, [LookupNext]_<<vars, lookupVars>> PROVE Inv' OBVIOUS
  <2>1. [Next]_vars BY DEF LookupNext, OthersStep, Next
  <2>2. GcIndInv' BY <2>1, GcKept
  <2>3. Exact' /\ GcExact' BY <2>1, ExactKept
  <2>4. LookupInv' /\ HitsNamed' BY LookupKept, HitsKept
  <2>5. FindsInv' BY FindsKept
  <2> QED BY <2>2, <2>3, <2>4, <2>5
<1>3. Inv => ReadFinds BY FindsFound
<1> QED BY <1>1, <1>2, <1>3, PTL DEF LookupSpec

=============================================================================
