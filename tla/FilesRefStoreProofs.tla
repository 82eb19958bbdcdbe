------------------------- MODULE FilesRefStoreProofs -------------------------
(* Proofs about FilesRefStore, for every set of processes, refs and menus. *)
EXTENDS FilesRefStore, FiniteSetTheorems, TLAPS

(* The menu is one of the given ones, and is never changed. *)
MenuOK == menu \in Menus

(* packed-refs has a number of lines. *)
LEMMA LinesType == \A f : Cardinality({r \in Refs : f[r] # None}) \in Nat
<1> TAKE f
<1>1. IsFiniteSet({r \in Refs : f[r] # None}) BY FS_Subset, RefStoreAssumption
<1> QED BY <1>1, FS_CardinalityType

(* packedCacheKey of the file in place is a key. *)
LEMMA KeyType == ASSUME TypeOK PROVE Key \in Keys
<1>1. Cardinality({r \in Refs : packed[r] # None}) \in Nat BY LinesType
<1>2. stamp \in Int BY DEF TypeOK
<1> QED BY <1>1, <1>2 DEF Key, Keys

(* What resolveDirect remembers, and what packedCache holds. *)
RdType == [at : {"loose", "stat", "load"}, name : Refs \cup {None}, key : Keys]
CacheType == [key : Keys, entries : Entries]

(* What a process starts with, and what Return puts back, is of its type. *)
LEMMA EmptyTypes ==
  NoEntries \in Entries /\ NoKey \in Keys /\ NoCache \in CacheType /\ NotReading \in RdType
<1>1. NoEntries \in Entries /\ NoKey \in Keys BY DEF NoEntries, Entries, NoKey, Keys, Values
<1> QED BY <1>1 DEF NoCache, NotReading, CacheType, RdType

(* The updates of a transaction are updates. *)
LEMMA RunsType ==
  ASSUME NEW p \in Procs, MenuOK, NEW op \in menu.ops[p], op.kind = "update"
  PROVE  /\ op.runs \in Seq(SUBSET Update)
         /\ op.runs # <<>>
         /\ UNION {op.runs[i] : i \in 1..Len(op.runs)} \subseteq Update
<1>1. IsOp(op) BY RefStoreAssumption DEF MenuOK, Menu
<1>2. op.runs \in Seq(SUBSET Update) /\ op.runs # <<>> BY <1>1 DEF IsOp, Transaction
<1>3. \A i \in 1..Len(op.runs) : op.runs[i] \in SUBSET Update BY <1>2
<1> QED BY <1>2, <1>3

------------------------------
(* Where a process is in its transaction tells what it holds. *)
Locking == {"blockers", "rename", "lock", "load", "drop", "reseed", "unlink"}

PhaseAt(p) ==
  /\ held[p] # {} => pc[p] \in Locking
  /\ owns[p] => pc[p] \in {"load", "drop", "unlink"}
  /\ pc[p] \in {"load", "drop"} => owns[p]
  /\ rd[p].name # None => pc[p] = "read" \/ (pc[p] \in {"prepare", "check"} /\ chk[p] # {})
  /\ pc[p] = "prepare" => todo[p] # <<>>

Phases == \A p \in Procs : PhaseAt(p)

------------------------------
(* The variables Return resets. *)
CallOK ==
  /\ pc \in [Procs -> Pcs]
  /\ todo \in [Procs -> Seq(SUBSET Update)]
  /\ run \in [Procs -> SUBSET Update]
  /\ chk \in [Procs -> SUBSET Update]
  /\ rd \in [Procs -> RdType]
  /\ held \in [Procs -> SUBSET Refs]
  /\ owns \in [Procs -> BOOLEAN]
  /\ snap \in [Procs -> Entries]
  /\ dups \in [Procs -> SUBSET Refs]

(* The variables of the directory and the caches. *)
FilesOK ==
  /\ loose \in Entries /\ packed \in Entries
  /\ stamp \in Nat
  /\ looseLock \subseteq Refs /\ packedLock \in BOOLEAN
  /\ cache \in [Procs -> CacheType]

(* Every label is one. *)
LEMMA Labels ==
  /\ {"idle", "read", "prepare", "check", "blockers", "rename", "lock", "load", "drop"} \subseteq Pcs
  /\ {"reseed", "unlink", "listLoose", "listPacked", "duplicates", "truncate"} \subseteq Pcs
  /\ {"write", "prune", "packed"} \subseteq Pcs
  BY DEF Pcs

(* What the steps of resolveDirect and loadPackedRefs do to rd. *)
LEMMA RdSteps ==
  ASSUME rd \in [Procs -> RdType], NEW p \in Procs
  PROVE  /\ [rd EXCEPT ![p] = NotReading] \in [Procs -> RdType]
         /\ [rd EXCEPT ![p].at = "stat"] \in [Procs -> RdType]
         /\ \A n \in Refs : [rd EXCEPT ![p].name = n] \in [Procs -> RdType]
         /\ \A k \in Keys : [rd EXCEPT ![p].at = "load", ![p].key = k] \in [Procs -> RdType]
<1>1. NotReading \in RdType BY EmptyTypes DEF RdType
<1>2. [rd[p] EXCEPT !.at = "stat"] \in RdType BY DEF RdType
<1>3. ASSUME NEW n \in Refs PROVE [rd[p] EXCEPT !.name = n] \in RdType BY DEF RdType
<1>4. ASSUME NEW k \in Keys PROVE [rd[p] EXCEPT !.at = "load", !.key = k] \in RdType BY DEF RdType
<1> QED BY <1>1, <1>2, <1>3, <1>4

(* The type invariant in two parts, so that a step is checked only against *)
(* the one it touches. *)
LEMMA TypeParts == TypeOK <=> CallOK /\ FilesOK
  BY DEF TypeOK, CallOK, FilesOK, RdType, CacheType

(* A call that is over leaves the variables of its process of their types. *)
LEMMA ReturnType == ASSUME NEW p \in Procs, CallOK, Return(p) PROVE CallOK'
<1>1. <<>> \in Seq(SUBSET Update) OBVIOUS
<1> QED BY <1>1, EmptyTypes, Labels DEF CallOK, Return

(* ... and so does one that goes on to the next run. *)
LEMMA EndRunType == ASSUME NEW p \in Procs, CallOK, EndRun(p) PROVE CallOK'
<1>1. CASE Return(p) BY <1>1, ReturnType
<1>2. CASE ~Return(p)
  <2>1. /\ pc' = [pc EXCEPT ![p] = "prepare"]
        /\ run' = [run EXCEPT ![p] = {}]
        /\ held' = [held EXCEPT ![p] = {}] /\ owns' = [owns EXCEPT ![p] = FALSE]
        /\ snap' = [snap EXCEPT ![p] = NoEntries] /\ dups' = [dups EXCEPT ![p] = {}]
        /\ UNCHANGED <<todo, chk, rd>>
    BY <1>2 DEF EndRun, GoTo
  <2>2. /\ pc' \in [Procs -> Pcs] /\ owns' \in [Procs -> BOOLEAN]
        /\ held' \in [Procs -> SUBSET Refs] /\ dups' \in [Procs -> SUBSET Refs]
    BY <2>1, Labels DEF CallOK
  <2> QED BY <2>1, <2>2, EmptyTypes DEF CallOK
<1> QED BY <1>1, <1>2

(* A call that throws releases its locks and leaves well-typed state. *)
LEMMA ThrowType == ASSUME NEW p \in Procs, CallOK, FilesOK, Throw(p) PROVE CallOK' /\ FilesOK'
  BY ReturnType DEF Throw, FilesOK, ReleaseLocks

------------------------------
(* Types are kept by every step of every process. *)
LEMMA TypeStep == MenuOK /\ Phases /\ TypeOK /\ [Next]_vars => TypeOK'
<1> SUFFICES ASSUME MenuOK, Phases, TypeOK, [Next]_vars PROVE CallOK' /\ FilesOK'
  BY TypeParts DEF TypeOK, CallOK, FilesOK, RdType, CacheType
<1> CallOK /\ FilesOK BY TypeParts
<1>1. CASE UNCHANGED vars BY <1>1 DEF vars, files, locals, CallOK, FilesOK
<1>2. ASSUME NEW p \in Procs, Step(p) PROVE CallOK' /\ FilesOK'
  <2>s. rd \in [Procs -> RdType] BY DEF CallOK
  <2>n. [rd EXCEPT ![p] = NotReading] \in [Procs -> RdType] BY <2>s, RdSteps
  <2>a. [rd EXCEPT ![p].at = "stat"] \in [Procs -> RdType] BY <2>s, RdSteps
  <2>m. \A r \in Refs : [rd EXCEPT ![p].name = r] \in [Procs -> RdType] BY <2>s, RdSteps
  <2>e. NoEntries \in Entries BY EmptyTypes
  <2>t. Throw(p) => CallOK' /\ FilesOK' BY ThrowType
  <2>i. Return(p) => CallOK' BY ReturnType
  <2>d. EndRun(p) => CallOK' BY EndRunType
  <2> USE Labels DEF CallOK, FilesOK, GoTo, files, plan, locks, work
  <2>r. ASSUME NEW v, Resolved(p, v), UNCHANGED files, cache' \in [Procs -> CacheType] PROVE CallOK' /\ FilesOK'
    <3>1. CASE Return(p) BY <2>r, <3>1, <2>i
    <3>2. CASE ~Return(p) BY <2>r, <3>2, <2>n, ZenonT(60) DEF Resolved
    <3> QED BY <3>1, <3>2
  <2>1. CASE Begin(p)
    <3>1. PICK op \in menu.ops[p] :
            /\ op.kind = "update"
            /\ chk' = [chk EXCEPT ![p] = IF Cardinality(UNION {op.runs[i] : i \in 1..Len(op.runs)}) < 2
                                          THEN {} ELSE Checked(UNION {op.runs[i] : i \in 1..Len(op.runs)})]
            /\ todo' = [todo EXCEPT ![p] = op.runs]
      BY <2>1 DEF Begin
    <3>2. op.runs \in Seq(SUBSET Update) /\ UNION {op.runs[i] : i \in 1..Len(op.runs)} \subseteq Update
      BY <3>1, RunsType
    <3>3. Checked(UNION {op.runs[i] : i \in 1..Len(op.runs)}) \in SUBSET Update BY <3>2 DEF Checked
    <3>4. chk' \in [Procs -> SUBSET Update] /\ todo' \in [Procs -> Seq(SUBSET Update)] BY <3>1, <3>2, <3>3
    <3>5. pc' \in [Procs -> Pcs] /\ UNCHANGED <<files, cache, run, rd, locks, work>> BY <2>1 DEF Begin
    <3> QED BY <3>4, <3>5
  <2>2. CASE BeginRead(p)
    <3>1. \A op \in menu.ops[p] : op.kind = "read" => op.name \in Refs
      BY RefStoreAssumption DEF MenuOK, Menu, IsOp
    <3> QED BY <2>2, <3>1, <2>m DEF BeginRead
  <2>3. CASE BeginPack(p) BY <2>3 DEF BeginPack
  <2>4. CASE CheckNext(p)
    <3>1. \A u \in chk[p] : u.name \in Refs BY DEF Update
    <3> QED BY <2>4, <3>1, <2>m DEF CheckNext
  <2>5. CASE ReadLoose(p)
    <3>1. CASE Resolved(p, loose[rd[p].name]) BY <2>5, <2>r, <3>1 DEF ReadLoose
    <3>2. CASE ~Resolved(p, loose[rd[p].name]) BY <2>5, <3>2, <2>a DEF ReadLoose
    <3> QED BY <3>1, <3>2
  <2>p. ASSUME NEW e \in Entries, PackedLoaded(p, e), UNCHANGED files,
               cache' \in [Procs -> CacheType]
        PROVE  CallOK' /\ FilesOK'
    <3>1. CASE Resolved(p, e[rd[p].name]) BY <3>1, <2>p, <2>r
    <3>2. CASE KeepForDelete(p, e) /\ UNCHANGED <<plan, locks>> /\ rd' = [rd EXCEPT ![p] = NotReading]
      <4>1. {r \in Names(run[p]) : loose[r] # None} \subseteq Refs BY DEF Names, Update
      <4> QED BY <3>2, <2>p, <4>1, <2>n DEF KeepForDelete
    <3>3. CASE KeepForPack(p, e) /\ UNCHANGED <<plan, locks>> /\ rd' = [rd EXCEPT ![p] = NotReading]
      <4>1. [r \in Refs |-> IF snap[p][r] # None THEN snap[p][r] ELSE e[r]] \in Entries BY DEF Entries
      <4> QED BY <3>3, <2>p, <4>1, <2>n DEF KeepForPack
    <3> QED BY <2>p, <3>1, <3>2, <3>3, <2>n DEF PackedLoaded
  <2>6. CASE StatPacked(p)
    <3>1. CASE PackedLoaded(p, cache[p].entries)
      <4>1. cache[p].entries \in Entries BY DEF CacheType
      <4> QED BY <2>6, <3>1, <4>1, <2>p DEF StatPacked
    <3>2. CASE /\ rd' = [rd EXCEPT ![p].at = "load", ![p].key = Key]
               /\ UNCHANGED <<pc, plan, locks, work>>
      <4>1. rd' \in [Procs -> RdType] BY <3>2, KeyType, <2>s, RdSteps
      <4> QED BY <2>6, <3>2, <4>1 DEF StatPacked
    <3> QED BY <2>6, <3>1, <3>2 DEF StatPacked
  <2>7. CASE LoadPacked(p)
    <3>1. [key |-> rd[p].key, entries |-> packed] \in CacheType BY DEF RdType, CacheType
    <3> QED BY <2>7, <3>1, <2>p DEF LoadPacked
  <2>8. CASE StartRun(p)
    <3>1. todo[p] # <<>> BY <2>8 DEF StartRun, Phases, PhaseAt
    <3>2. Head(todo[p]) \in SUBSET Update /\ Tail(todo[p]) \in Seq(SUBSET Update) BY <3>1
    <3>3. Checked(Head(todo[p])) \in SUBSET Update BY <3>2 DEF Checked
    <3> QED BY <2>8, <3>2, <3>3 DEF StartRun
  <2>9. ASSUME NEW u \in run[p] PROVE u.name \in Refs /\ u.val \in Values BY DEF Update, Values
  <2>10. CASE LockForSet(p)
    <3>1. CASE Throw(p) BY <3>1, <2>t
    <3>2. CASE ~Throw(p)
      <4>1. PICK u \in run[p] :
              /\ looseLock' = looseLock \cup {u.name}
              /\ held' = [held EXCEPT ![p] = {u.name}]
              /\ rd' = [rd EXCEPT ![p].at = "stat"]
              /\ pc' = [pc EXCEPT ![p] = "blockers"]
              /\ UNCHANGED <<loose, packed, stamp, packedLock, cache, plan, owns, work>>
        BY <2>10, <3>2 DEF LockForSet, AskPacked
      <4> QED BY <4>1, <2>9, <2>a
    <3> QED BY <3>1, <3>2
  <2>11. CASE RenameLoose(p)
    <3>1. CallOK' BY <2>11, <2>d DEF RenameLoose
    <3> QED BY <2>11, <3>1, <2>9 DEF RenameLoose, Entries
  <2>12. CASE StartDelete(p) BY <2>12, <2>9 DEF StartDelete, Lockable, Names
  <2>13. CASE LockForDelete(p)
    <3>1. CASE Throw(p) BY <3>1, <2>t
    <3>2. CASE ~Throw(p)
      <4>1. PICK r \in dups[p] :
              /\ looseLock' = looseLock \cup {r}
              /\ held' = [held EXCEPT ![p] = @ \cup {r}]
              /\ dups' = [dups EXCEPT ![p] = @ \ {r}]
              /\ UNCHANGED <<loose, packed, stamp, packedLock, cache, pc, plan, rd, owns, snap>>
        BY <2>13, <3>2 DEF LockForDelete
      <4>2. dups' \in [Procs -> SUBSET Refs] /\ held' \in [Procs -> SUBSET Refs] BY <4>1
      <4> QED BY <4>1, <4>2
    <3> QED BY <3>1, <3>2
  <2>14. CASE LockPacked(p)
    <3>1. CASE Throw(p) BY <3>1, <2>t
    <3>2. CASE ~Throw(p) BY <2>14, <3>2, <2>a, ZenonT(60) DEF LockPacked, AskPacked
    <3> QED BY <3>1, <3>2
  <2>15. CASE DropPacked(p)
    <3>1. Without(snap[p], Names(run[p])) \in Entries BY DEF Without, Entries, Values
    <3>2. stamp' \in Nat /\ packed' \in Entries /\ snap' \in [Procs -> Entries]
      <4>1. CASE packed' = Without(snap[p], Names(run[p]))
        <5>1. snap' = [snap EXCEPT ![p] = packed'] \/ UNCHANGED snap BY <2>15 DEF DropPacked
        <5>2. stamp' \in Nat BY <2>15 DEF DropPacked, Restamp
        <5> QED BY <4>1, <5>1, <5>2, <3>1
      <4>2. CASE packed' # Without(snap[p], Names(run[p])) BY <2>15, <4>2 DEF DropPacked
      <4> QED BY <4>1, <4>2
    <3> QED BY <2>15, <3>2, ZenonT(60) DEF DropPacked
  <2>16. CASE Reseed(p)
    <3>1. [key |-> Key, entries |-> snap[p]] \in CacheType BY KeyType DEF CacheType
    <3> QED BY <2>16, <3>1 DEF Reseed
  <2>17. CASE UnlinkLoose(p)
    <3>1. CASE Throw(p) BY <3>1, <2>t
    <3>2. CASE ~Throw(p)
      <4>1. PICK u \in run[p] :
              /\ loose' = [loose EXCEPT ![u.name] = None]
              /\ run' = [run EXCEPT ![p] = @ \ {u}]
              /\ UNCHANGED <<packed, stamp, looseLock, packedLock, cache, pc, todo, chk, rd, locks, work>>
        BY <2>17, <3>2 DEF UnlinkLoose
      <4>2. loose' \in Entries BY <4>1 DEF Entries, Values
      <4>3. run' \in [Procs -> SUBSET Update] BY <4>1
      <4> QED BY <4>1, <4>2, <4>3
    <3> QED BY <3>1, <3>2
  <2>18. CASE EndDelete(p) BY <2>18, <2>d DEF EndDelete, ReleaseLocks
  <2>19. CASE Fail(p) BY <2>19, <2>t DEF Fail
  <2>20. CASE ListLoose(p) BY <2>20, <2>a DEF ListLoose, AskPacked
  <2>21. CASE FindDuplicates(p) BY <2>21 DEF FindDuplicates
  <2>22. CASE TruncatePacked(p) BY <2>22, <2>e DEF TruncatePacked, Restamp
  <2>23. CASE WritePacked(p) BY <2>23, EmptyTypes DEF WritePacked, Restamp
  <2>24. CASE PruneLoose(p)
    <3>1. CASE Throw(p) BY <3>1, <2>t
    <3>2. CASE ~Throw(p)
      <4>1. PICK r \in dups[p] :
              /\ loose' = [loose EXCEPT ![r] = None]
              /\ dups' = [dups EXCEPT ![p] = @ \ {r}]
              /\ UNCHANGED <<packed, stamp, looseLock, packedLock, cache, pc, plan, rd, locks, snap>>
        BY <2>24, <3>2 DEF PruneLoose
      <4>2. loose' \in Entries BY <4>1 DEF Entries, Values
      <4>3. dups' \in [Procs -> SUBSET Refs] BY <4>1
      <4> QED BY <4>1, <4>2, <4>3
    <3> QED BY <3>1, <3>2
  <2>25. CASE EndPack(p) BY <2>25, <2>i DEF EndPack
  <2>26. CASE Crash(p) BY <2>26, <2>i, EmptyTypes DEF Crash
  <2> QED BY <1>2, <2>1, <2>2, <2>3, <2>4, <2>5, <2>6, <2>7, <2>8, <2>10, <2>11, <2>12, <2>13, <2>14,
       <2>15, <2>16, <2>17, <2>18, <2>19, <2>20, <2>21, <2>22, <2>23, <2>24, <2>25, <2>26
    DEF Step, Resolve, Transact, Pack
<1> QED BY <1>1, <1>2 DEF Next

------------------------------
(* A step of p leaves what the other processes know of their calls alone. *)
SameCall(q) ==
  /\ pc'[q] = pc[q] /\ todo'[q] = todo[q] /\ chk'[q] = chk[q]
  /\ rd'[q] = rd[q] /\ held'[q] = held[q] /\ owns'[q] = owns[q]
  /\ run'[q] = run[q] /\ snap'[q] = snap[q] /\ dups'[q] = dups[q] /\ cache'[q] = cache[q]

(* A step of one process leaves the local state of the others alone. *)
LEMMA OthersAlone ==
  ASSUME TypeOK, NEW p \in Procs, Step(p), NEW q \in Procs, q # p
  PROVE  SameCall(q)
<1> USE DEF SameCall, CallOK, FilesOK, GoTo, plan, locks, work
<1>0. CallOK /\ FilesOK BY TypeParts
<1>r. ASSUME Return(p), cache'[q] = cache[q] PROVE SameCall(q) BY <1>0, <1>r DEF Return
<1>1. CASE Begin(p) BY <1>1, <1>0, <1>r DEF Begin
<1>2. CASE BeginRead(p) BY <1>2, <1>0, <1>r DEF BeginRead
<1>3. CASE BeginPack(p) BY <1>3, <1>0, <1>r DEF BeginPack
<1>4. CASE CheckNext(p) BY <1>4, <1>0, <1>r DEF CheckNext
<1>5. CASE ReadLoose(p) BY <1>5, <1>0, <1>r DEF ReadLoose, Resolved
<1>6. CASE StatPacked(p)
  BY <1>6, <1>0, <1>r DEF StatPacked, PackedLoaded, KeepForDelete, KeepForPack, Resolved
<1>7. CASE LoadPacked(p)
  BY <1>7, <1>0, <1>r DEF LoadPacked, PackedLoaded, KeepForDelete, KeepForPack, Resolved
<1>8. CASE StartRun(p) BY <1>8, <1>0, <1>r DEF StartRun
<1>9. CASE LockForSet(p) BY <1>9, <1>0, <1>r DEF LockForSet, AskPacked, Throw
<1>10. CASE RenameLoose(p) BY <1>10, <1>0, <1>r DEF RenameLoose, EndRun
<1>11. CASE StartDelete(p) BY <1>11, <1>0, <1>r DEF StartDelete
<1>12. CASE LockForDelete(p) BY <1>12, <1>0, <1>r DEF LockForDelete, Throw
<1>13. CASE LockPacked(p) BY <1>13, <1>0, <1>r DEF LockPacked, AskPacked, Throw
<1>14. CASE DropPacked(p) BY <1>14, <1>0, <1>r DEF DropPacked
<1>15. CASE Reseed(p) BY <1>15, <1>0, <1>r DEF Reseed
<1>16. CASE UnlinkLoose(p) BY <1>16, <1>0, <1>r DEF UnlinkLoose, Throw
<1>17. CASE EndDelete(p) BY <1>17, <1>0, <1>r DEF EndDelete, EndRun
<1>18. CASE Fail(p) BY <1>18, <1>0, <1>r DEF Fail, Throw
<1>19. CASE ListLoose(p) BY <1>19, <1>0, <1>r DEF ListLoose, AskPacked
<1>20. CASE FindDuplicates(p) BY <1>20, <1>0, <1>r DEF FindDuplicates
<1>21. CASE TruncatePacked(p) BY <1>21, <1>0, <1>r DEF TruncatePacked
<1>22. CASE WritePacked(p) BY <1>22, <1>0, <1>r DEF WritePacked
<1>23. CASE PruneLoose(p) BY <1>23, <1>0, <1>r DEF PruneLoose, Throw
<1>24. CASE EndPack(p) BY <1>24, <1>0, <1>r DEF EndPack
<1>25. CASE Crash(p) BY <1>25, <1>0, <1>r DEF Crash
<1> QED
  BY <1>1, <1>2, <1>3, <1>4, <1>5, <1>6, <1>7, <1>8, <1>9, <1>10, <1>11, <1>12, <1>13, <1>14, <1>15, <1>16, <1>17, <1>18, <1>19, <1>20, <1>21, <1>22, <1>23, <1>24, <1>25
  DEF Step, Resolve, Transact, Pack

(* Where a process is tells what it holds, after every step. *)
LEMMA PhaseStep == MenuOK /\ TypeOK /\ Phases /\ [Next]_vars => Phases'
<1> SUFFICES ASSUME MenuOK, TypeOK, Phases, [Next]_vars, NEW q \in Procs PROVE PhaseAt(q)' BY DEF Phases
<1>0. CallOK /\ PhaseAt(q) BY TypeParts DEF Phases
<1>1. CASE UNCHANGED vars BY <1>0, <1>1 DEF vars, files, locals, PhaseAt
<1>2. ASSUME NEW p \in Procs, p # q, Step(p) PROVE PhaseAt(q)'
  <2>1. SameCall(q) BY <1>2, OthersAlone
  <2> QED BY <1>0, <2>1 DEF SameCall, PhaseAt
<1>3. CASE Step(q)
  <2> USE <1>0 DEF CallOK, RdType, PhaseAt, GoTo, plan, locks, Locking
  <2>r. Return(q) => PhaseAt(q)' BY DEF Return, NotReading
  <2>1. CASE Begin(q)
    <3>1. PICK op \in menu.ops[q] :
            /\ pc[q] = "idle" /\ op.kind = "update"
            /\ todo' = [todo EXCEPT ![q] = op.runs]
            /\ pc' = [pc EXCEPT ![q] = "prepare"]
            /\ UNCHANGED <<rd, locks>>
      BY <2>1 DEF Begin
    <3>2. op.runs # <<>> BY <3>1, RunsType
    <3> QED BY <3>1, <3>2
  <2>2. CASE BeginRead(q) BY <2>2, <2>r DEF BeginRead
  <2>3. CASE BeginPack(q) BY <2>3, <2>r DEF BeginPack
  <2>4. CASE CheckNext(q) BY <2>4, <2>r DEF CheckNext
  <2>5. CASE ReadLoose(q) BY <2>5, <2>r DEF ReadLoose, Resolved, NotReading
  <2>6. CASE StatPacked(q)
    BY <2>6, <2>r DEF StatPacked, PackedLoaded, KeepForDelete, KeepForPack, Resolved, NotReading
  <2>7. CASE LoadPacked(q)
    BY <2>7, <2>r DEF LoadPacked, PackedLoaded, KeepForDelete, KeepForPack, Resolved, NotReading
  <2>8. CASE StartRun(q) BY <2>8, <2>r DEF StartRun
  <2>9. CASE LockForSet(q) BY <2>9, <2>r DEF LockForSet, Checks, AskPacked, Throw
  <2>10. CASE RenameLoose(q) BY <2>10, <2>r DEF RenameLoose, EndRun
  <2>11. CASE StartDelete(q) BY <2>11, <2>r DEF StartDelete, Checks
  <2>12. CASE LockForDelete(q) BY <2>12, <2>r DEF LockForDelete, Throw
  <2>13. CASE LockPacked(q) BY <2>13, <2>r DEF LockPacked, AskPacked, Throw
  <2>14. CASE DropPacked(q) BY <2>14, <2>r DEF DropPacked
  <2>15. CASE Reseed(q) BY <2>15, <2>r DEF Reseed
  <2>16. CASE UnlinkLoose(q) BY <2>16, <2>r DEF UnlinkLoose, Throw
  <2>17. CASE EndDelete(q) BY <2>17, <2>r DEF EndDelete, EndRun
  <2>18. CASE Fail(q) BY <2>18, <2>r DEF Fail, Throw
  <2>19. CASE ListLoose(q) BY <2>19, <2>r DEF ListLoose, AskPacked
  <2>20. CASE FindDuplicates(q) BY <2>20, <2>r DEF FindDuplicates
  <2>21. CASE TruncatePacked(q) BY <2>21, <2>r DEF TruncatePacked
  <2>22. CASE WritePacked(q) BY <2>22, <2>r DEF WritePacked
  <2>23. CASE PruneLoose(q) BY <2>23, <2>r DEF PruneLoose, Throw
  <2>24. CASE EndPack(q) BY <2>24, <2>r DEF EndPack
  <2>25. CASE Crash(q) BY <2>25, <2>r DEF Crash
  <2> QED
    BY <1>3, <2>1, <2>2, <2>3, <2>4, <2>5, <2>6, <2>7, <2>8, <2>9, <2>10, <2>11, <2>12, <2>13, <2>14, <2>15, <2>16, <2>17, <2>18, <2>19, <2>20, <2>21, <2>22, <2>23, <2>24, <2>25
    DEF Step, Resolve, Transact, Pack
<1> QED BY <1>1, <1>2, <1>3 DEF Next

------------------------------
(* What one step of p does to the lock files and to what p knows of them. *)
KeepsLocks(p) == UNCHANGED <<looseLock, packedLock, held, owns>>

TakesLoose(p) ==
  \E r \in Refs :
    /\ r \notin looseLock
    /\ looseLock' = looseLock \cup {r}
    /\ held' = [held EXCEPT ![p] = @ \cup {r}]
    /\ UNCHANGED <<packedLock, owns>>

TakesPacked(p) ==
  /\ ~packedLock /\ packedLock'
  /\ owns' = [owns EXCEPT ![p] = TRUE]
  /\ UNCHANGED <<looseLock, held>>

RenamesPacked(p) ==
  /\ owns[p] /\ ~packedLock'
  /\ owns' = [owns EXCEPT ![p] = FALSE]
  /\ UNCHANGED <<looseLock, held>>

Releases(p) ==
  /\ looseLock' = looseLock \ held[p]
  /\ packedLock' = (packedLock /\ ~owns[p])
  /\ held' = [held EXCEPT ![p] = {}]
  /\ owns' = [owns EXCEPT ![p] = FALSE]

Abandons(p) ==
  /\ menu.crashes
  /\ held' = [held EXCEPT ![p] = {}]
  /\ owns' = [owns EXCEPT ![p] = FALSE]
  /\ UNCHANGED <<looseLock, packedLock>>

LockEffect(p) ==
  \/ KeepsLocks(p) \/ TakesLoose(p) \/ TakesPacked(p)
  \/ RenamesPacked(p) \/ Releases(p) \/ Abandons(p)

(* Every step is one of these: only a holder removes or renames a lock file, *)
(* and a call that ends gives back what it took unless its process dies. *)
LEMMA LockSteps ==
  ASSUME TypeOK, Phases, NEW p \in Procs, Step(p)
  PROVE  LockEffect(p)
<1>0. CallOK /\ FilesOK /\ PhaseAt(p) BY TypeParts DEF Phases
<1> USE <1>0 DEF CallOK, FilesOK, PhaseAt, GoTo, locks, files, LockEffect, KeepsLocks
<1>t. Throw(p) => Releases(p) BY DEF Throw, ReleaseLocks, Return, Releases
<1>r. ASSUME Return(p), UNCHANGED <<looseLock, packedLock>>, pc[p] \notin Locking
      PROVE  Releases(p)
  BY <1>r DEF Return, Releases, Locking
<1>1. CASE Begin(p) BY <1>1 DEF Begin
<1>2. CASE BeginRead(p) BY <1>2 DEF BeginRead
<1>3. CASE BeginPack(p) BY <1>3 DEF BeginPack
<1>4. CASE CheckNext(p) BY <1>4 DEF CheckNext
<1>5. CASE ReadLoose(p) BY <1>5, <1>r DEF ReadLoose, Resolved, Locking
<1>6. CASE StatPacked(p) BY <1>6, <1>r DEF StatPacked, PackedLoaded, Resolved, Locking
<1>7. CASE LoadPacked(p) BY <1>7, <1>r DEF LoadPacked, PackedLoaded, Resolved, Locking
<1>8. CASE StartRun(p) BY <1>8 DEF StartRun
<1>9. CASE LockForSet(p)
  <2>1. CASE Throw(p) BY <2>1, <1>t
  <2>2. CASE ~Throw(p)
    <3>1. PICK u \in run[p] :
            /\ pc[p] = "check" /\ u.name \notin looseLock
            /\ looseLock' = looseLock \cup {u.name}
            /\ held' = [held EXCEPT ![p] = {u.name}]
            /\ UNCHANGED <<packedLock, owns>>
      BY <1>9, <2>2 DEF LockForSet, Checks
    <3>2. u.name \in Refs /\ held[p] = {} BY <3>1 DEF Update, Locking
    <3>3. held' = [held EXCEPT ![p] = @ \cup {u.name}] BY <3>1, <3>2
    <3> QED BY <3>1, <3>2, <3>3 DEF TakesLoose
  <2> QED BY <2>1, <2>2
<1>10. CASE RenameLoose(p) BY <1>10 DEF RenameLoose, EndRun, Return, Releases
<1>11. CASE StartDelete(p) BY <1>11 DEF StartDelete
<1>12. CASE LockForDelete(p)
  <2>1. CASE Throw(p) BY <2>1, <1>t
  <2>2. CASE ~Throw(p) BY <1>12, <2>2 DEF LockForDelete, TakesLoose
  <2> QED BY <2>1, <2>2
<1>13. CASE LockPacked(p) BY <1>13, <1>t DEF LockPacked, TakesPacked
<1>14. CASE DropPacked(p) BY <1>14 DEF DropPacked, RenamesPacked
<1>15. CASE Reseed(p) BY <1>15 DEF Reseed
<1>16. CASE UnlinkLoose(p) BY <1>16, <1>t DEF UnlinkLoose
<1>17. CASE EndDelete(p) BY <1>17 DEF EndDelete, EndRun, Return, ReleaseLocks, Releases
<1>18. CASE Fail(p) BY <1>18, <1>t DEF Fail
<1>19. CASE ListLoose(p) BY <1>19 DEF ListLoose
<1>20. CASE FindDuplicates(p) BY <1>20 DEF FindDuplicates
<1>21. CASE TruncatePacked(p) BY <1>21 DEF TruncatePacked
<1>22. CASE WritePacked(p) BY <1>22 DEF WritePacked
<1>23. CASE PruneLoose(p) BY <1>23, <1>t DEF PruneLoose
<1>24. CASE EndPack(p) BY <1>24, <1>r DEF EndPack, Locking
<1>25. CASE Crash(p) BY <1>25 DEF Crash, Return, Abandons
<1> QED
  BY <1>1, <1>2, <1>3, <1>4, <1>5, <1>6, <1>7, <1>8, <1>9, <1>10, <1>11, <1>12, <1>13, <1>14, <1>15, <1>16, <1>17, <1>18, <1>19, <1>20, <1>21, <1>22, <1>23, <1>24, <1>25
  DEF Step, Resolve, Transact, Pack

(* The inductive invariant: StoreInv alone does not tell that a process in *)
(* `drop` owns packed-refs.lock, nor that one that may return without *)
(* unlinking anything holds nothing. *)
StoreIndInv == MenuOK /\ TypeOK /\ Phases /\ LocksExclusive /\ LocksGivenBack

(* Every step keeps each lock with one process and gives back what a call *)
(* that ends had taken. *)
LEMMA LocksStep ==
  StoreIndInv /\ [Next]_vars => LocksExclusive' /\ LocksGivenBack'
<1> SUFFICES ASSUME StoreIndInv, [Next]_vars PROVE LocksExclusive' /\ LocksGivenBack' OBVIOUS
<1> USE DEF StoreIndInv
<1>0. CallOK /\ FilesOK /\ Phases' BY TypeParts, PhaseStep
<1>1. CASE UNCHANGED vars BY <1>1 DEF vars, files, locals, LocksExclusive, LocksGivenBack
<1>2. ASSUME NEW p \in Procs, Step(p), UNCHANGED menu
      PROVE  LocksExclusive' /\ LocksGivenBack'
  <2> USE DEF LocksExclusive
  <2>0. \A q \in Procs : q # p => held'[q] = held[q] /\ owns'[q] = owns[q] BY <1>2, OthersAlone DEF SameCall
  <2>h. held \in [Procs -> SUBSET Refs] /\ owns \in [Procs -> BOOLEAN] /\ packedLock \in BOOLEAN
    BY <1>0 DEF CallOK, FilesOK
  <2>idle. (\A q \in Procs : pc[q] = "idle" => held[q] = {} /\ ~owns[q])' BY <1>0 DEF Phases, PhaseAt, Locking
  <2> DEFINE Owned == /\ looseLock = UNION {held[q] : q \in Procs}
                      /\ packedLock => \E q \in Procs : owns[q]
  <2>o. ~menu.crashes => Owned BY DEF LocksGivenBack
  <2> SUFFICES LocksExclusive' /\ (~menu.crashes => Owned') BY <2>idle, <1>2 DEF LocksGivenBack
  <2>1. CASE KeepsLocks(p) BY <2>1, <2>o DEF KeepsLocks
  <2>2. CASE TakesLoose(p)
    <3>1. PICK r \in Refs :
            /\ r \notin looseLock
            /\ looseLock' = looseLock \cup {r}
            /\ held'[p] = held[p] \cup {r}
            /\ UNCHANGED <<packedLock, owns>>
      BY <2>2, <2>h DEF TakesLoose
    <3>2. LocksExclusive' BY <3>1, <2>0
    <3>3. ASSUME Owned PROVE looseLock' = UNION {held'[q] : q \in Procs} BY <3>1, <3>3, <2>0
    <3> QED BY <3>1, <3>2, <3>3, <2>o
  <2>3. CASE TakesPacked(p)
    <3>1. owns'[p] /\ packedLock' /\ ~packedLock /\ UNCHANGED <<looseLock, held>>
      BY <2>3, <2>h DEF TakesPacked
    <3> QED BY <3>1, <2>0, <2>o, <2>h
  <2>4. CASE RenamesPacked(p)
    <3>1. owns[p] /\ ~owns'[p] /\ ~packedLock' /\ UNCHANGED <<looseLock, held>>
      BY <2>4, <2>h DEF RenamesPacked
    <3> QED BY <3>1, <2>0, <2>o, <2>h
  <2>5. CASE Releases(p)
    <3>1. /\ looseLock' = looseLock \ held[p] /\ held'[p] = {}
          /\ packedLock' = (packedLock /\ ~owns[p]) /\ ~owns'[p]
      BY <2>5, <2>h DEF Releases
    <3>2. LocksExclusive' BY <3>1, <2>0, <2>h
    <3>3. ASSUME Owned PROVE looseLock' = UNION {held'[q] : q \in Procs} BY <3>1, <3>3, <2>0
    <3>4. ASSUME Owned PROVE packedLock' => \E q \in Procs : owns'[q] BY <3>1, <3>4, <2>0, <2>h
    <3> QED BY <3>2, <3>3, <3>4, <2>o
  <2>6. CASE Abandons(p)
    <3>1. /\ menu.crashes /\ held'[p] = {} /\ ~owns'[p] /\ UNCHANGED <<looseLock, packedLock>>
      BY <2>6, <2>h DEF Abandons
    <3> QED BY <3>1, <2>0
  <2> QED BY <1>2, LockSteps, <2>1, <2>2, <2>3, <2>4, <2>5, <2>6 DEF LockEffect
<1> QED BY <1>1, <1>2 DEF Next

(* The store starts with no call under way and no lock taken. *)
LEMMA StoreInit == Init => StoreIndInv
<1> SUFFICES ASSUME Init PROVE StoreIndInv OBVIOUS
<1>1. MenuOK /\ menu.vals \subseteq Vals BY RefStoreAssumption DEF Init, MenuOK, Menu
<1>2. FilesOK BY <1>1, EmptyTypes DEF Init, FilesOK, Entries, Values
<1>3. CallOK BY EmptyTypes, Labels DEF Init, CallOK
<1>4. Phases /\ LocksExclusive /\ LocksGivenBack
  BY DEF Init, Phases, PhaseAt, NotReading, LocksExclusive, LocksGivenBack
<1> QED BY <1>1, <1>2, <1>3, <1>4, TypeParts DEF StoreIndInv

(* Every step of the store keeps its inductive invariant. *)
LEMMA StoreStep == StoreIndInv /\ [Next]_vars => StoreIndInv'
<1> SUFFICES ASSUME StoreIndInv, [Next]_vars PROVE StoreIndInv' OBVIOUS
<1>1. MenuOK' BY DEF StoreIndInv, MenuOK, Next, vars
<1> QED BY <1>1, TypeStep, PhaseStep, LocksStep DEF StoreIndInv

(* The files backend's locks, for every number of processes and refs, every *)
(* mix of transactions, reads and packRefs, and with crashes: a lock file of a *)
(* live process is there until that process removes or renames it and is *)
(* nobody else's, and where nobody dies no refusal, I/O failure or early *)
(* return leaves <loose>.lock or packed-refs.lock behind. *)
THEOREM StoreLocks == Spec => []StoreInv
<1>1. StoreIndInv => StoreInv BY DEF StoreIndInv, StoreInv
<1> QED BY <1>1, StoreInit, StoreStep, PTL DEF Spec

------------------------------
(* packedCache.  A cached packed-refs is only as good as its key, so what has *)
(* to be shown is that no two contents of the file ever have one key that *)
(* somebody still remembers. *)

(* Who may rewrite packed-refs: a process that packs, or deletes. *)
Packs(p) == \E op \in menu.ops[p] : op.kind = "pack"
MayRewrite(p) ==
  \E op \in menu.ops[p] :
    \/ op.kind = "pack"
    \/ op.kind = "update" /\ \E i \in 1..Len(op.runs) : \E u \in op.runs[i] : u.val = None

(* Beside other processes a single one rewrites packed-refs.  With two the *)
(* entries one reseeds its cache with may be older than the file whose key it *)
(* takes: CacheFaithful is then false. *)
LoneRewriter == ~PacksBeside => \A p, q \in Procs : MayRewrite(p) /\ MayRewrite(q) => p = q

Deleting == {"lock", "load", "drop", "reseed", "unlink"}
Packing == {"listLoose", "listPacked", "duplicates", "truncate", "write", "prune", "packed"}

(* A process is at a step of a delete or a pack only if its menu has one. *)
RoleAt(p) ==
  /\ pc[p] \in Packing => Packs(p)
  /\ pc[p] \in Deleting => MayRewrite(p)
  /\ \A i \in 1..Len(todo[p]) :
       todo[p][i] # {} /\ \A u \in todo[p][i] : u.val = None => MayRewrite(p)
  /\ \A u \in run[p] : u.val = None => MayRewrite(p)
  /\ pc[p] = "check" => run[p] # {}
  /\ pc[p] \in {"idle", "duplicates", "truncate", "write"} => rd[p] = NotReading
  /\ menu.ops[p] = {} => pc[p] = "idle" /\ cache[p] = NoCache

Roles == \A p \in Procs : RoleAt(p)

(* A transaction on the menu deletes only if its process is one that may. *)
LEMMA RunsOfMenu ==
  ASSUME NEW p \in Procs, MenuOK, NEW op \in menu.ops[p], op.kind = "update"
  PROVE  \A i \in 1..Len(op.runs) :
           op.runs[i] # {} /\ \A u \in op.runs[i] : u.val = None => MayRewrite(p)
<1>1. IsOp(op) BY RefStoreAssumption DEF MenuOK, Menu
<1>2. \A i \in 1..Len(op.runs) : op.runs[i] # {} BY <1>1 DEF IsOp, Transaction, IsRun
<1> QED BY <1>2 DEF MayRewrite

(* A process that may not rewrite packed-refs never gets to where it is *)
(* rewritten. *)
LEMMA RoleStep == MenuOK /\ TypeOK /\ Phases /\ Roles /\ [Next]_vars => Roles'
<1> SUFFICES ASSUME MenuOK, TypeOK, Phases, Roles, [Next]_vars, NEW q \in Procs PROVE RoleAt(q)' BY DEF Roles
<1>0. CallOK /\ FilesOK /\ PhaseAt(q) /\ RoleAt(q) BY TypeParts DEF Phases, Roles
<1>m. menu' = menu BY DEF Next, vars
<1>1. CASE UNCHANGED vars BY <1>0, <1>1 DEF vars, files, locals, RoleAt, Packs, MayRewrite
<1>2. ASSUME NEW p \in Procs, p # q, Step(p) PROVE RoleAt(q)'
  <2>1. SameCall(q) BY <1>2, OthersAlone
  <2> QED BY <1>0, <1>m, <2>1 DEF SameCall, RoleAt, Packs, MayRewrite
<1>3. CASE Step(q)
  <2>m. Packs(q)' = Packs(q) /\ MayRewrite(q)' = MayRewrite(q) BY <1>m DEF Packs, MayRewrite
  <2> USE <1>0, <1>m, <2>m DEF CallOK, FilesOK, PhaseAt, RoleAt, GoTo, plan, locks, files, Deleting, Packing
  <2>r. ASSUME Return(q), cache'[q] \in {cache[q], NoCache} PROVE RoleAt(q)' BY <2>r DEF Return, NotReading
  <2>1. CASE Begin(q)
    <3>1. PICK op \in menu.ops[q] :
            /\ pc[q] = "idle" /\ op.kind = "update"
            /\ todo' = [todo EXCEPT ![q] = op.runs]
            /\ pc' = [pc EXCEPT ![q] = "prepare"]
            /\ UNCHANGED <<cache, run, rd>>
      BY <2>1 DEF Begin
    <3>2. \A i \in 1..Len(op.runs) :
            op.runs[i] # {} /\ \A u \in op.runs[i] : u.val = None => MayRewrite(q)
      BY <3>1, RunsOfMenu
    <3> QED BY <3>1, <3>2
  <2>2. CASE BeginRead(q) BY <2>2, <2>r DEF BeginRead
  <2>3. CASE BeginPack(q) BY <2>3, <2>r DEF BeginPack, Packs, MayRewrite
  <2>4. CASE CheckNext(q) BY <2>4, <2>r DEF CheckNext
  <2>5. CASE ReadLoose(q) BY <2>5, <2>r DEF ReadLoose, Resolved, NotReading
  <2>l. ASSUME NEW e, PackedLoaded(q, e), rd[q].at # "loose" PROVE RoleAt(q)'
    <3>0. pc[q] # "idle" /\ menu.ops[q] # {} BY <2>l DEF NotReading
    <3>1. CASE Resolved(q, e[rd[q].name])
      <4>1. CASE Return(q) BY <3>0, <4>1 DEF Return, NotReading
      <4>2. CASE ~Return(q) BY <3>0, <3>1, <4>2 DEF Resolved, NotReading
      <4> QED BY <4>1, <4>2
    <3>2. CASE ~Resolved(q, e[rd[q].name])
      BY <2>l, <3>0, <3>2 DEF PackedLoaded, KeepForDelete, KeepForPack, NotReading
    <3> QED BY <3>1, <3>2
  <2>6. CASE StatPacked(q)
    <3>1. CASE PackedLoaded(q, cache[q].entries) BY <2>6, <3>1, <2>l DEF StatPacked
    <3>2. CASE ~PackedLoaded(q, cache[q].entries) BY <2>6, <3>2 DEF StatPacked, NotReading
    <3> QED BY <3>1, <3>2
  <2>7. CASE LoadPacked(q) BY <2>7, <2>l DEF LoadPacked
  <2>8. CASE StartRun(q)
    <3>1. todo[q] # <<>> /\ todo[q] \in Seq(SUBSET Update) BY <2>8 DEF StartRun
    <3>2. 1 \in 1..Len(todo[q]) /\ Head(todo[q]) = todo[q][1] BY <3>1
    <3>3. /\ Len(Tail(todo[q])) = Len(todo[q]) - 1
          /\ \A i \in 1..Len(Tail(todo[q])) : i + 1 \in 1..Len(todo[q]) /\ Tail(todo[q])[i] = todo[q][i + 1]
      BY <3>1
    <3>4. pc'[q] = "check" /\ todo'[q] = Tail(todo[q]) /\ run'[q] = Head(todo[q]) /\ UNCHANGED <<cache, rd>>
      BY <2>8 DEF StartRun
    <3>5. \A i \in 1..Len(todo'[q]) :
            todo'[q][i] # {} /\ \A u \in todo'[q][i] : u.val = None => MayRewrite(q)
      BY <3>3, <3>4
    <3>6. run'[q] # {} /\ \A u \in run'[q] : u.val = None => MayRewrite(q) BY <3>2, <3>4
    <3> QED BY <3>4, <3>5, <3>6, <2>8 DEF StartRun
  <2>9. CASE LockForSet(q) BY <2>9, <2>r DEF LockForSet, Checks, AskPacked, Throw
  <2>10. CASE RenameLoose(q) BY <2>10, <2>r DEF RenameLoose, EndRun
  <2>11. CASE StartDelete(q) BY <2>11, <2>r DEF StartDelete, Checks
  <2>12. CASE LockForDelete(q) BY <2>12, <2>r DEF LockForDelete, Throw
  <2>13. CASE LockPacked(q) BY <2>13, <2>r DEF LockPacked, AskPacked, Throw
  <2>14. CASE DropPacked(q) BY <2>14, <2>r DEF DropPacked
  <2>15. CASE Reseed(q) BY <2>15, <2>r DEF Reseed
  <2>16. CASE UnlinkLoose(q) BY <2>16, <2>r DEF UnlinkLoose, Throw
  <2>17. CASE EndDelete(q) BY <2>17, <2>r DEF EndDelete, EndRun
  <2>18. CASE Fail(q) BY <2>18, <2>r DEF Fail, Throw
  <2>19. CASE ListLoose(q) BY <2>19, <2>r DEF ListLoose, AskPacked
  <2>20. CASE FindDuplicates(q) BY <2>20, <2>r DEF FindDuplicates
  <2>21. CASE TruncatePacked(q) BY <2>21, <2>r DEF TruncatePacked
  <2>22. CASE WritePacked(q) BY <2>22, <2>r DEF WritePacked
  <2>23. CASE PruneLoose(q) BY <2>23, <2>r DEF PruneLoose, Throw
  <2>24. CASE EndPack(q) BY <2>24, <2>r DEF EndPack
  <2>25. CASE Crash(q) BY <2>25, <2>r DEF Crash
  <2> QED
    BY <1>3, <2>1, <2>2, <2>3, <2>4, <2>5, <2>6, <2>7, <2>8, <2>9, <2>10, <2>11, <2>12, <2>13, <2>14, <2>15, <2>16, <2>17, <2>18, <2>19, <2>20, <2>21, <2>22, <2>23, <2>24, <2>25
    DEF Step, Resolve, Transact, Pack
<1> QED BY <1>1, <1>2, <1>3 DEF Next

------------------------------
(* The number of lines of packed-refs: what its size stands for. *)
Lines == Cardinality({r \in Refs : packed[r] # None})

(* A key somebody remembers is of now or earlier: within one mtime packed-refs *)
(* only gets shorter. *)
NotLater(k) == k.at < stamp \/ (k.at = stamp /\ k.size >= Lines)

(* What a process remembers of packed-refs is no later than the file, and what *)
(* a delete is about to write was made from the file as it is. *)
MemoryAt(p) ==
  /\ NotLater(cache[p].key) /\ NotLater(rd[p].key)
  /\ cache[p].key = Key => cache[p].entries = packed
  /\ pc[p] \in {"drop", "reseed"} => snap[p] = packed

Memory == ~PacksBeside => \A p \in Procs : MemoryAt(p)

(* Dropping lines makes the file shorter, unless there was nothing to drop. *)
LEMMA Shorter ==
  ASSUME TypeOK, TypeOK', \A r \in Refs : packed'[r] \in {packed[r], None}
  PROVE  Lines' <= Lines /\ (Lines' = Lines => packed' = packed)
<1> DEFINE A == {r \in Refs : packed'[r] # None}
           B == {r \in Refs : packed[r] # None}
<1>1. A \subseteq B OBVIOUS
<1>2. IsFiniteSet(B) BY FS_Subset, RefStoreAssumption
<1>3. Cardinality(A) <= Cardinality(B) /\ (Cardinality(A) = Cardinality(B) => A = B) BY <1>1, <1>2, FS_Subset
<1>4. A = B => packed' = packed
  <2>1. packed \in Entries /\ packed' \in Entries BY DEF TypeOK
  <2> QED BY <2>1 DEF Entries
<1> QED BY <1>3, <1>4 DEF Lines

(* What one step of p does to packed-refs and to what p remembers of it. *)
LeavesPacked(p) ==
  /\ UNCHANGED <<packed, stamp>>
  /\ pc[p] = "drop" => pc'[p] # "reseed"
  /\ rd'[p].key \in {rd[p].key, Key, NoKey}
  /\ \/ cache'[p] \in {cache[p], NoCache}
     \/ cache'[p] = [key |-> rd[p].key, entries |-> packed]
     \/ pc[p] = "reseed" /\ cache'[p] = [key |-> Key, entries |-> snap[p]]

ShortensPacked(p) ==
  /\ pc[p] \in {"drop", "truncate"}
  /\ stamp' \in {stamp, stamp + 1}
  /\ pc[p] = "drop" => packed' = Without(snap[p], Names(run[p]))
  /\ pc[p] = "truncate" => packed' = NoEntries
  /\ UNCHANGED <<cache, rd>>

WritesPacked(p) ==
  /\ pc[p] = "write"
  /\ stamp' \in {stamp, stamp + 1}
  /\ cache'[p] = NoCache
  /\ UNCHANGED rd

(* A step leaves packed-refs alone, drops names from it, or writes it anew. *)
LEMMA PackedSteps ==
  ASSUME TypeOK, NEW p \in Procs, Step(p)
  PROVE  LeavesPacked(p) \/ ShortensPacked(p) \/ WritesPacked(p)
<1>0. CallOK /\ FilesOK BY TypeParts
<1>n. NotReading.key = NoKey BY DEF NotReading
<1> USE <1>0, <1>n DEF CallOK, FilesOK, RdType, GoTo, files, LeavesPacked
<1>r. ASSUME Return(p), UNCHANGED <<packed, stamp>>,
             \/ cache'[p] \in {cache[p], NoCache}
             \/ cache'[p] = [key |-> rd[p].key, entries |-> packed]
      PROVE  LeavesPacked(p)
  BY <1>r DEF Return
<1>t. Throw(p) => LeavesPacked(p) BY <1>r DEF Throw
<1>e. ASSUME EndRun(p), UNCHANGED <<packed, stamp, cache>> PROVE LeavesPacked(p) BY <1>e, <1>r DEF EndRun
<1>l. ASSUME NEW e, PackedLoaded(p, e), UNCHANGED <<packed, stamp>>,
             \/ cache'[p] = cache[p]
             \/ cache'[p] = [key |-> rd[p].key, entries |-> packed]
      PROVE  LeavesPacked(p)
  BY <1>l, <1>r DEF PackedLoaded, Resolved
<1>1. CASE Begin(p) BY <1>1 DEF Begin
<1>2. CASE BeginRead(p) BY <1>2 DEF BeginRead
<1>3. CASE BeginPack(p) BY <1>3 DEF BeginPack
<1>4. CASE CheckNext(p) BY <1>4 DEF CheckNext
<1>5. CASE ReadLoose(p) BY <1>5, <1>r DEF ReadLoose, Resolved
<1>6. CASE StatPacked(p) BY <1>6, <1>l DEF StatPacked
<1>7. CASE LoadPacked(p) BY <1>7, <1>l DEF LoadPacked
<1>8. CASE StartRun(p) BY <1>8 DEF StartRun
<1>9. CASE LockForSet(p) BY <1>9, <1>t DEF LockForSet, AskPacked
<1>10. CASE RenameLoose(p) BY <1>10, <1>e DEF RenameLoose
<1>11. CASE StartDelete(p) BY <1>11 DEF StartDelete
<1>12. CASE LockForDelete(p) BY <1>12, <1>t DEF LockForDelete
<1>13. CASE LockPacked(p) BY <1>13, <1>t DEF LockPacked, AskPacked
<1>14. CASE DropPacked(p) BY <1>14 DEF DropPacked, ShortensPacked, Restamp
<1>15. CASE Reseed(p) BY <1>15 DEF Reseed
<1>16. CASE UnlinkLoose(p) BY <1>16, <1>t DEF UnlinkLoose
<1>17. CASE EndDelete(p) BY <1>17, <1>e DEF EndDelete
<1>18. CASE Fail(p) BY <1>18, <1>t DEF Fail
<1>19. CASE ListLoose(p) BY <1>19 DEF ListLoose, AskPacked
<1>20. CASE FindDuplicates(p) BY <1>20 DEF FindDuplicates
<1>21. CASE TruncatePacked(p) BY <1>21 DEF TruncatePacked, ShortensPacked, Restamp
<1>22. CASE WritePacked(p) BY <1>22 DEF WritePacked, WritesPacked, Restamp
<1>23. CASE PruneLoose(p) BY <1>23, <1>t DEF PruneLoose
<1>24. CASE EndPack(p) BY <1>24, <1>r DEF EndPack
<1>25. CASE Crash(p) BY <1>25, <1>r DEF Crash
<1> QED
  BY <1>1, <1>2, <1>3, <1>4, <1>5, <1>6, <1>7, <1>8, <1>9, <1>10, <1>11, <1>12, <1>13, <1>14, <1>15, <1>16, <1>17, <1>18, <1>19, <1>20, <1>21, <1>22, <1>23, <1>24, <1>25
  DEF Step, Resolve, Transact, Pack

(* A delete works on packed-refs as it is, from its read to its reseeding. *)
LEMMA SnapStep ==
  ASSUME TypeOK, NEW p \in Procs, MemoryAt(p), Step(p), pc'[p] \in {"drop", "reseed"}
  PROVE  snap'[p] = packed'
<1>0. CallOK /\ FilesOK BY TypeParts
<1> USE <1>0 DEF CallOK, FilesOK, MemoryAt, GoTo, files, work
<1>r. ~Return(p) BY DEF Return
<1>t. ~Throw(p) BY <1>r DEF Throw
<1>e. ~EndRun(p) BY <1>r DEF EndRun
<1>l. ASSUME PackedLoaded(p, packed), UNCHANGED packed PROVE snap'[p] = packed'
  BY <1>l, <1>r DEF PackedLoaded, Resolved, KeepForDelete, KeepForPack
<1>1. CASE Begin(p) BY <1>1 DEF Begin
<1>2. CASE BeginRead(p) BY <1>2 DEF BeginRead
<1>3. CASE BeginPack(p) BY <1>3 DEF BeginPack
<1>4. CASE CheckNext(p) BY <1>4 DEF CheckNext
<1>5. CASE ReadLoose(p) BY <1>5, <1>r DEF ReadLoose, Resolved
<1>6. CASE StatPacked(p) BY <1>6, <1>l DEF StatPacked
<1>7. CASE LoadPacked(p) BY <1>7, <1>l DEF LoadPacked
<1>8. CASE StartRun(p) BY <1>8 DEF StartRun
<1>9. CASE LockForSet(p) BY <1>9, <1>t DEF LockForSet
<1>10. CASE RenameLoose(p) BY <1>10, <1>e DEF RenameLoose
<1>11. CASE StartDelete(p) BY <1>11 DEF StartDelete
<1>12. CASE LockForDelete(p) BY <1>12, <1>t DEF LockForDelete
<1>13. CASE LockPacked(p) BY <1>13, <1>t DEF LockPacked
<1>14. CASE DropPacked(p) BY <1>14 DEF DropPacked
<1>15. CASE Reseed(p) BY <1>15 DEF Reseed
<1>16. CASE UnlinkLoose(p) BY <1>16, <1>t DEF UnlinkLoose
<1>17. CASE EndDelete(p) BY <1>17, <1>e DEF EndDelete
<1>18. CASE Fail(p) BY <1>18, <1>t DEF Fail
<1>19. CASE ListLoose(p) BY <1>19 DEF ListLoose
<1>20. CASE FindDuplicates(p) BY <1>20 DEF FindDuplicates
<1>21. CASE TruncatePacked(p) BY <1>21 DEF TruncatePacked
<1>22. CASE WritePacked(p) BY <1>22 DEF WritePacked
<1>23. CASE PruneLoose(p) BY <1>23, <1>t DEF PruneLoose
<1>24. CASE EndPack(p) BY <1>24, <1>r DEF EndPack
<1>25. CASE Crash(p) BY <1>25, <1>r DEF Crash
<1> QED
  BY <1>1, <1>2, <1>3, <1>4, <1>5, <1>6, <1>7, <1>8, <1>9, <1>10, <1>11, <1>12, <1>13, <1>14, <1>15, <1>16, <1>17, <1>18, <1>19, <1>20, <1>21, <1>22, <1>23, <1>24, <1>25
  DEF Step, Resolve, Transact, Pack

(* What a process remembers of packed-refs stays good while at most one *)
(* process rewrites it. *)
LEMMA MemoryStep ==
  ASSUME StoreIndInv, Roles, LoneRewriter, Memory, [Next]_vars
  PROVE  Memory'
<1>0. TypeOK /\ TypeOK' /\ CallOK /\ FilesOK /\ MenuOK /\ menu' = menu
  BY StoreStep, TypeParts DEF StoreIndInv, Next, vars
<1> SUFFICES ASSUME ~PacksBeside, NEW q \in Procs PROVE MemoryAt(q)' BY <1>0 DEF Memory, PacksBeside
<1>a. MemoryAt(q) /\ \A p \in Procs : MemoryAt(p) /\ RoleAt(p) BY DEF Memory, Roles
<1>t. /\ stamp \in Nat /\ Lines \in Nat /\ Lines' \in Nat
      /\ cache[q].key \in Keys /\ rd[q].key \in Keys
  BY <1>0, LinesType DEF CallOK, FilesOK, RdType, CacheType, Lines
<1>k. Key = [at |-> stamp, size |-> Lines] /\ Key' = [at |-> stamp', size |-> Lines'] BY DEF Key, Lines
<1>n. NoCache.key = NoKey /\ NotReading.key = NoKey /\ NoKey.at = -1 BY DEF NoCache, NoKey, NotReading
<1>1. CASE UNCHANGED vars BY <1>a, <1>1 DEF vars, files, locals, MemoryAt, NotLater, Lines, Key
<1>2. ASSUME NEW p \in Procs, Step(p) PROVE MemoryAt(q)'
  <2>o. p # q => SameCall(q) BY <1>0, <1>2, OthersAlone
  <2>s. pc'[q] \in {"drop", "reseed"} /\ p = q => snap'[q] = packed' BY <1>0, <1>2, <1>a, SnapStep
  <2>1. CASE LeavesPacked(p)
    <3>1. Lines' = Lines /\ Key' = Key /\ stamp' = stamp /\ packed' = packed
      BY <2>1 DEF LeavesPacked, Lines, Key
    <3>2. CASE p # q BY <1>a, <2>o, <3>1, <3>2 DEF SameCall, MemoryAt, NotLater
    <3>3. CASE p = q
      <4>1. NotLater(Key) /\ NotLater(NoKey) /\ NoKey # Key BY <1>k, <1>t, <1>n DEF NotLater
      <4>2. NotLater(rd'[q].key) BY <2>1, <3>3, <1>a, <4>1 DEF LeavesPacked, MemoryAt
      <4>3. NotLater(cache'[q].key) /\ (cache'[q].key = Key => cache'[q].entries = packed)
        <5>1. CASE cache'[q] = cache[q] \/ cache'[q] = NoCache BY <5>1, <1>a, <1>n, <4>1 DEF MemoryAt
        <5>2. CASE cache'[q] = [key |-> rd[q].key, entries |-> packed] BY <5>2, <1>a DEF MemoryAt
        <5>3. CASE pc[q] = "reseed" /\ cache'[q] = [key |-> Key, entries |-> snap[q]]
          BY <5>3, <1>a, <4>1 DEF MemoryAt
        <5> QED BY <2>1, <3>3, <5>1, <5>2, <5>3 DEF LeavesPacked
      <4> QED BY <3>1, <3>3, <4>2, <4>3, <2>s DEF MemoryAt, NotLater
    <3> QED BY <3>2, <3>3
  <2>2. CASE ShortensPacked(p)
    <3>1. \A r \in Refs : packed'[r] \in {packed[r], None}
      <4>1. CASE pc[p] = "drop" BY <4>1, <2>2, <1>a DEF ShortensPacked, MemoryAt, Without
      <4>2. CASE pc[p] = "truncate" BY <4>2, <2>2 DEF ShortensPacked, NoEntries
      <4> QED BY <4>1, <4>2, <2>2 DEF ShortensPacked
    <3>2. Lines' <= Lines /\ (Lines' = Lines => packed' = packed) BY <1>0, <3>1, Shorter
    <3>3. stamp' \in {stamp, stamp + 1} /\ rd' = rd /\ cache' = cache BY <2>2 DEF ShortensPacked
    <3>4. ASSUME NEW k \in Keys, NotLater(k) PROVE NotLater(k)' /\ (k = Key' => k = Key /\ packed' = packed)
      <4>1. k.at \in Int /\ k.size \in Nat BY DEF Keys
      <4>2. CASE stamp' = stamp + 1 BY <3>4, <4>1, <4>2, <1>t, <1>k DEF NotLater
      <4>3. CASE stamp' = stamp
        <5>1. k.at < stamp \/ (k.at = stamp /\ k.size >= Lines) BY <3>4 DEF NotLater
        <5>2. NotLater(k)' BY <5>1, <4>1, <4>3, <3>2, <1>t DEF NotLater
        <5>3. ASSUME k = Key' PROVE k = Key /\ packed' = packed
          <6>1. k.at = stamp /\ k.size = Lines' BY <5>3, <1>k, <4>3
          <6>2. Lines' = Lines BY <6>1, <5>1, <3>2, <1>t
          <6> QED BY <5>3, <6>2, <3>2, <1>k, <4>3
        <5> QED BY <5>2, <5>3
      <4> QED BY <3>3, <4>2, <4>3
    <3>5. ASSUME p # q, pc'[q] \in {"drop", "reseed"} PROVE FALSE
      <4>1. pc[q] \in {"drop", "reseed"} BY <3>5, <2>o DEF SameCall
      <4>2. MayRewrite(q) /\ MayRewrite(p)
        BY <4>1, <1>a, <2>2 DEF RoleAt, ShortensPacked, Deleting, Packing, Packs, MayRewrite
      <4> QED BY <4>2, <3>5 DEF LoneRewriter
    <3> QED BY <1>a, <1>t, <3>3, <3>4, <3>5, <2>s DEF MemoryAt
  <2>3. CASE WritesPacked(p)
    <3>1. Packs(p) /\ pc[p] = "write" /\ rd[p] = NotReading BY <2>3, <1>a DEF WritesPacked, RoleAt, Packing
    <3>2. p # q => menu.ops[q] = {} BY <3>1 DEF PacksBeside, Packs
    <3>3. rd'[q] = NotReading /\ cache'[q] = NoCache
      BY <3>1, <3>2, <1>a, <2>o, <2>3 DEF RoleAt, SameCall, WritesPacked
    <3>4. pc'[q] \in {"drop", "reseed"} => p = q BY <3>2, <1>a, <2>o DEF RoleAt, SameCall
    <3>5. stamp' \in Nat BY <1>0 DEF TypeOK
    <3>6. NotLater(NoKey)' /\ NoKey # Key' BY <3>5, <1>n, <1>k DEF NotLater
    <3> QED BY <3>3, <3>4, <3>6, <2>s, <1>n DEF MemoryAt
  <2> QED BY <1>0, <1>2, PackedSteps, <2>1, <2>2, <2>3
<1> QED BY <1>1, <1>2 DEF Next

(* The inductive invariant of the cache. *)
CacheInv == StoreIndInv /\ Roles /\ LoneRewriter /\ Memory

(* No process starts with a memo. *)
LEMMA CacheInit == Init /\ LoneRewriter => CacheInv
<1> SUFFICES ASSUME Init, LoneRewriter PROVE CacheInv OBVIOUS
<1>1. StoreIndInv BY StoreInit
<1>2. Roles BY DEF Init, Roles, RoleAt, Packing, Deleting
<1>3. NotLater(NoKey) /\ NoKey # Key BY DEF Init, NotLater, NoKey, Key
<1>4. ASSUME NEW p \in Procs PROVE MemoryAt(p) BY <1>3 DEF Init, MemoryAt, NoCache, NotReading
<1> QED BY <1>1, <1>2, <1>4 DEF CacheInv, Memory

(* Every step keeps the memos of packed-refs faithful to the file they are *)
(* keyed by. *)
LEMMA CacheStep == CacheInv /\ [Next]_vars => CacheInv'
<1> SUFFICES ASSUME CacheInv, [Next]_vars PROVE CacheInv' OBVIOUS
<1>1. menu' = menu BY DEF Next, vars
<1>2. LoneRewriter' BY <1>1 DEF CacheInv, LoneRewriter, PacksBeside, MayRewrite
<1>3. Roles' /\ Memory' /\ StoreIndInv' BY RoleStep, MemoryStep, StoreStep DEF CacheInv, StoreIndInv
<1> QED BY <1>2, <1>3 DEF CacheInv

(* loadPackedRefs may trust its cache: whoever created, renamed, truncated and *)
(* reseeded packed-refs, and though two rewrites may get one mtime, a cached *)
(* copy under the key of the file in place is that file - provided that beside *)
(* others a single process deletes or packs. *)
THEOREM CacheTrusted == Spec /\ LoneRewriter => []CacheFaithful
<1>1. CacheInv => CacheFaithful BY DEF CacheInv, Memory, MemoryAt, CacheFaithful
<1> QED BY <1>1, CacheInit, CacheStep, PTL DEF Spec

(* "Rewrites packed-refs without names", ref-store.ts says of a delete.  It is *)
(* true under the same proviso: the rewrite drops its own names and changes no *)
(* other line. *)
RewritesWithoutNames ==
  ~PacksBeside =>
    \A p \in Procs : pc[p] = "drop" /\ pc'[p] = "reseed" => packed' = Without(packed, Names(run[p]))

(* When at most one process may rewrite packed-refs, a transaction that *)
(* deletes writes the file as it is on disk without the names it deletes: *)
(* nobody else's ref is lost with them. *)
THEOREM DropsOnlyItsNames == Spec /\ LoneRewriter => [][RewritesWithoutNames]_vars
<1>1. CacheInv /\ [Next]_vars => [RewritesWithoutNames]_vars
  <2> SUFFICES ASSUME CacheInv, Next, ~PacksBeside, NEW p \in Procs,
                      pc[p] = "drop", pc'[p] = "reseed"
               PROVE  packed' = Without(packed, Names(run[p]))
    BY DEF RewritesWithoutNames
  <2>0. TypeOK /\ CallOK /\ FilesOK /\ snap[p] = packed
    BY TypeParts DEF CacheInv, StoreIndInv, Memory, MemoryAt
  <2>1. PICK q \in Procs : Step(q) BY DEF Next
  <2>2. q = p BY <2>0, <2>1, OthersAlone DEF SameCall
  <2>3. ShortensPacked(p) \/ LeavesPacked(p) BY <2>0, <2>1, <2>2, PackedSteps DEF WritesPacked
  <2> QED BY <2>0, <2>3 DEF ShortensPacked, LeavesPacked
<1> QED BY <1>1, CacheInit, CacheStep, PTL DEF Spec

------------------------------
(* Reads.  What a read may still answer - the ref's value, or its line of *)
(* packed-refs once its loose file was found absent - is a value the ref had *)
(* since the read began. *)
ReadAt(p) ==
  pc[p] = "read" =>
    /\ rd[p].name \in Refs
    /\ Possible(rd[p].name) \subseteq seen[p]
    /\ rd[p].at # "loose" => packed[rd[p].name] \in seen[p]

Reads == \A p \in Procs : ReadAt(p)

(* At most one process rewrites packed-refs: nobody packs beside others. *)
OneRewriter == LoneRewriter /\ ~PacksBeside

(* A read is begun by BeginRead and goes on by resolveDirect's steps. *)
LEMMA ReadSteps ==
  ASSUME TypeOK, NEW p \in Procs, Step(p)
  PROVE  /\ pc[p] = "read" => ReadLoose(p) \/ StatPacked(p) \/ LoadPacked(p)
         /\ pc[p] # "read" /\ pc'[p] = "read" => BeginRead(p)
<1>0. pc \in [Procs -> Pcs] BY DEF TypeOK
<1>1. pc[p] = "read" => ReadLoose(p) \/ StatPacked(p) \/ LoadPacked(p)
  BY DEF Step, Resolve, Transact, Pack, Begin, BeginRead, BeginPack, CheckNext, StartRun, LockForSet,
    RenameLoose, StartDelete, LockForDelete, LockPacked, DropPacked, Reseed, UnlinkLoose, EndDelete, Fail,
    ListLoose, FindDuplicates, TruncatePacked, WritePacked, PruneLoose, EndPack, Crash, Checks
<1>2. ASSUME pc[p] # "read", pc'[p] = "read" PROVE BeginRead(p)
  <2>1. ~Return(p) /\ ~Throw(p) /\ pc' # pc /\ ~EndRun(p) BY <1>0, <1>2 DEF Return, Throw, EndRun, GoTo
  <2> USE <1>0, <1>2, <2>1 DEF GoTo
  <2>2. ~Begin(p) /\ ~BeginPack(p) /\ ~Resolve(p) /\ ~Crash(p)
    BY DEF Begin, BeginPack, Resolve, CheckNext, ReadLoose, StatPacked, LoadPacked, PackedLoaded,
      KeepForDelete, KeepForPack, Resolved, Crash
  <2>3. ~Transact(p)
    BY DEF Transact, StartRun, LockForSet, RenameLoose, StartDelete, LockForDelete, LockPacked,
      DropPacked, Reseed, UnlinkLoose, EndDelete, Fail
  <2>4. ~Pack(p) BY DEF Pack, ListLoose, FindDuplicates, TruncatePacked, WritePacked, PruneLoose, EndPack
  <2> QED BY <2>2, <2>3, <2>4 DEF Step
<1> QED BY <1>1, <1>2

(* No step takes from a read what it may answer. *)
LEMMA ReadStep ==
  ASSUME CacheInv, ~PacksBeside, Reads, [Next]_vars
  PROVE  Reads'
<1> SUFFICES ASSUME NEW q \in Procs, pc'[q] = "read" PROVE ReadAt(q)' BY DEF Reads, ReadAt
<1>0. /\ TypeOK /\ CallOK /\ FilesOK /\ MenuOK /\ ReadAt(q)
      /\ \A p \in Procs : RoleAt(p) /\ MemoryAt(p)
  BY TypeParts DEF CacheInv, StoreIndInv, Reads, Roles, Memory
<1>1. CASE UNCHANGED vars BY <1>0, <1>1 DEF vars, files, locals, ReadAt, Possible, Value, BeingDeleted
<1>2. CASE Next
  <2>1. PICK p \in Procs : Step(p) BY <1>2 DEF Next
  <2>2. seen'[q] = (IF pc[q] = "read" THEN seen[q] ELSE {}) \cup Possible(rd[q].name)'
    BY <1>2 DEF Next, Observe
  <2>3. p # q => SameCall(q) BY <1>0, <2>1, OthersAlone
  <2>4. CASE pc[q] # "read"
    <3>1. BeginRead(q) BY <1>0, <2>1, <2>3, <2>4, ReadSteps DEF SameCall
    <3>2. \A op \in menu.ops[q] : op.kind = "read" => op.name \in Refs
      BY <1>0, RefStoreAssumption DEF MenuOK, Menu, IsOp
    <3>3. rd[q] = NotReading BY <1>0, <3>1 DEF BeginRead, RoleAt
    <3>4. rd'[q].at = "loose" /\ rd'[q].name \in Refs
      BY <1>0, <3>1, <3>2, <3>3 DEF BeginRead, NotReading, CallOK
    <3> QED BY <2>2, <3>4 DEF ReadAt
  <2>5. CASE pc[q] = "read"
    <3> DEFINE r == rd[q].name
    <3>1. r \in Refs /\ Possible(r) \subseteq seen[q] /\ (rd[q].at # "loose" => packed[r] \in seen[q])
      BY <1>0, <2>5 DEF ReadAt
    <3>2. rd'[q].name = r /\ (rd'[q].at # "loose" => packed'[r] \in seen'[q])
      <4>1. CASE p = q
        <5>1. ~Return(q) BY <1>0 DEF Return, CallOK
        <5>2. /\ rd'[q].name = r /\ packed' = packed
              /\ rd[q].at = "loose" => loose[r] = None
          <6>1. ReadLoose(q) \/ StatPacked(q) \/ LoadPacked(q) BY <1>0, <2>1, <2>5, <4>1, ReadSteps
          <6>2. \A v : ~Resolved(q, v) BY <2>5, <5>1 DEF Resolved
          <6>3. \A e : ~PackedLoaded(q, e) BY <2>5, <6>2 DEF PackedLoaded
          <6> QED BY <1>0, <6>1, <6>2, <6>3 DEF ReadLoose, StatPacked, LoadPacked, CallOK, RdType, files
        <5>3. loose[r] = None => packed[r] \in Possible(r) BY DEF Possible, Value
        <5> QED BY <2>2, <2>5, <3>1, <5>2, <5>3
      <4>2. CASE p # q
        <5>1. rd'[q] = rd[q] BY <2>3, <4>2 DEF SameCall
        <5>2. ~Packs(p) BY <1>0, <2>5, <4>2 DEF RoleAt, PacksBeside, Packs
        <5>3. packed'[r] \in {packed[r]} \cup Possible(r)
          <6>1. CASE LeavesPacked(p) BY <6>1 DEF LeavesPacked
          <6>2. CASE ~LeavesPacked(p)
            <7>1. /\ pc[p] = "drop" /\ packed' = Without(snap[p], Names(run[p]))
                  /\ snap[p] = packed
              BY <1>0, <2>1, <5>2, <6>2, PackedSteps
              DEF ShortensPacked, WritesPacked, RoleAt, Packing, MemoryAt
            <7>2. r \in Names(run[p]) => None \in Possible(r) BY <7>1 DEF Possible, BeingDeleted
            <7> QED BY <3>1, <7>1, <7>2 DEF Without
          <6> QED BY <6>1, <6>2
        <5> QED BY <2>2, <2>5, <3>1, <5>1, <5>3
      <4> QED BY <4>1, <4>2
    <3> QED BY <2>2, <3>1, <3>2 DEF ReadAt
  <2> QED BY <2>4, <2>5
<1> QED BY <1>1, <1>2

(* resolveDirect asks for the loose file, then for packed-refs, from its cache *)
(* where it trusts it.  Between the two anybody may set, delete or rewrite. *)
(* With one process that rewrites packed-refs, each answer is a value the ref *)
(* had during the read, or `missing` while a delete of it was under way. *)
THEOREM ReadsAnswer == Spec /\ OneRewriter => ReadsRegular
<1> DEFINE Good == CacheInv /\ ~PacksBeside /\ Reads
<1>1. Init /\ OneRewriter => Good BY CacheInit DEF OneRewriter, Init, Reads, ReadAt
<1>2. Good /\ [Next]_vars => Good'
  <2>1. [Next]_vars => menu' = menu BY DEF Next, vars
  <2> QED BY <2>1, CacheStep, ReadStep DEF PacksBeside
<1>3. Good /\ [Next]_vars =>
        [\A p \in Procs : pc[p] = "read" /\ pc'[p] = "idle" => Answer(p) \in seen[p]]_vars
  <2> SUFFICES ASSUME Good, Next, NEW p \in Procs, pc[p] = "read", pc'[p] = "idle"
               PROVE  Answer(p) \in seen[p]
    OBVIOUS
  <2>0. TypeOK /\ CallOK /\ FilesOK /\ ReadAt(p) /\ (cache[p].key = Key => cache[p].entries = packed)
    BY TypeParts DEF CacheInv, StoreIndInv, Reads, Memory, MemoryAt
  <2>1. PICK q \in Procs : Step(q) BY DEF Next
  <2>2. Step(p) BY <2>0, <2>1, OthersAlone DEF SameCall
  <2> DEFINE r == rd[p].name
  <2>3. /\ r \in Refs /\ Value(r) \in seen[p]
        /\ rd[p].at # "loose" => packed[r] \in seen[p]
    BY <2>0 DEF ReadAt, Possible
  <2>4. CASE ReadLoose(p) BY <2>0, <2>3, <2>4 DEF ReadLoose, Answer, Value, CallOK, plan
  <2>5. CASE StatPacked(p) BY <2>0, <2>3, <2>5 DEF StatPacked, Answer, CallOK
  <2>6. CASE LoadPacked(p) BY <2>0, <2>3, <2>6 DEF LoadPacked, Answer
  <2> QED BY <2>0, <2>2, <2>4, <2>5, <2>6, ReadSteps
<1> QED BY <1>1, <1>2, <1>3, PTL DEF Spec, ReadsRegular

------------------------------
(* The refinement of RefMap. *)

Pairs(U) == {<<u.name, u.val>> : u \in U}

(* No transaction asks for one write of one ref in two of its runs. *)
AsksOnce ==
  \A p \in Procs : \A op \in menu.ops[p] : op.kind = "update" =>
    \A i, j \in 1..Len(op.runs) : i # j => Pairs(op.runs[i]) \cap Pairs(op.runs[j]) = {}

(* No process dies where one packs: between the truncation of packed-refs and *)
(* its writing the names packed before are in the memory of packRefs only. *)
PacksSurvive == \A p \in Procs : Packs(p) => ~menu.crashes

(* The runs of the transaction under way ask for different writes. *)
RunsOK(p) ==
  /\ run[p] = {} \/ IsRun(run[p])
  /\ \A i \in 1..Len(todo[p]) : IsRun(todo[p][i]) /\ Pairs(run[p]) \cap Pairs(todo[p][i]) = {}
  /\ \A i, j \in 1..Len(todo[p]) : i # j => Pairs(todo[p][i]) \cap Pairs(todo[p][j]) = {}

(* What the files are to a process where it is: a delete's loose files are *)
(* there until it unlinks them, and their lines are gone by then; packRefs has *)
(* the map in its memory before it writes, and every loose file it leaves or *)
(* removes says what the line it wrote says. *)
FilesAt(p) ==
  /\ pc[p] \in {"idle", "read"} \cup Packing => run[p] = {} /\ todo[p] = <<>>
  /\ pc[p] = "prepare" => run[p] = {}
  /\ pc[p] \in {"blockers", "rename"} => \E u \in run[p] : u.val # None
  /\ pc[p] \in Deleting => \A u \in run[p] : u.val = None
  /\ pc[p] = "drop" => \A r \in dups[p] : loose[r] # None
  /\ pc[p] \in {"reseed", "unlink"} => \A u \in run[p] : packed[u.name] = None
  /\ pc[p] = "listPacked" => snap[p] = loose
  /\ pc[p] \in {"duplicates", "truncate"} => \A r \in Refs : snap[p][r] = Value(r)
  /\ pc[p] = "write" => \A r \in Refs : loose[r] # None => snap[p][r] = loose[r]
  /\ pc[p] = "prune" => \A r \in Refs : loose[r] # None => packed[r] = loose[r]

MapInv == ~PacksBeside => \A p \in Procs : RunsOK(p) /\ FilesAt(p)

(* How a step changes the runs still to make. *)
LEMMA RunSteps ==
  ASSUME TypeOK, NEW p \in Procs, Step(p)
  PROVE  Begin(p) \/ StartRun(p) \/ (run'[p] \subseteq run[p] /\ todo'[p] \in {todo[p], <<>>})
<1> DEFINE Shrinks == run'[p] \subseteq run[p] /\ todo'[p] \in {todo[p], <<>>}
<1> USE DEF GoTo, plan, CallOK
<1>0. CallOK BY TypeParts
<1>1. Return(p) => Shrinks BY <1>0 DEF Return
<1>2. Throw(p) => Shrinks BY <1>1 DEF Throw
<1>3. EndRun(p) => Shrinks BY <1>0, <1>1 DEF EndRun
<1>4. CASE BeginRead(p) \/ BeginPack(p) \/ Resolve(p) \/ Crash(p)
  BY <1>0, <1>1, <1>4 DEF BeginRead, BeginPack, Resolve, CheckNext, ReadLoose, StatPacked, LoadPacked,
    PackedLoaded, KeepForDelete, KeepForPack, Resolved, Crash
<1>5. CASE Transact(p) /\ ~StartRun(p)
  BY <1>0, <1>2, <1>3, <1>5 DEF Transact, LockForSet, RenameLoose, StartDelete, LockForDelete,
    LockPacked, DropPacked, Reseed, UnlinkLoose, EndDelete, Fail
<1>6. CASE Pack(p)
  BY <1>0, <1>1, <1>2, <1>6 DEF Pack, ListLoose, FindDuplicates, TruncatePacked, WritePacked, PruneLoose, EndPack
<1> QED BY <1>4, <1>5, <1>6 DEF Step

(* The runs keep asking for different writes, and no step but Begin asks for *)
(* one more. *)
LEMMA RunsStep ==
  ASSUME TypeOK, MenuOK, Phases, AsksOnce, NEW p \in Procs, RunsOK(p), FilesAt(p), Step(p)
  PROVE  RunsOK(p)' /\ (Begin(p) \/ Asked(p)' \subseteq Asked(p))
<1>0. CallOK BY TypeParts
<1>1. CASE run'[p] \subseteq run[p] /\ todo'[p] \in {todo[p], <<>>}
  <2>1. run'[p] = {} \/ IsRun(run'[p]) BY <1>1 DEF RunsOK, IsRun
  <2>2. Pairs(run'[p]) \subseteq Pairs(run[p]) BY <1>1 DEF Pairs
  <2>3. CASE todo'[p] = todo[p] BY <1>1, <2>1, <2>2, <2>3 DEF RunsOK, Asked, Open
  <2>4. CASE todo'[p] = <<>>
    <3>1. Len(todo'[p]) = 0 BY <2>4
    <3> QED BY <1>1, <2>1, <3>1 DEF RunsOK, Asked, Open
  <2> QED BY <1>1, <2>3, <2>4
<1>2. CASE StartRun(p)
  <2> DEFINE t == todo[p]
             h == run'[p]
             rest == todo'[p]
  <2>1. t # <<>> /\ t \in Seq(SUBSET Update) BY <1>0, <1>2 DEF CallOK, StartRun, Phases, PhaseAt
  <2>2. h = Head(t) /\ rest = Tail(t) BY <1>0, <1>2 DEF CallOK, StartRun
  <2>3. /\ 1 \in 1..Len(t) /\ h = t[1]
        /\ \A i \in 1..Len(rest) : i + 1 \in 1..Len(t) /\ rest[i] = t[i + 1]
    BY <2>1, <2>2
  <2>4. \A i, j \in 1..Len(rest) : i # j => i + 1 # j + 1 /\ i + 1 # 1 BY <2>1, <2>2
  <2>5. \A i \in 1..Len(rest) : i + 1 # 1 BY <2>1, <2>2
  <2> HIDE DEF t, h, rest
  <2>6. RunsOK(p)'
    <3>1. IsRun(t[1]) /\ \A i \in 1..Len(rest) : IsRun(t[i + 1]) /\ Pairs(t[1]) \cap Pairs(t[i + 1]) = {}
      BY <2>3, <2>5 DEF RunsOK, t
    <3>2. \A i, j \in 1..Len(rest) : i # j => Pairs(t[i + 1]) \cap Pairs(t[j + 1]) = {}
      BY <2>3, <2>4 DEF RunsOK, t
    <3> QED BY <2>3, <3>1, <3>2 DEF RunsOK, h, rest
  <2>7. Asked(p)' \subseteq Asked(p)
    <3>1. UNION {rest[i] : i \in 1..Len(rest)} \subseteq UNION {t[i] : i \in 1..Len(t)}
      <4>1. ASSUME NEW u, NEW i \in 1..Len(rest), u \in rest[i] PROVE \E j \in 1..Len(t) : u \in t[j] BY <2>3, <4>1
      <4> QED BY <4>1
    <3>2. h \subseteq UNION {t[i] : i \in 1..Len(t)} BY <2>3
    <3>3. Open(p)' \subseteq Open(p)
      <4>1. Open(p)' = h \cup UNION {rest[i] : i \in 1..Len(rest)} BY DEF Open, h, rest
      <4>2. UNION {t[i] : i \in 1..Len(t)} \subseteq Open(p) BY DEF Open, t
      <4> QED BY <3>1, <3>2, <4>1, <4>2
    <3> QED BY <3>3 DEF Asked
  <2> QED BY <2>6, <2>7
<1>3. CASE Begin(p)
  <2>1. PICK op \in menu.ops[p] :
          op.kind = "update" /\ todo' = [todo EXCEPT ![p] = op.runs] /\ run' = run /\ pc[p] = "idle"
    BY <1>3 DEF Begin
  <2>2. /\ \A i \in 1..Len(op.runs) : IsRun(op.runs[i])
        /\ \A i, j \in 1..Len(op.runs) : i # j => Pairs(op.runs[i]) \cap Pairs(op.runs[j]) = {}
    BY <2>1, RefStoreAssumption DEF MenuOK, Menu, IsOp, Transaction, AsksOnce
  <2>3. todo'[p] = op.runs /\ run'[p] = {} BY <1>0, <2>1 DEF CallOK, FilesAt
  <2>4. Pairs(run'[p]) = {} BY <2>3 DEF Pairs
  <2> QED BY <1>3, <2>2, <2>3, <2>4 DEF RunsOK
<1> QED BY <1>1, <1>2, <1>3, RunSteps

(* A process with nothing to call does nothing, and the steps that touch the *)
(* files of refs are these. *)
LEMMA FileSteps ==
  ASSUME TypeOK, NEW p \in Procs, RoleAt(p), Step(p)
  PROVE  /\ menu.ops[p] # {}
         /\ \/ UNCHANGED <<loose, packed>>
            \/ RenameLoose(p) \/ UnlinkLoose(p) \/ PruneLoose(p)
            \/ DropPacked(p) \/ TruncatePacked(p) \/ WritePacked(p)
         /\ pc[p] = "write" => WritePacked(p) \/ Crash(p)
         /\ pc[p] = "truncate" => TruncatePacked(p) \/ Crash(p)
         /\ pc[p] # "write" /\ pc'[p] = "write" => TruncatePacked(p)
<1>0. CallOK BY TypeParts
<1> USE DEF GoTo, files
<1>n. rd[p] = NotReading => ~ReadLoose(p) /\ ~StatPacked(p) /\ ~LoadPacked(p)
  BY DEF NotReading, ReadLoose, StatPacked, LoadPacked
<1>i. pc[p] \in {"idle", "truncate", "write"} => rd[p] = NotReading BY DEF RoleAt
<1>1. menu.ops[p] # {}
  <2>1. CASE pc[p] # "idle" BY <2>1 DEF RoleAt
  <2>2. CASE pc[p] = "idle"
    BY <1>n, <1>i, <2>2 DEF Step, Resolve, Transact, Pack, Begin, BeginRead, BeginPack, CheckNext, StartRun,
      LockForSet, RenameLoose, StartDelete, LockForDelete, LockPacked, DropPacked, Reseed, UnlinkLoose, EndDelete,
      Fail, ListLoose, FindDuplicates, TruncatePacked, WritePacked, PruneLoose, EndPack, Crash, Checks
  <2> QED BY <2>1, <2>2
<1>2. \/ UNCHANGED <<loose, packed>> \/ RenameLoose(p) \/ UnlinkLoose(p) \/ PruneLoose(p)
      \/ DropPacked(p) \/ TruncatePacked(p) \/ WritePacked(p)
  BY DEF Step, Resolve, Transact, Pack, Begin, BeginRead, BeginPack, CheckNext, ReadLoose, Throw,
    StatPacked, LoadPacked, StartRun, LockForSet, StartDelete, LockForDelete, LockPacked,
    Reseed, EndDelete, Fail, ListLoose, FindDuplicates, EndPack, Crash
<1>3. /\ pc[p] = "write" => WritePacked(p) \/ Crash(p)
      /\ pc[p] = "truncate" => TruncatePacked(p) \/ Crash(p)
  BY <1>n, <1>i DEF Step, Resolve, Transact, Pack, Begin, BeginRead, BeginPack, CheckNext, StartRun, LockForSet,
    RenameLoose, StartDelete, LockForDelete, LockPacked, DropPacked, Reseed, UnlinkLoose, EndDelete, Fail,
    ListLoose, FindDuplicates, TruncatePacked, WritePacked, PruneLoose, EndPack, Checks
<1>4. ASSUME pc[p] # "write", pc'[p] = "write" PROVE TruncatePacked(p)
  <2>1. ~Return(p) /\ ~Throw(p) /\ pc' # pc /\ ~EndRun(p) BY <1>0, <1>4 DEF Return, Throw, EndRun, CallOK
  <2> USE <1>0, <1>4, <2>1 DEF CallOK
  <2>2. ~Begin(p) /\ ~BeginRead(p) /\ ~BeginPack(p) /\ ~Resolve(p) /\ ~Crash(p)
    BY DEF Begin, BeginRead, BeginPack, Resolve, CheckNext, ReadLoose, StatPacked, LoadPacked, PackedLoaded,
      KeepForDelete, KeepForPack, Resolved, Crash
  <2>3. ~Transact(p)
    BY DEF Transact, StartRun, LockForSet, RenameLoose, StartDelete, LockForDelete, LockPacked,
      DropPacked, Reseed, UnlinkLoose, EndDelete, Fail
  <2>4. Pack(p) => TruncatePacked(p) BY DEF Pack, ListLoose, FindDuplicates, WritePacked, PruneLoose, EndPack
  <2> QED BY <2>2, <2>3, <2>4 DEF Step
<1> QED BY <1>1, <1>2, <1>3, <1>4

(* A process does to the files what its next step takes for granted. *)
LEMMA FilesStep ==
  ASSUME CacheInv, ~PacksBeside, NEW p \in Procs, RunsOK(p), FilesAt(p), Step(p)
  PROVE  FilesAt(p)'
<1>0. TypeOK /\ CallOK /\ FilesOK /\ RoleAt(p) /\ PhaseAt(p) /\ MemoryAt(p)
  BY TypeParts DEF CacheInv, StoreIndInv, Roles, Phases, Memory
<1> USE <1>0 DEF CallOK, FilesOK, FilesAt, GoTo, plan, locks, work, files, Packing, Deleting
<1>r. Return(p) => FilesAt(p)' BY DEF Return
<1>t. Throw(p) => FilesAt(p)' BY <1>r DEF Throw
<1>e. EndRun(p) => FilesAt(p)' BY <1>r DEF EndRun
<1>s. ASSUME NEW v, Resolved(p, v), UNCHANGED files PROVE FilesAt(p)'
  <2>1. CASE ~Return(p) BY <1>s, <2>1, <1>0 DEF Resolved, RoleAt, Value
  <2> QED BY <2>1, <1>r
<1>l. ASSUME PackedLoaded(p, packed), UNCHANGED files PROVE FilesAt(p)'
  <2>1. CASE \E v : Resolved(p, v) BY <1>l, <1>s, <2>1
  <2>2. CASE pc[p] = "load" /\ KeepForDelete(p, packed) /\ UNCHANGED plan BY <1>l, <2>2 DEF KeepForDelete
  <2>3. CASE pc[p] = "listPacked" /\ KeepForPack(p, packed) /\ UNCHANGED plan
    BY <1>l, <2>3 DEF KeepForPack, Value
  <2>4. CASE pc[p] = "blockers" /\ pc' = [pc EXCEPT ![p] = "rename"] /\ UNCHANGED plan BY <1>l, <2>4
  <2> QED BY <1>l, <2>1, <2>2, <2>3, <2>4 DEF PackedLoaded
<1>1. CASE Begin(p) BY <1>1 DEF Begin
<1>2. CASE BeginRead(p) \/ BeginPack(p) BY <1>2 DEF BeginRead, BeginPack
<1>3. CASE Crash(p) BY <1>3, <1>r DEF Crash
<1>4. CASE CheckNext(p) BY <1>4 DEF CheckNext
<1>5. CASE ReadLoose(p) BY <1>5, <1>s DEF ReadLoose, Value
<1>6. CASE StatPacked(p)
  <2>1. CASE cache[p].key = Key BY <1>6, <2>1, <1>l DEF StatPacked, MemoryAt
  <2> QED BY <1>6, <2>1 DEF StatPacked, Value
<1>7. CASE LoadPacked(p) BY <1>7, <1>l DEF LoadPacked
<1>8. CASE StartRun(p) BY <1>8 DEF StartRun
<1>9. CASE LockForSet(p) BY <1>9, <1>t DEF LockForSet
<1>10. CASE RenameLoose(p) \/ EndDelete(p) BY <1>10, <1>e DEF RenameLoose, EndDelete
<1>11. CASE StartDelete(p) BY <1>11 DEF StartDelete
<1>12. CASE LockForDelete(p) BY <1>12, <1>t DEF LockForDelete
<1>13. CASE LockPacked(p) BY <1>13, <1>t DEF LockPacked
<1>14. CASE DropPacked(p)
  <2>1. snap[p] = packed BY <1>14 DEF DropPacked, MemoryAt
  <2>2. \A u \in run[p] : u.name \in Refs /\ u.name \in Names(run[p]) BY DEF Update, Names
  <2> QED BY <1>14, <2>1, <2>2 DEF DropPacked, Without
<1>15. CASE Reseed(p) BY <1>15 DEF Reseed
<1>16. CASE UnlinkLoose(p) BY <1>16, <1>t DEF UnlinkLoose
<1>17. CASE Fail(p) BY <1>17, <1>t DEF Fail
<1>18. CASE ListLoose(p) BY <1>18 DEF ListLoose
<1>19. CASE FindDuplicates(p) BY <1>19 DEF FindDuplicates, Value
<1>20. CASE TruncatePacked(p) BY <1>20 DEF TruncatePacked, Value
<1>21. CASE WritePacked(p) BY <1>21 DEF WritePacked
<1>22. CASE PruneLoose(p) BY <1>22, <1>t DEF PruneLoose, Entries
<1>23. CASE EndPack(p) BY <1>23, <1>r DEF EndPack
<1> QED
  BY <1>1, <1>2, <1>3, <1>4, <1>5, <1>6, <1>7, <1>8, <1>9, <1>10, <1>11, <1>12, <1>13, <1>14, <1>15, <1>16, <1>17, <1>18, <1>19, <1>20, <1>21, <1>22, <1>23
  DEF Step, Resolve, Transact, Pack

(* A set that is under way sets. *)
LEMMA OneSet ==
  ASSUME NEW p \in Procs, RunsOK(p), FilesAt(p), pc[p] \in {"blockers", "rename"}, NEW u \in run[p]
  PROVE  run[p] = {u} /\ u.val # None
BY DEF RunsOK, FilesAt, IsRun

(* Beside a packer nobody does anything, and nobody deletes beside a deleter. *)
LEMMA Alone ==
  ASSUME CacheInv, ~PacksBeside, NEW p \in Procs, NEW q \in Procs, p # q, Step(p)
  PROVE  pc[q] \notin Packing /\ (MayRewrite(q) => ~MayRewrite(p))
<1>1. TypeOK /\ RoleAt(p) /\ RoleAt(q) BY DEF CacheInv, StoreIndInv, Roles
<1>2. menu.ops[p] # {} BY <1>1, FileSteps
<1> QED BY <1>1, <1>2 DEF CacheInv, LoneRewriter, RoleAt, PacksBeside, Packs

(* A step of one process takes from no other what it takes for granted. *)
LEMMA OthersFiles ==
  ASSUME CacheInv, ~PacksBeside, NEW p \in Procs, NEW q \in Procs, p # q, Step(p),
         RunsOK(p), FilesAt(p), FilesAt(q)
  PROVE  FilesAt(q)'
<1>1. TypeOK /\ FilesOK /\ RoleAt(p) /\ RoleAt(q) BY TypeParts DEF CacheInv, StoreIndInv, Roles
<1>2. SameCall(q) BY <1>1, OthersAlone
<1>3. pc[q] \notin Packing BY Alone
<1>4. CASE pc[q] \in {"drop", "reseed", "unlink"}
  <2>1. ~MayRewrite(p) BY <1>1, <1>4, Alone DEF RoleAt, Deleting
  <2>2. pc[p] \notin Packing \cup Deleting BY <1>1, <2>1 DEF RoleAt, Packs, MayRewrite
  <2>3. UNCHANGED <<loose, packed>> \/ RenameLoose(p)
    BY <1>1, <2>2, FileSteps DEF UnlinkLoose, PruneLoose, DropPacked, TruncatePacked, WritePacked, Packing, Deleting
  <2>4. packed' = packed /\ \A r \in Refs : loose[r] # None => loose'[r] # None
    <3>1. CASE RenameLoose(p)
      <4>1. PICK u \in run[p] : pc[p] = "rename" /\ loose' = [loose EXCEPT ![u.name] = u.val] /\ packed' = packed
        BY <3>1 DEF RenameLoose
      <4>2. u.val # None BY <4>1, OneSet
      <4> QED BY <1>1, <4>1, <4>2 DEF FilesOK, Entries
    <3> QED BY <2>3, <3>1
  <2>5. dups[q] \subseteq Refs BY <1>1 DEF TypeOK
  <2> QED BY <1>2, <1>4, <2>4, <2>5 DEF SameCall, FilesAt, Packing, Deleting
<1>5. CASE pc[q] \notin {"drop", "reseed", "unlink"} BY <1>2, <1>3, <1>5 DEF SameCall, FilesAt, Packing
<1> QED BY <1>4, <1>5

(* Every step keeps what the processes take for granted of the files. *)
LEMMA MapStep ==
  ASSUME CacheInv, AsksOnce, MapInv, [Next]_vars
  PROVE  MapInv'
<1>m. menu' = menu BY DEF Next, vars
<1> SUFFICES ASSUME ~PacksBeside, NEW q \in Procs PROVE RunsOK(q)' /\ FilesAt(q)'
  BY <1>m DEF MapInv, PacksBeside
<1>1. TypeOK /\ MenuOK /\ Phases /\ \A p \in Procs : RunsOK(p) /\ FilesAt(p)
  BY DEF MapInv, CacheInv, StoreIndInv
<1>2. CASE UNCHANGED vars BY <1>1, <1>2 DEF vars, files, locals, RunsOK, FilesAt, Value
<1>3. ASSUME NEW p \in Procs, Step(p) PROVE RunsOK(q)' /\ FilesAt(q)'
  <2>1. CASE p = q BY <1>1, <1>3, <2>1, RunsStep, FilesStep
  <2>2. CASE p # q
    <3>1. SameCall(q) BY <1>1, <1>3, <2>2, OthersAlone
    <3>2. RunsOK(q)' BY <1>1, <3>1 DEF SameCall, RunsOK
    <3> QED BY <1>1, <1>3, <2>2, <3>2, OthersFiles
  <2> QED BY <2>1, <2>2
<1> QED BY <1>2, <1>3 DEF Next

------------------------------
(* A write that leaves the run is no longer asked for. *)
LEMMA NotAsked ==
  ASSUME NEW p \in Procs, RunsOK(p), NEW w \in Pairs(run[p]), w \notin Pairs(run'[p]),
         todo'[p] \in {todo[p], <<>>}
  PROVE  w \in Asked(p) /\ w \notin Asked(p)'
<1>1. w \in Asked(p) BY DEF Asked, Open, Pairs
<1>2. \A i \in 1..Len(todo'[p]) : w \notin Pairs(todo'[p][i]) BY DEF RunsOK
<1> QED BY <1>1, <1>2 DEF Asked, Open, Pairs

(* Outside the two halves of packRefs' write, a ref moves by a write its mover *)
(* was asked for and asks for no longer. *)
Moves(p) == \A r \in Refs : Value(r)' # Value(r) => <<r, Value(r)'>> \in Asked(p) /\ <<r, Value(r)'>> \notin Asked(p)'

LEMMA FilesMove ==
  ASSUME CacheInv, ~PacksBeside, NEW p \in Procs, RunsOK(p), FilesAt(p), Step(p),
         pc[p] \notin {"truncate", "write"}
  PROVE  Moves(p)
<1>0. TypeOK /\ CallOK /\ FilesOK /\ RoleAt(p) /\ MemoryAt(p)
  BY TypeParts DEF CacheInv, StoreIndInv, Roles, Memory
<1> SUFFICES ASSUME NEW r \in Refs, Value(r)' # Value(r)
             PROVE  <<r, Value(r)'>> \in Asked(p) /\ <<r, Value(r)'>> \notin Asked(p)'
  BY DEF Moves
<1>1. ~Throw(p) /\ ~UNCHANGED <<loose, packed>> BY DEF Throw, Value
<1>2. CASE RenameLoose(p)
  <2>1. PICK u \in run[p] : /\ pc[p] = "rename" /\ loose' = [loose EXCEPT ![u.name] = u.val]
                            /\ packed' = packed /\ EndRun(p)
    BY <1>2 DEF RenameLoose
  <2>2. run[p] = {u} /\ u.val # None BY <2>1, OneSet
  <2>3. r = u.name /\ Value(r)' = u.val BY <1>0, <2>1, <2>2 DEF Value, FilesOK, Entries
  <2>4. run'[p] = {} /\ todo'[p] \in {todo[p], <<>>} BY <1>0, <2>1 DEF EndRun, Return, CallOK
  <2>5. <<r, u.val>> \in Pairs(run[p]) /\ <<r, u.val>> \notin Pairs(run'[p]) BY <2>3, <2>4 DEF Pairs
  <2> QED BY <2>3, <2>4, <2>5, NotAsked
<1>3. CASE UnlinkLoose(p)
  <2>1. PICK u \in run[p] : /\ pc[p] = "unlink" /\ loose' = [loose EXCEPT ![u.name] = None]
                            /\ run' = [run EXCEPT ![p] = @ \ {u}] /\ packed' = packed /\ todo' = todo
    BY <1>1, <1>3 DEF UnlinkLoose
  <2>2. u.val = None /\ packed[u.name] = None BY <2>1 DEF FilesAt, Deleting
  <2>3. r = u.name /\ Value(r)' = None BY <1>0, <2>1, <2>2 DEF Value, FilesOK, Entries
  <2>4. \A w \in run'[p] : w.name # r BY <1>0, <2>1, <2>3 DEF CallOK, RunsOK, IsRun
  <2>5. <<r, None>> \in Pairs(run[p]) /\ <<r, None>> \notin Pairs(run'[p]) BY <2>2, <2>3, <2>4 DEF Pairs
  <2> QED BY <2>1, <2>3, <2>5, NotAsked
<1>4. CASE PruneLoose(p)
  <2>1. PICK d \in Refs : pc[p] = "prune" /\ loose[d] # None /\ loose' = [loose EXCEPT ![d] = None] /\ packed' = packed
    BY <1>0, <1>1, <1>4 DEF PruneLoose, CallOK
  <2>2. packed[d] = loose[d] BY <2>1 DEF FilesAt
  <2> QED BY <1>0, <2>1, <2>2 DEF Value, FilesOK, Entries
<1>5. CASE DropPacked(p)
  <2>1. /\ pc[p] = "drop" /\ loose' = loose /\ todo' = todo
        /\ run'[p] = {u \in run[p] : u.name \in dups[p]}
        /\ packed' = Without(snap[p], Names(run[p])) /\ snap[p] = packed
    BY <1>0, <1>1, <1>5 DEF DropPacked, MemoryAt, CallOK
  <2>2. r \in Names(run[p]) /\ loose[r] = None /\ Value(r)' = None BY <2>1 DEF Without, Value
  <2>3. PICK u \in run[p] : u.name = r /\ u.val = None BY <2>1, <2>2 DEF Names, FilesAt, Deleting
  <2>4. r \notin dups[p] BY <2>1, <2>2 DEF FilesAt
  <2>5. <<r, None>> \in Pairs(run[p]) /\ <<r, None>> \notin Pairs(run'[p]) BY <2>1, <2>3, <2>4 DEF Pairs
  <2> QED BY <2>1, <2>2, <2>5, NotAsked
<1> QED BY <1>0, <1>1, <1>2, <1>3, <1>4, <1>5, FileSteps DEF TruncatePacked, WritePacked

------------------------------
(* The map the files stand for: what packRefs is about to write, once it has *)
(* truncated packed-refs, and the files themselves at any other time. *)
MapOK == CacheInv /\ AsksOnce /\ PacksSurvive /\ MapInv

MapIsFiles ==
  /\ AbstractRefs \in [Refs -> Vals \cup {None}]
  /\ \A p \in Procs : pc[p] = "write" => \A r \in Refs : AbstractRefs[r] = snap[p][r]
  /\ (\A p \in Procs : pc[p] # "write") => \A r \in Refs : AbstractRefs[r] = Value(r)

LEMMA MapIs == MapOK /\ ~PacksBeside => MapIsFiles
<1> SUFFICES ASSUME MapOK, ~PacksBeside PROVE MapIsFiles OBVIOUS
<1> USE DEF MapIsFiles
<1>1. FilesOK /\ CallOK /\ (\A r \in Refs : Value(r) \in Values)
  BY TypeParts DEF MapOK, CacheInv, StoreIndInv, FilesOK, Entries, Value
<1>2. CASE \E p \in Procs : pc[p] = "write"
  <2> DEFINE w == CHOOSE p \in Procs : pc[p] = "write"
  <2>1. w \in Procs /\ pc[w] = "write" BY <1>2
  <2>2. \A p \in Procs : pc[p] = "write" => p = w
    BY <2>1 DEF MapOK, CacheInv, Roles, RoleAt, Packing, Packs, PacksBeside
  <2>3. AbstractRefs = [r \in Refs |-> IF loose[r] = None THEN snap[w][r] ELSE Value(r)]
    BY <1>2 DEF AbstractRefs
  <2>4. \A r \in Refs : loose[r] # None => snap[w][r] = Value(r) BY <2>1 DEF MapOK, MapInv, FilesAt, Value
  <2>5. snap[w] \in Entries BY <1>1, <2>1 DEF CallOK
  <2> HIDE DEF w
  <2> QED BY <1>1, <2>1, <2>2, <2>3, <2>4, <2>5 DEF Entries, Values
<1>3. CASE ~\E p \in Procs : pc[p] = "write"
  <2>1. AbstractRefs = [r \in Refs |-> Value(r)] BY <1>3 DEF AbstractRefs
  <2> QED BY <1>1, <1>3, <2>1 DEF Values
<1> QED BY <1>2, <1>3

(* Every step keeps the invariant the refinement rests on. *)
LEMMA MapOKStep == MapOK /\ [Next]_vars => MapOK'
<1> SUFFICES ASSUME MapOK, [Next]_vars PROVE MapOK' OBVIOUS
<1>1. menu' = menu BY DEF Next, vars
<1>2. AsksOnce' /\ PacksSurvive' BY <1>1 DEF MapOK, AsksOnce, PacksSurvive, Packs
<1> QED BY <1>2, CacheStep, MapStep DEF MapOK

(* What a step does to the map, whether the files move or not. *)
LEMMA RefsMove ==
  ASSUME MapOK, ~PacksBeside, [Next]_vars, NEW p \in Procs, Step(p), NEW r \in Refs,
         AbstractRefs'[r] # AbstractRefs[r]
  PROVE  <<r, AbstractRefs'[r]>> \in Asked(p) /\ <<r, AbstractRefs'[r]>> \notin Asked(p)'
<1>0. CallOK /\ TypeOK /\ \A q \in Procs : RoleAt(q) /\ RunsOK(q) /\ FilesAt(q)
  BY TypeParts DEF MapOK, CacheInv, StoreIndInv, Roles, MapInv
<1>m. menu' = menu BY DEF Next, vars
<1>1. MapOK' /\ ~PacksBeside' BY <1>m, MapOKStep DEF PacksBeside
<1>2. /\ \A q \in Procs : pc'[q] = "write" => AbstractRefs'[r] = snap'[q][r]
      /\ (\A q \in Procs : pc'[q] # "write") => AbstractRefs'[r] = Value(r)'
  <2>1. (MapOK /\ ~PacksBeside => MapIsFiles)' BY MapIs, PTL
  <2> QED BY <1>1, <2>1 DEF MapIsFiles
<1>3. /\ \A q \in Procs : pc[q] = "write" => AbstractRefs[r] = snap[q][r]
      /\ (\A q \in Procs : pc[q] # "write") => AbstractRefs[r] = Value(r)
  BY MapIs DEF MapIsFiles
<1>4. \A q \in Procs : q # p => pc[q] # "write" /\ pc'[q] # "write"
  BY <1>0, Alone, OthersAlone DEF MapOK, SameCall, Packing
<1>5. pc[p] \in {"truncate", "write"} => ~Crash(p) BY <1>0 DEF Crash, MapOK, PacksSurvive, RoleAt, Packing
<1>6. CASE pc[p] = "write"
  <2>1. WritePacked(p) BY <1>0, <1>5, <1>6, FileSteps
  <2>2. pc'[p] = "prune" /\ Value(r)' = (IF loose[r] # None THEN loose[r] ELSE snap[p][r])
    BY <1>0, <2>1 DEF WritePacked, GoTo, CallOK, Value
  <2>3. loose[r] # None => snap[p][r] = loose[r] BY <1>0, <1>6 DEF FilesAt
  <2> QED BY <1>2, <1>3, <1>4, <1>6, <2>2, <2>3
<1>7. CASE pc[p] = "truncate"
  <2>1. TruncatePacked(p) BY <1>0, <1>5, <1>7, FileSteps
  <2>2. pc'[p] = "write" /\ snap'[p] = snap[p] BY <1>0, <2>1 DEF TruncatePacked, GoTo, CallOK, work
  <2>3. snap[p][r] = Value(r) BY <1>0, <1>7 DEF FilesAt
  <2> QED BY <1>2, <1>3, <1>4, <1>7, <2>2, <2>3
<1>8. CASE pc[p] \notin {"truncate", "write"}
  <2>1. pc'[p] # "write" BY <1>0, <1>8, FileSteps DEF TruncatePacked
  <2>2. AbstractRefs[r] = Value(r) /\ AbstractRefs'[r] = Value(r)' BY <1>2, <1>3, <1>4, <1>8, <2>1
  <2>3. Moves(p) BY <1>0, <1>8, FilesMove DEF MapOK
  <2> QED BY <2>2, <2>3 DEF Moves
<1> QED BY <1>6, <1>7, <1>8

(* Every step of the store is one of the map: a process asks, or settles some *)
(* of what it asked for, or nothing moves. *)
LEMMA MapRefined ==
  ASSUME MapOK, [Next]_vars
  PROVE  [Map!MapNext]_(Map!mapVars)
<1>m. menu' = menu BY DEF Next, vars
<1>1. CASE UNCHANGED vars
  <2>1. AbstractRefs' = AbstractRefs /\ AbstractWant' = AbstractWant
    BY <1>1 DEF vars, files, locals, AbstractRefs, AbstractWant, Asked, Open, PacksBeside, Value
  <2> QED BY <2>1 DEF Map!mapVars
<1>2. CASE PacksBeside
  <2>1. AbstractRefs' = AbstractRefs /\ AbstractWant' = AbstractWant
    BY <1>m, <1>2 DEF AbstractRefs, AbstractWant, PacksBeside, NoEntries
  <2> QED BY <2>1 DEF Map!mapVars
<1>3. ASSUME ~PacksBeside, NEW p \in Procs, Step(p) PROVE Map!Ask(p) \/ Map!Settle(p)
  <2>0. /\ MapOK' /\ ~PacksBeside' /\ TypeOK /\ TypeOK' /\ CallOK /\ CallOK' /\ MenuOK /\ Phases
        /\ AsksOnce /\ RunsOK(p) /\ FilesAt(p) /\ RoleAt(p)
    BY <1>3, <1>m, MapOKStep, TypeParts DEF MapOK, MapInv, CacheInv, StoreIndInv, PacksBeside, Roles, CallOK, TypeOK, RdType
  <2>1. AbstractRefs \in [Refs -> Vals \cup {None}] /\ AbstractRefs' \in [Refs -> Vals \cup {None}]
    <3>1. (MapOK /\ ~PacksBeside => MapIsFiles)' BY MapIs, PTL
    <3> QED BY <1>3, <2>0, <3>1, MapIs DEF MapIsFiles
  <2>2. \A r \in Refs : AbstractRefs'[r] # AbstractRefs[r] =>
          <<r, AbstractRefs'[r]>> \in Asked(p) /\ <<r, AbstractRefs'[r]>> \notin Asked(p)' BY <1>3, RefsMove
  <2>3. AbstractWant' = [AbstractWant EXCEPT ![p] = Asked(p)'] /\ AbstractWant[p] = Asked(p)
    <3>1. \A q \in Procs : q # p => Asked(q)' = Asked(q) BY <1>3, <2>0, OthersAlone DEF SameCall, Asked, Open
    <3> QED BY <1>3, <2>0, <3>1 DEF AbstractWant
  <2>4. CASE Begin(p)
    <3>1. Asked(p) = {} BY <2>0, <2>4 DEF Begin, FilesAt, Asked, Open
    <3>2. Asked(p)' \in SUBSET (Refs \X (Vals \cup {None})) BY <2>0 DEF CallOK, Asked, Open, Update
    <3>3. AbstractRefs' = AbstractRefs BY <2>1, <2>2, <3>1
    <3> QED BY <2>3, <3>1, <3>2, <3>3 DEF Map!Ask, Map!Writes
  <2>5. CASE Asked(p)' \subseteq Asked(p)
    <3> DEFINE Made == {w \in Asked(p) : \E r \in Refs : AbstractRefs'[r] # AbstractRefs[r] /\ w = <<r, AbstractRefs'[r]>>}
               Dropped == Asked(p) \ Asked(p)'
    <3>1. Made \in SUBSET AbstractWant[p] /\ Dropped \in SUBSET AbstractWant[p] BY <2>3
    <3>2. Asked(p)' = Asked(p) \ (Made \cup Dropped) BY <2>2, <2>5
    <3>3. \A r \in Refs : \/ <<r, AbstractRefs'[r]>> \in Made
                          \/ AbstractRefs'[r] = AbstractRefs[r] /\ ~\E v \in Vals \cup {None} : <<r, v>> \in Made
      BY <2>2
    <3>4. AbstractWant' = [AbstractWant EXCEPT ![p] = @ \ (Made \cup Dropped)] BY <2>3, <3>2 DEF AbstractWant
    <3> HIDE DEF Made, Dropped
    <3> QED BY <2>1, <3>1, <3>3, <3>4 DEF Map!Settle
  <2> QED BY <1>3, <2>0, <2>4, <2>5, RunsStep
<1> QED BY <1>1, <1>2, <1>3 DEF Next, Map!MapNext

(* The files backend implements the map of RefMap: whatever sets, deletes, *)
(* reads, failures and crashes meet, a ref moves only by one of the writes a *)
(* caller has asked for and not made yet, and no older packed value comes back *)
(* - provided that a single process rewrites packed-refs, that one that packs *)
(* is not killed, and that no transaction asks twice for one write. *)
THEOREM FilesAreAMap == Spec /\ LoneRewriter /\ AsksOnce /\ PacksSurvive => RefinesRefMap
<1>1. Init /\ LoneRewriter /\ AsksOnce /\ PacksSurvive => MapOK
  <2> SUFFICES ASSUME Init, LoneRewriter, AsksOnce, PacksSurvive PROVE MapOK OBVIOUS
  <2>1. \A p \in Procs : RunsOK(p) /\ FilesAt(p) BY DEF Init, RunsOK, FilesAt, Packing, Deleting
  <2> QED BY <2>1, CacheInit DEF MapOK, MapInv
<1>2. Init /\ MapOK => Map!MapInit
  <2> SUFFICES ASSUME Init, MapOK PROVE Map!MapInit OBVIOUS
  <2>1. AbstractRefs \in [Refs -> Vals \cup {None}] BY MapIs DEF AbstractRefs, NoEntries, MapIsFiles
  <2>2. AbstractWant = [p \in Procs |-> {}] BY DEF Init, AbstractWant, Asked, Open
  <2> QED BY <2>1, <2>2 DEF Map!MapInit
<1>3. MapOK /\ [Next]_vars => [Map!MapNext]_(Map!mapVars) BY MapRefined
<1> QED BY <1>1, <1>2, <1>3, MapOKStep, PTL DEF Spec, RefinesRefMap, Map!MapSpec
=============================================================================
