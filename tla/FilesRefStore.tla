---------------------------- MODULE FilesRefStore ----------------------------
(* The files backend of the ref store (createFilesRefStore in                  *)
(* application/primitives/ref-store.ts): a ref is its loose file, or else its  *)
(* line in packed-refs.  Processes read refs, run transactions of sets and     *)
(* deletes, and pack refs, each over the same directory, with nothing between  *)
(* them but <loose>.lock and packed-refs.lock.                                 *)
(*                                                                             *)
(* Values are object ids; symbolic refs, HEAD's own slot, reflogs and the      *)
(* directory/file name conflicts are not told apart here: no name of Refs is a *)
(* prefix of another.                                                          *)
EXTENDS Integers, FiniteSets, Sequences

CONSTANTS
  Procs,
  Refs,
  Vals,         \* object ids
  None,         \* no ref, no file, no line
  Always,       \* an update that carries no `expected`
  Menus,        \* what may be going on: see Menu
  Nested        \* refs whose directory exists only while a file is in it

(* An update of one ref, and the run of a transaction that is made together: a *)
(* single set, or consecutive deletes (toUpdateRuns).  A required value of     *)
(* None is 'absent'.  The deletes of a run are a set, in any order, and name a  *)
(* ref once: assertNoDuplicateNames refuses the rest before it does anything.  *)
Update == [name : Refs, val : Vals \cup {None}, exp : Vals \cup {None, Always}]
IsRun(R) ==
  /\ R # {}
  /\ \/ \A u \in R : u.val = None
     \/ \E u \in R : R = {u}
  /\ \A u, w \in R : u.name = w.name => u = w

Transaction(T) == T \in Seq(SUBSET Update) /\ T # <<>> /\ \A i \in 1..Len(T) : IsRun(T[i])

(* An operation: a transaction, a read of one ref, or packRefs.                *)
IsOp(op) ==
  \/ op.kind = "update" /\ Transaction(op.runs)
  \/ op.kind = "read" /\ op.name \in Refs
  \/ op.kind = "pack"

(* One way to use the store: the operations each process may call, whether a    *)
(* process may die, whether two rewrites of packed-refs may get the same mtime, *)
(* the values refs have at first, and a bound on the rewrites by packRefs.     *)
Menu(M) ==
  /\ \A p \in Procs : \A op \in M.ops[p] : IsOp(op)
  /\ M.crashes \in BOOLEAN /\ M.coarseClock \in BOOLEAN /\ M.vals \subseteq Vals /\ M.maxStamp \in Nat

ASSUME RefStoreAssumption ==
  /\ None \notin Vals /\ Always \notin Vals /\ Always # None
  /\ IsFiniteSet(Refs)
  /\ Nested \subseteq Refs
  /\ \A M \in Menus : Menu(M)

VARIABLES
  menu,        \* which of the menus it is
  loose,       \* loose[r]: content of r's loose file
  packed,      \* packed[r]: r's line in packed-refs
  stamp,       \* mtime of packed-refs
  looseLock,   \* refs whose <loose>.lock exists
  packedLock,  \* does packed-refs.lock exist?
  cache,       \* packedCache of each process: the stat key and the entries
  pc,
  todo,        \* runs of the transaction not started yet
  run,         \* updates of the current run not made yet
  chk,         \* updates whose required value is still to be checked
  rd,          \* where the process is in resolveDirect
  held,        \* refs whose lock this process created
  owns,        \* did it create packed-refs.lock, and not rename it yet?
  snap,        \* entries of packed-refs it works on
  dups,        \* packRefs: loose duplicates still to prune
  seen         \* values the ref being read had since the read began

files == <<loose, packed, stamp, looseLock, packedLock>>
locals == <<cache, pc, todo, run, chk, rd, held, owns, snap, dups>>
vars == <<menu, files, locals, seen>>

(* Groups of variables that most steps leave alone together.                   *)
plan == <<todo, run, chk>>
locks == <<held, owns>>
work == <<snap, dups>>

Values == Vals \cup {None}
Entries == [Refs -> Values]
NoEntries == [r \in Refs |-> None]

(* Mutation: the cache is keyed by the mtime alone.                            *)
KeyMtimeOnly == [at |-> stamp, size |-> 0]

(* packedCacheKey: mtime and size; every line is as long as every other.       *)
Key == [at |-> stamp, size |-> Cardinality({r \in Refs : packed[r] # None})]
NoKey == [at |-> -1, size |-> 0]
NoCache == [key |-> NoKey, entries |-> NoEntries]

(* The value of r in the files: loose first, then packed.                      *)
Value(r) == IF loose[r] # None THEN loose[r] ELSE packed[r]

NotReading == [at |-> "loose", name |-> None, key |-> NoKey]

Init ==
  /\ menu \in Menus
  /\ loose \in [Refs -> menu.vals \cup {None}]
  /\ packed \in [Refs -> menu.vals \cup {None}]
  /\ stamp = 0
  /\ looseLock = {} /\ packedLock = FALSE
  /\ cache = [p \in Procs |-> NoCache]
  /\ pc = [p \in Procs |-> "idle"]
  /\ todo = [p \in Procs |-> <<>>]
  /\ run = [p \in Procs |-> {}]
  /\ chk = [p \in Procs |-> {}]
  /\ rd = [p \in Procs |-> NotReading]
  /\ held = [p \in Procs |-> {}]
  /\ owns = [p \in Procs |-> FALSE]
  /\ snap = [p \in Procs |-> NoEntries]
  /\ dups = [p \in Procs |-> {}]
  /\ seen = [p \in Procs |-> {}]

Checked(U) == {u \in U : u.exp # Always}
Names(U) == {u.name : u \in U}

(* The operation is over, with an answer or an error.                          *)
Return(p) ==
  /\ pc' = [pc EXCEPT ![p] = "idle"]
  /\ todo' = [todo EXCEPT ![p] = <<>>]
  /\ run' = [run EXCEPT ![p] = {}]
  /\ chk' = [chk EXCEPT ![p] = {}]
  /\ rd' = [rd EXCEPT ![p] = NotReading]
  /\ held' = [held EXCEPT ![p] = {}]
  /\ owns' = [owns EXCEPT ![p] = FALSE]
  /\ dups' = [dups EXCEPT ![p] = {}]
  /\ snap' = [snap EXCEPT ![p] = NoEntries]

(* Mutation: packed-refs.lock is left to the rename that may not come.         *)
ReleaseLooseLocks(p) ==
  /\ looseLock' = looseLock \ held[p]
  /\ UNCHANGED packedLock

(* The finally blocks of withLockFile, or the catch of atomicWriteFile: every  *)
(* lock file this process created and did not rename is unlinked.              *)
ReleaseLocks(p) ==
  /\ looseLock' = looseLock \ held[p]
  /\ packedLock' = (packedLock /\ ~owns[p])

Throw(p) ==
  /\ ReleaseLocks(p)
  /\ Return(p)
  /\ UNCHANGED <<loose, packed, stamp, cache>>

GoTo(p, label) == pc' = [pc EXCEPT ![p] = label]

-----------------------------------------------------------------------------
(* Calls *)

(* assertTransactionPrepares checks every required value before the first run, *)
(* of a transaction of two updates or more.                                    *)
Begin(p) ==
  \E op \in menu.ops[p] :
    /\ pc[p] = "idle"
    /\ op.kind = "update"
    /\ LET all == UNION {op.runs[i] : i \in 1..Len(op.runs)} IN
         chk' = [chk EXCEPT ![p] = IF Cardinality(all) < 2 THEN {} ELSE Checked(all)]
    /\ todo' = [todo EXCEPT ![p] = op.runs]
    /\ GoTo(p, "prepare")
    /\ UNCHANGED <<files, cache, run, rd, locks, work>>

BeginRead(p) ==
  \E op \in menu.ops[p] :
    /\ pc[p] = "idle"
    /\ op.kind = "read"
    /\ rd' = [rd EXCEPT ![p].name = op.name]
    /\ GoTo(p, "read")
    /\ UNCHANGED <<files, cache, plan, locks, work>>

BeginPack(p) ==
  \E op \in menu.ops[p] :
    /\ pc[p] = "idle"
    /\ op.kind = "pack"
    /\ stamp < menu.maxStamp
    /\ GoTo(p, "listLoose")
    /\ UNCHANGED <<files, cache, plan, rd, locks, work>>

-----------------------------------------------------------------------------
(* resolveDirect and loadPackedRefs: the loose file, then packed-refs, with a  *)
(* file-system call and so any other process between any two of them.          *)

(* What the caller of resolveDirect does with v: a read answers it, a check    *)
(* (checkExpected) drops the updates it satisfies or refuses.                  *)
Resolved(p, v) ==
  LET mine == {u \in chk[p] : u.name = rd[p].name} IN
  \/ /\ pc[p] = "read"
     /\ Return(p)
  \/ /\ pc[p] # "read"
     /\ \E u \in mine : u.exp # v
     /\ Return(p)  \* REF_UPDATE_CONFLICT
  \/ /\ pc[p] # "read"
     /\ \A u \in mine : u.exp = v
     /\ chk' = [chk EXCEPT ![p] = @ \ mine]
     /\ rd' = [rd EXCEPT ![p] = NotReading]
     /\ UNCHANGED <<pc, todo, run, locks, work>>

(* checkExpected turns to the next update that requires a value.               *)
CheckNext(p) ==
  /\ pc[p] \in {"prepare", "check"}
  /\ rd[p] = NotReading
  /\ \E u \in chk[p] : rd' = [rd EXCEPT ![p].name = u.name]
  /\ UNCHANGED <<files, cache, pc, plan, locks, work>>

(* Mutation: packed-refs is asked before the loose file.                       *)
ReadPackedFirst(p) ==
  /\ rd[p].name # None /\ rd[p].at = "loose"
  /\ rd' = [rd EXCEPT ![p].at = "stat"]
  /\ UNCHANGED <<files, cache, pc, plan, locks, work>>

ReadLoose(p) ==
  /\ rd[p].name # None /\ rd[p].at = "loose"
  /\ \/ loose[rd[p].name] # None /\ Resolved(p, loose[rd[p].name])
     \/ /\ loose[rd[p].name] = None
        /\ rd' = [rd EXCEPT ![p].at = "stat"]
        /\ UNCHANGED <<pc, plan, locks, work>>
  /\ UNCHANGED <<files, cache>>

(* removeEverywhere once packed-refs is read: the kind of every target's loose *)
(* leaf.  dups holds the targets that have a loose file to remove.             *)
KeepForDelete(p, entries) ==
  /\ snap' = [snap EXCEPT ![p] = entries]
  /\ dups' = [dups EXCEPT ![p] = {r \in Names(run[p]) : loose[r] # None}]
  /\ GoTo(p, "drop")

(* Mutation: a ref that is loose and packed is listed with its packed value.   *)
KeepPackedFirst(p, entries) ==
  LET listed == [r \in Refs |-> IF entries[r] # None THEN entries[r] ELSE snap[p][r]] IN
  /\ snap' = [snap EXCEPT ![p] = listed]
  /\ GoTo(p, IF listed = NoEntries THEN "packed" ELSE "duplicates")
  /\ UNCHANGED dups

(* listRefs: the refs of packed-refs that are not loose.                       *)
KeepForPack(p, entries) ==
  LET listed == [r \in Refs |-> IF snap[p][r] # None THEN snap[p][r] ELSE entries[r]] IN
  /\ snap' = [snap EXCEPT ![p] = listed]
  /\ GoTo(p, IF listed = NoEntries THEN "packed" ELSE "duplicates")
  /\ UNCHANGED dups

(* What the caller of loadPackedRefs does with the entries.  The names a set   *)
(* looks for are not there (refusePackedNameConflict).                         *)
PackedLoaded(p, entries) ==
  \/ pc[p] \in {"read", "prepare", "check"} /\ Resolved(p, entries[rd[p].name])
  \/ /\ \/ pc[p] = "load" /\ KeepForDelete(p, entries)
        \/ pc[p] = "listPacked" /\ KeepForPack(p, entries)
        \/ pc[p] = "blockers" /\ GoTo(p, "rename") /\ UNCHANGED work
     /\ rd' = [rd EXCEPT ![p] = NotReading]
     /\ UNCHANGED <<plan, locks>>

(* loadPackedRefs: a stat whose key matches the cache's ends it.               *)
StatPacked(p) ==
  /\ rd[p].at = "stat"
  /\ \/ cache[p].key = Key /\ PackedLoaded(p, cache[p].entries)
     \/ /\ cache[p].key # Key
        /\ rd' = [rd EXCEPT ![p].at = "load", ![p].key = Key]
        /\ UNCHANGED <<pc, plan, locks, work>>
  /\ UNCHANGED <<files, cache>>

LoadPacked(p) ==
  /\ rd[p].at = "load"
  /\ cache' = [cache EXCEPT ![p] = [key |-> rd[p].key, entries |-> packed]]
  /\ PackedLoaded(p, packed)
  /\ UNCHANGED files

AskPacked(p) == rd' = [rd EXCEPT ![p].at = "stat"]

-----------------------------------------------------------------------------
(* applyRefUpdates: the runs of a transaction, one after the other *)

(* All required values hold: the next run, which checks its own again.         *)
StartRun(p) ==
  /\ pc[p] = "prepare" /\ chk[p] = {}
  /\ run' = [run EXCEPT ![p] = Head(todo[p])]
  /\ todo' = [todo EXCEPT ![p] = Tail(todo[p])]
  /\ chk' = [chk EXCEPT ![p] = Checked(Head(todo[p]))]
  /\ GoTo(p, "check")
  /\ UNCHANGED <<files, cache, rd, locks, work>>

(* The run is made: the next one, or the end of the transaction.               *)
EndRun(p) ==
  \/ /\ todo[p] = <<>>
     /\ Return(p)
  \/ /\ todo[p] # <<>>
     /\ GoTo(p, "prepare")
     /\ run' = [run EXCEPT ![p] = {}]
     /\ held' = [held EXCEPT ![p] = {}]
     /\ owns' = [owns EXCEPT ![p] = FALSE]
     /\ snap' = [snap EXCEPT ![p] = NoEntries]
     /\ dups' = [dups EXCEPT ![p] = {}]
     /\ UNCHANGED <<todo, chk, rd>>

Checks(p) == pc[p] = "check" /\ chk[p] = {}

(* applySet, writeLooseRef: the value is written into <loose>.lock, created    *)
(* exclusively; then packed-refs is consulted for names in the way.            *)
LockForSet(p) ==
  \E u \in run[p] :
    /\ Checks(p) /\ u.val # None
    /\ \/ /\ u.name \notin looseLock
          /\ looseLock' = looseLock \cup {u.name}
          /\ held' = [held EXCEPT ![p] = {u.name}]
          /\ AskPacked(p)
          /\ GoTo(p, "blockers")
          /\ UNCHANGED <<loose, packed, stamp, packedLock, cache, plan, owns, work>>
       \/ /\ u.name \in looseLock
          /\ Throw(p)  \* REF_LOCKED

(* commitLooseRef: the lock file becomes the loose file.                       *)
RenameLoose(p) ==
  \E u \in run[p] :
    /\ pc[p] = "rename"
    /\ loose' = [loose EXCEPT ![u.name] = u.val]
    /\ looseLock' = looseLock \ held[p]
    /\ EndRun(p)
    /\ UNCHANGED <<packed, stamp, packedLock, cache>>

(* deleteTargetFor: only a ref whose directory is there is locked.             *)
Lockable(p) ==
  {r \in Names(run[p]) : r \in Nested => loose[r] # None \/ r \in looseLock}

StartDelete(p) ==
  /\ Checks(p) /\ \A u \in run[p] : u.val = None
  /\ dups' = [dups EXCEPT ![p] = Lockable(p)]
  /\ GoTo(p, "lock")
  /\ UNCHANGED <<files, cache, plan, rd, locks, snap>>

(* withLooseRefLocks: one lock file after the other; one in the way refuses.   *)
LockForDelete(p) ==
  \E r \in dups[p] :
    /\ pc[p] = "lock"
    /\ \/ /\ r \notin looseLock
          /\ looseLock' = looseLock \cup {r}
          /\ held' = [held EXCEPT ![p] = @ \cup {r}]
          /\ dups' = [dups EXCEPT ![p] = @ \ {r}]
          /\ UNCHANGED <<loose, packed, stamp, packedLock, cache, pc, plan, rd, owns, snap>>
       \/ /\ r \in looseLock
          /\ Throw(p)  \* REF_LOCKED

(* applyDeletes: packed-refs.lock after the loose locks; then removeEverywhere *)
(* reads packed-refs.                                                          *)
LockPacked(p) ==
  /\ pc[p] = "lock" /\ dups[p] = {}
  /\ \/ /\ ~packedLock
        /\ packedLock' = TRUE
        /\ owns' = [owns EXCEPT ![p] = TRUE]
        /\ AskPacked(p)
        /\ GoTo(p, "load")
        /\ UNCHANGED <<loose, packed, stamp, looseLock, cache, plan, held, work>>
     \/ /\ packedLock
        /\ Throw(p)  \* PACKED_REFS_LOCKED

(* packedRefsWithout                                                           *)
Without(entries, names) == [r \in Refs |-> IF r \in names THEN None ELSE entries[r]]

Restamp == stamp' = stamp + 1 \/ (menu.coarseClock /\ stamp' = stamp)

(* Mutation: packed-refs is left alone where a loose file shadows its line.    *)
DropPackedUnshadowed(p) ==
  LET drops == Names(run[p]) \ dups[p] IN
  /\ pc[p] = "drop"
  /\ run' = [run EXCEPT ![p] = {u \in @ : u.name \in dups[p]}]
  /\ packed' = Without(snap[p], drops)
  /\ snap' = [snap EXCEPT ![p] = packed']
  /\ IF packed' = packed THEN UNCHANGED stamp ELSE Restamp
  /\ packedLock' = FALSE
  /\ owns' = [owns EXCEPT ![p] = FALSE]
  /\ GoTo(p, "reseed")
  /\ UNCHANGED <<loose, looseLock, cache, todo, chk, rd, held, dups>>

(* dropFromPackedRefs: packed-refs.lock is renamed over packed-refs, which     *)
(* ends the lock; a run that packed-refs does not hold leaves it alone.        *)
DropPacked(p) ==
  /\ pc[p] = "drop"
  /\ run' = [run EXCEPT ![p] = {u \in @ : u.name \in dups[p]}]
  /\ \/ /\ \E r \in Names(run[p]) : snap[p][r] # None
        /\ packed' = Without(snap[p], Names(run[p]))
        /\ snap' = [snap EXCEPT ![p] = packed']
        /\ Restamp
        /\ packedLock' = FALSE
        /\ owns' = [owns EXCEPT ![p] = FALSE]
        /\ GoTo(p, "reseed")
     \/ /\ \A r \in Names(run[p]) : snap[p][r] = None
        /\ GoTo(p, "unlink")
        /\ UNCHANGED <<packed, stamp, packedLock, owns, snap>>
  /\ UNCHANGED <<loose, looseLock, cache, todo, chk, rd, held, dups>>

(* reseedPackedCache: the entries just written, under the key of the file that *)
(* is in place by then.                                                        *)
Reseed(p) ==
  /\ pc[p] = "reseed"
  /\ cache' = [cache EXCEPT ![p] = [key |-> Key, entries |-> snap[p]]]
  /\ GoTo(p, "unlink")
  /\ UNCHANGED <<files, plan, rd, locks, work>>

(* removeLooseAndLog, target by target; a file that is gone fails the rest.    *)
UnlinkLoose(p) ==
  \E u \in run[p] :
    /\ pc[p] = "unlink"
    /\ \/ /\ loose[u.name] # None
          /\ loose' = [loose EXCEPT ![u.name] = None]
          /\ run' = [run EXCEPT ![p] = @ \ {u}]
          /\ UNCHANGED <<packed, stamp, looseLock, packedLock, cache, pc, todo, chk, rd, locks, work>>
       \/ /\ loose[u.name] = None
          /\ Throw(p)  \* FILE_NOT_FOUND

EndDelete(p) ==
  /\ pc[p] = "unlink" /\ run[p] = {}
  /\ ReleaseLocks(p)
  /\ EndRun(p)
  /\ UNCHANGED <<loose, packed, stamp, cache>>

(* Any file-system call of a transaction may fail: the locks are released and  *)
(* the error surfaces.                                                         *)
Fail(p) ==
  /\ pc[p] \in {"blockers", "rename", "lock", "load", "drop", "reseed", "unlink"}
  /\ Throw(p)  \* IO_ERROR

-----------------------------------------------------------------------------
(* packRefs: takes no lock *)

(* listRefs: the loose refs with their values, then packed-refs for the rest.  *)
ListLoose(p) ==
  /\ pc[p] = "listLoose"
  /\ snap' = [snap EXCEPT ![p] = loose]
  /\ AskPacked(p)
  /\ GoTo(p, "listPacked")
  /\ UNCHANGED <<files, cache, plan, locks, dups>>

(* looseDuplicates: the listed refs that have a loose file.                    *)
FindDuplicates(p) ==
  /\ pc[p] = "duplicates"
  /\ dups' = [dups EXCEPT ![p] = {r \in Refs : snap[p][r] # None /\ loose[r] # None}]
  /\ GoTo(p, "truncate")
  /\ UNCHANGED <<files, cache, plan, rd, locks, snap>>

(* writeUtf8 over packed-refs itself: open with O_TRUNC, then write.  A write  *)
(* that fails leaves what a crash between the two leaves.                      *)
TruncatePacked(p) ==
  /\ pc[p] = "truncate"
  /\ packed' = NoEntries
  /\ Restamp
  /\ GoTo(p, "write")
  /\ UNCHANGED <<loose, looseLock, packedLock, cache, plan, rd, locks, work>>

(* Mutation: packRefs does not drop its cache.                                 *)
WritePackedKeepsCache(p) ==
  /\ pc[p] = "write"
  /\ packed' = snap[p]
  /\ Restamp
  /\ GoTo(p, "prune")
  /\ UNCHANGED <<loose, looseLock, packedLock, cache, plan, rd, locks, work>>

WritePacked(p) ==
  /\ pc[p] = "write"
  /\ packed' = snap[p]
  /\ cache' = [cache EXCEPT ![p] = NoCache]
  /\ Restamp
  /\ GoTo(p, "prune")
  /\ UNCHANGED <<loose, looseLock, packedLock, plan, rd, locks, work>>

(* prunePackedDuplicates: unlink, the value not looked at again.               *)
PruneLoose(p) ==
  \E r \in dups[p] :
    /\ pc[p] = "prune"
    /\ \/ /\ loose[r] # None
          /\ loose' = [loose EXCEPT ![r] = None]
          /\ dups' = [dups EXCEPT ![p] = @ \ {r}]
          /\ UNCHANGED <<packed, stamp, looseLock, packedLock, cache, pc, plan, rd, locks, snap>>
       \/ /\ loose[r] = None
          /\ Throw(p)  \* FILE_NOT_FOUND

EndPack(p) ==
  /\ pc[p] = "packed" \/ (pc[p] = "prune" /\ dups[p] = {})
  /\ Return(p)
  /\ UNCHANGED <<files, cache>>

-----------------------------------------------------------------------------
(* The process dies and is started again: the lock files stay, its caches do   *)
(* not.  A process that only reads has nothing to leave behind.                *)
Crash(p) ==
  /\ menu.crashes
  /\ pc[p] \notin {"idle", "read"}
  /\ Return(p)
  /\ cache' = [cache EXCEPT ![p] = NoCache]
  /\ UNCHANGED <<files>>

Resolve(p) == CheckNext(p) \/ ReadLoose(p) \/ StatPacked(p) \/ LoadPacked(p)

Transact(p) ==
  \/ StartRun(p) \/ LockForSet(p) \/ RenameLoose(p)
  \/ StartDelete(p) \/ LockForDelete(p) \/ LockPacked(p)
  \/ DropPacked(p) \/ Reseed(p) \/ UnlinkLoose(p) \/ EndDelete(p) \/ Fail(p)

Pack(p) ==
  \/ ListLoose(p) \/ FindDuplicates(p) \/ TruncatePacked(p)
  \/ WritePacked(p) \/ PruneLoose(p) \/ EndPack(p)

Step(p) ==
  \/ Begin(p) \/ BeginRead(p) \/ BeginPack(p)
  \/ Resolve(p) \/ Transact(p) \/ Pack(p) \/ Crash(p)

(* A delete of r has looked at its loose file and is not over.                 *)
BeingDeleted(r) ==
  \E q \in Procs : pc[q] \in {"drop", "reseed", "unlink"} /\ r \in Names(run[q])

(* The ghost `seen`: what a read of r may answer if it takes effect now.  While *)
(* r is being deleted its packed line may be gone and its loose file not yet;  *)
(* one that found no loose file is made before a set that then writes one.     *)
Possible(r) == {Value(r)} \cup (IF BeingDeleted(r) THEN {None} ELSE {})

Observe ==
  seen' = [p \in Procs |->
             IF pc'[p] # "read" THEN {}
             ELSE (IF pc[p] = "read" THEN seen[p] ELSE {}) \cup Possible(rd[p].name)']

Next == (\E p \in Procs : Step(p)) /\ Observe /\ UNCHANGED menu

Spec == Init /\ [][Next]_vars

-----------------------------------------------------------------------------
(* Properties *)

Pcs == {"idle", "read", "prepare", "check", "blockers", "rename", "lock", "load", "drop",
        "reseed", "unlink", "listLoose", "listPacked", "duplicates", "truncate", "write", "prune", "packed"}
Keys == [at : Int, size : Nat]

(* Every variable holds a value of its type.                                   *)
TypeOK ==
  /\ loose \in Entries /\ packed \in Entries
  /\ stamp \in Nat
  /\ looseLock \subseteq Refs /\ packedLock \in BOOLEAN
  /\ cache \in [Procs -> [key : Keys, entries : Entries]]
  /\ pc \in [Procs -> Pcs]
  /\ todo \in [Procs -> Seq(SUBSET Update)]
  /\ run \in [Procs -> SUBSET Update]
  /\ chk \in [Procs -> SUBSET Update]
  /\ rd \in [Procs -> [at : {"loose", "stat", "load"}, name : Refs \cup {None}, key : Keys]]
  /\ held \in [Procs -> SUBSET Refs]
  /\ owns \in [Procs -> BOOLEAN]
  /\ snap \in [Procs -> Entries]
  /\ dups \in [Procs -> SUBSET Refs]

(* A lock file a live process created is there until that process removes or   *)
(* renames it, and belongs to nobody else: no two processes are between taking *)
(* and giving up the lock of one ref, or of packed-refs.                       *)
LocksExclusive ==
  /\ \A p \in Procs : held[p] \subseteq looseLock /\ (owns[p] => packedLock)
  /\ \A p, q \in Procs : p # q => held[p] \cap held[q] = {} /\ ~(owns[p] /\ owns[q])

(* Where nobody died, every lock file belongs to a call that is under way: no  *)
(* refusal, failure or early return of a transaction leaves <loose>.lock or    *)
(* packed-refs.lock behind.                                                    *)
LocksGivenBack ==
  /\ \A p \in Procs : pc[p] = "idle" => held[p] = {} /\ ~owns[p]
  /\ ~menu.crashes => /\ looseLock = UNION {held[p] : p \in Procs}
                      /\ packedLock => \E p \in Procs : owns[p]

(* The lock files at every moment: of their types, exclusive while they are    *)
(* held, and given back however the transaction of lockAll, commitRun or       *)
(* dropFromPackedRefs that took them ends.                                     *)
StoreInv == TypeOK /\ LocksExclusive /\ LocksGivenBack

(* packRefs runs beside other processes.  It takes no lock, writes in place and *)
(* prunes what it saw earlier, so a set that lands in between is lost: the map *)
(* and the caches are not claimed then, only that the locks are given back.    *)
PacksBeside ==
  \E p, q \in Procs : p # q /\ menu.ops[q] # {} /\ \E op \in menu.ops[p] : op.kind = "pack"

(* A cached packed-refs whose key is the key of the file now in place holds    *)
(* what that file holds.                                                       *)
CacheFaithful ==
  ~PacksBeside => \A p \in Procs : cache[p].key = Key => cache[p].entries = packed

(* What resolveDirect answers in the step that ends it.                        *)
Answer(p) ==
  LET entries == CASE rd[p].at = "loose" -> loose
                   [] rd[p].at = "stat" -> cache[p].entries
                   [] rd[p].at = "load" -> packed
  IN entries[rd[p].name]

(* A read answers a value the ref had at some moment of the read, or `missing` *)
(* when a delete of the ref was under way.                                     *)
ReadsRegular ==
  [][\A p \in Procs : pc[p] = "read" /\ pc'[p] = "idle" => Answer(p) \in seen[p]]_vars

(* The map the files stand for.  Between the two halves of packRefs' write the *)
(* names it lists are only in its own memory.                                  *)
AbstractRefs ==
  IF PacksBeside THEN NoEntries ELSE
  [r \in Refs |-> IF loose[r] = None /\ \E p \in Procs : pc[p] = "write"
                    THEN snap[CHOOSE p \in Procs : pc[p] = "write"][r]
                    ELSE Value(r)]

(* The writes p has asked for and that are still open.                         *)
Open(p) == run[p] \cup UNION {todo[p][i] : i \in 1..Len(todo[p])}
Asked(p) == {<<u.name, u.val>> : u \in Open(p)}
AbstractWant == [p \in Procs |-> IF PacksBeside THEN {} ELSE Asked(p)]

Map == INSTANCE RefMap WITH refs <- AbstractRefs, want <- AbstractWant

(* The store implements the map: a ref moves only when a process that asked    *)
(* for it makes that one write, at most once, whatever the interleaving, the   *)
(* failures and the crashes; no older packed value comes back.                 *)
RefinesRefMap == Map!MapSpec

(* ref-store.ts on dropFromPackedRefs: "Rewrites packed-refs without names":   *)
(* a delete's rewrite drops its own names and changes no other line.           *)
RewriteDropsOnly ==
  [][\A p \in Procs : pc[p] = "drop" /\ pc'[p] = "reseed" =>
        packed' = Without(packed, Names(run[p]))]_vars
=============================================================================
