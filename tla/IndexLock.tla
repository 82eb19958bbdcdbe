------------------------------ MODULE IndexLock ------------------------------
(* The read-modify-write cycle on .git/index guarded by .git/index.lock        *)
(* (application/primitives/internal/index-lock.ts).                            *)
(*                                                                             *)
(* A Writer is a command that must write the index (add, rm, mv, reset,        *)
(* checkout, merge, ...): it creates the lock file exclusively, reads the      *)
(* index under it, stages the new index in the lock file and renames the lock  *)
(* file over the index.  A Refresher is `status`: it reads the index BEFORE    *)
(* it tries for the lock, and publishes what it read with newer stat data only *)
(* when the index did not change in between.                                   *)
(*                                                                             *)
(* The index is a function from the writers to a value: writer w edits its own *)
(* path only, so an update that another writer's commit loses is visible.      *)
(* Stat data is not told apart here (module WorkTree is about it), so what a  *)
(* refresher publishes is the index it read.                                   *)
EXTENDS Integers, FiniteSets

CONSTANTS
  Writers,      \* processes that take the lock with acquireIndexLock
  Refreshers,   \* processes that take it with acquireOptionalIndexLock
  Vals,         \* what a path may be staged as
  EmptyFile,    \* the zero bytes of a lock file nobody has staged in
  Breakers,     \* the writers whose ctx.config.breakStaleLockMs is set
  StaleAge,     \* its value, in ticks: a lock this old may be broken
  SlowHolders,  \* may a live holder keep the lock for StaleAge or longer?
  Crashes       \* may a process die holding the lock?

(* A parsed index, and the content of a file.                                  *)
ParsedIndexes == [Writers -> Vals]
FileContents == ParsedIndexes \cup {EmptyFile}

ASSUME IndexLockAssumption ==
  /\ Writers \cap Refreshers = {}
  /\ EmptyFile \notin ParsedIndexes
  /\ Breakers \subseteq Writers
  /\ SlowHolders \in BOOLEAN /\ Crashes \in BOOLEAN
  /\ StaleAge \in Nat

VARIABLES
  indexFile, \* content of .git/index
  indexLock, \* .git/index.lock: NoLock, or its age and content
  pc,        \* where each process is in its cycle
  snap,      \* the index each process last read
  err        \* code each process's last operation ended with

lockVars == <<indexFile, indexLock, pc, snap, err>>

Processes == Writers \cup Refreshers

NoLock == [age |-> -1, content |-> EmptyFile]
LockFile == [age : 0..StaleAge, content : FileContents]
Created == [age |-> 0, content |-> EmptyFile]

WriterPcs == {"idle", "probe", "recreate", "break", "retry", "read", "stage",
              "publish", "release"}
RefresherPcs == {"idle", "acquire", "compare", "stage", "publish", "release"}

(* Between a successful exclusive create and the rename or unlink that ends it. *)
Holding == {"read", "compare", "stage", "publish", "release"}

Codes == {"none", "RESOURCE_LOCKED", "FILE_EXISTS", "FILE_NOT_FOUND", "INVALID_INDEX",
          "killed"}

Exists(l) == l # NoLock

LockInit ==
  /\ indexFile \in ParsedIndexes
  /\ indexLock = NoLock
  /\ pc = [p \in Processes |-> "idle"]
  /\ snap = [p \in Processes |-> indexFile]
  /\ err = [p \in Processes |-> "none"]

GoTo(p, label) == pc' = [pc EXCEPT ![p] = label]

Throw(p, code) ==
  /\ GoTo(p, "idle")
  /\ err' = [err EXCEPT ![p] = code]

(* writeExclusive(lockPath, new Uint8Array()): create or FILE_EXISTS.          *)
CreateLock(p, next) ==
  /\ ~Exists(indexLock)
  /\ indexLock' = Created
  /\ GoTo(p, next)
  /\ err' = [err EXCEPT ![p] = "none"]
  /\ UNCHANGED <<indexFile, snap>>

-----------------------------------------------------------------------------
(* acquireIndexLock *)

AcquireIndexLock(w) ==
  /\ pc[w] = "idle"
  /\ CreateLock(w, "read")

(* Mutation: breakStaleLockMs is not looked at.                                *)
AcquireContendedRefuses(w) ==
  /\ pc[w] = "idle"
  /\ Exists(indexLock)
  /\ Throw(w, "RESOURCE_LOCKED")
  /\ UNCHANGED <<indexFile, indexLock, snap>>

(* FILE_EXISTS: without a break window the command is refused.                 *)
AcquireContended(w) ==
  /\ pc[w] = "idle"
  /\ Exists(indexLock)
  /\ IF w \in Breakers
       THEN GoTo(w, "probe") /\ UNCHANGED err
       ELSE Throw(w, "RESOURCE_LOCKED")
  /\ UNCHANGED <<indexFile, indexLock, snap>>

(* maybeBreakStaleLock: the lock's age is read once and judged at once.  An    *)
(* age below zero (a clock set back) is also below the window, as the window   *)
(* is never negative, so the two refusals are one guard.                       *)
Probe(w) ==
  /\ pc[w] = "probe"
  /\ \/ ~Exists(indexLock) /\ GoTo(w, "recreate") /\ UNCHANGED err
     \/ Exists(indexLock) /\ indexLock.age < StaleAge /\ Throw(w, "RESOURCE_LOCKED")
     \/ Exists(indexLock) /\ indexLock.age >= StaleAge /\ GoTo(w, "break") /\ UNCHANGED err
  /\ UNCHANGED <<indexFile, indexLock, snap>>

(* The lock vanished: one more exclusive create, its error not translated.     *)
Recreate(w) ==
  /\ pc[w] = "recreate"
  /\ \/ CreateLock(w, "read")
     \/ Exists(indexLock) /\ Throw(w, "FILE_EXISTS") /\ UNCHANGED <<indexFile, indexLock, snap>>

(* ctx.fs.rm(lockPath): whatever file has the name now.                        *)
BreakLock(w) ==
  /\ pc[w] = "break"
  /\ \/ Exists(indexLock) /\ indexLock' = NoLock /\ GoTo(w, "retry") /\ UNCHANGED err
     \/ ~Exists(indexLock) /\ Throw(w, "FILE_NOT_FOUND") /\ UNCHANGED indexLock
  /\ UNCHANGED <<indexFile, snap>>

(* The single retry after a break.                                             *)
Retry(w) ==
  /\ pc[w] = "retry"
  /\ \/ CreateLock(w, "read")
     \/ Exists(indexLock) /\ Throw(w, "RESOURCE_LOCKED") /\ UNCHANGED <<indexFile, indexLock, snap>>

-----------------------------------------------------------------------------
(* The writer's body under the lock *)

(* Mutation: the writer edits the index it had read before it took the lock.   *)
ReadIndexBeforeLock(w) ==
  /\ pc[w] = "read"
  /\ GoTo(w, "stage")
  /\ UNCHANGED <<indexFile, indexLock, snap, err>>

(* readIndex; an empty index file has no header.                               *)
ReadUnderLock(w) ==
  /\ pc[w] = "read"
  /\ \/ /\ indexFile # EmptyFile
        /\ snap' = [snap EXCEPT ![w] = indexFile]
        /\ GoTo(w, "stage")
        /\ UNCHANGED err
     \/ /\ indexFile = EmptyFile
        /\ GoTo(w, "release")
        /\ err' = [err EXCEPT ![w] = "INVALID_INDEX"]
        /\ UNCHANGED snap
  /\ UNCHANGED <<indexFile, indexLock>>

(* commitLocked up to stageLock: fs.write to the lock path, by name, creating  *)
(* the file when it is not there.                                              *)
Stage(w) ==
  /\ pc[w] = "stage"
  /\ \E v \in Vals :
       indexLock' = [age |-> 0, content |-> [snap[w] EXCEPT ![w] = v]]
  /\ GoTo(w, "publish")
  /\ UNCHANGED <<indexFile, snap, err>>

(* publishLock: rename the lock file over the index.  Once committed, release  *)
(* does nothing.  A rename of a missing file fails the command.                *)
Publish(p) ==
  /\ pc[p] = "publish"
  /\ \/ /\ Exists(indexLock)
        /\ indexFile' = indexLock.content
        /\ indexLock' = NoLock
        /\ GoTo(p, "idle")
        /\ UNCHANGED err
     \/ /\ ~Exists(indexLock)
        /\ GoTo(p, "release")
        /\ err' = [err EXCEPT ![p] = "FILE_NOT_FOUND"]
        /\ UNCHANGED <<indexFile, indexLock>>
  /\ UNCHANGED snap

(* Mutation: a body that throws does not release the lock.                     *)
GiveUpWithoutRelease(p) ==
  /\ pc[p] \in Holding \ {"release"}
  /\ GoTo(p, "idle")
  /\ UNCHANGED <<indexFile, indexLock, snap, err>>

(* The body throws, or ends without a commit: the finally block releases.      *)
GiveUp(p) ==
  /\ pc[p] \in Holding \ {"release"}
  /\ GoTo(p, "release")
  /\ UNCHANGED <<indexFile, indexLock, snap, err>>

(* releaseLock: unlink by name; a missing file is fine.                        *)
ReleaseLock(p) ==
  /\ pc[p] = "release"
  /\ indexLock' = NoLock
  /\ GoTo(p, "idle")
  /\ UNCHANGED <<indexFile, snap, err>>

-----------------------------------------------------------------------------
(* status: scan, then the optional lock, then commitRefreshed *)

Scan(r) ==
  /\ pc[r] = "idle"
  /\ indexFile # EmptyFile
  /\ snap' = [snap EXCEPT ![r] = indexFile]
  /\ GoTo(r, "acquire")
  /\ UNCHANGED <<indexFile, indexLock, err>>

(* Mutation: the refresher is sent on the writers' path.                       *)
AcquireOptionalAsWriter(r) ==
  /\ pc[r] = "acquire"
  /\ \/ CreateLock(r, "read")
     \/ Exists(indexLock) /\ GoTo(r, "idle") /\ UNCHANGED <<indexFile, indexLock, snap, err>>

(* acquireOptionalIndexLock: any failure means carrying on without the write.  *)
AcquireOptional(r) ==
  /\ pc[r] = "acquire"
  /\ \/ CreateLock(r, "compare")
     \/ Exists(indexLock) /\ GoTo(r, "idle") /\ UNCHANGED <<indexFile, indexLock, snap, err>>

(* Mutation: the index on disk is not compared with the one that was read.     *)
CompareSkipped(r) ==
  /\ pc[r] = "compare"
  /\ GoTo(r, "stage")
  /\ UNCHANGED <<indexFile, indexLock, snap, err>>

(* writeRefreshed: the trailer of the index on disk against the one read.      *)
Compare(r) ==
  /\ pc[r] = "compare"
  /\ IF indexFile = snap[r] THEN GoTo(r, "stage") ELSE GoTo(r, "release")
  /\ UNCHANGED <<indexFile, indexLock, snap, err>>

StageRefresh(r) ==
  /\ pc[r] = "stage"
  /\ indexLock' = [age |-> 0, content |-> snap[r]]
  /\ GoTo(r, "publish")
  /\ UNCHANGED <<indexFile, snap, err>>

-----------------------------------------------------------------------------
(* The environment *)

(* The process dies holding the lock and is started again: its lock file       *)
(* stays.  A death elsewhere leaves nothing behind that others could see.      *)
Crash(p) ==
  /\ Crashes
  /\ pc[p] \in Holding
  /\ Throw(p, "killed")
  /\ UNCHANGED <<indexFile, indexLock, snap>>

(* Time passes for an existing lock file; beyond StaleAge nothing changes.     *)
LockAges ==
  /\ Exists(indexLock)
  /\ indexLock.age < StaleAge
  /\ SlowHolders \/ indexLock.age + 1 < StaleAge \/ \A p \in Processes : pc[p] \notin Holding
  /\ indexLock' = [indexLock EXCEPT !.age = @ + 1]
  /\ UNCHANGED <<indexFile, pc, snap, err>>

WriterStep(w) ==
  \/ AcquireIndexLock(w) \/ AcquireContended(w) \/ Probe(w) \/ Recreate(w) \/ BreakLock(w)
  \/ Retry(w) \/ ReadUnderLock(w) \/ Stage(w)

RefresherStep(r) == Scan(r) \/ AcquireOptional(r) \/ Compare(r) \/ StageRefresh(r)

SharedStep(p) == Publish(p) \/ GiveUp(p) \/ ReleaseLock(p) \/ Crash(p)

LockNext ==
  \/ \E w \in Writers : WriterStep(w)
  \/ \E r \in Refreshers : RefresherStep(r)
  \/ \E p \in Processes : SharedStep(p)
  \/ LockAges

(* An async function that holds the lock runs on to its finally block as long  *)
(* as its file-system calls return, and time passes.                           *)
Finish(p) ==
  \/ p \in Writers /\ (ReadUnderLock(p) \/ Stage(p))
  \/ p \in Refreshers /\ (AcquireOptional(p) \/ Compare(p) \/ StageRefresh(p))
  \/ Publish(p) \/ GiveUp(p) \/ ReleaseLock(p)

(* A command that is called again after a refusal, up to holding the lock.     *)
Recover(w) ==
  \/ AcquireIndexLock(w) \/ AcquireContended(w) \/ Probe(w) \/ Recreate(w) \/ BreakLock(w) \/ Retry(w)

LockSpec == LockInit /\ [][LockNext]_lockVars

FairSpec ==
  /\ LockSpec
  /\ \A p \in Processes : WF_lockVars(Finish(p))
  /\ \A w \in Writers : WF_lockVars(Recover(w))
  /\ WF_lockVars(LockAges)

-----------------------------------------------------------------------------
(* Properties *)

(* Every variable holds a value of its type.                                   *)
LockTypeOK ==
  /\ indexFile \in FileContents
  /\ indexLock \in LockFile \cup {NoLock}
  /\ pc \in [Processes -> WriterPcs \cup RefresherPcs]
  /\ \A w \in Writers : pc[w] \in WriterPcs
  /\ \A r \in Refreshers : pc[r] \in RefresherPcs
  /\ snap \in [Processes -> ParsedIndexes]
  /\ err \in [Processes -> Codes]

(* At most one process is between its exclusive create and the end of its      *)
(* cycle, and index.lock exists while it is: nobody's lock file is removed or  *)
(* renamed by another process.                                                 *)
OneHolder ==
  \A p \in Processes : pc[p] \in Holding =>
    /\ Exists(indexLock)
    /\ \A q \in Processes : pc[q] \in Holding => q = p

(* What the holder is about to commit is built on the index as it is on disk:  *)
(* its snapshot is current while it stages, and the staged file differs from   *)
(* the index by its own edit only, or for a refresher not at all.              *)
CommitIsCurrent ==
  /\ indexFile \in ParsedIndexes
  /\ \A p \in Processes : pc[p] = "stage" => snap[p] = indexFile
  /\ \A w \in Writers : pc[w] = "publish" =>
       \E v \in Vals : indexLock.content = [indexFile EXCEPT ![w] = v]
  /\ \A r \in Refreshers : pc[r] = "publish" => indexLock.content = indexFile

(* Whatever the interleaving of commits, refreshes, failures and crashes, the  *)
(* index moves only by one writer's own edit of the index as it was: no commit *)
(* and no refresh puts back what it read before another commit.                *)
NoLostUpdate ==
  [][\E w \in Writers, v \in Vals : indexFile' = [indexFile EXCEPT ![w] = v]]_indexFile

(* Only a crash leaves a lock file behind: every path out of the cycle, the    *)
(* refused, failed and degraded ones too, renames or unlinks it.               *)
LeavesNoLock ==
  [][\A p \in Processes : pc[p] \in Holding /\ pc'[p] \notin Holding =>
        ~Exists(indexLock') \/ err'[p] = "killed"]_lockVars

(* Every lock file goes away again, the one of a process that died too, as     *)
(* long as one of the commands that are called again may break it.             *)
LockFreed == Exists(indexLock) ~> ~Exists(indexLock)
=============================================================================
