------------------------------ MODULE IndexProofs ------------------------------
(* Proofs about the index: its lock (IndexLock), for every set of writers and *)
(* refreshers, and its entries (WorkTree), for every set of paths, processes, *)
(* contents and trees, every length a content may have and every number of edits, *)
(* commands and granules. *)
EXTENDS WorkTree, IndexLock, TLAPS

------------------------------
(* The index lock. *)

(* NoLock is no lock file: its age is below every age a file can have. *)
LEMMA NoLockIsNoFile == NoLock \notin LockFile
  BY IndexLockAssumption DEF NoLock, LockFile

(* A just created lock file is a lock file. *)
LEMMA CreatedIsFile == Created \in LockFile
  BY IndexLockAssumption DEF Created, LockFile, FileContents

(* Types are kept by every step, stale-lock breaking and crashes included. *)
LEMMA TypeStep == LockTypeOK /\ [LockNext]_lockVars => LockTypeOK'
<1> SUFFICES ASSUME LockTypeOK, [LockNext]_lockVars PROVE LockTypeOK' OBVIOUS
<1> USE IndexLockAssumption, NoLockIsNoFile, CreatedIsFile DEF LockTypeOK
<1>1. CASE UNCHANGED lockVars BY <1>1 DEF lockVars
<1>2. ASSUME NEW w \in Writers, WriterStep(w) PROVE LockTypeOK'
  <2> USE DEF Processes, WriterPcs, Codes, GoTo, Throw, CreateLock
  <2>1. CASE AcquireIndexLock(w) BY <2>1 DEF AcquireIndexLock
  <2>2. CASE AcquireContended(w) BY <2>2 DEF AcquireContended
  <2>3. CASE Probe(w) BY <2>3 DEF Probe
  <2>4. CASE Recreate(w) BY <2>4 DEF Recreate
  <2>5. CASE BreakLock(w) BY <2>5 DEF BreakLock
  <2>6. CASE Retry(w) BY <2>6 DEF Retry
  <2>7. CASE ReadUnderLock(w) BY <2>7 DEF ReadUnderLock, FileContents
  <2>8. CASE Stage(w)
    <3>1. PICK v \in Vals : indexLock' = [age |-> 0, content |-> [snap[w] EXCEPT ![w] = v]] BY <2>8 DEF Stage
    <3>2. [snap[w] EXCEPT ![w] = v] \in FileContents BY DEF FileContents, ParsedIndexes
    <3>3. indexLock' \in LockFile BY <3>1, <3>2 DEF LockFile
    <3> QED BY <2>8, <3>3 DEF Stage
  <2> QED BY <1>2, <2>1, <2>2, <2>3, <2>4, <2>5, <2>6, <2>7, <2>8 DEF WriterStep
<1>3. ASSUME NEW r \in Refreshers, RefresherStep(r) PROVE LockTypeOK'
  <2> USE DEF Processes, RefresherPcs, Codes, GoTo, CreateLock
  <2>1. CASE Scan(r) BY <2>1 DEF Scan, FileContents
  <2>2. CASE AcquireOptional(r) BY <2>2 DEF AcquireOptional
  <2>3. CASE Compare(r) BY <2>3 DEF Compare
  <2>4. CASE StageRefresh(r)
    <3>1. indexLock' \in LockFile BY <2>4 DEF StageRefresh, LockFile, FileContents
    <3> QED BY <2>4, <3>1 DEF StageRefresh
  <2> QED BY <1>3, <2>1, <2>2, <2>3, <2>4 DEF RefresherStep
<1>4. ASSUME NEW p \in Processes, SharedStep(p) PROVE LockTypeOK'
  <2> USE DEF Processes, WriterPcs, RefresherPcs, GoTo
  <2>1. CASE Publish(p) BY <2>1 DEF Publish, Exists, LockFile, Codes
  <2>2. CASE GiveUp(p) BY <2>2 DEF GiveUp
  <2>3. CASE ReleaseLock(p) BY <2>3 DEF ReleaseLock
  <2>4. CASE Crash(p) BY <2>4 DEF Crash, Throw, Codes
  <2> QED BY <1>4, <2>1, <2>2, <2>3, <2>4 DEF SharedStep
<1>5. CASE LockAges
  <2>1. indexLock \in LockFile BY <1>5 DEF LockAges, Exists
  <2>2. indexLock' \in LockFile BY <1>5, <2>1 DEF LockAges, LockFile
  <2> QED BY <1>5, <2>2 DEF LockAges
<1> QED BY <1>1, <1>2, <1>3, <1>4, <1>5 DEF LockNext

(* The type invariant of every behaviour, with or without stale-lock breaking. *)
THEOREM TypeCorrect == LockSpec => []LockTypeOK
<1>1. LockInit => LockTypeOK
  BY DEF LockInit, LockTypeOK, Processes, WriterPcs, RefresherPcs, FileContents, Codes
<1> QED BY <1>1, TypeStep, PTL DEF LockSpec

------------------------------
(* What makes breaking safe: nobody does it, or a single process does and no *)
(* live holder keeps its lock for as long as the window. *)
SafeBreaking ==
  \/ Breakers = {}
  \/ ~SlowHolders /\ StaleAge > 0 /\ \A v, w \in Breakers : v = w

(* A lock that is held is younger than the window, and the lock of a process *)
(* that is about to break it is not, so that nobody holds it. *)
BreakingInv ==
  /\ \A w \in Writers : pc[w] \in {"probe", "recreate", "break", "retry"} => w \in Breakers
  /\ Breakers # {} => \A p \in Processes : pc[p] \in Holding => indexLock.age < StaleAge
  /\ \A w \in Writers : pc[w] = "break" => Exists(indexLock) /\ indexLock.age >= StaleAge

(* The inductive invariant: only a holder, or the breaker of a lock that *)
(* nobody holds, removes the lock file. *)
LockInv ==
  /\ LockTypeOK
  /\ OneHolder
  /\ CommitIsCurrent
  /\ BreakingInv

(* The index starts unlocked. *)
LEMMA LockInvInit == LockInit => LockInv
  BY IndexLockAssumption
  DEF LockInit, LockInv, LockTypeOK, OneHolder, CommitIsCurrent, Processes, WriterPcs, RefresherPcs,
      FileContents, Codes, Holding, BreakingInv

(* A breaker that is about to remove the lock file removes nobody's: the lock *)
(* is too old to be held. *)
LEMMA NobodyHoldsBroken ==
  ASSUME LockInv, NEW w \in Writers, pc[w] = "break"
  PROVE  \A p \in Processes : pc[p] \notin Holding
<1>1. w \in Breakers /\ Exists(indexLock) /\ indexLock.age >= StaleAge BY DEF LockInv, BreakingInv
<1>2. indexLock.age \in Int /\ StaleAge \in Int
  BY <1>1, IndexLockAssumption DEF LockInv, LockTypeOK, LockFile, Exists
<1>3. \A p \in Processes : pc[p] \in Holding => indexLock.age < StaleAge BY <1>1 DEF LockInv, BreakingInv
<1> QED BY <1>1, <1>2, <1>3

(* Every step keeps the lock one process's and what it is about to commit *)
(* current. *)
LEMMA CoreStep == SafeBreaking /\ LockInv /\ [LockNext]_lockVars => (OneHolder /\ CommitIsCurrent)'
<1> SUFFICES ASSUME SafeBreaking, LockInv, [LockNext]_lockVars PROVE (OneHolder /\ CommitIsCurrent)' OBVIOUS
<1>0. LockTypeOK' BY TypeStep DEF LockInv
<1> USE IndexLockAssumption, <1>0, NoLockIsNoFile, CreatedIsFile
    DEF LockInv, LockTypeOK, OneHolder, CommitIsCurrent, Processes
<1>1. CASE UNCHANGED lockVars BY <1>1 DEF lockVars
<1>2. ASSUME NEW w \in Writers, WriterStep(w) PROVE (OneHolder /\ CommitIsCurrent)'
  <2> USE DEF GoTo, Throw, CreateLock, Holding, Exists
  <2>1. CASE AcquireIndexLock(w) BY <2>1 DEF AcquireIndexLock
  <2>2. CASE AcquireContended(w) BY <2>2 DEF AcquireContended
  <2>3. CASE Probe(w) \/ Recreate(w) \/ BreakLock(w) \/ Retry(w)
    <3>1. CASE Probe(w) BY <3>1 DEF Probe
    <3>2. CASE Recreate(w)
      <4>1. CASE CreateLock(w, "read") BY <3>2, <4>1 DEF Recreate
      <4>2. CASE ~CreateLock(w, "read")
        <5>1. UNCHANGED <<indexFile, indexLock, snap>> /\ pc' = [pc EXCEPT ![w] = "idle"]
          BY <3>2, <4>2 DEF Recreate
        <5> QED BY <3>2, <5>1 DEF Recreate
      <4> QED BY <4>1, <4>2
    <3>3. CASE BreakLock(w) BY <3>3, NobodyHoldsBroken DEF BreakLock
    <3>4. CASE Retry(w)
      <4>1. CASE CreateLock(w, "read") BY <3>4, <4>1 DEF Retry
      <4>2. CASE ~CreateLock(w, "read")
        <5>1. UNCHANGED <<indexFile, indexLock, snap>> /\ pc' = [pc EXCEPT ![w] = "idle"]
          BY <3>4, <4>2 DEF Retry
        <5> QED BY <3>4, <5>1 DEF Retry
      <4> QED BY <4>1, <4>2
    <3> QED BY <2>3, <3>1, <3>2, <3>3, <3>4
  <2>4. CASE ReadUnderLock(w) BY <2>4 DEF ReadUnderLock
  <2>5. CASE Stage(w)
    <3>1. PICK v \in Vals : indexLock' = [age |-> 0, content |-> [indexFile EXCEPT ![w] = v]]
      BY <2>5 DEF Stage
    <3>2. indexLock' # NoLock BY <3>1 DEF NoLock
    <3>3. indexLock'.content = [indexFile' EXCEPT ![w] = v] BY <2>5, <3>1 DEF Stage
    <3> QED BY <2>5, <3>2, <3>3 DEF Stage
  <2> QED BY <1>2, <2>1, <2>2, <2>3, <2>4, <2>5 DEF WriterStep
<1>3. ASSUME NEW r \in Refreshers, RefresherStep(r) PROVE (OneHolder /\ CommitIsCurrent)'
  <2> USE DEF GoTo, CreateLock, Holding, Exists
  <2>1. CASE Scan(r) BY <2>1 DEF Scan
  <2>2. CASE AcquireOptional(r)
    <3>1. CASE CreateLock(r, "compare")
      <4>1. indexLock = NoLock /\ indexLock' = Created /\ indexFile' = indexFile /\ snap' = snap /\ pc' = [pc EXCEPT ![r] = "compare"]
        BY <3>1
      <4>2. \A q \in Processes : pc[q] \notin Holding BY <4>1
      <4> QED BY <4>1, <4>2
    <3>2. CASE ~CreateLock(r, "compare")
      <4>1. UNCHANGED <<indexFile, indexLock, snap>> /\ pc' = [pc EXCEPT ![r] = "idle"]
        BY <2>2, <3>2 DEF AcquireOptional
      <4> QED BY <4>1
    <3> QED BY <3>1, <3>2
  <2>3. CASE Compare(r) BY <2>3 DEF Compare
  <2>4. CASE StageRefresh(r)
    <3>1. indexLock' # NoLock /\ indexLock'.content = indexFile' BY <2>4 DEF StageRefresh, NoLock
    <3> QED BY <2>4, <3>1 DEF StageRefresh
  <2> QED BY <1>3, <2>1, <2>2, <2>3, <2>4 DEF RefresherStep
<1>4. ASSUME NEW p \in Processes, SharedStep(p) PROVE (OneHolder /\ CommitIsCurrent)'
  <2> USE DEF GoTo, Holding, Exists
  <2>1. CASE Publish(p)
    <3>1. indexLock # NoLock /\ indexFile' = indexLock.content /\ indexLock' = NoLock BY <2>1 DEF Publish
    <3>2. \A q \in Processes : pc'[q] \notin Holding BY <2>1 DEF Publish
    <3>3. indexFile' \in ParsedIndexes
      <4>1. CASE p \in Refreshers BY <2>1, <3>1, <4>1 DEF Publish
      <4>2. CASE p \in Writers
        <5>1. PICK v \in Vals : indexFile' = [indexFile EXCEPT ![p] = v] BY <2>1, <3>1, <4>2 DEF Publish
        <5> QED BY <4>2, <5>1 DEF ParsedIndexes
      <4> QED BY <4>1, <4>2
    <3> QED BY <2>1, <3>2, <3>3 DEF Publish
  <2>2. CASE GiveUp(p) BY <2>2 DEF GiveUp
  <2>3. CASE ReleaseLock(p) BY <2>3 DEF ReleaseLock
  <2>4. CASE Crash(p) BY <2>4 DEF Crash, Throw, Codes
  <2> QED BY <1>4, <2>1, <2>2, <2>3, <2>4 DEF SharedStep
<1>5. CASE LockAges
  <2>1. indexLock' # NoLock /\ indexLock'.content = indexLock.content
    BY <1>5 DEF LockAges, NoLock, LockFile, Exists
  <2> QED BY <1>5, <2>1 DEF LockAges, Exists
<1> QED BY <1>1, <1>2, <1>3, <1>4, <1>5 DEF LockNext

(* Every step keeps a lock that is judged stale one that nobody holds. *)
LEMMA BreakingStep == SafeBreaking /\ LockInv /\ [LockNext]_lockVars => BreakingInv'
<1> SUFFICES ASSUME SafeBreaking, LockInv, [LockNext]_lockVars PROVE BreakingInv' OBVIOUS
<1>1. /\ NoLock.age = -1 /\ Created.age = 0 /\ Created # NoLock
      /\ StaleAge \in Nat /\ indexLock \in LockFile \cup {NoLock}
      /\ \A l \in LockFile : l.age \in 0..StaleAge /\ l # NoLock
  BY IndexLockAssumption, NoLockIsNoFile DEF NoLock, Created, LockFile, LockInv, LockTypeOK
<1>2. Breakers # {} => StaleAge > 0 /\ ~SlowHolders /\ \A v, w \in Breakers : v = w BY DEF SafeBreaking
<1>3. pc \in [Processes -> WriterPcs \cup RefresherPcs] BY DEF LockInv, LockTypeOK
<1> USE <1>1, <1>2, <1>3, IndexLockAssumption DEF BreakingInv, LockInv, Processes, Holding, Exists
<1>4. CASE UNCHANGED lockVars BY <1>4 DEF lockVars
<1>5. ASSUME NEW w \in Writers, WriterStep(w) PROVE BreakingInv'
  <2> USE DEF GoTo, Throw, CreateLock, OneHolder
  <2>1. CASE AcquireIndexLock(w) BY <2>1 DEF AcquireIndexLock
  <2>2. CASE AcquireContended(w) BY <2>2 DEF AcquireContended
  <2>3. CASE Probe(w) BY <2>3 DEF Probe
  <2>4. CASE Recreate(w) BY <2>4 DEF Recreate
  <2>5. CASE BreakLock(w)
    <3>1. \A p \in Processes : pc'[p] \notin Holding BY <2>5, NobodyHoldsBroken DEF BreakLock
    <3>2. \A v \in Writers : pc[v] = "break" => v = w BY <2>5 DEF BreakLock
    <3> QED BY <2>5, <3>1, <3>2 DEF BreakLock
  <2>6. CASE Retry(w) BY <2>6 DEF Retry
  <2>7. CASE ReadUnderLock(w) BY <2>7 DEF ReadUnderLock
  <2>8. CASE Stage(w)
    <3>1. \A v \in Writers : pc[v] # "break" BY <2>8, NobodyHoldsBroken DEF Stage
    <3>2. indexLock'.age = 0 /\ pc' = [pc EXCEPT ![w] = "publish"] BY <2>8 DEF Stage
    <3> QED BY <3>1, <3>2
  <2> QED BY <1>5, <2>1, <2>2, <2>3, <2>4, <2>5, <2>6, <2>7, <2>8 DEF WriterStep
<1>6. ASSUME NEW r \in Refreshers, RefresherStep(r) PROVE BreakingInv'
  <2> USE DEF GoTo, CreateLock
  <2>1. CASE Scan(r) BY <2>1 DEF Scan
  <2>2. CASE AcquireOptional(r) BY <2>2 DEF AcquireOptional
  <2>3. CASE Compare(r) BY <2>3 DEF Compare
  <2>4. CASE StageRefresh(r)
    <3>1. \A v \in Writers : pc[v] # "break" BY <2>4, NobodyHoldsBroken DEF StageRefresh
    <3>2. indexLock'.age = 0 /\ pc' = [pc EXCEPT ![r] = "publish"] BY <2>4 DEF StageRefresh
    <3> QED BY <3>1, <3>2
  <2> QED BY <1>6, <2>1, <2>2, <2>3, <2>4 DEF RefresherStep
<1>7. ASSUME NEW p \in Processes, SharedStep(p) PROVE BreakingInv'
  <2> USE DEF GoTo
  <2>1. pc[p] \in Holding /\ \A v \in Writers : pc[v] # "break"
    BY <1>7, NobodyHoldsBroken DEF SharedStep, Publish, GiveUp, ReleaseLock, Crash
  <2>2. CASE Publish(p) \/ ReleaseLock(p)
    <3>1. \A q \in Processes : pc[q] \in Holding => q = p BY <2>1 DEF OneHolder
    <3>2. pc' = [pc EXCEPT ![p] = "idle"] BY <2>1, <2>2 DEF Publish, ReleaseLock, OneHolder
    <3> QED BY <2>1, <3>1, <3>2
  <2>3. CASE GiveUp(p) BY <2>1, <2>3 DEF GiveUp
  <2>4. CASE Crash(p) BY <2>1, <2>4 DEF Crash, Throw
  <2> QED BY <1>7, <2>2, <2>3, <2>4 DEF SharedStep
<1>8. CASE LockAges
  <2>1. indexLock' \in LockFile /\ indexLock'.age = indexLock.age + 1 /\ pc' = pc
    BY <1>8 DEF LockAges, LockFile
  <2>2. Breakers # {} /\ indexLock'.age >= StaleAge => \A p \in Processes : pc[p] \notin Holding
    BY <1>8, <2>1 DEF LockAges
  <2> QED BY <2>1, <2>2
<1> QED BY <1>4, <1>5, <1>6, <1>7, <1>8 DEF LockNext

(* Every step keeps the inductive invariant. *)
LEMMA LockInvStep == SafeBreaking /\ LockInv /\ [LockNext]_lockVars => LockInv'
  BY TypeStep, CoreStep, BreakingStep DEF LockInv

(* Mutual exclusion, and the commit under way is built on the current index. *)
THEOREM LockSafety ==
  ASSUME SafeBreaking
  PROVE  LockSpec => [](OneHolder /\ CommitIsCurrent)
<1>1. LockInv => OneHolder /\ CommitIsCurrent BY DEF LockInv
<1> QED BY <1>1, LockInvInit, LockInvStep, PTL DEF LockSpec

(* No commit and no refresh undoes another process's commit. *)
THEOREM NoUpdateIsLost ==
  ASSUME SafeBreaking
  PROVE  LockSpec => NoLostUpdate
<1>1. LockInv /\ [LockNext]_lockVars =>
        [\E w \in Writers, v \in Vals : indexFile' = [indexFile EXCEPT ![w] = v]]_indexFile
  <2> SUFFICES ASSUME LockInv, LockNext, indexFile' # indexFile
               PROVE  \E w \in Writers, v \in Vals : indexFile' = [indexFile EXCEPT ![w] = v]
    BY DEF lockVars
  <2>1. PICK p \in Processes : Publish(p)
    BY DEF LockNext, WriterStep, RefresherStep, SharedStep, LockAges, AcquireIndexLock, AcquireContended, Probe,
       Recreate, BreakLock, Retry, ReadUnderLock, Stage, Scan, AcquireOptional, Compare,
       StageRefresh, GiveUp, ReleaseLock, Crash, CreateLock
  <2>2. indexFile' = indexLock.content /\ pc[p] = "publish" BY <2>1 DEF Publish
  <2> QED BY <2>2 DEF LockInv, CommitIsCurrent, Processes
<1> QED BY <1>1, LockInvInit, LockInvStep, PTL DEF LockSpec, NoLostUpdate

(* However its cycle ends, a live process leaves no lock file behind. *)
THEOREM OnlyCrashesLeaveLocks == LockSpec => LeavesNoLock
<1>1. LockTypeOK /\ [LockNext]_lockVars =>
        [\A p \in Processes : pc[p] \in Holding /\ pc'[p] \notin Holding =>
           ~Exists(indexLock') \/ err'[p] = "killed"]_lockVars
  <2> SUFFICES ASSUME LockTypeOK, LockNext, NEW p \in Processes, pc[p] \in Holding, pc'[p] \notin Holding
               PROVE  ~Exists(indexLock') \/ err'[p] = "killed"
    OBVIOUS
  <2> USE DEF GoTo, Throw, CreateLock, Holding, Exists
  <2>0. pc \in [Processes -> WriterPcs \cup RefresherPcs] /\ err \in [Processes -> Codes] BY DEF LockTypeOK
  <2>1. ~LockAges BY DEF LockAges
  <2>2. ASSUME NEW w \in Writers, WriterStep(w) PROVE FALSE
    BY <2>0, <2>2 DEF WriterStep, AcquireIndexLock, AcquireContended, Probe, Recreate, BreakLock, Retry,
       ReadUnderLock, Stage, Processes
  <2>3. ASSUME NEW r \in Refreshers, RefresherStep(r) PROVE FALSE
    BY <2>0, <2>3 DEF RefresherStep, Scan, AcquireOptional, Compare, StageRefresh, Processes
  <2>4. ASSUME NEW q \in Processes, SharedStep(q) PROVE ~Exists(indexLock') \/ err'[p] = "killed"
    BY <2>0, <2>4 DEF SharedStep, Publish, GiveUp, ReleaseLock, Crash
  <2> QED BY <2>1, <2>2, <2>3, <2>4 DEF LockNext
<1> QED BY <1>1, TypeCorrect, PTL DEF LockSpec, LeavesNoLock

------------------------------
(* The inductive invariant. What it says of a process is said of its locals `me`. *)

Fields == {"pc", "op", "path", "old", "target", "istat", "idx", "stat", "todo", "entries", "verified",
           "refreshed", "staged", "seen", "touched"}

\* The command has read the index.
HasRead(me) ==
  \/ me.pc \in {"scan", "content", "able", "stage", "judge", "check", "write", "smudge", "stageLock", "publish",
                "moveHead", "done"}
  \/ me.pc = "lock" /\ me.op = "status"

\* It holds index.lock: status only for its write-back, the others from the start.
HoldsLock(me) ==
  \/ me.pc \in {"able", "smudge", "stageLock", "publish"}
  \/ /\ me.op # "status"
     /\ me.pc \in {"statIndex", "readIndex", "scan", "content", "stage", "judge", "check", "write"}

\* Its stat is that of its path.
HasStat(me) == (me.op = "add" /\ me.pc \notin {"idle", "lstat"}) \/ (me.pc = "content" /\ me.op # "restore")

\* The locals are what the steps take them for.
LocalsOK(me) ==
  /\ DOMAIN me = Fields
  /\ me.pc \in Pcs
  /\ me.istat \in 0..MaxTick
  /\ me.idx \in Indexes \cup {None} /\ me.entries \in Entries \cup {None}
  /\ me.stat \in Stats \cup {None} /\ me.staged \in Indexes \cup {None}
  /\ me.todo \subseteq Paths /\ me.verified \subseteq Paths /\ me.seen \subseteq Paths /\ me.touched \subseteq Paths
  /\ IF HasRead(me) THEN me.idx \in Indexes /\ me.entries \in Entries ELSE me.idx = None
  /\ me.pc # "idle" /\ me.op \in {"add", "restore"} => me.path \in Paths
  /\ HasStat(me) => me.path \in Paths /\ me.stat \in Stats
  /\ me.pc # "idle" /\ me.op = "switch" => me.old \in Trees /\ me.target \in Trees
  /\ me.pc = "publish" => me.staged \in Indexes /\ me.staged.entries = me.entries

\* A command is only where its operation leads.
RouteOK(me) ==
  /\ me.pc # "idle" => me.op \in {"status", "add", "restore", "switch"}
  /\ ~HasRead(me) => me.verified = {}
  /\ me.pc \in {"lstat", "stage"} => me.op = "add"
  /\ me.pc = "able" => me.op = "status"
  /\ me.pc = "judge" => me.op = "restore"
  /\ me.pc \in {"check", "moveHead"} => me.op = "switch"
  /\ me.pc = "scan" => me.op \in {"status", "switch"}
  /\ me.pc = "write" => me.op \in {"restore", "switch"}
  /\ me.pc = "write" /\ me.op = "restore" => me.todo = {me.path}
  /\ me.pc \in {"scan", "content"} /\ me.op \in {"status", "switch"} =>
       /\ \A p \in me.todo : me.entries[p] = me.idx.entries[p] /\ p \notin me.verified
       /\ me.pc = "content" => me.path \in me.todo
  /\ me.pc \in {"stage", "judge", "content"} /\ me.op \in {"add", "restore"} =>
       me.entries = me.idx.entries /\ me.verified = {}

\* No stamp is later than the file's, or the index's, it was taken from.
TimesOK(me) ==
  /\ me.pc = "readIndex" => me.istat <= index.mtime
  /\ HasRead(me) => me.idx.mtime <= index.mtime /\ \A p \in Paths : me.entries[p].mtime <= files[p].mtime
  /\ HasStat(me) => me.stat.mtime <= files[me.path].mtime
  /\ me.pc = "publish" => index.mtime <= me.staged.mtime /\ me.staged.mtime <= now

\* An entry that agrees with its file by its stat is the file's content.
Sound(e, p) == p \in raced \/ (MatchesContentStat(e, Stat(p)) => Holds(e, p))

\* Of the entries it will write: the ones that are not the index's own, or that it
\* vouches for although they are racy, are those whose file it has looked into, and
\* from then on a change that keeps the mtime is raced.
EntryOK(me, p) ==
  \/ p \in me.seen /\ Sound(me.entries[p], p)
  \/ me.entries[p] = me.idx.entries[p] /\ (p \in me.verified => me.entries[p].mtime < me.idx.mtime)

\* Compared, the entries are sound, and stay so until the index has its stamp;
\* stamped, they never pass an edited file for clean.
EntriesOK(me) ==
  /\ HasRead(me) /\ me.pc \notin {"stageLock", "publish", "moveHead", "done"} => \A p \in Paths : EntryOK(me, p)
  /\ me.pc = "stageLock" =>
       \A p \in Paths : Sound(me.entries[p], p) /\ (p \in me.seen \/ me.entries[p].mtime < index.mtime)
  /\ me.pc = "publish" => SeenBy(me.staged.entries, me.staged.mtime)

\* The index it read passes no edited file for clean; under the lock it is the one on disk.
ReadOK(me) ==
  /\ HasRead(me) => SeenBy(me.idx.entries, me.idx.mtime)
  /\ HasRead(me) /\ ((HoldsLock(me) /\ me.op # "status") \/ me.pc \in {"stageLock", "publish"}) =>
       me.idx.entries = index.entries

\* What it has found of the files still holds, unless they were written to since.
FoundOK(me) ==
  /\ me.op = "status" /\ HasRead(me) =>
       \A p \in me.verified \ (raced \cup me.touched) : Holds(me.idx.entries[p], p)
  /\ me.op = "add" /\ HasStat(me) => me.path \in me.touched \/ me.stat = Stat(me.path)
  /\ me.op \in {"add", "restore"} /\ me.pc \in {"smudge", "stageLock", "publish", "done"} =>
       me.path \in raced \cup me.touched \/ Holds(me.entries[me.path], me.path)

\* The paths a switch writes.
Writes(me) == {p \in Paths : me.old[p] # me.target[p] /\ me.entries[p].id # me.target[p]}

\* A path the switch has checked and not yet written holds what is staged for it,
\* unless it was written to since.
CheckedOK(me) ==
  /\ me.pc = "check" => \A p \in Writes(me) \ me.todo : p \in me.touched \/ files[p].content = me.entries[p].id
  /\ me.pc = "write" /\ me.op = "switch" => \A p \in me.todo : p \in me.touched \/ files[p].content = me.entries[p].id

ProcOK(me) ==
  LocalsOK(me) /\ RouteOK(me) /\ TimesOK(me) /\ EntriesOK(me) /\ ReadOK(me) /\ FoundOK(me) /\ CheckedOK(me)

\* The files and the published index.
WorldOK ==
  /\ now \in 0..MaxTick /\ raced \subseteq Paths /\ head \in Trees
  /\ files \in [Paths -> [content : Contents, mtime : 0..MaxTick]] /\ \A p \in Paths : files[p].mtime <= now
  /\ index \in Indexes /\ index.mtime <= now /\ \A p \in Paths : index.entries[p].mtime <= files[p].mtime
  /\ EditsSeen

\* The lock is held by the process that is where it is held.
LockOK == lock \in Procs \cup {None} /\ \A q \in Procs : lock = q <=> HoldsLock(proc[q])

SessionsOK ==
  /\ edits \in 0..MaxEdits /\ runs \in 0..MaxRuns
  /\ cache \in [Procs -> Indexes \cup {None}]
  /\ proc = [q \in Procs |-> proc[q]]

WorkTreeIndInv == WorldOK /\ LockOK /\ SessionsOK /\ \A q \in Procs : ProcOK(proc[q])

------------------------------
(* The steps of a process that leave the files and the index alone. *)

\* The lock goes with the steps of its holder.
LockFollows(q, r) ==
  \/ lock' = lock /\ (HoldsLock(r) <=> HoldsLock(proc[q]))
  \/ lock = None /\ lock' = q /\ HoldsLock(r)
  \/ Release(q) /\ ~HoldsLock(r)

\* Process q goes on as r: if r is as it should be, everything is.
LEMMA StepKeeps ==
  ASSUME WorkTreeIndInv, NEW q \in Procs, NEW r, proc' = [proc EXCEPT ![q] = r], ProcOK(r), LockFollows(q, r),
         UNCHANGED <<now, files, index, raced, edits>>, head' \in Trees,
         runs' \in 0..MaxRuns, cache' \in [Procs -> Indexes \cup {None}]
  PROVE  WorkTreeIndInv'
<1> USE DEF WorkTreeIndInv
<1>1. UNCHANGED <<now, files, index, raced, edits>> /\ proc' = [proc EXCEPT ![q] = r] OBVIOUS
<1>2. proc = [s \in Procs |-> proc[s]] BY DEF SessionsOK
<1>3. proc' = [s \in Procs |-> IF s = q THEN r ELSE proc[s]] BY <1>1, <1>2
<1>4. proc' = [s \in Procs |-> proc'[s]] BY <1>3
<1>5. WorldOK'
  BY <1>1 DEF WorldOK, EditsSeen, SeenBy, IsEntryStatClean, IsRacy, MatchesContentStat, Stat, Holds
<1>6. SessionsOK' BY <1>1, <1>4 DEF SessionsOK
<1>7. ASSUME NEW s \in Procs PROVE ProcOK(proc[s])'
  <2>1. ProcOK(proc'[s]) BY <1>3
  <2>2. LocalsOK(proc[s])' /\ RouteOK(proc[s])' BY <2>1 DEF ProcOK, LocalsOK, RouteOK, HasRead, HasStat
  <2>2a. CheckedOK(proc[s])' BY <2>1, <1>1 DEF ProcOK, CheckedOK, Writes
  <2>3. TimesOK(proc[s])' BY <2>1, <1>1 DEF ProcOK, TimesOK, HasRead, HasStat
  <2>3a. FoundOK(proc[s])'
    <3>1. FoundOK(proc'[s]) BY <2>1 DEF ProcOK
    <3> QED BY <3>1, <1>1 DEF FoundOK, HasRead, HasStat, Stat, Holds
  <2>4. EntriesOK(proc[s])'
    <3>1. EntriesOK(proc'[s]) BY <2>1 DEF ProcOK
    <3>2. (HasRead(proc[s]) /\ proc[s].pc \notin {"stageLock", "publish", "moveHead", "done"} =>
             \A p \in Paths : EntryOK(proc[s], p))'
      BY <3>1, <1>1 DEF EntriesOK, EntryOK, Sound, MatchesContentStat, HasRead, Stat, Holds
    <3>3. (proc[s].pc = "stageLock" =>
             \A p \in Paths : Sound(proc[s].entries[p], p) /\ (p \in proc[s].seen \/ proc[s].entries[p].mtime < index.mtime))'
      BY <3>1, <1>1 DEF EntriesOK, Sound, MatchesContentStat, Stat, Holds
    <3>4. (proc[s].pc = "publish" => SeenBy(proc[s].staged.entries, proc[s].staged.mtime))'
      BY <3>1, <1>1 DEF EntriesOK, SeenBy, IsEntryStatClean, IsRacy, MatchesContentStat, Stat, Holds
    <3> QED BY <3>2, <3>3, <3>4 DEF EntriesOK
  <2>5. ReadOK(proc[s])'
    BY <2>1, <1>1 DEF ProcOK, ReadOK, SeenBy, IsEntryStatClean, IsRacy, MatchesContentStat, HasRead, HoldsLock, Stat, Holds
  <2> QED BY <2>2, <2>2a, <2>3, <2>3a, <2>4, <2>5 DEF ProcOK
<1>8. LockOK'
  <2>1. lock \in Procs \cup {None} /\ \A s \in Procs : lock = s <=> HoldsLock(proc[s]) BY DEF LockOK
  <2>2. lock' \in Procs \cup {None} BY <2>1 DEF LockFollows, Release
  <2>3. ASSUME NEW s \in Procs PROVE lock' = s <=> HoldsLock(proc'[s])
    <3>1. CASE s = q
      <4>1. proc'[s] = r BY <3>1, <1>3
      <4> QED BY <4>1, <3>1, <2>1, NoneAssumption DEF LockFollows, Release
    <3>2. CASE s # q
      <4>1. proc'[s] = proc[s] BY <3>2, <1>3
      <4> QED BY <4>1, <3>2, <2>1, NoneAssumption DEF LockFollows, Release
    <3> QED BY <3>1, <3>2
  <2> QED BY <2>2, <2>3 DEF LockOK, HoldsLock
<1> QED BY <1>5, <1>6, <1>7, <1>8

\* The same for the steps that leave HEAD alone too.
LEMMA GoKeeps ==
  ASSUME WorkTreeIndInv, NEW q \in Procs, NEW r, Go(q, r), ProcOK(r), LockFollows(q, r),
         runs' \in 0..MaxRuns, cache' \in [Procs -> Indexes \cup {None}]
  PROVE  WorkTreeIndInv'
  BY StepKeeps DEF Go, WorkTreeIndInv, WorldOK

\* A command that has not read the index promises nothing yet of its entries.
LEMMA NotReadOK ==
  ASSUME NEW me, LocalsOK(me), RouteOK(me), ~HasRead(me), TimesOK(me), FoundOK(me)
  PROVE  ProcOK(me)
  BY DEF ProcOK, EntriesOK, ReadOK, CheckedOK, HasRead

\* What a process finds when it takes a step.
LEMMA Facts ==
  ASSUME WorkTreeIndInv, NEW q \in Procs
  PROVE  /\ ProcOK(proc[q]) /\ WorldOK /\ (lock = q <=> HoldsLock(proc[q]))
         /\ runs \in 0..MaxRuns /\ cache \in [Procs -> Indexes \cup {None}]
         /\ cache[q] \in Indexes \cup {None}
  BY DEF WorkTreeIndInv, LockOK, SessionsOK

\* A fresh command may start anywhere before it reads the index.
LEMMA StartKeeps ==
  ASSUME WorkTreeIndInv, NEW q \in Procs, NEW r, Start(q, r), LocalsOK(r), RouteOK(r),
         r.pc \in {"statIndex", "lstat", "lock"}, r.pc = "statIndex" => r.op = "status", r.pc = "lock" => r.op \notin {"status", "add"}
  PROVE  WorkTreeIndInv'
<1>1. ProcOK(r)
  <2>1. ~HasRead(r) /\ ~HasStat(r) BY DEF HasRead, HasStat
  <2>2. TimesOK(r) /\ FoundOK(r) BY <2>1 DEF TimesOK, FoundOK
  <2> QED BY <2>1, <2>2, NotReadOK
<1>2. proc[q].pc = "idle" /\ Go(q, r) /\ UNCHANGED <<lock, cache>> /\ runs < MaxRuns /\ runs' = runs + 1
  BY DEF Start
<1>3. LockFollows(q, r) BY <1>2 DEF LockFollows, HoldsLock
<1>4. runs' \in 0..MaxRuns BY <1>2, Facts, BoundsAssumption
<1> QED BY <1>1, <1>2, <1>3, <1>4, GoKeeps, Facts

\* status starts.
LEMMA StatusKeeps ==
  ASSUME WorkTreeIndInv, NEW q \in Procs, Status(q)
  PROVE  WorkTreeIndInv'
<1> DEFINE r == [Idle EXCEPT !.op = "status", !.pc = "statIndex"]
<1>1. LocalsOK(r) /\ RouteOK(r) BY BoundsAssumption DEF Idle, LocalsOK, RouteOK, Fields, Pcs, HasRead, HasStat
<1>2. r.pc = "statIndex" /\ r.op = "status" BY DEF Idle
<1>3. Start(q, r) BY DEF Status
<1> QED BY <1>1, <1>2, <1>3, StartKeeps

\* add of a path starts.
LEMMA AddKeeps ==
  ASSUME WorkTreeIndInv, NEW q \in Procs, NEW p \in Paths, Add(q, p)
  PROVE  WorkTreeIndInv'
<1> DEFINE r == [Idle EXCEPT !.op = "add", !.pc = "lstat", !.path = p]
<1>1. LocalsOK(r) /\ RouteOK(r) BY BoundsAssumption DEF Idle, LocalsOK, RouteOK, Fields, Pcs, HasRead, HasStat
<1>2. r.pc = "lstat" /\ r.op = "add" BY DEF Idle
<1>3. Start(q, r) BY DEF Add
<1> QED BY <1>1, <1>2, <1>3, StartKeeps

\* A checkout of a path starts.
LEMMA RestoreKeeps ==
  ASSUME WorkTreeIndInv, NEW q \in Procs, NEW p \in Paths, Restore(q, p)
  PROVE  WorkTreeIndInv'
<1> DEFINE r == [Idle EXCEPT !.op = "restore", !.pc = "lock", !.path = p]
<1>1. LocalsOK(r) /\ RouteOK(r) BY BoundsAssumption DEF Idle, LocalsOK, RouteOK, Fields, Pcs, HasRead, HasStat
<1>2. r.pc = "lock" /\ r.op = "restore" BY DEF Idle
<1>3. Start(q, r) BY DEF Restore
<1> QED BY <1>1, <1>2, <1>3, StartKeeps

\* A checkout of a branch starts.
LEMMA SwitchKeeps ==
  ASSUME WorkTreeIndInv, NEW q \in Procs, NEW t \in Trees, Switch(q, t)
  PROVE  WorkTreeIndInv'
<1> DEFINE r == [Idle EXCEPT !.op = "switch", !.pc = "lock", !.target = t, !.old = head]
<1>0. head \in Trees BY Facts DEF WorldOK
<1>1. LocalsOK(r) /\ RouteOK(r)
  BY <1>0, BoundsAssumption DEF Idle, LocalsOK, RouteOK, Fields, Pcs, HasRead, HasStat
<1>2. r.pc = "lock" /\ r.op = "switch" BY DEF Idle
<1>3. Start(q, r) BY DEF Switch
<1> QED BY <1>1, <1>2, <1>3, StartKeeps

\* A command that ends, or gives up, is as it should be.
LEMMA IdleOK == ProcOK(Idle) /\ ~HoldsLock(Idle)
<1>1. LocalsOK(Idle) /\ RouteOK(Idle)
  BY BoundsAssumption DEF Idle, LocalsOK, RouteOK, Fields, Pcs, HasRead, HasStat
<1>2. TimesOK(Idle) /\ FoundOK(Idle) /\ ~HasRead(Idle) /\ ~HoldsLock(Idle)
  BY DEF Idle, TimesOK, FoundOK, HasRead, HasStat, HoldsLock
<1> QED BY <1>1, <1>2, NotReadOK

\* The command is refused; it gives its lock up.
LEMMA RefuseKeeps ==
  ASSUME WorkTreeIndInv, NEW q \in Procs, Refuse(q), UNCHANGED <<cache, runs>>,
         Release(q) \/ (UNCHANGED lock /\ ~HoldsLock(proc[q]))
  PROVE  WorkTreeIndInv'
<1>1. LockFollows(q, Idle) BY IdleOK DEF LockFollows
<1>2. Go(q, Idle) /\ cache' \in [Procs -> Indexes \cup {None}] /\ runs' \in 0..MaxRuns BY Facts DEF Refuse
<1> QED BY <1>1, <1>2, IdleOK, GoKeeps

\* The command is over with what it has found.
LEMMA EndedOK ==
  ASSUME NEW me, ProcOK(me), HasRead(me),
         me.op \in {"add", "restore"} => me.path \in raced \cup me.touched \/ Holds(me.entries[me.path], me.path)
  PROVE  ProcOK([me EXCEPT !.pc = "done", !.seen = {}]) /\ ~HoldsLock([me EXCEPT !.pc = "done", !.seen = {}])
<1> DEFINE r == [me EXCEPT !.pc = "done", !.seen = {}]
<1>1. DOMAIN me = Fields BY DEF ProcOK, LocalsOK
<1>2. /\ DOMAIN r = Fields /\ r.pc = "done" /\ r.seen = {}
      /\ \A f \in Fields \ {"pc", "seen"} : r[f] = me[f]
  BY <1>1 DEF Fields
<1>3. /\ r.op = me.op /\ r.path = me.path /\ r.old = me.old /\ r.target = me.target /\ r.istat = me.istat /\ r.idx = me.idx
      /\ r.stat = me.stat /\ r.todo = me.todo /\ r.entries = me.entries /\ r.verified = me.verified
      /\ r.staged = me.staged /\ r.touched = me.touched
  BY <1>2 DEF Fields
<1> HIDE DEF r
<1>4. HasRead(r) /\ ~HoldsLock(r) BY <1>2 DEF HasRead, HoldsLock
<1>5. me.pc # "idle" /\ me.op \in {"status", "add", "restore", "switch"} BY DEF HasRead, ProcOK, RouteOK
<1>5a. me.op = "add" => me.pc # "lstat" BY DEF HasRead
<1>6. HasStat(r) => HasStat(me) /\ r.op = "add" BY <1>2, <1>3, <1>5, <1>5a DEF HasStat
<1>7. LocalsOK(r) BY <1>2, <1>3, <1>4, <1>5, <1>6 DEF ProcOK, LocalsOK, Pcs
<1>8. RouteOK(r) BY <1>2, <1>3, <1>4, <1>5 DEF RouteOK
<1>9. TimesOK(r) BY <1>2, <1>3, <1>6 DEF ProcOK, TimesOK
<1>10. EntriesOK(r) BY <1>2 DEF EntriesOK
<1>11. ReadOK(r) BY <1>2, <1>3, <1>4 DEF ProcOK, ReadOK
<1>12. FoundOK(r) BY <1>2, <1>3, <1>6 DEF ProcOK, FoundOK
<1>13. CheckedOK(r) BY <1>2 DEF CheckedOK
<1> QED BY <1>4, <1>7, <1>8, <1>9, <1>10, <1>11, <1>12, <1>13 DEF ProcOK, r

\* index.lock is taken, or refused.
LEMMA AcquireKeeps ==
  ASSUME WorkTreeIndInv, NEW q \in Procs, Acquire(q)
  PROVE  WorkTreeIndInv'
<1> DEFINE me == proc[q]
           r == [me EXCEPT !.pc = IF me.op = "status" THEN "able" ELSE "statIndex"]
<1>1. ProcOK(me) /\ cache' \in [Procs -> Indexes \cup {None}] /\ runs' \in 0..MaxRuns BY Facts DEF Acquire
<1>2. me.pc = "lock" /\ ~HoldsLock(me) /\ UNCHANGED <<cache, runs>> BY DEF Acquire, HoldsLock
<1>3. CASE lock # None /\ me.op = "status"
  <2>1. HasRead(me) /\ me.op \notin {"add", "restore"} BY <1>2, <1>3 DEF HasRead
  <2>2. Go(q, [me EXCEPT !.pc = "done", !.seen = {}]) /\ UNCHANGED lock BY <1>3 DEF Acquire, End
  <2>3. LockFollows(q, [me EXCEPT !.pc = "done", !.seen = {}])
    BY <1>1, <1>2, <2>1, <2>2, EndedOK DEF LockFollows
  <2> QED BY <1>1, <2>1, <2>2, <2>3, EndedOK, GoKeeps
<1>4. CASE lock # None /\ me.op # "status" BY <1>2, <1>4, RefuseKeeps DEF Acquire
<1>5. CASE lock = None
  <2>1. Go(q, r) /\ lock' = q BY <1>5 DEF Acquire
  <2>2. DOMAIN me = Fields BY <1>1 DEF ProcOK, LocalsOK
  <2>3. DOMAIN r = Fields /\ r.pc = IF me.op = "status" THEN "able" ELSE "statIndex" BY <2>2 DEF Fields
  <2>4. /\ r.op = me.op /\ r.path = me.path /\ r.old = me.old /\ r.target = me.target /\ r.istat = me.istat /\ r.idx = me.idx
        /\ r.stat = me.stat /\ r.todo = me.todo /\ r.entries = me.entries /\ r.verified = me.verified
        /\ r.staged = me.staged /\ r.touched = me.touched /\ r.seen = me.seen
    BY <2>2 DEF Fields
  <2> HIDE DEF r, me
  <2>5. (HasRead(r) <=> HasRead(me)) /\ (HasStat(r) <=> HasStat(me)) /\ HoldsLock(r)
    BY <1>2, <2>3, <2>4 DEF HasRead, HasStat, HoldsLock
  <2>6. LocalsOK(r) /\ RouteOK(r) BY <1>1, <1>2, <2>3, <2>4, <2>5 DEF ProcOK, LocalsOK, RouteOK, Pcs
  <2>7. TimesOK(r) /\ FoundOK(r) /\ CheckedOK(r)
    BY <1>1, <1>2, <2>3, <2>4, <2>5 DEF ProcOK, TimesOK, FoundOK, CheckedOK
  <2>8. EntriesOK(r) /\ ReadOK(r)
    BY <1>1, <1>2, <2>3, <2>4, <2>5 DEF ProcOK, EntriesOK, ReadOK, EntryOK, HasRead
  <2>9. ProcOK(r) BY <2>6, <2>7, <2>8 DEF ProcOK
  <2>10. LockFollows(q, r) BY <1>5, <2>1, <2>5 DEF LockFollows
  <2> QED BY <1>1, <2>1, <2>9, <2>10, GoKeeps
<1> QED BY <1>3, <1>4, <1>5

\* The stat of the index is taken.
LEMMA StatIndexKeeps ==
  ASSUME WorkTreeIndInv, NEW q \in Procs, StatIndex(q)
  PROVE  WorkTreeIndInv'
<1> DEFINE me == proc[q]
           r == [me EXCEPT !.pc = "readIndex", !.istat = index.mtime]
<1>1. ProcOK(me) /\ WorldOK /\ cache' \in [Procs -> Indexes \cup {None}] /\ runs' \in 0..MaxRuns
  BY Facts DEF StatIndex
<1>2. me.pc = "statIndex" /\ UNCHANGED <<lock, cache, runs>> /\ Go(q, r) BY DEF StatIndex
<1>3. DOMAIN me = Fields BY <1>1 DEF ProcOK, LocalsOK
<1>4. DOMAIN r = Fields /\ r.pc = "readIndex" /\ r.istat = index.mtime BY <1>3 DEF Fields
<1>5. /\ r.op = me.op /\ r.path = me.path /\ r.old = me.old /\ r.target = me.target /\ r.idx = me.idx
      /\ r.stat = me.stat /\ r.todo = me.todo /\ r.entries = me.entries /\ r.verified = me.verified
      /\ r.staged = me.staged /\ r.touched = me.touched /\ r.seen = me.seen
  BY <1>3 DEF Fields
<1> HIDE DEF r, me
<1>6. ~HasRead(r) /\ ~HasRead(me) /\ (HasStat(r) <=> HasStat(me)) /\ (HoldsLock(r) <=> HoldsLock(me))
  BY <1>2, <1>4, <1>5 DEF HasRead, HasStat, HoldsLock
<1>7. index.mtime \in 0..MaxTick BY <1>1 DEF WorldOK, Indexes
<1>8. LocalsOK(r) /\ RouteOK(r) BY <1>1, <1>2, <1>4, <1>5, <1>6, <1>7 DEF ProcOK, LocalsOK, RouteOK, Pcs
<1>9. TimesOK(r) /\ FoundOK(r) BY <1>1, <1>2, <1>4, <1>5, <1>6, <1>7 DEF ProcOK, TimesOK, FoundOK
<1>10. LockFollows(q, r) BY <1>2, <1>6 DEF LockFollows, me
<1> QED BY <1>1, <1>2, <1>6, <1>8, <1>9, <1>10, NotReadOK, GoKeeps

\* Whether it was cached or not, what is read are the entries on disk, under the stat
\* that was taken.
LEMMA IndexAtExact ==
  ASSUME WorkTreeIndInv, NEW q \in Procs, NEW istat \in 0..MaxTick
  PROVE  /\ IndexAt(q, istat) \in Indexes
         /\ IndexAt(q, istat).entries = index.entries /\ IndexAt(q, istat).mtime = istat
<1>1. index \in Indexes /\ cache[q] \in Indexes \cup {None} BY Facts DEF WorldOK
<1> QED BY <1>1 DEF IndexAt, CacheTrusted, Indexes

\* An older index mtime makes more entries racy.
LEMMA SeenByEarlier ==
  ASSUME NEW E \in Entries, NEW m \in 0..MaxTick, NEW n \in 0..MaxTick, m <= n, SeenBy(E, n)
  PROVE  SeenBy(E, m)
<1>1. \A p \in Paths : E[p].mtime \in 0..MaxTick BY DEF Entries
<1> QED BY <1>1, BoundsAssumption DEF SeenBy, IsEntryStatClean, IsRacy

\* The index is read.
LEMMA ReadIndexKeeps ==
  ASSUME WorkTreeIndInv, NEW q \in Procs, ReadIndex(q)
  PROVE  WorkTreeIndInv'
<1> DEFINE me == proc[q]
           read == IndexAt(q, me.istat)
           next == CASE me.op \in {"status", "switch"} -> "scan" [] me.op = "add" -> "stage" [] me.op = "restore" -> "judge"
           r == [me EXCEPT !.pc = next, !.idx = read, !.entries = read.entries, !.istat = 0,
                           !.todo = IF next = "scan" THEN Paths ELSE {}]
<1>1. ProcOK(me) /\ WorldOK /\ runs' \in 0..MaxRuns BY Facts DEF ReadIndex
<1>2. me.pc = "readIndex" /\ UNCHANGED <<lock, runs>> /\ Go(q, r) /\ cache' = [cache EXCEPT ![q] = read]
  BY DEF ReadIndex
<1>3. me.istat \in 0..MaxTick /\ me.istat <= index.mtime /\ index \in Indexes
  BY <1>1, <1>2 DEF ProcOK, LocalsOK, TimesOK, WorldOK
<1>4. read \in Indexes /\ read.entries = index.entries /\ read.mtime = me.istat BY <1>3, IndexAtExact
<1>5. DOMAIN me = Fields BY <1>1 DEF ProcOK, LocalsOK
<1>6. /\ DOMAIN r = Fields /\ r.pc = next /\ r.idx = read /\ r.entries = read.entries /\ r.istat = 0
      /\ r.todo = IF next = "scan" THEN Paths ELSE {}
  BY <1>5 DEF Fields
<1>7. /\ r.op = me.op /\ r.path = me.path /\ r.old = me.old /\ r.target = me.target
      /\ r.stat = me.stat /\ r.verified = me.verified
      /\ r.staged = me.staged /\ r.touched = me.touched /\ r.seen = me.seen
  BY <1>5 DEF Fields
<1>8. /\ me.op \in {"status", "add", "restore", "switch"}
      /\ me.op \in {"status", "switch"} => next = "scan"
      /\ me.op = "add" => next = "stage"
      /\ me.op = "restore" => next = "judge"
  <2>1. me.op \in {"status", "add", "restore", "switch"} BY <1>1, <1>2 DEF ProcOK, RouteOK
  <2> QED BY <2>1
<1>9. cache' \in [Procs -> Indexes \cup {None}] BY <1>2, <1>4, Facts
<1> HIDE DEF r, me, read, next
<1>10. HasRead(r) /\ ~HasRead(me) /\ (HasStat(r) <=> HasStat(me)) /\ (HoldsLock(r) <=> HoldsLock(me))
  BY <1>2, <1>6, <1>7, <1>8 DEF HasRead, HasStat, HoldsLock
<1>11. me.verified = {} BY <1>1, <1>10 DEF ProcOK, RouteOK
<1>12. read.entries \in Entries /\ read.mtime \in 0..MaxTick /\ index.mtime \in 0..MaxTick /\ index.entries \in Entries
  BY <1>3, <1>4 DEF Indexes
<1>13. LocalsOK(r)
  BY <1>1, <1>2, <1>4, <1>6, <1>7, <1>8, <1>10, <1>12, BoundsAssumption DEF ProcOK, LocalsOK, Pcs
<1>14. RouteOK(r) BY <1>6, <1>7, <1>8, <1>10, <1>11 DEF RouteOK
<1>15. TimesOK(r) BY <1>1, <1>3, <1>4, <1>6, <1>7, <1>8, <1>10 DEF ProcOK, TimesOK, WorldOK
<1>16. EntriesOK(r) BY <1>6, <1>7, <1>8, <1>11 DEF EntriesOK, EntryOK
<1>17. ReadOK(r)
  <2>1. SeenBy(index.entries, me.istat) BY <1>1, <1>3, <1>12, SeenByEarlier DEF WorldOK, EditsSeen
  <2> QED BY <1>4, <1>6, <2>1 DEF ReadOK
<1>18. FoundOK(r) /\ CheckedOK(r) BY <1>1, <1>6, <1>7, <1>8, <1>10, <1>11 DEF ProcOK, FoundOK, CheckedOK
<1>19. ProcOK(r) BY <1>13, <1>14, <1>15, <1>16, <1>17, <1>18 DEF ProcOK
<1>20. LockFollows(q, r) BY <1>2, <1>10 DEF LockFollows, me
<1> QED BY <1>1, <1>2, <1>9, <1>19, <1>20, GoKeeps

------------------------------
(* The scan. *)

\* r is me after path p was found v under the stat s; S is what was looked into.
ScannedAs(me, r, p, s, v, S) ==
  /\ DOMAIN r = Fields /\ r.pc = "scan"
  /\ r.todo = me.todo \ {p} /\ r.seen = me.seen \cup S
  /\ r.verified = (IF v = "unchanged" THEN me.verified \cup {p} ELSE me.verified)
  /\ r.entries = [x \in Paths |-> IF x = p /\ v = "unchanged" /\ ~MatchesContentStat(me.entries[p], s)
                                  THEN WithStat(me.entries[p].id, s) ELSE me.entries[x]]
  /\ r.op = me.op /\ r.old = me.old /\ r.target = me.target /\ r.istat = me.istat /\ r.idx = me.idx
  /\ r.stat \in Stats \cup {None} /\ r.staged = me.staged /\ r.touched = me.touched

\* The stat of a file.
LEMMA StatType ==
  ASSUME WorldOK, NEW p \in Paths
  PROVE  /\ Stat(p) \in Stats /\ Stat(p).mtime = files[p].mtime /\ Stat(p).size = Size[files[p].content]
         /\ files[p].mtime \in 0..MaxTick /\ files[p].content \in Contents
  BY DEF WorldOK, Stat, Stats

\* An entry that takes the stat of a file.
LEMMA WithStatType ==
  ASSUME NEW c \in Contents, NEW s \in Stats
  PROVE  /\ WithStat(c, s) \in [id : Contents, mtime : 0..MaxTick, size : {Size[d] : d \in Contents} \cup {0}]
         /\ WithStat(c, s).id = c /\ WithStat(c, s).mtime = s.mtime /\ WithStat(c, s).size = s.size
  BY DEF WithStat, Stats

\* One entry is replaced.
LEMMA PutEntry ==
  ASSUME NEW E \in Entries, NEW p \in Paths,
         NEW e \in [id : Contents, mtime : 0..MaxTick, size : {Size[d] : d \in Contents} \cup {0}]
  PROVE  /\ [E EXCEPT ![p] = e] \in Entries /\ [E EXCEPT ![p] = e][p] = e
         /\ \A x \in Paths \ {p} : [E EXCEPT ![p] = e][x] = E[x]
  BY DEF Entries

\* A scan that believes a stat, or what it has read, goes on as it should.
LEMMA ScannedOK ==
  ASSUME WorldOK, NEW me, ProcOK(me), me.pc \in {"scan", "content"}, me.op \in {"status", "switch"},
         NEW p \in me.todo, NEW s \in Stats, s.mtime <= files[p].mtime,
         NEW v \in {"unchanged", "modified"}, NEW S, S \in {{}, {p}},
         v = "unchanged" =>
           \/ S = {p} /\ me.entries[p].id = files[p].content
           \/ s = Stat(p) /\ IsEntryStatClean(me.entries[p], Stat(p), me.idx.mtime),
         NEW r, ScannedAs(me, r, p, s, v, S)
  PROVE  ProcOK(r) /\ (HoldsLock(r) <=> HoldsLock(me))
<1>1. HasRead(me) /\ LocalsOK(me) /\ RouteOK(me) BY DEF HasRead, ProcOK
<1>2. p \in Paths /\ me.idx \in Indexes /\ me.entries \in Entries /\ me.idx.entries \in Entries /\ me.idx.mtime \in 0..MaxTick
  BY <1>1 DEF LocalsOK, Indexes
<1>3. me.entries[p] = me.idx.entries[p] /\ p \notin me.verified BY <1>1 DEF RouteOK
<1>4. HasRead(r) /\ ~HasStat(r) /\ (HoldsLock(r) <=> HoldsLock(me))
  BY DEF ScannedAs, HasRead, HasStat, HoldsLock
<1>5. /\ r.entries \in Entries
      /\ \A x \in Paths \ {p} : r.entries[x] = me.entries[x]
      /\ r.entries[p] = IF v = "unchanged" /\ ~MatchesContentStat(me.entries[p], s)
                        THEN WithStat(me.entries[p].id, s) ELSE me.entries[p]
  <2>1. WithStat(me.entries[p].id, s) \in [id : Contents, mtime : 0..MaxTick, size : {Size[d] : d \in Contents} \cup {0}]
    BY <1>2, WithStatType DEF Entries
  <2> QED BY <1>2, <2>1 DEF ScannedAs, Entries
<1>6. LocalsOK(r) BY <1>1, <1>2, <1>4, <1>5 DEF LocalsOK, ScannedAs, Pcs
<1>7. RouteOK(r) BY <1>1, <1>2, <1>4, <1>5 DEF RouteOK, ScannedAs, LocalsOK
<1>8. TimesOK(r)
  <2>1. me.idx.mtime <= index.mtime /\ \A x \in Paths : me.entries[x].mtime <= files[x].mtime
    BY <1>1 DEF ProcOK, TimesOK
  <2>2. r.entries[p].mtime <= files[p].mtime BY <1>2, <1>5, <2>1, WithStatType DEF Entries
  <2> QED BY <1>4, <1>5, <2>1, <2>2 DEF TimesOK, ScannedAs
<1>9. IsEntryStatClean(me.entries[p], Stat(p), me.idx.mtime) /\ s = Stat(p) =>
        /\ r.entries[p] = me.entries[p] /\ me.entries[p].mtime < me.idx.mtime
        /\ p \in raced \/ Holds(me.idx.entries[p], p)
  <2>1. me.entries[p].mtime \in 0..MaxTick BY <1>2 DEF Entries
  <2>2. SeenBy(me.idx.entries, me.idx.mtime) BY <1>1 DEF ProcOK, ReadOK
  <2> QED BY <1>2, <1>3, <1>5, <2>1, <2>2 DEF IsEntryStatClean, IsRacy, SeenBy
<1>10. EntriesOK(r)
  <2>1. \A x \in Paths : EntryOK(me, x) BY <1>1 DEF ProcOK, EntriesOK
  <2>2. \A x \in Paths \ {p} : EntryOK(r, x) BY <1>5, <2>1 DEF EntryOK, ScannedAs
  <2>3. EntryOK(r, p)
    <3>1. CASE v = "modified" BY <1>3, <1>5, <3>1 DEF EntryOK, ScannedAs
    <3>2. CASE v = "unchanged" /\ S = {p} /\ me.entries[p].id = files[p].content
      <4>1. r.entries[p].id = files[p].content BY <1>2, <1>5, <3>2, WithStatType DEF Entries
      <4> QED BY <3>2, <4>1 DEF EntryOK, Sound, Holds, ScannedAs
    <3>3. CASE v = "unchanged" /\ s = Stat(p) /\ IsEntryStatClean(me.entries[p], Stat(p), me.idx.mtime)
      BY <1>3, <1>9, <3>3 DEF EntryOK, ScannedAs
    <3> QED BY <3>1, <3>2, <3>3
  <2> QED BY <2>2, <2>3 DEF EntriesOK, ScannedAs
<1>11. ReadOK(r) BY <1>1, <1>4 DEF ProcOK, ReadOK, ScannedAs
<1>12. FoundOK(r)
  <2>1. ASSUME me.op = "status", NEW x \in r.verified \ (raced \cup r.touched) PROVE Holds(r.idx.entries[x], x)
    <3>1. CASE x = p
      <4>1. v = "unchanged" BY <1>3, <2>1, <3>1 DEF ScannedAs
      <4> QED BY <1>3, <1>9, <2>1, <3>1, <4>1 DEF Holds, ScannedAs
    <3>2. CASE x # p
      <4>1. x \in me.verified \ (raced \cup me.touched) BY <2>1, <3>2 DEF ScannedAs
      <4> QED BY <1>1, <2>1, <4>1 DEF ProcOK, FoundOK, ScannedAs
    <3> QED BY <3>1, <3>2
  <2> QED BY <1>4, <2>1 DEF FoundOK, ScannedAs
<1>13. CheckedOK(r) BY DEF CheckedOK, ScannedAs
<1> QED BY <1>4, <1>6, <1>7, <1>8, <1>10, <1>11, <1>12, <1>13 DEF ProcOK

\* What Scanned makes of the locals.
LEMMA ScannedFields ==
  ASSUME NEW me, LocalsOK(me), me.entries \in Entries, NEW p \in Paths, NEW s \in Stats, NEW v,
         NEW m, DOMAIN m = Fields, m.stat = s, \A f \in Fields \ {"path", "stat"} : m[f] = me[f]
  PROVE  /\ ScannedAs(me, Scanned(m, p, v), p, s, v, {})
         /\ ScannedAs(me, [Scanned(m, p, v) EXCEPT !.seen = @ \cup {p}], p, s, v, {p})
<1>2. /\ DOMAIN m = Fields /\ m.stat = s /\ m.op = me.op /\ m.old = me.old /\ m.target = me.target /\ m.istat = me.istat
      /\ m.idx = me.idx /\ m.staged = me.staged /\ m.touched = me.touched /\ m.entries = me.entries
      /\ m.todo = me.todo /\ m.seen = me.seen /\ m.verified = me.verified
  BY DEF Fields
<1> DEFINE e == IF v = "unchanged" /\ ~MatchesContentStat(me.entries[p], s) THEN WithStat(me.entries[p].id, s) ELSE me.entries[p]
           r == Scanned(m, p, v)
<1>3. /\ DOMAIN r = Fields /\ r.pc = "scan" /\ r.stat = None /\ r.op = me.op /\ r.old = me.old /\ r.target = me.target
      /\ r.istat = me.istat /\ r.idx = me.idx /\ r.staged = me.staged /\ r.touched = me.touched
      /\ r.todo = me.todo \ {p} /\ r.seen = me.seen
      /\ r.verified = (IF v = "unchanged" THEN me.verified \cup {p} ELSE me.verified)
  BY <1>2 DEF Scanned, Fields
<1>4. r.entries = [me.entries EXCEPT ![p] = e] BY <1>2 DEF Scanned, Fields
<1>5. r.entries = [y \in Paths |-> IF y = p /\ v = "unchanged" /\ ~MatchesContentStat(me.entries[p], s)
                                   THEN WithStat(me.entries[p].id, s) ELSE me.entries[y]]
  BY <1>4 DEF Entries
<1> HIDE DEF r
<1>6. ScannedAs(me, r, p, s, v, {}) BY <1>3, <1>5 DEF ScannedAs
<1>7. ScannedAs(me, [r EXCEPT !.seen = @ \cup {p}], p, s, v, {p}) BY <1>3, <1>5 DEF ScannedAs, Fields
<1> QED BY <1>6, <1>7 DEF r

\* The scan takes the stat of a path.
LEMMA ScanEntryKeeps ==
  ASSUME WorkTreeIndInv, NEW q \in Procs, NEW p \in Paths, ScanEntry(q, p)
  PROVE  WorkTreeIndInv'
<1> DEFINE old == proc[q]
           me == [old EXCEPT !.path = p, !.stat = Stat(p)]
           v == StatOnlyVerdict(me.entries[p], Stat(p), me.idx.mtime)
           r == IF v = "look" THEN [me EXCEPT !.pc = "content"] ELSE Scanned(me, p, v)
<1>1. ProcOK(old) /\ WorldOK /\ runs' \in 0..MaxRuns /\ cache' \in [Procs -> Indexes \cup {None}]
  BY Facts DEF ScanEntry
<1>2. me.pc = "scan" /\ p \in me.todo /\ UNCHANGED <<lock, cache, runs>> /\ Go(q, r) BY DEF ScanEntry
<1>3. DOMAIN old = Fields BY <1>1 DEF ProcOK, LocalsOK
<1>4. /\ DOMAIN me = Fields /\ me.pc = old.pc /\ me.op = old.op /\ me.path = p /\ me.stat = Stat(p) /\ me.old = old.old
      /\ me.target = old.target /\ me.istat = old.istat /\ me.idx = old.idx /\ me.todo = old.todo /\ me.entries = old.entries
      /\ me.verified = old.verified /\ me.staged = old.staged /\ me.seen = old.seen /\ me.touched = old.touched
  BY <1>3 DEF Fields
<1>5. old.pc = "scan" /\ p \in old.todo /\ old.op \in {"status", "switch"}
  BY <1>1, <1>2, <1>4 DEF ProcOK, RouteOK
<1>6. HasRead(old) /\ old.entries \in Entries /\ old.idx \in Indexes /\ LocalsOK(old)
  BY <1>1, <1>5 DEF HasRead, ProcOK, LocalsOK
<1>7. Stat(p) \in Stats /\ Stat(p).mtime <= files[p].mtime BY <1>1, StatType
<1>8. v \in {"unchanged", "modified", "look"} BY DEF StatOnlyVerdict
<1>9. CASE v # "look"
  <2>1. ScannedAs(old, Scanned(me, p, v), p, Stat(p), v, {})
    <3>1. \A f \in Fields \ {"path", "stat"} : me[f] = old[f] BY <1>3 DEF Fields
    <3> HIDE DEF me, v, r
    <3> QED BY <1>4, <1>6, <1>7, <3>1, ScannedFields
  <2>2. v = "unchanged" => IsEntryStatClean(old.entries[p], Stat(p), old.idx.mtime)
    BY <1>4 DEF StatOnlyVerdict
  <2>3. r = Scanned(me, p, v) /\ v \in {"unchanged", "modified"} BY <1>8, <1>9
  <2> HIDE DEF r, v, me
  <2>4. ProcOK(r) /\ (HoldsLock(r) <=> HoldsLock(old)) BY <1>1, <1>5, <1>7, <2>1, <2>2, <2>3, ScannedOK
  <2>5. LockFollows(q, r) BY <1>2, <2>4 DEF LockFollows
  <2> QED BY <1>1, <1>2, <2>4, <2>5, GoKeeps
<1>10. CASE v = "look"
  <2>1. r = [me EXCEPT !.pc = "content"] BY <1>10
  <2> HIDE DEF r, v, me
  <2>2. /\ DOMAIN r = Fields /\ r.pc = "content" /\ r.op = old.op /\ r.path = p /\ r.stat = Stat(p) /\ r.old = old.old
        /\ r.target = old.target /\ r.istat = old.istat /\ r.idx = old.idx /\ r.todo = old.todo /\ r.entries = old.entries
        /\ r.verified = old.verified /\ r.staged = old.staged /\ r.seen = old.seen /\ r.touched = old.touched
    BY <1>4, <2>1 DEF Fields
  <2> HIDE DEF old
  <2>3. HasRead(r) /\ HasStat(r) /\ (HoldsLock(r) <=> HoldsLock(old))
    BY <1>5, <2>2 DEF HasRead, HasStat, HoldsLock
  <2>4. LocalsOK(r) /\ RouteOK(r) BY <1>1, <1>5, <1>6, <1>7, <2>2, <2>3 DEF ProcOK, LocalsOK, RouteOK, Pcs
  <2>5. TimesOK(r) /\ CheckedOK(r) BY <1>1, <1>6, <1>7, <2>2 DEF ProcOK, TimesOK, CheckedOK
  <2>6. EntriesOK(r) BY <1>1, <1>5, <1>6, <2>2 DEF ProcOK, EntriesOK, EntryOK
  <2>7. ReadOK(r) /\ FoundOK(r) BY <1>1, <1>5, <1>6, <2>2, <2>3 DEF ProcOK, ReadOK, FoundOK
  <2>8. ProcOK(r) BY <2>4, <2>5, <2>6, <2>7 DEF ProcOK
  <2>9. LockFollows(q, r) BY <1>2, <2>3 DEF LockFollows, old
  <2> QED BY <1>1, <1>2, <2>8, <2>9, GoKeeps
<1> QED BY <1>9, <1>10

\* The scan reads a file.
LEMMA ScanContentKeeps ==
  ASSUME WorkTreeIndInv, NEW q \in Procs, ScanContent(q)
  PROVE  WorkTreeIndInv'
<1> DEFINE me == proc[q]
           p == me.path
           v == CompareContent(me.entries[p], p)
           r == [Scanned(me, p, v) EXCEPT !.seen = @ \cup {p}]
<1>1. ProcOK(me) /\ WorldOK /\ runs' \in 0..MaxRuns /\ cache' \in [Procs -> Indexes \cup {None}]
  BY Facts DEF ScanContent
<1>2. me.pc = "content" /\ me.op \in {"status", "switch"} /\ UNCHANGED <<lock, cache, runs>> /\ Go(q, r)
  BY DEF ScanContent
<1>3. HasRead(me) /\ HasStat(me) /\ LocalsOK(me) /\ p \in me.todo
  BY <1>1, <1>2 DEF HasRead, HasStat, ProcOK, RouteOK
<1>4. me.entries \in Entries /\ p \in Paths /\ me.stat \in Stats /\ me.stat.mtime <= files[p].mtime
  BY <1>1, <1>3 DEF ProcOK, LocalsOK, TimesOK
<1>5. DOMAIN me = Fields BY <1>3 DEF LocalsOK
<1>6. ScannedAs(me, r, p, me.stat, v, {p}) BY <1>3, <1>4, <1>5, ScannedFields
<1>7. v \in {"unchanged", "modified"} /\ (v = "unchanged" => me.entries[p].id = files[p].content)
  BY DEF CompareContent
<1> HIDE DEF r, v
<1>8. ProcOK(r) /\ (HoldsLock(r) <=> HoldsLock(me)) BY <1>1, <1>2, <1>3, <1>4, <1>6, <1>7, ScannedOK
<1>9. LockFollows(q, r) BY <1>2, <1>8 DEF LockFollows
<1> QED BY <1>1, <1>2, <1>8, <1>9, GoKeeps

\* r is me at another place of its command.
MovedTo(me, r, at) ==
  /\ DOMAIN r = Fields /\ r.pc = at
  /\ r.op = me.op /\ r.path = me.path /\ r.old = me.old /\ r.target = me.target /\ r.istat = me.istat /\ r.idx = me.idx
  /\ r.stat = me.stat /\ r.todo = me.todo /\ r.entries = me.entries /\ r.verified = me.verified
  /\ r.staged = me.staged /\ r.touched = me.touched /\ r.seen = me.seen

\* What a step that only moves on does to the locals.
LEMMA MovedFields ==
  ASSUME NEW me, LocalsOK(me), NEW at
  PROVE  MovedTo(me, [me EXCEPT !.pc = at], at)
  BY DEF LocalsOK, MovedTo, Fields

\* status has made its report and tries for the lock.
LEMMA ScanDoneKeeps ==
  ASSUME WorkTreeIndInv, NEW q \in Procs, ScanDone(q)
  PROVE  WorkTreeIndInv'
<1> DEFINE me == proc[q]
           r == [me EXCEPT !.pc = "lock"]
<1>1. ProcOK(me) /\ WorldOK /\ runs' \in 0..MaxRuns /\ cache' \in [Procs -> Indexes \cup {None}]
  BY Facts DEF ScanDone
<1>2. me.pc = "scan" /\ me.op = "status" /\ UNCHANGED <<lock, cache, runs>> /\ Go(q, r) BY DEF ScanDone
<1>3. MovedTo(me, r, "lock") BY <1>1, MovedFields DEF ProcOK
<1> HIDE DEF me, r
<1>4. HasRead(me) /\ HasRead(r) /\ ~HasStat(r) /\ ~HoldsLock(me) /\ ~HoldsLock(r)
  BY <1>2, <1>3 DEF HasRead, HasStat, HoldsLock, MovedTo
<1>5. LocalsOK(r) /\ RouteOK(r) BY <1>1, <1>2, <1>3, <1>4 DEF ProcOK, LocalsOK, RouteOK, MovedTo, Pcs
<1>6. TimesOK(r) /\ EntriesOK(r) BY <1>1, <1>2, <1>3, <1>4 DEF ProcOK, TimesOK, EntriesOK, EntryOK, MovedTo
<1>7. ReadOK(r) /\ FoundOK(r) /\ CheckedOK(r)
  BY <1>1, <1>2, <1>3, <1>4 DEF ProcOK, ReadOK, FoundOK, CheckedOK, MovedTo
<1>8. LockFollows(q, r) BY <1>2, <1>4 DEF LockFollows, me
<1> QED BY <1>1, <1>2, <1>5, <1>6, <1>7, <1>8, GoKeeps DEF ProcOK

\* The command answers and gives its lock up.
LEMMA EndKeeps ==
  ASSUME WorkTreeIndInv, NEW q \in Procs, End(q, proc[q]), Release(q), runs' \in 0..MaxRuns,
         cache' \in [Procs -> Indexes \cup {None}], HasRead(proc[q]),
         proc[q].op \in {"add", "restore"} =>
           proc[q].path \in raced \cup proc[q].touched \/ Holds(proc[q].entries[proc[q].path], proc[q].path)
  PROVE  WorkTreeIndInv'
<1> DEFINE r == [proc[q] EXCEPT !.pc = "done", !.seen = {}]
<1>1. ProcOK(r) /\ ~HoldsLock(r) BY Facts, EndedOK
<1>2. Go(q, r) BY DEF End
<1>3. LockFollows(q, r) BY <1>1 DEF LockFollows
<1> QED BY <1>1, <1>2, <1>3, GoKeeps

\* status decides whether there is something to write back.
LEMMA UpdateIndexIfAbleKeeps ==
  ASSUME WorkTreeIndInv, NEW q \in Procs, UpdateIndexIfAble(q)
  PROVE  WorkTreeIndInv'
<1> DEFINE me == proc[q]
           r == [me EXCEPT !.pc = "smudge"]
<1>1. ProcOK(me) /\ WorldOK /\ runs' \in 0..MaxRuns /\ cache' \in [Procs -> Indexes \cup {None}]
  BY Facts DEF UpdateIndexIfAble
<1>2. me.pc = "able" /\ ((End(q, me) /\ Release(q)) \/ (Go(q, r) /\ UNCHANGED lock)) BY DEF UpdateIndexIfAble
<1>3. me.op = "status" /\ HasRead(me) BY <1>1, <1>2 DEF ProcOK, RouteOK, HasRead
<1>4. CASE End(q, me) /\ Release(q) BY <1>1, <1>3, <1>4, EndKeeps
<1>5. CASE Go(q, r) /\ UNCHANGED lock
  <2>1. MovedTo(me, r, "smudge") BY <1>1, MovedFields DEF ProcOK
  <2> HIDE DEF me, r
  <2>2. HasRead(r) /\ ~HasStat(r) /\ HoldsLock(me) /\ HoldsLock(r)
    BY <1>2, <1>3, <2>1 DEF HasRead, HasStat, HoldsLock, MovedTo
  <2>3. LocalsOK(r) /\ RouteOK(r) BY <1>1, <1>2, <1>3, <2>1, <2>2 DEF ProcOK, LocalsOK, RouteOK, MovedTo, Pcs
  <2>4. TimesOK(r) /\ EntriesOK(r)
    BY <1>1, <1>2, <1>3, <2>1, <2>2 DEF ProcOK, TimesOK, EntriesOK, EntryOK, MovedTo
  <2>5. ReadOK(r) /\ FoundOK(r) /\ CheckedOK(r)
    BY <1>1, <1>2, <1>3, <2>1, <2>2 DEF ProcOK, ReadOK, FoundOK, CheckedOK, MovedTo
  <2>6. LockFollows(q, r) BY <1>5, <2>2 DEF LockFollows, me
  <2> QED BY <1>1, <1>5, <2>3, <2>4, <2>5, <2>6, GoKeeps DEF ProcOK
<1> QED BY <1>2, <1>4, <1>5

------------------------------
(* add. *)

\* The stat of the path is taken.
LEMMA LiteralStatKeeps ==
  ASSUME WorkTreeIndInv, NEW q \in Procs, LiteralStat(q)
  PROVE  WorkTreeIndInv'
<1> DEFINE me == proc[q]
           r == [me EXCEPT !.pc = "lock", !.stat = Stat(me.path)]
<1>1. ProcOK(me) /\ WorldOK /\ runs' \in 0..MaxRuns /\ cache' \in [Procs -> Indexes \cup {None}]
  BY Facts DEF LiteralStat
<1>2. me.pc = "lstat" /\ UNCHANGED <<lock, cache, runs>> /\ Go(q, r) BY DEF LiteralStat
<1>3. me.op = "add" /\ me.path \in Paths /\ DOMAIN me = Fields BY <1>1, <1>2 DEF ProcOK, RouteOK, LocalsOK
<1>4. Stat(me.path) \in Stats /\ Stat(me.path).mtime = files[me.path].mtime /\ files[me.path].mtime \in 0..MaxTick
  BY <1>1, <1>3, StatType
<1>5. /\ DOMAIN r = Fields /\ r.pc = "lock" /\ r.stat = Stat(me.path)
      /\ r.op = me.op /\ r.path = me.path /\ r.old = me.old /\ r.target = me.target /\ r.istat = me.istat /\ r.idx = me.idx
      /\ r.todo = me.todo /\ r.entries = me.entries /\ r.verified = me.verified
      /\ r.staged = me.staged /\ r.touched = me.touched /\ r.seen = me.seen
  BY <1>3 DEF Fields
<1> HIDE DEF me, r
<1>6. ~HasRead(me) /\ ~HasRead(r) /\ ~HoldsLock(me) /\ ~HoldsLock(r)
  BY <1>2, <1>3, <1>5 DEF HasRead, HoldsLock
<1>7. LocalsOK(r) /\ RouteOK(r) BY <1>1, <1>2, <1>3, <1>4, <1>5, <1>6 DEF ProcOK, LocalsOK, RouteOK, Pcs
<1>8. TimesOK(r) /\ FoundOK(r) BY <1>3, <1>4, <1>5, <1>6 DEF TimesOK, FoundOK
<1>9. LockFollows(q, r) BY <1>2, <1>6 DEF LockFollows, me
<1> QED BY <1>1, <1>2, <1>6, <1>7, <1>8, <1>9, NotReadOK, GoKeeps

\* The stat decides whether the file is read.
LEMMA StageFromStatKeeps ==
  ASSUME WorkTreeIndInv, NEW q \in Procs, StageFromStat(q)
  PROVE  WorkTreeIndInv'
<1> DEFINE me == proc[q]
           r == [me EXCEPT !.pc = "content"]
<1>1. ProcOK(me) /\ WorldOK /\ runs' \in 0..MaxRuns /\ cache' \in [Procs -> Indexes \cup {None}]
  BY Facts DEF StageFromStat
<1>2. me.pc = "stage" /\ me.op = "add" /\ me.path \in Paths
  BY <1>1 DEF StageFromStat, ProcOK, RouteOK, LocalsOK
<1>3. HasRead(me) /\ HasStat(me) /\ me.entries = me.idx.entries
  BY <1>1, <1>2 DEF HasRead, HasStat, ProcOK, RouteOK
<1>4. CASE RestagesAsIs(me.entries[me.path], me.stat, me.idx.mtime)
  <2>1. End(q, me) /\ Release(q) BY <1>4 DEF StageFromStat
  <2>2. SeenBy(me.entries, me.idx.mtime) BY <1>1, <1>3 DEF ProcOK, ReadOK
  <2>3. me.path \in me.touched \/ me.stat = Stat(me.path) BY <1>1, <1>2, <1>3 DEF ProcOK, FoundOK
  <2>4. me.path \in raced \cup me.touched \/ Holds(me.entries[me.path], me.path)
    BY <1>2, <1>4, <2>2, <2>3 DEF RestagesAsIs, SeenBy
  <2> QED BY <1>1, <1>3, <2>1, <2>4, EndKeeps
<1>5. CASE ~RestagesAsIs(me.entries[me.path], me.stat, me.idx.mtime)
  <2>1. Go(q, r) /\ UNCHANGED lock BY <1>5 DEF StageFromStat
  <2>2. MovedTo(me, r, "content") BY <1>1, MovedFields DEF ProcOK
  <2> HIDE DEF me, r
  <2>3. HasRead(r) /\ HasStat(r) /\ HoldsLock(me) /\ HoldsLock(r)
    BY <1>2, <2>2 DEF HasRead, HasStat, HoldsLock, MovedTo
  <2>4. LocalsOK(r) /\ RouteOK(r) BY <1>1, <1>2, <1>3, <2>2, <2>3 DEF ProcOK, LocalsOK, RouteOK, MovedTo, Pcs
  <2>5. TimesOK(r) /\ EntriesOK(r)
    BY <1>1, <1>2, <1>3, <2>2, <2>3 DEF ProcOK, TimesOK, EntriesOK, EntryOK, MovedTo
  <2>6. ReadOK(r) /\ FoundOK(r) /\ CheckedOK(r)
    BY <1>1, <1>2, <1>3, <2>2, <2>3 DEF ProcOK, ReadOK, FoundOK, CheckedOK, MovedTo, HoldsLock
  <2>7. LockFollows(q, r) BY <2>1, <2>3 DEF LockFollows, me
  <2> QED BY <1>1, <2>1, <2>4, <2>5, <2>6, <2>7, GoKeeps DEF ProcOK
<1> QED BY <1>4, <1>5

\* The file is read and staged under the stat taken before.
LEMMA StageContentKeeps ==
  ASSUME WorkTreeIndInv, NEW q \in Procs, StageContent(q)
  PROVE  WorkTreeIndInv'
<1> DEFINE me == proc[q]
           p == me.path
           c == files[p].content
           e == WithStat(Cut(c, me.stat.size), me.stat)
           r == [me EXCEPT !.pc = "smudge", !.seen = {p}, !.entries[p] = e]
<1>1. ProcOK(me) /\ WorldOK /\ runs' \in 0..MaxRuns /\ cache' \in [Procs -> Indexes \cup {None}]
  BY Facts DEF StageContent
<1>2. me.pc = "content" /\ me.op = "add" /\ p \in Paths /\ UNCHANGED <<cache, runs>>
  BY <1>1 DEF StageContent, ProcOK, LocalsOK
<1>3. HasRead(me) /\ HasStat(me) /\ me.entries = me.idx.entries /\ me.verified = {} /\ HoldsLock(me)
  BY <1>1, <1>2 DEF HasRead, HasStat, HoldsLock, ProcOK, RouteOK
<1>4. CASE Size[c] < me.stat.size BY <1>2, <1>4, RefuseKeeps DEF StageContent
<1>5. CASE ~(Size[c] < me.stat.size)
  <2>1. Go(q, r) /\ UNCHANGED lock BY <1>5 DEF StageContent
  <2>2. me.stat \in Stats /\ me.entries \in Entries /\ DOMAIN me = Fields /\ me.idx \in Indexes /\ c \in Contents
    BY <1>1, <1>2, <1>3, StatType DEF ProcOK, LocalsOK
  <2>3. PICK d \in Contents : me.stat.size = Size[d] BY <2>2 DEF Stats
  <2>4. Size[d] <= Size[c] BY <1>5, <2>2, <2>3, SizeAssumption
  <2>5. Cut(c, me.stat.size) \in Contents /\ (me.stat.size = Size[c] => Cut(c, me.stat.size) = c)
    BY <2>2, <2>3, <2>4, CutAssumption
  <2>6. /\ e \in [id : Contents, mtime : 0..MaxTick, size : {Size[x] : x \in Contents} \cup {0}]
        /\ e.id = Cut(c, me.stat.size) /\ e.mtime = me.stat.mtime /\ e.size = me.stat.size
    BY <2>2, <2>5, WithStatType
  <2>7. /\ DOMAIN r = Fields /\ r.pc = "smudge" /\ r.seen = {p} /\ r.entries = [me.entries EXCEPT ![p] = e]
        /\ r.op = me.op /\ r.path = me.path /\ r.old = me.old /\ r.target = me.target /\ r.istat = me.istat /\ r.idx = me.idx
        /\ r.stat = me.stat /\ r.todo = me.todo /\ r.verified = me.verified /\ r.staged = me.staged /\ r.touched = me.touched
    <3> HIDE DEF e, p
    <3> QED BY <2>2 DEF Fields
  <2>8. r.entries \in Entries /\ r.entries[p] = e /\ \A x \in Paths \ {p} : r.entries[x] = me.entries[x]
    <3> HIDE DEF e, r, p
    <3> QED BY <1>2, <2>2, <2>6, <2>7, PutEntry
  <2>9. MatchesContentStat(e, Stat(p)) => e.id = c BY <1>1, <1>2, <2>5, <2>6, StatType DEF MatchesContentStat
  <2>10. p \in me.touched \/ e.id = c
    <3>1. p \in me.touched \/ me.stat = Stat(p) BY <1>1, <1>2, <1>3 DEF ProcOK, FoundOK
    <3> QED BY <1>1, <1>2, <2>5, <2>6, <3>1, StatType
  <2> HIDE DEF e, r
  <2>11. HasRead(r) /\ HasStat(r) /\ HoldsLock(r) BY <1>2, <2>7 DEF HasRead, HasStat, HoldsLock
  <2>12. LocalsOK(r) BY <1>1, <1>2, <1>3, <2>2, <2>7, <2>8, <2>11 DEF ProcOK, LocalsOK, Pcs
  <2>13. RouteOK(r) BY <1>2, <2>7, <2>11 DEF RouteOK
  <2>14. TimesOK(r)
    <3>1. me.idx.mtime <= index.mtime /\ me.stat.mtime <= files[p].mtime /\ \A x \in Paths : me.entries[x].mtime <= files[x].mtime
      BY <1>1, <1>3 DEF ProcOK, TimesOK
    <3> QED BY <2>6, <2>7, <2>8, <3>1 DEF TimesOK
  <2>15. EntriesOK(r)
    <3>1. EntryOK(r, p) BY <2>7, <2>8, <2>9 DEF EntryOK, Sound, Holds
    <3>2. \A x \in Paths \ {p} : EntryOK(r, x) BY <1>3, <2>7, <2>8 DEF EntryOK
    <3> QED BY <2>7, <3>1, <3>2 DEF EntriesOK
  <2>16. ReadOK(r) BY <1>1, <1>2, <1>3, <2>7 DEF ProcOK, ReadOK
  <2>17. FoundOK(r) BY <1>1, <1>2, <1>3, <2>7, <2>8, <2>10 DEF ProcOK, FoundOK, Holds
  <2>18. CheckedOK(r) BY <2>7 DEF CheckedOK
  <2>19. LockFollows(q, r) BY <1>3, <2>1, <2>11 DEF LockFollows
  <2> QED BY <1>1, <2>1, <2>12, <2>13, <2>14, <2>15, <2>16, <2>17, <2>18, <2>19, GoKeeps DEF ProcOK
<1> QED BY <1>4, <1>5

------------------------------
(* checkout of a path and of a branch, up to the writes. *)

\* A checkout of a path goes on as it should after it has judged the file by its stat, or
\* by its content.
LEMMA JudgedOK ==
  ASSUME WorldOK, NEW me, ProcOK(me), me.pc \in {"judge", "content"}, me.op = "restore",
         NEW v, NEW S, S \subseteq Paths,
         v = "unchanged" =>
           \/ me.path \in S /\ me.entries[me.path].id = files[me.path].content
           \/ IsEntryStatClean(me.entries[me.path], Stat(me.path), me.idx.mtime),
         NEW r, DOMAIN r = Fields, r.seen = S,
         \A f \in Fields \ {"seen"} : r[f] = Judged(me, v)[f]
  PROVE  ProcOK(r) /\ (HoldsLock(r) <=> HoldsLock(me))
<1> DEFINE p == me.path
           j == Judged(me, v)
<1>1. HasRead(me) /\ DOMAIN me = Fields /\ p \in Paths /\ HoldsLock(me)
  BY DEF HasRead, ProcOK, LocalsOK, HoldsLock
<1>2. me.entries = me.idx.entries /\ me.verified = {} /\ me.entries \in Entries /\ me.idx \in Indexes
  BY <1>1 DEF ProcOK, RouteOK, LocalsOK
<1>3. /\ j.op = me.op /\ j.path = me.path /\ j.old = me.old /\ j.target = me.target /\ j.istat = me.istat /\ j.idx = me.idx
      /\ j.stat = me.stat /\ j.entries = me.entries /\ j.staged = me.staged /\ j.touched = me.touched
      /\ j.pc = (IF v = "unchanged" THEN "smudge" ELSE "write")
      /\ j.todo = (IF v = "unchanged" THEN me.todo ELSE {p})
      /\ j.verified = (IF v = "unchanged" THEN {p} ELSE {})
  BY <1>1, <1>2 DEF Judged, Fields
<1>4. /\ r.op = me.op /\ r.path = me.path /\ r.old = me.old /\ r.target = me.target /\ r.istat = me.istat /\ r.idx = me.idx
      /\ r.stat = me.stat /\ r.entries = me.entries /\ r.staged = me.staged /\ r.touched = me.touched
      /\ r.pc = (IF v = "unchanged" THEN "smudge" ELSE "write")
      /\ r.todo = (IF v = "unchanged" THEN me.todo ELSE {p})
      /\ r.verified = (IF v = "unchanged" THEN {p} ELSE {})
  BY <1>3 DEF Fields
<1>5. HasRead(r) /\ ~HasStat(r) /\ HoldsLock(r) BY <1>4 DEF HasRead, HasStat, HoldsLock
<1>6. v = "unchanged" => p \in raced \/ Holds(me.entries[p], p)
  <2>1. SeenBy(me.idx.entries, me.idx.mtime) BY <1>1 DEF ProcOK, ReadOK
  <2> QED BY <1>1, <1>2, <2>1 DEF SeenBy, Holds
<1>7. v = "unchanged" /\ p \notin S => me.entries[p].mtime < me.idx.mtime
  <2>1. me.entries[p].mtime \in 0..MaxTick /\ me.idx.mtime \in 0..MaxTick BY <1>1, <1>2 DEF Entries, Indexes
  <2> QED BY <2>1 DEF IsEntryStatClean, IsRacy
<1>8. LocalsOK(r) BY <1>1, <1>2, <1>4, <1>5 DEF ProcOK, LocalsOK, Pcs
<1>9. RouteOK(r) BY <1>4, <1>5 DEF RouteOK
<1>10. TimesOK(r) BY <1>1, <1>4, <1>5 DEF ProcOK, TimesOK
<1>11. EntriesOK(r)
  <2>1. \A x \in Paths \ {p} : EntryOK(r, x) BY <1>2, <1>4 DEF EntryOK
  <2>2. EntryOK(r, p)
    <3>1. CASE v = "unchanged" /\ p \in S BY <1>4, <1>6, <3>1 DEF EntryOK, Sound
    <3>2. CASE v = "unchanged" /\ p \notin S BY <1>2, <1>4, <1>7, <3>2 DEF EntryOK
    <3>3. CASE v # "unchanged" BY <1>2, <1>4, <3>3 DEF EntryOK
    <3> QED BY <3>1, <3>2, <3>3
  <2> QED BY <1>4, <2>1, <2>2 DEF EntriesOK
<1>12. ReadOK(r) BY <1>1, <1>4 DEF ProcOK, ReadOK
<1>13. FoundOK(r) /\ CheckedOK(r) BY <1>4, <1>5, <1>6 DEF FoundOK, CheckedOK
<1> QED BY <1>1, <1>5, <1>8, <1>9, <1>10, <1>11, <1>12, <1>13 DEF ProcOK

\* The stat of the file is judged.
LEMMA JudgeRestoreKeeps ==
  ASSUME WorkTreeIndInv, NEW q \in Procs, JudgeRestore(q)
  PROVE  WorkTreeIndInv'
<1> DEFINE me == proc[q]
           v == MatchesCachedStat(me.entries[me.path], Stat(me.path), me.idx.mtime)
           r == IF v = "look" THEN [me EXCEPT !.pc = "content"] ELSE Judged(me, v)
<1>1. ProcOK(me) /\ WorldOK /\ runs' \in 0..MaxRuns /\ cache' \in [Procs -> Indexes \cup {None}]
  BY Facts DEF JudgeRestore
<1>2. me.pc = "judge" /\ me.op = "restore" /\ UNCHANGED <<lock, cache, runs>> /\ Go(q, r) /\ DOMAIN me = Fields
  BY <1>1 DEF JudgeRestore, ProcOK, RouteOK, LocalsOK
<1>3. HasRead(me) /\ HoldsLock(me) BY <1>2 DEF HasRead, HoldsLock
<1>4. CASE v = "look"
  <2>1. r = [me EXCEPT !.pc = "content"] BY <1>4
  <2>2. MovedTo(me, r, "content") BY <1>1, <2>1, MovedFields DEF ProcOK
  <2> HIDE DEF me, r, v
  <2>3. HasRead(r) /\ ~HasStat(r) /\ HoldsLock(r) BY <1>2, <2>2 DEF HasRead, HasStat, HoldsLock, MovedTo
  <2>4. LocalsOK(r) /\ RouteOK(r) BY <1>1, <1>2, <1>3, <2>2, <2>3 DEF ProcOK, LocalsOK, RouteOK, MovedTo, Pcs
  <2>5. TimesOK(r) /\ EntriesOK(r)
    BY <1>1, <1>2, <1>3, <2>2, <2>3 DEF ProcOK, TimesOK, EntriesOK, EntryOK, MovedTo
  <2>6. ReadOK(r) /\ FoundOK(r) /\ CheckedOK(r)
    BY <1>1, <1>2, <1>3, <2>2, <2>3 DEF ProcOK, ReadOK, FoundOK, CheckedOK, MovedTo
  <2>7. LockFollows(q, r) BY <1>2, <1>3, <2>3 DEF LockFollows, me
  <2> QED BY <1>1, <1>2, <2>4, <2>5, <2>6, <2>7, GoKeeps DEF ProcOK
<1>5. CASE v # "look"
  <2>1. r = Judged(me, v) BY <1>5
  <2>2. v = "unchanged" => IsEntryStatClean(me.entries[me.path], Stat(me.path), me.idx.mtime)
    BY DEF MatchesCachedStat, IsEntryStatClean
  <2> HIDE DEF v, r
  <2>3. DOMAIN r = Fields /\ r.seen = me.seen /\ me.seen \subseteq Paths
    BY <1>1, <1>2, <2>1 DEF Judged, Fields, ProcOK, LocalsOK
  <2>4. ProcOK(r) /\ HoldsLock(r) BY <1>1, <1>2, <1>3, <2>1, <2>2, <2>3, JudgedOK
  <2>5. LockFollows(q, r) BY <1>2, <1>3, <2>4 DEF LockFollows
  <2> QED BY <1>1, <1>2, <2>4, <2>5, GoKeeps
<1> QED BY <1>4, <1>5

\* The file is read and judged by its content.
LEMMA RestoreContentKeeps ==
  ASSUME WorkTreeIndInv, NEW q \in Procs, RestoreContent(q)
  PROVE  WorkTreeIndInv'
<1> DEFINE me == proc[q]
           v == CompareContent(me.entries[me.path], me.path)
           r == [Judged(me, v) EXCEPT !.seen = {me.path}]
<1>1. ProcOK(me) /\ WorldOK /\ runs' \in 0..MaxRuns /\ cache' \in [Procs -> Indexes \cup {None}]
  BY Facts DEF RestoreContent
<1>2. me.pc = "content" /\ me.op = "restore" /\ UNCHANGED <<lock, cache, runs>> /\ Go(q, r) /\ DOMAIN me = Fields
      /\ me.path \in Paths
  BY <1>1 DEF RestoreContent, ProcOK, LocalsOK
<1>3. v = "unchanged" => me.entries[me.path].id = files[me.path].content BY DEF CompareContent
<1> HIDE DEF v
<1>4. DOMAIN Judged(me, v) = Fields BY <1>2 DEF Judged, Fields
<1>5. DOMAIN r = Fields /\ r.seen = {me.path} /\ \A f \in Fields \ {"seen"} : r[f] = Judged(me, v)[f]
  BY <1>4 DEF Fields
<1> HIDE DEF r
<1>6. ProcOK(r) /\ (HoldsLock(r) <=> HoldsLock(me)) BY <1>1, <1>2, <1>3, <1>5, JudgedOK
<1>7. LockFollows(q, r) BY <1>2, <1>6 DEF LockFollows
<1> QED BY <1>1, <1>2, <1>6, <1>7, GoKeeps

\* The switch knows the paths it will write, or is refused.
LEMMA TwoWayKeeps ==
  ASSUME WorkTreeIndInv, NEW q \in Procs, TwoWay(q)
  PROVE  WorkTreeIndInv'
<1> DEFINE me == proc[q]
           moved == {p \in Paths : me.old[p] # me.target[p]}
           writes == {p \in moved : me.entries[p].id # me.target[p]}
           r == [me EXCEPT !.pc = IF writes = {} THEN "smudge" ELSE "check", !.todo = writes]
<1>1. ProcOK(me) /\ WorldOK /\ runs' \in 0..MaxRuns /\ cache' \in [Procs -> Indexes \cup {None}]
  BY Facts DEF TwoWay
<1>2. me.pc = "scan" /\ me.op = "switch" /\ UNCHANGED <<cache, runs>> /\ DOMAIN me = Fields
  BY <1>1 DEF TwoWay, ProcOK, LocalsOK
<1>3. (Refuse(q) /\ Release(q)) \/ (Go(q, r) /\ UNCHANGED lock) BY DEF TwoWay
<1>4. CASE Refuse(q) /\ Release(q) BY <1>2, <1>4, RefuseKeeps
<1>5. CASE Go(q, r) /\ UNCHANGED lock
  <2>1. /\ DOMAIN r = Fields /\ r.todo = writes
        /\ r.pc = IF writes = {} THEN "smudge" ELSE "check"
        /\ r.op = me.op /\ r.path = me.path /\ r.old = me.old /\ r.target = me.target /\ r.istat = me.istat /\ r.idx = me.idx
        /\ r.stat = me.stat /\ r.entries = me.entries /\ r.verified = me.verified
        /\ r.staged = me.staged /\ r.touched = me.touched /\ r.seen = me.seen
    BY <1>2 DEF Fields
  <2>2. writes \subseteq Paths /\ (r.pc = "check" => Writes(r) \ r.todo = {}) BY <2>1 DEF Writes
  <2> HIDE DEF me, r, moved, writes
  <2>3. HasRead(me) /\ HasRead(r) /\ ~HasStat(r) /\ HoldsLock(r) /\ HoldsLock(me)
    BY <1>2, <2>1 DEF HasRead, HasStat, HoldsLock
  <2>4. LocalsOK(r) /\ RouteOK(r) BY <1>1, <1>2, <2>1, <2>2, <2>3 DEF ProcOK, LocalsOK, RouteOK, Pcs
  <2>5. TimesOK(r) /\ EntriesOK(r) BY <1>1, <1>2, <2>1, <2>3 DEF ProcOK, TimesOK, EntriesOK, EntryOK
  <2>6. ReadOK(r) /\ FoundOK(r) /\ CheckedOK(r)
    BY <1>1, <1>2, <2>1, <2>2, <2>3 DEF ProcOK, ReadOK, FoundOK, CheckedOK
  <2>7. LockFollows(q, r) BY <1>5, <2>3 DEF LockFollows, me
  <2> QED BY <1>1, <1>5, <2>4, <2>5, <2>6, <2>7, GoKeeps DEF ProcOK
<1> QED BY <1>3, <1>4, <1>5

\* A path of the switch is checked.
LEMMA CheckDirtyKeeps ==
  ASSUME WorkTreeIndInv, NEW q \in Procs, NEW p \in Paths, CheckDirty(q, p)
  PROVE  WorkTreeIndInv'
<1> DEFINE me == proc[q]
           rest == me.todo \ {p}
           checked == [me EXCEPT !.todo = rest, !.touched = @ \ {p}, !.seen = @ \cup {p}]
           writes == {x \in Paths : me.old[x] # me.target[x] /\ me.entries[x].id # me.target[x]}
           r == IF rest = {} THEN [checked EXCEPT !.pc = "write", !.todo = writes] ELSE checked
<1>1. ProcOK(me) /\ WorldOK /\ runs' \in 0..MaxRuns /\ cache' \in [Procs -> Indexes \cup {None}]
  BY Facts DEF CheckDirty
<1>2. me.pc = "check" /\ me.op = "switch" /\ p \in me.todo /\ UNCHANGED <<cache, runs>> /\ DOMAIN me = Fields
  BY <1>1 DEF CheckDirty, ProcOK, LocalsOK, RouteOK
<1>3. CASE ~OverwritesNothing(me, p) BY <1>2, <1>3, RefuseKeeps DEF CheckDirty
<1>4. CASE OverwritesNothing(me, p)
  <2>1. Go(q, r) /\ UNCHANGED lock BY <1>4 DEF CheckDirty
  <2>2. DOMAIN checked = Fields BY <1>2 DEF Fields
  <2>3. /\ DOMAIN r = Fields
        /\ r.todo = (IF rest = {} THEN writes ELSE rest)
        /\ r.pc = (IF rest = {} THEN "write" ELSE "check")
        /\ r.touched = me.touched \ {p} /\ r.seen = me.seen \cup {p}
        /\ r.op = me.op /\ r.path = me.path /\ r.old = me.old /\ r.target = me.target /\ r.istat = me.istat /\ r.idx = me.idx
        /\ r.stat = me.stat /\ r.entries = me.entries /\ r.verified = me.verified /\ r.staged = me.staged
    BY <1>2, <2>2 DEF Fields
  <2>4. writes = Writes(me) /\ Writes(r) = Writes(me) BY <2>3 DEF Writes
  <2>5. files[p].content = me.entries[p].id BY <1>4 DEF OverwritesNothing
  <2> HIDE DEF me, r, checked, writes
  <2>6. HasRead(me) /\ HasRead(r) /\ ~HasStat(r) /\ HoldsLock(r) /\ HoldsLock(me)
    BY <1>2, <2>3 DEF HasRead, HasStat, HoldsLock
  <2>7. writes \subseteq Paths BY <2>4 DEF Writes
  <2>8. LocalsOK(r) /\ RouteOK(r) BY <1>1, <1>2, <2>3, <2>6, <2>7 DEF ProcOK, LocalsOK, RouteOK, Pcs
  <2>9. TimesOK(r) /\ EntriesOK(r) BY <1>1, <1>2, <2>3, <2>6 DEF ProcOK, TimesOK, EntriesOK, EntryOK
  <2>10. ReadOK(r) /\ FoundOK(r) BY <1>1, <1>2, <2>3, <2>6 DEF ProcOK, ReadOK, FoundOK
  <2>11. CheckedOK(r)
    <3>1. \A x \in Writes(me) \ me.todo : x \in me.touched \/ files[x].content = me.entries[x].id
      BY <1>1, <1>2 DEF ProcOK, CheckedOK
    <3> QED BY <1>2, <2>3, <2>4, <2>5, <3>1 DEF CheckedOK
  <2>12. LockFollows(q, r) BY <2>1, <2>6 DEF LockFollows, me
  <2> QED BY <1>1, <2>1, <2>8, <2>9, <2>10, <2>11, <2>12, GoKeeps DEF ProcOK
<1> QED BY <1>3, <1>4

------------------------------
(* Writing the index. *)

\* Comparing the racy entries makes all of them sound, and each is looked into or older than
\* the index.
LEMMA SmudgeSound ==
  ASSUME WorldOK, NEW me, ProcOK(me), me.pc = "smudge", me.idx.entries = index.entries,
         NEW previous, previous.entries = index.entries, previous.mtime = index.mtime,
         NEW p \in Paths
  PROVE  LET e == SmudgeRacilyClean(me.entries, previous, me.verified)[p] IN
         /\ Sound(e, p)
         /\ p \in me.seen \cup Racy(me.entries, previous, me.verified) \/ e.mtime < index.mtime
         /\ e \in [id : Contents, mtime : 0..MaxTick, size : {Size[c] : c \in Contents} \cup {0}]
         /\ e.id = me.entries[p].id /\ e.mtime = me.entries[p].mtime /\ (e.size = me.entries[p].size \/ e.size = 0)
<1> DEFINE E == me.entries[p]
           e == SmudgeRacilyClean(me.entries, previous, me.verified)[p]
           racy == Racy(me.entries, previous, me.verified)
           clean == RacilyClean(me.entries, previous, me.verified)
<1>1. HasRead(me) /\ me.entries \in Entries /\ me.idx \in Indexes BY DEF HasRead, ProcOK, LocalsOK
<1>2. /\ E \in [id : Contents, mtime : 0..MaxTick, size : {Size[c] : c \in Contents} \cup {0}]
      /\ E.mtime \in 0..MaxTick /\ me.idx.mtime \in 0..MaxTick /\ index.mtime \in 0..MaxTick
  BY <1>1 DEF Entries, Indexes, WorldOK
<1>3. e = IF p \in clean /\ CompareContent(E, p) = "modified" THEN [E EXCEPT !.size = 0] ELSE E
  BY DEF SmudgeRacilyClean
<1>4. /\ e \in [id : Contents, mtime : 0..MaxTick, size : {Size[c] : c \in Contents} \cup {0}]
      /\ e.id = E.id /\ e.mtime = E.mtime /\ (e.size = E.size \/ e.size = 0)
  BY <1>2, <1>3
<1>5. clean = {x \in racy : MatchesContentStat(me.entries[x], Stat(x))} BY DEF RacilyClean
<1>6. CASE p \in racy
  <2>1. CASE p \in clean /\ CompareContent(E, p) = "modified"
    <3>1. e.size = 0 BY <1>2, <1>3, <2>1
    <3>2. Stat(p).size = Size[files[p].content] BY StatType
    <3> QED BY <1>4, <1>6, <3>1, <3>2 DEF Sound, MatchesContentStat, Holds
  <2>2. CASE p \in clean /\ CompareContent(E, p) # "modified"
    BY <1>3, <1>4, <1>6, <2>2 DEF CompareContent, Sound, Holds
  <2>3. CASE p \notin clean BY <1>3, <1>4, <1>5, <1>6, <2>3 DEF Sound
  <2> QED BY <2>1, <2>2, <2>3
<1>7. CASE p \notin racy
  <2>1. e = E BY <1>3, <1>5, <1>7
  <2>2. EntryOK(me, p) BY <1>1 DEF ProcOK, EntriesOK
  <2>3. CASE p \in me.seen /\ Sound(E, p) BY <1>4, <2>1, <2>3
  <2>4. CASE E = index.entries[p] /\ (p \in me.verified => E.mtime < me.idx.mtime)
    <3>1. me.idx.mtime <= index.mtime BY <1>1 DEF ProcOK, TimesOK
    <3>2. p \notin me.verified => ~IsRacy(E, index.mtime) BY <1>7, <2>4 DEF Racy
    <3>3. E.mtime < index.mtime BY <1>2, <2>4, <3>1, <3>2 DEF IsRacy
    <3>4. Sound(E, p) BY <1>2, <2>4, <3>3 DEF WorldOK, EditsSeen, SeenBy, IsEntryStatClean, IsRacy, Sound
    <3> QED BY <1>4, <2>1, <3>3, <3>4
  <2> QED BY <2>2, <2>3, <2>4 DEF EntryOK
<1> QED BY <1>6, <1>7

\* The racy entries are compared, or a refresh gives way.
LEMMA SmudgeKeeps ==
  ASSUME WorkTreeIndInv, NEW q \in Procs, Smudge(q)
  PROVE  WorkTreeIndInv'
<1> DEFINE me == proc[q]
           previous == IndexAt(q, index.mtime)
           E == SmudgeRacilyClean(me.entries, previous, me.verified)
           S == Racy(me.entries, previous, me.verified)
           r == [me EXCEPT !.pc = "stageLock", !.entries = E, !.seen = @ \cup S]
<1>1. ProcOK(me) /\ WorldOK /\ runs' \in 0..MaxRuns BY Facts DEF Smudge
<1>2. me.pc = "smudge" /\ cache' = [cache EXCEPT ![q] = previous] /\ DOMAIN me = Fields
  BY <1>1 DEF Smudge, ProcOK, LocalsOK
<1>3. index \in Indexes /\ index.mtime \in 0..MaxTick BY <1>1 DEF WorldOK, Indexes
<1>4. previous \in Indexes /\ previous.entries = index.entries /\ previous.mtime = index.mtime
  BY <1>3, IndexAtExact
<1>5. cache' \in [Procs -> Indexes \cup {None}] BY <1>2, <1>4, Facts
<1>6. HasRead(me) /\ HoldsLock(me) /\ me.op \in {"status", "add", "restore", "switch"} /\ me.entries \in Entries
  BY <1>1, <1>2 DEF HasRead, HoldsLock, ProcOK, RouteOK, LocalsOK
<1>7. CASE me.op = "status" /\ previous.entries # me.idx.entries
  <2>1. End(q, me) /\ Release(q) BY <1>7 DEF Smudge
  <2> QED BY <1>1, <1>5, <1>6, <1>7, <2>1, EndKeeps
<1>8. CASE ~(me.op = "status" /\ previous.entries # me.idx.entries)
  <2>1. Go(q, r) /\ UNCHANGED lock BY <1>8 DEF Smudge
  <2>2. me.idx.entries = index.entries BY <1>1, <1>4, <1>6, <1>8 DEF ProcOK, ReadOK
  <2>3. /\ DOMAIN r = Fields /\ r.pc = "stageLock" /\ r.entries = E /\ r.seen = me.seen \cup S
        /\ r.op = me.op /\ r.path = me.path /\ r.old = me.old /\ r.target = me.target /\ r.istat = me.istat /\ r.idx = me.idx
        /\ r.stat = me.stat /\ r.todo = me.todo /\ r.verified = me.verified
        /\ r.staged = me.staged /\ r.touched = me.touched
    BY <1>2 DEF Fields
  <2>4. S \subseteq Paths /\ E = [p \in Paths |-> E[p]] BY DEF Racy, SmudgeRacilyClean
  <2> HIDE DEF me, previous, E, S, r
  <2>5. ASSUME NEW p \in Paths
        PROVE  /\ Sound(E[p], p)
               /\ p \in me.seen \cup S \/ E[p].mtime < index.mtime
               /\ E[p] \in [id : Contents, mtime : 0..MaxTick, size : {Size[c] : c \in Contents} \cup {0}]
               /\ E[p].id = me.entries[p].id /\ E[p].mtime = me.entries[p].mtime
               /\ E[p].size = me.entries[p].size \/ E[p].size = 0
    BY <1>1, <1>2, <1>4, <2>2, SmudgeSound DEF E, S
  <2>6. E \in Entries BY <2>4, <2>5 DEF Entries
  <2>7. HasRead(r) /\ (HasStat(r) <=> HasStat(me)) /\ HoldsLock(r)
    BY <1>2, <2>3 DEF HasRead, HasStat, HoldsLock
  <2>8. LocalsOK(r) BY <1>1, <1>2, <1>6, <2>3, <2>4, <2>6, <2>7 DEF ProcOK, LocalsOK, Pcs
  <2>9. RouteOK(r) BY <1>6, <2>3, <2>7 DEF RouteOK
  <2>10. TimesOK(r) BY <1>1, <1>6, <2>3, <2>5, <2>7 DEF ProcOK, TimesOK
  <2>11. EntriesOK(r) BY <2>3, <2>5 DEF EntriesOK
  <2>12. ReadOK(r) BY <1>1, <1>6, <2>2, <2>3 DEF ProcOK, ReadOK
  <2>13. FoundOK(r)
    <3>1. me.op \in {"add", "restore"} => me.path \in Paths BY <1>1, <1>2 DEF ProcOK, LocalsOK
    <3>2. me.op \in {"add", "restore"} => me.path \in raced \cup me.touched \/ Holds(me.entries[me.path], me.path)
      BY <1>1, <1>2 DEF ProcOK, FoundOK
    <3>3. me.op \in {"add", "restore"} => me.path \in raced \cup me.touched \/ Holds(E[me.path], me.path)
      BY <2>5, <3>1, <3>2 DEF Holds
    <3> QED BY <1>1, <1>6, <2>3, <2>7, <3>3 DEF ProcOK, FoundOK
  <2>14. CheckedOK(r) BY <2>3 DEF CheckedOK
  <2>15. LockFollows(q, r) BY <1>6, <2>1, <2>7 DEF LockFollows, me
  <2> QED BY <1>1, <1>5, <2>1, <2>8, <2>9, <2>10, <2>11, <2>12, <2>13, <2>14, <2>15, GoKeeps DEF ProcOK
<1> QED BY <1>7, <1>8

\* The next index gets its stamp.
LEMMA StageLockKeeps ==
  ASSUME WorkTreeIndInv, NEW q \in Procs, StageLock(q)
  PROVE  WorkTreeIndInv'
<1> DEFINE me == proc[q]
           staged == [entries |-> me.entries, mtime |-> now]
           r == [me EXCEPT !.pc = "publish", !.staged = staged, !.seen = {}]
<1>1. ProcOK(me) /\ WorldOK /\ runs' \in 0..MaxRuns /\ cache' \in [Procs -> Indexes \cup {None}]
  BY Facts DEF StageLock
<1>2. me.pc = "stageLock" /\ UNCHANGED <<lock, cache, runs>> /\ Go(q, r) /\ DOMAIN me = Fields
  BY <1>1 DEF StageLock, ProcOK, LocalsOK
<1>3. /\ DOMAIN r = Fields /\ r.pc = "publish" /\ r.staged = staged /\ r.seen = {}
      /\ r.op = me.op /\ r.path = me.path /\ r.old = me.old /\ r.target = me.target /\ r.istat = me.istat /\ r.idx = me.idx
      /\ r.stat = me.stat /\ r.todo = me.todo /\ r.entries = me.entries /\ r.verified = me.verified /\ r.touched = me.touched
  BY <1>2 DEF Fields
<1>4. HasRead(me) /\ HasRead(r) /\ (HasStat(r) <=> HasStat(me)) /\ HoldsLock(r) /\ HoldsLock(me)
  BY <1>2, <1>3 DEF HasRead, HasStat, HoldsLock
<1>5. me.entries \in Entries /\ now \in 0..MaxTick /\ index.mtime <= now
  BY <1>1, <1>4 DEF ProcOK, LocalsOK, WorldOK
<1>6. staged \in Indexes /\ staged.entries = me.entries /\ staged.mtime = now BY <1>5 DEF Indexes
<1> HIDE DEF me, staged, r
<1>7. LocalsOK(r) /\ RouteOK(r) BY <1>1, <1>2, <1>3, <1>4, <1>6 DEF ProcOK, LocalsOK, RouteOK, Pcs
<1>8. TimesOK(r) BY <1>1, <1>3, <1>4, <1>5, <1>6 DEF ProcOK, TimesOK
<1>9. EntriesOK(r)
  <2>1. \A p \in Paths : Sound(me.entries[p], p) BY <1>1, <1>2 DEF ProcOK, EntriesOK
  <2>2. SeenBy(me.entries, now) BY <2>1 DEF SeenBy, Sound, IsEntryStatClean
  <2> QED BY <1>3, <1>6, <2>2 DEF EntriesOK
<1>10. ReadOK(r) /\ FoundOK(r) /\ CheckedOK(r)
  BY <1>1, <1>2, <1>3, <1>4 DEF ProcOK, ReadOK, FoundOK, CheckedOK
<1>11. LockFollows(q, r) BY <1>2, <1>4 DEF LockFollows, me
<1> QED BY <1>1, <1>2, <1>7, <1>8, <1>9, <1>10, <1>11, GoKeeps DEF ProcOK

\* HEAD follows the index.
LEMMA MoveHeadKeeps ==
  ASSUME WorkTreeIndInv, NEW q \in Procs, MoveHead(q)
  PROVE  WorkTreeIndInv'
<1> DEFINE me == proc[q]
           r == [me EXCEPT !.pc = "done"]
<1>1. ProcOK(me) /\ WorldOK /\ runs' \in 0..MaxRuns /\ cache' \in [Procs -> Indexes \cup {None}]
  BY Facts DEF MoveHead
<1>2. me.pc = "moveHead" /\ UNCHANGED <<now, files, index, lock, raced, edits>> /\ head' = me.target /\ proc' = [proc EXCEPT ![q] = r]
  BY DEF MoveHead
<1>3. me.op = "switch" /\ me.target \in Trees BY <1>1, <1>2 DEF ProcOK, RouteOK, LocalsOK
<1>4. MovedTo(me, r, "done") BY <1>1, MovedFields DEF ProcOK
<1> HIDE DEF me, r
<1>5. HasRead(me) /\ HasRead(r) /\ ~HasStat(r) /\ ~HoldsLock(r) /\ ~HoldsLock(me)
  BY <1>2, <1>3, <1>4 DEF HasRead, HasStat, HoldsLock, MovedTo
<1>6. LocalsOK(r) /\ RouteOK(r) BY <1>1, <1>2, <1>3, <1>4, <1>5 DEF ProcOK, LocalsOK, RouteOK, MovedTo, Pcs
<1>7. TimesOK(r) /\ EntriesOK(r) /\ ReadOK(r) /\ FoundOK(r) /\ CheckedOK(r)
  BY <1>1, <1>2, <1>3, <1>4, <1>5 DEF ProcOK, TimesOK, EntriesOK, ReadOK, FoundOK, CheckedOK, MovedTo
<1>8. LockFollows(q, r) BY <1>2, <1>5 DEF LockFollows, me
<1> QED BY <1>1, <1>2, <1>3, <1>6, <1>7, <1>8, StepKeeps DEF ProcOK

\* The command returns.
LEMMA ReturnKeeps ==
  ASSUME WorkTreeIndInv, NEW q \in Procs, Return(q)
  PROVE  WorkTreeIndInv'
<1>1. ~HoldsLock(proc[q]) BY DEF Return, HoldsLock
<1> QED BY <1>1, RefuseKeeps DEF Return

------------------------------
(* The clock, the index and the files change. *)

\* The locals of a process that takes no part stay as they should when only the clock and
\* the index go on.
LEMMA BystanderOK ==
  ASSUME WorldOK, NEW s \in Procs, ProcOK(proc[s]), proc'[s] = proc[s], UNCHANGED <<files, raced>>,
         now \in Nat, now' \in Nat, now <= now', index' \in Indexes, index.mtime <= index'.mtime,
         HoldsLock(proc[s]) => UNCHANGED index
  PROVE  ProcOK(proc[s])'
<1> DEFINE me == proc[s]
<1>0. index \in Indexes /\ index.mtime \in 0..MaxTick /\ index'.mtime \in 0..MaxTick BY DEF WorldOK, Indexes
<1>1. LocalsOK(me)' /\ RouteOK(me)' /\ CheckedOK(me)'
  BY DEF ProcOK, LocalsOK, RouteOK, CheckedOK, Writes, HasRead, HasStat
<1>2. TimesOK(me)'
  <2>1. me.pc = "publish" => UNCHANGED index /\ me.staged \in Indexes BY DEF HoldsLock, ProcOK, LocalsOK
  <2>2. me.pc = "publish" => me.staged.mtime <= now' /\ index.mtime <= me.staged.mtime
    BY <2>1 DEF ProcOK, TimesOK, Indexes
  <2>3. me.istat \in 0..MaxTick /\ (HasRead(me) => me.idx.mtime \in 0..MaxTick)
    BY DEF ProcOK, LocalsOK, Indexes
  <2>4. (me.pc = "readIndex" => me.istat <= index'.mtime) /\ (HasRead(me) => me.idx.mtime <= index'.mtime)
    BY <1>0, <2>3 DEF ProcOK, TimesOK
  <2> QED BY <2>1, <2>2, <2>4 DEF ProcOK, TimesOK, HasRead, HasStat
<1>3. FoundOK(me)' BY DEF ProcOK, FoundOK, HasRead, HasStat, Stat, Holds
<1>4. EntriesOK(me)'
  <2>1. (HasRead(me) /\ me.pc \notin {"stageLock", "publish", "moveHead", "done"} => \A p \in Paths : EntryOK(me, p))'
    BY DEF ProcOK, EntriesOK, EntryOK, Sound, MatchesContentStat, HasRead, Stat, Holds
  <2>2. (me.pc = "stageLock" =>
           \A p \in Paths : Sound(me.entries[p], p) /\ (p \in me.seen \/ me.entries[p].mtime < index.mtime))'
    BY DEF ProcOK, EntriesOK, Sound, MatchesContentStat, Stat, Holds, HoldsLock
  <2>3. (me.pc = "publish" => SeenBy(me.staged.entries, me.staged.mtime))'
    BY DEF ProcOK, EntriesOK, SeenBy, IsEntryStatClean, IsRacy, MatchesContentStat, Stat, Holds
  <2> QED BY <2>1, <2>2, <2>3 DEF EntriesOK
<1>5. ReadOK(me)'
  <2>1. (HasRead(me) => SeenBy(me.idx.entries, me.idx.mtime))'
    BY DEF ProcOK, ReadOK, SeenBy, IsEntryStatClean, IsRacy, MatchesContentStat, Stat, Holds, HasRead
  <2>2. (HasRead(me) /\ ((HoldsLock(me) /\ me.op # "status") \/ me.pc \in {"stageLock", "publish"}) =>
           me.idx.entries = index.entries)'
    BY DEF ProcOK, ReadOK, HasRead, HoldsLock
  <2> QED BY <2>1, <2>2 DEF ReadOK
<1> QED BY <1>1, <1>2, <1>3, <1>4, <1>5 DEF ProcOK

\* The clock goes on.
LEMMA TickKeeps ==
  ASSUME WorkTreeIndInv, Tick
  PROVE  WorkTreeIndInv'
<1> USE DEF WorkTreeIndInv
<1>1. UNCHANGED <<files, index, lock, head, cache, proc, raced, edits, runs>> /\ now < MaxTick /\ now' = now + 1
  BY DEF Tick
<1>2. now \in Nat /\ now' \in 0..MaxTick /\ now <= now' /\ now' \in Nat BY <1>1, BoundsAssumption DEF WorldOK
<1>3. WorldOK'
  <2>1. \A p \in Paths : files[p].mtime \in Nat BY DEF WorldOK
  <2>2. index.mtime \in Nat BY DEF WorldOK, Indexes
  <2>3. EditsSeen'
    BY <1>1 DEF WorldOK, EditsSeen, SeenBy, IsEntryStatClean, IsRacy, MatchesContentStat, Stat, Holds
  <2> QED BY <1>1, <1>2, <2>1, <2>2, <2>3 DEF WorldOK
<1>4. ASSUME NEW s \in Procs PROVE ProcOK(proc[s])'
  <2>1. index' \in Indexes /\ index.mtime <= index'.mtime BY <1>1 DEF WorldOK, Indexes
  <2> QED BY <1>1, <1>2, <2>1, BystanderOK
<1>5. LockOK' /\ SessionsOK' BY <1>1 DEF LockOK, SessionsOK, HoldsLock
<1> QED BY <1>3, <1>4, <1>5

\* The staged index is published.
LEMMA PublishLockKeeps ==
  ASSUME WorkTreeIndInv, NEW q \in Procs, PublishLock(q)
  PROVE  WorkTreeIndInv'
<1> USE DEF WorkTreeIndInv
<1> DEFINE me == proc[q]
           r == [me EXCEPT !.pc = IF me.op = "switch" THEN "moveHead" ELSE "done", !.staged = None]
<1>1. ProcOK(me) /\ WorldOK /\ (lock = q <=> HoldsLock(me)) /\ cache \in [Procs -> Indexes \cup {None}]
  BY Facts
<1>2. /\ me.pc = "publish" /\ index' = me.staged /\ lock' = None /\ cache' = [cache EXCEPT ![q] = None]
      /\ proc' = [proc EXCEPT ![q] = r] /\ UNCHANGED <<now, files, head, raced, edits, runs>>
  BY DEF PublishLock
<1>3. /\ HasRead(me) /\ HoldsLock(me) /\ lock = q /\ DOMAIN me = Fields /\ me.staged \in Indexes /\ me.staged.entries = me.entries
      /\ me.op \in {"status", "add", "restore", "switch"}
  BY <1>1, <1>2 DEF HasRead, HoldsLock, ProcOK, LocalsOK, RouteOK
<1>4. /\ index.mtime <= me.staged.mtime /\ me.staged.mtime <= now /\ now \in Nat
      /\ \A p \in Paths : me.entries[p].mtime <= files[p].mtime
  BY <1>1, <1>2, <1>3 DEF ProcOK, TimesOK, WorldOK
<1>5. WorldOK'
  <2>1. SeenBy(me.staged.entries, me.staged.mtime) BY <1>1, <1>2 DEF ProcOK, EntriesOK
  <2>2. EditsSeen'
    BY <1>2, <2>1 DEF EditsSeen, SeenBy, IsEntryStatClean, IsRacy, MatchesContentStat, Stat, Holds
  <2> QED BY <1>1, <1>2, <1>3, <1>4, <2>2 DEF WorldOK
<1>6. proc' = [s \in Procs |-> IF s = q THEN r ELSE proc[s]] BY <1>2 DEF SessionsOK
<1>7. \A s \in Procs \ {q} : ~HoldsLock(proc[s]) BY <1>3 DEF LockOK
<1>8. ASSUME NEW s \in Procs \ {q} PROVE ProcOK(proc[s])'
  <2>1. proc'[s] = proc[s] /\ ProcOK(proc[s]) /\ ~HoldsLock(proc[s]) BY <1>6, <1>7
  <2>2. index' \in Indexes /\ index.mtime <= index'.mtime /\ now <= now' /\ now' \in Nat /\ UNCHANGED <<files, raced>>
    BY <1>2, <1>3, <1>4
  <2> QED BY <1>1, <1>4, <2>1, <2>2, BystanderOK
<1>9. proc'[q] = r BY <1>6
<1>10. /\ DOMAIN r = Fields /\ r.pc = (IF me.op = "switch" THEN "moveHead" ELSE "done") /\ r.staged = None
       /\ r.op = me.op /\ r.path = me.path /\ r.old = me.old /\ r.target = me.target /\ r.istat = me.istat /\ r.idx = me.idx
       /\ r.stat = me.stat /\ r.todo = me.todo /\ r.entries = me.entries /\ r.verified = me.verified
       /\ r.touched = me.touched /\ r.seen = me.seen
  BY <1>3 DEF Fields
<1> HIDE DEF r
<1>11. HasRead(r) /\ (HasStat(r) <=> HasStat(me)) /\ ~HoldsLock(r)
  BY <1>2, <1>10 DEF HasRead, HasStat, HoldsLock
<1>12. ProcOK(proc[q])'
  <2>1. LocalsOK(r) /\ RouteOK(r) BY <1>1, <1>2, <1>3, <1>10, <1>11 DEF ProcOK, LocalsOK, RouteOK, Pcs
  <2>2. (LocalsOK(proc[q]) /\ RouteOK(proc[q]) /\ EntriesOK(proc[q]) /\ CheckedOK(proc[q]))'
    BY <1>9, <1>10, <2>1 DEF LocalsOK, RouteOK, EntriesOK, CheckedOK, HasRead, HasStat
  <2>3. TimesOK(proc[q])'
    <3>1. me.idx \in Indexes /\ me.idx.mtime <= index.mtime BY <1>1, <1>3 DEF ProcOK, TimesOK, LocalsOK
    <3>2. me.idx.mtime <= index'.mtime BY <1>1, <1>2, <1>3, <1>4, <3>1 DEF WorldOK, Indexes
    <3>3. HasStat(r) => r.stat.mtime <= files[r.path].mtime BY <1>1, <1>10, <1>11 DEF ProcOK, TimesOK
    <3> QED BY <1>2, <1>4, <1>9, <1>10, <1>11, <3>2, <3>3 DEF TimesOK, HasStat, HasRead
  <2>4. ReadOK(proc[q])'
    <3>1. SeenBy(r.idx.entries, r.idx.mtime) BY <1>1, <1>3, <1>10 DEF ProcOK, ReadOK
    <3>2. SeenBy(proc[q].idx.entries, proc[q].idx.mtime)'
      BY <1>2, <1>9, <3>1 DEF SeenBy, IsEntryStatClean, IsRacy, MatchesContentStat, Stat, Holds
    <3> QED BY <1>9, <1>10, <1>11, <3>2 DEF ReadOK, HoldsLock
  <2>5. FoundOK(r) BY <1>1, <1>2, <1>3, <1>10, <1>11 DEF ProcOK, FoundOK
  <2>6. FoundOK(proc[q])' BY <1>2, <1>9, <2>5 DEF FoundOK, HasRead, HasStat, Stat, Holds
  <2> QED BY <2>2, <2>3, <2>4, <2>6 DEF ProcOK
<1>13. LockOK'
  <2>1. \A s \in Procs : ~HoldsLock(proc'[s]) BY <1>6, <1>7, <1>11
  <2> QED BY <1>2, <2>1, NoneAssumption DEF LockOK, HoldsLock
<1>14. SessionsOK'
  <2>1. cache' \in [Procs -> Indexes \cup {None}] BY <1>1, <1>2
  <2>2. proc' = [s \in Procs |-> proc'[s]] BY <1>6
  <2> QED BY <1>2, <2>1, <2>2 DEF SessionsOK
<1> QED BY <1>5, <1>8, <1>12, <1>13, <1>14

\* Sound, of given files and races.
SoundIn(fs, races, e, p) ==
  p \in races \/ (e.mtime = fs[p].mtime /\ e.size = Size[fs[p].content] =>
                    e.id = fs[p].content \/ (e.size = 0 /\ Size[fs[p].content] = 0))

\* Somebody else than q will stamp an index after having looked into p.
Watched(q, p) == \E s \in Procs \ {q} : p \in proc[s].seen

\* What a change of a file does to the files and to the races.
LEMMA ChangeEffect ==
  ASSUME WorldOK, NEW q, NEW p \in Paths, NEW c \in Contents, Change(q, p, c)
  PROVE  /\ files' \in [Paths -> [content : Contents, mtime : 0..MaxTick]]
         /\ files'[p].content = c /\ files'[p].mtime = now
         /\ \A x \in Paths \ {p} : files'[x] = files[x] /\ (x \in raced' <=> x \in raced)
         /\ \A x \in Paths : files[x].mtime <= files'[x].mtime /\ files'[x].mtime <= now
         /\ raced' \subseteq Paths
         /\ files[p].mtime = now /\ Watched(q, p) => p \in raced'
<1>1. /\ now \in 0..MaxTick /\ files \in [Paths -> [content : Contents, mtime : 0..MaxTick]] /\ raced \subseteq Paths
      /\ \A x \in Paths : files[x].mtime <= now
  BY DEF WorldOK
<1>2. files' = [files EXCEPT ![p] = [content |-> c, mtime |-> now]] BY DEF Change
<1>3. files' \in [Paths -> [content : Contents, mtime : 0..MaxTick]] BY <1>1, <1>2
<1>4. files'[p].content = c /\ files'[p].mtime = now /\ \A x \in Paths \ {p} : files'[x] = files[x]
  BY <1>1, <1>2
<1>5. \A x \in Paths : files[x].mtime \in Nat /\ files[x].mtime <= now /\ now \in Nat BY <1>1
<1>6. \A x \in Paths : files[x].mtime <= files'[x].mtime /\ files'[x].mtime <= now BY <1>4, <1>5
<1>7. raced' = raced \cup {p} \/ raced' = raced \ {p} BY DEF Change
<1>8. files[p].mtime = now /\ Watched(q, p) => p \in raced' BY DEF Change, Watched
<1> QED BY <1>1, <1>3, <1>4, <1>6, <1>7, <1>8

\* An entry stays sound when a file changes: its stamp is older than the change, or the
\* change is raced.
LEMMA ChangeSound ==
  ASSUME WorldOK, NEW q, NEW p \in Paths, NEW c \in Contents, Change(q, p, c),
         NEW x \in Paths, NEW e, Sound(e, x), e.mtime \in 0..MaxTick,
         x = p => e.mtime < now \/ (Watched(q, p) /\ e.mtime <= files[p].mtime)
  PROVE  SoundIn(files', raced', e, x)
<1>1. now \in 0..MaxTick /\ files[p].mtime \in 0..MaxTick /\ files[p].mtime <= now BY DEF WorldOK
<1>2. CASE x # p BY <1>2, ChangeEffect DEF Sound, SoundIn, MatchesContentStat, Stat, Holds
<1>3. CASE x = p /\ e.mtime < now
  <2>1. files'[x].mtime = now BY <1>3, ChangeEffect
  <2>2. e.mtime # files'[x].mtime BY <1>1, <1>3, <2>1, BoundsAssumption
  <2> QED BY <2>2 DEF SoundIn
<1>4. CASE x = p /\ Watched(q, p) /\ e.mtime <= files[p].mtime /\ ~(e.mtime < now)
  <2>1. files[p].mtime = now BY <1>1, <1>4
  <2> QED BY <1>4, <2>1, ChangeEffect DEF SoundIn
<1> QED BY <1>2, <1>3, <1>4

\* An index that passes no edited file for clean goes on doing so.
LEMMA ChangeSeenBy ==
  ASSUME WorldOK, NEW q, NEW p \in Paths, NEW c \in Contents, Change(q, p, c),
         NEW E \in Entries, NEW m \in 0..MaxTick, m <= now, SeenBy(E, m)
  PROVE  \A x \in Paths : E[x].mtime < m => SoundIn(files', raced', E[x], x)
<1> SUFFICES ASSUME NEW x \in Paths, E[x].mtime < m PROVE SoundIn(files', raced', E[x], x) OBVIOUS
<1>1. E[x].mtime \in 0..MaxTick /\ now \in 0..MaxTick BY DEF Entries, WorldOK
<1>2. Sound(E[x], x) BY <1>1 DEF SeenBy, IsEntryStatClean, IsRacy, Sound
<1>3. E[x].mtime < now BY <1>1
<1> QED BY <1>1, <1>2, <1>3, ChangeSound

\* The files and the published index stay as they should.
LEMMA ChangeWorld ==
  ASSUME WorldOK, NEW q, NEW p \in Paths, NEW c \in Contents, Change(q, p, c), UNCHANGED <<now, index, head>>
  PROVE  WorldOK'
<1>1. index \in Indexes /\ index.entries \in Entries /\ index.mtime \in 0..MaxTick /\ index.mtime <= now
  BY DEF WorldOK, Indexes
<1>2. \A x \in Paths : index.entries[x].mtime \in 0..MaxTick BY <1>1 DEF Entries
<1>3. \A x \in Paths : index.entries[x].mtime < index.mtime => SoundIn(files', raced', index.entries[x], x)
  BY <1>1, ChangeSeenBy DEF WorldOK, EditsSeen
<1>4. EditsSeen'
  BY <1>1, <1>2, <1>3 DEF EditsSeen, SeenBy, IsEntryStatClean, IsRacy, MatchesContentStat, Stat, Holds, SoundIn
<1>5. /\ files' \in [Paths -> [content : Contents, mtime : 0..MaxTick]] /\ raced' \subseteq Paths
      /\ \A x \in Paths : files[x].mtime <= files'[x].mtime /\ files'[x].mtime <= now
  BY ChangeEffect
<1>6. ASSUME NEW x \in Paths PROVE index.entries[x].mtime <= files'[x].mtime
  <2>1. files[x].mtime \in 0..MaxTick /\ files'[x].mtime \in 0..MaxTick /\ index.entries[x].mtime <= files[x].mtime
    BY <1>5 DEF WorldOK
  <2> QED BY <1>2, <1>5, <2>1, BoundsAssumption
<1> QED BY <1>4, <1>5, <1>6 DEF WorldOK

\* The locals of a process that takes no part stay as they should when a file changes.
LEMMA ChangeOthers ==
  ASSUME WorldOK, NEW q, NEW p \in Paths, NEW c \in Contents, Change(q, p, c), UNCHANGED <<now, index>>,
         NEW s \in Procs \ {q}, ProcOK(proc[s]), proc'[s] = Touched(q, p)[s]
  PROVE  ProcOK(proc[s])' /\ (HoldsLock(proc'[s]) <=> HoldsLock(proc[s]))
<1> DEFINE me == proc[s]
           r == proc'[s]
<1>1. DOMAIN me = Fields BY DEF ProcOK, LocalsOK
<1>2. r = IF me.pc = "idle" THEN me ELSE [me EXCEPT !.touched = @ \cup {p}] BY DEF Touched
<1>3. /\ DOMAIN r = Fields /\ r.pc = me.pc /\ r.op = me.op /\ r.path = me.path /\ r.old = me.old /\ r.target = me.target
      /\ r.istat = me.istat /\ r.idx = me.idx /\ r.stat = me.stat /\ r.todo = me.todo /\ r.entries = me.entries
      /\ r.verified = me.verified /\ r.staged = me.staged /\ r.seen = me.seen
      /\ r.touched = (IF me.pc = "idle" THEN me.touched ELSE me.touched \cup {p})
  BY <1>1, <1>2 DEF Fields
<1> HIDE DEF r, me
<1>4. (HasRead(r) <=> HasRead(me)) /\ (HasStat(r) <=> HasStat(me)) /\ (HoldsLock(r) <=> HoldsLock(me))
  BY <1>3 DEF HasRead, HasStat, HoldsLock
<1>5. LocalsOK(r) /\ RouteOK(r) /\ LocalsOK(me)
  <2>1. LocalsOK(me) /\ RouteOK(me) BY DEF ProcOK, me
  <2>2. LocalsOK(r) BY <1>3, <1>4, <2>1 DEF LocalsOK
  <2>3. RouteOK(r) BY <1>3, <1>4, <2>1 DEF RouteOK
  <2> QED BY <2>1, <2>2, <2>3
<1>6. /\ HasRead(me) => me.pc # "idle" /\ me.entries \in Entries /\ me.idx \in Indexes
      /\ HasStat(me) => me.pc # "idle" /\ me.path \in Paths /\ me.stat \in Stats
      /\ me.pc = "publish" => me.staged \in Indexes
  BY <1>5 DEF LocalsOK, HasRead, HasStat
<1>7. \A x \in Paths : files[x].mtime \in Nat /\ files'[x].mtime \in Nat /\ files[x].mtime <= files'[x].mtime
  <2>1. files' \in [Paths -> [content : Contents, mtime : 0..MaxTick]] BY ChangeEffect
  <2>2. \A x \in Paths : files[x].mtime <= files'[x].mtime BY ChangeEffect
  <2> QED BY <2>1, <2>2, BoundsAssumption DEF WorldOK
<1>8. TimesOK(me) /\ EntriesOK(me) /\ ReadOK(me) /\ FoundOK(me) /\ CheckedOK(me) BY DEF ProcOK, me
<1>9. index.mtime \in 0..MaxTick /\ index.mtime <= now /\ now \in 0..MaxTick BY DEF WorldOK, Indexes
<1>10. HasRead(me) => \A x \in Paths : me.entries[x].mtime <= files'[x].mtime /\ me.entries[x].mtime \in 0..MaxTick
  BY <1>6, <1>7, <1>8 DEF TimesOK, Entries
<1>11. HasStat(me) => me.stat.mtime <= files'[me.path].mtime BY <1>6, <1>7, <1>8 DEF TimesOK, Stats
<1>12. TimesOK(proc[s])' BY <1>3, <1>4, <1>8, <1>10, <1>11 DEF TimesOK, HasRead, HasStat, r
<1>13. ASSUME NEW x \in Paths, Sound(me.entries[x], x), HasRead(me), x \in me.seen \/ me.entries[x].mtime < now
       PROVE  SoundIn(files', raced', me.entries[x], x)
  <2>1. me.entries[x].mtime \in 0..MaxTick /\ me.entries[x].mtime <= files[x].mtime
    BY <1>6, <1>8, <1>13 DEF TimesOK, Entries
  <2>2. x = p /\ x \in me.seen => Watched(q, p) BY DEF Watched, me
  <2> QED BY <1>13, <2>1, <2>2, ChangeSound
<1>14. (HasRead(proc[s]) /\ proc[s].pc \notin {"stageLock", "publish", "moveHead", "done"} => \A x \in Paths : EntryOK(proc[s], x))'
  <2>1. ASSUME HasRead(me), me.pc \notin {"stageLock", "publish", "moveHead", "done"}, NEW x \in Paths
        PROVE  \/ x \in me.seen /\ SoundIn(files', raced', me.entries[x], x)
               \/ me.entries[x] = me.idx.entries[x] /\ (x \in me.verified => me.entries[x].mtime < me.idx.mtime)
    <3>1. EntryOK(me, x) BY <1>8, <2>1 DEF EntriesOK
    <3> QED BY <1>13, <2>1, <3>1 DEF EntryOK
  <2> QED BY <1>3, <2>1 DEF EntryOK, Sound, SoundIn, MatchesContentStat, Stat, Holds, HasRead, r
<1>15. (proc[s].pc = "stageLock" =>
          \A x \in Paths : Sound(proc[s].entries[x], x) /\ (x \in proc[s].seen \/ proc[s].entries[x].mtime < index.mtime))'
  <2>1. ASSUME me.pc = "stageLock", NEW x \in Paths
        PROVE  SoundIn(files', raced', me.entries[x], x) /\ (x \in me.seen \/ me.entries[x].mtime < index.mtime)
    <3>1. HasRead(me) BY <2>1 DEF HasRead
    <3>2. Sound(me.entries[x], x) /\ (x \in me.seen \/ me.entries[x].mtime < index.mtime)
      BY <1>8, <2>1 DEF EntriesOK
    <3>3. x \in me.seen \/ me.entries[x].mtime < now BY <1>9, <1>10, <3>1, <3>2
    <3> QED BY <1>13, <3>1, <3>2, <3>3
  <2> QED BY <1>3, <2>1 DEF Sound, SoundIn, MatchesContentStat, Stat, Holds, r
<1>16. (proc[s].pc = "publish" => SeenBy(proc[s].staged.entries, proc[s].staged.mtime))'
  <2>1. ASSUME me.pc = "publish"
        PROVE  \A x \in Paths : /\ me.staged.entries[x].mtime < me.staged.mtime => SoundIn(files', raced', me.staged.entries[x], x)
                                /\ me.staged.entries[x].mtime \in 0..MaxTick /\ me.staged.mtime \in 0..MaxTick
    <3>1. me.staged.entries \in Entries /\ me.staged.mtime \in 0..MaxTick /\ me.staged.mtime <= now
      BY <1>6, <1>8, <2>1 DEF TimesOK, Indexes
    <3>2. SeenBy(me.staged.entries, me.staged.mtime) BY <1>8, <2>1 DEF EntriesOK
    <3> QED BY <3>1, <3>2, ChangeSeenBy DEF Entries
  <2> QED BY <1>3, <2>1 DEF SeenBy, IsEntryStatClean, IsRacy, SoundIn, MatchesContentStat, Stat, Holds, r
<1>17. EntriesOK(proc[s])' BY <1>14, <1>15, <1>16 DEF EntriesOK
<1>18. ReadOK(proc[s])'
  <2>1. ASSUME HasRead(me)
        PROVE  \A x \in Paths : /\ me.idx.entries[x].mtime < me.idx.mtime => SoundIn(files', raced', me.idx.entries[x], x)
                                /\ me.idx.entries[x].mtime \in 0..MaxTick /\ me.idx.mtime \in 0..MaxTick
    <3>1. me.idx.entries \in Entries /\ me.idx.mtime \in 0..MaxTick /\ me.idx.mtime <= index.mtime
      BY <1>6, <1>8, <2>1 DEF TimesOK, Indexes
    <3>2. SeenBy(me.idx.entries, me.idx.mtime) /\ me.idx.mtime <= now BY <1>8, <1>9, <2>1, <3>1 DEF ReadOK
    <3> QED BY <3>1, <3>2, ChangeSeenBy DEF Entries
  <2>2. (HasRead(proc[s]) => SeenBy(proc[s].idx.entries, proc[s].idx.mtime))'
    BY <1>3, <2>1 DEF SeenBy, IsEntryStatClean, IsRacy, SoundIn, MatchesContentStat, Stat, Holds, HasRead, r
  <2>3. (HasRead(proc[s]) /\ ((HoldsLock(proc[s]) /\ proc[s].op # "status") \/ proc[s].pc \in {"stageLock", "publish"}) =>
           proc[s].idx.entries = index.entries)'
    BY <1>3, <1>8 DEF ReadOK, HasRead, HoldsLock, r
  <2> QED BY <2>2, <2>3 DEF ReadOK
<1>19. FoundOK(proc[s])'
  <2>1. ASSUME me.op = "status", HasRead(me), NEW x \in me.verified \ (raced' \cup r.touched)
        PROVE  Holds(me.idx.entries[x], x) /\ files'[x] = files[x]
    <3>1. x \in Paths /\ x # p /\ x \notin me.touched BY <1>3, <1>5, <1>6, <2>1 DEF LocalsOK
    <3>2. x \notin raced /\ files'[x] = files[x] BY <2>1, <3>1, ChangeEffect
    <3> QED BY <1>8, <2>1, <3>1, <3>2 DEF FoundOK
  <2>2. ASSUME me.op = "add", HasStat(me), me.path \notin r.touched
        PROVE  me.stat = Stat(me.path) /\ files'[me.path] = files[me.path]
    <3>1. me.path \in Paths \ {p} /\ me.path \notin me.touched BY <1>3, <1>6, <2>2
    <3> QED BY <1>8, <2>2, <3>1, ChangeEffect DEF FoundOK
  <2>3. ASSUME me.op \in {"add", "restore"}, me.pc \in {"smudge", "stageLock", "publish", "done"},
               me.path \notin raced' \cup r.touched
        PROVE  Holds(me.entries[me.path], me.path) /\ files'[me.path] = files[me.path]
    <3>1. me.path \in Paths /\ me.path # p /\ me.path \notin me.touched BY <1>3, <1>5, <2>3 DEF LocalsOK
    <3>2. me.path \notin raced /\ files'[me.path] = files[me.path] BY <2>3, <3>1, ChangeEffect
    <3> QED BY <1>8, <2>3, <3>1, <3>2 DEF FoundOK
  <2> QED BY <1>3, <1>4, <2>1, <2>2, <2>3 DEF FoundOK, Holds, Stat, HasRead, HasStat, r
<1>20. CheckedOK(proc[s])'
  <2>1. ASSUME NEW x \in Paths, x \notin r.touched, me.pc \in {"check", "write"}
        PROVE  x \notin me.touched /\ files'[x] = files[x]
    BY <1>3, <2>1, ChangeEffect
  <2>2. Writes(r) = Writes(me) /\ Writes(me) \subseteq Paths /\ me.todo \subseteq Paths
    BY <1>3, <1>5 DEF Writes, LocalsOK
  <2>3. r.pc = "check" => \A x \in Writes(r) \ r.todo : x \in r.touched \/ files'[x].content = r.entries[x].id
    BY <1>3, <1>8, <2>1, <2>2 DEF CheckedOK
  <2>4. r.pc = "write" /\ r.op = "switch" => \A x \in r.todo : x \in r.touched \/ files'[x].content = r.entries[x].id
    BY <1>3, <1>8, <2>1, <2>2 DEF CheckedOK
  <2> QED BY <2>3, <2>4 DEF CheckedOK, Writes, r
<1>21. LocalsOK(proc[s])' /\ RouteOK(proc[s])' BY <1>5 DEF LocalsOK, RouteOK, HasRead, HasStat, r
<1> QED BY <1>4, <1>12, <1>17, <1>18, <1>19, <1>20, <1>21 DEF ProcOK, r, me

\* The user saves a file.
LEMMA EditKeeps ==
  ASSUME WorkTreeIndInv, NEW p \in Paths, NEW c \in Contents, Edit(p, c)
  PROVE  WorkTreeIndInv'
<1> USE DEF WorkTreeIndInv
<1>1. /\ Change(None, p, c) /\ proc' = Touched(None, p) /\ UNCHANGED <<now, index, lock, head, cache, runs>>
      /\ edits < MaxEdits /\ edits' = edits + 1
  BY DEF Edit
<1>2. WorldOK' BY <1>1, ChangeWorld
<1>3. ASSUME NEW s \in Procs PROVE ProcOK(proc[s])' /\ (HoldsLock(proc'[s]) <=> HoldsLock(proc[s]))
  <2>1. s \in Procs \ {None} /\ proc'[s] = Touched(None, p)[s] /\ ProcOK(proc[s]) BY <1>1, NoneAssumption
  <2> QED BY <1>1, <2>1, ChangeOthers
<1>4. LockOK' BY <1>1, <1>3 DEF LockOK, HoldsLock
<1>5. SessionsOK'
  <2>1. proc' = [s \in Procs |-> proc'[s]] BY <1>1 DEF Touched
  <2>2. edits' \in 0..MaxEdits BY <1>1, BoundsAssumption DEF SessionsOK
  <2> QED BY <1>1, <2>1, <2>2 DEF SessionsOK
<1> QED BY <1>2, <1>3, <1>4, <1>5

\* A checkout writes a file, and its entry takes the stat of what was written.
LEMMA WriteFileKeeps ==
  ASSUME WorkTreeIndInv, NEW q \in Procs, NEW p \in Paths, WriteFile(q, p)
  PROVE  WorkTreeIndInv'
<1> USE DEF WorkTreeIndInv
<1> DEFINE me == proc[q]
           c == IF me.op = "switch" THEN me.target[p] ELSE me.entries[p].id
           e == WithStat(c, [mtime |-> now, size |-> Size[c]])
           r == [me EXCEPT !.pc = IF me.todo = {p} THEN "smudge" ELSE @, !.todo = @ \ {p}, !.entries[p] = e, !.seen = @ \cup {p}]
<1>1. ProcOK(me) /\ WorldOK /\ (lock = q <=> HoldsLock(me)) BY Facts
<1>2. /\ me.pc = "write" /\ p \in me.todo /\ Change(q, p, c) /\ proc' = [Touched(q, p) EXCEPT ![q] = r]
      /\ UNCHANGED <<now, index, lock, head, cache, edits, runs>>
  BY DEF WriteFile
<1>3. /\ HasRead(me) /\ HoldsLock(me) /\ DOMAIN me = Fields /\ me.entries \in Entries /\ me.idx \in Indexes
      /\ me.op \in {"restore", "switch"}
  BY <1>1, <1>2 DEF HasRead, HoldsLock, ProcOK, LocalsOK, RouteOK
<1>4. c \in Contents BY <1>1, <1>2, <1>3, TreesAssumption DEF ProcOK, LocalsOK, Entries
<1>5. /\ e \in [id : Contents, mtime : 0..MaxTick, size : {Size[d] : d \in Contents} \cup {0}]
      /\ e.id = c /\ e.mtime = now
  <2>1. [mtime |-> now, size |-> Size[c]] \in Stats BY <1>1, <1>4 DEF Stats, WorldOK
  <2> QED BY <1>4, <2>1, WithStatType
<1>6. /\ DOMAIN r = Fields /\ r.pc = (IF me.todo = {p} THEN "smudge" ELSE "write") /\ r.todo = me.todo \ {p}
      /\ r.seen = me.seen \cup {p} /\ r.entries = [me.entries EXCEPT ![p] = e]
      /\ r.op = me.op /\ r.path = me.path /\ r.old = me.old /\ r.target = me.target /\ r.istat = me.istat /\ r.idx = me.idx
      /\ r.stat = me.stat /\ r.verified = me.verified /\ r.staged = me.staged /\ r.touched = me.touched
  BY <1>2, <1>3 DEF Fields
<1>7. r.entries \in Entries /\ r.entries[p] = e /\ \A x \in Paths \ {p} : r.entries[x] = me.entries[x]
  <2> HIDE DEF r, e, me
  <2> QED BY <1>3, <1>5, <1>6, PutEntry
<1>8. proc' = [s \in Procs |-> IF s = q THEN r ELSE Touched(q, p)[s]]
  <2>1. Touched(q, p) = [s \in Procs |-> Touched(q, p)[s]] BY DEF Touched
  <2> HIDE DEF r
  <2> QED BY <1>2, <2>1
<1> HIDE DEF me, c, e, r
<1>9. WorldOK' BY <1>1, <1>2, <1>4, ChangeWorld
<1>10. ASSUME NEW s \in Procs \ {q} PROVE ProcOK(proc[s])' /\ (HoldsLock(proc'[s]) <=> HoldsLock(proc[s]))
  <2>1. proc'[s] = Touched(q, p)[s] /\ ProcOK(proc[s]) BY <1>8
  <2> QED BY <1>1, <1>2, <1>4, <2>1, ChangeOthers
<1>11. proc'[q] = r BY <1>8
<1>12. HasRead(r) /\ ~HasStat(r) /\ HoldsLock(r) BY <1>3, <1>6 DEF HasRead, HasStat, HoldsLock
<1>13. /\ files'[p].content = c /\ files'[p].mtime = now
       /\ \A x \in Paths \ {p} : files'[x] = files[x] /\ (x \in raced' <=> x \in raced)
  BY <1>1, <1>2, <1>4, ChangeEffect
<1>14. LocalsOK(r) BY <1>1, <1>2, <1>3, <1>6, <1>7, <1>12 DEF ProcOK, LocalsOK, Pcs
<1>15. RouteOK(r)
  <2>1. me.op = "restore" => me.todo = {p} BY <1>1, <1>2 DEF ProcOK, RouteOK
  <2> QED BY <1>3, <1>6, <1>12, <2>1 DEF RouteOK
<1>16. TimesOK(proc[q])'
  <2>1. me.idx.mtime <= index.mtime /\ \A x \in Paths : me.entries[x].mtime <= files[x].mtime
    BY <1>1, <1>3 DEF ProcOK, TimesOK
  <2>2. now \in 0..MaxTick BY <1>1 DEF WorldOK
  <2>3. \A x \in Paths : r.entries[x].mtime <= files'[x].mtime
    BY <1>5, <1>7, <1>13, <2>1, <2>2, BoundsAssumption
  <2> QED BY <1>2, <1>6, <1>11, <1>12, <2>1, <2>3 DEF TimesOK, HasRead, HasStat
<1>17. EntriesOK(proc[q])'
  <2>1. \A x \in Paths : EntryOK(me, x) BY <1>1, <1>2, <1>3 DEF ProcOK, EntriesOK
  <2>2. p \in r.seen /\ r.entries[p].id = files'[p].content BY <1>5, <1>6, <1>7, <1>13
  <2>3. ASSUME NEW x \in Paths \ {p}
        PROVE  \/ x \in r.seen /\ SoundIn(files', raced', r.entries[x], x)
               \/ r.entries[x] = r.idx.entries[x] /\ (x \in r.verified => r.entries[x].mtime < r.idx.mtime)
    <3>1. Sound(me.entries[x], x) => SoundIn(files', raced', me.entries[x], x)
      BY <1>13 DEF Sound, SoundIn, MatchesContentStat, Stat, Holds
    <3> QED BY <1>6, <1>7, <2>1, <3>1 DEF EntryOK
  <2>4. (\A x \in Paths : EntryOK(proc[q], x))'
    BY <1>11, <2>2, <2>3 DEF EntryOK, Sound, SoundIn, MatchesContentStat, Stat, Holds
  <2> QED BY <1>6, <1>11, <2>4 DEF EntriesOK
<1>18. ReadOK(proc[q])'
  <2>1. /\ me.idx.entries \in Entries /\ me.idx.mtime \in 0..MaxTick /\ me.idx.mtime <= index.mtime /\ index.mtime <= now
        /\ index.mtime \in 0..MaxTick /\ now \in 0..MaxTick
    BY <1>1, <1>3 DEF ProcOK, TimesOK, Indexes, WorldOK
  <2>2. SeenBy(me.idx.entries, me.idx.mtime) /\ me.idx.mtime <= now BY <1>1, <1>3, <2>1 DEF ProcOK, ReadOK
  <2>3. \A x \in Paths : /\ me.idx.entries[x].mtime < me.idx.mtime => SoundIn(files', raced', me.idx.entries[x], x)
                         /\ me.idx.entries[x].mtime \in 0..MaxTick /\ me.idx.mtime \in 0..MaxTick
    BY <1>1, <1>2, <1>4, <2>1, <2>2, ChangeSeenBy DEF Entries
  <2>4. SeenBy(proc[q].idx.entries, proc[q].idx.mtime)'
    BY <1>6, <1>11, <2>3 DEF SeenBy, IsEntryStatClean, IsRacy, SoundIn, MatchesContentStat, Stat, Holds
  <2>5. me.idx.entries = index.entries BY <1>1, <1>2, <1>3 DEF ProcOK, ReadOK
  <2> QED BY <1>2, <1>6, <1>11, <2>4, <2>5 DEF ReadOK
<1>19. FoundOK(proc[q])'
  <2>1. me.op = "restore" => me.path = p BY <1>1, <1>2 DEF ProcOK, RouteOK
  <2>2. r.op = "restore" => r.entries[r.path].id = files'[r.path].content BY <1>5, <1>6, <1>7, <1>13, <2>1
  <2> QED BY <1>3, <1>6, <1>11, <2>2 DEF FoundOK, Holds
<1>20. CheckedOK(proc[q])'
  <2>1. me.op = "switch" => \A x \in me.todo : x \in me.touched \/ files[x].content = me.entries[x].id
    BY <1>1, <1>2 DEF ProcOK, CheckedOK
  <2>2. me.todo \subseteq Paths BY <1>1 DEF ProcOK, LocalsOK
  <2>3. r.op = "switch" => \A x \in r.todo : x \in r.touched \/ files'[x].content = r.entries[x].id
    BY <1>6, <1>7, <1>13, <2>1, <2>2
  <2> QED BY <1>6, <1>11, <2>3 DEF CheckedOK
<1>21. ProcOK(proc[q])'
  <2>1. LocalsOK(proc[q])' /\ RouteOK(proc[q])' BY <1>11, <1>14, <1>15 DEF LocalsOK, RouteOK, HasRead, HasStat
  <2> QED BY <1>16, <1>17, <1>18, <1>19, <1>20, <2>1 DEF ProcOK
<1>22. LockOK'
  <2>1. \A s \in Procs : HoldsLock(proc'[s]) <=> HoldsLock(proc[s]) BY <1>3, <1>10, <1>11, <1>12 DEF me
  <2> QED BY <1>2, <2>1 DEF LockOK, HoldsLock
<1>23. SessionsOK'
  <2>1. proc' = [s \in Procs |-> proc'[s]] BY <1>8
  <2> QED BY <1>2, <2>1 DEF SessionsOK
<1> QED BY <1>9, <1>10, <1>21, <1>22, <1>23

------------------------------
(* The theorems. *)

\* The state after a checkout is as it should be.
LEMMA InitOK == Init => WorkTreeIndInv
<1> SUFFICES ASSUME Init PROVE WorkTreeIndInv OBVIOUS
<1>1. First \in [Paths -> Contents] /\ 0 \in 0..MaxTick BY TreesAssumption, BoundsAssumption
<1>2. files \in [Paths -> [content : Contents, mtime : 0..MaxTick]] /\ \A p \in Paths : files[p].mtime = 0 /\ files[p].content = First[p]
  BY <1>1 DEF Init, Fresh
<1>3. ASSUME NEW p \in Paths
      PROVE  /\ Staged(First)[p] \in [id : Contents, mtime : 0..MaxTick, size : {Size[c] : c \in Contents} \cup {0}]
             /\ Staged(First)[p].mtime = 0 /\ Staged(First)[p].id = First[p]
  <2>1. [mtime |-> 0, size |-> Size[First[p]]] \in Stats /\ First[p] \in Contents BY <1>1 DEF Stats
  <2>2. Staged(First)[p] = WithStat(First[p], [mtime |-> 0, size |-> Size[First[p]]]) BY DEF Staged
  <2> QED BY <2>1, <2>2, WithStatType
<1>4. index \in Indexes /\ index.mtime = 0 /\ index.entries = Staged(First)
  <2>1. Staged(First) \in Entries BY <1>3 DEF Staged, Entries
  <2> QED BY <1>1, <2>1 DEF Init, Indexes
<1>5. EditsSeen BY <1>2, <1>3, <1>4 DEF EditsSeen, SeenBy, Holds
<1>6. WorldOK BY <1>1, <1>2, <1>3, <1>4, <1>5, TreesAssumption DEF Init, WorldOK
<1>7. LockOK BY IdleOK, NoneAssumption DEF Init, LockOK
<1>8. SessionsOK BY BoundsAssumption DEF Init, SessionsOK
<1>9. \A q \in Procs : ProcOK(proc[q]) BY IdleOK DEF Init
<1> QED BY <1>6, <1>7, <1>8, <1>9 DEF WorkTreeIndInv

\* Every step keeps the invariant.
LEMMA NextKeeps ==
  ASSUME WorkTreeIndInv, Next
  PROVE  WorkTreeIndInv'
<1>1. ASSUME NEW q \in Procs, Command(q) PROVE WorkTreeIndInv'
  BY <1>1, StatusKeeps, AddKeeps, RestoreKeeps, SwitchKeeps, AcquireKeeps, StatIndexKeeps, ReadIndexKeeps, ScanEntryKeeps,
     ScanContentKeeps, ScanDoneKeeps, UpdateIndexIfAbleKeeps, LiteralStatKeeps, StageFromStatKeeps, StageContentKeeps,
     JudgeRestoreKeeps, RestoreContentKeeps, TwoWayKeeps, CheckDirtyKeeps, WriteFileKeeps, SmudgeKeeps, StageLockKeeps,
     PublishLockKeeps, MoveHeadKeeps, ReturnKeeps, ZenonT(60)
  DEF Command
<1> QED BY <1>1, TickKeeps, EditKeeps DEF Next

\* A step that changes nothing keeps it too.
LEMMA StutterKeeps ==
  ASSUME WorkTreeIndInv, UNCHANGED vars
  PROVE  WorkTreeIndInv'
<1> USE DEF WorkTreeIndInv
<1>1. UNCHANGED <<now, files, index, lock, head, cache, proc, raced, edits, runs>> BY DEF vars
<1>2. WorldOK'
  BY <1>1 DEF WorldOK, EditsSeen, SeenBy, IsEntryStatClean, IsRacy, MatchesContentStat, Stat, Holds
<1>3. ASSUME NEW s \in Procs PROVE ProcOK(proc[s])'
  <2>1. index' \in Indexes /\ index.mtime <= index'.mtime /\ now \in Nat /\ now' \in Nat /\ now <= now'
    BY <1>1, BoundsAssumption DEF WorldOK, Indexes
  <2> QED BY <1>1, <2>1, BystanderOK
<1>4. LockOK' /\ SessionsOK' BY <1>1 DEF LockOK, SessionsOK, HoldsLock
<1> QED BY <1>2, <1>3, <1>4

\* The inductive invariant of the index, the files and the commands between them.
THEOREM WorkTreeSound == Spec => []WorkTreeIndInv
<1>1. WorkTreeIndInv /\ [Next]_vars => WorkTreeIndInv' BY NextKeeps, StutterKeeps
<1> QED BY InitOK, <1>1, PTL DEF Spec

\* The published index is well typed and passes no edited file for clean, whoever wrote it
\* and in whichever granule: the smudge before every index write keeps racy entries honest.
THEOREM IndexHonest == Spec => []IndexInv
<1>1. WorkTreeIndInv => IndexInv
  <2> SUFFICES ASSUME WorkTreeIndInv PROVE IndexInv OBVIOUS
  <2>1. ASSUME NEW q \in Procs
        PROVE  /\ cache[q] \in Indexes \cup {None}
               /\ proc[q].pc \in Pcs /\ proc[q].idx \in Indexes \cup {None} /\ proc[q].entries \in Entries \cup {None}
               /\ proc[q].stat \in Stats \cup {None} /\ proc[q].staged \in Indexes \cup {None}
               /\ proc[q].pc \in {"smudge", "stageLock", "publish"} => lock = q
    BY Facts DEF ProcOK, LocalsOK, HoldsLock
  <2>2. TypeOK BY <2>1 DEF WorkTreeIndInv, WorldOK, LockOK, SessionsOK, TypeOK
  <2> QED BY <2>2 DEF IndexInv, WorkTreeIndInv, WorldOK
<1> QED BY <1>1, WorkTreeSound, PTL

\* Under the lock a command works on the index that is on disk, read through the session's
\* cache or not; a refresh that read before it locked gives way unless that is so.
THEOREM LockedReads == Spec => []LockedReadCurrent
<1>1. WorkTreeIndInv => LockedReadCurrent
  <2> SUFFICES ASSUME WorkTreeIndInv, NEW q \in Procs, lock = q, proc[q].idx # None,
                      proc[q].op # "status" \/ proc[q].pc \in {"stageLock", "publish"}
               PROVE  proc[q].idx.entries = index.entries
    BY DEF LockedReadCurrent
  <2>1. HoldsLock(proc[q]) /\ HasRead(proc[q]) BY Facts DEF ProcOK, LocalsOK
  <2> QED BY <2>1, Facts DEF ProcOK, ReadOK
<1> QED BY <1>1, WorkTreeSound, PTL

\* What status, add and checkout of a path answer is true of the files.
THEOREM AnswersTrue == Spec => []CommandsHonest
<1>1. WorkTreeIndInv => StatusHonest
  <2> SUFFICES ASSUME WorkTreeIndInv, NEW q \in Procs, proc[q].op = "status", proc[q].pc \in {"lock", "able", "done"},
                      NEW p \in proc[q].verified \ (raced \cup proc[q].touched)
               PROVE  Holds(proc[q].idx.entries[p], p)
    BY DEF StatusHonest
  <2>1. HasRead(proc[q]) BY DEF HasRead
  <2> QED BY <2>1, Facts DEF ProcOK, FoundOK
<1>2. WorkTreeIndInv => AddAndRestoreExact
  <2> SUFFICES ASSUME WorkTreeIndInv, NEW q \in Procs, proc[q].op \in {"add", "restore"}, proc[q].pc = "done"
               PROVE  \/ proc[q].path \in raced \cup proc[q].touched
                      \/ Holds(proc[q].entries[proc[q].path], proc[q].path)
    BY DEF AddAndRestoreExact
  <2> QED BY Facts DEF ProcOK, FoundOK
<1> QED BY <1>1, <1>2, WorkTreeSound, PTL DEF CommandsHonest

\* A switch overwrites only what is staged, unless the edit came after its check.
THEOREM EditsKept == Spec => NoEditLost
<1>1. WorkTreeIndInv /\ [Next]_vars =>
        [\A q \in Procs, p \in Paths :
           (proc[q].op = "switch" /\ proc[q].pc = "write" /\ p \in proc[q].todo \ proc'[q].todo /\ p \notin proc[q].touched)
           => files[p].content = proc[q].entries[p].id]_vars
  BY Facts DEF ProcOK, CheckedOK
<1> QED BY <1>1, WorkTreeSound, PTL DEF Spec, NoEditLost
=============================================================================
