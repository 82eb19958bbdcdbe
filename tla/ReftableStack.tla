---------------------------- MODULE ReftableStack ----------------------------
(* One stack of the reftable backend (application/primitives/                  *)
(* reftable-transaction.ts and load-reftable-stack.ts): immutable tables,      *)
(* named oldest first by tables.list.  Callers run transactions, each followed *)
(* by auto-compaction, pack the whole stack, and read it through a memo, with  *)
(* nothing between them but tables.list.lock and <table>.ref.lock.             *)
(*                                                                             *)
(* A ref record is a value or a deletion; log records, which merge by the same *)
(* newest-wins rule under the key (name, update index), are left out, and so   *)
(* are symbolic values, the second stack of a linked worktree, and file        *)
(* systems without atomicRename.                                               *)
EXTENDS Integers, FiniteSets, FiniteSetsExt, Sequences

CONSTANTS
  Procs,
  Sessions,
  Uses,         \* what may be going on: see Use
  Refs,
  Vals,         \* object ids
  None,         \* no ref; as a record, a deletion
  NoRecord,     \* a table without a record for the name
  Always,       \* an update that carries no `expected`
  NoPlan,
  NoFile,
  Plans,        \* transactions: functions from some refs to [val, exp]
  Clashing,     \* pairs <<r, s>> where the name r is a directory of s
  Stacks,       \* stacks to start from: sequences of tables' records
  MaxTables     \* bound on the tables ever written

Records == [Refs -> Vals \cup {None, NoRecord}]
NoRecords == [r \in Refs |-> NoRecord]
Tables == 1..MaxTables
Map == [Refs -> Vals \cup {None}]

(* One way to use the stack: the session each process's calls share, the calls  *)
(* it may make, and bounds on crashes and I/O errors and on the tables written.*)
Use == [session : [Procs -> Sessions], ops : [Procs -> SUBSET {"update", "pack", "read"}],
        faults : 0..1, tables : Tables]

(* The stack s has a value for r.                                              *)
Holds(s, r) == \E i \in DOMAIN s : s[i][r] \in Vals /\ \A j \in DOMAIN s : j > i => s[j][r] = NoRecord

ASSUME StackAssumption ==
  /\ {None, NoRecord, Always} \cap Vals = {}
  /\ None # NoRecord /\ Always \notin {None, NoRecord}
  /\ NoPlan \notin Plans /\ NoFile \notin Seq(Nat)
  /\ Uses \subseteq Use
  /\ \A P \in Plans : \E D \in (SUBSET Refs) \ {{}} :
       P \in [D -> [val : Vals \cup {None}, exp : Vals \cup {None, Always}]]
  /\ Clashing \subseteq Refs \X Refs
  /\ \A s \in Stacks : s \in Seq(Records \ {NoRecords}) /\ Len(s) <= MaxTables
  /\ \A s \in Stacks, c \in Clashing : ~Holds(s, c[1]) \/ ~Holds(s, c[2])
  /\ MaxTables \in Nat

VARIABLES
  use,       \* which of the uses it is
  list,      \* tables.list
  stamp,     \* its mtime
  lockFile,  \* the content of tables.list.lock
  tlocks,    \* tables whose <table>.ref.lock exists
  files,     \* tables on disk under their final name
  temps,     \* tables on disk under their .temp name
  body,      \* body[t]: the records of t and the update index of its header
  issued,    \* how many table names were handed out
  cache,     \* the memoised stack of each session
  me,        \* what each process is doing
  faults,
  seen       \* maps that tables.list stood for since the read began

disk == <<list, stamp, lockFile, tlocks, files, temps, body>>
vars == <<use, disk, issued, cache, me, faults, seen>>

(* The newest record of r among the tables ts, oldest first.                   *)
Newest(ts, r) ==
  LET I == {i \in DOMAIN ts : body[ts[i]].recs[r] # NoRecord}
  IN  IF I = {} THEN NoRecord ELSE body[ts[Max(I)]].recs[r]

(* ReftableStack.lookup, for every name.                                       *)
View(ts) == [r \in Refs |-> IF Newest(ts, r) = NoRecord THEN None ELSE Newest(ts, r)]

(* latestMaxUpdateIndex.                                                       *)
MaxUpdateIndex(ts) == IF ts = <<>> THEN 0 ELSE body[ts[Len(ts)]].index

(* A process between two calls.                                                *)
Idle ==
  [pc |-> "idle", op |-> "none", plan |-> NoPlan, id |-> 0, names |-> <<>>,
   next |-> <<>>, seg |-> <<>>, left |-> <<>>, victims |-> {}, threw |-> FALSE,
   key |-> <<-1, 0>>, tries |-> 0,
   ans |-> NoPlan]

NoCache == [key |-> <<-1, 0>>, map |-> NoPlan]
Key == <<stamp, Len(list)>>

Init ==
  /\ use \in Uses
  /\ \E s \in Stacks :
       /\ list = [i \in DOMAIN s |-> i]
       /\ files = DOMAIN s
       /\ body = [t \in Tables |->
                    IF t \in DOMAIN s THEN [recs |-> s[t], index |-> t]
                    ELSE [recs |-> NoRecords, index |-> 0]]
       /\ issued = Len(s)
  /\ stamp = 0
  /\ lockFile = NoFile /\ tlocks = {} /\ temps = {}
  /\ cache = [s \in Sessions |-> NoCache]
  /\ me = [p \in Procs |-> Idle]
  /\ faults = 0
  /\ seen = [p \in Procs |-> {}]

At(p, l) == me[p].pc = l
Goto(p, l) == me' = [me EXCEPT ![p].pc = l]

(* The call is over, with a result or an error.                                *)
Return(p) == me' = [me EXCEPT ![p] = Idle]

-----------------------------------------------------------------------------
(* The list lock.                                                              *)

(* What a process does once it holds tables.list.lock.                         *)
Then == [lockWrite |-> "prepare", lockPlan |-> "check",
         lockSplice |-> "splice", lockSweep |-> "readdir"]
Waiting == DOMAIN Then

TryAcquireLock(p) ==
  /\ me[p].pc \in Waiting
  /\ lockFile = NoFile
  /\ lockFile' = <<>>
  /\ Goto(p, Then[me[p].pc])
  /\ UNCHANGED <<list, stamp, tlocks, files, temps, body, issued, cache>>

(* Mutation: the table locks are forgotten when the list lock is not had.      *)
TimeoutReturns(p) ==
  /\ me[p].pc \in Waiting
  /\ lockFile # NoFile
  /\ Return(p)
  /\ UNCHANGED <<disk, issued, cache>>

(* The retry budget is spent: REFTABLE_LOCKED.  Auto-compaction swallows it;   *)
(* a compaction that has merged releases its table locks first.                *)
Timeout(p) ==
  /\ me[p].pc \in Waiting
  /\ lockFile # NoFile
  /\ IF At(p, "lockSplice")
     THEN me' = [me EXCEPT ![p].pc = "free", ![p].threw = TRUE]
     ELSE Return(p)
  /\ UNCHANGED <<disk, issued, cache>>

(* The finally block that releases the list lock: removeIfPresent.  A          *)
(* compaction goes on to its table locks.                                      *)
Unlock(p) ==
  /\ At(p, "unlock")
  /\ lockFile' = NoFile
  /\ IF me[p].seg # <<>> THEN Goto(p, "free") ELSE Return(p)
  /\ UNCHANGED <<list, stamp, tlocks, files, temps, body, issued, cache>>

-----------------------------------------------------------------------------
(* A transaction: applyReftableUpdates.                                        *)

BeginUpdate(p) ==
  /\ At(p, "idle") /\ "update" \in use.ops[p]
  /\ issued + 2 <= use.tables
  /\ issued' = issued + 2
  /\ \E P \in Plans :
       me' = [me EXCEPT ![p] = [Idle EXCEPT !.pc = "lockWrite", !.op = "update",
                                            !.plan = P, !.id = issued + 1]]
  /\ UNCHANGED <<disk, cache>>

Clash(r, s) == {<<r, s>>, <<s, r>>} \cap Clashing # {}

(* verifyExpectations.                                                         *)
Verified(P, m) == \A r \in DOMAIN P : P[r].exp \in {Always, m[r]}

(* verifyTransactionNamesAvailable: a name that is to be created, or deleted   *)
(* where it does not exist, against the stack and against the transaction.     *)
NamesAvailable(P, m) ==
  \A r \in DOMAIN P :
    P[r].exp \in {Always, None} /\ m[r] = None =>
      \A s \in Refs : Clash(r, s) => m[s] = None /\ s \notin DOMAIN P

(* applyOneUpdate: deleting what does not exist writes no record.              *)
RecordsOf(P, m) ==
  [r \in Refs |->
    IF r \notin DOMAIN P \/ (P[r].val = None /\ m[r] = None) THEN NoRecord ELSE P[r].val]

(* prepareStackWrite: the stack is read under the lock, whole: nobody may      *)
(* change the list, and no table on it is unlinked.                            *)
PrepareStackWrite(p) ==
  /\ At(p, "prepare")
  /\ LET m == View(list)
         refused == \/ \E i \in DOMAIN list : list[i] \notin files
                    \/ ~Verified(me[p].plan, m)
                    \/ ~NamesAvailable(me[p].plan, m)
         active == RecordsOf(me[p].plan, m) # NoRecords
     IN  me' = [me EXCEPT ![p].names = list,
                          ![p].pc = IF ~refused /\ active THEN "stage" ELSE "unlock"]
  /\ UNCHANGED <<disk, issued, cache>>

(* writeStackTableFile: the table under a .temp name, then renamed.            *)
WriteTempTable(p) ==
  /\ At(p, "stage")
  /\ LET ts == me[p].names
     IN  body' = [body EXCEPT ![me[p].id] =
                    [recs |-> RecordsOf(me[p].plan, View(ts)), index |-> MaxUpdateIndex(ts) + 1]]
  /\ temps' = temps \cup {me[p].id}
  /\ me' = [me EXCEPT ![p].pc = "rename", ![p].next = Append(me[p].names, me[p].id)]
  /\ UNCHANGED <<list, stamp, lockFile, tlocks, files, issued, cache>>

(* The table a process is about to name: a merged one while it holds tables.   *)
Compacting(p) == me[p].seg # <<>>
OwnTable(p) == IF Compacting(p) THEN me[p].id + 1 ELSE me[p].id

RenameTable(p) ==
  /\ At(p, "rename")
  /\ IF OwnTable(p) \in temps
     THEN /\ temps' = temps \ {OwnTable(p)}
          /\ files' = files \cup {OwnTable(p)}
          /\ Goto(p, "lockBody")
     ELSE /\ me' = [me EXCEPT ![p].pc = "unlock", ![p].threw = TRUE]
          /\ UNCHANGED <<temps, files>>
  /\ UNCHANGED <<list, stamp, lockFile, tlocks, body, issued, cache>>

(* commitListBody: the new list goes to the lock file, which is renamed over   *)
(* tables.list.                                                                *)
WriteLockBody(p) ==
  /\ At(p, "lockBody")
  /\ lockFile' = me[p].next
  /\ Goto(p, "commit")
  /\ UNCHANGED <<list, stamp, tlocks, files, temps, body, issued, cache>>

CommitListBody(p) ==
  /\ At(p, "commit")
  /\ IF lockFile = NoFile
     THEN /\ me' = [me EXCEPT ![p].pc = "unlock", ![p].threw = TRUE]
          /\ UNCHANGED <<list, stamp, lockFile>>
     ELSE /\ list' = lockFile
          /\ stamp' = stamp + 1
          /\ lockFile' = NoFile
          /\ me' = [me EXCEPT ![p].pc = IF Compacting(p) THEN "unlink" ELSE "invalidate",
                              ![p].plan = NoPlan, ![p].next = <<>>, ![p].left = me[p].seg]
  /\ UNCHANGED <<tlocks, files, temps, body, issued, cache>>

Forget(p) == cache' = [cache EXCEPT ![use.session[p]] = NoCache]

(* Mutation: a lock that was renamed away is removed by its path all the same. *)
InvalidateAndUnlock(p) ==
  /\ At(p, "invalidate")
  /\ Forget(p)
  /\ lockFile' = NoFile
  /\ Goto(p, "probe")
  /\ UNCHANGED <<list, stamp, tlocks, files, temps, body, issued>>

(* invalidateReftableStack; the lock was consumed, and is left alone.          *)
Invalidate(p) ==
  /\ At(p, "invalidate")
  /\ Forget(p)
  /\ Goto(p, "probe")
  /\ UNCHANGED <<disk, issued>>

-----------------------------------------------------------------------------
(* Compaction: after a transaction over a segment, for packRefs over it all.   *)

BeginPack(p) ==
  /\ At(p, "idle") /\ "pack" \in use.ops[p]
  /\ issued < use.tables
  /\ issued' = issued + 1
  /\ me' = [me EXCEPT ![p] = [Idle EXCEPT !.pc = "names", !.op = "pack", !.id = issued]]
  /\ UNCHANGED <<disk, cache>>

(* compactWholeStack reads the names, without the lock.                        *)
ReadFreshTableNames(p) ==
  /\ At(p, "names")
  /\ me' = [me EXCEPT ![p].names = list, ![p].left = list,
                      ![p].pc = IF Len(list) < 2 THEN "lockSweep" ELSE "lockPlan"]
  /\ UNCHANGED <<disk, issued, cache>>

(* probeStackSizes: the names, then every table's size, without the lock.      *)
ProbeNames(p) ==
  /\ At(p, "probe")
  /\ me' = [me EXCEPT ![p].names = list, ![p].left = list, ![p].pc = "sizes"]
  /\ UNCHANGED <<disk, issued, cache>>

ProbeSize(p) ==
  /\ At(p, "sizes") /\ me[p].left # <<>>
  /\ IF Head(me[p].left) \in files
     THEN me' = [me EXCEPT ![p].left = Tail(@)]
     ELSE Return(p)
  /\ UNCHANGED <<disk, issued, cache>>

(* planCompaction: the sizes may suggest any run of tables, or none.           *)
PlanCompaction(p) ==
  /\ At(p, "sizes") /\ me[p].left = <<>>
  /\ \/ Return(p)
     \/ \E i, j \in DOMAIN me[p].names :
          /\ i < j
          /\ me' = [me EXCEPT ![p].left = SubSeq(me[p].names, i, j), ![p].pc = "lockPlan"]
  /\ UNCHANGED <<disk, issued, cache>>

(* acquireCompactionLocks: is the stack still the one that was probed?         *)
CheckNames(p) ==
  /\ At(p, "check")
  /\ Goto(p, IF list = me[p].names THEN "tables" ELSE "unplan")
  /\ UNCHANGED <<disk, issued, cache>>

(* lockTablesNewestToOldest: a held lock ends the segment there, and fewer     *)
(* than two tables are given up.                                               *)
LockTable(p) ==
  /\ At(p, "tables")
  /\ LET t == me[p].left[Len(me[p].left)]
         free == t \notin tlocks
         seg == IF free THEN <<t>> \o me[p].seg ELSE me[p].seg
         more == free /\ Len(me[p].left) > 1
     IN  /\ tlocks' = tlocks \cup {t}
         /\ me' = [me EXCEPT ![p].seg = seg,
                             ![p].left = IF more THEN SubSeq(@, 1, Len(@) - 1) ELSE <<>>,
                             ![p].pc = IF more THEN "tables"
                                       ELSE IF Len(seg) < 2 THEN "giveUp" ELSE "unplan"]
  /\ UNCHANGED <<list, stamp, lockFile, files, temps, body, issued, cache>>

(* Without a segment the compaction is over: for packRefs, on to the sweep.    *)
NoCompaction(p) ==
  IF me[p].op = "pack" THEN Goto(p, "lockSweep") ELSE Return(p)

GiveUp(p) ==
  /\ At(p, "giveUp")
  /\ IF Compacting(p)
     THEN /\ tlocks' = tlocks \ {Head(me[p].seg)}
          /\ me' = [me EXCEPT ![p].seg = Tail(@)]
     ELSE Goto(p, "unplan") /\ UNCHANGED tlocks
  /\ UNCHANGED <<list, stamp, lockFile, files, temps, body, issued, cache>>

(* The list lock is released while the tables are merged.                      *)
UnlockPlan(p) ==
  /\ At(p, "unplan")
  /\ lockFile' = NoFile
  /\ IF Compacting(p) THEN Goto(p, "merge") ELSE NoCompaction(p)
  /\ UNCHANGED <<list, stamp, tlocks, files, temps, body, issued, cache>>

(* Mutation: deletions are dropped whatever is below the segment.              *)
MergedDropsAll(ts, fromZero) ==
  [r \in Refs |-> IF Newest(ts, r) = None THEN NoRecord ELSE Newest(ts, r)]

(* mergeRefRecords: the newest record of each name; a deletion is dropped only *)
(* when no older table is left that it could hide.                             *)
Merged(ts, fromZero) ==
  [r \in Refs |-> IF fromZero /\ Newest(ts, r) = None THEN NoRecord ELSE Newest(ts, r)]

(* mergeSegment: an empty merge writes no table.  Nothing releases the table   *)
(* locks when it throws.                                                       *)
MergeSegment(p) ==
  /\ At(p, "merge")
  /\ LET ts == me[p].seg
         recs == Merged(ts, ts[1] = me[p].names[1])
     IN  IF \A i \in DOMAIN ts : ts[i] \in files
         THEN /\ body' = [body EXCEPT ![OwnTable(p)] =
                            [recs |-> recs, index |-> MaxUpdateIndex(ts)]]
              /\ temps' = IF recs = NoRecords THEN temps ELSE temps \cup {OwnTable(p)}
              /\ Goto(p, "lockSplice")
         ELSE Return(p) /\ UNCHANGED <<body, temps>>
  /\ UNCHANGED <<list, stamp, lockFile, tlocks, files, issued, cache>>

(* Mutation: the segment is cut out of the list as it was probed.              *)
SpliceProbed(p) ==
  /\ At(p, "splice")
  /\ LET ts == me[p].names
         i == CHOOSE i \in DOMAIN ts : ts[i] = me[p].seg[1]
         empty == body[OwnTable(p)].recs = NoRecords
     IN  me' = [me EXCEPT
           ![p].next = SubSeq(ts, 1, i - 1) \o (IF empty THEN <<>> ELSE <<OwnTable(p)>>)
                         \o SubSeq(ts, i + Len(me[p].seg), Len(ts)),
           ![p].pc = IF empty THEN "lockBody" ELSE "rename"]
  /\ UNCHANGED <<disk, issued, cache>>

(* commitMergedList under the list lock: the fresh list with the segment       *)
(* replaced (spliceLockedSegment), or nothing when it is no longer there.      *)
SpliceLockedSegment(p) ==
  /\ At(p, "splice")
  /\ LET n == Len(me[p].seg)
         empty == body[OwnTable(p)].recs = NoRecords
         places == {i \in 1..(Len(list) - n + 1) : SubSeq(list, i, i + n - 1) = me[p].seg}
     IN  IF places = {}
         THEN temps' = temps \ {OwnTable(p)} /\ Goto(p, "unlock")
         ELSE /\ \E i \in places :
                   me' = [me EXCEPT
                     ![p].next = SubSeq(list, 1, i - 1)
                                   \o (IF empty THEN <<>> ELSE <<OwnTable(p)>>)
                                   \o SubSeq(list, i + n, Len(list)),
                     ![p].pc = IF empty THEN "lockBody" ELSE "rename"]
              /\ UNCHANGED temps
  /\ UNCHANGED <<list, stamp, lockFile, tlocks, files, body, issued, cache>>

(* unlinkSegmentTables, one table at a time, after the list has changed.       *)
UnlinkTable(p) ==
  /\ At(p, "unlink")
  /\ IF me[p].left # <<>>
     THEN /\ files' = files \ {Head(me[p].left)}
          /\ me' = [me EXCEPT ![p].left = Tail(@)]
     ELSE Goto(p, "free") /\ UNCHANGED files
  /\ UNCHANGED <<list, stamp, lockFile, tlocks, temps, body, issued, cache>>

(* The finally of commitCompaction: the table locks, oldest first.  A pack     *)
(* that did not fail drops the memo and goes on to the sweep.                  *)
ReleaseTable(p) ==
  /\ At(p, "free")
  /\ IF Compacting(p)
     THEN /\ tlocks' = tlocks \ {Head(me[p].seg)}
          /\ me' = [me EXCEPT ![p].seg = Tail(@)]
          /\ UNCHANGED cache
     ELSE /\ IF me[p].threw THEN Return(p) ELSE NoCompaction(p)
          /\ IF me[p].op = "pack" /\ ~me[p].threw THEN Forget(p) ELSE UNCHANGED cache
          /\ UNCHANGED tlocks
  /\ UNCHANGED <<list, stamp, lockFile, files, temps, body, issued>>

(* sweepOrphanTables, with the list lock held throughout: every table the list *)
(* does not name, but temporary ones only while no table is locked.            *)
ReadDirectory(p) ==
  /\ At(p, "readdir")
  /\ me' = [me EXCEPT ![p].pc = "sweep",
       ![p].victims = ((files \ {list[i] : i \in DOMAIN list}) \X {"ref"})
                        \cup (IF tlocks = {} THEN temps \X {"temp"} ELSE {})]
  /\ UNCHANGED <<disk, issued, cache>>

SweepOrphan(p) ==
  /\ At(p, "sweep")
  /\ \/ /\ me[p].victims = {}
        /\ Goto(p, "unlock")
        /\ UNCHANGED <<files, temps>>
     \/ \E v \in me[p].victims :
        /\ files' = IF v[2] = "ref" THEN files \ {v[1]} ELSE files
        /\ temps' = IF v[2] = "temp" THEN temps \ {v[1]} ELSE temps
        /\ me' = [me EXCEPT ![p].victims = @ \ {v}]
  /\ UNCHANGED <<list, stamp, lockFile, tlocks, body, issued, cache>>

-----------------------------------------------------------------------------
(* Reading: loadReftableStack.                                                 *)

BeginRead(p) ==
  /\ At(p, "idle") /\ "read" \in use.ops[p]
  /\ me' = [me EXCEPT ![p] = [Idle EXCEPT !.pc = "stat", !.op = "read", !.tries = 1]]
  /\ UNCHANGED <<disk, issued, cache>>

(* The memo answers when the stat key of tables.list is the one it has.        *)
StatList(p) ==
  /\ At(p, "stat")
  /\ LET c == cache[use.session[p]]
     IN  me' = IF c.key = Key
               THEN [me EXCEPT ![p].pc = "answer", ![p].ans = c.map]
               ELSE [me EXCEPT ![p].pc = "load", ![p].key = Key]
  /\ UNCHANGED <<disk, issued, cache>>

ReadList(p) ==
  /\ At(p, "load")
  /\ me' = [me EXCEPT ![p].pc = "open", ![p].names = list, ![p].left = list]
  /\ UNCHANGED <<disk, issued, cache>>

(* Mutation: a table that is gone is taken for an empty one.                   *)
SkipMissing(p) ==
  /\ At(p, "open") /\ me[p].left # <<>>
  /\ me' = IF Head(me[p].left) \in files
           THEN [me EXCEPT ![p].left = Tail(@)]
           ELSE [me EXCEPT ![p].left = Tail(@),
                           ![p].names = SelectSeq(@, LAMBDA t : t # Head(me[p].left))]
  /\ UNCHANGED <<disk, issued, cache>>

(* attemptLoad and openTables: a missing table starts the load again, once.    *)
OpenTable(p) ==
  /\ At(p, "open") /\ me[p].left # <<>>
  /\ IF Head(me[p].left) \in files
     THEN me' = [me EXCEPT ![p].left = Tail(@)]
     ELSE IF me[p].tries = 1
     THEN me' = [me EXCEPT ![p].pc = "load", ![p].tries = 2]
     ELSE Return(p)
  /\ UNCHANGED <<disk, issued, cache>>

(* The loaded stack is memoised under the key of the stat before the load.     *)
FillCache(p) ==
  /\ At(p, "open") /\ me[p].left = <<>>
  /\ LET m == View(me[p].names)
     IN  /\ cache' = [cache EXCEPT ![use.session[p]] = [key |-> me[p].key, map |-> m]]
         /\ me' = [me EXCEPT ![p].pc = "answer", ![p].ans = m]
  /\ UNCHANGED <<disk, issued>>

Answer(p) ==
  /\ At(p, "answer")
  /\ Return(p)
  /\ UNCHANGED <<disk, issued, cache>>

-----------------------------------------------------------------------------
(* Faults.                                                                     *)

(* An I/O error: the step is not made, and the finally blocks around it run.   *)
(* Table locks are released only by the finally of commitCompaction.           *)
Fail(p) ==
  /\ me' = CASE me[p].pc \in {"prepare", "stage", "rename", "lockBody", "commit",
                              "splice", "readdir", "sweep"}
                  -> [me EXCEPT ![p].pc = "unlock", ![p].threw = TRUE]
             [] me[p].pc \in {"check", "tables", "giveUp"}
                  -> [me EXCEPT ![p].pc = "unlock", ![p].threw = TRUE, ![p].seg = <<>>]
             [] me[p].pc \in {"lockSplice", "unlink"}
                  -> [me EXCEPT ![p].pc = "free", ![p].threw = TRUE]
             [] me[p].pc \in (Waiting \ {"lockSplice"}) \cup
                             {"names", "probe", "sizes", "merge", "free", "stat", "load", "open"}
                  -> [me EXCEPT ![p] = Idle]
             [] OTHER -> me
  /\ me' # me
  /\ UNCHANGED <<disk, issued, cache>>

(* The process of a session dies, with everything it was doing.                *)
Crash(s) ==
  /\ \E p \in Procs : use.session[p] = s /\ ~At(p, "idle")
  /\ me' = [p \in Procs |-> IF use.session[p] = s THEN Idle ELSE me[p]]
  /\ cache' = [cache EXCEPT ![s] = NoCache]
  /\ UNCHANGED <<disk, issued>>

-----------------------------------------------------------------------------
Begin(p) == BeginUpdate(p) \/ BeginPack(p) \/ BeginRead(p)

Work(p) ==
  \/ TryAcquireLock(p) \/ Timeout(p) \/ Unlock(p)
  \/ PrepareStackWrite(p) \/ WriteTempTable(p) \/ RenameTable(p) \/ WriteLockBody(p)
  \/ CommitListBody(p) \/ Invalidate(p)
  \/ ReadFreshTableNames(p) \/ ProbeNames(p) \/ ProbeSize(p) \/ PlanCompaction(p)
  \/ CheckNames(p) \/ LockTable(p) \/ GiveUp(p) \/ UnlockPlan(p) \/ MergeSegment(p)
  \/ SpliceLockedSegment(p) \/ UnlinkTable(p) \/ ReleaseTable(p)
  \/ ReadDirectory(p) \/ SweepOrphan(p)
  \/ StatList(p) \/ ReadList(p) \/ OpenTable(p) \/ FillCache(p) \/ Answer(p)

Fault ==
  /\ faults < use.faults
  /\ faults' = faults + 1
  /\ (\E p \in Procs : Fail(p)) \/ (\E s \in Sessions : Crash(s))

(* Every map the list has stood for since the read began.                      *)
Observe ==
  seen' = [p \in Procs |->
            IF me'[p].op # "read" THEN {}
            ELSE (IF me[p].op = "read" THEN seen[p] ELSE {}) \cup {View(list)'}]

Next ==
  /\ \/ \E p \in Procs : (Begin(p) \/ Work(p)) /\ UNCHANGED faults
     \/ Fault
  /\ Observe
  /\ UNCHANGED use

Spec == Init /\ [][Next]_vars

-----------------------------------------------------------------------------
Labels ==
  Waiting \cup {Then[l] : l \in Waiting} \cup
  {"idle", "unlock", "stage", "rename", "lockBody", "commit", "invalidate",
   "names", "probe", "sizes", "tables", "giveUp", "unplan", "merge", "unlink", "free",
   "sweep", "stat", "load", "open", "answer"}

(* The files, the memo and the local state of every process have their shapes. *)
TypeOK ==
  /\ {list[i] : i \in DOMAIN list} \subseteq Tables
  /\ stamp \in Nat /\ issued \in 0..MaxTables /\ faults \in 0..use.faults
  /\ tlocks \subseteq Tables /\ files \subseteq Tables /\ temps \subseteq Tables
  /\ body \in [Tables -> [recs : Records, index : Nat]]
  /\ \A p \in Procs :
       /\ me[p].pc \in Labels
       /\ me[p].plan \in Plans \cup {NoPlan}
       /\ \A ts \in {me[p].names, me[p].next, me[p].seg, me[p].left} :
            \A i \in DOMAIN ts : ts[i] \in Tables
       /\ me[p].ans \in Map \cup {NoPlan}
       /\ seen[p] \subseteq Map

(* The labels at which a process believes it holds tables.list.lock.           *)
Holding ==
  {Then[l] : l \in Waiting} \cup
  {"unlock", "stage", "rename", "lockBody", "commit", "tables", "giveUp", "unplan", "sweep"}

(* At most one process works under tables.list.lock, and the lock file is      *)
(* there for as long as it does: no finally block removes a lock that          *)
(* meanwhile belongs to somebody else.                                         *)
ListLockExclusive ==
  \A p \in Procs : me[p].pc \in Holding =>
    /\ lockFile # NoFile
    /\ \A q \in Procs \ {p} : me[q].pc \notin Holding

(* Every table tables.list names is on disk, and update indices grow along it, *)
(* whatever appends, compactions, sweeps and crashes came between.             *)
ListSound ==
  /\ \A i \in DOMAIN list : list[i] \in files
  /\ \A i, j \in DOMAIN list : i < j => body[list[i]].index < body[list[j]].index

(* A table a process has written and not yet named is not swept away by        *)
(* packRefs: neither a writer's, nor the one a compaction writes while it does *)
(* not hold the list lock.                                                     *)
InFlightKept ==
  \A p \in Procs :
    /\ At(p, "rename") => OwnTable(p) \in temps
    /\ me[p].pc \in {"lockSplice", "splice"} /\ body[OwnTable(p)].recs # NoRecords
         => OwnTable(p) \in temps
    /\ me[p].pc \in {"lockBody", "commit"} /\ body[OwnTable(p)].recs # NoRecords
         => OwnTable(p) \in files

(* The stack on disk at every moment: well typed, its list sound, the list     *)
(* lock one process's, and the tables still on their way to the list kept.     *)
StackInv == TypeOK /\ ListLockExclusive /\ ListSound /\ InFlightKept

(* loadReftableStack answers with the whole map at one instant of the read,    *)
(* from the memo or from tables that were compacted away while it opened them. *)
ReadsSnapshot == \A p \in Procs : At(p, "answer") => me[p].ans \in seen[p]

(* Transactions are made whole, under their required values, or not at all;    *)
(* auto-compaction, packRefs and crashes move no ref.                          *)
Abstract ==
  INSTANCE RefTransactions WITH
    refs <- View(list), want <- [p \in Procs |-> me[p].plan]
RefinesTransactions == Abstract!TransSpec

(* No table lock outlives its compaction: however a call ends, short of a      *)
(* fault, nothing is locked once no call is under way.                         *)
TableLocksGivenBack == (faults = 0 /\ \A p \in Procs : At(p, "idle")) => tlocks = {} /\ lockFile = NoFile
=============================================================================
