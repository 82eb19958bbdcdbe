------------------------------- MODULE WorkTree -------------------------------
(* The index, the working tree and the stat data that relates them: status,     *)
(* add, checkout of a path and checkout of a branch, in processes that share a  *)
(* repository with a user who edits files. An entry records the stat of the     *)
(* file it was staged from; a file whose stat still agrees is taken for         *)
(* unchanged without being read, unless the entry is racy: not older than the   *)
(* index file, so that a later edit of the same length may have left the same   *)
(* stat. A rewrite of the index would make such an entry look old, so every     *)
(* write first compares the racy entries it carries over and smudges the ones   *)
(* whose file differs (size 0).                                                 *)
(*                                                                              *)
(* Time is counted in granules of the file system's clock; the adapters of this *)
(* model have no finer stamp (mtimeNs is undefined), which is the case the      *)
(* trailer check of the index cache is for. A stat is an mtime and a size: what *)
(* an edit in place keeps. index.lock is taken or refused at once; how it is    *)
(* taken over and lost is in IndexLock. Every path is a regular file that the   *)
(* index holds at stage 0 and that nobody removes: no submodules, no sparse or  *)
(* assume-valid entries, no conversion of line ends.                            *)
EXTENDS Naturals, FiniteSets

CONSTANTS
  Paths,     \* the tracked paths
  Procs,     \* the processes, each with a session of its own
  Contents,  \* what a file may hold
  Size,      \* [content -> its length]
  Trees,     \* the trees that can be checked out, [path -> content]
  First,     \* the one that is checked out at first
  Ops,       \* the commands that are run
  Cut(_, _), \* the first n bytes of a content
  None,      \* no value
  MaxTick,   \* the last granule
  MaxEdits,  \* how many edits the user makes
  MaxRuns    \* how many commands are run

ASSUME SizeAssumption == Size \in [Contents -> Nat]
ASSUME TreesAssumption == Trees \subseteq [Paths -> Contents] /\ First \in Trees
ASSUME CutAssumption == \A c, d \in Contents :
  /\ Size[d] <= Size[c] => Cut(c, Size[d]) \in Contents /\ Size[Cut(c, Size[d])] = Size[d]
  /\ Size[d] = Size[c] => Cut(c, Size[d]) = c
ASSUME NoneAssumption == None \notin Procs
ASSUME BoundsAssumption == MaxTick \in Nat /\ MaxEdits \in Nat /\ MaxRuns \in Nat

VARIABLES
  now,    \* the clock
  files,  \* [path -> content and mtime]
  index,  \* the published index: its entries and the file's mtime
  lock,   \* the process that holds index.lock, or None
  head,   \* the tree of HEAD
  cache,  \* [process -> the parsed index its session keeps, or None]
  proc,   \* [process -> the command it runs and the command's locals]
  raced,  \* history: the paths with an edit that no stat can show, see Change
  edits,  \* how many edits were made
  runs    \* how many commands were started

vars == <<now, files, index, lock, head, cache, proc, raced, edits, runs>>

Entries == [Paths -> [id : Contents, mtime : 0..MaxTick, size : {Size[c] : c \in Contents} \cup {0}]]
Indexes == [entries : Entries, mtime : 0..MaxTick]
Stat(p) == [mtime |-> files[p].mtime, size |-> Size[files[p].content]]
Stats == [mtime : 0..MaxTick, size : {Size[c] : c \in Contents}]

Idle == [pc |-> "idle", op |-> None, path |-> None, old |-> None, target |-> None, istat |-> 0, idx |-> None,
         stat |-> None, todo |-> {}, entries |-> None, verified |-> {}, refreshed |-> FALSE, staged |-> None,
         seen |-> {}, touched |-> {}]

-----------------------------------------------------------------------------
(* Judging a file by its stat. *)

\* isRacy: not provably older than the index file.
IsRacy(e, indexMtime) == e.mtime >= indexMtime

\* matchesContentStat: every field the entry recorded is still the file's.
MatchesContentStat(e, s) == e.mtime = s.mtime /\ e.size = s.size

\* isEntryStatClean
IsEntryStatClean(e, s, indexMtime) == ~IsRacy(e, indexMtime) /\ MatchesContentStat(e, s)

\* A mutant of StatOnlyVerdict: a racy entry is believed.
StatAloneVerdict(e, s, indexMtime) ==
  IF MatchesContentStat(e, s) THEN "unchanged"
  ELSE IF e.size # 0 /\ e.size # s.size THEN "modified" ELSE "look"

\* statOnlyVerdict: a file whose length changed is modified, unless the entry's
\* size is the smudged 0; "look" where only the content can tell.
StatOnlyVerdict(e, s, indexMtime) ==
  IF IsEntryStatClean(e, s, indexMtime) THEN "unchanged"
  ELSE IF e.size # 0 /\ e.size # s.size THEN "modified" ELSE "look"

\* compareContent
CompareContent(e, p) == IF files[p].content = e.id THEN "unchanged" ELSE "modified"

\* matchesCachedStat: the rule of a path checkout. A racy match is looked into.
MatchesCachedStat(e, s, indexMtime) ==
  IF ~MatchesContentStat(e, s) THEN "modified" ELSE IF ~IsRacy(e, indexMtime) THEN "unchanged" ELSE "look"

\* withStatData, and indexEntryFromStat for a content that is staged.
WithStat(c, s) == [id |-> c, mtime |-> s.mtime, size |-> s.size]

\* carriedOver: the racy entries of `new` that nobody verified and that are the
\* previous index's own.
Racy(new, previous, verified) ==
  {p \in Paths \ verified : IsRacy(new[p], previous.mtime) /\ new[p] = previous.entries[p]}

\* racilyClean: of these, the ones whose file still has their stat.
RacilyClean(new, previous, verified) ==
  {p \in Racy(new, previous, verified) : MatchesContentStat(new[p], Stat(p))}

\* A mutant of SmudgeRacilyClean: only the entries of a later stamp than the
\* index are looked at.
SmudgeLater(new, previous, verified) ==
  [p \in Paths |-> IF new[p].mtime > previous.mtime /\ p \in RacilyClean(new, previous, verified)
                      /\ CompareContent(new[p], p) = "modified"
                   THEN [new[p] EXCEPT !.size = 0] ELSE new[p]]

\* smudgeRacilyClean
SmudgeRacilyClean(new, previous, verified) ==
  [p \in Paths |-> IF p \in RacilyClean(new, previous, verified) /\ CompareContent(new[p], p) = "modified"
                   THEN [new[p] EXCEPT !.size = 0] ELSE new[p]]

-----------------------------------------------------------------------------
(* The world: the clock, the user, and what a change of a file means to the    *)
(* commands that are under way.                                                *)

\* File p now holds c. A change that keeps the mtime, made after a command has
\* looked at the file and before it has stamped the index it writes, is one that
\* no stat can show: raced remembers it until the mtime moves.
Change(q, p, c) ==
  LET kept == now = files[p].mtime
      watched == \E r \in Procs \ {q} : p \in proc[r].seen
  IN /\ files' = [files EXCEPT ![p] = [content |-> c, mtime |-> now]]
     /\ raced' = IF kept /\ (watched \/ p \in raced) THEN raced \cup {p} ELSE raced \ {p}

\* The commands of the other processes learn nothing; history does.
Touched(q, p) == [r \in Procs |-> IF r = q \/ proc[r].pc = "idle" THEN proc[r]
                                  ELSE [proc[r] EXCEPT !.touched = @ \cup {p}]]

\* The user saves a file in place.
Edit(p, c) ==
  /\ edits < MaxEdits /\ edits' = edits + 1
  /\ c # files[p].content
  /\ Change(None, p, c)
  /\ proc' = Touched(None, p)
  /\ UNCHANGED <<now, index, lock, head, cache, runs>>

Tick ==
  /\ now < MaxTick /\ now' = now + 1
  /\ UNCHANGED <<files, index, lock, head, cache, proc, raced, edits, runs>>

-----------------------------------------------------------------------------
(* Steps that several commands share. *)

\* Process q goes on as r; nothing else changes.
Go(q, r) == /\ proc' = [proc EXCEPT ![q] = r]
            /\ UNCHANGED <<now, files, index, head, raced, edits>>

\* An answer: the command is over, `done` keeps its locals for one state.
End(q, r) == Go(q, [r EXCEPT !.pc = "done", !.seen = {}])
Refuse(q) == Go(q, Idle)

\* The lock that a command gives up without having written.
Release(q) == lock' = IF lock = q THEN None ELSE lock

Start(q, r) == /\ runs < MaxRuns /\ runs' = runs + 1
               /\ proc[q].pc = "idle"
               /\ Go(q, r)
               /\ UNCHANGED <<lock, cache>>

Status(q) == "status" \in Ops /\ Start(q, [Idle EXCEPT !.op = "status", !.pc = "statIndex"])
Add(q, p) == "add" \in Ops /\ Start(q, [Idle EXCEPT !.op = "add", !.pc = "lstat", !.path = p])
Restore(q, p) == "restore" \in Ops /\ Start(q, [Idle EXCEPT !.op = "restore", !.pc = "lock", !.path = p])
\* switchBranch: HEAD is resolved before the index is locked.
Switch(q, t) == "switch" \in Ops /\ Start(q, [Idle EXCEPT !.op = "switch", !.pc = "lock", !.target = t, !.old = head])

\* acquireIndexLock, and for status acquireOptionalIndexLock: a lock that is
\* taken fails the command, and leaves status without a write-back.
Acquire(q) ==
  LET me == proc[q] IN
  /\ me.pc = "lock"
  /\ IF lock # None THEN /\ IF me.op = "status" THEN End(q, me) ELSE Refuse(q)
                         /\ UNCHANGED lock
     ELSE lock' = q /\ Go(q, [me EXCEPT !.pc = IF me.op = "status" THEN "able" ELSE "statIndex"])
  /\ UNCHANGED <<cache, runs>>

\* readIndex takes the stat first and reads what it finds then.
StatIndex(q) ==
  /\ proc[q].pc = "statIndex"
  /\ Go(q, [proc[q] EXCEPT !.pc = "readIndex", !.istat = index.mtime])
  /\ UNCHANGED <<lock, cache, runs>>

\* A mutant of CacheTrusted: a stat that agrees is enough.
StatTrusted(q, istat) == cache[q] # None /\ cache[q].mtime = istat

\* sameKey, isRacyMatch and trailerStillMatches: a stat without nanoseconds
\* cannot tell two rewrites of one granule apart, the checksum can.
CacheTrusted(q, istat) == cache[q] # None /\ cache[q].mtime = istat /\ cache[q].entries = index.entries

\* readIndexAt: the cached parse, or the file under the stat taken before.
IndexAt(q, istat) == IF CacheTrusted(q, istat) THEN cache[q] ELSE [entries |-> index.entries, mtime |-> istat]

ReadIndex(q) ==
  LET me == proc[q]
      read == IndexAt(q, me.istat)
      next == CASE me.op \in {"status", "switch"} -> "scan" [] me.op = "add" -> "stage" [] me.op = "restore" -> "judge"
  IN /\ me.pc = "readIndex"
     /\ cache' = [cache EXCEPT ![q] = read]
     /\ Go(q, [me EXCEPT !.pc = next, !.idx = read, !.entries = read.entries, !.istat = 0,
                         !.todo = IF next = "scan" THEN Paths ELSE {}])
     /\ UNCHANGED <<lock, runs>>

-----------------------------------------------------------------------------
(* The scan of status and of a switch. *)

\* compareAndRefresh: what the scan keeps of a path it has judged. An entry
\* found unchanged under another stat is refreshed.
Scanned(me, p, verdict) ==
  LET drifted == verdict = "unchanged" /\ ~MatchesContentStat(me.entries[p], me.stat)
  IN [me EXCEPT !.pc = "scan", !.path = None, !.stat = None, !.todo = @ \ {p},
                !.verified = IF verdict = "unchanged" THEN @ \cup {p} ELSE @,
                !.refreshed = @ \/ drifted,
                !.entries[p] = IF drifted THEN WithStat(@.id, me.stat) ELSE @]

\* scanEntry, compareAndRefresh: the single lstat.
ScanEntry(q, p) ==
  LET me == [proc[q] EXCEPT !.path = p, !.stat = Stat(p)]
      verdict == StatOnlyVerdict(me.entries[p], Stat(p), me.idx.mtime)
  IN /\ me.pc = "scan" /\ p \in me.todo
     /\ Go(q, IF verdict = "look" THEN [me EXCEPT !.pc = "content"] ELSE Scanned(me, p, verdict))
     /\ UNCHANGED <<lock, cache, runs>>

\* compareContent: the file as it is by now.
ScanContent(q) ==
  LET me == proc[q] IN
  /\ me.pc = "content" /\ me.op \in {"status", "switch"}
  /\ Go(q, [Scanned(me, me.path, CompareContent(me.entries[me.path], me.path)) EXCEPT !.seen = @ \cup {me.path}])
  /\ UNCHANGED <<lock, cache, runs>>

\* reportUnderLock: the report is made, the lock is tried for.
ScanDone(q) ==
  /\ proc[q].pc = "scan" /\ proc[q].todo = {} /\ proc[q].op = "status"
  /\ Go(q, [proc[q] EXCEPT !.pc = "lock"])
  /\ UNCHANGED <<lock, cache, runs>>

\* updateIndexIfAble: there is something to write when an entry drifted or is
\* racy against the index that was read (hasRacyTimestamp).
UpdateIndexIfAble(q) ==
  LET me == proc[q]
      racy == \E p \in Paths : me.idx.entries[p].mtime >= me.idx.mtime
  IN /\ me.pc = "able"
     /\ IF me.refreshed \/ racy THEN Go(q, [me EXCEPT !.pc = "smudge"]) /\ UNCHANGED lock
        ELSE End(q, me) /\ Release(q)
     /\ UNCHANGED <<cache, runs>>

-----------------------------------------------------------------------------
(* add, of a path that is named. *)

\* literalStats: the lstat is taken before the lock.
LiteralStat(q) ==
  /\ proc[q].pc = "lstat"
  /\ Go(q, [proc[q] EXCEPT !.pc = "lock", !.stat = Stat(proc[q].path)])
  /\ UNCHANGED <<lock, cache, runs>>

\* restagesAsIs
RestagesAsIs(e, s, indexMtime) == IsEntryStatClean(e, s, indexMtime)

\* stagePromisorChecked: a path that is clean by its stat changes nothing, and
\* commitIfChanged then writes nothing.
StageFromStat(q) ==
  LET me == proc[q] IN
  /\ me.pc = "stage"
  /\ IF RestagesAsIs(me.entries[me.path], me.stat, me.idx.mtime) THEN End(q, me) /\ Release(q)
     ELSE Go(q, [me EXCEPT !.pc = "content"]) /\ UNCHANGED lock
  /\ UNCHANGED <<cache, runs>>

\* readProbedBytes, writeCleanedBlob: exactly as many bytes as the lstat saw. A
\* file that shrank aborts the add, one that grew is staged truncated.
StageContent(q) ==
  LET me == proc[q]
      c == files[me.path].content
  IN /\ me.pc = "content" /\ me.op = "add"
     /\ IF Size[c] < me.stat.size THEN Refuse(q) /\ Release(q)
        ELSE /\ Go(q, [me EXCEPT !.pc = "smudge", !.seen = {me.path},
                       !.entries[me.path] = WithStat(Cut(c, me.stat.size), me.stat)])
             /\ UNCHANGED lock
     /\ UNCHANGED <<cache, runs>>

-----------------------------------------------------------------------------
(* checkout of a path from the index, and of a branch. *)

\* upgradeStaleNoops, isUpToDate: whether the file has to be written again.
Judged(me, verdict) ==
  IF verdict = "unchanged" THEN [me EXCEPT !.pc = "smudge", !.verified = {me.path}]
  ELSE [me EXCEPT !.pc = "write", !.todo = {me.path}]

JudgeRestore(q) ==
  LET me == proc[q]
      verdict == MatchesCachedStat(me.entries[me.path], Stat(me.path), me.idx.mtime)
  IN /\ me.pc = "judge"
     /\ Go(q, IF verdict = "look" THEN [me EXCEPT !.pc = "content"] ELSE Judged(me, verdict))
     /\ UNCHANGED <<lock, cache, runs>>

\* racyContentMatcher
RestoreContent(q) ==
  LET me == proc[q] IN
  /\ me.pc = "content" /\ me.op = "restore"
  /\ Go(q, [Judged(me, CompareContent(me.entries[me.path], me.path)) EXCEPT !.seen = {me.path}])
  /\ UNCHANGED <<lock, cache, runs>>

\* carryStagedChanges: a path both trees agree on keeps its entry; one that is
\* staged as neither tree has it refuses the switch; of the rest the ones that
\* are not yet as in the target are to be written.
TwoWay(q) ==
  LET me == proc[q]
      moved == {p \in Paths : me.old[p] # me.target[p]}
      writes == {p \in moved : me.entries[p].id # me.target[p]}
  IN /\ me.pc = "scan" /\ me.op = "switch" /\ me.todo = {}
     /\ IF \E p \in writes : me.entries[p].id # me.old[p] THEN Refuse(q) /\ Release(q)
        ELSE Go(q, [me EXCEPT !.pc = IF writes = {} THEN "smudge" ELSE "check", !.todo = writes]) /\ UNCHANGED lock
     /\ UNCHANGED <<cache, runs>>

\* A mutant of OverwritesNothing: the stat decides whether the file is as staged.
StatOverwritesNothing(me, p) ==
  MatchesContentStat(me.idx.entries[p], Stat(p)) \/ files[p].content = me.entries[p].id

\* evaluateChangedPath, blobMatches: the content decides.
OverwritesNothing(me, p) == files[p].content = me.entries[p].id

\* checkDirty: every path is checked before the first one is written. One file
\* that holds something else refuses the whole switch.
CheckDirty(q, p) ==
  LET me == proc[q]
      left == me.todo \ {p}
      checked == [me EXCEPT !.todo = left, !.touched = @ \ {p}, !.seen = @ \cup {p}]
      writes == {r \in Paths : me.old[r] # me.target[r] /\ me.entries[r].id # me.target[r]}
  IN /\ me.pc = "check" /\ p \in me.todo
     /\ IF ~OverwritesNothing(me, p) THEN Refuse(q) /\ Release(q)
        ELSE /\ Go(q, IF left = {} THEN [checked EXCEPT !.pc = "write", !.todo = writes] ELSE checked)
             /\ UNCHANGED lock
     /\ UNCHANGED <<cache, runs>>

\* applyWriteEntry, writeRegularFile: the file is written again and its entry
\* takes the stat of what was written.
WriteFile(q, p) ==
  LET me == proc[q]
      c == IF me.op = "switch" THEN me.target[p] ELSE me.entries[p].id
  IN /\ me.pc = "write" /\ p \in me.todo
     /\ Change(q, p, c)
     /\ proc' = [Touched(q, p) EXCEPT
                   ![q] = [me EXCEPT !.pc = IF me.todo = {p} THEN "smudge" ELSE @, !.todo = @ \ {p},
                                     !.entries[p] = WithStat(c, [mtime |-> now, size |-> Size[c]]),
                                     !.seen = @ \cup {p}]]
     /\ UNCHANGED <<now, index, lock, head, cache, edits, runs>>

-----------------------------------------------------------------------------
(* Writing the index. *)

\* commitLocked and writeRefreshed up to the write: the index on disk is read
\* again, a refresh gives way when it is not the one that was scanned, and the
\* racy entries that are carried over are compared. None of these reads can
\* see another index: the lock is held.
Smudge(q) ==
  LET me == proc[q]
      previous == IndexAt(q, index.mtime)
  IN /\ me.pc = "smudge"
     /\ cache' = [cache EXCEPT ![q] = previous]
     /\ IF me.op = "status" /\ previous.entries # me.idx.entries THEN End(q, me) /\ Release(q)
        ELSE /\ Go(q, [me EXCEPT !.pc = "stageLock",
                                 !.entries = SmudgeRacilyClean(me.entries, previous, me.verified),
                                 !.seen = @ \cup Racy(me.entries, previous, me.verified)])
             /\ UNCHANGED lock
     /\ UNCHANGED runs

\* stageLock: the write that gives the next index its mtime.
StageLock(q) ==
  /\ proc[q].pc = "stageLock"
  /\ Go(q, [proc[q] EXCEPT !.pc = "publish", !.staged = [entries |-> proc[q].entries, mtime |-> now], !.seen = {}])
  /\ UNCHANGED <<lock, cache, runs>>

\* publishLock: the rename, which is also the release, and the session's own
\* parse is dropped. A switch goes on to HEAD.
PublishLock(q) ==
  LET me == proc[q] IN
  /\ me.pc = "publish"
  /\ index' = me.staged /\ lock' = None
  /\ cache' = [cache EXCEPT ![q] = None]
  /\ proc' = [proc EXCEPT ![q] = [me EXCEPT !.pc = IF me.op = "switch" THEN "moveHead" ELSE "done", !.staged = None]]
  /\ UNCHANGED <<now, files, head, raced, edits, runs>>

\* finishSwitch, moveHeadForSwitch
MoveHead(q) ==
  /\ proc[q].pc = "moveHead"
  /\ head' = proc[q].target
  /\ proc' = [proc EXCEPT ![q].pc = "done"]
  /\ UNCHANGED <<now, files, index, lock, cache, raced, edits, runs>>

\* The command returns to its caller.
Return(q) ==
  /\ proc[q].pc = "done"
  /\ Refuse(q)
  /\ UNCHANGED <<lock, cache, runs>>

-----------------------------------------------------------------------------
Fresh(t) == [p \in Paths |-> [content |-> t[p], mtime |-> 0]]
Staged(t) == [p \in Paths |-> WithStat(t[p], [mtime |-> 0, size |-> Size[t[p]]])]

\* A tree has just been checked out, all in the first granule.
Init ==
  /\ now = 0 /\ lock = None /\ raced = {} /\ edits = 0 /\ runs = 0
  /\ cache = [q \in Procs |-> None] /\ proc = [q \in Procs |-> Idle]
  /\ head = First
  /\ files = Fresh(First)
  /\ index = [entries |-> Staged(First), mtime |-> 0]

Command(q) ==
  \/ Status(q)
  \/ \E p \in Paths : Add(q, p)
  \/ \E p \in Paths : Restore(q, p)
  \/ \E t \in Trees : Switch(q, t)
  \/ Acquire(q)
  \/ StatIndex(q)
  \/ ReadIndex(q)
  \/ \E p \in Paths : ScanEntry(q, p)
  \/ ScanContent(q)
  \/ ScanDone(q)
  \/ UpdateIndexIfAble(q)
  \/ LiteralStat(q)
  \/ StageFromStat(q)
  \/ StageContent(q)
  \/ JudgeRestore(q)
  \/ RestoreContent(q)
  \/ TwoWay(q)
  \/ \E p \in Paths : CheckDirty(q, p)
  \/ \E p \in Paths : WriteFile(q, p)
  \/ Smudge(q)
  \/ StageLock(q)
  \/ PublishLock(q)
  \/ MoveHead(q)
  \/ Return(q)

Next == Tick \/ (\E p \in Paths, c \in Contents : Edit(p, c)) \/ (\E q \in Procs : Command(q))

Spec == Init /\ [][Next]_vars

-----------------------------------------------------------------------------
(* Properties. *)

Pcs == {"idle", "lstat", "lock", "statIndex", "readIndex", "scan", "content", "able", "stage", "judge", "check",
        "write", "smudge", "stageLock", "publish", "moveHead", "done"}

\* Type correctness: the index always holds an entry per path, the lock is a
\* process's or nobody's, and the locals are what the steps take them for.
TypeOK ==
  /\ now \in 0..MaxTick /\ edits \in 0..MaxEdits /\ runs \in 0..MaxRuns /\ raced \subseteq Paths
  /\ files \in [Paths -> [content : Contents, mtime : 0..MaxTick]]
  /\ index \in Indexes /\ lock \in Procs \cup {None} /\ head \in Trees
  /\ \A q \in Procs :
       /\ cache[q] \in Indexes \cup {None}
       /\ proc[q].pc \in Pcs /\ proc[q].idx \in Indexes \cup {None} /\ proc[q].entries \in Entries \cup {None}
       /\ proc[q].stat \in Stats \cup {None} /\ proc[q].staged \in Indexes \cup {None}
       /\ proc[q].pc \in {"smudge", "stageLock", "publish"} => lock = q

\* Entry e is the content of file p; or it cannot be told from it: its size is 0,
\* the mark of a smudged entry, and the file has been emptied since.
Holds(e, p) == e.id = files[p].content \/ (e.size = 0 /\ Size[files[p].content] = 0)

\* No entry passes an edited file for clean under the given index mtime.
SeenBy(entries, mtime) ==
  \A p \in Paths \ raced : IsEntryStatClean(entries[p], Stat(p), mtime) => Holds(entries[p], p)

\* The published index never calls an edited file clean: whatever was staged,
\* refreshed, checked out and smudged since, by whom and in which granule, an
\* entry that passes for clean by its stat is the file's content. Excepted are
\* the edits of `raced`, which no stat can show, and an emptied file under a
\* smudged entry (Holds).
EditsSeen == SeenBy(index.entries, index.mtime)

\* The index at every moment, whoever published it: well typed, and with no entry
\* that passes an edited file for clean.
IndexInv == TypeOK /\ EditsSeen

\* A command that holds the lock and has read the index, through the session's
\* cache too, works on the index that is published, and so does a status that is
\* about to write although it read before it locked: what they write drops no
\* entry that another process wrote ("closes the TOCTOU window").
LockedReadCurrent ==
  \A q \in Procs : (lock = q /\ proc[q].idx # None /\ (proc[q].op # "status" \/ proc[q].pc \in {"stageLock", "publish"}))
    => proc[q].idx.entries = index.entries

\* What status reports as unchanged is unchanged, unless the file was written
\* to while status ran.
StatusHonest ==
  \A q \in Procs : (proc[q].op = "status" /\ proc[q].pc \in {"lock", "able", "done"})
    => \A p \in proc[q].verified \ (raced \cup proc[q].touched) : Holds(proc[q].idx.entries[p], p)

\* An add that reports success has staged what the file holds, and a checkout of
\* a path has left in the file what the index holds: neither is fooled by a stat
\* into doing nothing, unless the file was written to meanwhile.
AddAndRestoreExact ==
  \A q \in Procs : (proc[q].op \in {"add", "restore"} /\ proc[q].pc = "done")
    => \/ proc[q].path \in raced \cup proc[q].touched
       \/ Holds(proc[q].entries[proc[q].path], proc[q].path)

\* What status, add and checkout of a path answer is true of the files.
CommandsHonest == StatusHonest /\ AddAndRestoreExact

\* A switch overwrites nothing that is not in the object store: the file it
\* replaces holds the content staged for it, unless the edit came after the
\* check of that path.
NoEditLost ==
  [][\A q \in Procs, p \in Paths :
       (proc[q].op = "switch" /\ proc[q].pc = "write" /\ p \in proc[q].todo \ proc'[q].todo /\ p \notin proc[q].touched)
       => files[p].content = proc[q].entries[p].id]_vars
=============================================================================
