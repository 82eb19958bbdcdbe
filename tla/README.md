# A TLA+ verification project for tsgit

tsgit is git in TypeScript: a library whose commands run on Node, in the browser
and in memory. Its commands keep their state where git keeps it, in files under
`.git`, and so share that state with every other process that works on the same
repository: other tsgit processes, and git itself. This project models the
protocols on those files, and the walks and pools that work in memory, checks them
with TLC on small instances, and proves with TLAPS, for every value of the constants,
what the index lock, the two ref stores and push and fetch promise.

Paths below are relative to `src/src/application/` unless they start with `src/`.

## 1. Inventory

The code is layered: `src/src/repository.ts` binds commands to a context;
`commands/` call `primitives/`, which call the pure `src/src/domain/` and, through
`src/src/ports/`, the adapters (`node`, `browser`, `memory`). All waiting is at an
`await` of a file-system, transport or child-process call; two operations of one
process interleave there, and two processes anywhere.

| component | state | operations | hard behaviour | what makes it correct |
|---|---|---|---|---|
| index lock (`primitives/internal/index-lock.ts`) | `.git/index`, `.git/index.lock` | acquire, optional acquire, commit, commitRefresh, release, stale break | two holders, a refresh of an old read, crashes, a break that races | one holder; no lost update; no lock left behind |
| index and working tree (`primitives/read-index.ts`, `internal/smudge-racily-clean.ts`, `commands/add.ts`, `checkout.ts`, `status.ts`) | entries with stat data, a session's cached parse | status, add, checkout of a path or a branch, smudge | edits within one timestamp granule, edits between check and write | an edited file is never taken for clean or overwritten; a cached index is the index |
| files ref store (`primitives/ref-store.ts`, `atomic-write.ts`) | loose files, `packed-refs`, their `.lock` files, a cache of `packed-refs` per process | resolveDirect, listRefs, applyRefUpdates, packRefs | two files hold one ref; caches; crashes between two effects | the files stand for a map of refs that moves one update at a time |
| reftable store (`primitives/reftable-transaction.ts`, `load-reftable-stack.ts`) | `tables.list`, tables, memo | transaction, auto-compaction, packRefs, load | compaction against readers and writers, crash residue | the stack stands for the same map |
| `updateRef` and reflogs (`primitives/update-ref.ts`, `record-ref-update.ts`) | `logs/` | updateRef, deleteRefs | a comparison against an unlocked read; the log line after the unlock | the log tells the ref's history |
| sequencer, rebase, merge, stash (`commands/*`, `commands/internal/*-state.ts`) | `.git/sequencer`, `rebase-merge`, `MERGE_HEAD`, ... | run, `--continue`, `--skip`, `--abort` | stops and resumes in any order, a kill between two state files | no commit lost or replayed twice; abort gets back; autostashed edits are kept |
| gc (`commands/internal/gc-pipeline.ts`, `primitives/internal/cruft-pack-lifecycle.ts`, `freshen-object.ts`) | packs, sidecars, mtimes | repack, cruft, prune | writers beside it, a kill at any unlink | nothing reachable or recent is deleted |
| object store (`primitives/object-resolver.ts`, `pack-registry.ts`, `internal/pack-miss-rescan.ts`) | pack registry, loose-oid cache | read, re-list | a repack moves an object while it is looked up | an object that exists throughout is found; nobody waits for nothing |
| fetch, push (`commands/push.ts`, `fetch.ts`, `primitives/fetch-pack.ts`) | tracking refs, tags, `FETCH_HEAD`, packs | push, fetch, prune, report | lost requests and answers, other pushers, a fetch beside a push | what moves is what the caller allowed; what is recorded is true |
| clean order, limiter, filter pool (`primitives/internal/clean-order.ts`, `concurrency-limiter.ts`, `filter-process-pool.ts`) | waiters, slots, pools, child processes | enlist, admit, release, run, convert, close | tasks that wait for each other, filters that die, overlapping scopes | paths cleaned in order by the right process; the first failure is reported; all of it ends |
| revision walks (`primitives/merge-base.ts`, `internal/limit-list.ts`, `src/src/domain/commit`, `src/src/domain/bisect`) | queue, paint, counters | merge base, reduceHeads, ancestry, limited walk, topological sort, bisection | an early stop by date or generation that is wrong for a skewed history | the answer is what the graph says |
| configuration, codecs, adapters, facade | | | | not modelled, see §5 |

Components interact through files (the index lock is taken by every command that
writes the index; every ref write goes through a ref store; gc and lookups share
the pack directory), through per-session caches, and by calls. Only push and fetch
exchange messages with another party.

`PROJECT.json` lists every component with its status, and under `hazards` what in
this code is hard to reach with a test, line by line.

## 2. Modules

| module | models | built on |
|---|---|---|
| `IndexLock` | the index lock's read-modify-write cycle | |
| `RefMap` | abstract: a map of refs, moved one asked-for write at a time | |
| `FilesRefStore` | the files ref store | instantiates `RefMap` |
| `FilesRefStoreProofs` | its locks and caches, proved | extends `FilesRefStore` |
| `RefTransactions` | abstract: transactions made whole, under their required values, or not at all | |
| `ReftableStack` | one stack of the reftable store | instantiates `RefTransactions` |
| `ReftableStackProofs` | its invariants and the refinement, proved | extends `ReftableStack` |
| `RepoState` | the branch, HEAD, index and every state file the history-editing commands share; commit, reset | |
| `Replay`, `Rebase`, `MergeRun` | cherry-pick and revert; rebase; merge | extend `RepoState` |
| `Operations` | all of them against one repository, in any order | composes the three |
| `WritesProofs` | what the parts of the commands write | extends `Operations` |
| `OperationsProofs` | all five of its properties, proved | extends `WritesProofs` |
| `GcPipeline` | gc beside writers | |
| `ObjectLookup` | reads of one session beside `GcPipeline`'s gc and writer | extends `GcPipeline` |
| `ObjectStoreProofs` | what gc keeps and leaves, and that a read beside it ends and finds, proved | extends `ObjectLookup` |
| `WorkTree` | index entries, stat data, files and the commands between them | |
| `IndexProofs` | the lock, and the four properties of `WorkTree`, proved | extends `IndexLock`, `WorkTree` |
| `Remote` | the remote repository, other pushers, the local user | |
| `Push`, `Fetch` | the two commands | extend `Remote` |
| `Transfer` | a push and a fetch side by side | composes the two |
| `TransferProofs` | all of `Transfer`'s properties, proved | extends `Transfer` |
| `CommitHistory` | a history with dates and generation numbers; the heap | |
| `MergeBase`, `LimitList`, `TopologicalSort`, `Bisection` | the walks | extend `CommitHistory` |
| `History` | any one walk over any history | composes the four |
| `FilterPool` | filter processes and the scopes that share them | |
| `CleanOrder` | commands with many paths in flight over one order and one pool | extends `FilterPool` |
| `CleanOrderProofs` | the order, the slots, the failure reported and the filter processes, proved | extends `CleanOrder` |
| `MC*` | the constants TLC is given | one per run family |

Operators whose comment begins with *Mutant* or *Mutation* are the deliberately
wrong variants that show each property can fail; nothing uses them.

### IndexLock

A *writer* is a command that calls `acquireIndexLock`; a *refresher* is `status`,
which calls `acquireOptionalIndexLock` after it has read the index. `indexFile` and
`indexLock` are the two files, `pc[p]` is where a process is, `snap[p]` the index it
read, `err[p]` the code its last call ended with. The lock file has an age, in
ticks, because `maybeBreakStaleLock` looks at its mtime. The index maps each
writer to the value of the one path it edits, so a lost update shows as a
writer's value going back.

One action per file-system call that others can observe: `AcquireIndexLock`/
`AcquireContended` (the exclusive create), `Probe`, `Recreate`, `BreakLock`,
`Retry` (`maybeBreakStaleLock`), `ReadUnderLock`, `Stage`, `Publish` (`commitLocked`),
`ReleaseLock`, and for status `Scan`, `AcquireOptional`, `Compare`, `StageRefresh`
(`commitRefreshed`). `GiveUp` is any throw of the body, which leads to the
`finally` block's release. `Crash` kills a holder and leaves its lock file.

### FilesRefStore

`loose[r]` and `packed[r]` are the value of `r` in its loose file and in
`packed-refs` (None where there is none; an absent `packed-refs` is one without
lines). `looseLock` and `packedLock` are the lock files. Each process has a cache
of `packed-refs` with its key, mtime and size. A *menu* says which calls each
process may make (transactions, being sequences of runs as `toUpdateRuns` groups
them, reads, and packRefs), whether processes may die, and whether two rewrites of
`packed-refs` may get one mtime.

`rd[p]` is where a process is in `resolveDirect`/`loadPackedRefs`: the loose read,
the stat and the read of `packed-refs` are steps of their own, for reads,
`checkExpected`, `removeEverywhere`, `listRefs` and a set's check for names in the
way. A transaction goes prepare, check, then for a set `LockForSet`,
`RenameLoose`, and for deletes `StartDelete`, `LockForDelete` per target,
`LockPacked`, the load, `DropPacked`, `Reseed`, `UnlinkLoose` per target,
`EndDelete`. packRefs is `ListLoose`, the load, `FindDuplicates`,
`TruncatePacked`, `WritePacked` (its in-place write has two visible halves),
`PruneLoose` per file. `Fail` is any failing call of a transaction; `Crash` leaves
the lock files and loses the cache. A ref of `Nested` has a directory of its own
that exists only while a file is in it, so that its delete may go unlocked
(`deleteTargetFor`).

The refinement: the abstract map is loose-before-packed; between the two halves
of packRefs' write it is what packRefs is about to write. What a process still
wants is its open updates. `RefinesRefMap` says that every step of the files is a
stutter, the start or end of a call, or the making of writes it was asked for.
`ReadsRegular` compares what a read answers with `seen`, the values its ref had since
it began; `missing` is among them while a delete of the ref is between its look at the
loose file and its end. From the look, not only from the first effect: a delete of a
nested ref that found no file has locked nothing, a set may write the file before the
delete drops the packed line, and a read that missed the file and then the line answers
as if the delete came before the set.

### ReftableStack

`list` is `tables.list`, `files` and `temps` the tables on disk under their final
and their temporary names, `body[t]` what table `t` holds (tables never change),
`lockFile` the content of `tables.list.lock`, `tlocks` the tables with a
`.ref.lock`. `me[p]` is the local state of a call: where it is, the names it read,
the list it is about to commit, the segment of tables it has locked. A table name
is a number handed out at the start of a call; in the code a random suffix makes it
new. The memo of each session has its stat key.

A transaction is `TryAcquireLock`, `PrepareStackWrite` (the fresh stack, the
required values, the name conflicts), `WriteTempTable`, `RenameTable`,
`WriteLockBody`, `CommitListBody` (the commit point) and `Invalidate`. Then
auto-compaction: `ProbeNames`, `ProbeSize` per table, `PlanCompaction`, the list
lock again with `CheckNames`, `LockTable` newest to oldest, `GiveUp` or
`UnlockPlan`, `MergeSegment` without the list lock, and under it again
`SpliceLockedSegment`, the same rename and commit, then `UnlinkTable` and
`ReleaseTable` one by one. packRefs is the same compaction over the whole stack,
followed by the sweep (`ReadDirectory`, `SweepOrphan`). A read is `StatList`,
`ReadList`, `OpenTable` per table with its one retry, `FillCache`. `Timeout` is the
spent retry budget, `Fail` an I/O error with the `finally` blocks it runs into,
`Crash` the death of a session with all its calls.

The sizes that choose a segment are left out: any run of two or more tables may be
suggested, which allows every choice `suggestCompactionSegment` can make. The fresh
read under the lock is one step; the parts of `StackInv` are why that loses
nothing. The refinement maps the stack to the map it stands for (`View(list)`) and
a call to the transaction it has not committed yet.

### Operations

One command runs at a time. A command knows when it starts every value it is going
to write, so it is one action that picks its outcome (clean, conflict, empty,
refused) and leaves in `queue` its writes in the order the code awaits them;
`WriteNext` makes one of them and `Crash` drops the rest. `repo` has one field per
ref and state file. A commit is what was replayed and the tree it records, a tree
the set of patches in it; two patches of `Clash` conflict, and the user resolves a
conflict (`Resolve`) before `--continue`.

The ghost `plan` remembers where an operation began, its list, what was skipped and
the local edits it took; `odd` collects what excuses a property: a kill, a state
file another operation left (`stale`), a `commit` or `reset` by hand in the middle,
a `--continue` of the other command (`crossed`), a start that was refused late
(`refused`), a rebase that went on with HEAD attached (`attached`). Each property names
the ones it excepts.

A rebase killed after `finishRebase` has reattached HEAD and before its directory is
removed can be read, and so continued and skipped: neither command asks whether HEAD is
detached. `ReplayOn` then is `ReplayAttached`, where a commit made moves the branch
(`updateRef(HEAD)`), until a fast-forward sets HEAD itself and detaches it (`OnBranch`),
and the branch is moved at the end only if nothing has moved it before.

### GcPipeline and ObjectLookup

Packs are named by their checksum and built deterministically, so a pack is the set
of its objects. Each pack has an index, a pack file with its mtime, and possibly
the sidecar of ages that makes it a cruft pack. gc goes from the census
(`ReadExistingPacks`, `PartitionRepack`, `AgeCandidates`) through the new packs and their indexes and sidecar
to the verification, the retirement of the old packs file by file, and the prune.
Beside it a writer writes or freshens objects through a session that remembers what
it listed and touched, refs come and go, time passes, and gc may die anywhere.
Time passes between any two steps. Three ghosts collect what `ReachableKept` and
`YoungKept` except. `lapsed`: an object whose last write gc was not shown or gives an
older age, at the step that loses the age: a freshen that no longer reaches gc, a cruft
pack that is left as it is, an old loose copy, or a write that touched a copy gc is
about to remove after gc had put the object in its normal pack with an earlier mtime
(`Outlived`). `litter`: one hit by a leftover sidecar. `misled`: one that gc without
cruft packs decided to leave loose and then unlinks, because the registry still
remembers a pack it retired (`LooseTwinStays` says it does not; see section 3).

`ObjectLookup` adds the reads of one session: the generation memo and its
single-flight scan, the indexes and handles the session has opened, the loose
listing, the shared re-listing after a miss and the one retry, one await at a time.

### WorkTree

Time is counted in granules of the file system's clock. An entry has the content
staged and the stat it was staged with, a file its content and mtime, a stat an
mtime and a size. `status` scans path by path and writes back under the optional
lock, `add` and checkout of a path judge one path, checkout of a branch judges and
checks all paths and then writes them. The session's cache goes through the stat
and, in the same granule, the trailer. Every index write smudges. Edits may come
between any two steps; one that no stat can show (same length, mtime kept, after
the command's own comparison) puts the path in `raced`. `Holds(e, p)` says that an
entry's content is the file's; it excepts a file emptied under a smudged entry, which
the code cannot tell from a clean one.

### Remote, Push, Fetch, Transfer

A commit is a number larger than its parents. A push discovers, locates its
sources, reads its lease, judges each ref, sends its commands with the pack,
and then for every ref reports and lets the tracking ref follow. The request may be
lost, taken after its sender has gone, applied whole or in part, and its answer
lost. A fetch empties `FETCH_HEAD`, discovers, wants, receives the pack, writes its
index, prunes, reads, judges and stores one ref after the other, follows tags and
writes `FETCH_HEAD`. Others push at the remote, the user commits, resets and tags,
the remote's gc drops what is unreachable and no longer being pushed. The remote
is modelled from how the client uses it.

### History

Every history of the bound is an initial state, with every assignment of dates and
with generation numbers as `computeCommitGraphGenerations` gives them for none,
some or all of the commits. One call then runs step by step as the code's loops do,
and its answer is compared with a definition on the graph.

### FilterPool and CleanOrder

A conversion opens a scope, waits for its turn in the pool, takes or starts the
process of its driver, shakes hands and exchanges one request; the process answers
what it was asked or dies at any moment. A pool is named after the scope that
opened it. `CleanOrder` has the commands above it: a scan maps its worker with a
bounded number of runners, a staging command sends each path through the limiter;
both wait for their turn in the order on the Context.

## 3. Runs

| run | properties | shows |
|---|---|---|
| `index_lock` | LockTypeOK, CommitIsCurrent, NoLostUpdate, LeavesNoLock, LockFreed | two writers, one of them a breaker, and a refresher, with failures and crashes: no update is lost and every lock file goes again |
| `ref_store` | StoreInv, CacheFaithful, ReadsRegular, RefinesRefMap | deletes, sets, creates, packRefs and reads by two processes: the files are a map of refs |
| `ref_store_deletes` | RewriteDropsOnly (violated) | a cache re-seeded after the unlock brings a deleted ref back |
| `reftable` | StackInv, ReadsSnapshot, TableLocksGivenBack, RefinesTransactions | two calls of one session, or two processes with a fault: transactions are atomic compare-and-swaps, compaction moves no ref, reads are snapshots |
| `operations` | RepoInv, ReplaysExact, AbortRestores, AutostashKept, BranchMovesOnce | four commands in any order with one kill: nothing replayed is lost or doubled, and what is begun can be taken back |
| `gc` | GcInv, YoungKept, GcExact | gc in both modes beside writers and kills: keeps what is referenced or young, and leaves exactly that |
| `object_lookup` | LookupInv, ReadFinds | two reads beside one gc or one write: what is there is found |
| `worktree` | IndexInv, LockedReadCurrent, CommandsHonest, NoEditLost | two commands and two edits over two paths: no edit passes for clean or is overwritten |
| `transfer` | TransferInv, PackSuffices, OutcomeTrue, InStep, DropsAllowed, FetchForward | a push and a fetch beside a user, other pushers and losses |
| `history` | MergeBasesExact, ListsExact, MidpointBest | the walks agree with the graph although they stop early |
| `clean_order` | PoolInv, OrderInv, FirstFailureReported, CommandsEnd | paths in order, own answers, first failure, and an end |
| `clean_order_nested` | NestedCleansUnordered (violated) | a second scan on one Context waits in the first one's order |

The invariants ending in `Inv` are conjunctions: the type invariant with the parts
that hold at every moment, each stated and commented on its own. The violated
properties are statements of comments of the repository; `PROJECT.json` quotes each
under `findings`.

Other disagreements between the code and its documents that the models reach, and
that are excepted by name instead of being a run of their own (those that name a property
can be seen by giving it to TLC):

- two breakers of one stale `index.lock`: the slower removes the faster one's fresh
  lock (`index-lock.ts:201`); so `index_lock`, and the proof, have one breaker;
- two ref updates that require the same value can both succeed, the comparison being
  made before the lock (`ref-store.ts:1769`); `RefMap` asks for no more;
- packRefs prunes a loose file that was replaced since it looked
  (`ref-store.ts:2396`); beside a packRefs only `StoreInv` is claimed;
- `abort-safety` is written and never read, so an abort discards commits made by
  hand (`sequencer-state.ts:55`, against `docs/design/cherry-pick.md:62`);
- a rebase refused after its autostash leaves `rebase-merge/autostash` behind
  (`rebase.ts:911`, against `docs/use/commands/rebase.md:113`);
- a cruft pack with an unchanged set of objects keeps their old ages
  (`cruft-pack-lifecycle.ts:211`): such objects are in `lapsed`;
- an object written while gc runs can end up with the mtime of the pack gc stamped
  before the write, its fresher copy being unlinked (`gc-pipeline.ts:1388`): `lapsed`;
- a loose listing that was being read when it was dropped is put back
  (`loose-oid-cache.ts:93`): such a read is `late`;
- a file emptied within the granule of its staging agrees with its smudged entry,
  whose only mark is size 0 (`smudge-racily-clean.ts:139`, against the comment at line
  117): `Holds` excepts such a file;
- a rebase killed after `finishRebase` has reattached HEAD (`rebase.ts:544-555`) and before
  `clearRebaseState` (line 849) goes on under `--continue` or `--skip`, and each commit it
  then makes moves the branch, beside the move of the finish (`rebase.ts:1396`, against the
  comment at line 1366, "advance the detached HEAD"): such a rebase is `attached`.
  `BranchStillInReplay` states the comment; TLC refutes it with `MaxCommands = 5` and both
  lists `MCNoLists` in `Operations.cfg`;
- with `gc.cruftPacks=false` the prune can unlink a young loose object, the last copy,
  because a read of gc's own session has brought the index of a pack being retired back into
  the registry (`gc-pipeline.ts:1388`, against the comment at line 1378, "a loose copy
  whose only packed twin was just retired stays"): such an object is `misled`.
  `LooseTwinStays` states the comment; TLC refutes it as an invariant of `GcPipeline.cfg`.
  With cruft packs, the default, nothing is misled (`CruftModeLosesNothing`);
- in a clean span a path that fails gives its turn away in `apply-clean-filter.ts:41`, before
  `settleInCleanTurn` halts the order, so the path behind it is cleaned although the
  command is going to fail (against `clean-order.ts:178`, "the order is halted so no later
  path is cleaned"): `WritesStopAtFailure` speaks of write spans, where the turn is kept.
  `NoneCleanedBehindFailure` states the comment; TLC refutes it as an invariant of
  `CleanOrder.cfg`;
- forceIfIncludes is skipped when a fetch prunes the tracking ref between the
  reading of the lease and the check (`push.ts:610`): such a ref is in `pruned`.

Bounds, and why they are enough:

- `index_lock`: each race is between one holder and one intruder, a second writer or
  the refresher; two values tell an edit from its absence; `StaleAge` 2 tells a
  stale lock from a fresh one.
- `ref_store`: two refs, two processes and two ids, and every initial content of the
  files, under three menus: a deleter beside a setter and reader with crashes and a
  coarse clock, a packer alone, and a packer beside others. Three refs where a rewrite
  must keep a third line.
- `reftable`: two tables to start with, with and without a deletion on top. Six table
  names let two updates with their compactions overlap; five let an update overlap
  a pack with a fault at any step. Two names moved together and one beneath the
  first show atomicity and name conflicts.
- `operations`: four commands are a run, a stop, a resume and an end; lists of up to
  three with a conflict, an empty result and a merge commit among them; one kill.
- `gc`: two objects, a kept pack of one of them or none, four events (gcs, kills,
  writes, ref changes) within a clock of three and a grace period of two: a young, an
  expiring and an expired object.
- `object_lookup`: two concurrent reads, three in all, one event beside them: a read
  that misses, one that shares its re-listing, and one that starts from its caches.
  One event is more than a bound here: a read looks again once, so a second gc that
  replaces the pack its second look listed makes it report an object missing that is
  there, and `ReadFinds` does not hold for two.
- `worktree`: two paths (one to be edited while the other is written), three
  contents of which two have one size and one is empty, two granules, two edits, two
  commands.
- `transfer`: five commits, of which two are made here and two elsewhere, one branch
  and one tag; three budgets: two pushes that overlap at the remote, a push beside a
  fetch, a fetch and its retry.
- `history`: every history of four commits and those of five below two tips, the
  smallest in which a base is found before the base that reaches it; dates 1 and 2.
  `MaxLevel` 2 and `Slop` 1 scale 0x3fffffff and 5 down so that saturation and the
  end of the slop happen.
- `clean_order`: three paths over two drivers with two in flight, or one path of a
  scan beside one of a checkout.

Fairness. `IndexLock!FairSpec`: an async function that holds the lock runs on to
its `finally` as long as its file-system calls return, so each holder's steps are
weakly fair; after a crash `LockFreed` also needs commands that are called again
after a refusal, and time that passes. `CleanOrder`: weak fairness of `Progress`, which is that the
event loop runs what is ready and a filter that was asked answers or dies; mishaps
need not happen. No run assumes strong fairness. That locks are given back is a
safety property elsewhere (`StoreInv`, `TableLocksGivenBack`): nothing there waits
for anybody, so it is enough that no call ends holding one.

Deadlock is checked in `index_lock`, `ref_store`, `ref_store_deletes` and `history`.
The other runs bound the calls, commands or events, and stop when these are used up;
`CommandsEnd` and the part of `LookupInv` about waiting reads say there what
absence of deadlock would.

## 4. Proofs

Every theorem is about the specification TLC runs, for every value of the constants
that satisfies the module's named assumptions; TLC evaluates these on every run.
Every inductive invariant was an invariant of TLC on the run's constants before it
was proved.

| module | theorem | states |
|---|---|---|
| `IndexProofs` | `TypeCorrect` | `LockSpec => []LockTypeOK` |
| | `OnlyCrashesLeaveLocks` | `LockSpec => LeavesNoLock` |
| | `LockSafety` | under `SafeBreaking`, `LockSpec => [](OneHolder /\ CommitIsCurrent)` |
| | `NoUpdateIsLost` | under `SafeBreaking`, `LockSpec => NoLostUpdate` |
| | `WorkTreeSound` | `Spec => []WorkTreeIndInv`, the inductive invariant |
| | `IndexHonest` | `Spec => []IndexInv` |
| | `LockedReads` | `Spec => []LockedReadCurrent` |
| | `AnswersTrue` | `Spec => []CommandsHonest` |
| | `EditsKept` | `Spec => NoEditLost` |
| `FilesRefStoreProofs` | `StoreLocks` | `Spec => []StoreInv` |
| | `CacheTrusted` | under `LoneRewriter`, `Spec => []CacheFaithful` |
| | `ReadsAnswer` | under `OneRewriter`, `Spec => ReadsRegular` |
| | `FilesAreAMap` | under `LoneRewriter`, `AsksOnce` and `PacksSurvive`, `Spec => RefinesRefMap` |
| | `DropsOnlyItsNames` | under `LoneRewriter`, a delete rewrites `packed-refs` as it is, without its own names |
| `ReftableStackProofs` | `StackSound` | `Spec => []StackIndInv`, the inductive invariant |
| | `StackSafe` | `Spec => []StackInv` |
| | `LocksReturned` | `Spec => []TableLocksGivenBack` |
| | `SnapshotReads` | `Spec => []ReadsSnapshot` |
| | `TransactionsRefined` | `Spec => RefinesTransactions` |
| `TransferProofs` | `TransferSound` | `Spec => []TransferIndInv`, the inductive invariant |
| | `NothingMissing` | `Spec => []TransferInv` |
| | `PacksComplete` | `Spec => []PackSuffices` |
| | `ReportsAreTrue` | `Spec => []OutcomeTrue` |
| | `TrackingFollows` | `Spec => []InStep` |
| | `OnlyAllowedDrops` | `Spec => DropsAllowed` |
| | `FetchOnlyAdds` | `Spec => FetchForward` |
| `ObjectStoreProofs` | `GcSound` | `Spec => []GcIndInv`, the inductive invariant |
| | `ReachableStay` | `Spec => []GcInv` |
| | `YoungStay` | `Spec => []YoungKept` |
| | `CruftModeLosesNothing` | with `CruftModes = {TRUE}`, both without the exception `misled` |
| | `CalmRunsExact` | `Spec => []GcExact` |
| | `NoReadStranded` | `LookupSpec => []LookupInv` |
| | `ReadsFind` | under `OneEvent`, `LookupSpec => []ReadFinds` |
| `CleanOrderProofs` | `OrderSound` | under `LoneCleaner`, `Spec => []OrderIndInv`, the inductive invariant |
| | `PathsInOrder` | under `LoneCleaner`, `Spec => []OrderInv` |
| | `FirstFailureThrown` | under `LoneCleaner`, `Spec => []FirstFailureReported` |
| | `PoolSound` | `Spec => []PoolIndInv`, the inductive invariant of the filter pool |
| | `FiltersAnswerOwn` | `Spec => [](PoolTypeOK /\ AnswersOwn /\ OnePoolInUse /\ NoStrayFilter)` |
| | `FiltersSafe` | under `LoneCleaner`, `Spec => []PoolInv` |
| `OperationsProofs` | `InvHolds` | `Spec => []Inv`, the inductive invariant |
| | `RepoInvHolds` | `Spec => []RepoInv` |
| | `AutostashKeptHolds` | `Spec => []AutostashKept` |
| | `AbortRestoresHolds` | `Spec => []AbortRestores` |
| | `BranchMovesOnceHolds` | `Spec => BranchMovesOnce` |
| | `ReplaysExactHolds` | `Spec => []ReplaysExact` |

### The index lock

`SafeBreaking` says that nobody breaks locks, or that one process does, with a
window above zero that no live holder outlasts. The argument is the inductive
invariant `LockInv == LockTypeOK /\ OneHolder /\ CommitIsCurrent /\ BreakingInv`.
`CommitIsCurrent` alone does not say that the index cannot move under the holder:
that takes `OneHolder`, which takes the existence of the lock file, and that in
turn takes `BreakingInv`: a held lock is younger than the window and the lock a
breaker is about to remove is not, so nobody holds it. With two breakers the
invariant is false (see §3). `IndexLockAssumption`: writers and refreshers are
disjoint, an empty file is no index, breakers are writers, and the window is a
natural number.

### The files ref store

`StoreIndInv` adds to `StoreInv` that the menu is one of the given ones and
`Phases`: at each label, which locks a call has taken and which of its work lists
are still to be done. Without it a `finally` block could release a lock that was
never this call's. The caches need `CacheInv`: `Roles` (who may be at a step of a
delete or a pack) and `Memory`: every key a process remembers is no later than the
file's (an older mtime, or the same mtime and at least as many lines, since within
one tick of a coarse clock `packed-refs` only gets shorter); a cache whose key is the
file's has the file's entries; and what a delete is about to write, or to reseed its
cache with, is the file as it is.

`LoneRewriter` says that, unless a packRefs runs beside other processes, at most one
process may delete or pack. Every menu of `ref_store` satisfies it. With two
deleters `Reseed` may pair an old set of entries with a newer key, and the property
is false: that is the finding of `ref_store_deletes`, and `DropsOnlyItsNames` states
the comment of `ref-store.ts` under the proviso that makes it true.

`ReadsAnswer` adds `ReadAt`: what a read may still answer, the packed line once its
loose file was found absent, is in `seen`. `OneRewriter` is `LoneRewriter` with nobody
packing beside others. The refinement adds `MapInv`: `RunsOK` (the runs of a transaction
ask for different writes) and `FilesAt` (what each label takes for granted: a delete's
loose files are there until it unlinks them and their packed lines are gone by then, so
no older value comes back; packRefs has the whole map in memory before it truncates, and
each loose file left says what its new line says). `OthersFiles` shows that no step of
another process disturbs it, `FilesMove` that a ref moves only by a write that was asked
for and no longer is, `RefsMove` carries that over to the map. `PacksSurvive` says that
nobody is killed where a process packs: between the truncation and the write of
`packed-refs` the packed names are in memory only, and a kill there loses them (git
renames a lock file over it). `AsksOnce` says that no transaction asks for one write of
one ref in two runs. Every menu of `ref_store` satisfies both.
`RefStoreAssumption`: ids, `None` and `Always` are different, refs are finite in
number, menus are menus.

### The reftable stack

`StackIndInv` is stated per process, in rely/guarantee form. `ProcOK(p)` is what a
call goes by: `SegOK` (its segment consists of distinct tables it has locked, which
stay on the list until it replaces them), `PlaceOK` (what it remembers of the list at
each label, and that `next` is the list on disk with its table appended or its
segment replaced), `FlightOK` (its own table is where it left it) and `IdsOK`.
`Apart` says that calls under way share neither a table name nor a locked table.
Every step is shown to keep its own `ProcOK` and to give a `Guarantee` (it takes no
lock that is held, changes no table that is not its own, unlinks nothing that is
listed or in flight, and removes from the list only tables it has locked), and the
guarantee is shown to keep every other process's `ProcOK`. A fault only cuts calls
short (`CutShort`).

`SnapshotReads` adds `ReadInv`: what a reader read is one of the maps seen since it
began, and a memo under the current key holds the current map; the key suffices
because `stamp` grows with every commit and listed tables never change.

The refinement adds `TransInv`. A transaction that has been checked under the lock
still satisfies its required values and name checks at its commit, because the list
lock keeps the list; its table says what it asks for. A compaction releases that
lock while it merges, so for it more is needed: a segment that was the bottom of the
stack still is (else the deletions it dropped would uncover older records), and the
merged table has the newest record of each name of the segment. Lemmas on the newest
record of a sequence (`ViewAppended`, `ViewSpliced`)
turn that into what a commit does to the map: its transaction, whole, or nothing.
Each step is then `Ask`, `Commit`, `Drop`, `Abandon` or a stutter of
`RefTransactions`. `StackAssumption`: the constants that stand for nothing are no
ids, a transaction has at least one update, and the stacks to start from have no
name that is a directory of another.

### Push and fetch

`TransferIndInv` has one part for each thing that can be wrong on its own: the
remote and the local repository closed under parents (`RemoteOK`, `LocalOK`), the
reflogs and tracking refs (`LogsOK`), the push call (`PushOK`), requests (`WireOK`),
answers (`AnswersOK`), what a push may conclude while nobody else moves the remote
(`QuietOK`), and the fetch (`FetchOK`). That the ancestors of a commit are closed
under parents is proved from the recursive definition of `Ancestors`, by the least
counterexample: parents have smaller numbers. The proof of `DropsAllowed` showed
that a `+` refspec overrides an automatic lease (in `judgeUpdate` of `push.ts`
force overrides every verdict, a stale lease's too), so `LeaseSeen` and `IncludesKept` except such refs; the runs had not
offered that combination. `HistoryAssumption`: a finite or infinite set of commits
whose parents are older, branches that are no tags; `PushAssumption`: the menus and
budgets are of their kind.

### The object store

`GcInv` and `YoungKept` speak of what can be read; neither is inductive, since whether
an object survives is decided steps before anything is removed. `GcIndInv` follows the
run. Before anything is removed, everything needed, that is referenced or young, is
*held* (`HeldOK`): it can be read, and when it is young some file says so (a kept
pack, its loose file, a normal pack's mtime or a sidecar's age). `CensusOK`: what gc read of a
young object's age is no older than its last write, or a loose file is that young; an
object young at the cutoff counts as young for the whole run, however long it takes.
`PartitionOK`: the objects gc owns are to be packed or may be cruft, and one of the
latter that is referenced by now is young. From `AgeCandidates` on, `PlanOK`: every needed
object has its place in the plan (`Planned`): a kept pack, the target, a loose file
gc does not know of, or the survivors, whose carrier (the fresh pack and its sidecar, the
settled cruft pack, the loose file) is in place or is going to be before anything is
removed; the target and the carrier are never retired, nothing else
carries a sidecar that would hide a pack's mtime, and a sidecar without
its pack is the one being retired or litter (`StoreOK`).
While packs are being removed, held follows from the plan (`RemovalHolds`).

A step that only adds files keeps what is held (`AddsHolds`), one that removes keeps
the plan (`RemoveKept`), and a writer's step changes the standing of the one object it
writes (`OtherObject`, `WriteKept`).

`GcExact` speaks of a run that no writer disturbed, once it is over, and compares the
store with what it was before. `Exact` says, beside `GcIndInv`, how the two are tied
together at each step of such a run: up to the plan the store is what the census found
(`CalmCensus`), so the ages gc derives are the ages the store recorded when gc started
(`CruftMtimes` and `RecordedAge` meet in `AgeExact`), the survivors are the candidates
with an age past the cutoff, and what gc does not own had no age at all (`CalmPlan`);
from then on no loose file is there but what was found or loosened (`CalmFiles`), and,
in any run, no pack but an output and what is still to be retired (`Remaining` in `PlanOK`). At the prune nothing
remains to be retired, so a readable object is a kept, a packed or a loosened one
(`PruneExact`). A writer's step ends what is claimed, a kill ends the run; a sidecar a
kill left without its pack (`litter`) is excepted in the property already.

The proof of `YoungKept` also showed that `lapsed` was needlessly
large: a reference moved to a young object is safe at every step of a run, so
`UpdateRef` excepts nothing. `StoreAssumption`: finitely many objects, kept packs are
packs, and the clock can reach the 2 it starts with; `GraceAssumption`: the grace period
is not zero.

`LookupInv` is inductive but for one fact: the pack a read goes into is one it found
the object in (`HitsNamed`).

`OneEvent` says that one thing happens besides the reads, a gc or a write, that no pack
is kept, and that nothing is older than the grace period. The run of `object_lookup`
satisfies it. `ReadFinds` is false beside two gcs, and what has expired may be gone
before the read gets to it. `ReadsFind` holds for any number of objects and of reads
side by side. Its invariant, `FindsInv`, cuts the time in two. Until gc begins to
remove, or the write is done, nothing that was there at the start is gone: every cache
of the session has everything *original* (`CachesFull`), no instance is retired, and
the first look cannot miss (`FirstLook`). From then on (`Final`) nothing appears any
more, and every object that can be read is *anchored*: in a pack or a loose file that
is going to stay (`OwnedAnchored`, `ReadableAnchored`, by `Exact` and `GcIndInv`). The
first look may meet a pack just before it goes; the second one, from the moment its
listing sees the directory, has a `Way`: a pack that stays among those still to be
looked in, or the loose file, with no cached listing that hides it (`SecondLook`). What
the others do to the store is summed up in `StoreStep`, once per action of gc and of the
writers, and the session's steps are proved from that alone; `BystanderKept` says what
one read's step may do to the caches of another. The excuse of the property, `late`,
is where the proof stops for three interleavings the code has.

### The working tree

That the index passes no edited file for clean (`SeenBy` of its entries and its own
mtime) is kept by every change of a file: either the mtime moves to now, which is no
earlier than the index's, or the path is raced. The work is in what a command is about
to write. `WorkTreeIndInv` is about the files and the published index (`WorldOK`), the
lock (`LockOK`: it is held exactly by who is where it is held) and the locals of each
command (`ProcOK`). In `ProcOK`:

- `TimesOK`: no stamp a command carries is later than that of the file, or the index,
  it was taken from;
- `EntriesOK`: an entry it will write is the index's own, vouched for only when it is
  older than the index, or it is one whose file the command has looked into, and from
  then on a change that keeps the mtime puts the path in `raced`. Smudging turns this
  into `Sound` for all entries (`SmudgeSound`), since an entry that nothing vouches for
  and that is not older than the index loses its size; the stamp of the lock file then
  makes them `SeenBy`;
- `ReadOK`: what was read under the lock is what is on disk (`LockedReadCurrent`);
- `FoundOK` and `CheckedOK`: what a command has concluded about a file still holds
  unless the file was written to since (`CommandsHonest`, `NoEditLost`).

The attempt to prove `EditsSeen` for every set of contents is what showed that the
marker a smudge leaves, size 0, is also the size of an emptied file; the earlier
instance had no empty content. The run has one now, and `Holds` excepts exactly that
case. `SizeAssumption` and `CutAssumption`: a truncated file has the
length it was cut to, and cutting to its own length changes nothing;
`TreesAssumption`, `NoneAssumption` and `BoundsAssumption`: the constants are of their
kind.

### The clean order

`LoneCleaner` says that of the commands that run side by side at most one cleans, with
any number of checkouts beside it. Every mix of `clean_order` satisfies it. With two
cleaning commands the second one's tasks wait in the first one's order and release its
paths (the finding of `clean_order_nested`), and nothing below is claimed.

`OrderIndInv` has one part per command and concern: `CmdOK` (what it has taken and
whether the order on the Context is its own), `SeqOK` (a released path is past its
clean, or in a write span done; every path before `next` is released; who is among the
waiters waits), `InTurn` (who is let in has every path before it released), `HaltOK`
and `ErrorOK` (the order is halted at or before every settled failure, by a path that
failed of itself, and nobody waits or works behind it), `OverOK` and `SlotOK`.
`CleansInOrder` needs `SeqOK` and `InTurn` together: a path may pass its turn without
being admitted, when its read fails, and `NextAfter` skips what was released out of
order. A task of the command is shown to find no order but its own on the Context
(`OwnOrder`); a release, with or without a halt, is one lemma (`ReleaseFine`) whose
users are `EndClean`, `EndItem` and `SettleTurn`. `FirstFailureReported` then follows
from the least failed path (`FirstFailsItself`): it cannot have failed with another's
failure, since that one would come before it and be settled. `ScopesAssumption`:
commands are finite in number and no tasks, `None` is neither; `UsesAssumption`: the
shapes are a command's, and a scan's order does not span a write.

### The filter pool

`PoolIndInv` is proved for any number of commands, paths and drivers, whoever cleans:
`LoneCleaner` is not needed. A filter process may answer anything the protocol has,
stop in the middle of an answer or die at any moment. Its parts:

- `Places`: every scope that is in a pool is counted once in `users` (as a cardinality,
  so that "the last one closes" means what it says), the pool in use is the one whose
  count is not 0, a scope that drains or closes a pool is alone in it, and the queue
  holds each conversion that waits or talks once, the one that talks in front. Hence at
  most one conversion talks (`OneTalks`), whatever its driver;
- `Runs`: a process kept for a driver is of that driver, has been greeted, is kept in
  one pool only, and that pool is in use or being closed;
- `Attended`: a process that was asked something or has said something unread is
  talking with a conversion; all others are quiet. Without it a late section could be
  read by the next request;
- `Speech`: per phase of a conversion, what may still come (`Rest`): at most one, two or
  three sections, all of this conversion, one alone where the first says `error` or
  `abort`. `AnswersOwn` is the end of this chain;
- `NoStrayFilter`, which is inductive only beside `Runs` and `Places`: a live process
  that nobody has closed is in a pool somebody will close, or with its conversion.

A step of a conversation is one lemma (`TurnKeeps`): it asks what the step does to the
process, to the queue and to what is kept (`Speaks`, `Fair`), and `TakeTurn`, `Greet`,
`Capabilities`, `Status`, `Content`, `Trailing` and `Stopped` are instances of it; the
filter's own steps are the lemma `ChildSpeaks`. `PoolInv` has the types of the order and the
bound on the runners besides, and so takes `LoneCleaner` and `OrderIndInv` (`FilterIndInv`).

### The history-editing commands

A command is one action that leaves a queue of writes, of any length, since a list or
a rebase may be of any length. So the invariant is about a repository *and* a queue:

- `Late(q, f, x)` is what file `f` will hold once `q` is written, if it holds `x` now,
  `Then(r, q)` the whole repository at that moment, `Dirtied` the edits that will be in
  the working tree. A write of the head of the queue changes none of them, so what is
  said of `Then(repo, queue)` needs proof only where a command starts or is killed.
- What must hold in the *middle* of a command, because a kill may stop it there, speaks
  of the order of the writes: `MergeAt` (ORIG_HEAD is written before MERGE_HEAD),
  `UnmergedAt` (MERGE_HEAD before the index that needs it, and removed after the index
  is whole), `RebaseAt` (one write of the branch, to where HEAD will be by then).
- What must hold at the *end* of a command speaks of `Then`: `WholeAt` (the sequencer's
  and the rebase's directories are there as a whole or not at all), `StashedAt` (an
  autostash file has its operation's marker), `EditsAt` (every edit taken will be
  somewhere) and `TidyAt` (what each kind of operation leaves, and what `--abort`
  relies on: the start in `sequencer/head` or `orig-head`, or a branch that is still
  there).

`TidyAt` is why `AbortRestores` is not inductive: an abort goes back to what the
*files* say, and that they say `plan.start` is a fact about every command before it.
`RepoInv` and `BranchMovesOnce` hold even after kills, so they rest on the parts about
the order of the writes; the excuses in `odd` are, for each part, those the property
has. `BranchMovesOnce` has `attached` among its own, which `--continue` and `--skip` add
when they find HEAD attached: what they write then is `MoveLeaves` and no more (the
files go or stay as a whole), while with HEAD detached each of the three ways a replay
ends (`MoveStops`, `MoveEnds`, `MoveSticks`) bounds the writes of the branch.

`ReplaysExact` needs an invariant of its own, `Exact`, beside `Inv`. The property
compares whole sequences when a command has ended; `Exact` says how far the plan has
got, once the queue is written: `Done(P, D, base, h, k)` (history `h` is `base` commits
and then the first `k` lines of plan `P`, less those in `D`, and `D` has no line beyond
those `k`), and `Shows` (what is pending is the plan from line `k + 1` on). `SeqAt` says
it of a list, with what the next resume goes by besides: the commit that stopped is the
first line of `sequencer/todo`, so that `--continue` and `--skip`, which take that line
off, deal with one line exactly. `RbAt` says it of a rebase, whose pending lines are
the stopped commit and then `git-rebase-todo`, with the branch where it was: while the
rebase goes on, only HEAD moves. `DoneOne`, `DoneSkip` and `DoneLines` are the steps (a
line made, a line dropped, a run of lines of any length), `DoneAll` the end; each
command's lemma (`ReplayRunExact` to `RebaseSkipExact`) says from which `k` it starts
and `SeqExact` and `RbLeaves` where its loop leaves it: done, stopped at a line, or a
line put off. The excuses are the property's own.

The loops over a list (`Replays`, `Lines`, `OwnCommits`, `Kept`) are recursive
functions. The proof first shows that such a function exists (`Recursion`) and then
reasons about its values up to `n` by the least number at which a claim fails (`UpTo`,
from `LeastOf`): the claim is a set of numbers, so no induction theorem with an
operator parameter is needed. What a loop of any length writes is described once
(which files, in which order, what the last of each holds), and each command is a
concatenation of such pieces. `SourcesAssumption`, `HistoriesAssumption`,
`BoundsAssumption` and `ListsAssumption`: the constants are of their kind, a history
has a root, and the user's own commits are among the sources.

The proof corrected one part of `TypeOK`, which no run had contradicted: that the
index's tree is part of what both sides have, but for a revert's conflict. A rebase
replays a revert of the branch's own as what it is, so the conflict it stops at may
remove patches too, and a rebase's conflict is excepted as well.

### Only model-checked

- Liveness (`LockFreed`, `CommandsEnd`): fairness and ENABLED are beyond TLAPS.
- What the walks of `History` compute (`MergeBasesExact`, `ListsExact`,
  `MidpointBest`): their modules use RECURSIVE operators and folds over data.

## 5. Not modelled

The project covers the protocols in which several actors, failures or early stops
make the code hard to test. They are a small part of the repository's lines: most
of the rest is code whose correctness is about data, and a state machine says
nothing about it.

- Formats and codecs, diff and merge of text, rename detection, pathspecs: byte- and
  line-level functions of one argument; their inputs are out of reach of a bounded
  check that would mean anything.
- Configuration: parsing and rewriting of one text file by one process.
- Option handling and rendering of the commands around the protocols modelled here.
- The platform adapters and transports: the modules state what they use of them
  (exclusive create, rename, unlink, stat, in-place write, a request and its answer).
- `updateRef`, reflogs and symbolic refs: an update of a ref is one step for the
  commands above, and `FilesRefStore` and `ReftableStack` show what it is made of;
  the order of two processes' log lines follows from no lock.
- Interactive rebase and its labels, squash and octopus merges, `--no-commit`
  replays, stash's own commands.
- Alternates, promisor packs, the multi-pack index, bitmaps and delta chains in the
  object store; two gcs at once.
- Clone, shallow and filtered fetches, the caller's own refspecs, signed pushes.
- In the working tree: creation and removal of paths, directories in the way, sparse
  checkouts, submodules, untracked files, conversions, stats with nanoseconds.
- In the reftable store: log records, the path without `atomicRename`, the choice of
  a segment by its size, a memo key repeated within one clock tick.
