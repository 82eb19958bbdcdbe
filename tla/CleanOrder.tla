------------------------------ MODULE CleanOrder ------------------------------
(* The commands that read the work tree with many paths in flight and must still *)
(* clean them the way git does, one at a time and in index order. A scan (status,*)
(* the stat refresh of commit, stash's classification) maps its worker over the  *)
(* paths with a bounded number of runners; a staging command (add, stash) sends   *)
(* every path through a concurrency limiter and settles it in its turn. Both      *)
(* enlist their paths in an order that is kept on the Context, and a task waits   *)
(* there for its turn while it holds its runner or its slot; the clean itself is  *)
(* a conversion of the filter pool.                                               *)
(*                                                                                *)
(* Paths are numbered in index order, so a path is its own ordinal once it is     *)
(* enlisted. A checkout beside them smudges through the same pool. Left out: what *)
(* a command compares or writes.                                                  *)
EXTENDS FilterPool

CONSTANTS
  Mixes,     \* what may run side by side: how many of the paths each command goes through
  Uses,      \* the shapes of the commands that clean
  Limit,     \* limitFor(ctx, 'ioBound')
  Required   \* the driver commands whose filter.<driver>.required is set

ASSUME LimitAssumption == Limit \in Nat \ {0} /\ Mixes \subseteq [Commands -> 0 .. N]
\* A scan's order ends with the clean: only a staging command holds it over the write.
ASSUME UsesAssumption ==
  /\ Uses \subseteq [how : {"map", "limiter"}, span : {"clean", "write"}, scoped : BOOLEAN]
  /\ \A use \in Uses : use.how = "map" => use.span = "clean"

VARIABLES
  cmd,        \* [command -> its shape and where it is]
  limiter,    \* [command -> slots taken, and who waits for one]
  sequence,   \* [command -> the clean order it opened]
  current,    \* sequences.get(ctx): whose order is on the Context
  step,       \* [task -> where it is]
  error       \* [task -> the path whose failure it failed with, 0 when it has not failed]

orderVars == <<cmd, limiter, sequence, current, step, error>>
vars == <<orderVars, poolVars>>

NoSequence == [span |-> "clean", enlisted |-> 0, released |-> {}, next |-> 1,
               waiters |-> [p \in Paths |-> None], halted |-> 0, why |-> 0]

\* A checkout that smudges through a process writes its paths one by one, in no clean order.
Checkout == [how |-> "map", span |-> "none", scoped |-> TRUE]

Init ==
  /\ PoolInit
  /\ \E items \in Mixes : \E use \in [Commands -> Uses \cup {Checkout}] :
       /\ \A c \in Commands : use[c] = Checkout <=> c \in Smudges
       /\ cmd = [c \in Commands |->
                  [use |-> use[c], items |-> items[c], at |-> IF items[c] = 0 THEN "over" ELSE "idle",
                   own |-> FALSE, taken |-> 0, walking |-> TRUE, runners |-> 0, result |-> 0]]
  /\ limiter = [c \in Commands |-> [active |-> 0, queue |-> <<>>]]
  /\ sequence = [c \in Commands |-> NoSequence]
  /\ current = None
  /\ step = [t \in Tasks |-> "new"]
  /\ error = [t \in Tasks |-> 0]

Min2(a, b) == IF a < b THEN a ELSE b
Scans(c) == cmd[c].use.how = "map"
Smudging(t) == t[1] \in Smudges
Path(t) == t[2]
Owner(t) == t[1]

-----------------------------------------------------------------------------
(* The order: what an operation makes of a sequence, and whom it wakes. *)

Enlisted(q, p) == p <= q.enlisted
Waiting == {"gate", "turn"}
\* Where a waiter goes on once it is let in.
Onward(where) == IF where = "gate" THEN "convert" ELSE "go"

\* Mutant: a path that was done out of order is not passed over.
NextAfterOneStep(q, p) == IF p = q.next THEN q.next + 1 ELSE q.next

\* releaseIn and advance: mark the path done and let in whoever waits for the first undone.
NextAfter(q, p) ==
  CHOOSE n \in 1 .. N + 1 : /\ \A r \in 1 .. n - 1 : r \in q.released \cup {p}
                            /\ n \notin q.released \cup {p}

Released(q, p) ==
  IF ~Enlisted(q, p) THEN q
  ELSE [q EXCEPT !.released = @ \cup {p}, !.next = NextAfter(q, p),
                 !.waiters = [r \in Paths |-> IF r = NextAfter(q, p) THEN None ELSE @[r]]]

LetIn(q, p) ==
  {t \in Tasks : /\ Enlisted(q, p) /\ NextAfter(q, p) \in Paths
                 /\ q.waiters[NextAfter(q, p)] = t}

\* haltIn: the earliest failure stands, and whoever waits behind it fails with it.
Halts(q, p) == Enlisted(q, p) /\ (q.halted = 0 \/ p < q.halted)

Halted(q, p, why) ==
  IF ~Halts(q, p) THEN q
  ELSE [q EXCEPT !.halted = p, !.why = why,
                 !.waiters = [r \in Paths |-> IF r > p THEN None ELSE @[r]]]

Rejected(q, p) == {t \in Tasks : Halts(q, p) /\ \E r \in Paths : r > p /\ q.waiters[r] = t}

\* admitIn: at once, never, or when the paths before it are done.
Admitted(q, p) == ~Enlisted(q, p) \/ p <= q.next
Refused(q, p) == Enlisted(q, p) /\ q.halted # 0 /\ p > q.halted

Admit(t, s, where) ==
  LET p == Path(t) IN
  IF Refused(sequence[s], p)
    THEN /\ step' = [step EXCEPT ![t] = "ended"]
         /\ error' = [error EXCEPT ![t] = sequence[s].why]
         /\ UNCHANGED sequence
  ELSE IF Admitted(sequence[s], p)
    THEN step' = [step EXCEPT ![t] = Onward(where)] /\ UNCHANGED <<sequence, error>>
    ELSE /\ step' = [step EXCEPT ![t] = where]
         /\ sequence' = [sequence EXCEPT ![s].waiters[p] = t]
         /\ UNCHANGED error

\* admitWrite and admitClean ask the order that is on the Context now, whoever opened it.
Ordered(span) == current # None /\ sequence[current].span = span

AdmitWrite(t) ==
  IF Ordered("write")
    THEN Admit(t, current, "gate")
    ELSE step' = [step EXCEPT ![t] = "convert"] /\ UNCHANGED <<sequence, error>>

\* Mutant: a clean does not wait for the paths before it.
AdmitCleanUnordered(t) == step' = [step EXCEPT ![t] = "go"] /\ UNCHANGED <<sequence, error>>

AdmitClean(t) ==
  IF Ordered("clean")
    THEN Admit(t, current, "turn")
    ELSE step' = [step EXCEPT ![t] = "go"] /\ UNCHANGED <<sequence, error>>

-----------------------------------------------------------------------------
(* Commands. *)

\* withCleanOrder: an order of its own, unless one is open on the Context. A scan enlists
\* every path at once; a staging command enlists each as it dispatches it.
Opens(c) == current = None /\ c \notin Smudges

Open(c) ==
  /\ cmd[c].at = "idle"
  /\ cmd' = [cmd EXCEPT ![c].at = "open", ![c].own = Opens(c),
                        ![c].runners = IF c \in Smudges THEN 1
                                       ELSE IF Scans(c) THEN Min2(Limit, cmd[c].items) ELSE 0]
  /\ IF Opens(c)
       THEN /\ current' = c
            /\ sequence' = [sequence EXCEPT
                 ![c] = [NoSequence EXCEPT !.span = cmd[c].use.span,
                                           !.enlisted = IF Scans(c) THEN cmd[c].items ELSE 0]]
       ELSE UNCHANGED <<current, sequence>>
  /\ IF cmd[c].use.scoped THEN EnterScope(c) ELSE UNCHANGED poolVars
  /\ UNCHANGED <<limiter, step, error>>

\* boundedMap: a free runner takes the next item.
Busy(c) == {p \in Paths : step[<<c, p>>] \notin {"new", "done"}}

NextItem(c) ==
  LET t == <<c, cmd[c].taken + 1>> IN
  /\ Scans(c) /\ cmd[c].at # "idle" /\ cmd[c].taken < cmd[c].items
  /\ Cardinality(Busy(c)) < cmd[c].runners
  /\ cmd' = [cmd EXCEPT ![c].taken = @ + 1]
  /\ step' = [step EXCEPT ![t] = "read"]
  /\ UNCHANGED <<limiter, sequence, current, error, poolVars>>

\* acquire.
SlotFree(c) == limiter[c].active < Limit

\* dispatchWalkEntry: enlist the path, and run it when there is a slot.
Dispatch(c) ==
  LET t == <<c, cmd[c].taken + 1>> IN
  /\ ~Scans(c) /\ cmd[c].at = "open" /\ cmd[c].walking /\ cmd[c].taken < cmd[c].items
  /\ cmd' = [cmd EXCEPT ![c].taken = @ + 1]
  /\ sequence' = IF cmd[c].own THEN [sequence EXCEPT ![c].enlisted = @ + 1] ELSE sequence
  /\ IF SlotFree(c)
       THEN /\ limiter' = [limiter EXCEPT ![c].active = @ + 1]
            /\ step' = [step EXCEPT ![t] = "read"]
       ELSE /\ limiter' = [limiter EXCEPT ![c].queue = Append(@, t)]
            /\ step' = [step EXCEPT ![t] = "slot"]
  /\ UNCHANGED <<current, error, poolVars>>

\* The walk that feeds the dispatcher fails: what is pending still settles.
WalkFails(c) ==
  /\ ~Scans(c) /\ cmd[c].at = "open" /\ cmd[c].walking /\ cmd[c].taken < cmd[c].items
  /\ cmd' = [cmd EXCEPT ![c].walking = FALSE]
  /\ UNCHANGED <<limiter, sequence, current, step, error, poolVars>>

-----------------------------------------------------------------------------
(* One path. *)

\* A scan compares the stat data and may need no clean; a staging task reads the file and
\* waits for the write gate. Reading may fail.
ReadPath(t) ==
  /\ step[t] = "read"
  /\ \/ Scans(Owner(t)) /\ step' = [step EXCEPT ![t] = "ended"] /\ UNCHANGED <<sequence, error>>
     \/ Scans(Owner(t)) /\ ~Smudging(t) /\ AdmitClean(t)
     \/ Smudging(t) /\ step' = [step EXCEPT ![t] = "go"] /\ UNCHANGED <<sequence, error>>
     \/ ~Scans(Owner(t)) /\ AdmitWrite(t)
     \/ /\ step' = [step EXCEPT ![t] = "ended"]
        /\ error' = [error EXCEPT ![t] = Path(t)]
        /\ UNCHANGED sequence
  /\ UNCHANGED <<cmd, limiter, current, poolVars>>

\* convertToGit: through the clean filter, or without one.
ConvertPath(t) ==
  /\ step[t] = "convert"
  /\ \/ AdmitClean(t)
     \/ step' = [step EXCEPT ![t] = "write"] /\ UNCHANGED <<sequence, error>>
  /\ UNCHANGED <<cmd, limiter, current, poolVars>>

BeginClean(t) ==
  /\ step[t] = "go"
  /\ Convert(t)
  /\ step' = [step EXCEPT ![t] = "clean"]
  /\ UNCHANGED <<cmd, limiter, sequence, current, error>>

\* The conversion is back: release the path in the Context's clean order, then go on, or
\* fail when the driver is required or its handshake threw.
CleanFails(t) ==
  \/ outcome[t].how = "thrown"
  \/ outcome[t].how = "failed" /\ DriverOf(t) \in Required

\* What releasing a path in the order of s does, and to whom; s is None where there is no
\* order to release it in.
ReleaseIn(s, p) == IF s = None THEN sequence ELSE [sequence EXCEPT ![s] = Released(@, p)]
Awake(s, p) ==
  IF s = None THEN step
  ELSE [t \in Tasks |-> IF t \in LetIn(sequence[s], p) THEN Onward(step[t]) ELSE step[t]]
OrderOf(c) == IF cmd[c].own THEN c ELSE None

EndClean(t) ==
  LET s == IF Ordered("clean") /\ ~Smudging(t) THEN current ELSE None
      after == Awake(s, Path(t)) IN
  /\ step[t] = "clean" /\ at[t] = "left"
  /\ sequence' = ReleaseIn(s, Path(t))
  /\ IF CleanFails(t)
       THEN /\ step' = [after EXCEPT ![t] = "ended"]
            /\ error' = [error EXCEPT ![t] = Path(t)]
       ELSE /\ step' = [after EXCEPT ![t] = IF Scans(Owner(t)) THEN "ended" ELSE "write"]
            /\ UNCHANGED error
  /\ UNCHANGED <<cmd, limiter, current, poolVars>>

\* writeObject.
WriteBlob(t) ==
  /\ step[t] = "write"
  /\ step' = [step EXCEPT ![t] = "ended"]
  /\ error' \in {error, [error EXCEPT ![t] = Path(t)]}
  /\ UNCHANGED <<cmd, limiter, sequence, current, poolVars>>

\* The worker's finally: release the path in the order this command was given. A runner
\* whose worker failed ends with it.
EndItem(t) ==
  LET c == Owner(t) IN
  /\ Scans(c) /\ step[t] = "ended"
  /\ sequence' = ReleaseIn(OrderOf(c), Path(t))
  /\ step' = [Awake(OrderOf(c), Path(t)) EXCEPT ![t] = "done"]
  /\ cmd' = [cmd EXCEPT ![c].runners = IF error[t] # 0 THEN @ - 1 ELSE @]
  /\ UNCHANGED <<limiter, current, error, poolVars>>

\* limiter.run's finally: hand the slot to the first in the queue, or give it back.
FreeSlot(t) ==
  LET c == Owner(t) q == limiter[c].queue IN
  /\ ~Scans(c) /\ step[t] = "ended"
  /\ IF q = <<>>
       THEN /\ limiter' = [limiter EXCEPT ![c].active = @ - 1]
            /\ step' = [step EXCEPT ![t] = "freed"]
       ELSE /\ limiter' = [limiter EXCEPT ![c].queue = Tail(@)]
            /\ step' = [step EXCEPT ![t] = "freed", ![Head(q)] = "read"]
  /\ UNCHANGED <<cmd, sequence, current, error, poolVars>>

\* settleInCleanTurn: a failure halts the order; then the path is released whatever happened.
Halting(c, p) ==
  IF cmd[c].own /\ error[<<c, p>>] # 0
    THEN [sequence EXCEPT ![c] = Halted(@, p, error[<<c, p>>])] ELSE sequence

SettleTurn(t) ==
  LET c == Owner(t)
      p == Path(t)
      halting == Halting(c, p)
      rejected == IF halting = sequence THEN {} ELSE Rejected(sequence[c], p)
      awake == IF cmd[c].own THEN LetIn(halting[c], p) ELSE {} IN
  /\ step[t] = "freed"
  /\ sequence' = IF cmd[c].own THEN [halting EXCEPT ![c] = Released(@, p)] ELSE sequence
  /\ step' = [u \in Tasks |-> CASE u = t -> "done"
                               [] u \in rejected -> "ended"
                               [] u \in awake -> Onward(step[u])
                               [] OTHER -> step[u]]
  /\ error' = [u \in Tasks |-> IF u \in rejected THEN error[t] ELSE error[u]]
  /\ UNCHANGED <<cmd, limiter, current, poolVars>>

-----------------------------------------------------------------------------
(* The end of a command. A scan fails with its first failure and leaves the other *)
(* runners to themselves; a staging command waits for every task and throws the   *)
(* failure that comes first in the order.                                         *)

Done(c) == {p \in Paths : step[<<c, p>>] = "done"}
FailedPaths(c) == {p \in Done(c) : error[<<c, p>>] # 0}
MinPath(S) == CHOOSE p \in S : \A q \in S : p <= q

Settled(c) ==
  \/ Scans(c) /\ (FailedPaths(c) # {} \/ Done(c) = 1 .. cmd[c].items)
  \/ ~Scans(c) /\ (cmd[c].taken = cmd[c].items \/ ~cmd[c].walking) /\ Done(c) = 1 .. cmd[c].taken

\* Mutant: whichever failure came first in time is thrown.
ReportedAny(c) == FailedPaths(c)

\* The paths whose failure the command may throw.
Reported(c) ==
  {p \in FailedPaths(c) : cmd[c].walking /\ (Scans(c) \/ p = MinPath(FailedPaths(c)))}

Close(c) ==
  /\ cmd[c].at = "open" /\ Settled(c)
  /\ \E p \in (IF Reported(c) = {} THEN {0} ELSE Reported(c)) :
       cmd' = [cmd EXCEPT ![c].at = "over",
                          ![c].result = IF p = 0 THEN 0 ELSE error[<<c, p>>]]
  /\ current' = IF cmd[c].own THEN None ELSE current
  /\ IF cmd[c].use.scoped THEN Leave(c) ELSE UNCHANGED poolVars
  /\ UNCHANGED <<limiter, sequence, step, error>>

-----------------------------------------------------------------------------

Command(c) == Open(c) \/ NextItem(c) \/ Dispatch(c) \/ Close(c)
Task(t) ==
  \/ ReadPath(t) \/ ConvertPath(t) \/ BeginClean(t) \/ EndClean(t) \/ WriteBlob(t)
  \/ EndItem(t) \/ FreeSlot(t) \/ SettleTurn(t)
Pool(s) ==
  /\ CloseScope(s) \/ (s \in Tasks /\ Converse(s))
  /\ UNCHANGED orderVars

Over ==
  /\ \A c \in Commands : cmd[c].at = "over" /\ at[c] \in {"idle", "left"}
  /\ \A t \in Tasks : step[t] \in {"new", "done"} /\ child[t].state # "live"

\* What the event loop runs, and what a filter process does in the end.
Progress ==
  \/ \E c \in Commands : Command(c)
  \/ \E t \in Tasks : Task(t)
  \/ \E s \in Scopes : Pool(s)
  \/ \E k \in Tasks : Filter(k) /\ UNCHANGED orderVars

\* What nobody has to do: a walk may fail, a process may die unasked.
Mishap ==
  \/ \E c \in Commands : WalkFails(c)
  \/ \E k \in Tasks : child[k].asked = Nothing /\ ~child[k].closed /\ Die(k) /\ UNCHANGED orderVars

Next == Progress \/ Mishap

\* Every step uses something up that is never given back, so that no step is put off for ever
\* once something ready is always run.
Fairness == WF_vars(Progress)

Spec == Init /\ [][Next]_vars /\ Fairness

-----------------------------------------------------------------------------
(* Properties. *)

Steps == {"new", "slot", "read", "gate", "convert", "turn", "go", "clean", "write", "ended",
          "freed", "done"}

TypeOK ==
  /\ PoolTypeOK
  /\ step \in [Tasks -> Steps] /\ error \in [Tasks -> 0 .. N]
  /\ current \in Commands \cup {None}
  /\ \A c \in Commands :
       /\ cmd[c].at \in {"idle", "open", "over"} /\ cmd[c].taken \in 0 .. N
       /\ cmd[c].runners \in 0 .. Limit /\ cmd[c].result \in 0 .. N
       /\ limiter[c].active \in 0 .. Limit
       /\ sequence[c].next \in 1 .. N + 1 /\ sequence[c].enlisted \in 0 .. N
       /\ sequence[c].waiters \in [Paths -> Tasks \cup {None}]

\* The filter processes at every moment: well typed, each answer goes to who asked for it,
\* and one pool is in use, whose processes all have somebody to end them.
PoolInv == TypeOK /\ AnswersOwn /\ OnePoolInUse /\ NoStrayFilter

\* A command whose paths are in an order of its own.
InOrder(c) == cmd[c].at = "open" /\ cmd[c].own

\* "git cleans one path at a time, in index order": while a path is with the filter, every
\* path before it has been cleaned or needs no clean, however the reads finished.
CleansInOrder ==
  \A c \in Commands : InOrder(c) =>
    \A p, q \in Paths : p < q /\ step[<<c, q>>] \in {"go", "clean"} =>
      step[<<c, p>>] \in {"write", "ended", "freed", "done"}

\* A write span holds a path's turn until its blob is written, and in it nothing is converted
\* or written behind a path that failed. In a clean span the turn goes on before a failure is
\* known (see NoneCleanedBehindFailure).
WritesStopAtFailure ==
  \A c \in Commands : InOrder(c) /\ cmd[c].use.span = "write" =>
    \A p, q \in Paths : p < q /\ step[<<c, q>>] \in {"convert", "go", "clean", "write"} =>
      step[<<c, p>>] = "done" /\ error[<<c, p>>] = 0

\* A staging command throws what git would die with: the first path in the order that failed
\* failed by itself, and that failure is the one reported, whichever came first in time.
FirstFailureReported ==
  \A c \in Commands : cmd[c].at = "over" /\ ~Scans(c) /\ cmd[c].walking /\ cmd[c].own =>
    cmd[c].result = IF FailedPaths(c) = {} THEN 0 ELSE MinPath(FailedPaths(c))

\* A slot is held by one task and passes from hand to hand: as many are taken as tasks hold
\* one, and a task waits for a slot only while all of them are taken.
Holding(c) == {p \in Paths : step[<<c, p>>] \notin {"new", "slot", "freed", "done"}}
SlotsHandedOver ==
  \A c \in Commands : ~Scans(c) =>
    /\ limiter[c].active = Cardinality(Holding(c))
    /\ limiter[c].queue # <<>> => limiter[c].active = Limit

\* The order and the limiter at every moment: paths are cleaned in their order, in a write span
\* none behind a failed one, by as many tasks as have a slot.
OrderInv == CleansInOrder /\ WritesStopAtFailure /\ SlotsHandedOver

\* Tasks hold a slot or a runner while they wait for their turn, and the turn is the
\* filter's too: still, every command ends and so does every process it started.
CommandsEnd == <>Over

\* "its own enlistments are no-ops, so its paths clean unordered rather than tangle with the
\* outer order": a task of a command that found an order open never waits in it.
NestedCleansUnordered ==
  \A c \in Commands : cmd[c].at = "open" /\ ~cmd[c].own =>
    \A p \in Paths : step[<<c, p>>] \notin Waiting

\* "git dies at the first path that fails: the order is halted so no later path is cleaned":
\* no path of a staging command is with the filter once an earlier one has failed.
\* TLC refutes it (README, section 3).
NoneCleanedBehindFailure ==
  \A c \in Commands : InOrder(c) /\ ~Scans(c) =>
    \A p, q \in Paths : p < q /\ step[<<c, q>>] = "clean" => error[<<c, p>>] = 0

=============================================================================
