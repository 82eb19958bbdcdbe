------------------------------ MODULE FilterPool ------------------------------
(* The long-running filter processes of one session. A command opens a scope on *)
(* the session's Context; every conversion opens one of its own. Scopes that     *)
(* overlap share one pool, the last to leave closes it, and a pool lets one      *)
(* conversion speak at a time and keeps one process per driver command.          *)
(*                                                                               *)
(* The filter process is another program: it answers what it is asked, or dies,  *)
(* at any moment and after any part of an answer. A section of its output names  *)
(* the conversion it answers. Left out: exit codes and the metadata lines.       *)
EXTENDS Naturals, Sequences, FiniteSets

CONSTANTS
  Commands,  \* calls of the library that run side by side on one Context
  Smudges,   \* those of them that write the work tree and smudge; the others read and clean it
  N,         \* how many paths there are
  Driver,    \* [path -> the filter.<driver>.process command of the path]
  None

ASSUME NAssumption == N \in Nat \ {0} /\ DOMAIN Driver = 1 .. N

Paths == 1 .. N
Tasks == Commands \X Paths
Scopes == Commands \cup Tasks
DriverOf(t) == Driver[t[2]]
Capability(t) == IF t[1] \in Smudges THEN "smudge" ELSE "clean"
Drivers == {Driver[p] : p \in Paths}

ASSUME ScopesAssumption ==
  IsFiniteSet(Commands) /\ Commands \cap Tasks = {} /\ None \notin Scopes

VARIABLES
  open,     \* pools.get(ctx): the pool of the Context, named after the scope that opened it
  pool,     \* [scope -> its pool's users, turn queue and running processes]
  inPool,   \* [scope -> the pool it entered]
  child,    \* [task -> the process it spawned]
  at,       \* [scope -> where it is]
  talk,     \* [task -> the process it speaks to]
  outcome   \* [task -> whose bytes it got, or how it failed]

poolVars == <<open, pool, inPool, child, at, talk, outcome>>

\* What a process is asked, and what a conversion comes back with.
Nothing == [what |-> "nothing", by |-> None]
Ask(what, t) == [what |-> what, by |-> t]
Result(how, t) == [how |-> how, of |-> t]
Failed == Result("failed", None)
Thrown == Result("thrown", None)

NoPool == [users |-> 0, queue |-> <<>>, running |-> [d \in Drivers |-> None]]
NoChild == [state |-> "none", closed |-> FALSE, able |-> {}, asked |-> Nothing, out |-> <<>>]

PoolInit ==
  /\ open = None
  /\ pool = [s \in Scopes |-> NoPool]
  /\ inPool = [s \in Scopes |-> None]
  /\ child = [t \in Tasks |-> NoChild]
  /\ at = [s \in Scopes |-> "idle"]
  /\ talk = [t \in Tasks |-> None]
  /\ outcome = [t \in Tasks |-> Result("none", None)]

-----------------------------------------------------------------------------
(* The filter process. *)

\* What a process may answer: to the greeting, to the client's capabilities, to a request.
Says(t, words) == [i \in 1 .. Len(words) |-> [of |-> t, says |-> words[i]]]
Answers(k) ==
  {Says(child[k].asked.by, a) : a \in
     CASE child[k].asked.what = "greeting" -> {<<"welcome">>, <<"other">>}
       [] child[k].asked.what = "capabilities" -> {<<"both">>, <<"smudge">>, <<"unknown">>}
       [] child[k].asked.what = "request" ->
            {<<"success", "content", "success">>, <<"success", "content", "error">>,
             <<"error">>, <<"abort">>, <<"other">>}}

Answer(k) ==
  /\ child[k].state = "live" /\ child[k].asked # Nothing
  /\ \E a \in Answers(k) :
       child' = [child EXCEPT ![k].asked = Nothing, ![k].out = @ \o a]
  /\ UNCHANGED <<open, pool, inPool, at, talk, outcome>>

\* It ends: on its own or by the session's signal, part of an answer written; or, its
\* input closed, because there is nothing left to read.
Die(k) ==
  /\ child[k].state = "live"
  /\ IF child[k].asked = Nothing
       THEN child' = [child EXCEPT ![k].state = "exited"]
       ELSE \E a \in Answers(k) : \E n \in 0 .. Len(a) - 1 :
              child' = [child EXCEPT ![k].state = "exited", ![k].asked = Nothing,
                                     ![k].out = @ \o SubSeq(a, 1, n)]
  /\ UNCHANGED <<open, pool, inPool, at, talk, outcome>>

\* sections.next(): the next section, or that there will be none.
Hears(k, words) == child[k].out # <<>> /\ Head(child[k].out).says \in words
Ended(k) == child[k].out = <<>> /\ child[k].state = "exited"
Read(k) == [child EXCEPT ![k].out = Tail(@)]

-----------------------------------------------------------------------------
(* Scopes. *)

\* scopedPool up to its body: join the Context's pool, or open one.
Entered(s) == IF open = None THEN s ELSE open

Enter(s) ==
  /\ open' = Entered(s)
  /\ inPool' = [inPool EXCEPT ![s] = Entered(s)]

EnterScope(c) ==
  /\ at[c] = "idle"
  /\ Enter(c)
  /\ pool' = [pool EXCEPT ![Entered(c)].users = @ + 1]
  /\ at' = [at EXCEPT ![c] = "in"]
  /\ UNCHANGED <<child, talk, outcome>>

\* convertThroughPool: its body queues behind every conversion the pool was asked for before.
Convert(t) ==
  /\ at[t] = "idle"
  /\ Enter(t)
  /\ pool' = [pool EXCEPT ![Entered(t)].users = @ + 1, ![Entered(t)].queue = Append(@, t)]
  /\ at' = [at EXCEPT ![t] = "queued"]
  /\ UNCHANGED <<child, talk, outcome>>

\* release: the last user takes the pool off the Context, then closes it.
Leave(s) ==
  /\ at[s] \in {"in", "settled"}
  /\ pool' = [pool EXCEPT ![inPool[s]].users = @ - 1]
  /\ IF pool[inPool[s]].users > 1
       THEN /\ at' = [at EXCEPT ![s] = "left"]
            /\ inPool' = [inPool EXCEPT ![s] = None]
            /\ UNCHANGED open
       ELSE /\ at' = [at EXCEPT ![s] = "draining"]
            /\ open' = None
            /\ UNCHANGED inPool
  /\ talk' = [t \in Tasks |-> IF t = s THEN None ELSE talk[t]]
  /\ UNCHANGED <<child, outcome>>

\* child.close(): its input ends; nobody reads its output from now on.
Stop(process) == [process EXCEPT !.closed = TRUE, !.able = {}, !.out = <<>>]

\* closePool: once the queue has settled, close every running process and wait for it.
CloseRunning(s) ==
  /\ at[s] = "draining" /\ pool[inPool[s]].queue = <<>>
  /\ child' = [k \in Tasks |->
                 IF \E d \in Drivers : pool[inPool[s]].running[d] = k
                   THEN Stop(child[k]) ELSE child[k]]
  /\ at' = [at EXCEPT ![s] = "closing"]
  /\ UNCHANGED <<open, pool, inPool, talk, outcome>>

Closed(s) ==
  /\ at[s] = "closing"
  /\ \A d \in Drivers : LET k == pool[inPool[s]].running[d] IN
       k # None => child[k].state = "exited"
  /\ at' = [at EXCEPT ![s] = "left"]
  /\ pool' = [pool EXCEPT ![inPool[s]] = NoPool]
  /\ inPool' = [inPool EXCEPT ![s] = None]
  /\ UNCHANGED <<open, child, talk, outcome>>

-----------------------------------------------------------------------------
(* One conversion's turn. *)

Running(t) == pool[inPool[t]].running[DriverOf(t)]

\* The turn is over: the next in the queue may start.
Settle(t, how) ==
  /\ outcome' = [outcome EXCEPT ![t] = how]
  /\ pool' = [pool EXCEPT ![inPool[t]].queue = Tail(@)]
  /\ at' = [at EXCEPT ![t] = "settled"]

\* The process is set up: ask it, unless it does not do what is asked of it.
AskIfAble(t, k) ==
  IF Capability(t) \in child[k].able
    THEN /\ at' = [at EXCEPT ![t] = "status"]
         /\ child' = [child EXCEPT ![k].asked = Ask("request", t)]
         /\ talk' = [talk EXCEPT ![t] = k]
         /\ UNCHANGED <<pool, outcome>>
    ELSE Settle(t, Failed) /\ UNCHANGED <<child, talk>>

\* Mutant: only the start of a process waits for its turn.
TurnToStart(t) == Running(t) # None \/ Head(pool[inPool[t]].queue) = t

\* convertNow: the first of the queue takes the pool's process for its driver, or starts one.
MyTurn(t) == Head(pool[inPool[t]].queue) = t

TakeTurn(t) ==
  /\ at[t] = "queued" /\ MyTurn(t)
  /\ IF Running(t) # None
       THEN AskIfAble(t, Running(t))
       ELSE /\ child' = [child EXCEPT ![t] = [NoChild EXCEPT !.state = "live", !.asked = Ask("greeting", t)]]
            /\ talk' = [talk EXCEPT ![t] = t]
            /\ at' = [at EXCEPT ![t] = "greeting"]
            /\ UNCHANGED <<pool, outcome>>
  /\ UNCHANGED <<open, inPool>>

\* Close the process and wait for its exit, to fail with its exit code (or to rethrow).
StopChild(t, k, next) ==
  /\ child' = [child EXCEPT ![k] = Stop(@)]
  /\ at' = [at EXCEPT ![t] = next]

Greet(t) ==
  /\ at[t] = "greeting"
  /\ \/ /\ Hears(t, {"welcome"})
        /\ child' = [Read(t) EXCEPT ![t].asked = Ask("capabilities", t)]
        /\ at' = [at EXCEPT ![t] = "capabilities"]
     \/ /\ Hears(t, {"other"}) \/ Ended(t)
        /\ StopChild(t, t, "stopping")
  /\ UNCHANGED <<open, pool, inPool, talk, outcome>>

\* The capabilities are read: the process runs, and is asked if it does what this conversion needs.
Registered(t, able) == [pool EXCEPT ![inPool[t]].running[DriverOf(t)] = t]

LearnCapabilities(t) ==
  LET offered == IF Hears(t, {"both"}) THEN {"clean", "smudge"} ELSE {"smudge"}
      able == Capability(t) \in offered
      running == Registered(t, able) IN
  /\ Hears(t, {"both", "smudge"})
  /\ child' = [Read(t) EXCEPT ![t].able = offered, ![t].asked = IF able THEN Ask("request", t) ELSE Nothing]
  /\ IF able
       THEN at' = [at EXCEPT ![t] = "status"] /\ pool' = running /\ UNCHANGED outcome
       ELSE /\ at' = [at EXCEPT ![t] = "settled"]
            /\ outcome' = [outcome EXCEPT ![t] = Failed]
            /\ pool' = [running EXCEPT ![inPool[t]].queue = Tail(@)]

Capabilities(t) ==
  /\ at[t] = "capabilities"
  /\ \/ LearnCapabilities(t)
     \/ /\ Hears(t, {"unknown"}) /\ StopChild(t, t, "refusing")
        /\ UNCHANGED <<pool, outcome>>
     \/ /\ Ended(t) /\ StopChild(t, t, "stopping")
        /\ UNCHANGED <<pool, outcome>>
  /\ UNCHANGED <<open, inPool, talk>>

\* failureOf and settle: an error is this path's alone, an abort takes the capability away,
\* anything else takes the process out of the pool and stops it.
Fails(t, k) ==
  \/ /\ Hears(k, {"error"}) /\ child' = Read(k) /\ Settle(t, Failed)
  \/ /\ Hears(k, {"abort"}) /\ child' = [Read(k) EXCEPT ![k].able = @ \ {Capability(t)}] /\ Settle(t, Failed)
  \/ /\ Hears(k, {"other"}) \/ Ended(k)
     /\ StopChild(t, k, "stopping")
     /\ pool' = [pool EXCEPT ![inPool[t]].running[DriverOf(t)] = None]
     /\ UNCHANGED outcome

Status(t) ==
  LET k == talk[t] IN
  /\ at[t] = "status"
  /\ \/ /\ Hears(k, {"success"})
        /\ child' = Read(k)
        /\ at' = [at EXCEPT ![t] = "content"]
        /\ UNCHANGED <<pool, outcome>>
     \/ Fails(t, k)
  /\ UNCHANGED <<open, inPool, talk>>

\* readContent: the content, then the status that trails it.
Content(t) ==
  LET k == talk[t] IN
  /\ at[t] = "content"
  /\ \/ /\ Hears(k, {"content"})
        /\ outcome' = [outcome EXCEPT ![t] = Result("bytes", Head(child[k].out).of)]
        /\ child' = Read(k)
        /\ at' = [at EXCEPT ![t] = "trailing"]
        /\ UNCHANGED pool
     \/ Ended(k) /\ Fails(t, k)
  /\ UNCHANGED <<open, inPool, talk>>

Trailing(t) ==
  LET k == talk[t] IN
  /\ at[t] = "trailing"
  /\ \/ Hears(k, {"success"}) /\ child' = Read(k) /\ Settle(t, outcome[t])
     \/ Fails(t, k)
  /\ UNCHANGED <<open, inPool, talk>>

\* stoppedOutcome, or the handshake's error rethrown.
Stopped(t) ==
  /\ at[t] \in {"stopping", "refusing"} /\ child[talk[t]].state = "exited"
  /\ Settle(t, IF at[t] = "refusing" THEN Thrown ELSE Failed)
  /\ UNCHANGED <<open, inPool, child, talk>>

Converse(t) ==
  \/ TakeTurn(t) \/ Greet(t) \/ Capabilities(t) \/ Status(t) \/ Content(t) \/ Trailing(t)
  \/ Stopped(t)
  \/ at[t] = "settled" /\ Leave(t)

CloseScope(s) == CloseRunning(s) \/ Closed(s)

\* What a filter process does in the end: answer what it is asked, and exit once told to.
Filter(k) == (child[k].asked # Nothing \/ child[k].closed) /\ (Answer(k) \/ Die(k))

-----------------------------------------------------------------------------
(* Properties. *)

Phases == {"idle", "in", "queued", "greeting", "capabilities", "status", "content", "trailing",
           "stopping", "refusing", "settled", "draining", "closing", "left"}

PoolTypeOK ==
  /\ open \in Scopes \cup {None}
  /\ inPool \in [Scopes -> Scopes \cup {None}]
  /\ at \in [Scopes -> Phases]
  /\ talk \in [Tasks -> Tasks \cup {None}]
  /\ outcome \in [Tasks -> [how : {"none", "bytes", "failed", "thrown"}, of : Tasks \cup {None}]]
  /\ \A s \in Scopes :
       /\ pool[s].users \in 0 .. Cardinality(Scopes)
       /\ pool[s].running \in [Drivers -> Tasks \cup {None}]
       /\ \A i \in DOMAIN pool[s].queue : pool[s].queue[i] \in Tasks
  /\ \A k \in Tasks :
       /\ child[k].state \in {"none", "live", "exited"}
       /\ child[k].closed \in BOOLEAN /\ child[k].able \subseteq {"clean", "smudge"}
       /\ child[k].asked \in [what : {"nothing", "greeting", "capabilities", "request"}, by : Tasks \cup {None}]

\* A path is never staged with another path's content: the bytes a conversion comes back
\* with are the answer to its own request, whoever else used the process, and however its
\* earlier conversations ended.
AnswersOwn ==
  \A t \in Tasks : at[t] \in {"settled", "draining", "closing", "left"} /\ outcome[t].how = "bytes"
                     => outcome[t].of = t

\* The Context's pool is the one pool in use: no scope is left in a pool that was taken off
\* the Context, and none joins one that is being closed.
OnePoolInUse == \A s \in Scopes : pool[s].users > 0 <=> open = s

\* Every process that has not been told to end has somebody who will tell it: the conversion
\* that is setting it up, or the users of the pool that runs it, or the scope about to close
\* that pool. A driver has one such process in a pool.
NoStrayFilter ==
  \A k \in Tasks : child[k].state = "live" /\ ~child[k].closed =>
    \/ at[k] \in {"greeting", "capabilities"}
    \/ \E s \in Scopes :
         /\ pool[s].running[DriverOf(k)] = k
         /\ open = s \/ \E u \in Scopes : inPool[u] = s /\ at[u] = "draining"

=============================================================================
