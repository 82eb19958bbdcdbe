--------------------------- MODULE CleanOrderProofs ---------------------------
(* The order in which paths are cleaned and written, the failure a staging *)
(* command reports, and the conversations with the filter processes, for any *)
(* number of paths, slots, runners and drivers. *)
EXTENDS CleanOrder, FiniteSetTheorems, NaturalsInduction, WellFoundedInduction, TLAPS

\* At most one of the commands that run side by side cleans. With two, the second
\* waits in the first one's order and is released there (see NestedCleansUnordered).
LoneCleaner ==
  \A m \in Mixes : \A c, d \in Commands \ Smudges : m[c] # 0 /\ m[d] # 0 => c = d

------------------------------
(* The inductive invariant. *)

CmdType ==
  [use : Uses \cup {Checkout}, items : 0 .. N, at : {"idle", "open", "over"}, own : BOOLEAN,
   taken : 0 .. N, walking : BOOLEAN, runners : Int, result : 0 .. N]

SequenceType ==
  [span : {"clean", "write"}, enlisted : 0 .. N, released : SUBSET Paths, next : 1 .. N + 1,
   waiters : [Paths -> Tasks \cup {None}], halted : 0 .. N, why : 0 .. N]

OrderTypes ==
  /\ cmd \in [Commands -> CmdType]
  /\ limiter \in [Commands -> [active : Int, queue : Seq(Tasks)]]
  /\ sequence \in [Commands -> SequenceType]
  /\ current \in Commands \cup {None}
  /\ step \in [Tasks -> Steps] /\ error \in [Tasks -> 0 .. N]

\* Only one command that cleans has anything to do.
Alone ==
  \A c, d \in Commands \ Smudges : cmd[c].items # 0 /\ cmd[d].items # 0 => c = d

\* Where a command is, and which of its paths it has taken.
CmdOK(c) ==
  /\ cmd[c].use = Checkout <=> c \in Smudges
  /\ cmd[c].own => c \notin Smudges /\ cmd[c].items # 0 /\ cmd[c].at # "idle"
  /\ cmd[c].at = "idle" => cmd[c].taken = 0 /\ cmd[c].items # 0
  /\ cmd[c].taken <= cmd[c].items
  /\ current = c <=> InOrder(c)
  /\ \A p \in Paths : /\ p > cmd[c].taken => step[<<c, p>>] = "new" /\ error[<<c, p>>] = 0
                      /\ step[<<c, p>>] = "freed" => ~Scans(c)
                      /\ step[<<c, p>>] = "convert" => c \notin Smudges

\* Every path before p has been released.
Clear(c, p) == \A r \in Paths : r < p => r \in sequence[c].released

\* The order a command opened: who waits in it, how far it has come, and that a path is
\* released once its turn has passed.
SeqOK(c) == cmd[c].own =>
  /\ sequence[c].span = cmd[c].use.span
  /\ sequence[c].enlisted = IF Scans(c) THEN cmd[c].items ELSE cmd[c].taken
  /\ Clear(c, sequence[c].next)
  /\ \A p \in Paths : sequence[c].waiters[p] # None =>
       sequence[c].waiters[p] = <<c, p>> /\ step[<<c, p>>] \in Waiting
  /\ \A p \in sequence[c].released :
       /\ step[<<c, p>>] \in {"write", "ended", "freed", "done"}
       /\ cmd[c].use.span = "write" => step[<<c, p>>] = "done"

\* Who has had its turn, and holds it.
InTurn(c) == InOrder(c) =>
  \A p \in Paths :
    \/ step[<<c, p>>] \in {"go", "clean"}
    \/ cmd[c].use.span = "write" /\ step[<<c, p>>] \in {"convert", "write"}
    => Clear(c, p)

\* What a failure leaves: an order that is halted at or before it, nobody in the turn or waiting
\* for it behind, and a failure that is some path's own.
HaltOK(c) == cmd[c].own /\ ~Scans(c) =>
  /\ sequence[c].halted # 0 =>
       LET why == sequence[c].why IN
       /\ why \in Paths /\ why <= sequence[c].halted
       /\ error[<<c, why>>] = why /\ step[<<c, why>>] = "done"
  /\ \A p \in Paths : step[<<c, p>>] = "done" /\ error[<<c, p>>] # 0 =>
       sequence[c].halted # 0 /\ sequence[c].halted <= p
  /\ \A p \in Paths : sequence[c].halted # 0 /\ p > sequence[c].halted =>
       /\ sequence[c].waiters[p] = None
       /\ cmd[c].use.span = "write" => step[<<c, p>>] \notin {"convert", "go", "clean", "write"}

ErrorOK(c) == cmd[c].own /\ ~Scans(c) =>
  \A p \in Paths : LET e == error[<<c, p>>] IN
    e # 0 => e <= p /\ error[<<c, e>>] = e /\ (e # p => step[<<c, e>>] = "done")

\* A staging command that is over has nothing under way.
OverOK(c) == cmd[c].own /\ ~Scans(c) /\ cmd[c].at = "over" =>
  /\ \A p \in Paths : step[<<c, p>>] \in {"new", "done"}
  /\ cmd[c].walking => cmd[c].result = IF FailedPaths(c) = {} THEN 0 ELSE MinPath(FailedPaths(c))

\* The slots of a staging command.
SlotOK(c) == ~Scans(c) =>
  /\ limiter[c].active = Cardinality(Holding(c)) /\ limiter[c].active <= Limit
  /\ limiter[c].queue # <<>> => limiter[c].active = Limit
  /\ \A i \in DOMAIN limiter[c].queue :
       /\ \E p \in Paths : limiter[c].queue[i] = <<c, p>> /\ step[<<c, p>>] = "slot"
       /\ \A j \in DOMAIN limiter[c].queue : limiter[c].queue[i] = limiter[c].queue[j] => i = j

Fine(c) == CmdOK(c) /\ SeqOK(c) /\ InTurn(c) /\ HaltOK(c) /\ ErrorOK(c) /\ OverOK(c) /\ SlotOK(c)

OrderIndInv == OrderTypes /\ Alone /\ \A c \in Commands : Fine(c)

------------------------------
(* Facts about the operators. *)

\* Every set of numbers has a least one.
LEMMA LeastOf ==
  ASSUME NEW T, T \subseteq Nat, T # {}
  PROVE  \E x \in T : \A y \in T : ~(y < x)
<1>1. \E x \in T : \A y \in T : ~(<<y, x>> \in OpToRel(<, Nat)) BY NatLessThanWellFounded, WFMin
<1> QED BY <1>1 DEF OpToRel

\* NextAfter is the first path that is not done: everything before it is.
LEMMA NextAfterIs ==
  ASSUME NEW q, q.released \subseteq Paths, NEW p \in Paths
  PROVE  /\ NextAfter(q, p) \in 1 .. N + 1
         /\ NextAfter(q, p) \notin q.released \cup {p}
         /\ \A r \in Paths : r < NextAfter(q, p) => r \in q.released \cup {p}
<1> DEFINE S == q.released \cup {p}
           Good(n) == (\A r \in 1 .. n - 1 : r \in S) /\ n \notin S
           T == {n \in 1 .. N + 1 : n \notin S}
<1>1. N \in Nat /\ S \subseteq 1 .. N BY NAssumption DEF Paths
<1>2. N + 1 \in T /\ T \subseteq Nat BY <1>1
<1>3. PICK n \in T : \A y \in T : ~(y < n) BY <1>2, LeastOf
<1>4. n \in 1 .. N + 1 /\ Good(n) BY <1>1, <1>3
<1>5. NextAfter(q, p) \in 1 .. N + 1 /\ Good(NextAfter(q, p)) BY <1>4 DEF NextAfter
<1> QED BY <1>1, <1>5 DEF Paths

\* A task is the pair of its command and its path.
LEMMA TaskIs ==
  ASSUME NEW t \in Tasks
  PROVE  \E c \in Commands, p \in Paths : t = <<c, p>>
BY DEF Tasks

\* And the parts of that pair are the command and the path; it is not None.
LEMMA PairIs ==
  ASSUME NEW c \in Commands, NEW p \in Paths
  PROVE  /\ <<c, p>> \in Tasks /\ Owner(<<c, p>>) = c /\ Path(<<c, p>>) = p
         /\ Smudging(<<c, p>>) <=> c \in Smudges
         /\ <<c, p>> # None /\ c # None
BY ScopesAssumption DEF Tasks, Scopes, Owner, Path, Smudging

\* The paths a command has in some steps are finitely many.
LEMMA PathsFinite ==
  /\ IsFiniteSet(Paths) /\ Paths \subseteq Nat
  /\ \A S \in SUBSET Paths : IsFiniteSet(S) /\ Cardinality(S) \in Nat
<1>1. IsFiniteSet(Paths) BY NAssumption, FS_Interval DEF Paths
<1>2. Paths \subseteq Nat BY NAssumption DEF Paths
<1> QED BY <1>1, <1>2, FS_Subset, FS_CardinalityType

\* What the types say of one command and its paths.
LEMMA Typed ==
  ASSUME OrderTypes, NEW c \in Commands
  PROVE  /\ cmd[c] \in CmdType
         /\ cmd[c].items \in Nat /\ cmd[c].taken \in Nat /\ cmd[c].items <= N /\ cmd[c].taken <= N
         /\ sequence[c] \in SequenceType
         /\ sequence[c].enlisted \in Nat /\ sequence[c].next \in Nat /\ sequence[c].halted \in Nat
         /\ sequence[c].why \in Nat /\ sequence[c].why <= N /\ sequence[c].halted <= N
         /\ sequence[c].released \subseteq Paths
         /\ sequence[c].waiters \in [Paths -> Tasks \cup {None}]
         /\ limiter[c].active \in Int /\ limiter[c].queue \in Seq(Tasks)
         /\ \A p \in Paths : /\ p \in Nat /\ p # 0 /\ p <= N /\ step[<<c, p>>] \in Steps
                             /\ error[<<c, p>>] \in Nat /\ error[<<c, p>>] <= N
<1>1. N \in Nat BY NAssumption
<1>2. cmd[c] \in CmdType BY DEF OrderTypes
<1>3. cmd[c].items \in 0 .. N /\ cmd[c].taken \in 0 .. N BY <1>2 DEF CmdType
<1>4. sequence[c] \in SequenceType BY DEF OrderTypes
<1>5. /\ sequence[c].enlisted \in 0 .. N /\ sequence[c].next \in 1 .. N + 1 /\ sequence[c].halted \in 0 .. N
      /\ sequence[c].why \in 0 .. N /\ sequence[c].released \subseteq Paths
      /\ sequence[c].waiters \in [Paths -> Tasks \cup {None}]
  BY <1>4 DEF SequenceType
<1>6. limiter[c].active \in Int /\ limiter[c].queue \in Seq(Tasks) BY DEF OrderTypes
<1>7. \A p \in Paths : p \in 1 .. N /\ step[<<c, p>>] \in Steps /\ error[<<c, p>>] \in 0 .. N
  BY PairIs DEF OrderTypes, Paths
<1> QED BY <1>1, <1>2, <1>3, <1>4, <1>5, <1>6, <1>7

------------------------------
(* Who is not touched. *)

Same(d) ==
  /\ cmd'[d] = cmd[d] /\ limiter'[d] = limiter[d] /\ sequence'[d] = sequence[d]
  /\ (current' = d) <=> (current = d)
  /\ \A p \in Paths : step'[<<d, p>>] = step[<<d, p>>] /\ error'[<<d, p>>] = error[<<d, p>>]

\* A command nothing of which a step changes stays as it should be.
LEMMA SameFine ==
  ASSUME NEW d \in Commands, Same(d), Fine(d), OrderTypes
  PROVE  Fine(d)'
<1>1. Holding(d)' = Holding(d) /\ FailedPaths(d)' = FailedPaths(d) BY DEF Same, Holding, FailedPaths, Done
<1>2. (Scans(d)' <=> Scans(d)) /\ (InOrder(d)' <=> InOrder(d)) BY DEF Same, Scans, InOrder
<1>3. \A p \in Paths : Clear(d, p)' <=> Clear(d, p) BY DEF Same, Clear
<1>4. Clear(d, sequence[d].next)' <=> Clear(d, sequence[d].next) BY DEF Same, Clear
<1>5. CmdOK(d)' BY <1>2 DEF Same, Fine, CmdOK
<1>6. SeqOK(d)'
  <2>1. SeqOK(d) /\ cmd'[d] = cmd[d] /\ sequence'[d] = sequence[d] BY DEF Same, Fine
  <2>2. \A p \in Paths : step'[<<d, p>>] = step[<<d, p>>] BY DEF Same
  <2>3. sequence[d].released \subseteq Paths BY Typed
  <2> QED BY <1>2, <1>4, <2>1, <2>2, <2>3 DEF SeqOK
<1>7. InTurn(d)' BY <1>2, <1>3 DEF Same, Fine, InTurn
<1>8. HaltOK(d)' BY <1>2 DEF Same, Fine, HaltOK
<1>9. ErrorOK(d)'
  <2>1. SUFFICES ASSUME cmd[d].own /\ ~Scans(d), NEW p \in Paths, error'[<<d, p>>] # 0
                 PROVE  LET e == error'[<<d, p>>] IN
                        e <= p /\ error'[<<d, e>>] = e /\ (e # p => step'[<<d, e>>] = "done")
    BY <1>2 DEF Same, ErrorOK
  <2> DEFINE e == error[<<d, p>>]
  <2>2. error'[<<d, p>>] = e BY DEF Same
  <2>3. e <= p /\ error[<<d, e>>] = e /\ (e # p => step[<<d, e>>] = "done") BY <2>1, <2>2 DEF Fine, ErrorOK
  <2>4. e \in Paths BY <2>1, <2>2, PairIs, NAssumption DEF OrderTypes, Paths
  <2> QED BY <2>2, <2>3, <2>4 DEF Same
<1>10. OverOK(d)' BY <1>1, <1>2 DEF Same, Fine, OverOK
<1>11. SlotOK(d)'
  <2>1. SlotOK(d) /\ limiter'[d] = limiter[d] BY DEF Same, Fine
  <2>2. \A p \in Paths : step'[<<d, p>>] = step[<<d, p>>] BY DEF Same
  <2> QED BY <1>1, <1>2, <2>1, <2>2 DEF SlotOK
<1> QED BY <1>5, <1>6, <1>7, <1>8, <1>9, <1>10, <1>11 DEF Fine

------------------------------
(* A task goes on by itself. *)

Turn == {"convert", "go", "clean", "write"}

\* A step of command c: the others are not touched.
Kept(c) == OrderTypes' /\ (\A d \in Commands : d # c => Same(d)) /\ Fine(c)'

\* A task that holds a slot or a runner moves from its step to step b, and perhaps fails with e or
\* takes its place among the waiters.
Moves(c, p, b, e) ==
  /\ step[<<c, p>>] \in {"read", "convert", "go", "clean", "write"}
  /\ b \in {"gate", "convert", "turn", "go", "clean", "write", "ended"}
  /\ step[<<c, p>>] = "write" => b = "ended"
  /\ b = "convert" => c \notin Smudges
  /\ step' = [step EXCEPT ![<<c, p>>] = b]
  /\ \/ e = error[<<c, p>>]
     \/ e = p
     \/ cmd[c].own /\ sequence[c].halted # 0 /\ p > sequence[c].halted /\ e = sequence[c].why
  /\ error' = [error EXCEPT ![<<c, p>>] = e]
  /\ cmd' = cmd /\ limiter' = limiter /\ current' = current
  /\ \/ sequence' = sequence
     \/ /\ b \in Waiting
        /\ sequence[c].halted = 0 \/ p <= sequence[c].halted
        /\ sequence' = [sequence EXCEPT ![c].waiters[p] = <<c, p>>]
  /\ InOrder(c) /\ b \in {"go", "clean"} => step[<<c, p>>] \in {"go", "clean"} \/ Clear(c, p)
  /\ InOrder(c) /\ cmd[c].use.span = "write" /\ b \in Turn => step[<<c, p>>] \in Turn \/ Clear(c, p)
  /\ (/\ cmd[c].own /\ ~Scans(c) /\ cmd[c].use.span = "write" /\ b \in Turn
      /\ sequence[c].halted # 0 /\ p > sequence[c].halted) => step[<<c, p>>] \in Turn

\* Such a move keeps the command as it should be.
LEMMA MoveKept ==
  ASSUME OrderIndInv, NEW c \in Commands, NEW p \in Paths, NEW b, NEW e, Moves(c, p, b, e)
  PROVE  Kept(c)
<1> USE DEF Moves
<1> DEFINE t == <<c, p>>
<1>1. OrderTypes /\ Fine(c) /\ t \in Tasks /\ t # None BY PairIs DEF OrderIndInv
<1>2. e \in 0 .. N /\ p \in 1 .. N /\ b \in Steps BY <1>1, Typed, NAssumption DEF Steps
<1>3. \A d \in Commands, r \in Paths :
        /\ <<d, r>> \in Tasks
        /\ ~(d = c /\ r = p) => step'[<<d, r>>] = step[<<d, r>>] /\ error'[<<d, r>>] = error[<<d, r>>]
  BY <1>1, PairIs DEF OrderTypes
<1>4. step'[t] = b /\ error'[t] = e BY <1>1 DEF OrderTypes
<1>5. sequence \in [Commands -> SequenceType] BY <1>1 DEF OrderTypes
<1>6. sequence[c] \in SequenceType /\ sequence[c].waiters \in [Paths -> Tasks \cup {None}] BY <1>1, Typed
<1>7. /\ \A d \in Commands : d # c => sequence'[d] = sequence[d]
      /\ sequence'[c] = sequence[c] \/ sequence'[c] = [sequence[c] EXCEPT !.waiters[p] = t]
  BY <1>5
<1>8. /\ sequence'[c].span = sequence[c].span /\ sequence'[c].enlisted = sequence[c].enlisted
      /\ sequence'[c].released = sequence[c].released /\ sequence'[c].next = sequence[c].next
      /\ sequence'[c].halted = sequence[c].halted /\ sequence'[c].why = sequence[c].why
  BY <1>6, <1>7 DEF SequenceType
<1>9. \A r \in Paths : r # p => sequence'[c].waiters[r] = sequence[c].waiters[r]
  BY <1>6, <1>7 DEF SequenceType
<1>10. \/ sequence'[c].waiters[p] = sequence[c].waiters[p]
       \/ sequence'[c].waiters[p] = t /\ b \in Waiting /\ (sequence[c].halted = 0 \/ p <= sequence[c].halted)
  BY <1>6, <1>7 DEF SequenceType
<1>11. OrderTypes'
  <2>1. sequence' \in [Commands -> SequenceType]
    <3>1. sequence'[c] \in SequenceType BY <1>1, <1>6, <1>7 DEF SequenceType
    <3>2. sequence' = [sequence EXCEPT ![c] = sequence'[c]] BY <1>5
    <3> QED BY <1>5, <3>1, <3>2
  <2>2. step' \in [Tasks -> Steps] /\ error' \in [Tasks -> 0 .. N] BY <1>1, <1>2 DEF OrderTypes
  <2> QED BY <1>1, <2>1, <2>2 DEF OrderTypes
<1>12. \A d \in Commands : d # c => Same(d) BY <1>3, <1>7 DEF Same
<1>13. /\ Scans(c)' <=> Scans(c)
       /\ InOrder(c)' <=> InOrder(c)
       /\ \A r \in Nat : Clear(c, r)' <=> Clear(c, r)
  BY <1>8 DEF Scans, InOrder, Clear
<1>14. CmdOK(c)'
  <2>1. CmdOK(c) BY <1>1 DEF Fine
  <2>2. p <= cmd[c].taken BY <1>1, <2>1, Typed DEF CmdOK
  <2>3. \A r \in Paths : r > cmd[c].taken => step'[<<c, r>>] = "new" /\ error'[<<c, r>>] = 0
    BY <1>1, <1>3, <2>1, <2>2 DEF CmdOK, OrderTypes, Paths
  <2>4. \A r \in Paths : /\ step'[<<c, r>>] = "freed" => step[<<c, r>>] = "freed"
                         /\ step'[<<c, r>>] = "convert" => step[<<c, r>>] = "convert" \/ c \notin Smudges
    BY <1>3, <1>4
  <2> QED BY <1>13, <2>1, <2>3, <2>4 DEF CmdOK
<1>15. SeqOK(c)'
  <2>1. SUFFICES ASSUME cmd[c].own PROVE SeqOK(c)' BY DEF SeqOK
  <2>2. SeqOK(c) BY <1>1 DEF Fine
  <2>3. Clear(c, sequence[c].next)' BY <1>1, <1>8, <2>1, <2>2 DEF SeqOK, Clear
  <2>4. sequence[c].waiters[p] = None BY <2>1, <2>2 DEF SeqOK, Waiting
  <2>5. \A r \in Paths : sequence'[c].waiters[r] # None =>
            sequence'[c].waiters[r] = <<c, r>> /\ step'[<<c, r>>] \in Waiting
    BY <1>3, <1>4, <1>9, <1>10, <2>1, <2>2, <2>4 DEF SeqOK
  <2>6. \A r \in sequence[c].released :
          /\ step'[<<c, r>>] \in {"write", "ended", "freed", "done"}
          /\ cmd[c].use.span = "write" => step'[<<c, r>>] = "done"
    <3> SUFFICES ASSUME NEW r \in sequence[c].released
                 PROVE  /\ step'[<<c, r>>] \in {"write", "ended", "freed", "done"}
                        /\ cmd[c].use.span = "write" => step'[<<c, r>>] = "done"
      OBVIOUS
    <3>1. r \in Paths BY <1>1, Typed
    <3>2. /\ step[<<c, r>>] \in {"write", "ended", "freed", "done"}
          /\ cmd[c].use.span = "write" => step[<<c, r>>] = "done"
      BY <2>1, <2>2 DEF SeqOK
    <3>3. CASE r # p BY <1>3, <3>1, <3>2, <3>3
    <3>4. CASE r = p BY <1>4, <3>2, <3>4
    <3> QED BY <3>3, <3>4
  <2> QED BY <1>8, <1>13, <2>1, <2>2, <2>3, <2>5, <2>6 DEF SeqOK, Scans
<1>16. InTurn(c)'
  <2>1. SUFFICES ASSUME InOrder(c), NEW r \in Paths,
                        \/ step'[<<c, r>>] \in {"go", "clean"}
                        \/ cmd[c].use.span = "write" /\ step'[<<c, r>>] \in {"convert", "write"}
                 PROVE  Clear(c, r)
    BY <1>8, <1>13 DEF InTurn, Clear
  <2>2. InTurn(c) BY <1>1 DEF Fine
  <2>3. CASE r # p BY <1>3, <2>1, <2>2, <2>3 DEF InTurn
  <2>4. CASE r = p
    <3>1. b \in Turn /\ (b \in {"go", "clean"} \/ cmd[c].use.span = "write") BY <1>4, <2>1, <2>4 DEF Turn
    <3> QED BY <2>1, <2>2, <2>4, <3>1 DEF InTurn, Turn
  <2> QED BY <2>3, <2>4
<1>17. HaltOK(c)' /\ ErrorOK(c)' /\ OverOK(c)'
  <2>1. SUFFICES ASSUME cmd[c].own, ~Scans(c) PROVE HaltOK(c)' /\ ErrorOK(c)' /\ OverOK(c)'
    BY <1>13 DEF HaltOK, ErrorOK, OverOK
  <2>2. HaltOK(c) /\ ErrorOK(c) /\ OverOK(c) BY <1>1 DEF Fine
  <2>3. sequence[c].why # p \/ sequence[c].halted = 0 BY <2>1, <2>2 DEF HaltOK
  <2>4. HaltOK(c)'
    <3> DEFINE q == sequence[c]
    <3>1. q.halted # 0 => /\ q.why \in Paths /\ q.why <= q.halted
                          /\ error'[<<c, q.why>>] = q.why /\ step'[<<c, q.why>>] = "done"
      BY <1>3, <2>1, <2>2, <2>3 DEF HaltOK
    <3>2. \A r \in Paths : step'[<<c, r>>] = "done" /\ error'[<<c, r>>] # 0 => q.halted # 0 /\ q.halted <= r
      BY <1>3, <1>4, <2>1, <2>2 DEF HaltOK
    <3>3. \A r \in Paths : q.halted # 0 /\ r > q.halted =>
            /\ sequence'[c].waiters[r] = None
            /\ cmd[c].use.span = "write" => step'[<<c, r>>] \notin {"convert", "go", "clean", "write"}
      <4> SUFFICES ASSUME NEW r \in Paths, q.halted # 0, r > q.halted
                   PROVE  /\ sequence'[c].waiters[r] = None
                          /\ cmd[c].use.span = "write" => step'[<<c, r>>] \notin {"convert", "go", "clean", "write"}
        OBVIOUS
      <4>1. /\ sequence[c].waiters[r] = None
            /\ cmd[c].use.span = "write" => step[<<c, r>>] \notin {"convert", "go", "clean", "write"}
        BY <2>1, <2>2 DEF HaltOK
      <4>2. sequence[c].halted \in Nat /\ r \in Nat BY <1>1, Typed
      <4>3. CASE r # p BY <1>3, <1>9, <4>1, <4>3
      <4>4. CASE r = p
        <5>1. sequence'[c].waiters[r] = None BY <1>2, <1>10, <4>1, <4>2, <4>4, NAssumption
        <5>2. cmd[c].use.span = "write" => b \notin Turn BY <2>1, <4>1, <4>4 DEF Turn
        <5> QED BY <1>4, <4>4, <5>1, <5>2 DEF Turn
      <4> QED BY <4>3, <4>4
    <3> QED BY <1>8, <1>13, <2>1, <3>1, <3>2, <3>3 DEF HaltOK
  <2>5. ErrorOK(c)'
    <3> SUFFICES ASSUME NEW r \in Paths, error'[<<c, r>>] # 0
                 PROVE  LET f == error'[<<c, r>>] IN
                        f <= r /\ error'[<<c, f>>] = f /\ (f # r => step'[<<c, f>>] = "done")
      BY DEF ErrorOK
    <3> DEFINE f == error'[<<c, r>>]
    <3>1. f \in Paths BY <1>11, PairIs, NAssumption DEF OrderTypes, Paths
    <3>2. f <= r /\ (f # r => error[<<c, f>>] = f /\ step[<<c, f>>] = "done")
      <4>1. CASE r # p
        <5>1. f = error[<<c, r>>] BY <1>3, <4>1
        <5> QED BY <2>1, <2>2, <5>1 DEF ErrorOK
      <4>2. CASE r = p /\ e = error[t]
        <5>1. f = error[<<c, r>>] BY <1>4, <4>2
        <5> QED BY <2>1, <2>2, <5>1 DEF ErrorOK
      <4>3. CASE r = p /\ e = p BY <1>4, <1>2, <4>3
      <4>4. CASE r = p /\ sequence[c].halted # 0 /\ p > sequence[c].halted /\ e = sequence[c].why
        <5>1. f = sequence[c].why BY <1>4, <4>4
        <5>2. f <= sequence[c].halted /\ error[<<c, f>>] = f /\ step[<<c, f>>] = "done"
          BY <2>1, <2>2, <4>4, <5>1 DEF HaltOK
        <5>3. sequence[c].halted \in Nat /\ f \in Nat /\ r \in Nat BY <1>1, <3>1, Typed DEF Paths
        <5> QED BY <4>4, <5>2, <5>3
      <4> QED BY <4>1, <4>2, <4>3, <4>4
    <3>3. CASE f # r
      <4>1. f # p BY <3>2, <3>3
      <4> QED BY <1>3, <3>1, <3>2, <3>3, <4>1
    <3>4. CASE f = r BY <3>2, <3>4
    <3> QED BY <3>3, <3>4
  <2>6. OverOK(c)' BY <2>1, <2>2, <1>13 DEF OverOK
  <2> QED BY <2>4, <2>5, <2>6
<1>18. SlotOK(c)'
  <2>1. SUFFICES ASSUME ~Scans(c) PROVE SlotOK(c)' BY <1>13 DEF SlotOK
  <2>2. SlotOK(c) BY <1>1 DEF Fine
  <2>3. Holding(c)' = Holding(c) BY <1>3, <1>4 DEF Holding
  <2>4. \A r \in Paths : step[<<c, r>>] = "slot" => step'[<<c, r>>] = "slot" BY <1>3
  <2> QED BY <2>1, <2>2, <2>3, <2>4 DEF SlotOK
<1> QED BY <1>11, <1>12, <1>14, <1>15, <1>16, <1>17, <1>18 DEF Kept, Fine

------------------------------
(* The steps of a task that wake nobody. *)

\* A path a command has taken is enlisted in the order the command opened.
LEMMA TakenEnlisted ==
  ASSUME OrderIndInv, NEW c \in Commands, NEW p \in Paths, cmd[c].own, step[<<c, p>>] # "new"
  PROVE  p <= sequence[c].enlisted /\ Enlisted(sequence[c], p)
<1>1. OrderTypes /\ CmdOK(c) /\ SeqOK(c) BY DEF OrderIndInv, Fine
<1>2. p <= cmd[c].taken BY <1>1, Typed DEF CmdOK
<1>3. sequence[c].enlisted \in {cmd[c].items, cmd[c].taken} BY <1>1 DEF SeqOK
<1> QED BY <1>1, <1>2, <1>3, Typed DEF CmdOK, Enlisted

\* A task of a command that cleans finds no order on the Context but its own command's.
LEMMA OwnOrder ==
  ASSUME OrderIndInv, NEW c \in Commands, NEW p \in Paths, c \notin Smudges, step[<<c, p>>] # "new",
         current # None
  PROVE  current = c /\ InOrder(c) /\ cmd[c].own
<1>1. OrderTypes /\ current \in Commands BY DEF OrderIndInv, OrderTypes
<1>2. CmdOK(c) /\ CmdOK(current) BY <1>1 DEF OrderIndInv, Fine
<1>3. InOrder(current) /\ cmd[current].own BY <1>2 DEF CmdOK, InOrder
<1>4. current \notin Smudges /\ cmd[current].items # 0 BY <1>2, <1>3 DEF CmdOK
<1>5. cmd[c].items # 0 BY <1>1, <1>2, Typed DEF CmdOK
<1> QED BY <1>1, <1>3, <1>4, <1>5 DEF OrderIndInv, Alone

\* Admit: refused, let in, or put among the waiters.
LEMMA AdmitKept ==
  ASSUME OrderIndInv, NEW c \in Commands, NEW p \in Paths, NEW where,
         step[<<c, p>>] \in {"read", "convert"}, current = c,
         \/ where = "gate" /\ sequence[c].span = "write"
         \/ where = "turn" /\ sequence[c].span = "clean",
         Admit(<<c, p>>, c, where), cmd' = cmd, limiter' = limiter, current' = current
  PROVE  Kept(c)
<1> DEFINE t == <<c, p>>
<1>1. OrderTypes /\ Fine(c) BY DEF OrderIndInv
<1>2. InOrder(c) /\ cmd[c].own BY <1>1 DEF Fine, CmdOK, InOrder
<1>3. sequence[c].span = cmd[c].use.span /\ Clear(c, sequence[c].next) BY <1>1, <1>2 DEF Fine, SeqOK
<1>4. p <= sequence[c].enlisted /\ Enlisted(sequence[c], p) BY <1>2, TakenEnlisted
<1>5. Path(t) = p BY PairIs
<1>6. error = [error EXCEPT ![t] = error[t]] BY <1>1 DEF OrderTypes
<1>7. CASE Refused(sequence[c], p)
  <2>1. /\ step' = [step EXCEPT ![t] = "ended"] /\ error' = [error EXCEPT ![t] = sequence[c].why]
        /\ sequence' = sequence
    BY <1>5, <1>7 DEF Admit
  <2>2. sequence[c].halted # 0 /\ p > sequence[c].halted BY <1>7 DEF Refused
  <2>3. Moves(c, p, "ended", sequence[c].why) BY <1>2, <2>1, <2>2 DEF Moves, Turn
  <2> QED BY <2>3, MoveKept
<1>8. CASE ~Refused(sequence[c], p)
  <2>1. sequence[c].halted = 0 \/ p <= sequence[c].halted BY <1>1, <1>4, <1>8, Typed DEF Refused
  <2>2. CASE Admitted(sequence[c], p)
    <3>1. step' = [step EXCEPT ![t] = Onward(where)] /\ sequence' = sequence /\ error' = error
      BY <1>5, <1>8, <2>2 DEF Admit
    <3>2. p <= sequence[c].next BY <1>4, <2>2 DEF Admitted
    <3>3. sequence[c].next \in Nat /\ p \in Nat /\ \A r \in Paths : r \in Nat BY <1>1, Typed
    <3>4. Clear(c, p)
      <4> SUFFICES ASSUME NEW r \in Paths, r < p PROVE r \in sequence[c].released BY DEF Clear
      <4>1. r < sequence[c].next BY <3>2, <3>3
      <4> QED BY <1>3, <4>1 DEF Clear
    <3>5. Onward(where) \in {"go", "convert"} BY DEF Onward
    <3>6. ~(sequence[c].halted # 0 /\ p > sequence[c].halted) BY <1>1, <2>1, Typed
    <3>7. error' = [error EXCEPT ![t] = error[t]] BY <1>6, <3>1
    <3>8. c \notin Smudges BY <1>1, <1>2 DEF Fine, CmdOK
    <3>9. Moves(c, p, Onward(where), error[t]) BY <3>1, <3>4, <3>5, <3>6, <3>7, <3>8 DEF Moves
    <3> QED BY <3>9, MoveKept
  <2>3. CASE ~Admitted(sequence[c], p)
    <3>1. step' = [step EXCEPT ![t] = where] /\ error' = error
          /\ sequence' = [sequence EXCEPT ![c].waiters[p] = t]
      BY <1>5, <1>8, <2>3 DEF Admit
    <3>2. where \in Waiting /\ where \in {"gate", "turn"} BY DEF Waiting
    <3>3. error' = [error EXCEPT ![t] = error[t]] BY <1>6, <3>1
    <3>4. Moves(c, p, where, error[t]) BY <2>1, <3>1, <3>2, <3>3 DEF Moves, Turn
    <3> QED BY <3>4, MoveKept
  <2> QED BY <2>2, <2>3
<1> QED BY <1>7, <1>8

\* AdmitClean: in the command's own order, or at once.
LEMMA AdmitCleanKept ==
  ASSUME OrderIndInv, NEW c \in Commands, NEW p \in Paths, c \notin Smudges,
         step[<<c, p>>] = "convert" \/ (step[<<c, p>>] = "read" /\ Scans(c)),
         AdmitClean(<<c, p>>), cmd' = cmd, limiter' = limiter, current' = current
  PROVE  Kept(c)
<1> DEFINE t == <<c, p>>
<1>1. OrderTypes /\ Fine(c) BY DEF OrderIndInv
<1>2. CASE Ordered("clean")
  <2>1. current # None /\ sequence[current].span = "clean" BY <1>2 DEF Ordered
  <2>2. current = c BY <2>1, OwnOrder
  <2>3. Admit(t, c, "turn") BY <1>2, <2>2 DEF AdmitClean
  <2> QED BY <2>1, <2>2, <2>3, AdmitKept
<1>3. CASE ~Ordered("clean")
  <2>1. step' = [step EXCEPT ![t] = "go"] /\ sequence' = sequence /\ error' = error BY <1>3 DEF AdmitClean
  <2>2. error' = [error EXCEPT ![t] = error[t]] BY <1>1, <2>1 DEF OrderTypes
  <2>3. InOrder(c) => cmd[c].use.span = "write"
    <3> SUFFICES ASSUME InOrder(c) PROVE cmd[c].use.span = "write" OBVIOUS
    <3>1. current = c /\ cmd[c].own /\ c # None BY <1>1, PairIs DEF Fine, CmdOK, InOrder
    <3>2. sequence[c].span = cmd[c].use.span BY <1>1, <3>1 DEF Fine, SeqOK
    <3>3. sequence[c].span # "clean" BY <1>3, <3>1 DEF Ordered
    <3> QED BY <1>1, <3>2, <3>3, Typed DEF SequenceType
  <2>4. InOrder(c) => step[t] = "convert"
    <3>1. c \notin Smudges /\ (Scans(c) => cmd[c].use.span # "write")
      BY <1>1, UsesAssumption, Typed DEF Scans, Fine, CmdOK, Checkout, CmdType
    <3> QED BY <2>3, <3>1
  <2>5. InOrder(c) => Clear(c, p) BY <1>1, <2>3, <2>4 DEF Fine, InTurn
  <2>6. cmd[c].own /\ ~Scans(c) => step[t] \in Turn BY DEF Turn
  <2>7. Moves(c, p, "go", error[t]) BY <2>1, <2>2, <2>5, <2>6 DEF Moves
  <2> QED BY <2>7, MoveKept
<1> QED BY <1>2, <1>3

\* AdmitWrite: likewise, for a staging command.
LEMMA AdmitWriteKept ==
  ASSUME OrderIndInv, NEW c \in Commands, NEW p \in Paths, ~Scans(c), step[<<c, p>>] = "read",
         AdmitWrite(<<c, p>>), cmd' = cmd, limiter' = limiter, current' = current
  PROVE  Kept(c)
<1> DEFINE t == <<c, p>>
<1>1. OrderTypes /\ Fine(c) BY DEF OrderIndInv
<1>2. c \notin Smudges BY <1>1 DEF Fine, CmdOK, Scans, Checkout
<1>3. CASE Ordered("write")
  <2>1. current # None /\ sequence[current].span = "write" BY <1>3 DEF Ordered
  <2>2. current = c BY <1>2, <2>1, OwnOrder
  <2>3. Admit(t, c, "gate") BY <1>3, <2>2 DEF AdmitWrite
  <2> QED BY <2>1, <2>2, <2>3, AdmitKept
<1>4. CASE ~Ordered("write")
  <2>1. step' = [step EXCEPT ![t] = "convert"] /\ sequence' = sequence /\ error' = error
    BY <1>4 DEF AdmitWrite
  <2>2. error' = [error EXCEPT ![t] = error[t]] BY <1>1, <2>1 DEF OrderTypes
  <2>3. cmd[c].own => cmd[c].use.span # "write"
    <3> SUFFICES ASSUME cmd[c].own PROVE cmd[c].use.span # "write" OBVIOUS
    <3>1. cmd[c].at = "open" BY <1>1, Typed DEF Fine, CmdOK, OverOK, CmdType
    <3>2. current = c /\ cmd[c].own /\ c # None BY <1>1, <3>1, PairIs DEF Fine, CmdOK, InOrder
    <3>3. sequence[c].span = cmd[c].use.span BY <1>1, <3>2 DEF Fine, SeqOK
    <3> QED BY <1>4, <3>2, <3>3 DEF Ordered
  <2>4. InOrder(c) => cmd[c].use.span # "write" BY <2>3 DEF InOrder
  <2>5. Moves(c, p, "convert", error[t]) BY <1>2, <2>1, <2>2, <2>3, <2>4 DEF Moves
  <2> QED BY <2>5, MoveKept
<1> QED BY <1>3, <1>4

\* The other moves: nothing is admitted.
LEMMA PlainKept ==
  ASSUME OrderIndInv, NEW c \in Commands, NEW p \in Paths, NEW b, NEW e,
         cmd' = cmd, limiter' = limiter, current' = current, sequence' = sequence,
         step' = [step EXCEPT ![<<c, p>>] = b], error' = [error EXCEPT ![<<c, p>>] = e],
         e \in {error[<<c, p>>], p},
         \/ step[<<c, p>>] \in {"read", "convert", "write"} /\ b = "ended"
         \/ step[<<c, p>>] = "convert" /\ b = "write"
         \/ step[<<c, p>>] = "go" /\ b = "clean"
         \/ step[<<c, p>>] = "read" /\ c \in Smudges /\ b = "go"
  PROVE  Kept(c)
<1>1. Fine(c) BY DEF OrderIndInv
<1>2. c \in Smudges => ~InOrder(c) /\ ~cmd[c].own BY <1>1 DEF Fine, CmdOK, InOrder
<1>3. Moves(c, p, b, e) BY <1>2 DEF Moves, Turn
<1> QED BY <1>3, MoveKept

------------------------------
(* A path is released: whoever waits for the next one is let in, and after a *)
(* failure whoever waits behind it fails too. *)

Out(c, p, halts, r) == halts /\ r > p /\ sequence[c].waiters[r] # None
LetOn(c, p, halts, r) ==
  r = NextAfter(sequence[c], p) /\ sequence[c].waiters[r] # None /\ ~Out(c, p, halts, r)

\* What becomes of the order.
OrderMoves(c, p, e, halts) ==
  /\ sequence'[c].span = sequence[c].span /\ sequence'[c].enlisted = sequence[c].enlisted
  /\ sequence'[c].released = sequence[c].released \cup {p}
  /\ sequence'[c].next = NextAfter(sequence[c], p)
  /\ \A r \in Paths : sequence'[c].waiters[r] =
       IF r = NextAfter(sequence[c], p) \/ (halts /\ r > p) THEN None ELSE sequence[c].waiters[r]
  /\ sequence'[c].halted = (IF halts THEN p ELSE sequence[c].halted)
  /\ sequence'[c].why = (IF halts THEN e ELSE sequence[c].why)

\* What becomes of the tasks.
TasksMove(c, p, b, e, halts) ==
  /\ step'[<<c, p>>] = b /\ error'[<<c, p>>] = e
  /\ \A r \in Paths : r # p =>
       /\ step'[<<c, r>>] = (IF Out(c, p, halts, r) THEN "ended"
                             ELSE IF LetOn(c, p, halts, r) THEN Onward(step[<<c, r>>]) ELSE step[<<c, r>>])
       /\ error'[<<c, r>>] = IF Out(c, p, halts, r) THEN e ELSE error[<<c, r>>]

\* When a path is released.
Releases(c, p, b, e, halts) ==
  /\ cmd[c].own /\ halts \in BOOLEAN
  /\ \/ /\ step[<<c, p>>] = "clean" /\ cmd[c].use.span = "clean" /\ b \in {"write", "ended"}
        /\ e \in {error[<<c, p>>], p} /\ ~halts
     \/ step[<<c, p>>] = "ended" /\ Scans(c) /\ b = "done" /\ e = error[<<c, p>>] /\ ~halts
     \/ /\ step[<<c, p>>] = "freed" /\ ~Scans(c) /\ b = "done" /\ e = error[<<c, p>>]
        /\ halts <=> e # 0 /\ Halts(sequence[c], p)
  /\ \/ cmd'[c] = cmd[c]
     \/ \E n \in Int : cmd'[c] = [cmd[c] EXCEPT !.runners = n]
  /\ limiter'[c] = limiter[c] /\ current' = current
  /\ OrderMoves(c, p, e, halts) /\ TasksMove(c, p, b, e, halts)

\* A release keeps the command as it should be.
LEMMA ReleaseFine ==
  ASSUME OrderIndInv, OrderTypes', NEW c \in Commands, NEW p \in Paths, NEW b, NEW e, NEW halts,
         Releases(c, p, b, e, halts)
  PROVE  Fine(c)'
<1> DEFINE q == sequence[c]
           n == NextAfter(q, p)
<1>1. OrderTypes /\ Fine(c) BY DEF OrderIndInv
<1>2. cmd[c].own /\ CmdOK(c) /\ SeqOK(c) /\ InTurn(c) BY <1>1 DEF Fine, Releases
<1>3. /\ n \in 1 .. N + 1 /\ n \notin q.released \cup {p}
      /\ \A r \in Paths : r < n => r \in q.released \cup {p}
  BY <1>1, Typed, NextAfterIs
<1>4. \A r \in Paths : r \in Nat BY <1>1, Typed
<1>5. \A r \in Paths : q.waiters[r] # None => q.waiters[r] = <<c, r>> /\ step[<<c, r>>] \in Waiting
  BY <1>2 DEF SeqOK
<1>6. step[<<c, p>>] \in {"clean", "ended", "freed"} /\ b \in {"write", "ended", "done"} BY DEF Releases
<1>7. (q.waiters[p] = None /\ p \notin q.released) \/ step[<<c, p>>] \in {"ended", "freed"}
  BY <1>2, <1>5, <1>6 DEF SeqOK, Waiting
<1>8. \A r \in Paths : r # p /\ step[<<c, r>>] \notin Waiting =>
        step'[<<c, r>>] = step[<<c, r>>] /\ error'[<<c, r>>] = error[<<c, r>>]
  BY <1>5 DEF Releases, TasksMove, Out, LetOn
<1>9. \A r \in Paths : r # p /\ step'[<<c, r>>] \in {"new", "slot", "freed", "done", "write", "clean"} =>
        step'[<<c, r>>] = step[<<c, r>>] /\ error'[<<c, r>>] = error[<<c, r>>]
  BY <1>5 DEF Releases, TasksMove, Out, LetOn, Onward
<1>10. \A r \in Paths : r # p /\ step[<<c, r>>] \in Waiting =>
         step'[<<c, r>>] \in {"gate", "turn", "convert", "go", "ended"}
  BY DEF Releases, TasksMove, Out, LetOn, Onward, Waiting
<1>11. /\ cmd'[c].use = cmd[c].use /\ cmd'[c].items = cmd[c].items /\ cmd'[c].at = cmd[c].at
       /\ cmd'[c].own = cmd[c].own /\ cmd'[c].taken = cmd[c].taken
       /\ cmd'[c].walking = cmd[c].walking /\ cmd'[c].result = cmd[c].result
  BY <1>1, Typed DEF Releases, CmdType
<1>12. (Scans(c)' <=> Scans(c)) /\ (InOrder(c)' <=> InOrder(c)) BY <1>11 DEF Scans, InOrder
<1>13. p <= cmd[c].taken BY <1>1, <1>2, <1>6, Typed DEF CmdOK
<1>14. CmdOK(c)'
  <2>1. current' = current BY DEF Releases
  <2>2. \A r \in Paths : r > cmd[c].taken => step'[<<c, r>>] = "new" /\ error'[<<c, r>>] = 0
    <3> SUFFICES ASSUME NEW r \in Paths, r > cmd[c].taken
                 PROVE  step'[<<c, r>>] = "new" /\ error'[<<c, r>>] = 0
      OBVIOUS
    <3>1. cmd[c].taken \in Nat BY <1>1, Typed
    <3>2. r # p BY <1>4, <1>13, <3>1
    <3>3. step[<<c, r>>] = "new" /\ error[<<c, r>>] = 0 BY <1>2 DEF CmdOK
    <3> QED BY <1>8, <3>2, <3>3 DEF Waiting
  <2>3. \A r \in Paths : step'[<<c, r>>] = "freed" => step[<<c, r>>] = "freed"
    <3>1. step'[<<c, p>>] # "freed" BY <1>6 DEF Releases, TasksMove
    <3> QED BY <1>9, <3>1
  <2>4. c \notin Smudges BY <1>2 DEF CmdOK, Releases
  <2> QED BY <1>2, <1>11, <1>12, <2>1, <2>2, <2>3, <2>4 DEF CmdOK
<1>15. \A r \in Nat : Clear(c, r) => Clear(c, r)' BY DEF Clear, Releases, OrderMoves
<1>16. SeqOK(c)'
  <2>1. /\ sequence'[c].span = q.span /\ sequence'[c].enlisted = q.enlisted
        /\ sequence'[c].released = q.released \cup {p} /\ sequence'[c].next = n
    BY DEF Releases, OrderMoves
  <2>2. Clear(c, sequence[c].next)' BY <1>3, <2>1 DEF Clear
  <2>3. \A r \in Paths : sequence'[c].waiters[r] # None =>
          sequence'[c].waiters[r] = <<c, r>> /\ step'[<<c, r>>] \in Waiting
    <3> SUFFICES ASSUME NEW r \in Paths, sequence'[c].waiters[r] # None
                 PROVE  sequence'[c].waiters[r] = <<c, r>> /\ step'[<<c, r>>] \in Waiting
      OBVIOUS
    <3>1. r # n /\ ~(halts /\ r > p) /\ sequence'[c].waiters[r] = q.waiters[r] BY DEF Releases, OrderMoves
    <3>2. q.waiters[r] = <<c, r>> /\ step[<<c, r>>] \in Waiting BY <1>5, <3>1
    <3>3. r # p BY <1>6, <3>2 DEF Waiting
    <3>4. step'[<<c, r>>] = step[<<c, r>>] BY <3>1, <3>3 DEF Releases, TasksMove, Out, LetOn
    <3> QED BY <3>1, <3>2, <3>4
  <2>4. \A r \in q.released \cup {p} :
          /\ step'[<<c, r>>] \in {"write", "ended", "freed", "done"}
          /\ cmd[c].use.span = "write" => step'[<<c, r>>] = "done"
    <3> SUFFICES ASSUME NEW r \in q.released \cup {p}
                 PROVE  /\ step'[<<c, r>>] \in {"write", "ended", "freed", "done"}
                        /\ cmd[c].use.span = "write" => step'[<<c, r>>] = "done"
      OBVIOUS
    <3>1. CASE r = p
      <4>1. Scans(c) => cmd[c].use.span # "write"
        BY <1>1, <1>2, Typed, UsesAssumption DEF Scans, Checkout, CmdType
      <4> QED BY <3>1, <4>1 DEF Releases, TasksMove
    <3>2. CASE r # p
      <4>1. r \in Paths /\ r \in q.released BY <1>1, <3>2, Typed
      <4>2. /\ step[<<c, r>>] \in {"write", "ended", "freed", "done"}
            /\ cmd[c].use.span = "write" => step[<<c, r>>] = "done"
        BY <1>2, <4>1 DEF SeqOK
      <4>3. step'[<<c, r>>] = step[<<c, r>>] BY <1>8, <3>2, <4>1, <4>2 DEF Waiting
      <4> QED BY <4>2, <4>3
    <3> QED BY <3>1, <3>2
  <2> QED BY <1>2, <1>11, <1>12, <2>1, <2>2, <2>3, <2>4 DEF SeqOK
<1>17. InTurn(c)'
  <2> SUFFICES ASSUME InOrder(c), NEW r \in Paths,
                      \/ step'[<<c, r>>] \in {"go", "clean"}
                      \/ cmd[c].use.span = "write" /\ step'[<<c, r>>] \in {"convert", "write"}
               PROVE  Clear(c, r)'
    BY <1>11, <1>12 DEF InTurn
  <2>1. r # p
    <3>1. step'[<<c, p>>] = b /\ (b = "write" => cmd[c].use.span = "clean") BY DEF Releases, TasksMove
    <3> QED BY <1>6, <3>1
  <2>2. CASE LetOn(c, p, halts, r)
    <3>1. r = n BY <2>2 DEF LetOn
    <3> QED BY <1>3, <3>1 DEF Clear, Releases, OrderMoves
  <2>3. CASE ~LetOn(c, p, halts, r)
    <3>1. step'[<<c, r>>] = step[<<c, r>>] BY <2>1, <2>3 DEF Releases, TasksMove
    <3>2. Clear(c, r) BY <1>2, <3>1 DEF InTurn
    <3> QED BY <1>4, <1>15, <3>2
  <2> QED BY <2>2, <2>3
<1>18. HaltOK(c)' /\ ErrorOK(c)' /\ OverOK(c)'
  <2>1. SUFFICES ASSUME ~Scans(c) PROVE HaltOK(c)' /\ ErrorOK(c)' /\ OverOK(c)'
    BY <1>12 DEF HaltOK, ErrorOK, OverOK
  <2>2. HaltOK(c) /\ ErrorOK(c) /\ OverOK(c) BY <1>1 DEF Fine
  <2>3. cmd[c].at = "open" /\ InOrder(c)
    BY <1>1, <1>2, <1>6, <2>1, <2>2, Typed DEF OverOK, CmdOK, InOrder, CmdType
  <2>4. e \in Nat /\ e <= N BY <1>1, <1>4, Typed DEF Releases
  <2>5. \A r \in Paths : step[<<c, r>>] = "done" =>
          r # p /\ step'[<<c, r>>] = "done" /\ error'[<<c, r>>] = error[<<c, r>>]
    BY <1>6, <1>8 DEF Waiting
  <2>6. e # 0 => e \in Paths /\ e <= p /\ error'[<<c, e>>] = e /\ (e # p => step[<<c, e>>] = "done")
    <3> SUFFICES ASSUME e # 0
                 PROVE  e \in Paths /\ e <= p /\ error'[<<c, e>>] = e /\ (e # p => step[<<c, e>>] = "done")
      OBVIOUS
    <3>1. e \in Paths BY <2>4, NAssumption DEF Paths
    <3>2. error'[<<c, p>>] = e BY DEF Releases, TasksMove
    <3>3. CASE e = p BY <1>4, <3>1, <3>2, <3>3
    <3>4. CASE e # p
      <4>1. e = error[<<c, p>>] BY <3>4 DEF Releases
      <4>2. e <= p /\ error[<<c, e>>] = e /\ step[<<c, e>>] = "done"
        BY <1>2, <2>1, <2>2, <3>4, <4>1 DEF ErrorOK
      <4> QED BY <2>5, <3>1, <4>2
    <3> QED BY <3>3, <3>4
  <2>7. halts => e # 0 /\ e = error[<<c, p>>] /\ b = "done" /\ (q.halted = 0 \/ p < q.halted)
    BY DEF Releases, Halts
  <2>8. b = "done" /\ e # 0 /\ ~halts => q.halted # 0 /\ q.halted <= p
    <3> SUFFICES ASSUME b = "done", e # 0, ~halts PROVE q.halted # 0 /\ q.halted <= p OBVIOUS
    <3>1. ~Halts(q, p) BY <2>1 DEF Releases
    <3>2. Enlisted(q, p) BY <1>2, <1>6, TakenEnlisted
    <3>3. sequence[c].halted \in Nat /\ p \in Nat BY <1>1, Typed
    <3> QED BY <3>1, <3>2, <3>3 DEF Halts
  <2>9. /\ sequence'[c].halted = (IF halts THEN p ELSE q.halted)
        /\ sequence'[c].why = (IF halts THEN e ELSE q.why)
        /\ step'[<<c, p>>] = b /\ error'[<<c, p>>] = e
    BY DEF Releases, OrderMoves, TasksMove
  <2>10. q.halted \in Nat /\ p \in Nat /\ p # 0 /\ q.why \in Nat BY <1>1, Typed
  <2>11. HaltOK(c)'
    <3>1. sequence'[c].halted # 0 =>
            /\ sequence'[c].why \in Paths /\ sequence'[c].why <= sequence'[c].halted
            /\ error'[<<c, sequence'[c].why>>] = sequence'[c].why
            /\ step'[<<c, sequence'[c].why>>] = "done"
      <4>1. CASE halts
        <5>1. sequence'[c].halted = p /\ sequence'[c].why = e BY <2>9, <4>1
        <5>2. step'[<<c, e>>] = "done"
          <6>1. CASE e = p BY <2>7, <2>9, <4>1, <6>1
          <6>2. CASE e # p BY <2>5, <2>6, <2>7, <4>1, <6>2
          <6> QED BY <6>1, <6>2
        <5> QED BY <2>6, <2>7, <4>1, <5>1, <5>2
      <4>2. CASE ~halts
        <5>1. sequence'[c].halted = q.halted /\ sequence'[c].why = q.why BY <2>9, <4>2
        <5>2. q.halted # 0 => /\ q.why \in Paths /\ q.why <= q.halted
                              /\ error[<<c, q.why>>] = q.why /\ step[<<c, q.why>>] = "done"
          BY <1>2, <2>1, <2>2 DEF HaltOK
        <5> QED BY <2>5, <5>1, <5>2
      <4> QED BY <4>1, <4>2 DEF Releases
    <3>2. \A r \in Paths : step'[<<c, r>>] = "done" /\ error'[<<c, r>>] # 0 =>
            sequence'[c].halted # 0 /\ sequence'[c].halted <= r
      <4> SUFFICES ASSUME NEW r \in Paths, step'[<<c, r>>] = "done", error'[<<c, r>>] # 0
                   PROVE  sequence'[c].halted # 0 /\ sequence'[c].halted <= r
        OBVIOUS
      <4>1. CASE r = p BY <2>7, <2>8, <2>9, <2>10, <4>1
      <4>2. CASE r # p
        <5>1. step[<<c, r>>] = "done" /\ error[<<c, r>>] # 0 BY <1>9, <4>2
        <5>2. q.halted # 0 /\ q.halted <= r BY <1>2, <2>1, <2>2, <5>1 DEF HaltOK
        <5> QED BY <1>4, <2>7, <2>9, <2>10, <5>2
      <4> QED BY <4>1, <4>2
    <3>3. \A r \in Paths : sequence'[c].halted # 0 /\ r > sequence'[c].halted =>
            /\ sequence'[c].waiters[r] = None
            /\ cmd[c].use.span = "write" => step'[<<c, r>>] \notin {"convert", "go", "clean", "write"}
      <4> SUFFICES ASSUME NEW r \in Paths, sequence'[c].halted # 0, r > sequence'[c].halted
                   PROVE  /\ sequence'[c].waiters[r] = None
                          /\ cmd[c].use.span = "write" => step'[<<c, r>>] \notin {"convert", "go", "clean", "write"}
        OBVIOUS
      <4>1. CASE halts
        <5>1. r > p /\ r # p BY <1>4, <2>9, <2>10, <4>1
        <5>2. sequence'[c].waiters[r] = None BY <4>1, <5>1 DEF Releases, OrderMoves
        <5>3. ASSUME cmd[c].use.span = "write", step'[<<c, r>>] \in {"convert", "go", "clean", "write"}
              PROVE  FALSE
          <6>1. ~Out(c, p, halts, r) BY <5>1, <5>3 DEF Releases, TasksMove
          <6>2. ~LetOn(c, p, halts, r) BY <4>1, <5>1, <6>1 DEF LetOn, Out
          <6>3. step'[<<c, r>>] = step[<<c, r>>] BY <5>1, <6>1, <6>2 DEF Releases, TasksMove
          <6>4. Clear(c, r) BY <1>2, <2>3, <5>3, <6>3 DEF InTurn
          <6>5. p \in q.released BY <5>1, <6>4 DEF Clear
          <6>6. step[<<c, p>>] = "done" BY <1>2, <5>3, <6>5 DEF SeqOK
          <6> QED BY <1>6, <6>6
        <5> QED BY <5>2, <5>3
      <4>2. CASE ~halts
        <5>1. q.halted # 0 /\ r > q.halted BY <2>9, <4>2
        <5>2. /\ q.waiters[r] = None
              /\ cmd[c].use.span = "write" => step[<<c, r>>] \notin {"convert", "go", "clean", "write"}
          BY <1>2, <2>1, <2>2, <5>1 DEF HaltOK
        <5>3. sequence'[c].waiters[r] = None BY <4>2, <5>2 DEF Releases, OrderMoves
        <5>4. CASE r = p
          <6>1. cmd[c].use.span = "write" => b = "done" BY DEF Releases
          <6> QED BY <2>9, <5>3, <5>4, <6>1
        <5>5. CASE r # p
          <6>1. step'[<<c, r>>] = step[<<c, r>>] BY <5>2, <5>5 DEF Releases, TasksMove, Out, LetOn
          <6> QED BY <5>2, <5>3, <6>1
        <5> QED BY <5>4, <5>5
      <4> QED BY <4>1, <4>2 DEF Releases
    <3> QED BY <1>11, <1>12, <3>1, <3>2, <3>3 DEF HaltOK
  <2>12. ErrorOK(c)'
    <3> SUFFICES ASSUME NEW r \in Paths, error'[<<c, r>>] # 0
                 PROVE  LET f == error'[<<c, r>>] IN
                        f <= r /\ error'[<<c, f>>] = f /\ (f # r => step'[<<c, f>>] = "done")
      BY DEF ErrorOK
    <3> DEFINE f == error'[<<c, r>>]
    <3>1. CASE r = p \/ Out(c, p, halts, r)
      <4>1. f = e BY <2>9, <3>1 DEF Releases, TasksMove
      <4>2. e # 0 /\ e <= p /\ error'[<<c, e>>] = e /\ (e # p => step'[<<c, e>>] = "done") BY <2>5, <2>6, <4>1
      <4>3. CASE r = p BY <4>1, <4>2, <4>3
      <4>4. CASE r # p
        <5>1. halts /\ r > p BY <3>1, <4>4 DEF Out
        <5>2. step'[<<c, p>>] = "done" BY <2>7, <2>9, <5>1
        <5>3. step'[<<c, e>>] = "done" BY <4>2, <5>2
        <5> QED BY <1>4, <2>4, <2>10, <4>1, <4>2, <5>1, <5>3
      <4> QED BY <4>3, <4>4
    <3>2. CASE r # p /\ ~Out(c, p, halts, r)
      <4>1. f = error[<<c, r>>] BY <3>2 DEF Releases, TasksMove
      <4>2. f <= r /\ error[<<c, f>>] = f /\ (f # r => step[<<c, f>>] = "done")
        BY <1>2, <2>1, <2>2, <4>1 DEF ErrorOK
      <4>3. f \in Nat /\ f <= N /\ f # 0 BY <1>1, <4>1, Typed
      <4>4. f \in Paths BY <4>3, NAssumption DEF Paths
      <4>5. CASE f = r BY <4>2, <4>5
      <4>6. CASE f # r BY <2>5, <4>2, <4>4, <4>6
      <4> QED BY <4>5, <4>6
    <3> QED BY <3>1, <3>2
  <2>13. OverOK(c)' BY <1>11, <2>3 DEF OverOK
  <2> QED BY <2>11, <2>12, <2>13
<1>19. SlotOK(c)'
  <2> SUFFICES ASSUME ~Scans(c) PROVE SlotOK(c)' BY <1>12 DEF SlotOK
  <2>1. SlotOK(c) BY <1>1 DEF Fine
  <2>2. Holding(c)' = Holding(c)
    <3>1. p \in Holding(c)' <=> p \in Holding(c) BY DEF Holding, Releases, TasksMove
    <3>2. \A r \in Paths : r # p => (r \in Holding(c)' <=> r \in Holding(c))
      BY <1>8, <1>9, <1>10 DEF Holding, Waiting
    <3>3. Holding(c)' \subseteq Paths /\ Holding(c) \subseteq Paths BY DEF Holding
    <3> QED BY <3>1, <3>2, <3>3
  <2>3. \A r \in Paths : step[<<c, r>>] = "slot" => step'[<<c, r>>] = "slot" BY <1>6, <1>8 DEF Waiting
  <2>4. limiter'[c] = limiter[c] BY DEF Releases
  <2> QED BY <1>12, <2>1, <2>2, <2>3, <2>4 DEF SlotOK
<1> QED BY <1>14, <1>16, <1>17, <1>18, <1>19 DEF Fine

\* What releasing in the order of c makes of the order, and whom it lets in.
ReleaseDoes(c, p, q) ==
  /\ NextAfter(q, p) \in 1 .. N + 1
  /\ Released(q, p) = [q EXCEPT !.released = q.released \cup {p}, !.next = NextAfter(q, p),
       !.waiters = [r \in Paths |-> IF r = NextAfter(q, p) THEN None ELSE q.waiters[r]]]
  /\ Released(q, p) \in SequenceType
  /\ \A t \in Tasks : t \in LetIn(q, p) <=>
       \E r \in Paths : t = <<c, r>> /\ r = NextAfter(q, p) /\ q.waiters[r] # None

\* Released and LetIn do that to an order in which the command's own tasks wait.
LEMMA ReleasedIs ==
  ASSUME NEW c \in Commands, NEW p \in Paths, NEW q \in SequenceType, Enlisted(q, p),
         \A r \in Paths : q.waiters[r] # None => q.waiters[r] = <<c, r>>
  PROVE  ReleaseDoes(c, p, q)
<1> DEFINE n == NextAfter(q, p)
<1>1. q.released \subseteq Paths /\ q.waiters \in [Paths -> Tasks \cup {None}] BY DEF SequenceType
<1>2. n \in 1 .. N + 1 BY <1>1, NextAfterIs
<1>3. Released(q, p) = [q EXCEPT !.released = q.released \cup {p}, !.next = n,
              !.waiters = [r \in Paths |-> IF r = n THEN None ELSE q.waiters[r]]]
  BY DEF Released, SequenceType
<1>4. Released(q, p) \in SequenceType
  <2> DEFINE w == [r \in Paths |-> IF r = n THEN None ELSE q.waiters[r]]
             freed == q.released \cup {p}
  <2> HIDE DEF n
  <2>1. w \in [Paths -> Tasks \cup {None}] BY <1>1
  <2>2. freed \in SUBSET Paths BY <1>1
  <2>3. Released(q, p) = [q EXCEPT !.released = freed, !.next = n, !.waiters = w] BY <1>3
  <2> HIDE DEF w, freed
  <2> QED BY <1>2, <2>1, <2>2, <2>3 DEF SequenceType
<1>5. ASSUME NEW t \in Tasks
      PROVE  t \in LetIn(q, p) <=> \E r \in Paths : t = <<c, r>> /\ r = n /\ q.waiters[r] # None
  <2>1. t # None BY ScopesAssumption DEF Scopes
  <2>2. t \in LetIn(q, p) <=> n \in Paths /\ q.waiters[n] = t BY DEF LetIn
  <2> HIDE DEF n
  <2> QED BY <2>1, <2>2
<1> QED BY <1>2, <1>3, <1>4, <1>5 DEF ReleaseDoes

\* ReleaseIn and Awake, in the order of c.
LEMMA ReleaseEffect ==
  ASSUME OrderIndInv, NEW c \in Commands, NEW p \in Paths, NEW b \in Steps, NEW e \in 0 .. N,
         cmd[c].own, step[<<c, p>>] # "new", sequence' = ReleaseIn(c, p),
         step' = [Awake(c, p) EXCEPT ![<<c, p>>] = b], error' = [error EXCEPT ![<<c, p>>] = e]
  PROVE  /\ OrderMoves(c, p, e, FALSE) /\ TasksMove(c, p, b, e, FALSE)
         /\ sequence' \in [Commands -> SequenceType] /\ step' \in [Tasks -> Steps] /\ error' \in [Tasks -> 0 .. N]
         /\ \A d \in Commands : d # c =>
              /\ sequence'[d] = sequence[d]
              /\ \A r \in Paths : step'[<<d, r>>] = step[<<d, r>>] /\ error'[<<d, r>>] = error[<<d, r>>]
<1> DEFINE t == <<c, p>>
           q == sequence[c]
           n == NextAfter(q, p)
<1>1. OrderTypes /\ SeqOK(c) /\ t \in Tasks /\ c # None BY PairIs DEF OrderIndInv, Fine
<1>2. q \in SequenceType /\ Enlisted(q, p) BY <1>1, Typed, TakenEnlisted
<1>3. \A r \in Paths : q.waiters[r] # None => q.waiters[r] = <<c, r>> BY <1>1 DEF SeqOK
<1>4. ReleaseDoes(c, p, q) BY <1>2, <1>3, ReleasedIs
<1>5. sequence' = [sequence EXCEPT ![c] = Released(q, p)] BY <1>1 DEF ReleaseIn
<1>6. /\ step' \in [Tasks -> Steps] /\ step'[t] = b
      /\ \A u \in Tasks : u # t =>
           step'[u] = IF u \in LetIn(q, p) THEN Onward(step[u]) ELSE step[u]
  BY <1>1 DEF Awake, OrderTypes, Onward, Steps
<1> HIDE DEF n
<1>7. OrderMoves(c, p, e, FALSE)
  <2> DEFINE w == [r \in Paths |-> IF r = n THEN None ELSE q.waiters[r]]
  <2>1. sequence'[c] = Released(q, p) BY <1>1, <1>5 DEF OrderTypes
  <2>2. sequence'[c] = [q EXCEPT !.released = q.released \cup {p}, !.next = n, !.waiters = w]
    BY <1>4, <2>1 DEF ReleaseDoes, n
  <2>3. \A r \in Paths : w[r] = IF r = n THEN None ELSE q.waiters[r] OBVIOUS
  <2> HIDE DEF w
  <2>4. /\ sequence'[c].span = q.span /\ sequence'[c].enlisted = q.enlisted
        /\ sequence'[c].released = q.released \cup {p} /\ sequence'[c].next = n /\ sequence'[c].waiters = w
        /\ sequence'[c].halted = q.halted /\ sequence'[c].why = q.why
    BY <1>2, <2>2 DEF SequenceType
  <2> QED BY <2>3, <2>4 DEF OrderMoves, n
<1>8. TasksMove(c, p, b, e, FALSE)
  <2>1. error'[t] = e BY <1>1 DEF OrderTypes
  <2>2. ASSUME NEW r \in Paths, r # p
        PROVE  /\ step'[<<c, r>>] = (IF LetOn(c, p, FALSE, r) THEN Onward(step[<<c, r>>]) ELSE step[<<c, r>>])
               /\ error'[<<c, r>>] = error[<<c, r>>]
    <3>1. <<c, r>> \in Tasks /\ <<c, r>> # t BY <2>2, PairIs
    <3>2. <<c, r>> \in LetIn(q, p) <=> LetOn(c, p, FALSE, r) BY <1>4, <3>1 DEF ReleaseDoes, LetOn, Out
    <3> QED BY <1>1, <1>6, <3>1, <3>2 DEF OrderTypes
  <2> QED BY <1>6, <2>1, <2>2 DEF TasksMove, Out
<1>9. sequence' \in [Commands -> SequenceType] BY <1>1, <1>4, <1>5 DEF OrderTypes, ReleaseDoes
<1>10. error' \in [Tasks -> 0 .. N] BY <1>1 DEF OrderTypes
<1>11. ASSUME NEW d \in Commands, d # c
       PROVE  /\ sequence'[d] = sequence[d]
              /\ \A r \in Paths : step'[<<d, r>>] = step[<<d, r>>] /\ error'[<<d, r>>] = error[<<d, r>>]
  <2>1. ASSUME NEW r \in Paths
        PROVE  step'[<<d, r>>] = step[<<d, r>>] /\ error'[<<d, r>>] = error[<<d, r>>]
    <3>1. <<d, r>> \in Tasks /\ <<d, r>> # t BY <1>11, PairIs
    <3>2. <<d, r>> \notin LetIn(q, p) BY <1>4, <1>11, <3>1 DEF ReleaseDoes
    <3> QED BY <1>1, <1>6, <3>1, <3>2 DEF OrderTypes
  <2>2. sequence'[d] = sequence[d] BY <1>1, <1>5, <1>11 DEF OrderTypes
  <2> QED BY <2>1, <2>2
<1> QED BY <1>6, <1>7, <1>8, <1>9, <1>10, <1>11

\* EndClean: the order of the Context lets the next path in.
LEMMA EndCleanKept ==
  ASSUME OrderIndInv, NEW c \in Commands, NEW p \in Paths, EndClean(<<c, p>>)
  PROVE  Kept(c)
<1> DEFINE t == <<c, p>>
           s == IF Ordered("clean") /\ ~Smudging(t) THEN current ELSE None
           b == IF CleanFails(t) THEN "ended" ELSE IF Scans(c) THEN "ended" ELSE "write"
           e == IF CleanFails(t) THEN p ELSE error[t]
<1>1. OrderTypes /\ Fine(c) /\ t \in Tasks /\ c # None BY PairIs DEF OrderIndInv
<1>2. /\ step[t] = "clean" /\ Owner(t) = c /\ Path(t) = p /\ (Smudging(t) <=> c \in Smudges)
      /\ sequence' = ReleaseIn(s, p) /\ cmd' = cmd /\ limiter' = limiter /\ current' = current
  BY PairIs DEF EndClean
<1>3. step' = [Awake(s, p) EXCEPT ![t] = b] BY <1>2 DEF EndClean
<1>4. error' = [error EXCEPT ![t] = e]
  <2>1. error = [error EXCEPT ![t] = error[t]] BY <1>1 DEF OrderTypes
  <2> QED BY <1>2, <2>1 DEF EndClean
<1>5. b \in {"ended", "write"} /\ e \in {error[t], p} OBVIOUS
<1> HIDE DEF b, e
<1>6. CASE s = None
  <2>1. sequence' = sequence /\ step' = [step EXCEPT ![t] = b] BY <1>2, <1>3, <1>6 DEF ReleaseIn, Awake
  <2>2. Moves(c, p, b, e) BY <1>2, <1>4, <1>5, <2>1 DEF Moves, Turn
  <2> QED BY <2>2, MoveKept
<1>7. CASE s # None
  <2>1. c \notin Smudges /\ current # None /\ sequence[current].span = "clean" /\ s = current
    BY <1>2, <1>7 DEF Ordered
  <2>2. current = c /\ s = c /\ InOrder(c) /\ cmd[c].own BY <1>2, <2>1, OwnOrder
  <2>3. cmd[c].use.span = "clean" BY <1>1, <2>1, <2>2 DEF Fine, SeqOK
  <2>4. e \in 0 .. N /\ b \in Steps BY <1>1, <1>5, Typed, NAssumption DEF Steps
  <2>5. sequence' = ReleaseIn(c, p) /\ step' = [Awake(c, p) EXCEPT ![<<c, p>>] = b] BY <1>2, <1>3, <2>2
  <2>6. step[<<c, p>>] # "new" BY <1>2
  <2>7. /\ OrderMoves(c, p, e, FALSE) /\ TasksMove(c, p, b, e, FALSE)
        /\ sequence' \in [Commands -> SequenceType] /\ step' \in [Tasks -> Steps] /\ error' \in [Tasks -> 0 .. N]
        /\ \A d \in Commands : d # c =>
              /\ sequence'[d] = sequence[d]
              /\ \A r \in Paths : step'[<<d, r>>] = step[<<d, r>>] /\ error'[<<d, r>>] = error[<<d, r>>]
    BY <1>4, <2>2, <2>4, <2>5, <2>6, ReleaseEffect
  <2>8. Releases(c, p, b, e, FALSE) BY <1>2, <1>5, <2>2, <2>3, <2>7 DEF Releases
  <2>9. OrderTypes' BY <1>1, <1>2, <2>7 DEF OrderTypes
  <2>10. \A d \in Commands : d # c => Same(d) BY <1>2, <2>7 DEF Same
  <2> QED BY <2>8, <2>9, <2>10, ReleaseFine DEF Kept
<1> QED BY <1>6, <1>7

\* A task of a command without an order of its own ends its part.
LEMMA UnownedDone ==
  ASSUME OrderIndInv, NEW c \in Commands, NEW p \in Paths, ~cmd[c].own,
         \/ Scans(c) /\ step[<<c, p>>] = "ended"
         \/ step[<<c, p>>] = "freed",
         step' = [step EXCEPT ![<<c, p>>] = "done"], error' = error, sequence' = sequence,
         limiter' = limiter, current' = current,
         cmd' = cmd \/ \E n \in Int : cmd' = [cmd EXCEPT ![c].runners = n]
  PROVE  Kept(c)
<1> DEFINE t == <<c, p>>
<1>1. OrderTypes /\ Fine(c) /\ t \in Tasks BY PairIs DEF OrderIndInv
<1>2. OrderTypes'
  <2>1. step' \in [Tasks -> Steps] BY <1>1 DEF OrderTypes, Steps
  <2>2. cmd' \in [Commands -> CmdType]
    <3>1. CASE cmd' = cmd BY <1>1, <3>1 DEF OrderTypes
    <3>2. CASE \E n \in Int : cmd' = [cmd EXCEPT ![c].runners = n]
      <4>1. PICK n \in Int : cmd' = [cmd EXCEPT ![c].runners = n] BY <3>2
      <4>2. cmd[c] \in CmdType BY <1>1, Typed
      <4>3. [cmd[c] EXCEPT !.runners = n] \in CmdType BY <4>2, <4>1 DEF CmdType
      <4>4. cmd' = [cmd EXCEPT ![c] = [cmd[c] EXCEPT !.runners = n]] BY <4>1
      <4> QED BY <1>1, <4>3, <4>4 DEF OrderTypes
    <3> QED BY <3>1, <3>2
  <2> QED BY <1>1, <2>1, <2>2 DEF OrderTypes
<1>3. \A d \in Commands, r \in Paths : ~(d = c /\ r = p) => step'[<<d, r>>] = step[<<d, r>>]
  BY <1>1, PairIs DEF OrderTypes
<1>4. step'[t] = "done" BY <1>1 DEF OrderTypes
<1>5. \A d \in Commands : d # c => cmd'[d] = cmd[d] BY <1>1 DEF OrderTypes
<1>6. \A d \in Commands : d # c => Same(d) BY <1>3, <1>5 DEF Same
<1>7. /\ cmd'[c].use = cmd[c].use /\ cmd'[c].items = cmd[c].items /\ cmd'[c].at = cmd[c].at
      /\ cmd'[c].own = cmd[c].own /\ cmd'[c].taken = cmd[c].taken
  <2>1. CASE cmd' = cmd BY <2>1
  <2>2. CASE \E n \in Int : cmd' = [cmd EXCEPT ![c].runners = n]
    <3>1. PICK n \in Int : cmd' = [cmd EXCEPT ![c].runners = n] BY <2>2
    <3>2. cmd'[c] = [cmd[c] EXCEPT !.runners = n] BY <1>1, <3>1 DEF OrderTypes
    <3> QED BY <1>1, <3>2, Typed
  <2> QED BY <2>1, <2>2
<1>8. (Scans(c)' <=> Scans(c)) /\ ~InOrder(c) /\ ~InOrder(c)' BY <1>7 DEF Scans, InOrder
<1>9. CmdOK(c)'
  <2>1. CmdOK(c) BY <1>1 DEF Fine
  <2>2. p <= cmd[c].taken BY <1>1, <2>1, Typed DEF CmdOK
  <2>3. \A r \in Paths : /\ r > cmd[c].taken => step'[<<c, r>>] = "new"
                         /\ step'[<<c, r>>] = "freed" => step[<<c, r>>] = "freed"
                         /\ step'[<<c, r>>] = "convert" => step[<<c, r>>] = "convert"
    BY <1>1, <1>3, <1>4, <2>1, <2>2, Typed DEF CmdOK
  <2> QED BY <1>7, <1>8, <2>1, <2>3 DEF CmdOK
<1>10. SlotOK(c)'
  <2> SUFFICES ASSUME ~Scans(c) PROVE SlotOK(c)' BY <1>8 DEF SlotOK
  <2>1. SlotOK(c) BY <1>1 DEF Fine
  <2>2. Holding(c)' = Holding(c)
    <3>1. p \notin Holding(c)' /\ p \notin Holding(c) BY <1>4 DEF Holding
    <3>2. \A r \in Paths : r # p => (r \in Holding(c)' <=> r \in Holding(c)) BY <1>3 DEF Holding
    <3>3. Holding(c)' \subseteq Paths /\ Holding(c) \subseteq Paths BY DEF Holding
    <3> QED BY <3>1, <3>2, <3>3
  <2>3. \A r \in Paths : step[<<c, r>>] = "slot" => step'[<<c, r>>] = "slot" BY <1>3
  <2> QED BY <1>8, <2>1, <2>2, <2>3 DEF SlotOK
<1> QED BY <1>2, <1>6, <1>7, <1>8, <1>9, <1>10 DEF Kept, Fine, SeqOK, InTurn, HaltOK, ErrorOK, OverOK

\* EndItem: a worker of a scan is done.
LEMMA EndItemKept ==
  ASSUME OrderIndInv, NEW c \in Commands, NEW p \in Paths, EndItem(<<c, p>>)
  PROVE  Kept(c)
<1> DEFINE t == <<c, p>>
           s == OrderOf(c)
           m == IF error[t] # 0 THEN cmd[c].runners - 1 ELSE cmd[c].runners
<1>1. OrderTypes /\ Fine(c) /\ t \in Tasks /\ c # None BY PairIs DEF OrderIndInv
<1>2. /\ step[t] = "ended" /\ Scans(c) /\ sequence' = ReleaseIn(s, p)
      /\ step' = [Awake(s, p) EXCEPT ![t] = "done"]
      /\ limiter' = limiter /\ current' = current /\ error' = error
  BY PairIs DEF EndItem
<1>3. cmd' = [cmd EXCEPT ![c].runners = m] BY PairIs DEF EndItem
<1>4. m \in Int
  <2>1. cmd[c].runners \in Int BY <1>1, Typed DEF CmdType
  <2> QED BY <2>1
<1> HIDE DEF m
<1>5. CASE ~cmd[c].own
  <2>1. sequence' = sequence /\ step' = [step EXCEPT ![t] = "done"]
    BY <1>2, <1>5 DEF OrderOf, ReleaseIn, Awake
  <2> QED BY <1>2, <1>3, <1>4, <1>5, <2>1, UnownedDone
<1>6. CASE cmd[c].own
  <2> DEFINE e == error[t]
  <2>1. error' = [error EXCEPT ![t] = e] BY <1>1, <1>2 DEF OrderTypes
  <2>2. e \in 0 .. N /\ "done" \in Steps BY <1>1 DEF OrderTypes, Steps
  <2>3. sequence' = ReleaseIn(c, p) /\ step' = [Awake(c, p) EXCEPT ![<<c, p>>] = "done"]
    BY <1>2, <1>6 DEF OrderOf
  <2>4. step[<<c, p>>] # "new" BY <1>2
  <2>5. /\ OrderMoves(c, p, e, FALSE) /\ TasksMove(c, p, "done", e, FALSE)
        /\ sequence' \in [Commands -> SequenceType] /\ step' \in [Tasks -> Steps] /\ error' \in [Tasks -> 0 .. N]
        /\ \A d \in Commands : d # c =>
              /\ sequence'[d] = sequence[d]
              /\ \A r \in Paths : step'[<<d, r>>] = step[<<d, r>>] /\ error'[<<d, r>>] = error[<<d, r>>]
    BY <1>6, <2>1, <2>2, <2>3, <2>4, ReleaseEffect
  <2>6. cmd'[c] = [cmd[c] EXCEPT !.runners = m] /\ \A d \in Commands : d # c => cmd'[d] = cmd[d]
    BY <1>1, <1>3 DEF OrderTypes
  <2>7. Releases(c, p, "done", e, FALSE) BY <1>2, <1>4, <1>6, <2>5, <2>6 DEF Releases
  <2>8. OrderTypes'
    <3>1. cmd' \in [Commands -> CmdType]
      <4>1. cmd[c] \in CmdType BY <1>1, Typed
      <4>2. [cmd[c] EXCEPT !.runners = m] \in CmdType BY <1>4, <4>1 DEF CmdType
      <4>3. cmd' = [cmd EXCEPT ![c] = [cmd[c] EXCEPT !.runners = m]] BY <1>3
      <4> QED BY <1>1, <4>2, <4>3 DEF OrderTypes
    <3> QED BY <1>1, <1>2, <2>5, <3>1 DEF OrderTypes
  <2>9. \A d \in Commands : d # c => Same(d) BY <1>2, <2>5, <2>6 DEF Same
  <2> QED BY <2>7, <2>8, <2>9, ReleaseFine DEF Kept
<1> QED BY <1>5, <1>6

\* The order after a failure is halted or not, and then released.
LEMMA HaltedIs ==
  ASSUME NEW p \in Paths, NEW q \in SequenceType, NEW why \in 0 .. N, Halts(q, p)
  PROVE  /\ Halted(q, p, why) \in SequenceType
         /\ Halted(q, p, why).span = q.span /\ Halted(q, p, why).enlisted = q.enlisted
         /\ Halted(q, p, why).released = q.released /\ Halted(q, p, why).next = q.next
         /\ Halted(q, p, why).halted = p /\ Halted(q, p, why).why = why
         /\ \A r \in Paths : Halted(q, p, why).waiters[r] = IF r > p THEN None ELSE q.waiters[r]
<1> DEFINE w == [r \in Paths |-> IF r > p THEN None ELSE q.waiters[r]]
<1>1. q.waiters \in [Paths -> Tasks \cup {None}] BY DEF SequenceType
<1>2. w \in [Paths -> Tasks \cup {None}] BY <1>1
<1>3. Halted(q, p, why) = [q EXCEPT !.halted = p, !.why = why, !.waiters = w] BY DEF Halted, SequenceType
<1>4. \A r \in Paths : w[r] = IF r > p THEN None ELSE q.waiters[r] OBVIOUS
<1>5. p \in 0 .. N BY NAssumption DEF Paths
<1> HIDE DEF w
<1> QED BY <1>2, <1>3, <1>4, <1>5 DEF SequenceType

\* SettleTurn: a staging task is done; a failure halts the order first.
LEMMA SettleTurnKept ==
  ASSUME OrderIndInv, NEW c \in Commands, NEW p \in Paths, SettleTurn(<<c, p>>)
  PROVE  Kept(c)
<1> DEFINE t == <<c, p>>
           q == sequence[c]
           e == error[t]
           halting == Halting(c, p)
           rejected == IF halting = sequence THEN {} ELSE Rejected(q, p)
           awake == IF cmd[c].own THEN LetIn(halting[c], p) ELSE {}
<1>1. OrderTypes /\ Fine(c) /\ t \in Tasks /\ t # None BY PairIs DEF OrderIndInv
<1>2. /\ step[t] = "freed" /\ cmd' = cmd /\ limiter' = limiter /\ current' = current
      /\ sequence' = IF cmd[c].own THEN [halting EXCEPT ![c] = Released(@, p)] ELSE sequence
      /\ step' = [u \in Tasks |-> CASE u = t -> "done"
                                   [] u \in rejected -> "ended"
                                   [] u \in awake -> Onward(step[u])
                                   [] OTHER -> step[u]]
      /\ error' = [u \in Tasks |-> IF u \in rejected THEN error[t] ELSE error[u]]
  BY PairIs DEF SettleTurn
<1>3. ~Scans(c) BY <1>1, <1>2 DEF Fine, CmdOK
<1> HIDE DEF rejected, awake, halting
<1>4. CASE ~cmd[c].own
  <2>1. halting = sequence BY <1>4 DEF Halting, halting
  <2>2. rejected = {} /\ awake = {} BY <1>4, <2>1 DEF rejected, awake
  <2>3. step' = [step EXCEPT ![t] = "done"] BY <1>1, <1>2, <2>2 DEF OrderTypes
  <2>4. error' = error BY <1>1, <1>2, <2>2 DEF OrderTypes
  <2>5. sequence' = sequence BY <1>2, <1>4
  <2> QED BY <1>2, <1>4, <2>3, <2>4, <2>5, UnownedDone
<1>5. CASE cmd[c].own
  <2> DEFINE halts == e # 0 /\ Halts(q, p)
             h == IF halts THEN Halted(q, p, e) ELSE q
             n == NextAfter(q, p)
  <2>1. SeqOK(c) /\ q \in SequenceType /\ e \in 0 .. N /\ e \in Nat /\ p \in Nat
    BY <1>1, Typed, NAssumption DEF Fine
  <2>2. Enlisted(q, p) BY <1>2, <1>5, TakenEnlisted
  <2>3. halting = [sequence EXCEPT ![c] = h]
    <3>1. sequence = [sequence EXCEPT ![c] = q] BY <1>1 DEF OrderTypes
    <3>2. CASE e = 0 BY <3>1, <3>2 DEF halting, Halting
    <3>3. CASE e # 0
      <4>1. halting = [sequence EXCEPT ![c] = Halted(q, p, e)] BY <1>5, <3>3 DEF halting, Halting
      <4>2. ~Halts(q, p) => Halted(q, p, e) = q BY DEF Halted
      <4> QED BY <3>1, <3>3, <4>1, <4>2
    <3> QED BY <3>2, <3>3
  <2>4. /\ h \in SequenceType /\ h.span = q.span /\ h.enlisted = q.enlisted /\ h.released = q.released
        /\ h.halted = (IF halts THEN p ELSE q.halted) /\ h.why = (IF halts THEN e ELSE q.why)
        /\ \A r \in Paths : h.waiters[r] = IF halts /\ r > p THEN None ELSE q.waiters[r]
    <3>1. CASE halts BY <2>1, <3>1, HaltedIs
    <3>2. CASE ~halts BY <2>1, <3>2
    <3> QED BY <3>1, <3>2
  <2>5. halting[c] = h /\ \A d \in Commands : d # c => halting[d] = sequence[d] BY <1>1, <2>3 DEF OrderTypes
  <2>6. halting = sequence <=> ~halts
    <3>1. CASE ~halts
      <4>1. sequence = [sequence EXCEPT ![c] = q] BY <1>1 DEF OrderTypes
      <4> QED BY <2>3, <3>1, <4>1
    <3>2. CASE halts
      <4>1. h.halted = p /\ q.halted # p
        <5>1. h.halted = p BY <2>4, <3>2
        <5>2. q.halted \in Nat /\ p # 0 BY <1>1, Typed
        <5> QED BY <2>1, <3>2, <5>1, <5>2 DEF Halts
      <4> QED BY <2>5, <3>2, <4>1
    <3> QED BY <3>1, <3>2
  <2>7. n = NextAfter(h, p) BY <2>4 DEF NextAfter
  <2>8. \A r \in Paths : q.waiters[r] # None => q.waiters[r] = <<c, r>> BY <1>5, <2>1 DEF SeqOK
  <2>9. ReleaseDoes(c, p, h)
    <3>1. \A r \in Paths : h.waiters[r] # None => h.waiters[r] = <<c, r>> BY <2>4, <2>8
    <3>2. Enlisted(h, p) BY <2>2, <2>4 DEF Enlisted
    <3> HIDE DEF h
    <3> QED BY <2>4, <3>1, <3>2, ReleasedIs
  <2>10. \A u \in Tasks : u \in rejected <=> \E r \in Paths : u = <<c, r>> /\ Out(c, p, halts, r)
    <3> SUFFICES ASSUME NEW u \in Tasks
                 PROVE  u \in rejected <=> \E r \in Paths : u = <<c, r>> /\ Out(c, p, halts, r)
      OBVIOUS
    <3>1. u # None BY ScopesAssumption DEF Scopes
    <3>2. CASE ~halts BY <2>6, <3>2 DEF rejected, Out
    <3>3. CASE halts
      <4>1. u \in rejected <=> \E r \in Paths : r > p /\ q.waiters[r] = u BY <2>6, <3>3 DEF rejected, Rejected
      <4> QED BY <2>8, <3>1, <3>3, <4>1 DEF Out
    <3> QED BY <3>2, <3>3
  <2>11. \A u \in Tasks : u \in awake <=> \E r \in Paths : u = <<c, r>> /\ LetOn(c, p, halts, r)
    <3> SUFFICES ASSUME NEW u \in Tasks
                 PROVE  u \in awake <=> \E r \in Paths : u = <<c, r>> /\ LetOn(c, p, halts, r)
      OBVIOUS
    <3>1. u \in awake <=> \E r \in Paths : u = <<c, r>> /\ r = n /\ h.waiters[r] # None
      BY <1>5, <2>5, <2>7, <2>9 DEF awake, ReleaseDoes
    <3>2. \A r \in Paths : h.waiters[r] # None <=> q.waiters[r] # None /\ ~(halts /\ r > p)
      <4> HIDE DEF h, halts
      <4> QED BY <2>4
    <3> QED BY <3>1, <3>2 DEF LetOn, Out
  <2> HIDE DEF h, n, halts
  <2>12. sequence' = [sequence EXCEPT ![c] = Released(h, p)] BY <1>1, <1>2, <1>5, <2>3, <2>5 DEF OrderTypes
  <2>13. OrderMoves(c, p, e, halts)
    <3> DEFINE w == [r \in Paths |-> IF r = n THEN None ELSE h.waiters[r]]
    <3>1. sequence'[c] = Released(h, p) BY <1>1, <2>12 DEF OrderTypes
    <3>2. sequence'[c] = [h EXCEPT !.released = h.released \cup {p}, !.next = n, !.waiters = w]
      BY <2>7, <2>9, <3>1 DEF ReleaseDoes
    <3>3. \A r \in Paths : w[r] = IF r = n THEN None ELSE h.waiters[r] OBVIOUS
    <3> HIDE DEF w
    <3>4. /\ sequence'[c].span = h.span /\ sequence'[c].enlisted = h.enlisted
          /\ sequence'[c].released = h.released \cup {p} /\ sequence'[c].next = n /\ sequence'[c].waiters = w
          /\ sequence'[c].halted = h.halted /\ sequence'[c].why = h.why
      BY <2>4, <3>2 DEF SequenceType
    <3> QED BY <2>4, <3>3, <3>4 DEF OrderMoves, n
  <2>14. step' \in [Tasks -> Steps] /\ error' \in [Tasks -> 0 .. N]
    BY <1>1, <1>2 DEF OrderTypes, Steps, Onward
  <2>15. t \notin rejected /\ t \notin awake /\ \A u \in Tasks : ~(u \in rejected /\ u \in awake)
    <3>1. q.waiters[p] = None BY <1>2, <1>5, <2>1 DEF SeqOK, Waiting
    <3> QED BY <1>1, <2>10, <2>11, <3>1 DEF Out, LetOn
  <2>16. ASSUME NEW u \in Tasks
         PROVE  /\ step'[u] = (IF u = t THEN "done" ELSE IF u \in rejected THEN "ended"
                               ELSE IF u \in awake THEN Onward(step[u]) ELSE step[u])
                /\ error'[u] = IF u \in rejected THEN e ELSE error[u]
    <3>1. error'[u] = IF u \in rejected THEN e ELSE error[u] BY <1>2
    <3>2. CASE u = t BY <1>2, <2>15, <3>1, <3>2
    <3>3. CASE u # t /\ u \in rejected BY <1>2, <2>15, <3>1, <3>3
    <3>4. CASE u # t /\ u \notin rejected /\ u \in awake BY <1>2, <2>15, <3>1, <3>4
    <3>5. CASE u # t /\ u \notin rejected /\ u \notin awake BY <1>2, <2>15, <3>1, <3>5
    <3> QED BY <3>2, <3>3, <3>4, <3>5
  <2>17. TasksMove(c, p, "done", e, halts)
    <3>1. step'[t] = "done" /\ error'[t] = e BY <1>1, <2>15, <2>16
    <3>2. ASSUME NEW r \in Paths, r # p
          PROVE  /\ step'[<<c, r>>] = (IF Out(c, p, halts, r) THEN "ended"
                             ELSE IF LetOn(c, p, halts, r) THEN Onward(step[<<c, r>>]) ELSE step[<<c, r>>])
                 /\ error'[<<c, r>>] = IF Out(c, p, halts, r) THEN e ELSE error[<<c, r>>]
      <4>1. <<c, r>> \in Tasks /\ <<c, r>> # t BY <3>2, PairIs
      <4>2. /\ <<c, r>> \in rejected <=> Out(c, p, halts, r)
            /\ <<c, r>> \in awake <=> LetOn(c, p, halts, r)
        BY <2>10, <2>11, <4>1
      <4> QED BY <2>16, <4>1, <4>2
    <3> QED BY <3>1, <3>2 DEF TasksMove
  <2>18. Releases(c, p, "done", e, halts)
    <3>1. halts \in BOOLEAN /\ (halts <=> e # 0 /\ Halts(q, p)) BY DEF halts
    <3> QED BY <1>2, <1>3, <1>5, <2>13, <2>17, <3>1 DEF Releases
  <2>19. OrderTypes'
    <3>1. sequence' \in [Commands -> SequenceType] BY <1>1, <2>9, <2>12 DEF OrderTypes, ReleaseDoes
    <3> QED BY <1>1, <1>2, <2>14, <3>1 DEF OrderTypes
  <2>20. ASSUME NEW d \in Commands, d # c PROVE Same(d)
    <3>1. ASSUME NEW r \in Paths
          PROVE  step'[<<d, r>>] = step[<<d, r>>] /\ error'[<<d, r>>] = error[<<d, r>>]
      <4>1. <<d, r>> \in Tasks /\ <<d, r>> # t BY <2>20, PairIs
      <4>2. <<d, r>> \notin rejected /\ <<d, r>> \notin awake BY <2>10, <2>11, <2>20, <4>1
      <4> QED BY <2>16, <4>1, <4>2
    <3>2. sequence'[d] = sequence[d] BY <1>1, <2>12, <2>20 DEF OrderTypes
    <3> QED BY <1>2, <3>1, <3>2 DEF Same
  <2> QED BY <2>18, <2>19, <2>20, ReleaseFine DEF Kept
<1> QED BY <1>4, <1>5

------------------------------
(* The slots. *)

\* A set of paths that gains or loses one.
LEMMA OneMore ==
  ASSUME NEW S \in SUBSET Paths, NEW p \in Paths
  PROVE  /\ Cardinality(S) \in Nat
         /\ p \notin S => Cardinality(S \cup {p}) = Cardinality(S) + 1
         /\ p \in S => Cardinality(S \ {p}) = Cardinality(S) - 1
<1>1. IsFiniteSet(S) /\ Cardinality(S) \in Nat BY PathsFinite
<1>2. p \notin S => Cardinality(S \cup {p}) = Cardinality(S) + 1 BY <1>1, FS_AddElement
<1>3. p \in S => Cardinality(S \ {p}) = Cardinality(S) - 1 BY <1>1, FS_RemoveElement
<1> QED BY <1>1, <1>2, <1>3

\* A step that moves only tasks of c that are neither waiting nor in the turn, to steps of the same
\* kind, keeps the order of c as it should be.
LEMMA OrderUntouched ==
  ASSUME OrderIndInv, NEW c \in Commands, sequence' = sequence, error' = error, cmd' = cmd,
         cmd[c].own /\ ~Scans(c) => InOrder(c) /\ InOrder(c)',
         \A p \in Paths : step'[<<c, p>>] = step[<<c, p>>] \/
           /\ step[<<c, p>>] \in {"slot", "ended"} /\ step'[<<c, p>>] \in {"read", "freed"}
           /\ step[<<c, p>>] = "ended" => step'[<<c, p>>] = "freed"
  PROVE  SeqOK(c)' /\ InTurn(c)' /\ HaltOK(c)' /\ ErrorOK(c)' /\ OverOK(c)'
<1>1. OrderTypes /\ Fine(c) BY DEF OrderIndInv
<1>2. \A p \in Nat : Clear(c, p)' <=> Clear(c, p) BY DEF Clear
<1>3. (Scans(c)' <=> Scans(c)) /\ (InOrder(c)' <=> InOrder(c)) BY DEF Scans, InOrder
<1>4. sequence[c].next \in Nat /\ sequence[c].released \subseteq Paths /\ \A p \in Paths : p \in Nat
  BY <1>1, Typed
<1>5. SeqOK(c)'
  <2> SUFFICES ASSUME cmd[c].own PROVE SeqOK(c)' BY DEF SeqOK
  <2>1. SeqOK(c) BY <1>1 DEF Fine
  <2>2. Clear(c, sequence[c].next)' BY <1>2, <1>4, <2>1 DEF SeqOK
  <2>3. \A p \in Paths : sequence[c].waiters[p] # None =>
          sequence[c].waiters[p] = <<c, p>> /\ step'[<<c, p>>] \in Waiting
    BY <2>1 DEF SeqOK, Waiting
  <2>4. \A p \in sequence[c].released :
          /\ step'[<<c, p>>] \in {"write", "ended", "freed", "done"}
          /\ cmd[c].use.span = "write" => step'[<<c, p>>] = "done"
    BY <1>4, <2>1 DEF SeqOK
  <2> QED BY <1>3, <2>1, <2>2, <2>3, <2>4 DEF SeqOK
<1>6. InTurn(c)'
  <2>1. InTurn(c) BY <1>1 DEF Fine
  <2> QED BY <1>2, <1>3, <1>4, <2>1 DEF InTurn
<1>7. HaltOK(c)' /\ ErrorOK(c)' /\ OverOK(c)'
  <2> SUFFICES ASSUME cmd[c].own, ~Scans(c) PROVE HaltOK(c)' /\ ErrorOK(c)' /\ OverOK(c)'
    BY <1>3 DEF HaltOK, ErrorOK, OverOK
  <2>1. HaltOK(c) /\ ErrorOK(c) BY <1>1 DEF Fine
  <2>2. \A p \in Paths : step'[<<c, p>>] = "done" <=> step[<<c, p>>] = "done" OBVIOUS
  <2>3. \A p \in Paths : step'[<<c, p>>] \in {"convert", "go", "clean", "write"} =>
          step[<<c, p>>] \in {"convert", "go", "clean", "write"} OBVIOUS
  <2>4. HaltOK(c)' BY <1>3, <2>1, <2>2, <2>3 DEF HaltOK
  <2>5. ErrorOK(c)'
    <3> SUFFICES ASSUME NEW p \in Paths, error[<<c, p>>] # 0
                 PROVE  LET e == error[<<c, p>>] IN
                        e <= p /\ error[<<c, e>>] = e /\ (e # p => step'[<<c, e>>] = "done")
      BY DEF ErrorOK
    <3> DEFINE e == error[<<c, p>>]
    <3>1. e \in Paths BY <1>1, PairIs, NAssumption DEF OrderTypes, Paths
    <3>2. e <= p /\ error[<<c, e>>] = e /\ (e # p => step[<<c, e>>] = "done") BY <2>1 DEF ErrorOK
    <3> QED BY <2>2, <3>1, <3>2
  <2>6. OverOK(c)' BY DEF OverOK, InOrder
  <2> QED BY <2>4, <2>5, <2>6
<1> QED BY <1>5, <1>6, <1>7

\* FreeSlot: the slot goes to the first in the queue, or back.
LEMMA FreeSlotKept ==
  ASSUME OrderIndInv, NEW c \in Commands, NEW p \in Paths, FreeSlot(<<c, p>>)
  PROVE  Kept(c)
<1> DEFINE t == <<c, p>>
           q == limiter[c].queue
<1>1. OrderTypes /\ Fine(c) /\ t \in Tasks BY PairIs DEF OrderIndInv
<1>2. /\ step[t] = "ended" /\ ~Scans(c) /\ cmd' = cmd /\ sequence' = sequence /\ current' = current
      /\ error' = error
  BY PairIs DEF FreeSlot
<1>3. CmdOK(c) /\ SlotOK(c) /\ OverOK(c) BY <1>1 DEF Fine
<1>4. cmd[c].own => InOrder(c) /\ InOrder(c)'
  <2>1. cmd[c].own => cmd[c].at = "open" BY <1>1, <1>2, <1>3, Typed DEF CmdOK, OverOK, CmdType
  <2> QED BY <1>2, <2>1 DEF InOrder
<1>5. limiter[c] \in [active : Int, queue : Seq(Tasks)] BY <1>1 DEF OrderTypes
<1>6. limiter[c].active \in Int /\ q \in Seq(Tasks) BY <1>5
<1>7. p \in Holding(c) /\ Holding(c) \in SUBSET Paths BY <1>2 DEF Holding
<1>8. p <= cmd[c].taken BY <1>1, <1>2, <1>3, Typed DEF CmdOK
<1>9. Scans(c)' <=> Scans(c) BY <1>2 DEF Scans
<1>10. CASE q = <<>>
  <2>1. /\ limiter' = [limiter EXCEPT ![c].active = @ - 1] /\ step' = [step EXCEPT ![t] = "freed"]
    BY <1>10, PairIs DEF FreeSlot
  <2>2. limiter'[c] = [limiter[c] EXCEPT !.active = limiter[c].active - 1]
        /\ \A d \in Commands : d # c => limiter'[d] = limiter[d]
    BY <1>1, <2>1 DEF OrderTypes
  <2>3. limiter'[c].active = limiter[c].active - 1 /\ limiter'[c].queue = <<>> BY <1>5, <1>10, <2>2
  <2>4. step'[t] = "freed" /\ \A d \in Commands, r \in Paths : ~(d = c /\ r = p) => step'[<<d, r>>] = step[<<d, r>>]
    BY <1>1, <2>1, PairIs DEF OrderTypes
  <2>5. OrderTypes'
    <3>1. limiter'[c] \in [active : Int, queue : Seq(Tasks)] BY <1>5, <1>6, <2>2
    <3>2. limiter' \in [Commands -> [active : Int, queue : Seq(Tasks)]] BY <1>1, <2>1, <3>1 DEF OrderTypes
    <3>3. step' \in [Tasks -> Steps] BY <1>1, <2>1 DEF OrderTypes, Steps
    <3> QED BY <1>1, <1>2, <3>2, <3>3 DEF OrderTypes
  <2>6. \A d \in Commands : d # c => Same(d) BY <1>2, <2>2, <2>4 DEF Same
  <2>7. CmdOK(c)'
    <3>1. \A r \in Paths : r > cmd[c].taken => step'[<<c, r>>] = "new"
      BY <1>1, <1>3, <1>8, <2>4, Typed DEF CmdOK
    <3>2. InOrder(c)' <=> InOrder(c) BY <1>2 DEF InOrder
    <3>3. c \notin Smudges BY <1>2, <1>3 DEF CmdOK, Scans, Checkout
    <3> QED BY <1>2, <1>3, <1>9, <3>1, <3>2, <3>3 DEF CmdOK
  <2>8. SeqOK(c)' /\ InTurn(c)' /\ HaltOK(c)' /\ ErrorOK(c)' /\ OverOK(c)' BY <1>2, <1>4, <2>4, OrderUntouched
  <2>9. SlotOK(c)'
    <3>1. Holding(c)' = Holding(c) \ {p} BY <1>2, <2>4 DEF Holding
    <3>2. Cardinality(Holding(c)') = Cardinality(Holding(c)) - 1 BY <1>7, <3>1, OneMore
    <3>3. Limit \in Nat /\ limiter[c].active = Cardinality(Holding(c)) /\ limiter[c].active <= Limit
      BY <1>2, <1>3, LimitAssumption DEF SlotOK
    <3>4. limiter'[c].active = Cardinality(Holding(c)') BY <2>3, <3>2, <3>3
    <3>5. limiter'[c].active <= Limit BY <1>6, <2>3, <3>3
    <3> QED BY <2>3, <3>4, <3>5 DEF SlotOK
  <2> QED BY <2>5, <2>6, <2>7, <2>8, <2>9 DEF Kept, Fine
<1>11. CASE q # <<>>
  <2>1. PICK r \in Paths : Head(q) = <<c, r>> /\ step[<<c, r>>] = "slot"
    <3>1. 1 \in DOMAIN q /\ Head(q) = q[1] BY <1>6, <1>11
    <3> QED BY <1>2, <1>3, <3>1 DEF SlotOK
  <2>2. <<c, r>> \in Tasks /\ r # p BY <1>2, <2>1, PairIs
  <2>3. /\ limiter' = [limiter EXCEPT ![c].queue = Tail(@)]
        /\ step' = [step EXCEPT ![t] = "freed", ![<<c, r>>] = "read"]
    BY <1>11, <2>1, PairIs DEF FreeSlot
  <2>4. limiter'[c] = [limiter[c] EXCEPT !.queue = Tail(q)]
        /\ \A d \in Commands : d # c => limiter'[d] = limiter[d]
    BY <1>1, <2>3 DEF OrderTypes
  <2>5. limiter'[c].active = limiter[c].active /\ limiter'[c].queue = Tail(q) BY <1>5, <2>4
  <2>6. /\ step'[t] = "freed" /\ step'[<<c, r>>] = "read"
        /\ \A d \in Commands, x \in Paths : ~(d = c /\ x \in {p, r}) => step'[<<d, x>>] = step[<<d, x>>]
    BY <1>1, <2>2, <2>3, PairIs DEF OrderTypes
  <2>7. OrderTypes'
    <3>1. Tail(q) \in Seq(Tasks) BY <1>6, <1>11
    <3>2. limiter'[c] \in [active : Int, queue : Seq(Tasks)] BY <1>5, <2>4, <3>1
    <3>3. limiter' \in [Commands -> [active : Int, queue : Seq(Tasks)]] BY <1>1, <2>3, <3>2 DEF OrderTypes
    <3>4. step' \in [Tasks -> Steps] BY <1>1, <2>3 DEF OrderTypes, Steps
    <3> QED BY <1>1, <1>2, <3>3, <3>4 DEF OrderTypes
  <2>8. \A d \in Commands : d # c => Same(d) BY <1>2, <2>4, <2>6 DEF Same
  <2>9. CmdOK(c)'
    <3>1. r <= cmd[c].taken BY <1>1, <1>3, <2>1, Typed DEF CmdOK
    <3>2. \A x \in Paths : x > cmd[c].taken => step'[<<c, x>>] = "new"
      BY <1>1, <1>3, <1>8, <2>6, <3>1, Typed DEF CmdOK
    <3>3. InOrder(c)' <=> InOrder(c) BY <1>2 DEF InOrder
    <3>4. c \notin Smudges BY <1>2, <1>3 DEF CmdOK, Scans, Checkout
    <3> QED BY <1>2, <1>3, <1>9, <3>2, <3>3, <3>4 DEF CmdOK
  <2>10. SeqOK(c)' /\ InTurn(c)' /\ HaltOK(c)' /\ ErrorOK(c)' /\ OverOK(c)'
    <3>1. \A x \in Paths : step'[<<c, x>>] = step[<<c, x>>] \/
           /\ step[<<c, x>>] \in {"slot", "ended"} /\ step'[<<c, x>>] \in {"read", "freed"}
           /\ step[<<c, x>>] = "ended" => step'[<<c, x>>] = "freed"
      BY <1>2, <2>1, <2>6
    <3> QED BY <1>2, <1>4, <3>1, OrderUntouched
  <2>11. SlotOK(c)'
    <3>1. Holding(c)' = (Holding(c) \ {p}) \cup {r} BY <1>2, <2>1, <2>2, <2>6 DEF Holding
    <3>2. r \notin Holding(c) \ {p} BY <2>1 DEF Holding
    <3>3. Cardinality(Holding(c)') = Cardinality(Holding(c))
      <4> DEFINE S == Holding(c) \ {p}
      <4>1. S \in SUBSET Paths /\ Cardinality(S) = Cardinality(Holding(c)) - 1 BY <1>7, OneMore
      <4>2. Cardinality(S \cup {r}) = Cardinality(S) + 1 BY <3>2, <4>1, OneMore
      <4>3. Cardinality(Holding(c)) \in Nat BY <1>7, OneMore
      <4> QED BY <3>1, <4>1, <4>2, <4>3
    <3>4. /\ limiter[c].active = Cardinality(Holding(c)) /\ limiter[c].active <= Limit
          /\ limiter[c].active = Limit
      BY <1>2, <1>3, <1>11 DEF SlotOK
    <3>5. \A i \in DOMAIN Tail(q) : i + 1 \in DOMAIN q /\ Tail(q)[i] = q[i + 1] /\ i \in Nat /\ i >= 1
      BY <1>6, <1>11
    <3>6. ASSUME NEW i \in DOMAIN Tail(q)
          PROVE  /\ \E x \in Paths : Tail(q)[i] = <<c, x>> /\ step'[<<c, x>>] = "slot"
                 /\ \A j \in DOMAIN Tail(q) : Tail(q)[i] = Tail(q)[j] => i = j
      <4>1. 1 \in DOMAIN q /\ q[1] = <<c, r>> BY <1>6, <1>11, <2>1
      <4>2. i + 1 \in DOMAIN q /\ Tail(q)[i] = q[i + 1] /\ i \in Nat /\ i + 1 # 1 BY <3>5
      <4>3. PICK x \in Paths : q[i + 1] = <<c, x>> /\ step[<<c, x>>] = "slot" BY <1>2, <1>3, <4>2 DEF SlotOK
      <4>4. q[i + 1] # q[1] BY <1>2, <1>3, <4>1, <4>2 DEF SlotOK
      <4>5. x # r /\ x # p BY <1>2, <4>1, <4>3, <4>4
      <4>6. step'[<<c, x>>] = "slot" BY <2>6, <4>3, <4>5
      <4>7. ASSUME NEW j \in DOMAIN Tail(q), Tail(q)[i] = Tail(q)[j] PROVE i = j
        <5>1. j + 1 \in DOMAIN q /\ Tail(q)[j] = q[j + 1] /\ j \in Nat BY <3>5
        <5>2. i + 1 = j + 1 BY <1>2, <1>3, <4>2, <4>7, <5>1 DEF SlotOK
        <5> QED BY <4>2, <5>1, <5>2
      <4> QED BY <4>2, <4>3, <4>6, <4>7
    <3> QED BY <2>5, <3>3, <3>4, <3>6 DEF SlotOK
  <2> QED BY <2>7, <2>8, <2>9, <2>10, <2>11 DEF Kept, Fine
<1> QED BY <1>10, <1>11

------------------------------
(* The steps of a command. *)

\* A command without an order of its own, or a scan, has few duties.
LEMMA ScanFine ==
  ASSUME NEW c \in Commands, CmdOK(c)', Scans(c)', SeqOK(c)', InTurn(c)'
  PROVE  Fine(c)'
BY DEF Fine, HaltOK, ErrorOK, OverOK, SlotOK

\* Open: a command starts, with an order of its own when there is none.
LEMMA OpenKept ==
  ASSUME OrderIndInv, NEW c \in Commands, Open(c)
  PROVE  Kept(c) /\ cmd'[c].items = cmd[c].items
<1> DEFINE k == IF c \in Smudges THEN 1 ELSE IF Scans(c) THEN Min2(Limit, cmd[c].items) ELSE 0
           own == Opens(c)
           fresh == [NoSequence EXCEPT !.span = cmd[c].use.span, !.enlisted = IF Scans(c) THEN cmd[c].items ELSE 0]
<1>1. OrderTypes /\ Fine(c) /\ c # None /\ CmdOK(c) BY ScopesAssumption DEF OrderIndInv, Fine, Scopes
<1>2. cmd[c] \in CmdType /\ cmd[c].items \in Nat BY <1>1, Typed
<1>3. k \in Int BY <1>2, LimitAssumption DEF Min2
<1>4. /\ cmd[c].at = "idle" /\ limiter' = limiter /\ step' = step /\ error' = error
      /\ cmd' = [cmd EXCEPT ![c].at = "open", ![c].own = own, ![c].runners = k]
      /\ own => current' = c /\ sequence' = [sequence EXCEPT ![c] = fresh]
      /\ ~own => current' = current /\ sequence' = sequence
  BY DEF Open
<1>5. own \in BOOLEAN BY DEF Opens
<1> HIDE DEF k
<1>6. /\ cmd'[c] = [cmd[c] EXCEPT !.at = "open", !.own = own, !.runners = k]
      /\ \A d \in Commands : d # c => cmd'[d] = cmd[d]
  BY <1>1, <1>4 DEF OrderTypes
<1>7. /\ cmd'[c].use = cmd[c].use /\ cmd'[c].items = cmd[c].items /\ cmd'[c].at = "open"
      /\ cmd'[c].own = own /\ cmd'[c].taken = cmd[c].taken
  BY <1>2, <1>6 DEF CmdType
<1>8. cmd' \in [Commands -> CmdType]
  <2>1. [cmd[c] EXCEPT !.at = "open", !.own = own, !.runners = k] \in CmdType BY <1>2, <1>3, <1>5 DEF CmdType
  <2>2. cmd' = [cmd EXCEPT ![c] = [cmd[c] EXCEPT !.at = "open", !.own = own, !.runners = k]] BY <1>4
  <2> QED BY <1>1, <2>1, <2>2 DEF OrderTypes
<1>9. cmd[c].taken = 0 /\ cmd[c].items # 0 /\ ~cmd[c].own /\ ~InOrder(c) /\ current # c
  BY <1>1, <1>4 DEF CmdOK, InOrder
<1>10. \A p \in Paths : step[<<c, p>>] = "new" /\ error[<<c, p>>] = 0 BY <1>1, <1>9, Typed DEF CmdOK
<1>11. (Scans(c)' <=> Scans(c)) /\ (InOrder(c)' <=> own) BY <1>7 DEF Scans, InOrder
<1>12. own => /\ fresh \in SequenceType
              /\ fresh.span = cmd[c].use.span /\ fresh.enlisted = (IF Scans(c) THEN cmd[c].items ELSE 0)
              /\ fresh.next = 1 /\ fresh.released = {} /\ fresh.halted = 0 /\ fresh.waiters = [p \in Paths |-> None]
  <2> SUFFICES ASSUME own
               PROVE  /\ fresh \in SequenceType
                      /\ fresh.span = cmd[c].use.span /\ fresh.enlisted = (IF Scans(c) THEN cmd[c].items ELSE 0)
                      /\ fresh.next = 1 /\ fresh.released = {} /\ fresh.halted = 0
                      /\ fresh.waiters = [p \in Paths |-> None]
    OBVIOUS
  <2>1. c \notin Smudges BY DEF Opens
  <2>2. cmd[c].use.span \in {"clean", "write"} BY <1>1, <1>2, <2>1, UsesAssumption DEF CmdOK, CmdType
  <2>3. cmd[c].items \in 0 .. N BY <1>2 DEF CmdType
  <2> DEFINE w == [p \in Paths |-> None]
             span == cmd[c].use.span
             many == IF Scans(c) THEN cmd[c].items ELSE 0
  <2>4. w \in [Paths -> Tasks \cup {None}] OBVIOUS
  <2>5. many \in 0 .. N BY <2>3, NAssumption
  <2>6. fresh = [span |-> span, enlisted |-> many, released |-> {}, next |-> 1, waiters |-> w, halted |-> 0, why |-> 0]
    <3>1. fresh = [NoSequence EXCEPT !.span = span, !.enlisted = many] OBVIOUS
    <3>2. NoSequence = [span |-> "clean", enlisted |-> 0, released |-> {}, next |-> 1, waiters |-> w, halted |-> 0, why |-> 0]
      BY DEF NoSequence
    <3> HIDE DEF w, span, many, fresh
    <3> QED BY <3>1, <3>2
  <2>7. 1 \in 1 .. N + 1 /\ 0 \in 0 .. N BY NAssumption
  <2> HIDE DEF w, span, many, fresh
  <2>8. fresh \in SequenceType BY <2>2, <2>4, <2>5, <2>6, <2>7 DEF SequenceType, span
  <2> QED BY <2>6, <2>8 DEF w, span, many
<1> HIDE DEF fresh
<1>13. OrderTypes'
  <2>1. sequence' \in [Commands -> SequenceType] BY <1>1, <1>4, <1>12 DEF OrderTypes
  <2>2. current' \in Commands \cup {None} BY <1>1, <1>4 DEF OrderTypes
  <2> QED BY <1>1, <1>4, <1>8, <2>1, <2>2 DEF OrderTypes
<1>14. ASSUME NEW d \in Commands, d # c PROVE Same(d)
  <2>1. sequence'[d] = sequence[d] BY <1>1, <1>4, <1>14 DEF OrderTypes
  <2>2. d # None BY ScopesAssumption DEF Scopes
  <2>3. current' = d <=> current = d BY <1>4, <1>14, <2>2 DEF Opens
  <2> QED BY <1>4, <1>6, <1>14, <2>1, <2>3 DEF Same
<1>15. CmdOK(c)'
  <2>1. current' = c <=> own BY <1>4, <1>9
  <2>2. own => c \notin Smudges BY DEF Opens
  <2> QED BY <1>1, <1>4, <1>7, <1>9, <1>10, <1>11, <2>1, <2>2 DEF CmdOK
<1>16. SeqOK(c)'
  <2> SUFFICES ASSUME own PROVE SeqOK(c)' BY <1>7 DEF SeqOK
  <2>1. sequence'[c] = fresh BY <1>1, <1>4 DEF OrderTypes
  <2>2. Clear(c, sequence[c].next)' BY <1>12, <2>1, PathsFinite, NAssumption DEF Clear, Paths
  <2> QED BY <1>7, <1>9, <1>11, <1>12, <2>1, <2>2 DEF SeqOK
<1>17. InTurn(c)' /\ ErrorOK(c)' /\ OverOK(c)' BY <1>4, <1>7, <1>10 DEF InTurn, ErrorOK, OverOK
<1>18. HaltOK(c)'
  <2> SUFFICES ASSUME own PROVE HaltOK(c)' BY <1>7 DEF HaltOK
  <2>1. sequence'[c] = fresh BY <1>1, <1>4 DEF OrderTypes
  <2> QED BY <1>4, <1>10, <1>12, <2>1 DEF HaltOK
<1>19. SlotOK(c)'
  <2>1. Holding(c)' = Holding(c) BY <1>4 DEF Holding
  <2>2. SlotOK(c) BY <1>1 DEF Fine
  <2> QED BY <1>4, <1>11, <2>1, <2>2 DEF SlotOK
<1> QED BY <1>7, <1>13, <1>14, <1>15, <1>16, <1>17, <1>18, <1>19 DEF Kept, Fine

\* NextItem: a runner takes the next path.
LEMMA NextItemKept ==
  ASSUME OrderIndInv, NEW c \in Commands, NextItem(c)
  PROVE  Kept(c) /\ cmd'[c].items = cmd[c].items
<1> DEFINE p == cmd[c].taken + 1
           t == <<c, p>>
<1>1. OrderTypes /\ Fine(c) /\ CmdOK(c) BY DEF OrderIndInv, Fine
<1>2. /\ cmd[c] \in CmdType /\ cmd[c].items \in Nat /\ cmd[c].taken \in Nat /\ cmd[c].items <= N
  BY <1>1, Typed
<1>3. /\ Scans(c) /\ cmd[c].at # "idle" /\ cmd[c].taken < cmd[c].items
      /\ cmd' = [cmd EXCEPT ![c].taken = p] /\ step' = [step EXCEPT ![t] = "read"]
      /\ limiter' = limiter /\ sequence' = sequence /\ current' = current /\ error' = error
  BY DEF NextItem
<1>4. p \in Paths /\ p \in 0 .. N /\ p <= cmd[c].items BY <1>2, <1>3, NAssumption DEF Paths
<1>5. t \in Tasks BY <1>4, PairIs
<1>6. cmd'[c] = [cmd[c] EXCEPT !.taken = p] /\ \A d \in Commands : d # c => cmd'[d] = cmd[d]
  BY <1>1, <1>3 DEF OrderTypes
<1>7. /\ cmd'[c].use = cmd[c].use /\ cmd'[c].items = cmd[c].items /\ cmd'[c].at = cmd[c].at
      /\ cmd'[c].own = cmd[c].own /\ cmd'[c].taken = p
  BY <1>2, <1>6 DEF CmdType
<1>8. step[t] = "new" BY <1>1, <1>2, <1>4 DEF CmdOK
<1> HIDE DEF p
<1>9. OrderTypes'
  <2>1. [cmd[c] EXCEPT !.taken = p] \in CmdType BY <1>2, <1>4 DEF CmdType
  <2>2. cmd' = [cmd EXCEPT ![c] = [cmd[c] EXCEPT !.taken = p]] BY <1>3
  <2>3. cmd' \in [Commands -> CmdType] BY <1>1, <2>1, <2>2 DEF OrderTypes
  <2>4. step' \in [Tasks -> Steps] BY <1>1, <1>3 DEF OrderTypes, Steps
  <2> QED BY <1>1, <1>3, <2>3, <2>4 DEF OrderTypes
<1>10. step'[t] = "read" /\ \A d \in Commands, r \in Paths : ~(d = c /\ r = p) => step'[<<d, r>>] = step[<<d, r>>]
  BY <1>1, <1>3, <1>4, <1>5, PairIs DEF OrderTypes
<1>11. \A d \in Commands : d # c => Same(d) BY <1>3, <1>6, <1>10 DEF Same
<1>12. (Scans(c)' <=> Scans(c)) /\ (InOrder(c)' <=> InOrder(c)) BY <1>7 DEF Scans, InOrder
<1>13. CmdOK(c)'
  <2>1. \A r \in Paths : /\ r > p => step'[<<c, r>>] = "new" /\ error[<<c, r>>] = 0
                         /\ step'[<<c, r>>] # "freed"
    <3> SUFFICES ASSUME NEW r \in Paths
                 PROVE  /\ r > p => step'[<<c, r>>] = "new" /\ error[<<c, r>>] = 0
                        /\ step'[<<c, r>>] # "freed"
      OBVIOUS
    <3>1. r \in Nat /\ p = cmd[c].taken + 1 BY <1>1, Typed DEF p
    <3>2. r > p => r > cmd[c].taken /\ r # p BY <1>2, <3>1
    <3>3. r > p => step[<<c, r>>] = "new" /\ error[<<c, r>>] = 0 BY <1>1, <3>2 DEF CmdOK
    <3>4. step[<<c, r>>] # "freed" BY <1>1, <1>3 DEF CmdOK
    <3> QED BY <1>10, <3>2, <3>3, <3>4
  <2> QED BY <1>1, <1>3, <1>4, <1>7, <1>12, <2>1 DEF CmdOK
<1>14. SeqOK(c)'
  <2> SUFFICES ASSUME cmd[c].own PROVE SeqOK(c)' BY <1>7 DEF SeqOK
  <2>1. SeqOK(c) BY <1>1 DEF Fine
  <2>2. Clear(c, sequence[c].next)' BY <1>3, <2>1 DEF SeqOK, Clear
  <2>3. sequence[c].released \subseteq Paths BY <1>1, Typed
  <2>4. \A r \in sequence[c].released :
          /\ step'[<<c, r>>] \in {"write", "ended", "freed", "done"}
          /\ cmd[c].use.span = "write" => step'[<<c, r>>] = "done"
    BY <1>8, <1>10, <2>1, <2>3 DEF SeqOK
  <2>5. \A r \in Paths : sequence[c].waiters[r] # None =>
          sequence[c].waiters[r] = <<c, r>> /\ step'[<<c, r>>] \in Waiting
    BY <1>8, <1>10, <2>1 DEF SeqOK, Waiting
  <2> QED BY <1>3, <1>7, <1>12, <2>1, <2>2, <2>4, <2>5 DEF SeqOK
<1>15. InTurn(c)'
  <2>1. InTurn(c) BY <1>1 DEF Fine
  <2>2. \A r \in Paths : Clear(c, r)' <=> Clear(c, r) BY <1>3 DEF Clear
  <2> QED BY <1>7, <1>10, <1>12, <2>1, <2>2 DEF InTurn
<1> QED BY <1>3, <1>7, <1>9, <1>11, <1>12, <1>13, <1>14, <1>15, ScanFine DEF Kept

\* Dispatch: the walk hands over the next path, which gets a slot or queues for one.
LEMMA DispatchKept ==
  ASSUME OrderIndInv, NEW c \in Commands, Dispatch(c)
  PROVE  Kept(c) /\ cmd'[c].items = cmd[c].items
<1> DEFINE p == cmd[c].taken + 1
           t == <<c, p>>
           q == limiter[c].queue
<1>1. OrderTypes /\ Fine(c) /\ CmdOK(c) /\ SlotOK(c) BY DEF OrderIndInv, Fine
<1>2. /\ cmd[c] \in CmdType /\ cmd[c].items \in Nat /\ cmd[c].taken \in Nat /\ cmd[c].items <= N
  BY <1>1, Typed
<1>3. /\ ~Scans(c) /\ cmd[c].at = "open" /\ cmd[c].taken < cmd[c].items
      /\ cmd' = [cmd EXCEPT ![c].taken = p] /\ current' = current /\ error' = error
      /\ sequence' = IF cmd[c].own THEN [sequence EXCEPT ![c].enlisted = @ + 1] ELSE sequence
  BY DEF Dispatch
<1>4. \/ /\ SlotFree(c) /\ limiter' = [limiter EXCEPT ![c].active = @ + 1] /\ step' = [step EXCEPT ![t] = "read"]
      \/ /\ ~SlotFree(c) /\ limiter' = [limiter EXCEPT ![c].queue = Append(@, t)]
         /\ step' = [step EXCEPT ![t] = "slot"]
  BY DEF Dispatch
<1>5. p \in Paths /\ p \in 0 .. N /\ p <= cmd[c].items BY <1>2, <1>3, NAssumption DEF Paths
<1>6. t \in Tasks BY <1>5, PairIs
<1>7. cmd'[c] = [cmd[c] EXCEPT !.taken = p] /\ \A d \in Commands : d # c => cmd'[d] = cmd[d]
  BY <1>1, <1>3 DEF OrderTypes
<1>8. /\ cmd'[c].use = cmd[c].use /\ cmd'[c].items = cmd[c].items /\ cmd'[c].at = cmd[c].at
      /\ cmd'[c].own = cmd[c].own /\ cmd'[c].taken = p
  BY <1>2, <1>7 DEF CmdType
<1>9. step[t] = "new" /\ error[t] = 0 BY <1>1, <1>2, <1>5 DEF CmdOK
<1>10. (Scans(c)' <=> Scans(c)) /\ (InOrder(c)' <=> InOrder(c)) BY <1>8 DEF Scans, InOrder
<1>11. limiter[c] \in [active : Int, queue : Seq(Tasks)] /\ limiter[c].active \in Int /\ q \in Seq(Tasks)
  BY <1>1 DEF OrderTypes
<1>12. p = cmd[c].taken + 1 OBVIOUS
<1> HIDE DEF p
<1>13. /\ step'[t] \in {"read", "slot"}
       /\ \A d \in Commands, r \in Paths : ~(d = c /\ r = p) => step'[<<d, r>>] = step[<<d, r>>]
       /\ step' \in [Tasks -> Steps]
  BY <1>1, <1>4, <1>5, <1>6, PairIs DEF OrderTypes, Steps
<1>14. /\ sequence'[c].span = sequence[c].span
       /\ cmd[c].own => sequence'[c].enlisted = sequence[c].enlisted + 1
       /\ sequence'[c].released = sequence[c].released /\ sequence'[c].next = sequence[c].next
       /\ sequence'[c].halted = sequence[c].halted /\ sequence'[c].why = sequence[c].why
       /\ sequence'[c].waiters = sequence[c].waiters
       /\ \A d \in Commands : d # c => sequence'[d] = sequence[d]
  <2>1. sequence[c] \in SequenceType BY <1>1, Typed
  <2>2. sequence'[c] = (IF cmd[c].own THEN [sequence[c] EXCEPT !.enlisted = sequence[c].enlisted + 1] ELSE sequence[c])
        /\ \A d \in Commands : d # c => sequence'[d] = sequence[d]
    BY <1>1, <1>3 DEF OrderTypes
  <2> QED BY <2>1, <2>2 DEF SequenceType
<1>15. OrderTypes'
  <2>1. [cmd[c] EXCEPT !.taken = p] \in CmdType BY <1>2, <1>5 DEF CmdType
  <2>2. cmd' = [cmd EXCEPT ![c] = [cmd[c] EXCEPT !.taken = p]] BY <1>3
  <2>3. cmd' \in [Commands -> CmdType] BY <1>1, <2>1, <2>2 DEF OrderTypes
  <2>4. sequence' \in [Commands -> SequenceType]
    <3>1. CASE ~cmd[c].own BY <1>1, <1>3, <3>1 DEF OrderTypes
    <3>2. CASE cmd[c].own
      <4> DEFINE m == sequence[c].enlisted + 1
      <4>1. sequence[c].enlisted = cmd[c].taken BY <1>1, <1>3, <3>2 DEF Fine, SeqOK
      <4>2. m \in 0 .. N BY <1>5, <1>12, <4>1
      <4>3. sequence' = [sequence EXCEPT ![c] = [sequence[c] EXCEPT !.enlisted = m]] BY <1>3, <3>2
      <4>4. sequence[c] \in SequenceType BY <1>1, Typed
      <4> HIDE DEF m
      <4>5. [sequence[c] EXCEPT !.enlisted = m] \in SequenceType BY <4>2, <4>4 DEF SequenceType
      <4> QED BY <1>1, <4>3, <4>5 DEF OrderTypes
    <3> QED BY <3>1, <3>2
  <2>5. limiter' \in [Commands -> [active : Int, queue : Seq(Tasks)]]
    <3>1. CASE SlotFree(c)
      <4> DEFINE m == limiter[c].active + 1
      <4>1. m \in Int BY <1>11
      <4>2. limiter' = [limiter EXCEPT ![c] = [limiter[c] EXCEPT !.active = m]] BY <1>4, <3>1
      <4> HIDE DEF m
      <4>3. [limiter[c] EXCEPT !.active = m] \in [active : Int, queue : Seq(Tasks)] BY <1>11, <4>1
      <4> QED BY <1>1, <4>2, <4>3 DEF OrderTypes
    <3>2. CASE ~SlotFree(c)
      <4> DEFINE m == Append(limiter[c].queue, t)
      <4>1. m \in Seq(Tasks) BY <1>6, <1>11
      <4>2. limiter' = [limiter EXCEPT ![c] = [limiter[c] EXCEPT !.queue = m]] BY <1>4, <3>2
      <4> HIDE DEF m
      <4>3. [limiter[c] EXCEPT !.queue = m] \in [active : Int, queue : Seq(Tasks)] BY <1>11, <4>1
      <4> QED BY <1>1, <4>2, <4>3 DEF OrderTypes
    <3> QED BY <3>1, <3>2
  <2> QED BY <1>1, <1>3, <1>13, <2>3, <2>4, <2>5 DEF OrderTypes
<1>16. \A d \in Commands : d # c => Same(d)
  <2>1. \A d \in Commands : d # c => limiter'[d] = limiter[d] BY <1>1, <1>4 DEF OrderTypes
  <2> QED BY <1>3, <1>7, <1>13, <1>14, <2>1 DEF Same
<1>17. CmdOK(c)'
  <2>1. \A r \in Paths : r > p => step'[<<c, r>>] = "new" /\ error[<<c, r>>] = 0
    <3> SUFFICES ASSUME NEW r \in Paths, r > p PROVE step'[<<c, r>>] = "new" /\ error[<<c, r>>] = 0 OBVIOUS
    <3>1. r \in Nat BY <1>1, Typed
    <3>2. r > cmd[c].taken /\ r # p BY <1>2, <1>12, <3>1
    <3> QED BY <1>1, <1>13, <3>2 DEF CmdOK
  <2>2. c \notin Smudges BY <1>1, <1>3 DEF CmdOK, Scans, Checkout
  <2> QED BY <1>1, <1>3, <1>5, <1>8, <1>10, <2>1, <2>2 DEF CmdOK
<1>18. \A r \in Nat : Clear(c, r)' <=> Clear(c, r) BY <1>14 DEF Clear
<1>19. \A r \in Paths : r \in Nat /\ r # 0 BY <1>1, Typed
<1>20. SeqOK(c)'
  <2> SUFFICES ASSUME cmd[c].own PROVE SeqOK(c)' BY <1>8 DEF SeqOK
  <2>1. SeqOK(c) BY <1>1 DEF Fine
  <2>2. sequence[c].released \subseteq Paths /\ sequence[c].next \in Nat BY <1>1, Typed
  <2>3. Clear(c, sequence[c].next)' BY <1>14, <2>1 DEF SeqOK, Clear
  <2>4. \A r \in sequence[c].released :
          /\ step'[<<c, r>>] \in {"write", "ended", "freed", "done"}
          /\ cmd[c].use.span = "write" => step'[<<c, r>>] = "done"
    BY <1>9, <1>13, <2>1, <2>2 DEF SeqOK
  <2>5. \A r \in Paths : sequence[c].waiters[r] # None =>
          sequence[c].waiters[r] = <<c, r>> /\ step'[<<c, r>>] \in Waiting
    BY <1>9, <1>13, <2>1 DEF SeqOK, Waiting
  <2>6. sequence'[c].enlisted = p BY <1>3, <1>12, <1>14, <2>1 DEF SeqOK
  <2> QED BY <1>3, <1>8, <1>10, <1>14, <2>1, <2>3, <2>4, <2>5, <2>6 DEF SeqOK
<1>21. InTurn(c)'
  <2>1. InTurn(c) BY <1>1 DEF Fine
  <2> QED BY <1>8, <1>10, <1>13, <1>18, <1>19, <2>1 DEF InTurn
<1>22. HaltOK(c)' /\ ErrorOK(c)' /\ OverOK(c)'
  <2> SUFFICES ASSUME cmd[c].own PROVE HaltOK(c)' /\ ErrorOK(c)' /\ OverOK(c)'
    BY <1>8 DEF HaltOK, ErrorOK, OverOK
  <2>1. HaltOK(c) /\ ErrorOK(c) BY <1>1 DEF Fine
  <2>2. \A r \in Paths : step'[<<c, r>>] = "done" <=> step[<<c, r>>] = "done" BY <1>9, <1>13
  <2>3. \A r \in Paths : step'[<<c, r>>] \in {"convert", "go", "clean", "write"} =>
          step[<<c, r>>] \in {"convert", "go", "clean", "write"} BY <1>9, <1>13
  <2>4. HaltOK(c)' BY <1>3, <1>8, <1>10, <1>14, <2>1, <2>2, <2>3 DEF HaltOK
  <2>5. ErrorOK(c)'
    <3> SUFFICES ASSUME NEW r \in Paths, error[<<c, r>>] # 0
                 PROVE  LET e == error[<<c, r>>] IN
                        e <= r /\ error[<<c, e>>] = e /\ (e # r => step'[<<c, e>>] = "done")
      BY <1>3 DEF ErrorOK
    <3> DEFINE e == error[<<c, r>>]
    <3>1. e \in Paths BY <1>1, PairIs, NAssumption DEF OrderTypes, Paths
    <3>2. e <= r /\ error[<<c, e>>] = e /\ (e # r => step[<<c, e>>] = "done") BY <1>3, <2>1 DEF ErrorOK
    <3> QED BY <2>2, <3>1, <3>2
  <2>6. OverOK(c)' BY <1>3, <1>8 DEF OverOK
  <2> QED BY <2>4, <2>5, <2>6
<1>23. SlotOK(c)'
  <2>1. Limit \in Nat /\ limiter[c].active = Cardinality(Holding(c)) /\ limiter[c].active <= Limit
    BY <1>1, <1>3, LimitAssumption DEF SlotOK
  <2>2. Holding(c) \in SUBSET Paths /\ p \notin Holding(c) BY <1>9 DEF Holding
  <2>3. CASE SlotFree(c)
    <3>1. step'[t] = "read" /\ limiter'[c] = [limiter[c] EXCEPT !.active = limiter[c].active + 1]
      BY <1>1, <1>4, <1>6, <2>3 DEF OrderTypes
    <3>2. limiter'[c].active = limiter[c].active + 1 /\ limiter'[c].queue = q BY <1>11, <3>1
    <3>3. Holding(c)' = Holding(c) \cup {p} BY <1>5, <1>13, <3>1 DEF Holding
    <3>4. Cardinality(Holding(c)') = Cardinality(Holding(c)) + 1 BY <1>5, <2>2, <3>3, OneMore
    <3>5. limiter[c].active < Limit BY <2>3 DEF SlotFree
    <3>6. q = <<>> BY <1>1, <1>3, <1>11, <2>1, <3>5 DEF SlotOK
    <3>7. limiter'[c].active <= Limit /\ limiter'[c].active = Cardinality(Holding(c)') BY <1>11, <2>1, <3>2, <3>4, <3>5
    <3> QED BY <3>2, <3>6, <3>7 DEF SlotOK
  <2>4. CASE ~SlotFree(c)
    <3>1. step'[t] = "slot" /\ limiter'[c] = [limiter[c] EXCEPT !.queue = Append(q, t)]
      BY <1>1, <1>4, <1>6, <2>4 DEF OrderTypes
    <3>2. limiter'[c].active = limiter[c].active /\ limiter'[c].queue = Append(q, t) BY <1>11, <3>1
    <3>3. Holding(c)' = Holding(c)
      <4>1. p \notin Holding(c)' BY <3>1 DEF Holding
      <4>2. \A r \in Paths : r # p => (r \in Holding(c)' <=> r \in Holding(c)) BY <1>13 DEF Holding
      <4>3. Holding(c)' \subseteq Paths BY DEF Holding
      <4> QED BY <2>2, <4>1, <4>2, <4>3
    <3>4. limiter[c].active = Limit BY <1>11, <2>1, <2>4 DEF SlotFree
    <3>5. ASSUME NEW i \in DOMAIN Append(q, t)
          PROVE  \/ i \in DOMAIN q /\ Append(q, t)[i] = q[i]
                 \/ i = Len(q) + 1 /\ Append(q, t)[i] = t
      <4>1. /\ Len(q) \in Nat /\ DOMAIN q = 1 .. Len(q) /\ DOMAIN Append(q, t) = 1 .. Len(q) + 1
            /\ Append(q, t)[Len(q) + 1] = t /\ \A j \in 1 .. Len(q) : Append(q, t)[j] = q[j]
        BY <1>6, <1>11
      <4>2. i \in 1 .. Len(q) \/ i = Len(q) + 1 BY <4>1
      <4> QED BY <4>1, <4>2
    <3>6. \A i \in DOMAIN q : q[i] # t /\ \E r \in Paths : r # p /\ q[i] = <<c, r>> /\ step[<<c, r>>] = "slot"
      <4> SUFFICES ASSUME NEW i \in DOMAIN q
                   PROVE  q[i] # t /\ \E r \in Paths : r # p /\ q[i] = <<c, r>> /\ step[<<c, r>>] = "slot"
        OBVIOUS
      <4>1. PICK r \in Paths : q[i] = <<c, r>> /\ step[<<c, r>>] = "slot" BY <1>1, <1>3 DEF SlotOK
      <4>2. r # p BY <1>9, <4>1
      <4> QED BY <4>1, <4>2
    <3>7. ASSUME NEW i \in DOMAIN Append(q, t)
          PROVE  /\ \E r \in Paths : Append(q, t)[i] = <<c, r>> /\ step'[<<c, r>>] = "slot"
                 /\ \A j \in DOMAIN Append(q, t) : Append(q, t)[i] = Append(q, t)[j] => i = j
      <4>1. \A x, y \in DOMAIN q : q[x] = q[y] => x = y BY <1>1, <1>3 DEF SlotOK
      <4>2. CASE i \in DOMAIN q /\ Append(q, t)[i] = q[i]
        <5>1. PICK r \in Paths : r # p /\ q[i] = <<c, r>> /\ step[<<c, r>>] = "slot" BY <3>6, <4>2
        <5>2. step'[<<c, r>>] = "slot" BY <1>13, <5>1
        <5>3. \A j \in DOMAIN Append(q, t) : Append(q, t)[i] = Append(q, t)[j] => i = j
          BY <3>5, <3>6, <4>1, <4>2
        <5> QED BY <4>2, <5>1, <5>2, <5>3
      <4>3. CASE i = Len(q) + 1 /\ Append(q, t)[i] = t
        <5>1. \A j \in DOMAIN Append(q, t) : Append(q, t)[i] = Append(q, t)[j] => i = j BY <3>5, <3>6, <4>3
        <5> QED BY <1>5, <3>1, <4>3, <5>1
      <4> QED BY <3>5, <4>2, <4>3
    <3> QED BY <2>1, <3>2, <3>3, <3>4, <3>7 DEF SlotOK
  <2> QED BY <2>3, <2>4
<1> QED BY <1>8, <1>15, <1>16, <1>17, <1>20, <1>21, <1>22, <1>23 DEF Kept, Fine

\* WalkFails: what is pending still settles.
LEMMA WalkFailsKept ==
  ASSUME OrderIndInv, NEW c \in Commands, WalkFails(c)
  PROVE  Kept(c) /\ cmd'[c].items = cmd[c].items
<1>1. OrderTypes /\ Fine(c) BY DEF OrderIndInv
<1>2. cmd[c] \in CmdType BY <1>1, Typed
<1>3. /\ ~Scans(c) /\ cmd[c].at = "open" /\ cmd' = [cmd EXCEPT ![c].walking = FALSE]
      /\ limiter' = limiter /\ sequence' = sequence /\ current' = current /\ step' = step /\ error' = error
  BY DEF WalkFails
<1>4. cmd'[c] = [cmd[c] EXCEPT !.walking = FALSE] /\ \A d \in Commands : d # c => cmd'[d] = cmd[d]
  BY <1>1, <1>3 DEF OrderTypes
<1>5. /\ cmd'[c].use = cmd[c].use /\ cmd'[c].items = cmd[c].items /\ cmd'[c].at = cmd[c].at
      /\ cmd'[c].own = cmd[c].own /\ cmd'[c].taken = cmd[c].taken
  BY <1>2, <1>4 DEF CmdType
<1>6. OrderTypes'
  <2>1. cmd' = [cmd EXCEPT ![c] = [cmd[c] EXCEPT !.walking = FALSE]] BY <1>3
  <2>2. [cmd[c] EXCEPT !.walking = FALSE] \in CmdType BY <1>2 DEF CmdType
  <2>3. cmd' \in [Commands -> CmdType] BY <1>1, <2>1, <2>2 DEF OrderTypes
  <2> QED BY <1>1, <1>3, <2>3 DEF OrderTypes
<1>7. \A d \in Commands : d # c => Same(d) BY <1>3, <1>4 DEF Same
<1>8. (Scans(c)' <=> Scans(c)) /\ (InOrder(c)' <=> InOrder(c)) BY <1>5 DEF Scans, InOrder
<1>9. Holding(c)' = Holding(c) /\ \A p : Clear(c, p)' <=> Clear(c, p) BY <1>3 DEF Holding, Clear
<1>10. CmdOK(c)' BY <1>1, <1>3, <1>5, <1>8 DEF Fine, CmdOK
<1>11. SeqOK(c)'
  <2>1. Clear(c, sequence[c].next)' <=> Clear(c, sequence[c].next) BY <1>3 DEF Clear
  <2> QED BY <1>1, <1>3, <1>5, <1>8, <2>1 DEF Fine, SeqOK
<1>12. InTurn(c)' BY <1>1, <1>3, <1>5, <1>8, <1>9 DEF Fine, InTurn
<1>13. HaltOK(c)' BY <1>1, <1>3, <1>5, <1>8 DEF Fine, HaltOK
<1>14. ErrorOK(c)' BY <1>1, <1>3, <1>5, <1>8 DEF Fine, ErrorOK
<1>15. OverOK(c)' BY <1>3, <1>5 DEF OverOK
<1>16. SlotOK(c)' BY <1>1, <1>3, <1>8, <1>9 DEF Fine, SlotOK
<1> QED BY <1>5, <1>6, <1>7, <1>10, <1>11, <1>12, <1>13, <1>14, <1>15, <1>16 DEF Kept, Fine

\* A set of paths has a first one.
LEMMA MinPathIs ==
  ASSUME NEW S \in SUBSET Paths, S # {}
  PROVE  MinPath(S) \in S /\ \A q \in S : MinPath(S) <= q
<1>1. S \subseteq Nat BY PathsFinite
<1>2. PICK x \in S : \A y \in S : ~(y < x) BY <1>1, LeastOf
<1>3. \A y \in S : x <= y BY <1>1, <1>2
<1> QED BY <1>3 DEF MinPath

\* The first failed path of a staging command failed by itself.
LEMMA FirstFailsItself ==
  ASSUME OrderIndInv, NEW c \in Commands, cmd[c].own, ~Scans(c), FailedPaths(c) # {}
  PROVE  /\ MinPath(FailedPaths(c)) \in FailedPaths(c)
         /\ error[<<c, MinPath(FailedPaths(c))>>] = MinPath(FailedPaths(c))
<1> DEFINE p == MinPath(FailedPaths(c))
           e == error[<<c, p>>]
<1>1. OrderTypes /\ ErrorOK(c) BY DEF OrderIndInv, Fine
<1>2. FailedPaths(c) \in SUBSET Paths BY DEF FailedPaths, Done
<1>3. p \in FailedPaths(c) /\ \A r \in FailedPaths(c) : p <= r BY <1>2, MinPathIs
<1> HIDE DEF p
<1>4. p \in Paths /\ e # 0 BY <1>3 DEF FailedPaths, Done
<1>5. e \in Paths BY <1>1, <1>4, PairIs, NAssumption DEF OrderTypes, Paths
<1>6. e <= p /\ error[<<c, e>>] = e /\ (e # p => step[<<c, e>>] = "done") BY <1>1, <1>4 DEF ErrorOK
<1>7. e = p
  <2> SUFFICES ASSUME e # p PROVE FALSE OBVIOUS
  <2>1. e \in FailedPaths(c) BY <1>4, <1>5, <1>6 DEF FailedPaths, Done
  <2>2. p <= e BY <1>3, <2>1
  <2>3. e \in Nat /\ p \in Nat BY <1>4, <1>5, PathsFinite
  <2> QED BY <1>6, <2>2, <2>3
<1> QED BY <1>3, <1>7 DEF p

\* Close: a command ends, its order leaves the Context, and a staging command reports its first failure.
LEMMA CloseKept ==
  ASSUME OrderIndInv, NEW c \in Commands, Close(c)
  PROVE  Kept(c) /\ cmd'[c].items = cmd[c].items
<1>1. OrderTypes /\ Fine(c) /\ CmdOK(c) /\ c # None BY ScopesAssumption DEF OrderIndInv, Fine, Scopes
<1>2. cmd[c] \in CmdType /\ cmd[c].taken \in Nat /\ cmd[c].taken <= N BY <1>1, Typed
<1>3. PICK p \in (IF Reported(c) = {} THEN {0} ELSE Reported(c)) :
        cmd' = [cmd EXCEPT ![c].at = "over", ![c].result = IF p = 0 THEN 0 ELSE error[<<c, p>>]]
  BY DEF Close
<1>4. /\ cmd[c].at = "open" /\ Settled(c) /\ current' = (IF cmd[c].own THEN None ELSE current)
      /\ limiter' = limiter /\ sequence' = sequence /\ step' = step /\ error' = error
  BY DEF Close
<1> DEFINE x == IF p = 0 THEN 0 ELSE error[<<c, p>>]
<1>5. Reported(c) \subseteq FailedPaths(c) /\ FailedPaths(c) \subseteq Paths BY DEF Reported, FailedPaths, Done
<1>6. x \in 0 .. N
  <2>1. p = 0 \/ p \in Paths BY <1>3, <1>5
  <2> QED BY <1>1, <2>1, PairIs, NAssumption DEF OrderTypes
<1>7. cmd' = [cmd EXCEPT ![c].at = "over", ![c].result = x] BY <1>3
<1> HIDE DEF x
<1>8. cmd'[c] = [cmd[c] EXCEPT !.at = "over", !.result = x] /\ \A d \in Commands : d # c => cmd'[d] = cmd[d]
  BY <1>1, <1>7 DEF OrderTypes
<1>9. /\ cmd'[c].use = cmd[c].use /\ cmd'[c].items = cmd[c].items /\ cmd'[c].at = "over"
      /\ cmd'[c].own = cmd[c].own /\ cmd'[c].taken = cmd[c].taken
      /\ cmd'[c].walking = cmd[c].walking /\ cmd'[c].result = x
  BY <1>2, <1>8 DEF CmdType
<1>10. OrderTypes'
  <2>1. cmd' = [cmd EXCEPT ![c] = [cmd[c] EXCEPT !.at = "over", !.result = x]] BY <1>7
  <2>2. [cmd[c] EXCEPT !.at = "over", !.result = x] \in CmdType BY <1>2, <1>6 DEF CmdType
  <2>3. cmd' \in [Commands -> CmdType] BY <1>1, <2>1, <2>2 DEF OrderTypes
  <2>4. current' \in Commands \cup {None} BY <1>1, <1>4 DEF OrderTypes
  <2> QED BY <1>1, <1>4, <2>3, <2>4 DEF OrderTypes
<1>11. current = c <=> cmd[c].own BY <1>1, <1>4 DEF CmdOK, InOrder
<1>12. ASSUME NEW d \in Commands, d # c PROVE Same(d)
  <2>1. d # None BY ScopesAssumption DEF Scopes
  <2>2. current' = d <=> current = d BY <1>4, <1>11, <1>12, <2>1
  <2> QED BY <1>4, <1>8, <1>12, <2>2 DEF Same
<1>13. (Scans(c)' <=> Scans(c)) /\ ~InOrder(c)' BY <1>9 DEF Scans, InOrder
<1>14. CmdOK(c)'
  <2>1. current' # c BY <1>1, <1>4, <1>11
  <2> QED BY <1>1, <1>4, <1>9, <1>13, <2>1 DEF CmdOK
<1>15. SeqOK(c)'
  <2>1. Clear(c, sequence[c].next)' <=> Clear(c, sequence[c].next) BY <1>4 DEF Clear
  <2> QED BY <1>1, <1>4, <1>9, <1>13, <2>1 DEF Fine, SeqOK
<1>16. InTurn(c)' BY <1>13 DEF InTurn
<1>17. HaltOK(c)' BY <1>1, <1>4, <1>9, <1>13 DEF Fine, HaltOK
<1>18. ErrorOK(c)' BY <1>1, <1>4, <1>9, <1>13 DEF Fine, ErrorOK
<1>19. SlotOK(c)'
  <2>1. Holding(c)' = Holding(c) BY <1>4 DEF Holding
  <2> QED BY <1>1, <1>4, <1>13, <2>1 DEF Fine, SlotOK
<1>20. OverOK(c)'
  <2> SUFFICES ASSUME cmd[c].own, ~Scans(c) PROVE OverOK(c)' BY <1>9, <1>13 DEF OverOK
  <2>1. Done(c) = 1 .. cmd[c].taken BY <1>4 DEF Settled
  <2>2. ASSUME NEW r \in Paths PROVE step[<<c, r>>] \in {"new", "done"}
    <3>1. r \in Nat /\ r # 0 BY <1>1, Typed
    <3>2. CASE r <= cmd[c].taken
      <4>1. r \in Done(c) BY <1>2, <2>1, <3>1, <3>2
      <4> QED BY <4>1 DEF Done
    <3>3. CASE r > cmd[c].taken BY <1>1, <3>3 DEF CmdOK
    <3> QED BY <1>2, <3>1, <3>2, <3>3
  <2>3. FailedPaths(c)' = FailedPaths(c) BY <1>4 DEF FailedPaths, Done
  <2>4. ASSUME cmd[c].walking PROVE x = IF FailedPaths(c) = {} THEN 0 ELSE MinPath(FailedPaths(c))
    <3>1. CASE FailedPaths(c) = {}
      <4>1. Reported(c) = {} BY <1>5, <3>1
      <4> QED BY <1>3, <3>1, <4>1 DEF x
    <3>2. CASE FailedPaths(c) # {}
      <4> DEFINE m == MinPath(FailedPaths(c))
      <4>1. m \in FailedPaths(c) /\ error[<<c, m>>] = m BY <3>2, FirstFailsItself
      <4> HIDE DEF m
      <4>2. Reported(c) = {m} BY <2>4, <4>1 DEF Reported, m
      <4>3. p = m BY <1>3, <4>2
      <4>4. m # 0 BY <1>1, <1>5, <4>1, Typed
      <4> QED BY <3>2, <4>1, <4>3, <4>4 DEF x, m
    <3> QED BY <3>1, <3>2
  <2> QED BY <1>4, <1>9, <2>2, <2>3, <2>4 DEF OverOK
<1> QED BY <1>9, <1>10, <1>12, <1>14, <1>15, <1>16, <1>17, <1>18, <1>19, <1>20 DEF Kept, Fine

------------------------------
(* The theorems. *)

\* A step that keeps one command and touches no other keeps the invariant.
LEMMA KeptInv ==
  ASSUME OrderIndInv, NEW c \in Commands, Kept(c), \A d \in Commands : cmd'[d].items = cmd[d].items
  PROVE  OrderIndInv'
<1>1. \A d \in Commands : Fine(d)' BY SameFine DEF Kept, OrderIndInv
<1>2. Alone' BY DEF OrderIndInv, Alone
<1> QED BY <1>1, <1>2 DEF Kept, OrderIndInv

\* A step of the filters and their pool touches no command.
LEMMA PoolStepInv ==
  ASSUME OrderIndInv, UNCHANGED orderVars
  PROVE  OrderIndInv'
<1>1. OrderTypes' BY DEF OrderIndInv, OrderTypes, orderVars
<1>2. \A d \in Commands : Same(d) BY DEF Same, orderVars
<1>3. \A d \in Commands : Fine(d)' BY <1>2, SameFine DEF OrderIndInv
<1>4. Alone' BY DEF OrderIndInv, Alone, orderVars
<1> QED BY <1>1, <1>3, <1>4 DEF OrderIndInv

\* Every step of a task keeps its command as it should be.
LEMMA TaskKept ==
  ASSUME OrderIndInv, NEW c \in Commands, NEW p \in Paths, Task(<<c, p>>)
  PROVE  Kept(c)
<1> DEFINE t == <<c, p>>
<1>1. OrderTypes /\ t \in Tasks /\ Owner(t) = c /\ Path(t) = p /\ (Smudging(t) <=> c \in Smudges)
  BY PairIs DEF OrderIndInv
<1>2. error = [error EXCEPT ![t] = error[t]] BY <1>1 DEF OrderTypes
<1>3. c \in Smudges => Scans(c) BY DEF OrderIndInv, Fine, CmdOK, Scans, Checkout
<1>4. CASE ReadPath(t)
  <2>1. step[t] = "read" /\ cmd' = cmd /\ limiter' = limiter /\ current' = current BY <1>4 DEF ReadPath
  <2>2. CASE step' = [step EXCEPT ![t] = "ended"] /\ sequence' = sequence /\ error' = error
    <3>1. error' = [error EXCEPT ![<<c, p>>] = error[<<c, p>>]] BY <1>2, <2>2
    <3>2. step' = [step EXCEPT ![<<c, p>>] = "ended"] /\ sequence' = sequence BY <2>2
    <3> QED BY <2>1, <3>1, <3>2, PlainKept
  <2>3. CASE Scans(c) /\ c \notin Smudges /\ AdmitClean(t) BY <2>1, <2>3, AdmitCleanKept
  <2>4. CASE c \in Smudges /\ step' = [step EXCEPT ![t] = "go"] /\ sequence' = sequence /\ error' = error
    <3>1. error' = [error EXCEPT ![<<c, p>>] = error[<<c, p>>]] BY <1>2, <2>4
    <3>2. step' = [step EXCEPT ![<<c, p>>] = "go"] /\ sequence' = sequence BY <2>4
    <3> QED BY <2>1, <2>4, <3>1, <3>2, PlainKept
  <2>5. CASE ~Scans(c) /\ AdmitWrite(t) BY <2>1, <2>5, AdmitWriteKept
  <2>6. CASE /\ step' = [step EXCEPT ![t] = "ended"] /\ error' = [error EXCEPT ![t] = p] /\ sequence' = sequence
    <3>1. p \in {error[<<c, p>>], p} OBVIOUS
    <3> QED BY <2>1, <2>6, <3>1, PlainKept
  <2> QED BY <1>1, <1>4, <2>2, <2>3, <2>4, <2>5, <2>6 DEF ReadPath
<1>5. CASE ConvertPath(t)
  <2>1. step[t] = "convert" /\ cmd' = cmd /\ limiter' = limiter /\ current' = current BY <1>5 DEF ConvertPath
  <2>2. CASE AdmitClean(t)
    <3>1. c \notin Smudges BY <2>1 DEF OrderIndInv, Fine, CmdOK
    <3> QED BY <2>1, <2>2, <3>1, AdmitCleanKept
  <2>3. CASE step' = [step EXCEPT ![t] = "write"] /\ sequence' = sequence /\ error' = error
    <3>1. error' = [error EXCEPT ![<<c, p>>] = error[<<c, p>>]] BY <1>2, <2>3
    <3>2. step' = [step EXCEPT ![<<c, p>>] = "write"] /\ sequence' = sequence BY <2>3
    <3> QED BY <2>1, <3>1, <3>2, PlainKept
  <2> QED BY <1>5, <2>2, <2>3 DEF ConvertPath
<1>6. CASE BeginClean(t)
  <2>1. /\ step[t] = "go" /\ cmd' = cmd /\ limiter' = limiter /\ current' = current
        /\ step' = [step EXCEPT ![<<c, p>>] = "clean"] /\ sequence' = sequence /\ error' = error
    BY <1>6 DEF BeginClean
  <2>2. error' = [error EXCEPT ![<<c, p>>] = error[<<c, p>>]] BY <1>2, <2>1
  <2> QED BY <2>1, <2>2, PlainKept
<1>7. CASE EndClean(t) BY <1>7, EndCleanKept
<1>8. CASE WriteBlob(t)
  <2>1. /\ step[t] = "write" /\ cmd' = cmd /\ limiter' = limiter /\ current' = current
        /\ step' = [step EXCEPT ![<<c, p>>] = "ended"] /\ sequence' = sequence
        /\ error' = error \/ error' = [error EXCEPT ![<<c, p>>] = p]
    BY <1>1, <1>8 DEF WriteBlob
  <2>2. PICK e \in {error[<<c, p>>], p} : error' = [error EXCEPT ![<<c, p>>] = e] BY <1>2, <2>1
  <2> QED BY <2>1, <2>2, PlainKept
<1>9. CASE EndItem(t) BY <1>9, EndItemKept
<1>10. CASE FreeSlot(t) BY <1>10, FreeSlotKept
<1>11. CASE SettleTurn(t) BY <1>11, SettleTurnKept
<1> QED BY <1>4, <1>5, <1>6, <1>7, <1>8, <1>9, <1>10, <1>11 DEF Task

\* No task changes how many paths a command has.
LEMMA TaskItems ==
  ASSUME OrderIndInv, NEW c \in Commands, NEW p \in Paths, Task(<<c, p>>)
  PROVE  \A d \in Commands : cmd'[d].items = cmd[d].items
<1> DEFINE t == <<c, p>>
<1>1. CASE EndItem(t)
  <2>1. \A d \in Commands : cmd[d] \in CmdType BY Typed DEF OrderIndInv
  <2>2. Owner(t) = c /\ cmd \in [Commands -> CmdType] BY PairIs DEF OrderIndInv, OrderTypes
  <2>3. \E n : cmd' = [cmd EXCEPT ![c].runners = n] BY <1>1, <2>2 DEF EndItem
  <2>4. PICK n : cmd' = [cmd EXCEPT ![c].runners = n] BY <2>3
  <2> QED BY <2>1, <2>2, <2>4 DEF CmdType
<1>2. CASE ~EndItem(t)
  <2>1. cmd' = cmd
    BY <1>2 DEF Task, ReadPath, ConvertPath, BeginClean, EndClean, WriteBlob, FreeSlot, SettleTurn
  <2> QED BY <2>1
<1> QED BY <1>1, <1>2

\* The invariant holds where the commands start.
LEMMA OrderInit ==
  ASSUME LoneCleaner, Init
  PROVE  OrderIndInv
<1>1. PICK items \in Mixes, use \in [Commands -> Uses \cup {Checkout}] :
        /\ \A c \in Commands : use[c] = Checkout <=> c \in Smudges
        /\ cmd = [c \in Commands |->
                   [use |-> use[c], items |-> items[c], at |-> IF items[c] = 0 THEN "over" ELSE "idle",
                    own |-> FALSE, taken |-> 0, walking |-> TRUE, runners |-> 0, result |-> 0]]
  BY DEF Init
<1>2. /\ limiter = [c \in Commands |-> [active |-> 0, queue |-> <<>>]]
      /\ sequence = [c \in Commands |-> NoSequence] /\ current = None
      /\ step = [t \in Tasks |-> "new"] /\ error = [t \in Tasks |-> 0]
  BY DEF Init
<1>3. items \in [Commands -> 0 .. N] /\ N \in Nat BY <1>1, LimitAssumption, NAssumption
<1>4. \A c \in Commands :
        /\ cmd[c].use = use[c] /\ cmd[c].items = items[c] /\ cmd[c].own = FALSE /\ cmd[c].taken = 0
        /\ cmd[c].at = IF items[c] = 0 THEN "over" ELSE "idle"
        /\ limiter[c].active = 0 /\ limiter[c].queue = <<>>
        /\ c # None
  BY <1>1, <1>2, ScopesAssumption DEF Scopes
<1>5. \A c \in Commands, p \in Paths : step[<<c, p>>] = "new" /\ error[<<c, p>>] = 0 BY <1>2, PairIs
<1>6. OrderTypes
  <2>1. cmd \in [Commands -> CmdType] BY <1>1, <1>3 DEF CmdType
  <2>2. NoSequence \in SequenceType BY <1>3, NAssumption DEF NoSequence, SequenceType, Paths
  <2>3. sequence \in [Commands -> SequenceType] BY <1>2, <2>2
  <2>4. limiter \in [Commands -> [active : Int, queue : Seq(Tasks)]] BY <1>2
  <2>5. step \in [Tasks -> Steps] /\ error \in [Tasks -> 0 .. N] BY <1>2, <1>3 DEF Steps
  <2> QED BY <1>2, <2>1, <2>3, <2>4, <2>5 DEF OrderTypes
<1>7. Alone BY <1>1, <1>4 DEF Alone, LoneCleaner
<1>8. ASSUME NEW c \in Commands PROVE Fine(c)
  <2>1. CmdOK(c)
    <3>1. cmd[c].at = "idle" => cmd[c].items # 0 BY <1>4
    <3>2. ~InOrder(c) /\ current # c BY <1>2, <1>4 DEF InOrder
    <3>3. cmd[c].taken <= cmd[c].items BY <1>3, <1>4
    <3> QED BY <1>1, <1>4, <1>5, <3>1, <3>2, <3>3 DEF CmdOK
  <2>2. SeqOK(c) /\ HaltOK(c) /\ ErrorOK(c) /\ OverOK(c) BY <1>4 DEF SeqOK, HaltOK, ErrorOK, OverOK
  <2>3. InTurn(c) BY <1>4 DEF InTurn, InOrder
  <2>4. SlotOK(c)
    <3>1. Holding(c) = {} BY <1>5 DEF Holding
    <3>2. Cardinality(Holding(c)) = 0 BY <3>1, FS_EmptySet
    <3> QED BY <1>4, <3>2, LimitAssumption DEF SlotOK
  <2> QED BY <2>1, <2>2, <2>3, <2>4 DEF Fine
<1> QED BY <1>6, <1>7, <1>8 DEF OrderIndInv

\* Every step keeps the invariant.
LEMMA OrderStep ==
  ASSUME OrderIndInv, [Next]_vars
  PROVE  OrderIndInv'
<1>1. CASE \E c \in Commands : Command(c) \/ WalkFails(c)
  <2>1. PICK c \in Commands : Command(c) \/ WalkFails(c) BY <1>1
  <2>2. Kept(c) /\ cmd'[c].items = cmd[c].items
    BY <2>1, OpenKept, NextItemKept, DispatchKept, CloseKept, WalkFailsKept DEF Command
  <2>3. \A d \in Commands : cmd'[d].items = cmd[d].items BY <2>2 DEF Kept, Same
  <2> QED BY <2>2, <2>3, KeptInv
<1>2. CASE \E t \in Tasks : Task(t)
  <2>1. PICK t \in Tasks : Task(t) BY <1>2
  <2>2. PICK c \in Commands, p \in Paths : t = <<c, p>> BY TaskIs
  <2>3. Kept(c) /\ \A d \in Commands : cmd'[d].items = cmd[d].items BY <2>1, <2>2, TaskKept, TaskItems
  <2> QED BY <2>3, KeptInv
<1>3. CASE UNCHANGED orderVars BY <1>3, PoolStepInv
<1> QED BY <1>1, <1>2, <1>3 DEF Next, Progress, Mishap, Pool, vars

\* Whatever the reads, cleans and failures do, the paths of the command that cleans are taken,
\* admitted, released and settled as OrderIndInv says.
THEOREM OrderSound ==
  ASSUME LoneCleaner
  PROVE  Spec => []OrderIndInv
<1>1. Init => OrderIndInv BY OrderInit
<1>2. OrderIndInv /\ [Next]_vars => OrderIndInv' BY OrderStep
<1> QED BY <1>1, <1>2, PTL DEF Spec

\* What the inductive invariant says of the order of cleans and writes and of the slots.
LEMMA OrderImplies ==
  ASSUME OrderIndInv
  PROVE  OrderInv /\ FirstFailureReported
<1>1. OrderTypes /\ \A c \in Commands : Fine(c) BY DEF OrderIndInv
<1>2. CleansInOrder
  <2> SUFFICES ASSUME NEW c \in Commands, InOrder(c), NEW p \in Paths, NEW q \in Paths,
                      p < q, step[<<c, q>>] \in {"go", "clean"}
               PROVE  step[<<c, p>>] \in {"write", "ended", "freed", "done"}
    BY DEF CleansInOrder
  <2>1. p \in sequence[c].released BY <1>1 DEF Fine, InTurn, Clear
  <2> QED BY <1>1, <2>1 DEF Fine, SeqOK, InOrder
<1>3. WritesStopAtFailure
  <2> SUFFICES ASSUME NEW c \in Commands, InOrder(c), cmd[c].use.span = "write",
                      NEW p \in Paths, NEW q \in Paths,
                      p < q, step[<<c, q>>] \in {"convert", "go", "clean", "write"}
               PROVE  step[<<c, p>>] = "done" /\ error[<<c, p>>] = 0
    BY DEF WritesStopAtFailure
  <2>1. p \in sequence[c].released BY <1>1 DEF Fine, InTurn, Clear
  <2>2. cmd[c].own /\ step[<<c, p>>] = "done" BY <1>1, <2>1 DEF Fine, SeqOK, InOrder
  <2>3. ~Scans(c)
    <3>1. cmd[c].use \in Uses \cup {Checkout} /\ cmd[c].use # Checkout
      BY <1>1, <2>2, Typed DEF Fine, CmdOK, CmdType
    <3> QED BY <3>1, UsesAssumption DEF Scans
  <2>4. ~(sequence[c].halted # 0 /\ q > sequence[c].halted) BY <1>1, <2>2, <2>3 DEF Fine, HaltOK
  <2>5. ~(sequence[c].halted # 0 /\ sequence[c].halted <= p)
    <3>1. sequence[c].halted \in Nat /\ p \in Nat /\ q \in Nat BY <1>1, Typed
    <3> QED BY <2>4, <3>1
  <2> QED BY <1>1, <2>2, <2>3, <2>5 DEF Fine, HaltOK
<1>4. SlotsHandedOver BY <1>1 DEF Fine, SlotOK, SlotsHandedOver
<1>5. FirstFailureReported BY <1>1 DEF Fine, OverOK, FirstFailureReported
<1> QED BY <1>2, <1>3, <1>4, <1>5 DEF OrderInv

\* OrderInv: with one command that cleans and any number that smudge, paths are cleaned in index
\* order, in a write span nothing is converted or written behind a path that failed, and slots pass
\* from task to task, for any number of paths, slots and runners.
THEOREM PathsInOrder ==
  ASSUME LoneCleaner
  PROVE  Spec => []OrderInv
<1>1. Spec => []OrderIndInv BY OrderSound
<1>2. OrderIndInv => OrderInv BY OrderImplies
<1> QED BY <1>1, <1>2, PTL

\* FirstFailureReported: a staging command that had the order to itself throws the failure of the
\* first path that failed, in index order, whichever task failed first.
THEOREM FirstFailureThrown ==
  ASSUME LoneCleaner
  PROVE  Spec => []FirstFailureReported
<1>1. Spec => []OrderIndInv BY OrderSound
<1>2. OrderIndInv => FirstFailureReported BY OrderImplies
<1> QED BY <1>1, <1>2, PTL

------------------------------
(* The filter pool: its inductive invariant. *)

\* The phases of a conversion whose turn it is; the ones in which it waits for an answer
\* to its request; and the ones of a scope that closes its pool.
Exchange == {"status", "content", "trailing"}
Talking == {"greeting", "capabilities", "stopping", "refusing"} \cup Exchange
Leaving == {"draining", "closing"}

Words == {"welcome", "other", "both", "smudge", "unknown", "success", "content", "error", "abort"}
SectionType == [of : Tasks, says : Words]
ChildType ==
  [state : {"none", "live", "exited"}, closed : BOOLEAN, able : SUBSET {"clean", "smudge"},
   asked : {Nothing} \cup [what : {"greeting", "capabilities", "request"}, by : Tasks],
   out : Seq(SectionType)]
OnePoolType == [users : Int, queue : Seq(Tasks), running : [Drivers -> Tasks \cup {None}]]

PoolTypes ==
  /\ open \in Scopes \cup {None}
  /\ inPool \in [Scopes -> Scopes \cup {None}]
  /\ at \in [Scopes -> Phases]
  /\ talk \in [Tasks -> Tasks \cup {None}]
  /\ outcome \in [Tasks -> [how : {"none", "bytes", "failed", "thrown"}, of : Tasks \cup {None}]]
  /\ pool \in [Scopes -> OnePoolType]
  /\ child \in [Tasks -> ChildType]

\* Where a scope is, and with whom. A pool is named after a scope that has begun, and a scope
\* that closes one is the only one left in it.
ScopeOK(u) ==
  /\ inPool[u] = None <=> at[u] \in {"idle", "left"}
  /\ inPool[u] # None => at[inPool[u]] # "idle"
  /\ at[u] \in Leaving => \A v \in Scopes : inPool[v] = inPool[u] => v = u
  /\ at[u] \in {"queued"} \cup Talking => u \in Tasks /\ \E i \in DOMAIN pool[inPool[u]].queue : pool[inPool[u]].queue[i] = u
  /\ at[u] \in Talking => pool[inPool[u]].queue[1] = u

\* The users of a pool and its queue.
Users(s) == {u \in Scopes : inPool[u] = s /\ at[u] \notin Leaving}
PlaceOK(s) ==
  /\ pool[s].users = Cardinality(Users(s))
  /\ pool[s].users > 0 <=> open = s
  /\ \A i \in DOMAIN pool[s].queue :
       /\ inPool[pool[s].queue[i]] = s /\ at[pool[s].queue[i]] \in {"queued"} \cup Talking
       /\ \A j \in DOMAIN pool[s].queue : pool[s].queue[i] = pool[s].queue[j] => i = j

Places == \A s \in Scopes : ScopeOK(s) /\ PlaceOK(s)

\* A process in a pool is of the driver it is kept for, has been set up, and is in that pool
\* only; the pool is in use or being closed.
RunsOK(s, d) == LET k == pool[s].running[d] IN k # None =>
  /\ DriverOf(k) = d /\ at[k] \notin {"idle", "queued", "greeting", "capabilities"}
  /\ \A r \in Scopes, e \in Drivers : pool[r].running[e] = k => r = s
  /\ open = s \/ \E u \in Scopes : inPool[u] = s /\ at[u] \in Leaving

\* Nothing is asked of a process, and nothing is left to be read from it.
Quiet(k) == child[k].asked = Nothing /\ child[k].out = <<>>

Runs == \A s \in Scopes, d \in Drivers : RunsOK(s, d)

\* A process in a pool is quiet, or speaks with one conversion.
Attended == \A s \in Scopes, d \in Drivers : pool[s].running[d] # None =>
  \/ Quiet(pool[s].running[d])
  \/ \E t \in Tasks : at[t] \in Exchange /\ talk[t] = pool[s].running[d]

\* What is still to be read is of t, and at most n sections.
Rest(t, k, n) == Len(child[k].out) <= n /\ \A i \in DOMAIN child[k].out : child[k].out[i].of = t

\* The exchange of a conversion with its process: a greeting is answered by one section, a
\* request by three, of which the first says whether there are more.
TalkOK(t) ==
  LET k == talk[t] IN
  /\ at[t] \in {"greeting", "capabilities"} =>
       /\ k = t /\ pool[inPool[t]].running[DriverOf(t)] = None
       /\ Rest(t, t, 1) /\ child[t].asked \in {Nothing, Ask(at[t], t)}
       /\ child[t].asked # Nothing => child[t].out = <<>>
  /\ at[t] \in Exchange => k # None /\ k = pool[inPool[t]].running[DriverOf(t)]
  /\ at[t] = "status" =>
       /\ Rest(t, k, 3) /\ child[k].asked \in {Nothing, Ask("request", t)}
       /\ child[k].asked # Nothing => child[k].out = <<>>
       /\ child[k].out # <<>> /\ child[k].out[1].says \in {"error", "abort"} => Len(child[k].out) = 1
  /\ at[t] = "content" => Rest(t, k, 2) /\ child[k].asked = Nothing
  /\ at[t] = "trailing" => Rest(t, k, 1) /\ child[k].asked = Nothing /\ outcome[t] = Result("bytes", t)
  /\ at[t] \in {"stopping", "refusing"} =>
       k # None /\ child[k].closed /\ at[k] \notin {"idle", "queued"}
  /\ outcome[t].how = "bytes" => outcome[t].of = t

Speech == \A t \in Tasks : TalkOK(t)

PoolIndInv == PoolTypes /\ Places /\ Runs /\ Attended /\ Speech /\ NoStrayFilter

------------------------------
(* The filter pool: facts about its state. *)

\* What the types say of one pool, one process and one scope.
LEMMA PoolTyped ==
  ASSUME PoolTypes
  PROVE  /\ \A s \in Scopes : /\ pool[s] \in OnePoolType /\ pool[s].users \in Int
                              /\ pool[s].queue \in Seq(Tasks)
                              /\ pool[s].running \in [Drivers -> Tasks \cup {None}]
                              /\ at[s] \in Phases /\ inPool[s] \in Scopes \cup {None}
         /\ \A k \in Tasks : /\ child[k] \in ChildType /\ child[k].out \in Seq(SectionType)
                             /\ child[k].asked = Nothing \/ child[k].asked.by \in Tasks
                             /\ talk[k] \in Tasks \cup {None}
BY DEF PoolTypes, OnePoolType, ChildType

\* Tasks and commands are scopes, and none of them is None.
LEMMA ScopesAre ==
  /\ Tasks \subseteq Scopes /\ Commands \subseteq Scopes /\ None \notin Scopes
  /\ \A t \in Tasks : DriverOf(t) \in Drivers
<1>1. \A t \in Tasks : DriverOf(t) \in Drivers BY DEF Tasks, DriverOf, Drivers
<1> QED BY <1>1, ScopesAssumption DEF Scopes

\* Scopes are finitely many.
LEMMA ScopesFinite ==
  /\ IsFiniteSet(Scopes) /\ Cardinality(Scopes) \in Nat
  /\ \A S \in SUBSET Scopes : /\ IsFiniteSet(S) /\ Cardinality(S) \in Nat
                              /\ Cardinality(S) <= Cardinality(Scopes)
<1>1. IsFiniteSet(Tasks) BY PathsFinite, ScopesAssumption, FS_Product DEF Tasks
<1>2. IsFiniteSet(Scopes) BY <1>1, ScopesAssumption, FS_Union DEF Scopes
<1> QED BY <1>2, FS_Subset, FS_CardinalityType

\* A scope that is in a pool and does not close it is in the Context's pool.
LEMMA InUse ==
  ASSUME PoolTypes, Places, NEW u \in Scopes, inPool[u] # None, at[u] \notin Leaving
  PROVE  open = inPool[u] /\ open \in Scopes
<1> DEFINE s == inPool[u]
<1>1. s \in Scopes BY DEF PoolTypes
<1>2. u \in Users(s) /\ Users(s) \in SUBSET Scopes BY DEF Users
<1>3. IsFiniteSet(Users(s)) /\ Cardinality(Users(s)) \in Nat BY <1>2, ScopesFinite
<1>4. Cardinality(Users(s)) # 0 BY <1>2, <1>3, FS_EmptySet
<1>5. pool[s].users = Cardinality(Users(s)) /\ (pool[s].users > 0 <=> open = s) BY <1>1 DEF Places, PlaceOK
<1> QED BY <1>1, <1>3, <1>4, <1>5

\* It is in no pool only before it enters and after it has left.
LEMMA Inside ==
  ASSUME PoolTypes, Places, NEW u \in Scopes, at[u] \notin {"idle", "left"} \cup Leaving
  PROVE  inPool[u] = open /\ open \in Scopes /\ open # None
<1>1. inPool[u] # None BY DEF Places, ScopeOK
<1> QED BY <1>1, InUse

\* The pool of a scope that closes it is not the Context's, has no users and an empty queue.
LEMMA LeftAlone ==
  ASSUME PoolTypes, Places, NEW u \in Scopes, at[u] \in Leaving
  PROVE  /\ inPool[u] \in Scopes /\ inPool[u] # open
         /\ pool[inPool[u]].users = 0 /\ Users(inPool[u]) = {}
         /\ \A v \in Scopes : inPool[v] = inPool[u] => v = u
         /\ \A i \in DOMAIN pool[inPool[u]].queue : FALSE
<1> DEFINE s == inPool[u]
<1>1. s \in Scopes BY PoolTyped DEF Places, ScopeOK, Leaving
<1>2. \A v \in Scopes : inPool[v] = s => v = u BY DEF Places, ScopeOK
<1>3. Users(s) = {} BY <1>2 DEF Users
<1>4. pool[s].users = 0 /\ open # s BY <1>1, <1>3, FS_EmptySet DEF Places, PlaceOK
<1>5. \A i \in DOMAIN pool[s].queue : FALSE
  <2> SUFFICES ASSUME NEW i \in DOMAIN pool[s].queue PROVE FALSE OBVIOUS
  <2>1. pool[s].queue[i] \in Tasks BY <1>1, PoolTyped
  <2>2. inPool[pool[s].queue[i]] = s /\ at[pool[s].queue[i]] \in {"queued"} \cup Talking
    BY <1>1 DEF Places, PlaceOK
  <2>3. pool[s].queue[i] = u BY <1>2, <2>1, <2>2, ScopesAre
  <2> QED BY <2>2, <2>3 DEF Talking, Leaving, Exchange
<1> QED BY <1>1, <1>2, <1>3, <1>4, <1>5

\* One conversation speaks at a time: the first of the queue of the Context's pool.
InFront(t) == t \in Tasks /\ at[t] \in {"queued"} \cup Talking /\ pool[inPool[t]].queue[1] = t

\* One conversation at a time: that of the queue's head.
LEMMA OneTalks ==
  ASSUME PoolTypes, Places, NEW t, InFront(t)
  PROVE  /\ inPool[t] = open /\ open \in Scopes /\ pool[open].queue # <<>> /\ Head(pool[open].queue) = t
         /\ \A u \in Tasks : at[u] \in Talking => u = t
<1>1. t \in Scopes BY ScopesAre DEF InFront
<1>2. inPool[t] = open /\ open \in Scopes BY <1>1, Inside DEF InFront, Talking, Leaving, Exchange
<1>3. \E i \in DOMAIN pool[open].queue : pool[open].queue[i] = t BY <1>1, <1>2 DEF Places, ScopeOK, InFront
<1>4. pool[open].queue # <<>> /\ Head(pool[open].queue) = t
  <2>1. pool[open].queue \in Seq(Tasks) BY <1>2, PoolTyped
  <2> QED BY <1>2, <1>3, <2>1 DEF InFront
<1>5. ASSUME NEW u \in Tasks, at[u] \in Talking PROVE u = t
  <2>1. inPool[u] = open BY <1>5, Inside, ScopesAre DEF Talking, Leaving, Exchange
  <2>2. pool[inPool[u]].queue[1] = u BY <1>5, ScopesAre DEF Places, ScopeOK
  <2> QED BY <1>2, <2>1, <2>2 DEF InFront
<1> QED BY <1>2, <1>4, <1>5

\* Who speaks, and who takes its turn, is in front.
LEMMA FrontIs ==
  ASSUME PoolTypes, Places, NEW t \in Tasks,
         at[t] \in Talking \/ (at[t] = "queued" /\ MyTurn(t))
  PROVE  InFront(t)
<1>1. CASE at[t] \in Talking BY <1>1, ScopesAre DEF Places, ScopeOK, InFront
<1>2. CASE at[t] = "queued" /\ MyTurn(t)
  <2>1. inPool[t] \in Scopes BY <1>2, Inside, ScopesAre DEF Leaving
  <2>2. pool[inPool[t]].queue \in Seq(Tasks) BY <2>1, PoolTyped
  <2>3. \E i \in DOMAIN pool[inPool[t]].queue : pool[inPool[t]].queue[i] = t
    BY <1>2, ScopesAre DEF Places, ScopeOK
  <2> QED BY <1>2, <2>2, <2>3 DEF InFront, MyTurn
<1> QED BY <1>1, <1>2

------------------------------
(* Scopes, users and queues. *)

\* A pool whose users and queue stay, and whose members stay where they are.
SamePlace(r) ==
  /\ pool'[r].users = pool[r].users /\ pool'[r].queue = pool[r].queue
  /\ open' = r <=> open = r
  /\ \A v \in Scopes : inPool'[v] = r <=> inPool[v] = r
  /\ \A v \in Scopes : inPool[v] = r =>
       /\ at'[v] \in Leaving <=> at[v] \in Leaving
       /\ at[v] \in {"queued"} \cup Talking => at'[v] \in {"queued"} \cup Talking

\* A scope whose pool and users are as before is in order as before.
LEMMA SamePlaceOK ==
  ASSUME PoolTypes, Places, NEW r \in Scopes, SamePlace(r)
  PROVE  PlaceOK(r)'
<1>1. Users(r)' = Users(r) BY DEF Users, SamePlace
<1>2. pool[r].queue \in Seq(Tasks) BY PoolTyped
<1>3. PlaceOK(r) BY DEF Places
<1>4. \A i \in DOMAIN pool[r].queue : pool[r].queue[i] \in Scopes BY <1>2, ScopesAre
<1> QED BY <1>1, <1>3, <1>4 DEF PlaceOK, SamePlace

\* A step of the conversation in front that keeps its turn.
LEMMA MovePlaces ==
  ASSUME PoolTypes, Places, NEW t, InFront(t), UNCHANGED <<open, inPool>>,
         NEW w \in Talking, at' = [at EXCEPT ![t] = w],
         \A r \in Scopes : pool'[r].users = pool[r].users /\ pool'[r].queue = pool[r].queue
  PROVE  Places'
<1>1. t \in Scopes /\ at'[t] = w /\ \A v \in Scopes \ {t} : at'[v] = at[v] BY ScopesAre DEF InFront, PoolTypes
<1>2. w \notin {"idle", "left", "draining", "closing", "in", "settled"} BY DEF Talking, Exchange
<1>3. at[t] \notin {"idle", "left", "draining", "closing", "in", "settled"} BY DEF Talking, Exchange, InFront
<1>4. ASSUME NEW r \in Scopes PROVE PlaceOK(r)'
  <2>1. SamePlace(r) BY <1>1, <1>2, <1>3 DEF SamePlace, Leaving
  <2> QED BY <2>1, SamePlaceOK
<1>5. ASSUME NEW u \in Scopes PROVE ScopeOK(u)'
  <2>1. ScopeOK(u) /\ inPool[u] \in Scopes \cup {None} BY PoolTyped DEF Places
  <2>2. CASE u = t
    <3>1. inPool[t] \in Scopes BY OneTalks
    <3> QED BY <1>1, <1>2, <1>3, <2>1, <2>2, <3>1 DEF ScopeOK, InFront, Leaving
  <2>3. CASE u # t
    <3>1. at'[u] = at[u] /\ inPool'[u] = inPool[u] BY <1>1, <2>3
    <3>2. inPool[u] # None => at'[inPool[u]] # "idle" /\ pool'[inPool[u]].queue = pool[inPool[u]].queue
      BY <1>1, <1>2, <2>1 DEF ScopeOK
    <3>3. at[u] \in {"queued"} \cup Talking => inPool[u] # None BY <2>1 DEF ScopeOK, Talking, Exchange
    <3> QED BY <2>1, <3>1, <3>2, <3>3 DEF ScopeOK
  <2> QED BY <2>2, <2>3
<1> QED BY <1>4, <1>5 DEF Places

\* The rest of a sequence is the sequence, one place on.
LEMMA TailAt ==
  ASSUME NEW S, NEW q \in Seq(S), q # <<>>
  PROVE  /\ Tail(q) \in Seq(S) /\ 1 \in DOMAIN q
         /\ \A i \in DOMAIN Tail(q) : i \in Int /\ i + 1 \in DOMAIN q /\ Tail(q)[i] = q[i + 1]
         /\ \A i \in DOMAIN q : i # 1 => i - 1 \in DOMAIN Tail(q) /\ Tail(q)[i - 1] = q[i]
OBVIOUS

\* The conversation in front is over, and the next one is in front.
LEMMA SettlePlaces ==
  ASSUME PoolTypes, Places, NEW t, InFront(t), UNCHANGED <<open, inPool>>,
         at' = [at EXCEPT ![t] = "settled"],
         \A r \in Scopes : /\ pool'[r].users = pool[r].users
                           /\ pool'[r].queue = IF r = inPool[t] THEN Tail(pool[r].queue) ELSE pool[r].queue
  PROVE  Places'
<1>1. t \in Scopes /\ t \in Tasks /\ at'[t] = "settled" /\ \A v \in Scopes \ {t} : at'[v] = at[v]
  BY ScopesAre DEF InFront, PoolTypes
<1>2. at[t] \notin {"idle", "left", "draining", "closing", "in", "settled"} BY DEF Talking, Exchange, InFront
<1>3. inPool[t] = open /\ open \in Scopes /\ pool[open].queue # <<>> /\ Head(pool[open].queue) = t BY OneTalks
<1> DEFINE q == pool[open].queue
           z == pool'[open].queue
<1>4. q \in Seq(Tasks) /\ z = Tail(q) BY <1>3, PoolTyped
<1>5. /\ z \in Seq(Tasks) /\ Len(z) = Len(q) - 1 /\ Len(q) \in Nat
      /\ \A i \in 1 .. Len(z) : z[i] = q[i + 1] /\ i + 1 \in 1 .. Len(q)
      /\ DOMAIN z = 1 .. Len(z) /\ DOMAIN q = 1 .. Len(q) /\ q[1] = t
  BY <1>3, <1>4
<1>6. /\ \A i \in DOMAIN z : i \in Int /\ i + 1 \in DOMAIN q /\ z[i] = q[i + 1]
      /\ \A i \in DOMAIN q : i # 1 => i - 1 \in DOMAIN z /\ z[i - 1] = q[i]
  BY <1>3, <1>4, TailAt
<1>7. \A i \in DOMAIN z : z[i] # t
  <2> SUFFICES ASSUME NEW i \in DOMAIN z, z[i] = t PROVE FALSE OBVIOUS
  <2>1. i \in 1 .. Len(z) BY <1>5
  <2>2. z[i] = q[i + 1] /\ i + 1 \in 1 .. Len(q) BY <1>5, <2>1
  <2>3. q[i + 1] = t BY <2>2
  <2>4. i + 1 \in DOMAIN q /\ 1 \in DOMAIN q BY <1>5, <2>1, <2>2
  <2>5. \A a, b \in DOMAIN q : q[a] = q[b] => a = b BY <1>3 DEF Places, PlaceOK
  <2>6. 1 = i + 1 BY <1>5, <2>3, <2>4, <2>5
  <2> QED BY <2>1, <2>6
<1>8. \A r \in Scopes : Users(r)' = Users(r) BY <1>1, <1>2 DEF Users, Leaving
<1>9. ASSUME NEW r \in Scopes PROVE PlaceOK(r)'
  <2>1. CASE r # open
    <3>1. PlaceOK(r) BY DEF Places
    <3>2. pool[r].queue \in Seq(Tasks) /\ pool'[r].queue = pool[r].queue /\ pool'[r].users = pool[r].users
      BY <2>1, <1>3, PoolTyped
    <3>3. \A i \in DOMAIN pool[r].queue : pool[r].queue[i] \in Scopes /\ pool[r].queue[i] # t
      BY <1>3, <2>1, <3>1, <3>2, ScopesAre DEF PlaceOK
    <3> QED BY <1>1, <1>8, <3>1, <3>2, <3>3 DEF PlaceOK
  <2>2. CASE r = open
    <3>1. pool'[r].users = Cardinality(Users(r)') /\ (pool'[r].users > 0 <=> open' = r)
      BY <1>8, <2>2 DEF Places, PlaceOK
    <3>2. ASSUME NEW i \in DOMAIN z
          PROVE  /\ inPool'[z[i]] = r /\ at'[z[i]] \in {"queued"} \cup Talking
                 /\ \A j \in DOMAIN z : z[i] = z[j] => i = j
      <4>1. i + 1 \in DOMAIN q /\ z[i] = q[i + 1] BY <1>6
      <4>2. z[i] \in Scopes \ {t}
        <5>1. z[i] \in Tasks BY <1>5
        <5> QED BY <1>7, <5>1, ScopesAre
      <4>3. inPool[q[i + 1]] = r /\ at[q[i + 1]] \in {"queued"} \cup Talking BY <2>2, <4>1 DEF Places, PlaceOK
      <4>4. ASSUME NEW j \in DOMAIN z, z[i] = z[j] PROVE i = j
        <5>1. j + 1 \in DOMAIN q /\ z[j] = q[j + 1] /\ j \in Int /\ i \in Int BY <1>6
        <5>2. \A a, b \in DOMAIN q : q[a] = q[b] => a = b BY <2>2 DEF Places, PlaceOK
        <5>3. q[i + 1] = q[j + 1] BY <4>1, <4>4, <5>1
        <5>4. i + 1 = j + 1 BY <4>1, <5>1, <5>2, <5>3
        <5> QED BY <5>1, <5>4
      <4> QED BY <1>1, <4>1, <4>2, <4>3, <4>4
    <3> QED BY <2>2, <3>1, <3>2 DEF PlaceOK
  <2> QED BY <2>1, <2>2
<1>10. ASSUME NEW u \in Scopes PROVE ScopeOK(u)'
  <2>1. ScopeOK(u) /\ inPool[u] \in Scopes \cup {None} BY PoolTyped DEF Places
  <2>2. CASE u = t BY <1>1, <1>2, <1>3, <2>1, <2>2 DEF ScopeOK, Leaving, Talking, Exchange
  <2>3. CASE u # t
    <3>1. at'[u] = at[u] /\ inPool'[u] = inPool[u] BY <1>1, <2>3
    <3>2. inPool[u] # None => at'[inPool[u]] # "idle" BY <1>1, <2>1 DEF ScopeOK
    <3>3. at[u] \notin Talking
      <4>1. u \in Tasks => at[u] \notin Talking BY <2>3, OneTalks
      <4> QED BY <2>1, <4>1 DEF ScopeOK
    <3>4. at[u] = "queued" =>
            u \in Tasks /\ \E i \in DOMAIN pool'[inPool[u]].queue : pool'[inPool[u]].queue[i] = u
      <4> SUFFICES ASSUME at[u] = "queued"
                   PROVE  u \in Tasks /\ \E i \in DOMAIN pool'[inPool[u]].queue : pool'[inPool[u]].queue[i] = u
        OBVIOUS
      <4>1. inPool[u] = open BY Inside DEF Leaving
      <4>2. u \in Tasks /\ \E i \in DOMAIN q : q[i] = u BY <2>1, <4>1 DEF ScopeOK
      <4>3. PICK i \in DOMAIN q : q[i] = u BY <4>2
      <4>4. i # 1 BY <1>5, <2>3, <4>3
      <4>5. i - 1 \in DOMAIN z /\ z[i - 1] = u BY <1>6, <4>3, <4>4
      <4> QED BY <4>1, <4>2, <4>5
    <3> QED BY <2>1, <3>1, <3>2, <3>3, <3>4 DEF ScopeOK
  <2> QED BY <2>2, <2>3
<1> QED BY <1>9, <1>10 DEF Places

\* A scope enters: it opens a pool that nobody was in, or joins one that nobody closes.
LEMMA EnterPlaces ==
  ASSUME PoolTypes, Places, NEW s \in Scopes, at[s] = "idle", Enter(s),
         NEW w \in {"in", "queued"}, w = "queued" => s \in Tasks, at' = [at EXCEPT ![s] = w],
         \A r \in Scopes :
           /\ pool'[r].users = IF r = Entered(s) THEN pool[r].users + 1 ELSE pool[r].users
           /\ pool'[r].queue = IF r = Entered(s) /\ w = "queued" THEN Append(pool[r].queue, s)
                                                               ELSE pool[r].queue
  PROVE  Places'
<1>1. PICK e \in Scopes : e = Entered(s) BY DEF Entered, PoolTypes
<1> DEFINE q == pool[e].queue
           z == pool'[e].queue
<1>2. /\ e = Entered(s) /\ open' = e /\ inPool[s] = None /\ open \in {e, None} /\ e # None
      /\ inPool'[s] = e /\ \A v \in Scopes \ {s} : inPool'[v] = inPool[v]
      /\ at'[s] = w /\ \A v \in Scopes \ {s} : at'[v] = at[v]
  BY <1>1, ScopesAre DEF Entered, Enter, PoolTypes, Places, ScopeOK
<1>3. \A v \in Scopes : inPool[v] = e => at[v] \notin Leaving
  <2>1. CASE open = None BY <2>1, <1>2 DEF Entered, Places, ScopeOK
  <2>2. CASE open # None BY <2>2, <1>2, LeftAlone
  <2> QED BY <2>1, <2>2
<1>4. Users(e)' = Users(e) \cup {s} /\ s \notin Users(e)
  <2>1. \A v \in Scopes : inPool'[v] = e /\ at'[v] \notin Leaving <=> v = s \/ (inPool[v] = e /\ at[v] \notin Leaving)
    BY <1>2 DEF Leaving
  <2> QED BY <1>2, <2>1 DEF Users
<1>5. IsFiniteSet(Users(e)) /\ Cardinality(Users(e)) \in Nat BY ScopesFinite DEF Users
<1>6. Cardinality(Users(e)') = Cardinality(Users(e)) + 1 BY <1>4, <1>5, FS_AddElement
<1>7. q \in Seq(Tasks) /\ \A i \in DOMAIN q : q[i] \in Scopes /\ inPool[q[i]] = e /\ at[q[i]] \in {"queued"} \cup Talking
  BY <1>2, PoolTyped, ScopesAre DEF Places, PlaceOK
<1>8. \A i \in DOMAIN q : q[i] # s BY <1>2, <1>7
<1>9. \A i, j \in DOMAIN q : q[i] = q[j] => i = j BY <1>2 DEF Places, PlaceOK
<1>10. /\ w = "in" => z = q
       /\ w = "queued" => /\ DOMAIN z = 1 .. Len(q) + 1 /\ DOMAIN q = 1 .. Len(q) /\ Len(q) \in Nat
                          /\ \A i \in 1 .. Len(q) : z[i] = q[i]
                          /\ z[Len(q) + 1] = s
  <2>1. w = "in" => z = q BY <1>2
  <2>2. w = "queued" => z = Append(q, s) /\ s \in Tasks BY <1>2
  <2>3. DOMAIN q = 1 .. Len(q) /\ Len(q) \in Nat BY <1>7
  <2>4. ASSUME w = "queued"
        PROVE  /\ DOMAIN z = 1 .. Len(q) + 1 /\ z[Len(q) + 1] = s
               /\ \A i \in 1 .. Len(q) : z[i] = q[i]
    BY <1>7, <2>2, <2>3, <2>4
  <2> QED BY <2>1, <2>3, <2>4
<1>11. ASSUME NEW r \in Scopes PROVE PlaceOK(r)'
  <2>1. CASE r # e
    <3>1. /\ pool'[r].users = pool[r].users /\ pool'[r].queue = pool[r].queue
          /\ r # None /\ (open' = r <=> open = r)
      BY <1>2, <2>1, ScopesAre
    <3>2. \A v \in Scopes : inPool'[v] = r <=> inPool[v] = r BY <1>2, <2>1, <3>1
    <3>3. \A v \in Scopes : inPool[v] = r => at'[v] = at[v] BY <1>2, <3>1
    <3>4. SamePlace(r) BY <3>1, <3>2, <3>3 DEF SamePlace
    <3> QED BY <3>4, SamePlaceOK
  <2>2. CASE r = e
    <3>1. pool[e].users = Cardinality(Users(e)) BY <1>2 DEF Places, PlaceOK
    <3>2. pool'[e].users = Cardinality(Users(e)') /\ pool'[e].users > 0 BY <1>2, <1>5, <1>6, <3>1
    <3>3. ASSUME NEW i \in DOMAIN z
          PROVE  /\ inPool'[z[i]] = e /\ at'[z[i]] \in {"queued"} \cup Talking
                 /\ \A j \in DOMAIN z : z[i] = z[j] => i = j
      <4>1. CASE w = "in" BY <1>2, <1>7, <1>8, <1>9, <1>10, <4>1
      <4>2. CASE w = "queued"
        <5>1. CASE i \in DOMAIN q
          <6>1. z[i] = q[i] /\ q[i] # s BY <1>8, <1>10, <4>2, <5>1
          <6>2. inPool'[z[i]] = e /\ at'[z[i]] \in {"queued"} \cup Talking BY <1>2, <1>7, <5>1, <6>1
          <6>3. ASSUME NEW j \in DOMAIN z, z[i] = z[j] PROVE i = j
            <7>1. j # Len(q) + 1 BY <1>10, <4>2, <6>1, <6>3
            <7>2. j \in DOMAIN q BY <1>10, <4>2, <7>1
            <7>3. z[j] = q[j] BY <1>10, <4>2, <7>2
            <7> QED BY <1>9, <5>1, <6>1, <6>3, <7>2, <7>3
          <6> QED BY <6>2, <6>3
        <5>2. CASE i \notin DOMAIN q
          <6>1. i = Len(q) + 1 /\ z[i] = s BY <1>10, <4>2, <5>2
          <6>2. ASSUME NEW j \in DOMAIN z, z[i] = z[j] PROVE i = j
            <7>1. j \notin DOMAIN q
              <8> SUFFICES ASSUME j \in DOMAIN q PROVE FALSE OBVIOUS
              <8>1. z[j] = q[j] BY <1>10, <4>2
              <8> QED BY <1>8, <6>1, <6>2, <8>1
            <7> QED BY <1>10, <4>2, <6>1, <7>1
          <6> QED BY <1>2, <4>2, <6>1, <6>2
        <5> QED BY <5>1, <5>2
      <4> QED BY <4>1, <4>2
    <3> QED BY <1>2, <2>2, <3>2, <3>3 DEF PlaceOK
  <2> QED BY <2>1, <2>2
<1>12. ASSUME NEW u \in Scopes PROVE ScopeOK(u)'
  <2>1. CASE u = s
    <3>1. w \notin {"idle", "left"} \cup Leaving \cup Talking BY DEF Leaving, Talking, Exchange
    <3>2. inPool'[u] = e /\ at'[u] = w BY <1>2, <2>1
    <3>3. at'[e] # "idle"
      <4>1. CASE open = None BY <1>2, <3>1, <4>1 DEF Entered
      <4>2. CASE open # None
        <5>1. e = open BY <1>2, <4>2 DEF Entered
        <5>2. pool[e].users > 0 /\ pool[e].users = Cardinality(Users(e)) BY <1>2, <5>1 DEF Places, PlaceOK
        <5>3. Cardinality(Users(e)) # 0 BY <5>2
        <5>4. Users(e) # {} BY <5>3, FS_EmptySet
        <5>5. PICK v \in Users(e) : TRUE BY <5>4
        <5>6. at[e] # "idle" BY <1>2, <5>5 DEF Users, Places, ScopeOK
        <5> QED BY <1>2, <3>1, <5>6
      <4> QED BY <4>1, <4>2
    <3>4. w = "queued" => s \in Tasks /\ \E i \in DOMAIN z : z[i] = s BY <1>10
    <3> QED BY <1>2, <2>1, <3>1, <3>2, <3>3, <3>4 DEF ScopeOK
  <2>2. CASE u # s
    <3>1. ScopeOK(u) /\ inPool[u] \in Scopes \cup {None} BY PoolTyped DEF Places
    <3>2. at'[u] = at[u] /\ inPool'[u] = inPool[u] BY <1>2, <2>2
    <3>3. inPool[u] # None => at'[inPool[u]] # "idle" BY <1>2, <3>1 DEF ScopeOK
    <3>4. at[u] \in Leaving => \A v \in Scopes : inPool'[v] = inPool[u] => v = u
      BY <1>2, <1>3, <3>1 DEF ScopeOK
    <3>5. at[u] \in {"queued"} \cup Talking =>
            /\ u \in Tasks /\ inPool[u] \in Scopes
            /\ \E i \in DOMAIN pool'[inPool[u]].queue : pool'[inPool[u]].queue[i] = u
            /\ at[u] \in Talking => pool'[inPool[u]].queue[1] = u
      <4> SUFFICES ASSUME at[u] \in {"queued"} \cup Talking
                   PROVE  /\ u \in Tasks /\ inPool[u] \in Scopes
                          /\ \E i \in DOMAIN pool'[inPool[u]].queue : pool'[inPool[u]].queue[i] = u
                          /\ at[u] \in Talking => pool'[inPool[u]].queue[1] = u
        OBVIOUS
      <4>1. inPool[u] = open /\ open \in Scopes /\ open # None BY Inside DEF Leaving, Talking, Exchange
      <4>2. e = open BY <1>2, <4>1 DEF Entered
      <4>3. u \in Tasks /\ (\E i \in DOMAIN q : q[i] = u) /\ (at[u] \in Talking => q[1] = u)
        BY <3>1, <4>1, <4>2 DEF ScopeOK
      <4>4. PICK i \in DOMAIN q : q[i] = u BY <4>3
      <4>5. CASE w = "in" BY <1>10, <4>1, <4>2, <4>3, <4>5
      <4>6. CASE w = "queued"
        <5>1. i \in DOMAIN z /\ z[i] = u BY <1>10, <4>4, <4>6
        <5>2. z[1] = q[1] BY <1>10, <4>4, <4>6
        <5> QED BY <4>1, <4>2, <4>3, <5>1, <5>2
      <4> QED BY <4>5, <4>6
    <3> QED BY <3>1, <3>2, <3>3, <3>4, <3>5 DEF ScopeOK
  <2> QED BY <2>1, <2>2
<1> QED BY <1>11, <1>12 DEF Places

\* A scope leaves: the pool goes off the Context with the last one.
LEMMA LeavePlaces ==
  ASSUME PoolTypes, Places, NEW s \in Scopes, Leave(s)
  PROVE  Places'
<1>1. PICK e : e = inPool[s] OBVIOUS
<1>2. e = inPool[s] /\ e = open /\ e \in Scopes /\ e # None /\ at[s] \in {"in", "settled"}
  BY <1>1, Inside DEF Leave, Leaving
<1>3. /\ pool'[e].users = pool[e].users - 1
      /\ \A r \in Scopes : pool'[r].queue = pool[r].queue /\ (r # e => pool'[r].users = pool[r].users)
  BY <1>2, PoolTyped DEF Leave, PoolTypes, OnePoolType
<1>4. \A v \in Scopes \ {s} : at'[v] = at[v] /\ inPool'[v] = inPool[v] BY DEF Leave, PoolTypes
<1>5. s \in Users(e) /\ IsFiniteSet(Users(e)) /\ Cardinality(Users(e)) \in Nat /\ Users(e) \subseteq Scopes
  BY <1>2, ScopesFinite DEF Users, Leaving
<1>6. pool[e].users = Cardinality(Users(e)) /\ pool[e].users > 0 BY <1>2 DEF Places, PlaceOK
<1>7. at'[s] \in {"left"} \cup Leaving /\ at'[s] # "idle" BY DEF Leave, Leaving, PoolTypes
<1>8. Users(e)' = Users(e) \ {s}
  <2>1. s \notin Users(e)'
    <3>1. CASE pool[e].users > 1
      <4>1. inPool'[s] = None BY <1>2, <3>1 DEF Leave, PoolTypes
      <4> QED BY <1>2, <4>1 DEF Users
    <3>2. CASE ~(pool[e].users > 1)
      <4>1. at'[s] = "draining" BY <1>2, <3>2 DEF Leave, PoolTypes
      <4> QED BY <4>1 DEF Users, Leaving
    <3> QED BY <3>1, <3>2
  <2> QED BY <1>4, <2>1 DEF Users
<1>9. Cardinality(Users(e)') = Cardinality(Users(e)) - 1 BY <1>5, <1>8, FS_RemoveElement
<1>10. CASE pool[e].users > 1
  <2>1. at'[s] = "left" /\ inPool'[s] = None /\ open' = open BY <1>2, <1>10 DEF Leave, PoolTypes
  <2>2. ASSUME NEW r \in Scopes PROVE PlaceOK(r)'
    <3>1. CASE r # e
      <4>1. \A v \in Scopes : inPool'[v] = r <=> inPool[v] = r BY <1>2, <1>4, <2>1, <3>1, ScopesAre
      <4>2. \A v \in Scopes : inPool[v] = r => at'[v] = at[v] BY <1>2, <1>4, <3>1
      <4>3. SamePlace(r) BY <1>3, <2>1, <3>1, <4>1, <4>2 DEF SamePlace
      <4> QED BY <4>3, SamePlaceOK
    <3>2. CASE r = e
      <4>1. pool[r].queue \in Seq(Tasks) /\ PlaceOK(r) BY PoolTyped DEF Places
      <4>2. \A i \in DOMAIN pool[r].queue : pool[r].queue[i] \in Scopes \ {s}
        BY <1>2, <4>1, ScopesAre DEF PlaceOK, Talking, Exchange
      <4>3. pool'[r].users = Cardinality(Users(r)') /\ pool'[r].users > 0 /\ open' = r
        BY <1>2, <1>3, <1>5, <1>6, <1>9, <1>10, <2>1, <3>2
      <4> QED BY <1>3, <1>4, <4>1, <4>2, <4>3 DEF PlaceOK
    <3> QED BY <3>1, <3>2
  <2>3. ASSUME NEW u \in Scopes PROVE ScopeOK(u)'
    <3>1. ScopeOK(u) /\ inPool[u] \in Scopes \cup {None} BY PoolTyped DEF Places
    <3>2. CASE u = s BY <2>1, <3>2 DEF ScopeOK, Leaving, Talking, Exchange
    <3>3. CASE u # s
      <4>1. at'[u] = at[u] /\ inPool'[u] = inPool[u] BY <1>4, <3>3
      <4>2. inPool[u] # None => at'[inPool[u]] # "idle" /\ pool'[inPool[u]].queue = pool[inPool[u]].queue
        BY <1>3, <1>4, <1>7, <3>1 DEF ScopeOK
      <4>3. at[u] \in {"queued"} \cup Talking \cup Leaving => inPool[u] # None
        BY <3>1 DEF ScopeOK, Talking, Exchange, Leaving
      <4>4. at[u] \in Leaving => \A v \in Scopes : inPool'[v] = inPool[u] => v = u
        BY <1>4, <2>1, <3>1, <4>3 DEF ScopeOK
      <4> QED BY <3>1, <4>1, <4>2, <4>3, <4>4 DEF ScopeOK
    <3> QED BY <3>2, <3>3
  <2> QED BY <2>2, <2>3 DEF Places
<1>11. CASE ~(pool[e].users > 1)
  <2>1. at'[s] = "draining" /\ inPool'[s] = e /\ open' = None BY <1>2, <1>11 DEF Leave, PoolTypes
  <2>2. Cardinality(Users(e)') = 0 BY <1>5, <1>6, <1>9, <1>11
  <2>3. Users(e)' = {}
    <3>1. IsFiniteSet(Users(e)') BY <1>5, <1>8, FS_Subset
    <3> QED BY <2>2, <3>1, FS_EmptySet
  <2>4. \A v \in Scopes : inPool[v] = e => v = s
    <3> SUFFICES ASSUME NEW v \in Scopes, inPool[v] = e, v # s PROVE FALSE OBVIOUS
    <3>1. v \notin Users(e) BY <1>8, <2>3
    <3>2. at[v] \in Leaving BY <3>1 DEF Users
    <3> QED BY <1>2, <3>2, LeftAlone
  <2>5. \A i \in DOMAIN pool[e].queue : FALSE
    <3> SUFFICES ASSUME NEW i \in DOMAIN pool[e].queue PROVE FALSE OBVIOUS
    <3>1. pool[e].queue[i] \in Scopes BY <1>2, PoolTyped, ScopesAre
    <3>2. inPool[pool[e].queue[i]] = e /\ at[pool[e].queue[i]] \in {"queued"} \cup Talking
      BY <1>2 DEF Places, PlaceOK
    <3>3. pool[e].queue[i] = s BY <2>4, <3>1, <3>2
    <3> QED BY <1>2, <3>2, <3>3 DEF Talking, Exchange
  <2>6. ASSUME NEW r \in Scopes PROVE PlaceOK(r)'
    <3>1. CASE r # e
      <4>1. SamePlace(r) BY <1>2, <1>3, <1>4, <2>1, <3>1, ScopesAre DEF SamePlace
      <4> QED BY <4>1, SamePlaceOK
    <3>2. CASE r = e
      <4>1. pool'[r].users = 0 BY <1>3, <1>5, <1>6, <1>9, <2>2, <3>2
      <4> QED BY <1>3, <2>1, <2>2, <2>5, <3>2, <4>1, ScopesAre DEF PlaceOK
    <3> QED BY <3>1, <3>2
  <2>7. ASSUME NEW u \in Scopes PROVE ScopeOK(u)'
    <3>1. ScopeOK(u) /\ inPool[u] \in Scopes \cup {None} BY PoolTyped DEF Places
    <3>2. \A v \in Scopes : inPool'[v] = inPool[v] BY <1>2, <1>4, <2>1
    <3>3. inPool[u] # None => at'[inPool[u]] # "idle" /\ pool'[inPool[u]].queue = pool[inPool[u]].queue
      BY <1>3, <1>4, <1>7, <3>1 DEF ScopeOK
    <3>4. CASE u = s BY <1>2, <2>1, <2>4, <3>2, <3>3, <3>4 DEF ScopeOK, Leaving, Talking, Exchange
    <3>5. CASE u # s
      <4>1. at'[u] = at[u] BY <1>4, <3>5
      <4>2. at[u] \in {"queued"} \cup Talking => inPool[u] # None BY <3>1 DEF ScopeOK, Talking, Exchange
      <4> QED BY <3>1, <3>2, <3>3, <4>1, <4>2 DEF ScopeOK
    <3> QED BY <3>4, <3>5
  <2> QED BY <2>6, <2>7 DEF Places
<1> QED BY <1>10, <1>11

\* A scope begins to close its pool.
LEMMA ClosingPlaces ==
  ASSUME PoolTypes, Places, NEW s \in Scopes, at[s] = "draining", at' = [at EXCEPT ![s] = "closing"],
         UNCHANGED <<open, inPool, pool>>
  PROVE  Places'
<1>1. at'[s] = "closing" /\ \A v \in Scopes \ {s} : at'[v] = at[v] BY DEF PoolTypes
<1>2. ASSUME NEW r \in Scopes PROVE PlaceOK(r)'
  <2>1. SamePlace(r) BY <1>1 DEF SamePlace, Leaving, Talking, Exchange
  <2> QED BY <2>1, SamePlaceOK
<1>3. ASSUME NEW u \in Scopes PROVE ScopeOK(u)'
  <2>1. ScopeOK(u) /\ inPool[u] \in Scopes \cup {None} BY PoolTyped DEF Places
  <2>2. inPool[u] # None => at'[inPool[u]] # "idle" BY <1>1, <2>1 DEF ScopeOK
  <2>3. CASE u = s BY <1>1, <2>1, <2>2, <2>3 DEF ScopeOK, Leaving, Talking, Exchange
  <2>4. CASE u # s
    <3>1. at'[u] = at[u] BY <1>1, <2>4
    <3> QED BY <2>1, <2>2, <3>1 DEF ScopeOK
  <2> QED BY <2>3, <2>4
<1> QED BY <1>2, <1>3 DEF Places

\* The pool is closed, and is none any more.
LEMMA ClosedPlaces ==
  ASSUME PoolTypes, Places, NEW s \in Scopes, Closed(s)
  PROVE  Places'
<1>1. PICK e : e = inPool[s] OBVIOUS
<1>2. /\ at[s] \in Leaving /\ e \in Scopes /\ e # open /\ e # None
      /\ \A v \in Scopes : inPool[v] = e => v = s
  BY <1>1, LeftAlone, ScopesAre DEF Closed, Leaving
<1>3. /\ at'[s] = "left" /\ inPool'[s] = None /\ open' = open /\ pool'[e] = NoPool
      /\ \A v \in Scopes \ {s} : at'[v] = at[v] /\ inPool'[v] = inPool[v]
      /\ \A r \in Scopes \ {e} : pool'[r] = pool[r]
  BY <1>1, <1>2 DEF Closed, PoolTypes
<1>4. Users(e)' = {} BY <1>2, <1>3 DEF Users
<1>5. ASSUME NEW r \in Scopes PROVE PlaceOK(r)'
  <2>1. CASE r # e
    <3>1. \A v \in Scopes : inPool'[v] = r <=> inPool[v] = r BY <1>1, <1>3, <2>1, ScopesAre
    <3>2. \A v \in Scopes : inPool[v] = r => at'[v] = at[v] BY <1>1, <1>3, <2>1
    <3>3. SamePlace(r) BY <1>3, <2>1, <3>1, <3>2 DEF SamePlace
    <3> QED BY <3>3, SamePlaceOK
  <2>2. CASE r = e
    <3>1. pool'[e].users = 0 /\ pool'[e].queue = <<>> BY <1>3 DEF NoPool
    <3>2. Cardinality(Users(e)') = 0 BY <1>4, FS_EmptySet
    <3>3. \A i \in DOMAIN pool'[e].queue : FALSE BY <3>1
    <3> QED BY <1>2, <1>3, <2>2, <3>1, <3>2, <3>3 DEF PlaceOK
  <2> QED BY <2>1, <2>2
<1>6. ASSUME NEW u \in Scopes PROVE ScopeOK(u)'
  <2>1. ScopeOK(u) /\ inPool[u] \in Scopes \cup {None} BY PoolTyped DEF Places
  <2>2. CASE u = s BY <1>3, <2>2 DEF ScopeOK, Leaving, Talking, Exchange
  <2>3. CASE u # s
    <3>1. at'[u] = at[u] /\ inPool'[u] = inPool[u] /\ inPool[u] # e BY <1>2, <1>3, <2>3
    <3>2. inPool[u] # None => at'[inPool[u]] # "idle" /\ pool'[inPool[u]].queue = pool[inPool[u]].queue
      BY <1>3, <2>1, <3>1 DEF ScopeOK
    <3>3. at[u] \in {"queued"} \cup Talking \cup Leaving => inPool[u] # None
      BY <2>1 DEF ScopeOK, Talking, Exchange, Leaving
    <3>4. at[u] \in Leaving => \A v \in Scopes : inPool'[v] = inPool[u] => v = u
      BY <1>3, <2>1, <3>3 DEF ScopeOK
    <3> QED BY <2>1, <3>1, <3>2, <3>3, <3>4 DEF ScopeOK
  <2> QED BY <2>2, <2>3
<1> QED BY <1>5, <1>6 DEF Places

------------------------------
(* Processes while scopes enter and leave. *)

\* A pool that somebody will close: it is in use, or its last user is waiting for the queue.
Tended(s) == open = s \/ \E u \in Scopes : inPool[u] = s /\ at[u] = "draining"
InHand(s) == open = s \/ \E u \in Scopes : inPool[u] = s /\ at[u] \in Leaving

\* Only scope s moves, outside any conversation.
ScopeMoves(s) ==
  /\ child' = child /\ outcome' = outcome
  /\ \A u \in Scopes \ {s} : at'[u] = at[u] /\ inPool'[u] = inPool[u]
  /\ at[s] \notin {"queued"} \cup Talking /\ at'[s] \notin Talking
  /\ at[s] # "idle" => at'[s] \notin {"idle", "queued"}
  /\ \A t \in Tasks : at[t] \in Talking => talk'[t] = talk[t]
  /\ \A r \in Scopes : pool'[r].running = pool[r].running
  /\ \A r \in Scopes : (Tended(r) => Tended(r)') /\ (InHand(r) => InHand(r)')

\* A scope that only enters or leaves disturbs no conversation.
LEMMA MovesKeep ==
  ASSUME PoolTypes, Places, Runs, Attended, Speech, NoStrayFilter, NEW s \in Scopes, ScopeMoves(s)
  PROVE  Runs' /\ Attended' /\ Speech' /\ NoStrayFilter'
<1>1. Runs'
  <2> SUFFICES ASSUME NEW r \in Scopes, NEW d \in Drivers PROVE RunsOK(r, d)' BY DEF Runs
  <2>1. RunsOK(r, d) /\ pool[r].running[d] \in Tasks \cup {None} BY PoolTyped DEF Runs
  <2>2. InHand(r) => InHand(r)' BY DEF ScopeMoves
  <2>3. \A k \in Tasks : at[k] \notin {"idle", "queued", "greeting", "capabilities"} =>
                           at'[k] \notin {"idle", "queued", "greeting", "capabilities"}
    BY ScopesAre DEF ScopeMoves, Talking
  <2>4. \A x \in Scopes : pool'[x].running = pool[x].running BY DEF ScopeMoves
  <2> QED BY <2>1, <2>2, <2>3, <2>4 DEF RunsOK, InHand
<1>2. Attended'
  <2>1. \A x \in Scopes : pool'[x].running = pool[x].running BY DEF ScopeMoves
  <2>2. \A t \in Tasks : at[t] \in Exchange => at'[t] \in Exchange /\ talk'[t] = talk[t]
    BY ScopesAre DEF ScopeMoves, Talking
  <2>3. \A k : Quiet(k) => Quiet(k)' BY DEF Quiet, ScopeMoves
  <2> QED BY <2>1, <2>2, <2>3 DEF Attended
<1>3. Speech'
  <2> SUFFICES ASSUME NEW t \in Tasks PROVE TalkOK(t)' BY DEF Speech
  <2>1. TalkOK(t) BY DEF Speech
  <2>2. CASE at'[t] \notin Talking BY <2>1, <2>2 DEF TalkOK, ScopeMoves, Talking, Exchange
  <2>3. CASE at'[t] \in Talking
    <3>1. t # s /\ at'[t] = at[t] /\ inPool'[t] = inPool[t] /\ talk'[t] = talk[t]
      BY <2>3, ScopesAre DEF ScopeMoves
    <3>2. at[t] \in {"stopping", "refusing"} => at'[talk[t]] \notin {"idle", "queued"}
      <4> SUFFICES ASSUME at[t] \in {"stopping", "refusing"} PROVE at'[talk[t]] \notin {"idle", "queued"}
        OBVIOUS
      <4>1. talk[t] \in Tasks /\ at[talk[t]] \notin {"idle", "queued"} BY <2>1, PoolTyped DEF TalkOK
      <4> QED BY <4>1, ScopesAre DEF ScopeMoves
    <3>3. inPool[t] \in Scopes => pool'[inPool[t]].running = pool[inPool[t]].running BY DEF ScopeMoves
    <3>4. child' = child /\ outcome' = outcome BY DEF ScopeMoves
    <3>5. inPool[t] \in Scopes BY <2>3, <3>1, Inside, ScopesAre DEF Talking, Exchange, Leaving
    <3> QED BY <2>1, <3>1, <3>2, <3>3, <3>4, <3>5 DEF TalkOK, Rest
  <2> QED BY <2>2, <2>3
<1>4. NoStrayFilter'
  <2> SUFFICES ASSUME NEW k \in Tasks, child[k].state = "live", ~child[k].closed
               PROVE  \/ at'[k] \in {"greeting", "capabilities"}
                      \/ \E r \in Scopes : pool'[r].running[DriverOf(k)] = k /\ Tended(r)'
    BY DEF NoStrayFilter, ScopeMoves, Tended
  <2>1. CASE at[k] \in {"greeting", "capabilities"} BY <2>1, ScopesAre DEF ScopeMoves, Talking
  <2>2. CASE \E r \in Scopes : pool[r].running[DriverOf(k)] = k /\ Tended(r) BY <2>2 DEF ScopeMoves
  <2> QED BY <2>1, <2>2 DEF NoStrayFilter, Tended
<1> QED BY <1>1, <1>2, <1>3, <1>4

\* The record of a pool with one of its fields replaced.
LEMMA WithUsers ==
  ASSUME NEW x \in OnePoolType, NEW n \in Int
  PROVE  /\ [x EXCEPT !.users = n] \in OnePoolType /\ [x EXCEPT !.users = n].users = n
         /\ [x EXCEPT !.users = n].queue = x.queue /\ [x EXCEPT !.users = n].running = x.running
BY DEF OnePoolType

\* A pool with another queue,
LEMMA WithQueue ==
  ASSUME NEW x \in OnePoolType, NEW q \in Seq(Tasks)
  PROVE  /\ [x EXCEPT !.queue = q] \in OnePoolType /\ [x EXCEPT !.queue = q].queue = q
         /\ [x EXCEPT !.queue = q].users = x.users /\ [x EXCEPT !.queue = q].running = x.running
BY DEF OnePoolType

\* or with other processes, is a pool.
LEMMA WithRunning ==
  ASSUME NEW x \in OnePoolType, NEW f \in [Drivers -> Tasks \cup {None}]
  PROVE  /\ [x EXCEPT !.running = f] \in OnePoolType /\ [x EXCEPT !.running = f].running = f
         /\ [x EXCEPT !.running = f].users = x.users /\ [x EXCEPT !.running = f].queue = x.queue
BY DEF OnePoolType

\* The record of a process that was told to end.
LEMMA StopRecord ==
  ASSUME NEW x \in ChildType
  PROVE  /\ Stop(x) \in ChildType /\ Stop(x).closed = TRUE /\ Stop(x).out = <<>>
         /\ Stop(x).asked = x.asked /\ Stop(x).state = x.state
<1>1. <<>> \in Seq(SectionType) OBVIOUS
<1> QED BY <1>1 DEF Stop, ChildType

\* A command enters the scope it opens or joins.
LEMMA EnterScopeKeeps ==
  ASSUME PoolIndInv, NEW c \in Commands, EnterScope(c)
  PROVE  PoolIndInv'
<1>1. PoolTypes /\ Places /\ Runs /\ Attended /\ Speech /\ NoStrayFilter BY DEF PoolIndInv
<1>2. c \in Scopes /\ Entered(c) \in Scopes BY <1>1, ScopesAre DEF Entered, PoolTypes
<1>3. /\ at' = [at EXCEPT ![c] = "in"] /\ at[c] = "idle" /\ at'[c] = "in" /\ Enter(c)
  BY <1>1, <1>2 DEF EnterScope, PoolTypes
<1>4. \A r \in Scopes : /\ pool'[r].users = IF r = Entered(c) THEN pool[r].users + 1 ELSE pool[r].users
                        /\ pool'[r].queue = pool[r].queue /\ pool'[r].running = pool[r].running
                        /\ pool'[r] \in OnePoolType
  <2> SUFFICES ASSUME NEW r \in Scopes
               PROVE  /\ pool'[r].users = IF r = Entered(c) THEN pool[r].users + 1 ELSE pool[r].users
                      /\ pool'[r].queue = pool[r].queue /\ pool'[r].running = pool[r].running
                      /\ pool'[r] \in OnePoolType
    OBVIOUS
  <2>1. pool[r] \in OnePoolType /\ pool[r].users + 1 \in Int BY <1>1, PoolTyped
  <2>2. pool'[r] = IF r = Entered(c) THEN [pool[r] EXCEPT !.users = pool[r].users + 1] ELSE pool[r]
    BY <1>1, <1>2 DEF EnterScope, PoolTypes
  <2> QED BY <2>1, <2>2, WithUsers
<1>5. PoolTypes'
  <2>1. pool' = [r \in Scopes |-> pool'[r]] BY <1>1, <1>2 DEF EnterScope, PoolTypes
  <2>2. pool' \in [Scopes -> OnePoolType] BY <1>4, <2>1
  <2> QED BY <1>1, <1>2, <2>2 DEF EnterScope, Enter, PoolTypes, Phases
<1>6. \A r \in Scopes :
        pool'[r].queue = IF r = Entered(c) /\ "in" = "queued" THEN Append(pool[r].queue, c) ELSE pool[r].queue
  BY <1>4
<1>7. Places' BY <1>1, <1>2, <1>3, <1>4, <1>6, EnterPlaces
<1>8. ScopeMoves(c)
  <2>1. \A u \in Scopes \ {c} : at'[u] = at[u] /\ inPool'[u] = inPool[u]
    BY <1>1, <1>2 DEF EnterScope, Enter, PoolTypes
  <2>2. open # None => open' = open BY DEF EnterScope, Enter, Entered
  <2>3. \A r \in Scopes : (Tended(r) => Tended(r)') /\ (InHand(r) => InHand(r)')
    BY <1>3, <2>1, <2>2, ScopesAre DEF Tended, InHand, Leaving
  <2> QED BY <1>3, <1>4, <2>1, <2>3 DEF ScopeMoves, EnterScope, Talking, Exchange
<1> QED BY <1>1, <1>2, <1>5, <1>7, <1>8, MovesKeep DEF PoolIndInv

\* A conversion enters the scope and takes its place in the queue.
LEMMA ConvertKeeps ==
  ASSUME PoolIndInv, NEW t \in Tasks, Convert(t)
  PROVE  PoolIndInv'
<1>1. PoolTypes /\ Places /\ Runs /\ Attended /\ Speech /\ NoStrayFilter BY DEF PoolIndInv
<1>2. t \in Scopes /\ Entered(t) \in Scopes BY <1>1, ScopesAre DEF Entered, PoolTypes
<1>3. \A r \in Scopes : /\ pool'[r].users = IF r = Entered(t) THEN pool[r].users + 1 ELSE pool[r].users
                        /\ pool'[r].queue = IF r = Entered(t) THEN Append(pool[r].queue, t) ELSE pool[r].queue
                        /\ pool'[r].running = pool[r].running
                        /\ pool'[r] \in OnePoolType
  <2> SUFFICES ASSUME NEW r \in Scopes
               PROVE  /\ pool'[r].users = IF r = Entered(t) THEN pool[r].users + 1 ELSE pool[r].users
                      /\ pool'[r].queue = IF r = Entered(t) THEN Append(pool[r].queue, t) ELSE pool[r].queue
                      /\ pool'[r].running = pool[r].running
                      /\ pool'[r] \in OnePoolType
    OBVIOUS
  <2> DEFINE x == [pool[r] EXCEPT !.users = pool[r].users + 1]
             q == Append(pool[r].queue, t)
  <2>1. pool[r] \in OnePoolType /\ pool[r].users + 1 \in Int /\ q \in Seq(Tasks) BY <1>1, PoolTyped
  <2>2. x \in OnePoolType /\ x.queue = pool[r].queue BY <2>1, WithUsers
  <2>3. pool'[r] = IF r = Entered(t) THEN [x EXCEPT !.queue = q] ELSE pool[r]
    BY <1>1, <1>2, <2>2 DEF Convert, PoolTypes
  <2>4. /\ x.users = pool[r].users + 1 /\ x.running = pool[r].running BY <2>1, WithUsers
  <2>5. /\ [x EXCEPT !.queue = q] \in OnePoolType /\ [x EXCEPT !.queue = q].queue = q
        /\ [x EXCEPT !.queue = q].users = x.users /\ [x EXCEPT !.queue = q].running = x.running
    BY <2>1, <2>2, WithQueue
  <2> QED BY <2>1, <2>3, <2>4, <2>5
<1>4. PoolTypes'
  <2>1. pool' \in [Scopes -> OnePoolType]
    <3>1. DOMAIN pool' = Scopes /\ pool' = [r \in Scopes |-> pool'[r]] BY <1>1, <1>2 DEF Convert, PoolTypes
    <3> QED BY <1>3, <3>1
  <2> QED BY <1>1, <1>2, <2>1 DEF Convert, Enter, PoolTypes, Phases
<1>5. /\ at' = [at EXCEPT ![t] = "queued"] /\ at[t] = "idle" /\ at'[t] = "queued" /\ Enter(t)
  BY <1>1, <1>2 DEF Convert, PoolTypes
<1>6. \A r \in Scopes :
        pool'[r].queue = IF r = Entered(t) /\ "queued" = "queued" THEN Append(pool[r].queue, t) ELSE pool[r].queue
  BY <1>3
<1>7. Places' BY <1>1, <1>2, <1>3, <1>5, <1>6, EnterPlaces
<1>8. ScopeMoves(t)
  <2>1. \A u \in Scopes \ {t} : at'[u] = at[u] /\ inPool'[u] = inPool[u]
    BY <1>1, <1>2 DEF Convert, Enter, PoolTypes
  <2>2. open # None => open' = open BY DEF Convert, Enter, Entered
  <2>3. \A r \in Scopes : (Tended(r) => Tended(r)') /\ (InHand(r) => InHand(r)')
    BY <1>5, <2>1, <2>2, ScopesAre DEF Tended, InHand, Leaving
  <2> QED BY <1>3, <1>5, <2>1, <2>3 DEF ScopeMoves, Convert, Talking, Exchange
<1> QED BY <1>1, <1>2, <1>4, <1>7, <1>8, MovesKeep DEF PoolIndInv

\* A scope is left, by the last of its users to close it.
LEMMA LeaveKeeps ==
  ASSUME PoolIndInv, NEW s \in Scopes, Leave(s)
  PROVE  PoolIndInv'
<1>1. PoolTypes /\ Places /\ Runs /\ Attended /\ Speech /\ NoStrayFilter BY DEF PoolIndInv
<1>2. inPool[s] = open /\ inPool[s] \in Scopes /\ at[s] \in {"in", "settled"}
  BY <1>1, Inside DEF Leave, Leaving
<1>3. Places' BY <1>1, LeavePlaces
<1>4. ASSUME NEW r \in Scopes PROVE pool'[r] \in OnePoolType /\ pool'[r].running = pool[r].running
  <2>1. pool[r] \in OnePoolType /\ pool[r].users - 1 \in Int BY <1>1, PoolTyped
  <2>2. pool'[r] = IF r = inPool[s] THEN [pool[r] EXCEPT !.users = pool[r].users - 1] ELSE pool[r]
    BY <1>1, <1>2 DEF Leave, PoolTypes
  <2> QED BY <2>1, <2>2, WithUsers
<1>5. at' \in [Scopes -> Phases] /\ inPool' \in [Scopes -> Scopes \cup {None}] /\ open' \in Scopes \cup {None}
  <2>1. CASE pool[inPool[s]].users > 1 BY <1>1, <2>1 DEF Leave, PoolTypes, Phases
  <2>2. CASE ~(pool[inPool[s]].users > 1) BY <1>1, <2>2 DEF Leave, PoolTypes, Phases
  <2> QED BY <2>1, <2>2
<1>6. PoolTypes'
  <2>1. pool' \in [Scopes -> OnePoolType]
    <3>1. pool' = [r \in Scopes |-> pool'[r]] BY <1>1, <1>2 DEF Leave, PoolTypes
    <3> QED BY <1>4, <3>1
  <2>2. talk' \in [Tasks -> Tasks \cup {None}] BY <1>1 DEF Leave, PoolTypes
  <2> QED BY <1>1, <1>5, <2>1, <2>2 DEF Leave, PoolTypes
<1>7. ScopeMoves(s)
  <2>1. \A u \in Scopes \ {s} : at'[u] = at[u] /\ inPool'[u] = inPool[u] BY <1>1 DEF Leave, PoolTypes
  <2>2. at'[s] \in {"left", "draining"} BY <1>1 DEF Leave, PoolTypes
  <2>3. open' = open \/ (inPool'[s] = open /\ at'[s] = "draining") BY <1>1, <1>2 DEF Leave, PoolTypes
  <2>4. \A r \in Scopes : (Tended(r) => Tended(r)') /\ (InHand(r) => InHand(r)')
    BY <1>2, <2>1, <2>3 DEF Tended, InHand, Leaving
  <2>5. \A t \in Tasks : at[t] \in Talking => talk'[t] = talk[t] BY <1>2 DEF Leave, Talking, Exchange
  <2> QED BY <1>2, <1>4, <2>1, <2>2, <2>4, <2>5 DEF ScopeMoves, Leave, Talking, Exchange
<1> QED BY <1>1, <1>3, <1>6, <1>7, MovesKeep DEF PoolIndInv

\* A pool is closed: its processes are quiet, and nobody else has them.
LEMMA CloseRunningKeeps ==
  ASSUME PoolIndInv, NEW s \in Scopes, CloseRunning(s)
  PROVE  PoolIndInv'
<1>1. PoolTypes /\ Places /\ Runs /\ Attended /\ Speech /\ NoStrayFilter BY DEF PoolIndInv
<1>2. /\ inPool[s] \in Scopes /\ inPool[s] # open /\ \A v \in Scopes : inPool[v] = inPool[s] => v = s
      /\ at[s] = "draining" /\ at' = [at EXCEPT ![s] = "closing"] /\ UNCHANGED <<open, pool, inPool, talk, outcome>>
  BY <1>1, LeftAlone DEF CloseRunning, Leaving
<1> DEFINE e == inPool[s]
           Stopped0 == {k \in Tasks : \E d \in Drivers : pool[e].running[d] = k}
<1>3. /\ at'[s] = "closing" /\ \A u \in Scopes \ {s} : at'[u] = at[u]
      /\ \A k \in Stopped0 : child'[k] = Stop(child[k])
      /\ \A k \in Tasks \ Stopped0 : child'[k] = child[k]
  BY <1>1, <1>2 DEF CloseRunning, PoolTypes
<1>4. \A k \in Tasks : Stop(child[k]) \in ChildType BY <1>1, PoolTyped, StopRecord
<1>5. PoolTypes'
  <2>1. child' \in [Tasks -> ChildType]
    <3>1. child' = [k \in Tasks |-> child'[k]] BY DEF CloseRunning
    <3>2. \A k \in Tasks : child[k] \in ChildType BY <1>1, PoolTyped
    <3> QED BY <1>3, <1>4, <3>1, <3>2
  <2> QED BY <1>1, <1>2, <2>1 DEF PoolTypes, Phases
<1>6. Places' BY <1>1, <1>2, ClosingPlaces
<1>7. ASSUME NEW t \in Tasks, at[t] \in Exchange PROVE talk[t] \in Tasks \ Stopped0
  <2>1. inPool[t] = open /\ open \in Scopes BY <1>1, <1>7, Inside, ScopesAre DEF Exchange, Leaving
  <2>2. talk[t] # None /\ talk[t] = pool[open].running[DriverOf(t)] /\ talk[t] \in Tasks
    BY <1>1, <1>7, <2>1, PoolTyped DEF Speech, TalkOK
  <2>3. DriverOf(t) \in Drivers BY ScopesAre
  <2>4. \A d \in Drivers : pool[e].running[d] = talk[t] => e = open
    BY <1>1, <1>2, <2>1, <2>2, <2>3 DEF Runs, RunsOK
  <2> QED BY <1>2, <2>2, <2>4
<1>8. ASSUME NEW t \in Tasks, at[t] \in {"greeting", "capabilities"} PROVE t \notin Stopped0
  <2>1. \A d \in Drivers : pool[e].running[d] # t BY <1>1, <1>2, <1>8, ScopesAre DEF Runs, RunsOK
  <2> QED BY <2>1
<1>9. Runs'
  <2> SUFFICES ASSUME NEW r \in Scopes, NEW d \in Drivers PROVE RunsOK(r, d)' BY DEF Runs
  <2>1. RunsOK(r, d) /\ pool[r].running[d] \in Tasks \cup {None} BY <1>1, PoolTyped DEF Runs
  <2>2. \A k \in Tasks : at[k] \notin {"idle", "queued", "greeting", "capabilities"} =>
                           at'[k] \notin {"idle", "queued", "greeting", "capabilities"}
    BY <1>2, <1>3, ScopesAre
  <2>3. \A u \in Scopes : at[u] \in Leaving => at'[u] \in Leaving BY <1>2, <1>3 DEF Leaving
  <2> QED BY <1>2, <2>1, <2>2, <2>3 DEF RunsOK
<1>10. Attended'
  <2> SUFFICES ASSUME NEW r \in Scopes, NEW d \in Drivers, pool[r].running[d] # None
               PROVE  \/ Quiet(pool[r].running[d])'
                      \/ \E t \in Tasks : at'[t] \in Exchange /\ talk'[t] = pool[r].running[d]
    BY <1>2 DEF Attended
  <2>1. PICK k \in Tasks : k = pool[r].running[d] BY <1>1, PoolTyped
  <2>2. pool'[r].running[d] = k BY <1>2, <2>1
  <2>3. CASE Quiet(k)
    <3>1. Quiet(k)'
      <4>1. CASE k \in Stopped0
        <5>1. child[k] \in ChildType BY <1>1, PoolTyped
        <5>2. child'[k] = Stop(child[k]) BY <1>3, <4>1
        <5>3. Stop(child[k]).out = <<>> /\ Stop(child[k]).asked = child[k].asked BY <5>1 DEF Stop, ChildType
        <5> QED BY <2>3, <5>2, <5>3 DEF Quiet
      <4>2. CASE k \notin Stopped0 BY <1>3, <2>3, <4>2 DEF Quiet
      <4> QED BY <4>1, <4>2
    <3> QED BY <2>1, <2>2, <3>1 DEF Quiet
  <2>4. CASE \E t \in Tasks : at[t] \in Exchange /\ talk[t] = k
    BY <1>2, <1>3, <2>1, <2>4, ScopesAre DEF Exchange
  <2> QED BY <1>1, <2>1, <2>3, <2>4 DEF Attended
<1>11. Speech'
  <2> SUFFICES ASSUME NEW t \in Tasks PROVE TalkOK(t)' BY DEF Speech
  <2>1. TalkOK(t) BY <1>1 DEF Speech
  <2>2. CASE at'[t] \notin Talking BY <1>2, <2>1, <2>2 DEF TalkOK, Talking, Exchange
  <2>3. CASE at'[t] \in Talking
    <3>1. t # s /\ at'[t] = at[t] BY <1>3, <2>3, ScopesAre DEF Talking, Exchange
    <3>2. CASE at[t] \in Exchange \cup {"greeting", "capabilities"}
      <4>1. talk[t] \in Tasks /\ child'[talk[t]] = child[talk[t]] BY <1>3, <1>7, <1>8, <2>1, <3>2 DEF TalkOK
      <4>2. at[t] \in {"greeting", "capabilities"} => talk[t] = t BY <2>1 DEF TalkOK
      <4> QED BY <1>2, <2>1, <3>1, <3>2, <4>1, <4>2 DEF TalkOK, Rest, Exchange
    <3>3. CASE at[t] \in {"stopping", "refusing"}
      <4>1. talk[t] \in Tasks /\ child[talk[t]].closed /\ at[talk[t]] \notin {"idle", "queued"}
        BY <1>1, <2>1, <3>3, PoolTyped DEF TalkOK
      <4>2. child[talk[t]] \in ChildType BY <1>1, <4>1, PoolTyped
      <4>3. child'[talk[t]].closed BY <1>3, <4>1, <4>2, StopRecord
      <4>4. at'[talk[t]] \notin {"idle", "queued"} BY <1>3, <4>1, ScopesAre
      <4> QED BY <1>2, <2>1, <3>1, <3>3, <4>1, <4>3, <4>4 DEF TalkOK, Exchange
    <3> QED BY <2>3, <3>1, <3>2, <3>3 DEF Talking
  <2> QED BY <2>2, <2>3
<1>12. NoStrayFilter'
  <2> SUFFICES ASSUME NEW k \in Tasks, child'[k].state = "live", ~child'[k].closed
               PROVE  \/ at'[k] \in {"greeting", "capabilities"}
                      \/ \E r \in Scopes : pool'[r].running[DriverOf(k)] = k /\ Tended(r)'
    BY DEF NoStrayFilter, Tended
  <2>1. child[k] \in ChildType BY <1>1, PoolTyped
  <2>2. k \notin Stopped0 BY <1>3, <2>1 DEF Stop, ChildType
  <2>3. child'[k] = child[k] BY <1>3, <2>2
  <2>4. CASE at[k] \in {"greeting", "capabilities"} BY <1>2, <1>3, <2>4, ScopesAre
  <2>5. CASE \E r \in Scopes : pool[r].running[DriverOf(k)] = k /\ Tended(r)
    <3>1. PICK r \in Scopes : pool[r].running[DriverOf(k)] = k /\ Tended(r) BY <2>5
    <3>2. r # e BY <2>2, <3>1, ScopesAre
    <3>3. Tended(r)' BY <1>2, <1>3, <3>1, <3>2 DEF Tended
    <3> QED BY <1>2, <3>1, <3>3
  <2> QED BY <1>1, <2>3, <2>4, <2>5 DEF NoStrayFilter, Tended
<1> QED BY <1>5, <1>6, <1>9, <1>10, <1>11, <1>12 DEF PoolIndInv

\* It is closed: all its processes have exited.
LEMMA ClosedKeeps ==
  ASSUME PoolIndInv, NEW s \in Scopes, Closed(s)
  PROVE  PoolIndInv'
<1>1. PoolTypes /\ Places /\ Runs /\ Attended /\ Speech /\ NoStrayFilter BY DEF PoolIndInv
<1>2. PICK e : e = inPool[s] OBVIOUS
<1>3. e \in Scopes /\ e # open /\ at[s] = "closing" BY <1>1, <1>2, LeftAlone DEF Closed, Leaving
<1>4. /\ at'[s] = "left" /\ inPool'[s] = None /\ UNCHANGED <<open, child, talk, outcome>> /\ pool'[e] = NoPool
      /\ \A v \in Scopes \ {s} : at'[v] = at[v] /\ inPool'[v] = inPool[v]
      /\ \A r \in Scopes \ {e} : pool'[r] = pool[r]
  BY <1>1, <1>2, <1>3 DEF Closed, PoolTypes
<1>5. \A d \in Drivers : pool'[e].running[d] = None BY <1>4 DEF NoPool
<1>6. PoolTypes'
  <2>1. NoPool \in OnePoolType BY DEF NoPool, OnePoolType
  <2>2. pool' \in [Scopes -> OnePoolType] BY <1>1, <2>1 DEF Closed, PoolTypes
  <2> QED BY <1>1, <2>2 DEF Closed, PoolTypes, Phases
<1>7. Places' BY <1>1, ClosedPlaces
<1>8. Runs'
  <2> SUFFICES ASSUME NEW r \in Scopes, NEW d \in Drivers, pool'[r].running[d] # None PROVE RunsOK(r, d)'
    BY DEF Runs, RunsOK
  <2>1. RunsOK(r, d) /\ pool[r].running[d] \in Tasks \cup {None} BY <1>1, PoolTyped DEF Runs
  <2>2. r # e /\ pool'[r] = pool[r] BY <1>4, <1>5
  <2>3. \A k \in Tasks : at[k] \notin {"idle", "queued", "greeting", "capabilities"} =>
                           at'[k] \notin {"idle", "queued", "greeting", "capabilities"}
    BY <1>3, <1>4, ScopesAre
  <2>4. \A x \in Scopes, y \in Drivers : pool'[x].running[y] # None => pool'[x].running[y] = pool[x].running[y]
    BY <1>4, <1>5
  <2>5. InHand(r) => InHand(r)' BY <1>2, <1>4, <2>2 DEF InHand
  <2> QED BY <2>1, <2>2, <2>3, <2>4, <2>5 DEF RunsOK, InHand
<1>9. Attended'
  <2>1. \A x \in Scopes, y \in Drivers : pool'[x].running[y] # None => pool'[x].running[y] = pool[x].running[y]
    BY <1>4, <1>5
  <2>2. \A t \in Tasks : at[t] \in Exchange => at'[t] = at[t] /\ talk'[t] = talk[t]
    BY <1>3, <1>4, ScopesAre DEF Exchange
  <2> QED BY <1>1, <1>4, <2>1, <2>2 DEF Attended, Quiet
<1>10. Speech'
  <2> SUFFICES ASSUME NEW t \in Tasks PROVE TalkOK(t)' BY DEF Speech
  <2>1. TalkOK(t) BY <1>1 DEF Speech
  <2>2. CASE at'[t] \notin Talking BY <1>4, <2>1, <2>2 DEF TalkOK, Talking, Exchange
  <2>3. CASE at'[t] \in Talking
    <3>1. t # s /\ at'[t] = at[t] /\ inPool'[t] = inPool[t] BY <1>4, <2>3, ScopesAre DEF Talking, Exchange
    <3>2. inPool[t] = open /\ open \in Scopes BY <1>1, <2>3, <3>1, Inside, ScopesAre DEF Talking, Exchange, Leaving
    <3>3. pool'[inPool[t]] = pool[inPool[t]] BY <1>3, <1>4, <3>2
    <3>4. at[t] \in {"stopping", "refusing"} => at'[talk[t]] \notin {"idle", "queued"}
      BY <1>1, <1>4, <2>1, PoolTyped, ScopesAre DEF TalkOK
    <3> QED BY <1>4, <2>1, <3>1, <3>3, <3>4 DEF TalkOK, Rest
  <2> QED BY <2>2, <2>3
<1>11. NoStrayFilter'
  <2> SUFFICES ASSUME NEW k \in Tasks, child[k].state = "live", ~child[k].closed
               PROVE  \/ at'[k] \in {"greeting", "capabilities"}
                      \/ \E r \in Scopes : pool'[r].running[DriverOf(k)] = k /\ Tended(r)'
    BY <1>4 DEF NoStrayFilter, Tended
  <2>1. CASE at[k] \in {"greeting", "capabilities"} BY <1>3, <1>4, <2>1, ScopesAre
  <2>2. CASE \E r \in Scopes : pool[r].running[DriverOf(k)] = k /\ Tended(r)
    <3>1. PICK r \in Scopes : pool[r].running[DriverOf(k)] = k /\ Tended(r) BY <2>2
    <3>2. r # e
      <4>1. k # None /\ DriverOf(k) \in Drivers BY ScopesAre
      <4> QED BY <1>2, <3>1, <4>1 DEF Closed
    <3>3. Tended(r)' BY <1>3, <1>4, <3>1 DEF Tended
    <3> QED BY <1>4, <3>1, <3>2, <3>3
  <2> QED BY <1>1, <2>1, <2>2 DEF NoStrayFilter, Tended
<1> QED BY <1>6, <1>7, <1>8, <1>9, <1>10, <1>11 DEF PoolIndInv

------------------------------
(* One conversation's turn. *)

OutcomeType == [how : {"none", "bytes", "failed", "thrown"}, of : Tasks \cup {None}]

\* What a step of the conversation in front does to its pool: it leaves the queue when it has
\* settled, and g is then the process of its driver.
PoolTurn(t, w, g) ==
  /\ pool' \in [Scopes -> OnePoolType]
  /\ \A r \in Scopes :
       /\ pool'[r].users = pool[r].users
       /\ pool'[r].queue = IF r = inPool[t] /\ w = "settled" THEN Tail(pool[r].queue) ELSE pool[r].queue
       /\ \A d \in Drivers :
            pool'[r].running[d] = IF r = inPool[t] /\ d = DriverOf(t) THEN g ELSE pool[r].running[d]

\* What a step of a conversation does to its pool: nothing,
LEMMA PoolStays ==
  ASSUME PoolTypes, NEW t, NEW w, w # "settled", inPool[t] \in Scopes, UNCHANGED pool
  PROVE  PoolTurn(t, w, Running(t))
BY DEF PoolTurn, PoolTypes, Running

\* takes the conversation from the queue,
LEMMA PoolSettles ==
  ASSUME PoolTypes, NEW t, inPool[t] \in Scopes, pool[inPool[t]].queue # <<>>,
         pool' = [pool EXCEPT ![inPool[t]].queue = Tail(@)]
  PROVE  PoolTurn(t, "settled", Running(t))
<1> SUFFICES ASSUME NEW r \in Scopes
             PROVE  /\ pool'[r] \in OnePoolType /\ pool'[r].users = pool[r].users
                    /\ pool'[r].queue = IF r = inPool[t] THEN Tail(pool[r].queue) ELSE pool[r].queue
                    /\ pool'[r].running = pool[r].running
  <2>1. pool' = [r \in Scopes |-> pool'[r]] BY DEF PoolTypes
  <2>2. pool' \in [Scopes -> OnePoolType] BY <2>1
  <2> QED BY <2>2 DEF PoolTurn, Running
<1>1. pool[r] \in OnePoolType /\ pool[r].queue \in Seq(Tasks) BY PoolTyped
<1>2. pool'[r] = IF r = inPool[t] THEN [pool[r] EXCEPT !.queue = Tail(pool[r].queue)] ELSE pool[r]
  BY DEF PoolTypes
<1>3. CASE r = inPool[t]
  <2>1. Tail(pool[r].queue) \in Seq(Tasks) BY <1>1, <1>3
  <2>2. pool'[r] = [pool[r] EXCEPT !.queue = Tail(pool[r].queue)] BY <1>2, <1>3
  <2> DEFINE q == Tail(pool[r].queue)
             x == [pool[r] EXCEPT !.queue = q]
  <2>3. x \in OnePoolType /\ x.queue = q /\ x.users = pool[r].users /\ x.running = pool[r].running
    BY <1>1, <2>1, WithQueue
  <2> QED BY <1>3, <2>2, <2>3
<1>4. CASE r # inPool[t] BY <1>1, <1>2, <1>4
<1> QED BY <1>3, <1>4

\* notes or forgets its process,
LEMMA PoolRegisters ==
  ASSUME PoolTypes, NEW t \in Tasks, inPool[t] \in Scopes, NEW w, w # "settled", NEW g \in Tasks \cup {None},
         pool' = [pool EXCEPT ![inPool[t]].running[DriverOf(t)] = g]
  PROVE  PoolTurn(t, w, g)
<1> SUFFICES ASSUME NEW r \in Scopes
             PROVE  /\ pool'[r] \in OnePoolType /\ pool'[r].users = pool[r].users
                    /\ pool'[r].queue = pool[r].queue
                    /\ \A d \in Drivers :
                         pool'[r].running[d] = IF r = inPool[t] /\ d = DriverOf(t) THEN g ELSE pool[r].running[d]
  <2>1. pool' = [r \in Scopes |-> pool'[r]] BY DEF PoolTypes
  <2> QED BY <2>1 DEF PoolTurn
<1> DEFINE f == [pool[r].running EXCEPT ![DriverOf(t)] = g]
<1>1. pool[r] \in OnePoolType /\ pool[r].running \in [Drivers -> Tasks \cup {None}] /\ DriverOf(t) \in Drivers
  BY PoolTyped, ScopesAre
<1>2. pool'[r] = IF r = inPool[t] THEN [pool[r] EXCEPT !.running = f] ELSE pool[r] BY DEF PoolTypes
<1>3. f \in [Drivers -> Tasks \cup {None}] /\ \A d \in Drivers : f[d] = IF d = DriverOf(t) THEN g ELSE pool[r].running[d]
  BY <1>1
<1> HIDE DEF f
<1>4. CASE r = inPool[t]
  <2>1. pool'[r] = [pool[r] EXCEPT !.running = f] BY <1>2, <1>4
  <2> DEFINE x == [pool[r] EXCEPT !.running = f]
  <2>2. x \in OnePoolType /\ x.running = f /\ x.users = pool[r].users /\ x.queue = pool[r].queue
    BY <1>1, <1>3, WithRunning
  <2>3. pool'[r] = x BY <2>1
  <2> HIDE DEF x
  <2> QED BY <1>3, <1>4, <2>2, <2>3
<1>5. CASE r # inPool[t] BY <1>1, <1>2, <1>5
<1> QED BY <1>4, <1>5

\* or notes its process and takes it from the queue.
LEMMA PoolRegistersAndSettles ==
  ASSUME PoolTypes, NEW t \in Tasks, inPool[t] \in Scopes, pool[inPool[t]].queue # <<>>, NEW able,
         pool' = [Registered(t, able) EXCEPT ![inPool[t]].queue = Tail(@)]
  PROVE  PoolTurn(t, "settled", t)
<1> SUFFICES ASSUME NEW r \in Scopes
             PROVE  /\ pool'[r] \in OnePoolType /\ pool'[r].users = pool[r].users
                    /\ pool'[r].queue = IF r = inPool[t] THEN Tail(pool[r].queue) ELSE pool[r].queue
                    /\ \A d \in Drivers :
                         pool'[r].running[d] = IF r = inPool[t] /\ d = DriverOf(t) THEN t ELSE pool[r].running[d]
  <2> DEFINE z == Registered(t, able)
  <2>1. z = [r \in Scopes |-> z[r]] BY DEF PoolTypes, Registered
  <2> HIDE DEF z
  <2>2. pool' = [r \in Scopes |-> pool'[r]] BY <2>1 DEF z
  <2>3. pool' \in [Scopes -> OnePoolType] BY <2>2
  <2> QED BY <2>3 DEF PoolTurn
<1> DEFINE f == [pool[r].running EXCEPT ![DriverOf(t)] = t]
           x == [pool[r] EXCEPT !.running = f]
           q == Tail(pool[r].queue)
<1>1. /\ pool[r] \in OnePoolType /\ pool[r].running \in [Drivers -> Tasks \cup {None}] /\ DriverOf(t) \in Drivers
      /\ pool[r].queue \in Seq(Tasks)
  BY PoolTyped, ScopesAre
<1>2. f \in [Drivers -> Tasks \cup {None}] /\ \A d \in Drivers : f[d] = IF d = DriverOf(t) THEN t ELSE pool[r].running[d]
  BY <1>1
<1>3. x \in OnePoolType /\ x.running = f /\ x.users = pool[r].users /\ x.queue = pool[r].queue
  BY <1>1, <1>2, WithRunning
<1>4. CASE r = inPool[t]
  <2>1. pool'[r] = [x EXCEPT !.queue = q] BY <1>3, <1>4 DEF PoolTypes, Registered
  <2>2. q \in Seq(Tasks) BY <1>1, <1>4
  <2> HIDE DEF x, q, f
  <2> DEFINE v == [x EXCEPT !.queue = q]
  <2>3. v \in OnePoolType /\ v.running = x.running /\ v.users = x.users /\ v.queue = q
    BY <1>3, <2>2, WithQueue
  <2>4. pool'[r] = v BY <2>1
  <2> HIDE DEF v
  <2> QED BY <1>2, <1>3, <1>4, <2>3, <2>4 DEF q
<1>5. CASE r # inPool[t]
  <2>1. pool'[r] = pool[r] BY <1>5 DEF PoolTypes, Registered
  <2> QED BY <1>1, <1>5, <2>1
<1> QED BY <1>4, <1>5

\* A step of the conversation in front, with process k, which is y afterwards; w is where the
\* conversation goes, o its outcome, m whom it speaks to.
Speaks(t, k, w, y, o, m, g) ==
  /\ UNCHANGED <<open, inPool>>
  /\ at' = [at EXCEPT ![t] = w] /\ w \in Talking \cup {"settled"}
  /\ child' = [child EXCEPT ![k] = y] /\ y \in ChildType
  /\ outcome' = [outcome EXCEPT ![t] = o] /\ o \in OutcomeType
  /\ talk' = [talk EXCEPT ![t] = m] /\ m \in Tasks \cup {None}
  /\ PoolTurn(t, w, g) /\ g \in Tasks \cup {None}

\* It takes no process but its own, sets up one only when there is none, and leaves it quiet, in
\* conversation, or out of the pool.
Fair(t, k, w, y, m, g) ==
  /\ w \in {"greeting", "capabilities"} => at[t] \in {"queued", "greeting"}
  /\ at[t] \in {"greeting", "capabilities"} => k = t
  /\ at[t] \in Exchange => k = talk[t]
  /\ \/ g = Running(t)
     \/ g = None /\ Running(t) = k
     \/ g = t /\ k = t /\ at[t] = "capabilities" /\ w \notin {"greeting", "capabilities"}
  /\ \/ y.asked = Nothing /\ y.out = <<>>
     \/ w \in Exchange /\ m = k
     \/ \A r \in Scopes, d \in Drivers : pool'[r].running[d] # k
  /\ y.state = "live" /\ ~y.closed =>
       \/ at'[k] \in {"greeting", "capabilities"}
       \/ pool'[open].running[DriverOf(k)] = k

\* A step of the conversation in front keeps the invariant where it is fair to the process it talks to.
LEMMA TurnKeeps ==
  ASSUME PoolIndInv, NEW t, InFront(t), NEW k \in Tasks, NEW w, NEW y, NEW o, NEW m, NEW g,
         Speaks(t, k, w, y, o, m, g), Fair(t, k, w, y, m, g), TalkOK(t)'
  PROVE  PoolIndInv'
<1>1. PoolTypes /\ Places /\ Runs /\ Attended /\ Speech /\ NoStrayFilter BY DEF PoolIndInv
<1>2. /\ inPool[t] = open /\ open \in Scopes /\ t \in Tasks /\ t \in Scopes
      /\ \A u \in Tasks : at[u] \in Talking => u = t
  BY <1>1, OneTalks, ScopesAre DEF InFront
<1>3. /\ at'[t] = w /\ \A u \in Scopes \ {t} : at'[u] = at[u]
      /\ child'[k] = y /\ \A j \in Tasks \ {k} : child'[j] = child[j]
      /\ talk'[t] = m /\ \A u \in Tasks \ {t} : talk'[u] = talk[u] /\ outcome'[u] = outcome[u]
      /\ open' = open /\ inPool' = inPool
  BY <1>1, <1>2 DEF Speaks, PoolTypes
<1>4. PoolTypes'
  <2>1. w \in Phases BY DEF Speaks, Talking, Exchange, Phases
  <2> QED BY <1>1, <2>1 DEF Speaks, PoolTurn, PoolTypes, OutcomeType
<1>5. Places'
  <2>1. CASE w = "settled" BY <1>1, <2>1, SettlePlaces DEF Speaks, PoolTurn
  <2>2. CASE w # "settled" BY <1>1, <2>2, MovePlaces DEF Speaks, PoolTurn
  <2> QED BY <2>1, <2>2
<1>6. at[t] \in {"queued"} \cup Talking /\ w \in Talking \cup {"settled"}
      /\ w \notin {"idle", "queued", "draining", "closing"}
      /\ at[t] \notin {"idle", "draining", "closing"}
  BY DEF InFront, Speaks, Talking, Exchange
<1> DEFINE d0 == DriverOf(t)
           old == pool[open].running[d0]
<1>7. /\ d0 \in Drivers /\ old = Running(t) /\ pool'[open].running[d0] = g
      /\ \A r \in Scopes, d \in Drivers : r # open \/ d # d0 => pool'[r].running[d] = pool[r].running[d]
  BY <1>2, ScopesAre DEF Speaks, PoolTurn, Running
<1>8. at[t] \in {"queued", "greeting", "capabilities"} =>
        \A r \in Scopes, d \in Drivers : pool[r].running[d] # t
  BY <1>1, <1>2, ScopesAre DEF Runs, RunsOK
<1>9. at[t] = "capabilities" => old = None BY <1>1, <1>2, <1>7 DEF Speech, TalkOK
<1>10. \A r \in Scopes, d \in Drivers :
         \/ pool'[r].running[d] = pool[r].running[d]
         \/ pool'[r].running[d] = None /\ pool[r].running[d] = k
         \/ /\ pool'[r].running[d] = t /\ r = open /\ d = d0 /\ k = t /\ at[t] = "capabilities"
            /\ w \notin {"greeting", "capabilities"} /\ pool[r].running[d] = None
  BY <1>7, <1>9 DEF Fair
<1>11. Runs'
  <2> SUFFICES ASSUME NEW r \in Scopes, NEW d \in Drivers, pool'[r].running[d] # None PROVE RunsOK(r, d)'
    BY DEF Runs, RunsOK
  <2>1. InHand(r) => InHand(r)' BY <1>3, <1>6 DEF InHand, Leaving
  <2>2. CASE pool'[r].running[d] = pool[r].running[d]
    <3>1. PICK j \in Tasks : j = pool[r].running[d] BY <1>1, <2>2, PoolTyped
    <3>2. RunsOK(r, d) BY <1>1 DEF Runs
    <3>3. at'[j] \notin {"idle", "queued", "greeting", "capabilities"}
      <4>1. CASE j = t
        <5>1. at[t] \notin {"queued", "greeting", "capabilities"} BY <1>8, <3>1, <4>1
        <5>2. w \notin {"greeting", "capabilities"} BY <5>1 DEF Fair
        <5> QED BY <1>2, <1>3, <1>6, <4>1, <5>2
      <4>2. CASE j # t BY <1>3, <2>2, <3>1, <3>2, <4>2, ScopesAre DEF RunsOK
      <4> QED BY <4>1, <4>2
    <3>4. \A x \in Scopes, c \in Drivers : pool'[x].running[c] = j => x = r
      <4> SUFFICES ASSUME NEW x \in Scopes, NEW c \in Drivers, pool'[x].running[c] = j PROVE x = r OBVIOUS
      <4>1. j # None BY ScopesAre
      <4>2. CASE pool[x].running[c] = j BY <2>2, <3>1, <3>2, <4>1, <4>2 DEF RunsOK
      <4>3. CASE pool[x].running[c] # j
        <5>1. j = t /\ at[t] = "capabilities" BY <1>10, <4>1, <4>3
        <5> QED BY <1>8, <3>1, <5>1
      <4> QED BY <4>2, <4>3
    <3> QED BY <2>1, <2>2, <3>1, <3>2, <3>3, <3>4 DEF RunsOK, InHand
  <2>3. CASE pool'[r].running[d] # pool[r].running[d]
    <3>1. /\ pool'[r].running[d] = t /\ r = open /\ d = d0 /\ at[t] = "capabilities"
          /\ w \notin {"greeting", "capabilities"}
      BY <1>10, <2>3
    <3>2. \A x \in Scopes, c \in Drivers : pool'[x].running[c] = t => x = r BY <1>7, <1>8, <3>1
    <3> QED BY <1>3, <1>6, <3>1, <3>2 DEF RunsOK
  <2> QED BY <2>2, <2>3
<1>12. Attended'
  <2> SUFFICES ASSUME NEW r \in Scopes, NEW d \in Drivers, NEW j \in Tasks, pool'[r].running[d] = j
               PROVE  Quiet(j)' \/ \E u \in Tasks : at'[u] \in Exchange /\ talk'[u] = j
    <3>1. \A x \in Scopes, c \in Drivers : pool'[x].running[c] \in Tasks \cup {None}
      BY <1>4 DEF PoolTypes, OnePoolType
    <3> QED BY <3>1 DEF Attended, Quiet
  <2>1. CASE j = k BY <1>2, <1>3, <2>1 DEF Fair, Quiet
  <2>2. CASE j # k
    <3>1. pool[r].running[d] = j /\ j # None BY <1>10, <2>2, ScopesAre
    <3>2. CASE Quiet(j) BY <1>3, <2>2, <3>2 DEF Quiet
    <3>3. CASE \E u \in Tasks : at[u] \in Exchange /\ talk[u] = j BY <1>2, <2>2, <3>3 DEF Fair, Talking
    <3> QED BY <1>1, <3>1, <3>2, <3>3 DEF Attended
  <2> QED BY <2>1, <2>2
<1>13. Speech'
  <2> SUFFICES ASSUME NEW u \in Tasks, u # t PROVE TalkOK(u)' BY DEF Speech
  <2>1. at'[u] = at[u] /\ at[u] \notin Talking /\ outcome'[u] = outcome[u] BY <1>2, <1>3, ScopesAre
  <2>2. TalkOK(u) BY <1>1 DEF Speech
  <2> QED BY <2>1, <2>2 DEF TalkOK, Talking, Exchange
<1>14. NoStrayFilter'
  <2> SUFFICES ASSUME NEW j \in Tasks, child'[j].state = "live", ~child'[j].closed
               PROVE  \/ at'[j] \in {"greeting", "capabilities"}
                      \/ \E r \in Scopes : pool'[r].running[DriverOf(j)] = j /\ Tended(r)'
    BY DEF NoStrayFilter, Tended
  <2>1. CASE j = k
    <3>1. Tended(open)' BY <1>3 DEF Tended
    <3> QED BY <1>2, <1>3, <2>1, <3>1 DEF Fair
  <2>2. CASE j # k
    <3>1. child'[j] = child[j] BY <1>3, <2>2
    <3>2. CASE at[j] \in {"greeting", "capabilities"} BY <1>2, <2>2, <3>2 DEF Fair, Talking
    <3>3. CASE \E r \in Scopes : pool[r].running[DriverOf(j)] = j /\ Tended(r)
      <4>1. PICK r \in Scopes : pool[r].running[DriverOf(j)] = j /\ Tended(r) BY <3>3
      <4>2. Tended(r)' BY <1>3, <1>6, <4>1 DEF Tended
      <4>3. pool'[r].running[DriverOf(j)] = j BY <1>10, <2>2, <4>1, ScopesAre
      <4> QED BY <4>2, <4>3
    <3> QED BY <1>1, <3>1, <3>2, <3>3 DEF NoStrayFilter, Tended
  <2> QED BY <2>1, <2>2
<1> QED BY <1>4, <1>5, <1>11, <1>12, <1>13, <1>14 DEF PoolIndInv

AskedType == {Nothing} \cup [what : {"greeting", "capabilities", "request"}, by : Tasks]

\* The record of a process with one of its fields replaced.
LEMMA WithOut ==
  ASSUME NEW x \in ChildType, NEW v \in Seq(SectionType)
  PROVE  /\ [x EXCEPT !.out = v] \in ChildType /\ [x EXCEPT !.out = v].out = v
         /\ [x EXCEPT !.out = v].asked = x.asked /\ [x EXCEPT !.out = v].state = x.state
         /\ [x EXCEPT !.out = v].closed = x.closed /\ [x EXCEPT !.out = v].able = x.able
BY DEF ChildType

\* A process asked something else,
LEMMA WithAsked ==
  ASSUME NEW x \in ChildType, NEW v \in AskedType
  PROVE  /\ [x EXCEPT !.asked = v] \in ChildType /\ [x EXCEPT !.asked = v].asked = v
         /\ [x EXCEPT !.asked = v].out = x.out /\ [x EXCEPT !.asked = v].state = x.state
         /\ [x EXCEPT !.asked = v].closed = x.closed /\ [x EXCEPT !.asked = v].able = x.able
BY DEF ChildType, AskedType

\* or able to do something else, is a process.
LEMMA WithAble ==
  ASSUME NEW x \in ChildType, NEW v \in SUBSET {"clean", "smudge"}
  PROVE  /\ [x EXCEPT !.able = v] \in ChildType /\ [x EXCEPT !.able = v].able = v
         /\ [x EXCEPT !.able = v].out = x.out /\ [x EXCEPT !.able = v].state = x.state
         /\ [x EXCEPT !.able = v].closed = x.closed /\ [x EXCEPT !.able = v].asked = x.asked
BY DEF ChildType

\* What a conversation may ask.
LEMMA Asks ==
  ASSUME NEW t \in Tasks
  PROVE  \A what \in {"greeting", "capabilities", "request"} :
           Ask(what, t) \in AskedType /\ Ask(what, t) # Nothing
BY ScopesAre DEF Ask, Nothing, AskedType

\* The conversation in front, and what it knows.
LEMMA Front ==
  ASSUME PoolIndInv, NEW t \in Tasks, at[t] \in Talking \/ (at[t] = "queued" /\ MyTurn(t))
  PROVE  /\ PoolTypes /\ InFront(t) /\ inPool[t] = open /\ open \in Scopes /\ pool[open].queue # <<>>
         /\ TalkOK(t) /\ Running(t) = pool[open].running[DriverOf(t)] /\ Running(t) \in Tasks \cup {None}
         /\ DriverOf(t) \in Drivers /\ talk[t] \in Tasks \cup {None} /\ outcome[t] \in OutcomeType /\ t \in Scopes
         /\ \A j \in Tasks : child[j] \in ChildType
<1>1. PoolTypes /\ Places /\ Speech BY DEF PoolIndInv
<1>2. InFront(t) BY <1>1, FrontIs
<1>3. inPool[t] = open /\ open \in Scopes /\ pool[open].queue # <<>> BY <1>1, <1>2, OneTalks
<1>4. DriverOf(t) \in Drivers /\ t \in Scopes BY ScopesAre
<1>5. Running(t) = pool[open].running[DriverOf(t)] /\ Running(t) \in Tasks \cup {None}
  BY <1>1, <1>3, <1>4, PoolTyped DEF Running
<1>6. TalkOK(t) /\ talk[t] \in Tasks \cup {None} /\ outcome[t] \in OutcomeType
  BY <1>1 DEF Speech, PoolTypes, OutcomeType
<1> QED BY <1>1, <1>2, <1>3, <1>4, <1>5, <1>6, PoolTyped

\* The process of its driver: set up, and quiet unless this conversation speaks with it.
LEMMA FrontRunning ==
  ASSUME PoolIndInv, NEW t \in Tasks, at[t] \in Talking \/ (at[t] = "queued" /\ MyTurn(t)),
         NEW k \in Tasks, k = Running(t)
  PROVE  /\ DriverOf(k) = DriverOf(t) /\ at[k] \notin {"idle", "queued", "greeting", "capabilities"}
         /\ at[t] \notin Exchange => Quiet(k)
<1>1. PoolTypes /\ Places /\ Runs /\ Attended BY DEF PoolIndInv
<1>2. InFront(t) /\ k = pool[open].running[DriverOf(t)] /\ open \in Scopes /\ DriverOf(t) \in Drivers BY Front
<1>3. k # None BY ScopesAre
<1>4. RunsOK(open, DriverOf(t)) BY <1>1, <1>2 DEF Runs
<1>5. Quiet(k) \/ \E u \in Tasks : at[u] \in Exchange /\ talk[u] = k BY <1>1, <1>2, <1>3 DEF Attended
<1>6. \A u \in Tasks : at[u] \in Talking => u = t BY <1>1, <1>2, OneTalks
<1> QED BY <1>2, <1>3, <1>4, <1>5, <1>6 DEF RunsOK, Talking

\* What a step leaves as it is, written as a replacement by itself.
LEMMA Itself ==
  ASSUME PoolTypes, NEW t \in Tasks
  PROVE  /\ outcome = [outcome EXCEPT ![t] = outcome[t]] /\ talk = [talk EXCEPT ![t] = talk[t]]
         /\ child = [child EXCEPT ![t] = child[t]]
BY DEF PoolTypes

\* The conversation in front finds its process, or starts one.
LEMMA TakeTurnKeeps ==
  ASSUME PoolIndInv, NEW t \in Tasks, TakeTurn(t)
  PROVE  PoolIndInv'
<1>1. at[t] = "queued" /\ MyTurn(t) /\ UNCHANGED <<open, inPool>> BY DEF TakeTurn
<1>2. /\ PoolTypes /\ InFront(t) /\ inPool[t] = open /\ open \in Scopes /\ pool[open].queue # <<>>
      /\ TalkOK(t) /\ Running(t) = pool[open].running[DriverOf(t)] /\ Running(t) \in Tasks \cup {None}
      /\ DriverOf(t) \in Drivers /\ talk[t] \in Tasks \cup {None} /\ outcome[t] \in OutcomeType /\ t \in Scopes
      /\ \A j \in Tasks : child[j] \in ChildType
  BY <1>1, Front
<1>3. CASE Running(t) # None /\ Capability(t) \in child[Running(t)].able
  <2>1. PICK k \in Tasks : k = Running(t) BY <1>2, <1>3
  <2>2. DriverOf(k) = DriverOf(t) /\ Quiet(k) /\ k # None BY <1>1, <2>1, FrontRunning, ScopesAre DEF Exchange
  <2> DEFINE y == [child[k] EXCEPT !.asked = Ask("request", t)]
  <2>3. Ask("request", t) \in AskedType BY Asks
  <2>4. /\ y \in ChildType /\ y.asked = Ask("request", t) /\ y.out = child[k].out /\ y.state = child[k].state
        /\ y.closed = child[k].closed
    BY <1>2, <2>3, WithAsked
  <2>5. /\ at' = [at EXCEPT ![t] = "status"] /\ child' = [child EXCEPT ![k] = y]
        /\ talk' = [talk EXCEPT ![t] = k] /\ UNCHANGED <<pool, outcome>>
    BY <1>3, <2>1 DEF TakeTurn, AskIfAble
  <2>6. PoolTurn(t, "status", k) BY <1>2, <2>1, <2>5, PoolStays
  <2>7. Speaks(t, k, "status", y, outcome[t], k, k)
    BY <1>1, <1>2, <2>4, <2>5, <2>6, Itself DEF Speaks, Talking, Exchange
  <2>8. child'[k] = y /\ at'[t] = "status" /\ talk'[t] = k /\ outcome'[t] = outcome[t]
    BY <1>2, <2>5 DEF PoolTypes
  <2> HIDE DEF y
  <2>9. pool'[open].running[DriverOf(t)] = k BY <1>2, <2>1, <2>5
  <2>10. Fair(t, k, "status", y, k, k) BY <1>1, <2>1, <2>2, <2>9 DEF Fair, Exchange
  <2>11. TalkOK(t)'
    <3>1. child'[k].out = <<>> /\ child'[k].asked = Ask("request", t) BY <2>2, <2>4, <2>8 DEF Quiet
    <3>2. inPool'[t] = open BY <1>1, <1>2
    <3>3. outcome[t].how = "bytes" => outcome[t].of = t BY <1>2 DEF TalkOK
    <3> QED BY <2>2, <2>8, <2>9, <3>1, <3>2, <3>3 DEF TalkOK, Rest, Exchange
  <2> QED BY <1>2, <2>7, <2>10, <2>11, TurnKeeps
<1>4. CASE Running(t) # None /\ Capability(t) \notin child[Running(t)].able
  <2>1. PICK k \in Tasks : k = Running(t) BY <1>2, <1>4
  <2>2. /\ DriverOf(k) = DriverOf(t) /\ Quiet(k) /\ k # None
    BY <1>1, <2>1, FrontRunning, ScopesAre DEF Exchange
  <2>3. /\ at' = [at EXCEPT ![t] = "settled"] /\ pool' = [pool EXCEPT ![inPool[t]].queue = Tail(@)]
        /\ outcome' = [outcome EXCEPT ![t] = Failed] /\ UNCHANGED <<child, talk>>
    BY <1>4 DEF TakeTurn, AskIfAble, Settle
  <2>4. PoolTurn(t, "settled", k) BY <1>2, <2>1, <2>3, PoolSettles
  <2>5. Failed \in OutcomeType /\ Failed.how = "failed" BY DEF Failed, Result, OutcomeType
  <2>6. Speaks(t, k, "settled", child[k], Failed, talk[t], k)
    BY <1>1, <1>2, <2>3, <2>4, <2>5, Itself DEF Speaks
  <2>7. pool'[open].running[DriverOf(k)] = k BY <1>2, <2>2, <2>4 DEF PoolTurn
  <2>8. Fair(t, k, "settled", child[k], talk[t], k) BY <1>1, <2>1, <2>2, <2>7 DEF Fair, Exchange, Quiet
  <2>9. TalkOK(t)'
    <3>1. at'[t] = "settled" /\ outcome'[t].how # "bytes" BY <1>2, <2>3, <2>5 DEF PoolTypes
    <3> QED BY <3>1 DEF TalkOK, Exchange
  <2> QED BY <1>2, <2>6, <2>8, <2>9, TurnKeeps
<1>5. CASE Running(t) = None
  <2> DEFINE y == [NoChild EXCEPT !.state = "live", !.asked = Ask("greeting", t)]
  <2>1. /\ y \in ChildType /\ y.asked = Ask("greeting", t) /\ y.out = <<>>
    <3>1. Ask("greeting", t) \in AskedType BY Asks
    <3>2. <<>> \in Seq(SectionType) OBVIOUS
    <3> QED BY <3>1, <3>2 DEF NoChild, ChildType, AskedType
  <2>2. /\ at' = [at EXCEPT ![t] = "greeting"] /\ child' = [child EXCEPT ![t] = y]
        /\ talk' = [talk EXCEPT ![t] = t] /\ UNCHANGED <<pool, outcome>>
    BY <1>5 DEF TakeTurn
  <2> HIDE DEF y
  <2>3. PoolTurn(t, "greeting", None) BY <1>2, <1>5, <2>2, PoolStays
  <2>4. Speaks(t, t, "greeting", y, outcome[t], t, None)
    BY <1>1, <1>2, <2>1, <2>2, <2>3, Itself DEF Speaks, Talking
  <2>5. child'[t] = y /\ at'[t] = "greeting" /\ talk'[t] = t /\ outcome'[t] = outcome[t]
    BY <1>2, <2>2 DEF PoolTypes
  <2>6. \A r \in Scopes, d \in Drivers : pool'[r].running[d] # t
    BY <1>1, <2>2, ScopesAre DEF PoolIndInv, Runs, RunsOK
  <2>7. Fair(t, t, "greeting", y, t, None) BY <1>1, <1>5, <2>5, <2>6 DEF Fair, Exchange
  <2>8. TalkOK(t)'
    <3>1. pool'[inPool'[t]].running[DriverOf(t)] = None BY <1>1, <1>2, <1>5, <2>2
    <3>2. outcome[t].how = "bytes" => outcome[t].of = t BY <1>2 DEF TalkOK
    <3>3. Ask("greeting", t) # Nothing BY Asks
    <3> QED BY <2>1, <2>5, <3>1, <3>2, <3>3 DEF TalkOK, Rest, Exchange
  <2> QED BY <1>2, <2>4, <2>7, <2>8, TurnKeeps
<1> QED BY <1>3, <1>4, <1>5

\* A section is read: what is left is of t, and one less.
LEMMA ReadLeaves ==
  ASSUME NEW k \in Tasks, child[k] \in ChildType, NEW t, NEW n \in Nat, Rest(t, k, n), NEW words, Hears(k, words)
  PROVE  LET y == [child[k] EXCEPT !.out = Tail(child[k].out)] IN
         /\ y \in ChildType /\ y.asked = child[k].asked /\ y.state = child[k].state /\ y.closed = child[k].closed
         /\ y.able = child[k].able
         /\ Len(y.out) = Len(child[k].out) - 1 /\ Len(y.out) <= n - 1 /\ Len(y.out) \in Nat
         /\ Len(y.out) = 0 => y.out = <<>>
         /\ \A i \in DOMAIN y.out : y.out[i].of = t
         /\ child[k].out[1] = Head(child[k].out) /\ Head(child[k].out).of = t /\ child[k].out # <<>>
         /\ Head(child[k].out).says \in words
<1> DEFINE q == child[k].out
           z == Tail(q)
           y == [child[k] EXCEPT !.out = z]
<1>1. q \in Seq(SectionType) BY DEF ChildType
<1>2. q # <<>> /\ Head(q).says \in words BY DEF Hears
<1>3. z \in Seq(SectionType) BY <1>1, <1>2
<1>4. /\ y \in ChildType /\ y.out = z /\ y.asked = child[k].asked /\ y.state = child[k].state
      /\ y.closed = child[k].closed /\ y.able = child[k].able
  BY <1>3, WithOut
<1>5. Len(z) = Len(q) - 1 /\ Len(z) \in Nat /\ Len(q) \in Nat /\ (Len(z) = 0 => z = <<>>)
  <2>1. Len(z) = Len(q) - 1 /\ Len(z) \in Nat /\ Len(q) \in Nat BY <1>1, <1>2, <1>3
  <2>2. \A v \in Seq(SectionType) : Len(v) = 0 => v = <<>> OBVIOUS
  <2> QED BY <1>3, <2>1, <2>2
<1>6. Len(q) <= n /\ \A i \in DOMAIN q : q[i].of = t BY DEF Rest
<1>7. q[1] = Head(q) /\ 1 \in DOMAIN q BY <1>1, <1>2
<1>8. \A i \in DOMAIN z : i + 1 \in DOMAIN q /\ z[i] = q[i + 1] BY <1>1, <1>2
<1>9. \A i \in DOMAIN z : z[i].of = t BY <1>6, <1>8
<1>10. Len(z) <= n - 1 BY <1>5, <1>6
<1>11. Head(q).of = t BY <1>6, <1>7
<1> HIDE DEF q, z, y
<1>12. /\ Len(y.out) = Len(q) - 1 /\ Len(y.out) <= n - 1 /\ Len(y.out) \in Nat /\ (Len(y.out) = 0 => y.out = <<>>)
       /\ \A i \in DOMAIN y.out : y.out[i].of = t
  BY <1>4, <1>5, <1>9, <1>10
<1> QED BY <1>2, <1>4, <1>7, <1>11, <1>12 DEF q, z, y

\* A process is told to end, and is out of the pool.
LEMMA StopKeeps ==
  ASSUME PoolIndInv, NEW t \in Tasks, at[t] \in {"greeting", "capabilities"} \cup Exchange,
         NEW next \in {"stopping", "refusing"}, StopChild(t, talk[t], next),
         UNCHANGED <<open, inPool, talk, outcome>>,
         IF at[t] \in Exchange THEN pool' = [pool EXCEPT ![inPool[t]].running[DriverOf(t)] = None]
                               ELSE UNCHANGED pool
  PROVE  PoolIndInv'
<1>1. at[t] \in Talking BY DEF Talking
<1>2. /\ PoolTypes /\ InFront(t) /\ inPool[t] = open /\ open \in Scopes
      /\ TalkOK(t) /\ Running(t) = pool[open].running[DriverOf(t)] /\ Running(t) \in Tasks \cup {None}
      /\ DriverOf(t) \in Drivers /\ talk[t] \in Tasks \cup {None} /\ outcome[t] \in OutcomeType /\ t \in Scopes
      /\ \A j \in Tasks : child[j] \in ChildType
  BY <1>1, Front
<1>3. PICK k \in Tasks : k = talk[t] BY <1>2, ScopesAre DEF TalkOK, Exchange
<1>4. at[t] \in Exchange => k = Running(t) BY <1>2, <1>3 DEF TalkOK
<1>5. at[t] \notin Exchange => k = t /\ Running(t) = None BY <1>2, <1>3 DEF TalkOK
<1> DEFINE y == Stop(child[k])
<1>6. /\ y \in ChildType /\ y.closed = TRUE /\ y.out = <<>> BY <1>2, StopRecord
<1>7. child' = [child EXCEPT ![k] = y] /\ at' = [at EXCEPT ![t] = next] BY <1>3 DEF StopChild
<1>8. PoolTurn(t, next, None)
  <2>1. CASE at[t] \in Exchange BY <1>2, <2>1, PoolRegisters
  <2>2. CASE at[t] \notin Exchange BY <1>2, <1>5, <2>2, PoolStays
  <2> QED BY <2>1, <2>2
<1>9. Speaks(t, k, next, y, outcome[t], k, None) BY <1>2, <1>3, <1>6, <1>7, <1>8, Itself DEF Speaks, Talking
<1>10. \A r \in Scopes, d \in Drivers : pool'[r].running[d] # k
  <2> SUFFICES ASSUME NEW r \in Scopes, NEW d \in Drivers, pool'[r].running[d] = k PROVE FALSE OBVIOUS
  <2>1. k # None BY ScopesAre
  <2>2. pool[r].running[d] = k /\ ~(r = open /\ d = DriverOf(t)) BY <1>2, <1>8, <2>1 DEF PoolTurn
  <2>3. RunsOK(r, d) BY DEF PoolIndInv, Runs
  <2>4. CASE at[t] \in Exchange
    <3>1. r = open BY <1>2, <1>4, <2>1, <2>2, <2>3, <2>4 DEF RunsOK
    <3>2. DriverOf(k) = DriverOf(t) BY <1>1, <1>4, <2>4, FrontRunning
    <3> QED BY <2>1, <2>2, <2>3, <3>1, <3>2 DEF RunsOK
  <2>5. CASE at[t] \notin Exchange BY <1>5, <2>1, <2>2, <2>3, <2>5 DEF RunsOK
  <2> QED BY <2>4, <2>5
<1>11. Fair(t, k, next, y, k, None)
  <2> HIDE DEF y
  <2> QED BY <1>3, <1>4, <1>5, <1>6, <1>10 DEF Fair, Exchange
<1>12. TalkOK(t)'
  <2>1. child'[k] = y /\ at'[t] = next /\ talk'[t] = k /\ outcome'[t] = outcome[t]
    BY <1>2, <1>3, <1>7 DEF PoolTypes
  <2>2. at'[k] \notin {"idle", "queued"}
    <3>1. CASE k = t BY <2>1, <3>1
    <3>2. CASE k # t
      <4>1. at'[k] = at[k] BY <1>2, <1>7, <3>2, ScopesAre DEF PoolTypes
      <4>2. at[k] \notin {"idle", "queued"} BY <1>1, <1>4, <1>5, <3>2, FrontRunning
      <4> QED BY <4>1, <4>2
    <3> QED BY <3>1, <3>2
  <2>3. outcome[t].how = "bytes" => outcome[t].of = t BY <1>2 DEF TalkOK
  <2>4. k # None BY ScopesAre
  <2> HIDE DEF y
  <2> QED BY <1>6, <2>1, <2>2, <2>3, <2>4 DEF TalkOK, Exchange
<1> QED BY <1>2, <1>9, <1>11, <1>12, TurnKeeps

\* The welcome is read, and the capabilities are asked for.
LEMMA GreetKeeps ==
  ASSUME PoolIndInv, NEW t \in Tasks, Greet(t)
  PROVE  PoolIndInv'
<1>1. at[t] = "greeting" /\ at[t] \in Talking /\ UNCHANGED <<open, pool, inPool, talk, outcome>>
  BY DEF Greet, Talking
<1>2. /\ PoolTypes /\ InFront(t) /\ inPool[t] = open /\ open \in Scopes
      /\ TalkOK(t) /\ Running(t) = pool[open].running[DriverOf(t)] /\ Running(t) \in Tasks \cup {None}
      /\ DriverOf(t) \in Drivers /\ talk[t] \in Tasks \cup {None} /\ outcome[t] \in OutcomeType /\ t \in Scopes
      /\ \A j \in Tasks : child[j] \in ChildType
  BY <1>1, Front
<1>3. talk[t] = t /\ Running(t) = None /\ Rest(t, t, 1) BY <1>1, <1>2 DEF TalkOK
<1>4. CASE /\ Hears(t, {"welcome"})
           /\ child' = [Read(t) EXCEPT ![t].asked = Ask("capabilities", t)]
           /\ at' = [at EXCEPT ![t] = "capabilities"]
  <2> DEFINE x == [child[t] EXCEPT !.out = Tail(child[t].out)]
             y == [x EXCEPT !.asked = Ask("capabilities", t)]
  <2>1. x \in ChildType /\ Len(x.out) <= 1 - 1 /\ Len(x.out) \in Nat /\ (Len(x.out) = 0 => x.out = <<>>)
    BY <1>2, <1>3, <1>4, ReadLeaves
  <2>2. x.out = <<>> BY <2>1
  <2>3. Ask("capabilities", t) \in AskedType /\ Ask("capabilities", t) # Nothing BY Asks
  <2>4. y \in ChildType /\ y.asked = Ask("capabilities", t) /\ y.out = x.out BY <2>1, <2>3, WithAsked
  <2>5. child' = [child EXCEPT ![t] = y] BY <1>2, <1>4 DEF Read, PoolTypes
  <2> HIDE DEF x, y
  <2>6. PoolTurn(t, "capabilities", None) BY <1>1, <1>2, <1>3, PoolStays
  <2>7. Speaks(t, t, "capabilities", y, outcome[t], t, None)
    BY <1>1, <1>2, <1>3, <1>4, <2>4, <2>5, <2>6, Itself DEF Speaks, Talking
  <2>8. child'[t] = y /\ at'[t] = "capabilities" /\ talk'[t] = t /\ outcome'[t] = outcome[t]
    BY <1>1, <1>2, <1>3, <1>4, <2>5 DEF PoolTypes
  <2>9. \A r \in Scopes, d \in Drivers : pool'[r].running[d] # t
    BY <1>1, ScopesAre DEF PoolIndInv, Runs, RunsOK
  <2>10. Fair(t, t, "capabilities", y, t, None) BY <1>1, <1>3, <2>8, <2>9 DEF Fair, Exchange
  <2>11. TalkOK(t)'
    <3>1. pool'[inPool'[t]].running[DriverOf(t)] = None BY <1>1, <1>2, <1>3
    <3>2. outcome[t].how = "bytes" => outcome[t].of = t BY <1>2 DEF TalkOK
    <3> QED BY <2>2, <2>3, <2>4, <2>8, <3>1, <3>2 DEF TalkOK, Rest, Exchange
  <2> QED BY <1>2, <2>7, <2>10, <2>11, TurnKeeps
<1>5. CASE StopChild(t, t, "stopping") BY <1>1, <1>3, <1>5, StopKeeps DEF Exchange
<1> QED BY <1>4, <1>5 DEF Greet

\* The capabilities are read: the process joins the pool, or is told to end.
LEMMA CapabilitiesKeeps ==
  ASSUME PoolIndInv, NEW t \in Tasks, Capabilities(t)
  PROVE  PoolIndInv'
<1>1. at[t] = "capabilities" /\ at[t] \in Talking /\ UNCHANGED <<open, inPool, talk>>
  BY DEF Capabilities, Talking
<1>2. /\ PoolTypes /\ InFront(t) /\ inPool[t] = open /\ open \in Scopes /\ pool[open].queue # <<>>
      /\ TalkOK(t) /\ Running(t) = pool[open].running[DriverOf(t)] /\ Running(t) \in Tasks \cup {None}
      /\ DriverOf(t) \in Drivers /\ talk[t] \in Tasks \cup {None} /\ outcome[t] \in OutcomeType /\ t \in Scopes
      /\ \A j \in Tasks : child[j] \in ChildType
  BY <1>1, Front
<1>3. talk[t] = t /\ Running(t) = None /\ Rest(t, t, 1) /\ t # None BY <1>1, <1>2, ScopesAre DEF TalkOK
<1>4. CASE LearnCapabilities(t)
  <2>1. PICK offered \in SUBSET {"clean", "smudge"} :
          /\ offered = IF Hears(t, {"both"}) THEN {"clean", "smudge"} ELSE {"smudge"}
    OBVIOUS
  <2>2. PICK a \in AskedType : a = IF Capability(t) \in offered THEN Ask("request", t) ELSE Nothing
    BY Asks DEF AskedType
  <2> DEFINE x == [child[t] EXCEPT !.out = Tail(child[t].out)]
             v == [x EXCEPT !.able = offered]
             y == [v EXCEPT !.asked = a]
  <2>3. Hears(t, {"both", "smudge"}) BY <1>4 DEF LearnCapabilities
  <2>4. x \in ChildType /\ Len(x.out) <= 1 - 1 /\ Len(x.out) \in Nat /\ (Len(x.out) = 0 => x.out = <<>>)
    BY <1>2, <1>3, <2>3, ReadLeaves
  <2>5. x.out = <<>> BY <2>4
  <2>6. child' = [child EXCEPT ![t] = y] BY <1>2, <1>4, <2>1, <2>2 DEF LearnCapabilities, Read, PoolTypes
  <2> HIDE DEF x
  <2>7. v \in ChildType /\ v.out = x.out BY <2>4, WithAble
  <2> HIDE DEF v
  <2>8. y \in ChildType /\ y.asked = a /\ y.out = v.out BY <2>2, <2>7, WithAsked
  <2> HIDE DEF y
  <2>9. y \in ChildType /\ y.asked = a /\ y.out = <<>> BY <2>5, <2>7, <2>8
  <2>10. child'[t] = y BY <1>2, <2>6 DEF PoolTypes
  <2>11. CASE Capability(t) \in offered
    <3>1. /\ at' = [at EXCEPT ![t] = "status"] /\ UNCHANGED outcome
          /\ pool' = [pool EXCEPT ![inPool[t]].running[DriverOf(t)] = t]
      BY <1>4, <2>1, <2>11 DEF LearnCapabilities, Registered
    <3>2. PoolTurn(t, "status", t) BY <1>2, <3>1, PoolRegisters
    <3>3. Speaks(t, t, "status", y, outcome[t], t, t)
      BY <1>1, <1>2, <1>3, <2>6, <2>9, <3>1, <3>2, Itself DEF Speaks, Talking, Exchange
    <3>4. pool'[open].running[DriverOf(t)] = t BY <1>2, <3>2 DEF PoolTurn
    <3>5. Fair(t, t, "status", y, t, t) BY <1>1, <3>4 DEF Fair, Exchange
    <3>6. TalkOK(t)'
      <4>1. at'[t] = "status" /\ talk'[t] = t /\ outcome'[t] = outcome[t] /\ inPool'[t] = open
        BY <1>1, <1>2, <1>3, <3>1 DEF PoolTypes
      <4>2. outcome[t].how = "bytes" => outcome[t].of = t BY <1>2 DEF TalkOK
      <4>3. a = Ask("request", t) BY <2>2, <2>11
      <4> QED BY <1>3, <2>9, <2>10, <3>4, <4>1, <4>2, <4>3 DEF TalkOK, Rest, Exchange
    <3> QED BY <1>2, <3>3, <3>5, <3>6, TurnKeeps
  <2>12. CASE Capability(t) \notin offered
    <3>1. /\ at' = [at EXCEPT ![t] = "settled"] /\ outcome' = [outcome EXCEPT ![t] = Failed]
          /\ pool' = [Registered(t, FALSE) EXCEPT ![inPool[t]].queue = Tail(@)]
      BY <1>4, <2>1, <2>12 DEF LearnCapabilities, Registered
    <3>2. PoolTurn(t, "settled", t) BY <1>2, <3>1, PoolRegistersAndSettles
    <3>3. Failed \in OutcomeType /\ Failed.how = "failed" BY DEF Failed, Result, OutcomeType
    <3>4. Speaks(t, t, "settled", y, Failed, t, t)
      BY <1>1, <1>2, <1>3, <2>6, <2>9, <3>1, <3>2, <3>3, Itself DEF Speaks
    <3>5. pool'[open].running[DriverOf(t)] = t BY <1>2, <3>2 DEF PoolTurn
    <3>6. Fair(t, t, "settled", y, t, t) BY <1>1, <2>2, <2>9, <2>12, <3>5 DEF Fair, Exchange
    <3>7. TalkOK(t)'
      <4>1. at'[t] = "settled" /\ outcome'[t].how # "bytes" BY <1>2, <3>1, <3>3 DEF PoolTypes
      <4> QED BY <4>1 DEF TalkOK, Exchange
    <3> QED BY <1>2, <3>4, <3>6, <3>7, TurnKeeps
  <2> QED BY <2>11, <2>12
<1>5. CASE Hears(t, {"unknown"}) /\ StopChild(t, t, "refusing") /\ UNCHANGED <<pool, outcome>>
  BY <1>1, <1>3, <1>5, StopKeeps DEF Exchange
<1>6. CASE Ended(t) /\ StopChild(t, t, "stopping") /\ UNCHANGED <<pool, outcome>>
  BY <1>1, <1>3, <1>6, StopKeeps DEF Exchange
<1> QED BY <1>4, <1>5, <1>6 DEF Capabilities

\* A section of the answer is read, and it ends the conversation: the process is quiet.
LEMMA LastRead ==
  ASSUME PoolIndInv, NEW t \in Tasks, at[t] \in Exchange, UNCHANGED <<open, inPool, talk>>,
         NEW k \in Tasks, k = talk[t], NEW able \in SUBSET {"clean", "smudge"}, NEW words, Hears(k, words),
         Rest(t, k, 3), child[k].asked = Nothing, Len(child[k].out) = 1,
         child' = [child EXCEPT ![k] = [[@ EXCEPT !.out = Tail(child[k].out)] EXCEPT !.able = able]],
         NEW o \in OutcomeType, o.how = "bytes" => o.of = t, Settle(t, o)
  PROVE  PoolIndInv'
<1>1. at[t] \in Talking BY DEF Talking
<1>2. /\ PoolTypes /\ InFront(t) /\ inPool[t] = open /\ open \in Scopes /\ pool[open].queue # <<>>
      /\ TalkOK(t) /\ Running(t) = pool[open].running[DriverOf(t)] /\ Running(t) \in Tasks \cup {None}
      /\ DriverOf(t) \in Drivers /\ talk[t] \in Tasks \cup {None} /\ outcome[t] \in OutcomeType /\ t \in Scopes
      /\ \A j \in Tasks : child[j] \in ChildType
  BY <1>1, Front
<1>3. k = Running(t) /\ k # None BY <1>2, ScopesAre DEF TalkOK
<1>4. DriverOf(k) = DriverOf(t) BY <1>1, <1>3, FrontRunning
<1> DEFINE x == [child[k] EXCEPT !.out = Tail(child[k].out)]
           y == [x EXCEPT !.able = able]
<1>5. /\ x \in ChildType /\ x.asked = child[k].asked /\ Len(x.out) = Len(child[k].out) - 1
      /\ (Len(x.out) = 0 => x.out = <<>>)
  BY <1>2, ReadLeaves
<1>6. child' = [child EXCEPT ![k] = y] BY <1>2 DEF PoolTypes
<1> HIDE DEF x
<1>7. y \in ChildType /\ y.out = x.out /\ y.asked = x.asked BY <1>5, WithAble
<1> HIDE DEF y
<1>8. y.out = <<>> /\ y.asked = Nothing BY <1>5, <1>7
<1>9. /\ at' = [at EXCEPT ![t] = "settled"] /\ outcome' = [outcome EXCEPT ![t] = o]
      /\ pool' = [pool EXCEPT ![inPool[t]].queue = Tail(@)]
  BY DEF Settle
<1>10. PoolTurn(t, "settled", k) BY <1>2, <1>3, <1>9, PoolSettles
<1>11. Speaks(t, k, "settled", y, o, k, k) BY <1>2, <1>6, <1>7, <1>9, <1>10, Itself DEF Speaks
<1>12. pool'[open].running[DriverOf(k)] = k BY <1>2, <1>4, <1>10 DEF PoolTurn
<1>13. Fair(t, k, "settled", y, k, k) BY <1>3, <1>8, <1>12 DEF Fair, Exchange
<1>14. TalkOK(t)'
  <2>1. at'[t] = "settled" /\ outcome'[t] = o BY <1>2, <1>9 DEF PoolTypes
  <2> QED BY <2>1 DEF TalkOK, Exchange
<1> QED BY <1>2, <1>11, <1>13, <1>14, TurnKeeps

\* What the answer may still hold: once a section of it can be read, nothing is asked.
LEMMA Heard ==
  ASSUME PoolIndInv, NEW t \in Tasks, at[t] \in Exchange, NEW k, k = talk[t]
  PROVE  /\ k \in Tasks /\ k # None /\ child[k] \in ChildType /\ Rest(t, k, 3)
         /\ child[k].out # <<>> => child[k].asked = Nothing
         /\ \A words : Hears(k, words) => child[k].out # <<>>
         /\ at[t] = "trailing" /\ child[k].out # <<>> => Len(child[k].out) = 1
         /\ at[t] = "status" /\ Hears(k, {"error", "abort"}) => Len(child[k].out) = 1
<1>1. at[t] \in Talking BY DEF Talking
<1>2. TalkOK(t) /\ talk[t] \in Tasks \cup {None} /\ \A j \in Tasks : child[j] \in ChildType BY <1>1, Front
<1>3. k \in Tasks /\ k # None /\ child[k] \in ChildType BY <1>2 DEF TalkOK
<1>4. child[k].out \in Seq(SectionType) BY <1>3 DEF ChildType
<1>5. /\ Len(child[k].out) \in Nat /\ (child[k].out # <<>> => Len(child[k].out) > 0)
      /\ (child[k].out # <<>> => Head(child[k].out) = child[k].out[1])
  BY <1>4
<1>6. Rest(t, k, 3) BY <1>2, <1>5 DEF TalkOK, Rest, Exchange
<1>7. child[k].out # <<>> => child[k].asked = Nothing BY <1>2 DEF TalkOK, Exchange
<1>8. at[t] = "trailing" /\ child[k].out # <<>> => Len(child[k].out) = 1
  <2>1. at[t] = "trailing" => Len(child[k].out) <= 1 BY <1>2 DEF TalkOK, Rest
  <2>2. \A m \in Nat : m <= 1 /\ m > 0 => m = 1 OBVIOUS
  <2> QED BY <1>5, <2>1, <2>2
<1>9. at[t] = "status" /\ Hears(k, {"error", "abort"}) => Len(child[k].out) = 1
  BY <1>2, <1>5 DEF TalkOK, Hears
<1>10. \A words : Hears(k, words) => child[k].out # <<>> BY DEF Hears
<1> QED BY <1>3, <1>6, <1>7, <1>8, <1>9, <1>10

\* A process whose ability is replaced by what it is keeps its record.
LEMMA SameAble ==
  ASSUME NEW x \in ChildType
  PROVE  [x EXCEPT !.able = x.able] = x /\ x.able \in SUBSET {"clean", "smudge"}
BY DEF ChildType

\* The answer says that the path failed, or there is none: the process stays, or is told to end.
LEMMA FailsKeeps ==
  ASSUME PoolIndInv, NEW t \in Tasks, at[t] \in Exchange, NEW k, k = talk[t],
         at[t] \in {"status", "trailing"} \/ Ended(k), Fails(t, k), UNCHANGED <<open, inPool, talk>>
  PROVE  PoolIndInv'
<1>1. PoolTypes /\ k \in Tasks /\ child[k] \in ChildType /\ Rest(t, k, 3) BY Heard DEF PoolIndInv
<1>2. Failed \in OutcomeType /\ Failed.how # "bytes" BY DEF Failed, Result, OutcomeType
<1> DEFINE x == [child[k] EXCEPT !.out = Tail(child[k].out)]
<1>3. ASSUME NEW words \in SUBSET {"error", "abort"}, Hears(k, words)
      PROVE  /\ Len(child[k].out) = 1 /\ child[k].asked = Nothing
             /\ x \in ChildType /\ x.able = child[k].able
  <2>1. child[k].out # <<>> /\ Hears(k, {"error", "abort"}) BY <1>3 DEF Hears
  <2>2. at[t] \in {"status", "trailing"} BY <2>1 DEF Ended
  <2> QED BY <1>1, <1>3, <2>1, <2>2, Heard, ReadLeaves
<1>4. CASE Hears(k, {"error"}) /\ child' = Read(k) /\ Settle(t, Failed)
  <2>1. Len(child[k].out) = 1 /\ child[k].asked = Nothing /\ x \in ChildType BY <1>3, <1>4
  <2>2. [x EXCEPT !.able = x.able] = x /\ x.able \in SUBSET {"clean", "smudge"} BY <2>1, SameAble
  <2>3. child' = [child EXCEPT ![k] = x] BY <1>1, <1>4 DEF Read, PoolTypes
  <2>4. child' = [child EXCEPT ![k] = [x EXCEPT !.able = x.able]] BY <2>2, <2>3
  <2> QED BY <1>1, <1>2, <1>4, <2>1, <2>2, <2>4, LastRead DEF PoolTypes
<1>5. CASE Hears(k, {"abort"}) /\ child' = [Read(k) EXCEPT ![k].able = @ \ {Capability(t)}] /\ Settle(t, Failed)
  <2>1. Len(child[k].out) = 1 /\ child[k].asked = Nothing /\ x \in ChildType BY <1>3, <1>5
  <2>2. x.able \in SUBSET {"clean", "smudge"} BY <2>1, SameAble
  <2>3. child' = [child EXCEPT ![k] = [x EXCEPT !.able = x.able \ {Capability(t)}]]
    <3>1. Read(k) = [child EXCEPT ![k] = x] /\ Read(k)[k] = x BY <1>1 DEF Read, PoolTypes
    <3> HIDE DEF x
    <3> QED BY <1>1, <1>5, <3>1 DEF PoolTypes
  <2>4. x.able \ {Capability(t)} \in SUBSET {"clean", "smudge"} BY <2>2
  <2> QED BY <1>1, <1>2, <1>5, <2>1, <2>3, <2>4, LastRead DEF PoolTypes
<1>6. CASE /\ StopChild(t, k, "stopping")
           /\ pool' = [pool EXCEPT ![inPool[t]].running[DriverOf(t)] = None]
           /\ UNCHANGED outcome
  BY <1>6, StopKeeps
<1> QED BY <1>4, <1>5, <1>6 DEF Fails

\* A section is read and more is awaited.
LEMMA MoreKeeps ==
  ASSUME PoolIndInv, NEW t \in Tasks, at[t] \in Exchange, NEW k, k = talk[t],
         NEW w \in {"content", "trailing"}, at' = [at EXCEPT ![t] = w],
         NEW n \in {1, 2}, w = "content" => n = 2, w = "trailing" => n = 1, Rest(t, k, n + 1),
         NEW words, Hears(k, words), child' = Read(k),
         NEW o \in OutcomeType, o.how = "bytes" => o.of = t, w = "trailing" => o = Result("bytes", t),
         outcome' = [outcome EXCEPT ![t] = o], UNCHANGED <<open, inPool, talk, pool>>
  PROVE  PoolIndInv'
<1>1. at[t] \in Talking BY DEF Talking
<1>2. /\ PoolTypes /\ InFront(t) /\ inPool[t] = open /\ open \in Scopes
      /\ TalkOK(t) /\ Running(t) = pool[open].running[DriverOf(t)] /\ Running(t) \in Tasks \cup {None}
      /\ DriverOf(t) \in Drivers /\ talk[t] \in Tasks \cup {None} /\ t \in Scopes
  BY <1>1, Front
<1>3. k \in Tasks /\ k # None /\ child[k] \in ChildType /\ child[k].asked = Nothing BY Heard
<1>4. k = Running(t) BY <1>2 DEF TalkOK
<1>5. DriverOf(k) = DriverOf(t) BY <1>1, <1>3, <1>4, FrontRunning
<1> DEFINE y == [child[k] EXCEPT !.out = Tail(child[k].out)]
<1>6. /\ y \in ChildType /\ y.asked = child[k].asked /\ Len(y.out) <= (n + 1) - 1 /\ Len(y.out) \in Nat
      /\ \A i \in DOMAIN y.out : y.out[i].of = t
  <2>1. PICK m \in Nat : m = n + 1 OBVIOUS
  <2>2. Rest(t, k, m) BY <2>1
  <2>3. m \in Nat /\ k \in Tasks /\ child[k] \in ChildType BY <1>3, <2>1
  <2>4. y \in ChildType /\ y.asked = child[k].asked /\ Len(y.out) \in Nat BY <2>2, <2>3, ReadLeaves
  <2>5. Len(y.out) <= m - 1 BY <2>2, <2>3, ReadLeaves
  <2>6. \A i \in DOMAIN y.out : y.out[i].of = t
    <3>1. child[k].out \in Seq(SectionType) /\ child[k].out # <<>> BY <2>3 DEF ChildType, Hears
    <3>2. y.out = Tail(child[k].out) BY <2>3 DEF ChildType
    <3>3. \A i \in DOMAIN Tail(child[k].out) :
            i + 1 \in DOMAIN child[k].out /\ Tail(child[k].out)[i] = child[k].out[i + 1]
      BY <3>1
    <3>4. \A i \in DOMAIN child[k].out : child[k].out[i].of = t BY <2>2 DEF Rest
    <3> HIDE DEF y
    <3> QED BY <3>2, <3>3, <3>4
  <2> QED BY <2>1, <2>4, <2>5, <2>6
<1>7. child' = [child EXCEPT ![k] = y] /\ child'[k] = y BY <1>2, <1>3 DEF Read, PoolTypes
<1> HIDE DEF y
<1>8. PoolTurn(t, w, k) BY <1>2, <1>4, PoolStays
<1>9. Speaks(t, k, w, y, o, k, k) BY <1>2, <1>3, <1>6, <1>7, <1>8, Itself DEF Speaks, Talking, Exchange
<1>10. Fair(t, k, w, y, k, k) BY <1>2, <1>4, <1>5 DEF Fair, Exchange
<1>11. TalkOK(t)'
  <2>1. at'[t] = w /\ talk'[t] = k /\ outcome'[t] = o /\ inPool'[t] = open BY <1>2 DEF PoolTypes
  <2>2. /\ Len(child'[k].out) <= n /\ child'[k].asked = Nothing
        /\ \A i \in DOMAIN child'[k].out : child'[k].out[i].of = t
    BY <1>3, <1>6, <1>7
  <2>3. Rest(t, k, n)' BY <2>2 DEF Rest
  <2>4. w = "content" => Rest(t, k, 2)' BY <2>3
  <2>5. w = "trailing" => Rest(t, k, 1)' BY <2>3
  <2>6. k # None /\ pool'[inPool'[t]].running[DriverOf(t)] = k BY <1>2, <1>3, <1>4, <2>1
  <2>7. child'[k].asked = Nothing BY <2>2
  <2>8. at'[t] \notin {"greeting", "capabilities", "status", "stopping", "refusing"} BY <2>1
  <2> QED BY <2>1, <2>4, <2>5, <2>6, <2>7, <2>8 DEF TalkOK
<1> QED BY <1>2, <1>3, <1>9, <1>10, <1>11, TurnKeeps

\* The first section of the answer.
LEMMA StatusKeeps ==
  ASSUME PoolIndInv, NEW t \in Tasks, Status(t)
  PROVE  PoolIndInv'
<1>1. PICK k : k = talk[t] OBVIOUS
<1>2. at[t] = "status" /\ at[t] \in Exchange /\ UNCHANGED <<open, inPool, talk>> BY DEF Status, Exchange
<1>3. PoolTypes /\ TalkOK(t) /\ outcome[t] \in OutcomeType BY <1>2, Front DEF Talking
<1>4. CASE /\ Hears(k, {"success"}) /\ child' = Read(k) /\ at' = [at EXCEPT ![t] = "content"]
           /\ UNCHANGED <<pool, outcome>>
  <2>1. Rest(t, k, 2 + 1) BY <1>1, <1>2, <1>3 DEF TalkOK
  <2>2. outcome[t].how = "bytes" => outcome[t].of = t BY <1>3 DEF TalkOK
  <2>3. outcome' = [outcome EXCEPT ![t] = outcome[t]] BY <1>3, <1>4, Itself
  <2> QED BY <1>1, <1>2, <1>3, <1>4, <2>1, <2>2, <2>3, MoreKeeps
<1>5. CASE Fails(t, k) BY <1>1, <1>2, <1>5, FailsKeeps
<1> QED BY <1>1, <1>4, <1>5 DEF Status

\* The content of the answer is this conversation's own.
LEMMA ContentKeeps ==
  ASSUME PoolIndInv, NEW t \in Tasks, Content(t)
  PROVE  PoolIndInv'
<1>1. PICK k : k = talk[t] OBVIOUS
<1>2. at[t] = "content" /\ at[t] \in Exchange /\ UNCHANGED <<open, inPool, talk>> BY DEF Content, Exchange
<1>3. PoolTypes /\ TalkOK(t) /\ outcome[t] \in OutcomeType BY <1>2, Front DEF Talking
<1>4. CASE /\ Hears(k, {"content"}) /\ outcome' = [outcome EXCEPT ![t] = Result("bytes", Head(child[k].out).of)]
           /\ child' = Read(k) /\ at' = [at EXCEPT ![t] = "trailing"] /\ UNCHANGED pool
  <2>1. Rest(t, k, 1 + 1) BY <1>1, <1>2, <1>3 DEF TalkOK
  <2>2. k \in Tasks /\ child[k] \in ChildType BY <1>1, <1>2, Heard
  <2>3. Head(child[k].out).of = t
    <3>1. Rest(t, k, 2) BY <2>1
    <3> QED BY <1>4, <2>2, <3>1, ReadLeaves
  <2>4. Result("bytes", t) \in OutcomeType /\ Result("bytes", t).of = t BY DEF Result, OutcomeType
  <2> QED BY <1>1, <1>2, <1>4, <2>1, <2>3, <2>4, MoreKeeps
<1>5. CASE Ended(k) /\ Fails(t, k) BY <1>1, <1>2, <1>5, FailsKeeps
<1> QED BY <1>1, <1>4, <1>5 DEF Content

\* The status that trails it.
LEMMA TrailingKeeps ==
  ASSUME PoolIndInv, NEW t \in Tasks, Trailing(t)
  PROVE  PoolIndInv'
<1>1. PICK k : k = talk[t] OBVIOUS
<1>2. at[t] = "trailing" /\ at[t] \in Exchange /\ UNCHANGED <<open, inPool, talk>> BY DEF Trailing, Exchange
<1>3. PoolTypes /\ TalkOK(t) /\ outcome[t] \in OutcomeType BY <1>2, Front DEF Talking
<1>4. CASE Hears(k, {"success"}) /\ child' = Read(k) /\ Settle(t, outcome[t])
  <2>1. k \in Tasks /\ child[k] \in ChildType /\ Rest(t, k, 3) /\ Len(child[k].out) = 1 /\ child[k].asked = Nothing
    BY <1>1, <1>2, <1>4, Heard
  <2> DEFINE x == [child[k] EXCEPT !.out = Tail(child[k].out)]
  <2>2. x \in ChildType BY <1>4, <2>1, ReadLeaves
  <2>3. [x EXCEPT !.able = x.able] = x /\ x.able \in SUBSET {"clean", "smudge"} BY <2>2, SameAble
  <2>4. child' = [child EXCEPT ![k] = x] BY <1>3, <1>4, <2>1 DEF Read, PoolTypes
  <2>5. child' = [child EXCEPT ![k] = [x EXCEPT !.able = x.able]] BY <2>3, <2>4
  <2>6. outcome[t].how = "bytes" => outcome[t].of = t BY <1>3 DEF TalkOK
  <2> QED BY <1>1, <1>2, <1>3, <1>4, <2>1, <2>3, <2>5, <2>6, LastRead DEF PoolTypes
<1>5. CASE Fails(t, k) BY <1>1, <1>2, <1>5, FailsKeeps
<1> QED BY <1>1, <1>4, <1>5 DEF Trailing

\* The process that was told to end has exited: the conversation is over.
LEMMA StoppedKeeps ==
  ASSUME PoolIndInv, NEW t \in Tasks, Stopped(t)
  PROVE  PoolIndInv'
<1>1. at[t] \in {"stopping", "refusing"} /\ at[t] \in Talking /\ UNCHANGED <<open, inPool, child, talk>>
  BY DEF Stopped, Talking
<1>2. /\ PoolTypes /\ InFront(t) /\ inPool[t] = open /\ open \in Scopes /\ pool[open].queue # <<>>
      /\ TalkOK(t) /\ Running(t) = pool[open].running[DriverOf(t)] /\ Running(t) \in Tasks \cup {None}
      /\ DriverOf(t) \in Drivers /\ talk[t] \in Tasks \cup {None} /\ outcome[t] \in OutcomeType /\ t \in Scopes
      /\ \A j \in Tasks : child[j] \in ChildType
  BY <1>1, Front
<1>3. PICK k \in Tasks : k = talk[t] BY <1>1, <1>2 DEF TalkOK
<1>4. child[k].closed /\ k # None BY <1>1, <1>2, <1>3 DEF TalkOK
<1>5. PICK o \in OutcomeType : o = (IF at[t] = "refusing" THEN Thrown ELSE Failed) /\ o.how # "bytes"
  <2>1. Failed \in OutcomeType /\ Failed.how # "bytes" BY DEF Failed, Result, OutcomeType
  <2>2. Thrown \in OutcomeType /\ Thrown.how # "bytes" BY DEF Thrown, Result, OutcomeType
  <2> QED BY <2>1, <2>2
<1>6. /\ at' = [at EXCEPT ![t] = "settled"] /\ outcome' = [outcome EXCEPT ![t] = o]
      /\ pool' = [pool EXCEPT ![inPool[t]].queue = Tail(@)]
  BY <1>5 DEF Stopped, Settle
<1>7. PoolTurn(t, "settled", Running(t)) BY <1>2, <1>6, PoolSettles
<1>8. child' = [child EXCEPT ![k] = child[k]] BY <1>1, <1>2 DEF PoolTypes
<1>9. Speaks(t, k, "settled", child[k], o, talk[t], Running(t))
  BY <1>1, <1>2, <1>6, <1>7, <1>8, Itself DEF Speaks
<1>10. Quiet(k) \/ \A r \in Scopes, d \in Drivers : pool'[r].running[d] # k
  <2> SUFFICES ASSUME NEW r \in Scopes, NEW d \in Drivers, pool'[r].running[d] = k PROVE Quiet(k) OBVIOUS
  <2>1. pool[r].running[d] = k BY <1>2, <1>7 DEF PoolTurn
  <2>2. \A u \in Tasks : at[u] \in Exchange => u = t BY <1>2, OneTalks DEF PoolIndInv, Talking
  <2> QED BY <1>1, <1>4, <2>1, <2>2 DEF PoolIndInv, Attended, Exchange
<1>11. Fair(t, k, "settled", child[k], talk[t], Running(t)) BY <1>1, <1>4, <1>10 DEF Fair, Exchange, Quiet
<1>12. TalkOK(t)'
  <2>1. at'[t] = "settled" /\ outcome'[t] = o BY <1>2, <1>6 DEF PoolTypes
  <2> QED BY <1>5, <2>1 DEF TalkOK, Exchange
<1> QED BY <1>2, <1>9, <1>11, <1>12, TurnKeeps

------------------------------
(* What the filter process says. *)

\* An answer, or its beginning: of who asked, one section to a greeting, and alone where it
\* says that the path failed.
PartAnswer(k, a) ==
  /\ a \in Seq(SectionType) /\ Len(a) <= 3 /\ \A i \in DOMAIN a : a[i].of = child[k].asked.by
  /\ child[k].asked.what # "request" => Len(a) <= 1
  /\ a # <<>> /\ a[1].says \in {"error", "abort"} => Len(a) = 1

\* What a filter says is of who asked.
LEMMA SaysIs ==
  ASSUME NEW t \in Tasks, NEW words \in Seq(Words)
  PROVE  /\ Says(t, words) \in Seq(SectionType) /\ Len(Says(t, words)) = Len(words)
         /\ \A i \in 1 .. Len(words) : Says(t, words)[i] = [of |-> t, says |-> words[i]]
<1>1. Len(words) \in Nat /\ \A i \in 1 .. Len(words) : [of |-> t, says |-> words[i]] \in SectionType
  BY DEF SectionType
<1>2. Says(t, words) \in [1 .. Len(words) -> SectionType] BY <1>1 DEF Says
<1>3. Says(t, words) \in Seq(SectionType) /\ Len(Says(t, words)) = Len(words) BY <1>1, <1>2 DEF Says
<1> QED BY <1>3 DEF Says

\* A request's answer has three sections, or one; any other answer has one.
AnswerWords ==
  {<<"welcome">>, <<"other">>, <<"both">>, <<"smudge">>, <<"unknown">>, <<"error">>, <<"abort">>}
LongAnswers == {<<"success", "content", "success">>, <<"success", "content", "error">>}

\* Every answer, and every beginning of one, is such an answer.
LEMMA AnswersAre ==
  ASSUME NEW k \in Tasks, child[k] \in ChildType, child[k].asked # Nothing, NEW a \in Answers(k)
  PROVE  /\ PartAnswer(k, a) /\ Len(a) \in Nat
         /\ \A n \in 0 .. Len(a) - 1 : PartAnswer(k, SubSeq(a, 1, n))
<1>1. child[k].asked \in [what : {"greeting", "capabilities", "request"}, by : Tasks] BY DEF ChildType
<1> DEFINE by == child[k].asked.by
           what == child[k].asked.what
<1>2. PICK words \in AnswerWords \cup LongAnswers :
        a = Says(by, words) /\ (what # "request" => words \in AnswerWords)
  <2>1. what \in {"greeting", "capabilities", "request"} BY <1>1
  <2>2. CASE what = "greeting" BY <2>2 DEF Answers, AnswerWords
  <2>3. CASE what = "capabilities" BY <2>3 DEF Answers, AnswerWords
  <2>4. CASE what = "request" BY <2>4 DEF Answers, AnswerWords, LongAnswers
  <2> QED BY <2>1, <2>2, <2>3, <2>4
<1>3. /\ words \in Seq(Words) /\ Len(words) \in {1, 3}
      /\ words \in AnswerWords => Len(words) = 1
      /\ words \in LongAnswers => words[1] = "success"
  <2>1. \A v \in Words : <<v>> \in Seq(Words) /\ Len(<<v>>) = 1 OBVIOUS
  <2>2. ASSUME words \in AnswerWords PROVE words \in Seq(Words) /\ Len(words) = 1
    <3>1. \E v \in Words : words = <<v>> BY <2>2 DEF AnswerWords, Words
    <3> QED BY <2>1, <3>1
  <2>3. \A u, v, x \in Words : <<u, v, x>> \in Seq(Words) /\ Len(<<u, v, x>>) = 3 /\ <<u, v, x>>[1] = u
    OBVIOUS
  <2>4. ASSUME words \in LongAnswers PROVE words \in Seq(Words) /\ Len(words) = 3 /\ words[1] = "success"
    <3>1. "success" \in Words /\ "content" \in Words /\ "error" \in Words BY DEF Words
    <3>2. \E x \in Words : words = <<"success", "content", x>> BY <2>4, <3>1 DEF LongAnswers
    <3>3. PICK x \in Words : words = <<"success", "content", x>> BY <3>2
    <3> QED BY <2>3, <3>1, <3>3
  <2> QED BY <1>2, <2>2, <2>4
<1>4. /\ a \in Seq(SectionType) /\ Len(a) = Len(words) /\ Len(a) \in {1, 3}
      /\ \A i \in 1 .. Len(words) : a[i] = [of |-> by, says |-> words[i]]
  BY <1>1, <1>2, <1>3, SaysIs
<1>5. \A i \in 1 .. Len(a) : a[i].of = by /\ a[i].says = words[i]
  <2> SUFFICES ASSUME NEW i \in 1 .. Len(a) PROVE a[i].of = by /\ a[i].says = words[i] OBVIOUS
  <2>1. a[i] = [of |-> by, says |-> words[i]] BY <1>4
  <2> QED BY <2>1
<1> HIDE DEF by, what
<1>6. a[1].says \in {"error", "abort"} => Len(a) = 1 BY <1>2, <1>3, <1>4, <1>5
<1>7. what # "request" => Len(a) = 1 BY <1>2, <1>3, <1>4
<1>8. PartAnswer(k, a) /\ Len(a) \in Nat BY <1>4, <1>5, <1>6, <1>7 DEF PartAnswer, by, what
<1>9. ASSUME NEW n \in 0 .. Len(a) - 1 PROVE PartAnswer(k, SubSeq(a, 1, n))
  <2> DEFINE b == SubSeq(a, 1, n)
  <2>1. b \in Seq(SectionType) /\ Len(b) = n /\ \A i \in 1 .. n : b[i] = a[i] BY <1>4
  <2>2. DOMAIN b = 1 .. n /\ n <= 2 /\ n \in Nat BY <1>4, <2>1
  <2>3. what # "request" => n = 0
    <3>1. \A m \in 0 .. 1 - 1 : m = 0 OBVIOUS
    <3> QED BY <1>7, <3>1
  <2>4. b # <<>> => n > 0 /\ b[1] = a[1] BY <2>1, <2>2
  <2>5. b # <<>> => a[1].says \notin {"error", "abort"}
    <3>1. b # <<>> => Len(a) # 1 BY <1>4, <2>4
    <3> QED BY <1>6, <3>1
  <2> HIDE DEF b
  <2>6. \A i \in DOMAIN b : b[i].of = by BY <1>4, <1>5, <2>1, <2>2
  <2>7. PartAnswer(k, b) BY <2>1, <2>2, <2>3, <2>4, <2>5, <2>6 DEF PartAnswer, by, what
  <2> QED BY <2>7 DEF b
<1> QED BY <1>8, <1>9

\* A process speaks or dies: only who asked it hears of it.
LEMMA ChildSpeaks ==
  ASSUME PoolIndInv, NEW k \in Tasks, NEW y \in ChildType, child' = [child EXCEPT ![k] = y],
         y.closed = child[k].closed, y.state = "live" => child[k].state = "live",
         \/ y.asked = child[k].asked /\ y.out = child[k].out
         \/ /\ child[k].asked # Nothing /\ y.asked = Nothing
            /\ \E a : PartAnswer(k, a) /\ y.out = child[k].out \o a,
         UNCHANGED <<open, pool, inPool, at, talk, outcome>>
  PROVE  PoolIndInv'
<1>1. PoolTypes /\ Places /\ Runs /\ Attended /\ Speech /\ NoStrayFilter BY DEF PoolIndInv
<1>2. child'[k] = y /\ \A j \in Tasks \ {k} : child'[j] = child[j] BY <1>1 DEF PoolTypes
<1>3. PoolTypes' BY <1>1 DEF PoolTypes
<1>4. Places'
  <2> SUFFICES ASSUME NEW s \in Scopes PROVE ScopeOK(s)' /\ PlaceOK(s)' BY DEF Places
  <2>1. ScopeOK(s)' BY <1>1 DEF Places, ScopeOK
  <2>2. PlaceOK(s)'
    <3>1. SamePlace(s) BY DEF SamePlace
    <3> QED BY <1>1, <3>1, SamePlaceOK
  <2> QED BY <2>1, <2>2
<1>5. Runs' BY <1>1 DEF Runs, RunsOK
<1>6. Attended'
  <2>1. \A j \in Tasks : Quiet(j) => Quiet(j)' BY <1>2 DEF Quiet
  <2>2. \A s \in Scopes, d \in Drivers : pool[s].running[d] # None => pool[s].running[d] \in Tasks
    BY <1>1, PoolTyped
  <2> QED BY <1>1, <2>1, <2>2 DEF Attended
<1>7. Speech'
  <2> SUFFICES ASSUME NEW t \in Tasks PROVE TalkOK(t)' BY DEF Speech
  <2>1. TalkOK(t) /\ talk[t] \in Tasks \cup {None} BY <1>1, PoolTyped DEF Speech
  <2>2. \A j \in Tasks : child'[j].closed = child[j].closed BY <1>2
  <2>3. CASE talk[t] # k \/ (y.asked = child[k].asked /\ y.out = child[k].out)
    <3>1. talk[t] \in Tasks => child'[talk[t]].out = child[talk[t]].out /\ child'[talk[t]].asked = child[talk[t]].asked
      BY <1>2, <2>3
    <3> QED BY <2>1, <2>2, <3>1 DEF TalkOK, Rest, Exchange
  <2>4. CASE talk[t] = k /\ child[k].asked # Nothing /\ y.asked = Nothing
             /\ \E a : PartAnswer(k, a) /\ y.out = child[k].out \o a
    <3>1. PICK a : PartAnswer(k, a) /\ y.out = child[k].out \o a BY <2>4
    <3>2. child[k].out = <<>> => y.out = a BY <3>1 DEF PartAnswer
    <3>3. a \in Seq(SectionType) /\ Len(a) \in Nat BY <3>1 DEF PartAnswer
    <3>4. CASE at[t] \in {"greeting", "capabilities"}
      <4>1. child[k].asked = Ask(at[t], t) /\ child[k].out = <<>> /\ k = t BY <2>1, <2>4, <3>4 DEF TalkOK
      <4>2. child[k].asked.by = t /\ child[k].asked.what # "request" BY <3>4, <4>1 DEF Ask
      <4>3. Len(y.out) <= 1 /\ \A i \in DOMAIN y.out : y.out[i].of = t
        BY <3>1, <3>2, <4>1, <4>2 DEF PartAnswer
      <4> QED BY <1>2, <2>1, <2>4, <3>4, <4>1, <4>3 DEF TalkOK, Rest, Exchange
    <3>5. CASE at[t] = "status"
      <4>1. child[k].asked = Ask("request", t) /\ child[k].out = <<>> BY <2>1, <2>4, <3>5 DEF TalkOK
      <4>2. child[k].asked.by = t BY <4>1 DEF Ask
      <4>3. /\ Len(y.out) <= 3 /\ \A i \in DOMAIN y.out : y.out[i].of = t
            /\ y.out # <<>> /\ y.out[1].says \in {"error", "abort"} => Len(y.out) = 1
        BY <3>1, <3>2, <4>1, <4>2 DEF PartAnswer
      <4> QED BY <1>2, <2>1, <2>4, <3>5, <4>1, <4>3 DEF TalkOK, Rest, Exchange
    <3>6. CASE at[t] \in {"content", "trailing"} BY <2>1, <2>4, <3>6 DEF TalkOK
    <3>7. CASE at[t] \notin {"greeting", "capabilities"} \cup Exchange
      BY <2>1, <2>2, <2>4, <3>7 DEF TalkOK, Exchange
    <3> QED BY <3>4, <3>5, <3>6, <3>7 DEF Exchange
  <2> QED BY <2>3, <2>4
<1>8. NoStrayFilter'
  <2> SUFFICES ASSUME NEW j \in Tasks, child'[j].state = "live", ~child'[j].closed
               PROVE  \/ at[j] \in {"greeting", "capabilities"}
                      \/ \E r \in Scopes : pool[r].running[DriverOf(j)] = j /\ Tended(r)
    BY DEF NoStrayFilter, Tended
  <2>1. child[j].state = "live" /\ ~child[j].closed BY <1>2
  <2> QED BY <1>1, <2>1 DEF NoStrayFilter, Tended
<1> QED BY <1>3, <1>4, <1>5, <1>6, <1>7, <1>8 DEF PoolIndInv

\* A filter answers, in whole or in part.
LEMMA AnswerKeeps ==
  ASSUME PoolIndInv, NEW k \in Tasks, Answer(k)
  PROVE  PoolIndInv'
<1>1. PoolTypes /\ child[k] \in ChildType BY PoolTyped DEF PoolIndInv
<1>2. PICK a \in Answers(k) : child' = [child EXCEPT ![k].asked = Nothing, ![k].out = @ \o a] BY DEF Answer
<1>3. child[k].asked # Nothing /\ UNCHANGED <<open, pool, inPool, at, talk, outcome>> BY DEF Answer
<1>4. PartAnswer(k, a) BY <1>1, <1>3, AnswersAre
<1> DEFINE x == [child[k] EXCEPT !.asked = Nothing]
           z == child[k].out \o a
           y == [x EXCEPT !.out = z]
<1>5. Nothing \in AskedType BY DEF AskedType
<1>6. /\ x \in ChildType /\ x.asked = Nothing /\ x.out = child[k].out /\ x.state = child[k].state
      /\ x.closed = child[k].closed
  BY <1>1, <1>5, WithAsked
<1>7. z \in Seq(SectionType) BY <1>1, <1>4 DEF ChildType, PartAnswer
<1>8. child' = [child EXCEPT ![k] = y] BY <1>1, <1>2, <1>6 DEF PoolTypes
<1> HIDE DEF x
<1>9. y \in ChildType /\ y.out = z /\ y.asked = x.asked /\ y.state = x.state /\ y.closed = x.closed
  BY <1>6, <1>7, WithOut
<1> HIDE DEF y
<1> QED BY <1>3, <1>4, <1>6, <1>8, <1>9, ChildSpeaks

\* A filter process dies.
LEMMA DieKeeps ==
  ASSUME PoolIndInv, NEW k \in Tasks, Die(k)
  PROVE  PoolIndInv'
<1>1. PoolTypes /\ child[k] \in ChildType BY PoolTyped DEF PoolIndInv
<1>2. UNCHANGED <<open, pool, inPool, at, talk, outcome>> BY DEF Die
<1> DEFINE v == [child[k] EXCEPT !.state = "exited"]
<1>3. /\ v \in ChildType /\ v.asked = child[k].asked /\ v.out = child[k].out /\ v.state = "exited"
      /\ v.closed = child[k].closed
  BY <1>1 DEF ChildType
<1>4. CASE child[k].asked = Nothing
  <2>1. child' = [child EXCEPT ![k] = v] BY <1>1, <1>4 DEF Die, PoolTypes
  <2> HIDE DEF v
  <2> QED BY <1>2, <1>3, <2>1, ChildSpeaks
<1>5. CASE child[k].asked # Nothing
  <2>1. PICK a \in Answers(k) : \E n \in 0 .. Len(a) - 1 :
              child' = [child EXCEPT ![k].state = "exited", ![k].asked = Nothing,
                                     ![k].out = @ \o SubSeq(a, 1, n)]
    BY <1>5 DEF Die
  <2>2. PICK n \in 0 .. Len(a) - 1 :
              child' = [child EXCEPT ![k].state = "exited", ![k].asked = Nothing,
                                     ![k].out = @ \o SubSeq(a, 1, n)]
    BY <2>1
  <2>3. PICK b : b = SubSeq(a, 1, n) OBVIOUS
  <2>4. PartAnswer(k, b) BY <1>1, <1>5, <2>2, <2>3, AnswersAre
  <2> DEFINE x == [v EXCEPT !.asked = Nothing]
             z == child[k].out \o b
             y == [x EXCEPT !.out = z]
  <2>5. Nothing \in AskedType BY DEF AskedType
  <2>6. /\ x \in ChildType /\ x.asked = Nothing /\ x.out = v.out /\ x.state = v.state /\ x.closed = v.closed
    BY <1>3, <2>5, WithAsked
  <2>7. z \in Seq(SectionType) BY <1>1, <2>4 DEF ChildType, PartAnswer
  <2>8. child' = [child EXCEPT ![k] = y] BY <1>1, <1>3, <2>2, <2>3, <2>6 DEF PoolTypes
  <2> HIDE DEF x
  <2>9. y \in ChildType /\ y.out = z /\ y.asked = x.asked /\ y.state = x.state /\ y.closed = x.closed
    BY <2>6, <2>7, WithOut
  <2> HIDE DEF y, v
  <2> QED BY <1>2, <1>3, <1>5, <2>4, <2>6, <2>8, <2>9, ChildSpeaks
<1> QED BY <1>4, <1>5

------------------------------
(* The filter pool: the inductive invariant holds. *)

\* At first there is no pool and no process.
LEMMA PoolStarts ==
  ASSUME PoolInit
  PROVE  PoolIndInv
<1>1. /\ open = None /\ pool = [s \in Scopes |-> NoPool] /\ inPool = [s \in Scopes |-> None]
      /\ child = [t \in Tasks |-> NoChild] /\ at = [s \in Scopes |-> "idle"] /\ talk = [t \in Tasks |-> None]
      /\ outcome = [t \in Tasks |-> Result("none", None)]
  BY DEF PoolInit
<1>2. \A s \in Scopes : /\ pool[s].users = 0 /\ pool[s].queue = <<>> /\ inPool[s] = None /\ at[s] = "idle"
                        /\ \A d \in Drivers : pool[s].running[d] = None
  BY <1>1 DEF NoPool
<1>3. PoolTypes
  <2>1. NoPool \in OnePoolType BY DEF NoPool, OnePoolType
  <2>2. <<>> \in Seq(SectionType) OBVIOUS
  <2>3. NoChild \in ChildType BY <2>2 DEF NoChild, ChildType
  <2>4. Result("none", None) \in [how : {"none", "bytes", "failed", "thrown"}, of : Tasks \cup {None}]
    BY DEF Result
  <2> QED BY <1>1, <2>1, <2>3, <2>4 DEF PoolTypes, Phases
<1>4. Places
  <2> SUFFICES ASSUME NEW s \in Scopes PROVE ScopeOK(s) /\ PlaceOK(s) BY DEF Places
  <2>1. ScopeOK(s) BY <1>2 DEF ScopeOK, Talking, Exchange, Leaving
  <2>2. Users(s) = {} BY <1>2, ScopesAre DEF Users
  <2>3. Cardinality(Users(s)) = 0 BY <2>2, FS_EmptySet
  <2>4. pool[s].users = 0 /\ pool[s].queue = <<>> /\ open # s BY <1>1, <1>2, ScopesAre
  <2>5. \A i \in DOMAIN pool[s].queue : FALSE BY <2>4
  <2>6. PlaceOK(s) BY <2>3, <2>4, <2>5 DEF PlaceOK
  <2> QED BY <2>1, <2>6
<1>5. Runs /\ Attended BY <1>2 DEF Runs, RunsOK, Attended
<1>6. Speech
  <2> SUFFICES ASSUME NEW t \in Tasks PROVE TalkOK(t) BY DEF Speech
  <2>1. at[t] = "idle" /\ outcome[t].how # "bytes" BY <1>1, ScopesAre DEF Result
  <2> QED BY <2>1 DEF TalkOK, Exchange
<1>7. NoStrayFilter
  <2>1. \A k \in Tasks : child[k].state # "live" BY <1>1 DEF NoChild
  <2> QED BY <2>1 DEF NoStrayFilter
<1> QED BY <1>3, <1>4, <1>5, <1>6, <1>7 DEF PoolIndInv

\* A step that leaves the pool alone.
LEMMA PoolIdle ==
  ASSUME PoolIndInv, UNCHANGED poolVars
  PROVE  PoolIndInv'
<1>1. /\ open' = open /\ pool' = pool /\ inPool' = inPool /\ child' = child /\ at' = at /\ talk' = talk
      /\ outcome' = outcome
  BY DEF poolVars
<1>2. PoolTypes /\ Places /\ Runs /\ Attended /\ Speech /\ NoStrayFilter BY DEF PoolIndInv
<1>3. PoolTypes' BY <1>1, <1>2 DEF PoolTypes
<1>4. Places'
  <2> SUFFICES ASSUME NEW s \in Scopes PROVE ScopeOK(s)' /\ PlaceOK(s)' BY DEF Places
  <2>1. ScopeOK(s)' BY <1>1, <1>2 DEF Places, ScopeOK
  <2>2. SamePlace(s) BY <1>1 DEF SamePlace
  <2> QED BY <1>2, <2>1, <2>2, SamePlaceOK
<1>5. Runs' BY <1>1, <1>2 DEF Runs, RunsOK
<1>6. Attended' BY <1>1, <1>2 DEF Attended, Quiet
<1>7. Speech' BY <1>1, <1>2 DEF Speech, TalkOK, Rest
<1>8. NoStrayFilter' BY <1>1, <1>2 DEF NoStrayFilter
<1> QED BY <1>3, <1>4, <1>5, <1>6, <1>7, <1>8 DEF PoolIndInv

\* Every step keeps the invariant of the pool.
LEMMA PoolStep ==
  ASSUME PoolIndInv, [Next]_vars
  PROVE  PoolIndInv'
<1>1. ASSUME NEW c \in Commands, Command(c) PROVE PoolIndInv'
  <2>1. CASE Open(c)
    <3>1. EnterScope(c) \/ UNCHANGED poolVars BY <2>1 DEF Open
    <3> QED BY <3>1, EnterScopeKeeps, PoolIdle
  <2>2. CASE Close(c)
    <3>1. Leave(c) \/ UNCHANGED poolVars BY <2>2 DEF Close
    <3>2. c \in Scopes BY ScopesAre
    <3> QED BY <3>1, <3>2, LeaveKeeps, PoolIdle
  <2>3. CASE NextItem(c) \/ Dispatch(c) BY <2>3, PoolIdle DEF NextItem, Dispatch
  <2> QED BY <1>1, <2>1, <2>2, <2>3 DEF Command
<1>2. ASSUME NEW t \in Tasks, Task(t) PROVE PoolIndInv'
  <2>1. CASE BeginClean(t) BY <2>1, ConvertKeeps DEF BeginClean
  <2>2. CASE ~BeginClean(t)
    <3>1. UNCHANGED poolVars
      BY <1>2, <2>2 DEF Task, ReadPath, ConvertPath, EndClean, WriteBlob, EndItem, FreeSlot, SettleTurn
    <3> QED BY <3>1, PoolIdle
  <2> QED BY <2>1, <2>2
<1>3. ASSUME NEW s \in Scopes, Pool(s) PROVE PoolIndInv'
  <2>1. CASE CloseScope(s) BY <2>1, CloseRunningKeeps, ClosedKeeps DEF CloseScope
  <2>2. CASE s \in Tasks /\ Converse(s)
    BY <2>2, TakeTurnKeeps, GreetKeeps, CapabilitiesKeeps, StatusKeeps, ContentKeeps, TrailingKeeps,
       StoppedKeeps, LeaveKeeps DEF Converse
  <2> QED BY <1>3, <2>1, <2>2 DEF Pool
<1>4. ASSUME NEW k \in Tasks, Filter(k) PROVE PoolIndInv' BY <1>4, AnswerKeeps, DieKeeps DEF Filter
<1>5. CASE Mishap
  <2>1. (\E c \in Commands : WalkFails(c)) \/ (\E k \in Tasks : Die(k)) BY <1>5 DEF Mishap
  <2>2. ASSUME NEW c \in Commands, WalkFails(c) PROVE PoolIndInv' BY <2>2, PoolIdle DEF WalkFails
  <2> QED BY <2>1, <2>2, DieKeeps
<1>6. CASE UNCHANGED vars BY <1>6, PoolIdle DEF vars
<1> QED BY <1>1, <1>2, <1>3, <1>4, <1>5, <1>6 DEF Next, Progress

\* Whatever scopes enter and leave, and whatever a process answers or whenever it dies, the pool
\* is as PoolIndInv says: its users counted, its queue in turn, each process with somebody who
\* reads its answer and somebody who ends it.
THEOREM PoolSound == Spec => []PoolIndInv
<1>1. Init => PoolIndInv BY PoolStarts DEF Init
<1>2. PoolIndInv /\ [Next]_vars => PoolIndInv' BY PoolStep
<1> QED BY <1>1, <1>2, PTL DEF Spec

\* What the invariant says of the pool and its processes.
LEMMA PoolImplies ==
  ASSUME PoolIndInv
  PROVE  PoolTypeOK /\ AnswersOwn /\ OnePoolInUse /\ NoStrayFilter
<1>1. PoolTypes /\ Places /\ Speech /\ NoStrayFilter BY DEF PoolIndInv
<1>2. PoolTypeOK
  <2>1. ASSUME NEW s \in Scopes PROVE pool[s].users \in 0 .. Cardinality(Scopes)
    <3>1. pool[s].users = Cardinality(Users(s)) BY <1>1 DEF Places, PlaceOK
    <3>2. Users(s) \in SUBSET Scopes BY DEF Users
    <3> QED BY <3>1, <3>2, ScopesFinite
  <2>2. ASSUME NEW s \in Scopes
        PROVE  /\ pool[s].running \in [Drivers -> Tasks \cup {None}]
               /\ \A i \in DOMAIN pool[s].queue : pool[s].queue[i] \in Tasks
    BY <1>1, PoolTyped
  <2>3. ASSUME NEW k \in Tasks
        PROVE  /\ child[k].state \in {"none", "live", "exited"}
               /\ child[k].closed \in BOOLEAN /\ child[k].able \subseteq {"clean", "smudge"}
               /\ child[k].asked \in [what : {"nothing", "greeting", "capabilities", "request"}, by : Tasks \cup {None}]
    <3>1. child[k] \in ChildType BY <1>1, PoolTyped
    <3> QED BY <3>1 DEF ChildType, Nothing
  <2> QED BY <1>1, <2>1, <2>2, <2>3 DEF PoolTypeOK, PoolTypes
<1>3. AnswersOwn BY <1>1 DEF AnswersOwn, Speech, TalkOK
<1>4. OnePoolInUse BY <1>1 DEF OnePoolInUse, Places, PlaceOK
<1> QED BY <1>1, <1>2, <1>3, <1>4

\* The filter processes alone, whatever commands run side by side: each conversion comes back with
\* the answer to its own request, one pool is in use, and no process is left without somebody who
\* will end it. No assumption on who cleans is needed.
THEOREM FiltersAnswerOwn == Spec => [](PoolTypeOK /\ AnswersOwn /\ OnePoolInUse /\ NoStrayFilter)
<1>1. Spec => []PoolIndInv BY PoolSound
<1>2. PoolIndInv => PoolTypeOK /\ AnswersOwn /\ OnePoolInUse /\ NoStrayFilter BY PoolImplies
<1> QED BY <1>1, <1>2, PTL

------------------------------
(* The runners of a scan. *)

\* A scan has as many paths under way as it has runners at most, and no slots; a staging command
\* has no runners.
RunnersOK(c) ==
  /\ Scans(c) => /\ Cardinality(Busy(c)) <= cmd[c].runners /\ cmd[c].runners <= Limit
                 /\ limiter[c].active = 0
  /\ ~Scans(c) => cmd[c].runners = 0

\* Fewer paths under way, for no fewer runners.
LEMMA FewerBusy ==
  ASSUME NEW c \in Commands, RunnersOK(c), Scans(c), Scans(c)', Busy(c)' \subseteq Busy(c),
         cmd'[c].runners = cmd[c].runners, cmd[c].runners \in Int, limiter'[c] = limiter[c]
  PROVE  RunnersOK(c)'
<1>1. IsFiniteSet(Busy(c)) /\ Cardinality(Busy(c)) \in Nat BY PathsFinite DEF Busy
<1>2. Cardinality(Busy(c)') <= Cardinality(Busy(c)) /\ Cardinality(Busy(c)') \in Nat
  BY <1>1, FS_Subset, FS_CardinalityType
<1>3. Cardinality(Busy(c)') <= cmd'[c].runners BY <1>1, <1>2 DEF RunnersOK
<1> QED BY <1>3 DEF RunnersOK

\* Who is let in was under way.
LEMMA AwakeBusy ==
  ASSUME OrderIndInv, NEW s, s = None \/ (s \in Commands /\ cmd[s].own), NEW p \in Paths, NEW u \in Tasks,
         Awake(s, p)[u] \notin {"new", "done"}
  PROVE  step[u] \notin {"new", "done"}
<1>1. CASE s = None BY <1>1 DEF Awake
<1>2. CASE s # None /\ u \notin LetIn(sequence[s], p) BY <1>2 DEF Awake
<1>3. CASE s # None /\ u \in LetIn(sequence[s], p)
  <2>1. PICK n \in Paths : sequence[s].waiters[n] = u BY <1>3 DEF LetIn
  <2>2. u # None BY ScopesAre
  <2>3. SeqOK(s) BY <1>3 DEF OrderIndInv, Fine
  <2>4. u = <<s, n>> /\ step[<<s, n>>] \in Waiting BY <1>3, <2>1, <2>2, <2>3 DEF SeqOK
  <2> QED BY <2>4 DEF Waiting
<1> QED BY <1>1, <1>2, <1>3

\* A task takes no runner, and gives its own back when it is done.
LEMMA TaskRunners ==
  ASSUME OrderIndInv, NEW c \in Commands, NEW p \in Paths, Task(<<c, p>>), RunnersOK(c)
  PROVE  RunnersOK(c)'
<1>1. PICK t \in Tasks : t = <<c, p>> BY PairIs
<1>2. OrderTypes /\ Fine(c) /\ Owner(t) = c /\ Path(t) = p BY <1>1, PairIs DEF OrderIndInv
<1>3. cmd[c] \in CmdType /\ cmd[c].runners \in Int BY <1>2, Typed DEF CmdType
<1>4. CASE ~Scans(c)
  <2>1. cmd' = cmd
    BY <1>1, <1>2, <1>4 DEF Task, ReadPath, ConvertPath, BeginClean, EndClean, WriteBlob, EndItem, FreeSlot, SettleTurn
  <2>2. ~Scans(c)' BY <1>4, <2>1 DEF Scans
  <2> QED BY <1>4, <2>1, <2>2 DEF RunnersOK
<1>5. CASE Scans(c) /\ EndItem(t)
  <2>1. /\ step[t] = "ended" /\ limiter' = limiter
        /\ step' = [Awake(OrderOf(c), p) EXCEPT ![t] = "done"]
        /\ cmd' = [cmd EXCEPT ![c].runners = IF error[t] # 0 THEN @ - 1 ELSE @]
    BY <1>2, <1>5 DEF EndItem
  <2>2. PICK m \in Int : m = (IF error[t] # 0 THEN cmd[c].runners - 1 ELSE cmd[c].runners) BY <1>3
  <2>3. cmd'[c] = [cmd[c] EXCEPT !.runners = m] BY <1>2, <2>1, <2>2 DEF OrderTypes
  <2>4. cmd'[c].runners = m /\ cmd'[c].use = cmd[c].use BY <1>3, <2>3 DEF CmdType
  <2>5. Scans(c)' BY <1>5, <2>4 DEF Scans
  <2>6. OrderOf(c) = None \/ (OrderOf(c) \in Commands /\ cmd[OrderOf(c)].own) BY DEF OrderOf
  <2>7. ASSUME NEW r \in Paths, step'[<<c, r>>] \notin {"new", "done"}
        PROVE  r # p /\ step[<<c, r>>] \notin {"new", "done"}
    <3>1. <<c, r>> \in Tasks BY PairIs
    <3>2. DOMAIN Awake(OrderOf(c), p) = Tasks BY <1>2, <2>6 DEF Awake, OrderTypes
    <3>3. <<c, r>> # t BY <2>1, <2>7, <3>1, <3>2
    <3>4. step'[<<c, r>>] = Awake(OrderOf(c), p)[<<c, r>>] BY <2>1, <3>1, <3>2, <3>3
    <3> QED BY <1>1, <2>6, <2>7, <3>1, <3>3, <3>4, AwakeBusy
  <2>8. p \in Busy(c) /\ Busy(c)' \subseteq Busy(c) \ {p} BY <1>1, <2>1, <2>7 DEF Busy
  <2>9. IsFiniteSet(Busy(c)) /\ Cardinality(Busy(c)) \in Nat BY PathsFinite DEF Busy
  <2>10. IsFiniteSet(Busy(c) \ {p}) /\ Cardinality(Busy(c) \ {p}) = Cardinality(Busy(c)) - 1
    BY <2>8, <2>9, FS_RemoveElement
  <2>11. Cardinality(Busy(c)') <= Cardinality(Busy(c)) - 1 /\ Cardinality(Busy(c)') \in Nat
    BY <2>8, <2>10, FS_Subset, FS_CardinalityType
  <2>12. Cardinality(Busy(c)) <= cmd[c].runners /\ cmd[c].runners <= Limit /\ limiter[c].active = 0
    BY <1>5 DEF RunnersOK
  <2>13. m \in {cmd[c].runners, cmd[c].runners - 1} BY <2>2
  <2>14. Cardinality(Busy(c)') <= m /\ m <= Limit BY <1>3, <2>9, <2>11, <2>12, <2>13, LimitAssumption
  <2> QED BY <2>1, <2>4, <2>5, <2>12, <2>14 DEF RunnersOK
<1>6. CASE Scans(c) /\ EndClean(t)
  <2>1. PICK s : s = IF Ordered("clean") /\ ~Smudging(t) THEN current ELSE None OBVIOUS
  <2>2. /\ step[t] = "clean" /\ limiter' = limiter /\ cmd' = cmd
        /\ \E b : step' = [Awake(s, p) EXCEPT ![t] = b]
    BY <1>2, <1>6, <2>1 DEF EndClean
  <2>3. s = None \/ (s \in Commands /\ cmd[s].own)
    BY <1>2, <2>1 DEF Ordered, OrderTypes, OrderIndInv, Fine, CmdOK, InOrder
  <2>4. ASSUME NEW r \in Paths, step'[<<c, r>>] \notin {"new", "done"}
        PROVE  step[<<c, r>>] \notin {"new", "done"}
    <3>1. <<c, r>> \in Tasks BY PairIs
    <3>2. DOMAIN Awake(s, p) = Tasks BY <1>2 DEF Awake, OrderTypes
    <3>3. CASE <<c, r>> = t BY <2>2, <3>3
    <3>4. CASE <<c, r>> # t
      <4>1. step'[<<c, r>>] = Awake(s, p)[<<c, r>>] BY <2>2, <3>1, <3>2, <3>4
      <4> QED BY <2>3, <2>4, <3>1, <4>1, AwakeBusy
    <3> QED BY <3>3, <3>4
  <2>5. Busy(c)' \subseteq Busy(c) BY <2>4 DEF Busy
  <2>6. Scans(c)' BY <1>6, <2>2 DEF Scans
  <2> QED BY <1>3, <1>6, <2>2, <2>5, <2>6, FewerBusy
<1>7. CASE Scans(c) /\ ~EndItem(t) /\ ~EndClean(t)
  <2>1. step[t] # "freed" BY <1>1, <1>2, <1>7 DEF Fine, CmdOK
  <2>2. /\ step[t] \in {"read", "convert", "go", "write"} /\ limiter' = limiter /\ cmd' = cmd
        /\ \E b : step' = [step EXCEPT ![t] = b]
    BY <1>1, <1>2, <1>7, <2>1 DEF Task, ReadPath, ConvertPath, BeginClean, WriteBlob, FreeSlot, SettleTurn,
       AdmitClean, AdmitWrite, Admit
  <2>3. ASSUME NEW r \in Paths, step'[<<c, r>>] \notin {"new", "done"}
        PROVE  step[<<c, r>>] \notin {"new", "done"}
    BY <1>2, <2>2, <2>3, PairIs DEF OrderTypes
  <2>4. Busy(c)' \subseteq Busy(c) BY <2>3 DEF Busy
  <2>5. Scans(c)' BY <1>7, <2>2 DEF Scans
  <2> QED BY <1>3, <1>7, <2>2, <2>4, <2>5, FewerBusy
<1> QED BY <1>4, <1>5, <1>6, <1>7

\* A command starts with its runners idle, and each takes one path.
LEMMA CommandRunners ==
  ASSUME OrderIndInv, NEW c \in Commands, Command(c) \/ WalkFails(c), RunnersOK(c)
  PROVE  RunnersOK(c)'
<1>1. OrderTypes /\ Fine(c) /\ CmdOK(c) BY DEF OrderIndInv, Fine
<1>2. /\ cmd[c] \in CmdType /\ cmd[c].runners \in Int /\ cmd[c].items \in Nat /\ cmd[c].taken \in Nat
      /\ cmd[c].items <= N /\ N \in Nat /\ Limit \in Nat /\ Limit # 0
  BY <1>1, Typed, NAssumption, LimitAssumption DEF CmdType
<1>3. CASE Open(c)
  <2>1. PICK n : n = IF c \in Smudges THEN 1 ELSE IF Scans(c) THEN Min2(Limit, cmd[c].items) ELSE 0 OBVIOUS
  <2>2. /\ cmd[c].at = "idle" /\ limiter' = limiter /\ step' = step
        /\ cmd' = [cmd EXCEPT ![c].at = "open", ![c].own = Opens(c), ![c].runners = n]
    BY <1>3, <2>1 DEF Open
  <2>3. cmd'[c] = [cmd[c] EXCEPT !.at = "open", !.own = Opens(c), !.runners = n] BY <1>1, <2>2 DEF OrderTypes
  <2>4. cmd'[c].runners = n /\ cmd'[c].use = cmd[c].use BY <1>2, <2>3 DEF CmdType
  <2>5. n \in Nat /\ n <= Limit /\ (~Scans(c) => n = 0)
    <3>1. c \in Smudges => Scans(c) BY <1>1 DEF CmdOK, Scans, Checkout
    <3> QED BY <1>2, <2>1, <3>1 DEF Min2
  <2>6. \A r \in Paths : step'[<<c, r>>] = "new"
    <3>1. \A r \in Paths : r > cmd[c].taken /\ r \in Nat BY <1>1, <2>2, PathsFinite DEF CmdOK, Paths
    <3> QED BY <1>1, <2>2, <3>1 DEF CmdOK
  <2>7. Busy(c)' = {} BY <2>6 DEF Busy
  <2>8. Cardinality(Busy(c)') = 0 BY <2>7, FS_EmptySet
  <2>9. Scans(c)' <=> Scans(c) BY <2>4 DEF Scans
  <2> QED BY <2>2, <2>4, <2>5, <2>8, <2>9 DEF RunnersOK
<1>4. CASE NextItem(c)
  <2>1. PICK p : p = cmd[c].taken + 1 OBVIOUS
  <2>2. /\ Scans(c) /\ cmd[c].taken < cmd[c].items /\ Cardinality(Busy(c)) < cmd[c].runners
        /\ cmd' = [cmd EXCEPT ![c].taken = p] /\ step' = [step EXCEPT ![<<c, p>>] = "read"] /\ limiter' = limiter
    BY <1>4, <2>1 DEF NextItem
  <2>3. p \in Paths BY <1>2, <2>1, <2>2 DEF Paths
  <2>4. cmd'[c] = [cmd[c] EXCEPT !.taken = p] BY <1>1, <2>2 DEF OrderTypes
  <2>5. cmd'[c].runners = cmd[c].runners /\ cmd'[c].use = cmd[c].use BY <1>2, <2>4 DEF CmdType
  <2>6. \A r \in Paths : r # p => step'[<<c, r>>] = step[<<c, r>>] BY <1>1, <2>2, <2>3, PairIs DEF OrderTypes
  <2>7. Busy(c)' \subseteq Busy(c) \cup {p} BY <2>6 DEF Busy
  <2>8. IsFiniteSet(Busy(c)) /\ Cardinality(Busy(c)) \in Nat BY PathsFinite DEF Busy
  <2>9. IsFiniteSet(Busy(c) \cup {p}) /\ Cardinality(Busy(c) \cup {p}) <= Cardinality(Busy(c)) + 1
    <3>1. IsFiniteSet(Busy(c) \cup {p}) BY <2>8, FS_AddElement
    <3>2. CASE p \in Busy(c)
      <4>1. Busy(c) \cup {p} = Busy(c) BY <3>2
      <4>2. Cardinality(Busy(c) \cup {p}) = Cardinality(Busy(c)) BY <4>1
      <4>3. PICK m \in Nat : m = Cardinality(Busy(c)) BY <2>8
      <4>4. m <= m + 1 OBVIOUS
      <4> QED BY <3>1, <4>2, <4>3, <4>4
    <3>3. CASE p \notin Busy(c)
      <4>1. Cardinality(Busy(c) \cup {p}) = Cardinality(Busy(c)) + 1 BY <2>8, <3>3, FS_AddElement
      <4>2. PICK m \in Nat : m = Cardinality(Busy(c)) BY <2>8
      <4>3. m + 1 <= m + 1 OBVIOUS
      <4> QED BY <3>1, <4>1, <4>2, <4>3
    <3> QED BY <3>2, <3>3
  <2>10. Cardinality(Busy(c)') <= Cardinality(Busy(c) \cup {p}) /\ Cardinality(Busy(c)') \in Nat
         /\ Cardinality(Busy(c) \cup {p}) \in Nat
    BY <2>7, <2>9, FS_Subset, FS_CardinalityType
  <2>11. Cardinality(Busy(c)') <= cmd'[c].runners BY <1>2, <2>2, <2>5, <2>8, <2>9, <2>10
  <2>12. Scans(c)' BY <2>2, <2>5 DEF Scans
  <2> QED BY <2>2, <2>5, <2>11, <2>12 DEF RunnersOK
<1>5. CASE Dispatch(c) \/ WalkFails(c)
  <2>1. ~Scans(c) /\ \E n : cmd' = [cmd EXCEPT ![c].taken = n] \/ cmd' = [cmd EXCEPT ![c].walking = n]
    BY <1>5 DEF Dispatch, WalkFails
  <2>2. PICK n : cmd' = [cmd EXCEPT ![c].taken = n] \/ cmd' = [cmd EXCEPT ![c].walking = n] BY <2>1
  <2>3. cmd'[c] = [cmd[c] EXCEPT !.taken = n] \/ cmd'[c] = [cmd[c] EXCEPT !.walking = n]
    BY <1>1, <2>2 DEF OrderTypes
  <2>4. cmd'[c].runners = cmd[c].runners /\ cmd'[c].use = cmd[c].use BY <1>2, <2>3 DEF CmdType
  <2>5. ~Scans(c)' BY <2>1, <2>4 DEF Scans
  <2> QED BY <2>1, <2>4, <2>5 DEF RunnersOK
<1>6. CASE Close(c)
  <2>1. limiter' = limiter /\ step' = step /\ \E n : cmd' = [cmd EXCEPT ![c].at = "over", ![c].result = n]
    BY <1>6 DEF Close
  <2>2. PICK n : cmd' = [cmd EXCEPT ![c].at = "over", ![c].result = n] BY <2>1
  <2>3. cmd'[c] = [cmd[c] EXCEPT !.at = "over", !.result = n] BY <1>1, <2>2 DEF OrderTypes
  <2>4. cmd'[c].runners = cmd[c].runners /\ cmd'[c].use = cmd[c].use BY <1>2, <2>3 DEF CmdType
  <2>5. Scans(c)' <=> Scans(c) BY <2>4 DEF Scans
  <2>6. Busy(c)' = Busy(c) BY <2>1 DEF Busy
  <2> QED BY <2>1, <2>4, <2>5, <2>6 DEF RunnersOK
<1> QED BY <1>3, <1>4, <1>5, <1>6 DEF Command

\* A command that does nothing keeps its runners.
LEMMA SameRunners ==
  ASSUME NEW d \in Commands, Same(d), RunnersOK(d)
  PROVE  RunnersOK(d)'
<1>1. Busy(d)' = Busy(d) BY DEF Same, Busy
<1>2. Scans(d)' <=> Scans(d) BY DEF Same, Scans
<1> QED BY <1>1, <1>2 DEF Same, RunnersOK

\* The order, the runners and the pool together.
FilterIndInv == OrderIndInv /\ PoolIndInv /\ \A c \in Commands : RunnersOK(c)

\* The whole invariant is kept,
LEMMA FilterStep ==
  ASSUME FilterIndInv, [Next]_vars
  PROVE  FilterIndInv'
<1>1. OrderIndInv /\ PoolIndInv /\ \A c \in Commands : RunnersOK(c) BY DEF FilterIndInv
<1>2. OrderIndInv' /\ PoolIndInv' BY <1>1, OrderStep, PoolStep
<1>3. \A c \in Commands : RunnersOK(c)'
  <2>1. CASE \E c \in Commands : Command(c) \/ WalkFails(c)
    <3>1. PICK c \in Commands : Command(c) \/ WalkFails(c) BY <2>1
    <3>2. Kept(c) BY <1>1, <3>1, OpenKept, NextItemKept, DispatchKept, CloseKept, WalkFailsKept DEF Command
    <3>3. RunnersOK(c)' BY <1>1, <3>1, CommandRunners
    <3> QED BY <1>1, <3>2, <3>3, SameRunners DEF Kept
  <2>2. CASE \E t \in Tasks : Task(t)
    <3>1. PICK t \in Tasks : Task(t) BY <2>2
    <3>2. PICK c \in Commands, p \in Paths : t = <<c, p>> BY TaskIs
    <3>3. Kept(c) BY <1>1, <3>1, <3>2, TaskKept
    <3>4. RunnersOK(c)' BY <1>1, <3>1, <3>2, TaskRunners
    <3> QED BY <1>1, <3>3, <3>4, SameRunners DEF Kept
  <2>3. CASE UNCHANGED orderVars
    <3>1. \A d \in Commands : Same(d) BY <2>3 DEF Same, orderVars
    <3> QED BY <1>1, <3>1, SameRunners
  <2> QED BY <2>1, <2>2, <2>3 DEF Next, Progress, Mishap, Pool, vars
<1> QED BY <1>2, <1>3 DEF FilterIndInv

\* and holds at first.
LEMMA FilterInit ==
  ASSUME LoneCleaner, Init
  PROVE  FilterIndInv
<1>1. OrderIndInv BY OrderInit
<1>2. PoolIndInv BY PoolStarts DEF Init
<1>3. ASSUME NEW c \in Commands PROVE RunnersOK(c)
  <2>1. cmd[c].runners = 0 /\ limiter[c].active = 0 BY DEF Init
  <2>2. \A p \in Paths : step[<<c, p>>] = "new" BY PairIs DEF Init
  <2>3. Busy(c) = {} BY <2>2 DEF Busy
  <2>4. Cardinality(Busy(c)) = 0 BY <2>3, FS_EmptySet
  <2> QED BY <2>1, <2>4, LimitAssumption DEF RunnersOK
<1> QED BY <1>1, <1>2, <1>3 DEF FilterIndInv

\* What the invariants say of the types of the order and of the pool.
LEMMA FilterImplies ==
  ASSUME FilterIndInv
  PROVE  PoolInv
<1>1. OrderIndInv /\ PoolIndInv BY DEF FilterIndInv
<1>2. OrderTypes BY <1>1 DEF OrderIndInv
<1>3. PoolTypeOK /\ AnswersOwn /\ OnePoolInUse /\ NoStrayFilter BY <1>1, PoolImplies
<1>4. TypeOK
  <2>1. ASSUME NEW c \in Commands
        PROVE  /\ cmd[c].at \in {"idle", "open", "over"} /\ cmd[c].taken \in 0 .. N
               /\ cmd[c].runners \in 0 .. Limit /\ cmd[c].result \in 0 .. N
               /\ limiter[c].active \in 0 .. Limit
               /\ sequence[c].next \in 1 .. N + 1 /\ sequence[c].enlisted \in 0 .. N
               /\ sequence[c].waiters \in [Paths -> Tasks \cup {None}]
    <3>1. RunnersOK(c) /\ SlotOK(c) BY <1>1 DEF FilterIndInv, OrderIndInv, Fine
    <3>2. cmd[c] \in CmdType /\ sequence[c] \in SequenceType BY <1>2, Typed
    <3>3. Cardinality(Busy(c)) \in Nat /\ Cardinality(Holding(c)) \in Nat BY PathsFinite DEF Busy, Holding
    <3>4. cmd[c].runners \in Int BY <3>2 DEF CmdType
    <3>5. cmd[c].runners \in 0 .. Limit /\ limiter[c].active \in 0 .. Limit
      BY <3>1, <3>3, <3>4, LimitAssumption DEF RunnersOK, SlotOK
    <3> QED BY <3>2, <3>5 DEF CmdType, SequenceType
  <2> QED BY <1>2, <1>3, <2>1 DEF TypeOK, OrderTypes
<1> QED BY <1>3, <1>4 DEF PoolInv

\* PoolInv: the same, and the types of the order, with one command that cleans and any number that
\* smudge: a scan never has more runners, nor a staging command more slots taken, than the limit,
\* for any number of paths, drivers, runners and slots.
THEOREM FiltersSafe ==
  ASSUME LoneCleaner
  PROVE  Spec => []PoolInv
<1>1. Init => FilterIndInv BY FilterInit
<1>2. FilterIndInv /\ [Next]_vars => FilterIndInv' BY FilterStep
<1>3. FilterIndInv => PoolInv BY FilterImplies
<1> QED BY <1>1, <1>2, <1>3, PTL DEF Spec

=============================================================================
