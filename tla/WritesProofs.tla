------------------------------ MODULE WritesProofs ------------------------------
(* What the parts of a history-editing command write, in which order, and what every *)
(* file holds when they have: the steps all of them share, and the loops over a list *)
(* of any length. *)
EXTENDS Operations, SequenceTheorems, WellFoundedInduction, TLAPS

------------------------------
(* Induction and recursion over a range of numbers. *)

\* A set of naturals has a least element.
LEMMA LeastOf ==
  ASSUME NEW T, T \subseteq Nat, T # {}
  PROVE  \E x \in T : \A y \in T : ~(y < x)
<1>1. \E x \in T : \A y \in T : ~(<<y, x>> \in OpToRel(<, Nat)) BY NatLessThanWellFounded, WFMin
<1> QED BY <1>1 DEF OpToRel

\* Induction up to n, over a set.
LEMMA UpTo ==
  ASSUME NEW n \in Nat, NEW T, 0 \in T, \A i \in 0 .. n - 1 : i \in T => i + 1 \in T
  PROVE  \A i \in 0 .. n : i \in T
<1> DEFINE U == {i \in 0 .. n : i \notin T}
<1> SUFFICES ASSUME U # {} PROVE FALSE OBVIOUS
<1>1. PICK x \in U : \A y \in U : ~(y < x)
  <2>1. U \subseteq Nat OBVIOUS
  <2> HIDE DEF U
  <2> QED BY <2>1, LeastOf
<1>2. x # 0 /\ x \in Nat /\ x <= n /\ x \notin T OBVIOUS
<1>3. x - 1 \in 0 .. n - 1 /\ x - 1 < x BY <1>2
<1>4. x - 1 \in T BY <1>1, <1>3
<1>5. (x - 1) + 1 = x BY <1>2
<1> QED BY <1>2, <1>3, <1>4, <1>5

\* Some set of positions has a last one.
LEMMA LastOf ==
  ASSUME NEW n \in Nat, NEW T, T \subseteq 1 .. n, T # {}
  PROVE  \E x \in T : \A y \in T : ~(y > x)
<1> DEFINE U == {n - x : x \in T}
<1>1. U \subseteq Nat /\ U # {}
  <2>1. \A x \in T : x \in Int /\ x <= n OBVIOUS
  <2>2. \A x \in T : n - x \in Nat BY <2>1
  <2>3. PICK x \in T : TRUE OBVIOUS
  <2>4. n - x \in U BY <2>3
  <2> QED BY <2>2, <2>4
<1>2. PICK u \in U : \A y \in U : ~(y < u)
  <2> HIDE DEF U
  <2> QED BY <1>1, LeastOf
<1>3. PICK x \in T : u = n - x OBVIOUS
<1>4. \A y \in T : n - y \in U /\ y \in Int OBVIOUS
<1>5. ASSUME NEW y \in T, y > x PROVE FALSE
  <2>1. n - y \in U /\ y \in Int /\ x \in Int BY <1>4
  <2>2. n - y < n - x BY <1>5, <2>1
  <2> QED BY <1>2, <1>3, <2>1, <2>2
<1> QED BY <1>5

\* A step that stays in S can be taken n times.
StepMaps(n, S) == [(1 .. n) \X S -> S]
StepsTaken(n, S, base, step) ==
  \E f \in [0 .. n -> S] : f[0] = base /\ \A i \in 1 .. n : f[i] = step[<<i, f[i - 1]>>]
LEMMA Recursion ==
  ASSUME NEW n \in Nat, NEW S, NEW base \in S, NEW step \in StepMaps(n, S)
  PROVE  StepsTaken(n, S, base, step)
<1> DEFINE Upto(f, m) == f[0] = base /\ \A i \in 1 .. m : f[i] = step[<<i, f[i - 1]>>]
           T == {m \in 0 .. n : \E f \in [0 .. m -> S] : Upto(f, m)}
<1>0. step \in [(1 .. n) \X S -> S] BY DEF StepMaps
<1>1. 0 \in T
  <2>2. Upto([i \in 0 .. 0 |-> base], 0) OBVIOUS
  <2> HIDE DEF Upto
  <2> QED BY <2>2
<1>2. ASSUME NEW m \in 0 .. n - 1, m \in T PROVE m + 1 \in T
  <2>1. PICK f \in [0 .. m -> S] : Upto(f, m) BY <1>2
  <2> DEFINE v == step[<<m + 1, f[m]>>]
             g == [i \in 0 .. m + 1 |-> IF i = m + 1 THEN v ELSE f[i]]
  <2>2. v \in S
    <3>1. f[m] \in S /\ m + 1 \in 1 .. n OBVIOUS
    <3>2. <<m + 1, f[m]>> \in (1 .. n) \X S BY <3>1
    <3> QED BY <1>0, <3>2
  <2>3. g \in [0 .. m + 1 -> S] BY <2>2
  <2>4. Upto(g, m + 1)
    <3>1. g[0] = base BY <2>1
    <3>2. ASSUME NEW i \in 1 .. m + 1 PROVE g[i] = step[<<i, g[i - 1]>>]
      <4>1. g[i - 1] = f[i - 1] OBVIOUS
      <4>2. CASE i = m + 1
        <5>1. i - 1 = m /\ g[i] = v BY <4>2
        <5> QED BY <4>1, <4>2, <5>1
      <4>3. CASE i # m + 1
        <5>1. i \in 1 .. m BY <4>3
        <5> QED BY <2>1, <4>1, <5>1
      <4> QED BY <4>2, <4>3
    <3> QED BY <3>1, <3>2
  <2> HIDE DEF g, Upto
  <2> QED BY <2>3, <2>4
<1>3. \A i \in 0 .. n : i \in T
  <2> HIDE DEF T
  <2> QED BY <1>1, <1>2, UpTo
<1>4. n \in T BY <1>3
<1> QED BY <1>4 DEF StepsTaken

------------------------------
(* What may be on disk, and what may be written. *)

Locals == Edits \cup {"staged"}
Maybe(S) == {None} \cup {<<x>> : x \in S}
IndexType ==
  {x \in [tree : SUBSET Patches, both : SUBSET Patches,
          unmerged : {"no", "pick", "revert", "rebase", "merge", "stash"}] :
     x.tree \subseteq x.both \/ x.unmerged \in {"revert", "rebase"}}

HistoryFiles == {"head", "orig", "merge", "seqHead", "seqSafety", "rbOrig", "rbOnto"}
Fields ==
  {"branch", "index", "dirty", "stash", "pick", "revert", "rebase", "message", "mergeStash",
   "seqTodo", "seqOpts", "rbTodo", "rbDone", "rbMessage", "rbStash"} \cup HistoryFiles
Dirs == {"sequencer", "rebase-merge", "push", "restore"}

\* The values a field, or a write of that name, may have.
Kind(f) ==
  CASE f = "branch" -> Histories
    [] f \in HistoryFiles -> Maybe(Histories)
    [] f = "index" -> IndexType
    [] f \in {"dirty", "stash", "push", "restore"} -> SUBSET Locals
    [] f \in {"pick", "revert"} -> Maybe(Sources)
    [] f \in {"rebase", "rbMessage"} -> Maybe(CommitType)
    [] f = "message" -> Maybe(Sources \cup {"merge"} \cup CommitType)
    [] f \in {"mergeStash", "rbStash"} -> Maybe(SUBSET Locals)
    [] f = "seqTodo" -> Maybe(Seq(Sources))
    [] f = "seqOpts" -> Maybe({"allow-empty"})
    [] f \in {"rbTodo", "rbDone"} -> Maybe(Seq(CommitType))
    [] f \in {"sequencer", "rebase-merge"} -> {None}

\* The stash list is only added to ("push").
WriteType == {w \in UNION {{W(f, v) : v \in Kind(f)} : f \in Fields \cup Dirs} : w.f # "stash"}

RepoOK(r) == r = [f \in Fields |-> r[f]] /\ \A f \in Fields : r[f] \in Kind(f)

LEMMA KindsAre ==
  /\ Kind("branch") = Histories /\ Kind("index") = IndexType
  /\ \A f \in HistoryFiles : Kind(f) = Maybe(Histories)
  /\ \A f \in {"dirty", "stash", "push", "restore"} : Kind(f) = SUBSET Locals
  /\ \A f \in {"pick", "revert"} : Kind(f) = Maybe(Sources)
  /\ \A f \in {"rebase", "rbMessage"} : Kind(f) = Maybe(CommitType)
  /\ Kind("message") = Maybe(Sources \cup {"merge"} \cup CommitType)
  /\ \A f \in {"mergeStash", "rbStash"} : Kind(f) = Maybe(SUBSET Locals)
  /\ Kind("seqTodo") = Maybe(Seq(Sources)) /\ Kind("seqOpts") = Maybe({"allow-empty"})
  /\ \A f \in {"rbTodo", "rbDone"} : Kind(f) = Maybe(Seq(CommitType))
  /\ Kind("sequencer") = {None} /\ Kind("rebase-merge") = {None}
BY DEF Kind, HistoryFiles

LEMMA MaybeIs ==
  ASSUME NEW S
  PROVE  /\ None \in Maybe(S) /\ \A x \in S : <<x>> \in Maybe(S) /\ <<x>> # None /\ <<x>>[1] = x
         /\ \A y \in Maybe(S) : y # None => y[1] \in S /\ y = <<y[1]>>
BY DEF Maybe, None

LEMMA WriteIs ==
  ASSUME NEW f \in Fields \cup Dirs, f # "stash", NEW v \in Kind(f)
  PROVE  W(f, v) \in WriteType /\ W(f, v).f = f /\ W(f, v).v = v
<1>1. W(f, v) \in {W(f, u) : u \in Kind(f)} OBVIOUS
<1>2. W(f, v).f = f /\ W(f, v).v = v BY DEF W
<1> QED BY <1>1, <1>2 DEF WriteType

LEMMA Written ==
  ASSUME NEW w \in WriteType
  PROVE  w.f \in Fields \cup Dirs /\ w.f # "stash" /\ w.v \in Kind(w.f) /\ w = W(w.f, w.v)
<1>1. PICK f \in Fields \cup Dirs : w \in {W(f, u) : u \in Kind(f)} BY DEF WriteType
<1>2. PICK v \in Kind(f) : w = W(f, v) BY <1>1
<1>3. w.f # "stash" BY DEF WriteType
<1> QED BY <1>2, <1>3 DEF W

\* The one history, tree, commit or list a value of a kind holds.
LEMMA HistoryIs ==
  ASSUME NEW h \in Histories
  PROVE  /\ h \in Seq(CommitType) /\ Len(h) \in Nat /\ Len(h) >= 1 /\ Last(h) \in CommitType
         /\ Tree(h) \in SUBSET Patches
         /\ \A c \in CommitType : Append(h, c) \in Histories /\ Tree(Append(h, c)) = c.tree
<1>1. h \in Seq(CommitType) /\ h # <<>> BY DEF Histories
<1>2. Len(h) \in Nat /\ Len(h) >= 1 BY <1>1
<1>3. Last(h) \in CommitType BY <1>1, <1>2 DEF Last
<1>4. Tree(h) \in SUBSET Patches BY <1>3 DEF Tree, CommitType
<1>5. ASSUME NEW c \in CommitType PROVE Append(h, c) \in Histories /\ Tree(Append(h, c)) = c.tree
  <2>2. Last(Append(h, c)) = c BY <1>1, AppendProperties DEF Last
  <2> QED BY <1>1, AppendProperties, <2>2 DEF Histories, Tree
<1> QED BY <1>1, <1>2, <1>3, <1>4, <1>5

LEMMA CleanIs ==
  ASSUME NEW t \in SUBSET Patches
  PROVE  Clean(t) \in IndexType /\ Clean(t).tree = t /\ Clean(t).unmerged = "no"
BY DEF Clean, IndexType

LEMMA UnmergedIs ==
  ASSUME NEW t \in SUBSET Patches, NEW both \in SUBSET Patches, NEW by \in {"pick", "revert", "rebase", "merge", "stash"},
         t \subseteq both \/ by \in {"revert", "rebase"}
  PROVE  Unmerged(t, both, by) \in IndexType /\ Unmerged(t, both, by).tree = t /\ Unmerged(t, both, by).unmerged = by
BY DEF Unmerged, IndexType

LEMMA CommitIs ==
  ASSUME NEW op \in {"pick", "revert", "merge", "user"}, NEW s \in Sources \cup {"merge"},
         NEW h \in Histories, NEW t \in SUBSET Patches
  PROVE  /\ Commit(op, s, h, t) \in CommitType /\ Commit(op, s, h, t).tree = t
         /\ Commit(op, s, h, t).src = s /\ Commit(op, s, h, t).op = op
BY HistoryIs DEF Commit, CommitType

------------------------------
(* The value a field has once a sequence of writes is made. *)

Touches(w, f) == f \in Files(w.f)
Last1(ws, f) == CHOOSE j \in DOMAIN ws : Touches(ws[j], f) /\ \A k \in DOMAIN ws : k > j => ~Touches(ws[k], f)
Late(ws, f, x) == IF \E j \in DOMAIN ws : Touches(ws[j], f) THEN ws[Last1(ws, f)].v ELSE x

LEMMA FilesAre ==
  /\ Files("sequencer") = SequencerDir /\ Files("rebase-merge") = RebaseDir
  /\ \A f : f \notin {"sequencer", "rebase-merge"} => Files(f) = {f}
BY DEF Files

LEMMA LateIs ==
  ASSUME NEW ws \in Seq(WriteType), NEW f, NEW x
  PROVE  /\ \A j \in DOMAIN ws : Touches(ws[j], f) /\ (\A k \in DOMAIN ws : k > j => ~Touches(ws[k], f)) => Late(ws, f, x) = ws[j].v
         /\ (\A j \in DOMAIN ws : ~Touches(ws[j], f)) => Late(ws, f, x) = x
         /\ (\E j \in DOMAIN ws : Touches(ws[j], f)) =>
              \E j \in DOMAIN ws : Touches(ws[j], f) /\ (\A k \in DOMAIN ws : k > j => ~Touches(ws[k], f)) /\ Late(ws, f, x) = ws[j].v
<1> DEFINE Lst(j) == Touches(ws[j], f) /\ \A k \in DOMAIN ws : k > j => ~Touches(ws[k], f)
<1>1. DOMAIN ws = 1 .. Len(ws) /\ Len(ws) \in Nat OBVIOUS
<1>2. ASSUME NEW j \in DOMAIN ws, Lst(j), NEW i \in DOMAIN ws, Lst(i) PROVE i = j
  <2>1. i \in Int /\ j \in Int BY <1>1
  <2>2. ~(i > j) /\ ~(j > i) BY <1>2
  <2> QED BY <2>1, <2>2
<1>3. ASSUME NEW j \in DOMAIN ws, Lst(j) PROVE Late(ws, f, x) = ws[j].v
  <2>2. Last1(ws, f) = j BY <1>2, <1>3 DEF Last1
  <2> QED BY <1>3, <2>2 DEF Late
<1>4. ASSUME \E j \in DOMAIN ws : Touches(ws[j], f) PROVE \E j \in DOMAIN ws : Lst(j)
  <2> DEFINE T == {j \in DOMAIN ws : Touches(ws[j], f)}
  <2>1. T # {} /\ T \subseteq 1 .. Len(ws) BY <1>1, <1>4
  <2>2. PICK j \in T : \A k \in T : ~(k > j)
    <3> HIDE DEF T
    <3> QED BY <1>1, <2>1, LastOf
  <2> QED BY <2>2
<1> QED BY <1>3, <1>4 DEF Late

LEMMA LateNone ==
  ASSUME NEW f, NEW x
  PROVE  Late(<<>>, f, x) = x
BY DEF Late

\* One write after the other.
LEMMA LateJoin ==
  ASSUME NEW a \in Seq(WriteType), NEW b \in Seq(WriteType), NEW f, NEW x
  PROVE  a \o b \in Seq(WriteType) /\ Late(a \o b, f, x) = Late(b, f, Late(a, f, x))
<1> DEFINE c == a \o b
           Lst(ws, j) == Touches(ws[j], f) /\ \A k \in DOMAIN ws : k > j => ~Touches(ws[k], f)
<1>1. /\ c \in Seq(WriteType) /\ Len(a) \in Nat /\ Len(b) \in Nat /\ DOMAIN a = 1 .. Len(a) /\ DOMAIN b = 1 .. Len(b)
      /\ DOMAIN c = 1 .. Len(a) + Len(b)
      /\ \A i \in 1 .. Len(a) : c[i] = a[i]
      /\ \A i \in 1 .. Len(b) : c[Len(a) + i] = b[i]
  OBVIOUS
<1>2. ASSUME NEW i \in DOMAIN c PROVE (i \in DOMAIN a /\ c[i] = a[i]) \/ (i - Len(a) \in DOMAIN b /\ c[i] = b[i - Len(a)] /\ i > Len(a))
  <2>1. CASE i <= Len(a) BY <1>1, <2>1
  <2>2. CASE i > Len(a)
    <3>1. i - Len(a) \in 1 .. Len(b) BY <1>1, <2>2
    <3>2. Len(a) + (i - Len(a)) = i BY <1>1
    <3> QED BY <1>1, <2>2, <3>1, <3>2
  <2> QED BY <1>1, <2>1, <2>2
<1>3. CASE \E j \in DOMAIN b : Touches(b[j], f)
  <2>1. PICK j \in DOMAIN b : Lst(b, j) /\ Late(b, f, Late(a, f, x)) = b[j].v BY <1>3, LateIs
  <2>2. Len(a) + j \in DOMAIN c /\ c[Len(a) + j] = b[j] BY <1>1
  <2>3. ASSUME NEW k \in DOMAIN c, k > Len(a) + j PROVE ~Touches(c[k], f)
    <3>1. k \in Int /\ k > Len(a) /\ j \in Int BY <1>1, <2>3
    <3>3. k - Len(a) > j BY <1>1, <2>3, <3>1
    <3> QED BY <1>1, <1>2, <3>1, <2>1, <3>3
  <2> HIDE DEF c
  <2>4. PICK m : m = Len(a) + j OBVIOUS
  <2>6. Late(c, f, x) = c[m].v
    <3>1. c \in Seq(WriteType) BY <1>1
    <3> QED BY <2>1, <2>2, <2>3, <2>4, <3>1, LateIs
  <2> QED BY <1>1, <2>1, <2>2, <2>4, <2>6 DEF c
<1>4. CASE ~\E j \in DOMAIN b : Touches(b[j], f)
  <2>1. Late(b, f, Late(a, f, x)) = Late(a, f, x) BY <1>4, LateIs
  <2>2. CASE \E j \in DOMAIN a : Touches(a[j], f)
    <3>1. PICK j \in DOMAIN a : Lst(a, j) /\ Late(a, f, x) = a[j].v BY <2>2, LateIs
    <3>2. j \in DOMAIN c /\ c[j] = a[j] BY <1>1
    <3>3. ASSUME NEW k \in DOMAIN c, k > j PROVE ~Touches(c[k], f) BY <1>2, <1>4, <3>1, <3>3
    <3> HIDE DEF c
    <3>4. Late(c, f, x) = c[j].v
      <4>1. c \in Seq(WriteType) BY <1>1
      <4> QED BY <3>1, <3>2, <3>3, <4>1, LateIs
    <3> QED BY <1>1, <2>1, <3>1, <3>2, <3>4 DEF c
  <2>3. CASE ~\E j \in DOMAIN a : Touches(a[j], f)
    <3>1. \A k \in DOMAIN c : ~Touches(c[k], f) BY <1>2, <1>4, <2>3
    <3> HIDE DEF c
    <3>2. Late(c, f, x) = x BY <1>1, <3>1, LateIs
    <3>3. Late(a, f, x) = x BY <2>3, LateIs
    <3> QED BY <1>1, <2>1, <3>2, <3>3 DEF c
  <2> QED BY <2>2, <2>3
<1> QED BY <1>3, <1>4

LEMMA LateOne ==
  ASSUME NEW w \in WriteType, NEW f, NEW x
  PROVE  <<w>> \in Seq(WriteType) /\ Late(<<w>>, f, x) = IF Touches(w, f) THEN w.v ELSE x
<1>1. PICK s \in Seq(WriteType) : s = <<w>> /\ DOMAIN s = {1} /\ s[1] = w
  <2>1. <<w>> \in Seq(WriteType) /\ DOMAIN <<w>> = 1 .. 1 /\ <<w>>[1] = w OBVIOUS
  <2>2. 1 .. 1 = {1} OBVIOUS
  <2> QED BY <2>1, <2>2
<1>2. CASE Touches(w, f)
  <2>1. 1 \in DOMAIN s /\ Touches(s[1], f) /\ \A k \in DOMAIN s : k > 1 => ~Touches(s[k], f) BY <1>1, <1>2
  <2>2. Late(s, f, x) = s[1].v BY <2>1, LateIs
  <2> QED BY <1>1, <1>2, <2>2
<1>3. CASE ~Touches(w, f)
  <2>1. \A k \in DOMAIN s : ~Touches(s[k], f) BY <1>1, <1>3
  <2>2. Late(s, f, x) = x BY <2>1, LateIs
  <2> QED BY <1>1, <1>3, <2>2
<1> QED BY <1>2, <1>3

------------------------------
(* The edits in the working tree once a sequence of writes is made. *)

Undirty(ws, j) == \A k \in DOMAIN ws : k > j => ws[k].f # "dirty"
Dirtied(ws, D) ==
  {e \in Locals : \/ \E j \in DOMAIN ws : ws[j].f = "restore" /\ e \in ws[j].v /\ Undirty(ws, j)
                  \/ e \in D /\ Undirty(ws, 0)}

LEMMA DirtiedJoin ==
  ASSUME NEW a \in Seq(WriteType), NEW b \in Seq(WriteType), NEW D
  PROVE  Dirtied(a \o b, D) = Dirtied(b, Dirtied(a, D))
<1> DEFINE c == a \o b
<1>1. /\ Len(a) \in Nat /\ Len(b) \in Nat /\ DOMAIN a = 1 .. Len(a) /\ DOMAIN b = 1 .. Len(b)
      /\ DOMAIN c = 1 .. Len(a) + Len(b)
      /\ \A i \in 1 .. Len(a) : c[i] = a[i]
      /\ \A i \in 1 .. Len(b) : c[Len(a) + i] = b[i]
  OBVIOUS
<1>2. PICK n \in Nat : n = Len(a) BY <1>1
<1>3. PICK m \in Nat : m = Len(b) BY <1>1
<1> HIDE DEF c
<1>4. ASSUME NEW i \in DOMAIN c PROVE (i \in DOMAIN a /\ c[i] = a[i]) \/ (i - n \in DOMAIN b /\ c[i] = b[i - n] /\ i > n)
  <2>1. CASE i <= n BY <1>1, <1>2, <2>1
  <2>2. CASE i > n
    <3>1. i - n \in 1 .. m BY <1>1, <1>2, <1>3, <2>2
    <3>2. n + (i - n) = i BY <1>1, <1>2
    <3> QED BY <1>1, <1>2, <1>3, <2>2, <3>1, <3>2
  <2> QED BY <1>1, <1>2, <2>1, <2>2
<1>10. \A i \in DOMAIN b : n + i \in DOMAIN c /\ c[n + i] = b[i]
  <2>1. \A i \in 1 .. m : n + i \in 1 .. n + m OBVIOUS
  <2> QED BY <1>1, <1>2, <1>3, <2>1
<1>5. Undirty(b, 0) <=> \A k \in DOMAIN b : b[k].f # "dirty" BY <1>1 DEF Undirty
<1>6. ASSUME NEW j \in DOMAIN a \cup {0} PROVE Undirty(c, j) <=> Undirty(a, j) /\ Undirty(b, 0)
  <2>1. j \in Int /\ j <= n BY <1>1, <1>2
  <2>2. ASSUME Undirty(c, j) PROVE Undirty(a, j) /\ Undirty(b, 0)
    <3>1. \A k \in DOMAIN a : k \in DOMAIN c /\ c[k] = a[k] BY <1>1
    <3>2. \A k \in DOMAIN b : n + k \in DOMAIN c /\ c[n + k] = b[k] /\ n + k > j BY <1>1, <1>2, <2>1
    <3> QED BY <1>5, <2>2, <3>1, <3>2 DEF Undirty
  <2>3. ASSUME Undirty(a, j), Undirty(b, 0) PROVE Undirty(c, j) BY <1>4, <1>5, <2>3 DEF Undirty
  <2> QED BY <2>2, <2>3
<1>7. ASSUME NEW j \in DOMAIN b PROVE Undirty(c, n + j) <=> Undirty(b, j)
  <2>1. j \in Int /\ j > 0 BY <1>1
  <2>2. ASSUME Undirty(c, n + j), NEW k \in DOMAIN b, k > j PROVE b[k].f # "dirty"
    <3>1. n + k \in DOMAIN c /\ c[n + k] = b[k] BY <1>10
    <3>2. k \in Int /\ n + k > n + j BY <1>1, <2>1, <2>2
    <3> QED BY <2>2, <3>1, <3>2 DEF Undirty
  <2>3. ASSUME Undirty(b, j), NEW k \in DOMAIN c, k > n + j PROVE c[k].f # "dirty"
    <3>1. k \in Int /\ k > n /\ k - n > j BY <1>1, <2>1, <2>3
    <3> QED BY <1>1, <1>2, <1>4, <2>3, <3>1 DEF Undirty
  <2>4. Undirty(c, n + j) => Undirty(b, j) BY <2>2 DEF Undirty
  <2>5. Undirty(b, j) => Undirty(c, n + j) BY <2>3 DEF Undirty
  <2> QED BY <2>4, <2>5
<1> DEFINE Back(ws, e, j) == ws[j].f = "restore" /\ e \in ws[j].v /\ Undirty(ws, j)
<1>8. ASSUME NEW e \in Locals PROVE e \in Dirtied(c, D) <=> e \in Dirtied(b, Dirtied(a, D))
  <2>1. (\E j \in DOMAIN c : Back(c, e, j)) <=> (\E j \in DOMAIN b : Back(b, e, j)) \/ (Undirty(b, 0) /\ \E j \in DOMAIN a : Back(a, e, j))
    <3>1. ASSUME NEW j \in DOMAIN c, Back(c, e, j) PROVE (\E i \in DOMAIN b : Back(b, e, i)) \/ (Undirty(b, 0) /\ \E i \in DOMAIN a : Back(a, e, i))
      <4>1. CASE j \in DOMAIN a /\ c[j] = a[j] BY <1>6, <3>1, <4>1
      <4>2. CASE j - n \in DOMAIN b /\ c[j] = b[j - n] /\ j > n
        <5>1. n + (j - n) = j BY <1>1, <4>2
        <5>2. Undirty(b, j - n) BY <1>7, <3>1, <4>2, <5>1
        <5> QED BY <3>1, <4>2, <5>2
      <4> QED BY <1>4, <4>1, <4>2
    <3>2. ASSUME NEW j \in DOMAIN b, Back(b, e, j) PROVE \E i \in DOMAIN c : Back(c, e, i)
      <4>1. n + j \in DOMAIN c /\ c[n + j] = b[j] BY <1>1, <1>2, SMTT(30)
      <4>2. Back(c, e, n + j) BY <1>7, <3>2, <4>1
      <4> QED BY <4>1, <4>2
    <3>3. ASSUME NEW j \in DOMAIN a, Back(a, e, j), Undirty(b, 0) PROVE \E i \in DOMAIN c : Back(c, e, i)
      <4>1. j \in DOMAIN c /\ c[j] = a[j] BY <1>1
      <4>2. Back(c, e, j) BY <1>6, <3>3, <4>1
      <4> QED BY <4>1, <4>2
    <3> QED BY <3>1, <3>2, <3>3
  <2>2. Undirty(c, 0) <=> Undirty(a, 0) /\ Undirty(b, 0) BY <1>6
  <2>3. e \in Dirtied(c, D) <=> (\E j \in DOMAIN c : Back(c, e, j)) \/ (e \in D /\ Undirty(c, 0)) BY DEF Dirtied
  <2>4. e \in Dirtied(a, D) <=> (\E j \in DOMAIN a : Back(a, e, j)) \/ (e \in D /\ Undirty(a, 0)) BY DEF Dirtied
  <2>5. PICK A : A = Dirtied(a, D) OBVIOUS
  <2>6. e \in Dirtied(b, A) <=> (\E j \in DOMAIN b : Back(b, e, j)) \/ (e \in A /\ Undirty(b, 0)) BY DEF Dirtied
  <2> HIDE DEF Back
  <2> QED BY <2>1, <2>2, <2>3, <2>4, <2>5, <2>6
<1> QED BY <1>8 DEF c, Dirtied

\* Writes one after the other.
LEMMA Join ==
  ASSUME NEW a \in Seq(WriteType), NEW b \in Seq(WriteType)
  PROVE  /\ a \o b \in Seq(WriteType) /\ Range(a \o b) = Range(a) \cup Range(b)
         /\ \A f, x : Late(a \o b, f, x) = Late(b, f, Late(a, f, x))
         /\ \A D : Dirtied(a \o b, D) = Dirtied(b, Dirtied(a, D))
BY LateJoin, DirtiedJoin, RangeConcatenation

Put(w, f, x) == IF Touches(w, f) THEN w.v ELSE x
LEMMA NoneIs == <<>> \in Seq(WriteType) /\ Range(<<>>) = {} /\ \A f, x : Late(<<>>, f, x) = x
<1>1. Range(<<>>) = {} BY DEF Range
<1> QED BY <1>1, LateNone

LEMMA One ==
  ASSUME NEW w \in WriteType
  PROVE  /\ <<w>> \in Seq(WriteType) /\ Range(<<w>>) = {w}
         /\ \A f, x : Late(<<w>>, f, x) = Put(w, f, x)
         /\ w.f = "restore" => \A D : w.v \cap Locals \subseteq Dirtied(<<w>>, D)
         /\ w.f # "dirty" => \A D \in SUBSET Locals : D \subseteq Dirtied(<<w>>, D)
<1>1. PICK s \in Seq(WriteType) : s = <<w>> /\ DOMAIN s = {1} /\ s[1] = w
  <2>1. <<w>> \in Seq(WriteType) /\ DOMAIN <<w>> = 1 .. 1 /\ <<w>>[1] = w OBVIOUS
  <2>2. 1 .. 1 = {1} OBVIOUS
  <2> QED BY <2>1, <2>2
<1>2. Range(s) = {w} BY <1>1 DEF Range
<1>3. \A f, x : Late(<<w>>, f, x) = Put(w, f, x) BY LateOne DEF Put
<1>4. Undirty(s, 1) BY <1>1 DEF Undirty
<1>6. w.f # "dirty" => Undirty(s, 0) BY <1>1 DEF Undirty
<1>7. w.f # "dirty" => \A D \in SUBSET Locals : D \subseteq Dirtied(s, D) BY <1>6 DEF Dirtied
<1> QED BY <1>4, <1>1, <1>2, <1>3, <1>7 DEF Dirtied

LEMMA Two ==
  ASSUME NEW v \in WriteType, NEW w \in WriteType
  PROVE  /\ <<v, w>> \in Seq(WriteType) /\ Range(<<v, w>>) = {v, w}
         /\ \A f, x : Late(<<v, w>>, f, x) = Put(w, f, Put(v, f, x))
<1>1. <<v, w>> = <<v>> \o <<w>>
  <2>1. PICK a : a = <<v>> OBVIOUS
  <2>2. PICK b : b = <<w>> OBVIOUS
  <2>3. a \in Seq(WriteType) /\ b \in Seq(WriteType) /\ Len(a) = 1 /\ Len(b) = 1 /\ a[1] = v /\ b[1] = w BY <2>1, <2>2
  <2>5. PICK c : c = <<v, w>> OBVIOUS
  <2>6. c \in Seq(WriteType) /\ Len(c) = 2 /\ c[1] = v /\ c[2] = w BY <2>5
  <2>7. PICK d : d = a \o b OBVIOUS
  <2>8. d \in Seq(WriteType) /\ Len(d) = 2 BY <2>3, <2>7, ConcatProperties
  <2>9. \A i \in 1 .. 2 : d[i] = IF i <= 1 THEN a[i] ELSE b[i - 1]
    <3>1. \A i \in 1 .. Len(a) + Len(b) : (a \o b)[i] = IF i <= Len(a) THEN a[i] ELSE b[i - Len(a)] BY <2>3, ConcatProperties
    <3>2. Len(a) + Len(b) = 2 /\ Len(a) = 1 BY <2>3
    <3> QED BY ONLY <2>7, <3>1, <3>2
  <2>10. \A i \in 1 .. Len(c) : c[i] = d[i]
    <3>1. \A i \in 1 .. 2 : i = 1 \/ i = 2 OBVIOUS
    <3>2. d[1] = v /\ d[2] = w
      <4> QED BY <2>3, <2>9
    <3> QED BY <2>6, <3>1, <3>2
  <2>4. a \o b = <<v, w>>
    <3>1. c = d BY <2>6, <2>8, <2>10, SeqEqual
    <3> QED BY <2>5, <2>7, <3>1
  <2> QED BY <2>1, <2>2, <2>4
<1>2. <<v>> \in Seq(WriteType) /\ <<w>> \in Seq(WriteType) OBVIOUS
<1>3. PICK a \in Seq(WriteType) : a = <<v>> BY <1>2
<1>4. PICK b \in Seq(WriteType) : b = <<w>> BY <1>2
<1>5. Range(a) = {v} /\ Range(b) = {w} BY <1>3, <1>4, One
<1>6. \A f, x : Late(a, f, x) = Put(v, f, x) /\ Late(b, f, x) = Put(w, f, x) BY <1>3, <1>4, One
<1>7. <<v, w>> = a \o b BY <1>1, <1>3, <1>4
<1>8. a \o b \in Seq(WriteType) /\ Range(a \o b) = Range(a) \cup Range(b) /\ \A f, x : Late(a \o b, f, x) = Late(b, f, Late(a, f, x)) BY Join
<1>9. Range(a \o b) = {v, w} BY <1>5, <1>8
<1>10. \A f, x : Late(a \o b, f, x) = Put(w, f, Put(v, f, x)) BY <1>6, <1>8
<1> QED BY <1>7, <1>8, <1>9, <1>10

LEMMA Three ==
  ASSUME NEW u \in WriteType, NEW v \in WriteType, NEW w \in WriteType
  PROVE  /\ <<u, v, w>> \in Seq(WriteType) /\ Range(<<u, v, w>>) = {u, v, w}
         /\ \A f, x : Late(<<u, v, w>>, f, x) = Put(w, f, Put(v, f, Put(u, f, x)))
<1>1. <<u, v, w>> = <<u, v>> \o <<w>> OBVIOUS
<1>2. <<u, v>> \in Seq(WriteType) /\ <<w>> \in Seq(WriteType) OBVIOUS
<1>3. PICK a \in Seq(WriteType) : a = <<u, v>> BY <1>2
<1>4. PICK b \in Seq(WriteType) : b = <<w>> BY <1>2
<1>5. Range(a) = {u, v} /\ Range(b) = {w} BY <1>3, <1>4, One, Two
<1>7. <<u, v, w>> = a \o b BY <1>1, <1>3, <1>4
<1>8. a \o b \in Seq(WriteType) /\ Range(a \o b) = Range(a) \cup Range(b) /\ \A f, x : Late(a \o b, f, x) = Late(b, f, Late(a, f, x)) BY Join
<1>9. Range(a \o b) = {u, v, w} BY <1>5, <1>8
<1>10. \A f, x : Late(a \o b, f, x) = Put(w, f, Put(v, f, Put(u, f, x))) BY <1>3, <1>4, One, Two, <1>8
<1> QED BY <1>7, <1>8, <1>9, <1>10

LEMMA Four ==
  ASSUME NEW t \in WriteType, NEW u \in WriteType, NEW v \in WriteType, NEW w \in WriteType
  PROVE  /\ <<t, u, v, w>> \in Seq(WriteType) /\ Range(<<t, u, v, w>>) = {t, u, v, w}
         /\ \A f, x : Late(<<t, u, v, w>>, f, x) = Put(w, f, Put(v, f, Put(u, f, Put(t, f, x))))
<1>1. <<t, u, v, w>> = <<t, u>> \o <<v, w>> OBVIOUS
<1>2. <<t, u>> \in Seq(WriteType) /\ <<v, w>> \in Seq(WriteType) OBVIOUS
<1>3. PICK a \in Seq(WriteType) : a = <<t, u>> BY <1>2
<1>4. PICK b \in Seq(WriteType) : b = <<v, w>> BY <1>2
<1>5. Range(a) = {t, u} /\ Range(b) = {v, w} BY <1>3, <1>4, Two
<1>6. \A f, x : Late(a, f, x) = Put(u, f, Put(t, f, x)) /\ Late(b, f, x) = Put(w, f, Put(v, f, x)) BY <1>3, <1>4, Two
<1>7. <<t, u, v, w>> = a \o b BY <1>1, <1>3, <1>4
<1>8. a \o b \in Seq(WriteType) /\ Range(a \o b) = Range(a) \cup Range(b) /\ \A f, x : Late(a \o b, f, x) = Late(b, f, Late(a, f, x)) BY Join
<1>9. Range(a \o b) = {t, u, v, w} BY <1>5, <1>8
<1>10. \A f, x : Late(a \o b, f, x) = Put(w, f, Put(v, f, Put(u, f, Put(t, f, x)))) BY <1>6, <1>8
<1> QED BY <1>7, <1>8, <1>9, <1>10, ZenonT(30)

LEMMA PutIs ==
  /\ \A g, v, f, x : g \notin {"sequencer", "rebase-merge"} => Put(W(g, v), f, x) = IF f = g THEN v ELSE x
  /\ \A v, f, x : Put(W("sequencer", v), f, x) = IF f \in SequencerDir THEN v ELSE x
  /\ \A v, f, x : Put(W("rebase-merge", v), f, x) = IF f \in RebaseDir THEN v ELSE x
BY FilesAre DEF Put, Touches, W

\* Nothing among the writes empties the working tree of edits.
LEMMA Calm ==
  ASSUME NEW ws \in Seq(WriteType), \A w \in Range(ws) : w.f # "dirty", NEW D \in SUBSET Locals
  PROVE  D \subseteq Dirtied(ws, D)
<1>1. \A k \in DOMAIN ws : ws[k] \in Range(ws) BY DEF Range
<1>2. Undirty(ws, 0) BY <1>1 DEF Undirty
<1> QED BY <1>2 DEF Dirtied

\* Files nothing among the writes names, or names only to remove.
LEMMA Unnamed ==
  ASSUME NEW ws \in Seq(WriteType), NEW f
  PROVE  /\ (\A w \in Range(ws) : ~Touches(w, f)) => \A x : Late(ws, f, x) = x
         /\ (\A w \in Range(ws) : Touches(w, f) => w.v = None) => \A x : Late(ws, f, x) \in {x, None}
<1>1. \A k \in DOMAIN ws : ws[k] \in Range(ws) BY DEF Range
<1> QED BY <1>1, LateIs

------------------------------
(* What the commands' common parts write. *)

LEMMA FieldsAre ==
  Fields = {"branch", "index", "dirty", "stash", "pick", "revert", "rebase", "message", "mergeStash",
            "seqTodo", "seqOpts", "rbTodo", "rbDone", "rbMessage", "rbStash", "head", "orig", "merge",
            "seqHead", "seqSafety", "rbOrig", "rbOnto"}
BY DEF Fields, HistoryFiles

LEMMA Removal ==
  \A g \in {"pick", "revert", "merge", "message", "mergeStash", "rebase", "head", "rbMessage", "sequencer", "rebase-merge"} :
    W(g, None) \in WriteType /\ W(g, None).f = g /\ W(g, None).v = None
<1> TAKE g \in {"pick", "revert", "merge", "message", "mergeStash", "rebase", "head", "rbMessage", "sequencer", "rebase-merge"}
<1>1. g \in Fields \cup Dirs BY FieldsAre DEF Dirs
<1>2. None \in Kind(g) BY KindsAre, MaybeIs DEF HistoryFiles
<1> QED BY <1>1, <1>2, WriteIs

LEMMA RemoveFileIs ==
  ASSUME NEW g \in {"pick", "revert", "merge", "message"}
  PROVE  /\ RemoveFile(g) \in Seq(WriteType) /\ Range(RemoveFile(g)) \subseteq {W(g, None)}
         /\ \A f, x : Late(RemoveFile(g), f, x) = IF f = g /\ repo[g] # None THEN None ELSE x
<1>1. W(g, None) \in WriteType BY Removal
<1>2. CASE repo[g] = None BY <1>2, NoneIs DEF RemoveFile
<1>3. CASE repo[g] # None
  <2>1. PICK w \in WriteType : w = W(g, None) BY <1>1
  <2>2. RemoveFile(g) = <<w>> BY <1>3, <2>1 DEF RemoveFile
  <2> QED BY PutIs, <1>3, <2>1, <2>2, One
<1> QED BY <1>2, <1>3

LEMMA ClearSequencerIs ==
  /\ ClearSequencer \in Seq(WriteType) /\ Range(ClearSequencer) \subseteq {W("sequencer", None)}
  /\ \A f, x : Late(ClearSequencer, f, x) =
       IF f \in SequencerDir /\ ~\A g \in SequencerDir : repo[g] = None THEN None ELSE x
<1>1. W("sequencer", None) \in WriteType BY Removal
<1>2. CASE \A f \in SequencerDir : repo[f] = None BY <1>2, NoneIs DEF ClearSequencer
<1>3. CASE ~\A f \in SequencerDir : repo[f] = None
  <2>1. PICK w \in WriteType : w = W("sequencer", None) BY <1>1
  <2>2. ClearSequencer = <<w>> BY <1>3, <2>1 DEF ClearSequencer
  <2> QED BY PutIs, <1>3, <2>1, <2>2, One
<1> QED BY <1>2, <1>3

\* The sequencer is left as it is, or goes.
CleanupErases ==
  /\ repo.pick # None \/ repo.revert # None
  /\ repo.seqTodo # None
  /\ Len(repo.seqTodo[1]) <= 1
LEMMA CleanupIs ==
  /\ SequencerPostCommitCleanup \in Seq(WriteType)
  /\ Range(SequencerPostCommitCleanup) \subseteq {W("pick", None), W("revert", None), W("sequencer", None)}
  /\ \A f, x : Late(SequencerPostCommitCleanup, f, x) =
       IF \/ f = "pick" /\ repo.pick # None
          \/ f = "revert" /\ repo.revert # None
          \/ f \in SequencerDir /\ CleanupErases
       THEN None ELSE x
<1> DEFINE a == RemoveFile("pick")
           b == RemoveFile("revert")
           c == IF CleanupErases THEN ClearSequencer ELSE <<>>
<1>1. SequencerPostCommitCleanup = a \o b \o c BY DEF SequencerPostCommitCleanup, CleanupErases
<1>2. a \in Seq(WriteType) /\ Range(a) \subseteq {W("pick", None)} /\ \A f, x : Late(a, f, x) = IF f = "pick" /\ repo.pick # None THEN None ELSE x
  BY RemoveFileIs
<1>3. b \in Seq(WriteType) /\ Range(b) \subseteq {W("revert", None)} /\ \A f, x : Late(b, f, x) = IF f = "revert" /\ repo.revert # None THEN None ELSE x
  BY RemoveFileIs
<1>4. c \in Seq(WriteType) /\ Range(c) \subseteq {W("sequencer", None)} /\ \A f, x : Late(c, f, x) = IF f \in SequencerDir /\ CleanupErases THEN None ELSE x
  <2>1. CASE CleanupErases
    <3>1. "seqTodo" \in SequencerDir BY DEF SequencerDir
    <3> QED BY <3>1, <2>1, ClearSequencerIs DEF CleanupErases
  <2>2. CASE ~CleanupErases BY <2>2, NoneIs
  <2> QED BY <2>1, <2>2
<1> HIDE DEF a, b, c
<1>5. PICK d \in Seq(WriteType) : d = a \o b /\ Range(d) = Range(a) \cup Range(b) /\ \A f, x : Late(d, f, x) = Late(b, f, Late(a, f, x)) BY <1>2, <1>3, Join
<1>6. d \o c \in Seq(WriteType) /\ Range(d \o c) = Range(d) \cup Range(c) /\ \A f, x : Late(d \o c, f, x) = Late(c, f, Late(d, f, x)) BY <1>4, <1>5, Join
<1>7. Range(d \o c) \subseteq {W("pick", None), W("revert", None), W("sequencer", None)} BY <1>2, <1>3, <1>4, <1>5, <1>6
<1>8. ASSUME NEW f, NEW x
      PROVE  Late(d \o c, f, x) = IF \/ f = "pick" /\ repo.pick # None
                                     \/ f = "revert" /\ repo.revert # None
                                     \/ f \in SequencerDir /\ CleanupErases
                                  THEN None ELSE x
  BY <1>2, <1>3, <1>4, <1>5, <1>6
<1> QED BY <1>1, <1>5, <1>6, <1>7, <1>8

LEMMA SaveIs ==
  ASSUME NEW held \in Maybe(SUBSET Locals)
  PROVE  /\ SaveMergeAutostash(held) \in Seq(WriteType)
         /\ Range(SaveMergeAutostash(held)) = IF held = None THEN {} ELSE {W("mergeStash", None), W("push", held[1])}
         /\ \A f \in Fields : \A x : Late(SaveMergeAutostash(held), f, x) = IF f = "mergeStash" /\ held # None THEN None ELSE x
<1>1. CASE held = None BY <1>1, NoneIs DEF SaveMergeAutostash
<1>2. CASE held # None
  <2>1. PICK v \in WriteType : v = W("mergeStash", None) BY Removal
  <2>2. held[1] \in SUBSET Locals BY <1>2, MaybeIs
  <2>3. PICK w \in WriteType : w = W("push", held[1]) BY <2>2, KindsAre, WriteIs DEF Dirs
  <2>4. SaveMergeAutostash(held) = <<v, w>> BY <1>2, <2>1, <2>3 DEF SaveMergeAutostash
  <2>5. \A f \in Fields : \A x : Put(w, f, Put(v, f, x)) = IF f = "mergeStash" THEN None ELSE x
    <3>2. \A f \in Fields : \A x : Put(w, f, x) = x BY <2>3, PutIs, FieldsAre
    <3> QED BY <2>1, PutIs, <3>2
  <2> QED BY Two, <1>2, <2>1, <2>3, <2>4, <2>5
<1> QED BY <1>1, <1>2

LEMMA RemoveMergeIs ==
  ASSUME NEW held \in Maybe(SUBSET Locals)
  PROVE  /\ RemoveMergeBranchState(held) \in Seq(WriteType)
         /\ Range(RemoveMergeBranchState(held)) \subseteq
              {W("merge", None), W("message", None)} \cup (IF held = None THEN {} ELSE {W("mergeStash", None), W("push", held[1])})
         /\ held # None => W("push", held[1]) \in Range(RemoveMergeBranchState(held))
         /\ \A f \in Fields : \A x : Late(RemoveMergeBranchState(held), f, x) =
              IF \/ f = "merge" /\ repo.merge # None
                 \/ f = "message" /\ repo.message # None
                 \/ f = "mergeStash" /\ held # None
              THEN None ELSE x
<1> DEFINE a == RemoveFile("merge")
           b == RemoveFile("message")
           c == SaveMergeAutostash(held)
<1>1. RemoveMergeBranchState(held) = a \o b \o c BY DEF RemoveMergeBranchState
<1>2. a \in Seq(WriteType) /\ Range(a) \subseteq {W("merge", None)} /\ \A f, x : Late(a, f, x) = IF f = "merge" /\ repo.merge # None THEN None ELSE x
  BY RemoveFileIs
<1>3. b \in Seq(WriteType) /\ Range(b) \subseteq {W("message", None)} /\ \A f, x : Late(b, f, x) = IF f = "message" /\ repo.message # None THEN None ELSE x
  BY RemoveFileIs
<1>4. /\ c \in Seq(WriteType) /\ Range(c) = IF held = None THEN {} ELSE {W("mergeStash", None), W("push", held[1])}
      /\ \A f \in Fields : \A x : Late(c, f, x) = IF f = "mergeStash" /\ held # None THEN None ELSE x
  BY SaveIs
<1> HIDE DEF a, b, c
<1>5. PICK d \in Seq(WriteType) : d = a \o b /\ Range(d) = Range(a) \cup Range(b) /\ \A f, x : Late(d, f, x) = Late(b, f, Late(a, f, x)) BY <1>2, <1>3, Join
<1>6. d \o c \in Seq(WriteType) /\ Range(d \o c) = Range(d) \cup Range(c) /\ \A f, x : Late(d \o c, f, x) = Late(c, f, Late(d, f, x)) BY <1>4, <1>5, Join
<1>7. /\ Range(d \o c) \subseteq {W("merge", None), W("message", None)} \cup (IF held = None THEN {} ELSE {W("mergeStash", None), W("push", held[1])})
      /\ held # None => W("push", held[1]) \in Range(d \o c)
  BY <1>2, <1>3, <1>4, <1>5, <1>6
<1>8. ASSUME NEW f \in Fields, NEW x
      PROVE  Late(d \o c, f, x) = IF \/ f = "merge" /\ repo.merge # None
                                     \/ f = "message" /\ repo.message # None
                                     \/ f = "mergeStash" /\ held # None
                                  THEN None ELSE x
  BY <1>2, <1>3, <1>4, <1>5, <1>6
<1> QED BY <1>1, <1>5, <1>6, <1>7, <1>8

LEMMA RemoveBranchIs ==
  ASSUME NEW held \in Maybe(SUBSET Locals)
  PROVE  /\ RemoveBranchState(held) \in Seq(WriteType)
         /\ Range(RemoveBranchState(held)) \subseteq
              {W(f, None) : f \in {"pick", "revert", "sequencer", "merge", "message"}}
              \cup (IF held = None THEN {} ELSE {W("mergeStash", None), W("push", held[1])})
         /\ held # None => W("push", held[1]) \in Range(RemoveBranchState(held))
         /\ \A f \in Fields : \A x : Late(RemoveBranchState(held), f, x) =
              IF \/ f \in {"pick", "revert", "merge", "message"} /\ repo[f] # None
                 \/ f \in SequencerDir /\ CleanupErases
                 \/ f = "mergeStash" /\ held # None
              THEN None ELSE x
<1> DEFINE a == SequencerPostCommitCleanup
           b == RemoveMergeBranchState(held)
<1>1. RemoveBranchState(held) = a \o b BY DEF RemoveBranchState
<1>2. /\ a \in Seq(WriteType) /\ Range(a) \subseteq {W("pick", None), W("revert", None), W("sequencer", None)}
      /\ \A f, x : Late(a, f, x) = IF \/ f = "pick" /\ repo.pick # None
                                      \/ f = "revert" /\ repo.revert # None
                                      \/ f \in SequencerDir /\ CleanupErases
                                   THEN None ELSE x
  BY CleanupIs
<1>3. /\ b \in Seq(WriteType)
      /\ Range(b) \subseteq {W("merge", None), W("message", None)} \cup (IF held = None THEN {} ELSE {W("mergeStash", None), W("push", held[1])})
      /\ held # None => W("push", held[1]) \in Range(b)
      /\ \A f \in Fields : \A x : Late(b, f, x) = IF \/ f = "merge" /\ repo.merge # None
                                                     \/ f = "message" /\ repo.message # None
                                                     \/ f = "mergeStash" /\ held # None
                                                   THEN None ELSE x
  BY RemoveMergeIs
<1> HIDE DEF a, b
<1>4. a \o b \in Seq(WriteType) /\ Range(a \o b) = Range(a) \cup Range(b) /\ \A f, x : Late(a \o b, f, x) = Late(b, f, Late(a, f, x)) BY <1>2, <1>3, Join
<1>6. ASSUME NEW f \in Fields, NEW x
      PROVE  Late(a \o b, f, x) = IF \/ f \in {"pick", "revert", "merge", "message"} /\ repo[f] # None
                                     \/ f \in SequencerDir /\ CleanupErases
                                     \/ f = "mergeStash" /\ held # None
                                  THEN None ELSE x
  BY <1>2, <1>3, <1>4 DEF SequencerDir
<1> QED BY <1>2, <1>1, <1>3, <1>4, <1>6

\* The edits in S will be in the working tree or on the stash list.
Saves(ws, S) ==
  \/ \A D : S \subseteq Dirtied(ws, D)
  \/ \E w \in Range(ws) : w.f = "push" /\ S \subseteq w.v
Held(y) == IF y = None THEN {} ELSE y[1]

LEMMA SavesJoin ==
  ASSUME NEW a \in Seq(WriteType), NEW b \in Seq(WriteType), NEW S
  PROVE  /\ Saves(b, S) => Saves(a \o b, S)
         /\ Saves(a, S) /\ (\A w \in Range(b) : w.f # "dirty") => Saves(a \o b, S)
<1>2. \A D : Dirtied(a, D) \in SUBSET Locals BY DEF Dirtied
<1>3. (\A w \in Range(b) : w.f # "dirty") => \A D : Dirtied(a, D) \subseteq Dirtied(b, Dirtied(a, D)) BY <1>2, Calm
<1> QED BY Join, <1>3 DEF Saves

LEMMA TipIs ==
  ASSUME RepoOK(repo)
  PROVE  /\ Tip \in Histories /\ Tree(Tip) \in SUBSET Patches /\ <<Tip>> \in Maybe(Histories) /\ <<Tip>> # None
         /\ \A f \in Fields : repo[f] \in Kind(f)
         /\ Local \in SUBSET Locals
<1>1. \A f \in Fields : repo[f] \in Kind(f) BY DEF RepoOK
<1>2. repo.branch \in Histories /\ repo.head \in Maybe(Histories) /\ repo.dirty \in SUBSET Locals BY <1>1, FieldsAre, KindsAre DEF HistoryFiles
<1>3. Tip \in Histories BY <1>2, MaybeIs DEF Tip
<1>4. Local \in SUBSET Locals BY <1>2 DEF Local, Locals
<1> QED BY <1>1, <1>3, <1>4, HistoryIs, MaybeIs

LEMMA MoveHeadIs ==
  ASSUME RepoOK(repo), NEW h \in Histories
  PROVE  /\ MoveHead(h) \in WriteType
         /\ repo.head = None => MoveHead(h) = W("branch", h)
         /\ repo.head # None => MoveHead(h) = W("head", <<h>>)
<1>1. W("branch", h) \in WriteType BY WriteIs, KindsAre, FieldsAre
<1>2. W("head", <<h>>) \in WriteType BY WriteIs, KindsAre, FieldsAre, MaybeIs DEF HistoryFiles
<1> QED BY <1>1, <1>2 DEF MoveHead

LEMMA IndexWrite ==
  ASSUME NEW i \in IndexType
  PROVE  W("index", i) \in WriteType /\ W("index", i).f = "index" /\ W("index", i).v = i
BY WriteIs, KindsAre, FieldsAre

LEMMA ApplyIs ==
  ASSUME NEW edits \in SUBSET Locals, NEW outcome \in ApplyOutcomes, NEW t \in SUBSET Patches
  PROVE  /\ ApplyAutostash(edits, outcome, t) \in Seq(WriteType)
         /\ Range(ApplyAutostash(edits, outcome, t)) \subseteq
              {W("restore", edits), W("push", edits), W("index", Unmerged(t, t, "stash"))}
         /\ Saves(ApplyAutostash(edits, outcome, t), edits)
         /\ \A f \in Fields : \A x : f # "index" => Late(ApplyAutostash(edits, outcome, t), f, x) = x
         /\ \A x : Late(ApplyAutostash(edits, outcome, t), "index", x) \in {x, Unmerged(t, t, "stash")}
<1> DEFINE P == ApplyAutostash(edits, outcome, t)
<1>1. PICK r \in WriteType : r = W("restore", edits) /\ r.f = "restore" /\ r.v = edits BY WriteIs, KindsAre DEF Dirs
<1>2. PICK p \in WriteType : p = W("push", edits) /\ p.f = "push" /\ p.v = edits BY WriteIs, KindsAre DEF Dirs
<1>3. PICK i \in WriteType : i = W("index", Unmerged(t, t, "stash")) BY IndexWrite, UnmergedIs
<1>4. \A f \in Fields : \A x : Put(r, f, x) = x /\ Put(p, f, x) = x BY <1>1, <1>2, PutIs, FieldsAre
<1>6. "index" \in Fields BY FieldsAre
<1>7. CASE outcome = "applied"
  <2>1. P = <<r>> BY <1>1, <1>7 DEF ApplyAutostash
  <2>2. /\ <<r>> \in Seq(WriteType) /\ Range(<<r>>) = {r} /\ \A f, x : Late(<<r>>, f, x) = Put(r, f, x)
        /\ \A D : edits \subseteq Dirtied(<<r>>, D) BY <1>1, One
  <2>3. Saves(P, edits) BY <2>1, <2>2 DEF Saves
  <2> HIDE DEF P
  <2> QED BY <1>1, <1>4, <1>6, <2>1, <2>2, <2>3 DEF P
<1>8. CASE outcome = "conflict"
  <2>1. P = <<i, p>> BY <1>2, <1>3, <1>8 DEF ApplyAutostash
  <2>2. <<i, p>> \in Seq(WriteType) /\ Range(<<i, p>>) = {i, p} /\ \A f, x : Late(<<i, p>>, f, x) = Put(p, f, Put(i, f, x)) BY Two
  <2>3. Saves(P, edits) BY <1>2, <2>1, <2>2 DEF Saves
  <2>4. \A f \in Fields : \A x : Late(P, f, x) = IF f = "index" THEN Unmerged(t, t, "stash") ELSE x
    BY <1>3, PutIs, <1>4, <2>1, <2>2
  <2> HIDE DEF P
  <2> QED BY <1>2, <1>3, <1>6, <2>1, <2>2, <2>3, <2>4 DEF P
<1>9. CASE outcome = "refused"
  <2>1. P = <<p>> BY <1>2, <1>9 DEF ApplyAutostash
  <2>2. <<p>> \in Seq(WriteType) /\ Range(<<p>>) = {p} /\ \A f, x : Late(<<p>>, f, x) = Put(p, f, x) BY One
  <2>3. Saves(P, edits) BY <1>2, <2>1, <2>2 DEF Saves
  <2> HIDE DEF P
  <2> QED BY <1>2, <1>4, <1>6, <2>1, <2>2, <2>3 DEF P
<1> QED BY <1>7, <1>8, <1>9 DEF ApplyOutcomes

LEMMA SavesNothing == \A ws : Saves(ws, {})
BY DEF Saves

LEMMA ApplyMergeIs ==
  ASSUME NEW held \in Maybe(SUBSET Locals), NEW outcome \in ApplyOutcomes, NEW t \in SUBSET Patches
  PROVE  /\ ApplyMergeAutostash(held, outcome, t) \in Seq(WriteType)
         /\ Range(ApplyMergeAutostash(held, outcome, t)) \subseteq
              {W("mergeStash", None), W("restore", held[1]), W("push", held[1]), W("index", Unmerged(t, t, "stash"))}
         /\ held = None => ApplyMergeAutostash(held, outcome, t) = <<>>
         /\ Saves(ApplyMergeAutostash(held, outcome, t), Held(held))
         /\ \A f \in Fields : \A x : f # "index" =>
              Late(ApplyMergeAutostash(held, outcome, t), f, x) = IF f = "mergeStash" /\ held # None THEN None ELSE x
         /\ \A x : Late(ApplyMergeAutostash(held, outcome, t), "index", x) \in {x, Unmerged(t, t, "stash")}
<1> DEFINE P == ApplyMergeAutostash(held, outcome, t)
<1>1. CASE held = None
  <2>1. P = <<>> BY <1>1 DEF ApplyMergeAutostash
  <2>2. Held(held) = {} BY <1>1 DEF Held
  <2> QED BY <1>1, <2>1, <2>2, NoneIs, SavesNothing
<1>2. CASE held # None
  <2>1. PICK m \in WriteType : m = W("mergeStash", None) BY Removal
  <2>2. PICK e \in SUBSET Locals : e = held[1] /\ Held(held) = e BY <1>2, MaybeIs DEF Held
  <2>3. PICK b : b = ApplyAutostash(e, outcome, t) OBVIOUS
  <2>4. /\ b \in Seq(WriteType) /\ Saves(b, e)
        /\ Range(b) \subseteq {W("restore", e), W("push", e), W("index", Unmerged(t, t, "stash"))}
        /\ \A f \in Fields : \A x : f # "index" => Late(b, f, x) = x
        /\ \A x : Late(b, "index", x) \in {x, Unmerged(t, t, "stash")}
    BY <2>3, ApplyIs
  <2>5. PICK a \in Seq(WriteType) : a = <<m>> /\ Range(a) = {m} /\ \A f, x : Late(a, f, x) = Put(m, f, x) BY One
  <2>6. P = a \o b BY <1>2, <2>1, <2>2, <2>3, <2>5 DEF ApplyMergeAutostash
  <2>7. a \o b \in Seq(WriteType) /\ Range(a \o b) = Range(a) \cup Range(b) /\ \A f, x : Late(a \o b, f, x) = Late(b, f, Late(a, f, x)) BY <2>4, Join
  <2>8. Saves(a \o b, e) BY <2>4, SavesJoin
  <2>9. \A f, x : Late(a, f, x) = IF f = "mergeStash" THEN None ELSE x BY <2>1, <2>5, PutIs
  <2>10. \A f \in Fields : \A x : f # "index" => Late(a \o b, f, x) = IF f = "mergeStash" THEN None ELSE x BY <2>4, <2>7, <2>9
  <2>11. \A x : Late(a \o b, "index", x) \in {x, Unmerged(t, t, "stash")} BY <2>4, <2>7, <2>9
  <2>12. Range(a \o b) \subseteq {W("mergeStash", None), W("restore", e), W("push", e), W("index", Unmerged(t, t, "stash"))} BY <2>1, <2>4, <2>5, <2>7
  <2> HIDE DEF P
  <2> QED BY <1>2, <2>2, <2>6, <2>7, <2>8, <2>10, <2>11, <2>12 DEF P
<1> QED BY <1>1, <1>2

LEMMA CreateIs ==
  ASSUME RepoOK(repo)
  PROVE  /\ CreateAutostash \in Seq(WriteType)
         /\ Range(CreateAutostash) \subseteq {W("index", Clean(Tree(Tip))), W("dirty", {})}
         /\ Local = {} => CreateAutostash = <<>>
         /\ \A f \in Fields \ {"index", "dirty"} : \A x : Late(CreateAutostash, f, x) = x
<1>1. CASE Local = {} BY <1>1, NoneIs DEF CreateAutostash
<1>2. CASE Local # {}
  <2>1. PICK i \in WriteType : i = W("index", Clean(Tree(Tip))) BY IndexWrite, CleanIs, TipIs
  <2>2. {} \in Kind("dirty") BY KindsAre
  <2>3. PICK d \in WriteType : d = W("dirty", {}) BY <2>2, WriteIs, FieldsAre
  <2>4. CreateAutostash = <<i, d>> BY <1>2, <2>1, <2>3 DEF CreateAutostash
  <2>6. \A f \in Fields \ {"index", "dirty"} : \A x : Put(d, f, x) = x /\ Put(i, f, x) = x BY <2>1, <2>3, PutIs
  <2> QED BY Two, <1>2, <2>1, <2>3, <2>4, <2>6
<1> QED BY <1>1, <1>2

LEMMA RemoveCommittedIs ==
  /\ RemoveCommittedState \in Seq(WriteType)
  /\ Range(RemoveCommittedState) \subseteq {W(f, None) : f \in {"pick", "revert", "sequencer", "merge", "message"}}
  /\ \A f, x : Late(RemoveCommittedState, f, x) =
       IF \/ f \in {"pick", "revert", "merge", "message"} /\ repo[f] # None
          \/ f \in SequencerDir /\ CleanupErases
       THEN None ELSE x
<1> DEFINE a == SequencerPostCommitCleanup
           b == RemoveFile("merge")
           c == RemoveFile("message")
<1>1. RemoveCommittedState = a \o b \o c BY DEF RemoveCommittedState
<1>2. /\ a \in Seq(WriteType) /\ Range(a) \subseteq {W("pick", None), W("revert", None), W("sequencer", None)}
      /\ \A f, x : Late(a, f, x) = IF \/ f = "pick" /\ repo.pick # None
                                      \/ f = "revert" /\ repo.revert # None
                                      \/ f \in SequencerDir /\ CleanupErases
                                   THEN None ELSE x
  BY CleanupIs
<1>3. b \in Seq(WriteType) /\ Range(b) \subseteq {W("merge", None)} /\ \A f, x : Late(b, f, x) = IF f = "merge" /\ repo.merge # None THEN None ELSE x
  BY RemoveFileIs
<1>4. c \in Seq(WriteType) /\ Range(c) \subseteq {W("message", None)} /\ \A f, x : Late(c, f, x) = IF f = "message" /\ repo.message # None THEN None ELSE x
  BY RemoveFileIs
<1> HIDE DEF a, b, c
<1>5. PICK d \in Seq(WriteType) : d = a \o b /\ Range(d) = Range(a) \cup Range(b) /\ \A f, x : Late(d, f, x) = Late(b, f, Late(a, f, x)) BY <1>2, <1>3, Join
<1>6. d \o c \in Seq(WriteType) /\ Range(d \o c) = Range(d) \cup Range(c) /\ \A f, x : Late(d \o c, f, x) = Late(c, f, Late(d, f, x)) BY <1>4, <1>5, Join
<1>7. Range(d \o c) \subseteq {W(f, None) : f \in {"pick", "revert", "sequencer", "merge", "message"}} BY <1>2, <1>3, <1>4, <1>5, <1>6
<1>8. ASSUME NEW f, NEW x
      PROVE  Late(d \o c, f, x) = IF \/ f \in {"pick", "revert", "merge", "message"} /\ repo[f] # None
                                     \/ f \in SequencerDir /\ CleanupErases
                                  THEN None ELSE x
  BY <1>2, <1>3, <1>4, <1>5, <1>6 DEF SequencerDir
<1> QED BY <1>1, <1>5, <1>6, <1>7, <1>8

\* What one run of cherry-pick or revert, or of rebase, works with.
RunType == [op : {"pick", "revert"}, multi : BOOLEAN, head : Histories, allowEmpty : BOOLEAN, onEmpty : {"stop", "drop"}]
LineType == [orig : Histories, todo : Seq(CommitType), done : Seq(CommitType)]

LEMMA SequencerStopIs ==
  ASSUME NEW run \in RunType, NEW rest \in Seq(Sources), NEW h \in Histories
  PROVE  /\ SequencerStop(run, rest, h) \in Seq(WriteType)
         /\ ~run.multi => SequencerStop(run, rest, h) = <<>>
         /\ Range(SequencerStop(run, rest, h)) \subseteq
              {W("seqHead", <<run.head>>), W("seqTodo", <<rest>>), W("seqSafety", <<h>>), W("seqOpts", <<"allow-empty">>)}
         /\ run.multi => \A f, x : f # "seqOpts" => Late(SequencerStop(run, rest, h), f, x) =
              IF f = "seqHead" THEN <<run.head>> ELSE IF f = "seqTodo" THEN <<rest>> ELSE IF f = "seqSafety" THEN <<h>> ELSE x
<1> DEFINE P == SequencerStop(run, rest, h)
<1>1. CASE ~run.multi
  <2>1. P = <<>> BY <1>1 DEF SequencerStop
  <2> QED BY <1>1, <2>1, NoneIs
<1>2. CASE run.multi
  <2>0. run.head \in Histories BY DEF RunType
  <2>1. PICK a \in WriteType : a = W("seqHead", <<run.head>>) BY <2>0, WriteIs, KindsAre, MaybeIs, FieldsAre DEF HistoryFiles
  <2>2. PICK b \in WriteType : b = W("seqTodo", <<rest>>) BY WriteIs, KindsAre, MaybeIs, FieldsAre
  <2>3. PICK c \in WriteType : c = W("seqSafety", <<h>>) BY WriteIs, KindsAre, MaybeIs, FieldsAre DEF HistoryFiles
  <2>4. PICK d \in WriteType : d = W("seqOpts", <<"allow-empty">>)
    <3>1. <<"allow-empty">> \in Kind("seqOpts") BY KindsAre, MaybeIs
    <3> QED BY <3>1, WriteIs, FieldsAre
  <2>5. \A f, x : Put(c, f, Put(b, f, Put(a, f, x))) = IF f = "seqHead" THEN <<run.head>> ELSE IF f = "seqTodo" THEN <<rest>> ELSE IF f = "seqSafety" THEN <<h>> ELSE x
    BY <2>1, <2>2, <2>3, PutIs
  <2>6. PICK s : s = <<a, b, c>> OBVIOUS
  <2>7. s \in Seq(WriteType) /\ Range(s) = {a, b, c} /\ \A f, x : Late(s, f, x) = Put(c, f, Put(b, f, Put(a, f, x))) BY <2>6, Three
  <2>8. PICK o : o = IF run.allowEmpty THEN <<d>> ELSE <<>> OBVIOUS
  <2>9. o \in Seq(WriteType) /\ Range(o) \subseteq {d} /\ \A f, x : f # "seqOpts" => Late(o, f, x) = x
    <3>1. CASE run.allowEmpty
      <4>1. o = <<d>> BY <2>8, <3>1
      <4> QED BY <2>4, PutIs, <4>1, One
    <3>2. CASE ~run.allowEmpty BY <2>8, <3>2, NoneIs
    <3> QED BY <3>1, <3>2
  <2>10. P = s \o o BY <1>2, <2>1, <2>2, <2>3, <2>4, <2>6, <2>8 DEF SequencerStop
  <2>11. s \o o \in Seq(WriteType) /\ Range(s \o o) = Range(s) \cup Range(o) /\ \A f, x : Late(s \o o, f, x) = Late(o, f, Late(s, f, x)) BY <2>7, <2>9, Join
  <2>12. \A f, x : f # "seqOpts" => Late(s \o o, f, x) =
              IF f = "seqHead" THEN <<run.head>> ELSE IF f = "seqTodo" THEN <<rest>> ELSE IF f = "seqSafety" THEN <<h>> ELSE x
    BY <2>5, <2>7, <2>9, <2>11
  <2>13. Range(s \o o) \subseteq {W("seqHead", <<run.head>>), W("seqTodo", <<rest>>), W("seqSafety", <<h>>), W("seqOpts", <<"allow-empty">>)}
    BY <2>1, <2>2, <2>3, <2>4, <2>7, <2>9, <2>11
  <2> HIDE DEF P
  <2> QED BY <1>2, <2>10, <2>11, <2>12, <2>13 DEF P
<1> QED BY <1>1, <1>2 DEF RunType

LEMMA PersistStopIs ==
  ASSUME NEW op \in {"pick", "revert"}, NEW s \in Sources
  PROVE  /\ PersistStop(op, s) \in Seq(WriteType)
         /\ Range(PersistStop(op, s)) = {W(op, <<s>>), W("message", <<s>>)}
         /\ \A f, x : Late(PersistStop(op, s), f, x) = IF f \in {op, "message"} THEN <<s>> ELSE x
<1>1. Marker(op) = op BY DEF Marker
<1>2. PICK a \in WriteType : a = W(op, <<s>>) BY WriteIs, KindsAre, MaybeIs, FieldsAre
<1>3. PICK b \in WriteType : b = W("message", <<s>>) BY WriteIs, KindsAre, MaybeIs, FieldsAre
<1>4. PersistStop(op, s) = <<a, b>> BY <1>1, <1>2, <1>3 DEF PersistStop
<1>5. \A f, x : Put(b, f, Put(a, f, x)) = IF f \in {op, "message"} THEN <<s>> ELSE x BY <1>2, <1>3, PutIs
<1> QED BY Two, <1>2, <1>3, <1>4, <1>5

RebaseFiles == {"rbOrig", "rbOnto", "rbTodo", "rbDone"}
LEMMA RebaseStopIs ==
  ASSUME NEW run \in LineType, NEW i \in 1 .. Len(run.todo), NEW c \in CommitType
  PROVE  /\ RebaseStop(run, i, c) \in Seq(WriteType)
         /\ \A w \in Range(RebaseStop(run, i, c)) : w.f \in RebaseFiles \cup {"rbMessage", "message", "rebase"} /\ (w.f = "rbOrig" => w.v = <<run.orig>>)
         /\ \A f, x : f \notin RebaseFiles \cup {"rbMessage", "message", "rebase"} => Late(RebaseStop(run, i, c), f, x) = x
         /\ \A x : /\ Late(RebaseStop(run, i, c), "rbOrig", x) = <<run.orig>>
                   /\ Late(RebaseStop(run, i, c), "rbOnto", x) = <<Upstream>>
                   /\ Late(RebaseStop(run, i, c), "rbTodo", x) = <<SubSeq(run.todo, i + 1, Len(run.todo))>>
                   /\ Late(RebaseStop(run, i, c), "rbDone", x) = <<run.done \o SubSeq(run.todo, 1, i)>>
                   /\ Late(RebaseStop(run, i, c), "rbMessage", x) = <<c>>
                   /\ Late(RebaseStop(run, i, c), "rebase", x) = <<c>>
<1>1. run.orig \in Histories /\ run.todo \in Seq(CommitType) /\ run.done \in Seq(CommitType) BY DEF LineType
<1>2. Upstream \in Histories BY HistoriesAssumption
<1>3. PICK later \in Seq(CommitType) : later = SubSeq(run.todo, i + 1, Len(run.todo))
  <2>1. PICK s \in Seq(CommitType) : s = run.todo BY <1>1
  <2>2. Len(s) \in Nat /\ i \in 1 .. Len(s) BY <2>1
  <2>3. SubSeq(s, i + 1, Len(s)) \in Seq(CommitType) BY <2>2, SubSeqProperties
  <2> QED BY <2>1, <2>3
<1>4. PICK past \in Seq(CommitType) : past = run.done \o SubSeq(run.todo, 1, i)
  <2>1. PICK s \in Seq(CommitType) : s = run.todo BY <1>1
  <2>2. Len(s) \in Nat /\ i \in 1 .. Len(s) BY <2>1
  <2>3. SubSeq(s, 1, i) \in Seq(CommitType) BY <2>2, SubSeqProperties
  <2> QED BY <1>1, <2>1, <2>3, ConcatProperties
<1>5. PICK a \in WriteType : a = W("rbOrig", <<run.orig>>) /\ a.f = "rbOrig" /\ a.v = <<run.orig>> BY <1>1, WriteIs, KindsAre, MaybeIs, FieldsAre DEF HistoryFiles
<1>6. PICK b \in WriteType : b = W("rbOnto", <<Upstream>>) /\ b.f = "rbOnto" BY <1>2, WriteIs, KindsAre, MaybeIs, FieldsAre DEF HistoryFiles
<1>7. PICK d \in WriteType : d = W("rbTodo", <<later>>) /\ d.f = "rbTodo" BY WriteIs, KindsAre, MaybeIs, FieldsAre
<1>8. PICK e \in WriteType : e = W("rbDone", <<past>>) /\ e.f = "rbDone" BY WriteIs, KindsAre, MaybeIs, FieldsAre
<1>9. PICK m \in WriteType : m = W("rbMessage", <<c>>) /\ m.f = "rbMessage" BY WriteIs, KindsAre, MaybeIs, FieldsAre
<1>10. PICK n \in WriteType : n = W("message", <<c>>) /\ n.f = "message" BY WriteIs, KindsAre, MaybeIs, FieldsAre
<1>11. PICK o \in WriteType : o = W("rebase", <<c>>) /\ o.f = "rebase" BY WriteIs, KindsAre, MaybeIs, FieldsAre
<1>12. PICK p : p = <<a, b, d, e>> OBVIOUS
<1>13. PICK q : q = <<m, n, o>> OBVIOUS
<1>14. p \in Seq(WriteType) /\ Range(p) = {a, b, d, e} /\ \A f, x : Late(p, f, x) = Put(e, f, Put(d, f, Put(b, f, Put(a, f, x)))) BY <1>12, Four
<1>15. q \in Seq(WriteType) /\ Range(q) = {m, n, o} /\ \A f, x : Late(q, f, x) = Put(o, f, Put(n, f, Put(m, f, x))) BY <1>13, Three
<1>16. RebaseStop(run, i, c) = p \o q
  <2>1. RebaseStop(run, i, c) = <<a, b, d, e, m, n, o>> BY <1>3, <1>4, <1>5, <1>6, <1>7, <1>8, <1>9, <1>10, <1>11 DEF RebaseStop
  <2> QED BY <1>12, <1>13, <2>1
<1>17. PICK s \in Seq(WriteType) : s = p \o q /\ Range(s) = Range(p) \cup Range(q) /\ \A f, x : Late(s, f, x) = Late(q, f, Late(p, f, x)) BY <1>14, <1>15, Join
<1>18. \A f, x : Late(p, f, x) = IF f = "rbOrig" THEN <<run.orig>> ELSE IF f = "rbOnto" THEN <<Upstream>> ELSE IF f = "rbTodo" THEN <<later>> ELSE IF f = "rbDone" THEN <<past>> ELSE x
  <2>1. \A f, x : Put(a, f, x) = IF f = "rbOrig" THEN <<run.orig>> ELSE x BY <1>5, PutIs
  <2>2. \A f, x : Put(b, f, x) = IF f = "rbOnto" THEN <<Upstream>> ELSE x BY <1>6, PutIs
  <2>3. \A f, x : Put(d, f, x) = IF f = "rbTodo" THEN <<later>> ELSE x BY <1>7, PutIs
  <2>4. \A f, x : Put(e, f, x) = IF f = "rbDone" THEN <<past>> ELSE x BY <1>8, PutIs
  <2> QED BY <1>14, <2>1, <2>2, <2>3, <2>4
<1>19. \A f, x : Late(q, f, x) = IF f \in {"rbMessage", "message", "rebase"} THEN <<c>> ELSE x
  <2>1. \A f, x : Put(m, f, x) = IF f = "rbMessage" THEN <<c>> ELSE x BY <1>9, PutIs
  <2>2. \A f, x : Put(n, f, x) = IF f = "message" THEN <<c>> ELSE x BY <1>10, PutIs
  <2>3. \A f, x : Put(o, f, x) = IF f = "rebase" THEN <<c>> ELSE x BY <1>11, PutIs
  <2> QED BY <1>15, <2>1, <2>2, <2>3
<1>20. \A w \in Range(s) : w.f \in RebaseFiles \cup {"rbMessage", "message", "rebase"} /\ (w.f = "rbOrig" => w.v = <<run.orig>>)
  BY <1>5, <1>6, <1>7, <1>8, <1>9, <1>10, <1>11, <1>14, <1>15, <1>17 DEF RebaseFiles
<1>21. \A f, x : f \notin RebaseFiles \cup {"rbMessage", "message", "rebase"} => Late(s, f, x) = x BY <1>17, <1>18, <1>19 DEF RebaseFiles
<1>22. \A x : /\ Late(s, "rbOrig", x) = <<run.orig>> /\ Late(s, "rbOnto", x) = <<Upstream>> /\ Late(s, "rbTodo", x) = <<later>>
              /\ Late(s, "rbDone", x) = <<past>> /\ Late(s, "rbMessage", x) = <<c>> /\ Late(s, "rebase", x) = <<c>>
  <2> TAKE x
  <2>4. \A f \in RebaseFiles : \A y : Late(q, f, y) = y BY <1>19 DEF RebaseFiles
  <2>5. \A f \in RebaseFiles : Late(s, f, x) = Late(p, f, x) BY <1>17, <2>4
  <2>2. Late(s, "rbTodo", x) = <<later>> /\ Late(s, "rbDone", x) = <<past>> BY <1>18, <2>5 DEF RebaseFiles
  <2>3. Late(s, "rbMessage", x) = <<c>> /\ Late(s, "rebase", x) = <<c>> BY <1>17, <1>18, <1>19
  <2> QED BY <1>18, <2>5, <2>2, <2>3 DEF RebaseFiles
<1> QED BY <1>3, <1>4, <1>16, <1>17, <1>20, <1>21, <1>22

LEMMA RescheduledIs ==
  ASSUME NEW run \in LineType, NEW i \in 1 .. Len(run.todo), NEW c \in CommitType
  PROVE  /\ RescheduledPick(run, i, c) \in Seq(WriteType)
         /\ \A w \in Range(RescheduledPick(run, i, c)) : w.f \in RebaseFiles \cup {"rbMessage", "rebase"} /\ (w.f = "rbOrig" => w.v = <<run.orig>>)
         /\ \A f, x : f \notin RebaseFiles \cup {"rbMessage", "rebase"} => Late(RescheduledPick(run, i, c), f, x) = x
         /\ \A x : /\ Late(RescheduledPick(run, i, c), "rbOrig", x) = <<run.orig>>
                   /\ Late(RescheduledPick(run, i, c), "rbOnto", x) = <<Upstream>>
                   /\ Late(RescheduledPick(run, i, c), "rbTodo", x) = <<SubSeq(run.todo, i, Len(run.todo))>>
                   /\ Late(RescheduledPick(run, i, c), "rbDone", x) = <<run.done \o SubSeq(run.todo, 1, i)>>
                   /\ Late(RescheduledPick(run, i, c), "rbMessage", x) = None
                   /\ Late(RescheduledPick(run, i, c), "rebase", x) = <<c>>
<1>1. run.orig \in Histories /\ run.todo \in Seq(CommitType) /\ run.done \in Seq(CommitType) BY DEF LineType
<1>2. Upstream \in Histories BY HistoriesAssumption
<1>3. PICK later \in Seq(CommitType) : later = SubSeq(run.todo, i, Len(run.todo))
  <2>1. PICK s \in Seq(CommitType) : s = run.todo BY <1>1
  <2>2. Len(s) \in Nat /\ i \in 1 .. Len(s) BY <2>1
  <2>3. SubSeq(s, i, Len(s)) \in Seq(CommitType) BY <2>2, SubSeqProperties
  <2> QED BY <2>1, <2>3
<1>4. PICK past \in Seq(CommitType) : past = run.done \o SubSeq(run.todo, 1, i)
  <2>1. PICK s \in Seq(CommitType) : s = run.todo BY <1>1
  <2>2. Len(s) \in Nat /\ i \in 1 .. Len(s) BY <2>1
  <2>3. SubSeq(s, 1, i) \in Seq(CommitType) BY <2>2, SubSeqProperties
  <2> QED BY <1>1, <2>1, <2>3, ConcatProperties
<1>5. PICK a \in WriteType : a = W("rbOrig", <<run.orig>>) /\ a.f = "rbOrig" /\ a.v = <<run.orig>> BY <1>1, WriteIs, KindsAre, MaybeIs, FieldsAre DEF HistoryFiles
<1>6. PICK b \in WriteType : b = W("rbOnto", <<Upstream>>) /\ b.f = "rbOnto" BY <1>2, WriteIs, KindsAre, MaybeIs, FieldsAre DEF HistoryFiles
<1>7. PICK d \in WriteType : d = W("rbTodo", <<later>>) /\ d.f = "rbTodo" BY WriteIs, KindsAre, MaybeIs, FieldsAre
<1>8. PICK e \in WriteType : e = W("rbDone", <<past>>) /\ e.f = "rbDone" BY WriteIs, KindsAre, MaybeIs, FieldsAre
<1>9. PICK m \in WriteType : m = W("rbMessage", None) /\ m.f = "rbMessage" BY Removal
<1>11. PICK o \in WriteType : o = W("rebase", <<c>>) /\ o.f = "rebase" BY WriteIs, KindsAre, MaybeIs, FieldsAre
<1>12. PICK p : p = <<a, b, d, e>> OBVIOUS
<1>13. PICK q : q = <<m, o>> OBVIOUS
<1>14. p \in Seq(WriteType) /\ Range(p) = {a, b, d, e} /\ \A f, x : Late(p, f, x) = Put(e, f, Put(d, f, Put(b, f, Put(a, f, x)))) BY <1>12, Four
<1>15. q \in Seq(WriteType) /\ Range(q) = {m, o} /\ \A f, x : Late(q, f, x) = Put(o, f, Put(m, f, x)) BY <1>13, Two
<1>16. RescheduledPick(run, i, c) = p \o q
  <2>1. RescheduledPick(run, i, c) = <<a, b, d, e, m, o>> BY <1>3, <1>4, <1>5, <1>6, <1>7, <1>8, <1>9, <1>11 DEF RescheduledPick
  <2> QED BY <1>12, <1>13, <2>1
<1>17. PICK s \in Seq(WriteType) : s = p \o q /\ Range(s) = Range(p) \cup Range(q) /\ \A f, x : Late(s, f, x) = Late(q, f, Late(p, f, x)) BY <1>14, <1>15, Join
<1>18. \A f, x : Late(p, f, x) = IF f = "rbOrig" THEN <<run.orig>> ELSE IF f = "rbOnto" THEN <<Upstream>> ELSE IF f = "rbTodo" THEN <<later>> ELSE IF f = "rbDone" THEN <<past>> ELSE x
  <2>1. \A f, x : Put(a, f, x) = IF f = "rbOrig" THEN <<run.orig>> ELSE x BY <1>5, PutIs
  <2>2. \A f, x : Put(b, f, x) = IF f = "rbOnto" THEN <<Upstream>> ELSE x BY <1>6, PutIs
  <2>3. \A f, x : Put(d, f, x) = IF f = "rbTodo" THEN <<later>> ELSE x BY <1>7, PutIs
  <2>4. \A f, x : Put(e, f, x) = IF f = "rbDone" THEN <<past>> ELSE x BY <1>8, PutIs
  <2> QED BY <1>14, <2>1, <2>2, <2>3, <2>4
<1>19. \A f, x : Late(q, f, x) = IF f = "rbMessage" THEN None ELSE IF f = "rebase" THEN <<c>> ELSE x
  <2>2. \A f, x : Put(o, f, x) = IF f = "rebase" THEN <<c>> ELSE x BY <1>11, PutIs
  <2> QED BY <1>9, PutIs, <1>15, <2>2
<1>20. \A w \in Range(s) : w.f \in RebaseFiles \cup {"rbMessage", "rebase"} /\ (w.f = "rbOrig" => w.v = <<run.orig>>)
  BY <1>5, <1>6, <1>7, <1>8, <1>9, <1>11, <1>14, <1>15, <1>17 DEF RebaseFiles
<1>21. \A f, x : f \notin RebaseFiles \cup {"rbMessage", "rebase"} => Late(s, f, x) = x BY <1>17, <1>18, <1>19 DEF RebaseFiles
<1>22. \A x : /\ Late(s, "rbOrig", x) = <<run.orig>> /\ Late(s, "rbOnto", x) = <<Upstream>> /\ Late(s, "rbTodo", x) = <<later>>
              /\ Late(s, "rbDone", x) = <<past>> /\ Late(s, "rbMessage", x) = None /\ Late(s, "rebase", x) = <<c>>
  <2>1. \A f, x : Late(s, f, x) = Late(q, f, Late(p, f, x)) BY <1>17
  <2>2. \A x : /\ Late(p, "rbOrig", x) = <<run.orig>> /\ Late(p, "rbOnto", x) = <<Upstream>>
               /\ Late(p, "rbTodo", x) = <<later>> /\ Late(p, "rbDone", x) = <<past>>
    BY ONLY <1>18
  <2>3. \A x : /\ \A f \in RebaseFiles : Late(q, f, x) = x
               /\ Late(q, "rbMessage", x) = None /\ Late(q, "rebase", x) = <<c>>
    BY ONLY <1>19 DEF RebaseFiles
  <2> QED BY ONLY <2>1, <2>2, <2>3 DEF RebaseFiles
<1> QED BY <1>3, <1>4, <1>16, <1>17, <1>20, <1>21, <1>22

\* The branch moves, HEAD is attached again, the state goes, the autostash comes back.
Finishes(h, stash, ws) ==
  \E b \in Seq(WriteType) :
    /\ ws = <<W("branch", h)>> \o b
    /\ Range(b) \subseteq {W("head", None), W("rebase-merge", None), W("rebase", None), W("restore", stash[1]), W("push", stash[1]),
                           W("index", Unmerged(Tree(h), Tree(h), "stash"))}
    /\ Saves(b, Held(stash))
    /\ \A f \in Fields : \A x : f # "index" => Late(b, f, x) = IF f \in {"head", "rebase"} \cup RebaseDir THEN None ELSE x
    /\ \A x : Late(b, "index", x) \in {x, Unmerged(Tree(h), Tree(h), "stash")}
LEMMA FinishIs ==
  ASSUME NEW h \in Histories, NEW stash \in Maybe(SUBSET Locals), NEW outcome \in ApplyOutcomes
  PROVE  Finishes(h, stash, FinishRebase(h, stash, outcome)) /\ FinishRebase(h, stash, outcome) \in Seq(WriteType)
<1>0. PICK t \in SUBSET Patches : t = Tree(h) BY HistoryIs
<1>1. PICK p \in WriteType : p = W("branch", h) BY WriteIs, KindsAre, FieldsAre
<1>2. PICK q \in WriteType : q = W("head", None) BY Removal
<1>3. PICK r \in WriteType : r = W("rebase-merge", None) BY Removal
<1>4. PICK s \in WriteType : s = W("rebase", None) BY Removal
<1>5. PICK c : c = IF stash = None THEN <<>> ELSE ApplyAutostash(stash[1], outcome, t) OBVIOUS
<1>6. /\ c \in Seq(WriteType) /\ Saves(c, Held(stash))
      /\ Range(c) \subseteq {W("restore", stash[1]), W("push", stash[1]), W("index", Unmerged(t, t, "stash"))}
      /\ \A f \in Fields : \A x : f # "index" => Late(c, f, x) = x
      /\ \A x : Late(c, "index", x) \in {x, Unmerged(t, t, "stash")}
  <2>1. CASE stash = None
    <3>1. Held(stash) = {} BY <2>1 DEF Held
    <3>2. c = <<>> BY <1>5, <2>1
    <3> QED BY <3>1, <3>2, NoneIs, SavesNothing
  <2>2. CASE stash # None
    <3>1. stash[1] \in SUBSET Locals /\ Held(stash) = stash[1] BY <2>2, MaybeIs DEF Held
    <3>2. c = ApplyAutostash(stash[1], outcome, t) BY <1>5, <2>2
    <3> QED BY <3>1, <3>2, ApplyIs, ZenonT(40)
  <2> QED BY <2>1, <2>2
<1>7. PICK a : a = <<q, r, s>> OBVIOUS
<1>8. a \in Seq(WriteType) /\ Range(a) = {q, r, s} /\ \A f, x : Late(a, f, x) = Put(s, f, Put(r, f, Put(q, f, x))) BY <1>7, Three
<1>9. \A f, x : Late(a, f, x) = IF f \in {"head", "rebase"} \cup RebaseDir THEN None ELSE x BY <1>2, <1>3, <1>4, <1>8, PutIs DEF RebaseDir
<1>10. PICK b \in Seq(WriteType) : b = a \o c /\ Range(b) = Range(a) \cup Range(c) /\ \A f, x : Late(b, f, x) = Late(c, f, Late(a, f, x)) BY <1>6, <1>8, Join
<1>11. FinishRebase(h, stash, outcome) = <<p>> \o b /\ <<p>> \o b \in Seq(WriteType)
  <2>1. FinishRebase(h, stash, outcome) = <<p, q>> \o <<r, s>> \o c BY <1>0, <1>1, <1>2, <1>3, <1>4, <1>5 DEF FinishRebase
  <2>2. <<p, q>> \o <<r, s>> = <<p>> \o a BY <1>7
  <2>3. PICK d : d = <<p>> OBVIOUS
  <2>4. d \in Seq(WriteType) BY <2>3
  <2>5. (d \o a) \o c = d \o (a \o c) BY <1>6, <1>8, <2>4, ConcatAssociative, SMTT(30)
  <2>6. d \o b \in Seq(WriteType) BY <2>4, Join
  <2> QED BY <1>10, <2>1, <2>2, <2>3, <2>5, <2>6
<1>12. Saves(b, Held(stash)) BY <1>6, <1>8, <1>10, SavesJoin
<1>13. Range(b) \subseteq {W("head", None), W("rebase-merge", None), W("rebase", None), W("restore", stash[1]), W("push", stash[1]), W("index", Unmerged(t, t, "stash"))}
  BY <1>2, <1>3, <1>4, <1>6, <1>8, <1>10
<1>14. \A f \in Fields : \A x : f # "index" => Late(b, f, x) = IF f \in {"head", "rebase"} \cup RebaseDir THEN None ELSE x BY <1>6, <1>9, <1>10
<1>15. \A x : Late(b, "index", x) \in {x, Unmerged(t, t, "stash")} BY <1>6, <1>9, <1>10 DEF RebaseDir
<1> QED BY <1>0, <1>1, <1>11, <1>12, <1>13, <1>14, <1>15 DEF Finishes

------------------------------
(* Replaying a list of commits. *)

AccType == [h : Histories, ws : Seq(WriteType), dropped : SUBSET Int, stopped : BOOLEAN]

LEMMA FreshIs ==
  ASSUME NEW h \in Histories
  PROVE  Fresh(h) \in AccType /\ Fresh(h).h = h /\ Fresh(h).ws = <<>> /\ Fresh(h).dropped = {} /\ ~Fresh(h).stopped
<1>1. <<>> \in Seq(WriteType) OBVIOUS
<1> QED BY <1>1 DEF Fresh, AccType

LEMMA AccIs ==
  ASSUME NEW a \in AccType
  PROVE  a.h \in Histories /\ a.ws \in Seq(WriteType) /\ a.dropped \in SUBSET Int /\ a.stopped \in BOOLEAN
BY DEF AccType

LEMMA AccStop ==
  ASSUME NEW a \in AccType, NEW ws \in Seq(WriteType), NEW r, r = [a EXCEPT !.stopped = TRUE, !.ws = ws]
  PROVE  r \in AccType /\ r.h = a.h /\ r.ws = ws /\ r.dropped = a.dropped /\ r.stopped = TRUE
BY DEF AccType

LEMMA AccDrop ==
  ASSUME NEW a \in AccType, NEW gone \in SUBSET Int, NEW r, r = [a EXCEPT !.dropped = gone]
  PROVE  r \in AccType /\ r.h = a.h /\ r.ws = a.ws /\ r.dropped = gone /\ r.stopped = a.stopped
BY DEF AccType

LEMMA ReplayedIs ==
  ASSUME NEW op \in {"pick", "revert"}, NEW s \in Sources, NEW t \in SUBSET Patches
  PROVE  Replayed(op, s, t) \in SUBSET Patches /\ (op = "pick" => t \subseteq Replayed(op, s, t))
<1>1. Adds[s] \subseteq Patches BY DEF Patches
<1> QED BY <1>1 DEF Replayed, Changed, AddOf, DelOf

\* A commit or a conflict that a cherry-pick or revert meets writes the index, the
\* marker and the message.
StopType(run, s) == {w \in WriteType : \/ w.f = "index" /\ w.v.unmerged = run.op
                                       \/ w.f \in {run.op, "message"} /\ w.v = <<s>>}
Stops(run, s, a) ==
  /\ a \in Seq(WriteType) /\ Range(a) \subseteq StopType(run, s)
  /\ a = <<>> \/ (a # <<>> /\ \A x : Late(a, run.op, x) = <<s>>)

LEMMA StopWrites ==
  ASSUME NEW run \in RunType, NEW s \in Sources, NEW t \in SUBSET Patches, NEW i \in IndexType, i.unmerged = run.op
  PROVE  /\ Stops(run, s, <<>>)
         /\ Stops(run, s, PersistStop(run.op, s))
         /\ Stops(run, s, <<W("index", i)>> \o PersistStop(run.op, s))
<1>1. run.op \in {"pick", "revert"} BY DEF RunType
<1>2. Stops(run, s, <<>>) BY NoneIs DEF Stops
<1>3. PICK p : p = PersistStop(run.op, s) OBVIOUS
<1>4. /\ p \in Seq(WriteType) /\ Range(p) = {W(run.op, <<s>>), W("message", <<s>>)}
      /\ \A x : Late(p, run.op, x) = <<s>>
  BY <1>1, <1>3, PersistStopIs
<1>5. Range(p) \subseteq StopType(run, s)
  <2>1. \A w \in Range(p) : w \in WriteType BY <1>4, RangeOfSeq
  <2> QED BY <1>4, <2>1 DEF StopType, W
<1>6. p # <<>> BY <1>4, NoneIs
<1>7. PICK w \in WriteType : w = W("index", i) /\ w.f = "index" /\ w.v = i BY IndexWrite
<1>8. PICK o \in Seq(WriteType) : o = <<w>> /\ Range(o) = {w} BY One
<1>9. o \o p \in Seq(WriteType) /\ Range(o \o p) = Range(o) \cup Range(p) /\ \A f, x : Late(o \o p, f, x) = Late(p, f, Late(o, f, x)) BY <1>4, Join
<1>10. Range(o \o p) \subseteq StopType(run, s)
  <2>1. w \in StopType(run, s) BY <1>7 DEF StopType
  <2> QED BY <1>5, <1>8, <1>9, <2>1
<1>12. o \o p # <<>>
  <2>1. Range(o \o p) # {} BY <1>8, <1>9
  <2> QED BY <2>1, NoneIs
<1>13. Stops(run, s, p) BY <1>4, <1>5, <1>6 DEF Stops
<1>14. Stops(run, s, o \o p) BY <1>4, <1>9, <1>10, <1>12 DEF Stops
<1> QED BY <1>2, <1>3, <1>7, <1>8, <1>13, <1>14

\* What replaying one commit does.
ReplayStops(run, acc, s, rest, r) ==
  /\ r.stopped /\ r.h = acc.h /\ r.dropped = acc.dropped
  /\ \E a : Stops(run, s, a) /\ r.ws = acc.ws \o a \o SequencerStop(run, rest, acc.h)
ReplayDrops(run, acc, rest, first, r) ==
  /\ run.onEmpty = "drop" /\ first /\ ~r.stopped /\ r.h = acc.h /\ r.ws = acc.ws
  /\ r.dropped = acc.dropped \cup {Len(rest) - 1}
ReplayCommits(acc, s, r) ==
  /\ ~r.stopped /\ r.dropped = acc.dropped
  /\ \E c \in CommitType : c.src = s /\ r.h = Append(acc.h, c)
  /\ \E t \in SUBSET Patches : r.ws = acc.ws \o <<W("index", Clean(t)), MoveHead(r.h)>>

LEMMA ReplayOneIs ==
  ASSUME RepoOK(repo), NEW run \in RunType, NEW acc \in AccType, NEW s \in Sources, NEW rest \in Seq(Sources), NEW first \in BOOLEAN,
         NEW r, r = ReplayOne(run, acc, s, rest, first)
  PROVE  /\ r \in AccType
         /\ \/ acc.stopped /\ r = acc
            \/ ~acc.stopped /\ ReplayStops(run, acc, s, rest, r)
            \/ ~acc.stopped /\ ReplayDrops(run, acc, rest, first, r)
            \/ ~acc.stopped /\ ReplayCommits(acc, s, r)
<1> DEFINE t == Tree(acc.h)
           new == Replayed(run.op, s, t)
           stop == SequencerStop(run, rest, acc.h)
<1>1. run.op \in {"pick", "revert"} /\ acc.h \in Histories /\ acc.ws \in Seq(WriteType) /\ acc.dropped \in SUBSET Int BY DEF RunType, AccType
<1>2. t \in SUBSET Patches BY <1>1, HistoryIs
<1>3. new \in SUBSET Patches /\ (run.op = "pick" => t \subseteq new)
  <2> HIDE DEF t
  <2> QED BY <1>1, <1>2, ReplayedIs
<1>4. stop \in Seq(WriteType) BY <1>1, SequencerStopIs
<1>5. PICK i \in IndexType : i = Unmerged(t, new, run.op) /\ i.unmerged = run.op
  <2> HIDE DEF t, new
  <2> QED BY <1>1, <1>2, <1>3, UnmergedIs
<1>6. ASSUME NEW a, Stops(run, s, a), r = [acc EXCEPT !.stopped = TRUE, !.ws = @ \o a \o stop], ~acc.stopped
      PROVE  r \in AccType /\ ReplayStops(run, acc, s, rest, r)
  <2>1. PICK ws \in Seq(WriteType) : ws = acc.ws \o a \o stop BY <1>1, <1>4, <1>6, ConcatProperties DEF Stops
  <2>2. r = [acc EXCEPT !.stopped = TRUE, !.ws = ws] BY <1>6, <2>1
  <2>3. r \in AccType /\ r.h = acc.h /\ r.ws = ws /\ r.dropped = acc.dropped /\ r.stopped = TRUE BY <2>2, AccStop, ZenonT(40)
  <2> QED BY <1>6, <2>1, <2>3 DEF ReplayStops
<1>7. CASE acc.stopped
  <2>1. r = acc BY <1>7 DEF ReplayOne
  <2> QED BY <1>7, <2>1
<1>8. CASE ~acc.stopped /\ s \in Merges
  <2>2. Stops(run, s, <<>>) BY NoneIs DEF Stops
  <2> QED BY <1>6, <1>8, <2>2 DEF ReplayOne
<1>9. CASE ~acc.stopped /\ s \notin Merges /\ Conflicts(run.op, s, t)
  <2>2. Stops(run, s, <<W("index", i)>> \o PersistStop(run.op, s)) BY <1>2, <1>5, StopWrites
  <2> QED BY <1>5, <1>6, <1>9, <2>2 DEF ReplayOne
<1>10. CASE ~acc.stopped /\ s \notin Merges /\ ~Conflicts(run.op, s, t) /\ new = t /\ ~run.allowEmpty
  <2>1. CASE run.op = "pick"
    <3>2. Stops(run, s, PersistStop(run.op, s)) BY <1>2, <1>5, StopWrites
    <3> QED BY <2>1, <1>6, <1>10, <3>2 DEF ReplayOne
  <2>2. CASE run.op # "pick" /\ run.onEmpty = "drop" /\ first
    <3>2. PICK gone \in SUBSET Int : gone = acc.dropped \cup {Len(rest) - 1}
      <4>1. Len(rest) \in Nat BY LenProperties
      <4>2. Len(rest) - 1 \in Int BY <4>1
      <4> QED BY <1>1, <4>2
    <3>3. r = [acc EXCEPT !.dropped = gone] BY <1>10, <2>2, <3>2 DEF ReplayOne
    <3>4. r \in AccType /\ r.h = acc.h /\ r.ws = acc.ws /\ r.dropped = gone /\ r.stopped = acc.stopped BY <3>3, AccDrop, SMTT(30)
    <3> QED BY <1>10, <2>2, <3>2, <3>4 DEF ReplayDrops
  <2>3. CASE run.op # "pick" /\ ~(run.onEmpty = "drop" /\ first)
    <3>2. Stops(run, s, <<>>) BY NoneIs DEF Stops
    <3> QED BY <2>3, <1>6, <1>10, <3>2 DEF ReplayOne
  <2> QED BY <2>1, <2>2, <2>3
<1>11. CASE ~acc.stopped /\ s \notin Merges /\ ~Conflicts(run.op, s, t) /\ ~(new = t /\ ~run.allowEmpty)
  <2>1. PICK c \in CommitType : c = Commit(run.op, s, acc.h, new) /\ c.src = s
    <3> HIDE DEF t, new
    <3> QED BY <1>1, <1>3, CommitIs
  <2>2. PICK h \in Histories : h = Append(acc.h, c) BY <1>1, HistoryIs
  <2>3. PICK w \in WriteType : w = W("index", Clean(new)) BY <1>3, CleanIs, IndexWrite
  <2>4. PICK m \in WriteType : m = MoveHead(h) BY MoveHeadIs
  <2>6. PICK ws \in Seq(WriteType) : ws = acc.ws \o <<w, m>>
    <3>1. PICK p : p = <<w, m>> OBVIOUS
    <3>2. p \in Seq(WriteType) BY <3>1
    <3> QED BY <1>1, <3>1, <3>2, ConcatProperties
  <2>7. r = [acc EXCEPT !.h = h, !.ws = ws] BY <1>11, <2>1, <2>2, <2>3, <2>4, <2>6 DEF ReplayOne
  <2>8. r \in AccType /\ r.h = h /\ r.ws = ws /\ r.dropped = acc.dropped /\ r.stopped = acc.stopped BY <2>7 DEF AccType
  <2>9. \E x \in SUBSET Patches : r.ws = acc.ws \o <<W("index", Clean(x)), MoveHead(r.h)>> BY <1>3, <2>3, <2>4, <2>6, <2>8
  <2> QED BY <1>11, <2>1, <2>2, <2>8, <2>9 DEF ReplayCommits
<1> QED BY <1>7, <1>8, <1>9, <1>10, <1>11

\* The recursion over the list is well founded.
LEMMA ReplaysAre ==
  ASSUME RepoOK(repo), NEW run \in RunType, NEW todo \in Seq(Sources), NEW h \in Histories, NEW n \in Nat, n = Len(todo),
         NEW acc, acc = Replays(run, todo, h)
  PROVE  /\ acc \in [0 .. n -> AccType] /\ acc[0] = Fresh(h)
         /\ \A i \in 1 .. n : acc[i] = ReplayOne(run, acc[i - 1], todo[i], SubSeq(todo, i, n), i = 1)
<1> DEFINE Step(i, a) == ReplayOne(run, a, todo[i], SubSeq(todo, i, n), i = 1)
           step == [p \in (1 .. n) \X AccType |-> Step(p[1], p[2])]
           Fits(f) == f = [i \in 0 .. n |-> IF i = 0 THEN Fresh(h) ELSE Step(i, f[i - 1])]
<1>1. ASSUME NEW i \in 1 .. n, NEW a \in AccType PROVE Step(i, a) \in AccType
  <2>1. todo[i] \in Sources BY ElementOfSeq
  <2>2. PICK rest : rest = SubSeq(todo, i, n) OBVIOUS
  <2>3. rest \in Seq(Sources)
    <3>1. \A k \in i .. n : todo[k] \in Sources BY ElementOfSeq
    <3> QED BY <2>2, <3>1, SubSeqProperties
  <2>4. PICK b \in BOOLEAN : b = (i = 1) OBVIOUS
  <2>5. PICK r : r = ReplayOne(run, a, todo[i], rest, b) OBVIOUS
  <2>6. r \in AccType BY <2>1, <2>3, <2>5, ReplayOneIs
  <2> QED BY <2>2, <2>4, <2>5, <2>6
<1>2. Fresh(h) \in AccType BY FreshIs
<1>3. step \in [(1 .. n) \X AccType -> AccType]
  <2> HIDE DEF Step
  <2> QED BY <1>1
<1>4. PICK f \in [0 .. n -> AccType] : f[0] = Fresh(h) /\ \A i \in 1 .. n : f[i] = step[<<i, f[i - 1]>>]
  <2> HIDE DEF step
  <2>1. PICK b \in AccType : b = Fresh(h) BY <1>2
  <2>2. \E f \in [0 .. n -> AccType] : f[0] = b /\ \A i \in 1 .. n : f[i] = step[<<i, f[i - 1]>>]
    <3>1. step \in StepMaps(n, AccType) BY <1>3 DEF StepMaps
    <3>2. StepsTaken(n, AccType, b, step) BY <3>1, Recursion
    <3> QED BY <3>2 DEF StepsTaken
  <2> QED BY <2>1, <2>2
<1>5. Fits(f)
  <2>1. ASSUME NEW i \in 1 .. n PROVE f[i] = Step(i, f[i - 1])
    <3>1. i - 1 \in 0 .. n OBVIOUS
    <3>2. f[i - 1] \in AccType BY <3>1
    <3>3. PICK p : p = <<i, f[i - 1]>> OBVIOUS
    <3>4. p \in (1 .. n) \X AccType /\ p[1] = i /\ p[2] = f[i - 1] BY <3>2, <3>3
    <3>5. step[p] = Step(p[1], p[2])
      <4> HIDE DEF Step
      <4> QED BY <3>4
    <3> HIDE DEF step, Step
    <3> QED BY <1>4, <3>3, <3>4, <3>5
  <2>2. \A i \in 0 .. n : f[i] = IF i = 0 THEN Fresh(h) ELSE Step(i, f[i - 1])
    <3> HIDE DEF Step
    <3> QED BY <1>4, <2>1
  <2> HIDE DEF Step
  <2> QED BY <2>2
<1>6. acc = CHOOSE f2 : Fits(f2) BY DEF Replays
<1>7. Fits(acc)
  <2> HIDE DEF Fits
  <2> QED BY <1>5, <1>6
<1>8. acc[0] = Fresh(h) /\ (\A i \in 1 .. n : acc[i] = Step(i, acc[i - 1])) /\ acc = [i \in 0 .. n |-> acc[i]]
  <2> HIDE DEF Step
  <2> USE DEF Fits
  <2>1. 0 \in 0 .. n /\ (\A i \in 1 .. n : i \in 0 .. n /\ i # 0) OBVIOUS
  <2>3. DOMAIN acc = 0 .. n BY <1>7
  <2>4. acc = [i \in 0 .. n |-> acc[i]] BY <1>7, <2>3
  <2> QED BY <1>7, <2>1, <2>4
<1>9. \A i \in 0 .. n : acc[i] \in AccType
  <2> DEFINE T == {i \in 0 .. n : acc[i] \in AccType}
  <2>1. 0 \in T BY <1>2, <1>8
  <2>2. ASSUME NEW i \in 0 .. n - 1, i \in T PROVE i + 1 \in T
    <3>1. i + 1 \in 1 .. n /\ i + 1 \in 0 .. n /\ (i + 1) - 1 = i OBVIOUS
    <3>2. acc[i] \in AccType BY <2>2
    <3>3. acc[i + 1] = Step(i + 1, acc[i]) BY <1>8, <3>1
    <3>4. Step(i + 1, acc[i]) \in AccType BY <1>1, <3>1, <3>2
    <3> QED BY <3>1, <3>3, <3>4
  <2>3. \A i \in 0 .. n : i \in T
    <3> HIDE DEF T
    <3> QED BY <2>1, <2>2, UpTo
  <2> QED BY <2>3
<1> QED BY <1>8, <1>9

\* History g is h with m commits of the list on top, but for the first d of them.
Carries(g, h, todo, d, m) ==
  /\ g \in Histories /\ Len(g) = Len(h) + m - d
  /\ \A j \in 1 .. Len(h) : g[j] = h[j]
  /\ \A j \in 1 .. m - d : g[Len(h) + j].src = todo[d + j]

Advance == {w \in WriteType : w.f = "branch" \/ (w.f = "index" /\ w.v.unmerged = "no")}

\* The replay has made m commits of the list, by the writes adv.
At(run, todo, n, h, A, adv, d, m) ==
  /\ adv \in Seq(WriteType) /\ Range(adv) \subseteq Advance /\ Late(adv, "branch", h) = A.h
  /\ m = 0 => adv = <<>>
  /\ d \in {0, 1} /\ d <= m
  /\ d = 0 => A.dropped = {}
  /\ d = 1 => A.dropped = {n - 1} /\ run.onEmpty = "drop"
  /\ Carries(A.h, h, todo, d, m)
Going(run, todo, n, h, A, i) == ~A.stopped /\ \E adv, d : At(run, todo, n, h, A, adv, d, i) /\ A.ws = adv
Halted(run, todo, n, h, A, i) ==
  /\ A.stopped
  /\ \E adv, d, a : \E m \in 0 .. i - 1 :
       /\ At(run, todo, n, h, A, adv, d, m)
       /\ Stops(run, todo[m + 1], a)
       /\ A.ws = adv \o a \o SequencerStop(run, SubSeq(todo, m + 1, n), A.h)

LEMMA CarriesOne ==
  ASSUME NEW g \in Histories, NEW h \in Histories, NEW n \in Nat, NEW todo \in Seq(Sources), n = Len(todo), NEW m \in 0 .. n - 1, NEW d \in {0, 1}, d <= m,
         NEW c \in CommitType, c.src = todo[m + 1], Carries(g, h, todo, d, m)
  PROVE  Carries(Append(g, c), h, todo, d, m + 1)
<1>1. PICK k \in Nat : k = Len(h) /\ Len(g) \in Nat BY HistoryIs
<1>2. Len(g) = k + m - d /\ (\A j \in 1 .. k : g[j] = h[j]) /\ (\A j \in 1 .. m - d : g[k + j].src = todo[d + j]) BY <1>1 DEF Carries
<1>3. PICK p : p = Append(g, c) OBVIOUS
<1>4. p \in Histories /\ g \in Seq(CommitType) BY <1>3, HistoryIs
<1>5. Len(p) = Len(g) + 1 /\ (\A i \in 1 .. Len(g) : p[i] = g[i]) /\ p[Len(g) + 1] = c BY <1>3, <1>4, AppendProperties
<1>6. Len(p) = k + (m + 1) - d BY <1>1, <1>2, <1>5
<1>7. \A j \in 1 .. k : p[j] = h[j]
  <2>1. \A j \in 1 .. k : j \in 1 .. Len(g) BY <1>1, <1>2
  <2> QED BY <1>2, <1>5, <2>1
<1>8. ASSUME NEW j \in 1 .. (m + 1) - d PROVE p[k + j].src = todo[d + j]
  <2>1. CASE j = (m + 1) - d
    <3>2. d \in Int /\ m \in Int OBVIOUS
    <3>3. Len(g) + 1 = k + j BY <1>1, <1>2, <2>1, <3>2, SMTT(30)
    <3>4. d + j = m + 1 BY <2>1, <3>2
    <3>1. k + j = Len(g) + 1 /\ d + j = m + 1 BY <3>3, <3>4
    <3> QED BY <1>5, <3>1
  <2>2. CASE j # (m + 1) - d
    <3>1. j \in 1 .. m - d /\ k + j \in 1 .. Len(g) BY <1>1, <1>2, <2>2
    <3> QED BY <1>2, <1>5, <3>1
  <2> QED BY <2>1, <2>2
<1> QED BY <1>1, <1>3, <1>4, <1>6, <1>7, <1>8 DEF Carries

\* Up to the first that stops it, every commit of the list is made.
LEMMA ReplayStep ==
  ASSUME RepoOK(repo), repo.head = None, NEW run \in RunType, NEW todo \in Seq(Sources), NEW h \in Histories, NEW n \in Nat, n = Len(todo),
         NEW m \in 0 .. n - 1, NEW A \in AccType, NEW r, r = ReplayOne(run, A, todo[m + 1], SubSeq(todo, m + 1, n), m + 1 = 1),
         Going(run, todo, n, h, A, m) \/ Halted(run, todo, n, h, A, m)
  PROVE  Going(run, todo, n, h, r, m + 1) \/ Halted(run, todo, n, h, r, m + 1)
<1>1. PICK s \in Sources : s = todo[m + 1]
  <2>1. m + 1 \in 1 .. n OBVIOUS
  <2> QED BY <2>1, ElementOfSeq
<1>2. PICK rest \in Seq(Sources) : rest = SubSeq(todo, m + 1, n) /\ Len(rest) = n - m
  <2>2. \A k \in m + 1 .. n : todo[k] \in Sources BY ElementOfSeq
  <2>4. PICK l \in Int : l = m + 1 /\ l <= n /\ n - l + 1 = n - m OBVIOUS
  <2>5. \A k \in l .. n : todo[k] \in Sources BY <2>2, <2>4
  <2>6. SubSeq(todo, l, n) \in Seq(Sources) /\ Len(SubSeq(todo, l, n)) = IF l <= n THEN n - l + 1 ELSE 0 BY <2>5, SubSeqProperties
  <2> QED BY <2>4, <2>6
<1>3. PICK first \in BOOLEAN : first = (m + 1 = 1) OBVIOUS
<1>4. /\ r \in AccType
      /\ \/ A.stopped /\ r = A
         \/ ~A.stopped /\ ReplayStops(run, A, s, rest, r)
         \/ ~A.stopped /\ ReplayDrops(run, A, rest, first, r)
         \/ ~A.stopped /\ ReplayCommits(A, s, r)
  <2>1. r = ReplayOne(run, A, s, rest, first) BY <1>1, <1>2, <1>3
  <2> QED BY <2>1, ReplayOneIs
<1>5. CASE A.stopped /\ r = A
  <2>1. Halted(run, todo, n, h, A, m) BY <1>5 DEF Going
  <2>2. \A k \in 0 .. m - 1 : k \in 0 .. (m + 1) - 1 OBVIOUS
  <2> QED BY <1>5, <2>1, <2>2 DEF Halted
<1>6. ASSUME ~A.stopped PROVE \E adv, d : At(run, todo, n, h, A, adv, d, m) /\ A.ws = adv BY <1>6 DEF Going, Halted
<1>7. CASE ~A.stopped /\ ReplayStops(run, A, s, rest, r)
  <2>1. PICK adv, d : At(run, todo, n, h, A, adv, d, m) /\ A.ws = adv BY <1>6, <1>7
  <2>2. PICK a : Stops(run, s, a) /\ r.ws = A.ws \o a \o SequencerStop(run, rest, A.h) BY <1>7 DEF ReplayStops
  <2>3. r.stopped /\ r.h = A.h /\ r.dropped = A.dropped BY <1>7 DEF ReplayStops
  <2>4. At(run, todo, n, h, r, adv, d, m) BY <2>1, <2>3 DEF At
  <2>5. m \in 0 .. (m + 1) - 1 OBVIOUS
  <2>6. r.ws = adv \o a \o SequencerStop(run, SubSeq(todo, m + 1, n), r.h) BY <1>2, <2>1, <2>2, <2>3
  <2>7. Stops(run, todo[m + 1], a) BY <1>1, <2>2
  <2> QED BY <2>3, <2>4, <2>5, <2>6, <2>7 DEF Halted
<1>8. CASE ~A.stopped /\ ReplayDrops(run, A, rest, first, r)
  <2>1. PICK adv, d : At(run, todo, n, h, A, adv, d, m) /\ A.ws = adv BY <1>6, <1>8
  <2>2. m = 0
    <3>1. first BY <1>8 DEF ReplayDrops
    <3>2. m + 1 = 1 BY <1>3, <3>1
    <3> QED BY <3>2
  <2>3. d = 0 BY <2>1, <2>2 DEF At
  <2>4. ~r.stopped /\ r.h = A.h /\ r.ws = adv /\ r.dropped = {n - 1} /\ run.onEmpty = "drop"
    <3>1. A.dropped = {} BY <2>1, <2>3 DEF At
    <3>2. Len(rest) - 1 = n - 1 BY <1>2, <2>2
    <3> QED BY <1>8, <2>1, <3>1, <3>2 DEF ReplayDrops
  <2>5. Carries(r.h, h, todo, 1, 1)
    <3>1. Carries(A.h, h, todo, 0, 0) BY <2>1, <2>2, <2>3 DEF At
    <3>2. Len(h) \in Nat BY HistoryIs
    <3> QED BY <2>4, <3>1, <3>2 DEF Carries
  <2>6. At(run, todo, n, h, r, adv, 1, 1) BY <2>1, <2>4, <2>5 DEF At
  <2> QED BY <2>2, <2>4, <2>6 DEF Going
<1>9. CASE ~A.stopped /\ ReplayCommits(A, s, r)
  <2>1. PICK adv, d : At(run, todo, n, h, A, adv, d, m) /\ A.ws = adv BY <1>6, <1>9
  <2>2. PICK c \in CommitType : c.src = s /\ r.h = Append(A.h, c) BY <1>9 DEF ReplayCommits
  <2>3. PICK t \in SUBSET Patches : r.ws = A.ws \o <<W("index", Clean(t)), MoveHead(r.h)>> BY <1>9 DEF ReplayCommits
  <2>4. r.h \in Histories /\ A.h \in Histories BY <1>4, AccIs
  <2>5. PICK v \in WriteType : v = W("index", Clean(t)) /\ v \in Advance
    <3> QED BY IndexWrite, CleanIs DEF Advance
  <2>6. PICK w \in WriteType : w = MoveHead(r.h) /\ w = W("branch", r.h) /\ w \in Advance
    <3>2. W("branch", r.h).f = "branch" BY DEF W
    <3> QED BY <2>4, MoveHeadIs, <3>2 DEF Advance
  <2>7. PICK q : q = <<v, w>> OBVIOUS
  <2>8. q \in Seq(WriteType) /\ Range(q) = {v, w} /\ \A f, x : Late(q, f, x) = Put(w, f, Put(v, f, x)) BY <2>7, Two
  <2>9. adv \in Seq(WriteType) /\ Range(adv) \subseteq Advance BY <2>1 DEF At
  <2>10. PICK next \in Seq(WriteType) : next = adv \o q /\ Range(next) = Range(adv) \cup Range(q) /\ \A f, x : Late(next, f, x) = Late(q, f, Late(adv, f, x)) BY <2>8, <2>9, Join
  <2>11. Late(next, "branch", h) = r.h
    <3>1. \A x : Put(w, "branch", x) = r.h BY <2>6, PutIs
    <3> QED BY <2>8, <2>10, <3>1
  <2>12. Range(next) \subseteq Advance BY <2>5, <2>6, <2>8, <2>9, <2>10
  <2>13. d \in {0, 1} /\ d <= m /\ Carries(A.h, h, todo, d, m) BY <2>1 DEF At
  <2>14. Carries(r.h, h, todo, d, m + 1)
    <3>1. PICK g \in Histories : g = A.h BY <2>4
    <3>3. d \in {0, 1} /\ d <= m BY <2>13
    <3>4. Carries(Append(g, c), h, todo, d, m + 1) BY <1>1, <2>2, <2>13, <3>1, <3>3, CarriesOne
    <3> QED BY <2>2, <3>1, <3>4
  <2>15. r.dropped = A.dropped /\ ~r.stopped BY <1>9 DEF ReplayCommits
  <2>16. r.ws = next BY <2>1, <2>3, <2>5, <2>6, <2>7, <2>10
  <2>17. d <= m + 1 BY <2>13
  <2>19. m + 1 # 0 OBVIOUS
  <2>18. At(run, todo, n, h, r, next, d, m + 1) BY <2>19, <2>1, <2>11, <2>12, <2>14, <2>15, <2>17 DEF At
  <2> QED BY <2>15, <2>16, <2>18 DEF Going
<1> QED BY <1>4, <1>5, <1>7, <1>8, <1>9

LEMMA ReplayEnds ==
  ASSUME RepoOK(repo), repo.head = None, NEW run \in RunType, NEW todo \in Seq(Sources), NEW h \in Histories, NEW n \in Nat, n = Len(todo),
         NEW end, end = Replays(run, todo, h)[n]
  PROVE  end \in AccType /\ (Going(run, todo, n, h, end, n) \/ Halted(run, todo, n, h, end, n))
<1>1. PICK acc : acc = Replays(run, todo, h) OBVIOUS
<1>2. /\ acc \in [0 .. n -> AccType] /\ acc[0] = Fresh(h)
      /\ \A i \in 1 .. n : acc[i] = ReplayOne(run, acc[i - 1], todo[i], SubSeq(todo, i, n), i = 1)
  BY <1>1, ReplaysAre
<1> DEFINE T == {i \in 0 .. n : Going(run, todo, n, h, acc[i], i) \/ Halted(run, todo, n, h, acc[i], i)}
<1>3. 0 \in T
  <2>1. PICK F : F = Fresh(h) OBVIOUS
  <2>2. F.h = h /\ F.ws = <<>> /\ F.dropped = {} /\ ~F.stopped BY <2>1, FreshIs
  <2>3. Carries(h, h, todo, 0, 0)
    <3>1. Len(h) \in Nat BY HistoryIs
    <3> QED BY <3>1 DEF Carries
  <2>4. At(run, todo, n, h, F, <<>>, 0, 0) BY <2>2, <2>3, NoneIs DEF At
  <2>5. Going(run, todo, n, h, F, 0) BY <2>2, <2>4 DEF Going
  <2> QED BY <1>2, <2>1, <2>5
<1>4. ASSUME NEW i \in 0 .. n - 1, i \in T PROVE i + 1 \in T
  <2>1. i + 1 \in 1 .. n /\ i + 1 \in 0 .. n /\ (i + 1) - 1 = i /\ i \in 0 .. n OBVIOUS
  <2>2. PICK A \in AccType : A = acc[i] BY <1>2, <2>1
  <2>3. PICK r : r = acc[i + 1] OBVIOUS
  <2>5. Going(run, todo, n, h, A, i) \/ Halted(run, todo, n, h, A, i) BY <1>4, <2>2
  <2>6. Going(run, todo, n, h, r, i + 1) \/ Halted(run, todo, n, h, r, i + 1) BY <1>2, <2>1, <2>2, <2>3, <2>5, ReplayStep
  <2> QED BY <2>1, <2>3, <2>6
<1>5. \A i \in 0 .. n : i \in T
  <2> HIDE DEF T
  <2> QED BY <1>3, <1>4, UpTo
<1>6. n \in 0 .. n OBVIOUS
<1> QED BY <1>1, <1>2, <1>5, <1>6

\* How a list ends: it is done, it stops with its files written, or a lone commit stops.
SeqNames(op) == {"index", "branch", "message", op, "seqHead", "seqTodo", "seqSafety", "seqOpts", "sequencer"}
SeqDone(run, todo, n, end, m) ==
  /\ ~end.stopped /\ m = n
  /\ \A f \in {"pick", "revert", "message"} : \A x : Late(end.ws, f, x) = x
  /\ \A f \in SequencerDir : \A x : Late(end.ws, f, x) = IF \A g \in SequencerDir : repo[g] = None THEN x ELSE None
\* The stopped commit is in the command's marker, or the marker is as it was.
Marked(run, s, ws) == (\A x : Late(ws, run.op, x) = x) \/ \A x : Late(ws, run.op, x) = <<s>>
SeqStopped(run, todo, n, end, m) ==
  /\ end.stopped /\ m \in 0 .. n - 1 /\ run.multi
  /\ \A x : /\ Late(end.ws, "seqHead", x) = <<run.head>>
            /\ Late(end.ws, "seqTodo", x) = <<SubSeq(todo, m + 1, n)>>
  /\ Marked(run, todo[m + 1], end.ws)
SeqLone(run, todo, n, end, m) ==
  /\ end.stopped /\ m \in 0 .. n - 1 /\ ~run.multi
  /\ \A f \in SequencerDir : \A x : Late(end.ws, f, x) = x
  /\ n = 1 => (m = 0 /\ end.ws = <<>>) \/ \A x : Late(end.ws, run.op, x) = <<todo[m + 1]>>
Carried(run, todo, n, h, end, d, m) ==
  /\ d \in {0, 1} /\ d <= m /\ Carries(end.h, h, todo, d, m)
  /\ d = 0 => end.dropped = {}
  /\ d = 1 => end.dropped = {n - 1} /\ run.onEmpty = "drop"

LEMMA AdvanceIs ==
  ASSUME NEW adv \in Seq(WriteType), Range(adv) \subseteq Advance
  PROVE  \A f \in Fields \ {"index", "branch"} : \A x : Late(adv, f, x) = x
<1>1. ASSUME NEW f \in Fields \ {"index", "branch"}, NEW w \in Range(adv) PROVE ~Touches(w, f)
  <2>1. w.f \in {"index", "branch"} /\ w \in WriteType BY DEF Advance
  <2>2. Files(w.f) = {w.f} BY <2>1, FilesAre
  <2> QED BY <2>1, <2>2 DEF Touches
<1> QED BY <1>1, Unnamed

LEMMA StopsIs ==
  ASSUME NEW run \in RunType, NEW s, NEW a, Stops(run, s, a)
  PROVE  \A f \in Fields \ {"index", "message", run.op} : \A x : Late(a, f, x) = x
<1>1. a \in Seq(WriteType) /\ Range(a) \subseteq StopType(run, s) /\ run.op \in {"pick", "revert"} BY DEF Stops, RunType
<1>2. ASSUME NEW f \in Fields \ {"index", "message", run.op}, NEW w \in Range(a) PROVE ~Touches(w, f)
  <2>1. w.f \in {"index", "message", run.op} BY <1>1 DEF StopType
  <2>2. Files(w.f) = {w.f} BY <1>1, <2>1, FilesAre
  <2> QED BY <2>1, <2>2 DEF Touches
<1> QED BY <1>1, <1>2, Unnamed

LEMMA SequenceIs ==
  ASSUME RepoOK(repo), repo.head = None, NEW run \in RunType, NEW todo \in Seq(Sources), NEW h \in Histories, NEW n \in Nat, n = Len(todo),
         NEW end, end = RunSequence(run, todo, h)
  PROVE  /\ end \in AccType
         /\ \A w \in Range(end.ws) : w.f \in SeqNames(run.op) /\ (w.f = "index" => w.v.unmerged \in {"no", run.op}) /\ (w.f = "seqHead" => w.v = <<run.head>>)
         /\ \A f \in Fields \ SeqNames(run.op) : \A x : Late(end.ws, f, x) = x
         /\ Late(end.ws, "branch", h) = end.h
         /\ \E d, m : /\ Carried(run, todo, n, h, end, d, m)
                      /\ SeqDone(run, todo, n, end, m) \/ SeqStopped(run, todo, n, end, m) \/ SeqLone(run, todo, n, end, m)
<1>0. run.op \in {"pick", "revert"} /\ run.multi \in BOOLEAN BY DEF RunType
<1>1. PICK e : e = Replays(run, todo, h)[n] OBVIOUS
<1>2. e \in AccType /\ (Going(run, todo, n, h, e, n) \/ Halted(run, todo, n, h, e, n)) BY <1>1, ReplayEnds
<1>3. CASE Going(run, todo, n, h, e, n)
  <2>1. PICK adv, d : At(run, todo, n, h, e, adv, d, n) /\ e.ws = adv BY <1>3 DEF Going
  <2>2. PICK c : c = ClearSequencer OBVIOUS
  <2>3. /\ c \in Seq(WriteType) /\ Range(c) \subseteq {W("sequencer", None)}
        /\ \A f, x : Late(c, f, x) = IF f \in SequencerDir /\ ~\A g \in SequencerDir : repo[g] = None THEN None ELSE x
    BY <2>2, ClearSequencerIs
  <2>4. adv \in Seq(WriteType) /\ Range(adv) \subseteq Advance /\ Late(adv, "branch", h) = e.h BY <2>1 DEF At
  <2>5. PICK ws \in Seq(WriteType) : ws = adv \o c /\ Range(ws) = Range(adv) \cup Range(c) /\ \A f, x : Late(ws, f, x) = Late(c, f, Late(adv, f, x)) BY <2>3, <2>4, Join
  <2>6. end = [e EXCEPT !.ws = ws]
    <3>1. ~e.stopped BY <1>3 DEF Going
    <3> QED BY <1>1, <3>1, <2>1, <2>2, <2>5 DEF RunSequence
  <2>7. end \in AccType /\ end.h = e.h /\ end.ws = ws /\ end.dropped = e.dropped /\ ~end.stopped
    <3>1. ~e.stopped BY <1>3 DEF Going
    <3> QED BY <1>2, <2>6, <3>1 DEF AccType
  <2>8. \A w \in Range(ws) : w.f \in SeqNames(run.op) /\ (w.f = "index" => w.v.unmerged \in {"no", run.op}) /\ (w.f = "seqHead" => w.v = <<run.head>>)
    <3>2. \A w \in Range(c) : w.f = "sequencer" BY <2>3, Removal
    <3> QED BY <2>4, <2>5, <3>2 DEF SeqNames, Advance
  <2>9. \A f \in Fields \ {"index", "branch"} : \A x : Late(adv, f, x) = x BY <2>4, AdvanceIs
  <2>10. \A f \in Fields \ SeqNames(run.op) : \A x : Late(ws, f, x) = x BY <2>3, <2>5, <2>9 DEF SeqNames, SequencerDir
  <2>14. "branch" \notin SequencerDir BY DEF SequencerDir
  <2>11. Late(ws, "branch", h) = e.h BY <2>3, <2>4, <2>5, <2>14
  <2>13. SeqDone(run, todo, n, end, n)
    <3>4. \A f \in {"pick", "revert", "message"} \cup SequencerDir : \A x : Late(ws, f, x) = Late(c, f, x)
      BY <2>9, FieldsAre, <2>5 DEF SequencerDir
    <3>5. \A f \in {"pick", "revert", "message"} : f \notin SequencerDir BY DEF SequencerDir
    <3>3. \A f \in SequencerDir : \A x : Late(ws, f, x) = IF \A g \in SequencerDir : repo[g] = None THEN x ELSE None
      <4> TAKE f \in SequencerDir
      <4> TAKE x
      <4>1. Late(ws, f, x) = Late(c, f, x) BY <3>4
      <4> QED BY <2>3, <4>1
    <3> QED BY <2>3, <3>4, <3>5, <2>7, <3>3 DEF SeqDone
  <2> QED BY <2>1, <2>7, <2>8, <2>10, <2>11, <2>13 DEF At, Carried
<1>4. CASE Halted(run, todo, n, h, e, n)
  <2>0. PICK adv, d, a : \E m \in 0 .. n - 1 :
          /\ At(run, todo, n, h, e, adv, d, m)
          /\ Stops(run, todo[m + 1], a)
          /\ e.ws = adv \o a \o SequencerStop(run, SubSeq(todo, m + 1, n), e.h)
    BY <1>4 DEF Halted
  <2>1. PICK m \in 0 .. n - 1 :
          /\ At(run, todo, n, h, e, adv, d, m)
          /\ Stops(run, todo[m + 1], a)
          /\ e.ws = adv \o a \o SequencerStop(run, SubSeq(todo, m + 1, n), e.h)
    BY <2>0
  <2>2. end = e /\ e.stopped BY <1>1, <1>4 DEF Halted, RunSequence
  <2>3. PICK rest \in Seq(Sources) : rest = SubSeq(todo, m + 1, n)
    <3>1. PICK l \in Int : l = m + 1 OBVIOUS
    <3>2. \A k \in l .. n : k \in 1 .. n BY <3>1
    <3>3. \A k \in l .. n : todo[k] \in Sources BY <3>2, ElementOfSeq
    <3>4. SubSeq(todo, l, n) \in Seq(Sources) BY <3>3, SubSeqProperties
    <3> QED BY <3>1, <3>4
  <2>4. PICK c : c = SequencerStop(run, rest, e.h) OBVIOUS
  <2>5. e.h \in Histories BY <1>2, AccIs
  <2>6. /\ c \in Seq(WriteType) /\ (~run.multi => c = <<>>)
        /\ Range(c) \subseteq {W("seqHead", <<run.head>>), W("seqTodo", <<rest>>), W("seqSafety", <<e.h>>), W("seqOpts", <<"allow-empty">>)}
        /\ run.multi => \A f, x : f # "seqOpts" => Late(c, f, x) =
              IF f = "seqHead" THEN <<run.head>> ELSE IF f = "seqTodo" THEN <<rest>> ELSE IF f = "seqSafety" THEN <<e.h>> ELSE x
    BY <2>4, <2>5, SequencerStopIs
  <2>7. adv \in Seq(WriteType) /\ Range(adv) \subseteq Advance /\ Late(adv, "branch", h) = e.h BY <2>1 DEF At
  <2>8. a \in Seq(WriteType) /\ Range(a) \subseteq StopType(run, todo[m + 1]) BY <2>1 DEF Stops
  <2>9. PICK b \in Seq(WriteType) : b = adv \o a /\ Range(b) = Range(adv) \cup Range(a) /\ \A f, x : Late(b, f, x) = Late(a, f, Late(adv, f, x)) BY <2>7, <2>8, Join
  <2>10. PICK ws \in Seq(WriteType) : ws = b \o c /\ Range(ws) = Range(b) \cup Range(c) /\ \A f, x : Late(ws, f, x) = Late(c, f, Late(b, f, x)) BY <2>6, <2>9, Join
  <2>11. end.ws = ws BY <2>1, <2>2, <2>3, <2>4, <2>9, <2>10
  <2>12. \A w \in Range(ws) : w.f \in SeqNames(run.op) /\ (w.f = "index" => w.v.unmerged \in {"no", run.op}) /\ (w.f = "seqHead" => w.v = <<run.head>>)
    <3>2. \A w \in Range(a) : w.f \in {"index", "message", run.op} /\ (w.f = "index" => w.v.unmerged = run.op)
      <4> QED BY <1>0, <2>8 DEF StopType
    <3>3. \A w \in Range(c) : w.f \in {"seqHead", "seqTodo", "seqSafety", "seqOpts"} /\ (w.f = "seqHead" => w.v = <<run.head>>)
      <4>1. \A f, v : W(f, v).f = f /\ W(f, v).v = v BY DEF W
      <4> TAKE w \in Range(c)
      <4>3. CASE w = W("seqHead", <<run.head>>) BY <4>1, <4>3
      <4>4. CASE w = W("seqTodo", <<rest>>) BY <4>1, <4>4
      <4>5. CASE w = W("seqSafety", <<e.h>>) BY <4>1, <4>5
      <4>6. CASE w = W("seqOpts", <<"allow-empty">>) BY <4>1, <4>6
      <4> QED BY <2>6, <4>3, <4>4, <4>5, <4>6
    <3>4. run.op # "index" /\ run.op # "seqHead" BY <1>0
    <3> QED BY <2>7, <2>9, <2>10, <3>2, <3>3, <3>4 DEF SeqNames, Advance
  <2>13. \A f \in Fields \ {"index", "branch"} : \A x : Late(adv, f, x) = x BY <2>7, AdvanceIs
  <2>14. \A f \in Fields \ {"index", "message", run.op} : \A x : Late(a, f, x) = x BY <2>1, StopsIs
  <2>15. \A f \in Fields \ {"seqHead", "seqTodo", "seqSafety", "seqOpts"} : \A x : Late(c, f, x) = x
    <3>1. CASE run.multi BY <2>6, <3>1
    <3>2. CASE ~run.multi BY <2>6, <3>2, NoneIs
    <3> QED BY <1>0, <3>1, <3>2
  <2>16. \A f \in Fields \ SeqNames(run.op) : \A x : Late(ws, f, x) = x BY <2>9, <2>10, <2>13, <2>14, <2>15 DEF SeqNames
  <2>17. Late(ws, "branch", h) = e.h
    <3>1. "branch" \in Fields /\ "branch" \notin {"index", "message", run.op} BY <1>0, FieldsAre
    <3>2. \A x : Late(a, "branch", x) = x BY <2>14, <3>1
    <3>3. \A x : Late(c, "branch", x) = x BY <2>15, <3>1
    <3> QED BY <2>7, <2>9, <2>10, <3>2, <3>3
  <2>18. Carried(run, todo, n, h, end, d, m) BY <2>1, <2>2 DEF At, Carried
  <2>19. CASE run.multi
    <3>3. \A x : Late(ws, "seqHead", x) = <<run.head>> /\ Late(ws, "seqTodo", x) = <<rest>> BY <2>6, <2>19, <2>10
    <3>4. Marked(run, todo[m + 1], ws)
      <4>2. (\A x : Late(adv, run.op, x) = x) /\ \A x : Late(c, run.op, x) = x BY <1>0, FieldsAre, <2>13, <2>15
      <4>3. \A x : Late(ws, run.op, x) = Late(a, run.op, x) BY <2>9, <2>10, <4>2
      <4>4. CASE a = <<>>
        <5>1. \A x : Late(a, run.op, x) = x BY <4>4, NoneIs
        <5> QED BY <4>3, <5>1 DEF Marked
      <4>5. CASE a # <<>>
        <5> QED BY <2>1, <4>5, <4>3 DEF Marked, Stops
      <4> QED BY <4>4, <4>5
    <3>1. SeqStopped(run, todo, n, end, m) BY <2>2, <2>3, <2>11, <2>19, <3>3, <3>4 DEF SeqStopped
    <3> QED BY <1>2, <2>2, <2>11, <2>12, <2>16, <2>17, <2>18, <3>1
  <2>20. CASE ~run.multi
    <3>1. \A f \in SequencerDir : \A x : Late(ws, f, x) = x
      <4>1. \A f \in SequencerDir : f \in Fields \ {"index", "branch"} /\ f \in Fields \ {"index", "message", run.op} BY <1>0, FieldsAre DEF SequencerDir
      <4>2. \A f, x : Late(c, f, x) = x BY <2>6, <2>20, NoneIs
      <4> QED BY <2>9, <2>10, <2>13, <2>14, <4>1, <4>2
    <3>2. n = 1 => (m = 0 /\ ws = <<>>) \/ \A x : Late(ws, run.op, x) = <<todo[m + 1]>>
      <4>1. ws = b BY <2>6, <2>9, <2>10, <2>20, ConcatEmptySeq
      <4>2. CASE a # <<>>
        <5> QED BY <2>1, <4>2, <2>9, <4>1 DEF Stops
      <4>3. CASE a = <<>> /\ m = 0
        <5>1. adv = <<>> BY <2>1, <4>3 DEF At
        <5>2. ws = <<>> BY <2>9, <4>1, <4>3, <5>1
        <5> QED BY <4>3, <5>2
      <4>4. n = 1 => m = 0 OBVIOUS
      <4> QED BY <4>2, <4>3, <4>4
    <3>3. SeqLone(run, todo, n, end, m) BY <2>2, <2>11, <2>20, <3>1, <3>2 DEF SeqLone
    <3> QED BY <1>2, <2>2, <2>11, <2>12, <2>16, <2>17, <2>18, <3>3
  <2> QED BY <1>0, <2>19, <2>20
<1> QED BY <1>2, <1>3, <1>4

------------------------------
(* The lines of a rebase. *)

LEMMA Something == \A x : <<x>> # None
BY DEF None

\* The writes of a stop at line i, whose list afterwards is left and whose message is m.
LineNames == RebaseFiles \cup {"rbMessage", "message", "rebase", "index"}
LineStops(run, b, left, m) ==
  /\ b \in Seq(WriteType)
  /\ \A w \in Range(b) : w.f \in LineNames /\ (w.f = "index" => w.v.unmerged = "rebase") /\ (w.f = "rbOrig" => w.v = <<run.orig>>)
  /\ \A f \in Fields \ LineNames : \A x : Late(b, f, x) = x
  /\ \A x : /\ Late(b, "rbOrig", x) = <<run.orig>> /\ Late(b, "rbTodo", x) = <<left>> /\ Late(b, "rbMessage", x) = m
            /\ Late(b, "rbOnto", x) # None /\ Late(b, "rbDone", x) # None /\ Late(b, "rebase", x) # None

LEMMA RescheduledStops ==
  ASSUME NEW run \in LineType, NEW i \in 1 .. Len(run.todo), NEW c \in CommitType
  PROVE  LineStops(run, RescheduledPick(run, i, c), SubSeq(run.todo, i, Len(run.todo)), None)
<1>1. PICK b : b = RescheduledPick(run, i, c) OBVIOUS
<1>2. /\ b \in Seq(WriteType)
      /\ \A w \in Range(b) : w.f \in RebaseFiles \cup {"rbMessage", "rebase"} /\ (w.f = "rbOrig" => w.v = <<run.orig>>)
      /\ \A f, x : f \notin RebaseFiles \cup {"rbMessage", "rebase"} => Late(b, f, x) = x
  BY <1>1, RescheduledIs
<1>5. \A x : Late(b, "rbOnto", x) # None /\ Late(b, "rbDone", x) # None /\ Late(b, "rebase", x) # None
  BY <1>1, RescheduledIs, Something
<1>7. \A f \in Fields \ LineNames : \A x : Late(b, f, x) = x BY <1>2 DEF LineNames
<1>8. \A w \in Range(b) : w.f \in LineNames /\ (w.f = "index" => w.v.unmerged = "rebase") /\ (w.f = "rbOrig" => w.v = <<run.orig>>)
  BY <1>2 DEF LineNames, RebaseFiles
<1> QED BY RescheduledIs, <1>1, <1>2, <1>5, <1>7, <1>8 DEF LineStops

LEMMA ConflictStops ==
  ASSUME NEW run \in LineType, NEW i \in 1 .. Len(run.todo), NEW c \in CommitType, NEW x0 \in IndexType, x0.unmerged = "rebase"
  PROVE  LineStops(run, <<W("index", x0)>> \o RebaseStop(run, i, c), SubSeq(run.todo, i + 1, Len(run.todo)), <<c>>)
<1>1. PICK b : b = RebaseStop(run, i, c) OBVIOUS
<1>2. /\ b \in Seq(WriteType)
      /\ \A w \in Range(b) : w.f \in RebaseFiles \cup {"rbMessage", "message", "rebase"} /\ (w.f = "rbOrig" => w.v = <<run.orig>>)
      /\ \A f, x : f \notin RebaseFiles \cup {"rbMessage", "message", "rebase"} => Late(b, f, x) = x
  BY <1>1, RebaseStopIs
<1>3. \A x : /\ Late(b, "rbOrig", x) = <<run.orig>> /\ Late(b, "rbTodo", x) = <<SubSeq(run.todo, i + 1, Len(run.todo))>> /\ Late(b, "rbMessage", x) = <<c>>
  BY <1>1, RebaseStopIs
<1>5. \A x : Late(b, "rbOnto", x) # None /\ Late(b, "rbDone", x) # None /\ Late(b, "rebase", x) # None
  BY <1>1, RebaseStopIs, Something
<1>6. PICK w0 \in WriteType : w0 = W("index", x0) /\ w0.f = "index" /\ w0.v = x0 BY IndexWrite
<1>7. PICK a \in Seq(WriteType) : a = <<w0>> /\ Range(a) = {w0} /\ \A f, x : Late(a, f, x) = Put(w0, f, x) BY One
<1>8. PICK d \in Seq(WriteType) : d = a \o b /\ Range(d) = Range(a) \cup Range(b) /\ \A f, x : Late(d, f, x) = Late(b, f, Late(a, f, x)) BY <1>2, Join
<1>9. \A w \in Range(d) : w.f \in LineNames /\ (w.f = "index" => w.v.unmerged = "rebase") /\ (w.f = "rbOrig" => w.v = <<run.orig>>)
  <2>2. w0.f \in LineNames /\ w0.f # "rbOrig" BY <1>6 DEF LineNames
  <2> QED BY <1>2, <1>6, <1>7, <1>8, <2>2 DEF LineNames, RebaseFiles
<1>10. \A f \in Fields \ LineNames : \A x : Late(d, f, x) = x
  <2>2. \A f \in Fields \ LineNames : \A x : Late(a, f, x) = x BY <1>6, <1>7, PutIs DEF LineNames
  <2> QED BY <1>2, <1>8, <2>2 DEF LineNames
<1>12. \A x : Late(d, "rbOnto", x) # None /\ Late(d, "rbDone", x) # None /\ Late(d, "rebase", x) # None BY <1>5, <1>8
<1>13. d = <<W("index", x0)>> \o RebaseStop(run, i, c) BY <1>1, <1>6, <1>7, <1>8
<1> QED BY <1>3, <1>8, <1>9, <1>10, <1>12, <1>13 DEF LineStops

\* What replaying one line does.
LineStopped(run, acc, i, r) ==
  /\ r.stopped /\ r.h = acc.h /\ r.dropped = acc.dropped
  /\ \E b : /\ r.ws = acc.ws \o b
            /\ \/ LineStops(run, b, SubSeq(run.todo, i, Len(run.todo)), None)
               \/ LineStops(run, b, SubSeq(run.todo, i + 1, Len(run.todo)), <<run.todo[i]>>)
LineDrops(run, acc, i, r) ==
  ~r.stopped /\ r.h = acc.h /\ r.ws = acc.ws /\ r.dropped = acc.dropped \cup {Len(run.todo) - i}
LineCommits(run, acc, i, r) ==
  /\ ~r.stopped /\ r.dropped = acc.dropped
  /\ \E c \in CommitType : c.src = run.todo[i].src /\ r.h = Append(acc.h, c)
  /\ r.ws = acc.ws \o <<W("index", Clean(Tree(r.h))), W("head", <<r.h>>)>>

LEMMA ReplayLineIs ==
  ASSUME NEW run \in LineType, NEW acc \in AccType, NEW i \in 1 .. Len(run.todo), NEW blocked, NEW r, r = ReplayLine(run, acc, i, blocked)
  PROVE  /\ r \in AccType
         /\ \/ acc.stopped /\ r = acc
            \/ ~acc.stopped /\ LineStopped(run, acc, i, r)
            \/ ~acc.stopped /\ LineDrops(run, acc, i, r)
            \/ ~acc.stopped /\ LineCommits(run, acc, i, r)
<1>1. acc.h \in Histories /\ acc.ws \in Seq(WriteType) /\ acc.dropped \in SUBSET Int /\ run.todo \in Seq(CommitType) BY DEF AccType, LineType
<1>2. PICK c \in CommitType : c = run.todo[i] BY <1>1, ElementOfSeq
<1>3. c.add \in SUBSET Patches /\ c.del \in SUBSET Patches /\ c.op \in {"pick", "revert", "merge", "user"} /\ c.src \in Sources \cup {"merge"} BY DEF CommitType
<1>4. PICK t \in SUBSET Patches : t = Tree(acc.h) BY <1>1, HistoryIs
<1>5. PICK new \in SUBSET Patches : new = Changed(t, c.add, c.del) BY <1>3 DEF Changed
<1> DEFINE ff == IsPrefix(Append(acc.h, c), run.orig)
           conflict == ~ff /\ Meets(t, c.add, c.del)
<1>6. ASSUME NEW d \in CommitType, d.src = c.src,
             r = [acc EXCEPT !.h = Append(acc.h, d), !.ws = @ \o <<W("index", Clean(Tree(Append(acc.h, d)))), W("head", <<Append(acc.h, d)>>)>>],
             ~acc.stopped
      PROVE  r \in AccType /\ LineCommits(run, acc, i, r)
  <2>1. PICK h \in Histories : h = Append(acc.h, d) BY <1>1, HistoryIs
  <2>2. PICK u \in SUBSET Patches : u = Tree(h) BY HistoryIs
  <2>3. PICK v \in WriteType : v = W("index", Clean(u)) BY IndexWrite, CleanIs
  <2>4. PICK w \in WriteType : w = W("head", <<h>>) BY WriteIs, KindsAre, FieldsAre, MaybeIs DEF HistoryFiles
  <2>5. PICK q : q = <<v, w>> OBVIOUS
  <2>6. q \in Seq(WriteType) BY <2>5
  <2>7. PICK ws \in Seq(WriteType) : ws = acc.ws \o q BY <1>1, <2>6, ConcatProperties
  <2>8. r = [acc EXCEPT !.h = h, !.ws = ws] BY <1>6, <2>1, <2>2, <2>3, <2>4, <2>5, <2>7
  <2>9. r \in AccType /\ r.h = h /\ r.ws = ws /\ r.dropped = acc.dropped /\ r.stopped = acc.stopped BY <2>8 DEF AccType
  <2>10. r.ws = acc.ws \o <<W("index", Clean(Tree(r.h))), W("head", <<r.h>>)>> BY <2>2, <2>3, <2>4, <2>5, <2>7, <2>9
  <2> QED BY <1>2, <2>1, <1>6, <2>9, <2>10 DEF LineCommits
<1>7. ASSUME NEW b, NEW left, NEW m, LineStops(run, b, left, m), r = [acc EXCEPT !.stopped = TRUE, !.ws = @ \o b],
             \/ left = SubSeq(run.todo, i, Len(run.todo)) /\ m = None
             \/ left = SubSeq(run.todo, i + 1, Len(run.todo)) /\ m = <<run.todo[i]>>
      PROVE  r \in AccType /\ LineStopped(run, acc, i, r)
  <2>1. b \in Seq(WriteType) BY <1>7 DEF LineStops
  <2>2. PICK ws \in Seq(WriteType) : ws = acc.ws \o b BY <1>1, <2>1, ConcatProperties
  <2>3. r = [acc EXCEPT !.stopped = TRUE, !.ws = ws] BY <1>7, <2>2
  <2>4. r \in AccType /\ r.h = acc.h /\ r.ws = ws /\ r.dropped = acc.dropped /\ r.stopped = TRUE BY <2>3, AccStop, ZenonT(40)
  <2> QED BY <1>7, <2>2, <2>4 DEF LineStopped
<1>8. CASE acc.stopped
  <2>1. r = acc BY <1>8 DEF ReplayLine
  <2> QED BY <1>8, <2>1
<1>9. CASE ~acc.stopped /\ i = blocked
  <2>1. PICK b : b = RescheduledPick(run, i, c) OBVIOUS
  <2>2. PICK left : left = SubSeq(run.todo, i, Len(run.todo)) OBVIOUS
  <2>4. LineStops(run, b, left, None) BY <2>1, <2>2, RescheduledStops
  <2> QED BY <1>2, <2>1, <1>7, <1>9, <2>2, <2>4 DEF ReplayLine
<1>10. CASE ~acc.stopped /\ i # blocked /\ ff
  <2>1. r = [acc EXCEPT !.h = Append(acc.h, c), !.ws = @ \o <<W("index", Clean(Tree(Append(acc.h, c)))), W("head", <<Append(acc.h, c)>>)>>]
    BY <1>2, <1>10 DEF ReplayLine
  <2> HIDE DEF ff
  <2> QED BY <1>6, <1>10, <2>1
<1>11. CASE ~acc.stopped /\ i # blocked /\ conflict
  <2>1. PICK x0 \in IndexType : x0 = Unmerged(t, new, "rebase") /\ x0.unmerged = "rebase" BY UnmergedIs
  <2>3. PICK b : b = <<W("index", x0)>> \o RebaseStop(run, i, c) OBVIOUS
  <2>4. LineStops(run, b, SubSeq(run.todo, i + 1, Len(run.todo)), <<c>>) BY <2>1, <2>3, ConflictStops
  <2>5. acc.ws \o <<W("index", x0)>> \o RebaseStop(run, i, c) = acc.ws \o b
    <3>4. PICK w0 \in WriteType : w0 = W("index", x0) BY IndexWrite
    <3>1. PICK p \in Seq(WriteType) : p = <<W("index", x0)>> BY <3>4, One
    <3>2. PICK q \in Seq(WriteType) : q = RebaseStop(run, i, c) BY RebaseStopIs
    <3>5. PICK o \in Seq(WriteType) : o = acc.ws BY <1>1
    <3>6. (o \o p) \o q = o \o (p \o q) BY ConcatAssociative, SMTT(30)
    <3>3. (acc.ws \o p) \o q = acc.ws \o (p \o q) BY <3>5, <3>6
    <3> QED BY <2>3, <3>1, <3>2, <3>3
  <2>6. r = [acc EXCEPT !.stopped = TRUE, !.ws = @ \o b] BY <1>2, <1>4, <1>5, <1>11, <2>1, <2>5 DEF ReplayLine
  <2> HIDE DEF conflict
  <2> QED BY <1>2, <1>7, <1>11, <2>4, <2>6
<1>12. CASE ~acc.stopped /\ i # blocked /\ ~ff /\ ~conflict /\ new = t /\ c.add \cup c.del # {}
  <2>1. r = [acc EXCEPT !.dropped = @ \cup {Len(run.todo) - i}] BY <1>2, <1>4, <1>5, <1>12 DEF ReplayLine
  <2>2. PICK gone \in SUBSET Int : gone = acc.dropped \cup {Len(run.todo) - i}
    <3>1. Len(run.todo) \in Nat BY <1>1, LenProperties
    <3>2. Len(run.todo) - i \in Int BY <3>1
    <3> QED BY <1>1, <3>2
  <2>3. r = [acc EXCEPT !.dropped = gone] BY <2>1, <2>2
  <2> QED BY <2>3, <1>12, <2>2 DEF LineDrops, AccType
<1>13. CASE ~acc.stopped /\ i # blocked /\ ~ff /\ ~conflict /\ ~(new = t /\ c.add \cup c.del # {})
  <2>1. PICK d \in CommitType : d = Commit(c.op, c.src, acc.h, new) /\ d.src = c.src
    <3>1. PICK g \in Histories : g = acc.h BY <1>1
    <3>2. PICK o \in {"pick", "revert", "merge", "user"} : o = c.op BY <1>3
    <3>3. PICK s \in Sources \cup {"merge"} : s = c.src BY <1>3
    <3>4. Commit(o, s, g, new) \in CommitType /\ Commit(o, s, g, new).src = s BY CommitIs, SMTT(30)
    <3> QED BY <3>1, <3>2, <3>3, <3>4
  <2>2. r = [acc EXCEPT !.h = Append(acc.h, d), !.ws = @ \o <<W("index", Clean(Tree(Append(acc.h, d)))), W("head", <<Append(acc.h, d)>>)>>]
    BY <1>2, <1>4, <1>5, <1>13, <2>1 DEF ReplayLine
  <2> HIDE DEF ff, conflict
  <2> QED BY <1>6, <1>13, <2>1, <2>2
<1> QED BY <1>8, <1>9, <1>10, <1>11, <1>12, <1>13


------------------------------
(* A list less the lines that were dropped. *)

Keep(L, D) ==
  LET kept[i \in 0 .. Len(L)] ==
        IF i = 0 THEN <<>>
        ELSE IF Len(L) - i \in D THEN kept[i - 1]
        ELSE Append(kept[i - 1], L[i])
  IN kept
Names == Sources \cup {"merge"}
KeepSteps(L, D, n, acc) ==
  /\ acc \in [0 .. n -> Seq(Names)] /\ acc[0] = <<>>
  /\ \A i \in 1 .. n : acc[i] = IF n - i \in D THEN acc[i - 1] ELSE Append(acc[i - 1], L[i])

LEMMA KeepIs ==
  ASSUME NEW L \in Seq(Names), NEW D, NEW n \in Nat, n = Len(L),
         NEW acc, acc = Keep(L, D)
  PROVE  KeepSteps(L, D, n, acc)
<1> DEFINE Step(i, a) == IF n - i \in D THEN a ELSE Append(a, L[i])
           step == [p \in (1 .. n) \X Seq(Names) |-> Step(p[1], p[2])]
           Fits(f) == f = [i \in 0 .. n |-> IF i = 0 THEN <<>> ELSE Step(i, f[i - 1])]
<1>1. ASSUME NEW i \in 1 .. n, NEW a \in Seq(Names) PROVE Step(i, a) \in Seq(Names)
  <2>1. L[i] \in Names BY ElementOfSeq
  <2> QED BY <2>1, AppendProperties
<1>2. <<>> \in Seq(Names) OBVIOUS
<1>3. step \in [(1 .. n) \X Seq(Names) -> Seq(Names)]
  <2> HIDE DEF Step
  <2> QED BY <1>1
<1>4. PICK f \in [0 .. n -> Seq(Names)] : f[0] = <<>> /\ \A i \in 1 .. n : f[i] = step[<<i, f[i - 1]>>]
  <2> HIDE DEF step
  <2>1. PICK b \in Seq(Names) : b = <<>> BY <1>2
  <2>2. \E f \in [0 .. n -> Seq(Names)] : f[0] = b /\ \A i \in 1 .. n : f[i] = step[<<i, f[i - 1]>>]
    <3>1. step \in StepMaps(n, Seq(Names)) BY <1>3 DEF StepMaps
    <3>2. StepsTaken(n, Seq(Names), b, step) BY <3>1, Recursion
    <3> QED BY <3>2 DEF StepsTaken
  <2> QED BY <2>1, <2>2
<1>5. Fits(f)
  <2>1. ASSUME NEW i \in 1 .. n PROVE f[i] = Step(i, f[i - 1])
    <3>1. i - 1 \in 0 .. n OBVIOUS
    <3>2. f[i - 1] \in Seq(Names) BY <3>1
    <3>3. PICK p : p = <<i, f[i - 1]>> OBVIOUS
    <3>4. p \in (1 .. n) \X Seq(Names) /\ p[1] = i /\ p[2] = f[i - 1] BY <3>2, <3>3
    <3>5. step[p] = Step(p[1], p[2])
      <4> HIDE DEF Step
      <4> QED BY <3>4
    <3> HIDE DEF step, Step
    <3> QED BY <1>4, <3>3, <3>4, <3>5
  <2>2. \A i \in 0 .. n : f[i] = IF i = 0 THEN <<>> ELSE Step(i, f[i - 1])
    <3> HIDE DEF Step
    <3> QED BY <1>4, <2>1
  <2> HIDE DEF Step
  <2> QED BY <2>2
<1>6. acc = CHOOSE f2 : Fits(f2) BY DEF Keep
<1>7. Fits(acc)
  <2> HIDE DEF Fits
  <2> QED BY <1>5, <1>6
<1>8. acc[0] = <<>> /\ (\A i \in 1 .. n : acc[i] = Step(i, acc[i - 1])) /\ acc = [i \in 0 .. n |-> acc[i]]
  <2> HIDE DEF Step
  <2> USE DEF Fits
  <2>1. 0 \in 0 .. n /\ (\A i \in 1 .. n : i \in 0 .. n /\ i # 0) OBVIOUS
  <2>3. DOMAIN acc = 0 .. n BY <1>7
  <2>4. acc = [i \in 0 .. n |-> acc[i]] BY <1>7, <2>3
  <2> QED BY <1>7, <2>1, <2>4
<1>9. \A i \in 0 .. n : acc[i] \in Seq(Names)
  <2> DEFINE T == {i \in 0 .. n : acc[i] \in Seq(Names)}
  <2>4. 0 \in 0 .. n /\ acc[0] \in Seq(Names) BY <1>2, <1>8
  <2>1. 0 \in T BY <2>4
  <2>2. ASSUME NEW i \in 0 .. n - 1, i \in T PROVE i + 1 \in T
    <3>1. i + 1 \in 1 .. n /\ i + 1 \in 0 .. n /\ (i + 1) - 1 = i OBVIOUS
    <3>2. acc[i] \in Seq(Names) BY <2>2
    <3>3. acc[i + 1] = Step(i + 1, acc[i]) BY <1>8, <3>1
    <3>4. Step(i + 1, acc[i]) \in Seq(Names) BY <1>1, <3>1, <3>2
    <3> QED BY <3>1, <3>3, <3>4
  <2>3. \A i \in 0 .. n : i \in T
    <3> HIDE DEF T
    <3> QED BY <2>1, <2>2, UpTo
  <2> QED BY <2>3
<1> QED BY <1>8, <1>9 DEF KeepSteps

\* Only what was dropped so far matters.
Agree(D, E, n, k) == \A i \in 1 .. k : n - i \in D <=> n - i \in E
LEMMA KeepAgree ==
  ASSUME NEW L \in Seq(Names), NEW D, NEW E, NEW n \in Nat, n = Len(L), NEW k \in 0 .. n, Agree(D, E, n, k)
  PROVE  Keep(L, D)[k] = Keep(L, E)[k]
<1>1. PICK a : a = Keep(L, D) OBVIOUS
<1>2. PICK b : b = Keep(L, E) OBVIOUS
<1>3. /\ a \in [0 .. n -> Seq(Names)] /\ a[0] = <<>>
      /\ \A i \in 1 .. n : a[i] = IF n - i \in D THEN a[i - 1] ELSE Append(a[i - 1], L[i])
  <2>1. KeepSteps(L, D, n, a) BY <1>1, KeepIs
  <2> QED BY <2>1 DEF KeepSteps
<1>4. /\ b \in [0 .. n -> Seq(Names)] /\ b[0] = <<>>
      /\ \A i \in 1 .. n : b[i] = IF n - i \in E THEN b[i - 1] ELSE Append(b[i - 1], L[i])
  <2>1. KeepSteps(L, E, n, b) BY <1>2, KeepIs
  <2> QED BY <2>1 DEF KeepSteps
<1> DEFINE T == {i \in 0 .. k : a[i] = b[i]}
<1>5. 0 \in T BY <1>3, <1>4
<1>6. ASSUME NEW i \in 0 .. k - 1, i \in T PROVE i + 1 \in T
  <2>1. i + 1 \in 1 .. n /\ i + 1 \in 1 .. k /\ i + 1 \in 0 .. k /\ (i + 1) - 1 = i OBVIOUS
  <2>2. a[i] = b[i] BY <1>6
  <2>3. n - (i + 1) \in D <=> n - (i + 1) \in E BY <2>1 DEF Agree
  <2>5. b[i + 1] = IF n - (i + 1) \in E THEN b[i] ELSE Append(b[i], L[i + 1]) BY <1>4, <2>1
  <2> QED BY <1>3, <2>1, <2>2, <2>3, <2>5
<1>7. k \in Nat /\ k \in 0 .. k OBVIOUS
<1>8. \A i \in 0 .. k : i \in T
  <2> HIDE DEF T
  <2> QED BY <1>5, <1>6, <1>7, UpTo
<1> QED BY <1>1, <1>2, <1>7, <1>8

LEMMA SourcesAre ==
  ASSUME NEW h \in Seq(CommitType)
  PROVE  /\ SourcesOf(h) \in Seq(Names) /\ Len(SourcesOf(h)) = Len(h)
         /\ \A i \in 1 .. Len(h) : SourcesOf(h)[i] = h[i].src
         /\ \A c \in CommitType : SourcesOf(Append(h, c)) = Append(SourcesOf(h), c.src)
<1>1. PICK n \in Nat : n = Len(h) /\ DOMAIN h = 1 .. n BY LenProperties
<1>2. \A c \in CommitType : c.src \in Names BY DEF CommitType, Names
<1>3. ASSUME NEW g \in Seq(CommitType), NEW m \in Nat, m = Len(g)
      PROVE  SourcesOf(g) \in Seq(Names) /\ Len(SourcesOf(g)) = m /\ \A i \in 1 .. m : SourcesOf(g)[i] = g[i].src
  <2>1. DOMAIN g = 1 .. m BY <1>3, LenProperties
  <2>2. \A i \in 1 .. m : g[i] \in CommitType BY <1>3, ElementOfSeq
  <2>3. PICK s : s = SourcesOf(g) OBVIOUS
  <2>4. s = [i \in 1 .. m |-> g[i].src] BY <2>1, <2>3 DEF SourcesOf
  <2>5. s \in Seq(Names) /\ Len(s) = m BY <1>2, <2>2, <2>4, IsASeq
  <2> QED BY <2>3, <2>4, <2>5
<1>4. ASSUME NEW c \in CommitType PROVE SourcesOf(Append(h, c)) = Append(SourcesOf(h), c.src)
  <2>1. PICK g \in Seq(CommitType) : g = Append(h, c) BY AppendProperties
  <2>2. Len(g) = n + 1 /\ (\A i \in 1 .. n : g[i] = h[i]) /\ g[n + 1] = c BY <1>1, <2>1, AppendProperties
  <2>3. PICK s \in Seq(Names) : s = SourcesOf(g) /\ Len(s) = n + 1 /\ \A i \in 1 .. n + 1 : s[i] = g[i].src
    <3>1. PICK m \in Nat : m = n + 1 OBVIOUS
    <3> QED BY <1>3, <2>2, <3>1
  <2>4. PICK t \in Seq(Names) : t = SourcesOf(h) /\ Len(t) = n /\ \A i \in 1 .. n : t[i] = h[i].src BY <1>1, <1>3
  <2>8. PICK e \in Names : e = c.src BY <1>2
  <2>5. PICK u \in Seq(Names) : u = Append(t, e) /\ Len(u) = n + 1 /\ (\A i \in 1 .. n : u[i] = t[i]) /\ u[n + 1] = e
    <3>1. PICK u : u = Append(t, e) OBVIOUS
    <3>2. u \in Seq(Names) /\ Len(u) = Len(t) + 1 BY <2>8, <3>1, AppendProperties
    <3>3. (\A i \in 1 .. Len(t) : u[i] = t[i]) /\ u[Len(t) + 1] = e BY <2>8, <3>1, AppendProperties
    <3> QED BY <2>4, <3>1, <3>2, <3>3
  <2>6. \A i \in 1 .. n + 1 : s[i] = u[i]
    <3>1. ASSUME NEW i \in 1 .. n PROVE s[i] = u[i]
      <4>1. i \in 1 .. n + 1 OBVIOUS
      <4>2. s[i] = g[i].src BY <2>3, <4>1
      <4> QED BY <2>2, <2>4, <2>5, <4>2
    <3>4. n + 1 \in 1 .. n + 1 OBVIOUS
    <3>2. s[n + 1] = u[n + 1] BY <2>2, <2>3, <2>5, <2>8, <3>4
    <3> QED BY <3>1, <3>2
  <2>7. s = u BY <2>3, <2>5, <2>6, SeqEqual
  <2> QED BY <2>1, <2>3, <2>4, <2>5, <2>7, <2>8
<1> QED BY <1>1, <1>3, <1>4

\* The recursion over the lines is well founded.
LEMMA LinesAre ==
  ASSUME NEW run \in LineType, NEW h \in Histories, NEW blocked, NEW n \in Nat, n = Len(run.todo),
         NEW acc, acc = Lines(run, h, blocked)
  PROVE  /\ acc \in [0 .. n -> AccType] /\ acc[0] = Fresh(h)
         /\ \A i \in 1 .. n : acc[i] = ReplayLine(run, acc[i - 1], i, blocked)
<1> DEFINE Step(i, a) == ReplayLine(run, a, i, blocked)
           step == [p \in (1 .. n) \X AccType |-> Step(p[1], p[2])]
           Fits(f) == f = [i \in 0 .. n |-> IF i = 0 THEN Fresh(h) ELSE Step(i, f[i - 1])]
<1>1. ASSUME NEW i \in 1 .. n, NEW a \in AccType PROVE Step(i, a) \in AccType
  <2>1. PICK r : r = ReplayLine(run, a, i, blocked) OBVIOUS
  <2>2. i \in 1 .. Len(run.todo) OBVIOUS
  <2>3. r \in AccType BY <2>1, <2>2, ReplayLineIs
  <2> QED BY <2>1, <2>3
<1>2. Fresh(h) \in AccType BY FreshIs
<1>3. step \in [(1 .. n) \X AccType -> AccType]
  <2> HIDE DEF Step
  <2> QED BY <1>1
<1>4. PICK f \in [0 .. n -> AccType] : f[0] = Fresh(h) /\ \A i \in 1 .. n : f[i] = step[<<i, f[i - 1]>>]
  <2> HIDE DEF step
  <2>1. PICK b \in AccType : b = Fresh(h) BY <1>2
  <2>2. \E f \in [0 .. n -> AccType] : f[0] = b /\ \A i \in 1 .. n : f[i] = step[<<i, f[i - 1]>>]
    <3>1. step \in StepMaps(n, AccType) BY <1>3 DEF StepMaps
    <3>2. StepsTaken(n, AccType, b, step) BY <3>1, Recursion
    <3> QED BY <3>2 DEF StepsTaken
  <2> QED BY <2>1, <2>2
<1>5. Fits(f)
  <2>1. ASSUME NEW i \in 1 .. n PROVE f[i] = Step(i, f[i - 1])
    <3>1. i - 1 \in 0 .. n OBVIOUS
    <3>2. f[i - 1] \in AccType BY <3>1
    <3>3. PICK p : p = <<i, f[i - 1]>> OBVIOUS
    <3>4. p \in (1 .. n) \X AccType /\ p[1] = i /\ p[2] = f[i - 1] BY <3>2, <3>3
    <3>5. step[p] = Step(p[1], p[2])
      <4> HIDE DEF Step
      <4> QED BY <3>4
    <3> HIDE DEF step, Step
    <3> QED BY <1>4, <3>3, <3>4, <3>5
  <2>2. \A i \in 0 .. n : f[i] = IF i = 0 THEN Fresh(h) ELSE Step(i, f[i - 1])
    <3> HIDE DEF Step
    <3> QED BY <1>4, <2>1
  <2> HIDE DEF Step
  <2> QED BY <2>2
<1>6. acc = CHOOSE f2 : Fits(f2) BY DEF Lines
<1>7. Fits(acc)
  <2> HIDE DEF Fits
  <2> QED BY <1>5, <1>6
<1>8. acc[0] = Fresh(h) /\ (\A i \in 1 .. n : acc[i] = Step(i, acc[i - 1])) /\ acc = [i \in 0 .. n |-> acc[i]]
  <2> HIDE DEF Step
  <2> USE DEF Fits
  <2>1. 0 \in 0 .. n /\ (\A i \in 1 .. n : i \in 0 .. n /\ i # 0) OBVIOUS
  <2>3. DOMAIN acc = 0 .. n BY <1>7
  <2>4. acc = [i \in 0 .. n |-> acc[i]] BY <1>7, <2>3
  <2> QED BY <1>7, <2>1, <2>4
<1>9. \A i \in 0 .. n : acc[i] \in AccType
  <2> DEFINE T == {i \in 0 .. n : acc[i] \in AccType}
  <2>1. 0 \in T BY <1>2, <1>8
  <2>2. ASSUME NEW i \in 0 .. n - 1, i \in T PROVE i + 1 \in T
    <3>1. i + 1 \in 1 .. n /\ i + 1 \in 0 .. n /\ (i + 1) - 1 = i OBVIOUS
    <3>2. acc[i] \in AccType BY <2>2
    <3>3. acc[i + 1] = Step(i + 1, acc[i]) BY <1>8, <3>1
    <3>4. Step(i + 1, acc[i]) \in AccType BY <1>1, <3>1, <3>2
    <3> QED BY <3>1, <3>3, <3>4
  <2>3. \A i \in 0 .. n : i \in T
    <3> HIDE DEF T
    <3> QED BY <2>1, <2>2, UpTo
  <2> QED BY <2>3
<1> QED BY <1>8, <1>9


\* The rebase has replayed m lines, by the writes adv.
HeadAdvance == {w \in WriteType : (w.f = "head" /\ w.v # None) \/ (w.f = "index" /\ w.v.unmerged = "no")}
LineAt(run, n, h, A, adv, m) ==
  /\ adv \in Seq(WriteType) /\ Range(adv) \subseteq HeadAdvance /\ Late(adv, "head", <<h>>) = <<A.h>>
  /\ A.dropped \subseteq n - m .. n - 1
  /\ SourcesOf(A.h) = SourcesOf(h) \o Keep(SourcesOf(run.todo), A.dropped)[m]
LineGoing(run, n, h, A, i) == ~A.stopped /\ LineAt(run, n, h, A, A.ws, i)
LineLeft(run, n, b, m) ==
  \/ LineStops(run, b, SubSeq(run.todo, m + 1, n), None)
  \/ LineStops(run, b, SubSeq(run.todo, (m + 1) + 1, n), <<run.todo[m + 1]>>)
LineHalted(run, n, h, A, i) ==
  /\ A.stopped
  /\ \E adv, b : \E m \in 0 .. i - 1 : LineAt(run, n, h, A, adv, m) /\ LineLeft(run, n, b, m) /\ A.ws = adv \o b

\* One more line in a list less the dropped ones.
LEMMA KeepOne ==
  ASSUME NEW L \in Seq(Names), NEW n \in Nat, n = Len(L), NEW m \in 0 .. n - 1, NEW D, D \subseteq n - m .. n - 1
  PROVE  /\ Keep(L, D)[m] \in Seq(Names)
         /\ Keep(L, D)[m + 1] = Append(Keep(L, D)[m], L[m + 1])
         /\ Keep(L, D \cup {n - (m + 1)})[m + 1] = Keep(L, D)[m]
<1>1. PICK a : a = Keep(L, D) OBVIOUS
<1>2. PICK E : E = D \cup {n - (m + 1)} OBVIOUS
<1>3. PICK b : b = Keep(L, E) OBVIOUS
<1>4. KeepSteps(L, D, n, a) BY <1>1, KeepIs
<1>5. KeepSteps(L, E, n, b) BY <1>3, KeepIs
<1>6. m \in 0 .. n /\ m + 1 \in 1 .. n /\ (m + 1) - 1 = m OBVIOUS
<1>7. n - (m + 1) \notin n - m .. n - 1 OBVIOUS
<1>8. a[m] \in Seq(Names) BY <1>4, <1>6 DEF KeepSteps
<1>9. a[m + 1] = Append(a[m], L[m + 1])
  <2>2. n - (m + 1) \notin D BY <1>7
  <2> QED BY <1>4, <1>6, <2>2 DEF KeepSteps
<1>10. b[m + 1] = b[m]
  <2>2. n - (m + 1) \in E BY <1>2
  <2> QED BY <1>5, <1>6, <2>2 DEF KeepSteps
<1>11. b[m] = a[m]
  <2>2. Agree(D, E, n, m) BY <1>2 DEF Agree
  <2>3. Keep(L, D)[m] = Keep(L, E)[m] BY <1>6, <2>2, KeepAgree
  <2> QED BY <1>1, <1>3, <2>3
<1> QED BY <1>1, <1>2, <1>3, <1>8, <1>9, <1>10, <1>11

\* Up to the first that stops it, every line is replayed or dropped.
LEMMA LineStep ==
  ASSUME NEW run \in LineType, NEW h \in Histories, NEW blocked, NEW n \in Nat, n = Len(run.todo), NEW i \in 0 .. n - 1,
         NEW A \in AccType, LineGoing(run, n, h, A, i) \/ LineHalted(run, n, h, A, i),
         NEW r, r = ReplayLine(run, A, i + 1, blocked)
  PROVE  LineGoing(run, n, h, r, i + 1) \/ LineHalted(run, n, h, r, i + 1)
<1>1. i + 1 \in 1 .. Len(run.todo) /\ run.todo \in Seq(CommitType) BY DEF LineType
<1>2. /\ r \in AccType
      /\ \/ A.stopped /\ r = A
         \/ ~A.stopped /\ LineStopped(run, A, i + 1, r)
         \/ ~A.stopped /\ LineDrops(run, A, i + 1, r)
         \/ ~A.stopped /\ LineCommits(run, A, i + 1, r)
  BY <1>1, ReplayLineIs
<1>3. PICK L \in Seq(Names) : L = SourcesOf(run.todo) /\ Len(L) = n /\ L[i + 1] = run.todo[i + 1].src BY <1>1, SourcesAre
<1>4. CASE A.stopped /\ r = A
  <2>1. LineHalted(run, n, h, A, i) BY <1>4 DEF LineGoing
  <2> QED BY <1>4, <2>1 DEF LineHalted
<1>5. CASE ~A.stopped
  <2>1. LineAt(run, n, h, A, A.ws, i) BY <1>5 DEF LineGoing, LineHalted
  <2>2. /\ A.ws \in Seq(WriteType) /\ Range(A.ws) \subseteq HeadAdvance /\ Late(A.ws, "head", <<h>>) = <<A.h>>
        /\ A.dropped \subseteq n - i .. n - 1 /\ SourcesOf(A.h) = SourcesOf(h) \o Keep(L, A.dropped)[i]
    BY <1>3, <2>1 DEF LineAt
  <2>3. /\ Keep(L, A.dropped)[i] \in Seq(Names)
        /\ Keep(L, A.dropped)[i + 1] = Append(Keep(L, A.dropped)[i], L[i + 1])
        /\ Keep(L, A.dropped \cup {n - (i + 1)})[i + 1] = Keep(L, A.dropped)[i]
    BY <1>3, <2>2, KeepOne, ZenonT(30)
  <2>4. \A x \in n - i .. n - 1 : x \in n - (i + 1) .. n - 1 OBVIOUS
  <2>5. CASE LineStopped(run, A, i + 1, r)
    <3>1. r.stopped /\ r.h = A.h /\ r.dropped = A.dropped BY <2>5 DEF LineStopped
    <3>2. PICK b : /\ r.ws = A.ws \o b
                   /\ \/ LineStops(run, b, SubSeq(run.todo, i + 1, Len(run.todo)), None)
                      \/ LineStops(run, b, SubSeq(run.todo, (i + 1) + 1, Len(run.todo)), <<run.todo[i + 1]>>)
      BY <2>5 DEF LineStopped
    <3>3. LineLeft(run, n, b, i) BY <3>2 DEF LineLeft
    <3>4. LineAt(run, n, h, r, A.ws, i) BY <2>1, <3>1 DEF LineAt
    <3>5. i \in 0 .. (i + 1) - 1 OBVIOUS
    <3> QED BY <3>1, <3>2, <3>3, <3>4, <3>5 DEF LineHalted
  <2>6. CASE LineDrops(run, A, i + 1, r)
    <3>1. ~r.stopped /\ r.h = A.h /\ r.ws = A.ws /\ r.dropped = A.dropped \cup {n - (i + 1)} BY <2>6 DEF LineDrops
    <3>3. r.dropped \subseteq n - (i + 1) .. n - 1 BY <2>2, <2>4, <3>1
    <3>5. LineAt(run, n, h, r, r.ws, i + 1) BY <2>3, <1>3, <2>2, <3>1, <3>3 DEF LineAt
    <3> QED BY <3>1, <3>5 DEF LineGoing
  <2>7. CASE LineCommits(run, A, i + 1, r)
    <3>1. ~r.stopped /\ r.dropped = A.dropped BY <2>7 DEF LineCommits
    <3>2. PICK c \in CommitType : c.src = L[i + 1] /\ r.h = Append(A.h, c) BY <1>3, <2>7 DEF LineCommits
    <3>3. r.h \in Histories /\ A.h \in Histories /\ A.h \in Seq(CommitType) /\ h \in Seq(CommitType) BY <1>2, AccIs, HistoryIs
    <3>4. PICK u \in SUBSET Patches : u = Tree(r.h) BY <3>3, HistoryIs
    <3>5. PICK v \in WriteType : v = W("index", Clean(u)) /\ v.f = "index" /\ v.v.unmerged = "no" BY IndexWrite, CleanIs
    <3>6. PICK w \in WriteType : w = W("head", <<r.h>>) /\ w.f = "head" /\ w.v = <<r.h>> BY <3>3, WriteIs, KindsAre, FieldsAre, MaybeIs DEF HistoryFiles
    <3>7. PICK q : q = <<v, w>> OBVIOUS
    <3>8. q \in Seq(WriteType) /\ Range(q) = {v, w} /\ \A f, x : Late(q, f, x) = Put(w, f, Put(v, f, x)) BY <3>7, Two
    <3>9. \A x : Late(q, "head", x) = <<r.h>> BY <3>6, <3>8, PutIs, SMTT(30)
    <3>10. r.ws = A.ws \o q BY <2>7, <3>4, <3>5, <3>6, <3>7 DEF LineCommits
    <3>11. A.ws \o q \in Seq(WriteType) /\ Range(A.ws \o q) = Range(A.ws) \cup Range(q) /\ \A f, x : Late(A.ws \o q, f, x) = Late(q, f, Late(A.ws, f, x)) BY <2>2, <3>8, Join
    <3>12. Late(r.ws, "head", <<h>>) = <<r.h>> BY <3>9, <3>10, <3>11, ZenonT(40)
    <3>13. v \in HeadAdvance /\ w \in HeadAdvance BY <3>5, <3>6, Something DEF HeadAdvance
    <3>14. r.ws \in Seq(WriteType) /\ Range(r.ws) \subseteq HeadAdvance BY <2>2, <3>8, <3>10, <3>11, <3>13
    <3>15. r.dropped \subseteq n - (i + 1) .. n - 1 BY <2>2, <2>4, <3>1
    <3>16. SourcesOf(r.h) = SourcesOf(h) \o Keep(L, r.dropped)[i + 1]
      <4>1. SourcesOf(r.h) = Append(SourcesOf(A.h), L[i + 1]) BY <3>2, <3>3, SourcesAre
      <4>2. PICK p \in Seq(Names) : p = SourcesOf(h) BY <3>3, SourcesAre
      <4>3. PICK k \in Seq(Names) : k = Keep(L, A.dropped)[i] BY <2>3
      <4>4. PICK e \in Names : e = L[i + 1]
        <5>1. i + 1 \in 1 .. n OBVIOUS
        <5> QED BY <1>3, <5>1, ElementOfSeq
      <4>5. Append(p \o k, e) = p \o Append(k, e)
        <5>1. PICK x : x = <<e>> OBVIOUS
        <5>2. p \o k \in Seq(Names) BY ConcatProperties
        <5>4. x \in Seq(Names) BY <5>1
        <5>6. PICK y \in Seq(Names) : y = x BY <5>4
        <5>7. (p \o k) \o y = p \o (k \o y) BY ConcatAssociative, SMTT(30)
        <5>5. (p \o k) \o x = p \o (k \o x) BY <5>6, <5>7
        <5> QED BY <5>1, <5>2, AppendIsConcat, <5>5
      <4> QED BY <2>2, <2>3, <3>1, <4>1, <4>2, <4>3, <4>4, <4>5
    <3>17. LineAt(run, n, h, r, r.ws, i + 1) BY <1>3, <3>12, <3>14, <3>15, <3>16 DEF LineAt
    <3> QED BY <3>1, <3>17 DEF LineGoing
  <2> QED BY <1>2, <1>5, <2>5, <2>6, <2>7
<1> QED BY <1>2, <1>4, <1>5

LEMMA LinesEnd ==
  ASSUME NEW run \in LineType, NEW h \in Histories, NEW blocked, NEW n \in Nat, n = Len(run.todo),
         NEW end, end = Lines(run, h, blocked)[n]
  PROVE  end \in AccType /\ (LineGoing(run, n, h, end, n) \/ LineHalted(run, n, h, end, n))
<1>1. PICK acc : acc = Lines(run, h, blocked) OBVIOUS
<1>2. /\ acc \in [0 .. n -> AccType] /\ acc[0] = Fresh(h)
      /\ \A i \in 1 .. n : acc[i] = ReplayLine(run, acc[i - 1], i, blocked)
  BY <1>1, LinesAre
<1> DEFINE T == {i \in 0 .. n : LineGoing(run, n, h, acc[i], i) \/ LineHalted(run, n, h, acc[i], i)}
<1>3. 0 \in T
  <2>1. PICK F : F = Fresh(h) OBVIOUS
  <2>2. F.h = h /\ F.ws = <<>> /\ F.dropped = {} /\ ~F.stopped BY <2>1, FreshIs
  <2>3. run.todo \in Seq(CommitType) /\ h \in Seq(CommitType) BY HistoryIs DEF LineType
  <2>4. PICK L \in Seq(Names) : L = SourcesOf(run.todo) /\ Len(L) = n BY <2>3, SourcesAre
  <2>5. PICK a : a = Keep(L, {}) OBVIOUS
  <2>6. KeepSteps(L, {}, n, a) BY <2>4, <2>5, KeepIs
  <2>7. a[0] = <<>> BY <2>6 DEF KeepSteps
  <2>8. PICK p \in Seq(Names) : p = SourcesOf(h) BY <2>3, SourcesAre
  <2>9. p \o <<>> = p BY ConcatEmptySeq
  <2>10. SourcesOf(h) = SourcesOf(h) \o Keep(SourcesOf(run.todo), {})[0] BY <2>4, <2>5, <2>7, <2>8, <2>9
  <2>11. LineAt(run, n, h, F, <<>>, 0) BY <2>2, <2>10, NoneIs DEF LineAt
  <2>12. LineGoing(run, n, h, F, 0) BY <2>2, <2>11 DEF LineGoing
  <2> QED BY <1>2, <2>1, <2>12
<1>4. ASSUME NEW i \in 0 .. n - 1, i \in T PROVE i + 1 \in T
  <2>1. i + 1 \in 1 .. n /\ i + 1 \in 0 .. n /\ (i + 1) - 1 = i /\ i \in 0 .. n OBVIOUS
  <2>2. PICK A \in AccType : A = acc[i] BY <1>2, <2>1
  <2>3. PICK r : r = acc[i + 1] OBVIOUS
  <2>4. r = ReplayLine(run, A, i + 1, blocked) BY <1>2, <2>1, <2>2, <2>3
  <2>5. LineGoing(run, n, h, A, i) \/ LineHalted(run, n, h, A, i) BY <1>4, <2>2
  <2> QED BY <2>4, <2>5, LineStep, <2>1, <2>3
<1>5. \A i \in 0 .. n : i \in T
  <2> HIDE DEF T
  <2> QED BY <1>3, <1>4, UpTo
<1>6. n \in 0 .. n OBVIOUS
<1> QED BY <1>1, <1>2, <1>5, <1>6


\* How a rebase's replay ends: stopped at a line, done, or unable to move the branch.
FromStops(run, n, h, end, adv, b) ==
  end.stopped /\ \E m \in 0 .. n - 1 : LineAt(run, n, h, end, adv, m) /\ LineLeft(run, n, b, m)
FromEnds(run, n, h, end, adv, b, stash) ==
  ~end.stopped /\ repo.branch = run.orig /\ LineAt(run, n, h, end, adv, n) /\ Finishes(end.h, stash, b)
FromSticks(run, n, h, end, adv, b) ==
  ~end.stopped /\ repo.branch # run.orig /\ LineAt(run, n, h, end, adv, n) /\ b = <<>>

LEMMA FromIs ==
  ASSUME NEW run \in LineType, NEW h \in Histories, NEW blocked, NEW stash \in Maybe(SUBSET Locals), NEW outcome \in ApplyOutcomes,
         NEW n \in Nat, n = Len(run.todo), NEW end, end = ReplayFrom(run, h, blocked, stash, outcome)
  PROVE  /\ end \in AccType
         /\ \E adv, b \in Seq(WriteType) :
              /\ end.ws = adv \o b
              /\ \/ FromStops(run, n, h, end, adv, b)
                 \/ FromEnds(run, n, h, end, adv, b, stash)
                 \/ FromSticks(run, n, h, end, adv, b)
<1>1. PICK e : e = Lines(run, h, blocked)[n] OBVIOUS
<1>2. e \in AccType /\ (LineGoing(run, n, h, e, n) \/ LineHalted(run, n, h, e, n)) BY <1>1, LinesEnd
<1>3. CASE e.stopped
  <2>1. end = e BY <1>1, <1>3 DEF ReplayFrom
  <2>2. LineHalted(run, n, h, e, n) BY <1>2, <1>3 DEF LineGoing
  <2>3. PICK adv, b : \E m \in 0 .. n - 1 : LineAt(run, n, h, e, adv, m) /\ LineLeft(run, n, b, m) /\ e.ws = adv \o b BY <2>2 DEF LineHalted
  <2>5. adv \in Seq(WriteType) BY <2>3 DEF LineAt
  <2>6. b \in Seq(WriteType) BY <2>3 DEF LineLeft, LineStops
  <2> QED BY <1>3, <2>3, <1>2, <2>1, <2>5, <2>6 DEF FromStops
<1>4. CASE ~e.stopped
  <2>1. LineAt(run, n, h, e, e.ws, n) BY <1>2, <1>4 DEF LineGoing, LineHalted
  <2>2. PICK adv \in Seq(WriteType) : adv = e.ws BY <1>2, AccIs
  <2>3. CASE repo.branch # run.orig
    <3>1. end = e BY <1>1, <2>3 DEF ReplayFrom
    <3>2. FromSticks(run, n, h, end, adv, <<>>) BY <1>4, <2>1, <2>2, <2>3, <3>1 DEF FromSticks
    <3>3. end.ws = adv \o <<>> BY <2>2, <3>1, ConcatEmptySeq
    <3>4. <<>> \in Seq(WriteType) BY NoneIs
    <3> QED BY <1>2, <3>1, <3>2, <3>3, <3>4
  <2>4. CASE repo.branch = run.orig
    <3>1. e.h \in Histories BY <1>2, AccIs
    <3>2. PICK b : b = FinishRebase(e.h, stash, outcome) OBVIOUS
    <3>3. Finishes(e.h, stash, b) /\ b \in Seq(WriteType) BY <3>1, <3>2, FinishIs
    <3>4. end = [e EXCEPT !.ws = @ \o b] BY <1>1, <1>4, <2>4, <3>2 DEF ReplayFrom
    <3>5. PICK ws \in Seq(WriteType) : ws = adv \o b BY <3>3, ConcatProperties
    <3>6. end = [e EXCEPT !.ws = ws] BY <2>2, <3>4, <3>5
    <3>7. end \in AccType /\ end.h = e.h /\ end.ws = ws /\ end.dropped = e.dropped /\ end.stopped = e.stopped BY <1>2, <3>6 DEF AccType
    <3>8. LineAt(run, n, h, end, adv, n) BY <2>1, <2>2, <3>7 DEF LineAt
    <3> QED BY <1>4, <2>4, <3>8, <3>3, <3>5, <3>7 DEF FromEnds
  <2> QED BY <2>3, <2>4
<1> QED BY <1>2, <1>3, <1>4 DEF AccType

\* What the replay of a rebase's lines writes, by how it ends.
MoveTouches == LineNames \cup RebaseDir \cup {"head", "branch"}
MoveNames(run, ws) ==
  /\ ws \in Seq(WriteType)
  /\ \A w \in Range(ws) :
       /\ w.f \in LineNames \cup {"head", "branch", "rebase-merge", "restore", "push"}
       /\ w.f = "index" => w.v.unmerged # "merge"
       /\ w.f = "rbOrig" => w.v = <<run.orig>>
  /\ \A f \in Fields \ MoveTouches : \A x : Late(ws, f, x) = x
MoveStops(run, h, ws) ==
  /\ \A w \in Range(ws) : w.f # "branch"
  /\ Late(ws, "head", <<h>>) # None
  /\ \A x : Late(ws, "branch", x) = x /\ Late(ws, "rbStash", x) = x
  /\ \A x : Late(ws, "rbOrig", x) = <<run.orig>> /\ Late(ws, "rebase", x) # None
Finishing(h, stash, ws) ==
  /\ Saves(ws, Held(stash))
  /\ \A f \in RebaseDir \cup {"rebase"} : \A x : Late(ws, f, x) = None
  /\ \E a, c \in Seq(WriteType), g \in Histories :
       /\ ws = a \o (<<W("branch", g)>> \o c)
       /\ \A w \in Range(a) \cup Range(c) : w.f # "branch"
       /\ Late(a, "head", <<h>>) = <<g>>
MoveEnds(run, h, stash, ws) == repo.branch = run.orig /\ Finishing(h, stash, ws)
MoveSticks(run, h, ws) ==
  /\ repo.branch # run.orig
  /\ \A w \in Range(ws) : w.f # "branch"
  /\ Late(ws, "head", <<h>>) # None
  /\ \A f \in RebaseDir \cup {"rebase", "branch"} : \A x : Late(ws, f, x) = x
\* Less is asked of one that goes on with HEAD attached.
MoveLeaves(run, stash, ws) ==
  \/ \A x : Late(ws, "rbOrig", x) = <<run.orig>> /\ Late(ws, "rebase", x) # None /\ Late(ws, "rbStash", x) = x
  \/ Saves(ws, Held(stash)) /\ \A f \in RebaseDir \cup {"rebase"} : \A x : Late(ws, f, x) = None
  \/ \A f \in RebaseDir \cup {"rebase"} : \A x : Late(ws, f, x) = x
MoveGoes(run, h, stash, ws) ==
  /\ MoveNames(run, ws) /\ MoveLeaves(run, stash, ws)
  /\ repo.head # None => MoveStops(run, h, ws) \/ MoveEnds(run, h, stash, ws) \/ MoveSticks(run, h, ws)

LEMMA HeadAdvanceIs ==
  ASSUME NEW adv \in Seq(WriteType), Range(adv) \subseteq HeadAdvance
  PROVE  /\ \A f \in Fields \ {"index", "head"} : \A x : Late(adv, f, x) = x
         /\ \A w \in Range(adv) : w.f \in {"index", "head"} /\ (w.f = "index" => w.v.unmerged = "no")
<1>1. \A w \in Range(adv) : w.f \in {"index", "head"} /\ (w.f = "index" => w.v.unmerged = "no") BY DEF HeadAdvance
<1>2. ASSUME NEW f \in Fields \ {"index", "head"}, NEW w \in Range(adv) PROVE ~Touches(w, f)
  <2>1. w.f \in {"index", "head"} BY <1>1
  <2>2. Files(w.f) = {w.f} BY <2>1, FilesAre
  <2> QED BY <2>1, <2>2 DEF Touches
<1> QED BY <1>1, <1>2, Unnamed

LEMMA StopMoves ==
  ASSUME NEW run \in LineType, NEW h \in Histories, NEW g \in Histories, NEW left, NEW m,
         NEW adv \in Seq(WriteType), Range(adv) \subseteq HeadAdvance, Late(adv, "head", <<h>>) = <<g>>,
         NEW b, LineStops(run, b, left, m), NEW ws, ws = adv \o b
  PROVE  MoveNames(run, ws) /\ MoveStops(run, h, ws)
<1>1. /\ b \in Seq(WriteType)
      /\ \A w \in Range(b) : w.f \in LineNames /\ (w.f = "index" => w.v.unmerged = "rebase") /\ (w.f = "rbOrig" => w.v = <<run.orig>>)
  BY DEF LineStops
<1>2. \A f \in Fields \ LineNames : \A x : Late(b, f, x) = x BY DEF LineStops
<1>3. \A x : Late(b, "rbOrig", x) = <<run.orig>> /\ Late(b, "rebase", x) # None BY DEF LineStops
<1>4. \A f \in Fields \ {"index", "head"} : \A x : Late(adv, f, x) = x BY HeadAdvanceIs
<1>5. \A w \in Range(adv) : w.f \in {"index", "head"} /\ (w.f = "index" => w.v.unmerged = "no") BY HeadAdvanceIs
<1>6. ws \in Seq(WriteType) /\ Range(ws) = Range(adv) \cup Range(b) BY <1>1, Join
<1>7. \A f, x : Late(ws, f, x) = Late(b, f, Late(adv, f, x)) BY <1>1, Join
<1>8. "head" \in Fields \ LineNames /\ {"branch", "rbStash"} \subseteq (Fields \ LineNames) \cap (Fields \ {"index", "head"}) /\ "index" \in LineNames
  BY FieldsAre DEF LineNames, RebaseFiles
<1>9. MoveNames(run, ws)
  <2>1. \A f \in Fields \ MoveTouches : f \in Fields \ LineNames /\ f \in Fields \ {"index", "head"} BY <1>8 DEF MoveTouches
  <2>2. \A f \in Fields \ MoveTouches : \A x : Late(ws, f, x) = x BY ONLY <1>2, <1>4, <1>7, <2>1
  <2> QED BY <1>1, <1>5, <1>8, <1>6, <2>2 DEF MoveNames
<1>10. MoveStops(run, h, ws)
  <2>1. \A w \in Range(ws) : w.f # "branch" BY <1>1, <1>5, <1>6 DEF LineNames, RebaseFiles
  <2>2. Late(ws, "head", <<h>>) = <<g>> BY <1>2, <1>7, <1>8
  <2>3. \A x : Late(ws, "branch", x) = x /\ Late(ws, "rbStash", x) = x BY <1>2, <1>4, <1>7, <1>8, SMTT(40)
  <2> QED BY <1>3, <1>7, <2>1, <2>2, <2>3, Something DEF MoveStops
<1> QED BY <1>9, <1>10

LEMMA EndMoves ==
  ASSUME NEW run \in LineType, NEW h \in Histories, NEW g \in Histories, NEW stash \in Maybe(SUBSET Locals),
         NEW adv \in Seq(WriteType), Range(adv) \subseteq HeadAdvance, Late(adv, "head", <<h>>) = <<g>>,
         NEW b, Finishes(g, stash, b), NEW ws, ws = adv \o b
  PROVE  MoveNames(run, ws) /\ Finishing(h, stash, ws)
<1>1. PICK c \in Seq(WriteType) :
        /\ b = <<W("branch", g)>> \o c
        /\ Range(c) \subseteq {W("head", None), W("rebase-merge", None), W("rebase", None), W("restore", stash[1]), W("push", stash[1]),
                               W("index", Unmerged(Tree(g), Tree(g), "stash"))}
        /\ Saves(c, Held(stash))
        /\ \A f \in Fields : \A x : f # "index" => Late(c, f, x) = IF f \in {"head", "rebase"} \cup RebaseDir THEN None ELSE x
  BY DEF Finishes
<1>2. PICK u \in WriteType : u = W("branch", g) /\ u.f = "branch" BY WriteIs, KindsAre, FieldsAre
<1>3. PICK d \in Seq(WriteType) : d = <<u>> /\ Range(d) = {u} /\ \A f, x : Late(d, f, x) = Put(u, f, x) BY One
<1>4. b = d \o c BY <1>1, <1>2, <1>3
<1>5. b \in Seq(WriteType) /\ Range(b) = Range(d) \cup Range(c) BY <1>4, Join
<1>6. \A f, x : Late(b, f, x) = Late(c, f, Late(d, f, x)) BY <1>4, Join
<1>7. ASSUME NEW f, f # "branch", NEW x PROVE Late(d, f, x) = x
  <2>1. ~Touches(u, f) BY <1>2, <1>7, FilesAre DEF Touches
  <2> QED BY <1>3, <2>1 DEF Put
<1>8. \A f \in Fields \ {"index", "head"} : \A x : Late(adv, f, x) = x BY HeadAdvanceIs
<1>9. \A w \in Range(adv) : w.f \in {"index", "head"} /\ (w.f = "index" => w.v.unmerged = "no") BY HeadAdvanceIs
<1>10. ws \in Seq(WriteType) /\ Range(ws) = Range(adv) \cup Range(b) BY <1>5, Join
<1>11. \A f, x : Late(ws, f, x) = Late(b, f, Late(adv, f, x)) BY <1>5, Join
<1>12. \A w \in Range(c) : w.f \in {"head", "rebase-merge", "rebase", "restore", "push", "index"} /\ (w.f = "index" => w.v.unmerged = "stash")
  <2>1. \A f, v : W(f, v).f = f /\ W(f, v).v = v BY DEF W
  <2>2. Unmerged(Tree(g), Tree(g), "stash").unmerged = "stash" BY DEF Unmerged
  <2>3. Range(c) \subseteq {W("head", None), W("rebase-merge", None), W("rebase", None), W("restore", stash[1]), W("push", stash[1]),
                            W("index", Unmerged(Tree(g), Tree(g), "stash"))}
    BY <1>1
  <2> QED BY ONLY <2>1, <2>2, <2>3
<1>13. \A f \in Fields \ {"index"} : \A x : Late(c, f, x) = IF f \in {"head", "rebase"} \cup RebaseDir THEN None ELSE x BY <1>1
<1>14. MoveNames(run, ws)
  <2>1. \A f \in Fields \ MoveTouches : f \in Fields \ {"index"} /\ f \in Fields \ {"index", "head"} /\ f # "branch" /\ f \notin {"head", "rebase"} \cup RebaseDir
    BY DEF MoveTouches, LineNames
  <2>2. \A f \in Fields \ MoveTouches : \A x : Late(ws, f, x) = x BY ONLY <1>6, <1>7, <1>8, <1>11, <1>13, <2>1
  <2>4. \A w \in Range(ws) :
         /\ w.f \in LineNames \cup {"head", "branch", "rebase-merge", "restore", "push"}
         /\ w.f = "index" => w.v.unmerged # "merge"
         /\ w.f = "rbOrig" => w.v = <<run.orig>>
    BY <1>2, <1>3, <1>5, <1>9, <1>10, <1>12 DEF LineNames
  <2> QED BY <1>10, <2>2, <2>4 DEF MoveNames
<1>15. Finishing(h, stash, ws)
  <2>1. Saves(ws, Held(stash))
    <3>1. Saves(b, Held(stash)) BY <1>1, <1>4, SavesJoin
    <3> QED BY <1>5, <3>1, SavesJoin
  <2>2. \A f \in RebaseDir \cup {"rebase"} : \A x : Late(ws, f, x) = None
    <3>1. \A f \in RebaseDir \cup {"rebase"} : f \in Fields \ {"index"} /\ f \in {"head", "rebase"} \cup RebaseDir BY FieldsAre DEF RebaseDir
    <3>2. \A f \in RebaseDir \cup {"rebase"} : \A x : Late(c, f, x) = None BY ONLY <1>13, <3>1
    <3> QED BY ONLY <1>6, <1>11, <3>2
  <2>3. ws = adv \o (<<W("branch", g)>> \o c) BY <1>1
  <2> QED BY <1>9, <1>12, <2>1, <2>2, <2>3 DEF Finishing
<1> QED BY <1>14, <1>15

LEMMA StickMoves ==
  ASSUME NEW run \in LineType, NEW h \in Histories, NEW g \in Histories,
         NEW ws \in Seq(WriteType), Range(ws) \subseteq HeadAdvance, Late(ws, "head", <<h>>) = <<g>>
  PROVE  /\ MoveNames(run, ws) /\ (repo.branch # run.orig => MoveSticks(run, h, ws))
         /\ \A f \in RebaseDir \cup {"rebase"} : \A x : Late(ws, f, x) = x
<1>1. \A f \in Fields \ {"index", "head"} : \A x : Late(ws, f, x) = x BY HeadAdvanceIs
<1>2. \A w \in Range(ws) : w.f \in {"index", "head"} /\ (w.f = "index" => w.v.unmerged = "no") BY HeadAdvanceIs
<1>3. "index" \in LineNames BY DEF LineNames
<1>4. MoveNames(run, ws)
  <2> QED BY <1>1, <1>2, <1>3 DEF MoveNames, MoveTouches
<1>5. RebaseDir \cup {"rebase", "branch"} \subseteq Fields \ {"index", "head"} BY FieldsAre DEF RebaseDir
<1> QED BY <1>2, Something, <1>1, <1>4, <1>5 DEF MoveSticks

LEMMA Moves ==
  ASSUME NEW run \in LineType, NEW h \in Histories, NEW blocked, NEW stash \in Maybe(SUBSET Locals), NEW outcome \in ApplyOutcomes,
         NEW end, end = ReplayFrom(run, h, blocked, stash, outcome)
  PROVE  /\ end \in AccType /\ MoveNames(run, end.ws)
         /\ MoveStops(run, h, end.ws) \/ MoveEnds(run, h, stash, end.ws) \/ MoveSticks(run, h, end.ws)
<1>1. PICK n \in Nat : n = Len(run.todo) BY LenProperties DEF LineType
<1>2. end \in AccType BY <1>1, FromIs
<1>3. PICK adv, b \in Seq(WriteType) :
        /\ end.ws = adv \o b
        /\ FromStops(run, n, h, end, adv, b) \/ FromEnds(run, n, h, end, adv, b, stash) \/ FromSticks(run, n, h, end, adv, b)
  BY <1>1, FromIs
<1>4. PICK ws : ws = end.ws OBVIOUS
<1>5. PICK g \in Histories : g = end.h BY <1>2, AccIs
<1>6. CASE FromStops(run, n, h, end, adv, b)
  <2>1. PICK m \in 0 .. n - 1 : LineAt(run, n, h, end, adv, m) /\ LineLeft(run, n, b, m) BY <1>6 DEF FromStops
  <2>3. PICK left, msg : LineStops(run, b, left, msg) BY <2>1 DEF LineLeft
  <2>4. ws = adv \o b BY <1>3, <1>4
  <2>5. MoveNames(run, ws) /\ MoveStops(run, h, ws) BY <1>5, <2>1, <2>3, <2>4, StopMoves DEF LineAt
  <2> QED BY <1>2, <1>4, <2>5
<1>7. CASE FromEnds(run, n, h, end, adv, b, stash)
  <2>2. repo.branch = run.orig /\ Finishes(g, stash, b) BY <1>5, <1>7 DEF FromEnds
  <2>3. ws = adv \o b BY <1>3, <1>4
  <2>4. MoveNames(run, ws) /\ MoveEnds(run, h, stash, ws) BY <1>5, <1>7, <2>2, <2>3, EndMoves DEF MoveEnds, FromEnds, LineAt
  <2> QED BY <1>2, <1>4, <2>4
<1>8. CASE FromSticks(run, n, h, end, adv, b)
  <2>2. repo.branch # run.orig /\ b = <<>> BY <1>8 DEF FromSticks
  <2>3. end.ws = adv BY <1>3, <2>2, ConcatEmptySeq
  <2>4. MoveNames(run, adv) /\ MoveSticks(run, h, adv) BY <1>5, <1>8, <2>2, StickMoves DEF FromSticks, LineAt
  <2> QED BY <1>2, <2>3, <2>4
<1> QED BY <1>3, <1>6, <1>7, <1>8

\* With HEAD attached its writes go to the branch, and nothing else is told apart.
LEMMA OnBranchIs ==
  ASSUME NEW ws \in Seq(WriteType), \A w \in Range(ws) : w.f = "head" => w.v # None, NEW orig, NEW x, x = OnBranch(ws, orig)
  PROVE  /\ x \in Seq(WriteType) /\ \A w \in Range(x) : w \in Range(ws) \/ w.f = "branch"
         /\ \A f : f \notin {"head", "branch"} => \A y : Late(x, f, y) = Late(ws, f, y)
<1>1. DOMAIN x = DOMAIN ws /\ \A i \in DOMAIN ws : x[i] = ws[i] \/ (ws[i].f = "head" /\ x[i] = W("branch", ws[i].v[1])) BY DEF OnBranch
<1>2. PICK n \in Nat : n = Len(ws) /\ DOMAIN ws = 1 .. n BY LenProperties
<1>3. \A i \in DOMAIN ws : ws[i] \in WriteType /\ ws[i] \in Range(ws) BY ElementOfSeq DEF Range
<1>4. ASSUME NEW i \in DOMAIN ws, ws[i].f = "head", x[i] = W("branch", ws[i].v[1]) PROVE x[i] \in WriteType /\ x[i].f = "branch"
  <2>1. ws[i].v \in Maybe(Histories) BY <1>3, <1>4, Written, KindsAre DEF HistoryFiles
  <2>2. ws[i].v[1] \in Histories BY <1>3, <1>4, <2>1, MaybeIs
  <2> QED BY <1>4, <2>2, WriteIs, KindsAre, FieldsAre
<1>5. \A i \in DOMAIN ws : x[i] \in WriteType /\ (x[i] = ws[i] \/ (ws[i].f = "head" /\ x[i].f = "branch")) BY <1>1, <1>3, <1>4
<1>6. x \in Seq(WriteType)
  <2>1. x = [i \in 1 .. n |-> x[i]] BY <1>2 DEF OnBranch
  <2> QED BY <1>2, <1>5, <2>1
<1>7. ASSUME NEW f, f \notin {"head", "branch"}, NEW y PROVE Late(x, f, y) = Late(ws, f, y)
  <2>1. \A i \in DOMAIN ws : x[i] = ws[i] \/ (~Touches(x[i], f) /\ ~Touches(ws[i], f))
    <3> QED BY FilesAre, <1>5, <1>7 DEF Touches
  <2>2. CASE \E j \in DOMAIN ws : Touches(ws[j], f)
    <3>1. PICK j \in DOMAIN ws : Touches(ws[j], f) /\ (\A k \in DOMAIN ws : k > j => ~Touches(ws[k], f)) /\ Late(ws, f, y) = ws[j].v
      BY <2>2, LateIs
    <3> QED BY <2>1, <1>1, <1>6, <3>1, LateIs
  <2>3. CASE \A j \in DOMAIN ws : ~Touches(ws[j], f) BY <1>1, <1>6, <2>1, <2>3, LateIs
  <2> QED BY <2>2, <2>3
<1> QED BY <1>1, <1>3, <1>5, <1>6, <1>7 DEF Range

LEMMA AttachedMoves ==
  ASSUME NEW run \in LineType, NEW h \in Histories, NEW blocked, NEW stash \in Maybe(SUBSET Locals), NEW outcome \in ApplyOutcomes,
         NEW end, end = ReplayAttached(run, h, blocked, stash, outcome)
  PROVE  end \in AccType /\ MoveNames(run, end.ws) /\ MoveLeaves(run, stash, end.ws)
<1>1. PICK n \in Nat : n = Len(run.todo) BY LenProperties DEF LineType
<1>2. PICK e : e = Lines(run, h, blocked)[n] OBVIOUS
<1>3. e \in AccType /\ (LineGoing(run, n, h, e, n) \/ LineHalted(run, n, h, e, n)) BY <1>1, <1>2, LinesEnd
<1>4. PICK g \in Histories : g = e.h BY <1>3, AccIs
<1>5. PICK l \in Seq(WriteType) : l = e.ws BY <1>3, AccIs
<1>6. /\ MoveNames(run, l) /\ \A w \in Range(l) : w.f = "head" => w.v # None
      /\ e.stopped => \A y : Late(l, "rbOrig", y) = <<run.orig>> /\ Late(l, "rebase", y) # None /\ Late(l, "rbStash", y) = y
      /\ ~e.stopped => \A f \in RebaseDir \cup {"rebase"} : \A y : Late(l, f, y) = y
  <2>1. CASE e.stopped
    <3>1. LineHalted(run, n, h, e, n) BY <1>3, <2>1 DEF LineGoing
    <3>2. PICK adv, b, m : LineAt(run, n, h, e, adv, m) /\ LineLeft(run, n, b, m) /\ l = adv \o b BY <1>5, <3>1 DEF LineHalted
    <3>3. PICK left, msg : LineStops(run, b, left, msg) BY <3>2 DEF LineLeft
    <3>4. adv \in Seq(WriteType) /\ Range(adv) \subseteq HeadAdvance /\ Late(adv, "head", <<h>>) = <<g>> BY <1>4, <3>2 DEF LineAt
    <3>5. MoveNames(run, l) /\ MoveStops(run, h, l) BY <3>2, <3>3, <3>4, StopMoves
    <3>6. Range(l) = Range(adv) \cup Range(b) BY <3>2, <3>3, <3>4, Join DEF LineStops
    <3>7. \A w \in Range(b) : w.f # "head" BY <3>3 DEF LineStops, LineNames, RebaseFiles
    <3> QED BY <3>4, <2>1, <3>5, <3>6, <3>7 DEF MoveStops, HeadAdvance
  <2>2. CASE ~e.stopped
    <3>1. LineAt(run, n, h, e, l, n) BY <1>3, <1>5, <2>2 DEF LineGoing, LineHalted
    <3>2. Range(l) \subseteq HeadAdvance /\ Late(l, "head", <<h>>) = <<g>> BY <1>4, <3>1 DEF LineAt
    <3> QED BY <2>2, <3>2, StickMoves DEF HeadAdvance
  <2> QED BY <2>1, <2>2
<1>7. PICK x \in Seq(WriteType) :
        /\ x = OnBranch(l, run.orig) /\ \A w \in Range(x) : w \in Range(l) \/ w.f = "branch"
        /\ \A f : f \notin {"head", "branch"} => \A y : Late(x, f, y) = Late(l, f, y)
  BY <1>6, OnBranchIs
<1>8. MoveNames(run, x)
  <2>1. \A f \in Fields \ MoveTouches : f \notin {"head", "branch"} BY DEF MoveTouches
  <2> QED BY <2>1, <1>6, <1>7 DEF MoveNames
<1>9. PICK f : f = IF e.stopped \/ h # run.orig \/ e.h # h THEN <<>> ELSE FinishRebase(e.h, stash, outcome) OBVIOUS
<1>10. f = <<>> \/ (~e.stopped /\ f = FinishRebase(g, stash, outcome)) BY <1>4, <1>9
<1>11. f = <<>> \/ Finishes(g, stash, f) BY <1>10, FinishIs
<1>12. f \in Seq(WriteType) BY <1>10, FinishIs, NoneIs
<1>13. PICK ws \in Seq(WriteType) : ws = x \o f /\ Range(ws) = Range(x) \cup Range(f) /\ \A i, y : Late(ws, i, y) = Late(f, i, Late(x, i, y))
  BY <1>12, Join
<1>14. end \in AccType /\ end.ws = ws
  <2>1. end = [e EXCEPT !.ws = ws] BY <1>1, <1>2, <1>5, <1>7, <1>9, <1>13 DEF ReplayAttached
  <2> QED BY <1>3, <2>1 DEF AccType
<1>15. CASE f = <<>>
  <2>1. ws = x BY <1>13, <1>15, ConcatEmptySeq
  <2>2. RebaseDir \cup {"rebase"} \subseteq {f1 \in Fields : f1 \notin {"head", "branch"}} /\ {"rbOrig", "rbStash"} \subseteq RebaseDir BY FieldsAre DEF RebaseDir
  <2>3. MoveLeaves(run, stash, x) BY <1>6, <1>7, <2>2 DEF MoveLeaves
  <2> QED BY <1>8, <1>14, <2>1, <2>3
<1>16. CASE f # <<>>
  <2>1. Finishes(g, stash, f) BY <1>11, <1>16
  <2>2. f = <<>> \o f BY <1>12, ConcatEmptySeq
  <2>3. MoveNames(run, f) /\ Finishing(g, stash, f)
    <3> QED BY NoneIs, <2>1, <2>2, EndMoves
  <2>4. MoveNames(run, ws)
    <3> QED BY <1>8, <1>13, <2>3 DEF MoveNames
  <2>5. Saves(ws, Held(stash)) BY <1>12, <1>13, <2>3, SavesJoin DEF Finishing
  <2>6. \A i \in RebaseDir \cup {"rebase"} : \A y : Late(ws, i, y) = None BY <1>13, <2>3 DEF Finishing
  <2> QED BY <1>14, <2>4, <2>5, <2>6 DEF MoveLeaves
<1> QED BY <1>15, <1>16

\* The rest of the lines, however --continue and --skip find HEAD.
LEMMA GoesMoves ==
  ASSUME NEW run \in LineType, run = OnDisk, NEW h \in Histories, NEW blocked, NEW stash \in Maybe(SUBSET Locals), stash = repo.rbStash,
         NEW outcome \in ApplyOutcomes, NEW end, end = ReplayOn(h, blocked, outcome)
  PROVE  end \in AccType /\ MoveGoes(run, h, stash, end.ws)
<1>1. CASE repo.head = None
  <2> QED BY <1>1, AttachedMoves DEF MoveGoes, ReplayOn
<1>2. CASE repo.head # None
  <2>2. PICK ws : ws = end.ws OBVIOUS
  <2>3. end \in AccType /\ MoveNames(run, ws) /\ (MoveStops(run, h, ws) \/ MoveEnds(run, h, stash, ws) \/ MoveSticks(run, h, ws))
    BY <1>2, <2>2, Moves DEF ReplayOn
  <2>4. MoveLeaves(run, stash, ws) BY <2>3 DEF MoveLeaves, MoveStops, MoveEnds, Finishing, MoveSticks
  <2> QED BY <2>2, <2>3, <2>4 DEF MoveGoes
<1> QED BY <1>1, <1>2

LEMMA PrefixIs ==
  ASSUME NEW g \in Seq(CommitType), NEW h \in Seq(CommitType)
  PROVE  CommonPrefix(g, h) \in 0 .. Len(g)
<1>1. PICK l \in Nat : l = Len(g) BY LenProperties
<1>2. PICK k \in Nat : k = Len(h) BY LenProperties
<1> DEFINE T == {n \in 0 .. l : n <= k /\ (n < l /\ n < k => g[n + 1] # h[n + 1])}
           P(n) == /\ n <= Len(h) /\ SubSeq(g, 1, n) = SubSeq(h, 1, n)
                   /\ n < Len(g) /\ n < Len(h) => g[n + 1] # h[n + 1]
<1>3. T # {} /\ T \subseteq Nat
  <2>1. l <= k => l \in T BY <1>1, <1>2
  <2>2. k <= l => k \in T BY <1>1, <1>2
  <2> QED BY <1>1, <1>2, <2>1, <2>2
<1>4. PICK n \in T : \A y \in T : ~(y < n)
  <2> HIDE DEF T
  <2> QED BY <1>3, LeastOf
<1>5. n \in 0 .. l /\ n \in Nat /\ n <= k /\ n <= l /\ (n < l /\ n < k => g[n + 1] # h[n + 1]) BY <1>1
<1>6. ASSUME NEW i \in 1 .. n PROVE g[i] = h[i]
  <2>1. i - 1 \in 0 .. l /\ i - 1 < n /\ i - 1 <= k /\ i - 1 < l /\ i - 1 < k /\ (i - 1) + 1 = i BY <1>5
  <2>2. i - 1 \notin T BY <1>4, <2>1
  <2> QED BY <2>1, <2>2
<1>7. SubSeq(g, 1, n) = SubSeq(h, 1, n)
  <2>1. PICK a : a = SubSeq(g, 1, n) OBVIOUS
  <2>2. PICK b : b = SubSeq(h, 1, n) OBVIOUS
  <2>4. \A i \in 1 .. n : g[i] \in CommitType /\ h[i] \in CommitType BY <1>5, <1>1, <1>2, ElementOfSeq
  <2>5. a \in Seq(CommitType) /\ Len(a) = n /\ \A i \in 1 .. n : a[i] = g[i]
    <3>2. \A i \in 1 .. n - 1 + 1 : a[i] = g[1 + i - 1] BY <1>5, <2>1, <2>4, SubSeqProperties
    <3> QED BY <2>1, <2>4, SubSeqProperties, <1>5, <3>2
  <2>6. b \in Seq(CommitType) /\ Len(b) = n /\ \A i \in 1 .. n : b[i] = h[i]
    <3>2. \A i \in 1 .. n - 1 + 1 : b[i] = h[1 + i - 1] BY <1>5, <2>2, <2>4, SubSeqProperties
    <3> QED BY <2>2, <2>4, SubSeqProperties, <1>5, <3>2
  <2>7. \A i \in 1 .. Len(a) : a[i] = b[i] BY <1>6, <2>5, <2>6
  <2>8. a = b BY <2>5, <2>6, <2>7, SeqEqual
  <2> QED BY <2>1, <2>2, <2>8
<1>8. P(n) BY <1>1, <1>2, <1>5, <1>7
<1>9. CommonPrefix(g, h) = CHOOSE m \in 0 .. Len(g) : P(m) BY DEF CommonPrefix
<1>10. n \in 0 .. Len(g) BY <1>1, <1>5
<1> HIDE DEF P
<1> QED BY <1>8, <1>9, <1>10

LEMMA OwnIs ==
  ASSUME NEW h \in Histories
  PROVE  OwnCommits(h) \in Seq(CommitType)
<1>1. h \in Seq(CommitType) /\ Upstream \in Seq(CommitType) BY HistoryIs, HistoriesAssumption
<1>2. PICK n \in Nat : n = Len(h) BY <1>1, LenProperties
<1>3. PICK cp \in 0 .. n : cp = CommonPrefix(h, Upstream) BY <1>1, <1>2, PrefixIs
<1> DEFINE S == Seq(CommitType)
           Step(i, a) == IF i <= cp THEN <<>> ELSE IF h[i].op = "merge" THEN a ELSE Append(a, h[i])
           step == [p \in (1 .. n) \X S |-> Step(p[1], p[2])]
           Fits(f) == f = [i \in 0 .. n |-> Step(i, f[i - 1])]
<1>4. ASSUME NEW i \in 1 .. n, NEW a \in S PROVE Step(i, a) \in S
  <2>1. h[i] \in CommitType BY <1>1, <1>2, ElementOfSeq
  <2>2. Append(a, h[i]) \in S BY <2>1, AppendProperties
  <2>3. <<>> \in S OBVIOUS
  <2> HIDE DEF S
  <2> QED BY <2>2, <2>3
<1>5. <<>> \in S OBVIOUS
<1> HIDE DEF S
<1>6. step \in [(1 .. n) \X S -> S]
  <2> HIDE DEF Step
  <2> QED BY <1>4
<1>7. PICK f \in [0 .. n -> S] : f[0] = <<>> /\ \A i \in 1 .. n : f[i] = step[<<i, f[i - 1]>>]
  <2> HIDE DEF step
  <2>1. PICK b \in S : b = <<>> BY <1>5
  <2>2. \E f \in [0 .. n -> S] : f[0] = b /\ \A i \in 1 .. n : f[i] = step[<<i, f[i - 1]>>]
    <3>1. step \in StepMaps(n, S) BY <1>6 DEF StepMaps
    <3>2. StepsTaken(n, S, b, step) BY <3>1, Recursion
    <3> QED BY <3>2 DEF StepsTaken
  <2> QED BY <2>1, <2>2
<1>8. Fits(f)
  <2>1. ASSUME NEW i \in 1 .. n PROVE f[i] = Step(i, f[i - 1])
    <3>1. i - 1 \in 0 .. n OBVIOUS
    <3>2. f[i - 1] \in S BY <3>1
    <3>3. PICK p : p = <<i, f[i - 1]>> OBVIOUS
    <3>4. p \in (1 .. n) \X S /\ p[1] = i /\ p[2] = f[i - 1] BY <3>2, <3>3
    <3>5. step[p] = Step(p[1], p[2])
      <4> HIDE DEF Step
      <4> QED BY <3>4
    <3> HIDE DEF step, Step
    <3> QED BY <1>7, <3>3, <3>4, <3>5
  <2>2. f[0] = Step(0, f[0 - 1])
    <3>1. 0 <= cp OBVIOUS
    <3> QED BY <1>7, <3>1
  <2>3. \A i \in 0 .. n : f[i] = Step(i, f[i - 1])
    <3> HIDE DEF Step
    <3> QED BY <2>1, <2>2
  <2> HIDE DEF Step
  <2> QED BY <2>3
<1>9. PICK own : own = CHOOSE g : Fits(g) OBVIOUS
<1>10. OwnCommits(h) = own[n] BY <1>2, <1>3, <1>9 DEF OwnCommits
<1>11. Fits(own)
  <2> HIDE DEF Fits
  <2> QED BY <1>8, <1>9
<1>12. \A i \in 0 .. n : own[i] = Step(i, own[i - 1])
  <2> HIDE DEF Step
  <2> QED BY <1>11
<1>13. \A i \in 0 .. n : own[i] \in S
  <2> DEFINE T == {i \in 0 .. n : own[i] \in S}
  <2>1. 0 \in T
    <3>1. 0 <= cp /\ 0 \in 0 .. n OBVIOUS
    <3>2. own[0] = <<>> BY <1>12, <3>1
    <3> QED BY <1>5, <3>1, <3>2
  <2>2. ASSUME NEW i \in 0 .. n - 1, i \in T PROVE i + 1 \in T
    <3>1. i + 1 \in 1 .. n /\ i + 1 \in 0 .. n /\ (i + 1) - 1 = i OBVIOUS
    <3> HIDE DEF Step
    <3>2. own[i] \in S BY <2>2
    <3>3. own[i + 1] = Step(i + 1, own[i]) BY <1>12, <3>1
    <3>4. Step(i + 1, own[i]) \in S BY <1>4, <3>1, <3>2
    <3> QED BY <3>1, <3>3, <3>4
  <2>3. \A i \in 0 .. n : i \in T
    <3> HIDE DEF T
    <3> QED BY <2>1, <2>2, UpTo
  <2> QED BY <2>3
<1>14. n \in 0 .. n OBVIOUS
<1> QED BY <1>10, <1>13, <1>14 DEF S

------------------------------
(* How far a list has got. *)

LEMMA AppendOnto == \A a, b \in Seq(Names), e \in Names : Append(a \o b, e) = a \o Append(b, e)
<1> SUFFICES ASSUME NEW a \in Seq(Names), NEW b \in Seq(Names), NEW e \in Names
             PROVE  Append(a \o b, e) = a \o Append(b, e)
  OBVIOUS
<1>1. PICK x : x = <<e>> OBVIOUS
<1>2. x \in Seq(Names)
  <2>1. <<e>> \in Seq(Names) BY SMT
  <2> QED BY <1>1, <2>1
<1>3. a \o b \in Seq(Names) BY ConcatProperties
<1>5. (a \o b) \o x = a \o (b \o x) BY <1>2, ConcatAssociative, SMTT(30)
<1> QED BY <1>1, <1>3, AppendIsConcat, <1>5

\* What follows the first k of a list.
LEMMA RestIs ==
  ASSUME NEW S, NEW P \in Seq(S), NEW N \in Nat, N = Len(P), NEW k \in 0 .. N, NEW L, L = SubSeq(P, k + 1, N)
  PROVE  L \in Seq(S) /\ Len(L) = N - k /\ \A i \in 1 .. N - k : L[i] = P[k + i]
<1>1. PICK a \in Int : a = k + 1 OBVIOUS
<1>2. \A i \in a .. N : P[i] \in S
  <2>1. \A i \in a .. N : i \in 1 .. N BY <1>1
  <2> QED BY <2>1, ElementOfSeq
<1>3. L \in Seq(S) /\ Len(L) = IF a <= N THEN N - a + 1 ELSE 0 BY <1>1, <1>2, SubSeqProperties
<1>5. Len(L) = N - k BY <1>1, <1>3
<1>6. ASSUME NEW i \in 1 .. N - k PROVE L[i] = P[k + i]
  <2>1. i \in 1 .. N - a + 1 /\ a + i - 1 = k + i BY <1>1
  <2> QED BY <1>1, <1>2, SubSeqProperties, <2>1
<1> QED BY <1>3, <1>5, <1>6

LEMMA RestOfRest ==
  ASSUME NEW S, NEW P \in Seq(S), NEW N \in Nat, N = Len(P), NEW k \in 0 .. N, NEW L, L = SubSeq(P, k + 1, N),
         NEW n, n = N - k, NEW m \in 0 .. n
  PROVE  SubSeq(L, m + 1, n) = SubSeq(P, (k + m) + 1, N)
<1>1. L \in Seq(S) /\ Len(L) = n /\ \A i \in 1 .. n : L[i] = P[k + i] BY RestIs
<1>2. n \in Nat /\ k + m \in 0 .. N OBVIOUS
<1>3. PICK a : a = SubSeq(L, m + 1, n) OBVIOUS
<1>4. PICK b : b = SubSeq(P, (k + m) + 1, N) OBVIOUS
<1>5. a \in Seq(S) /\ Len(a) = n - m /\ \A i \in 1 .. n - m : a[i] = L[m + i]
  BY ONLY <1>1, <1>2, <1>3, m \in 0 .. n, RestIs
<1>6. PICK j \in 0 .. N : j = k + m BY <1>2
<1>7. b \in Seq(S) /\ Len(b) = N - j /\ \A i \in 1 .. N - j : b[i] = P[j + i]
  <2>1. b = SubSeq(P, j + 1, N) BY <1>4, <1>6
  <2>3. j \in 0 .. N BY <1>6
  <2> QED BY <2>1, <2>3, RestIs
<1>8. N - j = n - m BY <1>6
<1>9. ASSUME NEW i \in 1 .. n - m PROVE a[i] = b[i]
  <2>1. m + i \in 1 .. n /\ k + (m + i) = j + i BY <1>2, <1>6
  <2> QED BY <1>1, <1>5, <1>7, <1>8, <2>1
<1>10. a = b BY <1>5, <1>7, <1>8, <1>9, SeqEqual
<1> QED BY <1>3, <1>4, <1>10

\* D has none of the lines after the k-th of N.
Behind(D, N, k) == \A i \in k + 1 .. N : N - i \notin D

\* Dropping lines of what is left changes nothing before.
KeepsOn(P, D, L, E, k, n) == \A m \in 0 .. n : Keep(P, D \cup E)[k + m] = Keep(P, D)[k] \o Keep(L, E)[m]
LEMMA KeepMore ==
  ASSUME NEW P \in Seq(Names), NEW N \in Nat, N = Len(P), NEW k \in 0 .. N, NEW L, L = SubSeq(P, k + 1, N), NEW n, n = N - k,
         NEW D, Behind(D, N, k), NEW E, E \subseteq 0 .. n - 1
  PROVE  KeepsOn(P, D, L, E, k, n)
<1>1. L \in Seq(Names) /\ Len(L) = n /\ \A i \in 1 .. n : L[i] = P[k + i] BY RestIs
<1>2. n \in Nat OBVIOUS
<1>3. PICK F : F = D \cup E OBVIOUS
<1>4. PICK a : a = Keep(P, F) OBVIOUS
<1>5. PICK d : d = Keep(P, D) OBVIOUS
<1>6. PICK e : e = Keep(L, E) OBVIOUS
<1>7. a \in [0 .. N -> Seq(Names)] /\ \A i \in 1 .. N : a[i] = IF N - i \in F THEN a[i - 1] ELSE Append(a[i - 1], P[i])
  <2>1. KeepSteps(P, F, N, a) BY <1>4, KeepIs
  <2> QED BY <2>1 DEF KeepSteps
<1>8. d \in [0 .. N -> Seq(Names)]
  <2>1. KeepSteps(P, D, N, d) BY <1>5, KeepIs
  <2> QED BY <2>1 DEF KeepSteps
<1>9. e \in [0 .. n -> Seq(Names)] /\ e[0] = <<>> /\ \A i \in 1 .. n : e[i] = IF n - i \in E THEN e[i - 1] ELSE Append(e[i - 1], L[i])
  <2>1. KeepSteps(L, E, n, e) BY <1>1, <1>2, <1>6, KeepIs
  <2> QED BY <2>1 DEF KeepSteps
<1>10. a[k] = d[k]
  <2>2. \A i \in 1 .. k : N - i \in F <=> N - i \in D BY <1>3
  <2>3. Agree(F, D, N, k) BY <2>2 DEF Agree
  <2> QED BY <1>4, <1>5, <2>3, KeepAgree
<1>11. PICK b \in Seq(Names) : b = d[k] BY <1>8
<1> DEFINE T == {m \in 0 .. n : a[k + m] = b \o e[m]}
<1>12. 0 \in T
  <2>1. b \o <<>> = b BY ConcatEmptySeq
  <2>2. k + 0 = k /\ 0 \in 0 .. n OBVIOUS
  <2> QED BY <1>9, <1>10, <1>11, <2>1, <2>2
<1>13. ASSUME NEW m \in 0 .. n - 1, m \in T PROVE m + 1 \in T
  <2>1. m + 1 \in 1 .. n /\ (m + 1) - 1 = m /\ m \in 0 .. n OBVIOUS
  <2>2. PICK j \in 1 .. N : j = k + (m + 1) /\ j - 1 = k + m /\ N - j = n - (m + 1) /\ j \in k + 1 .. N OBVIOUS
  <2>4. e[m + 1] = IF n - (m + 1) \in E THEN e[m] ELSE Append(e[m], L[m + 1]) BY <1>9, <2>1
  <2>5. N - j \in F <=> n - (m + 1) \in E
    <3>1. N - j \notin D BY <2>2 DEF Behind
    <3> QED BY <1>3, <2>2, <3>1
  <2>6. a[j - 1] = b \o e[m] BY <1>13, <2>2
  <2>7. L[m + 1] = P[j] BY <1>1, <2>1, <2>2
  <2>8. L[m + 1] \in Names BY <1>1, <1>2, <2>1, ElementOfSeq
  <2>9. e[m] \in Seq(Names) BY <1>9, <2>1
  <2>10. Append(b \o e[m], L[m + 1]) = b \o Append(e[m], L[m + 1]) BY <2>8, <2>9, AppendOnto
  <2>11. a[j] = b \o e[m + 1] BY <1>7, <2>4, <2>5, <2>6, <2>7, <2>10
  <2> QED BY <2>1, <2>2, <2>11
<1>14. \A m \in 0 .. n : m \in T
  <2> HIDE DEF T
  <2> QED BY <1>2, <1>12, <1>13, UpTo
<1>15. \A m \in 0 .. n : a[k + m] = b \o e[m] BY <1>14
<1> QED BY <1>3, <1>4, <1>5, <1>6, <1>11, <1>15 DEF KeepsOn

\* Nothing dropped, nothing lost.
LEMMA KeepPlain ==
  ASSUME NEW L \in Seq(Names), NEW n \in Nat, n = Len(L)
  PROVE  /\ \A m \in 0 .. n : /\ Keep(L, {})[m] \in Seq(Names) /\ Len(Keep(L, {})[m]) = m
                              /\ \A j \in 1 .. m : Keep(L, {})[m][j] = L[j]
         /\ Keep(L, {})[n] = L
<1>1. PICK e : e = Keep(L, {}) OBVIOUS
<1>2. e \in [0 .. n -> Seq(Names)] /\ e[0] = <<>> /\ \A i \in 1 .. n : e[i] = Append(e[i - 1], L[i])
  <2>1. KeepSteps(L, {}, n, e) BY <1>1, KeepIs
  <2> QED BY <2>1 DEF KeepSteps
<1> DEFINE T == {m \in 0 .. n : Len(e[m]) = m /\ \A j \in 1 .. m : e[m][j] = L[j]}
<1>3. 0 \in T BY <1>2
<1>4. ASSUME NEW m \in 0 .. n - 1, m \in T PROVE m + 1 \in T
  <2>1. m + 1 \in 1 .. n /\ m + 1 \in 0 .. n /\ (m + 1) - 1 = m /\ m \in 0 .. n /\ m \in Nat OBVIOUS
  <2>2. PICK s \in Seq(Names) : s = e[m] /\ Len(s) = m /\ \A j \in 1 .. m : s[j] = L[j] BY <1>2, <1>4, <2>1
  <2>3. PICK x \in Names : x = L[m + 1] BY <2>1, ElementOfSeq
  <2>4. PICK t : t = Append(s, x) OBVIOUS
  <2>5. Len(t) = Len(s) + 1 /\ (\A j \in 1 .. Len(s) : t[j] = s[j]) /\ t[Len(s) + 1] = x BY <2>4, AppendProperties
  <2>6. e[m + 1] = t BY <1>2, <2>1, <2>2, <2>3, <2>4
  <2>7. ASSUME NEW j \in 1 .. m + 1 PROVE t[j] = L[j]
    <3>1. CASE j = m + 1 BY <2>2, <2>3, <2>5, <3>1
    <3>2. CASE j \in 1 .. m BY <2>2, <2>5, <3>2
    <3> QED BY <2>1, <3>1, <3>2
  <2> QED BY <2>1, <2>2, <2>5, <2>6, <2>7
<1>5. \A m \in 0 .. n : m \in T
  <2> HIDE DEF T
  <2> QED BY <1>3, <1>4, UpTo
<1>6. \A m \in 0 .. n : e[m] \in Seq(Names) /\ Len(e[m]) = m /\ \A j \in 1 .. m : e[m][j] = L[j] BY <1>2, <1>5
<1>7. e[n] = L
  <2>1. PICK s \in Seq(Names) : s = e[n] /\ Len(s) = n /\ \A j \in 1 .. n : s[j] = L[j] BY <1>6
  <2>2. s = L BY <2>1, SeqEqual
  <2> QED BY <2>1, <2>2
<1> QED BY <1>1, <1>6, <1>7

\* History h holds base sources and then those of the list's first k lines, less
\* the ones in D; none of D is among the lines that follow.
Done(P, D, base, h, k) ==
  /\ k \in 0 .. Len(P) /\ Behind(D, Len(P), k)
  /\ \E x \in Seq(Names) : Len(x) = base /\ SourcesOf(h) = x \o Keep(P, D)[k]

LEMMA BeyondIs ==
  ASSUME NEW h \in Seq(CommitType), NEW x \in Seq(Names), NEW K \in Seq(Names), SourcesOf(h) = x \o K,
         NEW base \in Nat, base = Len(x)
  PROVE  Beyond(h, base) = K
<1>1. PICK n \in Nat : n = Len(h) BY LenProperties
<1>2. PICK e \in Nat : e = Len(K) BY LenProperties
<1>3. PICK s \in Seq(Names) : s = SourcesOf(h) /\ Len(s) = n /\ \A i \in 1 .. n : s[i] = h[i].src BY <1>1, SourcesAre
<1>4. Len(x \o K) = base + e /\ \A i \in 1 .. base + e : (x \o K)[i] = IF i <= base THEN x[i] ELSE K[i - base]
  BY <1>2, ConcatProperties
<1>5. n = base + e /\ base \in 0 .. n /\ n - base = e BY <1>3, <1>4
<1>6. PICK g : g = SubSeq(h, base + 1, n) OBVIOUS
<1>7. g \in Seq(CommitType) /\ Len(g) = e /\ \A i \in 1 .. e : g[i] = h[base + i]
  <2>1. g \in Seq(CommitType) /\ Len(g) = n - base /\ \A i \in 1 .. n - base : g[i] = h[base + i]
    <3>1. base \in 0 .. n BY <1>5
    <3> QED BY ONLY h \in Seq(CommitType), <1>1, <1>6, <3>1, RestIs
  <2> QED BY <1>5, <2>1
<1>8. PICK t \in Seq(Names) : t = SourcesOf(g) /\ Len(t) = e /\ \A i \in 1 .. e : t[i] = g[i].src BY <1>7, SourcesAre
<1>9. ASSUME NEW i \in 1 .. e PROVE t[i] = K[i]
  <2>1. base + i \in 1 .. n /\ ~(base + i <= base) /\ (base + i) - base = i BY <1>5
  <2>2. s[base + i] = K[i] BY <1>3, <1>4, <1>5, <2>1
  <2>3. s[base + i] = h[base + i].src BY <1>3, <2>1
  <2> QED BY <1>7, <1>8, <2>2, <2>3
<1>10. t = K BY <1>2, <1>8, <1>9, SeqEqual
<1> QED BY <1>1, <1>6, <1>8, <1>10 DEF Beyond

\* A list starts with none of its lines done.
LEMMA DoneZero ==
  ASSUME NEW P \in Seq(Names), NEW h \in Seq(CommitType)
  PROVE  Done(P, {}, Len(h), h, 0)
<1>1. PICK N \in Nat : N = Len(P) BY LenProperties
<1>2. PICK x \in Seq(Names) : x = SourcesOf(h) /\ Len(x) = Len(h) BY SourcesAre
<1>3. Keep(P, {})[0] = <<>>
  <2>1. PICK a : a = Keep(P, {}) OBVIOUS
  <2>2. KeepSteps(P, {}, N, a) BY <1>1, <2>1, KeepIs
  <2> QED BY <2>1, <2>2 DEF KeepSteps
<1>4. x \o <<>> = x BY ConcatEmptySeq
<1>5. 0 \in 0 .. N BY <1>1
<1>6. Behind({}, N, 0) BY DEF Behind
<1> QED BY <1>1, <1>2, <1>3, <1>4, <1>5, <1>6 DEF Done

\* m more lines done, but for those in E.
LEMMA DoneLines ==
  ASSUME NEW P \in Seq(Names), NEW D, NEW base \in Nat, NEW h \in Seq(CommitType), NEW k, Done(P, D, base, h, k),
         NEW N \in Nat, N = Len(P), NEW L, L = SubSeq(P, k + 1, N), NEW n, n = N - k,
         NEW m \in 0 .. n, NEW E, E \subseteq n - m .. n - 1,
         NEW g, SourcesOf(g) = SourcesOf(h) \o Keep(L, E)[m]
  PROVE  Done(P, D \cup E, base, g, k + m)
<1>1. k \in 0 .. N /\ Behind(D, N, k) BY DEF Done
<1>2. PICK x \in Seq(Names) : Len(x) = base /\ SourcesOf(h) = x \o Keep(P, D)[k] BY DEF Done
<1>3. n \in Nat /\ E \subseteq 0 .. n - 1 /\ k + m \in 0 .. N BY <1>1
<1>4. L \in Seq(Names) /\ Len(L) = n BY <1>1, RestIs
<1>5. PICK a \in Seq(Names) : a = Keep(P, D)[k]
  <2>1. PICK f : f = Keep(P, D) OBVIOUS
  <2>2. KeepSteps(P, D, N, f) BY <2>1, KeepIs
  <2> QED BY <1>1, <2>1, <2>2 DEF KeepSteps
<1>6. PICK b \in Seq(Names) : b = Keep(L, E)[m]
  <2>1. PICK f : f = Keep(L, E) OBVIOUS
  <2>2. KeepSteps(L, E, n, f) BY <1>3, <1>4, <2>1, KeepIs
  <2> QED BY <2>1, <2>2 DEF KeepSteps
<1>7. Keep(P, D \cup E)[k + m] = a \o b
  <2>1. KeepsOn(P, D, L, E, k, n) BY <1>1, <1>3, KeepMore
  <2> QED BY <1>5, <1>6, <2>1 DEF KeepsOn
<1>8. (x \o a) \o b = x \o (a \o b) BY ConcatAssociative, SMTT(30)
<1>9. SourcesOf(g) = x \o Keep(P, D \cup E)[k + m] BY <1>2, <1>5, <1>6, <1>7, <1>8
<1>10. ASSUME NEW i \in (k + m) + 1 .. N PROVE N - i \notin D \cup E
  <2>1. i \in k + 1 .. N /\ N - i \notin n - m .. n - 1 BY <1>1
  <2> QED BY <1>1, <2>1 DEF Behind
<1>11. Behind(D \cup E, N, k + m) BY <1>10 DEF Behind
<1> QED BY <1>2, <1>3, <1>9, <1>11 DEF Done

\* m more lines, each of them a commit.
LEMMA DoneMore ==
  ASSUME NEW P \in Seq(Names), NEW D, NEW base \in Nat, NEW h \in Seq(CommitType), NEW k, Done(P, D, base, h, k),
         NEW N \in Nat, N = Len(P), NEW L, L = SubSeq(P, k + 1, N), NEW n, n = N - k,
         NEW m \in 0 .. n, NEW g \in Seq(CommitType), Carries(g, h, L, 0, m)
  PROVE  Done(P, D, base, g, k + m)
<1>1. k \in 0 .. N BY DEF Done
<1>2. L \in Seq(Names) /\ Len(L) = n /\ n \in Nat BY <1>1, RestIs
<1>3. PICK b \in Seq(Names) : b = Keep(L, {})[m] /\ Len(b) = m /\ \A j \in 1 .. m : b[j] = L[j]
  <2>1. \A i \in 0 .. n : /\ Keep(L, {})[i] \in Seq(Names) /\ Len(Keep(L, {})[i]) = i
                         /\ \A j \in 1 .. i : Keep(L, {})[i][j] = L[j]
    BY <1>2, KeepPlain
  <2> QED BY <2>1
<1>4. PICK l \in Nat : l = Len(h) BY LenProperties
<1>5. Len(g) = l + m /\ (\A j \in 1 .. l : g[j] = h[j]) /\ \A j \in 1 .. m : g[l + j].src = L[j]
  BY <1>2, <1>4 DEF Carries
<1>6. PICK s \in Seq(Names) : s = SourcesOf(h) /\ Len(s) = l /\ \A i \in 1 .. l : s[i] = h[i].src BY <1>4, SourcesAre
<1>7. PICK t \in Seq(Names) : t = SourcesOf(g) /\ Len(t) = l + m /\ \A i \in 1 .. l + m : t[i] = g[i].src BY <1>5, SourcesAre
<1>8. PICK u \in Seq(Names) : u = s \o b BY ConcatProperties
<1>9. Len(u) = l + m /\ \A i \in 1 .. l + m : u[i] = IF i <= l THEN s[i] ELSE b[i - l]
  <2>1. /\ Len(s \o b) = Len(s) + Len(b)
        /\ \A i \in 1 .. Len(s) + Len(b) : (s \o b)[i] = IF i <= Len(s) THEN s[i] ELSE b[i - Len(s)]
    BY ConcatProperties
  <2> QED BY ONLY <1>3, <1>6, <1>8, <2>1
<1>10. ASSUME NEW i \in 1 .. l + m PROVE t[i] = u[i]
  <2>1. CASE i <= l
    <3>1. i \in 1 .. l BY <1>2, <2>1
    <3>2. i \in 1 .. l + m BY <1>2
    <3>3. u[i] = s[i] BY <1>9, <2>1, <3>2
    <3>4. s[i] = h[i].src /\ g[i] = h[i] BY <1>5, <1>6, <3>1
    <3>5. t[i] = g[i].src BY <1>7, <3>2
    <3> QED BY <3>3, <3>4, <3>5
  <2>2. CASE ~(i <= l)
    <3>1. PICK j \in 1 .. m : j = i - l /\ l + j = i BY <1>2, <2>2
    <3>2. u[i] = b[j] BY <1>9, <2>2, <3>1
    <3>3. t[i] = L[j] BY <1>5, <1>7, <3>1
    <3> QED BY <1>3, <3>2, <3>3
  <2> QED BY <2>1, <2>2
<1>11. t = u BY <1>7, <1>8, <1>9, <1>10, SeqEqual
<1>12. SourcesOf(g) = SourcesOf(h) \o Keep(L, {})[m] BY <1>3, <1>6, <1>7, <1>8, <1>11
<1>13. PICK E : E = {} OBVIOUS
<1>14. Done(P, D \cup E, base, g, k + m)
  <2> QED BY <1>12, <1>13, DoneLines
<1>15. D \cup E = D BY <1>13
<1> QED BY <1>14, <1>15

\* One more line, committed.
LEMMA DoneOne ==
  ASSUME NEW P \in Seq(Names), NEW D, NEW base \in Nat, NEW h \in Seq(CommitType), NEW k, Done(P, D, base, h, k),
         NEW N \in Nat, N = Len(P), k < N, NEW c \in CommitType, c.src = P[k + 1]
  PROVE  Done(P, D, base, Append(h, c), k + 1)
<1>1. k \in 0 .. N BY DEF Done
<1>2. PICK L : L = SubSeq(P, k + 1, N) OBVIOUS
<1>3. PICK n : n = N - k /\ n \in Nat BY <1>1
<1>4. L[1] = P[k + 1] /\ 1 \in 0 .. n
  <2>1. 1 \in 1 .. n BY <1>1, <1>3
  <2>2. \A i \in 1 .. n : L[i] = P[k + i] BY <1>1, <1>2, <1>3, RestIs
  <2> QED BY <2>1, <2>2
<1>5. PICK g \in Seq(CommitType) : g = Append(h, c) BY AppendProperties
<1>6. PICK l \in Nat : l = Len(h) BY LenProperties
<1>7. Len(g) = l + 1 /\ (\A j \in 1 .. l : g[j] = h[j]) /\ g[l + 1] = c BY <1>5, <1>6, AppendProperties
<1>8. Carries(g, h, L, 0, 1)
  <2>1. g \in Histories BY <1>7, EmptySeq DEF Histories
  <2>3. Len(g) = l + 1 - 0 BY <1>7
  <2> QED BY <1>4, <1>6, <1>7, <2>1, <2>3 DEF Carries
<1>9. Done(P, D, base, g, k + 1) BY <1>2, <1>3, <1>4, <1>8, DoneMore
<1> QED BY <1>5, <1>9

\* One more line, passed over.
LEMMA DoneSkip ==
  ASSUME NEW P \in Seq(Names), NEW D, NEW base \in Nat, NEW h \in Seq(CommitType), NEW k, Done(P, D, base, h, k),
         NEW N \in Nat, N = Len(P), k < N
  PROVE  Done(P, D \cup {N - (k + 1)}, base, h, k + 1)
<1>1. k \in 0 .. N BY DEF Done
<1>2. PICK L : L = SubSeq(P, k + 1, N) OBVIOUS
<1>3. PICK n : n = N - k /\ n \in Nat BY <1>1
<1>4. PICK E : E = {N - (k + 1)} OBVIOUS
<1>5. 1 \in 0 .. n /\ E \subseteq n - 1 .. n - 1 /\ n - 1 \in E BY <1>1, <1>3, <1>4
<1>6. Keep(L, E)[1] = <<>>
  <2>1. L \in Seq(Names) /\ Len(L) = n BY <1>1, <1>2, <1>3, RestIs
  <2>2. PICK a : a = Keep(L, E) OBVIOUS
  <2>3. KeepSteps(L, E, n, a) BY <1>3, <2>1, <2>2, KeepIs
  <2>4. 1 \in 1 .. n /\ 1 - 1 = 0 BY <1>5
  <2> QED BY <1>5, <2>2, <2>3, <2>4 DEF KeepSteps
<1>7. SourcesOf(h) = SourcesOf(h) \o Keep(L, E)[1]
  <2>1. PICK s \in Seq(Names) : s = SourcesOf(h) BY SourcesAre
  <2>2. s \o <<>> = s BY ConcatEmptySeq
  <2> QED BY <1>6, <2>1, <2>2
<1>8. Done(P, D \cup E, base, h, k + 1) BY <1>2, <1>3, <1>5, <1>7, DoneLines
<1> QED BY <1>4, <1>8

\* What h gained and what is left of the list make up the list, less what was dropped.
Whole(P, D, base, h, k, N) == Beyond(h, base) \o SubSeq(P, k + 1, N) = Keep(P, D)[N]
LEMMA DoneAll ==
  ASSUME NEW P \in Seq(Names), NEW D, NEW base \in Nat, NEW h \in Seq(CommitType), NEW k, Done(P, D, base, h, k),
         NEW N \in Nat, N = Len(P)
  PROVE  Whole(P, D, base, h, k, N)
<1>1. k \in 0 .. N /\ Behind(D, N, k) BY DEF Done
<1>2. PICK x \in Seq(Names) : Len(x) = base /\ SourcesOf(h) = x \o Keep(P, D)[k] BY DEF Done
<1>3. PICK L : L = SubSeq(P, k + 1, N) OBVIOUS
<1>4. PICK n : n = N - k /\ n \in Nat /\ k + n = N /\ n \in 0 .. n BY <1>1
<1>5. L \in Seq(Names) /\ Len(L) = n BY <1>1, <1>3, <1>4, RestIs
<1>6. PICK a \in Seq(Names) : a = Keep(P, D)[k]
  <2>1. PICK f : f = Keep(P, D) OBVIOUS
  <2>2. KeepSteps(P, D, N, f) BY <2>1, KeepIs
  <2> QED BY <1>1, <2>1, <2>2 DEF KeepSteps
<1>7. Beyond(h, base) = a
  <2>1. SourcesOf(h) = x \o a /\ base = Len(x) BY <1>2, <1>6
  <2>2. h \in Seq(CommitType) /\ base \in Nat /\ x \in Seq(Names) /\ a \in Seq(Names) OBVIOUS
  <2> QED BY ONLY <2>1, <2>2, BeyondIs, ZenonT(30)
<1>8. PICK E : E = {} OBVIOUS
<1>9. Keep(P, D \cup E)[k + n] = a \o Keep(L, E)[n]
  <2>1. E \subseteq 0 .. n - 1 BY <1>8
  <2>2. KeepsOn(P, D, L, E, k, n) BY <1>1, <1>3, <1>4, <2>1, KeepMore
  <2> QED BY <1>4, <1>6, <2>2 DEF KeepsOn
<1>10. Keep(L, E)[n] = L BY <1>5, <1>8, KeepPlain
<1>11. D \cup E = D BY <1>8
<1> QED BY <1>3, <1>4, <1>7, <1>9, <1>10, <1>11 DEF Whole

\* The line after the first k, and those after it.
LEMMA RestSplits ==
  ASSUME NEW S, NEW P \in Seq(S), NEW N \in Nat, N = Len(P), NEW k \in 0 .. N, k < N, NEW L, L = SubSeq(P, k + 1, N)
  PROVE  /\ P[k + 1] \in S /\ L # <<>> /\ L[1] = P[k + 1]
         /\ Tail(L) = SubSeq(P, (k + 1) + 1, N)
         /\ <<P[k + 1]>> \o SubSeq(P, (k + 1) + 1, N) = L
<1>1. PICK n : n = N - k /\ n \in Nat /\ 1 \in 1 .. n BY SMT
<1>2. L \in Seq(S) /\ Len(L) = n /\ \A i \in 1 .. n : L[i] = P[k + i] BY <1>1, RestIs
<1>3. PICK R : R = SubSeq(P, (k + 1) + 1, N) OBVIOUS
<1>4. R \in Seq(S) /\ Len(R) = n - 1 /\ \A i \in 1 .. n - 1 : R[i] = P[(k + 1) + i]
  <2>1. PICK j \in 0 .. N : j = k + 1 OBVIOUS
  <2>2. R = SubSeq(P, j + 1, N) BY <1>3, <2>1
  <2>4. N - j = n - 1 BY <1>1, <2>1
  <2> QED BY <2>2, RestIs, <2>1, <2>4
<1>5. L # <<>>
  <2>1. Len(L) # 0 BY <1>1, <1>2
  <2> QED BY <2>1, EmptySeq
<1>6. L[1] = P[k + 1] BY <1>1, <1>2
<1>7. P[k + 1] \in S
  <2>1. k + 1 \in 1 .. N OBVIOUS
  <2> QED BY <2>1, ElementOfSeq
<1>8. Tail(L) = R
  <2>1. PICK t : t = Tail(L) OBVIOUS
  <2>2. t \in Seq(S) /\ Len(t) = Len(L) - 1 /\ \A i \in 1 .. Len(L) - 1 : t[i] = L[i + 1] BY <1>2, <1>5, <2>1, HeadTailProperties
  <2>3. ASSUME NEW i \in 1 .. n - 1 PROVE t[i] = R[i]
    <3>1. i + 1 \in 1 .. n /\ k + (i + 1) = (k + 1) + i BY <1>1
    <3>2. t[i] = L[i + 1] BY <1>2, <2>2
    <3>3. L[i + 1] = P[k + (i + 1)] BY <1>2, <3>1
    <3> QED BY <1>4, <3>1, <3>2, <3>3
  <2>4. Len(t) = n - 1 BY <1>2, <2>2
  <2>5. t = R BY <1>4, <2>2, <2>3, <2>4, SeqEqual
  <2> QED BY <2>1, <2>5
<1>9. <<P[k + 1]>> \o R = L
  <2>1. PICK q : q = <<P[k + 1]>> OBVIOUS
  <2>2. q \in Seq(S) /\ Len(q) = 1 /\ q[1] = P[k + 1] BY <1>7, <2>1
  <2>3. PICK u : u = q \o R OBVIOUS
  <2>4. u \in Seq(S) /\ Len(u) = Len(q) + Len(R)
        /\ \A i \in 1 .. Len(q) + Len(R) : u[i] = IF i <= Len(q) THEN q[i] ELSE R[i - Len(q)]
    <3>1. q \in Seq(S) /\ R \in Seq(S) BY <1>4, <2>2
    <3> QED BY ONLY <2>3, <3>1, ConcatProperties
  <2>5. Len(q) + Len(R) = n BY <1>1, <1>4, <2>2
  <2>6. ASSUME NEW i \in 1 .. n PROVE u[i] = L[i]
    <3>1. CASE i = 1 BY <1>6, <2>2, <2>4, <2>5, <3>1
    <3>2. CASE i # 1
      <4>1. i - 1 \in 1 .. n - 1 /\ ~(i <= 1) /\ (k + 1) + (i - 1) = k + i BY <1>1, <3>2
      <4>2. u[i] = R[i - 1] BY <2>2, <2>4, <2>5, <4>1
      <4>3. R[i - 1] = P[(k + 1) + (i - 1)] BY <1>4, <4>1
      <4> QED BY <1>2, <4>1, <4>2, <4>3
    <3> QED BY <3>1, <3>2
  <2>7. u = L BY <1>2, <2>4, <2>5, <2>6, SeqEqual
  <2> QED BY <2>1, <2>3, <2>7
<1> QED BY <1>3, <1>5, <1>6, <1>7, <1>8, <1>9

\* The sources of what is left.
LEMMA RestSources ==
  ASSUME NEW h \in Seq(CommitType), NEW N \in Nat, N = Len(h), NEW k \in 0 .. N
  PROVE  SourcesOf(SubSeq(h, k + 1, N)) = SubSeq(SourcesOf(h), k + 1, N)
<1>1. PICK n : n = N - k /\ n \in Nat BY SMT
<1>2. PICK g : g = SubSeq(h, k + 1, N) OBVIOUS
<1>3. g \in Seq(CommitType) /\ Len(g) = n /\ \A i \in 1 .. n : g[i] = h[k + i] BY <1>1, <1>2, RestIs
<1>4. PICK s \in Seq(Names) : s = SourcesOf(h) /\ Len(s) = N /\ \A i \in 1 .. N : s[i] = h[i].src BY SourcesAre
<1>5. PICK t \in Seq(Names) : t = SourcesOf(g) /\ Len(t) = n /\ \A i \in 1 .. n : t[i] = g[i].src BY <1>3, SourcesAre
<1>6. PICK r : r = SubSeq(s, k + 1, N) OBVIOUS
<1>7. r \in Seq(Names) /\ Len(r) = n /\ \A i \in 1 .. n : r[i] = s[k + i] BY <1>1, <1>4, <1>6, RestIs
<1>8. ASSUME NEW i \in 1 .. n PROVE t[i] = r[i]
  <2>1. k + i \in 1 .. N BY <1>1
  <2>2. s[k + i] = h[k + i].src BY <1>4, <2>1
  <2> QED BY <1>3, <1>5, <1>7, <2>2
<1>9. t = r BY <1>5, <1>7, <1>8, SeqEqual
<1> QED BY <1>2, <1>4, <1>5, <1>6, <1>9

\* How far a replay of the rest of a list brings it.
LEMMA DoneCarried ==
  ASSUME NEW P \in Seq(Names), NEW D, NEW base \in Nat, NEW h \in Seq(CommitType), NEW k, Done(P, D, base, h, k),
         NEW N \in Nat, N = Len(P), NEW L, L = SubSeq(P, k + 1, N), NEW n, n = N - k,
         NEW m \in 0 .. n, NEW d, NEW run, NEW end, end.h \in Seq(CommitType), Carried(run, L, n, h, end, d, m)
  PROVE  Done(P, D \cup end.dropped, base, end.h, k + m)
<1>1. k \in 0 .. N BY DEF Done
<1>2. PICK g \in Seq(CommitType) : g = end.h OBVIOUS
<1>3. PICK E : E = end.dropped OBVIOUS
<1>4. d \in {0, 1} /\ d <= m /\ Carries(g, h, L, d, m) BY <1>2 DEF Carried
<1>5. (d = 0 => E = {}) /\ (d = 1 => E = {n - 1}) BY <1>3 DEF Carried
<1>6. CASE d = 0
  <2>1. Carries(g, h, L, 0, m) BY <1>4, <1>6
  <2>2. Done(P, D, base, g, k + m) BY <2>1, DoneMore
  <2>3. D \cup E = D BY <1>5, <1>6
  <2> QED BY <1>2, <1>3, <2>2, <2>3
<1>7. CASE d = 1
  <2>1. m >= 1 /\ k < N /\ n \in Nat BY <1>1, <1>4, <1>7
  <2>2. PICK F : F = D \cup {N - (k + 1)} OBVIOUS
  <2>3. PICK j \in 0 .. N : j = k + 1 BY <1>1, <2>1
  <2>4. Done(P, F, base, h, j)
    <3> QED BY <2>1, DoneSkip, <2>2, <2>3
  <2>5. F = D \cup E
    <3>1. N - (k + 1) = n - 1 BY <1>1
    <3> QED BY <1>5, <1>7, <2>2, <3>1
  <2>6. PICK R : R = SubSeq(P, j + 1, N) OBVIOUS
  <2>7. PICK r : r = N - j /\ r \in Nat BY SMT
  <2>9. L \in Seq(Names) /\ Len(L) = n /\ \A i \in 1 .. n : L[i] = P[k + i] BY <1>1, RestIs
  <2>14. PICK q : q = m - 1 OBVIOUS
  <2>10. q = m - 1 /\ q \in 0 .. r
    <3>1. r = n - 1 BY <1>1, <2>3, <2>7
    <3> QED BY <2>1, <2>14, <3>1
  <2>11. Carries(g, h, R, 0, q)
    <3>1. PICK l \in Nat : l = Len(h) BY LenProperties
    <3>2. g \in Histories /\ Len(g) = l + m - 1 /\ \A i \in 1 .. l : g[i] = h[i]
      BY <1>4, <1>7, <3>1 DEF Carries
    <3>4. \A i \in 1 .. q - 0 : g[l + i].src = R[0 + i]
      <4> SUFFICES ASSUME NEW i \in 1 .. q - 0 PROVE g[l + i].src = R[0 + i] OBVIOUS
      <4>1. i \in 1 .. m - 1 /\ 1 + i \in 1 .. n /\ i \in 1 .. r /\ 0 + i = i /\ k + (1 + i) = j + i
        BY <1>1, <2>1, <2>3, <2>7, <2>10
      <4>2. g[l + i].src = L[1 + i] BY <1>4, <1>7, <3>1, <4>1 DEF Carries
      <4>3. L[1 + i] = P[k + (1 + i)] BY <2>9, <4>1
      <4>4. R[i] = P[j + i] BY <2>6, <2>7, RestIs, <4>1
      <4> QED BY <4>1, <4>2, <4>3, <4>4
    <3>5. Len(g) = l + q - 0 BY <2>1, <2>10, <3>2
    <3> QED BY <3>1, <3>2, <3>4, <3>5 DEF Carries
  <2>12. Done(P, F, base, g, j + q) BY <2>4, <2>6, <2>7, <2>10, <2>11, DoneMore
  <2>13. j + q = k + m BY <1>1, <2>1, <2>3, <2>10
  <2> QED BY <1>2, <1>3, <2>5, <2>12, <2>13
<1> QED BY <1>4, <1>6, <1>7

=============================================================================
