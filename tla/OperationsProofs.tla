--------------------------- MODULE OperationsProofs ---------------------------
(* What the history-editing commands leave behind, whatever lists, histories and *)
(* edits they are given, in whatever order they run and wherever one is killed. *)
EXTENDS WritesProofs

------------------------------
(* The inductive invariant. *)

PlanType ==
  [kind : {"none", "pick", "revert", "rebase", "merge", "merged", "uptodate", "refused", "aborted"},
   start : Seq(CommitType), todo : Seq(Names), dropped : SUBSET Int, local : SUBSET Locals]
Oddities == {"crash", "refused", "stale", "commit", "reset", "crossed", "attached"}

Types ==
  /\ RepoOK(repo) /\ queue \in Seq(WriteType) /\ plan \in PlanType /\ odd \subseteq Oddities
  /\ commands \in 0 .. MaxCommands /\ crashes \in 0 .. MaxCrashes

\* Nothing in the queue q writes a value to file f; what every file will hold once
\* the command has made its writes.
Blank(q, f) == \A w \in Range(q) : w.f = f => w.v = None
Then(r, q) == [f \in Fields |-> Late(q, f, r[f])]

\* While a merge is, or is about to be, on record, ORIG_HEAD is where it began or
\* written first, and no file of a list of picks is there.
MergeAt(r, q, p, o) == o \cap {"stale", "reset"} = {} =>
  /\ r.merge # None => r.orig = <<p.start>>
  /\ ~Blank(q, "merge") => r.orig = <<p.start>> \/ q[1] = W("orig", <<p.start>>)
  /\ r.merge # None \/ ~Blank(q, "merge") =>
       /\ \A w \in Range(q) : w.f = "orig" => w.v = <<p.start>>
       /\ \A f \in {"pick", "revert", "seqHead", "seqTodo"} : r[f] = None /\ Blank(q, f)

\* MERGE_HEAD is written before the index that has its conflict, and removed after it.
UnmergedAt(r, q) ==
  /\ r.index.unmerged = "merge" => r.merge # None
  /\ \A j \in DOMAIN q : q[j].f = "index" /\ q[j].v.unmerged = "merge" =>
       /\ r.merge # None \/ \E k \in DOMAIN q : k < j /\ q[k].f = "merge" /\ q[k].v # None
       /\ W("merge", None) \notin Range(q)
  /\ \A j \in DOMAIN q : q[j] = W("merge", None) =>
       r.index.unmerged # "merge" \/ \E k \in DOMAIN q : k < j /\ q[k].f = "index"

\* A rebase keeps where it began, and unless it went on with HEAD attached the branch
\* is moved from there to where HEAD is then.
RebaseAt(r, q, p, o) == p.kind = "rebase" /\ o \cap {"stale", "commit", "reset"} = {} =>
  /\ \A f \in {"pick", "revert", "merge", "seqHead", "seqTodo"} : r[f] = None /\ Blank(q, f)
  /\ r.rbOrig \in {None, <<p.start>>}
  /\ \A w \in Range(q) : w.f = "rbOrig" => w.v = <<p.start>>
  /\ \A j \in DOMAIN q : q[j].f = "branch" /\ "attached" \notin o =>
       /\ r.branch = p.start /\ \A k \in DOMAIN q : q[k].f = "branch" => k = j
       /\ Late(SubSeq(q, 1, j - 1), "head", r.head) = <<q[j].v>>

\* No kill: a directory will be there as a whole or not at all,
WholeAt(A, o) == "crash" \notin o =>
  /\ A.seqHead = None <=> A.seqTodo = None
  /\ A.seqHead = None => A.seqSafety = None /\ A.seqOpts = None
  /\ A.rbOrig = None => A.rbOnto = None /\ A.rbTodo = None /\ A.rbDone = None /\ A.rbMessage = None

\* and an autostash file with the marker of its operation.
StashedAt(A, o) == o \cap {"crash", "refused"} = {} =>
  /\ A.mergeStash # None => A.merge # None
  /\ A.rbStash # None => A.rebase # None

\* Every edit taken will be in the working tree, the stash list or an autostash file.
Safe(r, q, S) == \A e \in S :
  \/ e \in Dirtied(q, r.dirty)
  \/ e \in r.stash \/ \E w \in Range(q) : w.f = "push" /\ e \in w.v
  \/ e \in Held(Late(q, "mergeStash", r.mergeStash)) \/ e \in Held(Late(q, "rbStash", r.rbStash))
EditsAt(r, q, p, o) == o \cap {"crash", "refused"} = {} => Safe(r, q, p.local)

\* What an operation will leave, by its kind.
Restored(A, p) ==
  /\ A.branch = p.start /\ A.head = None
  /\ A.index.tree = Tree(p.start) /\ A.index.both = Tree(p.start) /\ A.index.unmerged \in {"no", "stash"}
  /\ \A f \in StateFiles : A[f] = None
TidyAt(A, p, o) == o \cap {"crash", "stale", "crossed", "reset", "refused"} = {} =>
  /\ p.kind \in {"pick", "revert"} =>
       /\ \A f \in {"head", "merge", "rebase", "rbOrig", IF p.kind = "pick" THEN "revert" ELSE "pick"} : A[f] = None
       /\ A.seqHead \in {None, <<p.start>>}
       /\ A.seqHead = None /\ A[p.kind] # None => A.branch = p.start
  /\ p.kind = "rebase" =>
       /\ \A f \in {"pick", "revert", "merge", "seqHead"} : A[f] = None
       /\ A.rbOrig \in {None, <<p.start>>}
       /\ A.rbOrig # None => A.branch = p.start /\ A.head # None
  /\ p.kind = "merge" => \A f \in {"pick", "revert", "rebase", "seqHead", "rbOrig"} : A[f] = None
  /\ p.kind \in {"none", "merged", "uptodate", "refused"} =>
       \A f \in {"pick", "revert", "rebase", "merge", "seqHead", "rbOrig"} : A[f] = None
  /\ p.kind = "aborted" => Restored(A, p)

InvAt(r, q, p, o) ==
  /\ MergeAt(r, q, p, o) /\ UnmergedAt(r, q) /\ RebaseAt(r, q, p, o)
  /\ WholeAt(Then(r, q), o) /\ StashedAt(Then(r, q), o) /\ TidyAt(Then(r, q), p, o)
  /\ EditsAt(r, q, p, o)
Inv == Types /\ InvAt(repo, queue, plan, odd)

------------------------------
(* What it takes for a command's writes to keep each part. *)

LEMMA ThenIs ==
  ASSUME NEW r, NEW q
  PROVE  \A f \in Fields : Then(r, q)[f] = Late(q, f, r[f])
BY DEF Then

\* Between two commands.
LEMMA AtRest ==
  ASSUME RepoOK(repo), InvAt(repo, <<>>, plan, odd)
  PROVE  /\ MergeAt(repo, <<>>, plan, odd) /\ UnmergedAt(repo, <<>>) /\ RebaseAt(repo, <<>>, plan, odd)
         /\ WholeAt(repo, odd) /\ StashedAt(repo, odd) /\ TidyAt(repo, plan, odd)
         /\ odd \cap {"crash", "refused"} = {} =>
              plan.local \subseteq repo.dirty \cup repo.stash \cup Held(repo.mergeStash) \cup Held(repo.rbStash)
<1>1. Then(repo, <<>>) = repo
  <2>1. repo = [f \in Fields |-> repo[f]] BY DEF RepoOK
  <2> QED BY NoneIs, <2>1 DEF Then
<1>2. ASSUME odd \cap {"crash", "refused"} = {}, NEW e \in plan.local
      PROVE  e \in repo.dirty \cup repo.stash \cup Held(repo.mergeStash) \cup Held(repo.rbStash)
  <2>2. Dirtied(<<>>, repo.dirty) \subseteq repo.dirty BY DEF Dirtied
  <2> QED BY <1>2, <2>2, NoneIs DEF InvAt, EditsAt, Safe
<1> QED BY <1>1, <1>2 DEF InvAt

LEMMA MergeBegins ==
  ASSUME repo.merge = None, NEW ws, Blank(ws, "merge"), NEW p, NEW o
  PROVE  MergeAt(repo, ws, p, o)
BY DEF MergeAt

LEMMA MergeGoesOn ==
  ASSUME MergeAt(repo, <<>>, plan, odd), NEW ws, NEW p, p.start = plan.start, NEW o, odd \subseteq o,
         \A f \in {"merge", "pick", "revert", "seqHead", "seqTodo"} : Blank(ws, f), \A w \in Range(ws) : w.f # "orig"
  PROVE  MergeAt(repo, ws, p, o)
BY DEF MergeAt

LEMMA UnmergedKept ==
  ASSUME UnmergedAt(repo, <<>>), NEW ws \in Seq(WriteType), \A w \in Range(ws) : w.f = "index" => w.v.unmerged # "merge",
         repo.index.unmerged # "merge" \/ W("merge", None) \notin Range(ws)
  PROVE  UnmergedAt(repo, ws)
<1>1. \A j \in DOMAIN ws : ws[j] \in Range(ws) BY DEF Range
<1> QED BY <1>1 DEF UnmergedAt

\* The index is written before MERGE_HEAD is removed.
LEMMA UnmergedAfter ==
  ASSUME UnmergedAt(repo, <<>>), NEW a \in Seq(WriteType), NEW b \in Seq(WriteType),
         \A w \in Range(a) \cup Range(b) : w.f = "index" => w.v.unmerged # "merge",
         W("merge", None) \notin Range(a), \E w \in Range(a) : w.f = "index"
  PROVE  UnmergedAt(repo, a \o b)
<1>1. PICK c \in Seq(WriteType) : c = a \o b /\ Range(c) = Range(a) \cup Range(b) BY Join
<1>2. PICK n \in Nat : n = Len(a) BY LenProperties
<1>3. DOMAIN a = 1 .. n /\ (\A i \in 1 .. n : c[i] = a[i]) /\ \A i \in 1 .. n : i \in DOMAIN c
  <2>1. Len(b) \in Nat /\ Len(c) = n + Len(b) /\ DOMAIN c = 1 .. Len(c) /\ DOMAIN a = 1 .. n BY <1>1, <1>2, ConcatProperties, LenProperties
  <2>2. \A i \in 1 .. n : c[i] = a[i] BY <1>1, <1>2
  <2> QED BY <2>1, <2>2
<1>4. PICK k \in 1 .. n : c[k].f = "index"
  <2>1. PICK w \in Range(a) : w.f = "index" OBVIOUS
  <2>2. PICK k \in DOMAIN a : a[k] = w BY <2>1 DEF Range
  <2> QED BY <1>3, <2>1, <2>2
<1>5. \A j \in DOMAIN c : c[j] \in Range(c) BY DEF Range
<1>6. ASSUME NEW j \in DOMAIN c, c[j] = W("merge", None) PROVE \E i \in DOMAIN c : i < j /\ c[i].f = "index"
  <2>1. j \notin 1 .. n
    <3> QED BY <1>3, <1>6 DEF Range
  <2>2. j \in Nat /\ j >= 1 BY <1>1, LenProperties
  <2>3. k < j BY <2>1, <2>2
  <2> QED BY <1>3, <1>4, <2>3
<1>7. UnmergedAt(repo, c) BY <1>1, <1>5, <1>6 DEF UnmergedAt
<1> QED BY <1>1, <1>7

LEMMA RebaseOther ==
  ASSUME NEW ws, NEW p, p.kind # "rebase", NEW o
  PROVE  RebaseAt(repo, ws, p, o)
BY DEF RebaseAt

\* Each directory is left alone, removed or written anew.
SeqKept(A) ==
  \/ \A f \in SequencerDir : A[f] = repo[f]
  \/ \A f \in SequencerDir : A[f] = None
  \/ A.seqHead # None /\ A.seqTodo # None
RebasePart == {"rbOrig", "rbOnto", "rbTodo", "rbDone", "rbMessage"}
RebaseKept(A) ==
  \/ \A f \in RebasePart : A[f] = repo[f]
  \/ \A f \in RebasePart : A[f] = None
  \/ A.rbOrig # None
LEMMA WholeKept ==
  ASSUME WholeAt(repo, odd), NEW A, SeqKept(A), RebaseKept(A), NEW o, "crash" \in odd => "crash" \in o
  PROVE  WholeAt(A, o)
<1>1. SUFFICES ASSUME "crash" \notin o
               PROVE  /\ A.seqHead = None <=> A.seqTodo = None
                      /\ A.seqHead = None => A.seqSafety = None /\ A.seqOpts = None
                      /\ A.rbOrig = None => A.rbOnto = None /\ A.rbTodo = None /\ A.rbDone = None /\ A.rbMessage = None
  BY DEF WholeAt
<1>2. /\ repo.seqHead = None <=> repo.seqTodo = None
      /\ repo.seqHead = None => repo.seqSafety = None /\ repo.seqOpts = None
      /\ repo.rbOrig = None => repo.rbOnto = None /\ repo.rbTodo = None /\ repo.rbDone = None /\ repo.rbMessage = None
  BY <1>1 DEF WholeAt
<1>4. A.rbOrig = None => A.rbOnto = None /\ A.rbTodo = None /\ A.rbDone = None /\ A.rbMessage = None
  BY <1>2 DEF RebaseKept, RebasePart
<1> QED BY <1>2, <1>4 DEF SeqKept, SequencerDir

\* An autostash file is left alone, removed, or there with its marker.
MergeStashKept(A) == A.mergeStash = None \/ A.merge # None \/ (A.mergeStash = repo.mergeStash /\ A.merge = repo.merge)
RebaseStashKept(A) == A.rbStash = None \/ A.rebase # None \/ (A.rbStash = repo.rbStash /\ A.rebase = repo.rebase)
LEMMA StashedKept ==
  ASSUME StashedAt(repo, odd), NEW A, MergeStashKept(A), RebaseStashKept(A), NEW o, odd \cap {"crash", "refused"} \subseteq o
  PROVE  StashedAt(A, o)
BY DEF StashedAt, MergeStashKept, RebaseStashKept

LEMMA SafeIs ==
  ASSUME RepoOK(repo), NEW ws \in Seq(WriteType)
  PROVE  /\ Safe(repo, ws, repo.stash)
         /\ (\A w \in Range(ws) : w.f # "dirty") => Safe(repo, ws, repo.dirty)
         /\ Late(ws, "mergeStash", repo.mergeStash) = repo.mergeStash => Safe(repo, ws, Held(repo.mergeStash))
         /\ Late(ws, "rbStash", repo.rbStash) = repo.rbStash => Safe(repo, ws, Held(repo.rbStash))
         /\ Safe(repo, ws, Held(Late(ws, "mergeStash", repo.mergeStash))) /\ Safe(repo, ws, Held(Late(ws, "rbStash", repo.rbStash)))
         /\ \A S : Saves(ws, S) => Safe(repo, ws, S)
         /\ \A S, U : Safe(repo, ws, S) /\ U \subseteq S => Safe(repo, ws, U)
         /\ \A S, U : Safe(repo, ws, S) /\ Safe(repo, ws, U) => Safe(repo, ws, S \cup U)
<1>1. Safe(repo, ws, repo.stash) BY DEF Safe
<1>2. (\A w \in Range(ws) : w.f # "dirty") => Safe(repo, ws, repo.dirty)
  <2>1. repo.dirty \in SUBSET Locals BY FieldsAre, KindsAre DEF RepoOK
  <2> QED BY <2>1, Calm DEF Safe
<1>3. Late(ws, "mergeStash", repo.mergeStash) = repo.mergeStash => Safe(repo, ws, Held(repo.mergeStash)) BY DEF Safe
<1>4. Late(ws, "rbStash", repo.rbStash) = repo.rbStash => Safe(repo, ws, Held(repo.rbStash)) BY DEF Safe
<1>5. \A S : Saves(ws, S) => Safe(repo, ws, S) BY DEF Saves, Safe
<1>6. \A S, U : Safe(repo, ws, S) /\ U \subseteq S => Safe(repo, ws, U) BY DEF Safe
<1>7. \A S, U : Safe(repo, ws, S) /\ Safe(repo, ws, U) => Safe(repo, ws, S \cup U) BY DEF Safe
<1>8. Safe(repo, ws, Held(Late(ws, "mergeStash", repo.mergeStash))) /\ Safe(repo, ws, Held(Late(ws, "rbStash", repo.rbStash))) BY DEF Safe
<1> QED BY <1>1, <1>2, <1>3, <1>4, <1>5, <1>6, <1>7, <1>8

\* Where the edits taken so far are, and where those taken now go.
LEMMA EditsKept ==
  ASSUME RepoOK(repo), InvAt(repo, <<>>, plan, odd), NEW ws \in Seq(WriteType), NEW p, NEW o, odd \cap {"crash", "refused"} \subseteq o, NEW new,
         p.local \subseteq plan.local \cup new,
         o \cap {"crash", "refused"} = {} =>
           /\ Safe(repo, ws, repo.dirty) \/ p.local \cap repo.dirty = {}
           /\ Safe(repo, ws, Held(repo.mergeStash)) /\ Safe(repo, ws, Held(repo.rbStash)) /\ Safe(repo, ws, new)
  PROVE  EditsAt(repo, ws, p, o)
<1>1. SUFFICES ASSUME o \cap {"crash", "refused"} = {} PROVE Safe(repo, ws, p.local) BY DEF EditsAt
<1>2. plan.local \subseteq repo.dirty \cup repo.stash \cup Held(repo.mergeStash) \cup Held(repo.rbStash)
  <2>1. odd \cap {"crash", "refused"} = {} BY <1>1
  <2> QED BY <2>1, AtRest
<1>3. Safe(repo, ws, repo.stash) BY SafeIs
<1>5. Safe(repo, ws, repo.dirty) \/ p.local \cap repo.dirty = {} BY <1>1
<1> QED BY <1>1, <1>2, <1>3, <1>5 DEF Safe

------------------------------
(* A command makes its next write. *)

LEMMA QueueIs ==
  ASSUME NEW q \in Seq(WriteType), q # <<>>
  PROVE  /\ Head(q) \in WriteType /\ Tail(q) \in Seq(WriteType) /\ q = <<Head(q)>> \o Tail(q) /\ Range(q) = {Head(q)} \cup Range(Tail(q))
         /\ 1 \in DOMAIN q /\ q[1] = Head(q)
         /\ \A j \in DOMAIN Tail(q) : j \in Nat /\ j >= 1 /\ j + 1 \in DOMAIN q /\ q[j + 1] = Tail(q)[j]
         /\ \A i \in DOMAIN q : i \in Nat /\ (i = 1 \/ (i - 1 \in DOMAIN Tail(q) /\ q[i] = Tail(q)[i - 1]))
<1>1. PICK n \in Nat : n = Len(q) /\ n >= 1 /\ DOMAIN q = 1 .. n BY LenProperties, EmptySeq
<1>2. PICK t : t = Tail(q) OBVIOUS
<1>3. PICK w \in WriteType : w = Head(q) /\ w = q[1]
  <2>1. 1 \in 1 .. n BY <1>1
  <2> QED BY <1>1, <2>1, ElementOfSeq, HeadTailProperties
<1>4. t \in Seq(WriteType) /\ Len(t) = n - 1 /\ \A i \in 1 .. n - 1 : t[i] = q[i + 1] BY <1>1, <1>2, HeadTailProperties
<1>5. DOMAIN t = 1 .. n - 1 BY <1>1, <1>4, LenProperties
<1>6. \A j \in DOMAIN t : j \in Nat /\ j >= 1 /\ j + 1 \in DOMAIN q /\ q[j + 1] = t[j]
  <2> QED BY <1>1, <1>4, <1>5
<1>7. ASSUME NEW i \in DOMAIN q PROVE i \in Nat /\ (i = 1 \/ (i - 1 \in DOMAIN t /\ q[i] = t[i - 1]))
  <2>1. i \in 1 .. n /\ i \in Nat BY <1>1
  <2>2. CASE i # 1
    <3> QED BY <1>1, <2>2, <1>4, <1>5, <2>1
  <2> QED BY <2>1, <2>2
<1>8. PICK o \in Seq(WriteType) : o = <<w>> /\ Range(o) = {w} BY One
<1>9. q = o \o t
  <2>1. Len(o) = 1 /\ o[1] = w BY <1>8
  <2>2. PICK c : c = o \o t OBVIOUS
  <2>7. c \in Seq(WriteType) /\ Len(c) = Len(o) + Len(t) BY <1>4, <2>2, ConcatProperties
  <2>3. c \in Seq(WriteType) /\ Len(c) = 1 + (n - 1) /\ (\A i \in 1 .. 1 + (n - 1) : c[i] = IF i <= 1 THEN o[i] ELSE t[i - 1])
    BY <2>2, ConcatProperties, <1>4, <2>1, <2>7
  <2>4. 1 + (n - 1) = n BY <1>1
  <2>5. ASSUME NEW i \in 1 .. n PROVE q[i] = c[i]
    <3>1. CASE i = 1
      <4>1. c[1] = o[1] BY <2>3, <2>4, <3>1
      <4> QED BY <1>3, <2>1, <3>1, <4>1
    <3>2. CASE i # 1
      <4>1. ~(i <= 1) BY <3>2
      <4>2. c[i] = t[i - 1] BY <2>3, <2>4, <4>1
      <4> QED BY <1>1, <1>7, <3>2, <4>2
    <3> QED BY <3>1, <3>2
  <2>6. q = c BY <1>1, <2>3, <2>4, <2>5, SeqEqual
  <2> QED BY <2>2, <2>6
<1>10. Range(o \o t) = Range(o) \cup Range(t) BY <1>4, Join
<1>11. q = <<Head(q)>> \o Tail(q) /\ Range(q) = {Head(q)} \cup Range(Tail(q)) BY <1>2, <1>3, <1>8, <1>9, <1>10
<1>12. Head(q) \in WriteType /\ Tail(q) \in Seq(WriteType) /\ 1 \in DOMAIN q /\ q[1] = Head(q)
  <2>1. 1 \in 1 .. n BY <1>1
  <2> QED BY <1>1, <1>2, <1>3, <1>4, <2>1
<1>13. \A j \in DOMAIN Tail(q) : j \in Nat /\ j >= 1 /\ j + 1 \in DOMAIN q /\ q[j + 1] = Tail(q)[j] BY <1>2, <1>6
<1> QED BY <1>2, <1>7, <1>11, <1>12, <1>13

LEMMA PutEither ==
  ASSUME NEW w \in WriteType
  PROVE  \A f \in Fields : \A x :
           /\ f \notin SequencerDir \cup RebaseDir => Put(w, f, x) = IF w.f = f THEN w.v ELSE x
           /\ Put(w, f, x) = x \/ (w.f = f /\ Put(w, f, x) = w.v) \/ (w.f \in {"sequencer", "rebase-merge"} /\ Put(w, f, x) = None)
<1>1. w.f \in {"sequencer", "rebase-merge"} => w.v = None BY Written, KindsAre
<1>4. CASE w.f \notin {"sequencer", "rebase-merge"} BY FilesAre, <1>4 DEF Put, Touches
<1>5. CASE w.f \in {"sequencer", "rebase-merge"}
  <2>1. Files(w.f) \subseteq SequencerDir \cup RebaseDir BY <1>5, FilesAre
  <2> QED BY FieldsAre, <1>1, <1>5, <2>1 DEF Put, Touches
<1> QED BY <1>4, <1>5

Puts(r, w, s) == \A f \in Fields \ {"dirty", "stash"} : s[f] = Put(w, f, r[f])
Alike(A, B) == \A f \in Fields \ {"dirty", "stash"} : A[f] = B[f]

LEMMA AppliedIs ==
  ASSUME NEW r, RepoOK(r), NEW w \in WriteType, NEW s, s = Apply(r, w)
  PROVE  /\ RepoOK(s) /\ Puts(r, w, s)
         /\ Dirtied(<<w>>, r.dirty) \subseteq s.dirty
         /\ r.stash \subseteq s.stash /\ (w.f = "push" => w.v \subseteq s.stash)
<1>1. r = [f \in Fields |-> r[f]] /\ DOMAIN r = Fields /\ \A f \in Fields : r[f] \in Kind(f) BY DEF RepoOK
<1>2. "dirty" \in Fields /\ "stash" \in Fields /\ "push" \notin Fields /\ "restore" \notin Fields BY FieldsAre
<1>3. w.f # "stash" /\ w.v \in Kind(w.f) /\ w.f \in Fields \cup Dirs BY Written
<1>4. Kind("dirty") = SUBSET Locals /\ Kind("stash") = SUBSET Locals /\ Kind("push") = SUBSET Locals /\ Kind("restore") = SUBSET Locals BY KindsAre
<1>5. PICK o \in Seq(WriteType) : o = <<w>> /\ DOMAIN o = {1} /\ o[1] = w
  <2>1. <<w>> \in Seq(WriteType) /\ DOMAIN <<w>> = 1 .. 1 /\ <<w>>[1] = w OBVIOUS
  <2>2. 1 .. 1 = {1} OBVIOUS
  <2> QED BY <2>1, <2>2
<1>6. \A e \in Dirtied(o, r.dirty) : (w.f = "restore" /\ e \in w.v) \/ (w.f # "dirty" /\ e \in r.dirty)
  BY <1>5 DEF Dirtied, Undirty
<1>7. CASE w.f = "push"
  <2>1. s = [r EXCEPT !.stash = @ \cup w.v] BY <1>7 DEF Apply
  <2>2. \A f \in Fields : s[f] = IF f = "stash" THEN r.stash \cup w.v ELSE r[f] BY <1>1, <2>1
  <2>3. s = [f \in Fields |-> s[f]] BY <1>1, <2>1
  <2>4. \A f \in Fields : s[f] \in Kind(f) BY <1>1, <1>2, <1>3, <1>4, <1>7, <2>2
  <2>5. \A f \in Fields : Put(w, f, r[f]) = r[f] BY <1>2, <1>7, FilesAre DEF Put, Touches
  <2> QED BY <1>2, <1>5, <1>6, <1>7, <2>2, <2>3, <2>4, <2>5 DEF RepoOK, Puts
<1>8. CASE w.f = "restore"
  <2>1. s = [r EXCEPT !.dirty = @ \cup w.v] BY <1>8 DEF Apply
  <2>2. \A f \in Fields : s[f] = IF f = "dirty" THEN r.dirty \cup w.v ELSE r[f] BY <1>1, <2>1
  <2>3. s = [f \in Fields |-> s[f]] BY <1>1, <2>1
  <2>4. \A f \in Fields : s[f] \in Kind(f) BY <1>1, <1>2, <1>3, <1>4, <1>8, <2>2
  <2>5. \A f \in Fields : Put(w, f, r[f]) = r[f] BY <1>2, <1>8, FilesAre DEF Put, Touches
  <2> QED BY <1>2, <1>5, <1>6, <1>8, <2>2, <2>3, <2>4, <2>5 DEF RepoOK, Puts
<1>9. CASE w.f \notin {"push", "restore"}
  <2>1. s = [f \in DOMAIN r |-> IF f \in Files(w.f) THEN w.v ELSE r[f]] BY <1>9 DEF Apply
  <2>2. \A f \in Fields : s[f] = Put(w, f, r[f]) BY <1>1, <2>1 DEF Put, Touches
  <2>3. s = [f \in Fields |-> s[f]] BY <1>1, <2>1
  <2>4. ASSUME NEW f \in Fields PROVE s[f] \in Kind(f)
    <3>1. Put(w, f, r[f]) = r[f] \/ (w.f = f /\ Put(w, f, r[f]) = w.v) \/ (w.f \in {"sequencer", "rebase-merge"} /\ Put(w, f, r[f]) = None /\ f \in SequencerDir \cup RebaseDir)
      BY PutEither, <1>2, <1>9
    <3> QED BY KindsAre, MaybeIs, <1>1, <1>3, <2>2, <3>1 DEF SequencerDir, RebaseDir, HistoryFiles
  <2>5. s.dirty = Put(w, "dirty", r.dirty) /\ s.stash = Put(w, "stash", r.stash) BY <1>2, <2>2
  <2>6. s.stash = r.stash /\ (w.f # "dirty" => s.dirty = r.dirty)
    <3> QED BY <1>2, <1>3, <2>5, PutEither DEF SequencerDir, RebaseDir
  <2> QED BY <1>5, <1>6, <1>9, <2>2, <2>3, <2>4, <2>6 DEF RepoOK, Puts
<1> QED BY <1>7, <1>8, <1>9

\* Two repositories that differ in the edits only.
LEMMA SameThen ==
  ASSUME NEW A, NEW B, Alike(A, B), NEW p, NEW o
  PROVE  (WholeAt(A, o) => WholeAt(B, o)) /\ (StashedAt(A, o) => StashedAt(B, o)) /\ (TidyAt(A, p, o) => TidyAt(B, p, o))
<1>1. PICK F : F = Fields \ {"dirty", "stash"} OBVIOUS
<1>2. F = {"branch", "index", "pick", "revert", "rebase", "message", "mergeStash",
            "seqTodo", "seqOpts", "rbTodo", "rbDone", "rbMessage", "rbStash", "head", "orig", "merge",
            "seqHead", "seqSafety", "rbOrig", "rbOnto"} BY <1>1, FieldsAre
<1>3. \A f \in F : A[f] = B[f] BY <1>1 DEF Alike
<1>4. WholeAt(A, o) => WholeAt(B, o) BY <1>2, <1>3 DEF WholeAt
<1>5. StashedAt(A, o) => StashedAt(B, o) BY <1>2, <1>3 DEF StashedAt
<1>6. Restored(A, p) => Restored(B, p)
  <2>1. StateFiles \subseteq F BY <1>2 DEF StateFiles
  <2> QED BY <1>2, <1>3, <2>1 DEF Restored
<1>7. TidyAt(A, p, o) => TidyAt(B, p, o)
  <2>1. SUFFICES ASSUME TidyAt(A, p, o), o \cap {"crash", "stale", "crossed", "reset", "refused"} = {}
                 PROVE  /\ p.kind \in {"pick", "revert"} =>
                            /\ \A f \in {"head", "merge", "rebase", "rbOrig", IF p.kind = "pick" THEN "revert" ELSE "pick"} : B[f] = None
                            /\ B.seqHead \in {None, <<p.start>>}
                            /\ B.seqHead = None /\ B[p.kind] # None => B.branch = p.start
                        /\ p.kind = "rebase" =>
                            /\ \A f \in {"pick", "revert", "merge", "seqHead"} : B[f] = None
                            /\ B.rbOrig \in {None, <<p.start>>}
                            /\ B.rbOrig # None => B.branch = p.start /\ B.head # None
                        /\ p.kind = "merge" => \A f \in {"pick", "revert", "rebase", "seqHead", "rbOrig"} : B[f] = None
                        /\ p.kind \in {"none", "merged", "uptodate", "refused"} =>
                            \A f \in {"pick", "revert", "rebase", "merge", "seqHead", "rbOrig"} : B[f] = None
                        /\ p.kind = "aborted" => Restored(B, p)
    BY DEF TidyAt
  <2>2. p.kind \in {"pick", "revert"} =>
          /\ \A f \in {"head", "merge", "rebase", "rbOrig", IF p.kind = "pick" THEN "revert" ELSE "pick"} : B[f] = None
          /\ B.seqHead \in {None, <<p.start>>}
          /\ B.seqHead = None /\ B[p.kind] # None => B.branch = p.start
    BY <1>2, <1>3, <2>1 DEF TidyAt
  <2>3. p.kind = "rebase" =>
          /\ \A f \in {"pick", "revert", "merge", "seqHead"} : B[f] = None
          /\ B.rbOrig \in {None, <<p.start>>}
          /\ B.rbOrig # None => B.branch = p.start /\ B.head # None
    BY <1>2, <1>3, <2>1 DEF TidyAt
  <2>4. p.kind = "merge" => \A f \in {"pick", "revert", "rebase", "seqHead", "rbOrig"} : B[f] = None BY <1>2, <1>3, <2>1 DEF TidyAt
  <2>5. p.kind \in {"none", "merged", "uptodate", "refused"} => \A f \in {"pick", "revert", "rebase", "merge", "seqHead", "rbOrig"} : B[f] = None
    BY <1>2, <1>3, <2>1 DEF TidyAt
  <2>6. p.kind = "aborted" => Restored(B, p) BY <1>6, <2>1 DEF TidyAt
  <2> QED BY <2>2, <2>3, <2>4, <2>5, <2>6
<1> QED BY <1>4, <1>5, <1>7

LEMMA WriteThen ==
  ASSUME NEW r, RepoOK(r), NEW w \in WriteType, NEW t \in Seq(WriteType), NEW q, q = <<w>> \o t, NEW s, s = Apply(r, w)
  PROVE  Alike(Then(r, q), Then(s, t))
<1>1. PICK a \in Seq(WriteType) : a = <<w>> /\ \A f, x : Late(a, f, x) = Put(w, f, x) BY One
<1>2. q = a \o t BY <1>1
<1>3. \A f, x : Late(a \o t, f, x) = Late(t, f, Late(a, f, x)) BY Join
<1>4. \A f \in Fields \ {"dirty", "stash"} : s[f] = Put(w, f, r[f]) BY AppliedIs DEF Puts
<1> QED BY <1>1, <1>2, <1>3, <1>4, ThenIs DEF Alike

LEMMA WriteSafe ==
  ASSUME NEW r, RepoOK(r), NEW w \in WriteType, NEW t \in Seq(WriteType), NEW q, q = <<w>> \o t, NEW s, s = Apply(r, w),
         NEW S, Safe(r, q, S)
  PROVE  Safe(s, t, S)
<1>1. PICK a \in Seq(WriteType) : a = <<w>> /\ Range(a) = {w} BY One
<1>7. q = a \o t BY <1>1
<1>8. Range(a \o t) = Range(a) \cup Range(t) /\ \A D : Dirtied(a \o t, D) = Dirtied(t, Dirtied(a, D)) BY Join
<1>2. Range(q) = {w} \cup Range(t) /\ Dirtied(q, r.dirty) = Dirtied(t, Dirtied(a, r.dirty)) BY <1>1, <1>7, <1>8
<1>3. Dirtied(a, r.dirty) \subseteq s.dirty /\ r.stash \subseteq s.stash /\ (w.f = "push" => w.v \subseteq s.stash) BY <1>1, AppliedIs
<1>5. Dirtied(q, r.dirty) \subseteq Dirtied(t, s.dirty) BY <1>2, <1>3 DEF Dirtied
<1>6. Late(q, "mergeStash", r.mergeStash) = Late(t, "mergeStash", s.mergeStash) /\ Late(q, "rbStash", r.rbStash) = Late(t, "rbStash", s.rbStash)
  <2>1. PICK A : A = Then(r, q) OBVIOUS
  <2>2. PICK B : B = Then(s, t) OBVIOUS
  <2>3. Alike(A, B) BY <2>1, <2>2, WriteThen
  <2>4. {"mergeStash", "rbStash"} \subseteq Fields \ {"dirty", "stash"} BY FieldsAre
  <2>5. A.mergeStash = B.mergeStash /\ A.rbStash = B.rbStash BY <2>3, <2>4 DEF Alike
  <2>7. B.mergeStash = Late(t, "mergeStash", s.mergeStash) /\ B.rbStash = Late(t, "rbStash", s.rbStash) BY <2>2, <2>4, ThenIs
  <2> QED BY <2>1, <2>4, ThenIs, <2>5, <2>7
<1> QED BY <1>2, <1>3, <1>5, <1>6 DEF Safe

LEMMA WriteMerge ==
  ASSUME NEW r, RepoOK(r), NEW q \in Seq(WriteType), q # <<>>, NEW w, w = Head(q), NEW t, t = Tail(q), NEW s, s = Apply(r, w),
         NEW p, NEW o, MergeAt(r, q, p, o)
  PROVE  MergeAt(s, t, p, o)
<1>1. w \in WriteType /\ Range(q) = {w} \cup Range(t) /\ q[1] = w BY QueueIs
<1>13. Puts(r, w, s) BY <1>1, AppliedIs
<1>2. \A f \in Fields \ {"dirty", "stash"} : s[f] = Put(w, f, r[f]) BY <1>13 DEF Puts
<1>4. s.merge = (IF w.f = "merge" THEN w.v ELSE r.merge) /\ s.orig = (IF w.f = "orig" THEN w.v ELSE r.orig)
  <2> QED BY FieldsAre, <1>1, <1>2, PutEither DEF SequencerDir, RebaseDir
<1>5. \A f : Blank(q, f) <=> Blank(t, f) /\ (w.f = f => w.v = None) BY <1>1 DEF Blank
<1>6. SUFFICES ASSUME o \cap {"stale", "reset"} = {}
               PROVE  /\ s.merge # None => s.orig = <<p.start>>
                      /\ ~Blank(t, "merge") => s.orig = <<p.start>> \/ t[1] = W("orig", <<p.start>>)
                      /\ s.merge # None \/ ~Blank(t, "merge") =>
                           /\ \A v \in Range(t) : v.f = "orig" => v.v = <<p.start>>
                           /\ \A f \in {"pick", "revert", "seqHead", "seqTodo"} : s[f] = None /\ Blank(t, f)
  BY DEF MergeAt
<1>7. /\ r.merge # None => r.orig = <<p.start>>
      /\ ~Blank(q, "merge") => r.orig = <<p.start>> \/ q[1] = W("orig", <<p.start>>)
      /\ r.merge # None \/ ~Blank(q, "merge") =>
           /\ \A v \in Range(q) : v.f = "orig" => v.v = <<p.start>>
           /\ \A f \in {"pick", "revert", "seqHead", "seqTodo"} : r[f] = None /\ Blank(q, f)
  BY <1>6 DEF MergeAt
<1>8. SUFFICES ASSUME s.merge # None \/ ~Blank(t, "merge")
               PROVE  /\ s.orig = <<p.start>>
                      /\ \A v \in Range(t) : v.f = "orig" => v.v = <<p.start>>
                      /\ \A f \in {"pick", "revert", "seqHead", "seqTodo"} : s[f] = None /\ Blank(t, f)
  OBVIOUS
<1>9. r.merge # None \/ ~Blank(q, "merge") BY <1>4, <1>5, <1>8
<1>10. \A v \in Range(q) : v.f = "orig" => v.v = <<p.start>> BY <1>7, <1>9
<1>11. s.orig = <<p.start>>
  <2>1. CASE w.f = "orig" BY <1>1, <1>4, <1>10, <2>1
  <2>2. CASE w.f # "orig"
    <3>1. q[1] # W("orig", <<p.start>>) BY <1>1, <2>2 DEF W
    <3> QED BY <1>4, <1>7, <1>9, <2>2, <3>1
  <2> QED BY <2>1, <2>2
<1>12. ASSUME NEW f \in {"pick", "revert", "seqHead", "seqTodo"} PROVE s[f] = None /\ Blank(t, f)
  <2>1. r[f] = None /\ Blank(q, f) BY <1>7, <1>9
  <2>2. f \in Fields /\ f \notin {"dirty", "stash"} BY FieldsAre
  <2>3. s[f] = Put(w, f, r[f]) BY <1>2, <2>2
  <2> QED BY <1>1, <2>2, PutEither, <1>5, <2>1, <2>3
<1> QED BY <1>1, <1>10, <1>11, <1>12

LEMMA WriteUnmerged ==
  ASSUME NEW r, RepoOK(r), NEW q \in Seq(WriteType), q # <<>>, NEW w, w = Head(q), NEW t, t = Tail(q), NEW s, s = Apply(r, w),
         UnmergedAt(r, q)
  PROVE  UnmergedAt(s, t)
<1>1. w \in WriteType /\ Range(q) = {w} \cup Range(t) /\ 1 \in DOMAIN q /\ q[1] = w BY QueueIs
<1>2. \A j \in DOMAIN t : j \in Nat /\ j >= 1 /\ j + 1 \in DOMAIN q /\ q[j + 1] = t[j] BY QueueIs
<1>3. \A i \in DOMAIN q : i \in Nat /\ (i = 1 \/ (i - 1 \in DOMAIN t /\ q[i] = t[i - 1])) BY QueueIs
<1>4. s.merge = (IF w.f = "merge" THEN w.v ELSE r.merge) /\ s.index = (IF w.f = "index" THEN w.v ELSE r.index)
  <2>3. Puts(r, w, s) BY <1>1, AppliedIs
  <2>2. \A f \in Fields \ {"dirty", "stash"} : s[f] = Put(w, f, r[f]) BY <2>3 DEF Puts
  <2> QED BY FieldsAre, <1>1, <2>2, PutEither DEF SequencerDir, RebaseDir
<1>5. /\ r.index.unmerged = "merge" => r.merge # None
      /\ \A j \in DOMAIN q : q[j].f = "index" /\ q[j].v.unmerged = "merge" =>
           /\ r.merge # None \/ \E k \in DOMAIN q : k < j /\ q[k].f = "merge" /\ q[k].v # None
           /\ W("merge", None) \notin Range(q)
      /\ \A j \in DOMAIN q : q[j] = W("merge", None) =>
           r.index.unmerged # "merge" \/ \E k \in DOMAIN q : k < j /\ q[k].f = "index"
  BY DEF UnmergedAt
<1>6. \A k \in DOMAIN q : ~(k < 1) BY <1>2, <1>3
<1>7. w.f = "merge" /\ w.v = None => w = W("merge", None) BY <1>1, Written
<1>8. ASSUME s.index.unmerged = "merge" PROVE s.merge # None
  <2>1. CASE w.f = "index" BY <1>1, <1>4, <1>5, <1>6, <1>8, <2>1
  <2>2. CASE w.f # "index" BY <1>1, <1>4, <1>5, <1>6, <1>7, <1>8, <2>2
  <2> QED BY <2>1, <2>2
<1>9. ASSUME NEW j \in DOMAIN t, t[j].f = "index", t[j].v.unmerged = "merge"
      PROVE  /\ s.merge # None \/ \E k \in DOMAIN t : k < j /\ t[k].f = "merge" /\ t[k].v # None
             /\ W("merge", None) \notin Range(t)
  <2>1. j \in Nat /\ j + 1 \in DOMAIN q /\ q[j + 1] = t[j] BY <1>2
  <2>2. /\ r.merge # None \/ \E k \in DOMAIN q : k < j + 1 /\ q[k].f = "merge" /\ q[k].v # None
        /\ W("merge", None) \notin Range(q)
    BY <1>5, <1>9, <2>1
  <2>3. CASE r.merge # None BY <1>1, <1>4, <1>7, <2>2, <2>3
  <2>4. CASE r.merge = None
    <3>1. PICK k \in DOMAIN q : k < j + 1 /\ q[k].f = "merge" /\ q[k].v # None BY <2>2, <2>4
    <3>2. CASE k = 1 BY <1>1, <1>4, <2>2, <3>1, <3>2
    <3>3. CASE k # 1
      <4>1. k \in Nat /\ k - 1 \in DOMAIN t /\ q[k] = t[k - 1] BY <1>3, <3>3
      <4>2. k - 1 < j BY <2>1, <3>1, <4>1
      <4> QED BY <1>1, <2>2, <3>1, <4>1, <4>2
    <3> QED BY <3>2, <3>3
  <2> QED BY <2>3, <2>4
<1>10. ASSUME NEW j \in DOMAIN t, t[j] = W("merge", None)
       PROVE  s.index.unmerged # "merge" \/ \E k \in DOMAIN t : k < j /\ t[k].f = "index"
  <2>1. j \in Nat /\ j + 1 \in DOMAIN q /\ q[j + 1] = t[j] BY <1>2
  <2>3. W("merge", None) \in Range(q) BY <1>10, <2>1 DEF Range
  <2>5. CASE w.f # "index" /\ r.index.unmerged # "merge" BY <1>4, <2>5
  <2>6. CASE w.f # "index" /\ r.index.unmerged = "merge"
    <3>1. PICK k \in DOMAIN q : k < j + 1 /\ q[k].f = "index" BY <1>5, <1>10, <2>1, <2>6
    <3>2. k # 1 BY <1>1, <2>6, <3>1
    <3>3. k \in Nat /\ k - 1 \in DOMAIN t /\ q[k] = t[k - 1] BY <1>3, <3>2
    <3>4. k - 1 < j BY <2>1, <3>1, <3>3
    <3> QED BY <3>1, <3>3, <3>4
  <2> QED BY <1>1, <1>4, <1>5, <2>3, <2>5, <2>6
<1> QED BY <1>8, <1>9, <1>10 DEF UnmergedAt

LEMMA WriteRebase ==
  ASSUME NEW r, RepoOK(r), NEW q \in Seq(WriteType), q # <<>>, NEW w, w = Head(q), NEW t, t = Tail(q), NEW s, s = Apply(r, w),
         NEW p, NEW o, RebaseAt(r, q, p, o)
  PROVE  /\ RebaseAt(s, t, p, o)
         /\ p.kind = "rebase" /\ o \cap {"stale", "commit", "reset", "attached"} = {} /\ s.branch # r.branch => r.branch = p.start /\ r.head = <<s.branch>>
<1>1. w \in WriteType /\ t \in Seq(WriteType) /\ Range(q) = {w} \cup Range(t) /\ q = <<w>> \o t /\ 1 \in DOMAIN q /\ q[1] = w BY QueueIs
<1>2. \A j \in DOMAIN t : j \in Nat /\ j >= 1 /\ j + 1 \in DOMAIN q /\ q[j + 1] = t[j] BY QueueIs
<1>4. \A f \in Fields \ {"dirty", "stash"} : s[f] = Put(w, f, r[f]) BY <1>1, AppliedIs DEF Puts
<1>5. s.branch = (IF w.f = "branch" THEN w.v ELSE r.branch) /\ s.head = Put(w, "head", r.head)
  <2> QED BY FieldsAre, <1>1, <1>4, PutEither DEF SequencerDir, RebaseDir
<1>6. \A f : Blank(q, f) <=> Blank(t, f) /\ (w.f = f => w.v = None) BY <1>1 DEF Blank
<1>7. SUFFICES ASSUME p.kind = "rebase", o \cap {"stale", "commit", "reset"} = {}
               PROVE  /\ \A f \in {"pick", "revert", "merge", "seqHead", "seqTodo"} : s[f] = None /\ Blank(t, f)
                      /\ s.rbOrig \in {None, <<p.start>>}
                      /\ \A v \in Range(t) : v.f = "rbOrig" => v.v = <<p.start>>
                      /\ \A j \in DOMAIN t : t[j].f = "branch" /\ "attached" \notin o =>
                           /\ s.branch = p.start /\ \A k \in DOMAIN t : t[k].f = "branch" => k = j
                           /\ Late(SubSeq(t, 1, j - 1), "head", s.head) = <<t[j].v>>
                      /\ s.branch # r.branch /\ "attached" \notin o => r.branch = p.start /\ r.head = <<s.branch>>
  BY DEF RebaseAt
<1>8. /\ \A f \in {"pick", "revert", "merge", "seqHead", "seqTodo"} : r[f] = None /\ Blank(q, f)
      /\ r.rbOrig \in {None, <<p.start>>}
      /\ \A v \in Range(q) : v.f = "rbOrig" => v.v = <<p.start>>
      /\ \A j \in DOMAIN q : q[j].f = "branch" /\ "attached" \notin o =>
           /\ r.branch = p.start /\ \A k \in DOMAIN q : q[k].f = "branch" => k = j
           /\ Late(SubSeq(q, 1, j - 1), "head", r.head) = <<q[j].v>>
  BY <1>7 DEF RebaseAt
<1>9. ASSUME NEW f \in {"pick", "revert", "merge", "seqHead", "seqTodo"} PROVE s[f] = None /\ Blank(t, f)
  <2>1. r[f] = None /\ Blank(q, f) BY <1>8
  <2>2. f \in Fields /\ f \notin {"dirty", "stash"} BY FieldsAre
  <2>3. s[f] = Put(w, f, r[f]) BY <1>4, <2>2
  <2> QED BY <1>1, <2>2, PutEither, <1>6, <2>1, <2>3
<1>10. s.rbOrig \in {None, <<p.start>>}
  <2>2. "rbOrig" \in Fields /\ "rbOrig" \notin {"dirty", "stash"} BY FieldsAre
  <2>3. s.rbOrig = Put(w, "rbOrig", r.rbOrig) BY <1>4, <2>2
  <2>4. Put(w, "rbOrig", r.rbOrig) = r.rbOrig \/ (w.f = "rbOrig" /\ Put(w, "rbOrig", r.rbOrig) = w.v) \/ Put(w, "rbOrig", r.rbOrig) = None BY <1>1, <2>2, PutEither
  <2> QED BY <1>1, <1>8, <2>3, <2>4
<1>11. ASSUME NEW j \in DOMAIN t, t[j].f = "branch", "attached" \notin o
       PROVE  /\ s.branch = p.start /\ \A k \in DOMAIN t : t[k].f = "branch" => k = j
              /\ Late(SubSeq(t, 1, j - 1), "head", s.head) = <<t[j].v>>
  <2>1. j \in Nat /\ j >= 1 /\ j + 1 \in DOMAIN q /\ q[j + 1] = t[j] /\ (j + 1) - 1 = j BY <1>2
  <2>2. r.branch = p.start /\ (\A k \in DOMAIN q : q[k].f = "branch" => k = j + 1) /\ Late(SubSeq(q, 1, (j + 1) - 1), "head", r.head) = <<q[j + 1].v>>
    BY <1>8, <1>11, <2>1
  <2>3. w.f # "branch"
    <3>1. 1 # j + 1 BY <2>1
    <3> QED BY <1>1, <2>2, <3>1
  <2>4. ASSUME NEW k \in DOMAIN t, t[k].f = "branch" PROVE k = j
    <3>1. k \in Nat /\ k + 1 \in DOMAIN q /\ q[k + 1] = t[k] BY <1>2
    <3>2. k + 1 = j + 1 BY <2>2, <2>4, <3>1
    <3> QED BY <2>1, <3>1, <3>2
  <2>5. PICK a \in Seq(WriteType) : a = SubSeq(t, 1, j - 1)
    <3>1. PICK n \in Nat : n = Len(t) /\ DOMAIN t = 1 .. n BY <1>1, LenProperties
    <3>2. \A k \in 1 .. j - 1 : k \in 1 .. n BY <2>1, <3>1
    <3>4. PICK l \in Int : l = j - 1 BY <2>1
    <3>5. SubSeq(t, 1, l) \in Seq(WriteType) BY <3>1, <3>2, ElementOfSeq, <1>1, <3>4, SubSeqProperties
    <3> QED BY <3>4, <3>5
  <2>6. PICK b \in Seq(WriteType) : b = <<w>> /\ \A f, x : Late(b, f, x) = Put(w, f, x) BY <1>1, One
  <2>7. SubSeq(q, 1, j) = b \o a
    <3>1. PICK n \in Nat : n = Len(t) /\ DOMAIN t = 1 .. n BY <1>1, LenProperties
    <3>2. Len(b) = 1 /\ b[1] = w BY <2>6
    <3>9. j <= n BY <2>1, <3>1
    <3>10. PICK l \in Int : l = j - 1 BY <2>1
    <3>3. Len(a) = j - 1 /\ \A k \in 1 .. j - 1 : a[k] = t[k]
      <4>1. \A k \in 1 .. l : k \in 1 .. n BY <2>1, <3>9, <3>10
      <4>2. \A k \in 1 .. l : t[k] \in WriteType BY <1>1, <3>1, <4>1, ElementOfSeq
      <4>3. a = SubSeq(t, 1, l) BY <2>5, <3>10
      <4>4. Len(a) = IF 1 <= l THEN l - 1 + 1 ELSE 0 BY <1>1, <4>2, <4>3, SubSeqProperties
      <4>9. t \in Seq(WriteType) BY <1>1
      <4>10. 1 \in Int /\ l \in Int OBVIOUS
      <4>5. \A k \in 1 .. l - 1 + 1 : SubSeq(t, 1, l)[k] = t[1 + k - 1] BY ONLY <4>2, <4>9, <4>10, SubSeqProperties
      <4>6. \A k \in 1 .. l : k \in 1 .. l - 1 + 1 /\ 1 + k - 1 = k BY <3>10
      <4>7. \A k \in 1 .. l : a[k] = t[k] BY <4>3, <4>5, <4>6
      <4>8. Len(a) = l BY <2>1, <3>10, <4>4
      <4> QED BY <3>10, <4>7, <4>8
    <3>4. PICK c : c = b \o a OBVIOUS
    <3>5. c \in Seq(WriteType) /\ Len(c) = Len(b) + Len(a) BY <3>4, ConcatProperties
    <3>6. \A i \in 1 .. Len(b) + Len(a) : c[i] = IF i <= Len(b) THEN b[i] ELSE a[i - Len(b)] BY <3>4, ConcatProperties
    <3>7. PICK d : d = SubSeq(q, 1, j) OBVIOUS
    <3>11. PICK m \in Nat : m = Len(q) /\ DOMAIN q = 1 .. m BY LenProperties
    <3>12. j + 1 <= m BY <2>1, <3>11
    <3>8. d \in Seq(WriteType) /\ Len(d) = j /\ \A k \in 1 .. j : d[k] = q[k]
      <4>1. \A k \in 1 .. j : k \in 1 .. m BY <2>1, <3>12
      <4>2. \A k \in 1 .. j : q[k] \in WriteType BY <3>11, <4>1, ElementOfSeq
      <4>3. d \in Seq(WriteType) /\ Len(d) = IF 1 <= j THEN j - 1 + 1 ELSE 0 BY <2>1, <3>7, <4>2, SubSeqProperties
      <4>4. \A k \in 1 .. j - 1 + 1 : d[k] = q[1 + k - 1] BY <2>1, <3>7, <4>2, SubSeqProperties
      <4>6. \A k \in 1 .. j : d[k] = q[k] BY <2>1, <4>4
      <4>7. Len(d) = j BY <2>1, <4>3
      <4> QED BY <4>3, <4>6, <4>7
    <3>13. Len(c) = j BY <2>1, <3>2, <3>3, <3>5
    <3>14. ASSUME NEW i \in 1 .. j PROVE d[i] = c[i]
      <4>1. i \in 1 .. Len(b) + Len(a) BY <3>5, <3>13
      <4>2. d[i] = q[i] BY <3>8
      <4>3. CASE i = 1
        <5>1. c[i] = b[i] BY <3>2, <3>6, <4>1, <4>3
        <5> QED BY <1>1, <3>2, <4>2, <4>3, <5>1
      <4>4. CASE i # 1
        <5>1. ~(i <= 1) /\ i - 1 \in 1 .. j - 1 /\ i \in 1 .. m BY <2>1, <3>12, <4>4
        <5>2. c[i] = a[i - 1] BY <3>2, <3>6, <4>1, <5>1
        <5>3. q[i] = t[i - 1] BY QueueIs, <3>11, <4>4, <5>1
        <5> QED BY <3>3, <4>2, <5>1, <5>2, <5>3
      <4> QED BY <4>3, <4>4
    <3>15. d = c BY <3>5, <3>8, <3>13, <3>14, SeqEqual
    <3> QED BY <3>4, <3>7, <3>15
  <2>8. Late(b \o a, "head", r.head) = Late(a, "head", Late(b, "head", r.head)) BY Join
  <2>9. Late(a, "head", s.head) = <<t[j].v>> BY <1>5, <2>1, <2>2, <2>6, <2>7, <2>8, ZenonT(60)
  <2> QED BY <1>5, <2>2, <2>3, <2>4, <2>5, <2>9
<1>12. ASSUME s.branch # r.branch, "attached" \notin o PROVE r.branch = p.start /\ r.head = <<s.branch>>
  <2>1. w.f = "branch" /\ s.branch = w.v BY <1>5, <1>12
  <2>3. SubSeq(q, 1, 1 - 1) = <<>> BY SubSeqProperties, EmptySeq
  <2>4. Late(SubSeq(q, 1, 1 - 1), "head", r.head) = r.head BY <2>3, NoneIs
  <2> QED BY <1>1, <1>8, <1>12, <2>1, <2>4
<1> QED BY <1>1, <1>8, <1>9, <1>10, <1>11, <1>12

LEMMA WriteKeeps ==
  ASSUME NEW r, RepoOK(r), NEW q \in Seq(WriteType), q # <<>>, NEW w, w = Head(q), NEW t, t = Tail(q), NEW s, s = Apply(r, w),
         NEW p, NEW o, InvAt(r, q, p, o)
  PROVE  InvAt(s, t, p, o)
<1>1. w \in WriteType /\ t \in Seq(WriteType) /\ q = <<w>> \o t BY QueueIs
<1>2. MergeAt(s, t, p, o) BY WriteMerge DEF InvAt
<1>3. UnmergedAt(s, t) BY WriteUnmerged DEF InvAt
<1>4. RebaseAt(s, t, p, o) BY WriteRebase DEF InvAt
<1>5. PICK A : A = Then(r, q) OBVIOUS
<1>6. PICK B : B = Then(s, t) OBVIOUS
<1>7. Alike(A, B) BY <1>1, <1>5, <1>6, WriteThen
<1>9. WholeAt(B, o) /\ StashedAt(B, o) /\ TidyAt(B, p, o) BY <1>5, <1>7, SameThen DEF InvAt
<1>10. EditsAt(s, t, p, o)
  <2>1. EditsAt(r, q, p, o) BY DEF InvAt
  <2>2. \A S : Safe(r, q, S) => Safe(s, t, S) BY <1>1, WriteSafe
  <2> QED BY <2>1, <2>2 DEF EditsAt
<1> QED BY <1>2, <1>3, <1>4, <1>6, <1>9, <1>10 DEF InvAt

------------------------------
(* A kill, a fresh repository, and what the user does to the index. *)

LEMMA RestThen ==
  ASSUME NEW r, RepoOK(r)
  PROVE  /\ Then(r, <<>>) = r /\ Dirtied(<<>>, r.dirty) = r.dirty
         /\ \A f : Blank(<<>>, f) /\ Late(<<>>, f, r[f]) = r[f]
<1>1. r = [f \in Fields |-> r[f]] BY DEF RepoOK
<1>2. \A f : Late(<<>>, f, r[f]) = r[f] BY NoneIs
<1>3. \A f : Blank(<<>>, f) BY NoneIs DEF Blank
<1>4. r.dirty \in SUBSET Locals BY FieldsAre, KindsAre DEF RepoOK
<1>5. r.dirty \subseteq Dirtied(<<>>, r.dirty)
  <2> QED BY NoneIs, <1>4, Calm
<1>6. Dirtied(<<>>, r.dirty) \subseteq r.dirty BY DEF Dirtied
<1> QED BY <1>1, <1>2, <1>3, <1>5, <1>6 DEF Then

LEMMA CrashKeeps ==
  ASSUME NEW r, NEW q, NEW p, NEW o, NEW x, x = o \cup {"crash"}, InvAt(r, q, p, o)
  PROVE  InvAt(r, <<>>, p, x)
<1>1. (\A f : Blank(<<>>, f)) /\ Range(<<>>) = {} /\ DOMAIN <<>> = {} BY NoneIs DEF Blank
<1>2. MergeAt(r, <<>>, p, x) BY <1>1 DEF InvAt, MergeAt
<1>3. UnmergedAt(r, <<>>) BY <1>1 DEF InvAt, UnmergedAt
<1>4. RebaseAt(r, <<>>, p, x)
  <2>1. SUFFICES ASSUME p.kind = "rebase", x \cap {"stale", "commit", "reset"} = {}
                 PROVE  /\ \A f \in {"pick", "revert", "merge", "seqHead", "seqTodo"} : r[f] = None
                        /\ r.rbOrig \in {None, <<p.start>>}
    BY <1>1 DEF RebaseAt
  <2> QED BY <2>1 DEF InvAt, RebaseAt
<1> QED BY <1>2, <1>3, <1>4 DEF InvAt, WholeAt, StashedAt, TidyAt, EditsAt

\* Only the index changed, to one without a conflict.
LEMMA IndexKeeps ==
  ASSUME RepoOK(repo), InvAt(repo, <<>>, plan, odd), NEW i \in IndexType, i.unmerged = "no",
         NEW s, s = [repo EXCEPT !.index = i], NEW p, p.start = plan.start, p.local = plan.local,
         \/ p.kind = plan.kind /\ (plan.kind = "aborted" => i.tree \in {repo.index.tree, repo.index.both} /\ i.both = i.tree)
         \/ p.kind = "none" /\ plan.kind \in {"aborted", "refused"}
  PROVE  RepoOK(s) /\ InvAt(s, <<>>, p, odd)
<1>1. repo = [f \in Fields |-> repo[f]] /\ \A f \in Fields : repo[f] \in Kind(f) BY DEF RepoOK
<1>2. (\A f \in Fields \ {"index"} : s[f] = repo[f]) /\ s.index = i /\ s = [f \in Fields |-> s[f]]
  <2>1. "index" \in Fields BY FieldsAre
  <2> QED BY <1>1, <2>1
<1>3. RepoOK(s)
  <2>1. Kind("index") = IndexType BY KindsAre
  <2> QED BY <1>1, <1>2, <2>1 DEF RepoOK
<1>4. (\A f : Blank(<<>>, f)) /\ Range(<<>>) = {} /\ DOMAIN <<>> = {} BY NoneIs DEF Blank
<1>5. PICK F : F = Fields \ {"index"} OBVIOUS
<1>6. F = {"branch", "dirty", "stash", "pick", "revert", "rebase", "message", "mergeStash",
            "seqTodo", "seqOpts", "rbTodo", "rbDone", "rbMessage", "rbStash", "head", "orig", "merge",
            "seqHead", "seqSafety", "rbOrig", "rbOnto"} BY <1>5, FieldsAre
<1>7. \A f \in F : s[f] = repo[f] BY <1>2, <1>5
<1>8. /\ MergeAt(repo, <<>>, plan, odd) /\ UnmergedAt(repo, <<>>) /\ RebaseAt(repo, <<>>, plan, odd)
      /\ WholeAt(repo, odd) /\ StashedAt(repo, odd) /\ TidyAt(repo, plan, odd)
  BY AtRest
<1>9. MergeAt(s, <<>>, p, odd)
  <2>1. SUFFICES ASSUME odd \cap {"stale", "reset"} = {}, s.merge # None
                 PROVE  s.orig = <<p.start>> /\ \A f \in {"pick", "revert", "seqHead", "seqTodo"} : s[f] = None
    BY <1>4 DEF MergeAt
  <2> QED BY <1>6, <1>7, <1>8, <2>1 DEF MergeAt
<1>10. UnmergedAt(s, <<>>) BY <1>2, <1>4 DEF UnmergedAt
<1>11. RebaseAt(s, <<>>, p, odd)
  <2>1. SUFFICES ASSUME p.kind = "rebase", odd \cap {"stale", "commit", "reset"} = {}
                 PROVE  /\ \A f \in {"pick", "revert", "merge", "seqHead", "seqTodo"} : s[f] = None
                        /\ s.rbOrig \in {None, <<p.start>>}
    BY <1>4 DEF RebaseAt
  <2> QED BY <1>6, <1>7, <1>8, <2>1 DEF RebaseAt
<1>12. WholeAt(s, odd) BY <1>6, <1>7, <1>8 DEF WholeAt
<1>13. StashedAt(s, odd) BY <1>6, <1>7, <1>8 DEF StashedAt
<1>14. TidyAt(s, p, odd)
  <2>1. SUFFICES ASSUME odd \cap {"crash", "stale", "crossed", "reset", "refused"} = {} PROVE TidyAt(s, p, odd) BY DEF TidyAt
  <2>2. CASE p.kind = "none" /\ plan.kind \in {"aborted", "refused"}
    <3> QED BY <1>8, <2>1, <1>6, <1>7, <2>2 DEF TidyAt, Restored, StateFiles
  <2>3. CASE p.kind = plan.kind /\ plan.kind = "aborted"
    <3>1. Restored(repo, plan) BY <1>8, <2>1, <2>3 DEF TidyAt
    <3>2. i.tree = Tree(plan.start) /\ i.both = Tree(plan.start) BY <2>3, <3>1 DEF Restored
    <3>3. StateFiles \subseteq F BY <1>6 DEF StateFiles
    <3>4. Restored(s, p) BY <1>2, <1>6, <1>7, <3>1, <3>2, <3>3 DEF Restored
    <3> QED BY <2>3, <3>4 DEF TidyAt
  <2>4. CASE p.kind = plan.kind /\ plan.kind \in {"pick", "revert"} BY <1>6, <1>7, <1>8, <2>1, <2>4, ZenonT(60) DEF TidyAt
  <2>5. CASE p.kind = plan.kind /\ plan.kind \notin {"pick", "revert", "aborted"} BY <1>6, <1>7, <1>8, <2>1, <2>5 DEF TidyAt
  <2> QED BY <2>2, <2>3, <2>4, <2>5
<1>15. EditsAt(s, <<>>, p, odd)
  <2>1. SUFFICES ASSUME odd \cap {"crash", "refused"} = {} PROVE Safe(s, <<>>, p.local) BY DEF EditsAt
  <2>2. Safe(repo, <<>>, plan.local) BY <2>1 DEF InvAt, EditsAt
  <2> QED BY <1>6, <1>7, <2>2 DEF Safe
<1> QED BY <1>3, <1>9, <1>10, <1>11, <1>12, <1>13, <1>14, <1>15, RestThen DEF InvAt

------------------------------
(* What a command has to show. *)

Ready == RepoOK(repo) /\ plan \in PlanType /\ odd \subseteq Oddities /\ InvAt(repo, <<>>, plan, odd)
Leads(ws, p, o) == ws \in Seq(WriteType) /\ p \in PlanType /\ o \subseteq Oddities /\ InvAt(repo, ws, p, o)

LEMMA Assembled ==
  ASSUME Ready, NEW ws \in Seq(WriteType), NEW p \in PlanType, NEW o \in SUBSET Oddities, odd \cap {"crash", "refused"} \subseteq o,
         NEW A, A = Then(repo, ws), SeqKept(A), RebaseKept(A), StashedAt(A, o), TidyAt(A, p, o),
         MergeAt(repo, ws, p, o), UnmergedAt(repo, ws), RebaseAt(repo, ws, p, o),
         NEW new, p.local \subseteq plan.local \cup new,
         o \cap {"crash", "refused"} = {} =>
           /\ Safe(repo, ws, repo.dirty) \/ p.local \cap repo.dirty = {}
           /\ Safe(repo, ws, Held(repo.mergeStash)) /\ Safe(repo, ws, Held(repo.rbStash)) /\ Safe(repo, ws, new)
  PROVE  Leads(ws, p, o)
<1>1. RepoOK(repo) /\ InvAt(repo, <<>>, plan, odd) BY DEF Ready
<1>2. EditsAt(repo, ws, p, o) BY <1>1, EditsKept
<1>3. WholeAt(repo, odd) BY <1>1, AtRest
<1>4. WholeAt(A, o)
  <2>1. "crash" \in odd => "crash" \in o OBVIOUS
  <2> QED BY <1>3, <2>1, WholeKept
<1> QED BY <1>2, <1>4 DEF Leads, InvAt

LEMMA NothingPending ==
  ASSUME Ready, NoPendingOperation
  PROVE  /\ repo.merge = None /\ repo.pick = None /\ repo.revert = None /\ repo.rebase = None
         /\ repo.index.unmerged # "merge" /\ UnmergedAt(repo, <<>>) /\ StashedAt(repo, odd)
         /\ Lasting \in SUBSET Oddities /\ odd \cap {"crash", "refused"} = Lasting \cap {"crash", "refused"}
         /\ "stale" \notin Lasting => repo.seqHead = None /\ repo.seqTodo = None /\ repo.rbOrig = None
         /\ odd \cap {"crash", "refused"} = {} => repo.mergeStash = None /\ repo.rbStash = None
<1>2. repo.merge = None /\ repo.pick = None /\ repo.revert = None /\ repo.rebase = None BY DEF NoPendingOperation
<1>3. UnmergedAt(repo, <<>>) /\ StashedAt(repo, odd) BY AtRest DEF Ready
<1>4. repo.index.unmerged # "merge" BY <1>2, <1>3 DEF UnmergedAt
<1>5. odd \cap {"crash", "refused"} = {} => repo.mergeStash = None /\ repo.rbStash = None BY <1>2, <1>3 DEF StashedAt
<1>7. "stale" \notin Lasting => repo.seqHead = None /\ repo.seqTodo = None /\ repo.rbOrig = None BY DEF Lasting
<1> QED BY <1>2, <1>3, <1>4, <1>5, <1>7 DEF Lasting, Oddities

BegunAs(p, kind, todo, local) ==
  p = Begun(kind, todo, local) \/ \E d \in SUBSET Int : p = [Begun(kind, todo, local) EXCEPT !.dropped = d]
PlanIs(p, kind, todo, local) ==
  p \in PlanType /\ p.kind = kind /\ p.start = Tip /\ p.todo = todo /\ p.local = plan.local \cup local
LEMMA BegunIs ==
  ASSUME Ready, NEW kind \in {"pick", "revert", "rebase", "merge", "merged", "uptodate", "refused"}, NEW todo \in Seq(Names),
         NEW local \in SUBSET Locals, NEW p, BegunAs(p, kind, todo, local)
  PROVE  PlanIs(p, kind, todo, local)
<1>1. Tip \in Seq(CommitType) BY TipIs, HistoryIs DEF Ready
<1>2. plan.local \in SUBSET Locals BY DEF Ready, PlanType
<1> QED BY <1>1, <1>2 DEF Begun, BegunAs, PlanType, PlanIs

LEMMA SafeNothing == \A r, q : Safe(r, q, {})
BY DEF Safe

\* A command that begins, with no operation on record.
LEMMA Begins ==
  ASSUME Ready, NoPendingOperation, NEW ws \in Seq(WriteType), NEW p \in PlanType, NEW o \in SUBSET Oddities, Lasting \subseteq o,
         NEW A, A = Then(repo, ws), SeqKept(A), RebaseKept(A), "refused" \in o \/ (MergeStashKept(A) /\ RebaseStashKept(A)), TidyAt(A, p, o),
         MergeAt(repo, ws, p, o), UnmergedAt(repo, ws), RebaseAt(repo, ws, p, o),
         NEW new, p.local \subseteq plan.local \cup new,
         "refused" \in o \/ (Safe(repo, ws, repo.dirty) /\ Safe(repo, ws, new))
  PROVE  Leads(ws, p, o)
<1>1. odd \cap {"crash", "refused"} \subseteq o BY NothingPending
<1>2. StashedAt(A, o)
  <2>1. CASE "refused" \in o BY <2>1 DEF StashedAt
  <2>2. CASE MergeStashKept(A) /\ RebaseStashKept(A) BY <1>1, <2>2, NothingPending, StashedKept
  <2> QED BY <2>1, <2>2
<1>3. ASSUME o \cap {"crash", "refused"} = {}
      PROVE  Safe(repo, ws, repo.dirty) /\ Safe(repo, ws, Held(repo.mergeStash)) /\ Safe(repo, ws, Held(repo.rbStash)) /\ Safe(repo, ws, new)
  <2>2. Held(repo.mergeStash) = {} /\ Held(repo.rbStash) = {} BY <1>1, <1>3, NothingPending DEF Held
  <2> QED BY <2>2, SafeNothing, <1>3
<1> QED BY <1>1, <1>2, <1>3, Assembled

\* A command that leaves the markers and the directories' heads as they are, or removes them.
LEMMA TidyPlain ==
  ASSUME NEW A, NEW p, NEW o, "stale" \notin o => \A f \in {"pick", "revert", "rebase", "merge", "seqHead", "rbOrig"} : A[f] = None,
         p.kind \in {"none", "merged", "uptodate", "refused"}
  PROVE  TidyAt(A, p, o)
BY DEF TidyAt

------------------------------
(* cherry-pick and revert. *)

\* What the replay of a list leaves, whatever was written before it.
LEMMA SeqLeaves ==
  ASSUME NEW run \in RunType, NEW end, NEW todo, NEW n, NEW m, NEW ws, NEW A,
         \A f \in Fields : A[f] = Late(end.ws, f, Late(ws, f, repo[f])),
         \/ \A f \in SequencerDir : Late(ws, f, repo[f]) = repo[f]
         \/ \A f \in SequencerDir : Late(ws, f, repo[f]) = None,
         SeqDone(run, todo, n, end, m) \/ SeqStopped(run, todo, n, end, m) \/ SeqLone(run, todo, n, end, m)
  PROVE  SeqKept(A)
<1>1. SequencerDir \subseteq Fields BY FieldsAre DEF SequencerDir
<1>2. \A f \in SequencerDir : A[f] = Late(end.ws, f, Late(ws, f, repo[f])) BY <1>1
<1>3. CASE SeqDone(run, todo, n, end, m)
  <2>1. \A f \in SequencerDir : \A x : Late(end.ws, f, x) = IF \A g \in SequencerDir : repo[g] = None THEN x ELSE None BY <1>3 DEF SeqDone
  <2>2. CASE \A g \in SequencerDir : repo[g] = None
    <3>1. \A f \in SequencerDir : A[f] = repo[f] BY <1>2, <2>1, <2>2
    <3> QED BY <3>1 DEF SeqKept
  <2>3. CASE ~\A g \in SequencerDir : repo[g] = None
    <3>1. \A f \in SequencerDir : A[f] = None BY <1>2, <2>1, <2>3
    <3> QED BY <3>1 DEF SeqKept
  <2> QED BY <2>2, <2>3
<1>4. CASE SeqStopped(run, todo, n, end, m)
  <2>2. A.seqHead # None /\ A.seqTodo # None BY <1>2, <1>4, Something DEF SeqStopped, SequencerDir
  <2> QED BY <2>2 DEF SeqKept
<1>5. CASE SeqLone(run, todo, n, end, m)
  <2> QED BY <1>2, <1>5 DEF SeqKept, SeqLone
<1> QED BY <1>3, <1>4, <1>5

\* A list that made no commit left the history as it was.
LEMMA CarriesNone ==
  ASSUME NEW g, NEW h \in Histories, NEW todo, Carries(g, h, todo, 0, 0)
  PROVE  g = h
<1>1. g \in Seq(CommitType) /\ h \in Seq(CommitType) /\ Len(h) \in Nat BY HistoryIs DEF Carries
<1>2. Len(g) = Len(h) BY <1>1 DEF Carries
<1>3. \A j \in 1 .. Len(h) : g[j] = h[j] BY DEF Carries
<1> QED BY <1>1, <1>2, <1>3, SeqEqual

LEMMA ReplayRunKeeps ==
  ASSUME Ready, OpenReplayRun, NEW op \in {"pick", "revert"}, NEW todo \in Seq(Sources), NEW n \in Nat, n = Len(todo), NEW run \in RunType,
         run.op = op, run.multi <=> n > 1, run.head = Tip, NEW end, end = RunSequence(run, todo, Tip),
         NEW d \in SUBSET Int, NEW p, p = [Begun(op, todo, {}) EXCEPT !.dropped = d]
  PROVE  Leads(end.ws, p, Lasting)
<1>1. RepoOK(repo) /\ NoPendingOperation /\ repo.head = None BY DEF Ready, OpenReplayRun
<1>2. PICK o \in SUBSET Oddities : o = Lasting BY <1>1, NothingPending
<1>3. p \in PlanType /\ p.kind = op /\ p.start = Tip /\ p.local = plan.local
  <2>1. todo \in Seq(Names) BY DEF Names
  <2>3. BegunAs(p, op, todo, {}) BY DEF BegunAs
  <2>5. PlanIs(p, op, todo, {}) BY <2>1, <2>3, BegunIs
  <2> QED BY <2>5 DEF PlanIs
<1>4. PICK h \in Histories : h = Tip /\ h = repo.branch BY <1>1, TipIs DEF Tip
<1>5. end = RunSequence(run, todo, h) BY <1>4
<1>6. end \in AccType BY <1>1, <1>5, SequenceIs
<1>7. \A w \in Range(end.ws) : w.f \in SeqNames(op) /\ (w.f = "index" => w.v.unmerged \in {"no", op}) BY <1>1, <1>5, SequenceIs
<1>8. \A f \in Fields \ SeqNames(op) : \A x : Late(end.ws, f, x) = x BY <1>1, <1>5, SequenceIs
<1>9. Late(end.ws, "branch", h) = end.h BY <1>1, <1>5, SequenceIs
<1>10. PICK c, m : /\ Carried(run, todo, n, h, end, c, m)
                   /\ SeqDone(run, todo, n, end, m) \/ SeqStopped(run, todo, n, end, m) \/ SeqLone(run, todo, n, end, m)
  BY <1>1, <1>5, SequenceIs
<1>11. PICK ws \in Seq(WriteType) : ws = end.ws BY <1>6, AccIs
<1>12. PICK A : A = Then(repo, ws) OBVIOUS
<1>13. \A f \in Fields : A[f] = Late(end.ws, f, repo[f]) BY <1>11, <1>12, ThenIs
<1>14. \A f \in Fields \ SeqNames(op) : A[f] = repo[f] BY <1>8, <1>13
<1>15. {"head", "merge", "mergeStash", "rebase", "rbStash", "orig"} \cup RebasePart \subseteq Fields \ SeqNames(op) BY FieldsAre DEF SeqNames, RebasePart
<1>16. SeqKept(A)
  <2>1. PICK e : \A f : Late(e, f, repo[f]) = repo[f] BY NoneIs
  <2>2. \A f \in Fields : A[f] = Late(end.ws, f, Late(e, f, repo[f])) BY <1>13, <2>1
  <2>3. \/ \A f \in SequencerDir : Late(e, f, repo[f]) = repo[f]
        \/ \A f \in SequencerDir : Late(e, f, repo[f]) = None
    BY <2>1
  <2> QED BY <1>10, <2>2, <2>3, SeqLeaves, ZenonT(60)
<1>17. RebaseKept(A) BY <1>14, <1>15 DEF RebaseKept
<1>18. MergeStashKept(A) /\ RebaseStashKept(A) BY <1>14, <1>15 DEF MergeStashKept, RebaseStashKept
<1>19. MergeAt(repo, ws, p, o)
  <2>1. repo.merge = None BY <1>1, NothingPending
  <2>2. Blank(ws, "merge") BY <1>7, <1>11 DEF Blank, SeqNames
  <2> QED BY <2>1, <2>2, MergeBegins
<1>20. UnmergedAt(repo, ws)
  <2>1. UnmergedAt(repo, <<>>) /\ repo.index.unmerged # "merge" BY <1>1, NothingPending
  <2> QED BY <1>7, <1>11, <2>1, UnmergedKept
<1>21. RebaseAt(repo, ws, p, o) BY <1>3, RebaseOther
<1>22. Safe(repo, ws, repo.dirty)
  <2>1. \A w \in Range(ws) : w.f # "dirty" BY <1>7, <1>11 DEF SeqNames
  <2> QED BY <1>1, <2>1, SafeIs
<1>23. TidyAt(A, p, o)
  <2>1. SUFFICES ASSUME "stale" \notin o PROVE TidyAt(A, p, o) BY DEF TidyAt
  <2>2. repo.seqHead = None /\ repo.rbOrig = None /\ repo.merge = None /\ repo.pick = None /\ repo.revert = None /\ repo.rebase = None
    BY <1>1, <1>2, <2>1, NothingPending
  <2>3. \A f \in {"head", "merge", "rebase", "rbOrig"} : A[f] = None BY <1>1, <1>14, <1>15, <2>2 DEF RebasePart
  <2>4. A[IF op = "pick" THEN "revert" ELSE "pick"] = None
    <3> QED BY FieldsAre, <1>14, <2>2 DEF SeqNames
  <2>5. A.seqHead = Late(end.ws, "seqHead", repo.seqHead) /\ A.branch = Late(end.ws, "branch", repo.branch) /\ A[op] = Late(end.ws, op, repo[op])
    BY <1>13, FieldsAre
  <2>6. A.seqHead \in {None, <<Tip>>} /\ (A.seqHead = None /\ A[op] # None => A.branch = Tip)
    <3>1. CASE SeqDone(run, todo, n, end, m)
      <4>1. A.seqHead = None BY <2>2, <2>5, <3>1 DEF SeqDone, SequencerDir
      <4>2. A[op] = None BY <2>2, <2>5, <3>1 DEF SeqDone
      <4> QED BY <4>1, <4>2
    <3>2. CASE SeqStopped(run, todo, n, end, m)
      <4>1. A.seqHead = <<Tip>> BY <2>5, <3>2 DEF SeqStopped
      <4> QED BY <4>1, Something
    <3>3. CASE SeqLone(run, todo, n, end, m)
      <4>1. A.seqHead = None BY <2>2, <2>5, <3>3 DEF SeqLone, SequencerDir
      <4>2. m = 0
        <5>1. m \in 0 .. n - 1 /\ ~(n > 1) BY <3>3 DEF SeqLone
        <5> QED BY <5>1
      <4>3. Carries(end.h, h, todo, 0, 0)
        <5>1. c \in {0, 1} /\ c <= m /\ Carries(end.h, h, todo, c, m) BY <1>10 DEF Carried
        <5>2. c = 0 BY <4>2, <5>1
        <5> QED BY <4>2, <5>1, <5>2
      <4>4. end.h = h BY <4>3, CarriesNone
      <4> QED BY <1>4, <1>9, <2>5, <4>1, <4>4
    <3> QED BY <1>10, <3>1, <3>2, <3>3
  <2> QED BY <1>3, <2>3, <2>4, <2>6 DEF TidyAt
<1>24. Lasting \subseteq o /\ p.local \subseteq plan.local \cup {} BY <1>2, <1>3
<1>25. Safe(repo, ws, {}) BY SafeNothing
<1> QED BY <1>1, <1>2, <1>3, <1>11, <1>12, <1>16, <1>17, <1>18, <1>19, <1>20, <1>21, <1>22, <1>23, <1>24, <1>25, Begins

LEMMA MarkerIs == \A op \in {"pick", "revert"} : Marker(op) = op
BY DEF Marker

\* What a resumed list does before it goes on: the stopped commit is dealt with.
Deals(op, pre) ==
  /\ \A w \in Range(pre) : w.f # "dirty" /\ (w.f = "merge" => w.v = None)
  /\ Late(pre, "mergeStash", repo.mergeStash) = None
     \/ (Late(pre, "mergeStash", repo.mergeStash) = repo.mergeStash /\ Late(pre, "merge", repo.merge) = repo.merge)
  /\ \A f \in {"head", "rebase", "rbStash"} \cup RebasePart : Late(pre, f, repo[f]) = repo[f]
  /\ \A f \in {"merge", "pick", "revert"} : Late(pre, f, repo[f]) \in {None, repo[f]}
  /\ \/ \A f \in SequencerDir : Late(pre, f, repo[f]) = repo[f]
     \/ \A f \in SequencerDir : Late(pre, f, repo[f]) = None
  /\ Late(pre, op, repo[op]) = None

LEMMA NotMerging ==
  ASSUME Ready, repo.pick # None \/ repo.revert # None \/ repo.seqTodo # None \/ repo.seqHead # None
  PROVE  /\ odd \cap {"stale", "reset"} = {} => repo.merge = None
         /\ plan.kind = "rebase" => odd \cap {"stale", "commit", "reset"} # {}
<1>1. MergeAt(repo, <<>>, plan, odd) /\ RebaseAt(repo, <<>>, plan, odd) BY AtRest DEF Ready
<1>2. odd \cap {"stale", "reset"} = {} => repo.merge = None BY <1>1 DEF MergeAt
<1> QED BY <1>1, <1>2 DEF RebaseAt

LEMMA Resumes ==
  ASSUME Ready, repo.head = None, NEW op \in {"pick", "revert"}, OpenReplayResume(op),
         NEW todo \in Seq(Sources), NEW n \in Nat, n = Len(todo), n > 0 => repo.seqTodo # None,
         NEW h \in Histories, NEW run \in RunType, run.op = op, run.multi, repo.seqHead # None => run.head = repo.seqHead[1],
         NEW end, end = RunSequence(run, todo, h),
         NEW pre \in Seq(WriteType), Deals(op, pre), NEW ws, ws = pre \o end.ws, UnmergedAt(repo, ws), Safe(repo, ws, Held(repo.mergeStash)),
         NEW p \in PlanType, p.kind = plan.kind, p.start = plan.start, p.local = plan.local
  PROVE  Leads(ws, p, Crossing(op))
<1>1. RepoOK(repo) /\ odd \subseteq Oddities BY DEF Ready
<1>2. PICK o \in SUBSET Oddities : o = Crossing(op) /\ odd \subseteq o /\ ("crossed" \in o \/ (o = odd /\ plan.kind = op))
  <2>1. CASE plan.kind = op BY <1>1, <2>1 DEF Crossing
  <2>2. CASE plan.kind # op
    <3> QED BY <1>1, <2>2 DEF Crossing, Oddities
  <2> QED BY <2>1, <2>2
<1>3. repo[op] # None \/ repo.seqTodo # None BY MarkerIs DEF OpenReplayResume
<1>4. end \in AccType BY <1>1, SequenceIs
<1>5. \A w \in Range(end.ws) : w.f \in SeqNames(op) /\ (w.f = "index" => w.v.unmerged \in {"no", op}) BY <1>1, SequenceIs
<1>6. \A f \in Fields \ SeqNames(op) : \A x : Late(end.ws, f, x) = x BY <1>1, SequenceIs
<1>7. PICK c, m : SeqDone(run, todo, n, end, m) \/ SeqStopped(run, todo, n, end, m) \/ SeqLone(run, todo, n, end, m)
  BY <1>1, SequenceIs
<1>8. PICK tail \in Seq(WriteType) : tail = end.ws BY <1>4, AccIs
<1>9. ws \in Seq(WriteType) /\ Range(ws) = Range(pre) \cup Range(end.ws) /\ \A f, x : Late(ws, f, x) = Late(end.ws, f, Late(pre, f, x)) BY <1>8, Join
<1>10. PICK A : A = Then(repo, ws) OBVIOUS
<1>11. \A f \in Fields : A[f] = Late(end.ws, f, Late(pre, f, repo[f])) BY <1>9, <1>10, ThenIs
<1>12. \A f \in Fields \ SeqNames(op) : A[f] = Late(pre, f, repo[f]) BY <1>6, <1>11
<1>13. PICK other \in {"pick", "revert"} : other = (IF op = "pick" THEN "revert" ELSE "pick") /\ other # op OBVIOUS
<1>14. {"head", "merge", "mergeStash", "rebase", "rbStash", "orig", other} \cup RebasePart \subseteq Fields \ SeqNames(op) BY <1>13, FieldsAre DEF SeqNames, RebasePart
<1>15. \A f \in {"head", "rebase", "rbStash"} \cup RebasePart : A[f] = repo[f] BY <1>12, <1>14 DEF Deals
<1>16. A.merge \in {None, repo.merge} /\ A[other] \in {None, repo[other]} BY <1>12, <1>14 DEF Deals
<1>17. SeqKept(A)
  <2>1. \/ \A f \in SequencerDir : Late(pre, f, repo[f]) = repo[f]
        \/ \A f \in SequencerDir : Late(pre, f, repo[f]) = None
    BY DEF Deals
  <2>2. run \in RunType OBVIOUS
  <2> QED BY ONLY <1>7, <1>11, <2>1, <2>2, SeqLeaves
<1>18. RebaseKept(A) BY <1>15 DEF RebaseKept
<1>19. MergeStashKept(A) /\ RebaseStashKept(A) BY <1>12, <1>14, <1>15 DEF MergeStashKept, RebaseStashKept, Deals
<1>20. StashedAt(A, o)
  <2>1. StashedAt(repo, odd) BY AtRest DEF Ready
  <2>2. odd \cap {"crash", "refused"} \subseteq o BY <1>2
  <2> QED BY <1>19, <2>1, <2>2, StashedKept
<1>21. MergeAt(repo, ws, p, o)
  <2>1. SUFFICES ASSUME o \cap {"stale", "reset"} = {} PROVE MergeAt(repo, ws, p, o) BY DEF MergeAt
  <2>2. repo.merge = None BY <1>2, <1>3, <2>1, NotMerging
  <2>3. Blank(ws, "merge") BY <1>5, <1>9 DEF Blank, SeqNames, Deals
  <2> QED BY <2>2, <2>3, MergeBegins
<1>22. RebaseAt(repo, ws, p, o)
  <2> QED BY <1>3, NotMerging, <1>2 DEF RebaseAt
<1>23. Safe(repo, ws, repo.dirty)
  <2>1. \A w \in Range(ws) : w.f # "dirty" BY <1>5, <1>9 DEF SeqNames, Deals
  <2> QED BY <1>1, <1>9, <2>1, SafeIs
<1>24. Safe(repo, ws, Held(repo.rbStash))
  <2>1. Late(ws, "rbStash", repo.rbStash) = repo.rbStash
    <3> QED BY <1>10, <1>14, ThenIs, <1>15
  <2> QED BY <1>1, <1>9, <2>1, SafeIs
<1>25. TidyAt(A, p, o)
  <2>1. SUFFICES ASSUME o \cap {"crash", "stale", "crossed", "reset", "refused"} = {} PROVE TidyAt(A, p, o) BY DEF TidyAt
  <2>2. o = odd /\ plan.kind = op BY <1>2, <2>1
  <2>4. /\ \A f \in {"head", "merge", "rebase", "rbOrig", other} : repo[f] = None
        /\ repo.seqHead \in {None, <<plan.start>>}
        /\ repo.seqHead = None <=> repo.seqTodo = None
    BY AtRest, <1>13, <2>1, <2>2 DEF TidyAt, WholeAt, Ready
  <2>6. A.seqHead = Late(end.ws, "seqHead", Late(pre, "seqHead", repo.seqHead)) /\ A[op] = Late(end.ws, op, Late(pre, op, repo[op]))
    BY <1>11, FieldsAre
  <2>7. A.seqHead \in {None, <<p.start>>} /\ (A.seqHead = None /\ A[op] # None => A.branch = p.start)
    <3>1. CASE SeqDone(run, todo, n, end, m)
      <4>1. A[op] = None BY <2>6, <3>1 DEF SeqDone, Deals
      <4>3. A.seqHead \in {None, Late(pre, "seqHead", repo.seqHead)} BY <2>6, <3>1 DEF SeqDone, SequencerDir
      <4> QED BY <2>4, <4>1, <4>3 DEF Deals, SequencerDir
    <3>2. CASE SeqStopped(run, todo, n, end, m)
      <4>1. n > 0
        <5>1. m \in 0 .. n - 1 BY <3>2 DEF SeqStopped
        <5> QED BY <5>1
      <4>2. repo.seqHead # None BY <2>4, <4>1
      <4>3. repo.seqHead = <<plan.start>> BY <2>4, <4>2
      <4>4. run.head = plan.start BY <4>2, <4>3
      <4>5. A.seqHead = <<p.start>> BY <2>6, <3>2, <4>4 DEF SeqStopped
      <4> QED BY <4>5, Something
    <3>3. CASE SeqLone(run, todo, n, end, m) BY <3>3 DEF SeqLone
    <3> QED BY <1>7, <3>1, <3>2, <3>3
  <2> QED BY <1>15, <1>16, <2>4, <1>13, <2>2, <2>7 DEF TidyAt, RebasePart
<1>26. odd \cap {"crash", "refused"} \subseteq o /\ p.local \subseteq plan.local \cup {} /\ Safe(repo, ws, {}) BY <1>2, SafeNothing
<1> QED BY <1>2, <1>9, <1>10, <1>17, <1>18, <1>20, <1>21, <1>22, <1>23, <1>24, <1>25, <1>26, Assembled

LEMMA TodoIs ==
  ASSUME RepoOK(repo)
  PROVE  Todo \in Seq(Sources) /\ Rest \in Seq(Sources) /\ (Todo # <<>> => repo.seqTodo # None) /\ (Rest # <<>> => repo.seqTodo # None)
<1>1. repo.seqTodo \in Maybe(Seq(Sources)) BY FieldsAre, KindsAre DEF RepoOK
<1>2. Todo \in Seq(Sources) /\ (Todo # <<>> => repo.seqTodo # None)
  <2>1. CASE repo.seqTodo = None BY <2>1, EmptySeq DEF Todo
  <2>2. CASE repo.seqTodo # None
    <3>1. repo.seqTodo[1] \in Seq(Sources) BY <1>1, <2>2, MaybeIs
    <3> QED BY <2>2, <3>1 DEF Todo
  <2> QED BY <2>1, <2>2
<1>3. PICK t \in Seq(Sources) : t = Todo BY <1>2
<1>4. Rest \in Seq(Sources) /\ (Rest # <<>> => t # <<>>)
  <2>1. CASE t = <<>> BY <1>3, <2>1, EmptySeq DEF Rest
  <2>2. CASE t # <<>>
    <3>1. Tail(t) \in Seq(Sources) BY <2>2, HeadTailProperties
    <3> QED BY <1>3, <2>2, <3>1 DEF Rest
  <2> QED BY <2>1, <2>2
<1> QED BY <1>2, <1>3, <1>4

LEMMA ResumedIs ==
  ASSUME RepoOK(repo), NEW op \in {"pick", "revert"}, NEW given \in BOOLEAN, NEW h \in Histories, NEW onEmpty \in {"stop", "drop"},
         NEW run, run = Resumed(op, h, ResumeAllowsEmpty(op, given), onEmpty)
  PROVE  run \in RunType /\ run.op = op /\ run.multi /\ run.onEmpty = onEmpty /\ (repo.seqHead # None => run.head = repo.seqHead[1])
<1>1. repo.seqHead \in Maybe(Histories)
  <2> QED BY FieldsAre, KindsAre DEF RepoOK, HistoryFiles
<1>2. repo.seqHead # None => repo.seqHead[1] \in Histories BY <1>1, MaybeIs
<1>3. ResumeAllowsEmpty(op, given) \in BOOLEAN BY DEF ResumeAllowsEmpty
<1> QED BY <1>2, <1>3 DEF Resumed, RunType

LEMMA SameStash ==
  ASSUME Ready, NEW ws \in Seq(WriteType), Late(ws, "mergeStash", repo.mergeStash) = repo.mergeStash
  PROVE  Safe(repo, ws, Held(repo.mergeStash))
<1>1. RepoOK(repo) BY DEF Ready
<1> QED BY <1>1, SafeIs

LEMMA ResolvedDeals ==
  ASSUME Ready, repo.head = None, NEW op \in {"pick", "revert"}, NEW h \in Histories,
         NEW pre, pre = <<MoveHead(h), W(Marker(op), None), W("message", None)>>
  PROVE  /\ pre \in Seq(WriteType) /\ Deals(op, pre) /\ \A w \in Range(pre) : w.f \notin {"index", "merge"}
         /\ \A x : Late(pre, "mergeStash", x) = x
         /\ Late(pre, "branch", repo.branch) = h
<1>1. RepoOK(repo) BY DEF Ready
<1>2. PICK a \in WriteType : a = MoveHead(h) /\ a = W("branch", h) BY <1>1, MoveHeadIs
<1>3. PICK b \in WriteType : b = W(op, None) BY Removal
<1>4. PICK c \in WriteType : c = W("message", None) BY Removal
<1>5. pre = <<a, b, c>> BY <1>2, <1>3, <1>4, MarkerIs
<1>6. pre \in Seq(WriteType) /\ Range(pre) = {a, b, c} /\ \A f, x : Late(pre, f, x) = Put(c, f, Put(b, f, Put(a, f, x))) BY <1>5, Three
<1>7. \A f, x : Late(pre, f, x) = IF f \in {op, "message"} THEN None ELSE IF f = "branch" THEN h ELSE x
  BY <1>2, <1>3, <1>4, <1>6, PutIs
<1>8. Deals(op, pre)
  <2>1. \A w \in Range(pre) : w.f # "dirty" /\ (w.f = "merge" => w.v = None) BY <1>2, <1>3, <1>4, <1>6 DEF W
  <2>3. \A f \in {"head", "rebase", "rbStash"} \cup RebasePart : Late(pre, f, repo[f]) = repo[f] BY <1>7 DEF RebasePart
  <2>4. \A f \in {"merge", "pick", "revert"} : Late(pre, f, repo[f]) \in {None, repo[f]} BY <1>7
  <2>5. \A f \in SequencerDir : Late(pre, f, repo[f]) = repo[f] BY <1>7 DEF SequencerDir
  <2>6. Late(pre, op, repo[op]) = None BY <1>7
  <2> QED BY <1>7, <2>1, <2>3, <2>4, <2>5, <2>6 DEF Deals
<1>9. \A w \in Range(pre) : w.f \notin {"index", "merge"} BY <1>2, <1>3, <1>4, <1>6 DEF W
<1>10. \A x : Late(pre, "mergeStash", x) = x BY <1>7
<1>11. Late(pre, "branch", repo.branch) = h BY <1>7
<1> QED BY <1>6, <1>8, <1>9, <1>10, <1>11

\* Nothing but the stopped commit is dealt with.
LEMMA ResumesPlainly ==
  ASSUME Ready, repo.head = None, NEW op \in {"pick", "revert"}, OpenReplayResume(op),
         NEW todo \in Seq(Sources), NEW n \in Nat, n = Len(todo), n > 0 => repo.seqTodo # None,
         NEW h \in Histories, NEW run \in RunType, run.op = op, run.multi, repo.seqHead # None => run.head = repo.seqHead[1],
         NEW end, end = RunSequence(run, todo, h),
         NEW pre \in Seq(WriteType), Deals(op, pre), \A w \in Range(pre) : w.f \notin {"index", "merge"}, \A x : Late(pre, "mergeStash", x) = x,
         NEW p \in PlanType, p.kind = plan.kind, p.start = plan.start, p.local = plan.local
  PROVE  Leads(pre \o end.ws, p, Crossing(op))
<1>1. RepoOK(repo) BY DEF Ready
<1>2. end \in AccType BY <1>1, SequenceIs
<1>3. \A w \in Range(end.ws) : w.f \in SeqNames(op) /\ (w.f = "index" => w.v.unmerged \in {"no", op}) BY <1>1, SequenceIs
<1>4. \A f \in Fields \ SeqNames(op) : \A x : Late(end.ws, f, x) = x BY <1>1, SequenceIs
<1>5. PICK tail \in Seq(WriteType) : tail = end.ws BY <1>2, AccIs
<1>6. PICK ws \in Seq(WriteType) : ws = pre \o tail /\ Range(ws) = Range(pre) \cup Range(tail) /\ \A f, x : Late(ws, f, x) = Late(tail, f, Late(pre, f, x)) BY Join
<1>7. UnmergedAt(repo, ws)
  <2>1. UnmergedAt(repo, <<>>) BY AtRest DEF Ready
  <2>3. \A w \in Range(ws) : w.f # "merge" BY <1>3, <1>5, <1>6 DEF SeqNames
  <2>4. W("merge", None) \notin Range(ws) BY <2>3 DEF W
  <2> QED BY <1>3, <1>5, <1>6, <2>1, <2>4, UnmergedKept
<1>8. Safe(repo, ws, Held(repo.mergeStash))
  <2>1. "mergeStash" \in Fields \ SeqNames(op) BY FieldsAre DEF SeqNames
  <2>2. Late(ws, "mergeStash", repo.mergeStash) = repo.mergeStash BY <1>4, <1>5, <1>6, <2>1
  <2> QED BY <2>2, SameStash
<1>9. ws = pre \o end.ws BY ONLY <1>5, <1>6, Zenon
<1>10. Leads(ws, p, Crossing(op)) BY <1>7, <1>8, <1>9, Resumes
<1> QED BY <1>9, <1>10

LEMMA ContinueResolvedKeeps ==
  ASSUME Ready, repo.head = None, NEW op \in {"pick", "revert"}, NEW given \in BOOLEAN, repo[Marker(op)] # None,
         NEW h, h = Append(Tip, Commit(op, repo[Marker(op)][1], Tip, repo.index.tree)),
         NEW end, end = RunSequence(Resumed(op, h, ResumeAllowsEmpty(op, given), "stop"), Rest, h)
  PROVE  Leads(<<MoveHead(h), W(Marker(op), None), W("message", None)>> \o end.ws, plan, Crossing(op))
<1>1. RepoOK(repo) /\ plan \in PlanType BY DEF Ready
<1>2. h \in Histories
  <2>1. repo[op] \in Maybe(Sources) /\ repo.index \in IndexType BY <1>1, FieldsAre, KindsAre DEF RepoOK
  <2>2. repo[op][1] \in Sources \cup {"merge"} BY <2>1, MarkerIs, MaybeIs
  <2>3. repo.index.tree \in SUBSET Patches BY <2>1 DEF IndexType
  <2>4. Tip \in Histories BY <1>1, TipIs
  <2>6. Commit(op, repo[op][1], Tip, repo.index.tree) \in CommitType BY <2>2, <2>3, <2>4, CommitIs
  <2> QED BY <2>4, <2>6, HistoryIs, MarkerIs
<1>3. PICK run \in RunType : run = Resumed(op, h, ResumeAllowsEmpty(op, given), "stop") /\ run.op = op /\ run.multi /\ (repo.seqHead # None => run.head = repo.seqHead[1])
  BY <1>1, <1>2, ResumedIs
<1>4. PICK todo \in Seq(Sources) : todo = Rest /\ (todo # <<>> => repo.seqTodo # None) BY <1>1, TodoIs
<1>5. PICK n \in Nat : n = Len(todo) /\ (n > 0 => repo.seqTodo # None) BY <1>4, LenProperties, EmptySeq
<1>6. end = RunSequence(run, todo, h) BY <1>3, <1>4
<1>7. PICK pre : pre = <<MoveHead(h), W(Marker(op), None), W("message", None)>> OBVIOUS
<1>8. pre \in Seq(WriteType) /\ Deals(op, pre) /\ (\A w \in Range(pre) : w.f \notin {"index", "merge"}) /\ \A x : Late(pre, "mergeStash", x) = x
  <2>1. PICK g \in Histories : g = h BY <1>2
  <2>2. pre = <<MoveHead(g), W(Marker(op), None), W("message", None)>> BY <1>7, <2>1
  <2>3. pre \in Seq(WriteType) /\ Deals(op, pre) BY <2>2, ResolvedDeals
  <2>5. \A x : Late(pre, "mergeStash", x) = x BY <2>2, ResolvedDeals
  <2> QED BY <2>2, ResolvedDeals, <2>3, <2>5
<1>9. OpenReplayResume(op) BY DEF OpenReplayResume
<1>10. Leads(pre \o end.ws, plan, Crossing(op))
  BY <1>1, <1>2, <1>3, <1>5, <1>6, <1>8, <1>9, ResumesPlainly, SMTT(40)
<1> QED BY <1>7, <1>10

LEMMA ContinueMarkerlessKeeps ==
  ASSUME Ready, repo.head = None, NEW op \in {"pick", "revert"}, NEW given \in BOOLEAN, repo[Marker(op)] = None, OpenReplayResume(op),
         NEW end, end = RunSequence(Resumed(op, Tip, ResumeAllowsEmpty(op, given), "drop"), Todo, Tip)
  PROVE  Leads(end.ws, Dropping(end.dropped), Crossing(op))
<1>1. RepoOK(repo) /\ plan \in PlanType BY DEF Ready
<1>2. PICK h \in Histories : h = Tip BY <1>1, TipIs
<1>3. PICK run \in RunType : run = Resumed(op, h, ResumeAllowsEmpty(op, given), "drop") /\ run.op = op /\ run.multi /\ (repo.seqHead # None => run.head = repo.seqHead[1])
  BY <1>1, <1>2, ResumedIs
<1>4. PICK todo \in Seq(Sources) : todo = Todo /\ (todo # <<>> => repo.seqTodo # None) BY <1>1, TodoIs
<1>5. PICK n \in Nat : n = Len(todo) /\ (n > 0 => repo.seqTodo # None) BY <1>4, LenProperties, EmptySeq
<1>6. end = RunSequence(run, todo, h) BY <1>2, <1>3, <1>4
<1>7. end \in AccType BY <1>1, <1>5, <1>6, SequenceIs
<1>8. PICK p : p = Dropping(end.dropped) OBVIOUS
<1>9. p \in PlanType /\ p.kind = plan.kind /\ p.start = plan.start /\ p.local = plan.local
  <2>1. end.dropped \in SUBSET Int BY <1>7 DEF AccType
  <2> QED BY <1>1, <1>8, <2>1 DEF Dropping, PlanType
<1>10. PICK pre \in Seq(WriteType) : pre = <<>> /\ Range(pre) = {} /\ \A f, x : Late(pre, f, x) = x BY NoneIs
<1>11. Deals(op, pre)
  <2>1. repo[op] = None BY MarkerIs
  <2> QED BY <1>10, <2>1 DEF Deals
<1>12. end.ws = pre \o end.ws
  <2>1. end.ws \in Seq(WriteType) BY <1>7, AccIs
  <2> QED BY <1>10, <2>1, ConcatEmptySeq
<1>13. (\A w \in Range(pre) : w.f \notin {"index", "merge"}) /\ \A x : Late(pre, "mergeStash", x) = x BY <1>10
<1>14. Leads(pre \o end.ws, p, Crossing(op)) BY <1>3, <1>5, <1>6, <1>9, <1>11, <1>13, ResumesPlainly
<1> QED BY <1>8, <1>12, <1>14

\* removeBranchState: the markers and the message go, the autostash to the stash list.
SweptFiles == {"pick", "revert", "merge", "message", "mergeStash"}
Sweeps(b) ==
  /\ \A w \in Range(b) : w.f \in SweptFiles \cup {"sequencer", "push"} /\ (w.f # "push" => w.v = None)
  /\ Saves(b, Held(repo.mergeStash))
  /\ \A f \in SweptFiles : Late(b, f, repo[f]) = None
  /\ \/ \A f \in SequencerDir : Late(b, f, repo[f]) = repo[f]
     \/ \A f \in SequencerDir : Late(b, f, repo[f]) = None
  /\ \A f \in Fields \ (SweptFiles \cup SequencerDir) : \A x : Late(b, f, x) = x

LEMMA Swept ==
  ASSUME RepoOK(repo), NEW held \in Maybe(SUBSET Locals), repo.mergeStash # None => held = repo.mergeStash, NEW b, b = RemoveBranchState(held)
  PROVE  b \in Seq(WriteType) /\ Sweeps(b)
<1>1. b \in Seq(WriteType) BY RemoveBranchIs
<1>2. Range(b) \subseteq {W(f, None) : f \in {"pick", "revert", "sequencer", "merge", "message"}}
                         \cup (IF held = None THEN {} ELSE {W("mergeStash", None), W("push", held[1])})
  BY RemoveBranchIs
<1>3. held # None => W("push", held[1]) \in Range(b) BY RemoveBranchIs
<1>4. \A f \in Fields : \A x : Late(b, f, x) = IF \/ f \in {"pick", "revert", "merge", "message"} /\ repo[f] # None
                                                  \/ f \in SequencerDir /\ CleanupErases
                                                  \/ f = "mergeStash" /\ held # None
                                               THEN None ELSE x
  BY RemoveBranchIs
<1>5. \A w \in Range(b) : w.f \in SweptFiles \cup {"sequencer", "push"} /\ (w.f # "push" => w.v = None)
  <2>1. \A f, v : W(f, v).f = f /\ W(f, v).v = v BY DEF W
  <2> QED BY <1>2, <2>1 DEF SweptFiles
<1>6. Saves(b, Held(repo.mergeStash))
  <2>1. CASE repo.mergeStash = None
    <3>1. Held(repo.mergeStash) = {} BY <2>1 DEF Held
    <3> QED BY <3>1, SavesNothing
  <2>2. CASE repo.mergeStash # None
    <3>1. Held(repo.mergeStash) = held[1] /\ held # None BY <2>2 DEF Held
    <3> QED BY <1>3, <3>1 DEF Saves, W
  <2> QED BY <2>1, <2>2
<1>7. \A f \in SweptFiles : Late(b, f, repo[f]) = None
  <2>1. SweptFiles \subseteq Fields BY FieldsAre DEF SweptFiles
  <2> QED BY <1>4, <2>1 DEF SweptFiles
<1>8. \/ \A f \in SequencerDir : Late(b, f, repo[f]) = repo[f]
      \/ \A f \in SequencerDir : Late(b, f, repo[f]) = None
  <2>1. SequencerDir \subseteq Fields BY FieldsAre DEF SequencerDir
  <2> QED BY <1>4, <2>1 DEF SequencerDir
<1> QED BY <1>4, <1>1, <1>5, <1>6, <1>7, <1>8 DEF Sweeps, SweptFiles

LEMMA Regroup ==
  ASSUME NEW a \in Seq(WriteType), NEW b \in Seq(WriteType), NEW c \in Seq(WriteType)
  PROVE  (a \o b) \o c = a \o (b \o c)
BY ConcatAssociative

LEMMA Regrouped == \A a, b, c \in Seq(WriteType) : (a \o b) \o c = a \o (b \o c)
BY Regroup

LEMMA SkipDeals ==
  ASSUME Ready, NEW op \in {"pick", "revert"},
         NEW a, a = <<W("index", Clean(Tree(Tip))), W("orig", <<Tip>>)>>, NEW b \in Seq(WriteType), Sweeps(b)
  PROVE  /\ a \in Seq(WriteType) /\ Deals(op, a \o b) /\ a \o b \in Seq(WriteType)
         /\ \E w \in Range(a) : w.f = "index"
         /\ \A w \in Range(a) : w.f \in {"index", "orig"} /\ (w.f = "index" => w.v.unmerged = "no")
         /\ \A w \in Range(a \o b) : w.f # "dirty"
         /\ Late(a \o b, "branch", repo.branch) = repo.branch
<1>1. RepoOK(repo) BY DEF Ready
<1>2. Tree(Tip) \in SUBSET Patches /\ <<Tip>> \in Maybe(Histories) BY <1>1, TipIs
<1>3. PICK u \in WriteType : u = W("index", Clean(Tree(Tip))) /\ u.f = "index" /\ u.v.unmerged = "no" BY <1>2, CleanIs, IndexWrite
<1>4. PICK v \in WriteType : v = W("orig", <<Tip>>) /\ v.f = "orig" BY <1>2, WriteIs, KindsAre, FieldsAre DEF HistoryFiles
<1>5. a = <<u, v>> BY <1>3, <1>4
<1>6. a \in Seq(WriteType) /\ Range(a) = {u, v} /\ \A f, x : Late(a, f, x) = Put(v, f, Put(u, f, x)) BY <1>5, Two
<1>7. \A f, x : f \notin {"index", "orig"} => Late(a, f, x) = x BY <1>3, <1>4, <1>6, PutIs
<1>8. PICK pre \in Seq(WriteType) : pre = a \o b /\ Range(pre) = Range(a) \cup Range(b) /\ \A f, x : Late(pre, f, x) = Late(b, f, Late(a, f, x)) BY <1>6, Join
<1>9. \A f, x : f \notin {"index", "orig"} => Late(pre, f, x) = Late(b, f, x) BY <1>7, <1>8, SMTT(40)
<1>10. \A w \in Range(pre) : w.f # "dirty" /\ (w.f = "merge" => w.v = None) BY <1>3, <1>4, <1>6, <1>8 DEF Sweeps, SweptFiles
<1>11. Deals(op, pre)
  <2>2. \A f \in {"head", "rebase", "rbStash"} \cup RebasePart : Late(b, f, repo[f]) = repo[f]
    BY FieldsAre DEF Sweeps, SweptFiles, SequencerDir, RebasePart
  <2>4. \A f \in SweptFiles : Late(pre, f, repo[f]) = None BY <1>9 DEF SweptFiles, Sweeps
  <2>5. \/ \A f \in SequencerDir : Late(pre, f, repo[f]) = repo[f]
        \/ \A f \in SequencerDir : Late(pre, f, repo[f]) = None
    BY <1>9, SMTT(40) DEF SequencerDir, Sweeps
  <2> QED BY <1>9, <2>2, <1>10, <2>4, <2>5 DEF Deals, SweptFiles, RebasePart
<1>12. Late(pre, "branch", repo.branch) = repo.branch
  <2>2. Late(b, "branch", repo.branch) = repo.branch BY FieldsAre DEF Sweeps, SweptFiles, SequencerDir
  <2> QED BY <1>9, <2>2
<1> QED BY <1>3, <1>4, <1>6, <1>8, <1>10, <1>11, <1>12

LEMMA ReplaySkipKeeps ==
  ASSUME Ready, repo.head = None, NEW op \in {"pick", "revert"}, NEW given \in BOOLEAN, OpenReplayResume(op),
         NEW a, a = <<W("index", Clean(Tree(Tip))), W("orig", <<Tip>>)>>, NEW b, b = RemoveBranchState(repo.mergeStash),
         NEW end, end = RunSequence(Resumed(op, Tip, ResumeAllowsEmpty(op, given), "stop"), Rest, Tip)
  PROVE  Leads(a \o b \o end.ws, Dropping({Len(Rest)}), Crossing(op))
<1>1. RepoOK(repo) /\ plan \in PlanType BY DEF Ready
<1>2. PICK h \in Histories : h = Tip BY <1>1, TipIs
<1>3. PICK run \in RunType : run = Resumed(op, h, ResumeAllowsEmpty(op, given), "stop") /\ run.op = op /\ run.multi /\ (repo.seqHead # None => run.head = repo.seqHead[1])
  BY <1>1, <1>2, ResumedIs
<1>4. PICK todo \in Seq(Sources) : todo = Rest /\ (todo # <<>> => repo.seqTodo # None) BY <1>1, TodoIs
<1>5. PICK n \in Nat : n = Len(todo) /\ (n > 0 => repo.seqTodo # None) BY <1>4, LenProperties, EmptySeq
<1>6. end = RunSequence(run, todo, h) BY <1>2, <1>3, <1>4
<1>7. end \in AccType BY <1>1, <1>5, <1>6, SequenceIs
<1>8. PICK p : p = Dropping({Len(Rest)}) OBVIOUS
<1>9. p \in PlanType /\ p.kind = plan.kind /\ p.start = plan.start /\ p.local = plan.local
  <2>1. {Len(Rest)} \in SUBSET Int BY <1>4, <1>5
  <2> QED BY <1>1, <1>8, <2>1 DEF Dropping, PlanType
<1>10. b \in Seq(WriteType) /\ Sweeps(b)
  <2> QED BY FieldsAre, KindsAre, <1>1, Swept DEF RepoOK
<1>11. /\ a \in Seq(WriteType) /\ Deals(op, a \o b) /\ a \o b \in Seq(WriteType)
       /\ \E w \in Range(a) : w.f = "index"
       /\ \A w \in Range(a) : w.f \in {"index", "orig"} /\ (w.f = "index" => w.v.unmerged = "no")
       /\ \A w \in Range(a \o b) : w.f # "dirty"
  BY <1>10, SkipDeals
<1>12. \A w \in Range(end.ws) : w.f \in SeqNames(op) /\ (w.f = "index" => w.v.unmerged \in {"no", op}) BY <1>1, <1>3, <1>5, <1>6, SequenceIs
<1>13. PICK tail \in Seq(WriteType) : tail = end.ws BY <1>7, AccIs
<1>14. PICK pre \in Seq(WriteType) : pre = a \o b BY <1>11
<1>15. PICK ws \in Seq(WriteType) : ws = pre \o tail BY Join
<1>16. PICK c \in Seq(WriteType) : c = b \o tail /\ Range(c) = Range(b) \cup Range(tail) BY <1>10, Join
<1>17. ws = a \o c
  <2>1. (a \o b) \o tail = a \o (b \o tail) BY <1>10, <1>11, Regroup
  <2> QED BY <1>14, <1>15, <1>16, <2>1
<1>18. UnmergedAt(repo, ws)
  <2>1. UnmergedAt(repo, <<>>) BY AtRest DEF Ready
  <2>2. \A w \in Range(b) : w.f # "index" BY <1>10 DEF Sweeps, SweptFiles
  <2>3. \A w \in Range(a) \cup Range(c) : w.f = "index" => w.v.unmerged # "merge" BY <1>11, <1>12, <1>13, <1>16, <2>2
  <2>4. W("merge", None) \notin Range(a)
    <3>1. W("merge", None).f = "merge" BY DEF W
    <3> QED BY <1>11, <3>1
  <2>5. \E w \in Range(a) : w.f = "index" BY <1>11
  <2>6. UnmergedAt(repo, a \o c) BY <1>11, <2>1, <2>3, <2>4, <2>5, UnmergedAfter
  <2> QED BY <1>17, <2>6
<1>19. Safe(repo, ws, Held(repo.mergeStash))
  <2>1. Saves(b, Held(repo.mergeStash)) BY <1>10 DEF Sweeps
  <2>2. Saves(c, Held(repo.mergeStash))
    <3>1. \A w \in Range(tail) : w.f # "dirty" BY <1>12, <1>13 DEF SeqNames
    <3> QED BY <1>10, <1>16, <2>1, <3>1, SavesJoin
  <2>3. Saves(ws, Held(repo.mergeStash)) BY <1>11, <1>17, <2>2, SavesJoin
  <2> QED BY <1>1, <2>3, SafeIs
<1>20. ws = pre \o end.ws /\ Deals(op, pre) BY <1>11, <1>13, <1>14, <1>15
<1>21. Leads(ws, p, Crossing(op)) BY <1>3, <1>5, <1>6, <1>9, <1>18, <1>19, <1>20, Resumes
<1> QED BY <1>8, <1>14, <1>20, <1>21

LEMMA ReplayAbortKeeps ==
  ASSUME Ready, repo.head = None, NEW op \in {"pick", "revert"}, repo[Marker(op)] # None \/ repo.seqHead # None,
         NEW a, a = <<W("index", Clean(Tree(AbortTarget))), W("orig", <<Tip>>), MoveHead(AbortTarget)>>,
         NEW b, b = RemoveBranchState(repo.mergeStash), NEW c, c = ClearSequencer,
         NEW p, p = [plan EXCEPT !.kind = "aborted"]
  PROVE  Leads(a \o b \o c, p, odd)
<1>1. RepoOK(repo) /\ plan \in PlanType /\ odd \in SUBSET Oddities BY DEF Ready
<1>2. p \in PlanType /\ p.kind = "aborted" /\ p.start = plan.start /\ p.local = plan.local BY <1>1 DEF PlanType
<1>3. PICK t \in Histories : t = AbortTarget
  <2>2. repo.seqHead \in Maybe(Histories) /\ repo.branch \in Histories BY FieldsAre, <1>1, KindsAre DEF RepoOK, HistoryFiles
  <2> QED BY MaybeIs, <2>2 DEF AbortTarget
<1>4. PICK u \in WriteType : u = W("index", Clean(Tree(t))) /\ u.f = "index" /\ u.v.unmerged = "no"
  <2>1. Tree(t) \in SUBSET Patches BY HistoryIs
  <2>2. PICK i \in IndexType : i = Clean(Tree(t)) /\ i.unmerged = "no" BY <2>1, CleanIs
  <2> QED BY <2>2, IndexWrite
<1>5. PICK v \in WriteType : v = W("orig", <<Tip>>) /\ v.f = "orig"
  <2>1. <<Tip>> \in Maybe(Histories) BY <1>1, TipIs
  <2> QED BY <2>1, WriteIs, KindsAre, FieldsAre DEF HistoryFiles
<1>6. PICK w \in WriteType : w = MoveHead(t) /\ w = W("branch", t) BY <1>1, MoveHeadIs
<1>7. a = <<u, v, w>> BY <1>3, <1>4, <1>5, <1>6
<1>8. a \in Seq(WriteType) /\ Range(a) = {u, v, w} /\ \A f, x : Late(a, f, x) = Put(w, f, Put(v, f, Put(u, f, x))) BY <1>7, Three
<1>9. \A f, x : Late(a, f, x) = IF f = "branch" THEN t ELSE IF f = "orig" THEN <<Tip>> ELSE IF f = "index" THEN Clean(Tree(t)) ELSE x
  BY <1>4, <1>5, <1>6, <1>8, PutIs
<1>10. b \in Seq(WriteType) /\ Sweeps(b)
  <2> QED BY FieldsAre, KindsAre, <1>1, Swept DEF RepoOK
<1>11. /\ c \in Seq(WriteType) /\ Range(c) \subseteq {W("sequencer", None)}
       /\ \A f, x : Late(c, f, x) = IF f \in SequencerDir /\ ~\A g \in SequencerDir : repo[g] = None THEN None ELSE x
  BY ClearSequencerIs
<1>12. PICK d \in Seq(WriteType) : d = b \o c /\ Range(d) = Range(b) \cup Range(c) /\ \A f, x : Late(d, f, x) = Late(c, f, Late(b, f, x)) BY <1>10, <1>11, Join, ZenonT(60)
<1>13. PICK ws \in Seq(WriteType) : ws = a \o d /\ Range(ws) = Range(a) \cup Range(d) /\ \A f, x : Late(ws, f, x) = Late(d, f, Late(a, f, x)) BY <1>8, Join
<1>14. a \o b \o c = ws
  <2>1. (a \o b) \o c = a \o (b \o c) BY <1>8, <1>10, <1>11, Regroup
  <2> QED BY <1>12, <1>13, <2>1
<1>15. PICK A : A = Then(repo, ws) OBVIOUS
<1>16. \A f \in Fields : A[f] = Late(c, f, Late(b, f, Late(a, f, repo[f])))
  <2>1. \A f \in Fields : A[f] = Late(ws, f, repo[f]) BY <1>15, ThenIs
  <2>2. \A f, x : Late(d, f, x) = Late(c, f, Late(b, f, x)) BY <1>12
  <2>3. \A f, x : Late(ws, f, x) = Late(d, f, Late(a, f, x)) BY <1>13
  <2> QED BY ONLY <2>1, <2>2, <2>3
<1>17. \A f \in Fields \ {"branch", "orig", "index"} : A[f] = Late(c, f, Late(b, f, repo[f]))
  <2>1. \A f, x : f \notin {"branch", "orig", "index"} => Late(a, f, x) = x BY <1>9
  <2> QED BY <1>16, <2>1
<1>33. \A x \in Range(a) : x.f \in {"branch", "orig", "index"} /\ (x.f = "index" => x.v.unmerged = "no")
  <2>1. w.f = "branch" BY <1>6 DEF W
  <2> QED BY <1>4, <1>5, <1>8, <2>1
<1>34. \A x \in Range(d) : x.f \in SweptFiles \cup {"sequencer", "push"} /\ (x.f # "push" => x.v = None)
  <2>1. \A x \in Range(c) : x.f = "sequencer" /\ x.v = None BY <1>11 DEF W
  <2> QED BY <1>10, <1>12, <2>1 DEF Sweeps
<1>18. \A f \in SequencerDir : A[f] = None
  <2>2. \A f \in SequencerDir : A[f] = Late(c, f, Late(b, f, repo[f])) BY FieldsAre, <1>17 DEF SequencerDir
  <2>3. CASE \A g \in SequencerDir : repo[g] = None
    <3>1. \A f \in SequencerDir : Late(b, f, repo[f]) = None BY <1>10, <2>3 DEF Sweeps
    <3> QED BY <1>11, <2>2, <3>1
  <2>4. CASE ~\A g \in SequencerDir : repo[g] = None BY <1>11, <2>2, <2>4
  <2> QED BY <2>3, <2>4
<1>19. \A f \in SweptFiles : A[f] = None
  <2>1. SweptFiles \subseteq Fields \ {"branch", "orig", "index"} /\ \A f \in SweptFiles : f \notin SequencerDir BY FieldsAre DEF SweptFiles, SequencerDir
  <2>2. \A f \in SweptFiles : Late(b, f, repo[f]) = None BY <1>10 DEF Sweeps
  <2> QED BY <1>11, <1>17, <2>1, <2>2
<1>20. \A f \in {"head", "rebase", "rbStash"} \cup RebasePart : A[f] = repo[f]
  <2>2. \A f \in {"head", "rebase", "rbStash"} \cup RebasePart : Late(b, f, repo[f]) = repo[f]
    BY FieldsAre, <1>10 DEF Sweeps, SweptFiles, SequencerDir, RebasePart
  <2>3. \A f \in {"head", "rebase", "rbStash"} \cup RebasePart : f \in Fields \ {"branch", "orig", "index"} /\ f \notin SequencerDir BY FieldsAre DEF SequencerDir, RebasePart
  <2>5. \A f \in {"head", "rebase", "rbStash"} \cup RebasePart : \A x : Late(c, f, x) = x BY <1>11, <2>3
  <2> QED BY <1>17, <2>3, <2>2, <2>5
<1>21. A.branch = t /\ A.index = Clean(Tree(t))
  <2>1. {"branch", "index"} \subseteq Fields \ (SweptFiles \cup SequencerDir) BY FieldsAre DEF SweptFiles, SequencerDir
  <2>2. \A f \in {"branch", "index"} : \A x : Late(b, f, x) = x BY <1>10, <2>1 DEF Sweeps
  <2> QED BY <1>9, <1>11, <1>16, <2>1, <2>2
<1>22. SeqKept(A) /\ RebaseKept(A) BY <1>18, <1>20 DEF SeqKept, RebaseKept
<1>23. StashedAt(A, odd)
  <2>1. MergeStashKept(A) /\ RebaseStashKept(A) BY <1>19, <1>20 DEF MergeStashKept, RebaseStashKept, SweptFiles
  <2>2. StashedAt(repo, odd) BY AtRest DEF Ready
  <2> QED BY <2>1, <2>2, StashedKept
<1>24. MergeAt(repo, ws, p, odd)
  <2>1. SUFFICES ASSUME odd \cap {"stale", "reset"} = {} PROVE MergeAt(repo, ws, p, odd) BY DEF MergeAt
  <2>2. repo.merge = None BY <2>1, NotMerging, MarkerIs
  <2>4. Blank(ws, "merge") BY <1>13, <1>33, <1>34 DEF Blank
  <2> QED BY <2>2, <2>4, MergeBegins
<1>25. UnmergedAt(repo, ws)
  <2>1. UnmergedAt(repo, <<>>) BY AtRest DEF Ready
  <2>2. \A x \in Range(d) : x.f # "index" BY <1>34 DEF SweptFiles
  <2>4. \A x \in Range(a) \cup Range(d) : x.f = "index" => x.v.unmerged # "merge" BY <1>33, <2>2
  <2>5. W("merge", None) \notin Range(a)
    <3>1. W("merge", None).f = "merge" BY DEF W
    <3> QED BY <1>33, <3>1
  <2>6. \E x \in Range(a) : x.f = "index" BY <1>4, <1>8
  <2> QED BY <1>8, <1>13, <2>1, <2>4, <2>5, <2>6, UnmergedAfter
<1>26. RebaseAt(repo, ws, p, odd) BY <1>2, RebaseOther
<1>27. Safe(repo, ws, repo.dirty)
  <2>1. \A x \in Range(ws) : x.f # "dirty" BY <1>13, <1>33, <1>34 DEF SweptFiles
  <2> QED BY <1>1, <2>1, SafeIs
<1>28. Safe(repo, ws, Held(repo.rbStash))
  <2>1. A.rbStash = Late(ws, "rbStash", repo.rbStash) BY <1>15, ThenIs, FieldsAre
  <2> QED BY <1>20, <2>1, <1>1, SafeIs
<1>29. Safe(repo, ws, Held(repo.mergeStash))
  <2>1. Saves(b, Held(repo.mergeStash)) BY <1>10 DEF Sweeps
  <2>2. \A x \in Range(c) : x.f # "dirty" BY <1>11 DEF W
  <2>3. Saves(d, Held(repo.mergeStash)) BY <1>10, <1>11, <1>12, <2>1, <2>2, SavesJoin
  <2>4. Saves(ws, Held(repo.mergeStash)) BY <1>8, <1>13, <2>3, SavesJoin
  <2> QED BY <1>1, <2>4, SafeIs
<1>30. TidyAt(A, p, odd)
  <2>1. SUFFICES ASSUME odd \cap {"crash", "stale", "crossed", "reset", "refused"} = {} PROVE Restored(A, p) BY <1>2 DEF TidyAt
  <2>2. TidyAt(repo, plan, odd) /\ WholeAt(repo, odd) /\ StashedAt(repo, odd) BY AtRest DEF Ready
  <2>3. repo.pick # None \/ repo.revert # None \/ repo.seqHead # None BY MarkerIs
  <2>4. plan.kind \in {"pick", "revert"}
    <3>1. plan.kind # "aborted" BY <2>1, <2>2, <2>3 DEF TidyAt, Restored, StateFiles
    <3> QED BY <2>1, <2>2, <2>3, <1>1, <3>1 DEF PlanType, TidyAt
  <2>5. /\ \A f \in {"head", "rebase", "rbOrig", IF plan.kind = "pick" THEN "revert" ELSE "pick"} : repo[f] = None
        /\ repo.seqHead \in {None, <<plan.start>>}
        /\ repo.seqHead = None /\ repo[plan.kind] # None => repo.branch = plan.start
    BY <2>1, <2>2, <2>4 DEF TidyAt
  <2>6. t = plan.start
    <3>1. CASE repo.seqHead # None BY <1>3, <2>5, <3>1 DEF AbortTarget
    <3>2. CASE repo.seqHead = None
      <4>1. repo[op] # None BY <3>2, MarkerIs
      <4>2. op = plan.kind BY <2>4, <2>5, <4>1
      <4> QED BY <1>3, <2>5, <3>2, <4>1, <4>2 DEF AbortTarget
    <3> QED BY <3>1, <3>2
  <2>7. \A f \in {"head", "rebase", "rbStash"} \cup RebasePart : repo[f] = None
    <3>1. repo.rbStash = None BY <2>1, <2>2, <2>5 DEF StashedAt
    <3> QED BY <2>1, <2>2, <2>5, <3>1 DEF RebasePart, WholeAt
  <2>8. \A f \in {"head", "rebase", "rbStash"} \cup RebasePart : A[f] = None BY <1>20, <2>7
  <2>9. \A f \in StateFiles : A[f] = None
    <3> QED BY <1>18, <1>19, <2>8 DEF StateFiles, SweptFiles, SequencerDir, RebasePart
  <2> QED BY <1>2, <1>21, <2>6, <2>8, <2>9 DEF Restored, Clean
<1>31. p.local \subseteq plan.local \cup {} /\ Safe(repo, ws, {}) BY <1>2, SafeNothing
<1>32. Leads(ws, p, odd) BY <1>1, <1>2, <1>15, <1>22, <1>23, <1>24, <1>25, <1>26, <1>27, <1>28, <1>29, <1>30, <1>31, Assembled
<1> QED BY <1>14, <1>32

------------------------------
(* rebase. *)

\* A command that writes no state file.
Quiet == {"index", "dirty", "stash", "orig", "branch", "message"}
LEMMA Untouched ==
  ASSUME NEW A, \A f \in Fields \ Quiet : A[f] = repo[f]
  PROVE  /\ SeqKept(A) /\ RebaseKept(A) /\ MergeStashKept(A) /\ RebaseStashKept(A)
         /\ \A f \in {"pick", "revert", "rebase", "merge", "seqHead", "rbOrig", "head"} : A[f] = repo[f]
<1>1. PICK F : F = Fields \ Quiet OBVIOUS
<1>2. F = {"pick", "revert", "rebase", "mergeStash", "seqTodo", "seqOpts", "rbTodo", "rbDone", "rbMessage", "rbStash", "head", "merge",
           "seqHead", "seqSafety", "rbOrig", "rbOnto"}
  BY <1>1, FieldsAre DEF Quiet
<1>3. \A f \in F : A[f] = repo[f] BY <1>1
<1>4. SequencerDir \subseteq F /\ RebasePart \subseteq F BY <1>2 DEF SequencerDir, RebasePart
<1>5. SeqKept(A) BY <1>3, <1>4 DEF SeqKept
<1>6. RebaseKept(A) BY <1>3, <1>4 DEF RebaseKept
<1>7. MergeStashKept(A) /\ RebaseStashKept(A) BY <1>2, <1>3 DEF MergeStashKept, RebaseStashKept
<1> QED BY <1>2, <1>3, <1>5, <1>6, <1>7

LEMMA SeqNone == <<>> \in Seq(Names)
BY EmptySeq

\* createAutostash, and the writes after it that no reader minds.
LEMMA CreateLeaves ==
  ASSUME RepoOK(repo), NEW a, a = CreateAutostash
  PROVE  /\ a \in Seq(WriteType) /\ \A w \in Range(a) : w.f \in {"index", "dirty"} /\ (w.f = "index" => w.v.unmerged = "no")
         /\ \A f \in Fields \ {"index", "dirty"} : \A x : Late(a, f, x) = x
         /\ Local \in SUBSET Locals /\ repo.dirty \subseteq Local /\ (Local = {} => a = <<>>)
<1>1. a \in Seq(WriteType) /\ Range(a) \subseteq {W("index", Clean(Tree(Tip))), W("dirty", {})} BY CreateIs
<1>2. \A f \in Fields \ {"index", "dirty"} : \A x : Late(a, f, x) = x BY CreateIs
<1>3. Clean(Tree(Tip)).unmerged = "no" BY DEF Clean
<1>5. Local \in SUBSET Locals BY TipIs
<1>6. repo.dirty \subseteq Local BY DEF Local
<1>7. Local = {} => a = <<>> BY CreateIs
<1> QED BY <1>3, <1>1, <1>2, <1>5, <1>6, <1>7 DEF W

LEMMA RebaseUpToDateKeeps ==
  ASSUME Ready, NoPendingOperation, NEW outcome \in ApplyOutcomes, NEW p, p = Begun("uptodate", <<>>, Local)
  PROVE  Leads(CreateAutostash \o ApplyAutostash(Local, outcome, Tree(Tip)), p, Lasting)
<1>1. RepoOK(repo) BY DEF Ready
<1>2. PICK o \in SUBSET Oddities : o = Lasting BY NothingPending
<1>3. PICK a : a = CreateAutostash OBVIOUS
<1>4. /\ a \in Seq(WriteType) /\ \A w \in Range(a) : w.f \in {"index", "dirty"} /\ (w.f = "index" => w.v.unmerged = "no")
      /\ Local \in SUBSET Locals /\ repo.dirty \subseteq Local
  BY <1>1, <1>3, CreateLeaves
<1>6. PICK t \in SUBSET Patches : t = Tree(Tip) BY <1>1, TipIs
<1>7. PICK edits \in SUBSET Locals : edits = Local BY <1>4
<1>8. PICK b : b = ApplyAutostash(edits, outcome, t) OBVIOUS
<1>9. b \in Seq(WriteType) /\ Saves(b, edits) /\ Range(b) \subseteq {W("restore", edits), W("push", edits), W("index", Unmerged(t, t, "stash"))} BY <1>8, ApplyIs
<1>10. \A f \in Fields : \A x : f # "index" => Late(b, f, x) = x BY <1>8, ApplyIs, ZenonT(60)
<1>11. \A w \in Range(b) : w.f \in {"restore", "push", "index"} /\ (w.f = "index" => w.v.unmerged = "stash") BY <1>9 DEF W, Unmerged
<1>12. PICK ws \in Seq(WriteType) : ws = a \o b /\ Range(ws) = Range(a) \cup Range(b) /\ \A f, x : Late(ws, f, x) = Late(b, f, Late(a, f, x)) BY <1>4, <1>9, Join
<1>13. PICK A : A = Then(repo, ws) OBVIOUS
<1>14. \A f \in Fields \ Quiet : A[f] = repo[f]
  <2>1. \A f \in Fields \ Quiet : f \in Fields \ {"index", "dirty"} BY DEF Quiet
  <2>2. \A f \in Fields \ Quiet : Late(ws, f, repo[f]) = repo[f] BY <1>1, <1>3, CreateLeaves, <1>10, <1>12, <2>1
  <2> QED BY <1>13, <2>2, ThenIs
<1>15. p \in PlanType /\ p.kind = "uptodate" /\ p.local = plan.local \cup edits
  <2>1. BegunAs(p, "uptodate", <<>>, edits) BY <1>7 DEF BegunAs
  <2>2. PlanIs(p, "uptodate", <<>>, edits) BY <2>1, SeqNone, BegunIs
  <2> QED BY <2>2 DEF PlanIs
<1>16. SeqKept(A) /\ RebaseKept(A) /\ MergeStashKept(A) /\ RebaseStashKept(A) BY <1>14, Untouched
<1>17. TidyAt(A, p, o)
  <2>2. \A f \in {"pick", "revert", "rebase", "merge", "seqHead", "rbOrig", "head"} : A[f] = repo[f] BY <1>14, Untouched
  <2> QED BY <1>2, NothingPending, <1>15, <2>2, TidyPlain
<1>18. MergeAt(repo, ws, p, o)
  <2>1. repo.merge = None BY NothingPending
  <2>2. Blank(ws, "merge") BY <1>4, <1>11, <1>12 DEF Blank
  <2> QED BY <2>1, <2>2, MergeBegins
<1>19. UnmergedAt(repo, ws)
  <2>1. UnmergedAt(repo, <<>>) /\ repo.index.unmerged # "merge" BY NothingPending
  <2> QED BY <1>4, <1>11, <1>12, <2>1, UnmergedKept
<1>20. RebaseAt(repo, ws, p, o) BY <1>15, RebaseOther
<1>21. Safe(repo, ws, edits) /\ Safe(repo, ws, repo.dirty)
  <2>1. Saves(ws, edits) BY <1>4, <1>9, <1>12, SavesJoin
  <2>2. Safe(repo, ws, edits) BY <1>1, <2>1, SafeIs
  <2>3. repo.dirty \subseteq edits BY <1>4, <1>7
  <2> QED BY <2>2, <2>3 DEF Safe
<1>22. Lasting \subseteq o /\ p.local \subseteq plan.local \cup edits BY <1>2, <1>15
<1>23. Leads(ws, p, o) BY <1>13, <1>15, <1>16, <1>17, <1>18, <1>19, <1>20, <1>21, <1>22, Begins
<1> QED BY <1>2, <1>3, <1>6, <1>7, <1>8, <1>12, <1>23

\* The autostash and the file that names it.
LEMMA WriteAutostashIs ==
  ASSUME RepoOK(repo), NEW a, a = CreateAutostash \o WriteAutostash
  PROVE  /\ a \in Seq(WriteType) /\ \A w \in Range(a) : w.f \in {"index", "dirty", "rbStash"} /\ (w.f = "index" => w.v.unmerged = "no")
         /\ \A f \in Fields \ {"index", "dirty", "rbStash"} : \A x : Late(a, f, x) = x
         /\ Late(a, "rbStash", repo.rbStash) = StashKept
<1>1. PICK c : c = CreateAutostash OBVIOUS
<1>2. /\ c \in Seq(WriteType) /\ \A w \in Range(c) : w.f \in {"index", "dirty"} /\ (w.f = "index" => w.v.unmerged = "no")
      /\ Local \in SUBSET Locals /\ (Local = {} => c = <<>>)
  BY <1>1, CreateLeaves
<1>3. \A f \in Fields \ {"index", "dirty"} : \A x : Late(c, f, x) = x BY <1>1, CreateLeaves
<1>4. CASE Local = {}
  <2> QED BY <1>1, <1>2, <1>4, ConcatEmptySeq, NoneIs DEF WriteAutostash, StashKept
<1>5. CASE Local # {}
  <2>1. PICK w \in WriteType : w = W("rbStash", <<Local>>) /\ w.f = "rbStash"
    <3>1. <<Local>> \in Kind("rbStash") BY <1>2, KindsAre, MaybeIs
    <3>2. "rbStash" \in Fields \cup Dirs BY FieldsAre
    <3> QED BY <3>1, <3>2, WriteIs
  <2>2. PICK d \in Seq(WriteType) : d = <<w>> /\ Range(d) = {w} /\ \A f, x : Late(d, f, x) = Put(w, f, x) BY One
  <2>3. a = c \o d BY <1>1, <1>5, <2>1, <2>2 DEF WriteAutostash
  <2>4. a \in Seq(WriteType) /\ Range(a) = Range(c) \cup Range(d) /\ \A f, x : Late(a, f, x) = Late(d, f, Late(c, f, x)) BY <1>2, <2>3, Join
  <2>5. \A f, x : Late(d, f, x) = IF f = "rbStash" THEN <<Local>> ELSE x BY <2>1, <2>2, PutIs
  <2>7. \A f \in Fields \ {"index", "dirty", "rbStash"} : \A x : Late(a, f, x) = x
    <3>1. \A f, x : Late(a, f, x) = Late(d, f, Late(c, f, x)) BY <2>4
    <3>2. \A f \in Fields \ {"index", "dirty", "rbStash"} : f \in Fields \ {"index", "dirty"} /\ f # "rbStash" OBVIOUS
    <3> QED BY ONLY <1>3, <2>5, <3>1, <3>2
  <2>8. Late(a, "rbStash", repo.rbStash) = StashKept BY <1>5, <2>4, <2>5 DEF StashKept
  <2> QED BY <1>2, <2>1, <2>2, <2>4, <2>7, <2>8
<1> QED BY <1>4, <1>5

\* The branch moves once, to where HEAD is by then.
MovesOnce(ws) ==
  \A j \in DOMAIN ws : ws[j].f = "branch" =>
    /\ \A k \in DOMAIN ws : ws[k].f = "branch" => k = j
    /\ Late(SubSeq(ws, 1, j - 1), "head", repo.head) = <<ws[j].v>>

LEMMA FirstOnes ==
  ASSUME NEW q, NEW n \in Nat, \A i \in 1 .. n : q[i] \in WriteType, NEW s, s = SubSeq(q, 1, n)
  PROVE  s \in Seq(WriteType) /\ Len(s) = n /\ \A i \in 1 .. n : s[i] = q[i]
<1>1. PICK l \in Int : l = 1 OBVIOUS
<1>2. \A i \in l .. n : q[i] \in WriteType BY <1>1
<1>3. s = SubSeq(q, l, n) BY <1>1
<1>4. s \in Seq(WriteType) /\ Len(s) = (IF l <= n THEN n - l + 1 ELSE 0) BY <1>2, <1>3, SubSeqProperties
<1>5. \A i \in 1 .. n - l + 1 : s[i] = q[l + i - 1] BY <1>2, <1>3, SubSeqProperties
<1> QED BY <1>1, <1>4, <1>5

LEMMA OneMove ==
  ASSUME NEW a \in Seq(WriteType), NEW c \in Seq(WriteType), NEW u \in WriteType, \A w \in Range(a) \cup Range(c) : w.f # "branch",
         Late(a, "head", repo.head) = <<u.v>>, NEW ws, ws = a \o (<<u>> \o c)
  PROVE  MovesOnce(ws)
<1>1. PICK n \in Nat : n = Len(a) BY LenProperties
<1>2. PICK m \in Nat : m = Len(c) BY LenProperties
<1>3. PICK b \in Seq(WriteType) : b = <<u>> \o c /\ Len(b) = 1 + m /\ b[1] = u /\ \A i \in 1 .. m : b[1 + i] = c[i]
  <2>1. <<u>> \in Seq(WriteType) /\ Len(<<u>>) = 1 /\ <<u>>[1] = u OBVIOUS
  <2>2. /\ <<u>> \o c \in Seq(WriteType) /\ Len(<<u>> \o c) = 1 + m
        /\ \A i \in 1 .. 1 + m : (<<u>> \o c)[i] = IF i <= 1 THEN <<u>>[i] ELSE c[i - 1]
    BY <1>2, <2>1, ConcatProperties
  <2>4. (<<u>> \o c)[1] = u BY <1>2, <2>1, <2>2
  <2>5. \A i \in 1 .. m : (<<u>> \o c)[1 + i] = c[i] BY <1>2, <2>2
  <2> QED BY <2>2, <2>4, <2>5
<1>4. /\ ws \in Seq(WriteType) /\ Len(ws) = n + (1 + m) /\ DOMAIN ws = 1 .. n + (1 + m)
      /\ \A i \in 1 .. n + (1 + m) : ws[i] = IF i <= n THEN a[i] ELSE b[i - n]
  <2>1. ws = a \o b BY <1>3
  <2>2. Len(b) = 1 + m BY <1>3
  <2>3. a \o b \in Seq(WriteType) /\ Len(a \o b) = n + (1 + m) BY <1>1, <2>2, ConcatProperties, ZenonT(60)
  <2>5. DOMAIN ws = 1 .. Len(ws) BY <2>1, <2>3, LenProperties
  <2> QED BY <1>1, <2>2, ConcatProperties, <2>1, <2>3, <2>5
<1>5. \A i \in 1 .. n : ws[i] = a[i] /\ ws[i].f # "branch"
  <2>1. DOMAIN a = 1 .. n BY <1>1, LenProperties
  <2>2. \A i \in 1 .. n : a[i] \in Range(a) BY <2>1 DEF Range
  <2>3. \A i \in 1 .. n : i \in 1 .. n + (1 + m) /\ i <= n OBVIOUS
  <2>4. \A i \in 1 .. n : ws[i] = a[i] BY <1>4, <2>3
  <2> QED BY <2>2, <2>4
<1>6. ws[n + 1] = u
  <2> QED BY <1>3, <1>4
<1>7. ASSUME NEW i \in DOMAIN ws, i > n + 1 PROVE ws[i].f # "branch"
  <2>1. i \in 1 .. n + (1 + m) /\ ~(i <= n) BY <1>4, <1>7
  <2>2. PICK k \in 1 .. m : i - n = 1 + k
    <3>1. (i - n) - 1 \in 1 .. m /\ i - n = 1 + ((i - n) - 1) BY <1>7, <2>1
    <3> QED BY <3>1
  <2>3. ws[i] = c[k] BY <1>3, <1>4, <2>1, <2>2
  <2>4. c[k] \in Range(c)
    <3>1. DOMAIN c = 1 .. m BY <1>2, LenProperties
    <3> QED BY <3>1 DEF Range
  <2> QED BY <2>3, <2>4
<1>8. \A i \in DOMAIN ws : ws[i].f = "branch" => i = n + 1
  <2>1. \A i \in DOMAIN ws : i \in 1 .. n \/ i = n + 1 \/ i > n + 1 BY <1>4
  <2> QED BY <1>5, <1>7, <2>1
<1>9. SubSeq(ws, 1, n) = a
  <2>1. PICK s : s = SubSeq(ws, 1, n) OBVIOUS
  <2>2. s \in Seq(WriteType) /\ Len(s) = n /\ \A i \in 1 .. n : s[i] = ws[i]
    <3>1. \A i \in 1 .. n : ws[i] \in WriteType
      <4>2. \A i \in 1 .. n : i \in DOMAIN ws BY <1>4
      <4> QED BY <1>4, ElementOfSeq, <4>2
    <3>2. n \in Nat OBVIOUS
    <3> QED BY ONLY <2>1, <3>1, <3>2, FirstOnes
  <2>3. \A i \in 1 .. Len(s) : s[i] = a[i] BY <1>5, <2>2
  <2> QED BY <1>1, <2>1, <2>2, <2>3, SeqEqual
<1>10. (n + 1) - 1 = n OBVIOUS
<1> QED BY <1>6, <1>8, <1>9, <1>10 DEF MovesOnce

LEMMA RebaseMoves ==
  ASSUME NEW run, NEW h, NEW stash, NEW pre \in Seq(WriteType), \A w \in Range(pre) : w.f # "branch", Late(pre, "head", repo.head) = <<h>>,
         NEW tail \in Seq(WriteType), MoveStops(run, h, tail) \/ MoveEnds(run, h, stash, tail) \/ MoveSticks(run, h, tail),
         NEW ws, ws = pre \o tail
  PROVE  MovesOnce(ws) /\ ((\E w \in Range(ws) : w.f = "branch") => repo.branch = run.orig)
<1>2. CASE \A w \in Range(tail) : w.f # "branch"
  <2>1. \A w \in Range(ws) : w.f # "branch" BY Join, <1>2
  <2> QED BY <2>1 DEF MovesOnce, Range
<1>3. CASE MoveEnds(run, h, stash, tail)
  <2>1. PICK a, c \in Seq(WriteType), g \in Histories :
         /\ tail = a \o (<<W("branch", g)>> \o c) /\ \A w \in Range(a) \cup Range(c) : w.f # "branch"
         /\ Late(a, "head", <<h>>) = <<g>>
    BY <1>3 DEF MoveEnds, Finishing
  <2>2. PICK u \in WriteType : u = W("branch", g) /\ u.v = g BY WriteIs, KindsAre, FieldsAre
  <2>3. PICK b \in Seq(WriteType) : b = pre \o a /\ Range(b) = Range(pre) \cup Range(a) /\ \A f, x : Late(b, f, x) = Late(a, f, Late(pre, f, x)) BY Join
  <2>4. PICK d \in Seq(WriteType) : d = <<u>> \o c
    <3>1. <<u>> \in Seq(WriteType) OBVIOUS
    <3> QED BY <3>1, Join
  <2>5. ws = b \o (<<u>> \o c)
    <3>2. pre \in Seq(WriteType) /\ a \in Seq(WriteType) /\ d \in Seq(WriteType) OBVIOUS
    <3>1. (pre \o a) \o d = pre \o (a \o d) BY ONLY <3>2, Regrouped, SMTT(40)
    <3> QED BY <2>1, <2>2, <2>3, <2>4, <3>1
  <2>6. Late(b, "head", repo.head) = <<u.v>> BY <2>1, <2>2, <2>3
  <2>8. MovesOnce(ws) BY <2>1, <2>3, <2>5, <2>6, OneMove
  <2>9. repo.branch = run.orig BY <1>3 DEF MoveEnds
  <2> QED BY <2>8, <2>9
<1> QED BY <1>2, <1>3 DEF MoveStops, MoveSticks

\* What --continue and --skip write before the rest of the lines.
OpenNames == {"head", "branch", "message", "dirty", "index", "sequencer", "push"} \cup SweptFiles
Opens(pre, h) ==
  /\ \A w \in Range(pre) : w.f \in OpenNames /\ (w.f \in {"merge", "pick", "revert"} => w.v = None)
  /\ repo.head # None =>
       /\ Late(pre, "head", repo.head) = <<h>> /\ Late(pre, "branch", repo.branch) = repo.branch
       /\ \A w \in Range(pre) : w.f # "branch"
  /\ \A f \in {"rebase", "rbStash"} \cup RebasePart : Late(pre, f, repo[f]) = repo[f]
  /\ \A f \in {"merge", "pick", "revert", "seqHead"} : Late(pre, f, repo[f]) \in {repo[f], None}
  /\ \/ \A f \in SequencerDir : Late(pre, f, repo[f]) = repo[f]
     \/ \A f \in SequencerDir : Late(pre, f, repo[f]) = None
  /\ \/ Late(pre, "mergeStash", repo.mergeStash) = repo.mergeStash /\ Late(pre, "merge", repo.merge) = repo.merge
     \/ Late(pre, "mergeStash", repo.mergeStash) = None

\* The files and their state before a rebase that goes on.
LEMMA OnDiskIs ==
  ASSUME Ready, RebaseReadable
  PROVE  /\ OnDisk \in LineType /\ repo.rbOrig = <<OnDisk.orig>> /\ repo.rbStash \in Maybe(SUBSET Locals)
         /\ repo.rbTodo # None /\ repo.rbTodo[1] \in Seq(CommitType)
         /\ odd \cap {"crash", "stale", "crossed", "reset", "refused"} = {} => plan.kind = "rebase"
<1>1. RepoOK(repo) /\ plan \in PlanType BY DEF Ready
<1>2. repo.rbOrig # None /\ repo.rbOnto # None /\ repo.rbTodo # None /\ repo.rbDone # None BY DEF RebaseReadable
<1>3. /\ repo.rbOrig \in Maybe(Histories) /\ repo.rbTodo \in Maybe(Seq(CommitType)) /\ repo.rbDone \in Maybe(Seq(CommitType))
      /\ repo.rbStash \in Maybe(SUBSET Locals)
  BY <1>1, FieldsAre, KindsAre DEF RepoOK, HistoryFiles
<1>4. /\ repo.rbOrig[1] \in Histories /\ repo.rbOrig = <<repo.rbOrig[1]>>
      /\ repo.rbTodo[1] \in Seq(CommitType) /\ repo.rbDone[1] \in Seq(CommitType)
  BY <1>2, <1>3, MaybeIs
<1>6. ASSUME odd \cap {"crash", "stale", "crossed", "reset", "refused"} = {} PROVE plan.kind = "rebase"
  <2>1. TidyAt(repo, plan, odd) BY AtRest DEF Ready
  <2>2. plan.kind # "aborted" BY <1>2, <1>6, <2>1 DEF TidyAt, Restored, StateFiles
  <2> QED BY <1>2, <1>6, <2>1, <1>1, <2>2 DEF PlanType, TidyAt
<1> QED BY <1>2, <1>3, <1>4, <1>6 DEF OnDisk, LineType

\* What the writes of such a rebase leave.
HeadStays(A) == repo.head # None => A.branch = repo.branch /\ A.head # None
GoneOn(run, A) ==
  \/ A.rbOrig = <<run.orig>> /\ A.rebase # None /\ A.rbStash = repo.rbStash /\ HeadStays(A)
  \/ \A f \in RebaseDir \cup {"rebase"} : A[f] = None
  \/ (\A f \in RebaseDir \cup {"rebase"} : A[f] = repo[f]) /\ HeadStays(A)
LEMMA GoesOn ==
  ASSUME Ready, NEW run, NEW h, NEW stash, NEW pre \in Seq(WriteType), Opens(pre, h), NEW tail \in Seq(WriteType), MoveGoes(run, h, stash, tail),
         NEW ws, ws = pre \o tail, NEW A, A = Then(repo, ws)
  PROVE  /\ SeqKept(A) /\ MergeStashKept(A) /\ GoneOn(run, A)
         /\ \A f \in {"merge", "pick", "revert", "seqHead"} : A[f] \in {repo[f], None}
<1>1. ws \in Seq(WriteType) /\ Range(ws) = Range(pre) \cup Range(tail) BY Join
<1>2. \A f, x : Late(ws, f, x) = Late(tail, f, Late(pre, f, x)) BY Join
<1>3. \A f \in Fields : A[f] = Late(ws, f, repo[f]) BY ThenIs
<1>4. \A f \in Fields : A[f] = Late(tail, f, Late(pre, f, repo[f])) BY ONLY <1>2, <1>3
<1>5. {"merge", "pick", "revert", "mergeStash"} \cup SequencerDir \subseteq Fields \ MoveTouches
  BY FieldsAre DEF SequencerDir, MoveTouches, LineNames, RebaseFiles, RebaseDir
<1>6. \A f \in Fields \ MoveTouches : \A x : Late(tail, f, x) = x BY DEF MoveGoes, MoveNames
<1>7. \A f \in Fields \ MoveTouches : A[f] = Late(pre, f, repo[f]) BY ONLY <1>4, <1>6
<1>8. SeqKept(A)
  <2>1. \A f \in SequencerDir : A[f] = Late(pre, f, repo[f]) BY <1>5, <1>7
  <2> QED BY <2>1 DEF SeqKept, Opens
<1>9. \A f \in {"merge", "pick", "revert", "mergeStash", "seqHead"} : A[f] = Late(pre, f, repo[f]) BY <1>5, <1>7 DEF SequencerDir
<1>10. MergeStashKept(A)
  <2> QED BY <1>9 DEF MergeStashKept, Opens
<1>11. \A f \in {"merge", "pick", "revert", "seqHead"} : A[f] \in {repo[f], None}
  <2> QED BY <1>9 DEF Opens
<1>12. RebaseDir \cup {"rebase", "branch", "head"} \subseteq Fields BY FieldsAre DEF RebaseDir
<1>13. \A f \in RebaseDir \cup {"rebase"} : A[f] = Late(tail, f, repo[f])
  <2>1. RebaseDir \cup {"rebase"} = {"rebase", "rbStash"} \cup RebasePart BY DEF RebaseDir, RebasePart
  <2> QED BY <1>4, <1>12, <2>1 DEF Opens
<1>14. repo.head # None => A.head = Late(tail, "head", <<h>>) /\ A.branch = Late(tail, "branch", repo.branch) BY <1>4, <1>12 DEF Opens
<1>15. MoveStops(run, h, tail) \/ MoveSticks(run, h, tail) => HeadStays(A) BY <1>14 DEF MoveStops, MoveSticks, HeadStays
<1>16. {"rbStash", "rbOrig", "rebase"} \subseteq RebaseDir \cup {"rebase"} BY DEF RebaseDir
<1>17. GoneOn(run, A)
  <2>1. CASE repo.head = None
    <3>1. HeadStays(A) BY <2>1 DEF HeadStays
    <3> QED BY <1>13, <1>16, <3>1 DEF GoneOn, MoveGoes, MoveLeaves
  <2>2. CASE repo.head # None /\ MoveStops(run, h, tail) BY <1>13, <1>15, <1>16, <2>2 DEF GoneOn, MoveStops
  <2>3. CASE repo.head # None /\ MoveEnds(run, h, stash, tail) BY <1>13, <2>3 DEF GoneOn, MoveEnds, Finishing
  <2>4. CASE repo.head # None /\ MoveSticks(run, h, tail) BY <1>13, <1>15, <2>4 DEF GoneOn, MoveSticks
  <2> QED BY <2>1, <2>2, <2>3, <2>4 DEF MoveGoes
<1> QED BY <1>8, <1>10, <1>11, <1>17

LEMMA RebaseGoes ==
  ASSUME Ready, RebaseReadable, NEW h \in Histories, NEW pre \in Seq(WriteType), Opens(pre, h),
         NEW blocked, NEW outcome \in ApplyOutcomes, NEW end, end = ReplayOn(h, blocked, outcome),
         NEW ws, ws = pre \o end.ws, UnmergedAt(repo, ws), Safe(repo, ws, Held(repo.mergeStash)),
         NEW p \in PlanType, p.start = plan.start, p.local \subseteq plan.local,
         p.kind = plan.kind \/ (p.kind = "none" /\ plan.kind \in {"aborted", "refused"}),
         Safe(repo, ws, repo.dirty) \/ p.local \cap repo.dirty = {}
  PROVE  Leads(ws, p, odd \cup Attached)
<1>1. RepoOK(repo) BY DEF Ready
<1>0. PICK o \in SUBSET Oddities : o = odd \cup Attached BY DEF Ready, Attached, Oddities
<1>2. PICK run \in LineType : run = OnDisk /\ repo.rbOrig = <<run.orig>> BY OnDiskIs
<1>4. PICK stash \in Maybe(SUBSET Locals) : stash = repo.rbStash BY OnDiskIs
<1>6. end \in AccType /\ MoveGoes(run, h, stash, end.ws) BY <1>2, <1>4, GoesMoves
<1>7. PICK tail \in Seq(WriteType) : tail = end.ws BY <1>6, AccIs
<1>8. MoveGoes(run, h, stash, tail) BY <1>6, <1>7
<1>9. ws = pre \o tail BY <1>7
<1>10. ws \in Seq(WriteType) /\ Range(ws) = Range(pre) \cup Range(tail) BY <1>9, Join
<1>11. PICK A : A = Then(repo, ws) OBVIOUS
<1>23. /\ SeqKept(A) /\ MergeStashKept(A) /\ GoneOn(run, A)
       /\ \A f \in {"merge", "pick", "revert", "seqHead"} : A[f] \in {repo[f], None}
  <2>1. Ready /\ pre \in Seq(WriteType) /\ Opens(pre, h) /\ tail \in Seq(WriteType) OBVIOUS
  <2> QED BY ONLY <1>8, <1>9, <1>11, <2>1, GoesOn
<1>12. SeqKept(A) /\ MergeStashKept(A) /\ GoneOn(run, A) BY <1>23
<1>14. RebaseKept(A) /\ RebaseStashKept(A)
  <2>1. RebasePart \subseteq RebaseDir /\ "rbStash" \in RebaseDir BY DEF RebasePart, RebaseDir
  <2>2. CASE A.rbOrig = <<run.orig>> /\ A.rebase # None BY <2>2, Something DEF RebaseKept, RebaseStashKept
  <2>3. CASE \A f \in RebaseDir \cup {"rebase"} : A[f] = None BY <2>1, <2>3 DEF RebaseKept, RebaseStashKept
  <2>4. CASE \A f \in RebaseDir \cup {"rebase"} : A[f] = repo[f] BY <2>1, <2>4 DEF RebaseKept, RebaseStashKept
  <2> QED BY <1>12, <2>2, <2>3, <2>4 DEF GoneOn
<1>15. StashedAt(A, o)
  <2>1. StashedAt(repo, odd) BY AtRest DEF Ready
  <2>2. StashedAt(A, odd) BY <1>12, <1>14, <2>1, StashedKept
  <2> QED BY <1>0, <2>2 DEF StashedAt
<1>16. TidyAt(A, p, o)
  <2>1. SUFFICES ASSUME o \cap {"crash", "stale", "crossed", "reset", "refused"} = {} PROVE TidyAt(A, p, o) BY DEF TidyAt
  <2>9. odd \cap {"crash", "stale", "crossed", "reset", "refused"} = {} BY <1>0, <2>1
  <2>2. p.kind = "rebase" /\ plan.kind = "rebase" BY OnDiskIs, <2>9
  <2>3. TidyAt(repo, plan, odd) BY AtRest DEF Ready
  <2>4. /\ \A f \in {"pick", "revert", "merge", "seqHead"} : repo[f] = None
        /\ repo.rbOrig \in {None, <<plan.start>>}
        /\ repo.rbOrig # None => repo.branch = plan.start /\ repo.head # None
    BY <2>2, <2>3, <2>9 DEF TidyAt
  <2>5. repo.rbOrig = <<p.start>> /\ repo.branch = p.start /\ repo.head # None BY <1>2, <2>4, Something
  <2>6. \A f \in {"pick", "revert", "merge", "seqHead"} : A[f] = None BY <1>23, <2>4
  <2>7. "rbOrig" \in RebaseDir BY DEF RebaseDir
  <2> QED BY <1>2, <1>12, <2>5, <2>7, <2>2, <2>6 DEF TidyAt, GoneOn, HeadStays
<1>17. /\ \A w \in Range(ws) : w.f \in {"pick", "revert", "merge"} => w.v = None
       /\ \A w \in Range(ws) : w.f \notin {"seqHead", "seqTodo", "orig"} /\ (w.f = "rbOrig" => w.v = <<run.orig>>)
  <2>1. \A w \in Range(pre) : w.f \in OpenNames /\ (w.f \in {"merge", "pick", "revert"} => w.v = None) BY DEF Opens
  <2>3. (LineNames \cup {"head", "branch", "rebase-merge", "restore", "push"}) \cap {"pick", "revert", "merge", "seqHead", "seqTodo", "orig"} = {}
    BY DEF LineNames, RebaseFiles
  <2>4. OpenNames \cap {"seqHead", "seqTodo", "orig", "rbOrig"} = {} BY DEF OpenNames, SweptFiles
  <2> QED BY <1>8, <1>10, <2>1, <2>3, <2>4 DEF MoveGoes, MoveNames
<1>18. \A f \in {"pick", "revert", "merge", "seqHead", "seqTodo"} : Blank(ws, f) BY <1>17 DEF Blank
<1>19. MergeAt(repo, ws, p, o)
  <2>1. MergeAt(repo, <<>>, plan, odd) BY AtRest DEF Ready
  <2>2. \A w \in Range(ws) : w.f # "orig" BY <1>17
  <2> QED BY <1>0, <1>18, <2>1, <2>2, MergeGoesOn
<1>20. RebaseAt(repo, ws, p, o)
  <2>1. SUFFICES ASSUME p.kind = "rebase", o \cap {"stale", "commit", "reset"} = {} PROVE RebaseAt(repo, ws, p, o) BY DEF RebaseAt
  <2>2. RebaseAt(repo, <<>>, plan, odd) BY AtRest DEF Ready
  <2>4. (\A f \in {"pick", "revert", "merge", "seqHead", "seqTodo"} : repo[f] = None) /\ repo.rbOrig \in {None, <<plan.start>>}
    BY <1>0, <2>1, <2>2 DEF RebaseAt
  <2>5. repo.rbOrig = <<p.start>> /\ run.orig = p.start
    <3>1. <<run.orig>> = <<p.start>> BY <1>2, <2>4, Something
    <3> QED BY <1>2, <3>1
  <2>6. ASSUME "attached" \notin o PROVE MovesOnce(ws) /\ ((\E w \in Range(ws) : w.f = "branch") => repo.branch = run.orig)
    <3>1. repo.head # None BY <1>0, <2>6 DEF Attached
    <3>2. Late(pre, "head", repo.head) = <<h>> /\ \A w \in Range(pre) : w.f # "branch" BY <3>1 DEF Opens
    <3> QED BY <1>8, <3>1, <1>7, <1>9, <3>2, RebaseMoves DEF MoveGoes
  <2>7. \A j \in DOMAIN ws : ws[j] \in Range(ws) BY DEF Range
  <2>9. \A w \in Range(ws) : w.f = "rbOrig" => w.v = <<p.start>> BY <1>17, <2>5
  <2> QED BY <2>6, <2>7, <1>18, <2>4, <2>5, <2>9 DEF RebaseAt, MovesOnce
<1>21. Safe(repo, ws, Held(repo.rbStash))
  <2>1. CASE Saves(tail, Held(stash))
    <3>1. Saves(ws, Held(repo.rbStash)) BY <1>4, <1>9, <2>1, SavesJoin
    <3> QED BY <1>1, <1>10, <3>1, SafeIs
  <2>2. CASE \A x : Late(tail, "rbStash", x) = x
    <3>2. Late(pre, "rbStash", repo.rbStash) = repo.rbStash BY DEF Opens
    <3>3. Late(ws, "rbStash", repo.rbStash) = repo.rbStash BY <1>9, Join, <2>2, <3>2
    <3> QED BY <1>1, <1>10, <3>3, SafeIs
  <2>3. "rbStash" \in RebaseDir BY DEF RebaseDir
  <2> QED BY <1>8, <2>1, <2>2, <2>3 DEF MoveGoes, MoveLeaves
<1>22. p.local \subseteq plan.local \cup {} /\ Safe(repo, ws, {}) /\ odd \cap {"crash", "refused"} \subseteq o BY <1>0, SafeNothing
<1> QED BY <1>0, <1>10, <1>11, <1>12, <1>14, <1>15, <1>16, <1>19, <1>20, <1>21, <1>22, Assembled

LEMMA AdvanceOpens ==
  ASSUME Ready, NEW h \in Histories, NEW pre, pre = IF h = Tip THEN <<>> ELSE <<MoveHead(h), W("message", None)>>
  PROVE  /\ pre \in Seq(WriteType) /\ Opens(pre, h) /\ \A w \in Range(pre) : w.f \in {"head", "branch", "message"}
         /\ \A x : Late(pre, "mergeStash", x) = x
<1>1. RepoOK(repo) BY DEF Ready
<1>2. repo.head # None => repo.head = <<Tip>>
  <2>1. repo.head \in Maybe(Histories) BY <1>1, FieldsAre, KindsAre DEF RepoOK, HistoryFiles
  <2> QED BY <2>1, MaybeIs DEF Tip
<1>3. /\ pre \in Seq(WriteType) /\ \A w \in Range(pre) : w.f \in {"head", "branch", "message"}
      /\ \A f, x : f \notin {"head", "branch", "message"} => Late(pre, f, x) = x
      /\ repo.head # None => /\ Late(pre, "head", repo.head) = <<h>> /\ Late(pre, "branch", repo.branch) = repo.branch
                             /\ \A w \in Range(pre) : w.f # "branch"
  <2>1. CASE h = Tip
    <3>1. pre = <<>> BY <2>1
    <3> QED BY <1>2, <2>1, <3>1, NoneIs
  <2>2. CASE h # Tip
    <3>1. PICK u \in WriteType : u = MoveHead(h) /\ u.f \in {"head", "branch"} /\ (repo.head # None => u.f = "head" /\ u.v = <<h>>)
      <4> QED BY <1>1, MoveHeadIs DEF W
    <3>2. PICK v \in WriteType : v = W("message", None) /\ v.f = "message" BY Removal
    <3>3. pre = <<u, v>> BY <2>2, <3>1, <3>2
    <3>4. pre \in Seq(WriteType) /\ Range(pre) = {u, v} /\ \A f, x : Late(pre, f, x) = Put(v, f, Put(u, f, x)) BY <3>3, Two
    <3>5. Files(u.f) = {u.f} /\ Files(v.f) = {v.f} BY <3>1, <3>2, FilesAre
    <3>6. \A f, x : Late(pre, f, x) = IF f = v.f THEN v.v ELSE IF f = u.f THEN u.v ELSE x BY <3>4, <3>5 DEF Put, Touches
    <3> QED BY <3>1, <3>2, <3>4, <3>6
  <2> QED BY <2>1, <2>2
<1>4. \A f, x : f \notin {"head", "branch", "message"} => Late(pre, f, x) = x BY <1>3
<1>5. Opens(pre, h)
  <2>1. \A f \in {"rebase", "rbStash"} \cup RebasePart : Late(pre, f, repo[f]) = repo[f] BY <1>4 DEF RebasePart
  <2>2. \A f \in SequencerDir : Late(pre, f, repo[f]) = repo[f] BY <1>4 DEF SequencerDir
  <2>4. \A w \in Range(pre) : w.f \in OpenNames /\ w.f \notin {"merge", "pick", "revert"} BY <1>3, SMTT(40) DEF OpenNames
  <2> QED BY <1>4, <1>3, <2>1, <2>2, <2>4 DEF Opens
<1> QED BY <1>3, <1>4, <1>5

LEMMA RebaseContinueKeeps ==
  ASSUME Ready, RebaseReadable, repo.index.unmerged = "no", repo.dirty = {}, NEW blocked, NEW outcome \in ApplyOutcomes,
         NEW h, h = IF Rescheduled \/ repo.index.tree = Tree(Tip) THEN Tip
                    ELSE Append(Tip, Commit(repo.rbMessage[1].op, repo.rbMessage[1].src, Tip, repo.index.tree)),
         NEW end, end = ReplayOn(h, blocked, outcome), NEW d \in SUBSET Int
  PROVE  Leads((IF h = Tip THEN <<>> ELSE <<MoveHead(h), W("message", None)>>) \o end.ws, Dropping(d \cup end.dropped), odd \cup Attached)
<1>1. RepoOK(repo) /\ plan \in PlanType BY DEF Ready
<1>2. PICK g \in Histories : g = h
  <2>1. Tip \in Histories BY <1>1, TipIs
  <2>2. CASE Rescheduled \/ repo.index.tree = Tree(Tip) BY <2>1, <2>2
  <2>3. CASE ~(Rescheduled \/ repo.index.tree = Tree(Tip))
    <3>1. repo.rbMessage \in Maybe(CommitType) /\ repo.index \in IndexType BY <1>1, FieldsAre, KindsAre DEF RepoOK
    <3>2. PICK m \in CommitType : m = repo.rbMessage[1] BY <2>3, <3>1, MaybeIs DEF Rescheduled
    <3>3. m.op \in {"pick", "revert", "merge", "user"} /\ m.src \in Sources \cup {"merge"} BY DEF CommitType
    <3>4. repo.index.tree \in SUBSET Patches BY <3>1 DEF IndexType
    <3>5. Commit(m.op, m.src, Tip, repo.index.tree) \in CommitType BY <2>1, <3>3, <3>4, CommitIs, SMTT(40)
    <3> QED BY <2>3, <3>2, <2>1, <3>5, HistoryIs
  <2> QED BY <2>2, <2>3
<1>3. PICK pre : pre = IF g = Tip THEN <<>> ELSE <<MoveHead(g), W("message", None)>> OBVIOUS
<1>4. /\ pre \in Seq(WriteType) /\ Opens(pre, g) /\ \A w \in Range(pre) : w.f \in {"head", "branch", "message"}
      /\ \A x : Late(pre, "mergeStash", x) = x
  BY <1>3, AdvanceOpens
<1>5. end = ReplayOn(g, blocked, outcome) BY <1>2
<1>6. PICK run \in LineType : run = OnDisk BY OnDiskIs
<1>7. PICK stash \in Maybe(SUBSET Locals) : stash = repo.rbStash BY OnDiskIs
<1>8. end \in AccType /\ MoveNames(run, end.ws) BY <1>5, <1>6, <1>7, GoesMoves DEF MoveGoes
<1>9. PICK p : p = Dropping(d \cup end.dropped) OBVIOUS
<1>10. p \in PlanType /\ p.kind = plan.kind /\ p.start = plan.start /\ p.local = plan.local
  <2>1. d \cup end.dropped \in SUBSET Int BY <1>8, AccIs
  <2> QED BY <1>1, <1>9, <2>1 DEF Dropping, PlanType
<1>11. PICK tail \in Seq(WriteType) : tail = end.ws BY <1>8, AccIs
<1>12. PICK ws \in Seq(WriteType) : ws = pre \o tail /\ Range(ws) = Range(pre) \cup Range(tail) BY <1>4, Join
<1>13. UnmergedAt(repo, ws)
  <2>1. UnmergedAt(repo, <<>>) BY AtRest DEF Ready
  <2>3. \A w \in Range(ws) : w.f = "index" => w.v.unmerged # "merge" BY <1>8, <1>11, <1>4, <1>12 DEF MoveNames
  <2> QED BY <2>1, <2>3, UnmergedKept
<1>14. Safe(repo, ws, Held(repo.mergeStash))
  <2>1. "mergeStash" \in Fields \ MoveTouches BY FieldsAre DEF MoveTouches, LineNames, RebaseFiles, RebaseDir
  <2>2. \A x : Late(tail, "mergeStash", x) = x BY <1>8, <1>11, <2>1 DEF MoveNames
  <2>4. Late(ws, "mergeStash", repo.mergeStash) = repo.mergeStash BY <1>12, Join, <1>4, <2>2
  <2> QED BY <1>1, <2>4, SafeIs
<1>15. Safe(repo, ws, repo.dirty) BY SafeNothing, SMTT(40)
<1>16. ws = pre \o end.ws BY ONLY <1>11, <1>12, Zenon
<1>17. Leads(ws, p, odd \cup Attached) BY <1>4, <1>5, <1>10, <1>13, <1>14, <1>15, <1>16, RebaseGoes
<1> QED BY <1>2, <1>3, <1>9, <1>16, <1>17

\* reset --hard HEAD, and the state of the stopped commit unless the line was only put off.
LEMMA DiscardOpens ==
  ASSUME Ready, NEW a, a = <<W("dirty", {}), W("index", Clean(Tree(Tip)))>>, NEW b \in Seq(WriteType), b = <<>> \/ Sweeps(b)
  PROVE  /\ a \in Seq(WriteType) /\ a \o b \in Seq(WriteType) /\ Opens(a \o b, Tip)
         /\ \A w \in Range(a) : w.f \in {"dirty", "index"} /\ (w.f = "index" => w.v.unmerged = "no")
         /\ \E w \in Range(a) : w.f = "index"
         /\ \A x : Late(a, "mergeStash", x) = x
<1>1. RepoOK(repo) BY DEF Ready
<1>2. (repo.head # None => repo.head = <<Tip>>) /\ Tree(Tip) \in SUBSET Patches
  <2>1. repo.head \in Maybe(Histories) BY <1>1, FieldsAre, KindsAre DEF RepoOK, HistoryFiles
  <2> QED BY <1>1, <2>1, MaybeIs, TipIs DEF Tip
<1>3. PICK u \in WriteType : u = W("index", Clean(Tree(Tip))) /\ u.f = "index" /\ u.v.unmerged = "no" BY <1>2, CleanIs, IndexWrite
<1>4. PICK v \in WriteType : v = W("dirty", {}) /\ v.f = "dirty"
  <2>1. {} \in Kind("dirty") BY KindsAre
  <2> QED BY <2>1, WriteIs, FieldsAre
<1>5. a = <<v, u>> BY <1>3, <1>4
<1>6. a \in Seq(WriteType) /\ Range(a) = {v, u} /\ \A f, x : Late(a, f, x) = Put(u, f, Put(v, f, x)) BY <1>5, Two
<1>7. \A f, x : f \notin {"index", "dirty"} => Late(a, f, x) = x BY <1>3, <1>4, <1>6, PutIs
<1>8. PICK pre \in Seq(WriteType) : pre = a \o b /\ Range(pre) = Range(a) \cup Range(b) /\ \A f, x : Late(pre, f, x) = Late(b, f, Late(a, f, x)) BY <1>6, Join
<1>15. \A f, x : Late(pre, f, x) = Late(b, f, Late(a, f, x)) BY <1>8
<1>9. \A f, x : f \notin {"index", "dirty"} => Late(pre, f, x) = Late(b, f, x) BY ONLY <1>7, <1>15
<1>10. \A w \in Range(a) : w.f \in {"dirty", "index"} /\ (w.f = "index" => w.v.unmerged = "no") BY <1>3, <1>4, <1>6
<1>11. PICK F : F = {"branch", "head", "rebase", "rbStash"} \cup RebasePart OBVIOUS
<1>12. /\ \A w \in Range(b) : w.f \in OpenNames /\ w.f # "branch" /\ (w.f \in {"merge", "pick", "revert"} => w.v = None)
       /\ \A f \in F : Late(b, f, repo[f]) = repo[f]
       /\ \A f \in {"merge", "pick", "revert", "seqHead"} : Late(b, f, repo[f]) \in {repo[f], None}
       /\ \/ \A f \in SequencerDir : Late(b, f, repo[f]) = repo[f]
          \/ \A f \in SequencerDir : Late(b, f, repo[f]) = None
       /\ \/ Late(b, "mergeStash", repo.mergeStash) = repo.mergeStash /\ Late(b, "merge", repo.merge) = repo.merge
          \/ Late(b, "mergeStash", repo.mergeStash) = None
  <2>1. CASE b = <<>> BY <2>1, NoneIs
  <2>2. CASE Sweeps(b)
    <3>2. \A f \in F : Late(b, f, repo[f]) = repo[f]
      BY <1>11, FieldsAre, <2>2 DEF Sweeps, SweptFiles, SequencerDir, RebasePart
    <3>3. \A f \in SweptFiles : Late(b, f, repo[f]) = None BY <2>2 DEF Sweeps
    <3>4. \/ \A f \in SequencerDir : Late(b, f, repo[f]) = repo[f]
          \/ \A f \in SequencerDir : Late(b, f, repo[f]) = None
      BY <2>2 DEF Sweeps
    <3>5. \A f \in {"merge", "pick", "revert", "seqHead"} : Late(b, f, repo[f]) \in {repo[f], None} BY <3>3, <3>4 DEF SweptFiles, SequencerDir
    <3> QED BY <2>2, <3>2, <3>3, <3>4, <3>5 DEF SweptFiles, Sweeps, OpenNames
  <2> QED BY <2>1, <2>2
<1>13. Opens(pre, Tip)
  <2>1. \A f \in F : f \notin {"index", "dirty"} BY <1>11 DEF RebasePart
  <2>2. \A f \in F : Late(pre, f, repo[f]) = repo[f] BY <1>9, <1>12, <2>1
  <2>3. \A f \in {"rebase", "rbStash"} \cup RebasePart : Late(pre, f, repo[f]) = repo[f] BY <1>11, <2>2
  <2>4. Late(pre, "branch", repo.branch) = repo.branch /\ (repo.head # None => Late(pre, "head", repo.head) = <<Tip>>) BY <1>2, <1>11, <2>2
  <2>5. \A f \in {"merge", "pick", "revert", "seqHead"} : Late(pre, f, repo[f]) \in {repo[f], None} BY <1>9, <1>12
  <2>6. \/ \A f \in SequencerDir : Late(pre, f, repo[f]) = repo[f]
        \/ \A f \in SequencerDir : Late(pre, f, repo[f]) = None
    <3> QED BY <1>9, <1>12 DEF SequencerDir
  <2>7. \A w \in Range(pre) : w.f \in OpenNames /\ w.f # "branch" /\ (w.f \in {"merge", "pick", "revert"} => w.v = None)
    <3>1. {"index", "dirty"} \subseteq OpenNames BY DEF OpenNames
    <3> QED BY <1>8, <1>10, <1>12, <3>1
  <2>8. \/ Late(pre, "mergeStash", repo.mergeStash) = repo.mergeStash /\ Late(pre, "merge", repo.merge) = repo.merge
        \/ Late(pre, "mergeStash", repo.mergeStash) = None
    BY <1>9, <1>12
  <2> QED BY <2>3, <2>4, <2>5, <2>6, <2>7, <2>8 DEF Opens
<1>14. (\E w \in Range(a) : w.f = "index") /\ \A x : Late(a, "mergeStash", x) = x BY <1>3, <1>6, <1>7
<1> QED BY <1>6, <1>8, <1>10, <1>13, <1>14

LEMMA RebaseSkipKeeps ==
  ASSUME Ready, RebaseReadable, NEW blocked, NEW outcome \in ApplyOutcomes,
         NEW end, end = ReplayOn(Tip, blocked, outcome), NEW d \in SUBSET Int,
         NEW a, a = <<W("dirty", {}), W("index", Clean(Tree(Tip)))>>,
         NEW b, b = IF Rescheduled THEN <<>> ELSE RemoveBranchState(repo.mergeStash)
  PROVE  Leads(a \o b \o end.ws, [Discarding(repo.dirty) EXCEPT !.dropped = @ \cup d \cup end.dropped], odd \cup Attached)
<1>1. RepoOK(repo) /\ plan \in PlanType BY DEF Ready
<1>2. PICK g \in Histories : g = Tip BY <1>1, TipIs
<1>3. b \in Seq(WriteType) /\ (b = <<>> \/ Sweeps(b))
  <2>1. CASE Rescheduled BY <2>1, NoneIs
  <2>2. CASE ~Rescheduled
    <3>2. b = RemoveBranchState(repo.mergeStash) BY <2>2
    <3> QED BY FieldsAre, KindsAre, <1>1, <3>2, Swept DEF RepoOK
  <2> QED BY <2>1, <2>2
<1>4. /\ a \in Seq(WriteType) /\ a \o b \in Seq(WriteType) /\ Opens(a \o b, Tip)
      /\ \A w \in Range(a) : w.f \in {"dirty", "index"} /\ (w.f = "index" => w.v.unmerged = "no")
      /\ \E w \in Range(a) : w.f = "index"
      /\ \A x : Late(a, "mergeStash", x) = x
  BY <1>3, DiscardOpens
<1>5. end = ReplayOn(g, blocked, outcome) BY <1>2
<1>6. PICK run \in LineType : run = OnDisk BY OnDiskIs
<1>7. PICK stash \in Maybe(SUBSET Locals) : stash = repo.rbStash BY OnDiskIs
<1>8. end \in AccType /\ MoveNames(run, end.ws) BY <1>5, <1>6, <1>7, GoesMoves DEF MoveGoes
<1>9. PICK p : p = [Discarding(repo.dirty) EXCEPT !.dropped = @ \cup d \cup end.dropped] OBVIOUS
<1>10. /\ p \in PlanType /\ p.start = plan.start /\ p.local = plan.local \ repo.dirty
       /\ p.kind = plan.kind \/ (p.kind = "none" /\ plan.kind \in {"aborted", "refused"})
  <2>1. PICK e \in SUBSET Int : e = end.dropped BY <1>8, AccIs
  <2> QED BY <1>9, <2>1, <1>1 DEF Discarding, Closed, PlanType
<1>11. PICK tail \in Seq(WriteType) : tail = end.ws BY <1>8, AccIs
<1>12. PICK pre \in Seq(WriteType) : pre = a \o b BY <1>4
<1>13. PICK ws \in Seq(WriteType) : ws = pre \o tail BY Join
<1>14. PICK c \in Seq(WriteType) : c = b \o tail /\ Range(c) = Range(b) \cup Range(tail) BY <1>3, Join
<1>15. ws = a \o c
  <2>1. PICK x \in Seq(WriteType) : x = a BY <1>4
  <2>2. PICK y \in Seq(WriteType) : y = b BY <1>3
  <2>3. (x \o y) \o tail = x \o (y \o tail) BY Regrouped, SMTT(40)
  <2> QED BY <1>12, <1>13, <1>14, <2>1, <2>2, <2>3
<1>16. \A w \in Range(tail) : w.f \in LineNames \cup {"head", "branch", "rebase-merge", "restore", "push"} /\ (w.f = "index" => w.v.unmerged # "merge")
  BY <1>8, <1>11 DEF MoveNames
<1>18. UnmergedAt(repo, ws)
  <2>1. UnmergedAt(repo, <<>>) BY AtRest DEF Ready
  <2>2. \A w \in Range(a) \cup Range(c) : w.f = "index" => w.v.unmerged # "merge"
    BY <1>3, NoneIs, <1>4, <1>14, <1>16 DEF Sweeps, SweptFiles
  <2>3. W("merge", None) \notin Range(a)
    <3>1. W("merge", None).f = "merge" BY DEF W
    <3> QED BY <1>4, <3>1
  <2>4. UnmergedAt(repo, a \o c) BY <1>4, <2>1, <2>2, <2>3, UnmergedAfter
  <2> QED BY <1>15, <2>4
<1>19. Safe(repo, ws, Held(repo.mergeStash))
  <2>1. CASE Sweeps(b)
    <3>1. Saves(b, Held(repo.mergeStash)) BY <2>1 DEF Sweeps
    <3>2. \A w \in Range(tail) : w.f # "dirty" BY <1>16 DEF LineNames, RebaseFiles
    <3>3. Saves(c, Held(repo.mergeStash)) BY <1>3, <1>14, <3>1, <3>2, SavesJoin
    <3>4. Saves(ws, Held(repo.mergeStash)) BY <1>4, <1>15, <3>3, SavesJoin
    <3> QED BY <1>1, <3>4, SafeIs
  <2>2. CASE b = <<>>
    <3>1. "mergeStash" \in Fields \ MoveTouches BY FieldsAre DEF MoveTouches, LineNames, RebaseFiles, RebaseDir
    <3>2. \A x : Late(tail, "mergeStash", x) = x BY <1>8, <1>11, <3>1 DEF MoveNames
    <3>3. c = tail BY <1>14, <2>2, ConcatEmptySeq
    <3>4. \A f, x : Late(ws, f, x) = Late(c, f, Late(a, f, x))
      <4>1. a \in Seq(WriteType) BY <1>4
      <4> QED BY ONLY <1>15, <4>1, c \in Seq(WriteType), Join
    <3>5. \A x : Late(a, "mergeStash", x) = x BY <1>4
    <3>6. Late(ws, "mergeStash", repo.mergeStash) = repo.mergeStash BY ONLY <3>2, <3>3, <3>4, <3>5
    <3> QED BY <1>1, <3>6, SafeIs
  <2> QED BY <1>3, <2>1, <2>2
<1>20. ws = pre \o end.ws BY ONLY <1>11, <1>13, Zenon
<1>21. Opens(pre, g) BY <1>2, <1>4, <1>12
<1>22. p.local \subseteq plan.local /\ p.local \cap repo.dirty = {} BY <1>10
<1>23. Leads(ws, p, odd \cup Attached) BY <1>5, <1>10, <1>18, <1>19, <1>20, <1>21, <1>22, RebaseGoes
<1> QED BY <1>9, <1>12, <1>20, <1>23

LEMMA RebaseRefusedKeeps ==
  ASSUME Ready, NoPendingOperation, NEW checkout \in BOOLEAN, NEW p, p = Begun("refused", <<>>, Local)
  PROVE  Leads(CreateAutostash \o WriteAutostash \o (IF checkout THEN <<W("orig", <<Tip>>)>> ELSE <<>>), p, Lasting \cup {"refused"})
<1>1. RepoOK(repo) BY DEF Ready
<1>2. PICK o \in SUBSET Oddities : o = Lasting \cup {"refused"} BY NothingPending DEF Oddities
<1>3. PICK a : a = CreateAutostash \o WriteAutostash OBVIOUS
<1>4. a \in Seq(WriteType) /\ \A w \in Range(a) : w.f \in {"index", "dirty", "rbStash"} /\ (w.f = "index" => w.v.unmerged = "no") BY <1>1, <1>3, WriteAutostashIs
<1>5. \A f \in Fields \ {"index", "dirty", "rbStash"} : \A x : Late(a, f, x) = x BY <1>1, <1>3, WriteAutostashIs
<1>6. PICK b : b = IF checkout THEN <<W("orig", <<Tip>>)>> ELSE <<>> OBVIOUS
<1>7. b \in Seq(WriteType) /\ (\A w \in Range(b) : w.f = "orig") /\ \A f, x : f # "orig" => Late(b, f, x) = x
  <2>1. CASE ~checkout BY <1>6, <2>1, NoneIs
  <2>2. CASE checkout
    <3>1. <<Tip>> \in Maybe(Histories) BY <1>1, TipIs
    <3>2. PICK v \in WriteType : v = W("orig", <<Tip>>) /\ v.f = "orig" BY <3>1, WriteIs, KindsAre, FieldsAre DEF HistoryFiles
    <3>3. b = <<v>> BY <1>6, <2>2, <3>2
    <3>4. b \in Seq(WriteType) /\ Range(b) = {v} /\ \A f, x : Late(b, f, x) = Put(v, f, x) BY <3>3, One
    <3>5. \A f, x : Late(b, f, x) = Put(v, f, x) BY <3>4
    <3>6. \A f, x : f # "orig" => Put(v, f, x) = x BY <3>2, PutIs
    <3>7. \A f, x : f # "orig" => Late(b, f, x) = x BY ONLY <3>5, <3>6
    <3> QED BY <3>2, <3>4, <3>7
  <2> QED BY <2>1, <2>2
<1>8. PICK ws \in Seq(WriteType) : ws = a \o b /\ Range(ws) = Range(a) \cup Range(b) /\ \A f, x : Late(ws, f, x) = Late(b, f, Late(a, f, x)) BY <1>4, <1>7, Join, ZenonT(60)
<1>9. PICK A : A = Then(repo, ws) OBVIOUS
<1>10. \A f \in Fields \ {"index", "dirty", "rbStash", "orig"} : A[f] = repo[f]
  <2>1. \A f, x : Late(ws, f, x) = Late(b, f, Late(a, f, x)) BY <1>8
  <2>2. \A f, x : f # "orig" => Late(b, f, x) = x BY <1>7
  <2>3. \A f \in Fields : A[f] = Late(ws, f, repo[f]) BY <1>9, ThenIs
  <2>4. \A f \in Fields \ {"index", "dirty", "rbStash", "orig"} : f \in Fields /\ f # "orig" /\ f \in Fields \ {"index", "dirty", "rbStash"} OBVIOUS
  <2> QED BY ONLY <1>5, <2>1, <2>2, <2>3, <2>4
<1>11. SeqKept(A) /\ RebaseKept(A)
  <2> QED BY FieldsAre, <1>10 DEF SeqKept, RebaseKept, SequencerDir, RebasePart
<1>12. p \in PlanType /\ p.kind = "refused" /\ p.local = plan.local \cup Local
  <2>1. PICK edits \in SUBSET Locals : edits = Local BY <1>1, TipIs
  <2>2. BegunAs(p, "refused", <<>>, edits) BY <2>1 DEF BegunAs
  <2>3. PlanIs(p, "refused", <<>>, edits) BY <2>2, SeqNone, BegunIs
  <2> QED BY <2>1, <2>3 DEF PlanIs
<1>13. TidyAt(A, p, o) BY <1>2 DEF TidyAt
<1>14. MergeAt(repo, ws, p, o)
  <2>1. repo.merge = None BY NothingPending
  <2>2. Blank(ws, "merge") BY <1>4, <1>7, <1>8 DEF Blank
  <2> QED BY <2>1, <2>2, MergeBegins
<1>15. UnmergedAt(repo, ws)
  <2>1. UnmergedAt(repo, <<>>) /\ repo.index.unmerged # "merge" BY NothingPending
  <2> QED BY <1>4, <1>7, <1>8, <2>1, UnmergedKept
<1>16. RebaseAt(repo, ws, p, o) BY <1>12, RebaseOther
<1>17. Lasting \subseteq o /\ "refused" \in o /\ p.local \subseteq plan.local \cup Local BY <1>2, <1>12
<1>18. Leads(ws, p, o) BY <1>9, <1>11, <1>12, <1>13, <1>14, <1>15, <1>16, <1>17, Begins
<1> QED BY <1>2, <1>3, <1>6, <1>8, <1>18

\* What a rebase writes before the first line.
RunNames == {"index", "dirty", "rbStash", "orig", "head"}
RunOpens(pre) ==
  /\ \A w \in Range(pre) : w.f \in RunNames /\ (w.f = "index" => w.v.unmerged = "no")
  /\ \A f \in Fields \ RunNames : \A x : Late(pre, f, x) = x
  /\ Late(pre, "rbStash", repo.rbStash) = StashKept /\ Late(pre, "head", repo.head) = <<Upstream>>
LEMMA RunPre ==
  ASSUME RepoOK(repo), NEW a, a = CreateAutostash \o WriteAutostash,
         NEW l, l = <<W("orig", <<Tip>>), W("index", Clean(Tree(Upstream))), W("head", <<Upstream>>)>>, NEW pre, pre = a \o l
  PROVE  pre \in Seq(WriteType) /\ RunOpens(pre)
<1>1. a \in Seq(WriteType) /\ \A w \in Range(a) : w.f \in {"index", "dirty", "rbStash"} /\ (w.f = "index" => w.v.unmerged = "no") BY WriteAutostashIs
<1>2. \A f \in Fields \ {"index", "dirty", "rbStash"} : \A x : Late(a, f, x) = x BY WriteAutostashIs
<1>3. Late(a, "rbStash", repo.rbStash) = StashKept BY WriteAutostashIs
<1>4. PICK g \in Histories : g = Upstream BY HistoriesAssumption
<1>5. PICK u \in WriteType : u = W("orig", <<Tip>>) /\ u.f = "orig"
  <2>1. <<Tip>> \in Maybe(Histories) BY TipIs
  <2> QED BY <2>1, WriteIs, KindsAre, FieldsAre DEF HistoryFiles
<1>6. PICK v \in WriteType : v = W("index", Clean(Tree(g))) /\ v.f = "index" /\ v.v.unmerged = "no"
  <2>1. Tree(g) \in SUBSET Patches BY HistoryIs
  <2>2. PICK i \in IndexType : i = Clean(Tree(g)) /\ i.unmerged = "no" BY <2>1, CleanIs
  <2> QED BY <2>2, IndexWrite
<1>7. PICK w \in WriteType : w = W("head", <<g>>) /\ w.f = "head"
  <2>1. <<g>> \in Maybe(Histories) BY MaybeIs
  <2> QED BY <2>1, WriteIs, KindsAre, FieldsAre DEF HistoryFiles
<1>8. l = <<u, v, w>> BY <1>4, <1>5, <1>6, <1>7
<1>9. l \in Seq(WriteType) /\ Range(l) = {u, v, w} /\ \A f, x : Late(l, f, x) = Put(w, f, Put(v, f, Put(u, f, x))) BY <1>8, Three
<1>10. \A f, x : Late(l, f, x) = Put(w, f, Put(v, f, Put(u, f, x))) BY <1>9
<1>11. \A f, x : Put(u, f, x) = IF f = "orig" THEN <<Tip>> ELSE x BY ONLY <1>5, PutIs
<1>12. \A f, x : Put(v, f, x) = IF f = "index" THEN Clean(Tree(g)) ELSE x BY ONLY <1>6, PutIs
<1>13. \A f, x : Put(w, f, x) = IF f = "head" THEN <<g>> ELSE x BY ONLY <1>7, PutIs
<1>14. \A f, x : f \notin {"orig", "index", "head"} => Late(l, f, x) = x BY ONLY <1>10, <1>11, <1>12, <1>13
<1>15. \A x : Late(l, "head", x) = <<g>> BY ONLY <1>10, <1>13
<1>16. pre \in Seq(WriteType) /\ Range(pre) = Range(a) \cup Range(l) BY <1>1, <1>9, Join
<1>17. \A f, x : Late(pre, f, x) = Late(l, f, Late(a, f, x))
  <2>1. a \in Seq(WriteType) /\ l \in Seq(WriteType) /\ pre = a \o l BY <1>1, <1>9
  <2> QED BY ONLY <2>1, Join
<1>18. \A x \in Range(pre) : x.f \in RunNames /\ (x.f = "index" => x.v.unmerged = "no")
  <2> QED BY <1>5, <1>6, <1>7, <1>9, <1>1, <1>16 DEF RunNames
<1>19. \A f \in Fields \ RunNames : \A x : Late(pre, f, x) = x
  <2>1. \A f \in Fields \ RunNames : f \in Fields \ {"index", "dirty", "rbStash"} /\ f \notin {"orig", "index", "head"} BY DEF RunNames
  <2> QED BY ONLY <1>2, <1>14, <1>17, <2>1
<1>20. Late(pre, "rbStash", repo.rbStash) = StashKept BY ONLY <1>3, <1>14, <1>17
<1>21. Late(pre, "head", repo.head) = <<Upstream>> BY ONLY <1>4, <1>15, <1>17
<1> QED BY <1>16, <1>18, <1>19, <1>20, <1>21 DEF RunOpens

\* What a rebase leaves when its command has made its writes.
RunLeaves(run, A) ==
  \/ A.rbOrig = <<run.orig>> /\ A.rebase # None /\ A.branch = repo.branch /\ A.head # None /\ A.rbStash = StashKept
  \/ \A f \in RebaseDir \cup {"rebase"} : A[f] = None
LEMMA RunGoes ==
  ASSUME RepoOK(repo), NEW run, repo.branch = run.orig, NEW stash, NEW pre \in Seq(WriteType), RunOpens(pre), NEW tail \in Seq(WriteType), MoveNames(run, tail),
         MoveStops(run, Upstream, tail) \/ MoveEnds(run, Upstream, stash, tail) \/ MoveSticks(run, Upstream, tail),
         NEW ws, ws = pre \o tail, NEW A, A = Then(repo, ws)
  PROVE  /\ SeqKept(A) /\ RebaseKept(A) /\ MergeStashKept(A) /\ RebaseStashKept(A) /\ RunLeaves(run, A)
         /\ \A f \in {"merge", "pick", "revert", "seqHead"} : A[f] = repo[f]
<1>1. \A f, x : Late(ws, f, x) = Late(tail, f, Late(pre, f, x)) BY Join
<1>2. \A f \in Fields : A[f] = Late(ws, f, repo[f]) BY ThenIs
<1>3. \A f \in Fields : A[f] = Late(tail, f, Late(pre, f, repo[f])) BY ONLY <1>1, <1>2
<1>5. \A f \in Fields \ RunNames : \A x : Late(pre, f, x) = x BY DEF RunOpens
<1>6. PICK F : F = {"merge", "pick", "revert", "mergeStash"} \cup SequencerDir OBVIOUS
<1>7. F \subseteq (Fields \ MoveTouches) \cap (Fields \ RunNames)
  BY <1>6, FieldsAre DEF SequencerDir, MoveTouches, LineNames, RebaseFiles, RebaseDir, RunNames
<1>8. \A f \in F : A[f] = repo[f] BY <1>3, <1>5, <1>7 DEF MoveNames
<1>10. RunLeaves(run, A)
  <2>1. {"branch", "rbStash", "rbOrig", "rebase", "head"} \cup RebaseDir \subseteq Fields BY FieldsAre DEF RebaseDir
  <2>2. CASE MoveStops(run, Upstream, tail)
    <3>1. Late(tail, "head", <<Upstream>>) # None BY <2>2 DEF MoveStops
    <3>4. Late(pre, "rbStash", repo.rbStash) = StashKept /\ Late(pre, "head", repo.head) = <<Upstream>> BY DEF RunOpens
    <3>5. "branch" \in Fields \ RunNames BY <2>1 DEF RunNames
    <3>6. Late(pre, "branch", repo.branch) = repo.branch BY <1>5, <3>5
    <3>7. A.branch = repo.branch /\ A.rbStash = StashKept BY <2>2, <1>3, <2>1, <3>4, <3>6 DEF MoveStops
    <3>8. A.rbOrig = <<run.orig>> /\ A.rebase # None BY <2>2, <1>3, <2>1 DEF MoveStops
    <3>9. A.head # None BY <1>3, <2>1, <3>1, <3>4
    <3> QED BY <3>7, <3>8, <3>9 DEF RunLeaves
  <2>3. CASE MoveEnds(run, Upstream, stash, tail)
    <3>2. \A f \in RebaseDir \cup {"rebase"} : A[f] = None BY <2>3, <1>3, <2>1 DEF MoveEnds, Finishing
    <3> QED BY <3>2 DEF RunLeaves
  <2>4. ~MoveSticks(run, Upstream, tail) BY DEF MoveSticks
  <2> QED BY <2>2, <2>3, <2>4
<1>11. RebaseKept(A) /\ RebaseStashKept(A)
  <2>2. CASE A.rbOrig = <<run.orig>> /\ A.rebase # None BY <2>2, Something DEF RebaseKept, RebaseStashKept
  <2>3. CASE \A f \in RebaseDir \cup {"rebase"} : A[f] = None BY <2>3 DEF RebaseKept, RebaseStashKept, RebasePart, RebaseDir
  <2> QED BY <1>10, <2>2, <2>3 DEF RunLeaves
<1> QED BY <1>6, <1>8, <1>10, <1>11 DEF SeqKept, MergeStashKept, SequencerDir

LEMMA RebaseBegins ==
  ASSUME Ready, NoPendingOperation, repo.head = None, NEW run \in LineType, run.orig = Tip, NEW stash \in Maybe(SUBSET Locals), stash = StashKept,
         NEW pre \in Seq(WriteType), RunOpens(pre), NEW tail \in Seq(WriteType), MoveNames(run, tail),
         MoveStops(run, Upstream, tail) \/ MoveEnds(run, Upstream, stash, tail) \/ MoveSticks(run, Upstream, tail),
         NEW ws, ws = pre \o tail, NEW p \in PlanType, p.kind = "rebase", p.start = Tip, p.local = plan.local \cup Local
  PROVE  Leads(ws, p, Lasting)
<1>1. RepoOK(repo) BY DEF Ready
<1>2. PICK o \in SUBSET Oddities : o = Lasting BY NothingPending
<1>3. repo.branch = Tip BY DEF Tip
<1>4. ws \in Seq(WriteType) /\ Range(ws) = Range(pre) \cup Range(tail) BY Join
<1>5. PICK A : A = Then(repo, ws) OBVIOUS
<1>20. /\ SeqKept(A) /\ RebaseKept(A) /\ MergeStashKept(A) /\ RebaseStashKept(A) /\ RunLeaves(run, A)
       /\ \A f \in {"merge", "pick", "revert", "seqHead"} : A[f] = repo[f]
  <2>1. /\ repo.branch = run.orig /\ RunOpens(pre) /\ MoveNames(run, tail) /\ ws = pre \o tail
        /\ MoveStops(run, Upstream, tail) \/ MoveEnds(run, Upstream, stash, tail) \/ MoveSticks(run, Upstream, tail)
    BY <1>3
  <2> QED BY ONLY <1>1, <1>5, <2>1, RunGoes, ZenonT(60)
<1>6. SeqKept(A) /\ RebaseKept(A) /\ MergeStashKept(A) /\ RebaseStashKept(A) /\ RunLeaves(run, A) BY <1>20
<1>8. \A w \in Range(pre) : w.f \in RunNames /\ (w.f = "index" => w.v.unmerged = "no") BY DEF RunOpens
<1>9. \A w \in Range(tail) :
        /\ w.f \in LineNames \cup {"head", "branch", "rebase-merge", "restore", "push"}
        /\ w.f = "index" => w.v.unmerged # "merge"
        /\ w.f = "rbOrig" => w.v = <<run.orig>>
  BY DEF MoveNames
<1>10. \A w \in Range(ws) : w.f \notin {"pick", "revert", "merge", "seqHead", "seqTodo"}
  <2>2. RunNames \cap {"pick", "revert", "merge", "seqHead", "seqTodo"} = {} BY DEF RunNames
  <2> QED BY <1>4, <1>8, <1>9, <2>2 DEF LineNames, RebaseFiles
<1>11. \A f \in {"pick", "revert", "merge", "seqHead", "seqTodo"} : Blank(ws, f) BY <1>10 DEF Blank
<1>12. MergeAt(repo, ws, p, o)
  <2>1. repo.merge = None BY NothingPending
  <2> QED BY <1>11, <2>1, MergeBegins
<1>13. UnmergedAt(repo, ws)
  <2>1. UnmergedAt(repo, <<>>) /\ repo.index.unmerged # "merge" BY NothingPending
  <2> QED BY <1>8, <1>9, <1>4, <2>1, UnmergedKept
<1>14. "stale" \notin o => /\ repo.merge = None /\ repo.pick = None /\ repo.revert = None /\ repo.rebase = None
                           /\ repo.seqHead = None /\ repo.seqTodo = None /\ repo.rbOrig = None
  BY <1>2, NothingPending
<1>15. TidyAt(A, p, o)
  <2>1. SUFFICES ASSUME "stale" \notin o PROVE TidyAt(A, p, o) BY DEF TidyAt
  <2>2. \A f \in {"pick", "revert", "merge", "seqHead"} : A[f] = None BY <1>20, <1>14, <2>1
  <2>3. "rbOrig" \in RebaseDir BY DEF RebaseDir
  <2> QED BY <1>3, <1>6, <2>3, <2>2 DEF TidyAt, RunLeaves
<1>16. RebaseAt(repo, ws, p, o)
  <2>1. SUFFICES ASSUME "stale" \notin o PROVE RebaseAt(repo, ws, p, o) BY DEF RebaseAt
  <2>2. (\A f \in {"pick", "revert", "merge", "seqHead", "seqTodo"} : repo[f] = None) /\ repo.rbOrig = None BY <1>14, <2>1
  <2>3. MovesOnce(ws)
    <3>1. \A w \in Range(pre) : w.f # "branch" BY <1>8 DEF RunNames
    <3> QED BY <3>1, RebaseMoves DEF RunOpens
  <2>5. \A w \in Range(ws) : w.f = "rbOrig" => w.v = <<p.start>> BY <1>4, <1>8, <1>9 DEF RunNames
  <2> QED BY <1>3, <2>3, <1>11, <2>2, <2>5 DEF RebaseAt, MovesOnce
<1>17. Safe(repo, ws, Local) /\ Safe(repo, ws, repo.dirty)
  <2>1. Safe(repo, ws, Held(stash))
    <3>1. CASE MoveEnds(run, Upstream, stash, tail)
      <4>1. Saves(tail, Held(stash)) BY <3>1 DEF MoveEnds, Finishing
      <4>2. Saves(ws, Held(stash)) BY <4>1, SavesJoin
      <4> QED BY <1>1, <1>4, <4>2, SafeIs
    <3>2. CASE MoveStops(run, Upstream, tail)
      <4>1. \A x : Late(tail, "rbStash", x) = x BY <3>2 DEF MoveStops
      <4>2. \A f, x : Late(ws, f, x) = Late(tail, f, Late(pre, f, x)) BY Join
      <4>3. Late(pre, "rbStash", repo.rbStash) = stash BY DEF RunOpens
      <4>4. Late(ws, "rbStash", repo.rbStash) = stash BY ONLY <4>1, <4>2, <4>3
      <4> QED BY <1>1, <1>4, SafeIs, <4>4
    <3>3. ~MoveSticks(run, Upstream, tail) BY <1>3 DEF MoveSticks
    <3> QED BY <3>1, <3>2, <3>3
  <2>2. Local \subseteq Held(stash)
    <3>1. CASE Local = {} BY <3>1
    <3>2. CASE Local # {}
      <4>1. stash = <<Local>> BY <3>2 DEF StashKept
      <4> QED BY <4>1, Something DEF Held
    <3> QED BY <3>1, <3>2
  <2>3. repo.dirty \subseteq Local BY DEF Local
  <2> QED BY <2>1, <2>2, <2>3 DEF Safe
<1>18. Lasting \subseteq o /\ p.local \subseteq plan.local \cup Local BY <1>2
<1>19. Leads(ws, p, o) BY <1>4, <1>5, <1>6, <1>12, <1>13, <1>15, <1>16, <1>17, <1>18, Begins
<1> QED BY <1>2, <1>19

LEMMA RebaseRunKeeps ==
  ASSUME Ready, NoPendingOperation, repo.head = None, NEW blocked, NEW outcome \in ApplyOutcomes,
         NEW run, run = [orig |-> Tip, todo |-> OwnCommits(Tip), done |-> <<>>],
         NEW end, end = ReplayFrom(run, Upstream, blocked, StashKept, outcome),
         NEW p, p = [Begun("rebase", PlannedSources, Local) EXCEPT !.dropped = end.dropped]
  PROVE  Leads(CreateAutostash \o WriteAutostash
               \o <<W("orig", <<Tip>>), W("index", Clean(Tree(Upstream))), W("head", <<Upstream>>)>> \o end.ws, p, Lasting)
<1>1. RepoOK(repo) BY DEF Ready
<1>2. run \in LineType /\ run.orig = Tip
  <2>1. PICK h \in Histories : h = Tip BY <1>1, TipIs
  <2>2. OwnCommits(h) \in Seq(CommitType) BY OwnIs
  <2>3. <<>> \in Seq(CommitType) BY EmptySeq
  <2> QED BY <2>1, <2>2, <2>3 DEF LineType
<1>3. PICK stash \in Maybe(SUBSET Locals) : stash = StashKept
  <2>1. repo.rbStash \in Maybe(SUBSET Locals) BY <1>1, FieldsAre, KindsAre DEF RepoOK
  <2>2. Local \in SUBSET Locals BY <1>1, TipIs
  <2>3. <<Local>> \in Maybe(SUBSET Locals) BY <2>2, MaybeIs
  <2> QED BY <2>1, <2>3 DEF StashKept
<1>4. PICK g \in Histories : g = Upstream BY HistoriesAssumption
<1>5. /\ end \in AccType /\ MoveNames(run, end.ws)
      /\ MoveStops(run, g, end.ws) \/ MoveEnds(run, g, stash, end.ws) \/ MoveSticks(run, g, end.ws)
  <2>1. PICK r \in LineType : r = run BY <1>2
  <2>2. end = ReplayFrom(r, g, blocked, stash, outcome) BY <1>3, <1>4, <2>1
  <2> QED BY <2>2, Moves, <2>1
<1>6. PICK tail \in Seq(WriteType) : tail = end.ws BY <1>5, AccIs
<1>7. MoveNames(run, tail) /\ (MoveStops(run, Upstream, tail) \/ MoveEnds(run, Upstream, stash, tail) \/ MoveSticks(run, Upstream, tail))
  BY <1>4, <1>5, <1>6
<1>8. PICK a : a = CreateAutostash \o WriteAutostash OBVIOUS
<1>9. PICK l : l = <<W("orig", <<Tip>>), W("index", Clean(Tree(Upstream))), W("head", <<Upstream>>)>> OBVIOUS
<1>10. PICK pre : pre = a \o l OBVIOUS
<1>11. pre \in Seq(WriteType) /\ RunOpens(pre) BY ONLY <1>1, <1>8, <1>9, <1>10, RunPre
<1>12. PICK ws : ws = pre \o tail OBVIOUS
<1>13. p \in PlanType /\ p.kind = "rebase" /\ p.start = Tip /\ p.local = plan.local \cup Local
  <2>1. PICK edits \in SUBSET Locals : edits = Local BY <1>1, TipIs
  <2>2. PICK d \in SUBSET Int : d = end.dropped BY <1>5, AccIs
  <2>3. PICK todo \in Seq(Names) : todo = PlannedSources
    <3>1. PICK h \in Histories : h = Tip BY <1>1, TipIs
    <3>2. PICK L \in Seq(CommitType) : L = OwnCommits(Tip) BY <3>1, OwnIs
    <3>3. \A i \in 1 .. Len(L) : L[i].src \in Names
      <4>1. \A i \in 1 .. Len(L) : L[i] \in CommitType BY ElementOfSeq
      <4> QED BY <4>1 DEF CommitType, Names
    <3>5. Len(L) \in Nat BY LenProperties
    <3>6. [i \in 1 .. Len(L) |-> L[i].src] \in Seq(Names) BY <3>3, <3>5
    <3> QED BY <3>2, <3>6 DEF PlannedSources
  <2>4. BegunAs(p, "rebase", todo, edits) BY <2>1, <2>2, <2>3 DEF BegunAs
  <2>5. PlanIs(p, "rebase", todo, edits) BY <2>4, BegunIs
  <2> QED BY <2>1, <2>5 DEF PlanIs
<1>14. Leads(ws, p, Lasting)
  <2>1. Ready /\ NoPendingOperation /\ repo.head = None OBVIOUS
  <2> QED BY ONLY <1>2, <1>3, <1>7, <1>11, <1>12, <1>13, <2>1, tail \in Seq(WriteType), RebaseBegins
<1> QED BY <1>6, <1>8, <1>9, <1>10, <1>12, <1>14

\* The writes that put HEAD and the index back, and those that end the rebase.
Restores(a, t) ==
  /\ \A w \in Range(a) : w.f \in {"dirty", "index", "head"} /\ (w.f = "index" => w.v.unmerged = "no")
  /\ \E w \in Range(a) : w.f = "index"
  /\ \A f, x : Late(a, f, x) = IF f = "head" THEN None ELSE IF f = "index" THEN Clean(t) ELSE IF f = "dirty" THEN {} ELSE x
LEMMA RestoresIs ==
  ASSUME NEW t \in SUBSET Patches, NEW a, a = <<W("dirty", {}), W("index", Clean(t)), W("head", None)>>
  PROVE  a \in Seq(WriteType) /\ Restores(a, t)
<1>1. PICK u \in WriteType : u = W("dirty", {}) /\ u.f = "dirty"
  <2>1. {} \in Kind("dirty") BY KindsAre
  <2> QED BY <2>1, WriteIs, FieldsAre
<1>2. PICK v \in WriteType : v = W("index", Clean(t)) /\ v.f = "index" /\ v.v.unmerged = "no"
  <2>1. PICK i \in IndexType : i = Clean(t) /\ i.unmerged = "no" BY CleanIs
  <2> QED BY <2>1, IndexWrite
<1>3. PICK w \in WriteType : w = W("head", None) /\ w.f = "head" BY Removal
<1>4. a = <<u, v, w>> BY <1>1, <1>2, <1>3
<1>5. a \in Seq(WriteType) /\ Range(a) = {u, v, w} /\ \A f, x : Late(a, f, x) = Put(w, f, Put(v, f, Put(u, f, x))) BY <1>4, Three
<1>6. \A f, x : Late(a, f, x) = Put(w, f, Put(v, f, Put(u, f, x))) BY <1>5
<1>7. \A f, x : Put(u, f, x) = IF f = "dirty" THEN {} ELSE x BY ONLY <1>1, PutIs
<1>8. \A f, x : Put(v, f, x) = IF f = "index" THEN Clean(t) ELSE x BY ONLY <1>2, PutIs
<1>9. \A f, x : Put(w, f, x) = IF f = "head" THEN None ELSE x BY ONLY <1>3, PutIs
<1>10. \A f, x : Late(a, f, x) = IF f = "head" THEN None ELSE IF f = "index" THEN Clean(t) ELSE IF f = "dirty" THEN {} ELSE x
  BY ONLY <1>6, <1>7, <1>8, <1>9
<1>12. \E x \in Range(a) : x.f = "index" BY <1>2, <1>5
<1> QED BY <1>1, <1>2, <1>3, <1>5, <1>10, <1>12 DEF Restores

EndsRebase(e, stash, t) ==
  /\ \A w \in Range(e) : w.f \in {"rebase-merge", "rebase", "restore", "push", "index"} /\ (w.f = "index" => w.v.unmerged = "stash")
  /\ Saves(e, Held(stash))
  /\ \A f \in Fields \ {"index"} : \A x : Late(e, f, x) = IF f \in RebaseDir \cup {"rebase"} THEN None ELSE x
  /\ \A x : Late(e, "index", x) \in {x, Unmerged(t, t, "stash")}
LEMMA EndsRebaseIs ==
  ASSUME NEW stash \in Maybe(SUBSET Locals), NEW outcome \in ApplyOutcomes, NEW t \in SUBSET Patches,
         NEW c, c = <<W("rebase-merge", None), W("rebase", None)>>, NEW d, d = IF stash = None THEN <<>> ELSE ApplyAutostash(stash[1], outcome, t)
  PROVE  c \in Seq(WriteType) /\ d \in Seq(WriteType) /\ c \o d \in Seq(WriteType) /\ EndsRebase(c \o d, stash, t)
<1>1. PICK u \in WriteType : u = W("rebase-merge", None) /\ u.f = "rebase-merge" BY Removal
<1>2. PICK v \in WriteType : v = W("rebase", None) /\ v.f = "rebase" BY Removal
<1>3. c = <<u, v>> BY <1>1, <1>2
<1>4. c \in Seq(WriteType) /\ Range(c) = {u, v} /\ \A f, x : Late(c, f, x) = Put(v, f, Put(u, f, x)) BY <1>3, Two
<1>5. \A f, x : Late(c, f, x) = Put(v, f, Put(u, f, x)) BY <1>4
<1>6. \A f, x : Put(u, f, x) = IF f \in RebaseDir THEN None ELSE x BY ONLY <1>1, PutIs
<1>7. \A f, x : Put(v, f, x) = IF f = "rebase" THEN None ELSE x BY ONLY <1>2, PutIs
<1>8. \A f, x : Late(c, f, x) = IF f \in RebaseDir \cup {"rebase"} THEN None ELSE x BY ONLY <1>5, <1>6, <1>7
<1>9. /\ d \in Seq(WriteType) /\ Saves(d, Held(stash))
      /\ \A w \in Range(d) : w.f \in {"restore", "push", "index"} /\ (w.f = "index" => w.v.unmerged = "stash")
      /\ \A f \in Fields : \A x : f # "index" => Late(d, f, x) = x
      /\ \A x : Late(d, "index", x) \in {x, Unmerged(t, t, "stash")}
  <2>1. CASE stash = None
    <3>1. d = <<>> /\ Held(stash) = {} BY <2>1 DEF Held
    <3> QED BY <3>1, NoneIs, SavesNothing
  <2>2. CASE stash # None
    <3>1. PICK edits \in SUBSET Locals : edits = stash[1] /\ Held(stash) = edits BY <2>2, MaybeIs DEF Held
    <3>2. d = ApplyAutostash(edits, outcome, t) BY <2>2, <3>1
    <3>3. d \in Seq(WriteType) /\ Saves(d, edits) /\ Range(d) \subseteq {W("restore", edits), W("push", edits), W("index", Unmerged(t, t, "stash"))} BY <3>2, ApplyIs
    <3>4. \A f \in Fields : \A x : f # "index" => Late(d, f, x) = x BY ONLY <3>2, ApplyIs, ZenonT(60)
    <3>5. \A x : Late(d, "index", x) \in {x, Unmerged(t, t, "stash")} BY ONLY <3>2, ApplyIs
    <3>6. Range(d) \subseteq {W("restore", edits), W("push", edits), W("index", Unmerged(t, t, "stash"))} BY <3>3
    <3>7. \A w \in Range(d) : w.f \in {"restore", "push", "index"} /\ (w.f = "index" => w.v.unmerged = "stash") BY ONLY <3>6 DEF W, Unmerged
    <3> QED BY <3>1, <3>3, <3>4, <3>5, <3>7
  <2> QED BY <2>1, <2>2
<1>10. PICK e \in Seq(WriteType) : e = c \o d /\ Range(e) = Range(c) \cup Range(d) /\ \A f, x : Late(e, f, x) = Late(d, f, Late(c, f, x)) BY <1>4, <1>9, Join, ZenonT(60)
<1>11. \A f, x : Late(e, f, x) = Late(d, f, Late(c, f, x)) BY <1>10
<1>12. \A f \in Fields : \A x : f # "index" => Late(d, f, x) = x BY <1>9
<1>13. \A f \in Fields \ {"index"} : \A x : Late(e, f, x) = IF f \in RebaseDir \cup {"rebase"} THEN None ELSE x BY ONLY <1>8, <1>11, <1>12
<1>14. \A x : Late(e, "index", x) \in {x, Unmerged(t, t, "stash")}
  <2>1. "index" \notin RebaseDir \cup {"rebase"} BY DEF RebaseDir
  <2>2. \A x : Late(d, "index", x) \in {x, Unmerged(t, t, "stash")} BY <1>9
  <2> QED BY ONLY <1>8, <1>11, <2>1, <2>2
<1>15. Saves(e, Held(stash)) BY <1>4, <1>9, <1>10, SavesJoin
<1>16. \A w \in Range(e) : w.f \in {"rebase-merge", "rebase", "restore", "push", "index"} /\ (w.f = "index" => w.v.unmerged = "stash")
  <2>1. \A w \in Range(c) : w.f \in {"rebase-merge", "rebase"} BY <1>1, <1>2, <1>4
  <2> QED BY <1>9, <1>10, <2>1
<1>17. EndsRebase(e, stash, t) BY <1>13, <1>14, <1>15, <1>16 DEF EndsRebase
<1> QED BY <1>4, <1>9, <1>10, <1>17

LEMMA RebaseEnds ==
  ASSUME Ready, RebaseReadable, NEW t, t = Tree(repo.rbOrig[1]), NEW a \in Seq(WriteType), Restores(a, t),
         NEW b \in Seq(WriteType), Sweeps(b), NEW e \in Seq(WriteType), EndsRebase(e, repo.rbStash, t), NEW ws, ws = a \o (b \o e),
         NEW p, p = [Discarding(repo.dirty) EXCEPT !.kind = "aborted"]
  PROVE  Leads(ws, p, odd)
<1>1. RepoOK(repo) /\ plan \in PlanType /\ odd \in SUBSET Oddities BY DEF Ready
<1>2. p \in PlanType /\ p.kind = "aborted" /\ p.start = plan.start /\ p.local = plan.local \ repo.dirty BY <1>1 DEF Discarding, Closed, PlanType
<1>3. PICK d \in Seq(WriteType) : d = b \o e /\ Range(d) = Range(b) \cup Range(e) /\ \A f, x : Late(d, f, x) = Late(e, f, Late(b, f, x)) BY Join
<1>4. ws \in Seq(WriteType) /\ Range(ws) = Range(a) \cup Range(d) /\ \A f, x : Late(ws, f, x) = Late(d, f, Late(a, f, x))
  <2>1. ws = a \o d BY <1>3
  <2> QED BY ONLY <2>1, Join
<1>5. PICK A : A = Then(repo, ws) OBVIOUS
<1>6. \A f \in Fields : A[f] = Late(e, f, Late(b, f, Late(a, f, repo[f])))
  <2>1. \A f \in Fields : A[f] = Late(ws, f, repo[f]) BY <1>5, ThenIs
  <2>2. \A f, x : Late(d, f, x) = Late(e, f, Late(b, f, x)) BY <1>3
  <2>3. \A f, x : Late(ws, f, x) = Late(d, f, Late(a, f, x)) BY <1>4
  <2> QED BY ONLY <2>1, <2>2, <2>3
<1>7. \A f, x : f \notin {"head", "index", "dirty"} => Late(a, f, x) = x BY DEF Restores
<1>8. \A f \in Fields \ {"index"} : \A x : Late(e, f, x) = IF f \in RebaseDir \cup {"rebase"} THEN None ELSE x BY DEF EndsRebase
<1>9. \A f \in Fields \ {"index", "head", "dirty"} : A[f] = IF f \in RebaseDir \cup {"rebase"} THEN None ELSE Late(b, f, repo[f])
  BY ONLY <1>6, <1>7, <1>8
<1>10. \A f \in RebaseDir \cup {"rebase"} : A[f] = None
  <2> QED BY FieldsAre, <1>9 DEF RebaseDir
<1>11. \A f \in SequencerDir \cup SweptFiles : A[f] = Late(b, f, repo[f])
  <2>2. (SequencerDir \cup SweptFiles) \cap (RebaseDir \cup {"rebase"}) = {} BY DEF SequencerDir, SweptFiles, RebaseDir
  <2> QED BY FieldsAre, <1>9, <2>2 DEF SequencerDir, SweptFiles
<1>12. \A f \in SweptFiles : A[f] = None
  <2> QED BY <1>11 DEF Sweeps
<1>13. (\A f \in SequencerDir : A[f] = repo[f]) \/ (\A f \in SequencerDir : A[f] = None)
  <2> QED BY <1>11 DEF Sweeps
<1>14. A.branch = repo.branch /\ A.head = None /\ A.index \in {Clean(t), Unmerged(t, t, "stash")}
  <2>1. {"branch", "head", "index"} \subseteq Fields \ (SweptFiles \cup SequencerDir) /\ {"branch", "head"} \cap (RebaseDir \cup {"rebase"}) = {}
    BY FieldsAre DEF SweptFiles, SequencerDir, RebaseDir
  <2>2. \A f \in {"branch", "head", "index"} : \A x : Late(b, f, x) = x BY <2>1 DEF Sweeps
  <2>3. \A f, x : Late(a, f, x) = IF f = "head" THEN None ELSE IF f = "index" THEN Clean(t) ELSE IF f = "dirty" THEN {} ELSE x BY DEF Restores
  <2>8. A.branch = Late(e, "branch", Late(b, "branch", Late(a, "branch", repo.branch))) /\ A.head = Late(e, "head", Late(b, "head", Late(a, "head", repo.head)))
    BY <1>6, <2>1
  <2>9. \A f \in {"branch", "head"} : \A x : Late(e, f, x) = x BY <1>8, <2>1
  <2>5. A.branch = repo.branch BY ONLY <2>2, <2>3, <2>8, <2>9
  <2>6. A.head = None BY ONLY <2>2, <2>3, <2>8, <2>9
  <2>7. A.index \in {Clean(t), Unmerged(t, t, "stash")} BY <1>6, <2>1, <2>2, <2>3 DEF EndsRebase
  <2> QED BY <2>5, <2>6, <2>7
<1>15. SeqKept(A) /\ RebaseKept(A) BY <1>10, <1>13 DEF SeqKept, RebaseKept, RebasePart, RebaseDir
<1>16. StashedAt(A, odd) BY <1>10, <1>12 DEF StashedAt, SweptFiles, RebaseDir
<1>17. \A w \in Range(a) : w.f \in {"dirty", "index", "head"} /\ (w.f = "index" => w.v.unmerged = "no") BY DEF Restores
<1>18. \A w \in Range(d) : /\ w.f \notin {"dirty", "orig", "seqHead", "seqTodo"} /\ (w.f \in {"merge", "pick", "revert"} => w.v = None)
                           /\ w.f = "index" => w.v.unmerged = "stash"
  <2>1. \A w \in Range(b) : w.f \in SweptFiles \cup {"sequencer", "push"} /\ (w.f # "push" => w.v = None) BY DEF Sweeps
  <2> QED BY <1>3, <2>1 DEF SweptFiles, EndsRebase
<1>19. MergeAt(repo, ws, p, odd)
  <2>1. MergeAt(repo, <<>>, plan, odd) BY AtRest DEF Ready
  <2>2. \A f \in {"merge", "pick", "revert", "seqHead", "seqTodo"} : Blank(ws, f) BY <1>4, <1>17, <1>18 DEF Blank
  <2>3. \A w \in Range(ws) : w.f # "orig" BY <1>4, <1>17, <1>18
  <2> QED BY <1>2, <2>1, <2>2, <2>3, MergeGoesOn
<1>20. UnmergedAt(repo, ws)
  <2>1. UnmergedAt(repo, <<>>) BY AtRest DEF Ready
  <2>2. \A w \in Range(a) \cup Range(d) : w.f = "index" => w.v.unmerged # "merge" BY <1>17, <1>18
  <2>3. W("merge", None) \notin Range(a)
    <3>1. W("merge", None).f = "merge" BY DEF W
    <3> QED BY <1>17, <3>1
  <2>4. \E w \in Range(a) : w.f = "index" BY DEF Restores
  <2> QED BY <1>3, <2>1, <2>2, <2>3, <2>4, UnmergedAfter
<1>21. RebaseAt(repo, ws, p, odd) BY <1>2, RebaseOther
<1>22. Safe(repo, ws, Held(repo.mergeStash)) /\ Safe(repo, ws, Held(repo.rbStash))
  <2>1. \A w \in Range(e) : w.f # "dirty" BY DEF EndsRebase
  <2>2. Saves(b, Held(repo.mergeStash)) /\ Saves(e, Held(repo.rbStash)) BY DEF Sweeps, EndsRebase
  <2>4. Saves(ws, Held(repo.mergeStash)) /\ Saves(ws, Held(repo.rbStash)) BY <2>1, <2>2, <1>3, SavesJoin
  <2> QED BY <1>1, <1>4, <2>4, SafeIs
<1>23. TidyAt(A, p, odd)
  <2>1. SUFFICES ASSUME odd \cap {"crash", "stale", "crossed", "reset", "refused"} = {} PROVE Restored(A, p) BY <1>2 DEF TidyAt
  <2>2. TidyAt(repo, plan, odd) /\ WholeAt(repo, odd) BY AtRest DEF Ready
  <2>3. plan.kind = "rebase" BY <2>1, OnDiskIs
  <2>4. repo.rbOrig # None BY DEF RebaseReadable
  <2>5. repo.seqHead = None /\ repo.rbOrig = <<plan.start>> /\ repo.branch = plan.start BY <2>1, <2>2, <2>3, <2>4 DEF TidyAt
  <2>6. t = Tree(p.start)
    <3>1. <<plan.start>>[1] = plan.start OBVIOUS
    <3> QED BY <1>2, <2>5, <3>1
  <2>7. \A f \in SequencerDir : repo[f] = None BY <2>1, <2>2, <2>5 DEF WholeAt, SequencerDir
  <2>8. \A f \in SequencerDir : A[f] = None BY <1>13, <2>7
  <2>9. \A f \in StateFiles : A[f] = None
    <3> QED BY <1>10, <1>12, <2>8 DEF StateFiles, SweptFiles, SequencerDir, RebaseDir
  <2> QED BY <1>2, <1>14, <2>5, <2>6, <2>9 DEF Restored, Clean, Unmerged
<1>24. p.local \subseteq plan.local \cup {} /\ p.local \cap repo.dirty = {} /\ Safe(repo, ws, {}) BY <1>2, SafeNothing
<1> QED BY <1>1, <1>2, <1>4, <1>5, <1>15, <1>16, <1>19, <1>20, <1>21, <1>22, <1>23, <1>24, Assembled

LEMMA RebaseAbortKeeps ==
  ASSUME Ready, RebaseReadable, NEW outcome \in ApplyOutcomes, NEW t, t = Tree(repo.rbOrig[1])
  PROVE  Leads(<<W("dirty", {}), W("index", Clean(t)), W("head", None)>> \o RemoveBranchState(repo.mergeStash)
               \o <<W("rebase-merge", None), W("rebase", None)>>
               \o (IF repo.rbStash = None THEN <<>> ELSE ApplyAutostash(repo.rbStash[1], outcome, t)),
               [Discarding(repo.dirty) EXCEPT !.kind = "aborted"], odd)
<1>1. RepoOK(repo) BY DEF Ready
<1>2. PICK s \in SUBSET Patches : s = t
  <2>1. PICK run \in LineType : repo.rbOrig = <<run.orig>> BY OnDiskIs
  <2>2. run.orig \in Histories /\ repo.rbOrig[1] = run.orig BY <2>1 DEF LineType
  <2>3. Tree(run.orig) \in SUBSET Patches BY <2>2, HistoryIs
  <2> QED BY <2>2, <2>3
<1>3. PICK a : a = <<W("dirty", {}), W("index", Clean(s)), W("head", None)>> OBVIOUS
<1>4. a \in Seq(WriteType) /\ Restores(a, s) BY <1>3, RestoresIs
<1>5. PICK b : b = RemoveBranchState(repo.mergeStash) OBVIOUS
<1>6. b \in Seq(WriteType) /\ Sweeps(b)
  <2> QED BY FieldsAre, KindsAre, <1>1, <1>5, Swept DEF RepoOK
<1>7. PICK stash \in Maybe(SUBSET Locals) : stash = repo.rbStash BY OnDiskIs
<1>8. PICK c : c = <<W("rebase-merge", None), W("rebase", None)>> OBVIOUS
<1>9. PICK d : d = IF stash = None THEN <<>> ELSE ApplyAutostash(stash[1], outcome, s) OBVIOUS
<1>10. c \in Seq(WriteType) /\ d \in Seq(WriteType) /\ c \o d \in Seq(WriteType) /\ EndsRebase(c \o d, stash, s) BY <1>8, <1>9, EndsRebaseIs
<1>11. PICK e \in Seq(WriteType) : e = c \o d /\ EndsRebase(e, repo.rbStash, s) BY <1>7, <1>10
<1>12. PICK ws : ws = a \o (b \o e) OBVIOUS
<1>13. PICK p : p = [Discarding(repo.dirty) EXCEPT !.kind = "aborted"] OBVIOUS
<1>14. Leads(ws, p, odd) BY <1>2, <1>4, <1>6, <1>11, <1>12, <1>13, RebaseEnds
<1>15. a \o b \o c \o d = ws
  <2>1. PICK u \in Seq(WriteType) : u = a BY <1>4
  <2>2. PICK v \in Seq(WriteType) : v = b BY <1>6
  <2>3. PICK w \in Seq(WriteType) : w = c BY <1>10
  <2>4. PICK x \in Seq(WriteType) : x = d BY <1>10
  <2>5. PICK y \in Seq(WriteType) : y = u \o v BY Join
  <2>6. (y \o w) \o x = y \o (w \o x) BY Regrouped, ZenonT(60)
  <2>7. (u \o v) \o e = u \o (v \o e) BY Regrouped, ZenonT(60)
  <2> QED BY <1>11, <1>12, <2>1, <2>2, <2>3, <2>4, <2>5, <2>6, <2>7
<1> QED BY <1>2, <1>3, <1>5, <1>7, <1>8, <1>9, <1>13, <1>14, <1>15

------------------------------
(* commit and reset. *)

ResetNames == {"dirty", "index", "orig", "branch", "head"}
Rewinds(a) ==
  /\ \A w \in Range(a) : w.f \in ResetNames /\ (w.f = "index" => w.v.unmerged = "no")
  /\ \E w \in Range(a) : w.f = "index"
  /\ \A f \in Fields \ ResetNames : \A x : Late(a, f, x) = x
LEMMA RewindsIs ==
  ASSUME RepoOK(repo), NEW h \in Histories, NEW a, a = <<W("dirty", {}), W("index", Clean(Tree(h))), W("orig", <<Tip>>), MoveHead(h)>>
  PROVE  a \in Seq(WriteType) /\ Rewinds(a)
<1>1. PICK u \in WriteType : u = W("dirty", {}) /\ u.f = "dirty"
  <2>1. {} \in Kind("dirty") BY KindsAre
  <2> QED BY <2>1, WriteIs, FieldsAre
<1>2. PICK v \in WriteType : v = W("index", Clean(Tree(h))) /\ v.f = "index" /\ v.v.unmerged = "no"
  <2>1. Tree(h) \in SUBSET Patches BY HistoryIs
  <2>2. PICK i \in IndexType : i = Clean(Tree(h)) /\ i.unmerged = "no" BY <2>1, CleanIs
  <2> QED BY <2>2, IndexWrite
<1>3. PICK w \in WriteType : w = W("orig", <<Tip>>) /\ w.f = "orig"
  <2>1. <<Tip>> \in Maybe(Histories) BY TipIs
  <2> QED BY <2>1, WriteIs, KindsAre, FieldsAre DEF HistoryFiles
<1>4. PICK y \in WriteType : y = MoveHead(h) /\ y.f \in {"branch", "head"}
  <2>2. \A f, x : W(f, x).f = f BY DEF W
  <2> QED BY MoveHeadIs, <2>2
<1>5. a = <<u, v, w, y>> BY <1>1, <1>2, <1>3, <1>4
<1>6. a \in Seq(WriteType) /\ Range(a) = {u, v, w, y} BY <1>5, Four
<1>7. \A x \in Range(a) : x.f \in ResetNames /\ (x.f = "index" => x.v.unmerged = "no") BY <1>1, <1>2, <1>3, <1>4, <1>6 DEF ResetNames
<1>8. ASSUME NEW f \in Fields \ ResetNames PROVE \A x : Late(a, f, x) = x
  <2>1. \A x \in Range(a) : ~Touches(x, f)
    <3>1. \A x \in Range(a) : Files(x.f) = {x.f}
      <4>1. \A x \in Range(a) : x.f \notin {"sequencer", "rebase-merge"} BY <1>7 DEF ResetNames
      <4> QED BY ONLY <4>1, FilesAre
    <3> QED BY <1>7, <1>8, <3>1 DEF Touches
  <2> QED BY ONLY <1>6, <2>1, Unnamed
<1>9. \E x \in Range(a) : x.f = "index" BY <1>2, <1>6
<1> QED BY <1>6, <1>7, <1>8, <1>9 DEF Rewinds

LEMMA ResetGoes ==
  ASSUME Ready, NEW a \in Seq(WriteType), Rewinds(a), NEW b \in Seq(WriteType), Sweeps(b), NEW ws, ws = a \o b,
         NEW p, p = Discarding(repo.dirty)
  PROVE  Leads(ws, p, odd \cup {"reset"})
<1>1. RepoOK(repo) /\ plan \in PlanType /\ odd \in SUBSET Oddities BY DEF Ready
<1>2. PICK o \in SUBSET Oddities : o = odd \cup {"reset"} BY <1>1 DEF Oddities
<1>3. p \in PlanType /\ p.local = plan.local \ repo.dirty BY <1>1 DEF Discarding, Closed, PlanType
<1>4. ws \in Seq(WriteType) /\ Range(ws) = Range(a) \cup Range(b) BY Join
<1>5. \A f, x : Late(ws, f, x) = Late(b, f, Late(a, f, x)) BY Join
<1>6. PICK A : A = Then(repo, ws) OBVIOUS
<1>7. \A f \in Fields \ ResetNames : A[f] = Late(b, f, repo[f])
  <2>1. \A f \in Fields : A[f] = Late(ws, f, repo[f]) BY <1>6, ThenIs
  <2>2. \A f \in Fields \ ResetNames : \A x : Late(a, f, x) = x BY DEF Rewinds
  <2> QED BY ONLY <1>5, <2>1, <2>2
<1>8. SeqKept(A)
  <2>1. SequencerDir \subseteq Fields \ ResetNames BY FieldsAre DEF SequencerDir, ResetNames
  <2> QED BY <1>7, <2>1 DEF SeqKept, Sweeps
<1>9. \A f \in {"rebase", "rbStash"} \cup RebasePart : A[f] = repo[f]
  <2>1. {"rebase", "rbStash"} \cup RebasePart \subseteq Fields \ ResetNames BY FieldsAre DEF ResetNames, RebasePart
  <2>2. {"rebase", "rbStash"} \cup RebasePart \subseteq Fields \ (SweptFiles \cup SequencerDir) BY FieldsAre DEF SweptFiles, SequencerDir, RebasePart
  <2>3. \A f \in Fields \ (SweptFiles \cup SequencerDir) : \A x : Late(b, f, x) = x BY DEF Sweeps
  <2> QED BY <1>7, <2>1, <2>2, <2>3
<1>10. A.mergeStash = None
  <2>1. "mergeStash" \in SweptFiles /\ "mergeStash" \in Fields \ ResetNames BY FieldsAre DEF SweptFiles, ResetNames
  <2> QED BY <1>7, <2>1 DEF Sweeps
<1>11. RebaseKept(A) /\ StashedAt(A, o)
  <2>1. StashedAt(repo, odd) BY AtRest DEF Ready
  <2>2. MergeStashKept(A) /\ RebaseStashKept(A) BY <1>9, <1>10 DEF MergeStashKept, RebaseStashKept
  <2>3. odd \cap {"crash", "refused"} \subseteq o BY <1>2
  <2>4. RebaseKept(A) BY <1>9 DEF RebaseKept
  <2> QED BY <2>1, <2>2, <2>3, <2>4, StashedKept
<1>12. MergeAt(repo, ws, p, o) /\ RebaseAt(repo, ws, p, o) /\ TidyAt(A, p, o) BY <1>2 DEF MergeAt, RebaseAt, TidyAt
<1>13. \A w \in Range(a) : w.f \in ResetNames /\ (w.f = "index" => w.v.unmerged = "no") BY DEF Rewinds
<1>14. UnmergedAt(repo, ws)
  <2>1. UnmergedAt(repo, <<>>) BY AtRest DEF Ready
  <2>2. \A w \in Range(b) : w.f # "index" BY DEF Sweeps, SweptFiles
  <2>4. W("merge", None) \notin Range(a)
    <3>1. W("merge", None).f = "merge" BY DEF W
    <3> QED BY <1>13, <3>1 DEF ResetNames
  <2>5. \E w \in Range(a) : w.f = "index" BY DEF Rewinds
  <2> QED BY <1>13, <2>2, <2>1, <2>4, <2>5, UnmergedAfter
<1>15. Safe(repo, ws, Held(repo.mergeStash)) /\ Safe(repo, ws, Held(repo.rbStash))
  <2>1. Saves(b, Held(repo.mergeStash)) BY DEF Sweeps
  <2>2. Saves(ws, Held(repo.mergeStash)) BY <2>1, SavesJoin
  <2>3. A.rbStash = Late(ws, "rbStash", repo.rbStash) BY <1>6, ThenIs, FieldsAre
  <2> QED BY <1>9, <2>3, <1>1, <1>4, <2>2, SafeIs
<1>16. /\ p.local \subseteq plan.local \cup {} /\ p.local \cap repo.dirty = {} /\ Safe(repo, ws, {}) /\ odd \cap {"crash", "refused"} \subseteq o
  BY <1>2, <1>3, SafeNothing
<1>17. Leads(ws, p, o) BY <1>3, <1>4, <1>6, <1>8, <1>11, <1>12, <1>14, <1>15, <1>16, Assembled
<1> QED BY <1>2, <1>17

LEMMA ResetKeeps ==
  ASSUME Ready, NEW n \in {1, Len(Tip)}, NEW h, h = SubSeq(Tip, 1, n)
  PROVE  Leads(<<W("dirty", {}), W("index", Clean(Tree(h))), W("orig", <<Tip>>), MoveHead(h)>> \o RemoveBranchState(repo.mergeStash),
               Discarding(repo.dirty), odd \cup {"reset"})
<1>1. RepoOK(repo) BY DEF Ready
<1>2. h \in Histories
  <2>1. PICK g \in Histories : g = Tip BY <1>1, TipIs
  <2>2. g \in Seq(CommitType) /\ Len(g) \in Nat /\ Len(g) >= 1 BY HistoryIs
  <2>3. PICK k \in Nat : k = n /\ k >= 1 /\ k <= Len(g) BY <2>1, <2>2
  <2>4. PICK l \in Int : l = 1 OBVIOUS
  <2>5. \A i \in l .. k : g[i] \in CommitType
    <3>1. \A i \in l .. k : i \in 1 .. Len(g) BY <2>2, <2>3, <2>4
    <3> QED BY <2>2, ElementOfSeq, <3>1
  <2>6. PICK s : s = SubSeq(g, l, k) OBVIOUS
  <2>7. s \in Seq(CommitType) /\ Len(s) = IF l <= k THEN k - l + 1 ELSE 0
    <3>1. k \in Int OBVIOUS
    <3> QED BY <2>5, <2>6, <3>1, SubSeqProperties
  <2>8. Len(s) >= 1 BY <2>3, <2>4, <2>7
  <2>9. s # <<>> BY <2>8
  <2> QED BY <2>1, <2>3, <2>4, <2>6, <2>7, <2>9 DEF Histories
<1>3. PICK a : a = <<W("dirty", {}), W("index", Clean(Tree(h))), W("orig", <<Tip>>), MoveHead(h)>> OBVIOUS
<1>4. PICK b : b = RemoveBranchState(repo.mergeStash) OBVIOUS
<1>5. a \in Seq(WriteType) /\ Rewinds(a) BY ONLY <1>1, <1>2, <1>3, RewindsIs
<1>6. b \in Seq(WriteType) /\ Sweeps(b)
  <2> QED BY FieldsAre, KindsAre, <1>1, <1>4, Swept DEF RepoOK
<1>7. PICK ws : ws = a \o b OBVIOUS
<1>8. PICK p : p = Discarding(repo.dirty) OBVIOUS
<1>9. Leads(ws, p, odd \cup {"reset"}) BY <1>5, <1>6, <1>7, <1>8, ResetGoes
<1> QED BY <1>3, <1>4, <1>7, <1>8, <1>9

\* The writes that bring a merge's autostash back.
Unstashes(d, held, t) ==
  /\ Range(d) \subseteq {W("mergeStash", None), W("restore", held[1]), W("push", held[1]), W("index", Unmerged(t, t, "stash"))}
  /\ Saves(d, Held(held))
  /\ \A f \in Fields : \A x : f # "index" => Late(d, f, x) = IF f = "mergeStash" /\ held # None THEN None ELSE x
  /\ \A x : Late(d, "index", x) \in {x, Unmerged(t, t, "stash")}
LEMMA UnstashesIs ==
  ASSUME NEW held \in Maybe(SUBSET Locals), NEW outcome \in ApplyOutcomes, NEW t \in SUBSET Patches,
         NEW d, d = ApplyMergeAutostash(held, outcome, t)
  PROVE  d \in Seq(WriteType) /\ Unstashes(d, held, t) /\ (held = None => d = <<>>)
<1>1. /\ ApplyMergeAutostash(held, outcome, t) \in Seq(WriteType)
      /\ Range(ApplyMergeAutostash(held, outcome, t)) \subseteq
           {W("mergeStash", None), W("restore", held[1]), W("push", held[1]), W("index", Unmerged(t, t, "stash"))}
      /\ held = None => ApplyMergeAutostash(held, outcome, t) = <<>>
      /\ Saves(ApplyMergeAutostash(held, outcome, t), Held(held))
      /\ \A f \in Fields : \A x : f # "index" =>
           Late(ApplyMergeAutostash(held, outcome, t), f, x) = IF f = "mergeStash" /\ held # None THEN None ELSE x
      /\ \A x : Late(ApplyMergeAutostash(held, outcome, t), "index", x) \in {x, Unmerged(t, t, "stash")}
  BY ONLY ApplyMergeIs
<1>2. Unstashes(ApplyMergeAutostash(held, outcome, t), held, t) BY ONLY <1>1 DEF Unstashes
<1> QED BY <1>1, <1>2

\* What a commit removes, and the edits it brings back.
Concludes(b) ==
  /\ \A w \in Range(b) : /\ w.f \in {"pick", "revert", "sequencer", "merge", "message", "mergeStash", "restore", "push", "index"}
                         /\ w.f = "index" => w.v.unmerged = "stash"
                         /\ w.f \in {"pick", "revert", "merge"} => w.v = None
  /\ Saves(b, Held(repo.mergeStash))
  /\ \A f \in {"pick", "revert", "merge", "mergeStash"} : Late(b, f, repo[f]) = None
  /\ \/ \A f \in SequencerDir : Late(b, f, repo[f]) = repo[f]
     \/ \A f \in SequencerDir : Late(b, f, repo[f]) = None
  /\ \A f \in Fields \ ({"pick", "revert", "merge", "message", "mergeStash", "index"} \cup SequencerDir) : \A x : Late(b, f, x) = x
LEMMA ConcludesIs ==
  ASSUME RepoOK(repo), NEW outcome \in ApplyOutcomes, NEW t \in SUBSET Patches,
         NEW c, c = RemoveCommittedState, NEW d, d = ApplyMergeAutostash(repo.mergeStash, outcome, t)
  PROVE  c \in Seq(WriteType) /\ d \in Seq(WriteType) /\ c \o d \in Seq(WriteType) /\ Concludes(c \o d)
<1>1. c \in Seq(WriteType) /\ Range(c) \subseteq {W(f, None) : f \in {"pick", "revert", "sequencer", "merge", "message"}} BY RemoveCommittedIs
<1>2. \A f, x : Late(c, f, x) = IF \/ f \in {"pick", "revert", "merge", "message"} /\ repo[f] # None
                                   \/ f \in SequencerDir /\ CleanupErases
                                THEN None ELSE x
  BY RemoveCommittedIs
<1>3. PICK held \in Maybe(SUBSET Locals) : held = repo.mergeStash BY FieldsAre, KindsAre DEF RepoOK
<1>4. d = ApplyMergeAutostash(held, outcome, t) BY <1>3
<1>41. d \in Seq(WriteType) /\ Unstashes(d, held, t) BY ONLY <1>4, UnstashesIs
<1>5. d \in Seq(WriteType) /\ Saves(d, Held(held)) BY <1>41 DEF Unstashes
<1>6. Range(d) \subseteq {W("mergeStash", None), W("restore", held[1]), W("push", held[1]), W("index", Unmerged(t, t, "stash"))} BY <1>41 DEF Unstashes
<1>7. \A f \in Fields : \A x : f # "index" => Late(d, f, x) = IF f = "mergeStash" /\ held # None THEN None ELSE x BY ONLY <1>41 DEF Unstashes
<1>8. PICK b \in Seq(WriteType) : b = c \o d /\ Range(b) = Range(c) \cup Range(d) /\ \A f, x : Late(b, f, x) = Late(d, f, Late(c, f, x)) BY <1>1, <1>5, Join, ZenonT(60)
<1>9. \A f, x : Late(b, f, x) = Late(d, f, Late(c, f, x)) BY <1>8
<1>10. \A w \in Range(b) : /\ w.f \in {"pick", "revert", "sequencer", "merge", "message", "mergeStash", "restore", "push", "index"}
                           /\ w.f = "index" => w.v.unmerged = "stash"
                           /\ w.f \in {"pick", "revert", "merge"} => w.v = None
  <2>1. \A f, v : W(f, v).f = f /\ W(f, v).v = v BY DEF W
  <2>2. Range(c) \subseteq {W(f, None) : f \in {"pick", "revert", "sequencer", "merge", "message"}} BY <1>1
  <2>3. \A w \in Range(c) : w.f \in {"pick", "revert", "sequencer", "merge", "message"} /\ w.v = None BY ONLY <2>1, <2>2
  <2>4. \A w \in Range(d) : w.f \in {"mergeStash", "restore", "push", "index"} /\ (w.f = "index" => w.v.unmerged = "stash")
    BY ONLY <1>6 DEF W, Unmerged
  <2> QED BY <1>8, <2>3, <2>4
<1>11. Saves(b, Held(repo.mergeStash)) BY <1>1, <1>3, <1>5, <1>8, SavesJoin
<1>12. \A f \in Fields \ {"index"} : Late(b, f, repo[f]) =
         IF f = "mergeStash" /\ held # None THEN None
         ELSE IF \/ f \in {"pick", "revert", "merge", "message"} /\ repo[f] # None
                 \/ f \in SequencerDir /\ CleanupErases
              THEN None ELSE repo[f]
  BY ONLY <1>2, <1>7, <1>9
<1>13. \A f \in {"pick", "revert", "merge", "mergeStash"} : Late(b, f, repo[f]) = None
  <2> QED BY FieldsAre, <1>3, <1>12 DEF SequencerDir
<1>14. \/ \A f \in SequencerDir : Late(b, f, repo[f]) = repo[f]
       \/ \A f \in SequencerDir : Late(b, f, repo[f]) = None
  <2> QED BY FieldsAre, <1>12 DEF SequencerDir
<1>15. \A f \in Fields \ ({"pick", "revert", "merge", "message", "mergeStash", "index"} \cup SequencerDir) : \A x : Late(b, f, x) = x BY ONLY <1>2, <1>7, <1>9
<1>16. Concludes(b) BY <1>10, <1>11, <1>13, <1>14, <1>15 DEF Concludes
<1> QED BY <1>1, <1>5, <1>8, <1>16

MovesTip(a, h) ==
  /\ \A w \in Range(a) : w.f \in {"branch", "head"}
  /\ \A f \in Fields \ {"branch", "head"} : \A x : Late(a, f, x) = x
  /\ repo.head # None => (\A x : Late(a, "branch", x) = x) /\ \A x : Late(a, "head", x) = <<h>>
  /\ repo.head = None => (\A x : Late(a, "branch", x) = h) /\ \A x : Late(a, "head", x) = x
LEMMA MoveIs ==
  ASSUME RepoOK(repo), NEW h \in Histories, NEW a, a = <<MoveHead(h)>>
  PROVE  a \in Seq(WriteType) /\ MovesTip(a, h)
<1>1. PICK m \in WriteType : m = MoveHead(h) BY MoveHeadIs
<1>2. a = <<m>> BY <1>1
<1>3. a \in Seq(WriteType) /\ Range(a) = {m} /\ \A f, x : Late(a, f, x) = Put(m, f, x) BY <1>2, One
<1>4. CASE repo.head = None
  <2>1. m = W("branch", h) BY <1>1, <1>4, MoveHeadIs
  <2>2. m.f = "branch" BY <2>1 DEF W
  <2>3. \A f, x : Put(m, f, x) = IF f = "branch" THEN h ELSE x BY <2>1, PutIs
  <2> QED BY <2>3, <1>3, <1>4, <2>2 DEF MovesTip
<1>5. CASE repo.head # None
  <2>1. m = W("head", <<h>>) BY <1>1, <1>5, MoveHeadIs
  <2>2. m.f = "head" BY <2>1 DEF W
  <2>3. \A f, x : Put(m, f, x) = IF f = "head" THEN <<h>> ELSE x BY <2>1, PutIs
  <2> QED BY <2>3, <1>3, <1>5, <2>2 DEF MovesTip
<1> QED BY <1>4, <1>5

LEMMA CommitGoes ==
  ASSUME Ready, repo.index.unmerged = "no", NEW h, NEW a \in Seq(WriteType), MovesTip(a, h), NEW b \in Seq(WriteType), Concludes(b),
         NEW ws, ws = a \o b, NEW p, p = Closed
  PROVE  Leads(ws, p, odd \cup {"commit"})
<1>1. RepoOK(repo) /\ plan \in PlanType /\ odd \in SUBSET Oddities BY DEF Ready
<1>2. PICK o \in SUBSET Oddities : o = odd \cup {"commit"} BY <1>1 DEF Oddities
<1>3. p \in PlanType /\ p.local = plan.local /\ p.start = plan.start BY <1>1 DEF Closed, PlanType
<1>4. p.kind = IF plan.kind \in {"aborted", "refused"} THEN "none" ELSE plan.kind BY <1>1 DEF Closed, PlanType
<1>5. a \in Seq(WriteType) /\ (\A w \in Range(a) : w.f \in {"branch", "head"}) /\ \A f \in Fields \ {"branch", "head"} : \A x : Late(a, f, x) = x
  BY DEF MovesTip
<1>6. ws \in Seq(WriteType) /\ Range(ws) = Range(a) \cup Range(b) BY <1>5, Join
<1>7. \A f, x : Late(ws, f, x) = Late(b, f, Late(a, f, x)) BY <1>5, Join
<1>8. PICK A : A = Then(repo, ws) OBVIOUS
<1>9. \A f \in Fields : A[f] = Late(ws, f, repo[f]) BY <1>8, ThenIs
<1>10. \A f \in Fields \ {"branch", "head"} : A[f] = Late(b, f, repo[f]) BY ONLY <1>5, <1>7, <1>9
<1>11. \A f \in {"pick", "revert", "merge", "mergeStash"} : A[f] = None
  <2>1. {"pick", "revert", "merge", "mergeStash"} \subseteq Fields \ {"branch", "head"} BY FieldsAre
  <2> QED BY <1>10, <2>1 DEF Concludes
<1>12. (\A f \in SequencerDir : A[f] = repo[f]) \/ (\A f \in SequencerDir : A[f] = None)
  <2>1. SequencerDir \subseteq Fields \ {"branch", "head"} BY FieldsAre DEF SequencerDir
  <2> QED BY <1>10, <2>1 DEF Concludes
<1>13. \A f \in {"rebase", "rbStash"} \cup RebasePart : A[f] = repo[f]
  <2>1. {"rebase", "rbStash"} \cup RebasePart \subseteq Fields \ {"branch", "head"} BY FieldsAre DEF RebasePart
  <2>2. {"rebase", "rbStash"} \cup RebasePart \subseteq Fields \ ({"pick", "revert", "merge", "message", "mergeStash", "index"} \cup SequencerDir)
    BY FieldsAre DEF SequencerDir, RebasePart
  <2>3. \A f \in Fields \ ({"pick", "revert", "merge", "message", "mergeStash", "index"} \cup SequencerDir) : \A x : Late(b, f, x) = x BY DEF Concludes
  <2> QED BY <1>10, <2>1, <2>2, <2>3
<1>14. (repo.head # None => A.branch = repo.branch /\ A.head = <<h>>) /\ (repo.head = None => A.head = None)
  <2>1. {"branch", "head"} \subseteq Fields \ ({"pick", "revert", "merge", "message", "mergeStash", "index"} \cup SequencerDir) BY FieldsAre DEF SequencerDir
  <2>2. \A f \in Fields \ ({"pick", "revert", "merge", "message", "mergeStash", "index"} \cup SequencerDir) : \A x : Late(b, f, x) = x BY DEF Concludes
  <2>3. A.branch = Late(a, "branch", repo.branch) /\ A.head = Late(a, "head", repo.head)
    <3>1. {"branch", "head"} \subseteq Fields BY FieldsAre
    <3> QED BY <1>7, <1>9, <2>1, <2>2, <3>1
  <2>4. /\ repo.head # None => (\A x : Late(a, "branch", x) = x) /\ \A x : Late(a, "head", x) = <<h>>
        /\ repo.head = None => (\A x : Late(a, "branch", x) = h) /\ \A x : Late(a, "head", x) = x
    BY DEF MovesTip
  <2> QED BY ONLY <2>3, <2>4
<1>15. RebaseKept(A) /\ SeqKept(A) /\ StashedAt(A, o)
  <2>1. StashedAt(repo, odd) BY AtRest DEF Ready
  <2>2. MergeStashKept(A) /\ RebaseStashKept(A) BY <1>11, <1>13 DEF MergeStashKept, RebaseStashKept
  <2>3. odd \cap {"crash", "refused"} \subseteq o BY <1>2
  <2>4. RebaseKept(A) /\ SeqKept(A) BY <1>12, <1>13 DEF RebaseKept, SeqKept
  <2> QED BY <2>1, <2>2, <2>3, <2>4, StashedKept
<1>16. \A w \in Range(ws) : /\ w.f \in {"pick", "revert", "sequencer", "merge", "message", "mergeStash", "restore", "push", "index", "branch", "head"}
                            /\ w.f = "index" => w.v.unmerged = "stash"
                            /\ w.f \in {"pick", "revert", "merge"} => w.v = None
  BY <1>5, <1>6 DEF Concludes
<1>17. MergeAt(repo, ws, p, o)
  <2>1. MergeAt(repo, <<>>, plan, odd) BY AtRest DEF Ready
  <2>3. \A w \in Range(ws) : w.f # "orig" BY <1>16
  <2> QED BY <1>16, <1>2, <1>3, <2>1, <2>3, MergeGoesOn DEF Blank
<1>18. UnmergedAt(repo, ws)
  <2>1. UnmergedAt(repo, <<>>) BY AtRest DEF Ready
  <2> QED BY <1>16, <1>6, <2>1, UnmergedKept
<1>19. RebaseAt(repo, ws, p, o) BY <1>2 DEF RebaseAt
<1>20. TidyAt(A, p, o)
  <2>1. SUFFICES ASSUME o \cap {"crash", "stale", "crossed", "reset", "refused"} = {} PROVE TidyAt(A, p, o) BY DEF TidyAt
  <2>2. TidyAt(repo, plan, odd) /\ odd \cap {"crash", "stale", "crossed", "reset", "refused"} = {} BY <1>2, <2>1, AtRest DEF Ready
  <2>3. A.rebase = repo.rebase /\ A.rbOrig = repo.rbOrig BY <1>13 DEF RebasePart
  <2>4. A.pick = None /\ A.revert = None /\ A.merge = None BY <1>11
  <2>5. A.seqHead \in {None, repo.seqHead} BY <1>12 DEF SequencerDir
  <2>6. CASE p.kind \in {"pick", "revert"}
    <3>1. p.kind = plan.kind BY <1>4, <2>6
    <3>2. repo.head = None /\ repo.rebase = None /\ repo.rbOrig = None /\ repo.seqHead \in {None, <<plan.start>>} BY <2>2, <2>6, <3>1 DEF TidyAt
    <3>3. A.head = None BY <1>14, <3>2
    <3> QED BY <1>3, <2>3, <2>4, <2>5, <2>6, <3>2, <3>3 DEF TidyAt
  <2>7. CASE p.kind = "rebase"
    <3>1. p.kind = plan.kind BY <1>4, <2>7
    <3>2. repo.seqHead = None /\ repo.rbOrig \in {None, <<plan.start>>} BY <2>2, <2>7, <3>1 DEF TidyAt
    <3>3. repo.rbOrig # None => repo.branch = plan.start /\ repo.head # None BY <2>2, <2>7, <3>1 DEF TidyAt
    <3>4. A.rbOrig # None => A.branch = p.start /\ A.head # None BY <1>3, <1>14, <2>3, <3>3, Something
    <3> QED BY <1>3, <2>3, <2>4, <2>5, <2>7, <3>2, <3>4 DEF TidyAt
  <2>8. CASE p.kind = "merge"
    <3>1. p.kind = plan.kind BY <1>4, <2>8
    <3> QED BY <2>2, <3>1, <2>3, <2>4, <2>5, <2>8 DEF TidyAt
  <2>9. CASE p.kind \in {"none", "merged", "uptodate", "refused"}
    <3>2. repo.rebase = None /\ repo.seqHead = None /\ repo.rbOrig = None
      <4>1. CASE plan.kind = "aborted"
        <5> QED BY <2>2, <4>1 DEF StateFiles, TidyAt, Restored
      <4>2. CASE plan.kind # "aborted" BY <1>4, <2>9, <2>2, <4>2 DEF TidyAt
      <4> QED BY <4>1, <4>2
    <3> QED BY <2>3, <2>4, <2>5, <2>9, <3>2 DEF TidyAt
  <2>10. CASE p.kind = "aborted" BY <1>4, <2>10
  <2> QED BY <1>3, <2>6, <2>7, <2>8, <2>9, <2>10 DEF PlanType
<1>21. Safe(repo, ws, repo.dirty) /\ Safe(repo, ws, Held(repo.mergeStash)) /\ Safe(repo, ws, Held(repo.rbStash))
  <2>1. \A w \in Range(ws) : w.f # "dirty" BY <1>16
  <2>2. Saves(ws, Held(repo.mergeStash)) BY <1>5, SavesJoin DEF Concludes
  <2>4. Late(ws, "rbStash", repo.rbStash) = repo.rbStash BY <1>9, FieldsAre, <1>13
  <2> QED BY <1>1, <1>6, <2>1, <2>2, <2>4, SafeIs
<1>22. p.local \subseteq plan.local \cup {} /\ Safe(repo, ws, {}) /\ odd \cap {"crash", "refused"} \subseteq o BY <1>2, <1>3, SafeNothing
<1>23. Leads(ws, p, o) BY <1>3, <1>6, <1>8, <1>15, <1>17, <1>18, <1>19, <1>20, <1>21, <1>22, Assembled
<1> QED BY <1>2, <1>23

LEMMA CommitRunKeeps ==
  ASSUME Ready, repo.index.unmerged = "no", NEW outcome \in ApplyOutcomes, NEW t, t = repo.index.tree,
         NEW op \in {"pick", "revert", "merge", "user"}, NEW src \in Names, NEW h, h = Append(Tip, Commit(op, src, Tip, t))
  PROVE  Leads(<<MoveHead(h)>> \o RemoveCommittedState \o ApplyMergeAutostash(repo.mergeStash, outcome, t), Closed, odd \cup {"commit"})
<1>1. RepoOK(repo) /\ t \in SUBSET Patches
  <2>1. RepoOK(repo) BY DEF Ready
  <2>2. repo.index \in IndexType BY <2>1, FieldsAre, KindsAre DEF RepoOK
  <2> QED BY <2>1, <2>2 DEF IndexType
<1>2. h \in Histories
  <2>1. PICK g \in Histories : g = Tip BY <1>1, TipIs
  <2>2. Commit(op, src, g, t) \in CommitType BY <1>1, CommitIs DEF Names
  <2> QED BY <2>1, <2>2, HistoryIs
<1>3. PICK a : a = <<MoveHead(h)>> OBVIOUS
<1>4. PICK c : c = RemoveCommittedState OBVIOUS
<1>5. PICK d : d = ApplyMergeAutostash(repo.mergeStash, outcome, t) OBVIOUS
<1>6. c \in Seq(WriteType) /\ d \in Seq(WriteType) /\ c \o d \in Seq(WriteType) /\ Concludes(c \o d) BY <1>1, <1>4, <1>5, ConcludesIs
<1>7. PICK b \in Seq(WriteType) : b = c \o d /\ Concludes(b) BY <1>6
<1>8. a \in Seq(WriteType) /\ MovesTip(a, h) BY <1>1, <1>2, <1>3, MoveIs
<1>9. (a \o c) \o d = a \o b BY <1>6, <1>7, <1>8, Regrouped
<1>10. PICK ws : ws = a \o b OBVIOUS
<1>11. PICK p : p = Closed OBVIOUS
<1>12. Leads(ws, p, odd \cup {"commit"}) BY <1>7, <1>8, <1>10, <1>11, CommitGoes
<1> QED BY <1>3, <1>4, <1>5, <1>9, <1>10, <1>11, <1>12

------------------------------
(* merge. *)

\* The autostash of a merge, with MERGE_AUTOSTASH as it is then.
Stashes(s, held, taken) ==
  /\ held \in Maybe(SUBSET Locals) /\ taken \in SUBSET Locals /\ taken \subseteq Held(held)
  /\ \A w \in Range(s) : w.f \in {"index", "dirty", "mergeStash"} /\ (w.f = "index" => w.v.unmerged = "no")
  /\ (\A w \in Range(s) : w.f # "dirty") \/ repo.dirty \subseteq taken
  /\ Late(s, "mergeStash", repo.mergeStash) = held
  /\ \A f \in Fields \ {"index", "dirty", "mergeStash"} : \A x : Late(s, f, x) = x
LEMMA StashesNone ==
  ASSUME RepoOK(repo)
  PROVE  Stashes(<<>>, repo.mergeStash, {})
<1>1. repo.mergeStash \in Maybe(SUBSET Locals) BY FieldsAre, KindsAre DEF RepoOK
<1>2. {} \in SUBSET Locals OBVIOUS
<1> QED BY NoneIs, <1>1, <1>2 DEF Stashes

LEMMA StashForMergeIs ==
  ASSUME RepoOK(repo), NEW autostash \in BOOLEAN, NEW s, s = StashForMerge(autostash)
  PROVE  s \in Seq(WriteType) /\ Stashes(s, HeldStash(autostash), Taken(autostash))
<1>1. CASE autostash /\ Local # {}
  <2>1. PICK c : c = CreateAutostash OBVIOUS
  <2>2. /\ c \in Seq(WriteType) /\ \A w \in Range(c) : w.f \in {"index", "dirty"} /\ (w.f = "index" => w.v.unmerged = "no")
        /\ Local \in SUBSET Locals /\ repo.dirty \subseteq Local
    BY <2>1, CreateLeaves
  <2>3. \A f \in Fields \ {"index", "dirty"} : \A x : Late(c, f, x) = x BY <2>1, CreateLeaves
  <2>4. PICK held \in Maybe(SUBSET Locals) : held = <<Local>> /\ Held(held) = Local /\ held = HeldStash(autostash)
    BY <1>1, <2>2, MaybeIs DEF HeldStash, Held
  <2>5. PICK w \in WriteType : w = W("mergeStash", held) /\ w.f = "mergeStash"
    <3>1. held \in Kind("mergeStash") BY KindsAre
    <3>2. "mergeStash" \in Fields \cup Dirs BY FieldsAre
    <3> QED BY <3>1, <3>2, WriteIs
  <2>6. PICK d \in Seq(WriteType) : d = <<w>> /\ Range(d) = {w} /\ \A f, x : Late(d, f, x) = Put(w, f, x) BY One
  <2>7. s = c \o d BY <1>1, <2>1, <2>4, <2>5, <2>6 DEF StashForMerge
  <2>8. s \in Seq(WriteType) /\ Range(s) = Range(c) \cup Range(d) BY <2>2, <2>7, Join
  <2>9. \A f, x : Late(s, f, x) = Late(d, f, Late(c, f, x)) BY <2>2, <2>7, Join
  <2>10. \A f, x : Late(d, f, x) = IF f = "mergeStash" THEN held ELSE x BY <2>5, <2>6, PutIs
  <2>11. \A v \in Range(s) : v.f \in {"index", "dirty", "mergeStash"} /\ (v.f = "index" => v.v.unmerged = "no") BY <2>2, <2>5, <2>6, <2>8
  <2>12. \A f \in Fields \ {"index", "dirty", "mergeStash"} : \A x : Late(s, f, x) = x
    <3>1. \A f \in Fields \ {"index", "dirty", "mergeStash"} : f \in Fields \ {"index", "dirty"} /\ f # "mergeStash" OBVIOUS
    <3> QED BY ONLY <2>3, <2>9, <2>10, <3>1
  <2>14. Taken(autostash) = Local BY <1>1 DEF Taken
  <2>15. Stashes(s, held, Local) BY <2>9, <2>10, <2>2, <2>4, <2>11, <2>12 DEF Stashes
  <2> QED BY <2>4, <2>8, <2>14, <2>15
<1>2. CASE ~(autostash /\ Local # {})
  <2>2. Taken(autostash) = {} BY <1>2 DEF Taken
  <2> QED BY <1>2, <2>2, NoneIs, StashesNone DEF StashForMerge, HeldStash
<1> QED BY <1>1, <1>2

MergeNames == {"index", "branch", "head", "merge", "message", "mergeStash", "restore", "push"}

\* Every way a merge begins: ORIG_HEAD, the autostash, and the rest.
LEMMA MergeGoes ==
  ASSUME Ready, NoPendingOperation, NEW s \in Seq(WriteType), NEW held, NEW taken, Stashes(s, held, taken),
         NEW u, u = <<W("orig", <<Tip>>)>>, NEW r \in Seq(WriteType), \A w \in Range(r) : w.f \in MergeNames,
         NEW ws, ws = (u \o s) \o r,
         NEW kind \in {"merge", "merged", "uptodate", "refused"}, NEW p, p = Begun(kind, <<>>, taken), NEW o \in SUBSET Oddities, Lasting \subseteq o,
         UnmergedAt(repo, ws),
         kind = "merge" \/ Late(r, "merge", None) = None,
         \/ "refused" \in o
         \/ Late(r, "mergeStash", held) = None /\ Saves(r, Held(held))
         \/ Late(r, "mergeStash", held) = held /\ Late(r, "merge", None) # None
  PROVE  Leads(ws, p, o)
<1>1. RepoOK(repo) BY DEF Ready
<1>2. /\ held \in Maybe(SUBSET Locals) /\ taken \in SUBSET Locals /\ taken \subseteq Held(held)
      /\ \A w \in Range(s) : w.f \in {"index", "dirty", "mergeStash"} /\ (w.f = "index" => w.v.unmerged = "no")
      /\ (\A w \in Range(s) : w.f # "dirty") \/ repo.dirty \subseteq taken
      /\ Late(s, "mergeStash", repo.mergeStash) = held
  BY DEF Stashes
<1>3. \A f \in Fields \ {"index", "dirty", "mergeStash"} : \A x : Late(s, f, x) = x BY DEF Stashes
<1>4. PICK v \in WriteType : v = W("orig", <<Tip>>) /\ v.f = "orig" /\ v.v = <<Tip>>
  <2>1. <<Tip>> \in Maybe(Histories) BY <1>1, TipIs
  <2> QED BY <2>1, WriteIs, KindsAre, FieldsAre DEF HistoryFiles
<1>5. u \in Seq(WriteType) /\ Range(u) = {v} /\ \A f, x : Late(u, f, x) = Put(v, f, x) BY <1>4, One
<1>6. \A f, x : Late(u, f, x) = IF f = "orig" THEN <<Tip>> ELSE x
  <2>1. \A f, x : Late(u, f, x) = Put(v, f, x) BY <1>5
  <2>2. \A f, x : Put(v, f, x) = IF f = "orig" THEN <<Tip>> ELSE x BY ONLY <1>4, PutIs
  <2> QED BY ONLY <2>1, <2>2
<1>7. PICK a \in Seq(WriteType) : a = u \o s /\ Range(a) = Range(u) \cup Range(s) /\ \A f, x : Late(a, f, x) = Late(s, f, Late(u, f, x)) BY <1>5, Join
<1>8. ws = a \o r BY <1>7
<1>9. ws \in Seq(WriteType) /\ Range(ws) = Range(a) \cup Range(r) BY <1>8, Join
<1>10. \A f, x : Late(ws, f, x) = Late(r, f, Late(a, f, x)) BY ONLY <1>8, Join
<1>11. ws[1] = v
  <2>1. Len(u) = 1 /\ u[1] = v BY <1>4
  <2>2. Len(s) \in Nat BY LenProperties
  <2>3. Len(a) = 1 + Len(s) /\ a[1] = v BY <1>5, <1>7, <2>1, <2>2, ConcatProperties
  <2>4. Len(a) >= 1 /\ 1 \in 1 .. Len(a) BY <2>2, <2>3
  <2> QED BY <1>7, <1>8, <2>3, <2>4, ConcatProperties
<1>12. PICK A : A = Then(repo, ws) OBVIOUS
<1>13. \A f \in Fields : A[f] = Late(ws, f, repo[f]) BY <1>12, ThenIs
<1>14. \A f \in Fields \ {"index", "dirty", "mergeStash", "orig"} : \A x : Late(a, f, x) = x
  <2>1. \A f, x : Late(a, f, x) = Late(s, f, Late(u, f, x)) BY <1>7
  <2> QED BY ONLY <1>3, <1>6, <2>1
<1>15. \A f \in Fields \ MergeNames : \A x : Late(r, f, x) = x
  <2>1. \A w \in Range(r) : w.f \notin {"sequencer", "rebase-merge"} BY DEF MergeNames
  <2>2. \A w \in Range(r) : Files(w.f) = {w.f} BY ONLY <2>1, FilesAre
  <2>3. \A f \in Fields \ MergeNames : \A w \in Range(r) : ~Touches(w, f) BY <2>2 DEF Touches
  <2>4. ASSUME NEW f \in Fields \ MergeNames PROVE \A x : Late(r, f, x) = x BY <2>3, Unnamed
  <2> QED BY <2>4
<1>16. \A f \in {"pick", "revert", "rebase", "rbStash"} \cup SequencerDir \cup RebasePart : A[f] = repo[f]
  <2>1. PICK G : G = {"pick", "revert", "rebase", "rbStash"} \cup SequencerDir \cup RebasePart OBVIOUS
  <2>2. G \subseteq Fields \ {"index", "dirty", "mergeStash", "orig"} BY <2>1, FieldsAre DEF SequencerDir, RebasePart
  <2>3. G \subseteq Fields \ MergeNames BY <2>1, FieldsAre DEF SequencerDir, RebasePart, MergeNames
  <2>4. \A f \in G : A[f] = repo[f] BY ONLY <1>10, <1>13, <1>14, <1>15, <2>2, <2>3
  <2> QED BY <2>1, <2>4
<1>17. repo.merge = None /\ repo.pick = None /\ repo.revert = None /\ repo.rebase = None BY NothingPending
<1>18. A.merge = Late(r, "merge", None)
  <2>1. "merge" \in Fields /\ "merge" \in Fields \ {"index", "dirty", "mergeStash", "orig"} BY FieldsAre
  <2>2. Late(a, "merge", repo.merge) = repo.merge BY <1>14, <2>1
  <2> QED BY <1>10, <1>13, <1>17, <2>1, <2>2, SMTT(40)
<1>19. Late(ws, "mergeStash", repo.mergeStash) = Late(r, "mergeStash", held)
  <2>1. Late(u, "mergeStash", repo.mergeStash) = repo.mergeStash BY <1>6
  <2>2. Late(a, "mergeStash", repo.mergeStash) = held BY <1>2, <1>7, <2>1
  <2> QED BY <1>10, <2>2
<1>20. A.mergeStash = Late(r, "mergeStash", held)
  <2>1. "mergeStash" \in Fields BY FieldsAre
  <2> QED BY <1>13, <1>19, <2>1
<1>21. PlanIs(p, kind, <<>>, taken)
  <2>1. BegunAs(p, kind, <<>>, taken) BY DEF BegunAs
  <2> QED BY <1>2, <2>1, SeqNone, BegunIs
<1>22. p \in PlanType /\ p.kind = kind /\ p.start = Tip /\ p.local = plan.local \cup taken BY <1>21 DEF PlanIs
<1>23. SeqKept(A) /\ RebaseKept(A) BY <1>16 DEF SeqKept, RebaseKept
<1>24. "refused" \in o \/ (MergeStashKept(A) /\ RebaseStashKept(A))
  <2>1. RebaseStashKept(A) BY <1>16 DEF RebaseStashKept
  <2> QED BY <1>18, <1>20, <2>1 DEF MergeStashKept
<1>25. TidyAt(A, p, o)
  <2>1. "stale" \notin o => repo.seqHead = None /\ repo.seqTodo = None /\ repo.rbOrig = None BY NothingPending
  <2>2. A.pick = None /\ A.revert = None /\ A.rebase = None BY <1>16, <1>17
  <2>3. A.seqHead = repo.seqHead /\ A.rbOrig = repo.rbOrig BY <1>16 DEF SequencerDir, RebasePart
  <2>4. CASE kind = "merge" BY <1>22, <2>1, <2>2, <2>3, <2>4 DEF TidyAt
  <2>5. CASE kind # "merge"
    <3>1. A.merge = None BY <1>18, <2>5
    <3>3. p.kind \in {"none", "merged", "uptodate", "refused"} BY <1>22, <2>5
    <3> QED BY <2>1, <2>2, <2>3, <3>1, <3>3, TidyPlain
  <2> QED BY <2>4, <2>5
<1>26. \A w \in Range(ws) : w = v \/ w.f \in MergeNames \cup {"dirty"}
  <2> QED BY <1>2, <1>5, <1>7, <1>9 DEF MergeNames
<1>27. MergeAt(repo, ws, p, o)
  <2>1. ws[1] = W("orig", <<p.start>>) BY <1>4, <1>11, <1>22
  <2>2. \A w \in Range(ws) : w.f = "orig" => w.v = <<p.start>> BY <1>4, <1>22, <1>26, ZenonT(60) DEF MergeNames
  <2>4. "stale" \notin o => repo.seqHead = None /\ repo.seqTodo = None BY NothingPending
  <2> QED BY <1>4, <1>26, <1>17, <2>1, <2>2, <2>4 DEF MergeAt, Blank, MergeNames
<1>28. RebaseAt(repo, ws, p, o) BY <1>22, RebaseOther
<1>29. "refused" \in o \/ (Safe(repo, ws, repo.dirty) /\ Safe(repo, ws, taken))
  <2>1. SUFFICES ASSUME "refused" \notin o PROVE Safe(repo, ws, repo.dirty) /\ Safe(repo, ws, taken) OBVIOUS
  <2>2. Safe(repo, ws, Held(held))
    <3>1. CASE Saves(r, Held(held))
      <4>1. Saves(ws, Held(held)) BY <1>8, <3>1, SavesJoin
      <4> QED BY <1>1, <1>9, <4>1, SafeIs
    <3>2. CASE Late(r, "mergeStash", held) = held
      <4>1. Late(ws, "mergeStash", repo.mergeStash) = held BY <1>19, <3>2
      <4> QED BY <1>1, <1>9, SafeIs, <4>1
    <3> QED BY <2>1, <3>1, <3>2
  <2>3. Safe(repo, ws, taken) BY <1>2, <2>2 DEF Safe
  <2>4. CASE repo.dirty \subseteq taken BY <2>3, <2>4 DEF Safe
  <2>5. CASE \A w \in Range(s) : w.f # "dirty"
    <3>1. \A w \in Range(ws) : w.f # "dirty" BY <1>4, <1>5, <1>7, <1>9, <2>5 DEF MergeNames
    <3> QED BY <1>1, <1>9, <2>3, <3>1, SafeIs
  <2> QED BY <1>2, <2>4, <2>5
<1>30. p.local \subseteq plan.local \cup taken BY <1>22
<1> QED BY <1>9, <1>12, <1>22, <1>23, <1>24, <1>25, <1>27, <1>28, <1>29, <1>30, Begins

LEMMA OrigIs ==
  ASSUME RepoOK(repo), NEW u, u = <<W("orig", <<Tip>>)>>
  PROVE  u \in Seq(WriteType) /\ \A w \in Range(u) : w.f = "orig"
<1>1. PICK v \in WriteType : v = W("orig", <<Tip>>) /\ v.f = "orig"
  <2>1. <<Tip>> \in Maybe(Histories) BY TipIs
  <2> QED BY <2>1, WriteIs, KindsAre, FieldsAre DEF HistoryFiles
<1>2. u \in Seq(WriteType) /\ Range(u) = {v} BY <1>1, One
<1> QED BY <1>1, <1>2

\* The same, where the index keeps no conflict of the merge's.
LEMMA MergeGoesClean ==
  ASSUME Ready, NoPendingOperation, NEW s \in Seq(WriteType), NEW held, NEW taken, Stashes(s, held, taken),
         NEW u, u = <<W("orig", <<Tip>>)>>, NEW r \in Seq(WriteType), \A w \in Range(r) : w.f \in MergeNames,
         \A w \in Range(r) : w.f = "index" => w.v.unmerged # "merge",
         NEW ws, ws = (u \o s) \o r,
         NEW kind \in {"merge", "merged", "uptodate", "refused"}, NEW p, p = Begun(kind, <<>>, taken), NEW o \in SUBSET Oddities, Lasting \subseteq o,
         kind = "merge" \/ Late(r, "merge", None) = None,
         \/ "refused" \in o
         \/ Late(r, "mergeStash", held) = None /\ Saves(r, Held(held))
         \/ Late(r, "mergeStash", held) = held /\ Late(r, "merge", None) # None
  PROVE  Leads(ws, p, o)
<1>1. RepoOK(repo) BY DEF Ready
<1>2. u \in Seq(WriteType) /\ \A w \in Range(u) : w.f = "orig" BY <1>1, OrigIs
<1>3. \A w \in Range(s) : w.f = "index" => w.v.unmerged = "no" BY DEF Stashes
<1>4. PICK a \in Seq(WriteType) : a = u \o s /\ Range(a) = Range(u) \cup Range(s) BY <1>2, Join
<1>5. ws \in Seq(WriteType) /\ Range(ws) = Range(a) \cup Range(r) BY <1>4, Join
<1>7. UnmergedAt(repo, <<>>) /\ repo.index.unmerged # "merge" BY NothingPending
<1>8. UnmergedAt(repo, ws) BY <1>2, <1>3, <1>4, <1>5, <1>7, UnmergedKept
<1> QED BY <1>8, MergeGoes, ZenonT(60)

LEMMA MergeUpToDateKeeps ==
  ASSUME Ready, NoPendingOperation
  PROVE  Leads(<<W("orig", <<Tip>>)>> \o RemoveMergeBranchState(repo.mergeStash), Begun("uptodate", <<>>, {}), Lasting)
<1>1. RepoOK(repo) BY DEF Ready
<1>2. PICK o \in SUBSET Oddities : o = Lasting BY NothingPending
<1>3. PICK held \in Maybe(SUBSET Locals) : held = repo.mergeStash BY <1>1, FieldsAre, KindsAre DEF RepoOK
<1>4. PICK u : u = <<W("orig", <<Tip>>)>> OBVIOUS
<1>5. PICK r : r = RemoveMergeBranchState(held) OBVIOUS
<1>6. u \in Seq(WriteType) BY <1>1, <1>4, OrigIs
<1>7. /\ r \in Seq(WriteType)
      /\ Range(r) \subseteq {W("merge", None), W("message", None)} \cup (IF held = None THEN {} ELSE {W("mergeStash", None), W("push", held[1])})
      /\ held # None => W("push", held[1]) \in Range(r)
  BY <1>5, RemoveMergeIs
<1>8. \A f \in Fields : \A x : Late(r, f, x) = IF \/ f = "merge" /\ repo.merge # None
                                                  \/ f = "message" /\ repo.message # None
                                                  \/ f = "mergeStash" /\ held # None
                                               THEN None ELSE x
  BY <1>5, RemoveMergeIs
<1>9. PICK s \in Seq(WriteType) : s = <<>> BY NoneIs
<1>10. Stashes(s, held, {}) BY <1>1, <1>3, <1>9, StashesNone
<1>11. \A w \in Range(r) : w.f \in MergeNames /\ w.f # "index"
  <2>1. Range(r) \subseteq {W("merge", None), W("message", None), W("mergeStash", None), W("push", held[1])} BY <1>7
  <2> QED BY ONLY <2>1 DEF W, MergeNames
<1>12. Late(r, "merge", None) = None /\ Late(r, "mergeStash", held) = None
  <2>1. "merge" \in Fields /\ "mergeStash" \in Fields BY FieldsAre
  <2> QED BY <1>8, <2>1
<1>13. Saves(r, Held(held))
  <2>1. CASE held = None BY <2>1, SavesNothing DEF Held
  <2>2. CASE held # None
    <3>2. Held(held) = held[1] BY <2>2 DEF Held
    <3> QED BY <1>7, <2>2, <3>2 DEF Saves, W
  <2> QED BY <2>1, <2>2
<1>14. PICK ws : ws = (u \o s) \o r OBVIOUS
<1>15. u \o s = u BY <1>6, <1>9, ConcatEmptySeq
<1>16. PICK p : p = Begun("uptodate", <<>>, {}) OBVIOUS
<1>17. PICK kind \in {"merge", "merged", "uptodate", "refused"} : kind = "uptodate" OBVIOUS
<1>18. PICK taken : taken = {} OBVIOUS
<1>19. Stashes(s, held, taken) /\ p = Begun(kind, <<>>, taken) /\ Lasting \subseteq o BY <1>2, <1>10, <1>16, <1>17, <1>18
<1>20. Leads(ws, p, o) BY <1>4, <1>7, <1>11, <1>12, <1>13, <1>14, <1>19, MergeGoesClean
<1> QED BY <1>2, <1>3, <1>4, <1>5, <1>14, <1>15, <1>16, <1>20

\* The end of a merge that has nothing to resolve.
Concluding(c, held) ==
  /\ \A w \in Range(c) : w.f \in MergeNames /\ (w.f = "index" => w.v.unmerged # "merge")
  /\ Saves(c, Held(held)) /\ Late(c, "mergeStash", held) = None /\ Late(c, "merge", None) = None
LEMMA ConcludingIs ==
  ASSUME RepoOK(repo), NEW autostash, NEW outcome \in ApplyOutcomes, NEW t \in SUBSET Patches, NEW held \in Maybe(SUBSET Locals), held = HeldStash(autostash),
         NEW c, c = ConcludeMerge(autostash, outcome, t)
  PROVE  c \in Seq(WriteType) /\ Concluding(c, held)
<1>1. PICK d : d = ApplyMergeAutostash(held, outcome, t) OBVIOUS
<1>2. d \in Seq(WriteType) /\ Unstashes(d, held, t) BY <1>1, UnstashesIs
<1>3. PICK e : e = RemoveMergeBranchState(None) OBVIOUS
<1>4. PICK none \in Maybe(SUBSET Locals) : none = None BY MaybeIs
<1>5. e = RemoveMergeBranchState(none) BY <1>3, <1>4
<1>6. /\ e \in Seq(WriteType)
      /\ Range(e) \subseteq {W("merge", None), W("message", None)} \cup (IF none = None THEN {} ELSE {W("mergeStash", None), W("push", none[1])})
  BY <1>5, RemoveMergeIs
<1>7. \A f \in Fields : \A x : Late(e, f, x) = IF \/ f = "merge" /\ repo.merge # None
                                                  \/ f = "message" /\ repo.message # None
                                                  \/ f = "mergeStash" /\ none # None
                                               THEN None ELSE x
  BY <1>5, RemoveMergeIs
<1>8. c = d \o e BY <1>1, <1>3 DEF ConcludeMerge
<1>9. c \in Seq(WriteType) /\ Range(c) = Range(d) \cup Range(e) BY <1>2, <1>6, <1>8, Join
<1>10. \A f, x : Late(c, f, x) = Late(e, f, Late(d, f, x)) BY ONLY <1>2, <1>6, <1>8, Join
<1>11. \A w \in Range(d) : w.f \in MergeNames /\ (w.f = "index" => w.v.unmerged # "merge")
  <2>1. Range(d) \subseteq {W("mergeStash", None), W("restore", held[1]), W("push", held[1]), W("index", Unmerged(t, t, "stash"))} BY <1>2 DEF Unstashes
  <2> QED BY ONLY <2>1 DEF W, MergeNames, Unmerged
<1>12. \A w \in Range(e) : w.f \in {"merge", "message"}
  <2>1. Range(e) \subseteq {W("merge", None), W("message", None)} BY <1>4, <1>6
  <2> QED BY ONLY <2>1 DEF W
<1>13. Saves(d, Held(held)) BY <1>2 DEF Unstashes
<1>14. Saves(c, Held(held)) BY <1>2, <1>6, <1>8, <1>12, <1>13, SavesJoin
<1>16. Late(c, "mergeStash", held) = None /\ Late(c, "merge", None) = None
  <2>1. "merge" \in Fields /\ "mergeStash" \in Fields BY FieldsAre
  <2>2. Late(d, "mergeStash", held) = None /\ Late(d, "merge", None) = None BY <1>2, <2>1 DEF Unstashes
  <2>3. Late(e, "mergeStash", None) = None /\ Late(e, "merge", None) = None BY <1>7, <2>1
  <2> QED BY <1>10, <2>2, <2>3
<1> QED BY <1>11, <1>12, <1>9, <1>14, <1>16 DEF Concluding, MergeNames

\* A merge that moves the branch: m writes the index and the branch.
LEMMA MergeConcludes ==
  ASSUME Ready, NoPendingOperation, NEW s \in Seq(WriteType), NEW held, NEW taken, Stashes(s, held, taken),
         NEW u, u = <<W("orig", <<Tip>>)>>, NEW m \in Seq(WriteType),
         \A w \in Range(m) : w.f \in {"index", "branch", "head"} /\ (w.f = "index" => w.v.unmerged = "no"),
         NEW c \in Seq(WriteType), Concluding(c, held), NEW ws, ws = (u \o s) \o (m \o c), NEW p, p = Begun("merged", <<>>, taken)
  PROVE  Leads(ws, p, Lasting)
<1>1. PICK o \in SUBSET Oddities : o = Lasting BY NothingPending
<1>2. PICK r \in Seq(WriteType) : r = m \o c /\ Range(r) = Range(m) \cup Range(c) /\ \A f, x : Late(r, f, x) = Late(c, f, Late(m, f, x)) BY Join
<1>3. \A w \in Range(c) : w.f \in MergeNames /\ (w.f = "index" => w.v.unmerged # "merge") BY DEF Concluding
<1>4. \A w \in Range(r) : w.f \in MergeNames BY <1>2, <1>3 DEF MergeNames
<1>5. \A w \in Range(r) : w.f = "index" => w.v.unmerged # "merge" BY <1>2, <1>3
<1>6. \A f \in {"merge", "mergeStash"} : \A x : Late(m, f, x) = x
  <2>1. \A w \in Range(m) : w.f \notin {"sequencer", "rebase-merge"} OBVIOUS
  <2>2. \A w \in Range(m) : Files(w.f) = {w.f} BY ONLY <2>1, FilesAre
  <2>3. \A f \in {"merge", "mergeStash"} : \A w \in Range(m) : ~Touches(w, f) BY <2>2 DEF Touches
  <2>4. ASSUME NEW f \in {"merge", "mergeStash"} PROVE \A x : Late(m, f, x) = x BY <2>3, Unnamed
  <2> QED BY <2>4
<1>7. Late(r, "merge", None) = None /\ Late(r, "mergeStash", held) = None BY <1>2, <1>6 DEF Concluding
<1>8. Saves(r, Held(held)) BY <1>2, SavesJoin DEF Concluding
<1>9. PICK kind \in {"merge", "merged", "uptodate", "refused"} : kind = "merged" OBVIOUS
<1>10. p = Begun(kind, <<>>, taken) /\ Lasting \subseteq o /\ ws = (u \o s) \o r BY <1>1, <1>2, <1>9
<1>11. Leads(ws, p, o) BY ONLY Ready, NoPendingOperation, Stashes(s, held, taken), u = <<W("orig", <<Tip>>)>>, ZenonT(60),
     <1>4, <1>5, <1>7, <1>8, <1>10, MergeGoesClean
<1> QED BY <1>1, <1>11

LEMMA OpenMergeIs ==
  ASSUME RepoOK(repo), NEW autostash \in BOOLEAN
  PROVE  \E s \in Seq(WriteType), u \in Seq(WriteType) :
           OpenMerge(autostash) = u \o s /\ u = <<W("orig", <<Tip>>)>> /\ Stashes(s, HeldStash(autostash), Taken(autostash))
<1>1. PICK s : s = StashForMerge(autostash) OBVIOUS
<1>3. PICK u : u = <<W("orig", <<Tip>>)>> OBVIOUS
<1>4. u \in Seq(WriteType) BY <1>3, OrigIs
<1>5. OpenMerge(autostash) = u \o s BY <1>1, <1>3 DEF OpenMerge
<1> QED BY <1>1, StashForMergeIs, <1>3, <1>4, <1>5

LEMMA IndexIs ==
  ASSUME NEW t \in SUBSET Patches, NEW i, i = <<W("index", Clean(t))>>
  PROVE  i \in Seq(WriteType) /\ \A w \in Range(i) : w.f = "index" /\ w.v.unmerged = "no"
<1>1. PICK c \in IndexType : c = Clean(t) /\ c.unmerged = "no" BY CleanIs
<1>2. PICK w \in WriteType : w = W("index", c) /\ w.f = "index" /\ w.v = c BY IndexWrite
<1> QED BY One, <1>1, <1>2

LEMMA MergeCommits ==
  ASSUME Ready, NoPendingOperation, NEW autostash \in BOOLEAN, NEW outcome \in ApplyOutcomes, NEW t \in SUBSET Patches, NEW h \in Histories,
         NEW i, i = <<W("index", Clean(t))>>, NEW m, m = <<MoveHead(h)>>, NEW c, c = ConcludeMerge(autostash, outcome, t),
         NEW a, a = OpenMerge(autostash), NEW p, p = Begun("merged", <<>>, Taken(autostash))
  PROVE  Leads((a \o i) \o (m \o c), p, Lasting) /\ Leads((a \o (i \o m)) \o c, p, Lasting)
<1>1. RepoOK(repo) BY DEF Ready
<1>2. PICK s \in Seq(WriteType), u \in Seq(WriteType) :
        a = u \o s /\ u = <<W("orig", <<Tip>>)>> /\ Stashes(s, HeldStash(autostash), Taken(autostash))
  BY <1>1, OpenMergeIs
<1>3. PICK held \in Maybe(SUBSET Locals) : held = HeldStash(autostash) BY <1>2 DEF Stashes
<1>4. PICK taken : taken = Taken(autostash) OBVIOUS
<1>5. c \in Seq(WriteType) /\ Concluding(c, held) BY <1>1, <1>3, ConcludingIs
<1>6. i \in Seq(WriteType) /\ \A w \in Range(i) : w.f = "index" /\ w.v.unmerged = "no" BY IndexIs
<1>7. m \in Seq(WriteType) /\ MovesTip(m, h) BY <1>1, MoveIs
<1>8. PICK n \in Seq(WriteType) : n = i \o m /\ Range(n) = Range(i) \cup Range(m) BY <1>6, <1>7, Join
<1>9. \A w \in Range(n) : w.f \in {"index", "branch", "head"} /\ (w.f = "index" => w.v.unmerged = "no") BY <1>6, <1>7, <1>8 DEF MovesTip
<1>10. PICK ws : ws = (u \o s) \o (n \o c) OBVIOUS
<1>11. Stashes(s, held, taken) /\ p = Begun("merged", <<>>, taken) /\ u = <<W("orig", <<Tip>>)>> BY <1>2, <1>3, <1>4
<1>12. Leads(ws, p, Lasting) BY ONLY Ready, NoPendingOperation, <1>5, <1>9, <1>10, <1>11, MergeConcludes
<1>13. a \in Seq(WriteType) BY ONLY <1>2, Join
<1>14. n \o c \in Seq(WriteType) /\ m \o c \in Seq(WriteType) BY ONLY <1>5, <1>7, Join
<1>15. (a \o i) \o (m \o c) = a \o (i \o (m \o c)) BY ONLY <1>6, <1>13, <1>14, Regrouped
<1>16. i \o (m \o c) = n \o c
  <2>1. i \in Seq(WriteType) /\ m \in Seq(WriteType) /\ c \in Seq(WriteType) BY <1>5, <1>6, <1>7
  <2>2. (i \o m) \o c = i \o (m \o c) BY ONLY <2>1, Regrouped, SMTT(40)
  <2> QED BY ONLY <1>8, <2>2
<1>17. (a \o n) \o c = a \o (n \o c) BY ONLY <1>5, <1>13, Regrouped
<1> QED BY <1>2, <1>8, <1>10, <1>12, <1>15, <1>16, <1>17

LEMMA MergeRefusedKeeps ==
  ASSUME Ready, NoPendingOperation, NEW autostash \in BOOLEAN, NEW dies \in BOOLEAN, NEW outcome \in ApplyOutcomes
  PROVE  Leads(OpenMerge(autostash) \o (IF dies THEN <<>> ELSE ApplyMergeAutostash(HeldStash(autostash), outcome, Tree(Tip))),
               Begun("refused", <<>>, Taken(autostash)), Lasting \cup (IF dies THEN {"refused"} ELSE {}))
<1>1. RepoOK(repo) /\ Lasting \in SUBSET Oddities BY NothingPending DEF Ready
<1>2. PICK a : a = OpenMerge(autostash) OBVIOUS
<1>3. PICK s \in Seq(WriteType), u \in Seq(WriteType) :
        a = u \o s /\ u = <<W("orig", <<Tip>>)>> /\ Stashes(s, HeldStash(autostash), Taken(autostash))
  BY <1>1, <1>2, OpenMergeIs
<1>4. PICK held \in Maybe(SUBSET Locals) : held = HeldStash(autostash) BY <1>3 DEF Stashes
<1>5. PICK taken : taken = Taken(autostash) OBVIOUS
<1>6. PICK p : p = Begun("refused", <<>>, taken) OBVIOUS
<1>7. PICK kind \in {"merge", "merged", "uptodate", "refused"} : kind = "refused" OBVIOUS
<1>8. PICK t \in SUBSET Patches : t = Tree(Tip) BY <1>1, TipIs
<1>9. PICK r : r = (IF dies THEN <<>> ELSE ApplyMergeAutostash(held, outcome, t)) OBVIOUS
<1>10. PICK o \in SUBSET Oddities : o = Lasting \cup (IF dies THEN {"refused"} ELSE {}) BY <1>1 DEF Oddities
<1>11. PICK ws : ws = (u \o s) \o r OBVIOUS
<1>12. Stashes(s, held, taken) /\ p = Begun(kind, <<>>, taken) /\ u = <<W("orig", <<Tip>>)>> /\ Lasting \subseteq o
  BY <1>3, <1>4, <1>5, <1>6, <1>7, <1>10
<1>13. /\ r \in Seq(WriteType) /\ \A w \in Range(r) : w.f \in MergeNames /\ (w.f = "index" => w.v.unmerged # "merge")
       /\ Late(r, "merge", None) = None
       /\ "refused" \in o \/ (Late(r, "mergeStash", held) = None /\ Saves(r, Held(held)))
  <2>1. CASE dies
    <3>1. r = <<>> /\ "refused" \in o BY <1>9, <1>10, <2>1
    <3> QED BY <3>1, NoneIs
  <2>2. CASE ~dies
    <3>1. r = ApplyMergeAutostash(held, outcome, t) BY <1>9, <2>2
    <3>2. r \in Seq(WriteType) /\ Unstashes(r, held, t) BY ONLY <3>1, UnstashesIs
    <3>3. \A w \in Range(r) : w.f \in MergeNames /\ (w.f = "index" => w.v.unmerged # "merge")
      <4>1. Range(r) \subseteq {W("mergeStash", None), W("restore", held[1]), W("push", held[1]), W("index", Unmerged(t, t, "stash"))} BY <3>2 DEF Unstashes
      <4> QED BY ONLY <4>1 DEF W, MergeNames, Unmerged
    <3>5. "merge" \in Fields /\ "mergeStash" \in Fields BY FieldsAre
    <3>6. Saves(r, Held(held)) BY <3>2 DEF Unstashes
    <3> QED BY <3>2, <3>3, <3>5, <3>6 DEF Unstashes
  <2> QED BY <2>1, <2>2
<1>131. r \in Seq(WriteType) /\ \A w \in Range(r) : w.f \in MergeNames BY <1>13
<1>132. \A w \in Range(r) : w.f = "index" => w.v.unmerged # "merge" BY <1>13
<1>133. kind = "merge" \/ Late(r, "merge", None) = None BY <1>13
<1>134. \/ "refused" \in o
        \/ Late(r, "mergeStash", held) = None /\ Saves(r, Held(held))
        \/ Late(r, "mergeStash", held) = held /\ Late(r, "merge", None) # None
  BY <1>13
<1>14. Leads(ws, p, o) BY ONLY Ready, NoPendingOperation, <1>11, <1>12, <1>131, <1>132, <1>133, <1>134, MergeGoesClean
<1> QED BY <1>2, <1>3, <1>4, <1>5, <1>6, <1>8, <1>9, <1>10, <1>11, <1>14

\* The two writes that record a merge.
LEMMA MarkIs ==
  ASSUME NEW k, k = <<W("merge", <<Upstream>>), W("message", <<"merge">>)>>
  PROVE  /\ k \in Seq(WriteType) /\ \A w \in Range(k) : w.f \in {"merge", "message"} /\ w.v # None
         /\ \A f, x : Late(k, f, x) = IF f = "merge" THEN <<Upstream>> ELSE IF f = "message" THEN <<"merge">> ELSE x
<1>1. PICK v \in WriteType : v = W("merge", <<Upstream>>) /\ v.f = "merge" /\ v.v = <<Upstream>>
  <2>1. <<Upstream>> \in Maybe(Histories) BY HistoriesAssumption, MaybeIs
  <2> QED BY <2>1, WriteIs, KindsAre, FieldsAre DEF HistoryFiles
<1>2. PICK w \in WriteType : w = W("message", <<"merge">>) /\ w.f = "message" /\ w.v = <<"merge">>
  <2>2. <<"merge">> \in Kind("message") BY KindsAre, MaybeIs
  <2>3. "message" \in Fields \cup Dirs BY FieldsAre
  <2> QED BY <2>2, <2>3, WriteIs
<1>3. PICK l : l = <<v, w>> OBVIOUS
<1>4. l \in Seq(WriteType) /\ Range(l) = {v, w} /\ \A f, x : Late(l, f, x) = Put(w, f, Put(v, f, x)) BY <1>3, Two
<1>5. k = l BY <1>1, <1>2, <1>3
<1>6. \A f, x : Put(v, f, x) = IF f = "merge" THEN <<Upstream>> ELSE x BY ONLY <1>1, PutIs
<1>7. \A f, x : Put(w, f, x) = IF f = "message" THEN <<"merge">> ELSE x BY ONLY <1>2, PutIs
<1>8. \A f, x : Late(l, f, x) = Put(w, f, Put(v, f, x)) BY <1>4
<1>9. \A f, x : Late(l, f, x) = IF f = "merge" THEN <<Upstream>> ELSE IF f = "message" THEN <<"merge">> ELSE x BY ONLY <1>6, <1>7, <1>8
<1>10. v.v # None /\ w.v # None BY <1>1, <1>2, Something
<1> QED BY <1>1, <1>2, <1>10, <1>4, <1>5, <1>9

LEMMA MergeStopsKeeps ==
  ASSUME Ready, NoPendingOperation, NEW autostash \in BOOLEAN, NEW t \in SUBSET Patches
  PROVE  Leads(OpenMerge(autostash) \o <<W("index", Clean(t))>> \o <<W("merge", <<Upstream>>), W("message", <<"merge">>)>>,
               Begun("merge", <<>>, Taken(autostash)), Lasting)
<1>1. RepoOK(repo) BY DEF Ready
<1>2. PICK a : a = OpenMerge(autostash) OBVIOUS
<1>3. PICK s \in Seq(WriteType), u \in Seq(WriteType) :
        a = u \o s /\ u = <<W("orig", <<Tip>>)>> /\ Stashes(s, HeldStash(autostash), Taken(autostash))
  BY <1>1, <1>2, OpenMergeIs
<1>4. PICK held \in Maybe(SUBSET Locals) : held = HeldStash(autostash) BY <1>3 DEF Stashes
<1>5. PICK taken : taken = Taken(autostash) OBVIOUS
<1>6. PICK p : p = Begun("merge", <<>>, taken) OBVIOUS
<1>7. PICK kind \in {"merge", "merged", "uptodate", "refused"} : kind = "merge" OBVIOUS
<1>8. PICK o \in SUBSET Oddities : o = Lasting BY NothingPending
<1>9. PICK i : i = <<W("index", Clean(t))>> OBVIOUS
<1>10. PICK k : k = <<W("merge", <<Upstream>>), W("message", <<"merge">>)>> OBVIOUS
<1>11. i \in Seq(WriteType) /\ \A w \in Range(i) : w.f = "index" /\ w.v.unmerged = "no" BY <1>9, IndexIs
<1>12. k \in Seq(WriteType) /\ \A w \in Range(k) : w.f \in {"merge", "message"} /\ w.v # None BY ONLY <1>10, MarkIs
<1>13. \A f, x : Late(k, f, x) = IF f = "merge" THEN <<Upstream>> ELSE IF f = "message" THEN <<"merge">> ELSE x BY ONLY <1>10, MarkIs
<1>14. PICK r \in Seq(WriteType) : r = i \o k /\ Range(r) = Range(i) \cup Range(k) /\ \A f, x : Late(r, f, x) = Late(k, f, Late(i, f, x)) BY ONLY <1>11, <1>12, Join, ZenonT(60)
<1>15. \A w \in Range(r) : w.f \in MergeNames /\ (w.f = "index" => w.v.unmerged # "merge") BY <1>11, <1>12, <1>14 DEF MergeNames
<1>16. \A x : Late(i, "mergeStash", x) = x
  <2>1. \A w \in Range(i) : ~Touches(w, "mergeStash")
    <3>1. \A w \in Range(i) : Files(w.f) = {w.f} BY ONLY <1>11, FilesAre
    <3> QED BY <1>11, <3>1 DEF Touches
  <2> QED BY ONLY <1>11, <2>1, Unnamed
<1>17. Late(r, "merge", None) # None /\ Late(r, "mergeStash", held) = held
  <2>1. Late(r, "merge", None) = <<Upstream>> BY <1>13, <1>14
  <2>2. Late(r, "mergeStash", held) = held BY <1>13, <1>14, <1>16
  <2> QED BY <2>1, <2>2, Something
<1>18. PICK ws : ws = (u \o s) \o r OBVIOUS
<1>19. Stashes(s, held, taken) /\ p = Begun(kind, <<>>, taken) /\ u = <<W("orig", <<Tip>>)>> /\ Lasting \subseteq o /\ kind = "merge"
  BY <1>3, <1>4, <1>5, <1>6, <1>7, <1>8
<1>20. Leads(ws, p, o) BY ONLY Ready, NoPendingOperation, <1>15, <1>17, <1>18, <1>19, MergeGoesClean
<1>21. a \in Seq(WriteType) BY ONLY <1>3, Join
<1>22. (a \o i) \o k = a \o (i \o k) BY ONLY <1>11, <1>12, <1>21, Regrouped, ZenonT(60)
<1>23. ws = (a \o i) \o k BY ONLY <1>3, <1>14, <1>18, <1>22
<1>24. Leads((a \o i) \o k, Begun("merge", <<>>, Taken(autostash)), Lasting) BY ONLY <1>5, <1>6, <1>8, <1>20, <1>23
<1> QED BY <1>2, <1>9, <1>10, <1>24

\* MERGE_HEAD is written before the index that has its conflict.
LEMMA UnmergedMarked ==
  ASSUME repo.index.unmerged # "merge", NEW a \in Seq(WriteType), NEW b \in Seq(WriteType),
         \A w \in Range(a) : w.f = "index" => w.v.unmerged # "merge", W("merge", None) \notin Range(a) \cup Range(b),
         Len(b) >= 1, b[1].f = "merge", b[1].v # None
  PROVE  UnmergedAt(repo, a \o b)
<1>1. PICK c \in Seq(WriteType) : c = a \o b /\ Range(c) = Range(a) \cup Range(b) BY Join
<1>2. PICK n \in Nat : n = Len(a) BY LenProperties
<1>3. Len(b) \in Nat /\ Len(c) = n + Len(b) /\ DOMAIN c = 1 .. Len(c) /\ DOMAIN a = 1 .. n BY <1>1, <1>2, ConcatProperties, LenProperties
<1>4. \A i \in 1 .. n : c[i] = a[i] BY <1>1, <1>2
<1>5. n + 1 \in DOMAIN c /\ c[n + 1] = b[1]
  <2>1. n + 1 \in 1 .. n + Len(b) BY <1>3
  <2>2. c[n + 1] = b[1] BY <1>1, <1>2, <1>3, <2>1
  <2> QED BY <1>3, <2>1, <2>2
<1>6. \A j \in DOMAIN c : c[j] \in Range(c) BY DEF Range
<1>7. ASSUME NEW j \in DOMAIN c, c[j].f = "index", c[j].v.unmerged = "merge" PROVE n + 1 < j
  <2>1. j \notin 1 .. n
    <3>1. \A i \in 1 .. n : a[i] \in Range(a) BY <1>3 DEF Range
    <3> QED BY <1>4, <1>7, <3>1
  <2>2. j # n + 1 BY <1>5, <1>7
  <2>3. j \in Nat /\ j >= 1 BY <1>1, LenProperties
  <2> QED BY <2>1, <2>2, <2>3
<1>9. UnmergedAt(repo, c) BY <1>5, <1>7, <1>1, <1>6 DEF UnmergedAt
<1> QED BY <1>1, <1>9

LEMMA MergeConflictKeeps ==
  ASSUME Ready, NoPendingOperation, NEW autostash \in BOOLEAN
  PROVE  Leads(OpenMerge(autostash) \o WriteConflictState, Begun("merge", <<>>, Taken(autostash)), Lasting)
<1>1. RepoOK(repo) BY DEF Ready
<1>2. PICK a : a = OpenMerge(autostash) OBVIOUS
<1>3. PICK s \in Seq(WriteType), u \in Seq(WriteType) :
        a = u \o s /\ u = <<W("orig", <<Tip>>)>> /\ Stashes(s, HeldStash(autostash), Taken(autostash))
  BY <1>1, <1>2, OpenMergeIs
<1>4. PICK held \in Maybe(SUBSET Locals) : held = HeldStash(autostash) BY <1>3 DEF Stashes
<1>5. PICK taken : taken = Taken(autostash) OBVIOUS
<1>6. PICK p : p = Begun("merge", <<>>, taken) OBVIOUS
<1>7. PICK kind \in {"merge", "merged", "uptodate", "refused"} : kind = "merge" OBVIOUS
<1>8. PICK o \in SUBSET Oddities : o = Lasting BY NothingPending
<1>9. PICK v \in WriteType : v = W("merge", <<Upstream>>) /\ v.f = "merge" /\ v.v = <<Upstream>>
  <2>1. <<Upstream>> \in Maybe(Histories) BY HistoriesAssumption, MaybeIs
  <2> QED BY <2>1, WriteIs, KindsAre, FieldsAre DEF HistoryFiles
<1>10. PICK w \in WriteType : w = W("message", <<"merge">>) /\ w.f = "message"
  <2>2. <<"merge">> \in Kind("message") BY KindsAre, MaybeIs
  <2>3. "message" \in Fields \cup Dirs BY FieldsAre
  <2> QED BY <2>2, <2>3, WriteIs
<1>11. PICK y \in WriteType : y = W("index", Unmerged(Tree(Tip), MergedTree, "merge")) /\ y.f = "index"
  <2>1. PICK t \in SUBSET Patches : t = Tree(Tip) BY <1>1, TipIs
  <2>2. PICK m \in SUBSET Patches : m = MergedTree /\ t \subseteq m
    <3>1. Tree(Upstream) \in SUBSET Patches BY HistoriesAssumption, HistoryIs
    <3> QED BY <2>1, <3>1 DEF MergedTree
  <2>3. PICK x \in IndexType : x = Unmerged(t, m, "merge") BY <2>2, UnmergedIs
  <2> QED BY <2>1, <2>2, <2>3, IndexWrite
<1>12. PICK r : r = WriteConflictState OBVIOUS
<1>13. r = <<v, w, y>> BY <1>9, <1>10, <1>11, <1>12 DEF WriteConflictState
<1>14. r \in Seq(WriteType) /\ Range(r) = {v, w, y} BY ONLY <1>13, Three
<1>15. \A f, x : Late(r, f, x) = Put(y, f, Put(w, f, Put(v, f, x))) BY ONLY <1>13, Three
<1>16. Len(r) >= 1 /\ r[1] = v BY ONLY <1>13
<1>17. /\ \A f, x : Put(v, f, x) = IF f = "merge" THEN <<Upstream>> ELSE x
       /\ \A f, x : Put(w, f, x) = IF f = "message" THEN <<"merge">> ELSE x
       /\ \A f, x : f # "index" => Put(y, f, x) = x
  <2>1. \A f, x : Put(v, f, x) = IF f = "merge" THEN <<Upstream>> ELSE x BY ONLY <1>9, PutIs
  <2>2. \A f, x : Put(w, f, x) = IF f = "message" THEN <<"merge">> ELSE x BY ONLY <1>10, PutIs
  <2>3. \A f, x : f # "index" => Put(y, f, x) = x BY ONLY <1>11, PutIs
  <2> QED BY <2>1, <2>2, <2>3
<1>18. Late(r, "merge", None) # None /\ Late(r, "mergeStash", held) = held
  <2>1. Late(r, "merge", None) = <<Upstream>> BY ONLY <1>15, <1>17
  <2>2. Late(r, "mergeStash", held) = held BY ONLY <1>15, <1>17
  <2> QED BY <2>1, <2>2, Something
<1>19. \A x \in Range(r) : x.f \in MergeNames BY <1>9, <1>10, <1>11, <1>14 DEF MergeNames
<1>20. v.v # None BY <1>9, Something
<1>21. PICK ws : ws = (u \o s) \o r OBVIOUS
<1>22. UnmergedAt(repo, ws)
  <2>1. \A x \in Range(u) : x.f = "orig" BY <1>1, <1>3, OrigIs
  <2>2. \A x \in Range(s) : x.f \in {"index", "dirty", "mergeStash"} /\ (x.f = "index" => x.v.unmerged = "no") BY <1>3 DEF Stashes
  <2>3. a \in Seq(WriteType) /\ Range(a) = Range(u) \cup Range(s) BY ONLY <1>3, Join
  <2>4. W("merge", None).f = "merge" /\ W("merge", None).v = None BY DEF W
  <2>5. W("merge", None) \notin Range(a) \cup Range(r) BY <1>9, <1>10, <1>11, <1>14, <1>20, <2>1, <2>2, <2>3, <2>4
  <2>6. \A x \in Range(a) : x.f = "index" => x.v.unmerged # "merge" BY <2>1, <2>2, <2>3
  <2>7. repo.index.unmerged # "merge" BY NothingPending
  <2>8. r[1].f = "merge" /\ r[1].v # None BY <1>9, <1>16, <1>20
  <2>9. UnmergedAt(repo, a \o r) BY ONLY <1>14, <1>16, <2>3, <2>5, <2>6, <2>7, <2>8, UnmergedMarked
  <2> QED BY <1>3, <1>21, <2>9
<1>23. Stashes(s, held, taken) /\ p = Begun(kind, <<>>, taken) /\ u = <<W("orig", <<Tip>>)>> /\ Lasting \subseteq o /\ kind = "merge"
  BY <1>3, <1>4, <1>5, <1>6, <1>7, <1>8
<1>24. Leads(ws, p, o) BY ONLY Ready, NoPendingOperation, <1>14, <1>18, <1>19, <1>21, <1>22, <1>23, MergeGoes
<1> QED BY <1>2, <1>3, <1>5, <1>6, <1>8, <1>12, <1>21, <1>24

\* merge --abort: the autostash is taken, then the index and the branch go back,
TakesBack(a, h, t) ==
  /\ \A w \in Range(a) : w.f \in {"mergeStash", "index", "branch"} /\ (w.f = "index" => w.v.unmerged = "no") /\ (w.f = "mergeStash" => w.v = None)
  /\ \E w \in Range(a) : w.f = "index"
  /\ \A x : Late(a, "index", x) = Clean(t)
  /\ \A x : Late(a, "branch", x) = h
  /\ Late(a, "mergeStash", repo.mergeStash) = None
  /\ \A f \in Fields \ {"mergeStash", "index", "branch"} : \A x : Late(a, f, x) = x
LEMMA TakesBackIs ==
  ASSUME RepoOK(repo), repo.head = None, NEW h \in Histories, NEW t, t = Tree(h),
         NEW a, a = (IF repo.mergeStash = None THEN <<>> ELSE <<W("mergeStash", None)>>) \o <<W("index", Clean(t)), MoveHead(h)>>
  PROVE  a \in Seq(WriteType) /\ TakesBack(a, h, t)
<1>1. PICK v \in WriteType : v = W("mergeStash", None) /\ v.f = "mergeStash" /\ v.v = None BY Removal
<1>2. t \in SUBSET Patches BY HistoryIs
<1>3. PICK i \in WriteType : i = W("index", Clean(t)) /\ i.f = "index" /\ i.v.unmerged = "no"
  <2>1. PICK c \in IndexType : c = Clean(t) /\ c.unmerged = "no" BY <1>2, CleanIs
  <2> QED BY <2>1, IndexWrite
<1>4. PICK m \in WriteType : m = W("branch", h) /\ m.f = "branch" /\ m = MoveHead(h)
  <2>2. W("branch", h).f = "branch" BY DEF W
  <2> QED BY MoveHeadIs, <2>2
<1>5. PICK x : x = (IF repo.mergeStash = None THEN <<>> ELSE <<v>>) OBVIOUS
<1>6. /\ x \in Seq(WriteType) /\ Range(x) \subseteq {v}
      /\ \A f \in Fields \ {"mergeStash"} : \A z : Late(x, f, z) = z
      /\ Late(x, "mergeStash", repo.mergeStash) = None
  <2>1. CASE repo.mergeStash = None BY <1>5, <2>1, NoneIs
  <2>2. CASE repo.mergeStash # None
    <3>1. x = <<v>> BY <1>5, <2>2
    <3>2. x \in Seq(WriteType) /\ Range(x) = {v} /\ \A f, z : Late(x, f, z) = Put(v, f, z) BY ONLY <3>1, One
    <3>3. \A f, z : Put(v, f, z) = IF f = "mergeStash" THEN None ELSE z BY ONLY <1>1, PutIs
    <3>4. \A f, z : Late(x, f, z) = Put(v, f, z) BY <3>2
    <3>5. \A f, z : Late(x, f, z) = IF f = "mergeStash" THEN None ELSE z BY ONLY <3>3, <3>4
    <3> QED BY <3>2, <3>5
  <2> QED BY <2>1, <2>2
<1>7. PICK y : y = <<i, m>> OBVIOUS
<1>8. y \in Seq(WriteType) /\ Range(y) = {i, m} /\ \A f, z : Late(y, f, z) = Put(m, f, Put(i, f, z)) BY ONLY <1>7, Two
<1>9. /\ \A f, z : Put(i, f, z) = IF f = "index" THEN Clean(t) ELSE z
      /\ \A f, z : Put(m, f, z) = IF f = "branch" THEN h ELSE z
  <2>1. \A f, z : Put(i, f, z) = IF f = "index" THEN Clean(t) ELSE z BY ONLY <1>3, PutIs
  <2>2. \A f, z : Put(m, f, z) = IF f = "branch" THEN h ELSE z BY ONLY <1>4, PutIs
  <2> QED BY <2>1, <2>2
<1>10. \A f, z : Late(y, f, z) = IF f = "branch" THEN h ELSE IF f = "index" THEN Clean(t) ELSE z
  <2>1. \A f, z : Late(y, f, z) = Put(m, f, Put(i, f, z)) BY <1>8
  <2> QED BY ONLY <1>9, <2>1
<1>11. a = x \o y BY <1>1, <1>3, <1>4, <1>5, <1>7
<1>12. a \in Seq(WriteType) /\ Range(a) = Range(x) \cup Range(y) BY ONLY <1>6, <1>8, <1>11, Join
<1>13. \A f, z : Late(a, f, z) = Late(y, f, Late(x, f, z))
  <2>1. x \in Seq(WriteType) /\ y \in Seq(WriteType) BY <1>6, <1>8
  <2> QED BY ONLY <1>11, <2>1, Join
<1>14. \A w \in Range(a) : w.f \in {"mergeStash", "index", "branch"} /\ (w.f = "index" => w.v.unmerged = "no") /\ (w.f = "mergeStash" => w.v = None)
  <2>1. Range(a) \subseteq {v, i, m} BY ONLY <1>6, <1>8, <1>12
  <2> QED BY ONLY <1>1, <1>3, <1>4, <2>1
<1>15. \E w \in Range(a) : w.f = "index" BY ONLY <1>3, <1>8, <1>12
<1>16. \A z : Late(a, "index", z) = Clean(t) BY ONLY <1>10, <1>13
<1>17. \A z : Late(a, "branch", z) = h BY ONLY <1>10, <1>13
<1>18. Late(a, "mergeStash", repo.mergeStash) = None BY ONLY <1>6, <1>10, <1>13
<1>19. \A f \in Fields \ {"mergeStash", "index", "branch"} : \A z : Late(a, f, z) = z
  <2>1. \A f \in Fields \ {"mergeStash"} : \A z : Late(x, f, z) = z BY <1>6
  <2> QED BY ONLY <1>10, <1>13, <2>1
<1>20. TakesBack(a, h, t) BY <1>14, <1>15, <1>16, <1>17, <1>18, <1>19 DEF TakesBack
<1> QED BY <1>12, <1>20

\* the markers are removed, and the autostash is applied.
Brings(y, held, t) ==
  /\ \A w \in Range(y) : w.f \in {"restore", "push", "index"} /\ (w.f = "index" => w.v.unmerged = "stash")
  /\ Saves(y, Held(held))
  /\ \A f \in Fields : \A x : f # "index" => Late(y, f, x) = x
  /\ \A x : Late(y, "index", x) \in {x, Unmerged(t, t, "stash")}
LEMMA BringsIs ==
  ASSUME NEW held \in Maybe(SUBSET Locals), NEW outcome \in ApplyOutcomes, NEW t \in SUBSET Patches,
         NEW y, y = (IF held = None THEN <<>> ELSE ApplyAutostash(held[1], outcome, t))
  PROVE  y \in Seq(WriteType) /\ Brings(y, held, t)
<1>1. CASE held = None
  <2>1. y = <<>> /\ Held(held) = {} BY <1>1 DEF Held
  <2>2. y \in Seq(WriteType) /\ Range(y) = {} /\ \A f, x : Late(y, f, x) = x BY ONLY <2>1, NoneIs
  <2>3. Saves(y, Held(held)) BY <2>1, SavesNothing
  <2> QED BY <2>2, <2>3 DEF Brings
<1>2. CASE held # None
  <2>1. PICK e \in SUBSET Locals : e = held[1] /\ Held(held) = e BY <1>2, MaybeIs DEF Held
  <2>2. y = ApplyAutostash(e, outcome, t) BY <1>2, <2>1
  <2>3. PICK z : z = ApplyAutostash(e, outcome, t) OBVIOUS
  <2>4. /\ z \in Seq(WriteType) /\ Saves(z, e)
        /\ Range(z) \subseteq {W("restore", e), W("push", e), W("index", Unmerged(t, t, "stash"))}
        /\ \A f \in Fields : \A x : f # "index" => Late(z, f, x) = x
        /\ \A x : Late(z, "index", x) \in {x, Unmerged(t, t, "stash")}
    BY ONLY <2>3, ApplyIs, ZenonT(60)
  <2>5. Range(z) \subseteq {W("restore", e), W("push", e), W("index", Unmerged(t, t, "stash"))} BY <2>4
  <2>6. \A w \in Range(z) : w.f \in {"restore", "push", "index"} /\ (w.f = "index" => w.v.unmerged = "stash") BY ONLY <2>5 DEF W, Unmerged
  <2>7. Brings(z, held, t) BY <2>1, <2>4, <2>6 DEF Brings
  <2> QED BY <2>2, <2>3, <2>4, <2>7
<1> QED BY <1>1, <1>2

\* In between.
Clears(b) ==
  /\ \A w \in Range(b) : w.f \in {"pick", "revert", "sequencer", "merge", "message"} /\ w.v = None
  /\ \A f \in Fields : \A x : Late(b, f, x) =
       IF \/ f \in {"pick", "revert", "merge", "message"} /\ repo[f] # None
          \/ f \in SequencerDir /\ CleanupErases
       THEN None ELSE x
LEMMA ClearsIs ==
  ASSUME NEW b, b = RemoveBranchState(None)
  PROVE  b \in Seq(WriteType) /\ Clears(b)
<1>1. PICK none \in Maybe(SUBSET Locals) : none = None BY MaybeIs
<1>2. PICK c : c = RemoveBranchState(none) OBVIOUS
<1>3. /\ c \in Seq(WriteType)
      /\ Range(c) \subseteq {W(f, None) : f \in {"pick", "revert", "sequencer", "merge", "message"}}
                            \cup (IF none = None THEN {} ELSE {W("mergeStash", None), W("push", none[1])})
      /\ none # None => W("push", none[1]) \in Range(c)
      /\ \A f \in Fields : \A x : Late(c, f, x) =
           IF \/ f \in {"pick", "revert", "merge", "message"} /\ repo[f] # None
              \/ f \in SequencerDir /\ CleanupErases
              \/ f = "mergeStash" /\ none # None
           THEN None ELSE x
  BY ONLY <1>2, RemoveBranchIs
<1>4. Range(c) \subseteq {W(f, None) : f \in {"pick", "revert", "sequencer", "merge", "message"}} BY <1>1, <1>3
<1>5. \A f, v : W(f, v).f = f /\ W(f, v).v = v BY DEF W
<1>6. \A w \in Range(c) : w.f \in {"pick", "revert", "sequencer", "merge", "message"} /\ w.v = None BY ONLY <1>4, <1>5
<1>8. Clears(c) BY <1>1, <1>3, <1>6 DEF Clears
<1> QED BY <1>1, <1>2, <1>3, <1>8

LEMMA MergeAbortGoes ==
  ASSUME Ready, repo.merge # None, repo.orig # None, repo.head = None, NEW h, h = repo.orig[1], NEW t, t = Tree(h),
         NEW a \in Seq(WriteType), TakesBack(a, h, t), NEW b \in Seq(WriteType), Clears(b),
         NEW y \in Seq(WriteType), Brings(y, repo.mergeStash, t), NEW ws, ws = (a \o b) \o y, NEW p, p = [plan EXCEPT !.kind = "aborted"]
  PROVE  Leads(ws, p, odd)
<1>1. RepoOK(repo) /\ plan \in PlanType /\ odd \in SUBSET Oddities BY DEF Ready
<1>2. p \in PlanType /\ p.kind = "aborted" /\ p.start = plan.start /\ p.local = plan.local BY <1>1 DEF PlanType
<1>3. PICK c \in Seq(WriteType) : c = b \o y /\ Range(c) = Range(b) \cup Range(y) BY Join
<1>4. \A f, x : Late(c, f, x) = Late(y, f, Late(b, f, x)) BY ONLY <1>3, Join
<1>5. ws = a \o c BY <1>3, Regrouped
<1>51. /\ a \o c \in Seq(WriteType) /\ Range(a \o c) = Range(a) \cup Range(c)
       /\ \A f, x : Late(a \o c, f, x) = Late(c, f, Late(a, f, x))
  BY ONLY Join
<1>6. ws \in Seq(WriteType) /\ Range(ws) = Range(a) \cup Range(c) BY ONLY <1>5, <1>51
<1>7. \A f, x : Late(ws, f, x) = Late(c, f, Late(a, f, x)) BY ONLY <1>5, <1>51
<1>8. PICK A : A = Then(repo, ws) OBVIOUS
<1>9. \A f \in Fields : A[f] = Late(ws, f, repo[f]) BY <1>8, ThenIs
<1>10. \A f \in Fields \ {"index"} : A[f] = Late(b, f, Late(a, f, repo[f]))
  <2>1. \A f \in Fields : \A x : f # "index" => Late(y, f, x) = x BY DEF Brings
  <2> QED BY ONLY <1>4, <1>7, <1>9, <2>1
<1>11. \A f \in Fields : \A x : Late(b, f, x) =
         IF \/ f \in {"pick", "revert", "merge", "message"} /\ repo[f] # None
            \/ f \in SequencerDir /\ CleanupErases
         THEN None ELSE x
  BY DEF Clears
<1>12. \A f \in Fields \ {"mergeStash", "index", "branch"} : A[f] = Late(b, f, repo[f])
  <2>1. \A f \in Fields \ {"mergeStash", "index", "branch"} : \A x : Late(a, f, x) = x BY DEF TakesBack
  <2> QED BY ONLY <1>10, <2>1
<1>13. \A f \in {"pick", "revert", "merge", "message"} : A[f] = None
  <2>1. {"pick", "revert", "merge", "message"} \subseteq Fields \ {"mergeStash", "index", "branch"} BY FieldsAre
  <2>2. \A f \in {"pick", "revert", "merge", "message"} : f \notin SequencerDir BY DEF SequencerDir
  <2> QED BY ONLY <1>11, <1>12, <2>1, <2>2
<1>14. (\A f \in SequencerDir : A[f] = repo[f]) \/ (\A f \in SequencerDir : A[f] = None)
  <2>1. SequencerDir \subseteq Fields \ {"mergeStash", "index", "branch"} BY FieldsAre DEF SequencerDir
  <2>2. SequencerDir \cap {"pick", "revert", "merge", "message"} = {} BY DEF SequencerDir
  <2> QED BY ONLY <1>11, <1>12, <2>1, <2>2
<1>15. \A f \in {"rebase", "rbStash", "head"} \cup RebasePart : A[f] = repo[f]
  <2>1. PICK G : G = {"rebase", "rbStash", "head"} \cup RebasePart OBVIOUS
  <2>2. G \subseteq Fields \ {"mergeStash", "index", "branch"} BY <2>1, FieldsAre DEF RebasePart
  <2>3. G \cap {"pick", "revert", "merge", "message"} = {} /\ G \cap SequencerDir = {} BY <2>1 DEF SequencerDir, RebasePart
  <2>4. \A f \in G : A[f] = repo[f] BY ONLY <1>11, <1>12, <2>2, <2>3
  <2> QED BY <2>1, <2>4
<1>16. A.mergeStash = None /\ A.branch = h
  <2>1. {"mergeStash", "branch"} \subseteq Fields \ {"index"} BY FieldsAre
  <2>3. Late(a, "mergeStash", repo.mergeStash) = None /\ Late(a, "branch", repo.branch) = h BY DEF TakesBack
  <2>4. \A f \in {"mergeStash", "branch"} : \A x : Late(b, f, x) = x BY <1>11, <2>1 DEF SequencerDir
  <2>5. A.mergeStash = Late(b, "mergeStash", Late(a, "mergeStash", repo.mergeStash)) /\ A.branch = Late(b, "branch", Late(a, "branch", repo.branch))
    BY <1>10, <2>1
  <2> QED BY <2>3, <2>4, <2>5
<1>17. A.index.tree = t /\ A.index.both = t /\ A.index.unmerged \in {"no", "stash"}
  <2>1. "index" \in Fields /\ "index" \notin {"pick", "revert", "merge", "message"} \cup SequencerDir BY FieldsAre DEF SequencerDir
  <2>2. Late(a, "index", repo.index) = Clean(t) BY DEF TakesBack
  <2>3. \A x : Late(b, "index", x) = x BY <1>11, <2>1
  <2>4. \A x : Late(y, "index", x) \in {x, Unmerged(t, t, "stash")} BY DEF Brings
  <2>5. A.index = Late(y, "index", Late(b, "index", Late(a, "index", repo.index))) BY <1>4, <1>7, <1>9, <2>1
  <2>6. A.index \in {Clean(t), Unmerged(t, t, "stash")} BY ONLY <2>2, <2>3, <2>4, <2>5
  <2> QED BY <2>6 DEF Clean, Unmerged
<1>18. RebaseKept(A) /\ SeqKept(A) /\ StashedAt(A, odd)
  <2>1. StashedAt(repo, odd) BY AtRest DEF Ready
  <2>2. MergeStashKept(A) /\ RebaseStashKept(A) BY <1>15, <1>16 DEF MergeStashKept, RebaseStashKept
  <2>3. RebaseKept(A) /\ SeqKept(A) BY <1>14, <1>15 DEF RebaseKept, SeqKept
  <2> QED BY <2>1, <2>2, <2>3, StashedKept
<1>19. \A w \in Range(a) : w.f \in {"mergeStash", "index", "branch"} /\ (w.f = "index" => w.v.unmerged = "no") BY DEF TakesBack
<1>20. \A w \in Range(b) : w.f \in {"pick", "revert", "sequencer", "merge", "message"} /\ w.v = None BY DEF Clears
<1>21. \A w \in Range(y) : w.f \in {"restore", "push", "index"} /\ (w.f = "index" => w.v.unmerged = "stash") BY DEF Brings
<1>22. MergeAt(repo, ws, p, odd)
  <2>1. MergeAt(repo, <<>>, plan, odd) BY AtRest DEF Ready
  <2>2. \A f \in {"merge", "pick", "revert", "seqHead", "seqTodo"} : Blank(ws, f) BY <1>3, <1>6, <1>19, <1>20, <1>21 DEF Blank
  <2>3. \A w \in Range(ws) : w.f # "orig" BY <1>3, <1>6, <1>19, <1>20, <1>21
  <2> QED BY <1>2, <2>1, <2>2, <2>3, MergeGoesOn
<1>23. UnmergedAt(repo, ws)
  <2>1. UnmergedAt(repo, <<>>) BY AtRest DEF Ready
  <2>2. \A w \in Range(a) \cup Range(c) : w.f = "index" => w.v.unmerged # "merge" BY <1>3, <1>19, <1>20, <1>21
  <2>3. W("merge", None) \notin Range(a)
    <3>1. W("merge", None).f = "merge" BY DEF W
    <3> QED BY <1>19, <3>1
  <2>4. \E w \in Range(a) : w.f = "index" BY DEF TakesBack
  <2> QED BY <1>3, <1>5, <2>1, <2>2, <2>3, <2>4, UnmergedAfter
<1>24. RebaseAt(repo, ws, p, odd) BY <1>2, RebaseOther
<1>25. TidyAt(A, p, odd)
  <2>1. SUFFICES ASSUME odd \cap {"crash", "stale", "crossed", "reset", "refused"} = {} PROVE Restored(A, p) BY <1>2 DEF TidyAt
  <2>2. TidyAt(repo, plan, odd) /\ MergeAt(repo, <<>>, plan, odd) /\ WholeAt(repo, odd) /\ StashedAt(repo, odd) BY AtRest DEF Ready
  <2>3. plan.kind = "merge"
    <3>2. plan.kind # "aborted"
      <4> QED BY <2>1, <2>2 DEF StateFiles, TidyAt, Restored
    <3> QED BY <2>1, <2>2, <1>1, <3>2 DEF PlanType, TidyAt
  <2>4. repo.pick = None /\ repo.revert = None /\ repo.rebase = None /\ repo.seqHead = None /\ repo.rbOrig = None BY <2>1, <2>2, <2>3 DEF TidyAt
  <2>5. repo.seqTodo = None /\ repo.seqSafety = None /\ repo.seqOpts = None BY <2>1, <2>2, <2>4 DEF WholeAt
  <2>7. repo.rbStash = None BY <2>1, <2>2, <2>4 DEF StashedAt
  <2>8. h = plan.start
    <3>1. repo.orig = <<plan.start>> BY <2>1, <2>2 DEF MergeAt
    <3> QED BY <3>1
  <2>10. A.rbOrig = None /\ A.rbOnto = None /\ A.rbTodo = None /\ A.rbDone = None /\ A.rbMessage = None /\ A.rbStash = None /\ A.rebase = None /\ A.head = None
    BY <2>1, <2>2, <1>15, <2>4, <2>7 DEF RebasePart, WholeAt
  <2>11. \A f \in StateFiles : A[f] = None BY <1>14, <2>4, <2>5, <1>13, <1>16, <2>10 DEF StateFiles, SequencerDir
  <2> QED BY <1>2, <1>16, <2>8, <2>10, <1>17, <2>11 DEF Restored
<1>26. Safe(repo, ws, repo.dirty) /\ Safe(repo, ws, Held(repo.mergeStash)) /\ Safe(repo, ws, Held(repo.rbStash))
  <2>1. \A w \in Range(ws) : w.f # "dirty" BY <1>3, <1>6, <1>19, <1>20, <1>21
  <2>2. Saves(y, Held(repo.mergeStash)) BY DEF Brings
  <2>3. Saves(c, Held(repo.mergeStash)) BY <1>3, <2>2, SavesJoin
  <2>4. Saves(ws, Held(repo.mergeStash)) BY <1>5, <2>3, SavesJoin
  <2>6. Late(ws, "rbStash", repo.rbStash) = repo.rbStash BY <1>9, FieldsAre, <1>15
  <2> QED BY <1>1, <1>6, <2>1, <2>4, <2>6, SafeIs
<1>27. p.local \subseteq plan.local \cup {} /\ Safe(repo, ws, {}) /\ odd \cap {"crash", "refused"} \subseteq odd BY <1>2, SafeNothing
<1> QED BY <1>1, <1>2, <1>6, <1>8, <1>18, <1>22, <1>23, <1>24, <1>25, <1>26, <1>27, Assembled

LEMMA MergeAbortKeeps ==
  ASSUME Ready, repo.merge # None, repo.orig # None, repo.head = None, NEW outcome \in ApplyOutcomes, NEW t, t = Tree(repo.orig[1])
  PROVE  Leads((IF repo.mergeStash = None THEN <<>> ELSE <<W("mergeStash", None)>>)
               \o <<W("index", Clean(t)), MoveHead(repo.orig[1])>>
               \o RemoveBranchState(None)
               \o (IF repo.mergeStash = None THEN <<>> ELSE ApplyAutostash(repo.mergeStash[1], outcome, t)),
               [plan EXCEPT !.kind = "aborted"], odd)
<1>1. RepoOK(repo) BY DEF Ready
<1>2. PICK h \in Histories : h = repo.orig[1]
  <2>1. repo.orig \in Maybe(Histories) BY <1>1, FieldsAre, KindsAre DEF RepoOK, HistoryFiles
  <2> QED BY <2>1, MaybeIs
<1>3. t = Tree(h) /\ t \in SUBSET Patches BY <1>2, HistoryIs
<1>4. PICK held \in Maybe(SUBSET Locals) : held = repo.mergeStash BY <1>1, FieldsAre, KindsAre DEF RepoOK
<1>5. PICK a : a = (IF repo.mergeStash = None THEN <<>> ELSE <<W("mergeStash", None)>>) \o <<W("index", Clean(t)), MoveHead(h)>> OBVIOUS
<1>6. PICK b : b = RemoveBranchState(None) OBVIOUS
<1>7. PICK y : y = (IF held = None THEN <<>> ELSE ApplyAutostash(held[1], outcome, t)) OBVIOUS
<1>8. a \in Seq(WriteType) /\ TakesBack(a, h, t) BY ONLY repo.head = None, <1>1, <1>3, <1>5, TakesBackIs
<1>9. b \in Seq(WriteType) /\ Clears(b) BY ONLY <1>6, ClearsIs
<1>10. y \in Seq(WriteType) /\ Brings(y, held, t) BY ONLY <1>3, <1>7, BringsIs
<1>11. Brings(y, repo.mergeStash, t) BY ONLY <1>4, <1>10
<1>12. PICK ws : ws = (a \o b) \o y OBVIOUS
<1>13. PICK p : p = [plan EXCEPT !.kind = "aborted"] OBVIOUS
<1>14. Leads(ws, p, odd)
  BY ONLY Ready, repo.merge # None, repo.orig # None, repo.head = None, <1>2, <1>3, <1>8, <1>9, <1>10, <1>11, <1>12, <1>13, MergeAbortGoes
<1> QED BY <1>2, <1>4, <1>5, <1>6, <1>7, <1>12, <1>13, <1>14

------------------------------
(* The invariant is inductive. *)

LEMMA InitInv == Init => Inv
<1> SUFFICES ASSUME Init PROVE Inv OBVIOUS
<1>1. PICK start \in Starts, edits \in SUBSET Edits : repo = InitRepo(start, edits) BY DEF Init
<1>2. queue = <<>> /\ plan = NoPlan /\ odd = {} BY DEF Init
<1>3. start \in Histories /\ Tree(start) \in SUBSET Patches BY HistoriesAssumption, HistoryIs
<1>4. /\ repo.branch = start /\ repo.index = Clean(Tree(start)) /\ repo.dirty = edits /\ repo.stash = {}
      /\ \A f \in StateFiles \cup {"head", "orig"} : repo[f] = None
  BY <1>1 DEF InitRepo, StateFiles
<1>5. Fields = StateFiles \cup {"head", "orig", "branch", "index", "dirty", "stash"} BY FieldsAre DEF StateFiles
<1>6. RepoOK(repo)
  <2>1. DOMAIN repo = Fields BY <1>1, FieldsAre DEF InitRepo
  <2>2. repo = [f \in DOMAIN repo |-> repo[f]] BY <1>1 DEF InitRepo
  <2>3. repo.branch \in Kind("branch") BY <1>3, <1>4, KindsAre
  <2>4. repo.index \in Kind("index")
    <3>1. Clean(Tree(start)) \in IndexType BY <1>3, CleanIs
    <3> QED BY <1>4, <3>1, KindsAre
  <2>5. repo.dirty \in Kind("dirty") /\ repo.stash \in Kind("stash")
    <3> QED BY <1>4, KindsAre DEF Locals
  <2>6. \A f \in StateFiles \cup {"head", "orig"} : None \in Kind(f) BY MaybeIs DEF Kind, StateFiles, HistoryFiles
  <2>7. \A f \in Fields : repo[f] \in Kind(f) BY <1>4, <1>5, <2>3, <2>4, <2>5, <2>6
  <2> QED BY <2>1, <2>2, <2>7 DEF RepoOK
<1>7. plan \in PlanType /\ plan.kind = "none" /\ plan.local = {}
  <2> QED BY EmptySeq, <1>2 DEF NoPlan, PlanType
<1>8. queue \in Seq(WriteType) /\ odd \subseteq Oddities BY <1>2, NoneIs
<1>10. Types BY BoundsAssumption, <1>6, <1>7, <1>8 DEF Types, Init
<1>11. \A f \in {"pick", "revert", "rebase", "merge", "seqHead", "seqTodo", "seqSafety", "seqOpts", "rbOrig", "rbOnto", "rbTodo", "rbDone", "rbMessage", "mergeStash", "rbStash"} : repo[f] = None
  BY <1>4 DEF StateFiles
<1>12. Then(repo, <<>>) = repo
  <2>1. repo = [f \in Fields |-> repo[f]] BY <1>6 DEF RepoOK
  <2> QED BY NoneIs, <2>1 DEF Then
<1>13. Range(<<>>) = {} BY NoneIs
<1>14. MergeAt(repo, <<>>, plan, odd)
  <2>1. Blank(<<>>, "merge") BY <1>13 DEF Blank
  <2> QED BY <1>11, <2>1, MergeBegins
<1>15. UnmergedAt(repo, <<>>)
  <2>1. repo.index.unmerged = "no" BY <1>4 DEF Clean
  <2> QED BY <2>1 DEF UnmergedAt
<1>16. RebaseAt(repo, <<>>, plan, odd) BY <1>7, RebaseOther
<1>17. WholeAt(repo, odd) /\ StashedAt(repo, odd) BY <1>11 DEF WholeAt, StashedAt
<1>18. TidyAt(repo, plan, odd)
  <2> QED BY <1>11, <1>7, TidyPlain
<1>19. EditsAt(repo, <<>>, plan, odd) BY <1>7 DEF EditsAt, Safe
<1>20. InvAt(repo, <<>>, plan, odd) BY <1>12, <1>14, <1>15, <1>16, <1>17, <1>18, <1>19 DEF InvAt
<1> QED BY <1>2, <1>10, <1>20 DEF Inv

LEMMA Started ==
  ASSUME Inv, NEW ws, NEW p, NEW o, Start(ws, p, o), Leads(ws, p, o)
  PROVE  Inv'
<1>1. repo' = repo /\ crashes' = crashes /\ queue' = ws /\ plan' = p /\ odd' = o /\ commands' = commands + 1 /\ commands < MaxCommands BY DEF Start
<1>2. RepoOK(repo') BY <1>1 DEF Inv, Types
<1>4. commands' \in 0 .. MaxCommands /\ crashes' \in 0 .. MaxCrashes BY <1>1, BoundsAssumption DEF Inv, Types
<1> QED BY <1>1, <1>2, <1>4 DEF Inv, Types, Leads

LEMMA ReadyIs ==
  ASSUME Inv, queue = <<>>
  PROVE  Ready
BY DEF Inv, Types, Ready

LEMMA WriteNextStep ==
  ASSUME Inv, WriteNext
  PROVE  Inv'
<1>1. queue # <<>> /\ repo' = Apply(repo, Head(queue)) /\ queue' = Tail(queue) /\ UNCHANGED <<plan, odd, commands, crashes>> BY DEF WriteNext
<1>2. RepoOK(repo) /\ queue \in Seq(WriteType) /\ InvAt(repo, queue, plan, odd) BY DEF Inv, Types
<1>3. PICK w : w = Head(queue) OBVIOUS
<1>4. PICK t : t = Tail(queue) OBVIOUS
<1>5. PICK s : s = Apply(repo, w) OBVIOUS
<1>6. InvAt(s, t, plan, odd) BY <1>1, <1>2, <1>3, <1>4, <1>5, WriteKeeps
<1>7. w \in WriteType /\ t \in Seq(WriteType) BY <1>1, <1>2, <1>3, <1>4, HeadTailProperties
<1>8. RepoOK(s) BY <1>2, <1>5, <1>7, AppliedIs
<1>9. repo' = s /\ queue' = t BY <1>1, <1>3, <1>4, <1>5
<1>10. InvAt(repo', queue', plan', odd') BY <1>1, <1>6, <1>9
<1>11. Types' BY <1>1, <1>7, <1>8, <1>9 DEF Inv, Types
<1> QED BY <1>10, <1>11 DEF Inv

LEMMA CrashStep ==
  ASSUME Inv, Crash
  PROVE  Inv'
<1>1. crashes < MaxCrashes /\ queue' = <<>> /\ odd' = odd \cup {"crash"} /\ crashes' = crashes + 1 /\ UNCHANGED <<repo, plan, commands>> BY DEF Crash
<1>2. InvAt(repo, queue, plan, odd) BY DEF Inv
<1>3. PICK x : x = odd \cup {"crash"} OBVIOUS
<1>4. InvAt(repo, <<>>, plan, x) BY <1>2, <1>3, CrashKeeps
<1>5. InvAt(repo', queue', plan', odd') BY <1>1, <1>3, <1>4
<1>6. odd' \subseteq Oddities BY <1>1 DEF Inv, Types, Oddities
<1>7. queue' \in Seq(WriteType) BY <1>1, NoneIs
<1>8. crashes' \in 0 .. MaxCrashes BY <1>1, BoundsAssumption DEF Inv, Types
<1> QED BY <1>1, <1>5, <1>6, <1>7, <1>8 DEF Inv, Types

LEMMA ResolveStep ==
  ASSUME Inv, NEW t \in {repo.index.tree, repo.index.both}, Resolve(t)
  PROVE  Inv'
<1>1. queue = <<>> /\ repo' = [repo EXCEPT !.index = Clean(t)] /\ UNCHANGED <<queue, plan, odd, commands, crashes>> BY DEF Resolve
<1>2. RepoOK(repo) /\ plan \in PlanType /\ InvAt(repo, <<>>, plan, odd) BY <1>1 DEF Inv, Types
<1>3. repo.index \in IndexType BY <1>2, FieldsAre, KindsAre DEF RepoOK
<1>4. t \in SUBSET Patches BY <1>3 DEF IndexType
<1>5. PICK i \in IndexType : i = Clean(t) /\ i.unmerged = "no" /\ i.tree = t BY <1>4, CleanIs
<1>6. i.both = i.tree BY <1>5 DEF Clean
<1>7. PICK s : s = [repo EXCEPT !.index = i] OBVIOUS
<1>8. RepoOK(s) /\ InvAt(s, <<>>, plan, odd) BY <1>2, <1>5, <1>6, <1>7, IndexKeeps
<1>9. repo' = s BY <1>1, <1>5, <1>7
<1>10. InvAt(repo', queue', plan', odd') BY <1>1, <1>8, <1>9
<1>11. Types' BY <1>1, <1>8, <1>9 DEF Inv, Types
<1> QED BY <1>10, <1>11 DEF Inv

LEMMA StageStep ==
  ASSUME Inv, Stage
  PROVE  Inv'
<1>1. /\ queue = <<>> /\ commands < MaxCommands /\ repo' = [repo EXCEPT !.index = Clean(@.tree \cup Adds["user"])] /\ plan' = Closed
      /\ commands' = commands + 1 /\ UNCHANGED <<queue, odd, crashes>>
  BY DEF Stage
<1>2. RepoOK(repo) /\ plan \in PlanType /\ InvAt(repo, <<>>, plan, odd) BY <1>1 DEF Inv, Types
<1>3. repo.index \in IndexType BY <1>2, FieldsAre, KindsAre DEF RepoOK
<1>4. PICK t \in SUBSET Patches : t = repo.index.tree \cup Adds["user"] BY <1>3, SourcesAssumption DEF IndexType, Patches, Sources
<1>5. PICK i \in IndexType : i = Clean(t) /\ i.unmerged = "no" /\ i.tree = t BY <1>4, CleanIs
<1>6. PICK s : s = [repo EXCEPT !.index = i] OBVIOUS
<1>7. PICK p : p = Closed OBVIOUS
<1>8. /\ p \in PlanType /\ p.start = plan.start /\ p.local = plan.local
      /\ \/ p.kind = plan.kind /\ plan.kind # "aborted"
         \/ p.kind = "none" /\ plan.kind \in {"aborted", "refused"}
  BY <1>2, <1>7 DEF Closed, PlanType
<1>9. RepoOK(s) /\ InvAt(s, <<>>, p, odd) BY <1>2, <1>5, <1>6, <1>8, IndexKeeps
<1>10. repo' = s
  <2> QED BY <1>1, <1>4, <1>5, <1>6
<1>11. InvAt(repo', queue', plan', odd') BY <1>1, <1>7, <1>9, <1>10
<1>13. Types' BY BoundsAssumption, <1>1, <1>7, <1>8, <1>9, <1>10 DEF Inv, Types
<1> QED BY <1>11, <1>13 DEF Inv

LEMMA ReplayRunStep ==
  ASSUME Inv, NEW op \in {"pick", "revert"}, NEW todo \in Lists(op), NEW allowEmpty \in BOOLEAN, ReplayRun(op, todo, allowEmpty)
  PROVE  Inv'
<1>1. PICK run : run = [op |-> op, multi |-> Len(todo) > 1, head |-> Tip, allowEmpty |-> allowEmpty, onEmpty |-> "stop"] OBVIOUS
<1>2. PICK end : end = RunSequence(run, todo, Tip) OBVIOUS
<1>3. PICK d : d = IF end.stopped /\ ~run.multi /\ end.ws = <<>> THEN {0} ELSE {} OBVIOUS
<1>31. d \in SUBSET Int
  <2>1. d \in {{0}, {}} BY ONLY <1>3
  <2> QED BY ONLY <2>1
<1>4. PICK p : p = [Begun(op, todo, {}) EXCEPT !.dropped = d] OBVIOUS
<1>5. OpenReplayRun /\ Start(end.ws, p, Lasting) BY ONLY ReplayRun(op, todo, allowEmpty), <1>1, <1>2, <1>3, <1>4 DEF ReplayRun
<1>6. Ready BY <1>5, ReadyIs DEF Start
<1>7. PICK l \in Seq(Sources) : l = todo BY ListsAssumption DEF Lists
<1>8. PICK n \in Nat : n = Len(l) BY LenProperties
<1>9. run \in RunType /\ run.op = op /\ (run.multi <=> n > 1) /\ run.head = Tip
  <2>1. Tip \in Histories BY <1>6, TipIs DEF Ready
  <2>2. PICK m \in BOOLEAN : m = (n > 1)
    <3>1. CASE n > 1
      <4>1. TRUE = (n > 1) BY <3>1
      <4> QED BY ONLY <4>1, Zenon
    <3>2. CASE ~(n > 1)
      <4>1. FALSE = (n > 1) BY <3>2
      <4> QED BY ONLY <4>1, Zenon
    <3> QED BY <3>1, <3>2
  <2>3. m <=> n > 1 BY ONLY <2>2
  <2>4. run = [op |-> op, multi |-> m, head |-> Tip, allowEmpty |-> allowEmpty, onEmpty |-> "stop"]
    <3>1. Len(todo) = n BY <1>7, <1>8
    <3> QED BY ONLY <1>1, <2>2, <3>1
  <2>5. run \in RunType /\ run.op = op /\ run.head = Tip BY ONLY <2>1, <2>4 DEF RunType
  <2>6. run.multi = m BY ONLY <2>4
  <2> QED BY <2>3, <2>5, <2>6
<1>10. end = RunSequence(run, l, Tip) /\ p = [Begun(op, l, {}) EXCEPT !.dropped = d] BY <1>2, <1>4, <1>7
<1>11. Leads(end.ws, p, Lasting) BY ONLY <1>31, <1>5, <1>6, <1>8, <1>9, <1>10, ReplayRunKeeps
<1> QED BY <1>5, <1>11, Started

LEMMA ContinueResolvedStep ==
  ASSUME Inv, NEW op \in {"pick", "revert"}, NEW given \in BOOLEAN, ContinueResolved(op, given)
  PROVE  Inv'
<1>1. PICK h : h = Append(Tip, Commit(op, repo[Marker(op)][1], Tip, repo.index.tree)) OBVIOUS
<1>2. PICK end : end = RunSequence(Resumed(op, h, ResumeAllowsEmpty(op, given), "stop"), Rest, h) OBVIOUS
<1>3. PICK ws : ws = <<MoveHead(h), W(Marker(op), None), W("message", None)>> \o end.ws OBVIOUS
<1>4. repo[Marker(op)] # None /\ repo.head = None /\ Start(ws, plan, Crossing(op))
  BY ONLY ContinueResolved(op, given), <1>1, <1>2, <1>3 DEF ContinueResolved
<1>5. Ready BY <1>4, ReadyIs DEF Start
<1>6. Leads(<<MoveHead(h), W(Marker(op), None), W("message", None)>> \o end.ws, plan, Crossing(op)) BY ONLY <1>1, <1>2, <1>4, <1>5, ContinueResolvedKeeps
<1> QED BY <1>3, <1>4, <1>6, Started

LEMMA ContinueMarkerlessStep ==
  ASSUME Inv, NEW op \in {"pick", "revert"}, NEW given \in BOOLEAN, ContinueMarkerless(op, given)
  PROVE  Inv'
<1>1. PICK end : end = RunSequence(Resumed(op, Tip, ResumeAllowsEmpty(op, given), "drop"), Todo, Tip) OBVIOUS
<1>2. repo[Marker(op)] = None /\ OpenReplayResume(op) /\ repo.head = None /\ Start(end.ws, Dropping(end.dropped), Crossing(op))
  BY ONLY ContinueMarkerless(op, given), <1>1 DEF ContinueMarkerless
<1>3. Ready BY <1>2, ReadyIs DEF Start
<1>4. Leads(end.ws, Dropping(end.dropped), Crossing(op)) BY ONLY <1>1, <1>2, <1>3, ContinueMarkerlessKeeps
<1> QED BY <1>2, <1>4, Started

LEMMA ReplaySkipStep ==
  ASSUME Inv, NEW op \in {"pick", "revert"}, NEW given \in BOOLEAN, ReplaySkip(op, given)
  PROVE  Inv'
<1>1. PICK end : end = RunSequence(Resumed(op, Tip, ResumeAllowsEmpty(op, given), "stop"), Rest, Tip) OBVIOUS
<1>2. PICK a : a = <<W("index", Clean(Tree(Tip))), W("orig", <<Tip>>)>> OBVIOUS
<1>3. PICK b : b = RemoveBranchState(repo.mergeStash) OBVIOUS
<1>4. OpenReplayResume(op) /\ repo.head = None /\ Start(a \o b \o end.ws, Dropping({Len(Rest)}), Crossing(op))
  BY ONLY ReplaySkip(op, given), <1>1, <1>2, <1>3 DEF ReplaySkip
<1>5. Ready BY <1>4, ReadyIs DEF Start
<1>6. Leads(a \o b \o end.ws, Dropping({Len(Rest)}), Crossing(op)) BY ONLY <1>1, <1>2, <1>3, <1>4, <1>5, ReplaySkipKeeps
<1> QED BY <1>4, <1>6, Started

LEMMA ReplayAbortStep ==
  ASSUME Inv, NEW op \in {"pick", "revert"}, ReplayAbort(op)
  PROVE  Inv'
<1>1. PICK a : a = <<W("index", Clean(Tree(AbortTarget))), W("orig", <<Tip>>), MoveHead(AbortTarget)>> OBVIOUS
<1>2. PICK b : b = RemoveBranchState(repo.mergeStash) OBVIOUS
<1>3. PICK c : c = ClearSequencer OBVIOUS
<1>4. PICK p : p = [plan EXCEPT !.kind = "aborted"] OBVIOUS
<1>5. (repo[Marker(op)] # None \/ repo.seqHead # None) /\ repo.head = None /\ Start(a \o b \o c, p, odd)
  BY ONLY ReplayAbort(op), <1>1, <1>2, <1>3, <1>4 DEF ReplayAbort
<1>6. Ready BY <1>5, ReadyIs DEF Start
<1>7. Leads(a \o b \o c, p, odd) BY ONLY <1>1, <1>2, <1>3, <1>4, <1>5, <1>6, ReplayAbortKeeps
<1> QED BY <1>5, <1>7, Started

LEMMA RebaseUpToDateStep ==
  ASSUME Inv, NEW autostash, NEW outcome \in ApplyOutcomes, RebaseUpToDate(autostash, outcome)
  PROVE  Inv'
<1>1. PICK ws : ws = CreateAutostash \o ApplyAutostash(Local, outcome, Tree(Tip)) OBVIOUS
<1>2. PICK p : p = Begun("uptodate", <<>>, Local) OBVIOUS
<1>3. NoPendingOperation /\ Start(ws, p, Lasting) BY ONLY RebaseUpToDate(autostash, outcome), <1>1, <1>2 DEF RebaseUpToDate, RebaseGuard
<1>4. Ready BY <1>3, ReadyIs DEF Start
<1>5. Leads(CreateAutostash \o ApplyAutostash(Local, outcome, Tree(Tip)), p, Lasting) BY ONLY <1>2, <1>3, <1>4, RebaseUpToDateKeeps
<1> QED BY <1>1, <1>3, <1>5, Started

LEMMA RebaseRunStep ==
  ASSUME Inv, NEW autostash, NEW blocked, NEW outcome \in ApplyOutcomes, RebaseRun(autostash, blocked, outcome)
  PROVE  Inv'
<1>1. PICK run : run = [orig |-> Tip, todo |-> OwnCommits(Tip), done |-> <<>>] OBVIOUS
<1>2. PICK end : end = ReplayFrom(run, Upstream, blocked, StashKept, outcome) OBVIOUS
<1>3. PICK p : p = [Begun("rebase", PlannedSources, Local) EXCEPT !.dropped = end.dropped] OBVIOUS
<1>4. PICK ws : ws = CreateAutostash \o WriteAutostash \o <<W("orig", <<Tip>>), W("index", Clean(Tree(Upstream))), W("head", <<Upstream>>)>> \o end.ws OBVIOUS
<1>5. NoPendingOperation /\ repo.head = None /\ Start(ws, p, Lasting)
  BY ONLY RebaseRun(autostash, blocked, outcome), <1>1, <1>2, <1>3, <1>4 DEF RebaseRun, RebaseGuard
<1>6. Ready BY <1>5, ReadyIs DEF Start
<1>7. Leads(CreateAutostash \o WriteAutostash \o <<W("orig", <<Tip>>), W("index", Clean(Tree(Upstream))), W("head", <<Upstream>>)>> \o end.ws, p, Lasting)
  BY ONLY <1>1, <1>2, <1>3, <1>5, <1>6, RebaseRunKeeps
<1> QED BY <1>4, <1>5, <1>7, Started

LEMMA RebaseRefusedStep ==
  ASSUME Inv, NEW autostash, NEW checkout \in BOOLEAN, RebaseRefused(autostash, checkout)
  PROVE  Inv'
<1>1. PICK ws : ws = CreateAutostash \o WriteAutostash \o (IF checkout THEN <<W("orig", <<Tip>>)>> ELSE <<>>) OBVIOUS
<1>2. PICK p : p = Begun("refused", <<>>, Local) OBVIOUS
<1>3. NoPendingOperation /\ Start(ws, p, Lasting \cup {"refused"}) BY ONLY RebaseRefused(autostash, checkout), <1>1, <1>2 DEF RebaseRefused, RebaseGuard
<1>4. Ready BY <1>3, ReadyIs DEF Start
<1>5. Leads(CreateAutostash \o WriteAutostash \o (IF checkout THEN <<W("orig", <<Tip>>)>> ELSE <<>>), p, Lasting \cup {"refused"})
  BY ONLY <1>2, <1>3, <1>4, RebaseRefusedKeeps
<1> QED BY <1>1, <1>3, <1>5, Started

\* The number of lines on disk.
LEMMA LineCount ==
  ASSUME RepoOK(repo), RebaseReadable
  PROVE  {Len(repo.rbTodo[1])} \in SUBSET Int
<1>1. repo.rbTodo \in Maybe(Seq(CommitType)) BY FieldsAre, KindsAre DEF RepoOK
<1>2. PICK l \in Seq(CommitType) : l = repo.rbTodo[1] BY <1>1, MaybeIs DEF RebaseReadable
<1>3. Len(l) \in Nat BY LenProperties
<1> QED BY <1>2, <1>3

LEMMA RebaseContinueStep ==
  ASSUME Inv, NEW blocked, NEW outcome \in ApplyOutcomes, RebaseContinue(blocked, outcome)
  PROVE  Inv'
<1>1. PICK h : h = IF Rescheduled \/ repo.index.tree = Tree(Tip) THEN Tip
                   ELSE Append(Tip, Commit(repo.rbMessage[1].op, repo.rbMessage[1].src, Tip, repo.index.tree))
  OBVIOUS
<1>2. PICK end : end = ReplayOn(h, blocked, outcome) OBVIOUS
<1>3. PICK d : d = IF ~Rescheduled /\ repo.index.tree = Tree(Tip) THEN {Len(repo.rbTodo[1])} ELSE {} OBVIOUS
<1>4. PICK ws : ws = (IF h = Tip THEN <<>> ELSE <<MoveHead(h), W("message", None)>>) \o end.ws OBVIOUS
<1>5. /\ RebaseReadable /\ repo.index.unmerged = "no" /\ repo.dirty = {}
      /\ Start(ws, Dropping(d \cup end.dropped), odd \cup Attached)
  BY ONLY RebaseContinue(blocked, outcome), <1>1, <1>2, <1>3, <1>4 DEF RebaseContinue
<1>6. Ready BY <1>5, ReadyIs DEF Start
<1>7. d \in SUBSET Int BY <1>3, <1>5, <1>6, LineCount DEF Ready
<1>8. Leads((IF h = Tip THEN <<>> ELSE <<MoveHead(h), W("message", None)>>) \o end.ws, Dropping(d \cup end.dropped), odd \cup Attached)
  BY ONLY <1>1, <1>2, <1>5, <1>6, <1>7, RebaseContinueKeeps
<1> QED BY <1>4, <1>5, <1>8, Started

LEMMA RebaseSkipStep ==
  ASSUME Inv, NEW blocked, NEW outcome \in ApplyOutcomes, RebaseSkip(blocked, outcome)
  PROVE  Inv'
<1>1. PICK end : end = ReplayOn(Tip, blocked, outcome) OBVIOUS
<1>2. PICK d : d = IF Rescheduled THEN {} ELSE {Len(repo.rbTodo[1])} OBVIOUS
<1>3. PICK a : a = <<W("dirty", {}), W("index", Clean(Tree(Tip)))>> OBVIOUS
<1>4. PICK b : b = IF Rescheduled THEN <<>> ELSE RemoveBranchState(repo.mergeStash) OBVIOUS
<1>5. /\ RebaseReadable
      /\ Start(a \o b \o end.ws, [Discarding(repo.dirty) EXCEPT !.dropped = @ \cup d \cup end.dropped], odd \cup Attached)
  BY ONLY RebaseSkip(blocked, outcome), <1>1, <1>2, <1>3, <1>4 DEF RebaseSkip
<1>6. Ready BY <1>5, ReadyIs DEF Start
<1>7. d \in SUBSET Int BY <1>2, <1>5, <1>6, LineCount DEF Ready
<1>8. Leads(a \o b \o end.ws, [Discarding(repo.dirty) EXCEPT !.dropped = @ \cup d \cup end.dropped], odd \cup Attached)
  BY ONLY <1>1, <1>3, <1>4, <1>5, <1>6, <1>7, RebaseSkipKeeps
<1> QED BY <1>5, <1>8, Started

LEMMA RebaseAbortStep ==
  ASSUME Inv, NEW outcome \in ApplyOutcomes, RebaseAbort(outcome)
  PROVE  Inv'
<1>1. PICK t : t = Tree(repo.rbOrig[1]) OBVIOUS
<1>2. PICK ws : ws = <<W("dirty", {}), W("index", Clean(t)), W("head", None)>> \o RemoveBranchState(repo.mergeStash)
               \o <<W("rebase-merge", None), W("rebase", None)>>
               \o (IF repo.rbStash = None THEN <<>> ELSE ApplyAutostash(repo.rbStash[1], outcome, t))
  OBVIOUS
<1>3. RebaseReadable /\ Start(ws, [Discarding(repo.dirty) EXCEPT !.kind = "aborted"], odd) BY ONLY RebaseAbort(outcome), <1>1, <1>2 DEF RebaseAbort
<1>4. Ready BY <1>3, ReadyIs DEF Start
<1>5. Leads(<<W("dirty", {}), W("index", Clean(t)), W("head", None)>> \o RemoveBranchState(repo.mergeStash)
               \o <<W("rebase-merge", None), W("rebase", None)>>
               \o (IF repo.rbStash = None THEN <<>> ELSE ApplyAutostash(repo.rbStash[1], outcome, t)),
               [Discarding(repo.dirty) EXCEPT !.kind = "aborted"], odd)
  BY ONLY <1>1, <1>3, <1>4, RebaseAbortKeeps
<1> QED BY <1>2, <1>3, <1>5, Started

LEMMA MergeUpToDateStep ==
  ASSUME Inv, MergeUpToDate
  PROVE  Inv'
<1>1. PICK ws : ws = <<W("orig", <<Tip>>)>> \o RemoveMergeBranchState(repo.mergeStash) OBVIOUS
<1>2. Taken(FALSE) = {} BY DEF Taken
<1>3. NoPendingOperation /\ Start(ws, Begun("uptodate", <<>>, {}), Lasting) BY ONLY MergeUpToDate, <1>1, <1>2 DEF MergeUpToDate, MergeGuard, BeginMerge
<1>4. Ready BY <1>3, ReadyIs DEF Start
<1>5. Leads(<<W("orig", <<Tip>>)>> \o RemoveMergeBranchState(repo.mergeStash), Begun("uptodate", <<>>, {}), Lasting) BY ONLY <1>3, <1>4, MergeUpToDateKeeps
<1> QED BY <1>1, <1>3, <1>5, Started

LEMMA MergeFastForwardStep ==
  ASSUME Inv, NEW autostash \in BOOLEAN, NEW outcome \in ApplyOutcomes, MergeFastForward(autostash, outcome)
  PROVE  Inv'
<1>1. PICK i : i = <<W("index", Clean(Tree(Upstream)))>> OBVIOUS
<1>2. PICK m : m = <<MoveHead(Upstream)>> OBVIOUS
<1>3. PICK c : c = ConcludeMerge(autostash, outcome, Tree(Upstream)) OBVIOUS
<1>4. PICK a : a = OpenMerge(autostash) OBVIOUS
<1>5. PICK p : p = Begun("merged", <<>>, Taken(autostash)) OBVIOUS
<1>6. <<W("index", Clean(Tree(Upstream))), MoveHead(Upstream)>> = i \o m BY ONLY <1>1, <1>2
<1>7. PICK j : j = <<W("index", Clean(Tree(Upstream))), MoveHead(Upstream)>> OBVIOUS
<1>8. NoPendingOperation /\ Start((a \o j) \o c, p, Lasting)
  BY ONLY MergeFastForward(autostash, outcome), <1>3, <1>4, <1>5, <1>7 DEF MergeFastForward, MergeGuard, BeginMerge
<1>9. Ready BY <1>8, ReadyIs DEF Start
<1>10. Upstream \in Histories /\ Tree(Upstream) \in SUBSET Patches BY HistoriesAssumption, HistoryIs
<1>11. PICK h \in Histories : h = Upstream BY <1>10
<1>12. PICK t \in SUBSET Patches : t = Tree(Upstream) BY <1>10
<1>13. i = <<W("index", Clean(t))>> /\ m = <<MoveHead(h)>> /\ c = ConcludeMerge(autostash, outcome, t) BY ONLY <1>1, <1>2, <1>3, <1>11, <1>12
<1>14. Leads((a \o i) \o (m \o c), p, Lasting) /\ Leads((a \o (i \o m)) \o c, p, Lasting) BY ONLY <1>4, <1>5, <1>8, <1>9, <1>13, MergeCommits
<1>15. j = i \o m BY <1>6, <1>7
<1>16. Leads((a \o j) \o c, p, Lasting) BY ONLY <1>14, <1>15
<1> QED BY <1>8, <1>16, Started

LEMMA MergedTreeIs ==
  ASSUME RepoOK(repo)
  PROVE  MergedTree \in SUBSET Patches /\ Append(Tip, Commit("merge", "merge", Tip, MergedTree)) \in Histories
<1>1. PICK g \in Histories : g = Tip /\ Tree(g) \in SUBSET Patches BY TipIs
<1>2. Tree(Upstream) \in SUBSET Patches BY HistoriesAssumption, HistoryIs
<1>3. PICK t \in SUBSET Patches : t = MergedTree BY <1>1, <1>2 DEF MergedTree
<1> QED BY CommitIs, <1>1, <1>3, HistoryIs

LEMMA MergeCleanStep ==
  ASSUME Inv, NEW autostash \in BOOLEAN, NEW commit \in BOOLEAN, NEW outcome \in ApplyOutcomes, MergeClean(autostash, commit, outcome)
  PROVE  Inv'
<1>1. PICK i : i = <<W("index", Clean(MergedTree))>> OBVIOUS
<1>2. PICK m : m = <<MoveHead(Append(Tip, Commit("merge", "merge", Tip, MergedTree)))>> OBVIOUS
<1>3. PICK c : c = ConcludeMerge(autostash, outcome, MergedTree) OBVIOUS
<1>4. PICK a : a = OpenMerge(autostash) OBVIOUS
<1>5. PICK k : k = <<W("merge", <<Upstream>>), W("message", <<"merge">>)>> OBVIOUS
<1>6. /\ NoPendingOperation
      /\ Start((a \o i) \o (IF commit THEN m \o c ELSE k), Begun(IF commit THEN "merged" ELSE "merge", <<>>, Taken(autostash)), Lasting)
  BY ONLY MergeClean(autostash, commit, outcome), <1>1, <1>2, <1>3, <1>4, <1>5 DEF MergeClean, MergeGuard, BeginMerge
<1>7. Ready BY <1>6, ReadyIs DEF Start
<1>8. RepoOK(repo) BY <1>7 DEF Ready
<1>9. PICK t \in SUBSET Patches : t = MergedTree BY <1>8, MergedTreeIs
<1>10. PICK h \in Histories : h = Append(Tip, Commit("merge", "merge", Tip, MergedTree)) BY <1>8, MergedTreeIs
<1>11. CASE commit
  <2>1. PICK p : p = Begun("merged", <<>>, Taken(autostash)) OBVIOUS
  <2>2. Start((a \o i) \o (m \o c), p, Lasting) BY <1>6, <1>11, <2>1
  <2>3. i = <<W("index", Clean(t))>> /\ m = <<MoveHead(h)>> /\ c = ConcludeMerge(autostash, outcome, t) BY ONLY <1>1, <1>2, <1>3, <1>9, <1>10
  <2>4. Leads((a \o i) \o (m \o c), p, Lasting) /\ Leads((a \o (i \o m)) \o c, p, Lasting) BY ONLY <1>4, <1>6, <1>7, <2>1, <2>3, MergeCommits
  <2> QED BY <2>2, <2>4, Started
<1>12. CASE ~commit
  <2>2. Leads(OpenMerge(autostash) \o <<W("index", Clean(t))>> \o <<W("merge", <<Upstream>>), W("message", <<"merge">>)>>,
              Begun("merge", <<>>, Taken(autostash)), Lasting)
    BY ONLY <1>6, <1>7, MergeStopsKeeps
  <2>3. Leads((a \o i) \o k, Begun("merge", <<>>, Taken(autostash)), Lasting) BY ONLY <1>1, <1>4, <1>5, <1>9, <2>2
  <2> QED BY <1>6, <1>12, <2>3, Started
<1> QED BY <1>11, <1>12

LEMMA MergeConflictStep ==
  ASSUME Inv, NEW autostash \in BOOLEAN, MergeConflict(autostash)
  PROVE  Inv'
<1>1. NoPendingOperation /\ Start(OpenMerge(autostash) \o WriteConflictState, Begun("merge", <<>>, Taken(autostash)), Lasting)
  BY DEF MergeConflict, MergeGuard, BeginMerge
<1>2. Ready BY <1>1, ReadyIs DEF Start
<1>3. Leads(OpenMerge(autostash) \o WriteConflictState, Begun("merge", <<>>, Taken(autostash)), Lasting) BY ONLY <1>1, <1>2, MergeConflictKeeps
<1> QED BY <1>1, <1>3, Started

LEMMA MergeRefusedStep ==
  ASSUME Inv, NEW autostash \in BOOLEAN, NEW dies \in BOOLEAN, NEW outcome \in ApplyOutcomes, MergeRefused(autostash, dies, outcome)
  PROVE  Inv'
<1>1. PICK ws : ws = OpenMerge(autostash) \o (IF dies THEN <<>> ELSE ApplyMergeAutostash(HeldStash(autostash), outcome, Tree(Tip))) OBVIOUS
<1>2. PICK o : o = Lasting \cup (IF dies THEN {"refused"} ELSE {}) OBVIOUS
<1>3. NoPendingOperation /\ Start(ws, Begun("refused", <<>>, Taken(autostash)), o)
  BY ONLY MergeRefused(autostash, dies, outcome), <1>1, <1>2 DEF MergeRefused, MergeGuard
<1>4. Ready BY <1>3, ReadyIs DEF Start
<1>5. Leads(OpenMerge(autostash) \o (IF dies THEN <<>> ELSE ApplyMergeAutostash(HeldStash(autostash), outcome, Tree(Tip))),
            Begun("refused", <<>>, Taken(autostash)), Lasting \cup (IF dies THEN {"refused"} ELSE {}))
  BY ONLY <1>3, <1>4, MergeRefusedKeeps
<1>6. Leads(ws, Begun("refused", <<>>, Taken(autostash)), o) BY ONLY <1>1, <1>2, <1>5
<1> QED BY <1>3, <1>6, Started

LEMMA MergeAbortStep ==
  ASSUME Inv, NEW outcome \in ApplyOutcomes, MergeAbort(outcome)
  PROVE  Inv'
<1>1. PICK t : t = Tree(repo.orig[1]) OBVIOUS
<1>2. PICK ws : ws = (IF repo.mergeStash = None THEN <<>> ELSE <<W("mergeStash", None)>>)
               \o <<W("index", Clean(t)), MoveHead(repo.orig[1])>>
               \o RemoveBranchState(None)
               \o (IF repo.mergeStash = None THEN <<>> ELSE ApplyAutostash(repo.mergeStash[1], outcome, t))
  OBVIOUS
<1>3. repo.merge # None /\ repo.orig # None /\ repo.head = None /\ Start(ws, [plan EXCEPT !.kind = "aborted"], odd)
  BY ONLY MergeAbort(outcome), <1>1, <1>2 DEF MergeAbort
<1>4. Ready BY <1>3, ReadyIs DEF Start
<1>5. Leads((IF repo.mergeStash = None THEN <<>> ELSE <<W("mergeStash", None)>>)
               \o <<W("index", Clean(t)), MoveHead(repo.orig[1])>>
               \o RemoveBranchState(None)
               \o (IF repo.mergeStash = None THEN <<>> ELSE ApplyAutostash(repo.mergeStash[1], outcome, t)),
            [plan EXCEPT !.kind = "aborted"], odd)
  BY ONLY <1>1, <1>3, <1>4, MergeAbortKeeps
<1>6. Leads(ws, [plan EXCEPT !.kind = "aborted"], odd) BY ONLY <1>2, <1>5
<1> QED BY <1>3, <1>6, Started

LEMMA CommitRunStep ==
  ASSUME Inv, NEW outcome \in ApplyOutcomes, CommitRun(outcome)
  PROVE  Inv'
<1>1. PICK t : t = repo.index.tree OBVIOUS
<1>2. PICK op : op = CASE repo.merge # None -> "merge"
                       [] repo.pick # None -> "pick"
                       [] repo.revert # None -> "revert"
                       [] OTHER -> "user"
  OBVIOUS
<1>3. PICK src : src = CASE op = "pick" -> repo.pick[1]
                         [] op = "revert" -> repo.revert[1]
                         [] OTHER -> op
  OBVIOUS
<1>4. PICK h : h = Append(Tip, Commit(op, src, Tip, t)) OBVIOUS
<1>5. PICK ws : ws = <<MoveHead(h)>> \o RemoveCommittedState \o ApplyMergeAutostash(repo.mergeStash, outcome, t) OBVIOUS
<1>6. /\ Cardinality({f \in {"merge", "pick", "revert"} : repo[f] # None}) <= 1
      /\ repo.index.unmerged = "no" /\ Start(ws, Closed, odd \cup {"commit"})
  BY ONLY CommitRun(outcome), <1>1, <1>2, <1>3, <1>4, <1>5 DEF CommitRun
<1>7. Ready BY <1>6, ReadyIs DEF Start
<1>8. RepoOK(repo) BY <1>7 DEF Ready
<1>10. \/ op = "merge" /\ src = "merge"
       \/ op = "pick" /\ src = repo.pick[1] /\ repo.pick # None
       \/ op = "revert" /\ src = repo.revert[1] /\ repo.revert # None
       \/ op = "user" /\ src = "user"
  <2>1. \/ op = "merge"
        \/ op = "pick" /\ repo.pick # None
        \/ op = "revert" /\ repo.revert # None
        \/ op = "user"
    <3>1. CASE repo.merge # None /\ repo.pick # None BY ONLY <1>2, <3>1
    <3>2. CASE repo.merge # None /\ repo.revert # None BY ONLY <1>2, <3>2
    <3>3. CASE repo.pick # None /\ repo.revert # None BY ONLY <1>2, <3>3
    <3>4. CASE ~(repo.merge # None /\ repo.pick # None) /\ ~(repo.merge # None /\ repo.revert # None) /\ ~(repo.pick # None /\ repo.revert # None)
      BY ONLY <1>2, <3>4
    <3> QED BY <3>1, <3>2, <3>3, <3>4
  <2> QED BY ONLY <1>3, <2>1
<1>11. op \in {"pick", "revert", "merge", "user"} /\ src \in Names
  BY <1>8, FieldsAre, KindsAre, <1>10, MaybeIs, SourcesAssumption DEF Names, RepoOK
<1>12. Leads(<<MoveHead(h)>> \o RemoveCommittedState \o ApplyMergeAutostash(repo.mergeStash, outcome, t), Closed, odd \cup {"commit"})
  BY ONLY <1>1, <1>4, <1>6, <1>7, <1>11, CommitRunKeeps
<1>13. Leads(ws, Closed, odd \cup {"commit"}) BY ONLY <1>5, <1>12
<1> QED BY <1>6, <1>13, Started

LEMMA ResetStep ==
  ASSUME Inv, NEW n \in {1, Len(Tip)}, Reset(SubSeq(Tip, 1, n))
  PROVE  Inv'
<1>1. PICK h : h = SubSeq(Tip, 1, n) OBVIOUS
<1>2. PICK ws : ws = <<W("dirty", {}), W("index", Clean(Tree(h))), W("orig", <<Tip>>), MoveHead(h)>> \o RemoveBranchState(repo.mergeStash) OBVIOUS
<1>3. Start(ws, Discarding(repo.dirty), odd \cup {"reset"}) BY ONLY Reset(SubSeq(Tip, 1, n)), <1>1, <1>2 DEF Reset
<1>4. Ready BY <1>3, ReadyIs DEF Start
<1>5. Leads(<<W("dirty", {}), W("index", Clean(Tree(h))), W("orig", <<Tip>>), MoveHead(h)>> \o RemoveBranchState(repo.mergeStash),
            Discarding(repo.dirty), odd \cup {"reset"})
  BY ONLY <1>1, <1>4, ResetKeeps
<1>6. Leads(ws, Discarding(repo.dirty), odd \cup {"reset"}) BY ONLY <1>2, <1>5
<1> QED BY <1>3, <1>6, Started

LEMMA NextInv == Inv /\ [Next]_vars => Inv'
<1> SUFFICES ASSUME Inv, [Next]_vars PROVE Inv' OBVIOUS
<1>1. CASE NextReplay
  <2>1. PICK op \in {"pick", "revert"} :
          \/ \E todo \in Lists(op), allowEmpty \in BOOLEAN : ReplayRun(op, todo, allowEmpty)
          \/ \E given \in BOOLEAN : ContinueResolved(op, given) \/ ContinueMarkerless(op, given) \/ ReplaySkip(op, given)
          \/ ReplayAbort(op)
    BY <1>1 DEF NextReplay
  <2> QED BY <2>1, ReplayRunStep, ContinueResolvedStep, ContinueMarkerlessStep, ReplaySkipStep, ReplayAbortStep
<1>2. CASE NextRebase
  <2>1. PICK autostash \in BOOLEAN, outcome \in ApplyOutcomes, blocked \in Blocked :
          \/ RebaseUpToDate(autostash, outcome)
          \/ RebaseRun(autostash, blocked, outcome)
          \/ \E checkout \in BOOLEAN : RebaseRefused(autostash, checkout)
          \/ RebaseContinue(blocked, outcome)
          \/ RebaseSkip(blocked, outcome)
          \/ RebaseAbort(outcome)
    BY <1>2 DEF NextRebase
  <2> QED BY <2>1, RebaseUpToDateStep, RebaseRunStep, RebaseRefusedStep, RebaseContinueStep, RebaseSkipStep, RebaseAbortStep
<1>3. CASE NextMerge
  <2>1. PICK autostash \in BOOLEAN, outcome \in ApplyOutcomes :
          \/ MergeUpToDate
          \/ MergeFastForward(autostash, outcome)
          \/ \E commit \in BOOLEAN : MergeClean(autostash, commit, outcome)
          \/ MergeConflict(autostash)
          \/ \E dies \in BOOLEAN : MergeRefused(autostash, dies, outcome)
          \/ MergeAbort(outcome)
    BY <1>3 DEF NextMerge
  <2> QED BY <2>1, MergeUpToDateStep, MergeFastForwardStep, MergeCleanStep, MergeConflictStep, MergeRefusedStep, MergeAbortStep
<1>4. CASE NextUser
  <2> QED BY <1>4, ResolveStep, StageStep, CommitRunStep, ResetStep DEF NextUser
<1>5. CASE WriteNext BY <1>5, WriteNextStep
<1>6. CASE Crash BY <1>6, CrashStep
<1>7. CASE UNCHANGED vars
  <2> QED BY <1>7 DEF Inv, Types, vars
<1> QED BY <1>1, <1>2, <1>3, <1>4, <1>5, <1>6, <1>7 DEF Next

\* The inductive invariant holds of every repository the commands can leave, over
\* any histories, patches and lists, and any number of commands and kills.
THEOREM InvHolds == Spec => []Inv
<1>1. Init => Inv BY InitInv
<1>2. Inv /\ [Next]_vars => Inv' BY NextInv
<1> QED BY <1>1, <1>2, PTL DEF Spec

------------------------------
(* What it gives. *)

LEMMA InvRepo == Inv => RepoInv
<1> SUFFICES ASSUME Inv PROVE RepoInv OBVIOUS
<1>1. RepoOK(repo) /\ InvAt(repo, queue, plan, odd) BY DEF Inv, Types
<1>2. \A f \in Fields : repo[f] \in Kind(f) BY <1>1 DEF RepoOK
<1>4. repo.branch \in Histories /\ repo.index \in IndexType /\ repo.pick \in Maybe(Sources) /\ repo.revert \in Maybe(Sources) BY <1>2, FieldsAre, KindsAre
<1>5. repo.seqTodo \in Maybe(Seq(Sources)) /\ repo.rbTodo \in Maybe(Seq(CommitType)) BY <1>2, FieldsAre, KindsAre
<1>6. \A f \in {"head", "orig", "seqHead", "seqSafety", "rbOrig", "rbOnto"} : repo[f] = None \/ repo[f][1] \in Histories
  BY <1>2, KindsAre, MaybeIs DEF HistoryFiles, Fields
<1>7. \A f \in {"pick", "revert"} : repo[f] = None \/ repo[f][1] \in Sources BY <1>4, MaybeIs
<1>8. repo.seqTodo = None \/ repo.seqTodo[1] \in Seq(Sources) BY <1>5, MaybeIs
<1>9. repo.rbTodo = None \/ repo.rbTodo[1] \in Seq(CommitType) BY <1>5, MaybeIs
<1>11. commands \in 0 .. MaxCommands /\ crashes \in 0 .. MaxCrashes BY DEF Inv, Types
<1>12. TypeOK BY <1>4, <1>6, <1>7, <1>8, <1>9, <1>11 DEF TypeOK, IndexType
<1>13. MergeReturnable BY <1>1 DEF MergeReturnable, Undisturbed, InvAt, MergeAt
<1>14. UnmergedIsMarked BY <1>1 DEF UnmergedIsMarked, InvAt, UnmergedAt
<1> QED BY <1>12, <1>13, <1>14 DEF RepoInv

\* RepoInv, for every instance: whatever command finds a repository another one left,
\* was killed in or refused to go on with, its state files are well formed, a merge
\* on record can be taken back to ORIG_HEAD, and no index with a merge's conflict is
\* without MERGE_HEAD.
THEOREM RepoInvHolds == Spec => []RepoInv
BY InvHolds, InvRepo, PTL

\* An edit an autostash file will hold is in it or still to be written to it.
LEMMA HeldLater ==
  ASSUME RepoOK(repo), queue \in Seq(WriteType), NEW f \in {"mergeStash", "rbStash"}, NEW e, e \in Held(Late(queue, f, repo[f]))
  PROVE  e \in HeldIn(f) \cup StillToWrite(f)
<1>1. CASE \A j \in DOMAIN queue : ~Touches(queue[j], f)
  <2>1. Late(queue, f, repo[f]) = repo[f] BY <1>1, LateIs
  <2> QED BY <2>1 DEF Held, HeldIn
<1>2. CASE \E j \in DOMAIN queue : Touches(queue[j], f)
  <2>1. PICK j \in DOMAIN queue : Touches(queue[j], f) /\ Late(queue, f, repo[f]) = queue[j].v BY <1>2, LateIs
  <2>2. queue[j].v # None /\ e \in queue[j].v[1] BY <2>1 DEF Held
  <2>3. PICK w \in WriteType : w = queue[j] BY <2>1, ElementOfSeq
  <2>4. w.f = f
    <3>1. CASE w.f = "sequencer"
      <4>1. f \in SequencerDir BY <2>1, <2>3, <3>1, FilesAre DEF Touches
      <4> QED BY <4>1 DEF SequencerDir
    <3>2. CASE w.f = "rebase-merge"
      <4>1. w.v \in Kind(w.f) BY Written
      <4>2. w.v = None BY <3>2, <4>1, KindsAre
      <4> QED BY <2>2, <2>3, <4>2
    <3>3. CASE w.f \notin {"sequencer", "rebase-merge"} BY <2>1, <2>3, <3>3, FilesAre DEF Touches
    <3> QED BY <3>1, <3>2, <3>3
  <2> QED BY <2>3, <2>4, <2>2 DEF StillToWrite
<1> QED BY <1>1, <1>2

LEMMA InvAutostash == Inv => AutostashKept
<1> SUFFICES ASSUME Inv, Undisturbed({"crash", "refused"}), NEW e \in plan.local
             PROVE  e \in repo.dirty \cup repo.stash \cup InFlight \cup HeldIn("mergeStash") \cup HeldIn("rbStash")
                          \cup StillToWrite("mergeStash") \cup StillToWrite("rbStash")
  BY DEF AutostashKept
<1>1. RepoOK(repo) /\ queue \in Seq(WriteType) /\ InvAt(repo, queue, plan, odd) BY DEF Inv, Types
<1>3. CASE e \in Dirtied(queue, repo.dirty)
  <2> QED BY <1>3 DEF InFlight, Dirtied
<1>4. CASE \E w \in Range(queue) : w.f = "push" /\ e \in w.v
  <2>1. PICK j \in DOMAIN queue : queue[j].f = "push" /\ e \in queue[j].v BY <1>4 DEF Range
  <2> QED BY <2>1 DEF InFlight
<1>5. CASE e \in Held(Late(queue, "mergeStash", repo.mergeStash)) BY <1>1, <1>5, HeldLater
<1>6. CASE e \in Held(Late(queue, "rbStash", repo.rbStash)) BY <1>1, <1>6, HeldLater
<1> QED BY <1>1, <1>3, <1>4, <1>5, <1>6 DEF InvAt, EditsAt, Safe, Undisturbed

\* AutostashKept, for every instance: no command loses an edit that rebase or merge
\* stashed by itself, at any of its writes.
THEOREM AutostashKeptHolds == Spec => []AutostashKept
BY InvHolds, InvAutostash, PTL

LEMMA InvAborted == Inv => AbortRestores
<1> SUFFICES ASSUME Inv, Idle, plan.kind = "aborted", Undisturbed({"crash", "stale", "crossed", "reset", "refused"})
             PROVE  /\ repo.branch = plan.start /\ repo.head = None
                    /\ repo.index.tree = Tree(plan.start) /\ repo.index.unmerged \in {"no", "stash"}
                    /\ \A f \in StateFiles : repo[f] = None
  BY DEF AbortRestores
<1>2. TidyAt(repo, plan, odd) BY AtRest DEF Inv, Types, Idle
<1> QED BY <1>2 DEF TidyAt, Restored, Undisturbed

\* AbortRestores, for every instance: --abort of a list of picks or reverts, a rebase
\* or a merge, after any stops, puts the branch, HEAD and the index back and leaves no
\* state file.
THEOREM AbortRestoresHolds == Spec => []AbortRestores
BY InvHolds, InvAborted, PTL

\* Only a write moves the branch.
LEMMA BranchStays ==
  ASSUME Inv, [Next]_vars, ~WriteNext
  PROVE  repo'.branch = repo.branch
<1>1. CASE repo' = repo BY <1>1
<1>2. ASSUME NEW i, repo' = [repo EXCEPT !.index = i] PROVE repo'.branch = repo.branch
  <2>1. "branch" \in DOMAIN repo BY FieldsAre DEF Inv, Types, RepoOK
  <2> QED BY <1>2, <2>1
<1>3. CASE NextReplay
  <2>1. repo' = repo BY <1>3, ZenonT(60) DEF NextReplay, ReplayRun, ContinueResolved, ContinueMarkerless, ReplaySkip, ReplayAbort, Start
  <2> QED BY <2>1, SMTT(40)
<1>4. CASE NextRebase
  <2>1. repo' = repo BY <1>4, ZenonT(60) DEF NextRebase, RebaseUpToDate, RebaseRun, RebaseRefused, RebaseContinue, RebaseSkip, RebaseAbort, Start
  <2> QED BY <2>1
<1>5. CASE NextMerge
  <2>1. repo' = repo
    BY <1>5 DEF NextMerge, MergeUpToDate, MergeFastForward, MergeClean, MergeConflict, MergeRefused, MergeAbort, BeginMerge, Start
  <2> QED BY <2>1
<1>6. CASE NextUser
  <2>1. CASE \E t \in {repo.index.tree, repo.index.both} : Resolve(t) BY <1>2, <2>1 DEF Resolve
  <2>2. CASE Stage BY <1>2, <2>2 DEF Stage
  <2>3. CASE \E outcome \in ApplyOutcomes : CommitRun(outcome)
    <3>1. repo' = repo BY <2>3 DEF CommitRun, Start
    <3> QED BY <3>1
  <2>4. CASE \E n \in {1, Len(Tip)} : Reset(SubSeq(Tip, 1, n))
    <3>1. repo' = repo BY <2>4 DEF Reset, Start
    <3> QED BY <3>1
  <2> QED BY <1>6, <2>1, <2>2, <2>3, <2>4 DEF NextUser
<1>7. CASE Crash
  <2>1. repo' = repo BY <1>7 DEF Crash
  <2> QED BY <2>1
<1>8. CASE UNCHANGED vars BY <1>8 DEF vars
<1> QED BY <1>3, <1>4, <1>5, <1>6, <1>7, <1>8 DEF Next

LEMMA BranchStep ==
  ASSUME Inv, [Next]_vars, plan.kind = "rebase", repo'.branch # repo.branch, Undisturbed({"stale", "commit", "reset", "attached"})
  PROVE  repo.branch = plan.start /\ repo.head = <<repo'.branch>>
<1>1. WriteNext BY BranchStays
<1>2. queue # <<>> /\ repo' = Apply(repo, Head(queue)) BY <1>1 DEF WriteNext
<1>4. PICK w : w = Head(queue) OBVIOUS
<1>5. PICK t : t = Tail(queue) OBVIOUS
<1>6. PICK s : s = Apply(repo, w) OBVIOUS
<1>8. repo' = s BY <1>2, <1>4, <1>6
<1>9. plan.kind = "rebase" /\ odd \cap {"stale", "commit", "reset", "attached"} = {} /\ s.branch # repo.branch => repo.branch = plan.start /\ repo.head = <<s.branch>>
  BY <1>2, <1>4, <1>5, <1>6, WriteRebase DEF Inv, Types, InvAt
<1> QED BY <1>8, <1>9 DEF Undisturbed

\* BranchMovesOnce, for every instance: the one write by which a rebase moves the
\* branch takes it from where the rebase began to where HEAD has got.
THEOREM BranchMovesOnceHolds == Spec => BranchMovesOnce
<1>1. Inv /\ [Next]_vars =>
        [ plan.kind = "rebase" /\ repo'.branch # repo.branch /\ Undisturbed({"stale", "commit", "reset", "attached"})
          => repo.branch = plan.start /\ repo.head = <<repo'.branch>> ]_vars
  BY BranchStep
<1> QED BY <1>1, InvHolds, PTL DEF Spec, BranchMovesOnce

------------------------------
(* No commit is lost and none is made twice. *)

\* Of the plan's lines history h holds the first k, but for those dropped, and
\* the rest is pending.
Shows(p, base, h, pending) ==
  \E k : Done(p.todo, p.dropped, base, h, k) /\ pending = SubSeq(p.todo, k + 1, Len(p.todo))

\* What is left of a list: the sequencer's todo, or the lone commit that stopped.
SeqPending(A, f) == IF A.seqTodo # None THEN A.seqTodo[1] ELSE A[f]

\* A list shows its plan, and a commit that stopped is the first of its todo.
SeqAt(A, p, o) == p.kind \in {"pick", "revert"} /\ o \cap {"crash", "stale", "commit", "reset", "crossed"} = {} =>
  /\ A.rbOrig = None /\ Shows(p, Len(p.start), A.branch, SeqPending(A, p.kind))
  /\ A.seqTodo # None => A.seqTodo[1] # <<>> /\ (A[p.kind] # None => A[p.kind][1] = A.seqTodo[1][1])

\* What is left of a rebase: the commit that stopped, and the lines after it.
RbPending(A) ==
  (IF A.rbMessage = None THEN <<>> ELSE <<A.rbMessage[1].src>>) \o (IF A.rbTodo = None THEN <<>> ELSE SourcesOf(A.rbTodo[1]))

\* A rebase shows its plan from HEAD; while it is on record the branch is where it began.
RbAt(A, p, o) == p.kind = "rebase" /\ o \cap {"crash", "stale", "commit", "reset"} = {} =>
  /\ A.rbOrig # None => A.branch = p.start /\ A.head # None
  /\ Shows(p, Len(Upstream), IF A.head = None THEN A.branch ELSE A.head[1], RbPending(A))

ExactAt(A, p, o) == SeqAt(A, p, o) /\ RbAt(A, p, o)

\* Once the writes that are left are made.
Exact == ExactAt(Then(repo, queue), plan, odd)

\* Three ways a list ends: done, stopped with its files written, or a lone commit stopped.
LEMMA SeqShown ==
  ASSUME NEW A, NEW p \in PlanType, p.kind \in {"pick", "revert"}, NEW o, NEW N \in Nat, N = Len(p.todo), NEW k,
         Done(p.todo, p.dropped, Len(p.start), A.branch, k), A.rbOrig = None,
         \/ A.seqTodo = None /\ A[p.kind] = None /\ k = N
         \/ A.seqTodo = <<SubSeq(p.todo, k + 1, N)>> /\ k < N /\ (A[p.kind] = None \/ A[p.kind] = <<p.todo[k + 1]>>)
         \/ A.seqTodo = None /\ k + 1 = N /\ A[p.kind] = <<p.todo[k + 1]>>
  PROVE  SeqAt(A, p, o)
<1>1. PICK P \in Seq(Names) : P = p.todo /\ N = Len(P) BY DEF PlanType
<1>2. k \in 0 .. N BY <1>1 DEF Done
<1>3. PICK L : L = SubSeq(P, k + 1, N) OBVIOUS
<1>4. SUFFICES ASSUME SeqPending(A, p.kind) = L, A.seqTodo # None => A.seqTodo[1] # <<>> /\ (A[p.kind] # None => A[p.kind][1] = A.seqTodo[1][1])
               PROVE  SeqAt(A, p, o)
  <2>1. CASE A.seqTodo = None /\ A[p.kind] = None /\ k = N
    <3>2. L = <<>> BY <1>2, <1>3, <2>1, RestIs, EmptySeq
    <3> QED BY <1>4, <2>1, <3>2 DEF SeqPending, None
  <2>2. CASE A.seqTodo = <<SubSeq(p.todo, k + 1, N)>> /\ k < N /\ (A[p.kind] = None \/ A[p.kind] = <<p.todo[k + 1]>>)
    <3>0. N \in Nat /\ k < N BY <2>2
    <3>1. L # <<>> /\ L[1] = P[k + 1]
      <4>1. PICK n : n = N - k /\ n \in Nat /\ 1 \in 1 .. n BY <1>2, <3>0
      <4>2. L \in Seq(Names) /\ Len(L) = N - k /\ \A i \in 1 .. N - k : L[i] = P[k + i] BY <1>1, <1>2, <1>3, RestIs
      <4>3. Len(L) # 0 /\ 1 \in 1 .. N - k BY <4>1, <4>2
      <4> QED BY <4>2, <4>3, EmptySeq
    <3>2. A.seqTodo = <<L>> BY <1>1, <1>3, <2>2
    <3>3. A.seqTodo # None /\ A.seqTodo[1] = L BY <3>2, Something
    <3>4. A[p.kind] # None => A[p.kind][1] = L[1] BY <1>1, <2>2, <3>1
    <3> QED BY <1>4, <3>1, <3>3, <3>4 DEF SeqPending
  <2>3. CASE A.seqTodo = None /\ k + 1 = N /\ A[p.kind] = <<p.todo[k + 1]>>
    <3>1. N \in Nat /\ k < N BY <1>2, <2>3
    <3>2. <<P[k + 1]>> \o SubSeq(P, (k + 1) + 1, N) = L /\ P[k + 1] \in Names BY ONLY <1>1, <1>2, <1>3, <3>1, RestSplits
    <3>3. PICK R : R = SubSeq(P, (k + 1) + 1, N) OBVIOUS
    <3>4. R = <<>>
      <4>1. PICK j \in 0 .. N : j = k + 1 BY <2>3
      <4> QED BY <2>3, <3>3, <4>1, RestIs, EmptySeq
    <3>5. PICK x : x = <<P[k + 1]>> OBVIOUS
    <3>6. x \in Seq(Names)
      <4>1. <<P[k + 1]>> \in Seq(Names) BY <3>2
      <4> QED BY <3>5, <4>1
    <3>7. x = L
      <4>1. x \o <<>> = x BY <3>6, ConcatEmptySeq
      <4> QED BY <3>2, <3>3, <3>4, <3>5, <4>1
    <3>8. SeqPending(A, p.kind) = L BY <1>1, <2>3, <3>5, <3>7 DEF SeqPending
    <3> QED BY <1>4, <2>3, <3>8
  <2> QED BY <2>1, <2>2, <2>3
<1> QED BY <1>1, <1>3, <1>4 DEF SeqAt, Shows

\* A list op resumes or begins: its plan p was k lines done when history h was
\* reached, by the writes pre; todo is the rest, end how it went, and ws all the writes.
SeqFrom(op, p, P, N, base, D, k, h, todo, n, run, end, pre, gone, ws) ==
  /\ RepoOK(repo) /\ repo.head = None /\ op \in {"pick", "revert"} /\ p \in PlanType /\ p.kind = op
  /\ P \in Seq(Names) /\ P = p.todo /\ N \in Nat /\ N = Len(P) /\ base \in Nat /\ base = Len(p.start)
  /\ h \in Histories /\ Done(P, D, base, h, k)
  /\ todo \in Seq(Sources) /\ todo = SubSeq(P, k + 1, N) /\ n \in Nat /\ n = Len(todo)
  /\ run \in RunType /\ run.op = op /\ end = RunSequence(run, todo, h)
  /\ ~run.multi => n <= 1 /\ repo.seqTodo = None
  /\ pre \in Seq(WriteType) /\ Late(pre, "branch", repo.branch) = h /\ Late(pre, "rbOrig", repo.rbOrig) = None /\ Late(pre, op, repo[op]) = None
  /\ Late(pre, "seqTodo", repo.seqTodo) \in {None, repo.seqTodo}
  /\ gone = (IF end.stopped /\ ~run.multi /\ end.ws = <<>> THEN {0} ELSE {}) /\ p.dropped = (D \cup end.dropped) \cup gone
  /\ ws = pre \o end.ws

LEMMA SeqExact ==
  ASSUME NEW op, NEW p, NEW P, NEW N, NEW base, NEW D, NEW k, NEW h, NEW todo, NEW n, NEW run, NEW end, NEW pre, NEW gone, NEW ws,
         SeqFrom(op, p, P, N, base, D, k, h, todo, n, run, end, pre, gone, ws), NEW o
  PROVE  SeqAt(Then(repo, ws), p, o)
<1> SUFFICES ASSUME
         RepoOK(repo), repo.head = None, op \in {"pick", "revert"}, p \in PlanType, p.kind = op,
         P \in Seq(Names), P = p.todo, N \in Nat, N = Len(P), base \in Nat, base = Len(p.start),
         h \in Histories, Done(P, D, base, h, k),
         todo \in Seq(Sources), todo = SubSeq(P, k + 1, N), n \in Nat, n = Len(todo),
         run \in RunType, run.op = op, end = RunSequence(run, todo, h),
         ~run.multi => n <= 1 /\ repo.seqTodo = None,
         pre \in Seq(WriteType), Late(pre, "branch", repo.branch) = h, Late(pre, "rbOrig", repo.rbOrig) = None, Late(pre, op, repo[op]) = None,
         Late(pre, "seqTodo", repo.seqTodo) \in {None, repo.seqTodo},
         gone = (IF end.stopped /\ ~run.multi /\ end.ws = <<>> THEN {0} ELSE {}), p.dropped = (D \cup end.dropped) \cup gone,
         ws = pre \o end.ws
       PROVE SeqAt(Then(repo, ws), p, o)
  BY DEF SeqFrom
<1>0. /\ RepoOK(repo) /\ repo.head = None /\ run \in RunType /\ todo \in Seq(Sources) /\ h \in Histories /\ n \in Nat /\ n = Len(todo)
      /\ end = RunSequence(run, todo, h)
  OBVIOUS
<1>1. end \in AccType BY ONLY <1>0, SequenceIs
<1>2. \A f \in Fields \ SeqNames(op) : \A x : Late(end.ws, f, x) = x
  <2>1. \A f \in Fields \ SeqNames(run.op) : \A x : Late(end.ws, f, x) = x BY ONLY <1>0, SequenceIs
  <2> QED BY <2>1
<1>3. Late(end.ws, "branch", h) = end.h BY ONLY <1>0, SequenceIs
<1>4. PICK d, m : /\ Carried(run, todo, n, h, end, d, m)
                  /\ SeqDone(run, todo, n, end, m) \/ SeqStopped(run, todo, n, end, m) \/ SeqLone(run, todo, n, end, m)
  BY ONLY <1>0, SequenceIs
<1>5. k \in 0 .. N BY DEF Done
<1>6. n = N - k BY <1>5, RestIs
<1>7. m \in 0 .. n BY <1>4 DEF SeqDone, SeqStopped, SeqLone
<1>8. h \in Seq(CommitType) /\ end.h \in Seq(CommitType)
  <2>1. end.h \in Histories BY <1>1, AccIs
  <2> QED BY <2>1 DEF Histories
<1>9. PICK E : E = D \cup end.dropped OBVIOUS
<1>10. Done(P, E, base, end.h, k + m)
  <2>1. Carried(run, todo, n, h, end, d, m) BY <1>4
  <2>2. /\ P \in Seq(Names) /\ base \in Nat /\ Done(P, D, base, h, k) /\ N \in Nat /\ N = Len(P)
        /\ todo = SubSeq(P, k + 1, N)
    OBVIOUS
  <2>3. Done(P, D \cup end.dropped, base, end.h, k + m) BY ONLY <1>6, <1>7, <1>8, <2>1, <2>2, DoneCarried
  <2> QED BY <1>9, <2>3
<1>11. PICK tail \in Seq(WriteType) : tail = end.ws BY <1>1, AccIs
<1>13. PICK A : A = Then(repo, ws) OBVIOUS
<1>14. \A f \in Fields : A[f] = Late(end.ws, f, Late(pre, f, repo[f])) BY <1>11, Join, <1>13, ThenIs
<1>15. A.branch = end.h BY <1>3, <1>14, FieldsAre
<1>16. A.rbOrig = None
  <2>1. "rbOrig" \in Fields \ SeqNames(op) BY FieldsAre DEF SeqNames
  <2> QED BY <1>2, <1>14, <2>1
<1>17. PICK x : x = Late(pre, "seqTodo", repo.seqTodo) /\ x \in {None, repo.seqTodo} OBVIOUS
<1>18. A.seqTodo = Late(end.ws, "seqTodo", x) /\ A[op] = Late(end.ws, op, None) BY <1>14, <1>17, FieldsAre
<1>19. "seqTodo" \in SequencerDir BY DEF SequencerDir
<1>20. PICK j : j = k + m /\ j \in 0 .. N BY <1>5, <1>6, <1>7
<1>21. CASE SeqDone(run, todo, n, end, m)
  <2>6. \A f \in {"pick", "revert", "message"} : \A y : Late(end.ws, f, y) = y BY <1>21 DEF SeqDone
  <2>7. op \in {"pick", "revert", "message"} OBVIOUS
  <2>8. Late(end.ws, op, None) = None BY ONLY <2>6, <2>7
  <2>1. ~end.stopped /\ m = n /\ A[op] = None BY <1>21, <2>8, <1>18 DEF SeqDone
  <2>3. A.seqTodo = None BY <1>18, <1>21, <1>17, <1>19 DEF SeqDone
  <2>4. p.dropped = E BY <1>9, <2>1
  <2>5. j = N BY <1>5, <1>6, <1>20, <2>1
  <2> QED BY <1>10, <1>13, <1>15, <1>16, <1>20, <2>1, <2>3, <2>4, <2>5, SeqShown
<1>22. CASE SeqStopped(run, todo, n, end, m)
  <2>1. m \in 0 .. n - 1 /\ run.multi BY <1>22 DEF SeqStopped
  <2>2. A.seqTodo = <<SubSeq(todo, m + 1, n)>> BY <1>18, <1>22 DEF SeqStopped
  <2>11. P \in Seq(Names) /\ N \in Nat /\ N = Len(P) /\ todo = SubSeq(P, k + 1, N) OBVIOUS
  <2>3. SubSeq(todo, m + 1, n) = SubSeq(P, (k + m) + 1, N) BY ONLY <1>5, <1>6, <1>7, <2>11, RestOfRest
  <2>4. A.seqTodo = <<SubSeq(P, j + 1, N)>> BY <1>20, <2>2, <2>3
  <2>5. todo[m + 1] = P[j + 1]
    <3>1. m + 1 \in 1 .. n /\ k + (m + 1) = j + 1 BY <1>5, <1>20, <2>1
    <3>2. \A i \in 1 .. n : todo[i] = P[k + i] BY <1>5, <1>6, RestIs
    <3> QED BY <3>1, <3>2
  <2>9. Marked(run, todo[m + 1], end.ws) /\ run.op = op BY <1>22 DEF SeqStopped
  <2>10. Late(end.ws, op, None) = None \/ Late(end.ws, op, None) = <<todo[m + 1]>> BY ONLY <2>9 DEF Marked
  <2>6. A[op] = None \/ A[op] = <<P[j + 1]>> BY ONLY <1>18, <2>5, <2>10
  <2>7. p.dropped = E BY <1>9, <2>1
  <2>8. j < N BY <1>5, <1>6, <1>20, <2>1
  <2> QED BY <1>10, <1>13, <1>15, <1>16, <1>20, <2>4, <2>6, <2>7, <2>8, SeqShown
<1>23. CASE SeqLone(run, todo, n, end, m)
  <2>1. end.stopped /\ m \in 0 .. n - 1 /\ ~run.multi BY <1>23 DEF SeqLone
  <2>6. n = 1 /\ x = None
    <3>1. n <= 1 /\ x = None BY <1>17, <2>1
    <3> QED BY <2>1, <3>1
  <2>2. n = 1 /\ m = 0 /\ x = None /\ k + 1 = N /\ j = k /\ k < N
    <3>1. m = 0 BY <2>1, <2>6
    <3> QED BY <1>5, <1>6, <1>20, <2>6, <3>1
  <2>3. A.seqTodo = None BY <1>18, <1>19, <1>23, <2>2 DEF SeqLone
  <2>4. CASE end.ws = <<>>
    <3>1. A[op] = None BY <1>18, <2>4, NoneIs
    <3>2. gone = {N - (j + 1)}
      <4>1. N - (j + 1) = 0 BY <2>2
      <4> QED BY <2>1, <2>4, <4>1
    <3>3. p.dropped = E \cup {N - (j + 1)} BY <1>9, <3>2
    <3>4. Done(P, E \cup {N - (j + 1)}, base, end.h, j + 1)
      <4>1. Done(P, E, base, end.h, j) /\ j < N BY <1>10, <1>20, <2>2
      <4> QED BY <1>8, <4>1, DoneSkip
    <3>5. PICK i : i = j + 1 /\ i = N BY <2>2
    <3>6. Done(p.todo, p.dropped, Len(p.start), A.branch, i) BY <1>15, <3>3, <3>4, <3>5
    <3> QED BY <1>13, <1>16, <2>3, <3>1, <3>5, <3>6, SeqShown
  <2>5. CASE end.ws # <<>>
    <3>1. A[op] = <<todo[m + 1]>> BY <1>18, <1>23, <2>2, <2>5 DEF SeqLone
    <3>2. todo[m + 1] = P[j + 1]
      <4>1. m + 1 \in 1 .. n /\ k + (m + 1) = j + 1 BY <1>5, <2>2
      <4>2. \A i \in 1 .. n : todo[i] = P[k + i] BY <1>5, <1>6, RestIs
      <4> QED BY <4>1, <4>2
    <3>3. p.dropped = E BY <1>9, <2>5
    <3>4. A[op] = <<P[j + 1]>> /\ j + 1 = N BY <2>2, <3>1, <3>2
    <3> QED BY <1>10, <1>13, <1>15, <1>16, <1>20, <2>3, <3>3, <3>4, SeqShown
  <2> QED BY <2>4, <2>5
<1> QED BY <1>4, <1>21, <1>22, <1>23

\* A resume of the other command's list is marked as such; one after a kill, or after
\* commands that moved the branch, says nothing.
LEMMA CrossedExact ==
  ASSUME Ready, NEW op \in {"pick", "revert"}, OpenReplayResume(op), NEW A, NEW p, p.kind = plan.kind,
         plan.kind # op \/ odd \cap {"crash", "stale", "commit", "reset", "crossed"} # {}
  PROVE  ExactAt(A, p, Crossing(op))
<1>1. PICK o : o = Crossing(op) /\ odd \subseteq o /\ (plan.kind # op => "crossed" \in o) BY DEF Crossing
<1>2. SeqAt(A, p, o) BY <1>1 DEF SeqAt
<1>3. RbAt(A, p, o)
  <2>1. SUFFICES ASSUME plan.kind = "rebase" PROVE o \cap {"crash", "stale", "commit", "reset"} # {} BY DEF RbAt
  <2>3. odd \cap {"stale", "commit", "reset"} # {} BY MarkerIs, <2>1, NotMerging DEF OpenReplayResume
  <2> QED BY <1>1, <2>3
<1> QED BY <1>1, <1>2, <1>3 DEF ExactAt

\* What a resume finds: the next line of the plan, stopped or not, and those after it.
ListFound(op, P, N, k) ==
  /\ k \in 0 .. N - 1 /\ Done(P, plan.dropped, Len(plan.start), repo.branch, k)
  /\ Rest = SubSeq(P, (k + 1) + 1, N) /\ repo.rbOrig = None
  /\ repo[op] # None => repo[op][1] = P[k + 1]
  /\ repo[op] = None => Todo = SubSeq(P, k + 1, N)

LEMMA ListLeft ==
  ASSUME Ready, ExactAt(repo, plan, odd), NEW op \in {"pick", "revert"}, OpenReplayResume(op), plan.kind = op,
         odd \cap {"crash", "stale", "commit", "reset", "crossed"} = {},
         NEW P \in Seq(Names), P = plan.todo, NEW N \in Nat, N = Len(P)
  PROVE  \E k : ListFound(op, P, N, k)
<1>1. RepoOK(repo) /\ SeqAt(repo, plan, odd) BY DEF Ready, ExactAt
<1>2. /\ repo.rbOrig = None /\ Shows(plan, Len(plan.start), repo.branch, SeqPending(repo, op))
      /\ repo.seqTodo # None => repo.seqTodo[1] # <<>> /\ (repo[op] # None => repo[op][1] = repo.seqTodo[1][1])
  BY <1>1 DEF SeqAt
<1>3. PICK k : Done(P, plan.dropped, Len(plan.start), repo.branch, k) /\ SeqPending(repo, op) = SubSeq(P, k + 1, N) BY <1>2 DEF Shows
<1>4. k \in 0 .. N BY <1>3 DEF Done
<1>5. PICK L : L = SubSeq(P, k + 1, N) OBVIOUS
<1>6. L \in Seq(Names) /\ Len(L) = N - k /\ \A i \in 1 .. N - k : L[i] = P[k + i] BY <1>4, <1>5, RestIs
<1>8. CASE repo.seqTodo = None
  <2>1. repo[op] # None /\ repo[op] = L BY MarkerIs, <1>3, <1>5, <1>8 DEF SeqPending, OpenReplayResume
  <2>2. repo[op] \in Maybe(Sources) BY <1>1, FieldsAre, KindsAre DEF RepoOK
  <2>3. PICK s \in Sources : repo[op] = <<s>> /\ repo[op][1] = s
    <3> QED BY <2>1, <2>2 DEF Maybe, None
  <2>4. L = <<s>> BY <2>1, <2>3
  <2>5. Len(L) = 1 /\ L[1] = s BY ONLY <2>4
  <2>6. k \in 0 .. N - 1 /\ N - k = 1 /\ 1 \in 1 .. N - k
    <3>1. N - k = 1 BY ONLY <1>6, <2>5
    <3> QED BY <1>4, <3>1
  <2>7. P[k + 1] = s BY <1>6, <2>5, <2>6
  <2>8. PICK R : R = SubSeq(P, (k + 1) + 1, N) OBVIOUS
  <2>9. R = <<>>
    <3>1. PICK j \in 0 .. N : j = k + 1 BY <2>6
    <3> QED BY <2>6, <2>8, <3>1, RestIs, EmptySeq
  <2>10. Rest = R BY <1>8, <2>9 DEF Rest, Todo
  <2> QED BY <1>2, <1>3, <2>1, <2>3, <2>6, <2>7, <2>8, <2>10 DEF ListFound
<1>9. CASE repo.seqTodo # None
  <2>1. Todo = L /\ L # <<>> BY <1>2, <1>3, <1>5, <1>9 DEF SeqPending, Todo
  <2>2. k < N /\ 1 \in 1 .. N - k
    <3>1. Len(L) # 0 BY <1>6, <2>1, EmptySeq
    <3> QED BY <1>4, <1>6, <3>1
  <2>3. L[1] = P[k + 1] BY <1>6, <2>2
  <2>4. Tail(L) = SubSeq(P, (k + 1) + 1, N)
    <3>1. P \in Seq(Names) /\ N \in Nat /\ N = Len(P) OBVIOUS
    <3>2. P[k + 1] \in Names /\ Tail(L) = SubSeq(P, (k + 1) + 1, N) BY ONLY <1>4, <1>5, <2>2, <3>1, RestSplits
    <3> QED BY <3>2
  <2>5. Rest = Tail(L) BY <2>1 DEF Rest
  <2>6. repo[op] # None => repo[op][1] = P[k + 1] BY <1>2, <1>9, <2>1, <2>3 DEF Todo
  <2>7. k \in 0 .. N - 1 BY <1>4, <2>2
  <2> QED BY <1>2, <1>3, <1>5, <2>1, <2>4, <2>5, <2>6, <2>7 DEF ListFound
<1> QED BY <1>8, <1>9

\* A list that stops at empty results drops nothing by itself.
LEMMA StopsDropNothing ==
  ASSUME RepoOK(repo), repo.head = None, NEW run \in RunType, run.onEmpty = "stop", NEW todo \in Seq(Sources), NEW h \in Histories,
         NEW n \in Nat, n = Len(todo), NEW end, end = RunSequence(run, todo, h)
  PROVE  end.dropped = {}
<1>1. PICK d, m : Carried(run, todo, n, h, end, d, m) BY SequenceIs
<1> QED BY <1>1 DEF Carried

\* A resumed list, whose next line is dealt with by the writes pre.
ResumesFrom(op, p, P, N, D, k, h, todo, run, end, pre) ==
  /\ repo.head = None /\ op \in {"pick", "revert"} /\ repo.rbOrig = None
  /\ p \in PlanType /\ p.kind = op /\ P \in Seq(Names) /\ P = p.todo /\ N \in Nat /\ N = Len(P)
  /\ h \in Histories /\ Done(P, D, Len(p.start), h, k)
  /\ todo \in Seq(Sources) /\ todo = SubSeq(P, k + 1, N)
  /\ run \in RunType /\ run.op = op /\ run.multi /\ end = RunSequence(run, todo, h) /\ p.dropped = D \cup end.dropped
  /\ pre \in Seq(WriteType) /\ Deals(op, pre) /\ Late(pre, "branch", repo.branch) = h

LEMMA ResumesExact ==
  ASSUME Ready, NEW op, NEW p, NEW P, NEW N, NEW D, NEW k, NEW h, NEW todo, NEW run, NEW end, NEW pre,
         ResumesFrom(op, p, P, N, D, k, h, todo, run, end, pre), NEW o
  PROVE  ExactAt(Then(repo, pre \o end.ws), p, o)
<1> SUFFICES ASSUME
         repo.head = None, op \in {"pick", "revert"}, repo.rbOrig = None,
         p \in PlanType, p.kind = op, P \in Seq(Names), P = p.todo, N \in Nat, N = Len(P),
         h \in Histories, Done(P, D, Len(p.start), h, k), todo \in Seq(Sources), todo = SubSeq(P, k + 1, N),
         run \in RunType, run.op = op, run.multi, end = RunSequence(run, todo, h), p.dropped = D \cup end.dropped,
         pre \in Seq(WriteType), Deals(op, pre), Late(pre, "branch", repo.branch) = h
       PROVE ExactAt(Then(repo, pre \o end.ws), p, o)
  BY DEF ResumesFrom
<1>1. RepoOK(repo) BY DEF Ready
<1>2. PICK n \in Nat : n = Len(todo) BY LenProperties
<1>3. PICK base \in Nat : base = Len(p.start) BY LenProperties DEF PlanType
<1>4. Late(pre, "rbOrig", repo.rbOrig) = None /\ Late(pre, op, repo[op]) = None /\ Late(pre, "seqTodo", repo.seqTodo) \in {None, repo.seqTodo}
  BY DEF Deals, RebasePart, SequencerDir
<1>5. PICK gone : gone = (IF end.stopped /\ ~run.multi /\ end.ws = <<>> THEN {0} ELSE {}) OBVIOUS
<1>6. p.dropped = (D \cup end.dropped) \cup gone BY <1>5
<1>7. PICK ws : ws = pre \o end.ws OBVIOUS
<1>8. Done(P, D, base, h, k) BY <1>3
<1>9. SeqFrom(op, p, P, N, base, D, k, h, todo, n, run, end, pre, gone, ws)
  BY <1>1, <1>2, <1>3, <1>4, <1>5, <1>6, <1>7, <1>8 DEF SeqFrom
<1>10. SeqAt(Then(repo, ws), p, o) BY ONLY <1>9, SeqExact
<1>11. RbAt(Then(repo, ws), p, o) BY DEF RbAt
<1> QED BY <1>7, <1>10, <1>11 DEF ExactAt

LEMMA ContinueResolvedExact ==
  ASSUME Ready, ExactAt(repo, plan, odd), repo.head = None, NEW op \in {"pick", "revert"}, NEW given \in BOOLEAN, repo[Marker(op)] # None,
         NEW h, h = Append(Tip, Commit(op, repo[Marker(op)][1], Tip, repo.index.tree)),
         NEW end, end = RunSequence(Resumed(op, h, ResumeAllowsEmpty(op, given), "stop"), Rest, h)
  PROVE  ExactAt(Then(repo, <<MoveHead(h), W(Marker(op), None), W("message", None)>> \o end.ws), plan, Crossing(op))
<1>1. RepoOK(repo) /\ plan \in PlanType BY DEF Ready
<1>2. OpenReplayResume(op) BY DEF OpenReplayResume
<1>3. CASE plan.kind # op \/ odd \cap {"crash", "stale", "commit", "reset", "crossed"} # {} BY <1>2, <1>3, CrossedExact
<1>4. CASE plan.kind = op /\ odd \cap {"crash", "stale", "commit", "reset", "crossed"} = {}
  <2>1. PICK P \in Seq(Names) : P = plan.todo BY <1>1 DEF PlanType
  <2>2. PICK N \in Nat : N = Len(P) BY LenProperties
  <2>3. PICK k : ListFound(op, P, N, k) BY <1>2, <1>4, <2>1, <2>2, ListLeft
  <2>4. k \in 0 .. N - 1 /\ Done(P, plan.dropped, Len(plan.start), repo.branch, k) /\ Rest = SubSeq(P, (k + 1) + 1, N) /\ repo.rbOrig = None
    BY <2>3 DEF ListFound
  <2>5. PICK t \in Histories : t = Tip /\ t = repo.branch BY <1>1, TipIs DEF Tip
  <2>6. PICK c \in CommitType : c = Commit(op, repo[op][1], t, repo.index.tree) /\ c.src = P[k + 1]
    <3>1. repo[op] \in Maybe(Sources) /\ repo.index \in IndexType BY <1>1, FieldsAre, KindsAre DEF RepoOK
    <3>2. repo[op][1] \in Sources \cup {"merge"} BY <3>1, MarkerIs, MaybeIs
    <3>3. repo.index.tree \in SUBSET Patches BY <3>1 DEF IndexType
    <3>5. Commit(op, repo[op][1], t, repo.index.tree) \in CommitType BY <3>2, <3>3, CommitIs
    <3>7. repo[op][1] = P[k + 1] BY <2>3, MarkerIs DEF ListFound
    <3> QED BY <3>5, <3>7 DEF Commit
  <2>7. PICK g \in Histories : g = h /\ g = Append(t, c)
    <3>1. Append(t, c) \in Histories BY HistoryIs
    <3>2. h = Append(t, c) BY <2>5, <2>6, MarkerIs
    <3> QED BY <3>1, <3>2
  <2>8. PICK base \in Nat : base = Len(plan.start) BY <1>1, LenProperties DEF PlanType
  <2>9. PICK j : j = k + 1 OBVIOUS
  <2>10. Done(P, plan.dropped, base, g, j)
    <3>1. k < N /\ t \in Seq(CommitType) BY <2>4, HistoryIs
    <3>2. Done(P, plan.dropped, base, t, k) BY <2>4, <2>5, <2>8
    <3>3. Done(P, plan.dropped, base, Append(t, c), k + 1) BY <2>2, <2>6, <3>1, <3>2, DoneOne
    <3> QED BY <2>7, <2>9, <3>3
  <2>11. PICK todo \in Seq(Sources) : todo = Rest BY <1>1, TodoIs
  <2>12. PICK run \in RunType : run = Resumed(op, g, ResumeAllowsEmpty(op, given), "stop") /\ run.op = op /\ run.multi /\ run.onEmpty = "stop"
    BY <1>1, ResumedIs
  <2>13. end = RunSequence(run, todo, g) BY <2>7, <2>11, <2>12
  <2>14. end.dropped = {}
    <3>1. PICK n \in Nat : n = Len(todo) BY LenProperties
    <3> QED BY <1>1, <2>12, <2>13, <3>1, StopsDropNothing
  <2>15. PICK pre : pre = <<MoveHead(h), W(Marker(op), None), W("message", None)>> OBVIOUS
  <2>16. pre \in Seq(WriteType) /\ Deals(op, pre) /\ Late(pre, "branch", repo.branch) = g
    <3>1. pre = <<MoveHead(g), W(Marker(op), None), W("message", None)>> BY <2>7, <2>15
    <3> QED BY <3>1, ResolvedDeals
  <2>17. todo = SubSeq(P, j + 1, N) BY <2>4, <2>9, <2>11
  <2>18. plan.dropped = plan.dropped \cup end.dropped BY <2>14
  <2>19. Done(P, plan.dropped, Len(plan.start), g, j) BY <2>8, <2>10
  <2>20. ExactAt(Then(repo, pre \o end.ws), plan, Crossing(op))
    <3>1. Ready /\ repo.head = None /\ op \in {"pick", "revert"} OBVIOUS
    <3>2. plan \in PlanType /\ plan.kind = op /\ repo.rbOrig = None BY <1>1, <1>4, <2>4
    <3>3. ResumesFrom(op, plan, P, N, plan.dropped, j, g, todo, run, end, pre)
      BY ONLY <2>1, <2>2, <2>7, <2>11, <2>12, <2>13, <2>16, <2>17, <2>18, <2>19, <3>1, <3>2 DEF ResumesFrom
    <3> QED BY ONLY <3>1, <3>3, ResumesExact
  <2> QED BY <2>15, <2>20
<1> QED BY <1>3, <1>4

LEMMA ContinueMarkerlessExact ==
  ASSUME Ready, ExactAt(repo, plan, odd), repo.head = None, NEW op \in {"pick", "revert"}, NEW given \in BOOLEAN, repo[Marker(op)] = None, OpenReplayResume(op),
         NEW end, end = RunSequence(Resumed(op, Tip, ResumeAllowsEmpty(op, given), "drop"), Todo, Tip)
  PROVE  ExactAt(Then(repo, end.ws), Dropping(end.dropped), Crossing(op))
<1>1. RepoOK(repo) /\ plan \in PlanType BY DEF Ready
<1>2. PICK h \in Histories : h = Tip /\ h = repo.branch BY <1>1, TipIs DEF Tip
<1>3. PICK run \in RunType : run = Resumed(op, h, ResumeAllowsEmpty(op, given), "drop") /\ run.op = op /\ run.multi BY <1>1, <1>2, ResumedIs
<1>4. PICK todo \in Seq(Sources) : todo = Todo BY <1>1, TodoIs
<1>5. PICK n \in Nat : n = Len(todo) BY LenProperties
<1>6. end = RunSequence(run, todo, h) BY <1>2, <1>3, <1>4
<1>7. end \in AccType BY <1>1, <1>5, <1>6, SequenceIs
<1>8. PICK p : p = Dropping(end.dropped) OBVIOUS
<1>9. p \in PlanType /\ p.kind = plan.kind /\ p.start = plan.start /\ p.todo = plan.todo /\ p.dropped = plan.dropped \cup end.dropped
  <2>1. end.dropped \in SUBSET Int BY <1>7 DEF AccType
  <2> QED BY <1>1, <1>8, <2>1 DEF Dropping, PlanType
<1>10. CASE plan.kind # op \/ odd \cap {"crash", "stale", "commit", "reset", "crossed"} # {} BY <1>8, <1>9, <1>10, CrossedExact
<1>11. CASE plan.kind = op /\ odd \cap {"crash", "stale", "commit", "reset", "crossed"} = {}
  <2>1. PICK P \in Seq(Names) : P = plan.todo BY <1>1 DEF PlanType
  <2>2. PICK N \in Nat : N = Len(P) BY LenProperties
  <2>3. PICK k : ListFound(op, P, N, k) BY <1>11, <2>1, <2>2, ListLeft
  <2>4. Done(P, plan.dropped, Len(p.start), h, k) /\ repo.rbOrig = None BY <1>2, <1>9, <2>3 DEF ListFound
  <2>5. todo = SubSeq(P, k + 1, N)
    <3>1. repo[op] = None BY MarkerIs
    <3> QED BY <1>4, <2>3, <3>1 DEF ListFound
  <2>6. PICK pre \in Seq(WriteType) : pre = <<>> /\ \A f, x : Late(pre, f, x) = x BY NoneIs
  <2>7. Deals(op, pre)
    <3>1. repo[op] = None BY MarkerIs
    <3>2. Range(pre) = {} BY <2>6, NoneIs
    <3> QED BY <2>6, <3>1, <3>2 DEF Deals
  <2>8. Late(pre, "branch", repo.branch) = h BY <1>2, <2>6
  <2>9. Ready /\ repo.head = None /\ op \in {"pick", "revert"} /\ p.kind = op /\ P = p.todo BY <1>9, <1>11, <2>1
  <2>10. ResumesFrom(op, p, P, N, plan.dropped, k, h, todo, run, end, pre)
    BY ONLY <1>2, <1>3, <1>4, <1>6, <1>9, <2>1, <2>2, <2>4, <2>5, <2>6, <2>7, <2>8, <2>9 DEF ResumesFrom
  <2>11. ExactAt(Then(repo, pre \o end.ws), p, Crossing(op)) BY ONLY <2>9, <2>10, ResumesExact
  <2>12. end.ws = pre \o end.ws
    <3>1. end.ws \in Seq(WriteType) BY <1>7, AccIs
    <3> QED BY <2>6, <3>1, ConcatEmptySeq
  <2> QED BY <1>8, <2>11, <2>12
<1> QED BY <1>10, <1>11

LEMMA ReplaySkipExact ==
  ASSUME Ready, ExactAt(repo, plan, odd), repo.head = None, NEW op \in {"pick", "revert"}, NEW given \in BOOLEAN, OpenReplayResume(op),
         NEW a, a = <<W("index", Clean(Tree(Tip))), W("orig", <<Tip>>)>>, NEW b, b = RemoveBranchState(repo.mergeStash),
         NEW end, end = RunSequence(Resumed(op, Tip, ResumeAllowsEmpty(op, given), "stop"), Rest, Tip)
  PROVE  ExactAt(Then(repo, a \o b \o end.ws), Dropping({Len(Rest)}), Crossing(op))
<1>1. RepoOK(repo) /\ plan \in PlanType BY DEF Ready
<1>2. PICK h \in Histories : h = Tip /\ h = repo.branch BY <1>1, TipIs DEF Tip
<1>3. PICK run \in RunType : run = Resumed(op, h, ResumeAllowsEmpty(op, given), "stop") /\ run.op = op /\ run.multi /\ run.onEmpty = "stop" BY <1>1, <1>2, ResumedIs
<1>4. PICK todo \in Seq(Sources) : todo = Rest BY <1>1, TodoIs
<1>5. PICK n \in Nat : n = Len(todo) BY LenProperties
<1>6. end = RunSequence(run, todo, h) BY <1>2, <1>3, <1>4
<1>7. end \in AccType /\ end.dropped = {} BY <1>1, <1>3, <1>5, <1>6, SequenceIs, StopsDropNothing
<1>8. PICK p : p = Dropping({Len(Rest)}) OBVIOUS
<1>9. p \in PlanType /\ p.kind = plan.kind /\ p.start = plan.start /\ p.todo = plan.todo /\ p.dropped = plan.dropped \cup {n}
  <2>1. n = Len(Rest) /\ {n} \in SUBSET Int BY <1>4, <1>5
  <2> QED BY <1>8, <1>1, <2>1 DEF PlanType, Dropping
<1>10. CASE plan.kind # op \/ odd \cap {"crash", "stale", "commit", "reset", "crossed"} # {} BY <1>8, <1>9, <1>10, CrossedExact
<1>11. CASE plan.kind = op /\ odd \cap {"crash", "stale", "commit", "reset", "crossed"} = {}
  <2>1. PICK P \in Seq(Names) : P = plan.todo BY <1>1 DEF PlanType
  <2>2. PICK N \in Nat : N = Len(P) BY LenProperties
  <2>3. PICK k : ListFound(op, P, N, k) BY <1>11, <2>1, <2>2, ListLeft
  <2>4. k \in 0 .. N - 1 /\ Done(P, plan.dropped, Len(plan.start), h, k) /\ repo.rbOrig = None /\ Rest = SubSeq(P, (k + 1) + 1, N)
    BY <1>2, <2>3 DEF ListFound
  <2>5. PICK j \in 0 .. N : j = k + 1 /\ k < N BY <2>4
  <2>6. todo = SubSeq(P, j + 1, N) BY <1>4, <2>4, <2>5
  <2>7. n = N - (k + 1)
    <3>1. Len(todo) = N - j BY <2>6, RestIs
    <3> QED BY <1>5, <2>5, <3>1
  <2>8. PICK base \in Nat : base = Len(plan.start) /\ base = Len(p.start) BY <1>1, <1>9, LenProperties DEF PlanType
  <2>9. PICK D : D = plan.dropped \cup {n} OBVIOUS
  <2>10. Done(P, D, base, h, j)
    <3>1. h \in Seq(CommitType) BY HistoryIs
    <3>2. Done(P, plan.dropped, base, h, k) BY <2>4, <2>8
    <3>3. Done(P, plan.dropped \cup {N - (k + 1)}, base, h, k + 1) BY <2>2, <2>5, <3>1, <3>2, DoneSkip
    <3> QED BY <2>5, <2>7, <2>9, <3>3
  <2>11. Done(P, D, Len(p.start), h, j) BY <2>8, <2>10
  <2>12. p.dropped = D \cup end.dropped BY <1>7, <1>9, <2>9
  <2>13. b \in Seq(WriteType) /\ Sweeps(b)
    <3> QED BY FieldsAre, KindsAre, <1>1, Swept DEF RepoOK
  <2>14. a \in Seq(WriteType) /\ Deals(op, a \o b) /\ a \o b \in Seq(WriteType) /\ Late(a \o b, "branch", repo.branch) = repo.branch
    BY <2>13, SkipDeals
  <2>15. PICK pre \in Seq(WriteType) : pre = a \o b /\ Deals(op, pre) /\ Late(pre, "branch", repo.branch) = h BY <1>2, <2>14
  <2>16. Ready /\ repo.head = None /\ op \in {"pick", "revert"} /\ p.kind = op /\ P = p.todo BY <1>9, <1>11, <2>1
  <2>17. ResumesFrom(op, p, P, N, D, j, h, todo, run, end, pre)
    BY ONLY <1>2, <1>3, <1>4, <1>6, <1>9, <2>1, <2>2, <2>4, <2>6, <2>11, <2>12, <2>15, <2>16 DEF ResumesFrom
  <2>18. ExactAt(Then(repo, pre \o end.ws), p, Crossing(op)) BY ONLY <2>16, <2>17, ResumesExact
  <2>19. a \o b \o end.ws = pre \o end.ws BY ONLY <2>15
  <2> QED BY <1>8, <2>18, <2>19
<1> QED BY <1>10, <1>11

LEMMA WholeList ==
  ASSUME NEW S, NEW P \in Seq(S), NEW N \in Nat, N = Len(P)
  PROVE  SubSeq(P, 0 + 1, N) = P
<1>1. PICK L : L = SubSeq(P, 0 + 1, N) OBVIOUS
<1>2. PICK k \in 0 .. N : k = 0 OBVIOUS
<1>3. L = SubSeq(P, k + 1, N) BY <1>1, <1>2
<1>4. L \in Seq(S) /\ Len(L) = N - k /\ \A i \in 1 .. N - k : L[i] = P[k + i]
  <2>1. P \in Seq(S) /\ N \in Nat /\ N = Len(P) OBVIOUS
  <2> QED BY ONLY <1>2, <1>3, <2>1, RestIs
<1>5. N - k = N /\ \A i \in 1 .. N : k + i = i BY <1>2
<1>7. L = P BY <1>5, <1>4, SeqEqual
<1> QED BY <1>1, <1>7

LEMMA ReplayRunExact ==
  ASSUME Ready, OpenReplayRun, NEW op \in {"pick", "revert"}, NEW todo \in Seq(Sources), NEW n \in Nat, n = Len(todo), NEW run \in RunType,
         run.op = op, run.multi <=> n > 1, run.onEmpty = "stop", NEW end, end = RunSequence(run, todo, Tip),
         NEW d \in SUBSET Int, d = (IF end.stopped /\ ~run.multi /\ end.ws = <<>> THEN {0} ELSE {}),
         NEW p, p = [Begun(op, todo, {}) EXCEPT !.dropped = d]
  PROVE  ExactAt(Then(repo, end.ws), p, Lasting)
<1>1. RepoOK(repo) /\ NoPendingOperation /\ repo.head = None BY DEF Ready, OpenReplayRun
<1>2. p \in PlanType /\ p.kind = op /\ p.start = Tip /\ p.todo = todo /\ p.dropped = d
  <2>1. todo \in Seq(Names) BY DEF Names
  <2>3. BegunAs(p, op, todo, {}) BY DEF BegunAs
  <2>4. PlanIs(p, op, todo, {}) BY <1>1, <2>1, <2>3, BegunIs
  <2>5. p.todo = todo /\ p.dropped = d BY DEF Begun
  <2> QED BY <2>4, <2>5 DEF PlanIs
<1>3. RbAt(Then(repo, end.ws), p, Lasting) BY <1>2 DEF RbAt
<1>4. SeqAt(Then(repo, end.ws), p, Lasting)
  <2>1. SUFFICES ASSUME "stale" \notin Lasting PROVE SeqAt(Then(repo, end.ws), p, Lasting) BY DEF SeqAt
  <2>2. repo.seqTodo = None /\ repo.rbOrig = None /\ repo.pick = None /\ repo.revert = None BY <1>1, <2>1, NothingPending
  <2>3. PICK h \in Histories : h = Tip /\ h = repo.branch BY <1>1, TipIs DEF Tip
  <2>4. end = RunSequence(run, todo, h) BY <2>3
  <2>5. end \in AccType /\ end.dropped = {} BY <1>1, <2>4, SequenceIs, StopsDropNothing
  <2>6. PICK pre \in Seq(WriteType) : pre = <<>> /\ \A f, x : Late(pre, f, x) = x BY NoneIs
  <2>7. /\ Late(pre, "branch", repo.branch) = h /\ Late(pre, "rbOrig", repo.rbOrig) = None /\ Late(pre, op, repo[op]) = None
        /\ Late(pre, "seqTodo", repo.seqTodo) \in {None, repo.seqTodo}
    BY <2>2, <2>3, <2>6
  <2>8. PICK P \in Seq(Names) : P = todo BY DEF Names
  <2>9. PICK base \in Nat : base = Len(h) BY LenProperties DEF Histories
  <2>10. PICK D : D = {} OBVIOUS
  <2>11. PICK k : k = 0 OBVIOUS
  <2>12. Done(P, D, base, h, k)
    <3>1. h \in Seq(CommitType) BY HistoryIs
    <3>2. Done(P, {}, Len(h), h, 0) BY <3>1, DoneZero
    <3> QED BY <2>9, <2>10, <2>11, <3>2
  <2>13. todo = SubSeq(P, k + 1, n)
    <3>1. SubSeq(todo, 0 + 1, n) = todo BY WholeList
    <3> QED BY <2>8, <2>11, <3>1
  <2>14. p.dropped = (D \cup end.dropped) \cup d BY <1>2, <2>5, <2>10
  <2>15. P = p.todo /\ n = Len(P) /\ base = Len(p.start) BY <1>2, <2>3, <2>8, <2>9
  <2>16. ~run.multi => n <= 1 /\ repo.seqTodo = None BY <2>2
  <2>17. PICK ws : ws = pre \o end.ws /\ ws = end.ws
    <3>1. end.ws \in Seq(WriteType) BY <2>5, AccIs
    <3> QED BY <2>6, <3>1, ConcatEmptySeq
  <2>18. /\ op \in {"pick", "revert"} /\ todo \in Seq(Sources) /\ n \in Nat /\ n = Len(todo) /\ run \in RunType /\ run.op = op
         /\ d = (IF end.stopped /\ ~run.multi /\ end.ws = <<>> THEN {0} ELSE {})
    OBVIOUS
  <2>19. SeqFrom(op, p, P, n, base, D, k, h, todo, n, run, end, pre, d, ws)
    BY ONLY <1>1, <1>2, <2>3, <2>4, <2>6, <2>7, <2>8, <2>9, <2>12, <2>13, <2>14, <2>15, <2>16, <2>17, <2>18 DEF SeqFrom
  <2>20. SeqAt(Then(repo, ws), p, Lasting) BY ONLY <2>19, SeqExact
  <2> QED BY <2>17, <2>20
<1> QED BY <1>3, <1>4 DEF ExactAt

\* A rebase replays its lines run.todo, the rest of plan p from where k lines of it
\* were done and history h was reached by the writes pre; ws are all the writes.
RbFrom(p, P, N, D, k, h, run, n, blocked, stash, outcome, end, pre, ws) ==
  /\ RepoOK(repo) /\ p \in PlanType /\ P \in Seq(Names) /\ P = p.todo /\ N \in Nat /\ N = Len(P)
  /\ h \in Histories /\ Done(P, D, Len(Upstream), h, k)
  /\ run \in LineType /\ run.orig = repo.branch /\ repo.branch = p.start /\ n \in Nat /\ n = Len(run.todo)
  /\ SourcesOf(run.todo) = SubSeq(P, k + 1, N)
  /\ stash \in Maybe(SUBSET Locals) /\ outcome \in ApplyOutcomes /\ end = ReplayFrom(run, h, blocked, stash, outcome)
  /\ p.dropped = D \cup end.dropped
  /\ pre \in Seq(WriteType) /\ Late(pre, "head", repo.head) = <<h>> /\ Late(pre, "branch", repo.branch) = repo.branch
  /\ ws = pre \o end.ws

\* What is left when a line stops: put off, or in conflict.
LEMMA LinesPending ==
  ASSUME NEW run \in LineType, NEW n \in Nat, n = Len(run.todo), NEW m \in 0 .. n - 1, NEW L, L = SourcesOf(run.todo),
         NEW A, \/ A.rbTodo = <<SubSeq(run.todo, m + 1, n)>> /\ A.rbMessage = None
                \/ A.rbTodo = <<SubSeq(run.todo, (m + 1) + 1, n)>> /\ A.rbMessage = <<run.todo[m + 1]>>
  PROVE  RbPending(A) = SubSeq(L, m + 1, n)
<1>1. PICK t \in Seq(CommitType) : t = run.todo BY DEF LineType
<1>2. L \in Seq(Names) /\ Len(L) = n /\ \A i \in 1 .. n : L[i] = t[i].src BY <1>1, SourcesAre
<1>3. m \in 0 .. n /\ m + 1 \in 0 .. n /\ m + 1 \in 1 .. n /\ m < n OBVIOUS
<1>4. PICK j \in 0 .. n : j = m + 1 BY <1>3
<1>5. n = Len(t) BY <1>1
<1>6. CASE A.rbTodo = <<SubSeq(run.todo, m + 1, n)>> /\ A.rbMessage = None
  <2>1. A.rbTodo # None /\ A.rbTodo[1] = SubSeq(t, m + 1, n) BY <1>1, <1>6, Something
  <2>2. SourcesOf(A.rbTodo[1]) = SubSeq(L, m + 1, n) BY <1>1, <1>3, <1>5, <2>1, RestSources
  <2>3. SubSeq(L, m + 1, n) \in Seq(Names) BY <1>2, <1>3, RestIs
  <2> QED BY <2>3, ConcatEmptySeq, <1>6, <2>1, <2>2 DEF RbPending
<1>7. CASE A.rbTodo = <<SubSeq(run.todo, (m + 1) + 1, n)>> /\ A.rbMessage = <<run.todo[m + 1]>>
  <2>1. A.rbTodo # None /\ A.rbTodo[1] = SubSeq(t, j + 1, n) BY <1>1, <1>4, <1>7, Something
  <2>2. A.rbMessage # None /\ A.rbMessage[1].src = L[m + 1]
    <3> QED BY <1>1, <1>7, Something, <1>2, <1>3
  <2>4. SourcesOf(A.rbTodo[1]) = SubSeq(L, (m + 1) + 1, n) BY <1>5, RestSources, <1>1, <1>4, <2>1
  <2>5. <<L[m + 1]>> \o SubSeq(L, (m + 1) + 1, n) = SubSeq(L, m + 1, n)
    <3>1. PICK q : q = SubSeq(L, m + 1, n) OBVIOUS
    <3>2. L \in Seq(Names) /\ n \in Nat /\ n = Len(L) BY <1>2
    <3>3. <<L[m + 1]>> \o SubSeq(L, (m + 1) + 1, n) = q BY ONLY <1>3, <3>1, <3>2, RestSplits
    <3> QED BY <3>1, <3>3
  <2> QED BY <2>1, <2>2, <2>4, <2>5 DEF RbPending
<1> QED BY <1>6, <1>7

LEMMA RbLeaves ==
  ASSUME NEW p, NEW P, NEW N, NEW D, NEW k, NEW h, NEW run, NEW n, NEW blocked, NEW stash, NEW outcome, NEW end, NEW pre, NEW ws,
         RbFrom(p, P, N, D, k, h, run, n, blocked, stash, outcome, end, pre, ws), NEW o
  PROVE  RbAt(Then(repo, ws), p, o)
<1> SUFFICES ASSUME
         RepoOK(repo), p \in PlanType, P \in Seq(Names), P = p.todo, N \in Nat, N = Len(P),
         h \in Histories, Done(P, D, Len(Upstream), h, k),
         run \in LineType, run.orig = repo.branch, repo.branch = p.start, n \in Nat, n = Len(run.todo),
         SourcesOf(run.todo) = SubSeq(P, k + 1, N),
         stash \in Maybe(SUBSET Locals), outcome \in ApplyOutcomes, end = ReplayFrom(run, h, blocked, stash, outcome),
         p.dropped = D \cup end.dropped,
         pre \in Seq(WriteType), Late(pre, "head", repo.head) = <<h>>, Late(pre, "branch", repo.branch) = repo.branch,
         ws = pre \o end.ws
       PROVE RbAt(Then(repo, ws), p, o)
  BY DEF RbFrom
<1>1. PICK adv, b \in Seq(WriteType) :
        /\ end.ws = adv \o b
        /\ FromStops(run, n, h, end, adv, b) \/ FromEnds(run, n, h, end, adv, b, stash) \/ FromSticks(run, n, h, end, adv, b)
  BY FromIs
<1>2. PICK tail \in Seq(WriteType) : tail = end.ws /\ tail = adv \o b BY <1>1, Join
<1>3. PICK g \in Histories : g = end.h
  <2>1. end \in AccType BY FromIs
  <2> QED BY <2>1, AccIs
<1>4. PICK m : /\ LineAt(run, n, h, end, adv, m)
               /\ \/ m \in 0 .. n - 1 /\ LineLeft(run, n, b, m)
                  \/ m = n /\ Finishes(g, stash, b)
  <2>1. CASE FromStops(run, n, h, end, adv, b) BY <2>1 DEF FromStops
  <2>2. CASE FromEnds(run, n, h, end, adv, b, stash) BY <1>3, <2>2 DEF FromEnds
  <2>3. ~FromSticks(run, n, h, end, adv, b) BY DEF FromSticks
  <2> QED BY <1>1, <2>1, <2>2, <2>3
<1>5. /\ adv \in Seq(WriteType) /\ Range(adv) \subseteq HeadAdvance /\ Late(adv, "head", <<h>>) = <<g>>
      /\ end.dropped \subseteq n - m .. n - 1
      /\ SourcesOf(g) = SourcesOf(h) \o Keep(SourcesOf(run.todo), end.dropped)[m]
  BY <1>3, <1>4 DEF LineAt
<1>6. m \in 0 .. n BY <1>4
<1>7. PICK base \in Nat : base = Len(Upstream)
  <2>1. Upstream \in Seq(CommitType) BY HistoryIs, HistoriesAssumption
  <2> QED BY <2>1, LenProperties
<1>8. Done(P, D, base, h, k) /\ k \in 0 .. N BY <1>7 DEF Done
<1>9. PICK L : L = SubSeq(P, k + 1, N) /\ L = SourcesOf(run.todo) OBVIOUS
<1>10. n = N - k
  <2>1. Len(L) = N - k BY <1>8, <1>9, RestIs
  <2>2. PICK t \in Seq(CommitType) : t = run.todo BY DEF LineType
  <2>3. Len(L) = n BY <1>9, <2>2, SourcesAre
  <2> QED BY <2>1, <2>3
<1>11. PICK E : E = end.dropped OBVIOUS
<1>12. Done(P, p.dropped, base, g, k + m)
  <2>1. P \in Seq(Names) /\ N \in Nat /\ N = Len(P) /\ h \in Seq(CommitType) BY HistoryIs
  <2>2. E \subseteq n - m .. n - 1 BY <1>5, <1>11
  <2>3. SourcesOf(g) = SourcesOf(h) \o Keep(L, E)[m] BY <1>5, <1>9, <1>11
  <2>4. L = SubSeq(P, k + 1, N) BY <1>9
  <2>5. Done(P, D \cup E, base, g, k + m) BY ONLY <1>6, <1>7, <1>8, <1>10, <2>1, <2>2, <2>3, <2>4, DoneLines
  <2> QED BY <1>11, <2>5
<1>13. PICK A : A = Then(repo, ws) OBVIOUS
<1>14. \A f \in Fields : A[f] = Late(b, f, Late(adv, f, Late(pre, f, repo[f])))
  <2>1. ws = pre \o tail BY <1>2
  <2>2. \A f, x : Late(ws, f, x) = Late(tail, f, Late(pre, f, x)) BY <2>1, Join
  <2>3. \A f, x : Late(tail, f, x) = Late(b, f, Late(adv, f, x)) BY <1>2, <1>5, Join
  <2>4. \A f \in Fields : A[f] = Late(ws, f, repo[f]) BY <1>13, ThenIs
  <2> QED BY ONLY <2>2, <2>3, <2>4
<1>15. Late(adv, "branch", Late(pre, "branch", repo.branch)) = p.start
  <2>1. "branch" \in Fields \ {"index", "head"} BY FieldsAre
  <2> QED BY <1>5, <2>1, HeadAdvanceIs
<1>17. A.branch = Late(b, "branch", p.start) /\ A.head = Late(b, "head", <<g>>) BY <1>5, <1>14, <1>15, FieldsAre
<1>18. CASE m \in 0 .. n - 1 /\ LineLeft(run, n, b, m)
  <2>1. PICK left, msg : /\ LineStops(run, b, left, msg)
                         /\ \/ left = SubSeq(run.todo, m + 1, n) /\ msg = None
                            \/ left = SubSeq(run.todo, (m + 1) + 1, n) /\ msg = <<run.todo[m + 1]>>
    BY <1>18 DEF LineLeft
  <2>3. A.rbTodo = <<left>> /\ A.rbMessage = msg BY <2>1, <1>14, FieldsAre DEF LineStops
  <2>4. A.branch = p.start /\ A.head = <<g>>
    <3>2. {"head", "branch"} \subseteq Fields \ LineNames BY FieldsAre DEF LineNames, RebaseFiles
    <3> QED BY <2>1, <1>17, <3>2 DEF LineStops
  <2>5. RbPending(A) = SubSeq(L, m + 1, n) 
    <3>1. run \in LineType /\ n \in Nat /\ n = Len(run.todo) OBVIOUS
    <3>2. \/ A.rbTodo = <<SubSeq(run.todo, m + 1, n)>> /\ A.rbMessage = None
          \/ A.rbTodo = <<SubSeq(run.todo, (m + 1) + 1, n)>> /\ A.rbMessage = <<run.todo[m + 1]>>
      BY ONLY <2>1, <2>3
    <3> QED BY ONLY <1>9, <1>18, <3>1, <3>2, LinesPending, ZenonT(60)
  <2>6. SubSeq(L, m + 1, n) = SubSeq(P, (k + m) + 1, N)
    <3>1. P \in Seq(Names) /\ N \in Nat /\ N = Len(P) /\ L = SubSeq(P, k + 1, N) BY <1>9
    <3> QED BY ONLY <1>6, <1>8, <1>10, <3>1, RestOfRest
  <2>7. A.head # None /\ A.head[1] = g BY <2>4, Something
  <2>8. Shows(p, Len(Upstream), IF A.head = None THEN A.branch ELSE A.head[1], RbPending(A))
    BY <1>7, <1>12, <2>5, <2>6, <2>7 DEF Shows
  <2> QED BY <1>13, <2>4, <2>7, <2>8 DEF RbAt
<1>19. CASE m = n /\ Finishes(g, stash, b)
  <2>1. PICK c \in Seq(WriteType) :
          /\ b = <<W("branch", g)>> \o c
          /\ \A f \in Fields : \A x : f # "index" => Late(c, f, x) = IF f \in {"head", "rebase"} \cup RebaseDir THEN None ELSE x
    BY <1>19 DEF Finishes
  <2>2. PICK u \in WriteType : u = W("branch", g) /\ u.f = "branch" /\ u.v = g
    <3>1. W("branch", g) \in WriteType BY WriteIs, KindsAre, FieldsAre
    <3> QED BY <3>1 DEF W
  <2>3. PICK d \in Seq(WriteType) : d = <<u>> /\ \A f, x : Late(d, f, x) = Put(u, f, x) BY One
  <2>4. \A f, x : Late(b, f, x) = Late(c, f, Late(d, f, x))
    <3>1. b = d \o c BY <2>1, <2>2, <2>3
    <3> QED BY <3>1, Join
  <2>5. A.branch = g
    <3>1. \A x : Put(u, "branch", x) = g
      <4>1. \A x : Put(W("branch", g), "branch", x) = g BY ONLY PutIs
      <4> QED BY <2>2, <4>1
    <3>2. \A x : Late(b, "branch", x) = Late(c, "branch", g) BY ONLY <2>3, <2>4, <3>1
    <3>4. Late(c, "branch", g) = g BY FieldsAre, <2>1 DEF RebaseDir
    <3> QED BY ONLY <1>17, <3>2, <3>4
  <2>6. \A f \in {"head", "rebase"} \cup RebaseDir : A[f] = None
    <3>1. SUFFICES ASSUME NEW f \in {"head", "rebase"} \cup RebaseDir PROVE A[f] = None OBVIOUS
    <3>2. f \in Fields /\ f # "index" BY FieldsAre DEF RebaseDir
    <3>3. \A x : Late(c, f, x) = None BY <2>1, <3>2
    <3>4. A[f] = Late(c, f, Late(d, f, Late(adv, f, Late(pre, f, repo[f])))) BY ONLY <1>14, <2>4, <3>2
    <3> QED BY ONLY <3>3, <3>4
  <2>7. A.rbOrig = None /\ A.rbTodo = None /\ A.rbMessage = None /\ A.head = None BY <2>6 DEF RebaseDir
  <2>8. RbPending(A) = SubSeq(P, (k + m) + 1, N)
    <3>1. PICK j \in 0 .. N : j = k + m /\ N - j = 0 BY <1>8, <1>10, <1>19
    <3>2. PICK R : R = SubSeq(P, j + 1, N) OBVIOUS
    <3>6. P \in Seq(Names) /\ N \in Nat /\ N = Len(P) BY HistoryIs
    <3>3. R \in Seq(Names) /\ Len(R) = N - j BY ONLY <3>1, <3>2, <3>6, RestIs
    <3>4. R = <<>> BY <3>1, <3>3, EmptySeq
    <3>5. RbPending(A) = <<>>
      <4>1. RbPending(A) = <<>> \o <<>> BY <2>7 DEF RbPending
      <4>2. <<>> \in Seq(Names) BY EmptySeq
      <4> QED BY <4>1, <4>2, ConcatEmptySeq
    <3> QED BY <3>1, <3>2, <3>4, <3>5
  <2> QED BY <1>7, <1>12, <2>5, <2>8, <1>13, <2>7 DEF RbAt, Shows
<1> QED BY <1>4, <1>18, <1>19

LEMMA RebaseRunExact ==
  ASSUME Ready, NoPendingOperation, repo.head = None, NEW blocked, NEW outcome \in ApplyOutcomes,
         NEW run, run = [orig |-> Tip, todo |-> OwnCommits(Tip), done |-> <<>>],
         NEW end, end = ReplayFrom(run, Upstream, blocked, StashKept, outcome),
         NEW p, p = [Begun("rebase", PlannedSources, Local) EXCEPT !.dropped = end.dropped]
  PROVE  ExactAt(Then(repo, CreateAutostash \o WriteAutostash
                            \o <<W("orig", <<Tip>>), W("index", Clean(Tree(Upstream))), W("head", <<Upstream>>)>> \o end.ws), p, Lasting)
<1>1. RepoOK(repo) BY DEF Ready
<1>2. PICK h \in Histories : h = Tip /\ h = repo.branch BY <1>1, TipIs DEF Tip
<1>3. PICK own \in Seq(CommitType) : own = OwnCommits(Tip) BY <1>2, OwnIs
<1>4. PICK n \in Nat : n = Len(own) /\ DOMAIN own = 1 .. n BY LenProperties
<1>5. run \in LineType /\ run.orig = repo.branch /\ run.todo = own
  <2>2. <<>> \in Seq(CommitType) BY EmptySeq
  <2> QED BY <1>3, <1>2, <2>2 DEF LineType
<1>6. PICK P \in Seq(Names) : P = PlannedSources /\ P = SourcesOf(own) /\ Len(P) = n
  <2>2. PlannedSources = [i \in 1 .. n |-> own[i].src] BY <1>3, <1>4 DEF PlannedSources
  <2>3. SourcesOf(own) = [i \in 1 .. n |-> own[i].src] BY <1>4 DEF SourcesOf
  <2> QED BY <1>4, SourcesAre, <2>2, <2>3
<1>7. PICK stash \in Maybe(SUBSET Locals) : stash = StashKept
  <2>1. repo.rbStash \in Maybe(SUBSET Locals) BY <1>1, FieldsAre, KindsAre DEF RepoOK
  <2>2. Local \in SUBSET Locals BY <1>1, TipIs
  <2>3. <<Local>> \in Maybe(SUBSET Locals) BY <2>2, MaybeIs
  <2> QED BY <2>1, <2>3 DEF StashKept
<1>8. PICK g \in Histories : g = Upstream BY HistoriesAssumption
<1>9. end = ReplayFrom(run, g, blocked, stash, outcome) BY <1>7, <1>8
<1>10. end \in AccType
  <2>1. PICK r \in LineType : r = run BY <1>5
  <2>2. end = ReplayFrom(r, g, blocked, stash, outcome) BY <1>9, <2>1
  <2>3. r \in LineType /\ g \in Histories /\ stash \in Maybe(SUBSET Locals) /\ outcome \in ApplyOutcomes OBVIOUS
  <2> QED BY ONLY <2>2, <2>3, Moves
<1>11. p \in PlanType /\ p.kind = "rebase" /\ p.start = Tip /\ p.todo = P /\ p.dropped = end.dropped
  <2>1. PICK edits \in SUBSET Locals : edits = Local BY <1>1, TipIs
  <2>2. PICK d \in SUBSET Int : d = end.dropped BY <1>10, AccIs
  <2>3. p = [Begun("rebase", P, edits) EXCEPT !.dropped = d] BY <1>6, <2>1, <2>2
  <2>4. BegunAs(p, "rebase", P, edits) BY <2>2, <2>3 DEF BegunAs
  <2>5. PlanIs(p, "rebase", P, edits) BY <2>1, <2>4, BegunIs
  <2>6. p.todo = P /\ p.dropped = d BY <2>3 DEF Begun
  <2> QED BY <2>2, <2>5, <2>6 DEF PlanIs
<1>12. PICK a : a = CreateAutostash \o WriteAutostash OBVIOUS
<1>13. PICK l : l = <<W("orig", <<Tip>>), W("index", Clean(Tree(Upstream))), W("head", <<Upstream>>)>> OBVIOUS
<1>14. PICK pre : pre = a \o l OBVIOUS
<1>15. pre \in Seq(WriteType) /\ RunOpens(pre) BY ONLY <1>1, <1>12, <1>13, <1>14, RunPre
<1>16. Late(pre, "head", repo.head) = <<g>> /\ Late(pre, "branch", repo.branch) = repo.branch
  <2>1. "branch" \in Fields \ RunNames BY FieldsAre DEF RunNames
  <2> QED BY <1>8, <1>15, <2>1 DEF RunOpens
<1>17. PICK D : D = {} OBVIOUS
<1>18. PICK k : k = 0 OBVIOUS
<1>19. Done(P, D, Len(Upstream), g, k)
  <2>1. g \in Seq(CommitType) BY HistoryIs
  <2>2. Done(P, {}, Len(g), g, 0) BY <2>1, DoneZero
  <2> QED BY <1>8, <1>17, <1>18, <2>2
<1>20. SourcesOf(run.todo) = SubSeq(P, k + 1, n)
  <2>1. SubSeq(P, 0 + 1, n) = P BY <1>6, WholeList
  <2> QED BY <1>5, <1>6, <1>18, <2>1
<1>21. p.dropped = D \cup end.dropped BY <1>11, <1>17
<1>22. PICK ws : ws = pre \o end.ws OBVIOUS
<1>23. repo.branch = p.start /\ n = Len(run.todo) /\ P = p.todo /\ n = Len(P) /\ outcome \in ApplyOutcomes BY <1>2, <1>4, <1>5, <1>6, <1>11
<1>24. RbFrom(p, P, n, D, k, g, run, n, blocked, stash, outcome, end, pre, ws)
  BY ONLY <1>1, <1>4, <1>5, <1>6, <1>7, <1>8, <1>9, <1>11, <1>15, <1>16, <1>19, <1>20, <1>21, <1>22, <1>23 DEF RbFrom
<1>25. RbAt(Then(repo, ws), p, Lasting) BY ONLY <1>24, RbLeaves
<1>26. SeqAt(Then(repo, ws), p, Lasting) BY <1>11 DEF SeqAt
<1>27. ExactAt(Then(repo, ws), p, Lasting) BY <1>25, <1>26 DEF ExactAt
<1> QED BY ONLY <1>12, <1>13, <1>14, <1>22, <1>27

\* The first of what is left, and the others.
LEMMA FirstLeft ==
  ASSUME NEW P \in Seq(Names), NEW N \in Nat, N = Len(P), NEW k \in 0 .. N, NEW x \in Names, NEW S \in Seq(Names),
         <<x>> \o S = SubSeq(P, k + 1, N)
  PROVE  k < N /\ P[k + 1] = x /\ S = SubSeq(P, (k + 1) + 1, N) /\ Len(S) = N - (k + 1)
<1>1. PICK a \in Seq(Names) : a = <<x>> /\ Len(a) = 1 /\ a[1] = x
  <2>1. <<x>> \in Seq(Names) /\ Len(<<x>>) = 1 /\ <<x>>[1] = x OBVIOUS
  <2> QED BY <2>1
<1>2. PICK L : L = SubSeq(P, k + 1, N) OBVIOUS
<1>3. L \in Seq(Names) /\ Len(L) = N - k /\ \A i \in 1 .. N - k : L[i] = P[k + i] BY <1>2, RestIs
<1>4. PICK s \in Nat : s = Len(S) BY LenProperties
<1>5. a \o S = L BY <1>1, <1>2
<1>6. Len(L) = 1 + s /\ (\A i \in 1 .. 1 : L[i] = a[i]) /\ \A i \in 1 .. s : L[1 + i] = S[i]
  <2> QED BY ConcatProperties, <1>1, <1>4, <1>5
<1>7. N - k = 1 + s BY <1>3, <1>6
<1>8. k < N /\ 1 \in 1 .. N - k /\ s = N - (k + 1) /\ k + 1 \in 0 .. N
  <2>1. N \in Nat /\ k \in 0 .. N /\ s \in Nat OBVIOUS
  <2> QED BY ONLY <1>7, <2>1
<1>9. P[k + 1] = x
  <2>1. 1 \in 1 .. 1 OBVIOUS
  <2>2. L[1] = x BY <1>1, <1>6, <2>1
  <2> QED BY <1>3, <1>8, <2>2
<1>10. PICK j \in 0 .. N : j = k + 1 BY <1>8
<1>11. PICK R : R = SubSeq(P, j + 1, N) OBVIOUS
<1>12. R \in Seq(Names) /\ Len(R) = N - j /\ \A i \in 1 .. N - j : R[i] = P[j + i] BY <1>11, RestIs
<1>13. ASSUME NEW i \in 1 .. s PROVE S[i] = R[i]
  <2> QED BY <1>7, <1>8, <1>10, <1>3, <1>6, <1>12
<1>14. s = N - j BY <1>8, <1>10
<1>15. S = R BY <1>4, <1>12, <1>13, <1>14, SeqEqual
<1> QED BY <1>4, <1>8, <1>9, <1>10, <1>11, <1>15

\* How a rebase goes on from the line it stopped at: that line was only put off, its
\* commit is dropped, or it is made.
Advanced(h, d) ==
  \/ repo.rbMessage = None /\ h = Tip /\ d = {}
  \/ repo.rbMessage # None /\ h = Tip /\ d = {Len(repo.rbTodo[1])}
  \/ repo.rbMessage # None /\ d = {} /\ \E c \in CommitType : h = Append(Tip, c) /\ c.src = repo.rbMessage[1].src

\* The plan from there.
LineFrom(P, N, S, todo, h, d) ==
  /\ Ready /\ P \in Seq(Names) /\ P = plan.todo /\ N \in Nat /\ N = Len(P)
  /\ S \in Seq(Names) /\ S = SourcesOf(repo.rbTodo[1]) /\ todo \in Seq(CommitType) /\ todo = repo.rbTodo[1] /\ repo.rbTodo # None
  /\ Shows(plan, Len(Upstream), Tip, RbPending(repo)) /\ h \in Histories /\ Advanced(h, d)
LineReached(P, N, S, h, d) == \E k : Done(P, plan.dropped \cup d, Len(Upstream), h, k) /\ S = SubSeq(P, k + 1, N)
LEMMA LineDealt ==
  ASSUME NEW P, NEW N, NEW S, NEW todo, NEW h, NEW d, LineFrom(P, N, S, todo, h, d)
  PROVE  LineReached(P, N, S, h, d)
<1> SUFFICES ASSUME Ready, P \in Seq(Names), P = plan.todo, N \in Nat, N = Len(P),
                    S \in Seq(Names), S = SourcesOf(repo.rbTodo[1]), todo \in Seq(CommitType), todo = repo.rbTodo[1], repo.rbTodo # None,
                    Shows(plan, Len(Upstream), Tip, RbPending(repo)), h \in Histories, Advanced(h, d)
             PROVE  \E k : Done(P, plan.dropped \cup d, Len(Upstream), h, k) /\ S = SubSeq(P, k + 1, N)
  BY DEF LineFrom, LineReached
<1>1. RepoOK(repo) BY DEF Ready
<1>2. PICK t \in Histories : t = Tip BY <1>1, TipIs
<1>3. t \in Seq(CommitType) BY HistoryIs
<1>4. PICK base \in Nat : base = Len(Upstream)
  <2>1. Upstream \in Seq(CommitType) BY HistoryIs, HistoriesAssumption
  <2> QED BY <2>1, LenProperties
<1>5. PICK k : Done(P, plan.dropped, base, t, k) /\ RbPending(repo) = SubSeq(P, k + 1, N) BY <1>2, <1>4 DEF Shows
<1>6. k \in 0 .. N BY <1>5 DEF Done
<1>7. CASE repo.rbMessage = None
  <2>1. h = t /\ d = {} BY <1>2, <1>7 DEF Advanced
  <2>2. RbPending(repo) = <<>> \o S BY <1>7 DEF RbPending
  <2>3. <<>> \o S = S BY ConcatEmptySeq
  <2>4. plan.dropped \cup d = plan.dropped BY <2>1
  <2> QED BY <1>4, <1>5, <2>1, <2>2, <2>3, <2>4
<1>8. CASE repo.rbMessage # None
  <2>1. PICK x \in Names : x = repo.rbMessage[1].src
    <3>1. repo.rbMessage \in Maybe(CommitType) BY <1>1, FieldsAre, KindsAre DEF RepoOK
    <3>2. repo.rbMessage[1] \in CommitType BY <1>8, <3>1, MaybeIs
    <3> QED BY <3>2 DEF CommitType, Names
  <2>2. RbPending(repo) = <<x>> \o S BY <1>8, <2>1 DEF RbPending
  <2>3. <<x>> \o S = SubSeq(P, k + 1, N) BY <1>5, <2>2
  <2>9. P \in Seq(Names) /\ N \in Nat /\ N = Len(P) /\ S \in Seq(Names) OBVIOUS
  <2>4. k < N /\ P[k + 1] = x /\ S = SubSeq(P, (k + 1) + 1, N) /\ Len(S) = N - (k + 1) BY ONLY <1>6, <2>1, <2>3, <2>9, FirstLeft
  <2>5. PICK j : j = k + 1 OBVIOUS
  <2>6. SUFFICES Done(P, plan.dropped \cup d, base, h, j) BY <1>4, <2>4, <2>5
  <2>7. CASE h = t /\ d = {Len(repo.rbTodo[1])}
    <3>1. Len(todo) = Len(S) BY SourcesAre
    <3>2. d = {N - (k + 1)} BY <2>4, <2>7, <3>1
    <3>3. Done(P, plan.dropped \cup {N - (k + 1)}, base, t, k + 1) BY <1>3, <1>5, <2>4, DoneSkip
    <3> QED BY <2>5, <2>7, <3>2, <3>3
  <2>8. CASE d = {} /\ \E c \in CommitType : h = Append(Tip, c) /\ c.src = repo.rbMessage[1].src
    <3>1. PICK c \in CommitType : h = Append(t, c) /\ c.src = P[k + 1] BY <1>2, <2>1, <2>4, <2>8
    <3>2. Done(P, plan.dropped, base, Append(t, c), k + 1) BY <1>3, <1>5, <2>4, <3>1, DoneOne
    <3>3. plan.dropped \cup d = plan.dropped BY <2>8
    <3> QED BY <2>5, <3>1, <3>2, <3>3
  <2> QED BY <1>2, <1>8, <2>7, <2>8 DEF Advanced
<1> QED BY <1>7, <1>8

LEMMA GoneOnExact ==
  ASSUME Ready, ExactAt(repo, plan, odd), RebaseReadable, NEW h \in Histories, NEW pre \in Seq(WriteType), Opens(pre, h),
         NEW blocked, NEW outcome \in ApplyOutcomes, NEW end, end = ReplayOn(h, blocked, outcome),
         NEW d, Advanced(h, d), NEW ws, ws = pre \o end.ws,
         NEW p \in PlanType, p.start = plan.start, p.todo = plan.todo, p.kind = plan.kind \/ p.kind = "none",
         p.dropped = (plan.dropped \cup d) \cup end.dropped
  PROVE  ExactAt(Then(repo, ws), p, odd \cup Attached)
<1>0. PICK o : o = odd \cup Attached OBVIOUS
<1>1. RepoOK(repo) /\ SeqAt(repo, plan, odd) /\ RbAt(repo, plan, odd) BY DEF Ready, ExactAt
<1>2. PICK run \in LineType : run = OnDisk /\ repo.rbOrig = <<run.orig>> BY OnDiskIs
<1>3. repo.rbOrig # None BY <1>2, Something
<1>4. SeqAt(Then(repo, ws), p, o)
  <2> QED BY <1>1, <1>3, <1>0 DEF SeqAt
<1>5. RbAt(Then(repo, ws), p, o)
  <2>1. SUFFICES ASSUME p.kind = "rebase", o \cap {"crash", "stale", "commit", "reset"} = {} PROVE RbAt(Then(repo, ws), p, o) BY DEF RbAt
  <2>2. plan.kind = "rebase" /\ odd \cap {"crash", "stale", "commit", "reset"} = {} BY <1>0, <2>1
  <2>3. repo.branch = p.start /\ repo.head # None /\ Shows(plan, Len(Upstream), Tip, RbPending(repo)) BY <1>1, <1>3, <2>2 DEF RbAt, Tip
  <2>4. run.orig = repo.branch
    <3>1. RebaseAt(repo, <<>>, plan, odd) BY AtRest DEF Ready
    <3>2. repo.rbOrig \in {None, <<plan.start>>} BY <2>2, <3>1 DEF RebaseAt
    <3>3. <<run.orig>> = <<plan.start>> BY <1>2, <1>3, <3>2
    <3> QED BY <2>3, <3>3
  <2>5. PICK P \in Seq(Names) : P = plan.todo /\ P = p.todo BY DEF PlanType
  <2>6. PICK N \in Nat : N = Len(P) BY LenProperties
  <2>7. PICK todo \in Seq(CommitType) : todo = repo.rbTodo[1] /\ repo.rbTodo # None /\ todo = run.todo BY <1>2, OnDiskIs DEF OnDisk
  <2>8. PICK n \in Nat : n = Len(run.todo) BY <2>7, LenProperties
  <2>9. PICK S \in Seq(Names) : S = SourcesOf(repo.rbTodo[1]) /\ S = SourcesOf(run.todo) BY <2>7, SourcesAre
  <2>10. PICK D : D = plan.dropped \cup d OBVIOUS
  <2>11. PICK k : Done(P, D, Len(Upstream), h, k) /\ S = SubSeq(P, k + 1, N)
    <3>1. Ready /\ h \in Histories /\ Advanced(h, d) OBVIOUS
    <3>2. LineFrom(P, N, S, todo, h, d) BY ONLY <2>3, <2>5, <2>6, <2>7, <2>9, <3>1 DEF LineFrom
    <3>3. LineReached(P, N, S, h, d) BY ONLY <3>2, LineDealt
    <3> QED BY <2>10, <3>3 DEF LineReached
  <2>12. PICK stash \in Maybe(SUBSET Locals) : stash = repo.rbStash BY OnDiskIs
  <2>13. end = ReplayFrom(run, h, blocked, stash, outcome) BY <1>2, <2>3, <2>12 DEF ReplayOn
  <2>14. Late(pre, "head", repo.head) = <<h>> /\ Late(pre, "branch", repo.branch) = repo.branch BY <2>3 DEF Opens
  <2>15. SourcesOf(run.todo) = SubSeq(P, k + 1, N) BY <2>9, <2>11
  <2>16. p.dropped = D \cup end.dropped BY <2>10
  <2>17. p \in PlanType /\ h \in Histories /\ pre \in Seq(WriteType) /\ outcome \in ApplyOutcomes /\ ws = pre \o end.ws OBVIOUS
  <2>18. RbFrom(p, P, N, D, k, h, run, n, blocked, stash, outcome, end, pre, ws)
    BY ONLY <1>1, <1>2, <2>3, <2>4, <2>5, <2>6, <2>8, <2>11, <2>12, <2>13, <2>14, <2>15, <2>16, <2>17 DEF RbFrom
  <2> QED BY ONLY <2>18, RbLeaves
<1> QED BY <1>0, <1>4, <1>5 DEF ExactAt

LEMMA RebaseContinueExact ==
  ASSUME Ready, ExactAt(repo, plan, odd), RebaseReadable, NEW blocked, NEW outcome \in ApplyOutcomes,
         NEW h, h = IF Rescheduled \/ repo.index.tree = Tree(Tip) THEN Tip
                    ELSE Append(Tip, Commit(repo.rbMessage[1].op, repo.rbMessage[1].src, Tip, repo.index.tree)),
         NEW end, end = ReplayOn(h, blocked, outcome),
         NEW d \in SUBSET Int, d = IF ~Rescheduled /\ repo.index.tree = Tree(Tip) THEN {Len(repo.rbTodo[1])} ELSE {}
  PROVE  ExactAt(Then(repo, (IF h = Tip THEN <<>> ELSE <<MoveHead(h), W("message", None)>>) \o end.ws), Dropping(d \cup end.dropped), odd \cup Attached)
<1>1. RepoOK(repo) /\ plan \in PlanType BY DEF Ready
<1>2. Tip \in Histories BY <1>1, TipIs
<1>3. h \in Histories /\ Advanced(h, d)
  <2>1. CASE Rescheduled
    <3> QED BY <2>1, <1>2 DEF Advanced, Rescheduled
  <2>2. CASE ~Rescheduled /\ repo.index.tree = Tree(Tip)
    <3> QED BY <2>2, <1>2 DEF Advanced, Rescheduled
  <2>3. CASE ~Rescheduled /\ repo.index.tree # Tree(Tip)
    <3>1. repo.rbMessage \in Maybe(CommitType) /\ repo.index \in IndexType BY <1>1, FieldsAre, KindsAre DEF RepoOK
    <3>2. PICK m \in CommitType : m = repo.rbMessage[1] BY <2>3, <3>1, MaybeIs DEF Rescheduled
    <3>3. m.op \in {"pick", "revert", "merge", "user"} /\ m.src \in Sources \cup {"merge"} BY DEF CommitType
    <3>4. repo.index.tree \in SUBSET Patches BY <3>1 DEF IndexType
    <3>5. PICK c : c = Commit(m.op, m.src, Tip, repo.index.tree) OBVIOUS
    <3>6. c \in CommitType BY <1>2, <3>3, <3>4, <3>5, CommitIs, SMTT(40)
    <3>7. c.src = m.src BY <3>5 DEF Commit
    <3>8. h = Append(Tip, c) /\ d = {} /\ repo.rbMessage # None BY <2>3, <3>2, <3>5 DEF Rescheduled
    <3>9. h \in Histories BY <1>2, <3>6, <3>8, HistoryIs
    <3>10. Advanced(h, d) BY <3>2, <3>6, <3>7, <3>8 DEF Advanced
    <3> QED BY <3>9, <3>10
  <2> QED BY <2>1, <2>2, <2>3
<1>4. PICK pre : pre = IF h = Tip THEN <<>> ELSE <<MoveHead(h), W("message", None)>> OBVIOUS
<1>5. pre \in Seq(WriteType) /\ Opens(pre, h)
  <2>1. Ready /\ h \in Histories BY <1>3
  <2> QED BY ONLY <1>4, <2>1, AdvanceOpens
<1>6. end \in AccType
  <2>1. PICK run \in LineType : run = OnDisk BY OnDiskIs
  <2>2. PICK stash \in Maybe(SUBSET Locals) : stash = repo.rbStash BY OnDiskIs
  <2> QED BY <1>3, <2>1, <2>2, GoesMoves
<1>7. PICK e \in SUBSET Int : e = end.dropped BY <1>6, AccIs
<1>8. PICK p : p = Dropping(d \cup end.dropped) OBVIOUS
<1>9. p \in PlanType /\ p.kind = plan.kind /\ p.start = plan.start /\ p.todo = plan.todo /\ p.dropped = (plan.dropped \cup d) \cup end.dropped
  <2>1. p = [plan EXCEPT !.dropped = @ \cup (d \cup e)] BY <1>7, <1>8 DEF Dropping
  <2> QED BY <1>1, <2>1, <1>7 DEF PlanType
<1>10. PICK ws : ws = pre \o end.ws OBVIOUS
<1>11. ExactAt(Then(repo, ws), p, odd \cup Attached)
  <2>1. /\ Ready /\ ExactAt(repo, plan, odd) /\ RebaseReadable /\ outcome \in ApplyOutcomes
        /\ end = ReplayOn(h, blocked, outcome)
    OBVIOUS
  <2> QED BY ONLY <1>3, <1>5, <1>9, <1>10, <2>1, GoneOnExact
<1> QED BY <1>4, <1>8, <1>10, <1>11

LEMMA RebaseSkipExact ==
  ASSUME Ready, ExactAt(repo, plan, odd), RebaseReadable, NEW blocked, NEW outcome \in ApplyOutcomes,
         NEW end, end = ReplayOn(Tip, blocked, outcome),
         NEW d \in SUBSET Int, d = IF Rescheduled THEN {} ELSE {Len(repo.rbTodo[1])},
         NEW a, a = <<W("dirty", {}), W("index", Clean(Tree(Tip)))>>,
         NEW b, b = IF Rescheduled THEN <<>> ELSE RemoveBranchState(repo.mergeStash)
  PROVE  ExactAt(Then(repo, a \o b \o end.ws), [Discarding(repo.dirty) EXCEPT !.dropped = @ \cup d \cup end.dropped], odd \cup Attached)
<1>1. RepoOK(repo) /\ plan \in PlanType BY DEF Ready
<1>2. PICK h \in Histories : h = Tip BY <1>1, TipIs
<1>3. Advanced(h, d) BY <1>2 DEF Advanced, Rescheduled
<1>4. b \in Seq(WriteType) /\ (b = <<>> \/ Sweeps(b))
  <2>1. CASE Rescheduled BY <2>1, NoneIs
  <2>2. CASE ~Rescheduled
    <3>2. b = RemoveBranchState(repo.mergeStash) BY <2>2
    <3> QED BY FieldsAre, KindsAre, <1>1, <3>2, Swept DEF RepoOK
  <2> QED BY <2>1, <2>2
<1>5. PICK pre : pre = a \o b OBVIOUS
<1>6. pre \in Seq(WriteType) /\ Opens(pre, h)
  <2> QED BY <1>4, DiscardOpens, <1>2, <1>5
<1>7. end = ReplayOn(h, blocked, outcome) BY <1>2
<1>8. end \in AccType
  <2>1. PICK run \in LineType : run = OnDisk BY OnDiskIs
  <2>2. PICK stash \in Maybe(SUBSET Locals) : stash = repo.rbStash BY OnDiskIs
  <2> QED BY <1>7, <2>1, <2>2, GoesMoves
<1>9. PICK e \in SUBSET Int : e = end.dropped BY <1>8, AccIs
<1>10. PICK p : p = [Discarding(repo.dirty) EXCEPT !.dropped = @ \cup d \cup end.dropped] OBVIOUS
<1>11. /\ p \in PlanType /\ p.start = plan.start /\ p.todo = plan.todo /\ p.dropped = (plan.dropped \cup d) \cup end.dropped
       /\ p.kind = plan.kind \/ p.kind = "none"
  <2>1. p = [Discarding(repo.dirty) EXCEPT !.dropped = @ \cup d \cup e] BY <1>9, <1>10
  <2> QED BY <2>1, <1>1, <1>9 DEF PlanType, Discarding, Closed
<1>12. PICK ws : ws = pre \o end.ws OBVIOUS
<1>13. ExactAt(Then(repo, ws), p, odd \cup Attached)
  <2>1. Ready /\ ExactAt(repo, plan, odd) /\ RebaseReadable /\ outcome \in ApplyOutcomes /\ h \in Histories OBVIOUS
  <2> QED BY ONLY <1>3, <1>6, <1>7, <1>11, <1>12, <2>1, GoneOnExact
<1> QED BY <1>5, <1>10, <1>12, <1>13

\* The fields a list or a rebase is read from.
ExactFields == {"branch", "head", "rbOrig", "seqTodo", "pick", "revert", "rbMessage", "rbTodo"}
LEMMA ExactReads ==
  ASSUME NEW A, NEW B, NEW p, NEW o, \A f \in ExactFields : A[f] = B[f], ExactAt(A, p, o)
  PROVE  ExactAt(B, p, o)
<1>1. /\ A.branch = B.branch /\ A.head = B.head /\ A.rbOrig = B.rbOrig /\ A.seqTodo = B.seqTodo /\ A.rbMessage = B.rbMessage /\ A.rbTodo = B.rbTodo
      /\ \A f \in {"pick", "revert"} : A[f] = B[f]
  BY DEF ExactFields
<1>2. SeqAt(B, p, o)
  <2>1. SUFFICES ASSUME p.kind \in {"pick", "revert"}, o \cap {"crash", "stale", "commit", "reset", "crossed"} = {} PROVE SeqAt(B, p, o) BY DEF SeqAt
  <2>3. A[p.kind] = B[p.kind] BY <1>1, <2>1
  <2>4. SeqPending(A, p.kind) = SeqPending(B, p.kind) BY <1>1, <2>3 DEF SeqPending
  <2> QED BY <2>1, <1>1, <2>3, <2>4 DEF SeqAt, ExactAt
<1>3. RbAt(B, p, o)
  <2>1. RbPending(A) = RbPending(B) BY <1>1 DEF RbPending
  <2> QED BY <1>1, <2>1 DEF ExactAt, RbAt
<1> QED BY <1>2, <1>3 DEF ExactAt

\* Nothing is asked after a kill, a commit or a reset by hand, or of another kind of plan.
LEMMA ExactElsewhere ==
  ASSUME NEW A, NEW p, NEW o, p.kind \notin {"pick", "revert", "rebase"} \/ o \cap {"crash", "commit", "reset"} # {}
  PROVE  ExactAt(A, p, o)
BY DEF ExactAt, SeqAt, RbAt

LEMMA StartedExact ==
  ASSUME NEW ws, NEW p, NEW o, Start(ws, p, o), ExactAt(Then(repo, ws), p, o)
  PROVE  Exact'
<1> QED BY DEF Exact, Start

LEMMA StartedElsewhere ==
  ASSUME NEW ws, NEW p, NEW o, Start(ws, p, o), p.kind \notin {"pick", "revert", "rebase"} \/ o \cap {"crash", "commit", "reset"} # {}
  PROVE  Exact'
BY StartedExact, ExactElsewhere

LEMMA ExactRests ==
  ASSUME Inv, Exact, queue = <<>>
  PROVE  Ready /\ Then(repo, <<>>) = repo /\ ExactAt(repo, plan, odd)
<1>1. Ready BY ReadyIs
<1>2. Then(repo, <<>>) = repo
  <2>1. repo = [f \in Fields |-> repo[f]] BY <1>1 DEF Ready, RepoOK
  <2> QED BY NoneIs, <2>1 DEF Then
<1> QED BY <1>1, <1>2 DEF Exact

LEMMA ReplayRunExactly ==
  ASSUME Inv, Exact, NEW op \in {"pick", "revert"}, NEW todo \in Lists(op), NEW allowEmpty \in BOOLEAN, ReplayRun(op, todo, allowEmpty)
  PROVE  Exact'
<1>1. PICK run : run = [op |-> op, multi |-> Len(todo) > 1, head |-> Tip, allowEmpty |-> allowEmpty, onEmpty |-> "stop"] OBVIOUS
<1>2. PICK end : end = RunSequence(run, todo, Tip) OBVIOUS
<1>3. PICK d : d = IF end.stopped /\ ~run.multi /\ end.ws = <<>> THEN {0} ELSE {} OBVIOUS
<1>31. d \in SUBSET Int
  <2>1. d \in {{0}, {}} BY ONLY <1>3
  <2> QED BY ONLY <2>1
<1>4. PICK p : p = [Begun(op, todo, {}) EXCEPT !.dropped = d] OBVIOUS
<1>5. OpenReplayRun /\ Start(end.ws, p, Lasting) BY ONLY ReplayRun(op, todo, allowEmpty), <1>1, <1>2, <1>3, <1>4 DEF ReplayRun
<1>6. Ready BY <1>5, ReadyIs DEF Start
<1>7. PICK l \in Seq(Sources) : l = todo BY ListsAssumption DEF Lists
<1>8. PICK n \in Nat : n = Len(l) BY LenProperties
<1>9. run \in RunType /\ run.op = op /\ (run.multi <=> n > 1) /\ run.onEmpty = "stop"
  <2>1. Tip \in Histories BY <1>6, TipIs DEF Ready
  <2>2. PICK m \in BOOLEAN : m = (n > 1)
    <3>1. CASE n > 1
      <4>1. TRUE = (n > 1) BY <3>1
      <4> QED BY ONLY <4>1, Zenon
    <3>2. CASE ~(n > 1)
      <4>1. FALSE = (n > 1) BY <3>2
      <4> QED BY ONLY <4>1, Zenon
    <3> QED BY <3>1, <3>2
  <2>3. m <=> n > 1 BY ONLY <2>2
  <2>4. run = [op |-> op, multi |-> m, head |-> Tip, allowEmpty |-> allowEmpty, onEmpty |-> "stop"]
    <3>1. Len(todo) = n BY <1>7, <1>8
    <3> QED BY ONLY <1>1, <2>2, <3>1
  <2>5. run \in RunType /\ run.op = op /\ run.onEmpty = "stop" BY ONLY <2>1, <2>4 DEF RunType
  <2>6. run.multi = m BY ONLY <2>4
  <2> QED BY <2>3, <2>5, <2>6
<1>10. end = RunSequence(run, l, Tip) /\ p = [Begun(op, l, {}) EXCEPT !.dropped = d] BY <1>2, <1>4, <1>7
<1>11. op \in {"pick", "revert"} /\ l \in Seq(Sources) /\ n \in Nat /\ n = Len(l) BY <1>8
<1>12. ExactAt(Then(repo, end.ws), p, Lasting) BY ONLY <1>3, <1>31, <1>5, <1>6, <1>9, <1>10, <1>11, ReplayRunExact
<1> QED BY <1>5, <1>12, StartedExact

LEMMA ContinueResolvedExactly ==
  ASSUME Inv, Exact, NEW op \in {"pick", "revert"}, NEW given \in BOOLEAN, ContinueResolved(op, given)
  PROVE  Exact'
<1>1. PICK h : h = Append(Tip, Commit(op, repo[Marker(op)][1], Tip, repo.index.tree)) OBVIOUS
<1>2. PICK end : end = RunSequence(Resumed(op, h, ResumeAllowsEmpty(op, given), "stop"), Rest, h) OBVIOUS
<1>3. PICK ws : ws = <<MoveHead(h), W(Marker(op), None), W("message", None)>> \o end.ws OBVIOUS
<1>4. repo[Marker(op)] # None /\ repo.head = None /\ Start(ws, plan, Crossing(op))
  BY ONLY ContinueResolved(op, given), <1>1, <1>2, <1>3 DEF ContinueResolved
<1>5. Ready /\ ExactAt(repo, plan, odd) BY <1>4, ExactRests DEF Start
<1>6. op \in {"pick", "revert"} /\ given \in BOOLEAN OBVIOUS
<1>7. ExactAt(Then(repo, <<MoveHead(h), W(Marker(op), None), W("message", None)>> \o end.ws), plan, Crossing(op))
  BY ONLY <1>1, <1>2, <1>4, <1>5, <1>6, ContinueResolvedExact
<1> QED BY <1>3, <1>4, <1>7, StartedExact

LEMMA ContinueMarkerlessExactly ==
  ASSUME Inv, Exact, NEW op \in {"pick", "revert"}, NEW given \in BOOLEAN, ContinueMarkerless(op, given)
  PROVE  Exact'
<1>1. PICK end : end = RunSequence(Resumed(op, Tip, ResumeAllowsEmpty(op, given), "drop"), Todo, Tip) OBVIOUS
<1>2. repo[Marker(op)] = None /\ OpenReplayResume(op) /\ repo.head = None /\ Start(end.ws, Dropping(end.dropped), Crossing(op))
  BY ONLY ContinueMarkerless(op, given), <1>1 DEF ContinueMarkerless
<1>3. Ready /\ ExactAt(repo, plan, odd) BY <1>2, ExactRests DEF Start
<1>4. op \in {"pick", "revert"} /\ given \in BOOLEAN OBVIOUS
<1>5. ExactAt(Then(repo, end.ws), Dropping(end.dropped), Crossing(op)) BY ONLY <1>1, <1>2, <1>3, <1>4, ContinueMarkerlessExact
<1> QED BY <1>2, <1>5, StartedExact

LEMMA ReplaySkipExactly ==
  ASSUME Inv, Exact, NEW op \in {"pick", "revert"}, NEW given \in BOOLEAN, ReplaySkip(op, given)
  PROVE  Exact'
<1>1. PICK end : end = RunSequence(Resumed(op, Tip, ResumeAllowsEmpty(op, given), "stop"), Rest, Tip) OBVIOUS
<1>2. PICK a : a = <<W("index", Clean(Tree(Tip))), W("orig", <<Tip>>)>> OBVIOUS
<1>3. PICK b : b = RemoveBranchState(repo.mergeStash) OBVIOUS
<1>4. OpenReplayResume(op) /\ repo.head = None /\ Start(a \o b \o end.ws, Dropping({Len(Rest)}), Crossing(op))
  BY ONLY ReplaySkip(op, given), <1>1, <1>2, <1>3 DEF ReplaySkip
<1>5. Ready /\ ExactAt(repo, plan, odd) BY <1>4, ExactRests DEF Start
<1>6. op \in {"pick", "revert"} /\ given \in BOOLEAN OBVIOUS
<1>7. ExactAt(Then(repo, a \o b \o end.ws), Dropping({Len(Rest)}), Crossing(op)) BY ONLY <1>1, <1>2, <1>3, <1>4, <1>5, <1>6, ReplaySkipExact
<1> QED BY <1>4, <1>7, StartedExact

LEMMA RebaseRunExactly ==
  ASSUME Inv, Exact, NEW autostash, NEW blocked, NEW outcome \in ApplyOutcomes, RebaseRun(autostash, blocked, outcome)
  PROVE  Exact'
<1>1. PICK run : run = [orig |-> Tip, todo |-> OwnCommits(Tip), done |-> <<>>] OBVIOUS
<1>2. PICK end : end = ReplayFrom(run, Upstream, blocked, StashKept, outcome) OBVIOUS
<1>3. PICK p : p = [Begun("rebase", PlannedSources, Local) EXCEPT !.dropped = end.dropped] OBVIOUS
<1>4. PICK ws : ws = CreateAutostash \o WriteAutostash \o <<W("orig", <<Tip>>), W("index", Clean(Tree(Upstream))), W("head", <<Upstream>>)>> \o end.ws OBVIOUS
<1>5. NoPendingOperation /\ repo.head = None /\ Start(ws, p, Lasting)
  BY ONLY RebaseRun(autostash, blocked, outcome), <1>1, <1>2, <1>3, <1>4 DEF RebaseRun, RebaseGuard
<1>6. Ready BY <1>5, ReadyIs DEF Start
<1>7. outcome \in ApplyOutcomes OBVIOUS
<1>8. ExactAt(Then(repo, CreateAutostash \o WriteAutostash
                         \o <<W("orig", <<Tip>>), W("index", Clean(Tree(Upstream))), W("head", <<Upstream>>)>> \o end.ws), p, Lasting)
  BY ONLY <1>1, <1>2, <1>3, <1>5, <1>6, <1>7, RebaseRunExact
<1> QED BY <1>4, <1>5, <1>8, StartedExact

LEMMA RebaseContinueExactly ==
  ASSUME Inv, Exact, NEW blocked, NEW outcome \in ApplyOutcomes, RebaseContinue(blocked, outcome)
  PROVE  Exact'
<1>1. PICK h : h = IF Rescheduled \/ repo.index.tree = Tree(Tip) THEN Tip
                   ELSE Append(Tip, Commit(repo.rbMessage[1].op, repo.rbMessage[1].src, Tip, repo.index.tree))
  OBVIOUS
<1>2. PICK end : end = ReplayOn(h, blocked, outcome) OBVIOUS
<1>3. PICK d : d = IF ~Rescheduled /\ repo.index.tree = Tree(Tip) THEN {Len(repo.rbTodo[1])} ELSE {} OBVIOUS
<1>4. PICK ws : ws = (IF h = Tip THEN <<>> ELSE <<MoveHead(h), W("message", None)>>) \o end.ws OBVIOUS
<1>5. RebaseReadable /\ Start(ws, Dropping(d \cup end.dropped), odd \cup Attached)
  BY ONLY RebaseContinue(blocked, outcome), <1>1, <1>2, <1>3, <1>4 DEF RebaseContinue
<1>6. Ready /\ ExactAt(repo, plan, odd) BY <1>5, ExactRests DEF Start
<1>7. d \in SUBSET Int BY <1>3, <1>5, <1>6, LineCount DEF Ready
<1>8. outcome \in ApplyOutcomes OBVIOUS
<1>9. ExactAt(Then(repo, (IF h = Tip THEN <<>> ELSE <<MoveHead(h), W("message", None)>>) \o end.ws), Dropping(d \cup end.dropped), odd \cup Attached)
  BY ONLY <1>1, <1>2, <1>3, <1>5, <1>6, <1>7, <1>8, RebaseContinueExact
<1> QED BY <1>4, <1>5, <1>9, StartedExact

LEMMA RebaseSkipExactly ==
  ASSUME Inv, Exact, NEW blocked, NEW outcome \in ApplyOutcomes, RebaseSkip(blocked, outcome)
  PROVE  Exact'
<1>1. PICK end : end = ReplayOn(Tip, blocked, outcome) OBVIOUS
<1>2. PICK d : d = IF Rescheduled THEN {} ELSE {Len(repo.rbTodo[1])} OBVIOUS
<1>3. PICK a : a = <<W("dirty", {}), W("index", Clean(Tree(Tip)))>> OBVIOUS
<1>4. PICK b : b = IF Rescheduled THEN <<>> ELSE RemoveBranchState(repo.mergeStash) OBVIOUS
<1>5. /\ RebaseReadable
      /\ Start(a \o b \o end.ws, [Discarding(repo.dirty) EXCEPT !.dropped = @ \cup d \cup end.dropped], odd \cup Attached)
  BY ONLY RebaseSkip(blocked, outcome), <1>1, <1>2, <1>3, <1>4 DEF RebaseSkip
<1>6. Ready /\ ExactAt(repo, plan, odd) BY <1>5, ExactRests DEF Start
<1>7. d \in SUBSET Int BY <1>2, <1>5, <1>6, LineCount DEF Ready
<1>8. outcome \in ApplyOutcomes OBVIOUS
<1>9. ExactAt(Then(repo, a \o b \o end.ws), [Discarding(repo.dirty) EXCEPT !.dropped = @ \cup d \cup end.dropped], odd \cup Attached)
  BY ONLY <1>1, <1>2, <1>3, <1>4, <1>5, <1>6, <1>7, <1>8, RebaseSkipExact
<1> QED BY <1>5, <1>9, StartedExact

\* The aborts, the merges and the refusals end the plan or begin one that is no replay.
LEMMA AbortsExactly ==
  ASSUME Inv, NEW outcome, NEW op,
         \/ ReplayAbort(op) \/ RebaseAbort(outcome) \/ MergeAbort(outcome)
  PROVE  Exact'
<1>0. plan \in PlanType BY DEF Inv, Types
<1>1. PICK p : p = [plan EXCEPT !.kind = "aborted"] OBVIOUS
<1>2. PICK g : g = [Discarding(repo.dirty) EXCEPT !.kind = "aborted"] OBVIOUS
<1>3. p.kind = "aborted" /\ g.kind = "aborted"
  <2>1. p.kind = "aborted" BY <1>0, <1>1 DEF PlanType
  <2>2. g.kind = "aborted" BY <1>0, <1>2 DEF Discarding, Closed, PlanType
  <2> QED BY <2>1, <2>2
<1>4. CASE ReplayAbort(op)
  <2>1. \E ws : Start(ws, p, odd) BY ONLY <1>1, <1>4 DEF ReplayAbort
  <2> QED BY <1>3, <2>1, StartedElsewhere
<1>5. CASE RebaseAbort(outcome)
  <2>1. \E ws : Start(ws, g, odd) BY ONLY <1>2, <1>5 DEF RebaseAbort
  <2> QED BY <1>3, <2>1, StartedElsewhere
<1>6. CASE MergeAbort(outcome)
  <2>1. \E ws : Start(ws, p, odd) BY ONLY <1>1, <1>6 DEF MergeAbort
  <2> QED BY <1>3, <2>1, StartedElsewhere
<1> QED BY <1>4, <1>5, <1>6

LEMMA MergesExactly ==
  ASSUME NEW autostash, NEW outcome, NEW commit, NEW dies, NEW checkout,
         \/ RebaseUpToDate(autostash, outcome) \/ RebaseRefused(autostash, checkout)
         \/ MergeUpToDate \/ MergeFastForward(autostash, outcome) \/ MergeClean(autostash, commit, outcome)
         \/ MergeConflict(autostash) \/ MergeRefused(autostash, dies, outcome)
  PROVE  Exact'
<1>1. \A k, t, l : Begun(k, t, l).kind = k BY DEF Begun
<1>2. PICK ws, k, t, l, o : Start(ws, Begun(k, t, l), o) /\ k \notin {"pick", "revert", "rebase"}
  <2>1. CASE RebaseUpToDate(autostash, outcome)
    <3> QED BY <2>1 DEF RebaseUpToDate
  <2>2. CASE RebaseRefused(autostash, checkout)
    <3> QED BY <2>2 DEF RebaseRefused
  <2>3. CASE MergeUpToDate
    <3>1. \E ws, l : Start(ws, Begun("uptodate", <<>>, l), Lasting) BY <2>3 DEF MergeUpToDate, BeginMerge
    <3> QED BY <3>1
  <2>4. CASE MergeFastForward(autostash, outcome)
    <3> QED BY <2>4 DEF MergeFastForward, BeginMerge
  <2>5. CASE MergeClean(autostash, commit, outcome)
    <3>1. PICK k : k = IF commit THEN "merged" ELSE "merge" OBVIOUS
    <3>3. k \notin {"pick", "revert", "rebase"} BY <3>1
    <3> QED BY <2>5, <3>1, <3>3 DEF MergeClean, BeginMerge
  <2>6. CASE MergeConflict(autostash)
    <3> QED BY <2>6 DEF MergeConflict, BeginMerge
  <2>7. CASE MergeRefused(autostash, dies, outcome)
    <3> QED BY <2>7 DEF MergeRefused
  <2> QED BY <2>1, <2>2, <2>3, <2>4, <2>5, <2>6, <2>7
<1> QED BY <1>1, <1>2, StartedElsewhere

LEMMA UserExactly ==
  ASSUME Inv, Exact, NextUser
  PROVE  Exact'
<1>1. ASSUME NEW i, NEW p, queue = <<>>, repo' = [repo EXCEPT !.index = i], queue' = queue, plan' = p, odd' = odd,
             \A A : ExactAt(A, plan, odd) => ExactAt(A, p, odd)
      PROVE  Exact'
  <2>1. Ready /\ ExactAt(repo, plan, odd) BY <1>1, ExactRests
  <2>2. PICK s : s = [repo EXCEPT !.index = i] OBVIOUS
  <2>3. DOMAIN repo = Fields BY <2>1 DEF Ready, RepoOK
  <2>4. \A f \in ExactFields : f \in Fields /\ f # "index" BY FieldsAre DEF ExactFields
  <2>5. \A f \in Fields : Then(s, <<>>)[f] = s[f]
    <3>2. \A f \in Fields : Late(<<>>, f, s[f]) = s[f] BY NoneIs
    <3> QED BY ThenIs, <3>2
  <2>6. \A f \in ExactFields : repo[f] = s[f] BY <2>2, <2>3, <2>4
  <2>8. ExactAt(Then(s, <<>>), plan, odd) BY <2>4, <2>5, <2>6, <2>1, ExactReads
  <2>9. ExactAt(Then(s, <<>>), p, odd) BY <1>1, <2>8
  <2> QED BY <1>1, <2>2, <2>9 DEF Exact
<1>2. CASE \E t \in {repo.index.tree, repo.index.both} : Resolve(t)
  <2>1. PICK t : Resolve(t) BY <1>2
  <2>2. PICK i : i = Clean(t) OBVIOUS
  <2> QED BY <2>1, <2>2, <1>1 DEF Resolve
<1>3. CASE Stage
  <2>1. PICK i : i = Clean(repo.index.tree \cup Adds["user"]) OBVIOUS
  <2>2. PICK p : p = Closed OBVIOUS
  <2>4. (p.kind = plan.kind \/ p.kind = "none") /\ p.start = plan.start /\ p.todo = plan.todo /\ p.dropped = plan.dropped
    <3>1. plan \in PlanType BY DEF Inv, Types
    <3> QED BY <2>2, <3>1 DEF Closed, PlanType
  <2>5. ASSUME NEW A, ExactAt(A, plan, odd) PROVE ExactAt(A, p, odd)
    <3>1. CASE p.kind = "none" BY <3>1, ExactElsewhere
    <3>2. CASE p.kind = plan.kind BY <2>4, <2>5, <3>2 DEF ExactAt, SeqAt, RbAt, Shows
    <3> QED BY <2>4, <3>1, <3>2
  <2> QED BY <1>3, <2>1, <2>2, <1>1, <2>5 DEF Stage
<1>4. CASE \E outcome \in ApplyOutcomes : CommitRun(outcome)
  <2>1. PICK o : o = odd \cup {"commit"} OBVIOUS
  <2>2. \E ws : Start(ws, Closed, o) BY ONLY <1>4, <2>1 DEF CommitRun
  <2>3. o \cap {"crash", "commit", "reset"} # {} BY <2>1
  <2> QED BY <2>2, <2>3, StartedElsewhere
<1>5. CASE \E n \in {1, Len(Tip)} : Reset(SubSeq(Tip, 1, n))
  <2>1. PICK o : o = odd \cup {"reset"} OBVIOUS
  <2>2. \E ws, p : Start(ws, p, o) BY ONLY <1>5, <2>1 DEF Reset
  <2>3. o \cap {"crash", "commit", "reset"} # {} BY <2>1
  <2> QED BY <2>2, <2>3, StartedElsewhere
<1> QED BY <1>2, <1>3, <1>4, <1>5 DEF NextUser

LEMMA WriteExactly ==
  ASSUME Inv, Exact, WriteNext
  PROVE  Exact'
<1>1. queue # <<>> /\ repo' = Apply(repo, Head(queue)) /\ queue' = Tail(queue) /\ plan' = plan /\ odd' = odd BY DEF WriteNext
<1>2. RepoOK(repo) /\ queue \in Seq(WriteType) BY DEF Inv, Types
<1>3. PICK w \in WriteType : w = Head(queue) BY <1>1, <1>2, HeadTailProperties
<1>4. PICK t \in Seq(WriteType) : t = Tail(queue) BY <1>1, <1>2, HeadTailProperties
<1>5. PICK s : s = Apply(repo, w) OBVIOUS
<1>6. queue = <<w>> \o t
  <2>1. PICK q \in Seq(WriteType) : q = queue BY <1>2
  <2>2. q # <<>> /\ w = Head(q) /\ t = Tail(q) BY <1>1, <1>3, <1>4, <2>1
  <2>3. q = <<Head(q)>> \o Tail(q) BY <2>2
  <2> QED BY <2>1, <2>2, <2>3
<1>7. Alike(Then(repo, queue), Then(s, t)) BY <1>2, <1>5, <1>6, WriteThen
<1>8. \A f \in ExactFields : Then(repo, queue)[f] = Then(s, t)[f]
  <2> QED BY FieldsAre, <1>7 DEF Alike, ExactFields
<1>9. ExactAt(Then(s, t), plan, odd) BY <1>8, ExactReads DEF Exact
<1> QED BY <1>1, <1>3, <1>4, <1>5, <1>9 DEF Exact

LEMMA NextExact == Inv /\ Exact /\ [Next]_vars => Exact'
<1> SUFFICES ASSUME Inv, Exact, [Next]_vars PROVE Exact' OBVIOUS
<1>1. CASE NextReplay
  <2>1. PICK op \in {"pick", "revert"} :
          \/ \E todo \in Lists(op), allowEmpty \in BOOLEAN : ReplayRun(op, todo, allowEmpty)
          \/ \E given \in BOOLEAN : ContinueResolved(op, given) \/ ContinueMarkerless(op, given) \/ ReplaySkip(op, given)
          \/ ReplayAbort(op)
    BY <1>1 DEF NextReplay
  <2> QED BY <2>1, ReplayRunExactly, ContinueResolvedExactly, ContinueMarkerlessExactly, ReplaySkipExactly, AbortsExactly
<1>2. CASE NextRebase
  <2>1. PICK autostash \in BOOLEAN, outcome \in ApplyOutcomes, blocked \in Blocked :
          \/ RebaseUpToDate(autostash, outcome)
          \/ RebaseRun(autostash, blocked, outcome)
          \/ \E checkout \in BOOLEAN : RebaseRefused(autostash, checkout)
          \/ RebaseContinue(blocked, outcome)
          \/ RebaseSkip(blocked, outcome)
          \/ RebaseAbort(outcome)
    BY <1>2 DEF NextRebase
  <2> QED BY <2>1, RebaseRunExactly, RebaseContinueExactly, RebaseSkipExactly, AbortsExactly, MergesExactly
<1>3. CASE NextMerge
  <2>1. PICK autostash \in BOOLEAN, outcome \in ApplyOutcomes :
          \/ MergeUpToDate
          \/ MergeFastForward(autostash, outcome)
          \/ \E commit \in BOOLEAN : MergeClean(autostash, commit, outcome)
          \/ MergeConflict(autostash)
          \/ \E dies \in BOOLEAN : MergeRefused(autostash, dies, outcome)
          \/ MergeAbort(outcome)
    BY <1>3 DEF NextMerge
  <2> QED BY <2>1, AbortsExactly, MergesExactly
<1>4. CASE NextUser BY <1>4, UserExactly
<1>5. CASE WriteNext BY <1>5, WriteExactly
<1>6. CASE Crash
  <2>2. PICK o : o = odd \cup {"crash"} /\ o \cap {"crash", "commit", "reset"} # {} OBVIOUS
  <2>3. \A A : ExactAt(A, plan, o) BY <2>2, ExactElsewhere
  <2>4. PICK r, q : r = repo' /\ q = queue' OBVIOUS
  <2>5. ExactAt(Then(r, q), plan, o) BY <2>3
  <2> QED BY <1>6, <2>2, <2>4, <2>5 DEF Exact, Crash
<1>7. CASE UNCHANGED vars
  <2> QED BY <1>7 DEF Exact, vars
<1> QED BY <1>1, <1>2, <1>3, <1>4, <1>5, <1>6, <1>7 DEF Next

LEMMA InitExact == Init => Exact
<1> SUFFICES ASSUME Init PROVE Exact OBVIOUS
<1>1. plan.kind = "none" BY DEF Init, NoPlan
<1> QED BY <1>1, ExactElsewhere DEF Exact

\* A plan k lines of which are done in h, with the rest pending, comes out whole.
LEMMA ShownIsWanted ==
  ASSUME plan \in PlanType, NEW base \in Nat, NEW h \in Seq(CommitType), NEW pending, Shows(plan, base, h, pending)
  PROVE  Beyond(h, base) \o pending = Wanted
<1>1. PICK P \in Seq(Names) : P = plan.todo BY DEF PlanType
<1>2. PICK N \in Nat : N = Len(P) BY LenProperties
<1>3. PICK k : Done(P, plan.dropped, base, h, k) /\ pending = SubSeq(P, k + 1, N) BY <1>1, <1>2 DEF Shows
<1>4. Whole(P, plan.dropped, base, h, k, N)
  <2>1. P \in Seq(Names) /\ base \in Nat /\ h \in Seq(CommitType) /\ N \in Nat /\ N = Len(P) /\ Done(P, plan.dropped, base, h, k) BY <1>2, <1>3
  <2> QED BY ONLY <2>1, DoneAll
<1>5. Keep(plan.todo, plan.dropped) = Kept BY DEF Keep, Kept
<1>6. Wanted = Keep(P, plan.dropped)[N] BY <1>1, <1>2, <1>5 DEF Wanted
<1> QED BY <1>3, <1>4, <1>6 DEF Whole

LEMMA ExactReplays == Inv /\ Exact => ReplaysExact
<1> SUFFICES ASSUME Inv, Exact PROVE ReplaysExact OBVIOUS
<1>1. ASSUME Idle, plan.kind \in {"pick", "revert"}, Undisturbed({"crash", "stale", "commit", "reset", "crossed"})
      PROVE  Beyond(repo.branch, Len(plan.start)) \o (IF repo.seqTodo # None THEN repo.seqTodo[1] ELSE repo[plan.kind]) = Wanted
  <2>1. Ready /\ ExactAt(repo, plan, odd) BY <1>1, ExactRests DEF Idle
  <2>2. Shows(plan, Len(plan.start), repo.branch, SeqPending(repo, plan.kind)) BY <1>1, <2>1 DEF ExactAt, SeqAt, Undisturbed
  <2>3. plan \in PlanType /\ RepoOK(repo) BY <2>1 DEF Ready
  <2>4. PICK base \in Nat : base = Len(plan.start) BY <2>3, LenProperties DEF PlanType
  <2>5. PICK h \in Seq(CommitType) : h = repo.branch
    <3>1. repo.branch \in Histories BY <2>3, FieldsAre, KindsAre DEF RepoOK
    <3> QED BY <3>1, HistoryIs
  <2>6. PICK pending : pending = SeqPending(repo, plan.kind) OBVIOUS
  <2> QED BY <2>2, <2>3, ShownIsWanted, <2>4, <2>5, <2>6 DEF SeqPending
<1>2. ASSUME Idle, plan.kind = "rebase", Undisturbed({"crash", "stale", "commit", "reset"})
      PROVE  Beyond(Tip, Len(Upstream)) \o (IF repo.rbMessage = None THEN <<>> ELSE <<repo.rbMessage[1].src>>)
               \o (IF repo.rbTodo = None THEN <<>> ELSE SourcesOf(repo.rbTodo[1])) = Wanted
  <2>1. Ready /\ ExactAt(repo, plan, odd) BY <1>2, ExactRests DEF Idle
  <2>3. plan \in PlanType /\ RepoOK(repo) BY <2>1 DEF Ready
  <2>4. PICK base \in Nat : base = Len(Upstream)
    <3>1. Upstream \in Seq(CommitType) BY HistoryIs, HistoriesAssumption
    <3> QED BY <3>1, LenProperties
  <2>5. PICK h \in Seq(CommitType) : h = Tip BY <2>3, TipIs, HistoryIs
  <2>6. PICK a \in Seq(Names) : a = IF repo.rbMessage = None THEN <<>> ELSE <<repo.rbMessage[1].src>>
    <3>1. CASE repo.rbMessage = None BY <3>1, EmptySeq
    <3>2. CASE repo.rbMessage # None
      <4>1. repo.rbMessage \in Maybe(CommitType) BY <2>3, FieldsAre, KindsAre DEF RepoOK
      <4>2. repo.rbMessage[1] \in CommitType BY <3>2, <4>1, MaybeIs
      <4>3. PICK x \in Names : x = repo.rbMessage[1].src BY <4>2 DEF CommitType, Names
      <4>4. <<x>> \in Seq(Names) OBVIOUS
      <4> QED BY <3>2, <4>3, <4>4
    <3> QED BY <3>1, <3>2
  <2>7. PICK b \in Seq(Names) : b = IF repo.rbTodo = None THEN <<>> ELSE SourcesOf(repo.rbTodo[1])
    <3>1. CASE repo.rbTodo = None BY <3>1, EmptySeq
    <3>2. CASE repo.rbTodo # None
      <4>1. repo.rbTodo \in Maybe(Seq(CommitType)) BY <2>3, FieldsAre, KindsAre DEF RepoOK
      <4>2. PICK l \in Seq(CommitType) : l = repo.rbTodo[1] BY <3>2, <4>1, MaybeIs
      <4>3. SourcesOf(l) \in Seq(Names) BY SourcesAre
      <4> QED BY <3>2, <4>2, <4>3
    <3> QED BY <3>1, <3>2
  <2>8. RbPending(repo) = a \o b BY <2>6, <2>7 DEF RbPending
  <2>9. Shows(plan, base, h, a \o b) BY <1>2, <2>1, <2>4, <2>5, <2>8 DEF ExactAt, RbAt, Undisturbed, Tip
  <2>10. Beyond(h, base) \o (a \o b) = Wanted BY <2>3, <2>9, ShownIsWanted
  <2>11. Beyond(h, base) \in Seq(Names)
    <3>1. PICK n \in Nat : n = Len(h) BY LenProperties
    <3>2. PICK k : Done(plan.todo, plan.dropped, base, h, k) BY <2>9 DEF Shows
    <3>3. PICK x \in Seq(Names) : Len(x) = base /\ SourcesOf(h) = x \o Keep(plan.todo, plan.dropped)[k] BY <3>2 DEF Done
    <3>4. base \in 0 .. n
      <4>1. PICK K \in Seq(Names) : K = Keep(plan.todo, plan.dropped)[k]
        <5>1. PICK P \in Seq(Names) : P = plan.todo BY <2>3 DEF PlanType
        <5>2. PICK N \in Nat : N = Len(P) BY LenProperties
        <5>3. k \in 0 .. N BY <3>2, <5>1, <5>2 DEF Done
        <5>4. PICK y : y = Keep(P, plan.dropped) OBVIOUS
        <5> QED BY <5>2, KeepIs, <5>1, <5>3, <5>4 DEF KeepSteps
      <4>3. Len(SourcesOf(h)) = n BY <3>1, SourcesAre
      <4> QED BY ConcatProperties, LenProperties, <3>3, <4>1, <4>3
    <3>5. PICK g : g = SubSeq(h, base + 1, n) OBVIOUS
    <3>6. g \in Seq(CommitType) BY <3>1, <3>4, <3>5, RestIs
    <3> QED BY <3>1, <3>5, <3>6, SourcesAre DEF Beyond
  <2>12. PICK y \in Seq(Names) : y = Beyond(h, base) BY <2>11
  <2>13. (y \o a) \o b = y \o (a \o b) BY ConcatAssociative
  <2>14. Beyond(Tip, Len(Upstream)) = y BY <2>4, <2>5, <2>12
  <2>15. Wanted = (y \o a) \o b BY <2>10, <2>12, <2>13
  <2> QED BY <2>6, <2>7, <2>14, <2>15
<1>3. SequenceExact BY <1>1 DEF SequenceExact
<1>4. RebaseExact BY <1>2 DEF RebaseExact
<1> QED BY <1>3, <1>4 DEF ReplaysExact

\* ReplaysExact, for every instance: over any stops, --continue, --skip and commands in
\* between, a list of picks or reverts and a rebase lose no commit and make none twice.
THEOREM ReplaysExactHolds == Spec => []ReplaysExact
<1>1. Init => Inv /\ Exact BY InitInv, InitExact
<1>2. (Inv /\ Exact) /\ [Next]_vars => (Inv /\ Exact)' BY NextInv, NextExact
<1>3. Inv /\ Exact => ReplaysExact BY ExactReplays
<1> QED BY <1>1, <1>2, <1>3, PTL DEF Spec

=============================================================================
